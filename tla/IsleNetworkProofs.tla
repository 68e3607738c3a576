-------------------------- MODULE IsleNetworkProofs --------------------------
(***************************************************************************)
(* The addresses, the bridge and the rules of the firewall, for networks   *)
(* of any size and any number of boots and restarts; the forwarding of     *)
(* ports, for any number of containers and ports; and the connections that *)
(* are relayed, for any number of clients and bytes.                       *)
(***************************************************************************)
EXTENDS IsleNetwork, IslePorts, IsleRelay, InductionLemmas

------------------------------------------------------------------------------
(* The inductive invariant.                                                 *)

NwPcs == NwConfiguring \cup {"idle", "up", "adopted", "over"}
Versions == {"v4", "v6"}

ShapeInv ==
    /\ nwLast \in 1..(NwSize - 1) /\ nwPc \in [NwBoots -> NwPcs]
    /\ nwStart \in [NwBoots -> 0..(NwSize - 1)] /\ nwIp \in [NwBoots -> (0..(NwSize - 1)) \ {NwGateway}]
    /\ nwProc \in [NwBoots -> {"none", "alive", "dead"}]
    /\ nwLink \in [NwBoots -> {"none", "bare", "addressed"}]
    /\ nwBridge \in {"none", "up"} /\ nwGw \subseteq Versions /\ nwNat \in Nat /\ nwRaced \in {"no", "yes"}
    /\ nwRules \in [NwBoots -> SUBSET Versions]
    /\ nwDel \in [NwDeleters -> [NwBoots -> {"idle", "v4", "v6", "done"}]]
    /\ nwMiss \in [NwBoots -> {"none", "boot", "exit", "teardown", "restart"}]
    /\ nwSeen \in [NwBoots -> Nat] /\ nwAt \in [NwBoots -> Nat] /\ nwIn \in [NwBoots -> Nat]
    /\ nwCount \in Nat /\ nwRun \in Nat

(* What a boot has made where StartContainer is: its link, its rules, the   *)
(* bridge, the gateways and the rule for the metadata address.              *)
BootInv(b) ==
    /\ nwPc[b] = "idle" \/ nwPc[b] = "over" \/ nwBridge = "up"
    /\ nwPc[b] \in {"gw6", "nat", "append", "masq4", "masq6", "configured", "up", "adopted"} => "v4" \in nwGw
    /\ nwPc[b] \in {"nat", "append", "masq4", "masq6", "configured", "up", "adopted"} => "v6" \in nwGw
    /\ nwPc[b] \in {"masq4", "masq6", "configured", "up", "adopted"} => nwNat > 0
    /\ nwPc[b] = "masq6" => nwRules[b] = {"v4"}
    /\ nwPc[b] = "configured" => nwRules[b] = Versions
    /\ nwPc[b] \notin {"up", "adopted", "over"} => \A d \in NwDeleters : nwDel[d][b] = "idle"
    /\ nwPc[b] \notin {"masq6", "configured", "up", "adopted", "over"} => nwRules[b] = {}

(* While eth0 has its addresses both rules are there and nobody deletes     *)
(* them; once it is gone without a mishap, the one deleter that saw its     *)
(* addresses has removed the rules or is at it.                             *)
Removing(b) ==
    \/ nwRules[b] = {}
    \/ \E d \in NwDeleters : nwDel[d][b] = "v4" \/ (nwDel[d][b] = "v6" /\ nwRules[b] \subseteq {"v6"})
LinkInv(b) ==
    /\ nwPc[b] \in NwConfiguring => nwProc[b] = "alive"
    /\ nwPc[b] \in {"port", "gw6", "nat", "append", "masq4", "masq6", "configured"} => nwLink[b] = "addressed"
    /\ nwPc[b] \in {"up", "adopted"} =>
         /\ nwLink[b] = "addressed" => nwRules[b] = Versions /\ \A d \in NwDeleters : nwDel[d][b] = "idle"
         /\ nwProc[b] # "alive" => nwLink[b] # "addressed"
    /\ nwPc[b] = "over" /\ nwMiss[b] = "none" => nwLink[b] # "addressed"
    /\ nwPc[b] \in {"up", "adopted", "over"} /\ nwMiss[b] = "none" /\ nwLink[b] # "addressed" => Removing(b)

(* Until two boots have met in AppendUnique at most one is in it, and the   *)
(* rule for the metadata address is not there yet.                          *)
NatInv ==
    nwRaced = "no" =>
        /\ nwNat <= 1
        /\ \A b \in NwBoots : nwPc[b] = "append" => nwNat = 0 /\ \A c \in NwBoots : nwPc[c] = "append" => c = b

(* The allocations of a run of the guest are numbered from 1 without gaps.  *)
(* Each begins at the address of the one that it has seen last, or at the   *)
(* gateway's, and takes the next.                                           *)
Allocated(b) == nwIp[b] # 0
Numbered(r, k, b) == Allocated(b) /\ nwIn[b] = r /\ nwAt[b] = k
BeginsAt(r, k, a) == IF k = 0 THEN a = NwGateway ELSE \A o \in NwBoots : Numbered(r, k, o) => nwIp[o] = a
NumberInv ==
    /\ \A b \in NwBoots : Allocated(b) => /\ nwPc[b] \notin {"idle", "bridge", "veth", "alloc"}
                                          /\ nwIn[b] <= nwRun /\ nwAt[b] > 0
                                          /\ nwIn[b] = nwRun => nwAt[b] <= nwCount
    /\ \A b, c \in NwBoots : Allocated(b) /\ Numbered(nwIn[b], nwAt[b], c) => b = c
    /\ \A k \in 1..nwCount : \E o \in NwBoots : Numbered(nwRun, k, o)
    /\ \A b \in NwBoots : \A k \in 1..nwAt[b] : Allocated(b) => \E o \in NwBoots : Numbered(nwIn[b], k, o)
OrderInv ==
    /\ BeginsAt(nwRun, nwCount, nwLast)
    /\ \A b \in NwBoots : nwPc[b] = "alloc" => /\ nwSeen[b] <= nwCount /\ nwStart[b] \in 1..(NwSize - 1)
                                                /\ BeginsAt(nwRun, nwSeen[b], nwStart[b])
    /\ \A b \in NwBoots : Allocated(b) => /\ nwSeen[b] < nwAt[b] /\ nwStart[b] \in 1..(NwSize - 1)
                                          /\ BeginsAt(nwIn[b], nwSeen[b], nwStart[b])
                                          /\ nwIp[b] = NwNext(nwStart[b])

NwInv ==
    /\ ShapeInv /\ NatInv /\ NumberInv /\ OrderInv
    /\ \A b \in NwBoots : BootInv(b) /\ LinkInv(b)

------------------------------------------------------------------------------
(* What allocIP finds.                                                      *)

(* The addresses that the loop of allocIP goes through, as an equation.     *)
IsWalk(start, f) == f = [i \in 0..NwSize |-> IF i = 0 THEN start ELSE NwAfter(f[i - 1])]

(* They are a round trip: at most two wraps in NwSize rounds.               *)
LEMMA WalkIs ==
    ASSUME NEW start \in 1..(NwSize - 1)
    PROVE  IsWalk(start, NwWalk(start))
<1> DEFINE place(k) == IF k < NwSize THEN k
                       ELSE IF k - (NwSize - 1) < NwSize THEN k - (NwSize - 1) ELSE k - (NwSize - 1) - (NwSize - 1)
           w == [i \in 0..NwSize |-> place(start + i)]
<1>1. ASSUME NEW i \in 0..NwSize, i # 0 PROVE place(start + i) = NwAfter(w[i - 1])
  <2>1. i - 1 \in 0..NwSize /\ w[i - 1] = place(start + (i - 1))
    BY <1>1, NwAssumption
  <2>2. place(start + i) = NwAfter(place(start + (i - 1)))
    BY <1>1, NwAssumption DEF NwAfter
  <2> QED BY <2>1, <2>2
<1>2. place(start + 0) = start
  BY NwAssumption
<1> HIDE DEF place
<1>3. IsWalk(start, w)
  BY <1>1, <1>2 DEF IsWalk
<1> HIDE DEF w
<1> QED BY <1>3 DEF IsWalk, NwWalk

(* allocIP finds the next address, passing over 0 and the gateway's, unless *)
(* there is no other than the one it starts from.                           *)
LEMMA NextIs ==
    ASSUME NEW start \in 1..(NwSize - 1)
    PROVE  NwNext(start) = IF start + 1 < NwSize THEN start + 1
                           ELSE IF start = 2 THEN 0 ELSE 2
<1> DEFINE tried == NwWalk(start)
           ends == {i \in 1..NwSize : tried[i] = start \/ tried[i] \notin NwUsed}
           last == CHOOSE i \in ends : \A j \in ends : i <= j
<1>1. tried = [i \in 0..NwSize |-> IF i = 0 THEN start ELSE NwAfter(tried[i - 1])]
  BY WalkIs DEF IsWalk
<1>2. NwNext(start) = IF tried[last] = start THEN 0 ELSE tried[last]
  BY DEF NwNext
<1>3. /\ 1 \in 1..NwSize /\ 2 \in 1..NwSize /\ 0 \in 0..NwSize /\ 1 \in 0..NwSize /\ 2 \in 0..NwSize
      /\ NwAfter(1) = 2 /\ NwAfter(start) = IF start + 1 < NwSize THEN start + 1 ELSE 1
  BY NwAssumption DEF NwAfter
<1>4. tried[1] = NwAfter(start) /\ tried[2] = NwAfter(NwAfter(start))
  BY <1>1, <1>3
<1>5. last \in ends /\ \A j \in ends : last <= j
  <2>1. ends # {}
    <3>1. 1 \in ends \/ 2 \in ends
      BY <1>3, <1>4 DEF NwUsed, NwGateway
    <3> QED BY <3>1
  <2>2. ends \subseteq Nat
    OBVIOUS
  <2>3. \E i \in ends : \A j \in ends : i <= j
    <3> HIDE DEF ends
    <3> QED BY <2>1, <2>2, HasLeast
  <2> HIDE DEF ends
  <2> QED BY <2>3
<1> HIDE DEF last
<1>6. last \in 1..NwSize /\ (tried[last] = start \/ tried[last] # 1)
  BY <1>5 DEF NwUsed, NwGateway
<1>7. CASE start + 1 < NwSize
  <2>1. tried[1] = start + 1 /\ 1 \in ends
    BY <1>3, <1>4, <1>7 DEF NwUsed, NwGateway
  <2>2. last = 1
    BY <1>5, <1>6, <2>1
  <2> QED BY <1>2, <1>7, <2>1, <2>2
<1>8. CASE ~(start + 1 < NwSize)
  <2>1. tried[1] = 1 /\ tried[2] = 2 /\ start # 1 /\ 2 \in ends /\ 1 \notin ends
    BY <1>3, <1>4, <1>8, NwAssumption DEF NwUsed, NwGateway
  <2>2. last = 2
    BY <1>5, <1>6, <2>1
  <2> QED BY <1>2, <1>8, <2>1, <2>2
<1> QED BY <1>7, <1>8

------------------------------------------------------------------------------
(* What a step leaves alone.                                                *)

bootVars(b) == <<nwPc[b], nwProc[b], nwLink[b], nwRules[b], nwMiss[b], nwDel["start"][b], nwDel["cleanup"][b]>>
Grows == (nwBridge = "up" => nwBridge' = "up") /\ nwGw \subseteq nwGw' /\ nwNat' \in Nat /\ nwNat' >= nwNat

(* The bridge and its rules only grow, so that a boot that is left alone    *)
(* keeps what it needs of them.                                             *)
LEMMA OtherBoot ==
    ASSUME NEW c \in NwBoots, BootInv(c), LinkInv(c), nwNat \in Nat, Grows, UNCHANGED bootVars(c)
    PROVE  BootInv(c)' /\ LinkInv(c)'
<1>1. /\ nwPc'[c] = nwPc[c] /\ nwProc'[c] = nwProc[c] /\ nwLink'[c] = nwLink[c] /\ nwRules'[c] = nwRules[c]
      /\ nwMiss'[c] = nwMiss[c] /\ \A d \in NwDeleters : nwDel'[d][c] = nwDel[d][c]
  BY DEF bootVars, NwDeleters
<1>2. BootInv(c)'
  <2>1. nwNat > 0 => nwNat' > 0
    BY DEF Grows
  <2> QED BY <1>1, <2>1 DEF BootInv, Grows
<1>3. Removing(c) => Removing(c)'
  BY <1>1 DEF Removing
<1>4. LinkInv(c)'
  BY <1>1, <1>3 DEF LinkInv, NwConfiguring
<1> QED BY <1>2, <1>4

(* A step that allocates nothing, and in which no boot goes back to before  *)
(* its allocation, keeps the numbers.                                       *)
LEMMA NoAllocation ==
    ASSUME ShapeInv, NumberInv, OrderInv, UNCHANGED <<nwLast, nwStart, nwIp, nwHistory>>,
           \A b \in NwBoots : nwPc'[b] = nwPc[b] \/ nwPc'[b] \notin {"idle", "alloc"},
           \A b \in NwBoots : nwPc'[b] = nwPc[b] \/ ~Allocated(b) \/ nwPc'[b] \notin {"bridge", "veth"}
    PROVE  NumberInv' /\ OrderInv'
<1>1. /\ nwLast' = nwLast /\ nwStart' = nwStart /\ nwIp' = nwIp /\ nwSeen' = nwSeen /\ nwAt' = nwAt
      /\ nwCount' = nwCount /\ nwRun' = nwRun /\ nwIn' = nwIn
  BY DEF nwHistory
<1>2. \A r, k, a : BeginsAt(r, k, a)' <=> BeginsAt(r, k, a)
  BY <1>1 DEF BeginsAt, Numbered, Allocated
<1>3. NumberInv'
  BY <1>1 DEF NumberInv, Numbered, Allocated
<1>4. OrderInv'
  BY <1>1, <1>2 DEF OrderInv, Allocated, BeginsAt, Numbered
<1> QED BY <1>3, <1>4

(* A step of one boot.                                                      *)
LEMMA OneBoot ==
    ASSUME NwInv, NEW b \in NwBoots, ShapeInv', NatInv', NumberInv', OrderInv', Grows,
           \A c \in NwBoots \ {b} : UNCHANGED bootVars(c), BootInv(b)', LinkInv(b)'
    PROVE  NwInv'
<1>1. ASSUME NEW c \in NwBoots PROVE BootInv(c)' /\ LinkInv(c)'
  <2>1. CASE c = b
    BY <2>1
  <2>2. CASE c # b
    <3>1. UNCHANGED bootVars(c) /\ BootInv(c) /\ LinkInv(c) /\ nwNat \in Nat
      BY <2>2 DEF NwInv, ShapeInv
    <3> QED BY <3>1, OtherBoot
  <2> QED BY <2>1, <2>2
<1> QED BY <1>1 DEF NwInv

------------------------------------------------------------------------------
(* The steps.                                                               *)

(* setupBridge.                                                             *)
LEMMA EnsureBridgeStep == ASSUME NwInv, NEW b \in NwBoots, NwEnsureBridge(b) PROVE NwInv'
<1>1. ShapeInv /\ NatInv /\ NumberInv /\ OrderInv /\ BootInv(b) /\ LinkInv(b)
  BY DEF NwInv
<1>2. ShapeInv' /\ Grows
  BY <1>1 DEF ShapeInv, Grows, NwEnsureBridge, nwBr, nwHistory, NwPcs, NwConfiguring, Versions
<1>3. \A c \in NwBoots \ {b} : UNCHANGED bootVars(c)
  BY <1>1 DEF ShapeInv, NwEnsureBridge, bootVars
<1>4. BootInv(b)'
  BY <1>1 DEF ShapeInv, BootInv, NwEnsureBridge, nwBr, Versions, NwConfiguring
<1>5. LinkInv(b)'
  BY <1>1 DEF ShapeInv, BootInv, LinkInv, Removing, NwEnsureBridge, nwBr, Versions, NwConfiguring
<1>6. NatInv'
  BY <1>1 DEF ShapeInv, NatInv, NwEnsureBridge, nwBr
<1>7. NumberInv' /\ OrderInv'
  BY <1>1, NoAllocation DEF ShapeInv, NumberInv, NwEnsureBridge, nwHistory, NwConfiguring
<1> QED BY <1>2, <1>3, <1>4, <1>5, <1>6, <1>7, OneBoot

(* setupVeth.                                                               *)
LEMMA VethStep == ASSUME NwInv, NEW b \in NwBoots, NwVeth(b) PROVE NwInv'
<1>1. ShapeInv /\ NatInv /\ NumberInv /\ OrderInv /\ BootInv(b) /\ LinkInv(b)
  BY DEF NwInv
<1>2. ShapeInv' /\ Grows
  BY <1>1 DEF ShapeInv, Grows, NwVeth, nwBr, nwHistory, NwPcs, NwConfiguring, Versions
<1>3. \A c \in NwBoots \ {b} : UNCHANGED bootVars(c)
  BY <1>1 DEF ShapeInv, NwVeth, bootVars
<1>4. BootInv(b)'
  BY <1>1 DEF ShapeInv, BootInv, NwVeth, nwBr, Versions, NwConfiguring
<1>5. LinkInv(b)'
  BY <1>1 DEF ShapeInv, BootInv, LinkInv, Removing, NwVeth, nwBr, Versions, NwConfiguring
<1>6. NatInv'
  BY <1>1 DEF ShapeInv, NatInv, NwVeth, nwBr
<1>7. NumberInv' /\ OrderInv'
  BY <1>1, NoAllocation DEF ShapeInv, NumberInv, NwVeth, nwHistory, NwConfiguring
<1> QED BY <1>2, <1>3, <1>4, <1>5, <1>6, <1>7, OneBoot

(* configureIface.                                                          *)
LEMMA ConfigureIfaceStep == ASSUME NwInv, NEW b \in NwBoots, NwConfigureIface(b) PROVE NwInv'
<1>1. ShapeInv /\ NatInv /\ NumberInv /\ OrderInv /\ BootInv(b) /\ LinkInv(b)
  BY DEF NwInv
<1>2. ShapeInv' /\ Grows
  BY <1>1 DEF ShapeInv, Grows, NwConfigureIface, nwBr, nwHistory, NwPcs, NwConfiguring, Versions
<1>3. \A c \in NwBoots \ {b} : UNCHANGED bootVars(c)
  BY <1>1 DEF ShapeInv, NwConfigureIface, bootVars
<1>4. BootInv(b)'
  BY <1>1 DEF ShapeInv, BootInv, NwConfigureIface, nwBr, Versions, NwConfiguring
<1>5. LinkInv(b)'
  BY <1>1 DEF ShapeInv, BootInv, LinkInv, Removing, NwConfigureIface, nwBr, Versions, NwConfiguring
<1>6. NatInv'
  BY <1>1 DEF ShapeInv, NatInv, NwConfigureIface, nwBr
<1>7. NumberInv' /\ OrderInv'
  BY <1>1, NoAllocation DEF ShapeInv, NumberInv, NwConfigureIface, nwHistory, NwConfiguring
<1> QED BY <1>2, <1>3, <1>4, <1>5, <1>6, <1>7, OneBoot

(* ensureAddr, for a gateway address.                                       *)
LEMMA EnsureAddrStep == ASSUME NwInv, NEW b \in NwBoots, NEW v \in Versions, NwEnsureAddr(b, v) PROVE NwInv'
<1>1. ShapeInv /\ NatInv /\ NumberInv /\ OrderInv /\ BootInv(b) /\ LinkInv(b)
  BY DEF NwInv
<1>2. ShapeInv' /\ Grows
  BY <1>1 DEF ShapeInv, Grows, NwEnsureAddr, nwBr, nwHistory, NwPcs, NwConfiguring, Versions
<1>3. \A c \in NwBoots \ {b} : UNCHANGED bootVars(c)
  BY <1>1 DEF ShapeInv, NwEnsureAddr, bootVars
<1>4. BootInv(b)'
  BY <1>1 DEF ShapeInv, BootInv, NwEnsureAddr, nwBr, Versions, NwConfiguring
<1>5. LinkInv(b)'
  BY <1>1 DEF ShapeInv, BootInv, LinkInv, Removing, NwEnsureAddr, nwBr, Versions, NwConfiguring
<1>6. NatInv'
  BY <1>1 DEF ShapeInv, NatInv, NwEnsureAddr, nwBr
<1>7. NumberInv' /\ OrderInv'
  BY <1>1, NoAllocation DEF ShapeInv, NumberInv, NwEnsureAddr, nwHistory, NwConfiguring
<1> QED BY <1>2, <1>3, <1>4, <1>5, <1>6, <1>7, OneBoot

(* SetupIPMasq, for an address.                                             *)
LEMMA MasqStep == ASSUME NwInv, NEW b \in NwBoots, NEW v \in Versions, NwMasq(b, v) PROVE NwInv'
<1>1. ShapeInv /\ NatInv /\ NumberInv /\ OrderInv /\ BootInv(b) /\ LinkInv(b)
  BY DEF NwInv
<1>2. ShapeInv' /\ Grows
  BY <1>1 DEF ShapeInv, Grows, NwMasq, nwBr, nwHistory, NwPcs, NwConfiguring, Versions
<1>3. \A c \in NwBoots \ {b} : UNCHANGED bootVars(c)
  BY <1>1 DEF ShapeInv, NwMasq, bootVars
<1>4. BootInv(b)'
  BY <1>1 DEF ShapeInv, BootInv, NwMasq, nwBr, Versions, NwConfiguring
<1>5. LinkInv(b)'
  BY <1>1 DEF ShapeInv, BootInv, LinkInv, Removing, NwMasq, nwBr, Versions, NwConfiguring
<1>6. NatInv'
  BY <1>1 DEF ShapeInv, NatInv, NwMasq, nwBr
<1>7. NumberInv' /\ OrderInv'
  BY <1>1, NoAllocation DEF ShapeInv, NumberInv, NwMasq, nwHistory, NwConfiguring
<1> QED BY <1>2, <1>3, <1>4, <1>5, <1>6, <1>7, OneBoot

(* task.Start.                                                              *)
LEMMA StartedStep == ASSUME NwInv, NEW b \in NwBoots, NwStarted(b) PROVE NwInv'
<1>1. ShapeInv /\ NatInv /\ NumberInv /\ OrderInv /\ BootInv(b) /\ LinkInv(b)
  BY DEF NwInv
<1>2. ShapeInv' /\ Grows
  BY <1>1 DEF ShapeInv, Grows, NwStarted, nwBr, nwHistory, NwPcs, NwConfiguring, Versions
<1>3. \A c \in NwBoots \ {b} : UNCHANGED bootVars(c)
  BY <1>1 DEF ShapeInv, NwStarted, bootVars
<1>4. BootInv(b)'
  BY <1>1 DEF ShapeInv, BootInv, NwStarted, nwBr, Versions, NwConfiguring
<1>5. LinkInv(b)'
  BY <1>1 DEF ShapeInv, BootInv, LinkInv, Removing, NwStarted, nwBr, Versions, NwConfiguring
<1>6. NatInv'
  BY <1>1 DEF ShapeInv, NatInv, NwStarted, nwBr
<1>7. NumberInv' /\ OrderInv'
  BY <1>1, NoAllocation DEF ShapeInv, NumberInv, NwStarted, nwHistory, NwConfiguring
<1> QED BY <1>2, <1>3, <1>4, <1>5, <1>6, <1>7, OneBoot

(* StartContainer returns an error.                                         *)
LEMMA BootFailsStep == ASSUME NwInv, NEW b \in NwBoots, NwBootFails(b) PROVE NwInv'
<1>1. ShapeInv /\ NatInv /\ NumberInv /\ OrderInv /\ BootInv(b) /\ LinkInv(b)
  BY DEF NwInv
<1>2. ShapeInv' /\ Grows
  BY <1>1 DEF ShapeInv, Grows, NwBootFails, nwBr, nwHistory, NwPcs, NwConfiguring, Versions
<1>3. \A c \in NwBoots \ {b} : UNCHANGED bootVars(c)
  BY <1>1 DEF ShapeInv, NwBootFails, bootVars
<1>4. BootInv(b)'
  BY <1>1 DEF ShapeInv, BootInv, NwBootFails, nwBr, Versions, NwConfiguring
<1>5. LinkInv(b)'
  BY <1>1 DEF ShapeInv, BootInv, LinkInv, Removing, NwBootFails, nwBr, Versions, NwConfiguring
<1>6. NatInv'
  BY <1>1 DEF ShapeInv, NatInv, NwBootFails, nwBr
<1>7. NumberInv' /\ OrderInv'
  BY <1>1, NoAllocation DEF ShapeInv, NumberInv, NwBootFails, nwHistory, NwConfiguring
<1> QED BY <1>2, <1>3, <1>4, <1>5, <1>6, <1>7, OneBoot

(* The container's first process ends.                                      *)
LEMMA ExitStep == ASSUME NwInv, NEW b \in NwBoots, NwExit(b) PROVE NwInv'
<1>1. ShapeInv /\ NatInv /\ NumberInv /\ OrderInv /\ BootInv(b) /\ LinkInv(b)
  BY DEF NwInv
<1>2. ShapeInv' /\ Grows
  BY <1>1 DEF ShapeInv, Grows, NwExit, nwBr, nwHistory, NwPcs, NwConfiguring, Versions
<1>3. \A c \in NwBoots \ {b} : UNCHANGED bootVars(c)
  BY <1>1 DEF ShapeInv, NwExit, bootVars
<1>4. BootInv(b)'
  BY <1>1 DEF ShapeInv, BootInv, NwExit, nwBr, Versions, NwConfiguring
<1>5. LinkInv(b)'
  BY <1>1 DEF ShapeInv, BootInv, LinkInv, Removing, NwExit, nwBr, Versions, NwConfiguring
<1>6. NatInv'
  BY <1>1 DEF ShapeInv, NatInv, NwExit, nwBr
<1>7. NumberInv' /\ OrderInv'
  BY <1>1, NoAllocation DEF ShapeInv, NumberInv, NwExit, nwHistory, NwConfiguring
<1> QED BY <1>2, <1>3, <1>4, <1>5, <1>6, <1>7, OneBoot

(* The task is killed after Delete.                                         *)
LEMMA KillStep == ASSUME NwInv, NEW b \in NwBoots, NEW d \in NwDeleters, NwKill(d, b) PROVE NwInv'
<1>1. ShapeInv /\ NatInv /\ NumberInv /\ OrderInv /\ BootInv(b) /\ LinkInv(b)
  BY DEF NwInv
<1>2. ShapeInv' /\ Grows
  BY <1>1 DEF ShapeInv, Grows, NwKill, nwBr, nwHistory, NwPcs, NwConfiguring, Versions
<1>3. \A c \in NwBoots \ {b} : UNCHANGED bootVars(c)
  BY <1>1 DEF ShapeInv, NwKill, bootVars
<1>4. BootInv(b)'
  BY <1>1 DEF ShapeInv, BootInv, NwKill, nwBr, Versions, NwConfiguring
<1>5. LinkInv(b)'
  BY <1>1 DEF ShapeInv, BootInv, LinkInv, Removing, NwKill, NwKillReady, nwBr, Versions, NwConfiguring
<1>6. NatInv'
  BY <1>1 DEF ShapeInv, NatInv, NwKill, nwBr
<1>7. NumberInv' /\ OrderInv'
  BY <1>1, NoAllocation DEF ShapeInv, NumberInv, NwKill, nwHistory, NwConfiguring
<1> QED BY <1>2, <1>3, <1>4, <1>5, <1>6, <1>7, OneBoot

(* AppendUnique looks for the rule.                                         *)
LEMMA LookForNatStep == ASSUME NwInv, NEW b \in NwBoots, NwLookForNat(b) PROVE NwInv'
<1>1. ShapeInv /\ NatInv /\ NumberInv /\ OrderInv /\ BootInv(b) /\ LinkInv(b)
  BY DEF NwInv
<1>2. ShapeInv' /\ Grows
  BY <1>1 DEF ShapeInv, Grows, NwLookForNat, nwBr, nwHistory, NwPcs, NwConfiguring, Versions
<1>3. \A c \in NwBoots \ {b} : UNCHANGED bootVars(c)
  BY <1>1 DEF ShapeInv, NwLookForNat, bootVars, NwDeleters
<1>4. BootInv(b)'
  BY <1>1 DEF ShapeInv, BootInv, NwLookForNat, nwBr, Versions, NwConfiguring
<1>5. LinkInv(b)'
  BY <1>1 DEF ShapeInv, BootInv, LinkInv, Removing, NwLookForNat, nwBr, Versions, NwConfiguring
<1>6. NatInv'
  BY <1>1 DEF ShapeInv, NatInv, NwLookForNat, nwBr
<1>7. NumberInv' /\ OrderInv'
  BY <1>1, NoAllocation DEF ShapeInv, NumberInv, NwLookForNat, nwHistory, NwConfiguring
<1> QED BY <1>2, <1>3, <1>4, <1>5, <1>6, <1>7, OneBoot

(* AppendUnique appends it.                                                 *)
LEMMA AppendNatStep == ASSUME NwInv, NEW b \in NwBoots, NwAppendNat(b) PROVE NwInv'
<1>1. ShapeInv /\ NatInv /\ NumberInv /\ OrderInv /\ BootInv(b) /\ LinkInv(b)
  BY DEF NwInv
<1>2. ShapeInv' /\ Grows
  BY <1>1 DEF ShapeInv, Grows, NwAppendNat, nwBr, nwHistory, NwPcs, NwConfiguring, Versions
<1>3. \A c \in NwBoots \ {b} : UNCHANGED bootVars(c)
  BY <1>1 DEF ShapeInv, NwAppendNat, bootVars, NwDeleters
<1>4. BootInv(b)'
  BY <1>1 DEF ShapeInv, BootInv, NwAppendNat, nwBr, Versions, NwConfiguring
<1>5. LinkInv(b)'
  BY <1>1 DEF ShapeInv, BootInv, LinkInv, Removing, NwAppendNat, nwBr, Versions, NwConfiguring
<1>6. NatInv'
  BY <1>1 DEF ShapeInv, NatInv, NwAppendNat, nwBr
<1>7. NumberInv' /\ OrderInv'
  BY <1>1, NoAllocation DEF ShapeInv, NumberInv, NwAppendNat, nwHistory, NwConfiguring
<1> QED BY <1>2, <1>3, <1>4, <1>5, <1>6, <1>7, OneBoot

(* Delete deletes eth0.                                                     *)
LEMMA DelLinkStep == ASSUME NwInv, NEW b \in NwBoots, NEW d \in NwDeleters, NwDelLink(d, b) PROVE NwInv'
<1>1. ShapeInv /\ NatInv /\ NumberInv /\ OrderInv /\ BootInv(b) /\ LinkInv(b)
  BY DEF NwInv
<1>2. ShapeInv' /\ Grows
  BY <1>1 DEF ShapeInv, Grows, NwDelLink, nwBr, nwHistory, NwPcs, NwConfiguring, Versions
<1>3. \A c \in NwBoots \ {b} : UNCHANGED bootVars(c)
  BY <1>1 DEF ShapeInv, NwDelLink, bootVars, NwDeleters
<1>4. BootInv(b)'
  BY <1>1 DEF ShapeInv, BootInv, NwDelLink, nwBr, Versions, NwConfiguring
<1>5. LinkInv(b)'
  BY <1>1 DEF ShapeInv, BootInv, LinkInv, Removing, NwDelLink, nwBr, Versions, NwConfiguring
<1>6. NatInv'
  BY <1>1 DEF ShapeInv, NatInv, NwDelLink, nwBr
<1>7. NumberInv' /\ OrderInv'
  BY <1>1, NoAllocation DEF ShapeInv, NumberInv, NwDelLink, nwHistory, NwConfiguring
<1> QED BY <1>2, <1>3, <1>4, <1>5, <1>6, <1>7, OneBoot

(* TeardownIPMasq.                                                          *)
LEMMA TeardownStep == ASSUME NwInv, NEW b \in NwBoots, NEW d \in NwDeleters, NEW f \in BOOLEAN, NwTeardown(d, b, f) PROVE NwInv'
<1>1. ShapeInv /\ NatInv /\ NumberInv /\ OrderInv /\ BootInv(b) /\ LinkInv(b)
  BY DEF NwInv
<1>2. ShapeInv' /\ Grows
  BY <1>1 DEF ShapeInv, Grows, NwTeardown, nwBr, nwHistory, NwPcs, NwConfiguring, Versions
<1>3. \A c \in NwBoots \ {b} : UNCHANGED bootVars(c)
  BY <1>1 DEF ShapeInv, NwTeardown, bootVars, NwDeleters
<1>4. BootInv(b)'
  BY <1>1 DEF ShapeInv, BootInv, NwTeardown, nwBr, Versions, NwConfiguring
<1>5. LinkInv(b)'
  BY <1>1 DEF ShapeInv, BootInv, LinkInv, Removing, NwTeardown, nwBr, Versions, NwConfiguring
<1>6. NatInv'
  BY <1>1 DEF ShapeInv, NatInv, NwTeardown, nwBr
<1>7. NumberInv' /\ OrderInv'
  BY <1>1, NoAllocation DEF ShapeInv, NumberInv, NwTeardown, nwHistory, NwConfiguring
<1> QED BY <1>2, <1>3, <1>4, <1>5, <1>6, <1>7, OneBoot

(* allocIP reads lastUsedIP.                                                *)
LEMMA ReadLastStep == ASSUME NwInv, NEW b \in NwBoots, NwReadLast(b) PROVE NwInv'
<1>1. ShapeInv /\ NatInv /\ NumberInv /\ OrderInv /\ BootInv(b) /\ LinkInv(b)
  BY DEF NwInv
<1>2. ShapeInv' /\ Grows
  BY <1>1 DEF ShapeInv, Grows, NwReadLast, nwBr, nwHistory, NwPcs, NwConfiguring, Versions
<1>3. \A c \in NwBoots \ {b} : UNCHANGED bootVars(c)
  BY <1>1 DEF ShapeInv, NwReadLast, bootVars
<1>4. BootInv(b)' /\ LinkInv(b)'
  BY <1>1 DEF ShapeInv, BootInv, LinkInv, Removing, NwReadLast, nwBr, NwConfiguring
<1>5. NatInv'
  BY <1>1 DEF ShapeInv, NatInv, NwReadLast, nwBr
<1>6. /\ nwPc[b] = "veth" /\ nwPc'[b] = "alloc" /\ nwStart'[b] = nwLast /\ nwSeen'[b] = nwCount
      /\ \A c \in NwBoots \ {b} : nwPc'[c] = nwPc[c] /\ nwStart'[c] = nwStart[c] /\ nwSeen'[c] = nwSeen[c]
      /\ nwLast' = nwLast /\ nwIp' = nwIp /\ nwAt' = nwAt /\ nwCount' = nwCount /\ nwRun' = nwRun /\ nwIn' = nwIn
  BY <1>1 DEF ShapeInv, NwReadLast
<1>7. ~Allocated(b)
  BY <1>1, <1>6 DEF NumberInv
<1>8. NumberInv'
  BY <1>1, <1>6, <1>7 DEF NumberInv, Numbered, Allocated
<1>9. \A r, k, a : BeginsAt(r, k, a)' <=> BeginsAt(r, k, a)
  BY <1>6 DEF BeginsAt, Numbered, Allocated
<1>10. OrderInv'
  <2>1. BeginsAt(nwRun, nwCount, nwLast)' /\ nwLast \in 1..(NwSize - 1) /\ nwCount <= nwCount
    BY <1>1, <1>6, <1>9 DEF OrderInv, ShapeInv
  <2>2. ASSUME NEW c \in NwBoots, nwPc'[c] = "alloc"
        PROVE  /\ nwSeen'[c] <= nwCount' /\ nwStart'[c] \in 1..(NwSize - 1)
               /\ BeginsAt(nwRun, nwSeen[c], nwStart[c])'
    <3>1. CASE c = b
      <4>1. BeginsAt(nwRun, nwCount, nwLast)
        BY <1>1 DEF OrderInv
      <4>2. BeginsAt(nwRun, nwSeen[c], nwStart[c])'
        BY <1>6, <3>1, <4>1 DEF BeginsAt, Numbered, Allocated
      <4> QED BY <1>6, <2>1, <3>1, <4>2
    <3>2. CASE c # b
      <4>1. /\ nwSeen[c] <= nwCount /\ nwStart[c] \in 1..(NwSize - 1)
            /\ BeginsAt(nwRun, nwSeen[c], nwStart[c])
        BY <1>1, <1>6, <2>2, <3>2 DEF OrderInv
      <4> QED BY <1>6, <3>2, <4>1 DEF BeginsAt, Numbered, Allocated
    <3> QED BY <3>1, <3>2
  <2>3. ASSUME NEW c \in NwBoots, Allocated(c)'
        PROVE  /\ nwSeen'[c] < nwAt'[c] /\ nwStart'[c] \in 1..(NwSize - 1)
               /\ BeginsAt(nwIn[c], nwSeen[c], nwStart[c])' /\ nwIp'[c] = NwNext(nwStart'[c])
    <3>1. c # b /\ Allocated(c)
      BY <1>6, <1>7, <2>3 DEF Allocated
    <3>2. /\ nwSeen[c] < nwAt[c] /\ nwStart[c] \in 1..(NwSize - 1)
          /\ BeginsAt(nwIn[c], nwSeen[c], nwStart[c]) /\ nwIp[c] = NwNext(nwStart[c])
      BY <1>1, <3>1 DEF OrderInv
    <3> QED BY <1>6, <3>1, <3>2 DEF BeginsAt, Numbered, Allocated
  <2> QED BY <2>1, <2>2, <2>3 DEF OrderInv
<1> QED BY <1>2, <1>3, <1>4, <1>5, <1>8, <1>10, OneBoot

(* allocIP takes the next address and writes it to lastUsedIP: the new      *)
(* allocation has a number of its own, and no other allocation changes.     *)
LEMMA AllocStep == ASSUME NwInv, NEW b \in NwBoots, NwAlloc(b) PROVE NwInv'
<1>1. ShapeInv /\ NatInv /\ NumberInv /\ OrderInv /\ BootInv(b) /\ LinkInv(b)
  BY DEF NwInv
<1>2. PICK a : a = NwNext(nwStart[b])
  OBVIOUS
<1>3. /\ nwPc[b] = "alloc" /\ a # 0 /\ nwPc' = [nwPc EXCEPT ![b] = "iface"]
      /\ nwLast' = a /\ nwIp' = [nwIp EXCEPT ![b] = a]
      /\ nwCount' = nwCount + 1 /\ nwAt' = [nwAt EXCEPT ![b] = nwCount + 1] /\ nwIn' = [nwIn EXCEPT ![b] = nwRun]
      /\ UNCHANGED <<nwPlan, nwStart, nwProc, nwLink, nwBr, nwRules, nwDel, nwMiss, nwSeen, nwRun>>
  BY <1>2 DEF NwAlloc, NwWriteLast
<1>4. /\ nwStart[b] \in 1..(NwSize - 1) /\ nwSeen[b] <= nwCount /\ nwSeen[b] \in Nat
      /\ BeginsAt(nwRun, nwSeen[b], nwStart[b])
  BY <1>1, <1>3 DEF OrderInv, ShapeInv
<1>5. a \in 2..(NwSize - 1)
  BY <1>2, <1>3, <1>4, NextIs, NwAssumption
<1>6. ShapeInv' /\ Grows
  <2>1. nwIp' \in [NwBoots -> (0..(NwSize - 1)) \ {NwGateway}] /\ nwLast' \in 1..(NwSize - 1)
    BY <1>1, <1>3, <1>5, NwAssumption DEF ShapeInv, NwGateway
  <2> QED BY <1>1, <1>3, <2>1 DEF ShapeInv, Grows, nwBr, NwPcs, NwConfiguring, Versions
<1>7. \A c \in NwBoots \ {b} : UNCHANGED bootVars(c)
  BY <1>1, <1>3 DEF ShapeInv, bootVars
<1>8. BootInv(b)' /\ LinkInv(b)'
  BY <1>1, <1>3 DEF ShapeInv, BootInv, LinkInv, Removing, nwBr, NwConfiguring
<1>9. NatInv'
  BY <1>1, <1>3 DEF ShapeInv, NatInv, nwBr
<1>10. /\ nwIp'[b] = a /\ nwAt'[b] = nwCount + 1 /\ nwIn'[b] = nwRun
       /\ \A c \in NwBoots \ {b} : nwPc'[c] = nwPc[c] /\ nwIp'[c] = nwIp[c] /\ nwAt'[c] = nwAt[c] /\ nwIn'[c] = nwIn[c]
       /\ nwStart' = nwStart /\ nwSeen' = nwSeen /\ nwRun' = nwRun /\ nwCount' = nwCount + 1
       /\ nwCount \in Nat /\ nwRun \in Nat /\ nwPc'[b] = "iface"
       /\ \A c \in NwBoots : nwAt[c] \in Nat /\ nwIn[c] \in Nat /\ nwSeen[c] \in Nat
  BY <1>1, <1>3 DEF ShapeInv
<1>11. ~Allocated(b) /\ Allocated(b)' /\ \A c \in NwBoots \ {b} : Allocated(c)' <=> Allocated(c)
  BY <1>1, <1>3, <1>10 DEF NumberInv, Allocated
<1>12. \A c \in NwBoots : \A r, k : Numbered(r, k, c) => c # b /\ Numbered(r, k, c)'
  BY <1>10, <1>11 DEF Numbered
<1>13. \A c \in NwBoots : \A r, k : Numbered(r, k, c)' => Numbered(r, k, c) \/ (c = b /\ r = nwRun /\ k = nwCount + 1)
  BY <1>10, <1>11 DEF Numbered
<1>14. NumberInv'
  <2>1. ASSUME NEW c \in NwBoots, Allocated(c)'
        PROVE  /\ nwPc'[c] \notin {"idle", "bridge", "veth", "alloc"} /\ nwIn'[c] <= nwRun' /\ nwAt'[c] > 0
               /\ nwIn'[c] = nwRun' => nwAt'[c] <= nwCount'
    <3>1. CASE c = b
      BY <1>10, <3>1
    <3>2. CASE c # b
      BY <1>1, <1>10, <1>11, <2>1, <3>2 DEF NumberInv
    <3> QED BY <3>1, <3>2
  <2>2. ASSUME NEW c \in NwBoots, NEW e \in NwBoots, Allocated(c)', Numbered(nwIn[c], nwAt[c], e)' PROVE c = e
    <3>1. CASE c # b /\ e # b
      <4>1. Allocated(c) /\ Numbered(nwIn[c], nwAt[c], e)
        BY <1>10, <1>11, <2>2, <3>1 DEF Numbered
      <4> QED BY <1>1, <4>1 DEF NumberInv
    <3>2. CASE c = b /\ e # b
      <4>1. Allocated(e) /\ nwIn[e] = nwRun /\ nwAt[e] = nwCount + 1
        BY <1>10, <1>11, <2>2, <3>2 DEF Numbered
      <4>2. nwAt[e] <= nwCount
        BY <1>1, <4>1 DEF NumberInv
      <4> QED BY <1>10, <4>1, <4>2
    <3>3. CASE c # b /\ e = b
      <4>1. Allocated(c) /\ nwIn[c] = nwRun /\ nwAt[c] = nwCount + 1
        BY <1>10, <1>11, <2>2, <3>3 DEF Numbered
      <4>2. nwAt[c] <= nwCount
        BY <1>1, <4>1 DEF NumberInv
      <4> QED BY <1>10, <4>1, <4>2
    <3> QED BY <3>1, <3>2, <3>3
  <2>3. ASSUME NEW k \in 1..(nwCount + 1) PROVE \E o \in NwBoots : Numbered(nwRun, k, o)'
    <3>1. CASE k = nwCount + 1
      <4>1. Numbered(nwRun, k, b)'
        BY <1>10, <1>11, <3>1 DEF Numbered
      <4> QED BY <4>1
    <3>2. CASE k # nwCount + 1
      <4>1. k \in 1..nwCount
        BY <1>10, <3>2
      <4>2. PICK o \in NwBoots : Numbered(nwRun, k, o)
        BY <1>1, <4>1 DEF NumberInv
      <4>3. Numbered(nwRun, k, o)'
        BY <1>10, <1>11, <4>2 DEF Numbered
      <4> QED BY <4>3
    <3> QED BY <3>1, <3>2
  <2>4. ASSUME NEW c \in NwBoots, NEW k \in 1..nwAt'[c], Allocated(c)'
        PROVE  \E o \in NwBoots : Numbered(nwIn[c], k, o)'
    <3>1. CASE c = b
      <4>1. k \in 1..(nwCount + 1)
        BY <1>10, <3>1
      <4>2. PICK o \in NwBoots : Numbered(nwRun, k, o)'
        BY <2>3, <4>1
      <4> QED BY <1>10, <3>1, <4>2 DEF Numbered
    <3>2. CASE c # b
      <4>1. k \in 1..nwAt[c] /\ Allocated(c)
        BY <1>10, <1>11, <2>4, <3>2
      <4>2. PICK o \in NwBoots : Numbered(nwIn[c], k, o)
        BY <1>1, <4>1 DEF NumberInv
      <4>3. Numbered(nwIn[c], k, o)'
        BY <1>10, <1>11, <3>2, <4>2 DEF Numbered
      <4> QED BY <4>3
    <3> QED BY <3>1, <3>2
  <2>5. \A k \in 1..nwCount' : \E o \in NwBoots : Numbered(nwRun, k, o)'
    BY <1>10, <2>3
  <2> QED BY <2>1, <2>2, <2>4, <2>5 DEF NumberInv
<1>15. ASSUME NEW r \in Nat, NEW k \in Nat, NEW x, BeginsAt(r, k, x), ~(r = nwRun /\ k = nwCount + 1)
       PROVE  (k = 0 => x = NwGateway) /\ (k # 0 => \A o \in NwBoots : Numbered(r, k, o)' => nwIp'[o] = x)
  <2>1. ASSUME NEW o \in NwBoots, Numbered(r, k, o)', k # 0 PROVE nwIp'[o] = x
    <3>1. o # b /\ Numbered(r, k, o)
      BY <1>10, <1>11, <1>15, <2>1 DEF Numbered
    <3> QED BY <1>10, <1>15, <2>1, <3>1 DEF BeginsAt
  <2> QED BY <1>15, <2>1 DEF BeginsAt
<1>16. OrderInv'
  <2>1. BeginsAt(nwRun, nwCount, nwLast)'
    <3>1. ASSUME NEW o \in NwBoots, Numbered(nwRun, nwCount, o)' PROVE nwIp'[o] = a
      <4>1. CASE o = b
        BY <1>10, <4>1
      <4>2. CASE o # b
        <5>1. Allocated(o) /\ nwIn[o] = nwRun /\ nwAt[o] = nwCount + 1
          BY <1>10, <1>11, <3>1, <4>2 DEF Numbered
        <5> QED BY <1>1, <1>10, <5>1 DEF NumberInv
      <4> QED BY <4>1, <4>2
    <3>2. nwCount' # 0 /\ nwLast' = a
      BY <1>3, <1>10
    <3> QED BY <3>1, <3>2 DEF BeginsAt
  <2>2. ASSUME NEW c \in NwBoots, nwPc'[c] = "alloc"
        PROVE  /\ nwSeen'[c] <= nwCount' /\ nwStart'[c] \in 1..(NwSize - 1)
               /\ BeginsAt(nwRun, nwSeen[c], nwStart[c])'
    <3>1. c # b /\ nwPc[c] = "alloc"
      BY <1>10, <2>2
    <3>2. /\ nwSeen[c] <= nwCount /\ nwStart[c] \in 1..(NwSize - 1)
          /\ BeginsAt(nwRun, nwSeen[c], nwStart[c])
      BY <1>1, <3>1 DEF OrderInv
    <3>3. nwSeen[c] # nwCount + 1 /\ nwSeen[c] \in Nat /\ nwSeen[c] <= nwCount + 1
      BY <1>10, <3>2
    <3>4. BeginsAt(nwRun, nwSeen[c], nwStart[c])'
      <4>1. PICK r, k, x : r = nwRun /\ k = nwSeen[c] /\ x = nwStart[c]
        OBVIOUS
      <4>2. (k = 0 => x = NwGateway) /\ (k # 0 => \A o \in NwBoots : Numbered(r, k, o)' => nwIp'[o] = x)
        BY <1>10, <1>15, <3>2, <3>3, <4>1
      <4>3. nwRun' = r /\ nwSeen'[c] = k /\ nwStart'[c] = x
        BY <1>10, <4>1
      <4> QED BY <4>2, <4>3 DEF BeginsAt, Numbered
    <3> QED BY <1>10, <3>2, <3>3, <3>4
  <2>3. ASSUME NEW c \in NwBoots, Allocated(c)'
        PROVE  /\ nwSeen'[c] < nwAt'[c] /\ nwStart'[c] \in 1..(NwSize - 1)
               /\ BeginsAt(nwIn[c], nwSeen[c], nwStart[c])' /\ nwIp'[c] = NwNext(nwStart'[c])
    <3>1. CASE c = b
      <4>1. nwSeen[b] # nwCount + 1 /\ nwSeen[b] < nwCount + 1
        BY <1>4, <1>10
      <4>2. BeginsAt(nwIn[c], nwSeen[c], nwStart[c])'
        <5>1. PICK r, k, x : r = nwRun /\ k = nwSeen[b] /\ x = nwStart[b]
          OBVIOUS
        <5>2. (k = 0 => x = NwGateway) /\ (k # 0 => \A o \in NwBoots : Numbered(r, k, o)' => nwIp'[o] = x)
          BY <1>4, <1>10, <1>15, <4>1, <5>1
        <5>3. nwIn'[b] = r /\ nwSeen'[b] = k /\ nwStart'[b] = x
          BY <1>10, <5>1
        <5> QED BY <3>1, <5>2, <5>3 DEF BeginsAt, Numbered
      <4> QED BY <1>2, <1>4, <1>10, <3>1, <4>1, <4>2
    <3>2. CASE c # b
      <4>1. Allocated(c)
        BY <1>11, <2>3, <3>2
      <4>2. /\ nwSeen[c] < nwAt[c] /\ nwStart[c] \in 1..(NwSize - 1)
            /\ BeginsAt(nwIn[c], nwSeen[c], nwStart[c]) /\ nwIp[c] = NwNext(nwStart[c])
        BY <1>1, <4>1 DEF OrderInv
      <4>3. nwIn[c] = nwRun => nwAt[c] <= nwCount
        BY <1>1, <4>1 DEF NumberInv
      <4>4. nwSeen[c] \in Nat /\ nwIn[c] \in Nat /\ ~(nwIn[c] = nwRun /\ nwSeen[c] = nwCount + 1)
        BY <1>10, <4>2, <4>3
      <4>5. BeginsAt(nwIn[c], nwSeen[c], nwStart[c])'
        <5>1. PICK r, k, x : r = nwIn[c] /\ k = nwSeen[c] /\ x = nwStart[c]
          OBVIOUS
        <5>2. (k = 0 => x = NwGateway) /\ (k # 0 => \A o \in NwBoots : Numbered(r, k, o)' => nwIp'[o] = x)
          BY <1>15, <4>2, <4>4, <5>1
        <5>3. nwIn'[c] = r /\ nwSeen'[c] = k /\ nwStart'[c] = x
          BY <1>10, <5>1, <3>2
        <5> QED BY <5>2, <5>3 DEF BeginsAt, Numbered
      <4> QED BY <1>10, <3>2, <4>2, <4>5
    <3> QED BY <3>1, <3>2
  <2> QED BY <2>1, <2>2, <2>3 DEF OrderInv
<1> QED BY <1>6, <1>7, <1>8, <1>9, <1>14, <1>16, OneBoot

(* The guest is restarted: the kernel keeps links and rules, and a new run  *)
(* of the guest numbers its allocations anew.                               *)
LEMMA RestartStep == ASSUME NwInv, NwRestart PROVE NwInv'
<1>1. ShapeInv /\ NatInv /\ NumberInv /\ OrderInv
  BY DEF NwInv
<1>2. ASSUME NEW b \in NwBoots
      PROVE  /\ nwPc'[b] = IF nwPc[b] = "up" /\ nwProc[b] = "alive" THEN "adopted"
                           ELSE IF nwPc[b] \in {"idle", "adopted"} THEN nwPc[b] ELSE "over"
             /\ nwMiss'[b] = IF nwPc[b] \in NwConfiguring \/ \E d \in NwDeleters : nwDel[d][b] \in {"v4", "v6"}
                             THEN "restart" ELSE nwMiss[b]
             /\ \A d \in NwDeleters : nwDel'[d][b] = IF nwDel[d][b] = "done" THEN "done" ELSE "idle"
             /\ nwPc[b] \in NwPcs
  BY <1>1 DEF NwRestart, ShapeInv, NwPcs
<1>3. nwPc' \in [NwBoots -> NwPcs] /\ nwMiss' \in [NwBoots -> {"none", "boot", "exit", "teardown", "restart"}]
  <2>1. nwPc' = [b \in NwBoots |-> nwPc'[b]] /\ nwMiss' = [b \in NwBoots |-> nwMiss'[b]]
    BY DEF NwRestart
  <2>2. \A b \in NwBoots : nwPc'[b] \in NwPcs /\ nwMiss'[b] \in {"none", "boot", "exit", "teardown", "restart"}
    BY <1>1, <1>2 DEF ShapeInv, NwPcs
  <2> QED BY <2>1, <2>2
<1>4. nwDel' \in [NwDeleters -> [NwBoots -> {"idle", "v4", "v6", "done"}]]
  BY DEF NwRestart
<1>5. ShapeInv' /\ Grows
  BY <1>1, <1>3, <1>4, NwAssumption DEF ShapeInv, NwRestart, Grows, nwBr, NwGateway
<1>6. NatInv'
  BY <1>1, <1>2 DEF NatInv, NwRestart, nwBr
<1>7. ASSUME NEW b \in NwBoots PROVE BootInv(b)' /\ LinkInv(b)'
  <2>1. BootInv(b) /\ LinkInv(b)
    BY DEF NwInv
  <2>2. /\ nwBridge' = nwBridge /\ nwGw' = nwGw /\ nwNat' = nwNat /\ nwProc' = nwProc /\ nwLink' = nwLink
        /\ nwRules' = nwRules
    BY DEF NwRestart, nwBr
  <2>3. BootInv(b)'
    BY <1>2, <2>1, <2>2 DEF BootInv
  <2>4. LinkInv(b)'
    BY <1>2, <2>1, <2>2 DEF LinkInv, BootInv, Removing, NwPcs, NwConfiguring
  <2> QED BY <2>3, <2>4
<1>8. /\ nwRun' = nwRun + 1 /\ nwCount' = 0 /\ nwLast' = NwGateway /\ nwStart' = nwStart /\ nwIp' = nwIp
      /\ nwSeen' = nwSeen /\ nwAt' = nwAt /\ nwIn' = nwIn /\ nwRun \in Nat
      /\ \A b \in NwBoots : nwIn[b] \in Nat
  BY <1>1 DEF NwRestart, ShapeInv
<1>9. NumberInv'
  <2>1. ASSUME NEW b \in NwBoots, Allocated(b)'
        PROVE  /\ nwPc'[b] \notin {"idle", "bridge", "veth", "alloc"} /\ nwIn'[b] < nwRun' /\ nwAt'[b] > 0
    BY <1>1, <1>2, <1>8, <2>1 DEF NumberInv, Allocated
  <2>2. \A b \in NwBoots : nwIn'[b] \in Nat /\ nwRun' \in Nat /\ nwCount' \in Nat
    BY <1>8
  <2>3. \A b, c \in NwBoots : Allocated(b)' /\ Numbered(nwIn[b], nwAt[b], c)' => b = c
    BY <1>1, <1>8 DEF NumberInv, Numbered, Allocated
  <2>4. \A b \in NwBoots : \A k \in 1..nwAt'[b] : Allocated(b)' => \E o \in NwBoots : Numbered(nwIn[b], k, o)'
    BY <1>1, <1>8 DEF NumberInv, Numbered, Allocated
  <2>5. \A k \in 1..nwCount' : \E o \in NwBoots : Numbered(nwRun, k, o)'
    BY <1>8
  <2> QED BY <2>1, <2>2, <2>3, <2>4, <2>5 DEF NumberInv
<1>10. OrderInv'
  <2>1. BeginsAt(nwRun, nwCount, nwLast)'
    BY <1>8 DEF BeginsAt
  <2>2. \A b \in NwBoots : nwPc'[b] # "alloc"
    BY <1>2
  <2>3. \A b \in NwBoots : Allocated(b)' =>
           /\ nwSeen'[b] < nwAt'[b] /\ nwStart'[b] \in 1..(NwSize - 1)
           /\ BeginsAt(nwIn[b], nwSeen[b], nwStart[b])' /\ nwIp'[b] = NwNext(nwStart'[b])
    BY <1>1, <1>8 DEF OrderInv, BeginsAt, Numbered, Allocated
  <2> QED BY <2>1, <2>2, <2>3 DEF OrderInv
<1> QED BY <1>5, <1>6, <1>7, <1>9, <1>10 DEF NwInv

------------------------------------------------------------------------------
(* The invariant.                                                           *)

(* NwInv holds before the first boot.                                       *)
LEMMA NwInitInv == NwInit => NwInv
<1>1. SUFFICES ASSUME NwInit PROVE NwInv
  OBVIOUS
<1>2. ShapeInv
  BY <1>1, NwAssumption DEF NwInit, ShapeInv, NwPcs, Versions, NwGateway
<1>3. NatInv /\ NumberInv /\ OrderInv
  BY <1>1 DEF NwInit, NatInv, NumberInv, OrderInv, BeginsAt, Allocated, Numbered
<1>4. ASSUME NEW b \in NwBoots PROVE BootInv(b) /\ LinkInv(b)
  BY <1>1 DEF NwInit, BootInv, LinkInv, Removing, NwConfiguring
<1> QED BY <1>2, <1>3, <1>4 DEF NwInv

(* Every step of a boot, a deleter or a restart keeps NwInv.                *)
LEMMA NwNextInv == NwInv /\ [NwNextStep]_nwVars => NwInv'
<1>1. ASSUME NwInv, NwNextStep PROVE NwInv'
  <2>1. CASE NwRestart
    BY <1>1, <2>1, RestartStep
  <2>2. ASSUME NEW b \in NwBoots,
               \/ NwEnsureBridge(b) \/ NwVeth(b) \/ NwReadLast(b) \/ NwAlloc(b) \/ NwConfigureIface(b)
               \/ NwLookForNat(b) \/ NwAppendNat(b) \/ NwStarted(b) \/ NwBootFails(b) \/ NwExit(b)
        PROVE  NwInv'
    BY <1>1, <2>2, EnsureBridgeStep, VethStep, ReadLastStep, AllocStep, ConfigureIfaceStep, LookForNatStep,
       AppendNatStep, StartedStep, BootFailsStep, ExitStep
  <2>3. ASSUME NEW b \in NwBoots, NEW v \in Versions, NwEnsureAddr(b, v) \/ NwMasq(b, v) PROVE NwInv'
    BY <1>1, <2>3, EnsureAddrStep, MasqStep
  <2>4. ASSUME NEW b \in NwBoots, NEW d \in NwDeleters,
               NwDelLink(d, b) \/ (\E f \in BOOLEAN : NwTeardown(d, b, f)) \/ NwKill(d, b)
        PROVE  NwInv'
    BY <1>1, <2>4, DelLinkStep, TeardownStep, KillStep
  <2> QED BY <1>1, <2>1, <2>2, <2>3, <2>4 DEF NwNextStep, Versions
<1>2. ASSUME NwInv, UNCHANGED nwVars PROVE NwInv'
  <2>1. ShapeInv' /\ NatInv' /\ NumberInv' /\ OrderInv' /\ Grows
    <3>1. ShapeInv /\ NatInv /\ NumberInv /\ OrderInv
      BY <1>2 DEF NwInv
    <3>2. ShapeInv' /\ NatInv' /\ Grows
      BY <1>2, <3>1 DEF nwVars, nwBr, ShapeInv, NatInv, Grows
    <3>3. NumberInv' /\ OrderInv'
      BY <1>2, <3>1, NoAllocation DEF nwVars, nwHistory
    <3> QED BY <3>2, <3>3
  <2>2. ASSUME NEW b \in NwBoots PROVE BootInv(b)' /\ LinkInv(b)'
    <3>1. UNCHANGED bootVars(b) /\ nwNat \in Nat /\ BootInv(b) /\ LinkInv(b)
      BY <1>2 DEF nwVars, nwBr, bootVars, NwInv, ShapeInv
    <3> QED BY <2>1, <3>1, OtherBoot
  <2> QED BY <2>1, <2>2 DEF NwInv
<1> QED BY <1>1, <1>2

(* NwInv is an invariant of the specification.                              *)
LEMMA NwInvariance == NwSpec => []NwInv
BY NwInitInv, NwNextInv, PTL DEF NwSpec

(* A running container has its rules, its bridge and both gateways; a       *)
(* removed one leaves no rule, although StartContainer and CleanupContainer *)
(* may delete its network at once; and AppendUnique adds the rule for the   *)
(* metadata address once, unless boots raced for it (ConfigureProcess,      *)
(* Delete).                                                                 *)
THEOREM RulesMatch == NwSpec => []NwRulesMatch
<1>1. NwInv => NwRulesMatch
  <2>1. SUFFICES ASSUME NwInv PROVE NwRunningHasRules /\ NwNothingLeft /\ NwGatewayThere
    BY DEF NwRulesMatch
  <2>2. ShapeInv /\ NatInv /\ \A b \in NwBoots : BootInv(b) /\ LinkInv(b)
    BY <2>1 DEF NwInv
  <2>3. NwRunningHasRules
    BY <2>2 DEF NwRunningHasRules, LinkInv, Versions
  <2>4. NwNothingLeft
    BY <2>2 DEF NwNothingLeft, LinkInv, Removing
  <2>5. NwGatewayThere
    <3>1. ASSUME NEW b \in NwBoots, nwPc[b] \in {"configured", "up", "adopted"}
          PROVE  nwBridge = "up" /\ nwGw = {"v4", "v6"} /\ nwNat > 0
      <4>1. nwBridge = "up" /\ "v4" \in nwGw /\ "v6" \in nwGw /\ nwNat > 0
        BY <2>2, <3>1 DEF BootInv
      <4>2. nwGw \subseteq {"v4", "v6"}
        BY <2>2 DEF ShapeInv, Versions
      <4> QED BY <4>1, <4>2
    <3>2. nwNat > 1 => nwRaced = "yes"
      BY <2>2 DEF NatInv, ShapeInv
    <3> QED BY <3>1, <3>2 DEF NwGatewayThere
  <2> QED BY <2>3, <2>4, <2>5
<1> QED BY <1>1, NwInvariance, PTL

------------------------------------------------------------------------------
(* The addresses.                                                           *)

(* From the allocation b on, as long as each allocation has seen the one    *)
(* before it, the addresses count up and wrap at most once in a round.      *)
LEMMA Rounds ==
    ASSUME NwInv, NEW b \in NwBoots, Allocated(b), NEW n \in Nat, n < NwSize - 2,
           \A o \in NwBoots : (Allocated(o) /\ nwIn[o] = nwIn[b] /\ nwAt[o] \in nwAt[b]..(nwAt[b] + n)) =>
               nwSeen[o] = nwAt[o] - 1
    PROVE  \A o \in NwBoots : \A d \in 0..n : Numbered(nwIn[b], nwAt[b] + d, o) =>
               nwIp[o] = nwIp[b] + d \/ nwIp[o] = nwIp[b] + d - (NwSize - 2)
<1>1. ShapeInv /\ NumberInv /\ OrderInv
  BY DEF NwInv
<1>2. ASSUME NEW o \in NwBoots, Allocated(o)
      PROVE  /\ nwIp[o] \in 2..(NwSize - 1) /\ nwAt[o] \in Nat \ {0} /\ nwIn[o] \in Nat
             /\ nwStart[o] \in 1..(NwSize - 1) /\ nwIp[o] = NwNext(nwStart[o])
             /\ BeginsAt(nwIn[o], nwSeen[o], nwStart[o])
  <2>1. nwIp[o] \in (0..(NwSize - 1)) \ {1} /\ nwIp[o] # 0 /\ nwAt[o] \in Nat /\ nwIn[o] \in Nat
    BY <1>1, <1>2 DEF ShapeInv, Allocated, NwGateway
  <2>2. nwIp[o] \in 2..(NwSize - 1)
    BY <2>1, NwAssumption
  <2> QED BY <1>1, <1>2, <2>1, <2>2 DEF NumberInv, OrderInv
<1>3. PICK a, k, r : a = nwIp[b] /\ k = nwAt[b] /\ r = nwIn[b]
  OBVIOUS
<1>4. a \in 2..(NwSize - 1) /\ k \in Nat \ {0} /\ NwSize \in Nat /\ NwSize > 2
  BY <1>2, <1>3, NwAssumption
<1> DEFINE At(d, o) == Numbered(r, k + d, o) => nwIp[o] = a + d \/ nwIp[o] = a + d - (NwSize - 2)
           S == {d \in Nat : d <= n => \A o \in NwBoots : At(d, o)}
<1>5. 0 \in S
  <2>1. ASSUME NEW o \in NwBoots, Numbered(r, k + 0, o) PROVE nwIp[o] = a + 0
    <3>1. o = b
      BY <1>1, <1>3, <1>4, <2>1 DEF NumberInv, Numbered
    <3> QED BY <1>3, <1>4, <3>1
  <2> QED BY <2>1
<1>6. ASSUME NEW d \in S PROVE d + 1 \in S
  <2>1. d \in Nat
    OBVIOUS
  <2>2. SUFFICES ASSUME d + 1 <= n, NEW o \in NwBoots, Numbered(r, k + (d + 1), o)
                 PROVE  nwIp[o] = a + (d + 1) \/ nwIp[o] = a + (d + 1) - (NwSize - 2)
    BY <2>1
  <2>3. Allocated(o) /\ nwIn[o] = r /\ nwAt[o] = k + (d + 1)
    BY <2>2 DEF Numbered
  <2>4. nwSeen[o] = k + d
    <3>1. nwAt[o] \in k..(k + n)
      BY <1>4, <2>1, <2>2, <2>3
    <3>2. nwSeen[o] = nwAt[o] - 1
      BY <1>3, <2>3, <3>1
    <3> QED BY <1>4, <2>1, <2>3, <3>2
  <2>5. k + d \in 1..nwAt[o] /\ k + d # 0
    BY <1>4, <2>1, <2>3
  <2>6. PICK p \in NwBoots : Numbered(r, k + d, p)
    BY <1>1, <2>3, <2>5 DEF NumberInv
  <2>7. nwIp[p] = nwStart[o]
    BY <1>2, <2>3, <2>4, <2>5, <2>6 DEF BeginsAt
  <2>8. d \in Nat /\ d <= n /\ (nwIp[p] = a + d \/ nwIp[p] = a + d - (NwSize - 2))
    BY <2>1, <2>2, <2>6
  <2>9. PICK x, y : x = nwIp[p] /\ y = nwIp[o]
    OBVIOUS
  <2>10. x \in 1..(NwSize - 1) /\ y \in 2..(NwSize - 1) /\ y = NwNext(x)
    BY <1>2, <2>3, <2>7, <2>9
  <2>11. y = (IF x + 1 < NwSize THEN x + 1 ELSE IF x = 2 THEN 0 ELSE 2)
    BY <2>10, NextIs
  <2>12. y = a + (d + 1) \/ y = a + (d + 1) - (NwSize - 2)
    BY <1>4, <2>2, <2>8, <2>9, <2>10, <2>11
  <2> QED BY <2>9, <2>12
<1>7. S = Nat
  <2> HIDE DEF S
  <2>1. S \subseteq Nat
    BY DEF S
  <2> QED BY <1>5, <1>6, <2>1, SetInduction
<1>8. ASSUME NEW o \in NwBoots, NEW d \in 0..n PROVE At(d, o)
  <2>1. d \in S /\ d <= n
    BY <1>7
  <2> QED BY <2>1
<1> QED BY <1>3, <1>8

(* Two allocations of one run of the guest, of which the second began after *)
(* the first had ended, less than a round of the network apart and with     *)
(* none between them that raced, give different addresses, and none gives   *)
(* the gateway's (allocIP).                                                 *)
THEOREM AddressesDiffer == NwSpec => []NwDistinct
<1>1. NwInv => NwTypeOK
  BY DEF NwInv, ShapeInv, NwTypeOK, NwPcs, Versions
<1>2. ASSUME NwInv, NEW b \in NwBoots, NEW c \in NwBoots, b # c, nwIp[b] # 0, nwIp[c] # 0, nwIn[b] = nwIn[c],
             nwAt[b] <= nwSeen[c], nwAt[c] - nwAt[b] < NwSize - 2,
             \A o \in NwBoots : nwIn[o] = nwIn[c] /\ nwIp[o] # 0 /\ nwAt[o] \in nwAt[b]..nwAt[c] => nwSeen[o] = nwAt[o] - 1
      PROVE  nwIp[b] # nwIp[c]
  <2>1. /\ nwAt[b] \in Nat /\ nwAt[c] \in Nat /\ nwSeen[c] \in Nat /\ nwSeen[c] < nwAt[c]
        /\ nwIp[b] \in Nat /\ nwIp[c] \in Nat
    BY <1>2 DEF NwInv, ShapeInv, OrderInv, Allocated
  <2>2. PICK n : n = nwAt[c] - nwAt[b]
    OBVIOUS
  <2>3. n \in Nat /\ n > 0 /\ n < NwSize - 2 /\ nwAt[b] + n = nwAt[c] /\ n \in 0..n
    BY <1>2, <2>1, <2>2
  <2>4. \A o \in NwBoots : (Allocated(o) /\ nwIn[o] = nwIn[b] /\ nwAt[o] \in nwAt[b]..(nwAt[b] + n)) =>
            nwSeen[o] = nwAt[o] - 1
    BY <1>2, <2>3 DEF Allocated
  <2>5. Allocated(b) /\ Numbered(nwIn[b], nwAt[b] + n, c)
    BY <1>2, <2>3 DEF Numbered, Allocated
  <2>6. nwIp[c] = nwIp[b] + n \/ nwIp[c] = nwIp[b] + n - (NwSize - 2)
    BY <1>2, <2>3, <2>4, <2>5, Rounds
  <2> QED BY <2>1, <2>3, <2>6, NwAssumption
<1>3. NwInv => NwDistinct
  BY <1>1, <1>2 DEF NwDistinct
<1> QED BY <1>3, NwInvariance, PTL

------------------------------------------------------------------------------
(* Port forwarding.  Inv adds to the two safety properties what a call in   *)
(* flight, waited for or given up, implies about the port's socket and the  *)
(* monitor's map.                                                           *)

(* A call the monitor waits for is where its kind says; one in flight that  *)
(* nobody waits for was given up with its context.                          *)
CallInv ==
    \A c \in Conts :
        /\ hand[c] # "none" => cport[c] \in Ports
        /\ call[c] = "start" => hand[c] \in {"start", "bound", "ok", "failed"}
        /\ call[c] = "cancel" => hand[c] \in {"cancel", "ok"}
        /\ call[c] = "none" /\ hand[c] # "none" => ctx[c] = "done"

(* A socket that is bound and not registered is in the hands of the handler *)
(* that bound it.                                                           *)
BoundInv ==
    /\ \A p \in Ports : sock[p] = "bound"
        => hand[owner[p]] = "bound" /\ cport[owner[p]] = p
    /\ \A c \in Conts : hand[c] = "bound"
        => sock[cport[c]] = "bound" /\ owner[cport[c]] = c

(* The port of a call is not in the map.                                    *)
UnrecordedInv ==
    \A c \in Conts :
        call[c] = "start" \/ hand[c] \in {"start", "bound", "cancel"}
            => cport[c] \notin ports[c]

(* Before and after a failed start the socket is somebody else's or free;   *)
(* so it is after a cancel.                                                 *)
NotMineInv ==
    \A c \in Conts :
        (\/ hand[c] = "start"
         \/ call[c] = "start" /\ hand[c] = "failed"
         \/ call[c] = "cancel" /\ hand[c] = "ok")
            => owner[cport[c]] # c

(* After a successful start and before a cancel it is the caller's, unless  *)
(* an Accept error took it.                                                 *)
MineInv ==
    \A c \in Conts :
        (/\ (call[c] = "start" /\ hand[c] = "ok") \/ hand[c] = "cancel"
         /\ cport[c] \notin broken)
            => owner[cport[c]] = c /\ sock[cport[c]] = "registered"

Inv ==
    /\ PortsTypeOK /\ CallInv /\ BoundInv /\ UnrecordedInv /\ NotMineInv /\ MineInv
    /\ RecordedIsForwarded /\ NoForgottenSocket

-----------------------------------------------------------------------------
(* The start: nothing is open, recorded, called or bound.                   *)
LEMMA InitInv == PortsInit => Inv
<1> USE NoContIsNone, NoPortIsNone DEF PortsInit
<1>1. PortsInit => PortsTypeOK
  BY DEF PortsTypeOK, MonState, CallKind, HandState, SockState
<1>2. PortsInit => CallInv /\ BoundInv /\ UnrecordedInv /\ NotMineInv /\ MineInv
  BY DEF CallInv, BoundInv, UnrecordedInv, NotMineInv, MineInv
<1>3. PortsInit => RecordedIsForwarded /\ NoForgottenSocket
  BY DEF RecordedIsForwarded, NoForgottenSocket
<1> QED
  BY <1>1, <1>2, <1>3 DEF Inv

(* A monitor starts with an empty map.                                      *)
LEMMA BeginStep ==
    ASSUME Inv, NEW c \in Conts, Begin(c)
    PROVE  Inv'
<1> USE NoContIsNone, NoPortIsNone DEF Begin, guestVars, callVars, hostVars
<1>1. PortsTypeOK'
  BY DEF Inv, PortsTypeOK, MonState, CallKind, HandState, SockState
<1>2. CallInv' /\ BoundInv' /\ UnrecordedInv' /\ NotMineInv' /\ MineInv' /\
     RecordedIsForwarded' /\ NoForgottenSocket'
  BY DEF Inv, CallInv, BoundInv, UnrecordedInv, NotMineInv, MineInv,
         RecordedIsForwarded, NoForgottenSocket
<1> QED
  BY <1>1, <1>2 DEF Inv

(* What the processes listen on is not what Inv speaks of.                  *)
LEMMA OpenStep ==
    ASSUME Inv, NEW c \in Conts, NEW p \in Ports, Open(c, p)
    PROVE  Inv'
<1> USE NoContIsNone, NoPortIsNone DEF Open, guestVars, callVars, hostVars
<1>1. PortsTypeOK'
  BY DEF Inv, PortsTypeOK, MonState, CallKind, HandState, SockState
<1>2. CallInv' /\ BoundInv' /\ UnrecordedInv' /\ NotMineInv' /\ MineInv' /\
     RecordedIsForwarded' /\ NoForgottenSocket'
  BY DEF Inv, CallInv, BoundInv, UnrecordedInv, NotMineInv, MineInv,
         RecordedIsForwarded, NoForgottenSocket
<1> QED
  BY <1>1, <1>2 DEF Inv

(* Nor is what they close.                                                  *)
LEMMA CloseStep ==
    ASSUME Inv, NEW c \in Conts, NEW p \in Ports, Close(c, p)
    PROVE  Inv'
<1> USE NoContIsNone, NoPortIsNone DEF Close, guestVars, callVars, hostVars
<1>1. PortsTypeOK'
  BY DEF Inv, PortsTypeOK, MonState, CallKind, HandState, SockState
<1>2. CallInv' /\ BoundInv' /\ UnrecordedInv' /\ NotMineInv' /\ MineInv' /\
     RecordedIsForwarded' /\ NoForgottenSocket'
  BY DEF Inv, CallInv, BoundInv, UnrecordedInv, NotMineInv, MineInv,
         RecordedIsForwarded, NoForgottenSocket
<1> QED
  BY <1>1, <1>2 DEF Inv

(* A cancelled context only releases obligations.                           *)
LEMMA CancelledStep ==
    ASSUME Inv, NEW c \in Conts, Cancelled(c)
    PROVE  Inv'
<1> USE NoContIsNone, NoPortIsNone DEF Cancelled, guestVars, callVars,
        hostVars
<1>1. PortsTypeOK'
  BY DEF Inv, PortsTypeOK, MonState, CallKind, HandState, SockState
<1>2. CallInv'
  BY DEF Inv, PortsTypeOK, CallInv
<1>3. NoForgottenSocket'
  BY DEF Inv, PortsTypeOK, NoForgottenSocket, CallInv, BoundInv, NotMineInv,
         MineInv
<1>4. BoundInv' /\ UnrecordedInv' /\ NotMineInv' /\ MineInv' /\
     RecordedIsForwarded'
  BY DEF Inv, BoundInv, UnrecordedInv, NotMineInv, MineInv,
         RecordedIsForwarded
<1> QED
  BY <1>1, <1>2, <1>3, <1>4 DEF Inv

(* A sweep starts with two lists of ports.                                  *)
LEMMA SweepStep ==
    ASSUME Inv, NEW c \in Conts, NEW s4 \in SUBSET Ports, NEW s6 \in SUBSET Ports, Sweep(c, s4, s6)
    PROVE  Inv'
<1> USE NoContIsNone, NoPortIsNone DEF Sweep, callVars, hostVars
<1>1. PortsTypeOK'
  BY DEF Inv, PortsTypeOK, MonState, CallKind, HandState, SockState
<1>2. CallInv' /\ BoundInv' /\ UnrecordedInv' /\ NotMineInv' /\ MineInv' /\
     RecordedIsForwarded' /\ NoForgottenSocket'
  BY DEF Inv, CallInv, BoundInv, UnrecordedInv, NotMineInv, MineInv,
         RecordedIsForwarded, NoForgottenSocket
<1> QED
  BY <1>1, <1>2 DEF Inv

(* A start is sent only for a port that is not recorded, so its socket is   *)
(* not ours yet.                                                            *)
LEMMA NextPortStep ==
    ASSUME Inv, NEW c \in Conts, NEW p \in Ports, NextPort(c, p)
    PROVE  Inv'
<1> USE NoContIsNone, NoPortIsNone DEF NextPort, Pick, Send, callVars,
        hostVars
<1>1. PortsTypeOK'
  BY DEF Inv, PortsTypeOK, MonState, CallKind, HandState, SockState
<1>2. CallInv'
  BY DEF Inv, PortsTypeOK, CallInv
<1>3. BoundInv'
  BY DEF Inv, PortsTypeOK, BoundInv, CallInv
<1>4. UnrecordedInv'
  BY DEF Inv, PortsTypeOK, UnrecordedInv, CallInv
<1>5. NotMineInv'
  BY DEF Inv, PortsTypeOK, NotMineInv, CallInv, NoForgottenSocket, BoundInv
<1>6. MineInv'
  BY DEF Inv, PortsTypeOK, MineInv, CallInv, BoundInv, NotMineInv,
         RecordedIsForwarded
<1>7. NoForgottenSocket'
  BY DEF Inv, PortsTypeOK, NoForgottenSocket, CallInv, BoundInv, NotMineInv,
         MineInv
<1>8. RecordedIsForwarded'
  BY DEF Inv, RecordedIsForwarded
<1> QED
  BY <1>1, <1>2, <1>3, <1>4, <1>5, <1>6, <1>7, <1>8 DEF Inv

(* From the first loop to the second.                                       *)
LEMMA SweepDoneStep ==
    ASSUME Inv, NEW c \in Conts, SweepDone(c)
    PROVE  Inv'
<1> USE NoContIsNone, NoPortIsNone DEF SweepDone, guestVars, callVars,
        hostVars
<1>1. PortsTypeOK'
  BY DEF Inv, PortsTypeOK, MonState, CallKind, HandState, SockState
<1>2. CallInv' /\ BoundInv' /\ UnrecordedInv' /\ NotMineInv' /\ MineInv' /\
     RecordedIsForwarded' /\ NoForgottenSocket'
  BY DEF Inv, CallInv, BoundInv, UnrecordedInv, NotMineInv, MineInv,
         RecordedIsForwarded, NoForgottenSocket
<1> QED
  BY <1>1, <1>2 DEF Inv

(* A recorded port leaves the map for a cancel, while its socket is still   *)
(* ours.                                                                    *)
LEMMA RetractStep ==
    ASSUME Inv, NEW c \in Conts, NEW p \in Ports, Retract(c, p)
    PROVE  Inv'
<1> USE NoContIsNone, NoPortIsNone DEF Retract, Send, callVars, hostVars
<1>1. PortsTypeOK'
  BY DEF Inv, PortsTypeOK, MonState, CallKind, HandState, SockState
<1>2. CallInv'
  BY DEF Inv, PortsTypeOK, CallInv
<1>3. BoundInv'
  BY DEF Inv, PortsTypeOK, BoundInv, CallInv
<1>4. UnrecordedInv'
  BY DEF Inv, PortsTypeOK, UnrecordedInv, CallInv
<1>5. NotMineInv'
  BY DEF Inv, PortsTypeOK, NotMineInv, CallInv, NoForgottenSocket, BoundInv
<1>6. MineInv'
  BY DEF Inv, PortsTypeOK, MineInv, CallInv, BoundInv, NotMineInv,
         RecordedIsForwarded
<1>7. RecordedIsForwarded'
  BY DEF Inv, PortsTypeOK, RecordedIsForwarded, CallInv, BoundInv, MineInv,
         UnrecordedInv
<1>8. NoForgottenSocket'
  BY DEF Inv, PortsTypeOK, NoForgottenSocket, CallInv, BoundInv, NotMineInv,
         MineInv
<1> QED
  BY <1>1, <1>2, <1>3, <1>4, <1>5, <1>6, <1>7, <1>8 DEF Inv

(* The sweep is over.                                                       *)
LEMMA RetractDoneStep ==
    ASSUME Inv, NEW c \in Conts, RetractDone(c)
    PROVE  Inv'
<1> USE NoContIsNone, NoPortIsNone DEF RetractDone, callVars, hostVars
<1>1. PortsTypeOK'
  BY DEF Inv, PortsTypeOK, MonState, CallKind, HandState, SockState
<1>2. CallInv' /\ BoundInv' /\ UnrecordedInv' /\ NotMineInv' /\ MineInv' /\
     RecordedIsForwarded' /\ NoForgottenSocket'
  BY DEF Inv, CallInv, BoundInv, UnrecordedInv, NotMineInv, MineInv,
         RecordedIsForwarded, NoForgottenSocket
<1> QED
  BY <1>1, <1>2 DEF Inv

(* A successful start is recorded, a failed one and a cancel leave nothing  *)
(* behind.                                                                  *)
LEMMA AnsweredStep ==
    ASSUME Inv, NEW c \in Conts, Answered(c)
    PROVE  Inv'
<1> USE NoContIsNone, NoPortIsNone DEF Answered, hostVars
<1>1. PortsTypeOK'
  BY DEF Inv, PortsTypeOK, MonState, CallKind, HandState, SockState, CallInv
<1>2. CallInv'
  BY DEF Inv, PortsTypeOK, CallInv
<1>3. BoundInv'
  BY DEF Inv, PortsTypeOK, BoundInv, CallInv
<1>4. UnrecordedInv'
  BY DEF Inv, PortsTypeOK, UnrecordedInv, CallInv
<1>5. NotMineInv'
  BY DEF Inv, PortsTypeOK, NotMineInv, CallInv, NoForgottenSocket, BoundInv
<1>6. MineInv'
  BY DEF Inv, PortsTypeOK, MineInv, CallInv, BoundInv, NotMineInv,
         RecordedIsForwarded
<1>7. RecordedIsForwarded'
  BY DEF Inv, PortsTypeOK, RecordedIsForwarded, CallInv, BoundInv, MineInv,
         UnrecordedInv
<1>8. NoForgottenSocket'
  <2> SUFFICES ASSUME NEW d \in Conts, NEW p \in Ports,
                      owner[p] = d, ctx[d] = "live"
               PROVE  p \in ports'[d] \/ (cport'[d] = p /\ call'[d] # "none")
    BY DEF NoForgottenSocket
  <2>1. p \in ports[d] \/ (cport[d] = p /\ call[d] # "none")
    BY DEF Inv, NoForgottenSocket
  <2>2. CASE d # c
    BY <2>1, <2>2 DEF Inv, PortsTypeOK
  <2>3. CASE d = c /\ p \in ports[d]
    BY <2>3 DEF Inv, PortsTypeOK
  <2>4. CASE d = c /\ cport[d] = p
    <3>1. call[c] = "start" /\ hand[c] = "ok"
      BY <2>4 DEF Inv, PortsTypeOK, CallKind, CallInv, NotMineInv
    <3> QED
      BY <2>4, <3>1 DEF Inv, PortsTypeOK
  <2> QED
    BY <2>1, <2>2, <2>3, <2>4
<1> QED
  BY <1>1, <1>2, <1>3, <1>4, <1>5, <1>6, <1>7, <1>8 DEF Inv

(* Only a call whose context is cancelled is given up.                      *)
LEMMA AbandonStep ==
    ASSUME Inv, NEW c \in Conts, Abandon(c)
    PROVE  Inv'
<1> USE NoContIsNone, NoPortIsNone DEF Abandon, guestVars, hostVars
<1>1. PortsTypeOK'
  BY DEF Inv, PortsTypeOK, MonState, CallKind, HandState, SockState
<1>2. CallInv'
  BY DEF Inv, PortsTypeOK, CallInv
<1>3. UnrecordedInv'
  BY DEF Inv, PortsTypeOK, UnrecordedInv, CallInv
<1>4. NotMineInv'
  BY DEF Inv, PortsTypeOK, NotMineInv, CallInv, NoForgottenSocket, BoundInv
<1>5. MineInv'
  BY DEF Inv, PortsTypeOK, MineInv, CallInv, BoundInv, NotMineInv,
         RecordedIsForwarded
<1>6. NoForgottenSocket'
  BY DEF Inv, PortsTypeOK, NoForgottenSocket, CallInv, BoundInv, NotMineInv,
         MineInv
<1>7. BoundInv' /\ RecordedIsForwarded'
  BY DEF Inv, BoundInv, RecordedIsForwarded
<1> QED
  BY <1>1, <1>2, <1>3, <1>4, <1>5, <1>6, <1>7 DEF Inv

(* The map goes with its monitor, whose context is cancelled.               *)
LEMMA PortExitStep ==
    ASSUME Inv, NEW c \in Conts, Exit(c)
    PROVE  Inv'
<1> USE NoContIsNone, NoPortIsNone DEF Exit, callVars, hostVars
<1>1. PortsTypeOK'
  BY DEF Inv, PortsTypeOK, MonState, CallKind, HandState, SockState
<1>2. UnrecordedInv'
  BY DEF Inv, PortsTypeOK, UnrecordedInv, CallInv
<1>3. RecordedIsForwarded'
  BY DEF Inv, PortsTypeOK, RecordedIsForwarded, CallInv, BoundInv, MineInv,
         UnrecordedInv
<1>4. NoForgottenSocket'
  BY DEF Inv, PortsTypeOK, NoForgottenSocket, CallInv, BoundInv, NotMineInv,
         MineInv
<1>5. CallInv' /\ BoundInv' /\ NotMineInv' /\ MineInv'
  BY DEF Inv, CallInv, BoundInv, NotMineInv, MineInv
<1> QED
  BY <1>1, <1>2, <1>3, <1>4, <1>5 DEF Inv

(* A call that was given up never arrives.                                  *)
LEMMA DroppedStep ==
    ASSUME Inv, NEW c \in Conts, Dropped(c)
    PROVE  Inv'
<1> USE NoContIsNone, NoPortIsNone DEF Dropped, guestVars, hostVars,
        HandlerDone
<1>1. PortsTypeOK'
  BY DEF Inv, PortsTypeOK, MonState, CallKind, HandState, SockState
<1>2. CallInv'
  BY DEF Inv, PortsTypeOK, CallInv
<1>3. BoundInv'
  BY DEF Inv, PortsTypeOK, BoundInv, CallInv
<1>4. UnrecordedInv'
  BY DEF Inv, PortsTypeOK, UnrecordedInv, CallInv
<1>5. NotMineInv'
  BY DEF Inv, PortsTypeOK, NotMineInv, CallInv, NoForgottenSocket, BoundInv
<1>6. MineInv'
  BY DEF Inv, PortsTypeOK, MineInv, CallInv, BoundInv, NotMineInv,
         RecordedIsForwarded
<1>7. RecordedIsForwarded' /\ NoForgottenSocket'
  BY DEF Inv, RecordedIsForwarded, NoForgottenSocket
<1> QED
  BY <1>1, <1>2, <1>3, <1>4, <1>5, <1>6, <1>7 DEF Inv

(* The handler takes a free socket, which nobody has recorded.              *)
LEMMA HostListenStep ==
    ASSUME Inv, NEW c \in Conts, HostListen(c)
    PROVE  Inv'
<1> USE NoContIsNone, NoPortIsNone DEF HostListen, guestVars, HandlerDone
<1>1. PortsTypeOK'
  BY DEF Inv, PortsTypeOK, MonState, CallKind, HandState, SockState, CallInv
<1>2. CallInv'
  BY DEF Inv, PortsTypeOK, CallInv
<1>3. BoundInv'
  BY DEF Inv, PortsTypeOK, BoundInv, CallInv
<1>4. UnrecordedInv'
  BY DEF Inv, PortsTypeOK, UnrecordedInv, CallInv
<1>5. NotMineInv'
  BY DEF Inv, PortsTypeOK, NotMineInv, CallInv, NoForgottenSocket, BoundInv
<1>6. MineInv'
  BY DEF Inv, PortsTypeOK, MineInv, CallInv, BoundInv, NotMineInv,
         RecordedIsForwarded
<1>7. RecordedIsForwarded'
  BY DEF Inv, PortsTypeOK, RecordedIsForwarded, CallInv, BoundInv, MineInv,
         UnrecordedInv
<1>8. NoForgottenSocket'
  BY DEF Inv, PortsTypeOK, NoForgottenSocket, CallInv, BoundInv, NotMineInv,
         MineInv
<1> QED
  BY <1>1, <1>2, <1>3, <1>4, <1>5, <1>6, <1>7, <1>8 DEF Inv

(* And registers it.                                                        *)
LEMMA HostRegisterStep ==
    ASSUME Inv, NEW c \in Conts, HostRegister(c)
    PROVE  Inv'
<1> USE NoContIsNone, NoPortIsNone DEF HostRegister, guestVars, HandlerDone
<1>1. PortsTypeOK'
  BY DEF Inv, PortsTypeOK, MonState, CallKind, HandState, SockState, CallInv,
         BoundInv
<1>2. CallInv'
  BY DEF Inv, PortsTypeOK, CallInv
<1>3. BoundInv'
  BY DEF Inv, PortsTypeOK, BoundInv, CallInv
<1>4. UnrecordedInv'
  BY DEF Inv, PortsTypeOK, UnrecordedInv, CallInv
<1>5. NotMineInv'
  BY DEF Inv, PortsTypeOK, NotMineInv, CallInv, NoForgottenSocket, BoundInv
<1>6. MineInv'
  BY DEF Inv, PortsTypeOK, MineInv, CallInv, BoundInv, NotMineInv,
         RecordedIsForwarded
<1>7. RecordedIsForwarded'
  BY DEF Inv, PortsTypeOK, RecordedIsForwarded, CallInv, BoundInv, MineInv,
         UnrecordedInv
<1>8. NoForgottenSocket'
  BY DEF Inv, NoForgottenSocket
<1> QED
  BY <1>1, <1>2, <1>3, <1>4, <1>5, <1>6, <1>7, <1>8 DEF Inv

(* The socket a cancel closes is the caller's, unless an Accept error came  *)
(* before.                                                                  *)
LEMMA HostCancelStep ==
    ASSUME Inv, NEW c \in Conts, HostCancel(c)
    PROVE  Inv'
<1> USE NoContIsNone, NoPortIsNone DEF HostCancel, guestVars, HandlerDone,
        FreeSocket
<1>1. PortsTypeOK'
  BY DEF Inv, PortsTypeOK, MonState, CallKind, HandState, SockState, CallInv
<1>2. CallInv'
  BY DEF Inv, PortsTypeOK, CallInv
<1>3. BoundInv'
  BY DEF Inv, PortsTypeOK, BoundInv, CallInv
<1>4. UnrecordedInv'
  BY DEF Inv, PortsTypeOK, UnrecordedInv, CallInv
<1>5. NotMineInv'
  BY DEF Inv, PortsTypeOK, NotMineInv, CallInv, NoForgottenSocket, BoundInv
<1>6. MineInv'
  BY DEF Inv, PortsTypeOK, MineInv, CallInv, BoundInv, NotMineInv,
         RecordedIsForwarded
<1>7. RecordedIsForwarded'
  BY DEF Inv, PortsTypeOK, RecordedIsForwarded, CallInv, BoundInv, MineInv,
         UnrecordedInv
<1>8. NoForgottenSocket'
  BY DEF Inv, PortsTypeOK, NoForgottenSocket, CallInv, BoundInv, NotMineInv,
         MineInv
<1> QED
  BY <1>1, <1>2, <1>3, <1>4, <1>5, <1>6, <1>7, <1>8 DEF Inv

(* A forwarder dies: its port is broken from then on.                       *)
LEMMA AcceptErrorStep ==
    ASSUME Inv, NEW p \in Ports, AcceptError(p)
    PROVE  Inv'
<1> USE NoContIsNone, NoPortIsNone DEF AcceptError, guestVars, callVars,
        FreeSocket
<1>1. PortsTypeOK'
  BY DEF Inv, PortsTypeOK, MonState, CallKind, HandState, SockState
<1>2. BoundInv'
  BY DEF Inv, PortsTypeOK, BoundInv, CallInv
<1>3. NotMineInv'
  BY DEF Inv, PortsTypeOK, NotMineInv, CallInv, NoForgottenSocket, BoundInv
<1>4. MineInv'
  BY DEF Inv, PortsTypeOK, MineInv, CallInv, BoundInv, NotMineInv,
         RecordedIsForwarded
<1>5. RecordedIsForwarded'
  BY DEF Inv, PortsTypeOK, RecordedIsForwarded, CallInv, BoundInv, MineInv,
         UnrecordedInv
<1>6. NoForgottenSocket'
  BY DEF Inv, PortsTypeOK, NoForgottenSocket, CallInv, BoundInv, NotMineInv,
         MineInv
<1>7. CallInv' /\ UnrecordedInv'
  BY DEF Inv, CallInv, UnrecordedInv
<1> QED
  BY <1>1, <1>2, <1>3, <1>4, <1>5, <1>6, <1>7 DEF Inv

(* A port in other hands is not one of ours.                                *)
LEMMA OtherListensStep ==
    ASSUME Inv, NEW p \in Ports, OtherListens(p)
    PROVE  Inv'
<1> USE NoContIsNone, NoPortIsNone DEF OtherListens, guestVars, callVars
<1>1. PortsTypeOK'
  BY DEF Inv, PortsTypeOK, MonState, CallKind, HandState, SockState
<1>2. BoundInv'
  BY DEF Inv, PortsTypeOK, BoundInv, CallInv
<1>3. MineInv'
  BY DEF Inv, PortsTypeOK, MineInv, CallInv, BoundInv, NotMineInv,
         RecordedIsForwarded
<1>4. RecordedIsForwarded'
  BY DEF Inv, PortsTypeOK, RecordedIsForwarded, CallInv, BoundInv, MineInv,
         UnrecordedInv
<1>5. CallInv' /\ UnrecordedInv' /\ NotMineInv' /\ NoForgottenSocket'
  BY DEF Inv, CallInv, UnrecordedInv, NotMineInv, NoForgottenSocket
<1> QED
  BY <1>1, <1>2, <1>3, <1>4, <1>5 DEF Inv

-----------------------------------------------------------------------------
(* Inv is inductive.                                                        *)
LEMMA NextInv == Inv /\ [PortsNext]_portsVars => Inv'
<1> SUFFICES ASSUME Inv, [PortsNext]_portsVars PROVE Inv'
  OBVIOUS
<1>1. CASE UNCHANGED portsVars
  BY <1>1 DEF Inv, PortsTypeOK, CallInv, BoundInv, UnrecordedInv, NotMineInv, MineInv,
         RecordedIsForwarded, NoForgottenSocket, portsVars, guestVars, callVars, hostVars
<1>2. ASSUME NEW c \in Conts,
             \/ Begin(c) \/ Cancelled(c) \/ Abandon(c) \/ Exit(c) \/ Dropped(c)
             \/ MonitorStep(c) \/ HandlerStep(c)
      PROVE  Inv'
  BY <1>2, BeginStep, CancelledStep, AbandonStep, PortExitStep, DroppedStep,
     NextPortStep, RetractStep, SweepDoneStep, RetractDoneStep, AnsweredStep,
     HostListenStep, HostRegisterStep, HostCancelStep DEF MonitorStep, HandlerStep
<1>3. ASSUME NEW c \in Conts, NEW p \in Ports, Open(c, p) \/ Close(c, p)
      PROVE  Inv'
  BY <1>3, OpenStep, CloseStep
<1>4. ASSUME NEW c \in Conts, NEW s4 \in SUBSET Ports, NEW s6 \in SUBSET Ports,
             Sweep(c, s4, s6)
      PROVE  Inv'
  BY <1>4, SweepStep
<1>5. ASSUME NEW p \in Ports, AcceptError(p) \/ OtherListens(p)
      PROVE  Inv'
  BY <1>5, AcceptErrorStep, OtherListensStep
<1> QED
  BY <1>1, <1>2, <1>3, <1>4, <1>5 DEF PortsNext

(* So it always holds.                                                      *)
LEMMA SpecInv == PortsSpec => []Inv
  BY InitInv, NextInv, PTL DEF PortsSpec

(* The port monitors and the host's handlers keep their types, and every    *)
(* bound socket has a container to forward to.                              *)
THEOREM TypeCorrect == PortsSpec => []PortsTypeOK
<1>1. Inv => PortsTypeOK
  BY DEF Inv
<1> QED
  BY <1>1, SpecInv, PTL

(* What processPorts has recorded, StartPortForward has bound and           *)
(* registered for that container, and nobody else's CancelPortForward has   *)
(* closed it, for any number of containers and ports.                       *)
THEOREM RecordedPortsAreForwarded == PortsSpec => []RecordedIsForwarded
<1>1. Inv => RecordedIsForwarded
  BY DEF Inv
<1> QED
  BY <1>1, SpecInv, PTL

(* No socket of the host outlives the guest's memory of it, until the       *)
(* container's context is cancelled.                                        *)
THEOREM NoSocketIsForgotten == PortsSpec => []NoForgottenSocket
<1>1. Inv => NoForgottenSocket
  BY DEF Inv
<1> QED
  BY <1>1, SpecInv, PTL

------------------------------------------------------------------------------
(* Relayed connections.                                                     *)

(* Every variable but the kind and the loop is a function of the connection. *)
RyFunctions ==
    /\ ryLoop \in RyClients \cup {RyNone}
    /\ ryNear = [c \in RyClients |-> ryNear[c]] /\ ryFar = [c \in RyClients |-> ryFar[c]]
    /\ ryDown = [c \in RyClients |-> ryDown[c]] /\ rySent = [c \in RyClients |-> rySent[c]]
    /\ ryServer = [c \in RyClients |-> ryServer[c]] /\ ryGot = [c \in RyClients |-> ryGot[c]]
    /\ ryTaken = [c \in RyClients |-> ryTaken[c]] /\ ryUp = [c \in RyClients |-> ryUp[c]]
    /\ ryClient = [c \in RyClients |-> ryClient[c]] /\ ryStream = [c \in RyClients |-> ryStream[c]]

RyValues(c) ==
    /\ ryNear[c] \in {"none", "waiting", "opened", "asked", "refused", "copying", "over"}
    /\ ryFar[c] \in {"none", "asked", "copying", "over"}
    /\ ryStream[c] \in {"none", "open", "near", "far"}
    /\ ryClient[c] \in {"open", "closed", "told"} /\ ryServer[c] \in {"none", "sends", "closed", "told"}
    /\ ryDown[c] \in Seq(Int) /\ ryGot[c] \in Seq(Int) /\ rySent[c] \in Nat /\ ryTaken[c] \in Nat

(* How far the two sides, the stream and the ends can be from each other.   *)
RyLife(c) ==
    /\ (ryLoop = c) <=> (ryNear[c] \in {"opened", "asked"})
    /\ ryNear[c] \in {"none", "waiting"} => ryStream[c] = "none" /\ ryClient[c] # "told"
    /\ ryNear[c] \in {"none", "waiting", "opened"} => ryFar[c] = "none"
    /\ ryNear[c] = "opened" => ryStream[c] = "open"
    /\ ryNear[c] = "asked" => ryStream[c] \in {"open", "far"}
    /\ ryNear[c] = "refused" => ryFar[c] \in {"none", "over"}
    /\ ryNear[c] \in {"copying", "over"} => ryFar[c] \in {"copying", "over"}
    /\ ryNear[c] = "copying" => ryStream[c] \in {"open", "far"}
    /\ ryNear[c] = "over" => ryStream[c] \in {"near", "far"}
    /\ ryClient[c] = "told" => ryNear[c] \in {"refused", "over"}
    /\ ryStream[c] = "far" => ryFar[c] = "over"
    /\ ryStream[c] = "near" => ryNear[c] = "over"
    /\ ryServer[c] = "told" => ryNear[c] = "over" /\ ryFar[c] = "over"

RyFlow(c) ==
    /\ \A i \in 1..Len(ryDown[c]) : ryDown[c][i] = ryTaken[c] + Len(ryGot[c]) + i
    /\ \A i \in 1..Len(ryGot[c]) : ryGot[c][i] = ryTaken[c] + i
    /\ ryTaken[c] + Len(ryGot[c]) + Len(ryDown[c]) <= rySent[c]
    /\ ryStream[c] # "near" => ryTaken[c] + Len(ryGot[c]) + Len(ryDown[c]) = rySent[c]

(* The bytes of the server follow each other from the server to the client: *)
(* the answer and what came after it, what the decoder has taken, what the  *)
(* client has, and what is in the stream.                                   *)
RyDownInv(c) ==
    /\ ryNear[c] \in {"none", "waiting", "opened", "asked", "refused"} => ryGot[c] = <<>> /\ ryTaken[c] = 0
    /\ ryFar[c] \in {"none", "asked"} => rySent[c] = 0 /\ ryDown[c] = <<>>
    /\ ryNear[c] = "asked" /\ ryDown[c] # <<>> =>
         /\ ryDown[c][1] \in {RyOk, RyError} /\ rySent[c] = Len(ryDown[c]) - 1
         /\ ryFar[c] = "copying" => ryDown[c][1] = RyOk
         /\ ryDown[c][1] = RyError => rySent[c] = 0
         /\ \A i \in 2..Len(ryDown[c]) : ryDown[c][i] = i - 1
    /\ ryNear[c] = "asked" /\ ryFar[c] = "copying" => ryDown[c] # <<>>
    /\ ryNear[c] \in {"copying", "over"} => RyFlow(c)
    /\ ryNear[c] = "over" /\ ryClient[c] = "told" => ryStream[c] = "far" /\ ryDown[c] = <<>>

(* The bytes of the client, likewise.                                       *)
RyUpInv(c) ==
    /\ ryUp[c] = [i \in 1..3 |-> ryUp[c][i]]
    /\ ryUp[c][1] \in Nat /\ ryUp[c][2] \in Nat /\ ryUp[c][3] \in Nat
    /\ ryUp[c][3] <= ryUp[c][2] /\ ryUp[c][2] <= ryUp[c][1]
    /\ ryServer[c] = "told" => ryUp[c][3] = ryUp[c][2]

RyOne(c) == RyValues(c) /\ RyLife(c) /\ RyDownInv(c) /\ RyUpInv(c)

RyInv == RyFunctions /\ \A c \in RyClients : RyOne(c)

(* A step of another connection.                                            *)
RySame(c) ==
    /\ (ryLoop = c) <=> (ryLoop' = c)
    /\ ryNear'[c] = ryNear[c] /\ ryFar'[c] = ryFar[c] /\ ryDown'[c] = ryDown[c] /\ rySent'[c] = rySent[c]
    /\ ryServer'[c] = ryServer[c] /\ ryGot'[c] = ryGot[c] /\ ryTaken'[c] = ryTaken[c] /\ ryUp'[c] = ryUp[c]
    /\ ryClient'[c] = ryClient[c] /\ ryStream'[c] = ryStream[c]

(* RyInv holds at first.                                                    *)
LEMMA RyInitInv == RyInit => RyInv
<1> SUFFICES ASSUME RyInit PROVE RyInv
  OBVIOUS
<1>1. RyFunctions
  BY DEF RyInit, RyFunctions
<1>2. ASSUME NEW c \in RyClients PROVE RyOne(c)
  <2>1. /\ ryLoop # c /\ ryNear[c] = "none" /\ ryFar[c] = "none" /\ ryDown[c] = <<>> /\ rySent[c] = 0
        /\ ryServer[c] = "none" /\ ryGot[c] = <<>> /\ ryTaken[c] = 0 /\ ryUp[c] = <<0, 0, 0>>
        /\ ryClient[c] = "open" /\ ryStream[c] = "none"
    BY RyAssumption DEF RyInit
  <2>2. RyValues(c) /\ RyLife(c) /\ RyDownInv(c)
    BY <2>1 DEF RyValues, RyLife, RyFlow, RyDownInv
  <2>3. RyUpInv(c)
    BY <2>1 DEF RyUpInv
  <2> QED BY <2>2, <2>3 DEF RyOne
<1> QED BY <1>1, <1>2 DEF RyInv

(* A step of one connection keeps RyInv when it keeps RyOne of that one.    *)
LEMMA RyFrame ==
    ASSUME RyInv, NEW c \in RyClients, RyFunctions', RyOne(c)', \A d \in RyClients \ {c} : RySame(d)
    PROVE  RyInv'
<1>1. ASSUME NEW d \in RyClients \ {c} PROVE RyOne(d)'
  <2>1. RyOne(d) /\ RySame(d)
    BY DEF RyInv
  <2>2. RyValues(d)'
    BY <2>1 DEF RyOne, RySame, RyValues
  <2>3. RyLife(d)'
    BY <2>1 DEF RyOne, RySame, RyLife
  <2>4. RyDownInv(d)'
    BY <2>1 DEF RyOne, RySame, RyFlow, RyDownInv
  <2>5. RyUpInv(d)'
    BY <2>1 DEF RyOne, RySame, RyUpInv
  <2> QED BY <2>2, <2>3, <2>4, <2>5 DEF RyOne
<1> QED BY <1>1 DEF RyInv

(* Connecting and the start of a copy: the near side's accept loop.         *)
LEMMA RyAcceptInv ==
    ASSUME RyInv, NEW c \in RyClients, NEW b \in BOOLEAN, RyDial(c) \/ RyAccept(c, b) \/ RyAsk(c)
    PROVE  RyInv'
<1>1. RyFunctions /\ RyOne(c) /\ c # RyNone
  BY RyAssumption DEF RyInv
<1>2. UNCHANGED <<ryDown, rySent, ryServer, ryGot, ryTaken, ryUp>>
  BY DEF RyDial, RyAccept, RyAsk
<1>3. \/ /\ ryNear[c] = "none" /\ ryNear' = [ryNear EXCEPT ![c] = "waiting"] /\ UNCHANGED <<ryLoop, ryFar, ryClient, ryStream>>
      \/ /\ ryLoop = RyNone /\ ryNear[c] = "waiting" /\ ryLoop' = c /\ ryNear' = [ryNear EXCEPT ![c] = "opened"]
         /\ ryStream' = [ryStream EXCEPT ![c] = "open"] /\ UNCHANGED <<ryFar, ryClient>>
      \/ /\ ryLoop = RyNone /\ ryNear[c] = "waiting" /\ ryNear' = [ryNear EXCEPT ![c] = "refused"]
         /\ ryClient' = [ryClient EXCEPT ![c] = IF ryKind = "agent" /\ ryClient[c] = "open" THEN "told" ELSE ryClient[c]]
         /\ UNCHANGED <<ryLoop, ryFar, ryStream>>
      \/ /\ ryLoop = c /\ ryNear[c] = "opened" /\ ryNear' = [ryNear EXCEPT ![c] = "asked"]
         /\ ryFar' = [ryFar EXCEPT ![c] = "asked"] /\ UNCHANGED <<ryLoop, ryClient, ryStream>>
  BY DEF RyDial, RyAccept, RyAsk
<1>4. RyFunctions'
  BY <1>1, <1>2, <1>3 DEF RyFunctions
<1>5. ASSUME NEW d \in RyClients \ {c} PROVE RySame(d)
  BY <1>1, <1>2, <1>3, RyAssumption DEF RyFunctions, RySame
<1>6. RyValues(c)'
  BY <1>1, <1>2, <1>3 DEF RyFunctions, RyOne, RyValues
<1>7. RyLife(c)'
  BY <1>1, <1>2, <1>3 DEF RyFunctions, RyOne, RyValues, RyLife
<1>8. RyDownInv(c)'
  BY <1>1, <1>2, <1>3 DEF RyFunctions, RyOne, RyValues, RyLife, RyFlow, RyDownInv
<1>9. RyUpInv(c)'
  BY <1>1, <1>2 DEF RyOne, RyUpInv
<1> QED BY <1>4, <1>5, <1>6, <1>7, <1>8, <1>9, RyFrame DEF RyOne

(* The far side's answer, or its end without one.                           *)
LEMMA RyAnswerInv ==
    ASSUME RyInv, NEW c \in RyClients, NEW b \in BOOLEAN, RyAnswer(c, b) \/ RyUnasked(c)
    PROVE  RyInv'
<1>1. RyFunctions /\ RyOne(c)
  BY DEF RyInv
<1>2. UNCHANGED <<ryLoop, ryNear, rySent, ryGot, ryTaken, ryUp, ryClient>> /\ ryFar[c] = "asked"
  BY DEF RyAnswer, RyUnasked
<1>3. \/ /\ ryDown' = [ryDown EXCEPT ![c] = Append(ryDown[c], RyOk)] /\ ryFar' = [ryFar EXCEPT ![c] = "copying"]
         /\ ryServer' = [ryServer EXCEPT ![c] = "sends"] /\ ryStream' = [ryStream EXCEPT ![c] = ryStream[c]]
      \/ /\ ryDown' = [ryDown EXCEPT ![c] = Append(ryDown[c], RyError)] /\ ryFar' = [ryFar EXCEPT ![c] = "over"]
         /\ ryServer' = [ryServer EXCEPT ![c] = ryServer[c]]
         /\ ryStream' = [ryStream EXCEPT ![c] = IF ryStream[c] = "open" THEN "far" ELSE ryStream[c]]
      \/ /\ UNCHANGED <<ryDown, ryServer>> /\ ryFar' = [ryFar EXCEPT ![c] = "over"]
         /\ ryStream' = [ryStream EXCEPT ![c] = IF ryStream[c] = "open" THEN "far" ELSE ryStream[c]]
  BY DEF RyAnswer, RyUnasked
<1>4. RyFunctions'
  BY <1>1, <1>2, <1>3 DEF RyFunctions
<1>5. ASSUME NEW d \in RyClients \ {c} PROVE RySame(d)
  BY <1>1, <1>2, <1>3 DEF RyFunctions, RySame
<1>6. ryNear[c] = "asked" /\ ryDown[c] = <<>> /\ rySent[c] = 0 /\ ryStream[c] = "open"
  BY <1>1, <1>2 DEF RyOne, RyValues, RyLife, RyFlow, RyDownInv
<1>7. \/ ryDown'[c] = <<RyOk>> /\ ryFar'[c] = "copying" /\ ryServer'[c] = "sends" /\ ryStream'[c] = "open"
      \/ ryDown'[c] = <<RyError>> /\ ryFar'[c] = "over" /\ ryServer'[c] = ryServer[c] /\ ryStream'[c] = "far"
      \/ ryDown'[c] = <<>> /\ ryFar'[c] = "over" /\ ryServer'[c] = ryServer[c] /\ ryStream'[c] = "far"
  BY <1>1, <1>3, <1>6 DEF RyFunctions
<1>8. RyValues(c)'
  <2>1. RyOk \in Int /\ RyError \in Int
    BY DEF RyOk, RyError
  <2>2. \A x \in Int : <<x>> \in Seq(Int)
    OBVIOUS
  <2>3. ryDown'[c] \in Seq(Int)
    <3>1. <<>> \in Seq(Int)
      OBVIOUS
    <3>2. ryDown'[c] \in {<<>>, <<RyOk>>, <<RyError>>}
      BY <1>7
    <3>3. <<RyOk>> \in Seq(Int) /\ <<RyError>> \in Seq(Int)
      BY <2>1, <2>2
    <3> QED BY <3>1, <3>2, <3>3
  <2> QED BY <1>1, <1>2, <1>7, <2>3 DEF RyOne, RyValues
<1>9. RyLife(c)'
  BY <1>1, <1>2, <1>6, <1>7 DEF RyOne, RyLife
<1>10. RyDownInv(c)'
  <2>1. /\ ryNear'[c] = "asked" /\ ryGot'[c] = <<>> /\ ryTaken'[c] = 0 /\ rySent'[c] = 0
        /\ ryFar'[c] \in {"copying", "over"} /\ RyOk # RyError
    BY <1>1, <1>2, <1>6, <1>7 DEF RyOne, RyDownInv, RyOk, RyError
  <2>2. CASE ryDown'[c] = <<>> /\ ryFar'[c] = "over"
    BY <2>1, <2>2 DEF RyDownInv
  <2>3. ASSUME NEW x \in {RyOk, RyError}, ryDown'[c] = <<x>>, ryFar'[c] = "copying" => x = RyOk PROVE RyDownInv(c)'
    <3>1. PICK new : new = <<x>>
      OBVIOUS
    <3>2. new # <<>> /\ Len(new) = 1 /\ new[1] = x /\ 2..Len(new) = {}
      BY <3>1
    <3> QED BY <2>1, <2>3, <3>1, <3>2 DEF RyDownInv
  <2> QED BY <1>7, <2>2, <2>3
<1>11. RyUpInv(c)'
  BY <1>1, <1>2, <1>6, <1>7 DEF RyOne, RyLife, RyUpInv
<1> QED BY <1>4, <1>5, <1>8, <1>9, <1>10, <1>11, RyFrame DEF RyOne

(* The near side reads the answer, or the end of the stream.                *)
LEMMA RyDecodeInv ==
    ASSUME RyInv, NEW c \in RyClients, (\E k \in 0..RyBytes : RyDecode(c, k)) \/ RyNoAnswer(c)
    PROVE  RyInv'
<1>1. RyFunctions /\ RyOne(c) /\ c # RyNone
  BY RyAssumption DEF RyInv
<1>2. /\ UNCHANGED <<ryFar, rySent, ryServer, ryGot, ryUp, ryStream>> /\ ryNear[c] = "asked" /\ ryLoop = c
      /\ ryLoop' = RyNone
  BY DEF RyDecode, RyNoAnswer
<1>3. CASE RyNoAnswer(c)
  <2>1. /\ ryNear' = [ryNear EXCEPT ![c] = "refused"] /\ UNCHANGED <<ryDown, ryTaken>>
        /\ ryClient' = [ryClient EXCEPT ![c] = IF ryKind = "agent" /\ ryClient[c] = "open" THEN "told" ELSE ryClient[c]]
        /\ ryStream[c] = "far"
    BY <1>3 DEF RyNoAnswer
  <2>2. RyFunctions'
    BY <1>1, <1>2, <2>1 DEF RyFunctions
  <2>3. ASSUME NEW d \in RyClients \ {c} PROVE RySame(d)
    BY <1>1, <1>2, <2>1, RyAssumption DEF RyFunctions, RySame
  <2>4. RyValues(c)'
    BY <1>1, <1>2, <2>1 DEF RyFunctions, RyOne, RyValues
  <2>5. RyLife(c)'
    BY <1>1, <1>2, <2>1 DEF RyFunctions, RyOne, RyLife
  <2>6. RyDownInv(c)'
    BY <1>1, <1>2, <2>1 DEF RyFunctions, RyOne, RyLife, RyFlow, RyDownInv
  <2>7. RyUpInv(c)'
    BY <1>1, <1>2 DEF RyOne, RyUpInv
  <2> QED BY <2>2, <2>3, <2>4, <2>5, <2>6, <2>7, RyFrame DEF RyOne
<1>4. ASSUME NEW k \in 0..RyBytes, RyDecode(c, k) PROVE RyInv'
  <2>1. PICK down : down = ryDown[c]
    OBVIOUS
  <2>2. /\ down # <<>> /\ down \in Seq(Int) /\ k \in 0..(Len(down) - 1) /\ rySent[c] = Len(down) - 1
        /\ \A i \in 2..Len(down) : down[i] = i - 1
        /\ down[1] \in {RyOk, RyError} /\ (down[1] = RyError => rySent[c] = 0)
        /\ ryFar[c] \in {"copying", "over"} /\ (ryFar[c] = "copying" => down[1] = RyOk)
    BY <1>1, <1>2, <1>4, <2>1 DEF RyDecode, RyOne, RyValues, RyFlow, RyDownInv
  <2>3. /\ ryDown' = [ryDown EXCEPT ![c] = SubSeq(down, k + 2, Len(down))]
        /\ ryTaken' = [ryTaken EXCEPT ![c] = k]
        /\ \/ down[1] = RyOk /\ ryNear' = [ryNear EXCEPT ![c] = "copying"] /\ ryClient' = ryClient
           \/ /\ down[1] # RyOk /\ ryNear' = [ryNear EXCEPT ![c] = "refused"]
              /\ ryClient' = [ryClient EXCEPT ![c] = IF ryKind = "agent" /\ ryClient[c] = "open" THEN "told" ELSE ryClient[c]]
    <3>1. Head(down) = down[1]
      BY <2>2
    <3> QED BY <1>4, <2>1, <3>1 DEF RyDecode
  <2>4. PICK rest : rest = SubSeq(down, k + 2, Len(down))
    OBVIOUS
  <2>5. rest \in Seq(Int) /\ Len(rest) = Len(down) - 1 - k /\ \A i \in 1..Len(rest) : rest[i] = k + i
    <3>1. Len(down) \in Nat /\ k \in Nat /\ k + 2 \in Nat /\ k + 2 <= Len(down) + 1
      BY <2>2
    <3>2. rest \in Seq(Int) /\ Len(rest) = Len(down) - 1 - k
      BY <2>2, <2>4, <3>1
    <3>3. \A i \in 1..Len(rest) : rest[i] = down[i + k + 1] /\ i + k + 1 \in 2..Len(down)
      <4>1. ASSUME NEW i \in 1..Len(rest) PROVE rest[i] = down[(k + 2) + i - 1] /\ (k + 2) + i - 1 = i + k + 1
        <5>1. PICK lo, n : lo = k + 2 /\ n = Len(down)
          OBVIOUS
        <5>2. lo \in Nat /\ n \in Nat /\ lo >= 1 /\ lo <= n + 1
          BY <3>1, <5>1
        <5>3. down \in Seq(Int) /\ rest = SubSeq(down, lo, n) /\ n = Len(down)
          BY <2>2, <2>4, <5>1
        <5>4. rest[i] = down[lo + i - 1]
          BY <5>2, <5>3
        <5>5. i \in Int
          BY <3>2
        <5> QED BY <3>1, <5>1, <5>4, <5>5
      <4>2. \A i \in 1..Len(rest) : i + k + 1 \in 2..Len(down)
        BY <3>1, <3>2
      <4> QED BY <4>1, <4>2
    <3>4. ASSUME NEW i \in 1..Len(rest) PROVE rest[i] = k + i
      <4>1. rest[i] = (i + k + 1) - 1
        BY <2>2, <3>3
      <4> QED BY <3>1, <4>1
    <3> QED BY <3>2, <3>4
  <2>6. RyFunctions'
    BY <1>1, <1>2, <2>3 DEF RyFunctions
  <2>7. ASSUME NEW d \in RyClients \ {c} PROVE RySame(d)
    BY <1>1, <1>2, <2>3, RyAssumption DEF RyFunctions, RySame
  <2>8. ryDown'[c] = rest /\ ryTaken'[c] = k /\ ryNear'[c] = IF down[1] = RyOk THEN "copying" ELSE "refused"
    BY <1>1, <2>3, <2>4 DEF RyFunctions
  <2>9. ryClient'[c] \in {"open", "closed", "told"} /\ (ryClient'[c] = "told" => ryNear'[c] = "refused")
    BY <1>1, <1>2, <2>3 DEF RyFunctions, RyOne, RyValues, RyLife
  <2>10. RyValues(c)'
    BY <1>1, <1>2, <2>2, <2>5, <2>8, <2>9 DEF RyOne, RyValues
  <2>11. RyLife(c)'
    BY <1>1, <1>2, <2>2, <2>8, <2>9 DEF RyOne, RyLife
  <2>12. RyDownInv(c)'
    <3>1. ryGot'[c] = <<>> /\ rySent'[c] = Len(down) - 1 /\ ryFar'[c] \in {"copying", "over"} /\ Len(down) \in Nat
      BY <1>1, <1>2, <2>2 DEF RyOne, RyFlow, RyDownInv
    <3>2. CASE down[1] = RyOk
      BY <2>2, <2>5, <2>8, <2>9, <3>1, <3>2 DEF RyFlow, RyDownInv
    <3>3. CASE down[1] # RyOk
      <4>1. k = 0
        BY <2>2, <3>3
      <4> QED BY <2>8, <3>1, <3>3, <4>1 DEF RyFlow, RyDownInv
    <3> QED BY <3>2, <3>3
  <2>13. RyUpInv(c)'
    BY <1>1, <1>2 DEF RyOne, RyUpInv
  <2> QED BY <2>6, <2>7, <2>10, <2>11, <2>12, <2>13, RyFrame DEF RyOne
<1> QED BY <1>3, <1>4

(* The bytes of the server, on their way.                                   *)
LEMMA RyDownStepsInv ==
    ASSUME RyInv, NEW c \in RyClients, RyServerSends(c) \/ RyCopyDown(c)
    PROVE  RyInv'
<1>1. RyFunctions /\ RyOne(c)
  BY DEF RyInv
<1>2. UNCHANGED <<ryLoop, ryNear, ryFar, ryServer, ryTaken, ryUp, ryClient, ryStream>>
  BY DEF RyServerSends, RyCopyDown
<1>3. PICK down, got, sent, taken : down = ryDown[c] /\ got = ryGot[c] /\ sent = rySent[c] /\ taken = ryTaken[c]
  OBVIOUS
<1>4. down \in Seq(Int) /\ got \in Seq(Int) /\ sent \in Nat /\ taken \in Nat /\ Len(down) \in Nat /\ Len(got) \in Nat
  BY <1>1, <1>3 DEF RyOne, RyValues
<1>5. RyLife(c)' /\ RyUpInv(c)'
  BY <1>1, <1>2 DEF RyOne, RyLife, RyUpInv
<1>6. CASE RyServerSends(c)
  <2>1. /\ ryFar[c] = "copying" /\ ryServer[c] = "sends" /\ rySent' = [rySent EXCEPT ![c] = sent + 1] /\ ryGot' = ryGot
        /\ ryDown' = [ryDown EXCEPT ![c] = IF ryStream[c] = "open" THEN Append(down, sent + 1) ELSE down]
    BY <1>3, <1>6 DEF RyServerSends
  <2>2. RyFunctions'
    BY <1>1, <1>2, <2>1 DEF RyFunctions
  <2>3. ASSUME NEW d \in RyClients \ {c} PROVE RySame(d)
    BY <1>1, <1>2, <2>1 DEF RyFunctions, RySame
  <2>4. /\ ryDown'[c] = IF ryStream[c] = "open" THEN Append(down, sent + 1) ELSE down
        /\ rySent'[c] = sent + 1 /\ ryGot'[c] = got /\ ryTaken'[c] = taken
    BY <1>1, <1>2, <1>3, <2>1 DEF RyFunctions
  <2>5. /\ Append(down, sent + 1) \in Seq(Int) /\ Append(down, sent + 1) # <<>> /\ Len(Append(down, sent + 1)) = Len(down) + 1
        /\ \A i \in 1..Len(down) : Append(down, sent + 1)[i] = down[i]
        /\ Append(down, sent + 1)[Len(down) + 1] = sent + 1
    <3>1. PICK x \in Int : x = sent + 1
      BY <1>4
    <3>2. PICK new : new = Append(down, x)
      OBVIOUS
    <3>3. new \in Seq(Int) /\ Len(new) = Len(down) + 1 /\ new[Len(down) + 1] = x
      BY <1>4, <3>1, <3>2
    <3>4. \A i \in 1..Len(down) : new[i] = down[i]
      BY <1>4, <3>1, <3>2
    <3>5. new # <<>>
      BY <1>4, <3>3
    <3> QED BY <3>1, <3>2, <3>3, <3>4, <3>5
  <2>6. RyValues(c)'
    BY <1>1, <1>2, <1>4, <2>4, <2>5 DEF RyOne, RyValues
  <2>7. RyDownInv(c)'
    <3>1. ryNear[c] \in {"asked", "copying", "over"} /\ ryStream[c] \in {"open", "near"}
      BY <1>1, <2>1 DEF RyOne, RyValues, RyLife
    <3>2. CASE ryNear[c] = "asked"
      <4>1. /\ down # <<>> /\ down[1] = RyOk /\ sent = Len(down) - 1 /\ ryStream[c] = "open"
            /\ \A i \in 2..Len(down) : down[i] = i - 1
            /\ got = <<>> /\ taken = 0
        BY <1>1, <1>3, <2>1, <3>1, <3>2 DEF RyOne, RyLife, RyFlow, RyDownInv
      <4>2. PICK new : new = Append(down, sent + 1)
        OBVIOUS
      <4>3. /\ ryDown'[c] = new /\ new # <<>> /\ Len(new) = Len(down) + 1 /\ new[1] = RyOk
            /\ \A i \in 2..Len(new) : new[i] = i - 1
        <5>1. Len(down) >= 1
          BY <1>4, <4>1
        <5>2. \A i \in 2..Len(down) : new[i] = i - 1
          BY <1>4, <2>5, <4>1, <4>2
        <5>3. new[Len(down) + 1] = (Len(down) + 1) - 1
          BY <1>4, <2>5, <4>1, <4>2
        <5> QED BY <1>4, <2>4, <2>5, <4>1, <4>2, <5>1, <5>2, <5>3
      <4>4. (ryNear[c] = "asked" /\ ryFar[c] = "copying")'
        BY <1>2, <2>1, <3>2
      <4> QED BY <1>4, <2>4, <4>1, <4>3, <4>4 DEF RyFlow, RyDownInv, RyOk, RyError
    <3>3. CASE ryNear[c] \in {"copying", "over"}
      <4>1. /\ \A i \in 1..Len(down) : down[i] = taken + Len(got) + i
            /\ \A i \in 1..Len(got) : got[i] = taken + i
            /\ taken + Len(got) + Len(down) <= sent
            /\ ryStream[c] # "near" => taken + Len(got) + Len(down) = sent
            /\ ~(ryNear[c] = "over" /\ ryClient[c] = "told")
        BY <1>1, <1>3, <3>1, <3>3 DEF RyOne, RyFlow, RyDownInv
      <4>2. PICK new : new = ryDown'[c]
        OBVIOUS
      <4>3. CASE ryStream[c] = "open"
        <5>1. Len(new) = Len(down) + 1 /\ taken + Len(got) + Len(new) = sent + 1
          BY <1>4, <2>4, <2>5, <4>1, <4>2, <4>3
        <5>2. \A i \in 1..Len(new) : new[i] = taken + Len(got) + i
          BY <1>4, <2>4, <2>5, <4>1, <4>2, <4>3, <5>1
        <5>3. RyFlow(c)'
          <6>1. ryDown'[c] = new /\ ryGot'[c] = got /\ ryTaken'[c] = taken /\ rySent'[c] = sent + 1
            BY <2>4, <4>2
          <6>2. \A i \in 1..Len(got) : got[i] = taken + i
            BY <4>1
          <6>3. PICK n, m : n = sent + 1 /\ m = taken + Len(got) + Len(new)
            OBVIOUS
          <6>4. m <= n /\ m = n
            BY <1>4, <5>1, <6>3
          <6> QED BY <5>2, <6>1, <6>2, <6>3, <6>4 DEF RyFlow
        <5> QED BY <1>2, <2>1, <3>3, <4>1, <5>3 DEF RyDownInv
      <4>4. CASE ryStream[c] = "near"
        <5>1. new = down /\ taken + Len(got) + Len(new) <= sent + 1
          BY <1>4, <2>4, <4>1, <4>2, <4>4
        <5>2. RyFlow(c)'
          BY <1>2, <1>4, <2>4, <4>1, <4>2, <4>4, <5>1 DEF RyFlow
        <5> QED BY <1>2, <2>1, <3>3, <4>1, <5>2 DEF RyDownInv
      <4> QED BY <3>1, <4>3, <4>4
    <3> QED BY <3>1, <3>2, <3>3
  <2> QED BY <1>5, <2>2, <2>3, <2>6, <2>7, RyFrame DEF RyOne
<1>7. CASE RyCopyDown(c)
  <2>1. /\ ryNear[c] = "copying" /\ down # <<>> /\ rySent' = rySent
        /\ ryGot' = [ryGot EXCEPT ![c] = Append(got, Head(down))] /\ ryDown' = [ryDown EXCEPT ![c] = Tail(down)]
    BY <1>3, <1>7 DEF RyCopyDown
  <2>2. RyFunctions'
    BY <1>1, <1>2, <2>1 DEF RyFunctions
  <2>3. ASSUME NEW d \in RyClients \ {c} PROVE RySame(d)
    BY <1>1, <1>2, <2>1 DEF RyFunctions, RySame
  <2>4. PICK new, ggot : new = Tail(down) /\ ggot = Append(got, Head(down))
    OBVIOUS
  <2>5. ryDown'[c] = new /\ ryGot'[c] = ggot /\ rySent'[c] = sent /\ ryTaken'[c] = taken
    BY <1>1, <1>2, <1>3, <2>1, <2>4 DEF RyFunctions
  <2>6. /\ new \in Seq(Int) /\ Len(new) = Len(down) - 1 /\ \A i \in 1..Len(new) : new[i] = down[i + 1]
        /\ ggot \in Seq(Int) /\ Len(ggot) = Len(got) + 1 /\ ggot[Len(got) + 1] = down[1] /\ Len(down) >= 1
        /\ \A i \in 1..Len(got) : ggot[i] = got[i]
    BY <1>4, <2>1, <2>4
  <2>7. RyValues(c)'
    BY <1>1, <1>2, <1>4, <2>5, <2>6 DEF RyOne, RyValues
  <2>8. RyDownInv(c)'
    <3>1. /\ \A i \in 1..Len(down) : down[i] = taken + Len(got) + i
          /\ \A i \in 1..Len(got) : got[i] = taken + i
          /\ taken + Len(got) + Len(down) <= sent
          /\ ryStream[c] # "near" => taken + Len(got) + Len(down) = sent
          /\ ryFar[c] \in {"copying", "over"}
      BY <1>1, <1>3, <2>1 DEF RyOne, RyLife, RyFlow, RyDownInv
    <3>2. ASSUME NEW i \in 1..Len(new) PROVE new[i] = taken + Len(ggot) + i
      <4>1. i + 1 \in 1..Len(down) /\ new[i] = down[i + 1]
        BY <1>4, <2>6
      <4>2. down[i + 1] = taken + Len(got) + (i + 1)
        BY <3>1, <4>1
      <4> QED BY <1>4, <2>6, <4>1, <4>2
    <3>3. ASSUME NEW i \in 1..Len(ggot) PROVE ggot[i] = taken + i
      <4>1. 1 \in 1..Len(down)
        BY <1>4, <2>6
      <4>2. down[1] = taken + Len(got) + 1
        BY <3>1, <4>1
      <4>3. i \in 1..Len(got) \/ i = Len(got) + 1
        BY <1>4, <2>6, <3>3
      <4>4. CASE i \in 1..Len(got)
        BY <2>6, <3>1, <4>4
      <4>5. CASE i = Len(got) + 1
        BY <1>4, <2>6, <4>2, <4>5
      <4> QED BY <4>3, <4>4, <4>5
    <3>4. taken + Len(ggot) + Len(new) = taken + Len(got) + Len(down)
      BY <1>4, <2>6
    <3> QED BY <1>2, <2>1, <2>5, <3>1, <3>2, <3>3, <3>4 DEF RyFlow, RyDownInv
  <2> QED BY <1>5, <2>2, <2>3, <2>7, <2>8, RyFrame DEF RyOne
<1> QED BY <1>6, <1>7

(* The ends of both directions, on either side.                             *)
LEMMA RyEndsInv ==
    ASSUME RyInv, NEW c \in RyClients,
           RyServerCloses(c) \/ RyDownEnds(c) \/ RyClientCloses(c) \/ RyUpEnds(c) \/ RyFarUpEnds(c)
    PROVE  RyInv'
<1>1. RyFunctions /\ RyOne(c)
  BY DEF RyInv
<1>2. UNCHANGED <<ryLoop, ryDown, rySent, ryGot, ryTaken, ryUp>>
  BY DEF RyServerCloses, RyDownEnds, RyClientCloses, RyUpEnds, RyFarUpEnds
<1>3. \/ /\ ryFar[c] = "copying" /\ ryServer[c] = "sends" /\ ryServer' = [ryServer EXCEPT ![c] = "closed"]
         /\ ryFar' = [ryFar EXCEPT ![c] = "over"] /\ UNCHANGED <<ryNear, ryClient>>
         /\ ryStream' = [ryStream EXCEPT ![c] = IF ryStream[c] = "open" THEN "far" ELSE ryStream[c]]
      \/ /\ ryNear[c] = "copying" /\ ryDown[c] = <<>> /\ ryStream[c] = "far" /\ ryNear' = [ryNear EXCEPT ![c] = "over"]
         /\ ryClient' = [ryClient EXCEPT ![c] = IF ryClient[c] = "open" THEN "told" ELSE ryClient[c]]
         /\ UNCHANGED <<ryFar, ryServer, ryStream>>
      \/ /\ ryNear[c] # "none" /\ ryClient[c] = "open" /\ ryClient' = [ryClient EXCEPT ![c] = "closed"]
         /\ UNCHANGED <<ryNear, ryFar, ryServer, ryStream>>
      \/ /\ ryNear[c] = "copying" /\ ryClient[c] = "closed" /\ ryNear' = [ryNear EXCEPT ![c] = "over"]
         /\ ryStream' = [ryStream EXCEPT ![c] = IF ryStream[c] = "open" THEN "near" ELSE ryStream[c]]
         /\ UNCHANGED <<ryFar, ryServer, ryClient>>
      \/ /\ ryFar[c] = "copying" /\ ryStream[c] = "near" /\ ryUp[c][3] = ryUp[c][2]
         /\ ryFar' = [ryFar EXCEPT ![c] = "over"] /\ ryServer' = [ryServer EXCEPT ![c] = "told"]
         /\ UNCHANGED <<ryNear, ryClient, ryStream>>
  BY DEF RyServerCloses, RyDownEnds, RyDrained, RyClientCloses, RyUpEnds, RyFarUpEnds
<1>4. RyFunctions'
  BY <1>1, <1>2, <1>3 DEF RyFunctions
<1>5. ASSUME NEW d \in RyClients \ {c} PROVE RySame(d)
  BY <1>1, <1>2, <1>3 DEF RyFunctions, RySame
<1>6. RyValues(c)'
  BY <1>1, <1>2, <1>3 DEF RyFunctions, RyOne, RyValues
<1>7. RyLife(c)'
  BY <1>1, <1>2, <1>3 DEF RyFunctions, RyOne, RyValues, RyLife
<1>8. RyDownInv(c)'
  BY <1>1, <1>2, <1>3 DEF RyFunctions, RyOne, RyValues, RyLife, RyFlow, RyDownInv
<1>9. RyUpInv(c)'
  BY <1>1, <1>2, <1>3 DEF RyFunctions, RyOne, RyUpInv
<1> QED BY <1>4, <1>5, <1>6, <1>7, <1>8, <1>9, RyFrame DEF RyOne

(* The bytes of the client, on their way.                                   *)
LEMMA RyUpStepsInv ==
    ASSUME RyInv, NEW c \in RyClients, RyClientSends(c) \/ RyCopyUp(c) \/ RyFarCopyUp(c)
    PROVE  RyInv'
<1>1. RyFunctions /\ RyOne(c)
  BY DEF RyInv
<1>2. UNCHANGED <<ryLoop, ryNear, ryFar, ryDown, rySent, ryServer, ryGot, ryTaken, ryClient, ryStream>>
  BY DEF RyClientSends, RyCopyUp, RyFarCopyUp
<1>3. PICK up : up = ryUp[c]
  OBVIOUS
<1>4. /\ up = [i \in 1..3 |-> up[i]] /\ up[1] \in Nat /\ up[2] \in Nat /\ up[3] \in Nat
      /\ up[3] <= up[2] /\ up[2] <= up[1] /\ (ryServer[c] = "told" => up[3] = up[2] /\ ryNear[c] = "over" /\ ryFar[c] = "over")
  BY <1>1, <1>3 DEF RyOne, RyUpInv, RyLife
<1>5. \/ ryUp' = [ryUp EXCEPT ![c] = [up EXCEPT ![1] = up[1] + 1]]
      \/ ryNear[c] = "copying" /\ up[2] < up[1] /\ ryUp' = [ryUp EXCEPT ![c] = [up EXCEPT ![2] = up[2] + 1]]
      \/ ryFar[c] = "copying" /\ up[3] < up[2] /\ ryUp' = [ryUp EXCEPT ![c] = [up EXCEPT ![3] = up[3] + 1]]
  BY <1>3 DEF RyClientSends, RyCopyUp, RyFarCopyUp
<1>6. RyFunctions'
  BY <1>1, <1>2, <1>5 DEF RyFunctions
<1>7. ASSUME NEW d \in RyClients \ {c} PROVE RySame(d)
  BY <1>1, <1>2, <1>5 DEF RyFunctions, RySame
<1>8. RyUpInv(c)'
  <2>1. PICK new : new = ryUp'[c]
    OBVIOUS
  <2>2. \/ new = [up EXCEPT ![1] = up[1] + 1]
        \/ ryNear[c] = "copying" /\ up[2] < up[1] /\ new = [up EXCEPT ![2] = up[2] + 1]
        \/ ryFar[c] = "copying" /\ up[3] < up[2] /\ new = [up EXCEPT ![3] = up[3] + 1]
    BY <1>1, <1>5, <2>1 DEF RyFunctions
  <2>3. /\ new = [i \in 1..3 |-> new[i]] /\ new[1] \in Nat /\ new[2] \in Nat /\ new[3] \in Nat
        /\ new[3] <= new[2] /\ new[2] <= new[1] /\ (ryServer[c] = "told" => new[3] = new[2])
    BY <1>4, <2>2
  <2> QED BY <1>2, <2>1, <2>3 DEF RyUpInv
<1>9. RyValues(c)' /\ RyLife(c)' /\ RyDownInv(c)'
  BY <1>1, <1>2 DEF RyOne, RyValues, RyLife, RyFlow, RyDownInv
<1> QED BY <1>6, <1>7, <1>8, <1>9, RyFrame DEF RyOne

(* Every step keeps RyInv.                                                  *)
LEMMA RyNextInv == RyInv /\ [RyNext]_ryVars => RyInv'
<1> SUFFICES ASSUME RyInv, [RyNext]_ryVars PROVE RyInv'
  OBVIOUS
<1>1. CASE RyNext
  <2>1. PICK c \in RyClients : RyDial(c) \/ RySteps(c) \/ RyServerSends(c) \/ RyServerCloses(c) \/ RyClientSends(c) \/ RyClientCloses(c)
    BY <1>1 DEF RyNext
  <2>2. CASE RyDial(c) \/ RyAsk(c) \/ \E b \in BOOLEAN : RyAccept(c, b)
    BY <2>2, RyAcceptInv
  <2>3. CASE RyUnasked(c) \/ \E b \in BOOLEAN : RyAnswer(c, b)
    BY <2>3, RyAnswerInv
  <2>4. CASE RyNoAnswer(c) \/ \E k \in 0..RyBytes : RyDecode(c, k)
    BY <2>4, RyDecodeInv
  <2>5. CASE RyServerSends(c) \/ RyCopyDown(c)
    BY <2>5, RyDownStepsInv
  <2>6. CASE RyServerCloses(c) \/ RyDownEnds(c) \/ RyClientCloses(c) \/ RyUpEnds(c) \/ RyFarUpEnds(c)
    BY <2>6, RyEndsInv
  <2>7. CASE RyClientSends(c) \/ RyCopyUp(c) \/ RyFarCopyUp(c)
    BY <2>7, RyUpStepsInv
  <2> QED BY <2>1, <2>2, <2>3, <2>4, <2>5, <2>6, <2>7 DEF RySteps
<1>2. CASE UNCHANGED ryVars
  BY <1>2 DEF ryVars, RyInv, RyFunctions, RyOne, RyValues, RyLife, RyFlow, RyDownInv, RyUpInv
<1> QED BY <1>1, <1>2

(* However accepting, dialling, copying and closing of both sides interleave, *)
(* what a client receives is what its server sent after the bytes that the   *)
(* decoder of the answer took, in order and without a hole; a server that    *)
(* closes first has all its bytes delivered before the client is told, and   *)
(* a client its bytes before the server is (forwardPort, handleProtocol,     *)
(* forwardSSHAgent, handleGuestConn), for any number of connections and bytes. *)
THEOREM RelayIsFaithful == RySpec => [](RyTypeOK /\ RyInOrder /\ RyComplete)
<1>1. RyInv => RyTypeOK /\ RyInOrder /\ RyComplete
  <2> SUFFICES ASSUME RyInv PROVE RyTypeOK /\ RyInOrder /\ RyComplete
    OBVIOUS
  <2>1. RyTypeOK
    BY DEF RyInv, RyFunctions, RyOne, RyValues, RyLife, RyTypeOK
  <2>2. ASSUME NEW c \in RyClients
        PROVE  /\ \A i \in 1..Len(ryGot[c]) : ryGot[c][i] = ryTaken[c] + i
               /\ ryTaken[c] + Len(ryGot[c]) <= rySent[c]
               /\ ryNear[c] = "over" /\ ryClient[c] = "told" => ryTaken[c] + Len(ryGot[c]) = rySent[c]
    <3>1. RyOne(c)
      BY DEF RyInv
    <3>2. Len(ryGot[c]) \in Nat /\ Len(ryDown[c]) \in Nat /\ rySent[c] \in Nat /\ ryTaken[c] \in Nat
      BY <3>1 DEF RyOne, RyValues
    <3>3. CASE ryNear[c] \in {"none", "waiting", "opened", "asked", "refused"}
      <4>1. ryGot[c] = <<>> /\ ryTaken[c] = 0
        BY <3>1, <3>3 DEF RyOne, RyFlow, RyDownInv
      <4> QED BY <3>2, <3>3, <4>1
    <3>4. CASE ryNear[c] \in {"copying", "over"}
      <4>1. /\ \A i \in 1..Len(ryGot[c]) : ryGot[c][i] = ryTaken[c] + i
            /\ ryTaken[c] + Len(ryGot[c]) + Len(ryDown[c]) <= rySent[c]
            /\ ryStream[c] # "near" => ryTaken[c] + Len(ryGot[c]) + Len(ryDown[c]) = rySent[c]
            /\ ryNear[c] = "over" /\ ryClient[c] = "told" => ryStream[c] = "far" /\ ryDown[c] = <<>>
        BY <3>1, <3>4 DEF RyOne, RyFlow, RyDownInv
      <4> QED BY <3>2, <4>1
    <3> QED BY <3>1, <3>3, <3>4 DEF RyOne, RyValues
  <2>3. ASSUME NEW c \in RyClients
        PROVE  /\ ryUp[c][3] <= ryUp[c][2] /\ ryUp[c][2] <= ryUp[c][1]
               /\ ryServer[c] = "told" /\ ryUp[c][2] = ryUp[c][1] => ryUp[c][3] = ryUp[c][1]
    BY DEF RyInv, RyOne, RyUpInv
  <2> QED BY <2>1, <2>2, <2>3 DEF RyInOrder, RyComplete
<1> QED BY <1>1, RyInitInv, RyNextInv, PTL DEF RySpec
=============================================================================
