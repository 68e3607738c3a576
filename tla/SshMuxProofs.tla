---------------------------- MODULE SshMuxProofs ----------------------------
(***************************************************************************)
(* Safety of the multiplexer of mux.go and channel.go, for any number of   *)
(* channels opened from either side and any number of requests on them and *)
(* on the connection.                                                      *)
(*                                                                         *)
(* The invariant follows every open from its first packet to the closes of *)
(* both sides: LinkInv relates the two ends of a channel and the packets   *)
(* of it on the way, CallInv says where the one request of a channel that  *)
(* waits and its answer are, and the lists of both sides hold exactly the  *)
(* channels that are not over. What the client's remote forwards make of   *)
(* the channels that the server opens comes at the end.                    *)
(***************************************************************************)
EXTENDS SshMux, SshForwards, InductionLemmas, FiniteSetTheorems

------------------------------------------------------------------------------
(* The inductive invariant.                                                 *)

Slots == Nat \ {0}
Ids == 0..Cardinality(Opens)
MuxNames == Opens \cup {Global}
OpenStates == {"none", "opening", "confirmed", "refused", "open", "failed"}
AcceptStates == {"none", "offered", "open", "rejected"}
MuxChans == [st : OpenStates \cup AcceptStates, id : Ids, remote : Ids, shut : {"no", "sent", "closed"}]
MuxAnswers == {"confirm", "failure"}
ChanTypes == {"confirm", "failure", "close", "req", "reply"}
MuxPackets ==
    [t : ChanTypes \cup {"open", "greq", "greply"}, tag : Callers \cup {0}, o : MuxNames, to : Ids, my : Ids]

ListTyped == mList \in [MuxSides -> Seq(Opens \cup {NoOpen})]
ChTyped == mCh \in [MuxSides -> [Opens -> MuxChans]]
MuxShape ==
    /\ mPlan \subseteq Opens \cup Callers
    /\ ListTyped /\ ChTyped /\ mWire \in [MuxSides -> Seq(MuxPackets)]
    /\ mReq \in [MuxSides -> [MuxNames -> Seq(Callers)]]
    /\ mMsg \in [MuxSides -> [MuxNames -> Seq(Callers \cup MuxAnswers)]]
    /\ mCall \in [Callers -> {"new", "sent", "answered", "failed"}]
    /\ mLoop \in [MuxSides -> {"run", "done"}]
    /\ mUp \in {"up", "down"}

(* The transport carries packets only while both loops run.                 *)
UpInv ==
    /\ mUp = "up" => \A p \in MuxSides : mLoop[p] = "run"
    /\ mUp = "down" => \A p \in MuxSides : mWire[p] = <<>>

(* What is in slot i of the list.                                           *)
SlotAt(p, i) == IF i \in 1..Len(mList[p]) THEN mList[p][i] ELSE NoOpen

(* The list holds channels that are not over, each at its own id ...        *)
ListedOK(p, i) ==
    SlotAt(p, i) # NoOpen =>
        LET ch == mCh[p][SlotAt(p, i)] IN
        ch.id = i - 1 /\ ch.shut # "closed" /\ ch.st # "none" /\ (ch.st \in {"refused", "failed"} => mUp = "down")
ListInv == \A p \in MuxSides, i \in Slots : ListedOK(p, i)

(* ... and all of them.                                                     *)
LiveInv ==
    mUp = "up" => \A p \in MuxSides, o \in Opens :
        (mCh[p][o].st \notin {"none", "refused", "failed"} /\ mCh[p][o].shut # "closed")
            => SlotAt(p, mCh[p][o].id + 1) = o

(* What is on the way from q, and what of it is about channel x.            *)
Packets(q) == {mWire[q][i] : i \in 1..Len(mWire[q])}
About(q, x) == {m \in Packets(q) : m.o = x}

(* Of each kind there is one packet of a channel at most, and nothing       *)
(* follows its close.                                                       *)
InTurn(a, b) == a.o = b.o => a.t # b.t /\ a.t # "close"
WireOK(q) == mWire[q] \in Seq(MuxPackets) /\ \A i, j \in 1..Len(mWire[q]) : i < j => InTurn(mWire[q][i], mWire[q][j])
OrderInv == \A q \in MuxSides : WireOK(q)

(* The two ends of a channel: its opener's c and the other's s.             *)
EndsOK(c, s) ==
    /\ s.st = "none" => c.st \in {"none", "opening"}
    /\ s.st # "none" => s.remote = c.id
    /\ s.st = "offered" => c.st = "opening"
    /\ s.st = "rejected" => c.st \in {"opening", "refused", "failed"}
    /\ s.st = "open" => c.st \in {"opening", "confirmed", "open"}
    /\ c.st \in {"confirmed", "open"} => c.remote = s.id
    /\ c.shut # "no" => c.st \in {"confirmed", "open"}
    /\ s.shut # "no" => s.st = "open"
    /\ c.shut = "closed" => s.shut # "no"
    /\ s.shut = "closed" => c.shut # "no"

(* The packets on the way from the opener, and those to it.                 *)
ToAcceptor(m, c, s) ==
    /\ m.t \in {"open", "close", "req"}
    /\ m.t = "open"  => c.st = "opening" /\ m.my = c.id /\ s.st = "none"
    /\ m.t = "close" => c.st \in {"confirmed", "open"} /\ c.shut # "no" /\ s.st = "open"
    /\ m.t = "req"   => c.st = "open" /\ s.st = "open"
    /\ m.t # "open"  => s.shut # "closed" /\ m.to = s.id
ToOpener(m, c, s) ==
    /\ m.t \in {"confirm", "failure", "close", "reply"}
    /\ m.t = "confirm" => s.st = "open" /\ m.my = s.id /\ c.st = "opening"
    /\ m.t = "failure" => s.st = "rejected" /\ c.st = "opening"
    /\ m.t = "close"   => s.st = "open" /\ s.shut # "no" /\ c.st \in {"opening", "confirmed", "open"}
    /\ m.t = "reply"   => s.st = "open" /\ c.st = "open"
    /\ c.shut # "closed" /\ m.to = c.id

(* An opener that still waits for an accepted channel has its confirmation  *)
(* on the way.                                                              *)
ConfirmComes(c, s, B) == s.st = "open" /\ c.st = "opening" => \E m \in B : m.t = "confirm"

Linked(c, s, A, B) ==
    /\ EndsOK(c, s) /\ ConfirmComes(c, s, B)
    /\ \A m \in A : ToAcceptor(m, c, s)
    /\ \A m \in B : ToOpener(m, c, s)

(* The answer to an open.                                                   *)
Answered(st, msg) ==
    /\ st \in {"none", "opening"} => msg = <<>>
    /\ st = "confirmed" => msg = <<"confirm">>
    /\ st = "refused" => msg = <<"failure">>

(* The side that asks on x, and the other one.                              *)
Asker(x) == IF x = Global THEN "s" ELSE Opener[x]
Server(x) == Peer(Asker(x))

LinkInv(o) ==
    LET c == mCh[Asker(o)][o]  s == mCh[Server(o)][o] IN
    /\ c.st \in OpenStates /\ s.st \in AcceptStates
    /\ mUp = "up" => Linked(c, s, About(Asker(o), o), About(Server(o), o))
    /\ Answered(c.st, mMsg[Asker(o)][o])

(* A request and its answer are in one place at a time: on the way, with    *)
(* the application, on the way back, or with the caller.  W are the calls   *)
(* that wait, V are those that waited before the end of the channel too.    *)
OnePlace(R, served, P, answer) ==
    /\ R # {} => served = <<>> /\ P = {} /\ answer = <<>>
    /\ served # <<>> => Tail(served) = <<>> /\ P = {} /\ answer = <<>>
    /\ P # {} => answer = <<>>
    /\ answer # <<>> => Tail(answer) = <<>>
Tokens(W, V, R, served, P, answer) ==
    /\ OnePlace(R, served, P, answer)
    /\ \A m \in R : m.tag \in V
    /\ served # <<>> => Head(served) \in V
    /\ \A m \in P : m.tag \in W
    /\ answer # <<>> => Head(answer) \in W

Ready(x) == x = Global \/ mCh[Asker(x)][x].st = "open"
Over(x) == IF x = Global THEN mLoop["s"] = "done" ELSE mCh[Asker(x)][x].shut = "closed"
Requests(x) == {m \in About(Asker(x), x) : m.t \in {"req", "greq"}}
Replies(x) == {m \in About(Server(x), x) : m.t \in {"reply", "greply"}}
Served(x) == mReq[Server(x)][x]
Answer(x) == mMsg[Asker(x)][x]
CallsOf(x) == {k \in Callers : Target[k] = x}
Waiting(x) == {k \in CallsOf(x) : mCall[k] = "sent"}
Awaited(x) == {k \in CallsOf(x) : mCall[k] = "sent" \/ Over(x)}

CallInv(x) ==
    /\ mReq[Asker(x)][x] = <<>> /\ mMsg[Server(x)][x] = <<>>
    /\ Ready(x) => Tokens(Waiting(x), Awaited(x), Requests(x), Served(x), Replies(x), Answer(x))
    /\ ~Ready(x) => Served(x) = <<>> /\ Waiting(x) = {}
    /\ \A j, k \in Waiting(x) : j = k

GlobalInv ==
    /\ \A m \in About("s", Global) : m.t = "greq"
    /\ \A m \in About("c", Global) : m.t = "greply"

NameInv(x) ==
    /\ x \in Opens => LinkInv(x)
    /\ x = Global => GlobalInv
    /\ CallInv(x)

MuxInv ==
    /\ MuxShape /\ UpInv /\ ListInv /\ LiveInv /\ OrderInv
    /\ \A x \in MuxNames : NameInv(x)

------------------------------------------------------------------------------
(* The wires.                                                               *)

(* There are two sides, each the peer of the other.                         *)
LEMMA Peers ==
    /\ Peer("c") = "s" /\ Peer("s") = "c" /\ MuxSides = {"c", "s"}
    /\ \A p \in MuxSides : Peer(p) \in MuxSides /\ Peer(p) # p /\ Peer(Peer(p)) = p
    /\ \A p, q \in MuxSides : q # p => q = Peer(p)
BY DEF Peer, MuxSides

Still(q) == mWire'[q] = mWire[q]
Grows(q, m) == mWire'[q] = Append(mWire[q], m) /\ m \in MuxPackets
Shrinks(q) == mWire[q] # <<>> /\ mWire'[q] = Tail(mWire[q])
Emptied(q) == mWire'[q] = <<>>

(* A packet at the end of a wire.                                           *)
LEMMA GrowsTo ==
    ASSUME NEW q, NEW m, WireOK(q), Grows(q, m), \A a \in Packets(q) : InTurn(a, m)
    PROVE  WireOK(q)' /\ Packets(q)' = Packets(q) \cup {m}
<1>1. PICK w : w = mWire[q]
  OBVIOUS
<1>2. PICK v : v = mWire'[q]
  OBVIOUS
<1>3. w \in Seq(MuxPackets) /\ v = Append(w, m) /\ m \in MuxPackets
  BY <1>1, <1>2 DEF WireOK, Grows
<1>4. Len(w) \in Nat /\ Len(v) = Len(w) + 1 /\ v \in Seq(MuxPackets)
  BY <1>3
<1>5. \A i \in 1..Len(w) : v[i] = w[i]
  BY <1>3
<1>6. v[Len(w) + 1] = m
  BY <1>3
<1>7. PICK n : n = Len(w)
  OBVIOUS
<1>8. n \in Nat /\ Len(v) = n + 1 /\ v[n + 1] = m /\ \A i \in 1..n : v[i] = w[i]
  BY <1>4, <1>5, <1>6, <1>7
<1>9. \A i \in 1..(n + 1) : i = n + 1 \/ i \in 1..n
  BY <1>8
<1>10. 1..(n + 1) = (1..n) \cup {n + 1}
  BY <1>8
<1>11. {v[i] : i \in 1..(n + 1)} = {w[i] : i \in 1..n} \cup {m}
  BY <1>8, <1>10
<1>12. Packets(q)' = Packets(q) \cup {m}
  BY <1>1, <1>2, <1>7, <1>8, <1>11 DEF Packets
<1>13. ASSUME NEW i \in 1..(n + 1), NEW j \in 1..(n + 1), i < j PROVE InTurn(v[i], v[j])
  <2>1. i \in 1..n
    BY <1>8, <1>13
  <2>2. CASE j \in 1..n
    BY <1>1, <1>7, <1>8, <1>13, <2>1, <2>2 DEF WireOK
  <2>3. CASE j = n + 1
    <3>1. w[i] \in Packets(q)
      BY <1>1, <1>7, <2>1 DEF Packets
    <3> QED BY <1>8, <2>1, <2>3, <3>1
  <2> QED BY <1>9, <2>2, <2>3
<1>14. WireOK(q)'
  BY <1>2, <1>4, <1>8, <1>13 DEF WireOK, InTurn
<1> QED BY <1>12, <1>14

(* The first packet of a wire is taken: no other one is its equal.          *)
LEMMA ShrinksTo ==
    ASSUME NEW q, WireOK(q), Shrinks(q)
    PROVE  /\ WireOK(q)' /\ Head(mWire[q]) \in Packets(q) /\ Head(mWire[q]) \in MuxPackets
           /\ Packets(q)' = Packets(q) \ {Head(mWire[q])}
           /\ \A a \in Packets(q)' : InTurn(Head(mWire[q]), a)
<1>1. PICK w : w = mWire[q]
  OBVIOUS
<1>2. PICK v : v = mWire'[q]
  OBVIOUS
<1>3. w \in Seq(MuxPackets) /\ w # <<>> /\ v = Tail(w)
  BY <1>1, <1>2 DEF WireOK, Shrinks
<1>4. PICK n : n = Len(v)
  OBVIOUS
<1>5. n \in Nat /\ Len(w) = n + 1 /\ v \in Seq(MuxPackets) /\ Head(w) = w[1] /\ w[1] \in MuxPackets
  BY <1>3, <1>4
<1>6. \A i \in 1..n : v[i] = w[i + 1] /\ i + 1 \in 1..(n + 1)
  BY <1>3, <1>4, <1>5
<1>7. \A i, j \in 1..(n + 1) : i < j => InTurn(w[i], w[j])
  BY <1>1, <1>5 DEF WireOK
<1>8. 1 \in 1..(n + 1) /\ \A i \in 1..(n + 1) : i # 1 => i - 1 \in 1..n /\ (i - 1) + 1 = i
  BY <1>5
<1>9. \A i \in 1..n : InTurn(w[1], v[i])
  <2>1. SUFFICES ASSUME NEW i \in 1..n PROVE InTurn(w[1], v[i])
    OBVIOUS
  <2>2. i + 1 \in 1..(n + 1) /\ 1 < i + 1 /\ v[i] = w[i + 1]
    BY <1>5, <1>6, <2>1
  <2> QED BY <1>7, <1>8, <2>2
<1>10. {v[i] : i \in 1..n} = {w[i] : i \in 1..(n + 1)} \ {w[1]}
  <2>1. \A i \in 1..n : v[i] # w[1]
    BY <1>9 DEF InTurn
  <2>2. \A i \in 1..n : v[i] \in {w[j] : j \in 1..(n + 1)}
    BY <1>6
  <2>3. ASSUME NEW i \in 1..(n + 1), w[i] # w[1] PROVE w[i] \in {v[j] : j \in 1..n}
    <3>1. i # 1
      BY <2>3
    <3>2. i - 1 \in 1..n /\ v[i - 1] = w[i]
      BY <1>6, <1>8, <2>3, <3>1
    <3> QED BY <3>2
  <2> QED BY <2>1, <2>2, <2>3
<1>11. Packets(q) = {w[i] : i \in 1..(n + 1)} /\ Packets(q)' = {v[i] : i \in 1..n}
  BY <1>1, <1>2, <1>4, <1>5 DEF Packets
<1>12. \A i, j \in 1..n : i < j => InTurn(v[i], v[j])
  <2>1. SUFFICES ASSUME NEW i \in 1..n, NEW j \in 1..n, i < j PROVE InTurn(v[i], v[j])
    OBVIOUS
  <2>2. i + 1 < j + 1
    BY <2>1
  <2> QED BY <1>6, <1>7, <2>2
<1>13. WireOK(q)'
  BY <1>2, <1>4, <1>5, <1>12 DEF WireOK, InTurn
<1>14. Head(mWire[q]) = w[1]
  BY <1>1, <1>5
<1>15. w[1] \in Packets(q)
  BY <1>8, <1>11
<1>16. Packets(q)' = Packets(q) \ {w[1]}
  BY <1>10, <1>11
<1>17. \A a \in Packets(q)' : InTurn(w[1], a)
  BY <1>9, <1>11
<1> QED BY <1>5, <1>13, <1>14, <1>15, <1>16, <1>17

(* A wire that does not change.                                             *)
LEMMA StillIs ==
    ASSUME NEW q, WireOK(q), Still(q)
    PROVE  WireOK(q)' /\ Packets(q)' = Packets(q)
BY DEF WireOK, Still, Packets, InTurn

(* A wire whose packets are lost.                                           *)
LEMMA EmptiedIs ==
    ASSUME NEW q, Emptied(q)
    PROVE  WireOK(q)' /\ Packets(q)' = {}
<1>1. mWire'[q] = <<>>
  BY DEF Emptied
<1>2. \A i \in 1..Len(mWire'[q]) : FALSE
  BY <1>1
<1> QED BY <1>1, <1>2 DEF WireOK, Packets

------------------------------------------------------------------------------
(* The lists.                                                               *)

SetsSlot(p, n, o) ==
    \A q \in MuxSides, i \in Slots : SlotAt(q, i)' = IF q = p /\ i = n THEN o ELSE SlotAt(q, i)

(* A new list for one side, slot by slot.                                   *)
LEMMA OthersStay ==
    ASSUME ListTyped, NEW p \in MuxSides, NEW l \in Seq(Opens \cup {NoOpen}), mList' = [mList EXCEPT ![p] = l],
           NEW n, NEW o,
           \A i \in Slots : (IF i \in 1..Len(l) THEN l[i] ELSE NoOpen) = IF i = n THEN o ELSE SlotAt(p, i)
    PROVE  ListTyped' /\ SetsSlot(p, n, o)
<1>1. mList'[p] = l /\ \A q \in MuxSides : q # p => mList'[q] = mList[q]
  BY DEF ListTyped
<1>2. ListTyped'
  BY DEF ListTyped
<1>3. ASSUME NEW q \in MuxSides, NEW i \in Slots
      PROVE  SlotAt(q, i)' = IF q = p /\ i = n THEN o ELSE SlotAt(q, i)
  <2>1. CASE q = p
    BY <1>1, <2>1 DEF SlotAt
  <2>2. CASE q # p
    BY <1>1, <2>2 DEF SlotAt
  <2> QED BY <2>1, <2>2
<1> QED BY <1>2, <1>3 DEF SetsSlot

(* chanList.add uses a slot that was free.                                  *)
LEMMA AddsOne ==
    ASSUME ListTyped, NEW p \in MuxSides, NEW o \in Opens, mList' = [mList EXCEPT ![p] = Added(p, o)]
    PROVE  /\ ListTyped' /\ SetsSlot(p, SlotFor(p), o)
           /\ SlotFor(p) \in Slots /\ SlotFor(p) - 1 \in Nat /\ SlotAt(p, SlotFor(p)) = NoOpen
<1>1. PICK l : l = mList[p]
  OBVIOUS
<1>2. PICK len : len = Len(l)
  OBVIOUS
<1>3. l \in Seq(Opens \cup {NoOpen}) /\ len \in Nat
  BY <1>1, <1>2 DEF ListTyped
<1>4. PICK n : n = SlotFor(p)
  OBVIOUS
<1>5. PICK free : free = FreeSlots(p)
  OBVIOUS
<1>6. free = {i \in 1..len : l[i] = NoOpen}
  BY <1>1, <1>2, <1>5 DEF FreeSlots
<1>7. n \in Slots /\ n <= len + 1 /\ (n \in 1..len => l[n] = NoOpen)
  <2>1. CASE free = {}
    <3>1. n = len + 1
      BY <1>1, <1>2, <1>4, <1>5, <2>1 DEF SlotFor
    <3> QED BY <1>3, <3>1 DEF Slots
  <2>2. CASE free # {}
    <3>1. free \subseteq Nat
      BY <1>6
    <3>2. \E i \in free : \A j \in free : i <= j
      BY <2>2, <3>1, HasLeast
    <3>3. n = CHOOSE i \in free : \A j \in free : i <= j
      BY <1>4, <1>5, <2>2 DEF SlotFor
    <3>4. n \in free
      BY <3>2, <3>3
    <3>5. n \in 1..len /\ l[n] = NoOpen
      BY <1>6, <3>4
    <3> QED BY <1>3, <3>5 DEF Slots
  <2> QED BY <2>1, <2>2
<1>8. n \in Nat /\ n > 0
  BY <1>7 DEF Slots
<1>9. PICK top : top = IF n > len THEN n ELSE len
  OBVIOUS
<1>10. top \in Nat /\ len <= top /\ n <= top /\ (\A i \in 1..top : i # n => i \in 1..len)
  BY <1>3, <1>7, <1>8, <1>9
<1>11. Added(p, o) = [i \in 1..top |-> IF i = n THEN o ELSE l[i]]
  BY <1>1, <1>2, <1>4, <1>9 DEF Added
<1>12. \A i \in 1..len : l[i] \in Opens \cup {NoOpen}
  BY <1>2, <1>3
<1>13. PICK k : k = [i \in 1..top |-> IF i = n THEN o ELSE l[i]]
  OBVIOUS
<1>14. k \in Seq(Opens \cup {NoOpen}) /\ Len(k) = top
  <2>1. \A i \in 1..top : (IF i = n THEN o ELSE l[i]) \in Opens \cup {NoOpen}
    BY <1>10, <1>12
  <2> QED BY <1>10, <1>13, <2>1
<1>15. ASSUME NEW i \in Slots
       PROVE  (IF i \in 1..Len(k) THEN k[i] ELSE NoOpen) = IF i = n THEN o ELSE SlotAt(p, i)
  <2>1. i \in Nat /\ i > 0
    BY <1>15 DEF Slots
  <2>2. SlotAt(p, i) = IF i \in 1..len THEN l[i] ELSE NoOpen
    BY <1>1, <1>2 DEF SlotAt
  <2>3. i \in 1..len => i \in 1..top
    BY <1>3, <1>10, <2>1
  <2>4. n \in 1..top
    BY <1>8, <1>10
  <2>5. i \in 1..top => k[i] = IF i = n THEN o ELSE l[i]
    BY <1>13
  <2> QED BY <1>10, <1>14, <2>2, <2>3, <2>4, <2>5
<1>16. mList' = [mList EXCEPT ![p] = k]
  BY <1>11, <1>13
<1>17. ListTyped' /\ SetsSlot(p, n, o)
  BY <1>14, <1>15, <1>16, OthersStay
<1>18. SlotAt(p, n) = NoOpen
  BY <1>1, <1>2, <1>7 DEF SlotAt
<1>19. n - 1 \in Nat
  BY <1>8
<1> QED BY <1>4, <1>7, <1>17, <1>18, <1>19

(* chanList.remove frees one slot.                                          *)
LEMMA RemovesOne ==
    ASSUME ListTyped, NEW p \in MuxSides, NEW id \in Nat, mList' = Removed(p, id)
    PROVE  ListTyped' /\ SetsSlot(p, id + 1, NoOpen)
<1>1. PICK l : l = mList[p]
  OBVIOUS
<1>2. PICK len : len = Len(l)
  OBVIOUS
<1>3. l \in Seq(Opens \cup {NoOpen}) /\ len \in Nat
  BY <1>1, <1>2 DEF ListTyped
<1>4. PICK k : k = [i \in 1..len |-> IF i = id + 1 THEN NoOpen ELSE l[i]]
  OBVIOUS
<1>5. mList' = [mList EXCEPT ![p] = k]
  BY <1>1, <1>2, <1>4 DEF Removed, ListTyped
<1>6. \A i \in 1..len : l[i] \in Opens \cup {NoOpen}
  BY <1>2, <1>3
<1>7. k \in Seq(Opens \cup {NoOpen}) /\ Len(k) = len
  BY <1>3, <1>4, <1>6
<1>8. ASSUME NEW i \in Slots
      PROVE  (IF i \in 1..Len(k) THEN k[i] ELSE NoOpen) = IF i = id + 1 THEN NoOpen ELSE SlotAt(p, i)
  <2>1. SlotAt(p, i) = IF i \in 1..len THEN l[i] ELSE NoOpen
    BY <1>1, <1>2 DEF SlotAt
  <2>2. i \in 1..len => k[i] = IF i = id + 1 THEN NoOpen ELSE l[i]
    BY <1>4
  <2> QED BY <1>7, <2>1, <2>2
<1> QED BY <1>5, <1>7, <1>8, OthersStay

(* getChan.                                                                 *)
LEMMA GetChanIs ==
    ASSUME ListTyped, NEW p \in MuxSides, NEW id \in Nat
    PROVE  GetChan(p, id) = SlotAt(p, id + 1) /\ SlotAt(p, id + 1) \in Opens \cup {NoOpen}
<1>1. PICK l : l = mList[p]
  OBVIOUS
<1>2. PICK len : len = Len(l)
  OBVIOUS
<1>3. l \in Seq(Opens \cup {NoOpen}) /\ len \in Nat
  BY <1>1, <1>2 DEF ListTyped
<1>4. id < len <=> id + 1 \in 1..len
  BY <1>3
<1>5. \A i \in 1..len : l[i] \in Opens \cup {NoOpen}
  BY <1>2, <1>3
<1> QED BY <1>1, <1>2, <1>4, <1>5 DEF GetChan, SlotAt

(* Ids are numbers, and count slots from 0.                                 *)
LEMMA IdsAre ==
    Ids \subseteq Nat /\ Cardinality(Opens) \in Nat /\ 0 \in Ids /\ \A i \in Ids : i \in Nat /\ i + 1 \in Slots
<1>1. Cardinality(Opens) \in Nat
  BY FS_CardinalityType, MuxConstants
<1> QED BY <1>1 DEF Ids, Slots

(* Every slot before the one that chanList.add takes is in use ...          *)
LEMMA FirstFree ==
    ASSUME ListTyped, NEW p \in MuxSides, NEW i \in Slots, i < SlotFor(p), SlotFor(p) \in Slots
    PROVE  SlotAt(p, i) # NoOpen
<1>1. PICK l : l = mList[p]
  OBVIOUS
<1>2. PICK len : len = Len(l)
  OBVIOUS
<1>3. l \in Seq(Opens \cup {NoOpen}) /\ len \in Nat
  BY <1>1, <1>2 DEF ListTyped
<1>4. PICK n : n = SlotFor(p)
  OBVIOUS
<1>5. PICK free : free = FreeSlots(p)
  OBVIOUS
<1>6. free = {j \in 1..len : l[j] = NoOpen}
  BY <1>1, <1>2, <1>5 DEF FreeSlots
<1>7. i \in Nat /\ i > 0 /\ n \in Nat /\ i < n
  BY <1>4 DEF Slots
<1>8. i \notin free /\ i \in 1..len
  <2>1. CASE free = {}
    <3>1. n = len + 1
      BY <1>1, <1>2, <1>4, <1>5, <2>1 DEF SlotFor
    <3> QED BY <1>3, <1>7, <2>1, <3>1
  <2>2. CASE free # {}
    <3>1. free \subseteq Nat
      BY <1>6
    <3>2. \E j \in free : \A k \in free : j <= k
      BY <2>2, <3>1, HasLeast
    <3>3. n = CHOOSE j \in free : \A k \in free : j <= k
      BY <1>4, <1>5, <2>2 DEF SlotFor
    <3>4. n \in free /\ \A k \in free : n <= k
      BY <3>2, <3>3
    <3>5. n \in 1..len
      BY <1>6, <3>4
    <3>6. i \notin free
      BY <1>7, <3>4
    <3> QED BY <1>3, <1>7, <3>5, <3>6
  <2> QED BY <2>1, <2>2
<1>9. l[i] # NoOpen
  BY <1>6, <1>8
<1> QED BY <1>1, <1>2, <1>8, <1>9 DEF SlotAt

(* ... by a channel of its own, so ids never outgrow the opens.             *)
LEMMA IdFits ==
    ASSUME ListTyped, ListInv, NEW p \in MuxSides, NEW o \in Opens, mCh[p][o].st = "none",
           SlotFor(p) \in Slots
    PROVE  SlotFor(p) - 1 \in Ids
<1>1. PICK n : n = SlotFor(p) - 1
  OBVIOUS
<1>2. n \in Nat /\ SlotFor(p) = n + 1
  BY <1>1 DEF Slots
<1>3. PICK f : f = [i \in 1..n |-> SlotAt(p, i)]
  OBVIOUS
<1>4. ASSUME NEW i \in 1..n
      PROVE  f[i] \in Opens \ {o} /\ mCh[p][f[i]].id = i - 1
  <2>1. i \in Slots /\ i < SlotFor(p) /\ i = (i - 1) + 1 /\ i - 1 \in Nat
    BY <1>2, <1>4 DEF Slots
  <2>2. SlotAt(p, i) # NoOpen
    BY <2>1, FirstFree
  <2>3. ListedOK(p, i)
    BY <2>1 DEF ListInv
  <2>4. SlotAt(p, i) \in Opens \cup {NoOpen}
    BY <2>1, GetChanIs
  <2>5. mCh[p][SlotAt(p, i)].id = i - 1 /\ mCh[p][SlotAt(p, i)].st # "none"
    BY <2>2, <2>3 DEF ListedOK
  <2>6. SlotAt(p, i) # o
    BY <2>5
  <2> QED BY <1>3, <2>2, <2>4, <2>5, <2>6
<1>5. f \in [1..n -> Opens \ {o}]
  BY <1>3, <1>4
<1>6. ASSUME NEW i \in 1..n, NEW j \in 1..n, f[i] = f[j] PROVE i = j
  <2>1. i - 1 = j - 1
    BY <1>4, <1>6
  <2> QED BY <1>2, <2>1
<1>7. f \in Injection(1..n, Opens \ {o})
  BY <1>5, <1>6 DEF Injection, IsInjective
<1>8. IsFiniteSet(Opens \ {o}) /\ Cardinality(Opens \ {o}) = Cardinality(Opens) - 1
  BY FS_RemoveElement, MuxConstants
<1>9. Cardinality(1..n) <= Cardinality(Opens \ {o})
  BY <1>7, <1>8, FS_Injection
<1>10. Cardinality(1..n) = n
  <2>1. Cardinality(1..n) = IF 1 > n THEN 0 ELSE n - 1 + 1
    BY <1>2, FS_Interval
  <2> QED BY <1>2, <2>1
<1>11. Cardinality(Opens) \in Nat
  BY IdsAre
<1>12. n <= Cardinality(Opens) - 1
  BY <1>8, <1>9, <1>10
<1>13. n \in 0..Cardinality(Opens)
  BY <1>2, <1>11, <1>12
<1> QED BY <1>1, <1>13 DEF Ids

------------------------------------------------------------------------------
(* The channels: one end of one channel changes.                            *)

ChanSet(p, o, n) ==
    /\ ChTyped' /\ n \in MuxChans /\ mCh'[p][o] = n
    /\ \A q \in MuxSides, y \in Opens : (q # p \/ y # o) => mCh'[q][y] = mCh[q][y]

(* One channel object changes.                                              *)
LEMMA SetsChan ==
    ASSUME ChTyped, NEW p \in MuxSides, NEW o \in Opens, NEW n \in MuxChans,
           mCh' = [mCh EXCEPT ![p][o] = n]
    PROVE  ChanSet(p, o, n)
<1>1. mCh' = [mCh EXCEPT ![p] = [mCh[p] EXCEPT ![o] = n]]
  BY DEF ChTyped
<1>2. PICK f : f = [mCh[p] EXCEPT ![o] = n]
  OBVIOUS
<1>3. mCh[p] \in [Opens -> MuxChans]
  BY DEF ChTyped
<1>4. f \in [Opens -> MuxChans] /\ f[o] = n /\ \A y \in Opens : y # o => f[y] = mCh[p][y]
  BY <1>2, <1>3
<1>5. mCh'[p] = f /\ \A q \in MuxSides : q # p => mCh'[q] = mCh[q]
  BY <1>1, <1>2 DEF ChTyped
<1>6. ChTyped'
  BY <1>1, <1>2, <1>4 DEF ChTyped
<1> QED BY <1>4, <1>5, <1>6 DEF ChanSet

(* A slot holds the channel whose id it is, or none.                        *)
LEMMA SlotIs ==
    ASSUME ListTyped, NEW p \in MuxSides, NEW i \in Slots
    PROVE  SlotAt(p, i) \in Opens \cup {NoOpen}
<1>1. i - 1 \in Nat /\ (i - 1) + 1 = i
  BY DEF Slots
<1> QED BY <1>1, GetChanIs

Gone == {"refused", "failed"}

(* A channel that changes where it is, and neither comes nor goes.          *)
LEMMA ListKept ==
    ASSUME ListTyped, ListInv, LiveInv, NEW p \in MuxSides, NEW o \in Opens, NEW n,
           ChanSet(p, o, n), mList' = mList, mUp' = mUp,
           n.id = mCh[p][o].id, n.shut = "closed" <=> mCh[p][o].shut = "closed",
           n.st # "none", mCh[p][o].st # "none",
           mUp = "down" \/ (n.st \in Gone <=> mCh[p][o].st \in Gone), mUp \in {"up", "down"}
    PROVE  ListInv' /\ LiveInv'
<1>1. \A q, i : SlotAt(q, i)' = SlotAt(q, i)
  BY DEF SlotAt
<1>2. mCh'[p][o] = n /\ \A q \in MuxSides, y \in Opens : (q # p \/ y # o) => mCh'[q][y] = mCh[q][y]
  BY DEF ChanSet
<1>3. ListInv'
  <2>1. SUFFICES ASSUME NEW q \in MuxSides, NEW i \in Slots, SlotAt(q, i) # NoOpen PROVE ListedOK(q, i)'
    BY <1>1 DEF ListInv, ListedOK
  <2>2. ListedOK(q, i)
    BY DEF ListInv
  <2>3. PICK y : y = SlotAt(q, i)
    OBVIOUS
  <2>4. mCh[q][y].id = i - 1 /\ mCh[q][y].shut # "closed" /\ mCh[q][y].st # "none" /\ (mCh[q][y].st \in Gone => mUp = "down")
    BY <2>1, <2>2, <2>3 DEF ListedOK, Gone
  <2>5. CASE q = p /\ y = o
    BY <1>1, <1>2, <2>3, <2>4, <2>5 DEF ListedOK, Gone
  <2>6. CASE ~(q = p /\ y = o) /\ y \in Opens
    BY <1>1, <1>2, <2>3, <2>4, <2>6 DEF ListedOK, Gone
  <2>7. y \in Opens
    BY <2>1, <2>3, SlotIs
  <2> QED BY <2>5, <2>6, <2>7
<1>4. LiveInv'
  BY <1>1, <1>2 DEF LiveInv, Gone
<1> QED BY <1>3, <1>4

(* A channel that comes into the list.                                      *)
LEMMA ListAdds ==
    ASSUME ListTyped, ListInv, LiveInv, NEW p \in MuxSides, NEW o \in Opens, NEW n, NEW slot \in Slots,
           ChanSet(p, o, n), SetsSlot(p, slot, o), SlotAt(p, slot) = NoOpen, mUp' = mUp,
           mCh[p][o].st = "none", n.id = slot - 1, n.shut = "no", n.st # "none",
           n.st \in Gone => mUp = "down", mUp \in {"up", "down"}
    PROVE  ListInv' /\ LiveInv'
<1>1. \A q \in MuxSides, i \in Slots : SlotAt(q, i)' = IF q = p /\ i = slot THEN o ELSE SlotAt(q, i)
  BY DEF SetsSlot
<1>2. mCh'[p][o] = n /\ \A q \in MuxSides, y \in Opens : (q # p \/ y # o) => mCh'[q][y] = mCh[q][y]
  BY DEF ChanSet
<1>3. ASSUME NEW q \in MuxSides, NEW i \in Slots PROVE ListedOK(q, i)'
  <2>1. CASE q = p /\ i = slot
    <3>1. SlotAt(q, i)' = o
      BY <1>1, <2>1
    <3> QED BY <1>2, <2>1, <3>1 DEF ListedOK, Gone
  <2>2. CASE ~(q = p /\ i = slot) /\ SlotAt(q, i) # NoOpen
    <3>1. PICK y \in Opens : y = SlotAt(q, i)
      BY <2>2, SlotIs
    <3>2. ListedOK(q, i)
      BY DEF ListInv
    <3>3. mCh[q][y].st # "none"
      BY <2>2, <3>1, <3>2 DEF ListedOK
    <3>4. mCh'[q][y] = mCh[q][y]
      BY <1>2, <3>3
    <3>5. SlotAt(q, i)' = y
      BY <1>1, <2>2, <3>1
    <3> QED BY <2>2, <3>1, <3>2, <3>4, <3>5 DEF ListedOK
  <2>3. CASE ~(q = p /\ i = slot) /\ SlotAt(q, i) = NoOpen
    <3>1. SlotAt(q, i)' = NoOpen
      BY <1>1, <2>3
    <3> QED BY <3>1 DEF ListedOK
  <2> QED BY <2>1, <2>2, <2>3
<1>4. ListInv'
  BY <1>3 DEF ListInv
<1>5. ASSUME mUp = "up", NEW q \in MuxSides, NEW y \in Opens, ChTyped',
             mCh'[q][y].st \notin {"none", "refused", "failed"}, mCh'[q][y].shut # "closed"
      PROVE  \E i \in Slots : i = mCh'[q][y].id + 1 /\ SlotAt(q, i)' = y
  <2>1. CASE q = p /\ y = o
    <3>1. n.id + 1 = slot
      BY DEF Slots
    <3> QED BY <1>1, <1>2, <2>1, <3>1
  <2>2. CASE ~(q = p /\ y = o)
    <3>1. mCh'[q][y] = mCh[q][y]
      BY <1>2, <2>2
    <3>2. SlotAt(q, mCh[q][y].id + 1) = y
      BY <1>5, <3>1 DEF LiveInv
    <3>3. mCh'[q][y].id \in Ids
      BY <1>5 DEF ChTyped, MuxChans
    <3>4. mCh[q][y].id + 1 \in Slots
      BY <3>1, <3>3, IdsAre
    <3>5. y # NoOpen
      BY MuxConstants DEF NoOpen
    <3> QED BY <1>1, <3>1, <3>2, <3>4, <3>5
  <2> QED BY <2>1, <2>2
<1>6. LiveInv'
  BY <1>5 DEF LiveInv, ChanSet, SlotAt
<1> QED BY <1>4, <1>6

(* A channel that leaves it.                                                *)
LEMMA ListDrops ==
    ASSUME ListTyped, ListInv, LiveInv, NEW p \in MuxSides, NEW o \in Opens, NEW n, NEW id \in Ids,
           ChanSet(p, o, n), SetsSlot(p, id + 1, NoOpen), SlotAt(p, id + 1) = o, mUp' = mUp,
           n.shut = "closed" \/ n.st \in Gone
    PROVE  ListInv' /\ LiveInv'
<1>1. \A q \in MuxSides, i \in Slots : SlotAt(q, i)' = IF q = p /\ i = id + 1 THEN NoOpen ELSE SlotAt(q, i)
  BY DEF SetsSlot
<1>2. mCh'[p][o] = n /\ \A q \in MuxSides, y \in Opens : (q # p \/ y # o) => mCh'[q][y] = mCh[q][y]
  BY DEF ChanSet
<1>3. id + 1 \in Slots /\ id \in Nat
  BY IdsAre
<1>4. o # NoOpen
  BY MuxConstants DEF NoOpen
<1>5. mCh[p][o].id = (id + 1) - 1
  BY <1>3, <1>4 DEF ListInv, ListedOK
<1>6. mCh[p][o].id = id
  BY <1>3, <1>5
<1>7. ASSUME NEW q \in MuxSides, NEW i \in Slots PROVE ListedOK(q, i)'
  <2>1. CASE q = p /\ i = id + 1
    BY <1>1, <2>1 DEF ListedOK
  <2>2. CASE ~(q = p /\ i = id + 1) /\ SlotAt(q, i) # NoOpen
    <3>1. PICK y \in Opens : y = SlotAt(q, i)
      BY <2>2, SlotIs
    <3>2. ListedOK(q, i)
      BY DEF ListInv
    <3>3. mCh[q][y].id = i - 1
      BY <2>2, <3>1, <3>2 DEF ListedOK
    <3>4. i - 1 = id => i = id + 1
      BY <1>3 DEF Slots
    <3>5. mCh'[q][y] = mCh[q][y]
      BY <1>2, <1>6, <2>2, <3>3, <3>4
    <3>6. SlotAt(q, i)' = y
      BY <1>1, <2>2, <3>1
    <3> QED BY <2>2, <3>1, <3>2, <3>5, <3>6 DEF ListedOK
  <2>3. CASE ~(q = p /\ i = id + 1) /\ SlotAt(q, i) = NoOpen
    <3>1. SlotAt(q, i)' = NoOpen
      BY <1>1, <2>3
    <3> QED BY <3>1 DEF ListedOK
  <2> QED BY <2>1, <2>2, <2>3
<1>8. ListInv'
  BY <1>7 DEF ListInv
<1>9. ASSUME mUp = "up", NEW q \in MuxSides, NEW y \in Opens,
             mCh'[q][y].st \notin {"none", "refused", "failed"}, mCh'[q][y].shut # "closed"
      PROVE  \E i \in Slots : i = mCh'[q][y].id + 1 /\ SlotAt(q, i)' = y
  <2>1. ~(q = p /\ y = o)
    BY <1>2, <1>9 DEF Gone
  <2>2. mCh'[q][y] = mCh[q][y]
    BY <1>2, <2>1
  <2>3. SlotAt(q, mCh[q][y].id + 1) = y
    BY <1>9, <2>2 DEF LiveInv
  <2>4. mCh'[q][y].id \in Ids
    BY DEF ChanSet, ChTyped, MuxChans
  <2>5. mCh[q][y].id + 1 \in Slots
    BY <2>2, <2>4, IdsAre
  <2>6. ~(q = p /\ mCh[q][y].id + 1 = id + 1)
    BY <2>1, <2>3
  <2> QED BY <1>1, <2>2, <2>3, <2>5, <2>6
<1>10. LiveInv'
  BY <1>9 DEF LiveInv, SlotAt
<1> QED BY <1>8, <1>10

------------------------------------------------------------------------------
(* A packet is sent, or taken; the packets of other channels stay.          *)

AboutStays(q, x) == \A r \in MuxSides : \A y : (r # q \/ y # x) => About(r, y)' = About(r, y)
Sent(q, m) ==
    /\ OrderInv' /\ About(q, m.o)' = About(q, m.o) \cup {m} /\ AboutStays(q, m.o)
Took(q, h) ==
    /\ OrderInv' /\ About(q, h.o)' = About(q, h.o) \ {h} /\ AboutStays(q, h.o)
    /\ h \in About(q, h.o) /\ h \in MuxPackets
    /\ \A a \in About(q, h.o) : a # h => a.t # h.t /\ h.t # "close"
Traded(q, h, m) ==
    /\ OrderInv' /\ About(q, h.o)' = About(q, h.o) \ {h} /\ About(Peer(q), h.o)' = About(Peer(q), h.o) \cup {m}
    /\ \A r \in MuxSides : \A y : y # h.o => About(r, y)' = About(r, y)
Silent == OrderInv' /\ \A r \in MuxSides : \A y : About(r, y)' = About(r, y)

(* A packet is sent, after what is on the way of its channel.               *)
LEMMA Sends ==
    ASSUME OrderInv, NEW q \in MuxSides, NEW m \in MuxPackets,
           Grows(q, m), Still(Peer(q)), \A a \in About(q, m.o) : a.t # m.t /\ a.t # "close"
    PROVE  Sent(q, m)
<1>1. WireOK(q) /\ WireOK(Peer(q)) /\ Peer(q) \in MuxSides /\ Peer(q) # q
  BY Peers DEF OrderInv
<1>2. \A a \in Packets(q) : InTurn(a, m)
  BY DEF About, InTurn
<1>3. WireOK(q)' /\ Packets(q)' = Packets(q) \cup {m}
  BY <1>1, <1>2, GrowsTo
<1>4. WireOK(Peer(q))' /\ Packets(Peer(q))' = Packets(Peer(q))
  BY <1>1, StillIs
<1>5. \A r \in MuxSides : r = q \/ r = Peer(q)
  BY Peers
<1>6. OrderInv'
  BY <1>3, <1>4, <1>5 DEF OrderInv
<1>7. About(q, m.o)' = About(q, m.o) \cup {m}
  BY <1>3 DEF About
<1>8. ASSUME NEW y, y # m.o PROVE About(q, y)' = About(q, y)
  BY <1>3, <1>8 DEF About
<1>9. ASSUME NEW y PROVE About(Peer(q), y)' = About(Peer(q), y)
  BY <1>4 DEF About
<1>10. AboutStays(q, m.o)
  BY <1>5, <1>8, <1>9 DEF AboutStays
<1> QED BY <1>6, <1>7, <1>10 DEF Sent

(* A packet is taken from the wire.                                         *)
LEMMA Takes ==
    ASSUME OrderInv, NEW q \in MuxSides, NEW h, h = Head(mWire[q]), Shrinks(q), Still(Peer(q))
    PROVE  Took(q, h)
<1>1. WireOK(q) /\ WireOK(Peer(q)) /\ Peer(q) \in MuxSides /\ Peer(q) # q
  BY Peers DEF OrderInv
<1>2. WireOK(q)' /\ h \in Packets(q) /\ h \in MuxPackets
  BY <1>1, ShrinksTo
<1>3. Packets(q)' = Packets(q) \ {h} /\ \A a \in Packets(q)' : InTurn(h, a)
  BY <1>1, ShrinksTo
<1>4. WireOK(Peer(q))' /\ Packets(Peer(q))' = Packets(Peer(q))
  BY <1>1, StillIs
<1>5. \A r \in MuxSides : r = q \/ r = Peer(q)
  BY Peers
<1>6. OrderInv'
  BY <1>2, <1>4, <1>5 DEF OrderInv
<1>7. About(q, h.o)' = About(q, h.o) \ {h} /\ h \in About(q, h.o)
  BY <1>2, <1>3 DEF About
<1>8. ASSUME NEW y, y # h.o PROVE About(q, y)' = About(q, y)
  BY <1>3, <1>8 DEF About
<1>9. ASSUME NEW y PROVE About(Peer(q), y)' = About(Peer(q), y)
  BY <1>4 DEF About
<1>10. AboutStays(q, h.o)
  BY <1>5, <1>8, <1>9 DEF AboutStays
<1>11. \A a \in About(q, h.o) : a # h => a.t # h.t /\ h.t # "close"
  BY <1>3 DEF About, InTurn
<1> QED BY <1>2, <1>6, <1>7, <1>10, <1>11 DEF Took

(* A packet is taken and another one sent back.                             *)
LEMMA Trades ==
    ASSUME OrderInv, NEW q \in MuxSides, NEW h, h = Head(mWire[q]), Shrinks(q),
           NEW m \in MuxPackets, m.o = h.o, Grows(Peer(q), m),
           \A a \in About(Peer(q), m.o) : a.t # m.t /\ a.t # "close"
    PROVE  Traded(q, h, m)
<1>1. WireOK(q) /\ WireOK(Peer(q)) /\ Peer(q) \in MuxSides /\ Peer(q) # q
  BY Peers DEF OrderInv
<1>2. WireOK(q)' /\ h \in Packets(q) /\ h \in MuxPackets
  BY <1>1, ShrinksTo
<1>3. Packets(q)' = Packets(q) \ {h}
  BY <1>1, ShrinksTo
<1>4. \A a \in Packets(Peer(q)) : InTurn(a, m)
  BY DEF About, InTurn
<1>5. WireOK(Peer(q))' /\ Packets(Peer(q))' = Packets(Peer(q)) \cup {m}
  BY <1>1, <1>4, GrowsTo
<1>6. \A r \in MuxSides : r = q \/ r = Peer(q)
  BY Peers
<1>7. OrderInv'
  BY <1>2, <1>5, <1>6 DEF OrderInv
<1>8. About(q, h.o)' = About(q, h.o) \ {h}
  BY <1>3 DEF About
<1>9. About(Peer(q), h.o)' = About(Peer(q), h.o) \cup {m}
  BY <1>5 DEF About
<1>10. ASSUME NEW y, y # h.o PROVE About(q, y)' = About(q, y) /\ About(Peer(q), y)' = About(Peer(q), y)
  BY <1>3, <1>5, <1>10 DEF About
<1> QED BY <1>6, <1>7, <1>8, <1>9, <1>10 DEF Traded

(* Nothing is sent or taken.                                                *)
LEMMA StaysSilent ==
    ASSUME OrderInv, mWire' = mWire
    PROVE  Silent
<1>1. \A q \in MuxSides : WireOK(q)' /\ Packets(q)' = Packets(q)
  BY StillIs DEF OrderInv, Still
<1> QED BY <1>1 DEF OrderInv, Silent, About

------------------------------------------------------------------------------
(* A step leaves every name but one alone.                                  *)

SameAt(x) ==
    /\ x \in Opens => \A p \in MuxSides : mCh'[p][x] = mCh[p][x]
    /\ \A p \in MuxSides :
         /\ mReq'[p][x] = mReq[p][x] /\ mMsg'[p][x] = mMsg[p][x] /\ About(p, x)' = About(p, x)
    /\ \A k \in Callers : Target[k] = x => mCall'[k] = mCall[k]
    /\ mLoop' = mLoop /\ mUp' = mUp

(* Every name has a side that asks and one that serves.                     *)
LEMMA AskerIs ==
    ASSUME NEW x \in MuxNames
    PROVE  /\ Asker(x) \in MuxSides /\ Server(x) \in MuxSides /\ Asker(x) # Server(x)
           /\ x \in Opens => (x # Global /\ Asker(x) = Opener[x])
           /\ \A q \in MuxSides : q = Asker(x) \/ q = Server(x)
           /\ Peer(Asker(x)) = Server(x) /\ Peer(Server(x)) = Asker(x)
<1>1. x \in Opens => x # Global
  BY MuxConstants DEF Global
<1>2. Asker(x) \in MuxSides
  BY MuxConstants DEF Asker, MuxNames, MuxSides
<1> QED BY <1>1, <1>2, Peers DEF Asker, Server

(* A step that leaves everything about a name alone keeps what is known of  *)
(* it.                                                                      *)
LEMMA SameKept ==
    ASSUME NEW x \in MuxNames, NameInv(x), SameAt(x)
    PROVE  NameInv(x)'
<1>1. Asker(x) \in MuxSides /\ Server(x) \in MuxSides
  BY AskerIs
<1>2. PICK a : a = Asker(x)
  OBVIOUS
<1>3. PICK b : b = Server(x)
  OBVIOUS
<1>4. a \in MuxSides /\ b \in MuxSides
  BY <1>1, <1>2, <1>3
<1>5. /\ mReq'[a][x] = mReq[a][x] /\ mMsg'[a][x] = mMsg[a][x] /\ About(a, x)' = About(a, x)
      /\ mReq'[b][x] = mReq[b][x] /\ mMsg'[b][x] = mMsg[b][x] /\ About(b, x)' = About(b, x)
      /\ x \in Opens => (mCh'[a][x] = mCh[a][x] /\ mCh'[b][x] = mCh[b][x])
      /\ mLoop' = mLoop /\ mUp' = mUp
  BY <1>4 DEF SameAt
<1>6. \A k \in Callers : Target[k] = x => mCall'[k] = mCall[k]
  BY DEF SameAt
<1>7. x \in Opens => LinkInv(x)'
  BY <1>2, <1>3, <1>5 DEF NameInv, LinkInv
<1>8. x = Global => GlobalInv'
  <2>1. "c" \in MuxSides /\ "s" \in MuxSides
    BY DEF MuxSides
  <2> QED BY <2>1 DEF NameInv, GlobalInv, SameAt
<1>9. Ready(x)' = Ready(x) /\ Over(x)' = Over(x)
  <2>1. x # Global => x \in Opens
    BY DEF MuxNames
  <2> QED BY <1>2, <1>5, <2>1 DEF Ready, Over
<1>10. Waiting(x)' = Waiting(x) /\ Awaited(x)' = Awaited(x)
  BY <1>6, <1>9 DEF Waiting, Awaited, CallsOf
<1>11. Requests(x)' = Requests(x) /\ Replies(x)' = Replies(x) /\ Served(x)' = Served(x) /\ Answer(x)' = Answer(x)
  BY <1>2, <1>3, <1>5 DEF Requests, Replies, Served, Answer
<1>12. CallInv(x)'
  BY <1>2, <1>3, <1>5, <1>9, <1>10, <1>11 DEF NameInv, CallInv
<1> QED BY <1>7, <1>8, <1>12 DEF NameInv

------------------------------------------------------------------------------
(* The two ends of one channel, step by step: c opened it, s is the other   *)
(* end, A and B are the packets on the way from c and to it.                *)

Ends(c, s, A, B) == c \in MuxChans /\ s \in MuxChans /\ c.st \in OpenStates /\ s.st \in AcceptStates /\ Linked(c, s, A, B)

(* The opener sends its open.                                               *)
LEMMA LinkOpens ==
    ASSUME NEW c, NEW s, NEW A, NEW B, Ends(c, s, A, B), c.st = "none",
           NEW n, n.st = "opening", n.shut = "no", NEW m, m.t = "open", m.my = n.id
    PROVE  A = {} /\ B = {} /\ Linked(n, s, A \cup {m}, B)
<1>1. \A a \in A : FALSE
  BY DEF Ends, Linked, ToAcceptor
<1>2. \A b \in B : FALSE
  BY DEF Ends, Linked, ToOpener
<1>3. s.st = "none" /\ s.shut = "no"
  BY DEF Ends, Linked, EndsOK, AcceptStates, MuxChans
<1>4. EndsOK(n, s) /\ ConfirmComes(n, s, B)
  BY <1>3 DEF EndsOK, ConfirmComes
<1>5. ToAcceptor(m, n, s)
  BY <1>3 DEF ToAcceptor
<1> QED BY <1>1, <1>2, <1>4, <1>5 DEF Linked

(* The open arrives.                                                        *)
LEMMA LinkOffers ==
    ASSUME NEW c, NEW s, NEW A, NEW B, Ends(c, s, A, B), NEW h \in A, h.t = "open", \A a \in A : a # h => a.t # h.t,
           NEW n, n.st = "offered", n.remote = h.my, n.shut = "no"
    PROVE  s.st = "none" /\ c.st = "opening" /\ Linked(c, n, A \ {h}, B)
<1>1. c.st = "opening" /\ h.my = c.id /\ s.st = "none"
  BY DEF Ends, Linked, ToAcceptor
<1>2. \A a \in A : a = h
  BY <1>1 DEF Ends, Linked, ToAcceptor
<1>3. \A b \in B : FALSE
  BY <1>1 DEF Ends, Linked, ToOpener
<1>4. c.shut = "no"
  BY <1>1 DEF Ends, Linked, EndsOK, MuxChans
<1>5. EndsOK(c, n) /\ ConfirmComes(c, n, B)
  BY <1>1, <1>4 DEF EndsOK, ConfirmComes
<1> QED BY <1>1, <1>2, <1>3, <1>5 DEF Linked

(* The application accepts or rejects it.                                   *)
LEMMA LinkDecides ==
    ASSUME NEW c, NEW s, NEW A, NEW B, Ends(c, s, A, B), s.st = "offered",
           NEW n, n.id = s.id, n.remote = s.remote, n.shut = s.shut,
           NEW m, m.to = s.remote, m.my = s.id,
           (n.st = "open" /\ m.t = "confirm") \/ (n.st = "rejected" /\ m.t = "failure")
    PROVE  A = {} /\ B = {} /\ s.shut = "no" /\ c.st = "opening" /\ Linked(c, n, A, B \cup {m})
<1>1. c.st = "opening" /\ s.remote = c.id /\ s.shut = "no" /\ c.shut = "no"
  BY DEF Ends, Linked, EndsOK, MuxChans
<1>2. \A a \in A : FALSE
  BY <1>1 DEF Ends, Linked, ToAcceptor
<1>3. \A b \in B : FALSE
  BY <1>1 DEF Ends, Linked, ToOpener
<1>4. EndsOK(c, n) /\ ConfirmComes(c, n, {m})
  BY <1>1 DEF EndsOK, ConfirmComes
<1>5. ToOpener(m, c, n)
  BY <1>1 DEF ToOpener
<1>6. A = {} /\ B = {}
  BY <1>2, <1>3
<1> QED BY <1>1, <1>4, <1>5, <1>6 DEF Linked

(* The confirmation arrives.                                                *)
LEMMA LinkConfirms ==
    ASSUME NEW c, NEW s, NEW A, NEW B, Ends(c, s, A, B), NEW h \in B, h.t = "confirm", \A b \in B : b # h => b.t # h.t,
           NEW n, n.st = "confirmed", n.id = c.id, n.remote = h.my, n.shut = c.shut
    PROVE  c.st = "opening" /\ Linked(n, s, A, B \ {h})
<1>1. c.st = "opening" /\ s.st = "open" /\ h.my = s.id
  BY DEF Ends, Linked, ToOpener
<1>2. \A a \in A : FALSE
  BY <1>1 DEF Ends, Linked, ToAcceptor
<1>3. \A b \in B : b # h => b.t = "close"
  BY <1>1 DEF Ends, Linked, ToOpener
<1>4. \A b \in B \ {h} : ToOpener(b, n, s)
  BY <1>1, <1>3 DEF Ends, Linked, ToOpener
<1>5. EndsOK(n, s) /\ ConfirmComes(n, s, B \ {h})
  BY <1>1 DEF Ends, Linked, EndsOK, ConfirmComes
<1> QED BY <1>1, <1>2, <1>4, <1>5 DEF Linked

(* The refusal arrives.                                                     *)
LEMMA LinkRefuses ==
    ASSUME NEW c, NEW s, NEW A, NEW B, Ends(c, s, A, B), NEW h \in B, h.t = "failure", \A b \in B : b # h => b.t # h.t,
           NEW n, n.st = "refused", n.id = c.id, n.remote = c.remote, n.shut = c.shut
    PROVE  c.st = "opening" /\ Linked(n, s, A, B \ {h})
<1>1. c.st = "opening" /\ s.st = "rejected"
  BY DEF Ends, Linked, ToOpener
<1>2. \A a \in A : FALSE
  BY <1>1 DEF Ends, Linked, ToAcceptor
<1>3. \A b \in B : b = h
  BY <1>1 DEF Ends, Linked, ToOpener
<1>4. c.shut = "no" /\ s.shut = "no"
  BY <1>1 DEF Ends, Linked, EndsOK, MuxChans
<1>5. EndsOK(n, s) /\ ConfirmComes(n, s, B \ {h})
  BY <1>1, <1>4 DEF Ends, Linked, EndsOK, ConfirmComes
<1> QED BY <1>1, <1>2, <1>3, <1>5 DEF Linked

(* openChannel returns with the answer.                                     *)
LEMMA LinkReturns ==
    ASSUME NEW c, NEW s, NEW A, NEW B, Ends(c, s, A, B),
           NEW n, n.id = c.id, n.remote = c.remote, n.shut = c.shut,
           (c.st = "confirmed" /\ n.st = "open") \/ (c.st = "refused" /\ n.st = "failed")
    PROVE  Linked(n, s, A, B)
<1>1. EndsOK(n, s) /\ ConfirmComes(n, s, B)
  BY DEF Ends, Linked, EndsOK, ConfirmComes
<1>2. \A a \in A : ToAcceptor(a, n, s)
  BY DEF Ends, Linked, ToAcceptor
<1>3. \A b \in B : ToOpener(b, n, s)
  BY DEF Ends, Linked, ToOpener
<1> QED BY <1>1, <1>2, <1>3 DEF Linked

(* Close, at either end.                                                    *)
LEMMA LinkCloses ==
    ASSUME NEW c, NEW s, NEW A, NEW B, Ends(c, s, A, B), c.st = "open", c.shut = "no",
           NEW n, n.id = c.id, n.remote = c.remote, n.st = c.st, n.shut = "sent", NEW m, m.t = "close", m.to = c.remote
    PROVE  (\A a \in A : a.t # "close") /\ Linked(n, s, A \cup {m}, B)
<1>1. s.st = "open" /\ c.remote = s.id /\ s.shut # "closed"
  BY DEF Ends, Linked, EndsOK, AcceptStates
<1>2. \A a \in A : a.t # "close"
  BY DEF Ends, Linked, ToAcceptor
<1>3. EndsOK(n, s) /\ ConfirmComes(n, s, B)
  BY <1>1 DEF Ends, Linked, EndsOK, ConfirmComes
<1>4. ToAcceptor(m, n, s) /\ \A a \in A : ToAcceptor(a, n, s)
  BY <1>1 DEF Ends, Linked, ToAcceptor
<1>5. \A b \in B : ToOpener(b, n, s)
  BY DEF Ends, Linked, ToOpener
<1> QED BY <1>2, <1>3, <1>4, <1>5 DEF Linked

(* The other end closes.                                                    *)
LEMMA LinkFarCloses ==
    ASSUME NEW c, NEW s, NEW A, NEW B, Ends(c, s, A, B), s.st = "open", s.shut = "no",
           NEW n, n.id = s.id, n.remote = s.remote, n.st = s.st, n.shut = "sent", NEW m, m.t = "close", m.to = s.remote
    PROVE  (\A b \in B : b.t # "close") /\ Linked(c, n, A, B \cup {m})
<1>1. c.st \in {"opening", "confirmed", "open"} /\ s.remote = c.id /\ c.shut # "closed"
  BY DEF Ends, Linked, EndsOK
<1>2. \A b \in B : b.t # "close"
  BY DEF Ends, Linked, ToOpener
<1>3. EndsOK(c, n) /\ ConfirmComes(c, n, B \cup {m})
  BY <1>1 DEF Ends, Linked, EndsOK, ConfirmComes
<1>4. ToOpener(m, c, n) /\ \A b \in B : ToOpener(b, c, n)
  BY <1>1 DEF Ends, Linked, ToOpener
<1>5. \A a \in A : ToAcceptor(a, c, n)
  BY DEF Ends, Linked, ToAcceptor
<1> QED BY <1>2, <1>3, <1>4, <1>5 DEF Linked

(* A close comes.                                                           *)
LEMMA LinkClosed ==
    ASSUME NEW c, NEW s, NEW A, NEW B, Ends(c, s, A, B), NEW h \in B, h.t = "close", \A b \in B : b = h,
           NEW n, n.id = c.id, n.remote = c.remote, n.st = c.st, n.shut = "closed"
    PROVE  Linked(n, s, A, B \ {h}) /\ (c.shut = "no" => \A a \in A : a.t # "close")
<1>1. s.st = "open" /\ s.shut # "no" /\ c.st \in {"opening", "confirmed", "open"}
  BY DEF Ends, Linked, ToOpener
<1>2. c.st # "opening"
  BY <1>1 DEF Ends, Linked, ConfirmComes
<1>3. EndsOK(n, s) /\ ConfirmComes(n, s, B \ {h})
  BY <1>1, <1>2 DEF Ends, Linked, EndsOK, ConfirmComes
<1>4. \A a \in A : ToAcceptor(a, n, s)
  BY DEF Ends, Linked, ToAcceptor
<1>5. c.shut = "no" => \A a \in A : a.t # "close"
  BY DEF Ends, Linked, ToAcceptor
<1>6. B \ {h} = {}
  OBVIOUS
<1> QED BY <1>3, <1>4, <1>5, <1>6 DEF Linked

(* A close arrives at the opener, who has not closed yet and answers it.    *)
LEMMA LinkAnswersClose ==
    ASSUME NEW c, NEW s, NEW A, NEW B, Ends(c, s, A, B), NEW h \in B, h.t = "close", \A b \in B : b = h,
           NEW n, n.id = c.id, n.remote = c.remote, n.st = c.st, n.shut = "closed",
           c.shut = "no", NEW m, m.t = "close", m.to = c.remote
    PROVE  Linked(n, s, A \cup {m}, B \ {h})
<1>1. Linked(n, s, A, B \ {h})
  BY LinkClosed
<1>2. s.st = "open" /\ c.st \in {"opening", "confirmed", "open"}
  BY DEF Ends, Linked, ToOpener
<1>3. c.st # "opening"
  BY <1>2 DEF Ends, Linked, ConfirmComes
<1>4. c.remote = s.id /\ s.shut # "closed"
  BY <1>2, <1>3 DEF Ends, Linked, EndsOK
<1>5. ToAcceptor(m, n, s)
  BY <1>2, <1>3, <1>4 DEF ToAcceptor
<1> QED BY <1>1, <1>5 DEF Linked

(* The answer to its close arrives at the other end.                        *)
LEMMA LinkFarClosed ==
    ASSUME NEW c, NEW s, NEW A, NEW B, Ends(c, s, A, B), NEW h \in A, h.t = "close", \A a \in A : a = h,
           NEW n, n.id = s.id, n.remote = s.remote, n.st = s.st, n.shut = "closed"
    PROVE  Linked(c, n, A \ {h}, B) /\ (s.shut = "no" => \A b \in B : b.t # "close")
<1>1. s.st = "open" /\ c.shut # "no" /\ c.st \in {"confirmed", "open"} /\ s.remote = c.id
  BY DEF Ends, Linked, ToAcceptor, EndsOK
<1>2. EndsOK(c, n) /\ ConfirmComes(c, n, B)
  BY <1>1 DEF Ends, Linked, EndsOK, ConfirmComes
<1>3. \A b \in B : ToOpener(b, c, n)
  BY DEF Ends, Linked, ToOpener
<1>4. s.shut = "no" => \A b \in B : b.t # "close"
  BY DEF Ends, Linked, ToOpener
<1>5. A \ {h} = {}
  OBVIOUS
<1> QED BY <1>2, <1>3, <1>4, <1>5 DEF Linked

(* A close arrives at the other end, which has not closed yet and answers   *)
(* it.                                                                      *)
LEMMA LinkFarAnswersClose ==
    ASSUME NEW c, NEW s, NEW A, NEW B, Ends(c, s, A, B), NEW h \in A, h.t = "close", \A a \in A : a = h,
           NEW n, n.id = s.id, n.remote = s.remote, n.st = s.st, n.shut = "closed",
           s.shut = "no", NEW m, m.t = "close", m.to = s.remote
    PROVE  Linked(c, n, A \ {h}, B \cup {m})
<1>1. Linked(c, n, A \ {h}, B)
  BY LinkFarClosed
<1>2. s.st = "open" /\ c.st \in {"confirmed", "open"} /\ s.remote = c.id /\ c.shut # "closed"
  BY DEF Ends, Linked, ToAcceptor, EndsOK
<1>3. ToOpener(m, c, n)
  BY <1>2 DEF ToOpener
<1>4. ConfirmComes(c, n, B \cup {m})
  BY <1>2 DEF ConfirmComes
<1> QED BY <1>1, <1>3, <1>4 DEF Linked

(* Requests and replies.                                                    *)
LEMMA LinkAsks ==
    ASSUME NEW c, NEW s, NEW A, NEW B, Ends(c, s, A, B), c.st = "open", c.shut = "no",
           NEW m, m.t = "req", m.to = c.remote
    PROVE  (\A a \in A : a.t # "close") /\ Linked(c, s, A \cup {m}, B)
<1>1. s.st = "open" /\ c.remote = s.id /\ s.shut # "closed"
  BY DEF Ends, Linked, EndsOK, AcceptStates
<1>2. \A a \in A : a.t # "close"
  BY DEF Ends, Linked, ToAcceptor
<1>3. ToAcceptor(m, c, s)
  BY <1>1 DEF ToAcceptor
<1> QED BY <1>2, <1>3 DEF Ends, Linked

(* The other end replies to a request.                                      *)
LEMMA LinkAnswers ==
    ASSUME NEW c, NEW s, NEW A, NEW B, Ends(c, s, A, B), c.st = "open", s.shut = "no",
           NEW m, m.t = "reply", m.to = s.remote
    PROVE  (\A b \in B : b.t # "close") /\ Linked(c, s, A, B \cup {m})
<1>1. s.st = "open" /\ s.remote = c.id /\ c.shut # "closed"
  BY DEF Ends, Linked, EndsOK, AcceptStates
<1>2. \A b \in B : b.t # "close"
  BY DEF Ends, Linked, ToOpener
<1>3. ToOpener(m, c, s)
  BY <1>1 DEF ToOpener
<1>4. ConfirmComes(c, s, B \cup {m})
  BY DEF ConfirmComes
<1> QED BY <1>2, <1>3, <1>4 DEF Ends, Linked

(* A request or a reply is taken.                                           *)
LEMMA LinkLoses ==
    ASSUME NEW c, NEW s, NEW A, NEW B, Ends(c, s, A, B), NEW h, h.t # "confirm"
    PROVE  Linked(c, s, A \ {h}, B) /\ Linked(c, s, A, B \ {h})
<1>1. ConfirmComes(c, s, B \ {h})
  BY DEF Ends, Linked, ConfirmComes
<1> QED BY <1>1 DEF Ends, Linked

------------------------------------------------------------------------------
(* What a step about one name has to show.                                  *)

OneName(x) ==
    /\ \A p \in MuxSides, y \in Opens : y # x => mCh'[p][y] = mCh[p][y]
    /\ \A p \in MuxSides, y \in MuxNames : y # x => mReq'[p][y] = mReq[p][y] /\ mMsg'[p][y] = mMsg[p][y]
    /\ \A r \in MuxSides : \A y : y # x => About(r, y)' = About(r, y)
    /\ \A k \in Callers : Target[k] # x => mCall'[k] = mCall[k]
    /\ mLoop' = mLoop /\ mUp' = mUp /\ (mUp = "down" => mWire' = mWire)

(* A step about one name keeps what is known of the others.                 *)
LEMMA OneNameKept ==
    ASSUME MuxInv, NEW x \in MuxNames, OneName(x), NameInv(x)', MuxShape', ListInv', LiveInv', OrderInv'
    PROVE  MuxInv'
<1>1. ASSUME NEW y \in MuxNames, y # x PROVE NameInv(y)'
  <2>1. SameAt(y)
    BY <1>1 DEF SameAt, OneName
  <2>2. NameInv(y)
    BY DEF MuxInv
  <2> QED BY <2>1, <2>2, SameKept
<1>2. UpInv'
  BY DEF MuxInv, UpInv, OneName
<1> QED BY <1>1, <1>2 DEF MuxInv

(* The names of channels.                                                   *)
LEMMA OpenName ==
    ASSUME NEW o \in Opens, LinkInv(o)', CallInv(o)'
    PROVE  NameInv(o)'
<1>1. o # Global
  BY MuxConstants DEF Global
<1> QED BY <1>1 DEF NameInv

(* While the transport is up the two ends of a channel are linked.          *)
LEMMA EndsUp ==
    ASSUME MuxInv, NEW o \in Opens
    PROVE  /\ mUp = "up" => Ends(mCh[Asker(o)][o], mCh[Server(o)][o], About(Asker(o), o), About(Server(o), o))
           /\ mCh[Asker(o)][o] \in MuxChans /\ mCh[Server(o)][o] \in MuxChans
           /\ mCh[Asker(o)][o].st \in OpenStates /\ mCh[Server(o)][o].st \in AcceptStates
           /\ Answered(mCh[Asker(o)][o].st, mMsg[Asker(o)][o]) /\ CallInv(o)
           /\ o \in MuxNames /\ o # Global
<1>1. o \in MuxNames /\ o # Global
  BY MuxConstants DEF MuxNames, Global
<1>2. Asker(o) \in MuxSides /\ Server(o) \in MuxSides
  BY <1>1, AskerIs
<1>3. LinkInv(o) /\ CallInv(o)
  BY <1>1 DEF MuxInv, NameInv
<1>4. mCh[Asker(o)][o] \in MuxChans /\ mCh[Server(o)][o] \in MuxChans
  BY <1>2 DEF MuxInv, MuxShape, ChTyped
<1> QED BY <1>1, <1>3, <1>4 DEF LinkInv, Ends

(* mux.sendMessage, while the transport is up and after it.                 *)
LEMMA WiredUp ==
    ASSUME mWire \in [MuxSides -> Seq(MuxPackets)], NEW p \in MuxSides, NEW m \in MuxPackets,
           mWire' = [mWire EXCEPT ![p] = Append(@, m)]
    PROVE  Grows(p, m) /\ Still(Peer(p)) /\ mWire' \in [MuxSides -> Seq(MuxPackets)]
<1>1. Peer(p) \in MuxSides /\ Peer(p) # p
  BY Peers
<1> QED BY <1>1 DEF Grows, Still

(* Calls are not touched.                                                   *)
CallsStay(x) ==
    /\ Ready(x)' <=> Ready(x)
    /\ \A p \in MuxSides : mReq'[p][x] = mReq[p][x]
    /\ mMsg'[Server(x)][x] = mMsg[Server(x)][x]
    /\ mCall' = mCall
    /\ Ready(x) =>
         /\ Requests(x)' \subseteq Requests(x) /\ Replies(x)' \subseteq Replies(x) /\ Answer(x)' = Answer(x)
         /\ Over(x) => Over(x)'

(* Calls and their answers where no request or reply is sent.               *)
LEMMA CallKept ==
    ASSUME NEW x \in MuxNames, CallInv(x), CallsStay(x)
    PROVE  CallInv(x)'
<1>1. Asker(x) \in MuxSides /\ Server(x) \in MuxSides
  BY AskerIs
<1>2. Waiting(x)' = Waiting(x)
  BY DEF Waiting, CallsOf, CallsStay
<1>3. Ready(x) => Awaited(x) \subseteq Awaited(x)'
  BY DEF Awaited, CallsOf, CallsStay
<1>4. mReq'[Asker(x)][x] = <<>> /\ mMsg'[Server(x)][x] = <<>> /\ Served(x)' = Served(x)
  BY <1>1 DEF CallInv, CallsStay, Served
<1>5. ASSUME Ready(x)
      PROVE Tokens(Waiting(x), Awaited(x), Requests(x), Served(x), Replies(x), Answer(x))'
  <2>1. Tokens(Waiting(x), Awaited(x), Requests(x), Served(x), Replies(x), Answer(x))
    BY <1>5 DEF CallInv
  <2>2. Requests(x)' \subseteq Requests(x) /\ Replies(x)' \subseteq Replies(x) /\ Answer(x)' = Answer(x)
    BY <1>5 DEF CallsStay
  <2>3. OnePlace(Requests(x), Served(x), Replies(x), Answer(x))'
    <3>1. OnePlace(Requests(x), Served(x), Replies(x), Answer(x))
      BY <2>1 DEF Tokens
    <3> QED BY <1>4, <2>2, <3>1 DEF OnePlace
  <2> QED BY <1>2, <1>3, <1>4, <1>5, <2>1, <2>2, <2>3 DEF Tokens
<1> QED BY <1>2, <1>4, <1>5 DEF CallInv, CallsStay

(* The ends and the packets change, the calls do not.                       *)
LEMMA ReadyIs ==
    ASSUME NEW o \in Opens
    PROVE  /\ Ready(o) <=> mCh[Asker(o)][o].st = "open"
           /\ Over(o) <=> mCh[Asker(o)][o].shut = "closed"
           /\ (Ready(o))' <=> mCh'[Asker(o)][o].st = "open"
           /\ (Over(o))' <=> mCh'[Asker(o)][o].shut = "closed"
<1>1. o # Global
  BY MuxConstants DEF Global
<1> QED BY <1>1 DEF Ready, Over, Asker

------------------------------------------------------------------------------
(* The actions.                                                             *)

(* OpenChannel.                                                             *)
LEMMA OpenChannelKeeps ==
    ASSUME MuxInv, NEW o \in Opens, OpenChannel(o)
    PROVE  MuxInv'
<1>1. PICK p : p = Asker(o)
  OBVIOUS
<1>2. o \in MuxNames /\ p = Opener[o] /\ p \in MuxSides /\ Server(o) = Peer(p) /\ Server(o) \in MuxSides /\ Server(o) # p
  BY <1>1, EndsUp, AskerIs
<1>3. PICK c : c = mCh[p][o]
  OBVIOUS
<1>4. PICK slot : slot = SlotFor(p)
  OBVIOUS
<1>5. PICK n : n = [st |-> IF mUp = "up" THEN "opening" ELSE "failed", id |-> slot - 1, remote |-> 0, shut |-> "no"]
  OBVIOUS
<1>6. /\ c.st = "none" /\ mList' = [mList EXCEPT ![p] = Added(p, o)] /\ mCh' = [mCh EXCEPT ![p][o] = n]
      /\ mReq' = mReq /\ mMsg' = mMsg /\ mCall' = mCall /\ mLoop' = mLoop /\ mUp' = mUp /\ mPlan' = mPlan
      /\ mWire' = Wired(p, [t |-> "open", tag |-> 0, o |-> o, to |-> 0, my |-> slot - 1])
  BY <1>2, <1>3, <1>4, <1>5 DEF OpenChannel
<1>7. ListTyped /\ ChTyped /\ ListInv /\ LiveInv /\ OrderInv /\ mWire \in [MuxSides -> Seq(MuxPackets)] /\ mUp \in {"up", "down"}
  BY DEF MuxInv, MuxShape
<1>8. ListTyped' /\ SetsSlot(p, slot, o) /\ slot \in Slots /\ SlotAt(p, slot) = NoOpen
  BY <1>2, <1>4, <1>6, <1>7, AddsOne
<1>9. slot - 1 \in Ids
  BY <1>2, <1>3, <1>4, <1>6, <1>7, <1>8, IdFits
<1>10. n \in MuxChans
  BY <1>5, <1>9, IdsAre DEF MuxChans, OpenStates
<1>11. ChanSet(p, o, n)
  BY <1>2, <1>6, <1>7, <1>10, SetsChan
<1>12. n.id = slot - 1 /\ n.shut = "no" /\ n.st # "none" /\ (n.st \in Gone => mUp = "down")
  BY <1>5, <1>7 DEF Gone
<1>13. ListInv' /\ LiveInv'
  BY <1>2, <1>3, <1>6, <1>7, <1>8, <1>11, <1>12, ListAdds
<1>14. mCh'[p][o] = n /\ mCh'[Server(o)][o] = mCh[Server(o)][o]
  BY <1>2, <1>11 DEF ChanSet
<1>15. Ready(o)' <=> Ready(o)
  <2>1. n.st # "open"
    BY <1>5
  <2> QED BY <1>1, <1>3, <1>6, <1>14, <2>1, ReadyIs
<1>16. CallsStay(o)
  <2>1. ~Ready(o)
    BY <1>1, <1>3, <1>6, ReadyIs
  <2> QED BY <1>6, <1>15, <2>1 DEF CallsStay
<1>17. CallInv(o)'
  BY <1>2, <1>16, CallKept, EndsUp
<1>18. MuxShape'
  <2>1. ChTyped'
    BY <1>11 DEF ChanSet
  <2>2. mWire' \in [MuxSides -> Seq(MuxPackets)]
    <3>1. CASE mUp = "up"
      <4>1. PICK m : m = [t |-> "open", tag |-> 0, o |-> o, to |-> 0, my |-> slot - 1]
        OBVIOUS
      <4>2. m \in MuxPackets
        BY <1>2, <1>9, <4>1, IdsAre DEF MuxPackets
      <4> QED BY <1>2, <1>6, <1>7, <3>1, <4>1, <4>2, WiredUp DEF Wired
    <3>2. CASE mUp # "up"
      BY <1>6, <1>7, <3>2 DEF Wired
    <3> QED BY <3>1, <3>2
  <2> QED BY <1>6, <1>8, <2>1, <2>2 DEF MuxInv, MuxShape
<1>19. OrderInv' /\ LinkInv(o)' /\ OneName(o)
  <2>1. \A q \in MuxSides, y \in Opens : y # o => mCh'[q][y] = mCh[q][y]
    BY <1>11 DEF ChanSet
  <2>2. n.st \in OpenStates /\ Answered(n.st, mMsg'[p][o])
    <3>1. Answered(c.st, mMsg[p][o])
      BY <1>1, <1>3, EndsUp
    <3> QED BY <1>5, <1>6, <3>1 DEF Answered, OpenStates
  <2>3. mCh'[Server(o)][o].st \in AcceptStates
    BY <1>14, EndsUp
  <2>4. CASE mUp = "up"
    <3>1. PICK m : m = [t |-> "open", tag |-> 0, o |-> o, to |-> 0, my |-> slot - 1]
      OBVIOUS
    <3>2. m \in MuxPackets /\ m.o = o /\ m.t = "open" /\ m.my = n.id
      BY <1>2, <1>5, <1>9, <3>1, IdsAre DEF MuxPackets
    <3>3. Grows(p, m) /\ Still(Peer(p))
      BY <1>2, <1>6, <1>7, <2>4, <3>1, <3>2, WiredUp DEF Wired
    <3>4. n.st = "opening"
      BY <1>5, <2>4
    <3>5. Ends(c, mCh[Server(o)][o], About(p, o), About(Server(o), o))
      BY <1>1, <1>3, <2>4, EndsUp
    <3>6. About(p, o) = {} /\ Linked(n, mCh[Server(o)][o], About(p, o) \cup {m}, About(Server(o), o))
      BY <1>6, <1>12, <3>2, <3>4, <3>5, LinkOpens
    <3>7. Sent(p, m)
      BY <1>2, <1>7, <3>2, <3>3, <3>6, Sends
    <3>8. OrderInv' /\ About(p, o)' = About(p, o) \cup {m} /\ AboutStays(p, o)
      BY <3>2, <3>7 DEF Sent
    <3>9. About(Server(o), o)' = About(Server(o), o) /\ \A r \in MuxSides : \A y : y # o => About(r, y)' = About(r, y)
      BY <1>2, <3>8 DEF AboutStays
    <3>10. LinkInv(o)'
      BY <1>1, <1>14, <2>2, <2>3, <3>6, <3>8, <3>9 DEF LinkInv
    <3>11. OneName(o)
      BY <1>6, <2>1, <2>4, <3>9 DEF OneName
    <3> QED BY <3>8, <3>10, <3>11
  <2>5. CASE mUp # "up"
    <3>1. mWire' = mWire
      BY <1>6, <2>5 DEF Wired
    <3>2. Silent
      BY <1>7, <3>1, StaysSilent
    <3>3. OneName(o)
      BY <1>6, <2>1, <3>1, <3>2 DEF OneName, Silent
    <3>4. LinkInv(o)'
      BY <1>1, <1>6, <1>14, <2>2, <2>3, <2>5 DEF LinkInv
    <3> QED BY <3>2, <3>3, <3>4 DEF Silent
  <2> QED BY <2>4, <2>5
<1> QED BY <1>2, <1>13, <1>17, <1>18, <1>19, OneNameKept, OpenName

(* channel.sendMessage: nothing is sent after the close.                    *)
LEMMA ChanWiredIs ==
    ASSUME MuxInv, NEW p \in MuxSides, NEW o \in Opens, NEW t \in ChanTypes, NEW tag \in Callers \cup {0},
           mWire' = ChanWired(p, o, [t |-> t, tag |-> tag])
    PROVE  \E m \in MuxPackets :
             /\ m.t = t /\ m.tag = tag /\ m.o = o /\ m.to = mCh[p][o].remote /\ m.my = mCh[p][o].id
             /\ (mUp = "up" /\ mCh[p][o].shut = "no") => (Grows(p, m) /\ Still(Peer(p)))
             /\ ~(mUp = "up" /\ mCh[p][o].shut = "no") => mWire' = mWire
             /\ mWire' \in [MuxSides -> Seq(MuxPackets)]
<1>1. PICK m : m = [t |-> t, tag |-> tag, o |-> o, to |-> mCh[p][o].remote, my |-> mCh[p][o].id]
  OBVIOUS
<1>2. mCh[p][o] \in MuxChans /\ mWire \in [MuxSides -> Seq(MuxPackets)]
  BY DEF MuxInv, MuxShape, ChTyped
<1>3. m \in MuxPackets
  BY <1>1, <1>2 DEF MuxPackets, MuxChans, MuxNames, ChanTypes
<1>4. m.t = t /\ m.tag = tag /\ m.o = o /\ m.to = mCh[p][o].remote /\ m.my = mCh[p][o].id
  BY <1>1
<1>5. mWire' = IF mCh[p][o].shut = "no" THEN Wired(p, m) ELSE mWire
  BY <1>1 DEF ChanWired
<1>6. CASE mUp = "up" /\ mCh[p][o].shut = "no"
  <2>1. mWire' = [mWire EXCEPT ![p] = Append(@, m)]
    BY <1>5, <1>6 DEF Wired
  <2>2. Grows(p, m) /\ Still(Peer(p)) /\ mWire' \in [MuxSides -> Seq(MuxPackets)]
    BY <1>2, <1>3, <2>1, WiredUp
  <2> QED BY <1>3, <1>4, <1>6, <2>2
<1>7. CASE ~(mUp = "up" /\ mCh[p][o].shut = "no")
  <2>1. mWire' = mWire
    BY <1>5, <1>7 DEF Wired
  <2> QED BY <1>2, <1>3, <1>4, <1>7, <2>1
<1> QED BY <1>6, <1>7

(* An end that changes, with no packet and no call of another kind.         *)
LEMMA EndKeeps ==
    ASSUME MuxInv, NEW p \in MuxSides, NEW o \in Opens, NEW n, ChanSet(p, o, n),
           ListTyped', ListInv', LiveInv', OrderInv', mWire' \in [MuxSides -> Seq(MuxPackets)],
           mReq' = mReq, mMsg' = mMsg, mCall' = mCall, mLoop' = mLoop, mUp' = mUp, mPlan' = mPlan,
           mUp = "down" => mWire' = mWire,
           \A r \in MuxSides : \A y : y # o => About(r, y)' = About(r, y),
           p = Asker(o) => n.st \in OpenStates /\ Answered(n.st, mMsg[p][o]),
           p = Server(o) => n.st \in AcceptStates,
           mUp = "up" => Linked(mCh[Asker(o)][o], mCh[Server(o)][o], About(Asker(o), o), About(Server(o), o))',
           (p = Asker(o) /\ mCh[p][o].st = "open") => (mCh[p][o].shut = "closed" => n.shut = "closed"),
           p = Asker(o) => (n.st = "open" <=> mCh[p][o].st = "open"),
           mCh[Asker(o)][o].st = "open" => (Requests(o)' \subseteq Requests(o) /\ Replies(o)' \subseteq Replies(o))
    PROVE  MuxInv'
<1>1. o \in MuxNames /\ Asker(o) \in MuxSides /\ Server(o) \in MuxSides /\ Asker(o) # Server(o)
  BY EndsUp, AskerIs
<1>2. mCh'[p][o] = n /\ \A q \in MuxSides, y \in Opens : (q # p \/ y # o) => mCh'[q][y] = mCh[q][y]
  BY DEF ChanSet
<1>3. /\ mCh[Asker(o)][o].st \in OpenStates /\ mCh[Server(o)][o].st \in AcceptStates
      /\ Answered(mCh[Asker(o)][o].st, mMsg[Asker(o)][o]) /\ CallInv(o)
  BY EndsUp
<1>4. p = Asker(o) \/ p = Server(o)
  BY <1>1, AskerIs
<1>5. PICK a : a = Asker(o)
  OBVIOUS
<1>6. PICK b : b = Server(o)
  OBVIOUS
<1>7. mCh'[a][o].st \in OpenStates /\ Answered(mCh'[a][o].st, mMsg[a][o])
  BY <1>1, <1>2, <1>3, <1>5
<1>8. mCh'[b][o].st \in AcceptStates
  BY <1>1, <1>2, <1>3, <1>6
<1>9. LinkInv(o)'
  BY <1>5, <1>6, <1>7, <1>8 DEF LinkInv
<1>10. (Ready(o)' <=> Ready(o)) /\ (Ready(o) => (Over(o) => Over(o)'))
  <2>1. mCh'[a][o].st = "open" <=> mCh[a][o].st = "open"
    BY <1>1, <1>2, <1>5
  <2>2. mCh[a][o].st = "open" => (mCh[a][o].shut = "closed" => mCh'[a][o].shut = "closed")
    BY <1>1, <1>2, <1>5
  <2> QED BY <1>5, <2>1, <2>2, ReadyIs
<1>11. CallsStay(o)
  <2>1. Answer(o)' = Answer(o)
    BY DEF Answer
  <2>2. Ready(o) => (Requests(o)' \subseteq Requests(o) /\ Replies(o)' \subseteq Replies(o))
    BY ReadyIs
  <2> QED BY <1>10, <2>1, <2>2 DEF CallsStay
<1>12. CallInv(o)'
  BY <1>1, <1>3, <1>11, CallKept
<1>13. OneName(o)
  BY <1>2 DEF OneName
<1>14. MuxShape'
  BY DEF MuxInv, MuxShape, ChanSet
<1> QED BY <1>1, <1>9, <1>12, <1>13, <1>14, OneNameKept, OpenName

(* Neither a request nor a reply comes with a packet of another kind.       *)
LEMMA NoCalls ==
    ASSUME NEW o \in Opens, NEW p \in MuxSides, NEW m, m.t \notin {"req", "greq", "reply", "greply"},
           About(p, o)' \subseteq About(p, o) \cup {m}, About(Peer(p), o)' \subseteq About(Peer(p), o)
    PROVE  Requests(o)' \subseteq Requests(o) /\ Replies(o)' \subseteq Replies(o)
<1>1. \A q \in MuxSides : About(q, o)' \subseteq About(q, o) \cup {m}
  BY Peers
<1>2. Asker(o) \in MuxSides /\ Server(o) \in MuxSides
  BY AskerIs DEF MuxNames
<1>3. PICK a : a = Asker(o)
  OBVIOUS
<1>4. PICK b : b = Server(o)
  OBVIOUS
<1>5. About(a, o)' \subseteq About(a, o) \cup {m} /\ About(b, o)' \subseteq About(b, o) \cup {m}
  BY <1>1, <1>2, <1>3, <1>4
<1>6. Requests(o) = {x \in About(a, o) : x.t \in {"req", "greq"}} /\ Requests(o)' = {x \in About(a, o)' : x.t \in {"req", "greq"}}
  BY <1>3 DEF Requests
<1>7. Replies(o) = {x \in About(b, o) : x.t \in {"reply", "greply"}} /\ Replies(o)' = {x \in About(b, o)' : x.t \in {"reply", "greply"}}
  BY <1>4 DEF Replies
<1> QED BY <1>5, <1>6, <1>7

(* Where nothing is sent, no request or reply is.                           *)
LEMMA Silence ==
    ASSUME NEW o \in Opens, Silent
    PROVE  Requests(o)' \subseteq Requests(o) /\ Replies(o)' \subseteq Replies(o)
<1>1. Asker(o) \in MuxSides /\ Server(o) \in MuxSides
  BY AskerIs DEF MuxNames
<1>2. PICK a : a = Asker(o)
  OBVIOUS
<1>3. PICK b : b = Server(o)
  OBVIOUS
<1>4. About(a, o)' = About(a, o) /\ About(b, o)' = About(b, o)
  BY <1>1, <1>2, <1>3 DEF Silent
<1> QED BY <1>2, <1>3, <1>4 DEF Requests, Replies

(* What is the same in these steps, and what the new end n must be.         *)
EndStep(p, o, n) ==
    /\ ChanSet(p, o, n) /\ ListTyped' /\ ListInv' /\ LiveInv'
    /\ mReq' = mReq /\ mMsg' = mMsg /\ mCall' = mCall /\ mLoop' = mLoop /\ mUp' = mUp /\ mPlan' = mPlan
    /\ p = Asker(o) => n.st \in OpenStates /\ Answered(n.st, mMsg[p][o])
    /\ p = Server(o) => n.st \in AcceptStates
    /\ (p = Asker(o) /\ mCh[p][o].st = "open") => (mCh[p][o].shut = "closed" => n.shut = "closed")
    /\ p = Asker(o) => (n.st = "open" <=> mCh[p][o].st = "open")

(* An end changes and sends a packet.                                       *)
LEMMA EndSends ==
    ASSUME MuxInv, NEW p \in MuxSides, NEW o \in Opens, NEW n, EndStep(p, o, n), mUp = "up",
           NEW m \in MuxPackets, Grows(p, m), Still(Peer(p)), mWire' \in [MuxSides -> Seq(MuxPackets)],
           m.o = o, m.t \notin {"req", "greq", "reply", "greply"},
           \A a \in About(p, o) : a.t # m.t /\ a.t # "close",
           p = Asker(o) => Linked(n, mCh[Server(o)][o], About(p, o) \cup {m}, About(Server(o), o)),
           p = Server(o) => Linked(mCh[Asker(o)][o], n, About(Asker(o), o), About(p, o) \cup {m})
    PROVE  MuxInv'
<1>1. /\ o \in MuxNames /\ Asker(o) \in MuxSides /\ Server(o) \in MuxSides /\ Asker(o) # Server(o)
      /\ Peer(Asker(o)) = Server(o) /\ Peer(Server(o)) = Asker(o) /\ (p = Asker(o) \/ p = Server(o))
  BY EndsUp, AskerIs
<1>2. OrderInv
  BY DEF MuxInv
<1>3. Sent(p, m)
  BY <1>2, Sends
<1>4. OrderInv' /\ About(p, o)' = About(p, o) \cup {m} /\ AboutStays(p, o)
  BY <1>3 DEF Sent
<1>5. Peer(p) \in MuxSides /\ Peer(p) # p
  BY Peers
<1>6. About(Peer(p), o)' = About(Peer(p), o) /\ \A r \in MuxSides : \A y : y # o => About(r, y)' = About(r, y)
  BY <1>4, <1>5 DEF AboutStays
<1>7. Requests(o)' \subseteq Requests(o) /\ Replies(o)' \subseteq Replies(o)
  BY <1>4, <1>6, NoCalls
<1>8. mCh'[p][o] = n /\ mCh'[Peer(p)][o] = mCh[Peer(p)][o]
  BY <1>5 DEF EndStep, ChanSet
<1>9. Linked(mCh[Asker(o)][o], mCh[Server(o)][o], About(Asker(o), o), About(Server(o), o))'
  <2>1. CASE p = Asker(o)
    BY <1>1, <1>4, <1>6, <1>8, <2>1
  <2>2. CASE p = Server(o)
    BY <1>1, <1>4, <1>6, <1>8, <2>2
  <2> QED BY <1>1, <2>1, <2>2
<1>10. ChanSet(p, o, n) /\ ListTyped' /\ ListInv' /\ LiveInv'
  BY DEF EndStep
<1>11. mReq' = mReq /\ mMsg' = mMsg /\ mCall' = mCall /\ mLoop' = mLoop /\ mUp' = mUp /\ mPlan' = mPlan
  BY DEF EndStep
<1>12. /\ p = Asker(o) => n.st \in OpenStates /\ Answered(n.st, mMsg[p][o])
       /\ p = Server(o) => n.st \in AcceptStates
       /\ (p = Asker(o) /\ mCh[p][o].st = "open") => (mCh[p][o].shut = "closed" => n.shut = "closed")
       /\ p = Asker(o) => (n.st = "open" <=> mCh[p][o].st = "open")
  BY DEF EndStep
<1> QED BY <1>4, <1>6, <1>7, <1>9, <1>10, <1>11, <1>12, EndKeeps

(* An end changes and sends nothing.                                        *)
LEMMA EndQuiet ==
    ASSUME MuxInv, NEW p \in MuxSides, NEW o \in Opens, NEW n, EndStep(p, o, n), mWire' = mWire,
           (mUp = "up" /\ p = Asker(o)) => Linked(n, mCh[Server(o)][o], About(p, o), About(Server(o), o)),
           (mUp = "up" /\ p = Server(o)) => Linked(mCh[Asker(o)][o], n, About(Asker(o), o), About(p, o))
    PROVE  MuxInv'
<1>1. /\ o \in MuxNames /\ Asker(o) \in MuxSides /\ Server(o) \in MuxSides /\ Asker(o) # Server(o)
      /\ Peer(Asker(o)) = Server(o) /\ Peer(Server(o)) = Asker(o) /\ (p = Asker(o) \/ p = Server(o))
  BY EndsUp, AskerIs
<1>2. OrderInv /\ mWire \in [MuxSides -> Seq(MuxPackets)]
  BY DEF MuxInv, MuxShape
<1>3. Silent
  BY <1>2, StaysSilent
<1>4. OrderInv' /\ \A r \in MuxSides : \A y : About(r, y)' = About(r, y)
  BY <1>3 DEF Silent
<1>5. Peer(p) \in MuxSides /\ Peer(p) # p
  BY Peers
<1>6. Requests(o)' \subseteq Requests(o) /\ Replies(o)' \subseteq Replies(o)
  BY <1>3, Silence
<1>7. mCh'[p][o] = n /\ mCh'[Peer(p)][o] = mCh[Peer(p)][o]
  BY <1>5 DEF EndStep, ChanSet
<1>8. mUp = "up" => Linked(mCh[Asker(o)][o], mCh[Server(o)][o], About(Asker(o), o), About(Server(o), o))'
  <2>1. CASE p = Asker(o)
    BY <1>1, <1>4, <1>7, <2>1
  <2>2. CASE p = Server(o)
    BY <1>1, <1>4, <1>7, <2>2
  <2> QED BY <1>1, <2>1, <2>2
<1>9. ChanSet(p, o, n) /\ ListTyped' /\ ListInv' /\ LiveInv'
  BY DEF EndStep
<1>10. mReq' = mReq /\ mMsg' = mMsg /\ mCall' = mCall /\ mLoop' = mLoop /\ mUp' = mUp /\ mPlan' = mPlan
  BY DEF EndStep
<1>11. /\ p = Asker(o) => n.st \in OpenStates /\ Answered(n.st, mMsg[p][o])
       /\ p = Server(o) => n.st \in AcceptStates
       /\ (p = Asker(o) /\ mCh[p][o].st = "open") => (mCh[p][o].shut = "closed" => n.shut = "closed")
       /\ p = Asker(o) => (n.st = "open" <=> mCh[p][o].st = "open")
  BY DEF EndStep
<1>12. mWire' \in [MuxSides -> Seq(MuxPackets)]
  BY <1>2
<1> QED BY <1>4, <1>6, <1>8, <1>9, <1>10, <1>11, <1>12, EndKeeps

(* Accept and Reject.                                                       *)
LEMMA DecideKeeps ==
    ASSUME MuxInv, NEW p \in MuxSides, NEW o \in Opens, NEW v, NEW t,
           (v = "open" /\ t = "confirm") \/ (v = "rejected" /\ t = "failure"),
           mCh[p][o].st = "offered", mCh' = [mCh EXCEPT ![p][o].st = v],
           mWire' = ChanWired(p, o, [t |-> t, tag |-> 0]),
           UNCHANGED <<mList, mReq, mMsg, mCall, mLoop, mUp, mPlan>>
    PROVE  MuxInv'
<1>1. /\ o \in MuxNames /\ Asker(o) \in MuxSides /\ Server(o) \in MuxSides /\ Asker(o) # Server(o)
      /\ Peer(Asker(o)) = Server(o) /\ (p = Asker(o) \/ p = Server(o))
  BY EndsUp, AskerIs
<1>2. mCh[Asker(o)][o].st # "offered"
  BY EndsUp DEF OpenStates
<1>3. p = Server(o) /\ p # Asker(o)
  BY <1>1, <1>2
<1>4. PICK s : s = mCh[p][o]
  OBVIOUS
<1>5. s \in MuxChans
  BY <1>3, <1>4, EndsUp
<1>6. PICK n : n = [s EXCEPT !.st = v]
  OBVIOUS
<1>7. n \in MuxChans /\ n.st = v /\ n.id = s.id /\ n.remote = s.remote /\ n.shut = s.shut
  BY <1>5, <1>6 DEF MuxChans, AcceptStates
<1>8. ListTyped /\ ChTyped /\ ListInv /\ LiveInv /\ mUp \in {"up", "down"}
  BY DEF MuxInv, MuxShape
<1>9. mCh' = [mCh EXCEPT ![p][o] = n]
  BY <1>4, <1>6
<1>10. ChanSet(p, o, n)
  BY <1>7, <1>8, <1>9, SetsChan
<1>11. ListInv' /\ LiveInv'
  <2>1. n.st # "none" /\ n.st \notin Gone /\ mCh[p][o].st \notin Gone /\ mCh[p][o].st # "none"
    BY <1>7 DEF Gone
  <2> QED BY <1>4, <1>7, <1>8, <1>10, <2>1, ListKept
<1>12. EndStep(p, o, n)
  <2>1. n.st \in AcceptStates
    BY <1>7 DEF AcceptStates
  <2>2. ListTyped'
    BY <1>8 DEF ListTyped
  <2> QED BY <1>3, <1>10, <1>11, <2>1, <2>2 DEF EndStep
<1>13. t \in ChanTypes
  BY DEF ChanTypes
<1>14. PICK m \in MuxPackets :
             /\ m.t = t /\ m.tag = 0 /\ m.o = o /\ m.to = s.remote /\ m.my = s.id
             /\ (mUp = "up" /\ s.shut = "no") => (Grows(p, m) /\ Still(Peer(p)))
             /\ ~(mUp = "up" /\ s.shut = "no") => mWire' = mWire
             /\ mWire' \in [MuxSides -> Seq(MuxPackets)]
  BY <1>4, <1>13, ChanWiredIs
<1>15. CASE mUp = "up"
  <2>1. Ends(mCh[Asker(o)][o], s, About(Asker(o), o), About(p, o))
    BY <1>3, <1>4, <1>15, EndsUp
  <2>2. /\ About(p, o) = {} /\ s.shut = "no"
        /\ Linked(mCh[Asker(o)][o], n, About(Asker(o), o), About(p, o) \cup {m})
    <3>1. s.st = "offered" /\ ((n.st = "open" /\ m.t = "confirm") \/ (n.st = "rejected" /\ m.t = "failure"))
      BY <1>4, <1>7, <1>14
    <3>2. n.id = s.id /\ n.remote = s.remote /\ n.shut = s.shut /\ m.to = s.remote /\ m.my = s.id
      BY <1>7, <1>14
    <3> QED BY <2>1, <3>1, <3>2, LinkDecides
  <2>3. m.t \notin {"req", "greq", "reply", "greply"}
    BY <1>14
  <2> QED BY <1>3, <1>12, <1>14, <1>15, <2>2, <2>3, EndSends
<1>16. CASE mUp # "up"
  BY <1>12, <1>14, <1>16, EndQuiet
<1> QED BY <1>15, <1>16

(* Close.                                                                   *)
LEMMA MuxCloseKeeps ==
    ASSUME MuxInv, NEW p \in MuxSides, NEW o \in Opens, MuxClose(p, o)
    PROVE  MuxInv'
<1>1. /\ o \in MuxNames /\ Asker(o) \in MuxSides /\ Server(o) \in MuxSides /\ Asker(o) # Server(o)
      /\ Peer(Asker(o)) = Server(o) /\ (p = Asker(o) \/ p = Server(o))
  BY EndsUp, AskerIs
<1>2. PICK s : s = mCh[p][o]
  OBVIOUS
<1>3. s \in MuxChans
  BY <1>1, <1>2, EndsUp
<1>4. PICK n : n = [s EXCEPT !.shut = "sent"]
  OBVIOUS
<1>5. n \in MuxChans /\ n.st = s.st /\ n.id = s.id /\ n.remote = s.remote /\ n.shut = "sent"
  BY <1>3, <1>4 DEF MuxChans
<1>6. ListTyped /\ ChTyped /\ ListInv /\ LiveInv /\ mUp \in {"up", "down"}
  BY DEF MuxInv, MuxShape
<1>7. /\ s.st = "open" /\ s.shut = "no" /\ mCh' = [mCh EXCEPT ![p][o].shut = "sent"]
      /\ mWire' = ChanWired(p, o, [t |-> "close", tag |-> 0])
      /\ UNCHANGED <<mList, mReq, mMsg, mCall, mLoop, mUp, mPlan>>
  BY <1>2 DEF MuxClose
<1>8. ChanSet(p, o, n)
  <2>1. mCh' = [mCh EXCEPT ![p][o] = n]
    BY <1>2, <1>4, <1>7
  <2> QED BY <1>5, <1>6, <2>1, SetsChan
<1>9. ListInv' /\ LiveInv'
  <2>1. n.st # "none" /\ n.st \notin Gone /\ mCh[p][o].st \notin Gone /\ mCh[p][o].st # "none"
    BY <1>2, <1>5, <1>7 DEF Gone
  <2>2. n.shut # "closed" /\ mCh[p][o].shut # "closed" /\ n.id = mCh[p][o].id
    BY <1>2, <1>5, <1>7
  <2> QED BY <1>6, <1>7, <1>8, <2>1, <2>2, ListKept
<1>10. EndStep(p, o, n)
  <2>1. n.st \in AcceptStates /\ n.st \in OpenStates /\ Answered(n.st, mMsg[p][o])
    BY <1>5, <1>7 DEF AcceptStates, OpenStates, Answered
  <2>2. ListTyped'
    BY <1>6, <1>7 DEF ListTyped
  <2> QED BY <1>2, <1>5, <1>7, <1>8, <1>9, <2>1, <2>2 DEF EndStep
<1>11. PICK m \in MuxPackets :
             /\ m.t = "close" /\ m.tag = 0 /\ m.o = o /\ m.to = s.remote /\ m.my = s.id
             /\ (mUp = "up" /\ s.shut = "no") => (Grows(p, m) /\ Still(Peer(p)))
             /\ ~(mUp = "up" /\ s.shut = "no") => mWire' = mWire
             /\ mWire' \in [MuxSides -> Seq(MuxPackets)]
  <2>1. "close" \in ChanTypes
    BY DEF ChanTypes
  <2> QED BY <1>2, <1>7, <2>1, ChanWiredIs
<1>12. m.t \notin {"req", "greq", "reply", "greply"}
  BY <1>11
<1>13. CASE mUp = "up" /\ p = Asker(o)
  <2>1. Ends(s, mCh[Server(o)][o], About(p, o), About(Server(o), o))
    BY <1>2, <1>13, EndsUp
  <2>2. (\A a \in About(p, o) : a.t # "close") /\ Linked(n, mCh[Server(o)][o], About(p, o) \cup {m}, About(Server(o), o))
    BY <1>5, <1>7, <1>11, <2>1, LinkCloses
  <2> QED BY <1>1, <1>7, <1>10, <1>11, <1>12, <1>13, <2>2, EndSends
<1>14. CASE mUp = "up" /\ p = Server(o)
  <2>1. Ends(mCh[Asker(o)][o], s, About(Asker(o), o), About(p, o))
    BY <1>2, <1>14, EndsUp
  <2>2. (\A a \in About(p, o) : a.t # "close") /\ Linked(mCh[Asker(o)][o], n, About(Asker(o), o), About(p, o) \cup {m})
    BY <1>5, <1>7, <1>11, <2>1, LinkFarCloses
  <2> QED BY <1>1, <1>7, <1>10, <1>11, <1>12, <1>14, <2>2, EndSends
<1>15. CASE mUp # "up"
  BY <1>10, <1>11, <1>15, EndQuiet
<1> QED BY <1>1, <1>13, <1>14, <1>15

(* Nothing is on the way when the transport is down.                        *)
LEMMA DownEmpty ==
    ASSUME MuxInv, mUp # "up", NEW q \in MuxSides, NEW x
    PROVE  About(q, x) = {}
<1>1. mWire[q] = <<>>
  BY DEF MuxInv, MuxShape, UpInv
<1>2. \A i \in 1..Len(mWire[q]) : FALSE
  BY <1>1
<1> QED BY <1>2 DEF About, Packets

(* A queue of one name changes.                                             *)
QueueSet(f, g, p, x, v) ==
    /\ g[p][x] = v
    /\ \A q \in MuxSides, y \in MuxNames : (q # p \/ y # x) => g[q][y] = f[q][y]

MsgTyped == mMsg \in [MuxSides -> [MuxNames -> Seq(Callers \cup MuxAnswers)]]
ReqTyped == mReq \in [MuxSides -> [MuxNames -> Seq(Callers)]]

(* One queue of answers changes.                                            *)
LEMMA SetsMsg ==
    ASSUME MsgTyped, NEW p \in MuxSides, NEW x \in MuxNames, NEW v \in Seq(Callers \cup MuxAnswers),
           mMsg' = [mMsg EXCEPT ![p][x] = v]
    PROVE  QueueSet(mMsg, mMsg', p, x, v) /\ MsgTyped'
<1>1. PICK S : S = Seq(Callers \cup MuxAnswers)
  OBVIOUS
<1>2. mMsg \in [MuxSides -> [MuxNames -> S]] /\ v \in S
  BY <1>1 DEF MsgTyped
<1>3. PICK h : h = [mMsg[p] EXCEPT ![x] = v]
  OBVIOUS
<1>4. mMsg' = [mMsg EXCEPT ![p] = h] /\ mMsg[p] \in [MuxNames -> S]
  BY <1>2, <1>3
<1>5. h \in [MuxNames -> S] /\ h[x] = v /\ \A y \in MuxNames : y # x => h[y] = mMsg[p][y]
  BY <1>2, <1>3, <1>4
<1>6. mMsg'[p] = h /\ mMsg' \in [MuxSides -> [MuxNames -> S]] /\ \A q \in MuxSides : q # p => mMsg'[q] = mMsg[q]
  BY <1>2, <1>4, <1>5
<1> QED BY <1>1, <1>5, <1>6 DEF MsgTyped, QueueSet

(* One queue of requests changes.                                           *)
LEMMA SetsReq ==
    ASSUME ReqTyped, NEW p \in MuxSides, NEW x \in MuxNames, NEW v \in Seq(Callers),
           mReq' = [mReq EXCEPT ![p][x] = v]
    PROVE  QueueSet(mReq, mReq', p, x, v) /\ ReqTyped'
<1>1. PICK S : S = Seq(Callers)
  OBVIOUS
<1>2. mReq \in [MuxSides -> [MuxNames -> S]] /\ v \in S
  BY <1>1 DEF ReqTyped
<1>3. PICK h : h = [mReq[p] EXCEPT ![x] = v]
  OBVIOUS
<1>4. mReq' = [mReq EXCEPT ![p] = h] /\ mReq[p] \in [MuxNames -> S]
  BY <1>2, <1>3
<1>5. h \in [MuxNames -> S] /\ h[x] = v /\ \A y \in MuxNames : y # x => h[y] = mReq[p][y]
  BY <1>2, <1>3, <1>4
<1>6. mReq'[p] = h /\ mReq' \in [MuxSides -> [MuxNames -> S]] /\ \A q \in MuxSides : q # p => mReq'[q] = mReq[q]
  BY <1>2, <1>4, <1>5
<1> QED BY <1>1, <1>5, <1>6 DEF ReqTyped, QueueSet

(* openChannel returns.                                                     *)
LEMMA OpenReturnsKeeps ==
    ASSUME MuxInv, NEW o \in Opens, OpenReturns(o)
    PROVE  MuxInv'
<1>1. PICK p : p = Asker(o)
  OBVIOUS
<1>2. /\ o \in MuxNames /\ o # Global /\ p = Opener[o] /\ p \in MuxSides /\ Server(o) \in MuxSides /\ Server(o) # p
  BY <1>1, EndsUp, AskerIs
<1>3. PICK c : c = mCh[p][o]
  OBVIOUS
<1>4. PICK msg : msg = mMsg[p][o]
  OBVIOUS
<1>5. c \in MuxChans /\ c.st \in OpenStates /\ Answered(c.st, msg) /\ CallInv(o)
  BY <1>1, <1>3, <1>4, EndsUp
<1>6. ListTyped /\ ChTyped /\ ListInv /\ LiveInv /\ OrderInv /\ mUp \in {"up", "down"}
  BY DEF MuxInv, MuxShape
<1>7. c.st \in {"opening", "confirmed", "refused"} /\ UNCHANGED <<mList, mWire, mReq, mCall, mLoop, mUp, mPlan>>
  BY <1>2, <1>3 DEF OpenReturns
<1>8. \/ /\ msg # <<>>
         /\ mMsg' = [mMsg EXCEPT ![p][o] = Tail(msg)]
         /\ mCh' = [mCh EXCEPT ![p][o].st = IF Head(msg) = "confirm" THEN "open" ELSE "failed"]
      \/ /\ msg = <<>> /\ c.shut = "closed" /\ mMsg' = mMsg
         /\ mCh' = [mCh EXCEPT ![p][o].st = "failed"]
  BY <1>2, <1>3, <1>4 DEF OpenReturns
<1>9. ListTyped'
  BY <1>6, <1>7 DEF ListTyped
<1>10. CASE /\ msg = <<>> /\ c.shut = "closed" /\ mMsg' = mMsg
            /\ mCh' = [mCh EXCEPT ![p][o].st = "failed"]
  <2>1. c.st = "opening"
    BY <1>5, <1>7, <1>10 DEF Answered
  <2>2. mUp # "up"
    <3>1. SUFFICES ASSUME mUp = "up" PROVE FALSE
      OBVIOUS
    <3>2. Ends(c, mCh[Server(o)][o], About(p, o), About(Server(o), o))
      BY <1>1, <1>3, <3>1, EndsUp
    <3> QED BY <1>10, <2>1, <3>2 DEF Ends, Linked, EndsOK
  <2>3. PICK n : n = [c EXCEPT !.st = "failed"]
    OBVIOUS
  <2>4. n \in MuxChans /\ n.st = "failed" /\ n.id = c.id /\ n.remote = c.remote /\ n.shut = c.shut
    BY <1>5, <2>3 DEF MuxChans, OpenStates
  <2>5. mCh' = [mCh EXCEPT ![p][o] = n]
    BY <1>3, <1>10, <2>3
  <2>6. ChanSet(p, o, n)
    BY <1>2, <1>6, <2>4, <2>5, SetsChan
  <2>7. ListInv' /\ LiveInv'
    <3>1. n.id = mCh[p][o].id /\ (n.shut = "closed" <=> mCh[p][o].shut = "closed") /\ n.st # "none" /\ mCh[p][o].st # "none"
      BY <1>3, <2>1, <2>4
    <3>2. mUp = "down" /\ mList' = mList /\ mUp' = mUp
      BY <1>6, <1>7, <2>2
    <3> QED BY <1>2, <1>6, <2>6, <3>1, <3>2, ListKept
  <2>8. n.st \in OpenStates /\ Answered(n.st, msg) /\ n.st # "open"
    BY <2>4 DEF OpenStates, Answered
  <2>9. EndStep(p, o, n)
    BY <1>1, <1>2, <1>3, <1>4, <1>7, <1>9, <1>10, <2>1, <2>6, <2>7, <2>8 DEF EndStep
  <2> QED BY <1>2, <1>7, <2>2, <2>9, EndQuiet
<1>11. CASE /\ msg # <<>>
            /\ mMsg' = [mMsg EXCEPT ![p][o] = Tail(msg)]
            /\ mCh' = [mCh EXCEPT ![p][o].st = IF Head(msg) = "confirm" THEN "open" ELSE "failed"]
  <2>1. PICK v : v = IF Head(msg) = "confirm" THEN "open" ELSE "failed"
    OBVIOUS
  <2>2. Tail(msg) = <<>> /\ ((c.st = "confirmed" /\ v = "open") \/ (c.st = "refused" /\ v = "failed"))
    <3>1. (c.st = "confirmed" /\ msg = <<"confirm">>) \/ (c.st = "refused" /\ msg = <<"failure">>)
      BY <1>5, <1>7, <1>11 DEF Answered
    <3>2. CASE c.st = "confirmed" /\ msg = <<"confirm">>
      BY <2>1, <3>2
    <3>3. CASE c.st = "refused" /\ msg = <<"failure">>
      BY <2>1, <3>3
    <3> QED BY <3>1, <3>2, <3>3
  <2>3. PICK n : n = [c EXCEPT !.st = v]
    OBVIOUS
  <2>4. n \in MuxChans /\ n.st = v /\ n.id = c.id /\ n.remote = c.remote /\ n.shut = c.shut
    BY <1>5, <2>2, <2>3 DEF MuxChans, OpenStates
  <2>5. mCh' = [mCh EXCEPT ![p][o] = n]
    BY <1>3, <1>11, <2>1, <2>3
  <2>6. ChanSet(p, o, n)
    BY <1>2, <1>6, <2>4, <2>5, SetsChan
  <2>7. ListInv' /\ LiveInv'
    <3>1. n.id = mCh[p][o].id /\ (n.shut = "closed" <=> mCh[p][o].shut = "closed") /\ n.st # "none" /\ mCh[p][o].st # "none"
      BY <1>3, <2>2, <2>4
    <3>2. n.st \in Gone <=> mCh[p][o].st \in Gone
      BY <1>3, <2>2, <2>4 DEF Gone
    <3>3. mList' = mList /\ mUp' = mUp
      BY <1>7
    <3> QED BY <1>2, <1>6, <2>6, <3>1, <3>2, <3>3, ListKept
  <2>8. QueueSet(mMsg, mMsg', p, o, <<>>) /\ MsgTyped'
    <3>1. <<>> \in Seq(Callers \cup MuxAnswers) /\ MsgTyped
      BY DEF MuxInv, MuxShape, MsgTyped
    <3>2. mMsg' = [mMsg EXCEPT ![p][o] = <<>>]
      BY <1>11, <2>2
    <3> QED BY <1>2, <3>1, <3>2, SetsMsg
  <2>9. MuxShape'
    BY <1>7, <1>9, <2>6, <2>8 DEF MuxInv, MuxShape, ChanSet, MsgTyped
  <2>10. Silent
    BY <1>6, <1>7, StaysSilent
  <2>11. mCh'[p][o] = n /\ mCh'[Server(o)][o] = mCh[Server(o)][o]
    BY <1>2, <2>6 DEF ChanSet
  <2>12. OneName(o)
    <3>1. \A q \in MuxSides, y \in Opens : y # o => mCh'[q][y] = mCh[q][y]
      BY <2>6 DEF ChanSet
    <3>2. \A q \in MuxSides, y \in MuxNames : y # o => mMsg'[q][y] = mMsg[q][y]
      BY <2>8 DEF QueueSet
    <3> QED BY <1>7, <2>10, <3>1, <3>2 DEF OneName, Silent
  <2>13. About(p, o)' = About(p, o) /\ About(Server(o), o)' = About(Server(o), o) /\ OrderInv'
    BY <1>2, <2>10 DEF Silent
  <2>14. mMsg'[p][o] = <<>> /\ mMsg'[Server(o)][o] = mMsg[Server(o)][o]
    BY <1>2, <2>8 DEF QueueSet
  <2>15. LinkInv(o)'
    <3>1. n.st \in OpenStates /\ Answered(n.st, <<>>)
      BY <2>2, <2>4 DEF OpenStates, Answered
    <3>2. mCh[Server(o)][o].st \in AcceptStates
      BY EndsUp
    <3>3. mUp = "up" => Linked(n, mCh[Server(o)][o], About(p, o), About(Server(o), o))
      <4>1. SUFFICES ASSUME mUp = "up" PROVE Linked(n, mCh[Server(o)][o], About(p, o), About(Server(o), o))
        OBVIOUS
      <4>2. Ends(c, mCh[Server(o)][o], About(p, o), About(Server(o), o))
        BY <1>1, <1>3, <4>1, EndsUp
      <4> QED BY <2>2, <2>4, <4>2, LinkReturns
    <3> QED BY <1>1, <1>7, <2>11, <2>13, <2>14, <3>1, <3>2, <3>3 DEF LinkInv
  <2>16. CallInv(o)'
    <3>1. ~Ready(o)
      BY <1>1, <1>3, <2>2, ReadyIs
    <3>2. Served(o) = <<>> /\ Waiting(o) = {} /\ mReq[p][o] = <<>> /\ mMsg[Server(o)][o] = <<>>
      BY <1>1, <1>5, <3>1 DEF CallInv
    <3>3. Served(o)' = <<>> /\ Waiting(o)' = {}
      BY <1>7, <3>2 DEF Served, Waiting, CallsOf
    <3>4. mReq'[p][o] = <<>> /\ mMsg'[Server(o)][o] = <<>> /\ Answer(o)' = <<>>
      BY <1>1, <1>7, <2>14, <3>2 DEF Answer
    <3>5. Requests(o) = {} /\ Replies(o) = {}
      <4>1. CASE mUp = "up"
        <5>1. Ends(c, mCh[Server(o)][o], About(p, o), About(Server(o), o))
          BY <1>1, <1>3, <4>1, EndsUp
        <5>2. \A m \in About(p, o) : m.t \notin {"req", "greq"}
          BY <2>2, <5>1 DEF Ends, Linked, ToAcceptor
        <5>3. \A m \in About(Server(o), o) : m.t \notin {"reply", "greply"}
          BY <2>2, <5>1 DEF Ends, Linked, ToOpener
        <5> QED BY <1>1, <5>2, <5>3 DEF Requests, Replies
      <4>2. CASE mUp # "up"
        <5>1. About(p, o) = {} /\ About(Server(o), o) = {}
          BY <1>2, <4>2, DownEmpty
        <5> QED BY <1>1, <5>1 DEF Requests, Replies
      <4> QED BY <4>1, <4>2
    <3>6. Requests(o)' = {} /\ Replies(o)' = {}
      BY <1>1, <2>13, <3>5 DEF Requests, Replies
    <3>7. Tokens(Waiting(o), Awaited(o), Requests(o), Served(o), Replies(o), Answer(o))'
      BY <3>3, <3>4, <3>6 DEF Tokens, OnePlace
    <3> QED BY <1>1, <3>3, <3>4, <3>7 DEF CallInv
  <2> QED BY <1>2, <2>7, <2>9, <2>12, <2>13, <2>15, <2>16, OneNameKept, OpenName
<1> QED BY <1>8, <1>10, <1>11

------------------------------------------------------------------------------
(* Requests and replies.                                                    *)

RequestOf(x) == IF x = Global THEN "greq" ELSE "req"
ReplyOf(x) == IF x = Global THEN "greply" ELSE "reply"

(* The connection's own requests are made by the server.                    *)
LEMMA SidesAre == Asker(Global) = "s" /\ Server(Global) = "c" /\ Global \in MuxNames /\ Global \notin Opens
<1>1. Asker(Global) = "s"
  BY DEF Asker
<1>2. Server(Global) = "c"
  BY <1>1, Peers DEF Server
<1> QED BY <1>1, <1>2, MuxConstants DEF MuxNames, Global

(* The packet about x that side p sends: request or reply.                  *)
Carries(p, x, t, tag, ok) ==
    \E m \in MuxPackets :
        /\ m.t = t /\ m.tag = tag /\ m.o = x /\ (x \in Opens => m.to = mCh[p][x].remote)
        /\ ok => Grows(p, m) /\ Still(Peer(p))
        /\ ~ok => mWire' = mWire
        /\ mWire' \in [MuxSides -> Seq(MuxPackets)]
CanSend(p, x) == mUp = "up" /\ (x = Global \/ mCh[p][x].shut = "no")

(* A request or a reply is sent.                                            *)
LEMMA CallPacket ==
    ASSUME MuxInv, NEW p \in MuxSides, NEW x \in MuxNames, NEW k \in Callers, NEW t, NEW gt,
           t \in {"req", "reply"}, gt \in {"greq", "greply"},
           mWire' = IF x = Global THEN Wired(p, [t |-> gt, tag |-> k, o |-> x, to |-> 0, my |-> 0])
                    ELSE ChanWired(p, x, [t |-> t, tag |-> k])
    PROVE  Carries(p, x, IF x = Global THEN gt ELSE t, k, CanSend(p, x))
<1>1. mWire \in [MuxSides -> Seq(MuxPackets)]
  BY DEF MuxInv, MuxShape
<1>2. CASE x = Global
  <2>1. PICK m : m = [t |-> gt, tag |-> k, o |-> x, to |-> 0, my |-> 0]
    OBVIOUS
  <2>2. m \in MuxPackets /\ m.t = gt /\ m.tag = k /\ m.o = x
    BY <2>1, IdsAre DEF MuxPackets
  <2>3. x \notin Opens
    BY <1>2, SidesAre
  <2>4. mWire' = Wired(p, m)
    BY <1>2, <2>1
  <2>5. CASE mUp = "up"
    <3>1. Grows(p, m) /\ Still(Peer(p)) /\ mWire' \in [MuxSides -> Seq(MuxPackets)]
      BY <1>1, <2>2, <2>4, <2>5, WiredUp DEF Wired
    <3> QED BY <1>2, <2>2, <2>3, <2>5, <3>1 DEF Carries, CanSend
  <2>6. CASE mUp # "up"
    <3>1. mWire' = mWire
      BY <2>4, <2>6 DEF Wired
    <3> QED BY <1>1, <1>2, <2>2, <2>3, <2>6, <3>1 DEF Carries, CanSend
  <2> QED BY <2>5, <2>6
<1>3. CASE x # Global
  <2>1. x \in Opens /\ t \in ChanTypes
    BY <1>3 DEF MuxNames, ChanTypes
  <2>2. mWire' = ChanWired(p, x, [t |-> t, tag |-> k])
    BY <1>3
  <2>3. PICK m \in MuxPackets :
             /\ m.t = t /\ m.tag = k /\ m.o = x /\ m.to = mCh[p][x].remote /\ m.my = mCh[p][x].id
             /\ (mUp = "up" /\ mCh[p][x].shut = "no") => (Grows(p, m) /\ Still(Peer(p)))
             /\ ~(mUp = "up" /\ mCh[p][x].shut = "no") => mWire' = mWire
             /\ mWire' \in [MuxSides -> Seq(MuxPackets)]
    BY <2>1, <2>2, ChanWiredIs
  <2> QED BY <1>3, <2>1, <2>3 DEF Carries, CanSend
<1> QED BY <1>2, <1>3

(* The ends stay as they are.                                               *)
LEMMA LinkSame ==
    ASSUME MuxInv, NEW o \in Opens, mCh' = mCh, mUp' = mUp,
           mUp = "up" => Linked(mCh[Asker(o)][o], mCh[Server(o)][o], About(Asker(o), o)', About(Server(o), o)'),
           mCh[Asker(o)][o].st = "open" \/ mMsg'[Asker(o)][o] = mMsg[Asker(o)][o]
    PROVE  LinkInv(o)'
<1>1. PICK a : a = Asker(o)
  OBVIOUS
<1>2. PICK b : b = Server(o)
  OBVIOUS
<1>3. mCh[a][o].st \in OpenStates /\ mCh[b][o].st \in AcceptStates /\ Answered(mCh[a][o].st, mMsg[a][o])
  BY <1>1, <1>2, EndsUp
<1>4. Answered(mCh[a][o].st, mMsg'[a][o])
  <2>1. CASE mCh[a][o].st = "open"
    BY <2>1 DEF Answered
  <2>2. CASE mMsg'[a][o] = mMsg[a][o]
    BY <1>3, <2>2
  <2> QED BY <1>1, <2>1, <2>2
<1> QED BY <1>1, <1>2, <1>3, <1>4 DEF LinkInv

(* The side of a call is the one that asks on its target.                   *)
LEMMA TargetIs ==
    ASSUME NEW k \in Callers
    PROVE  Target[k] \in MuxNames /\ CallSide(k) = Asker(Target[k]) /\ Asker(Target[k]) \in MuxSides
<1>1. Target[k] \in MuxNames
  BY MuxConstants DEF MuxNames, Global
<1>2. CallSide(k) = Asker(Target[k])
  BY DEF CallSide, Asker
<1> QED BY <1>1, <1>2, AskerIs

CallTyped == mCall \in [Callers -> {"new", "sent", "answered", "failed"}]
CallSet(k, v) == CallTyped' /\ mCall'[k] = v /\ \A j \in Callers : j # k => mCall'[j] = mCall[j]

(* One call changes.                                                        *)
LEMMA SetsCall ==
    ASSUME CallTyped, NEW k \in Callers, NEW v \in {"new", "sent", "answered", "failed"},
           mCall' = [mCall EXCEPT ![k] = v]
    PROVE  CallSet(k, v)
BY DEF CallTyped, CallSet

(* While the transport is up, a channel that may still send is not over for *)
(* its caller.                                                              *)
LEMMA NotOver ==
    ASSUME MuxInv, NEW x \in MuxNames, mUp = "up", x \in Opens => mCh[Asker(x)][x].shut # "closed"
    PROVE  ~Over(x)
<1>1. CASE x = Global
  <2>1. "s" \in MuxSides
    BY DEF MuxSides
  <2>2. mLoop["s"] = "run"
    BY <2>1 DEF MuxInv, UpInv
  <2> QED BY <1>1, <2>2 DEF Over
<1>2. CASE x # Global
  <2>1. x \in Opens
    BY <1>2 DEF MuxNames
  <2> QED BY <1>2, <2>1 DEF Over
<1> QED BY <1>1, <1>2

(* SendRequest.                                                             *)
LEMMA SendRequestKeeps ==
    ASSUME MuxInv, NEW k \in Callers, SendRequest(k)
    PROVE  MuxInv'
<1>1. PICK x : x = Target[k]
  OBVIOUS
<1>2. PICK p : p = Asker(x)
  OBVIOUS
<1>3. x \in MuxNames /\ CallSide(k) = p /\ p \in MuxSides /\ Server(x) = Peer(p) /\ Server(x) \in MuxSides /\ Server(x) # p
  BY <1>1, <1>2, TargetIs, AskerIs
<1>4. /\ k \in mPlan /\ mCall[k] = "new" /\ (x # Global => mCh[p][x].st = "open")
      /\ \A j \in Callers : Target[j] = x => mCall[j] # "sent"
      /\ mCall' = [mCall EXCEPT ![k] = IF CanSend(p, x) THEN "sent" ELSE "failed"]
      /\ mWire' = IF x = Global THEN Wired(p, [t |-> "greq", tag |-> k, o |-> x, to |-> 0, my |-> 0])
                  ELSE ChanWired(p, x, [t |-> "req", tag |-> k])
      /\ UNCHANGED <<mList, mCh, mReq, mMsg, mLoop, mUp, mPlan>>
  BY <1>1, <1>3 DEF SendRequest, CanSend
<1>5. CallSet(k, IF CanSend(p, x) THEN "sent" ELSE "failed")
  <2>1. CallTyped
    BY DEF MuxInv, MuxShape, CallTyped
  <2> QED BY <1>4, <2>1, SetsCall
<1>6. Carries(p, x, RequestOf(x), k, CanSend(p, x))
  BY <1>3, <1>4, CallPacket DEF RequestOf
<1>7. PICK m \in MuxPackets :
        /\ m.t = RequestOf(x) /\ m.tag = k /\ m.o = x /\ (x \in Opens => m.to = mCh[p][x].remote)
        /\ CanSend(p, x) => Grows(p, m) /\ Still(Peer(p))
        /\ ~CanSend(p, x) => mWire' = mWire
        /\ mWire' \in [MuxSides -> Seq(MuxPackets)]
  BY <1>6 DEF Carries
<1>8. /\ ListTyped /\ ListInv /\ LiveInv /\ OrderInv /\ CallInv(x) /\ NameInv(x)
  BY <1>3 DEF MuxInv, MuxShape, NameInv
<1>9. MuxShape' /\ ListInv' /\ LiveInv'
  <2>1. MuxShape'
    BY <1>4, <1>5, <1>7 DEF MuxInv, MuxShape, ListTyped, ChTyped, CallSet, CallTyped
  <2>2. \A q, i : SlotAt(q, i)' = SlotAt(q, i)
    BY <1>4 DEF SlotAt
  <2>3. ListInv'
    BY <1>4, <1>8, <2>2 DEF ListInv, ListedOK
  <2>4. LiveInv'
    BY <1>4, <1>8, <2>2 DEF LiveInv
  <2> QED BY <2>1, <2>3, <2>4
<1>10. Ready(x)
  BY <1>2, <1>4 DEF Ready
<1>11. Waiting(x) = {} /\ Tokens(Waiting(x), Awaited(x), Requests(x), Served(x), Replies(x), Answer(x))
  <2>1. Waiting(x) = {}
    BY <1>4 DEF Waiting, CallsOf
  <2> QED BY <1>8, <1>10, <2>1 DEF CallInv
<1>12. (Ready(x) <=> Ready(x)') /\ (Over(x) <=> Over(x)') /\ Served(x)' = Served(x) /\ Answer(x)' = Answer(x)
  BY <1>4 DEF Ready, Over, Served, Answer
<1>13. mReq'[p][x] = <<>> /\ mMsg'[Server(x)][x] = <<>>
  BY <1>2, <1>4, <1>8 DEF CallInv
<1>14. CASE CanSend(p, x)
  <2>1. mUp = "up" /\ (x \in Opens => mCh[p][x].shut = "no")
    BY <1>14, SidesAre DEF CanSend
  <2>2. ~Over(x)
    <3>1. x \in Opens => mCh[Asker(x)][x].shut # "closed"
      BY <1>2, <2>1
    <3> QED BY <1>3, <2>1, <3>1, NotOver
  <2>3. Awaited(x) = {}
    BY <1>4, <2>2 DEF Awaited, CallsOf
  <2>4. Requests(x) = {} /\ Served(x) = <<>> /\ Replies(x) = {} /\ Answer(x) = <<>>
    BY <1>11, <2>3 DEF Tokens
  <2>5. x \in Opens => Ends(mCh[p][x], mCh[Server(x)][x], About(p, x), About(Server(x), x))
    BY <1>2, <2>1, EndsUp
  <2>6. x \in Opens => m.t = "req"
    BY <1>7, SidesAre DEF RequestOf
  <2>7. x \in Opens => ((\A a \in About(p, x) : a.t # "close") /\ Linked(mCh[p][x], mCh[Server(x)][x], About(p, x) \cup {m}, About(Server(x), x)))
    <3>1. x \in Opens => mCh[p][x].st = "open"
      BY <1>4, SidesAre
    <3> QED BY <1>7, <2>1, <2>5, <2>6, <3>1, LinkAsks
  <2>8. \A a \in About(p, x) : a.t # m.t /\ a.t # "close"
    <3>1. \A a \in About(p, x) : a.t \notin {"req", "greq"}
      BY <1>2, <2>4 DEF Requests
    <3>2. m.t \in {"req", "greq"}
      BY <1>7 DEF RequestOf
    <3>3. x = Global => \A a \in About(p, x) : a.t = "greq"
      BY <1>2, <1>8, SidesAre DEF NameInv, GlobalInv
    <3>4. x = Global \/ x \in Opens
      BY <1>3 DEF MuxNames
    <3> QED BY <2>7, <3>1, <3>2, <3>3, <3>4
  <2>9. Sent(p, m)
    BY <1>3, <1>7, <1>8, <1>14, <2>8, Sends
  <2>10. OrderInv' /\ About(p, x)' = About(p, x) \cup {m} /\ AboutStays(p, x)
    BY <1>7, <2>9 DEF Sent
  <2>11. About(Server(x), x)' = About(Server(x), x) /\ \A r \in MuxSides : \A y : y # x => About(r, y)' = About(r, y)
    BY <1>3, <2>10 DEF AboutStays
  <2>12. x \in Opens => LinkInv(x)'
    BY <1>2, <1>4, <2>7, <2>10, <2>11, LinkSame
  <2>13. x = Global => GlobalInv'
    BY <1>2, <1>7, <1>8, <2>10, <2>11, SidesAre DEF NameInv, GlobalInv, RequestOf
  <2>14. Waiting(x)' = {k} /\ k \in Awaited(x)'
    BY <1>1, <1>4, <1>5, <1>14 DEF Waiting, Awaited, CallsOf, CallSet
  <2>15. Requests(x)' \subseteq {m} /\ Replies(x)' = {}
    <3>1. Requests(x)' \subseteq Requests(x) \cup {m}
      BY <1>2, <2>10 DEF Requests
    <3>2. Replies(x)' = Replies(x)
      BY <2>11 DEF Replies
    <3> QED BY <2>4, <3>1, <3>2
  <2>16. Tokens(Waiting(x), Awaited(x), Requests(x), Served(x), Replies(x), Answer(x))'
    BY <1>7, <1>12, <2>4, <2>14, <2>15 DEF Tokens, OnePlace
  <2>17. CallInv(x)'
    BY <1>2, <1>10, <1>12, <1>13, <2>14, <2>16 DEF CallInv
  <2>18. OneName(x)
    BY <1>1, <1>4, <1>5, <2>1, <2>11 DEF OneName, CallSet
  <2> QED BY <1>3, <1>9, <2>10, <2>12, <2>13, <2>17, <2>18, OneNameKept DEF NameInv
<1>15. CASE ~CanSend(p, x)
  <2>1. mWire' = mWire
    BY <1>7, <1>15
  <2>2. Silent
    BY <1>8, <2>1, StaysSilent
  <2>3. OneName(x) /\ OrderInv'
    BY <1>1, <1>4, <1>5, <2>1, <2>2 DEF OneName, CallSet, Silent
  <2>4. About(p, x)' = About(p, x) /\ About(Server(x), x)' = About(Server(x), x)
    BY <1>3, <2>2 DEF Silent
  <2>5. x \in Opens => LinkInv(x)'
    <3>1. SUFFICES ASSUME x \in Opens PROVE LinkInv(x)'
      OBVIOUS
    <3>2. mUp = "up" => Linked(mCh[p][x], mCh[Server(x)][x], About(p, x), About(Server(x), x))
      BY <1>2, <3>1, EndsUp DEF Ends
    <3> QED BY <1>2, <1>4, <2>4, <3>1, <3>2, LinkSame
  <2>6. x = Global => GlobalInv'
    BY <1>2, <1>8, <2>4, SidesAre DEF NameInv, GlobalInv
  <2>7. Waiting(x)' = Waiting(x) /\ Awaited(x)' = Awaited(x)
    BY <1>4, <1>5, <1>12, <1>15 DEF Waiting, Awaited, CallsOf, CallSet
  <2>8. Requests(x)' = Requests(x) /\ Replies(x)' = Replies(x)
    BY <1>2, <2>4 DEF Requests, Replies
  <2>9. CallInv(x)'
    BY <1>2, <1>8, <1>12, <1>13, <2>7, <2>8 DEF CallInv
  <2> QED BY <1>3, <1>9, <2>3, <2>5, <2>6, <2>9, OneNameKept DEF NameInv
<1> QED BY <1>14, <1>15

(* Lists and channels that do not change.                                   *)
LEMMA ListSame ==
    ASSUME ListInv, LiveInv, mList' = mList, mCh' = mCh, mUp' = mUp
    PROVE  ListInv' /\ LiveInv'
<1>1. \A q, i : SlotAt(q, i)' = SlotAt(q, i)
  BY DEF SlotAt
<1>2. ListInv'
  BY <1>1 DEF ListInv, ListedOK
<1>3. LiveInv'
  BY <1>1 DEF LiveInv
<1> QED BY <1>2, <1>3

(* SendRequest takes its answer.                                            *)
LEMMA RequestReturnsKeeps ==
    ASSUME MuxInv, NEW k \in Callers, RequestReturns(k)
    PROVE  MuxInv'
<1>1. PICK x : x = Target[k]
  OBVIOUS
<1>2. PICK p : p = Asker(x)
  OBVIOUS
<1>3. x \in MuxNames /\ CallSide(k) = p /\ p \in MuxSides /\ Server(x) \in MuxSides /\ Server(x) # p
  BY <1>1, <1>2, TargetIs, AskerIs
<1>4. mCall[k] = "sent" /\ UNCHANGED <<mList, mCh, mWire, mReq, mLoop, mUp, mPlan>>
  BY DEF RequestReturns
<1>5. PICK msg : msg = mMsg[p][x]
  OBVIOUS
<1>6. \/ /\ msg # <<>> /\ mMsg' = [mMsg EXCEPT ![p][x] = Tail(msg)]
         /\ mCall' = [mCall EXCEPT ![k] = IF Head(msg) = k THEN "answered" ELSE "confused"]
      \/ /\ msg = <<>> /\ mMsg' = mMsg /\ mCall' = [mCall EXCEPT ![k] = "failed"]
         /\ (IF x = Global THEN mLoop[p] = "done" ELSE mCh[p][x].shut = "closed")
  BY <1>1, <1>3, <1>5 DEF RequestReturns
<1>7. /\ ListTyped /\ ListInv /\ LiveInv /\ OrderInv /\ CallInv(x) /\ NameInv(x) /\ CallTyped /\ MsgTyped
  BY <1>3 DEF MuxInv, MuxShape, NameInv, CallTyped, MsgTyped
<1>8. k \in Waiting(x) /\ \A j \in Waiting(x) : j = k
  <2>1. k \in Waiting(x)
    BY <1>1, <1>4 DEF Waiting, CallsOf
  <2> QED BY <1>7, <2>1 DEF CallInv
<1>9. Ready(x) /\ Tokens(Waiting(x), Awaited(x), Requests(x), Served(x), Replies(x), Answer(x))
  BY <1>7, <1>8 DEF CallInv
<1>10. ListInv' /\ LiveInv'
  BY <1>4, <1>7, ListSame
<1>11. Silent
  BY <1>4, <1>7, StaysSilent
<1>12. About(p, x)' = About(p, x) /\ About(Server(x), x)' = About(Server(x), x) /\ OrderInv'
  BY <1>3, <1>11 DEF Silent
<1>13. Requests(x)' = Requests(x) /\ Replies(x)' = Replies(x) /\ Served(x)' = Served(x) /\ Ready(x)' /\ (Over(x) <=> Over(x)')
  BY <1>2, <1>4, <1>9, <1>12 DEF Requests, Replies, Served, Ready, Over
<1>14. x \in Opens => LinkInv(x)'
  <2>1. SUFFICES ASSUME x \in Opens PROVE LinkInv(x)'
    OBVIOUS
  <2>2. mUp = "up" => Linked(mCh[p][x], mCh[Server(x)][x], About(p, x), About(Server(x), x))
    BY <1>2, <2>1, EndsUp DEF Ends
  <2>3. mCh[p][x].st = "open"
    BY <1>2, <1>9, <2>1, ReadyIs
  <2> QED BY <1>2, <1>4, <1>12, <2>1, <2>2, <2>3, LinkSame
<1>15. x = Global => GlobalInv'
  BY <1>2, <1>7, <1>12, SidesAre DEF NameInv, GlobalInv
<1>16. mReq'[p][x] = <<>> /\ mMsg[Server(x)][x] = <<>>
  BY <1>2, <1>4, <1>7 DEF CallInv
<1>17. CASE /\ msg # <<>> /\ mMsg' = [mMsg EXCEPT ![p][x] = Tail(msg)]
            /\ mCall' = [mCall EXCEPT ![k] = IF Head(msg) = k THEN "answered" ELSE "confused"]
  <2>1. Answer(x) = msg
    BY <1>2, <1>5 DEF Answer
  <2>2. Head(msg) = k /\ Tail(msg) = <<>> /\ Requests(x) = {} /\ Served(x) = <<>> /\ Replies(x) = {}
    BY <1>8, <1>9, <1>17, <2>1 DEF Tokens, OnePlace
  <2>3. CallSet(k, "answered")
    BY <1>7, <1>17, <2>2, SetsCall
  <2>4. QueueSet(mMsg, mMsg', p, x, <<>>) /\ MsgTyped'
    <3>1. mMsg' = [mMsg EXCEPT ![p][x] = <<>>]
      BY <1>17, <2>2
    <3>2. <<>> \in Seq(Callers \cup MuxAnswers)
      OBVIOUS
    <3> QED BY <1>3, <1>7, <3>1, <3>2, SetsMsg
  <2>5. MuxShape'
    BY <1>4, <2>3, <2>4 DEF MuxInv, MuxShape, CallSet, CallTyped, MsgTyped, ListTyped, ChTyped
  <2>6. OneName(x)
    <3>1. \A q \in MuxSides, y \in MuxNames : y # x => mMsg'[q][y] = mMsg[q][y]
      BY <2>4 DEF QueueSet
    <3>2. \A j \in Callers : Target[j] # x => mCall'[j] = mCall[j]
      BY <1>1, <2>3 DEF CallSet
    <3> QED BY <1>4, <1>11, <3>1, <3>2 DEF OneName, Silent
  <2>7. mMsg'[Server(x)][x] = <<>> /\ Answer(x)' = <<>>
    BY <1>2, <1>3, <1>16, <2>4 DEF QueueSet, Answer
  <2>8. Waiting(x)' = {}
    BY <1>8, <2>3 DEF Waiting, CallsOf, CallSet
  <2>9. Tokens(Waiting(x), Awaited(x), Requests(x), Served(x), Replies(x), Answer(x))'
    BY <1>13, <2>2, <2>7 DEF Tokens, OnePlace
  <2>10. CallInv(x)'
    BY <1>2, <1>13, <1>16, <2>7, <2>8, <2>9 DEF CallInv
  <2> QED BY <1>3, <1>10, <1>12, <1>14, <1>15, <2>5, <2>6, <2>10, OneNameKept DEF NameInv
<1>18. CASE /\ msg = <<>> /\ mMsg' = mMsg /\ mCall' = [mCall EXCEPT ![k] = "failed"]
            /\ (IF x = Global THEN mLoop[p] = "done" ELSE mCh[p][x].shut = "closed")
  <2>1. Over(x)
    BY <1>2, <1>18, SidesAre DEF Over
  <2>2. CallSet(k, "failed")
    BY <1>7, <1>18, SetsCall
  <2>3. MuxShape'
    BY <1>4, <1>18, <2>2 DEF MuxInv, MuxShape, CallSet, CallTyped, ListTyped, ChTyped
  <2>4. OneName(x)
    <3>1. \A j \in Callers : Target[j] # x => mCall'[j] = mCall[j]
      BY <1>1, <2>2 DEF CallSet
    <3> QED BY <1>4, <1>11, <1>18, <3>1 DEF OneName, Silent
  <2>5. Awaited(x)' = CallsOf(x) /\ Awaited(x) = CallsOf(x)
    BY <1>13, <2>1 DEF Awaited, CallsOf
  <2>6. Waiting(x)' = {}
    BY <1>8, <2>2 DEF Waiting, CallsOf, CallSet
  <2>7. Answer(x) = <<>> /\ Answer(x)' = <<>>
    BY <1>2, <1>5, <1>18 DEF Answer
  <2>8. Replies(x) = {}
    <3>1. CASE mUp # "up"
      <4>1. About(Server(x), x) = {}
        BY <1>3, <3>1, DownEmpty
      <4> QED BY <4>1 DEF Replies
    <3>2. CASE mUp = "up"
      <4>1. x \in Opens /\ mCh[p][x].shut = "closed"
        BY <1>2, <1>3, <2>1, <3>2, NotOver
      <4>2. Ends(mCh[p][x], mCh[Server(x)][x], About(p, x), About(Server(x), x))
        BY <1>2, <3>2, <4>1, EndsUp
      <4>3. \A m \in About(Server(x), x) : FALSE
        BY <4>1, <4>2 DEF Ends, Linked, ToOpener
      <4> QED BY <4>3 DEF Replies
    <3> QED BY <3>1, <3>2
  <2>9. Tokens(Waiting(x), Awaited(x), Requests(x), Served(x), Replies(x), Answer(x))'
    BY <1>9, <1>13, <2>5, <2>7, <2>8 DEF Tokens, OnePlace
  <2>10. CallInv(x)'
    BY <1>2, <1>13, <1>16, <1>18, <2>6, <2>9 DEF CallInv
  <2> QED BY <1>3, <1>10, <1>12, <1>14, <1>15, <2>3, <2>4, <2>10, OneNameKept DEF NameInv
<1> QED BY <1>6, <1>17, <1>18

(* Request.Reply.                                                           *)
LEMMA ReplyKeeps ==
    ASSUME MuxInv, NEW p \in MuxSides, NEW x \in MuxNames, Reply(p, x)
    PROVE  MuxInv'
<1>1. /\ Asker(x) \in MuxSides /\ Server(x) \in MuxSides /\ Asker(x) # Server(x)
      /\ Peer(Asker(x)) = Server(x) /\ Peer(Server(x)) = Asker(x) /\ (p = Asker(x) \/ p = Server(x))
  BY AskerIs
<1>2. /\ ListTyped /\ ListInv /\ LiveInv /\ OrderInv /\ CallInv(x) /\ NameInv(x) /\ ReqTyped
  BY DEF MuxInv, MuxShape, NameInv, ReqTyped
<1>3. PICK req : req = mReq[p][x]
  OBVIOUS
<1>4. /\ req # <<>> /\ mReq' = [mReq EXCEPT ![p][x] = Tail(req)]
      /\ mWire' = IF x = Global THEN Wired(p, [t |-> "greply", tag |-> Head(req), o |-> x, to |-> 0, my |-> 0])
                  ELSE ChanWired(p, x, [t |-> "reply", tag |-> Head(req)])
      /\ UNCHANGED <<mList, mCh, mMsg, mCall, mLoop, mUp, mPlan>>
  BY <1>3 DEF Reply
<1>5. p = Server(x) /\ p # Asker(x) /\ Served(x) = req
  BY <1>1, <1>2, <1>3, <1>4 DEF CallInv, Served
<1>6. Ready(x) /\ Tokens(Waiting(x), Awaited(x), Requests(x), Served(x), Replies(x), Answer(x))
  BY <1>2, <1>4, <1>5 DEF CallInv
<1>7. Tail(req) = <<>> /\ Requests(x) = {} /\ Replies(x) = {} /\ Answer(x) = <<>> /\ Head(req) \in Awaited(x)
  BY <1>4, <1>5, <1>6 DEF Tokens, OnePlace
<1>8. PICK k : k = Head(req)
  OBVIOUS
<1>9. k \in Callers /\ k \in Awaited(x)
  BY <1>7, <1>8 DEF Awaited, CallsOf
<1>10. Carries(p, x, ReplyOf(x), k, CanSend(p, x))
  BY <1>4, <1>8, <1>9, CallPacket DEF ReplyOf
<1>11. PICK m \in MuxPackets :
        /\ m.t = ReplyOf(x) /\ m.tag = k /\ m.o = x /\ (x \in Opens => m.to = mCh[p][x].remote)
        /\ CanSend(p, x) => Grows(p, m) /\ Still(Peer(p))
        /\ ~CanSend(p, x) => mWire' = mWire
        /\ mWire' \in [MuxSides -> Seq(MuxPackets)]
  BY <1>10 DEF Carries
<1>12. QueueSet(mReq, mReq', p, x, <<>>) /\ ReqTyped'
  <2>1. mReq' = [mReq EXCEPT ![p][x] = <<>>]
    BY <1>4, <1>7
  <2>2. <<>> \in Seq(Callers)
    OBVIOUS
  <2> QED BY <1>2, <2>1, <2>2, SetsReq
<1>13. MuxShape'
  BY <1>4, <1>11, <1>12 DEF MuxInv, MuxShape, ReqTyped, ListTyped, ChTyped
<1>14. ListInv' /\ LiveInv'
  BY <1>2, <1>4, ListSame
<1>15. /\ Ready(x)' /\ (Over(x) <=> Over(x)') /\ Answer(x)' = <<>> /\ Served(x)' = <<>>
       /\ Waiting(x)' = Waiting(x) /\ Awaited(x)' = Awaited(x)
  <2>1. Ready(x)' /\ (Over(x) <=> Over(x)') /\ Answer(x)' = <<>>
    BY <1>4, <1>6, <1>7 DEF Ready, Over, Answer
  <2>2. Served(x)' = <<>>
    BY <1>5, <1>12 DEF Served, QueueSet
  <2> QED BY <1>4, <2>1, <2>2 DEF Waiting, Awaited, CallsOf
<1>16. mReq'[Asker(x)][x] = <<>> /\ mMsg'[Server(x)][x] = <<>>
  BY <1>1, <1>2, <1>4, <1>5, <1>12 DEF CallInv, QueueSet
<1>17. \A q \in MuxSides, y \in MuxNames : y # x => mReq'[q][y] = mReq[q][y]
  BY <1>12 DEF QueueSet
<1>18. CASE CanSend(p, x)
  <2>1. mUp = "up" /\ (x \in Opens => mCh[p][x].shut = "no")
    BY <1>18, SidesAre DEF CanSend
  <2>2. x \in Opens => Ends(mCh[Asker(x)][x], mCh[p][x], About(Asker(x), x), About(p, x))
    BY <1>5, <2>1, EndsUp
  <2>3. ~Over(x)
    <3>1. x \in Opens => mCh[Asker(x)][x].shut # "closed"
      BY <2>1, <2>2 DEF Ends, Linked, EndsOK
    <3> QED BY <2>1, <3>1, NotOver
  <2>4. k \in Waiting(x)
    BY <1>9, <2>3 DEF Awaited, Waiting
  <2>5. x \in Opens => ((\A a \in About(p, x) : a.t # "close") /\ Linked(mCh[Asker(x)][x], mCh[p][x], About(Asker(x), x), About(p, x) \cup {m}))
    <3>1. x \in Opens => mCh[Asker(x)][x].st = "open"
      BY <1>6, ReadyIs
    <3>2. x \in Opens => m.t = "reply"
      BY <1>11, SidesAre DEF ReplyOf
    <3> QED BY <1>11, <2>1, <2>2, <3>1, <3>2, LinkAnswers
  <2>6. \A a \in About(p, x) : a.t # m.t /\ a.t # "close"
    <3>1. \A a \in About(p, x) : a.t \notin {"reply", "greply"}
      BY <1>5, <1>7 DEF Replies
    <3>2. m.t \in {"reply", "greply"}
      BY <1>11 DEF ReplyOf
    <3>3. x = Global => \A a \in About(p, x) : a.t = "greply"
      BY <1>2, <1>5, SidesAre DEF NameInv, GlobalInv
    <3>4. x = Global \/ x \in Opens
      BY DEF MuxNames
    <3> QED BY <2>5, <3>1, <3>2, <3>3, <3>4
  <2>7. Sent(p, m)
    BY <1>2, <1>11, <1>18, <2>6, Sends
  <2>8. OrderInv' /\ About(p, x)' = About(p, x) \cup {m} /\ AboutStays(p, x)
    BY <1>11, <2>7 DEF Sent
  <2>9. About(Asker(x), x)' = About(Asker(x), x) /\ \A r \in MuxSides : \A y : y # x => About(r, y)' = About(r, y)
    BY <1>1, <1>5, <2>8 DEF AboutStays
  <2>10. x \in Opens => LinkInv(x)'
    BY <1>4, <1>5, <2>5, <2>8, <2>9, LinkSame
  <2>11. x = Global => GlobalInv'
    BY <1>2, <1>5, <1>11, <2>8, <2>9, SidesAre DEF NameInv, GlobalInv, ReplyOf
  <2>12. Replies(x)' \subseteq {m} /\ Requests(x)' = {}
    <3>1. Replies(x)' \subseteq Replies(x) \cup {m}
      BY <1>5, <2>8 DEF Replies
    <3>2. Requests(x)' = Requests(x)
      BY <2>9 DEF Requests
    <3> QED BY <1>7, <3>1, <3>2
  <2>13. Tokens(Waiting(x), Awaited(x), Requests(x), Served(x), Replies(x), Answer(x))'
    BY <1>11, <1>15, <2>4, <2>12 DEF Tokens, OnePlace
  <2>14. CallInv(x)'
    BY <1>2, <1>15, <1>16, <2>13 DEF CallInv
  <2>15. OneName(x)
    BY <1>4, <1>17, <2>1, <2>9 DEF OneName
  <2> QED BY <1>13, <1>14, <2>8, <2>10, <2>11, <2>14, <2>15, OneNameKept DEF NameInv
<1>19. CASE ~CanSend(p, x)
  <2>1. mWire' = mWire
    BY <1>11, <1>19
  <2>2. Silent
    BY <1>2, <2>1, StaysSilent
  <2>3. OneName(x) /\ OrderInv'
    BY <1>4, <1>17, <2>1, <2>2 DEF OneName, Silent
  <2>4. About(Asker(x), x)' = About(Asker(x), x) /\ About(Server(x), x)' = About(Server(x), x)
    BY <1>1, <2>2 DEF Silent
  <2>5. x \in Opens => LinkInv(x)'
    <3>1. SUFFICES ASSUME x \in Opens PROVE LinkInv(x)'
      OBVIOUS
    <3>2. mUp = "up" => Linked(mCh[Asker(x)][x], mCh[Server(x)][x], About(Asker(x), x), About(Server(x), x))
      BY <3>1, EndsUp DEF Ends
    <3> QED BY <1>4, <2>4, <3>1, <3>2, LinkSame
  <2>6. x = Global => GlobalInv'
    BY <1>2, <2>4, SidesAre DEF NameInv, GlobalInv
  <2>7. Requests(x)' = {} /\ Replies(x)' = {}
    BY <1>7, <2>4 DEF Requests, Replies
  <2>8. Tokens(Waiting(x), Awaited(x), Requests(x), Served(x), Replies(x), Answer(x))'
    BY <1>15, <2>7 DEF Tokens, OnePlace
  <2>9. CallInv(x)'
    BY <1>2, <1>15, <1>16, <2>8 DEF CallInv
  <2> QED BY <1>13, <1>14, <2>3, <2>5, <2>6, <2>9, OneNameKept DEF NameInv
<1> QED BY <1>18, <1>19

------------------------------------------------------------------------------
(* The loop takes a packet.                                                 *)

(* The first packet of a wire.                                              *)
LEMMA HeadIs ==
    ASSUME NEW q, WireOK(q), mWire[q] # <<>>
    PROVE  Head(mWire[q]) \in Packets(q) /\ Head(mWire[q]) \in MuxPackets
<1>1. PICK w : w = mWire[q]
  OBVIOUS
<1>2. w \in Seq(MuxPackets) /\ w # <<>>
  BY <1>1 DEF WireOK
<1>3. 1 \in 1..Len(w) /\ Head(w) = w[1] /\ w[1] \in MuxPackets
  BY <1>2
<1> QED BY <1>1, <1>3 DEF Packets

(* Whose packet it is.                                                      *)
Sorted(q, h) ==
    /\ h \in MuxPackets /\ h.o \in MuxNames /\ h \in About(q, h.o)
    /\ h.t = "open" => h.o \in Opens /\ q = Asker(h.o)
    /\ h.t = "req" => h.o \in Opens /\ q = Asker(h.o)
    /\ h.t \in {"confirm", "failure", "reply"} => h.o \in Opens /\ q = Server(h.o)
    /\ h.t = "close" => h.o \in Opens
    /\ h.t = "greq" => h.o = Global /\ q = Asker(h.o)
    /\ h.t = "greply" => h.o = Global /\ q = Server(h.o)

(* The packet that a loop has read.                                         *)
LEMMA InHandIs ==
    ASSUME MuxInv, NEW p \in MuxSides, Reading(p)
    PROVE  mUp = "up" /\ Sorted(Peer(p), InHand(p))
<1>1. PICK q : q = Peer(p)
  OBVIOUS
<1>2. q \in MuxSides /\ mWire[q] # <<>>
  BY <1>1, Peers DEF Reading
<1>3. mUp = "up"
  BY <1>2 DEF MuxInv, MuxShape, UpInv
<1>4. PICK h : h = InHand(p)
  OBVIOUS
<1>5. h \in Packets(q) /\ h \in MuxPackets
  <2>1. WireOK(q)
    BY <1>2 DEF MuxInv, OrderInv
  <2> QED BY <1>1, <1>2, <1>4, <2>1, HeadIs DEF InHand
<1>6. PICK x : x = h.o
  OBVIOUS
<1>7. x \in MuxNames /\ h \in About(q, x)
  BY <1>5, <1>6 DEF MuxPackets, About
<1>8. q = Asker(x) \/ q = Server(x)
  BY <1>2, <1>7, AskerIs
<1>9. CASE x = Global
  <2>1. GlobalInv
    BY <1>9, SidesAre DEF MuxInv, NameInv
  <2>2. q = Asker(x) => h.t = "greq"
    BY <1>7, <1>9, <2>1, SidesAre DEF GlobalInv
  <2>3. q = Server(x) => h.t = "greply"
    BY <1>7, <1>9, <2>1, SidesAre DEF GlobalInv
  <2> QED BY <1>1, <1>3, <1>4, <1>5, <1>6, <1>7, <1>8, <1>9, <2>2, <2>3 DEF Sorted
<1>10. CASE x # Global
  <2>1. x \in Opens
    BY <1>7, <1>10 DEF MuxNames
  <2>2. Ends(mCh[Asker(x)][x], mCh[Server(x)][x], About(Asker(x), x), About(Server(x), x))
    BY <1>3, <2>1, EndsUp
  <2>3. q = Asker(x) => h.t \in {"open", "close", "req"}
    BY <1>7, <2>2 DEF Ends, Linked, ToAcceptor
  <2>4. q = Server(x) => h.t \in {"confirm", "failure", "close", "reply"}
    BY <1>7, <2>2 DEF Ends, Linked, ToOpener
  <2> QED BY <1>1, <1>3, <1>4, <1>5, <1>6, <1>7, <1>8, <2>1, <2>3, <2>4 DEF Sorted
<1> QED BY <1>9, <1>10

(* What the loop's read does to the wires.                                  *)
LEMMA TakenIs ==
    ASSUME MuxInv, NEW p \in MuxSides, Reading(p), mWire' = Taken(p)
    PROVE  Took(Peer(p), InHand(p)) /\ mWire' \in [MuxSides -> Seq(MuxPackets)]
<1>1. PICK q : q = Peer(p)
  OBVIOUS
<1>2. q \in MuxSides /\ q # p /\ Peer(q) = p /\ mWire[q] # <<>>
  BY <1>1, Peers DEF Reading
<1>3. OrderInv /\ mWire \in [MuxSides -> Seq(MuxPackets)]
  BY DEF MuxInv, MuxShape
<1>4. mWire' = [mWire EXCEPT ![q] = Tail(mWire[q])]
  BY <1>1 DEF Taken
<1>5. Shrinks(q) /\ Still(p)
  BY <1>2, <1>3, <1>4 DEF Shrinks, Still
<1>6. mWire' \in [MuxSides -> Seq(MuxPackets)]
  <2>1. PICK v : v = Tail(mWire[q])
    OBVIOUS
  <2>2. mWire[q] \in Seq(MuxPackets)
    BY <1>2, <1>3
  <2>3. v \in Seq(MuxPackets)
    BY <1>2, <2>1, <2>2
  <2> QED BY <1>3, <1>4, <2>1, <2>3
<1>7. InHand(p) = Head(mWire[q])
  BY <1>1 DEF InHand
<1>8. Took(q, InHand(p))
  BY <1>2, <1>3, <1>5, <1>7, Takes
<1> QED BY <1>1, <1>6, <1>8

(* What is left of the packets of the name.                                 *)
LeftOf(p, h, x) ==
    /\ About(Peer(p), x)' = About(Peer(p), x) \ {h} /\ About(p, x)' = About(p, x) /\ OrderInv'
    /\ \A a \in About(Peer(p), x) : a # h => a.t # h.t /\ h.t # "close"
    /\ h \in About(Peer(p), x)
    /\ \A r \in MuxSides : \A y : y # x => About(r, y)' = About(r, y)
    /\ Requests(x)' \subseteq Requests(x) /\ Replies(x)' \subseteq Replies(x)

(* The packets that are left after a read.                                  *)
LEMMA Left ==
    ASSUME NEW p \in MuxSides, NEW h, NEW x \in MuxNames, x = h.o, Took(Peer(p), h)
    PROVE  LeftOf(p, h, x)
<1>1. Peer(p) \in MuxSides /\ Peer(p) # p
  BY Peers
<1>2. About(Peer(p), x)' = About(Peer(p), x) \ {h} /\ About(p, x)' = About(p, x)
  BY <1>1 DEF Took, AboutStays
<1>3. \A r \in MuxSides : \A y : y # x => About(r, y)' = About(r, y)
  BY <1>1 DEF Took, AboutStays
<1>4. \A r \in MuxSides : About(r, x)' \subseteq About(r, x)
  BY <1>2, Peers
<1>5. PICK a : a = Asker(x)
  OBVIOUS
<1>6. PICK b : b = Server(x)
  OBVIOUS
<1>7. About(a, x)' \subseteq About(a, x) /\ About(b, x)' \subseteq About(b, x)
  BY <1>4, <1>5, <1>6, AskerIs
<1>8. Requests(x)' \subseteq Requests(x) /\ Replies(x)' \subseteq Replies(x)
  BY <1>5, <1>6, <1>7 DEF Requests, Replies
<1> QED BY <1>2, <1>3, <1>8 DEF Took, LeftOf

(* An end changes with the packet that it takes.                            *)
LEMMA EndTakes ==
    ASSUME MuxInv, NEW p \in MuxSides, NEW o \in Opens, NEW n, EndStep(p, o, n), mUp = "up",
           NEW h, h.o = o, Took(Peer(p), h), mWire' \in [MuxSides -> Seq(MuxPackets)],
           p = Asker(o) => Linked(n, mCh[Server(o)][o], About(p, o), About(Server(o), o) \ {h}),
           p = Server(o) => Linked(mCh[Asker(o)][o], n, About(Asker(o), o) \ {h}, About(p, o))
    PROVE  MuxInv'
<1>1. /\ o \in MuxNames /\ Asker(o) \in MuxSides /\ Server(o) \in MuxSides /\ Asker(o) # Server(o)
      /\ Peer(Asker(o)) = Server(o) /\ Peer(Server(o)) = Asker(o) /\ (p = Asker(o) \/ p = Server(o))
  BY EndsUp, AskerIs
<1>2. /\ About(Peer(p), o)' = About(Peer(p), o) \ {h} /\ About(p, o)' = About(p, o) /\ OrderInv'
      /\ \A r \in MuxSides : \A y : y # o => About(r, y)' = About(r, y)
      /\ Requests(o)' \subseteq Requests(o) /\ Replies(o)' \subseteq Replies(o)
  <2>1. LeftOf(p, h, o)
    BY <1>1, Left
  <2> QED BY <2>1 DEF LeftOf
<1>3. Peer(p) \in MuxSides /\ Peer(p) # p
  BY Peers
<1>4. mCh'[p][o] = n /\ mCh'[Peer(p)][o] = mCh[Peer(p)][o]
  BY <1>3 DEF EndStep, ChanSet
<1>5. Linked(mCh[Asker(o)][o], mCh[Server(o)][o], About(Asker(o), o), About(Server(o), o))'
  <2>1. CASE p = Asker(o)
    BY <1>1, <1>2, <1>4, <2>1
  <2>2. CASE p = Server(o)
    BY <1>1, <1>2, <1>4, <2>2
  <2> QED BY <1>1, <2>1, <2>2
<1>6. ChanSet(p, o, n) /\ ListTyped' /\ ListInv' /\ LiveInv'
  BY DEF EndStep
<1>7. mReq' = mReq /\ mMsg' = mMsg /\ mCall' = mCall /\ mLoop' = mLoop /\ mUp' = mUp /\ mPlan' = mPlan
  BY DEF EndStep
<1>8. /\ p = Asker(o) => n.st \in OpenStates /\ Answered(n.st, mMsg[p][o])
      /\ p = Server(o) => n.st \in AcceptStates
      /\ (p = Asker(o) /\ mCh[p][o].st = "open") => (mCh[p][o].shut = "closed" => n.shut = "closed")
      /\ p = Asker(o) => (n.st = "open" <=> mCh[p][o].st = "open")
  BY DEF EndStep
<1> QED BY <1>2, <1>5, <1>6, <1>7, <1>8, EndKeeps

(* handleChannelOpen.                                                       *)
LEMMA HandleChannelOpenKeeps ==
    ASSUME MuxInv, NEW p \in MuxSides, HandleChannelOpen(p)
    PROVE  MuxInv'
<1>1. PICK h : h = InHand(p)
  OBVIOUS
<1>2. PICK o : o = h.o
  OBVIOUS
<1>3. PICK slot : slot = SlotFor(p)
  OBVIOUS
<1>4. PICK n : n = [st |-> "offered", id |-> slot - 1, remote |-> h.my, shut |-> "no"]
  OBVIOUS
<1>5. /\ Reading(p) /\ h.t = "open" /\ mList' = [mList EXCEPT ![p] = Added(p, o)]
      /\ mCh' = [mCh EXCEPT ![p][o] = n] /\ mWire' = Taken(p)
      /\ mReq' = mReq /\ mMsg' = mMsg /\ mCall' = mCall /\ mLoop' = mLoop /\ mUp' = mUp /\ mPlan' = mPlan
  BY <1>1, <1>2, <1>3, <1>4 DEF HandleChannelOpen
<1>6. mUp = "up" /\ Sorted(Peer(p), h)
  BY <1>1, <1>5, InHandIs
<1>7. o \in Opens /\ Peer(p) = Asker(o) /\ h \in About(Peer(p), o) /\ h \in MuxPackets /\ o \in MuxNames
  BY <1>2, <1>5, <1>6 DEF Sorted
<1>8. p = Server(o) /\ p # Asker(o)
  BY <1>7, Peers, AskerIs
<1>9. Took(Peer(p), h) /\ mWire' \in [MuxSides -> Seq(MuxPackets)]
  BY <1>1, <1>5, TakenIs
<1>10. \A a \in About(Asker(o), o) : a # h => a.t # h.t
  BY <1>2, <1>7, <1>9 DEF Took
<1>11. PICK c : c = mCh[Asker(o)][o]
  OBVIOUS
<1>12. PICK s : s = mCh[p][o]
  OBVIOUS
<1>13. Ends(c, s, About(Asker(o), o), About(p, o))
  BY <1>6, <1>7, <1>8, <1>11, <1>12, EndsUp
<1>14. n.st = "offered" /\ n.remote = h.my /\ n.shut = "no" /\ n.id = slot - 1
  BY <1>4
<1>15. s.st = "none" /\ c.st = "opening" /\ Linked(c, n, About(Asker(o), o) \ {h}, About(p, o))
  <2>1. h \in About(Asker(o), o)
    BY <1>7
  <2> QED BY <1>5, <1>10, <1>13, <1>14, <2>1, LinkOffers
<1>16. ListTyped /\ ChTyped /\ ListInv /\ LiveInv /\ mUp \in {"up", "down"}
  BY DEF MuxInv, MuxShape
<1>17. ListTyped' /\ SetsSlot(p, slot, o) /\ slot \in Slots /\ SlotAt(p, slot) = NoOpen
  BY <1>3, <1>5, <1>7, <1>16, AddsOne
<1>18. slot - 1 \in Ids
  BY <1>3, <1>7, <1>12, <1>15, <1>16, <1>17, IdFits
<1>19. n \in MuxChans
  <2>1. h.my \in Ids
    BY <1>7 DEF MuxPackets
  <2> QED BY <1>4, <1>18, <2>1 DEF MuxChans, AcceptStates
<1>20. ChanSet(p, o, n)
  BY <1>5, <1>7, <1>16, <1>19, SetsChan
<1>21. ListInv' /\ LiveInv'
  <2>1. n.st # "none" /\ n.st \notin Gone
    BY <1>14 DEF Gone
  <2> QED BY <1>5, <1>7, <1>12, <1>14, <1>15, <1>16, <1>17, <1>20, <2>1, ListAdds
<1>22. EndStep(p, o, n)
  <2>1. n.st \in AcceptStates
    BY <1>14 DEF AcceptStates
  <2> QED BY <1>5, <1>8, <1>17, <1>20, <1>21, <2>1 DEF EndStep
<1> QED BY <1>2, <1>6, <1>7, <1>8, <1>9, <1>11, <1>15, <1>22, EndTakes

(* The first entry of a queue that was empty.                               *)
LEMMA OneAppended ==
    ASSUME NEW S, NEW s \in Seq(S), s = <<>>, NEW e \in S, NEW v, v = Append(s, e)
    PROVE  v \in Seq(S) /\ v # <<>> /\ Head(v) = e /\ Tail(v) = <<>>
OBVIOUS

(* A request arrives.                                                       *)
LEMMA GotRequest ==
    ASSUME MuxInv, NEW p \in MuxSides, Reading(p), NEW h, h = InHand(p), h.t \in {"req", "greq"}, mWire' = Taken(p),
           NEW x, x = h.o, mReq' = [mReq EXCEPT ![p][x] = Append(@, h.tag)],
           UNCHANGED <<mList, mCh, mMsg, mCall, mLoop, mUp, mPlan>>
    PROVE  MuxInv'
<1>1. mUp = "up" /\ Sorted(Peer(p), h)
  BY InHandIs
<1>2. /\ x \in MuxNames /\ Peer(p) = Asker(x) /\ h \in About(Asker(x), x) /\ h.t = RequestOf(x)
  BY <1>1, SidesAre DEF Sorted, RequestOf
<1>3. Asker(x) \in MuxSides /\ Server(x) \in MuxSides /\ p = Server(x) /\ p # Asker(x)
  BY <1>2, Peers, AskerIs
<1>4. Took(Peer(p), h) /\ mWire' \in [MuxSides -> Seq(MuxPackets)]
  BY TakenIs
<1>5. LeftOf(p, h, x)
  BY <1>2, <1>4, Left
<1>6. /\ About(Asker(x), x)' = About(Asker(x), x) \ {h} /\ About(Server(x), x)' = About(Server(x), x) /\ OrderInv'
      /\ \A a \in About(Asker(x), x) : a # h => a.t # h.t
      /\ \A r \in MuxSides : \A y : y # x => About(r, y)' = About(r, y)
      /\ Requests(x)' \subseteq Requests(x) /\ Replies(x)' \subseteq Replies(x)
  BY <1>2, <1>3, <1>5 DEF LeftOf
<1>7. /\ ListInv /\ LiveInv /\ CallInv(x) /\ NameInv(x) /\ ReqTyped
  BY <1>2 DEF MuxInv, MuxShape, NameInv, ReqTyped
<1>8. x \in Opens => Ends(mCh[Asker(x)][x], mCh[Server(x)][x], About(Asker(x), x), About(Server(x), x))
  BY <1>1, EndsUp
<1>9. Ready(x)
  <2>1. x \in Opens => h.t = "req"
    BY <1>2, SidesAre DEF RequestOf
  <2>2. x \in Opens => mCh[Asker(x)][x].st = "open"
    BY <1>2, <1>8, <2>1 DEF Ends, Linked, ToAcceptor
  <2> QED BY <1>2, <2>2 DEF Ready, MuxNames
<1>10. Tokens(Waiting(x), Awaited(x), Requests(x), Served(x), Replies(x), Answer(x))
  BY <1>7, <1>9 DEF CallInv
<1>11. h \in Requests(x)
  BY <1>2 DEF Requests
<1>12. Served(x) = <<>> /\ Replies(x) = {} /\ Answer(x) = <<>> /\ h.tag \in Awaited(x) /\ h.tag \in Callers
  <2>1. Served(x) = <<>> /\ Replies(x) = {} /\ Answer(x) = <<>> /\ h.tag \in Awaited(x)
    BY <1>10, <1>11 DEF Tokens, OnePlace
  <2> QED BY <2>1 DEF Awaited, CallsOf
<1>13. Requests(x)' = {}
  <2>1. \A a \in Requests(x) : a.t = RequestOf(x)
    <3>1. CASE x \in Opens
      <4>1. \A a \in About(Asker(x), x) : a.t # "greq"
        BY <1>8, <3>1 DEF Ends, Linked, ToAcceptor
      <4> QED BY <3>1, <4>1, SidesAre DEF Requests, RequestOf
    <3>2. CASE x = Global
      BY <1>7, <3>2, SidesAre DEF Requests, RequestOf, NameInv, GlobalInv
    <3> QED BY <1>2, <3>1, <3>2 DEF MuxNames
  <2>2. \A a \in Requests(x) : a = h
    BY <1>2, <1>6, <2>1 DEF Requests
  <2>3. h \notin Requests(x)'
    BY <1>6 DEF Requests
  <2> QED BY <1>6, <2>2, <2>3
<1>14. PICK v : v = Append(mReq[p][x], h.tag)
  OBVIOUS
<1>15. v \in Seq(Callers) /\ v # <<>> /\ Head(v) = h.tag /\ Tail(v) = <<>>
  <2>1. mReq[p][x] = <<>>
    BY <1>3, <1>12 DEF Served
  <2>2. mReq[p][x] \in Seq(Callers)
    BY <1>2, <1>7 DEF ReqTyped
  <2> QED BY <1>12, <1>14, <2>1, <2>2, OneAppended
<1>16. QueueSet(mReq, mReq', p, x, v) /\ ReqTyped'
  <2>1. mReq' = [mReq EXCEPT ![p][x] = v]
    BY <1>14
  <2> QED BY <1>2, <1>7, <1>15, <2>1, SetsReq
<1>17. MuxShape'
  BY <1>4, <1>16 DEF MuxInv, MuxShape, ReqTyped, ListTyped, ChTyped
<1>18. ListInv' /\ LiveInv'
  BY <1>7, ListSame
<1>19. Ready(x)' /\ Answer(x)' = <<>> /\ Served(x)' = v /\ Waiting(x)' = Waiting(x) /\ Awaited(x)' = Awaited(x)
  <2>1. Ready(x)' /\ Answer(x)' = <<>> /\ (Over(x)' <=> Over(x))
    BY <1>9, <1>12 DEF Ready, Answer, Over
  <2>2. Served(x)' = v
    BY <1>3, <1>16 DEF Served, QueueSet
  <2> QED BY <2>1, <2>2 DEF Waiting, Awaited, CallsOf
<1>20. mReq'[Asker(x)][x] = <<>> /\ mMsg'[Server(x)][x] = <<>>
  BY <1>2, <1>3, <1>7, <1>16 DEF CallInv, QueueSet
<1>21. Tokens(Waiting(x), Awaited(x), Requests(x), Served(x), Replies(x), Answer(x))'
  BY <1>6, <1>12, <1>13, <1>15, <1>19 DEF Tokens, OnePlace
<1>22. CallInv(x)'
  BY <1>7, <1>19, <1>20, <1>21 DEF CallInv
<1>23. x \in Opens => LinkInv(x)'
  <2>1. SUFFICES ASSUME x \in Opens PROVE LinkInv(x)'
    OBVIOUS
  <2>2. h.t # "confirm"
    OBVIOUS
  <2>3. Linked(mCh[Asker(x)][x], mCh[Server(x)][x], About(Asker(x), x) \ {h}, About(Server(x), x))
    BY <1>8, <2>1, <2>2, LinkLoses
  <2> QED BY <1>6, <2>1, <2>3, LinkSame
<1>24. x = Global => GlobalInv'
  BY <1>6, <1>7, SidesAre DEF NameInv, GlobalInv
<1>25. OneName(x)
  <2>1. \A q \in MuxSides, y \in MuxNames : y # x => mReq'[q][y] = mReq[q][y]
    BY <1>16 DEF QueueSet
  <2> QED BY <1>1, <1>6, <2>1 DEF OneName
<1> QED BY <1>2, <1>6, <1>17, <1>18, <1>22, <1>23, <1>24, <1>25, OneNameKept DEF NameInv

(* A reply arrives.                                                         *)
LEMMA GotReply ==
    ASSUME MuxInv, NEW p \in MuxSides, Reading(p), NEW h, h = InHand(p), h.t \in {"reply", "greply"}, mWire' = Taken(p),
           NEW x, x = h.o, mMsg' = [mMsg EXCEPT ![p][x] = Append(@, h.tag)],
           UNCHANGED <<mList, mCh, mReq, mCall, mLoop, mUp, mPlan>>
    PROVE  MuxInv'
<1>1. mUp = "up" /\ Sorted(Peer(p), h)
  BY InHandIs
<1>2. /\ x \in MuxNames /\ Peer(p) = Server(x) /\ h \in About(Server(x), x) /\ h.t = ReplyOf(x)
  BY <1>1, SidesAre DEF Sorted, ReplyOf
<1>3. Asker(x) \in MuxSides /\ Server(x) \in MuxSides /\ p = Asker(x) /\ p # Server(x)
  BY <1>2, Peers, AskerIs
<1>4. Took(Peer(p), h) /\ mWire' \in [MuxSides -> Seq(MuxPackets)]
  BY TakenIs
<1>5. LeftOf(p, h, x)
  BY <1>2, <1>4, Left
<1>6. /\ About(Server(x), x)' = About(Server(x), x) \ {h} /\ About(Asker(x), x)' = About(Asker(x), x) /\ OrderInv'
      /\ \A a \in About(Server(x), x) : a # h => a.t # h.t
      /\ \A r \in MuxSides : \A y : y # x => About(r, y)' = About(r, y)
      /\ Requests(x)' \subseteq Requests(x) /\ Replies(x)' \subseteq Replies(x)
  BY <1>2, <1>3, <1>5 DEF LeftOf
<1>7. /\ ListInv /\ LiveInv /\ CallInv(x) /\ NameInv(x) /\ MsgTyped
  BY <1>2 DEF MuxInv, MuxShape, NameInv, MsgTyped
<1>8. x \in Opens => Ends(mCh[Asker(x)][x], mCh[Server(x)][x], About(Asker(x), x), About(Server(x), x))
  BY <1>1, EndsUp
<1>9. Ready(x) /\ (x \in Opens => mCh[Asker(x)][x].st = "open")
  <2>1. x \in Opens => h.t = "reply"
    BY <1>2, SidesAre DEF ReplyOf
  <2>2. x \in Opens => mCh[Asker(x)][x].st = "open"
    BY <1>2, <1>8, <2>1 DEF Ends, Linked, ToOpener
  <2> QED BY <1>2, <2>2 DEF Ready, MuxNames
<1>10. Tokens(Waiting(x), Awaited(x), Requests(x), Served(x), Replies(x), Answer(x))
  BY <1>7, <1>9 DEF CallInv
<1>11. h \in Replies(x)
  BY <1>2 DEF Replies
<1>12. Served(x) = <<>> /\ Requests(x) = {} /\ Answer(x) = <<>> /\ h.tag \in Waiting(x) /\ h.tag \in Callers
  <2>1. Served(x) = <<>> /\ Requests(x) = {} /\ Answer(x) = <<>> /\ h.tag \in Waiting(x)
    BY <1>10, <1>11 DEF Tokens, OnePlace
  <2> QED BY <2>1 DEF Waiting, CallsOf
<1>13. Replies(x)' = {}
  <2>1. \A a \in Replies(x) : a.t = ReplyOf(x)
    <3>1. CASE x \in Opens
      <4>1. \A a \in About(Server(x), x) : a.t # "greply"
        BY <1>8, <3>1 DEF Ends, Linked, ToOpener
      <4> QED BY <3>1, <4>1, SidesAre DEF Replies, ReplyOf
    <3>2. CASE x = Global
      BY <1>7, <3>2, SidesAre DEF Replies, ReplyOf, NameInv, GlobalInv
    <3> QED BY <1>2, <3>1, <3>2 DEF MuxNames
  <2>2. \A a \in Replies(x) : a = h
    BY <1>2, <1>6, <2>1 DEF Replies
  <2>3. h \notin Replies(x)'
    BY <1>6 DEF Replies
  <2> QED BY <1>6, <2>2, <2>3
<1>14. PICK v : v = Append(mMsg[p][x], h.tag)
  OBVIOUS
<1>15. v \in Seq(Callers \cup MuxAnswers) /\ v # <<>> /\ Head(v) = h.tag /\ Tail(v) = <<>>
  <2>1. mMsg[p][x] = <<>>
    BY <1>3, <1>12 DEF Answer
  <2>2. mMsg[p][x] \in Seq(Callers \cup MuxAnswers)
    BY <1>2, <1>7 DEF MsgTyped
  <2>3. h.tag \in Callers \cup MuxAnswers
    BY <1>12
  <2> QED BY <1>14, <2>1, <2>2, <2>3, OneAppended
<1>16. QueueSet(mMsg, mMsg', p, x, v) /\ MsgTyped'
  <2>1. mMsg' = [mMsg EXCEPT ![p][x] = v]
    BY <1>14
  <2> QED BY <1>2, <1>7, <1>15, <2>1, SetsMsg
<1>17. MuxShape'
  BY <1>4, <1>16 DEF MuxInv, MuxShape, MsgTyped, ListTyped, ChTyped
<1>18. ListInv' /\ LiveInv'
  BY <1>7, ListSame
<1>19. Ready(x)' /\ Answer(x)' = v /\ Served(x)' = <<>> /\ Waiting(x)' = Waiting(x)
  <2>1. Ready(x)' /\ Served(x)' = <<>>
    BY <1>9, <1>12 DEF Ready, Served
  <2>2. Answer(x)' = v
    BY <1>3, <1>16 DEF Answer, QueueSet
  <2> QED BY <2>1, <2>2 DEF Waiting, CallsOf
<1>20. mReq'[Asker(x)][x] = <<>> /\ mMsg'[Server(x)][x] = <<>>
  BY <1>2, <1>3, <1>7, <1>16 DEF CallInv, QueueSet
<1>21. Tokens(Waiting(x), Awaited(x), Requests(x), Served(x), Replies(x), Answer(x))'
  BY <1>6, <1>12, <1>13, <1>15, <1>19 DEF Tokens, OnePlace
<1>22. CallInv(x)'
  BY <1>7, <1>19, <1>20, <1>21 DEF CallInv
<1>23. x \in Opens => LinkInv(x)'
  <2>1. SUFFICES ASSUME x \in Opens PROVE LinkInv(x)'
    OBVIOUS
  <2>2. h.t # "confirm"
    OBVIOUS
  <2>3. Linked(mCh[Asker(x)][x], mCh[Server(x)][x], About(Asker(x), x), About(Server(x), x) \ {h})
    BY <1>8, <2>1, <2>2, LinkLoses
  <2> QED BY <1>6, <1>9, <2>1, <2>3, LinkSame
<1>24. x = Global => GlobalInv'
  BY <1>6, <1>7, SidesAre DEF NameInv, GlobalInv
<1>25. OneName(x)
  <2>1. \A q \in MuxSides, y \in MuxNames : y # x => mMsg'[q][y] = mMsg[q][y]
    BY <1>16 DEF QueueSet
  <2> QED BY <1>1, <1>6, <2>1 DEF OneName
<1> QED BY <1>2, <1>6, <1>17, <1>18, <1>22, <1>23, <1>24, <1>25, OneNameKept DEF NameInv

(* handleGlobalPacket.                                                      *)
LEMMA HandleGlobalPacketKeeps ==
    ASSUME MuxInv, NEW p \in MuxSides, HandleGlobalPacket(p)
    PROVE  MuxInv'
<1>1. PICK h : h = InHand(p)
  OBVIOUS
<1>2. Reading(p) /\ h.t \in {"greq", "greply"} /\ mWire' = Taken(p) /\ UNCHANGED <<mList, mCh, mCall, mLoop, mUp, mPlan>>
  BY <1>1 DEF HandleGlobalPacket
<1>3. Sorted(Peer(p), h)
  BY <1>1, <1>2, InHandIs
<1>4. h.o = Global
  BY <1>2, <1>3 DEF Sorted
<1>5. CASE h.t = "greq"
  <2>1. mReq' = [mReq EXCEPT ![p][h.o] = Append(@, h.tag)] /\ mMsg' = mMsg
    BY <1>1, <1>4, <1>5 DEF HandleGlobalPacket
  <2> QED BY <1>1, <1>2, <1>5, <2>1, GotRequest
<1>6. CASE h.t = "greply"
  <2>1. mMsg' = [mMsg EXCEPT ![p][h.o] = Append(@, h.tag)] /\ mReq' = mReq
    BY <1>1, <1>4, <1>6 DEF HandleGlobalPacket
  <2> QED BY <1>1, <1>2, <1>6, <2>1, GotReply
<1> QED BY <1>2, <1>5, <1>6

(* Every packet on the way finds the channel it is for at its id.           *)
LEMMA FindsChannel ==
    ASSUME MuxInv, mUp = "up", NEW p \in MuxSides, NEW o \in Opens, NEW h \in About(Peer(p), o), h.t \in ChanTypes
    PROVE  /\ h.to = mCh[p][o].id /\ SlotAt(p, h.to + 1) = o /\ GetChan(p, h.to) = o /\ o # NoOpen
           /\ mCh[p][o].id \in Ids
<1>1. PICK q : q = Peer(p)
  OBVIOUS
<1>2. (q = Asker(o) /\ p = Server(o)) \/ (q = Server(o) /\ p = Asker(o))
  BY <1>1, Peers, AskerIs, EndsUp
<1>3. PICK y : y = mCh[p][o]
  OBVIOUS
<1>4. Ends(mCh[Asker(o)][o], mCh[Server(o)][o], About(Asker(o), o), About(Server(o), o))
  BY EndsUp
<1>5. y \in MuxChans /\ h.to = y.id /\ y.shut # "closed" /\ y.st \notin {"none", "refused", "failed"}
  <2>1. CASE q = Asker(o) /\ p = Server(o)
    <3>1. ToAcceptor(h, mCh[Asker(o)][o], y)
      BY <1>1, <1>3, <1>4, <2>1 DEF Ends, Linked
    <3>2. h.t # "open"
      BY DEF ChanTypes
    <3> QED BY <1>3, <1>4, <2>1, <3>1, <3>2 DEF ToAcceptor, Ends
  <2>2. CASE q = Server(o) /\ p = Asker(o)
    <3>1. ToOpener(h, y, mCh[Server(o)][o])
      BY <1>1, <1>3, <1>4, <2>2 DEF Ends, Linked
    <3> QED BY <1>3, <1>4, <2>2, <3>1 DEF ToOpener, Ends
  <2> QED BY <1>2, <2>1, <2>2
<1>6. SlotAt(p, y.id + 1) = o
  BY <1>3, <1>5 DEF MuxInv, LiveInv
<1>7. y.id \in Ids /\ y.id \in Nat
  BY <1>5, IdsAre DEF MuxChans
<1>8. GetChan(p, y.id) = o
  <2>1. ListTyped
    BY DEF MuxInv, MuxShape
  <2> QED BY <1>6, <1>7, <2>1, GetChanIs
<1>9. o # NoOpen
  BY MuxConstants DEF NoOpen
<1> QED BY <1>3, <1>5, <1>6, <1>7, <1>8, <1>9

(* The answer to an open comes.                                             *)
LEMMA GotAnswer ==
    ASSUME MuxInv, NEW p \in MuxSides, NEW o \in Opens, p = Asker(o), mUp = "up", NEW h, h.o = o,
           Took(Peer(p), h), mWire' \in [MuxSides -> Seq(MuxPackets)],
           NEW n, ChanSet(p, o, n), n.st \in OpenStates, n.st # "open", mCh[p][o].st = "opening",
           NEW e \in MuxAnswers, Answered(n.st, <<e>>), mMsg' = [mMsg EXCEPT ![p][o] = Append(@, e)],
           Linked(n, mCh[Server(o)][o], About(p, o), About(Server(o), o) \ {h}),
           ListTyped', ListInv', LiveInv',
           UNCHANGED <<mReq, mLoop, mCall, mUp, mPlan>>
    PROVE  MuxInv'
<1>1. /\ o \in MuxNames /\ Server(o) \in MuxSides /\ p # Server(o) /\ Peer(p) = Server(o)
  BY EndsUp, AskerIs
<1>2. LeftOf(p, h, o)
  BY <1>1, Left
<1>3. /\ About(Server(o), o)' = About(Server(o), o) \ {h} /\ About(p, o)' = About(p, o) /\ OrderInv'
      /\ \A r \in MuxSides : \A y : y # o => About(r, y)' = About(r, y)
  BY <1>1, <1>2 DEF LeftOf
<1>4. mMsg[p][o] = <<>> /\ CallInv(o) /\ mCh[Server(o)][o].st \in AcceptStates
  BY EndsUp DEF Answered
<1>5. mMsg' = [mMsg EXCEPT ![p][o] = <<e>>]
  BY <1>4
<1>6. QueueSet(mMsg, mMsg', p, o, <<e>>) /\ MsgTyped'
  <2>1. <<e>> \in Seq(Callers \cup MuxAnswers)
    OBVIOUS
  <2>2. MsgTyped
    BY DEF MuxInv, MuxShape, MsgTyped
  <2> QED BY <1>1, <1>5, <2>1, <2>2, SetsMsg
<1>7. mCh'[p][o] = n /\ mCh'[Server(o)][o] = mCh[Server(o)][o]
  BY <1>1 DEF ChanSet
<1>8. mMsg'[p][o] = <<e>> /\ mMsg'[Server(o)][o] = mMsg[Server(o)][o]
  BY <1>1, <1>6 DEF QueueSet
<1>9. LinkInv(o)'
  BY <1>3, <1>4, <1>7, <1>8 DEF LinkInv
<1>10. ~Ready(o) /\ ~Ready(o)'
  BY <1>7, ReadyIs
<1>11. CallsStay(o)
  BY <1>8, <1>10 DEF CallsStay
<1>12. CallInv(o)'
  BY <1>1, <1>4, <1>11, CallKept
<1>13. OneName(o)
  <2>1. \A q \in MuxSides, y \in MuxNames : y # o => mMsg'[q][y] = mMsg[q][y]
    BY <1>6 DEF QueueSet
  <2>2. \A q \in MuxSides, y \in Opens : y # o => mCh'[q][y] = mCh[q][y]
    BY DEF ChanSet
  <2> QED BY <1>3, <2>1, <2>2 DEF OneName
<1>14. MuxShape'
  BY <1>6 DEF MuxInv, MuxShape, ChanSet, MsgTyped
<1> QED BY <1>1, <1>3, <1>9, <1>12, <1>13, <1>14, OneNameKept, OpenName

(* The confirmation of an open arrives.                                     *)
LEMMA GotConfirm ==
    ASSUME MuxInv, NEW p \in MuxSides, Reading(p), NEW h, h = InHand(p), h.t = "confirm", mWire' = Taken(p),
           NEW o, o = h.o, mCh' = [mCh EXCEPT ![p][o].st = "confirmed", ![p][o].remote = h.my],
           mMsg' = [mMsg EXCEPT ![p][o] = Append(@, "confirm")],
           UNCHANGED <<mList, mReq, mLoop, mCall, mUp, mPlan>>
    PROVE  MuxInv'
<1>1. mUp = "up" /\ Sorted(Peer(p), h)
  BY InHandIs
<1>2. /\ o \in Opens /\ o \in MuxNames /\ Peer(p) = Server(o) /\ h \in About(Server(o), o) /\ h \in MuxPackets
  BY <1>1 DEF Sorted
<1>3. p = Asker(o) /\ p # Server(o)
  BY <1>2, Peers, AskerIs
<1>4. Took(Peer(p), h) /\ mWire' \in [MuxSides -> Seq(MuxPackets)]
  BY TakenIs
<1>5. \A b \in About(Server(o), o) : b # h => b.t # h.t
  BY <1>2, <1>4 DEF Took
<1>6. PICK c : c = mCh[p][o]
  OBVIOUS
<1>7. Ends(c, mCh[Server(o)][o], About(p, o), About(Server(o), o)) /\ c \in MuxChans
  BY <1>1, <1>2, <1>3, <1>6, EndsUp
<1>8. PICK n : n = [c EXCEPT !.st = "confirmed", !.remote = h.my]
  OBVIOUS
<1>9. n \in MuxChans /\ n.st = "confirmed" /\ n.id = c.id /\ n.remote = h.my /\ n.shut = c.shut
  BY <1>2, <1>7, <1>8 DEF MuxChans, MuxPackets, OpenStates
<1>10. c.st = "opening" /\ Linked(n, mCh[Server(o)][o], About(p, o), About(Server(o), o) \ {h})
  BY <1>2, <1>5, <1>7, <1>9, LinkConfirms
<1>11. ListTyped /\ ChTyped /\ ListInv /\ LiveInv /\ mUp \in {"up", "down"}
  BY DEF MuxInv, MuxShape
<1>12. mCh' = [mCh EXCEPT ![p][o] = n]
  BY <1>2, <1>6, <1>8, <1>11 DEF ChTyped
<1>13. ChanSet(p, o, n)
  BY <1>2, <1>9, <1>11, <1>12, SetsChan
<1>14. ListInv' /\ LiveInv'
  <2>1. n.id = mCh[p][o].id /\ (n.shut = "closed" <=> mCh[p][o].shut = "closed") /\ n.st # "none" /\ mCh[p][o].st # "none"
    BY <1>6, <1>9, <1>10
  <2>2. n.st \notin Gone /\ mCh[p][o].st \notin Gone
    BY <1>6, <1>9, <1>10 DEF Gone
  <2> QED BY <1>2, <1>11, <1>13, <2>1, <2>2, ListKept
<1>15. ListTyped'
  BY <1>11 DEF ListTyped
<1>16. n.st \in OpenStates /\ n.st # "open" /\ Answered(n.st, <<"confirm">>) /\ "confirm" \in MuxAnswers
  BY <1>9 DEF OpenStates, Answered, MuxAnswers
<1> QED BY <1>1, <1>2, <1>3, <1>4, <1>6, <1>10, <1>13, <1>14, <1>15, <1>16, GotAnswer

(* The refusal of an open arrives.                                          *)
LEMMA GotFailure ==
    ASSUME MuxInv, NEW p \in MuxSides, Reading(p), NEW h, h = InHand(p), h.t = "failure", mWire' = Taken(p),
           NEW o, o = h.o, mCh' = [mCh EXCEPT ![p][o].st = "refused"], mList' = Removed(p, h.to),
           mMsg' = [mMsg EXCEPT ![p][o] = Append(@, "failure")],
           UNCHANGED <<mReq, mLoop, mCall, mUp, mPlan>>
    PROVE  MuxInv'
<1>1. mUp = "up" /\ Sorted(Peer(p), h)
  BY InHandIs
<1>2. /\ o \in Opens /\ o \in MuxNames /\ Peer(p) = Server(o) /\ h \in About(Server(o), o) /\ h \in MuxPackets
  BY <1>1 DEF Sorted
<1>3. p = Asker(o) /\ p # Server(o)
  BY <1>2, Peers, AskerIs
<1>4. Took(Peer(p), h) /\ mWire' \in [MuxSides -> Seq(MuxPackets)]
  BY TakenIs
<1>5. \A b \in About(Server(o), o) : b # h => b.t # h.t
  BY <1>2, <1>4 DEF Took
<1>6. PICK c : c = mCh[p][o]
  OBVIOUS
<1>7. Ends(c, mCh[Server(o)][o], About(p, o), About(Server(o), o)) /\ c \in MuxChans
  BY <1>1, <1>2, <1>3, <1>6, EndsUp
<1>8. PICK n : n = [c EXCEPT !.st = "refused"]
  OBVIOUS
<1>9. n \in MuxChans /\ n.st = "refused" /\ n.id = c.id /\ n.remote = c.remote /\ n.shut = c.shut
  BY <1>7, <1>8 DEF MuxChans, OpenStates
<1>10. c.st = "opening" /\ Linked(n, mCh[Server(o)][o], About(p, o), About(Server(o), o) \ {h})
  BY <1>2, <1>5, <1>7, <1>9, LinkRefuses
<1>11. ListTyped /\ ChTyped /\ ListInv /\ LiveInv
  BY DEF MuxInv, MuxShape
<1>12. mCh' = [mCh EXCEPT ![p][o] = n]
  BY <1>6, <1>8
<1>13. ChanSet(p, o, n)
  BY <1>2, <1>9, <1>11, <1>12, SetsChan
<1>14. h.to \in Ids /\ h.to \in Nat /\ SlotAt(p, h.to + 1) = o
  <2>1. h.t \in ChanTypes
    BY DEF ChanTypes
  <2>2. h.to = mCh[p][o].id /\ SlotAt(p, h.to + 1) = o /\ mCh[p][o].id \in Ids
    BY <1>1, <1>2, <2>1, FindsChannel
  <2> QED BY <2>2, IdsAre
<1>15. ListTyped' /\ SetsSlot(p, h.to + 1, NoOpen)
  BY <1>11, <1>14, RemovesOne
<1>16. ListInv' /\ LiveInv'
  <2>1. n.st \in Gone
    BY <1>9 DEF Gone
  <2> QED BY <1>2, <1>11, <1>13, <1>14, <1>15, <2>1, ListDrops
<1>17. n.st \in OpenStates /\ n.st # "open" /\ Answered(n.st, <<"failure">>) /\ "failure" \in MuxAnswers
  BY <1>9 DEF OpenStates, Answered, MuxAnswers
<1> QED BY <1>1, <1>2, <1>3, <1>4, <1>6, <1>10, <1>13, <1>15, <1>16, <1>17, GotAnswer

(* An end changes with the packet that it takes, and sends one back.        *)
LEMMA EndTrades ==
    ASSUME MuxInv, NEW p \in MuxSides, NEW o \in Opens, NEW n, EndStep(p, o, n), mUp = "up",
           NEW h, h.o = o, NEW m, m.t = "close", m.o = o, Traded(Peer(p), h, m), mWire' \in [MuxSides -> Seq(MuxPackets)],
           p = Asker(o) => Linked(n, mCh[Server(o)][o], About(p, o) \cup {m}, About(Server(o), o) \ {h}),
           p = Server(o) => Linked(mCh[Asker(o)][o], n, About(Asker(o), o) \ {h}, About(p, o) \cup {m})
    PROVE  MuxInv'
<1>1. /\ o \in MuxNames /\ Asker(o) \in MuxSides /\ Server(o) \in MuxSides /\ Asker(o) # Server(o)
      /\ Peer(Asker(o)) = Server(o) /\ Peer(Server(o)) = Asker(o) /\ (p = Asker(o) \/ p = Server(o))
  BY EndsUp, AskerIs
<1>2. Peer(p) \in MuxSides /\ Peer(p) # p /\ Peer(Peer(p)) = p
  BY Peers
<1>3. /\ About(Peer(p), o)' = About(Peer(p), o) \ {h} /\ About(p, o)' = About(p, o) \cup {m} /\ OrderInv'
      /\ \A r \in MuxSides : \A y : y # o => About(r, y)' = About(r, y)
  BY <1>2 DEF Traded
<1>4. Requests(o)' \subseteq Requests(o) /\ Replies(o)' \subseteq Replies(o)
  <2>1. m.t \notin {"req", "greq", "reply", "greply"}
    OBVIOUS
  <2> QED BY <1>3, <2>1, NoCalls
<1>5. mCh'[p][o] = n /\ mCh'[Peer(p)][o] = mCh[Peer(p)][o]
  BY <1>2 DEF EndStep, ChanSet
<1>6. Linked(mCh[Asker(o)][o], mCh[Server(o)][o], About(Asker(o), o), About(Server(o), o))'
  <2>1. CASE p = Asker(o)
    BY <1>1, <1>3, <1>5, <2>1
  <2>2. CASE p = Server(o)
    BY <1>1, <1>3, <1>5, <2>2
  <2> QED BY <1>1, <2>1, <2>2
<1>7. ChanSet(p, o, n) /\ ListTyped' /\ ListInv' /\ LiveInv'
  BY DEF EndStep
<1>8. mReq' = mReq /\ mMsg' = mMsg /\ mCall' = mCall /\ mLoop' = mLoop /\ mUp' = mUp /\ mPlan' = mPlan
  BY DEF EndStep
<1>9. /\ p = Asker(o) => n.st \in OpenStates /\ Answered(n.st, mMsg[p][o])
      /\ p = Server(o) => n.st \in AcceptStates
      /\ (p = Asker(o) /\ mCh[p][o].st = "open") => (mCh[p][o].shut = "closed" => n.shut = "closed")
      /\ p = Asker(o) => (n.st = "open" <=> mCh[p][o].st = "open")
  BY DEF EndStep
<1> QED BY <1>3, <1>4, <1>6, <1>7, <1>8, <1>9, EndKeeps

(* A close arrives; it is answered unless this end has closed already.      *)
LEMMA GotClose ==
    ASSUME MuxInv, NEW p \in MuxSides, Reading(p), NEW h, h = InHand(p), h.t = "close",
           NEW o, o = h.o, mCh' = [mCh EXCEPT ![p][o].shut = "closed"], mList' = Removed(p, mCh[p][o].id),
           mWire' = [ChanWired(p, o, [t |-> "close", tag |-> 0]) EXCEPT ![Peer(p)] = Tail(@)],
           UNCHANGED <<mReq, mMsg, mLoop, mCall, mUp, mPlan>>
    PROVE  MuxInv'
<1>1. mUp = "up" /\ Sorted(Peer(p), h)
  BY InHandIs
<1>2. /\ o \in Opens /\ o \in MuxNames /\ h \in About(Peer(p), o) /\ h \in MuxPackets
  BY <1>1 DEF Sorted
<1>3. /\ Asker(o) \in MuxSides /\ Server(o) \in MuxSides /\ Asker(o) # Server(o)
      /\ Peer(Asker(o)) = Server(o) /\ Peer(Server(o)) = Asker(o) /\ (p = Asker(o) \/ p = Server(o))
  BY <1>2, AskerIs
<1>4. PICK q : q = Peer(p)
  OBVIOUS
<1>5. q \in MuxSides /\ q # p /\ Peer(q) = p /\ mWire[q] # <<>> /\ h = Head(mWire[q])
  BY <1>4, Peers DEF Reading, InHand
<1>6. ListTyped /\ ChTyped /\ ListInv /\ LiveInv /\ OrderInv /\ mWire \in [MuxSides -> Seq(MuxPackets)]
  BY DEF MuxInv, MuxShape
<1>7. PICK y : y = mCh[p][o]
  OBVIOUS
<1>8. y \in MuxChans
  BY <1>2, <1>6, <1>7 DEF ChTyped
<1>9. PICK n : n = [y EXCEPT !.shut = "closed"]
  OBVIOUS
<1>10. n \in MuxChans /\ n.st = y.st /\ n.id = y.id /\ n.remote = y.remote /\ n.shut = "closed"
  BY <1>8, <1>9 DEF MuxChans
<1>11. mCh' = [mCh EXCEPT ![p][o] = n]
  BY <1>7, <1>9
<1>12. ChanSet(p, o, n)
  BY <1>2, <1>6, <1>10, <1>11, SetsChan
<1>13. y.id \in Ids /\ y.id \in Nat /\ SlotAt(p, y.id + 1) = o
  <2>1. h.t \in ChanTypes
    BY DEF ChanTypes
  <2>2. h.to = mCh[p][o].id /\ SlotAt(p, h.to + 1) = o /\ mCh[p][o].id \in Ids
    BY <1>1, <1>2, <2>1, FindsChannel
  <2> QED BY <1>7, <2>2, IdsAre
<1>14. ListTyped' /\ SetsSlot(p, y.id + 1, NoOpen)
  BY <1>6, <1>7, <1>13, RemovesOne
<1>15. ListInv' /\ LiveInv'
  BY <1>2, <1>6, <1>10, <1>12, <1>13, <1>14, ListDrops
<1>16. EndStep(p, o, n)
  <2>1. p = Asker(o) => n.st \in OpenStates /\ Answered(n.st, mMsg[p][o])
    BY <1>2, <1>7, <1>10, EndsUp
  <2>2. p = Server(o) => n.st \in AcceptStates
    BY <1>2, <1>7, <1>10, EndsUp
  <2> QED BY <1>7, <1>10, <1>12, <1>14, <1>15, <2>1, <2>2 DEF EndStep
<1>17. \A a \in About(q, o) : a = h
  <2>1. PICK w : w = mWire[q]
    OBVIOUS
  <2>2. w \in Seq(MuxPackets) /\ w # <<>> /\ h = w[1] /\ 1 \in 1..Len(w)
    BY <1>5, <1>6, <2>1
  <2>3. \A i, j \in 1..Len(w) : i < j => InTurn(w[i], w[j])
    BY <1>5, <1>6, <2>1 DEF OrderInv, WireOK
  <2>4. ASSUME NEW i \in 1..Len(w), w[i].o = o, i # 1 PROVE FALSE
    <3>1. 1 < i
      BY <2>2, <2>4
    <3> QED BY <2>2, <2>3, <2>4, <3>1 DEF InTurn
  <2> QED BY <2>1, <2>2, <2>4 DEF About, Packets
<1>18. Ends(mCh[Asker(o)][o], mCh[Server(o)][o], About(Asker(o), o), About(Server(o), o))
  BY <1>1, <1>2, EndsUp
<1>19. /\ p = Asker(o) => Linked(n, mCh[Server(o)][o], About(p, o), About(Server(o), o) \ {h})
       /\ p = Server(o) => Linked(mCh[Asker(o)][o], n, About(Asker(o), o) \ {h}, About(p, o))
       /\ y.shut = "no" => \A a \in About(p, o) : a.t # "close"
  <2>1. CASE p = Asker(o)
    <3>1. h \in About(Server(o), o) /\ \A a \in About(Server(o), o) : a = h
      BY <1>2, <1>3, <1>4, <1>17, <2>1
    <3>2. Ends(y, mCh[Server(o)][o], About(p, o), About(Server(o), o))
      BY <1>7, <1>18, <2>1
    <3>3. /\ Linked(n, mCh[Server(o)][o], About(p, o), About(Server(o), o) \ {h})
          /\ y.shut = "no" => \A a \in About(p, o) : a.t # "close"
      BY <1>10, <3>1, <3>2, LinkClosed
    <3> QED BY <1>3, <2>1, <3>3
  <2>2. CASE p = Server(o)
    <3>1. h \in About(Asker(o), o) /\ \A a \in About(Asker(o), o) : a = h
      BY <1>2, <1>3, <1>4, <1>17, <2>2
    <3>2. Ends(mCh[Asker(o)][o], y, About(Asker(o), o), About(p, o))
      BY <1>7, <1>18, <2>2
    <3>3. PICK c : c = mCh[Asker(o)][o]
      OBVIOUS
    <3>4. n.id = y.id /\ n.remote = y.remote /\ n.st = y.st /\ n.shut = "closed"
      BY <1>10
    <3>5. PICK A : A = About(Asker(o), o)
      OBVIOUS
    <3>6. PICK B : B = About(p, o)
      OBVIOUS
    <3>7. Ends(c, y, A, B) /\ h \in A /\ \A a \in A : a = h
      BY <3>1, <3>2, <3>3, <3>5, <3>6
    <3>8. Linked(c, n, A \ {h}, B) /\ (y.shut = "no" => \A a \in B : a.t # "close")
      BY <3>4, <3>7, LinkFarClosed
    <3> QED BY <1>3, <2>2, <3>3, <3>5, <3>6, <3>8
  <2> QED BY <1>3, <2>1, <2>2
<1>20. CASE y.shut # "no"
  <2>1. mWire' = Taken(p)
    BY <1>7, <1>20 DEF ChanWired, Taken
  <2>2. Took(Peer(p), h) /\ mWire' \in [MuxSides -> Seq(MuxPackets)]
    BY <2>1, TakenIs
  <2> QED BY <1>1, <1>2, <1>16, <1>19, <2>2, EndTakes
<1>21. CASE y.shut = "no"
  <2>1. PICK m : m = [t |-> "close", tag |-> 0, o |-> o, to |-> y.remote, my |-> y.id]
    OBVIOUS
  <2>2. m \in MuxPackets /\ m.t = "close" /\ m.o = o /\ m.to = y.remote
    BY <1>2, <1>8, <2>1 DEF MuxPackets, MuxChans, ChanTypes
  <2>3. ChanWired(p, o, [t |-> "close", tag |-> 0]) = [mWire EXCEPT ![p] = Append(@, m)]
    BY <1>1, <1>7, <1>21, <2>1 DEF ChanWired, Wired
  <2>4. PICK u : u = Append(mWire[p], m)
    OBVIOUS
  <2>5. PICK v : v = Tail(mWire[q])
    OBVIOUS
  <2>6. u \in Seq(MuxPackets)
    <3>1. mWire[p] \in Seq(MuxPackets)
      BY <1>6
    <3> QED BY <2>2, <2>4, <3>1
  <2>7. v \in Seq(MuxPackets)
    <3>1. mWire[q] \in Seq(MuxPackets)
      BY <1>5, <1>6
    <3> QED BY <1>5, <2>5, <3>1
  <2>8. PICK f : f = [mWire EXCEPT ![p] = u]
    OBVIOUS
  <2>9. f \in [MuxSides -> Seq(MuxPackets)] /\ f[p] = u /\ f[q] = mWire[q]
    BY <1>5, <1>6, <2>6, <2>8
  <2>10. mWire' = [f EXCEPT ![q] = v]
    BY <1>4, <2>3, <2>4, <2>5, <2>8, <2>9
  <2>11. mWire' \in [MuxSides -> Seq(MuxPackets)] /\ mWire'[p] = u /\ mWire'[q] = v
    BY <1>5, <2>7, <2>9, <2>10
  <2>12. Shrinks(q) /\ Grows(p, m)
    BY <1>5, <2>2, <2>4, <2>5, <2>11 DEF Shrinks, Grows
  <2>13. \A a \in About(p, o) : a.t # m.t /\ a.t # "close"
    BY <1>19, <1>21, <2>2
  <2>14. Traded(q, h, m)
    BY <1>5, <1>6, <2>2, <2>12, <2>13, Trades
  <2>15. p = Asker(o) => Linked(n, mCh[Server(o)][o], About(p, o) \cup {m}, About(Server(o), o) \ {h})
    <3>1. SUFFICES ASSUME p = Asker(o) PROVE Linked(n, mCh[Server(o)][o], About(p, o) \cup {m}, About(Server(o), o) \ {h})
      OBVIOUS
    <3>2. h \in About(Server(o), o) /\ \A a \in About(Server(o), o) : a = h
      BY <1>2, <1>3, <1>4, <1>17, <3>1
    <3>3. Ends(y, mCh[Server(o)][o], About(p, o), About(Server(o), o))
      BY <1>7, <1>18, <3>1
    <3> QED BY <1>10, <1>21, <2>2, <3>2, <3>3, LinkAnswersClose
  <2>16. p = Server(o) => Linked(mCh[Asker(o)][o], n, About(Asker(o), o) \ {h}, About(p, o) \cup {m})
    <3>1. SUFFICES ASSUME p = Server(o) PROVE Linked(mCh[Asker(o)][o], n, About(Asker(o), o) \ {h}, About(p, o) \cup {m})
      OBVIOUS
    <3>2. h \in About(Asker(o), o) /\ \A a \in About(Asker(o), o) : a = h
      BY <1>2, <1>3, <1>4, <1>17, <3>1
    <3>3. Ends(mCh[Asker(o)][o], y, About(Asker(o), o), About(p, o))
      BY <1>7, <1>18, <3>1
    <3> QED BY <1>10, <1>21, <2>2, <3>2, <3>3, LinkFarAnswersClose
  <2> QED BY <1>1, <1>2, <1>4, <1>16, <2>2, <2>11, <2>14, <2>15, <2>16, EndTrades
<1> QED BY <1>20, <1>21

(* handlePacket: the id finds the packet's own channel, so that no answer   *)
(* comes to a decided open.                                                 *)
LEMMA HandlePacketKeeps ==
    ASSUME MuxInv, NEW p \in MuxSides, HandlePacket(p)
    PROVE  MuxInv'
<1>1. PICK h : h = InHand(p)
  OBVIOUS
<1>2. PICK o : o = h.o
  OBVIOUS
<1>3. Reading(p) /\ h.t \in ChanTypes /\ UNCHANGED <<mCall, mUp, mPlan>>
  BY <1>1 DEF HandlePacket, ChanTypes
<1>4. mUp = "up" /\ Sorted(Peer(p), h)
  BY <1>1, <1>3, InHandIs
<1>5. o \in Opens /\ o \in MuxNames /\ h \in About(Peer(p), o)
  BY <1>2, <1>3, <1>4 DEF Sorted, ChanTypes
<1>6. GetChan(p, h.to) = o /\ o # NoOpen
  BY <1>3, <1>4, <1>5, FindsChannel
<1>7. h.t \in {"confirm", "failure"} => Undecided(p, o)
  <2>1. SUFFICES ASSUME h.t \in {"confirm", "failure"} PROVE Undecided(p, o)
    OBVIOUS
  <2>2. Peer(p) = Server(o)
    BY <1>2, <1>4, <2>1 DEF Sorted
  <2>3. p = Asker(o)
    BY <1>5, <2>2, Peers, AskerIs
  <2>4. Ends(mCh[p][o], mCh[Server(o)][o], About(p, o), About(Server(o), o))
    BY <1>4, <1>5, <2>3, EndsUp
  <2>5. mCh[p][o].st = "opening"
    BY <1>5, <2>1, <2>2, <2>4 DEF Ends, Linked, ToOpener
  <2>6. Opener[o] = p
    BY <1>5, <2>3, AskerIs
  <2> QED BY <2>5, <2>6 DEF Undecided
<1>8. CASE h.t = "confirm"
  <2>1. /\ mCh' = [mCh EXCEPT ![p][o].st = "confirmed", ![p][o].remote = h.my]
        /\ mMsg' = [mMsg EXCEPT ![p][o] = Append(@, "confirm")] /\ mWire' = Taken(p) /\ UNCHANGED <<mList, mReq, mLoop>>
    BY <1>1, <1>6, <1>7, <1>8 DEF HandlePacket
  <2> QED BY <1>1, <1>2, <1>3, <1>8, <2>1, GotConfirm
<1>9. CASE h.t = "failure"
  <2>1. /\ mList' = Removed(p, h.to) /\ mCh' = [mCh EXCEPT ![p][o].st = "refused"]
        /\ mMsg' = [mMsg EXCEPT ![p][o] = Append(@, "failure")] /\ mWire' = Taken(p) /\ UNCHANGED <<mReq, mLoop>>
    BY <1>1, <1>6, <1>7, <1>9 DEF HandlePacket
  <2> QED BY <1>1, <1>2, <1>3, <1>9, <2>1, GotFailure
<1>10. CASE h.t = "close"
  <2>1. /\ mWire' = [ChanWired(p, o, [t |-> "close", tag |-> 0]) EXCEPT ![Peer(p)] = Tail(@)]
        /\ mList' = Removed(p, mCh[p][o].id) /\ mCh' = [mCh EXCEPT ![p][o].shut = "closed"]
        /\ UNCHANGED <<mReq, mMsg, mLoop>>
    BY <1>1, <1>6, <1>10 DEF HandlePacket
  <2> QED BY <1>1, <1>2, <1>3, <1>10, <2>1, GotClose
<1>11. CASE h.t = "req"
  <2>1. mReq' = [mReq EXCEPT ![p][o] = Append(@, h.tag)] /\ mWire' = Taken(p) /\ UNCHANGED <<mList, mCh, mMsg, mLoop>>
    BY <1>1, <1>6, <1>11 DEF HandlePacket
  <2> QED BY <1>1, <1>2, <1>3, <1>11, <2>1, GotRequest
<1>12. CASE h.t = "reply"
  <2>1. mMsg' = [mMsg EXCEPT ![p][o] = Append(@, h.tag)] /\ mWire' = Taken(p) /\ UNCHANGED <<mList, mCh, mReq, mLoop>>
    BY <1>1, <1>6, <1>12 DEF HandlePacket
  <2> QED BY <1>1, <1>2, <1>3, <1>12, <2>1, GotReply
<1> QED BY <1>3, <1>8, <1>9, <1>10, <1>11, <1>12 DEF ChanTypes

------------------------------------------------------------------------------
(* The end of the connection.                                               *)

GoesDown(x) ==
    /\ mUp' = "down" /\ \A q \in MuxSides : Emptied(q)
    /\ mReq' = mReq /\ mMsg' = mMsg /\ mCall' = mCall
    /\ mLoop["s"] = "done" => mLoop'["s"] = "done"
    /\ x \in Opens => \A q \in MuxSides :
          mCh'[q][x].st = mCh[q][x].st /\ (mCh[q][x].shut = "closed" => mCh'[q][x].shut = "closed")

(* What is known of a name when the connection goes down.                   *)
LEMMA DownKept ==
    ASSUME NEW x \in MuxNames, NameInv(x), GoesDown(x)
    PROVE  NameInv(x)'
<1>1. Asker(x) \in MuxSides /\ Server(x) \in MuxSides
  BY AskerIs
<1>2. PICK a : a = Asker(x)
  OBVIOUS
<1>3. PICK b : b = Server(x)
  OBVIOUS
<1>4. a \in MuxSides /\ b \in MuxSides
  BY <1>1, <1>2, <1>3
<1>5. \A q \in MuxSides : Packets(q)' = {}
  BY EmptiedIs DEF GoesDown
<1>6. \A q \in MuxSides : About(q, x)' = {}
  BY <1>5 DEF About
<1>7. x \in Opens => LinkInv(x)'
  <2>1. SUFFICES ASSUME x \in Opens PROVE LinkInv(x)'
    OBVIOUS
  <2>2. LinkInv(x) /\ mUp' # "up" /\ mMsg' = mMsg
    BY <2>1 DEF NameInv, GoesDown
  <2>3. mCh'[a][x].st = mCh[a][x].st /\ mCh'[b][x].st = mCh[b][x].st
    BY <1>4, <2>1 DEF GoesDown
  <2> QED BY <1>2, <1>3, <2>2, <2>3 DEF LinkInv
<1>8. x = Global => GlobalInv'
  BY <1>6 DEF GlobalInv, MuxSides
<1>9. Ready(x)' = Ready(x) /\ (Over(x) => Over(x)')
  <2>1. x # Global => x \in Opens
    BY DEF MuxNames
  <2> QED BY <1>1, <2>1 DEF Ready, Over, GoesDown
<1>10. Waiting(x)' = Waiting(x)
  BY DEF Waiting, CallsOf, GoesDown
<1>11. Awaited(x) \subseteq Awaited(x)'
  BY <1>9 DEF Awaited, CallsOf, GoesDown
<1>12. Requests(x)' = {} /\ Replies(x)' = {}
  BY <1>1, <1>6 DEF Requests, Replies
<1>13. Served(x)' = Served(x) /\ Answer(x)' = Answer(x)
  BY DEF Served, Answer, GoesDown
<1>14. CallInv(x)
  BY DEF NameInv
<1>15. Tokens(Waiting(x), Awaited(x), Requests(x), Served(x), Replies(x), Answer(x))
         => Tokens(Waiting(x), Awaited(x)', {}, Served(x), {}, Answer(x))
  BY <1>11 DEF Tokens, OnePlace
<1>16. Ready(x)' => Tokens(Waiting(x)', Awaited(x)', Requests(x)', Served(x)', Replies(x)', Answer(x)')
  BY <1>9, <1>10, <1>12, <1>13, <1>14, <1>15 DEF CallInv
<1>17. mReq'[a][x] = <<>> /\ mMsg'[b][x] = <<>>
  BY <1>2, <1>3, <1>14 DEF CallInv, GoesDown
<1>18. CallInv(x)'
  BY <1>2, <1>3, <1>9, <1>10, <1>13, <1>14, <1>16, <1>17 DEF CallInv
<1> QED BY <1>7, <1>8, <1>18 DEF NameInv

(* The transport fails.                                                     *)
LEMMA MuxConnLostKeeps ==
    ASSUME MuxInv, MuxConnLost
    PROVE  MuxInv'
<1>1. /\ mUp' = "down" /\ mWire' = [p \in MuxSides |-> <<>>]
      /\ mList' = mList /\ mCh' = mCh /\ mReq' = mReq /\ mMsg' = mMsg /\ mCall' = mCall /\ mLoop' = mLoop /\ mPlan' = mPlan
  BY DEF MuxConnLost
<1>2. \A q \in MuxSides : mWire'[q] = <<>>
  BY <1>1
<1>3. \A q \in MuxSides : Emptied(q)
  BY <1>2 DEF Emptied
<1>4. <<>> \in Seq(MuxPackets)
  OBVIOUS
<1>5. mWire' \in [MuxSides -> Seq(MuxPackets)]
  BY <1>1, <1>4
<1>6. MuxShape'
  BY <1>1, <1>5 DEF MuxInv, MuxShape, ListTyped, ChTyped
<1>7. UpInv'
  BY <1>1, <1>2 DEF UpInv
<1>8. \A p \in MuxSides, i \in Slots : ListedOK(p, i) => ListedOK(p, i)'
  BY <1>1 DEF ListedOK, SlotAt
<1>9. ListInv'
  BY <1>8 DEF MuxInv, ListInv
<1>10. LiveInv'
  BY <1>1 DEF LiveInv
<1>11. OrderInv'
  BY <1>3, EmptiedIs DEF OrderInv
<1>12. \A x \in MuxNames : GoesDown(x)
  BY <1>1, <1>3 DEF GoesDown
<1>13. \A x \in MuxNames : NameInv(x)'
  BY <1>12, DownKept DEF MuxInv
<1> QED BY <1>6, <1>7, <1>9, <1>10, <1>11, <1>13 DEF MuxInv

(* The end of loop: dropAll.                                                *)
LEMMA LoopEndsKeeps ==
    ASSUME MuxInv, NEW p \in MuxSides, LoopEnds(p)
    PROVE  MuxInv'
<1>1. /\ mCh' = [mCh EXCEPT ![p] = DropAll(p)] /\ mList' = [mList EXCEPT ![p] = <<>>]
      /\ mLoop' = [mLoop EXCEPT ![p] = "done"] /\ mUp' = "down" /\ mWire' = [q \in MuxSides |-> <<>>]
      /\ mReq' = mReq /\ mMsg' = mMsg /\ mCall' = mCall /\ mPlan' = mPlan
  BY DEF LoopEnds
<1>2. /\ mCh \in [MuxSides -> [Opens -> MuxChans]] /\ mList \in [MuxSides -> Seq(Opens \cup {NoOpen})]
      /\ mLoop \in [MuxSides -> {"run", "done"}]
  BY DEF MuxInv, MuxShape, ListTyped, ChTyped
<1>3. mUp = "down"
  BY <1>2 DEF LoopEnds
<1>4. \A q \in MuxSides : mWire'[q] = <<>>
  BY <1>1
<1>5. \A q \in MuxSides : Emptied(q)
  BY <1>4 DEF Emptied
<1>6. PICK d : d = DropAll(p)
  OBVIOUS
<1>7. \A o \in Opens : /\ d[o] \in MuxChans /\ d[o].st = mCh[p][o].st
                       /\ (mCh[p][o].shut = "closed" => d[o].shut = "closed")
  <2>1. SUFFICES ASSUME NEW o \in Opens
                 PROVE  /\ d[o] \in MuxChans /\ d[o].st = mCh[p][o].st
                        /\ (mCh[p][o].shut = "closed" => d[o].shut = "closed")
    OBVIOUS
  <2>2. PICK y : y = mCh[p][o]
    OBVIOUS
  <2>3. y \in MuxChans
    BY <1>2, <2>2
  <2>4. d[o] = [y EXCEPT !.shut = "closed"] \/ d[o] = y
    BY <1>6, <2>1, <2>2 DEF DropAll
  <2> QED BY <2>2, <2>3, <2>4 DEF MuxChans
<1>8. d \in [Opens -> MuxChans]
  <2>1. d = [o \in Opens |-> d[o]]
    BY <1>6 DEF DropAll
  <2> QED BY <1>7, <2>1
<1>9. mCh' \in [MuxSides -> [Opens -> MuxChans]] /\ mCh'[p] = d /\ \A q \in MuxSides : q # p => mCh'[q] = mCh[q]
  <2>1. mCh' = [mCh EXCEPT ![p] = d]
    BY <1>1, <1>6
  <2> QED BY <1>2, <1>8, <2>1
<1>10. mList' \in [MuxSides -> Seq(Opens \cup {NoOpen})] /\ mList'[p] = <<>> /\ \A q \in MuxSides : q # p => mList'[q] = mList[q]
  <2>1. <<>> \in Seq(Opens \cup {NoOpen})
    OBVIOUS
  <2>2. PICK e : e = <<>>
    OBVIOUS
  <2>3. mList' = [mList EXCEPT ![p] = e] /\ e \in Seq(Opens \cup {NoOpen})
    BY <1>1, <2>1, <2>2
  <2>4. PICK S : S = Seq(Opens \cup {NoOpen})
    OBVIOUS
  <2> QED BY <1>2, <2>2, <2>3, <2>4
<1>11. mLoop' \in [MuxSides -> {"run", "done"}] /\ (mLoop["s"] = "done" => mLoop'["s"] = "done")
  <2>1. "s" \in MuxSides
    BY DEF MuxSides
  <2> QED BY <1>1, <1>2, <2>1
<1>12. mWire' \in [MuxSides -> Seq(MuxPackets)]
  <2>1. <<>> \in Seq(MuxPackets)
    OBVIOUS
  <2> QED BY <1>1, <2>1
<1>13. MuxShape'
  BY <1>1, <1>9, <1>10, <1>11, <1>12 DEF MuxInv, MuxShape, ListTyped, ChTyped
<1>14. UpInv'
  BY <1>1, <1>4 DEF UpInv
<1>15. ASSUME NEW q \in MuxSides, NEW i \in Slots PROVE ListedOK(q, i)'
  <2>1. CASE q = p
    <3>1. i \notin 1..Len(mList'[q])
      <4>1. Len(mList'[q]) = 0
        BY <1>10, <2>1
      <4> QED BY <4>1
    <3>2. SlotAt(q, i)' = NoOpen
      BY <3>1 DEF SlotAt
    <3> QED BY <3>2 DEF ListedOK
  <2>2. CASE q # p
    <3>1. mCh'[q] = mCh[q] /\ mList'[q] = mList[q]
      BY <1>9, <1>10, <2>2
    <3>2. ListedOK(q, i)
      BY <1>15 DEF MuxInv, ListInv
    <3> QED BY <1>1, <3>1, <3>2 DEF ListedOK, SlotAt
  <2> QED BY <2>1, <2>2
<1>16. ListInv'
  BY <1>15 DEF ListInv
<1>17. LiveInv'
  BY <1>1 DEF LiveInv
<1>18. OrderInv'
  BY <1>5, EmptiedIs DEF OrderInv
<1>19. ASSUME NEW x \in MuxNames PROVE GoesDown(x)
  <2>1. ASSUME x \in Opens, NEW q \in MuxSides
        PROVE  mCh'[q][x].st = mCh[q][x].st /\ (mCh[q][x].shut = "closed" => mCh'[q][x].shut = "closed")
    BY <1>7, <1>9, <2>1
  <2> QED BY <1>1, <1>5, <1>11, <2>1 DEF GoesDown
<1>20. \A x \in MuxNames : NameInv(x)'
  BY <1>19, DownKept DEF MuxInv
<1> QED BY <1>13, <1>14, <1>16, <1>17, <1>18, <1>20 DEF MuxInv

------------------------------------------------------------------------------
(* A new connection.                                                        *)
LEMMA MuxInitInv == MuxInit => MuxInv
<1>1. SUFFICES ASSUME MuxInit PROVE MuxInv
  OBVIOUS
<1>2. PICK ch : ch = [st |-> "none", id |-> 0, remote |-> 0, shut |-> "no"]
  OBVIOUS
<1>3. /\ mList = [p \in MuxSides |-> <<>>] /\ mWire = [p \in MuxSides |-> <<>>]
      /\ mCh = [p \in MuxSides |-> [o \in Opens |-> ch]]
      /\ mReq = [p \in MuxSides |-> [o \in MuxNames |-> <<>>]]
      /\ mMsg = [p \in MuxSides |-> [o \in MuxNames |-> <<>>]]
      /\ mCall = [k \in Callers |-> "new"] /\ mLoop = [p \in MuxSides |-> "run"] /\ mUp = "up" /\ mPlan \in Plans
  BY <1>1, <1>2 DEF MuxInit, MuxNames
<1>4. <<>> \in Seq(Opens \cup {NoOpen}) /\ <<>> \in Seq(MuxPackets) /\ <<>> \in Seq(Callers) /\ <<>> \in Seq(Callers \cup MuxAnswers)
  OBVIOUS
<1>5. ch \in MuxChans
  BY <1>2, IdsAre DEF MuxChans, OpenStates
<1>6. ListTyped /\ ChTyped /\ mWire \in [MuxSides -> Seq(MuxPackets)]
  BY <1>3, <1>4, <1>5 DEF ListTyped, ChTyped
<1>7. mReq \in [MuxSides -> [MuxNames -> Seq(Callers)]] /\ mMsg \in [MuxSides -> [MuxNames -> Seq(Callers \cup MuxAnswers)]]
  BY <1>3, <1>4
<1>8. mPlan \subseteq Opens \cup Callers
  BY <1>3, MuxConstants
<1>9. MuxShape
  BY <1>3, <1>6, <1>7, <1>8 DEF MuxShape
<1>10. UpInv
  BY <1>3 DEF UpInv
<1>11. ASSUME NEW p \in MuxSides, NEW i \in Slots PROVE SlotAt(p, i) = NoOpen
  <2>1. mList[p] = <<>>
    BY <1>3
  <2>2. i \notin 1..Len(mList[p])
    BY <2>1
  <2> QED BY <2>2 DEF SlotAt
<1>12. ListInv
  BY <1>11 DEF ListInv, ListedOK
<1>13. \A p \in MuxSides, o \in Opens : mCh[p][o] = ch
  BY <1>3
<1>14. LiveInv
  BY <1>2, <1>13 DEF LiveInv
<1>15. ASSUME NEW q \in MuxSides PROVE WireOK(q) /\ Packets(q) = {}
  <2>1. mWire[q] = <<>>
    BY <1>3
  <2>2. \A i \in 1..Len(mWire[q]) : FALSE
    BY <2>1
  <2> QED BY <1>4, <2>1, <2>2 DEF WireOK, Packets
<1>16. OrderInv
  BY <1>15 DEF OrderInv
<1>17. ASSUME NEW x \in MuxNames PROVE NameInv(x)
  <2>1. Asker(x) \in MuxSides /\ Server(x) \in MuxSides
    BY AskerIs
  <2>2. \A q \in MuxSides : About(q, x) = {}
    BY <1>15 DEF About
  <2>3. \A q \in MuxSides : mReq[q][x] = <<>> /\ mMsg[q][x] = <<>>
    BY <1>3
  <2>4. ASSUME x \in Opens PROVE LinkInv(x)
    <3>1. mCh[Asker(x)][x] = ch /\ mCh[Server(x)][x] = ch /\ mMsg[Asker(x)][x] = <<>>
      BY <1>13, <2>1, <2>3, <2>4
    <3>2. About(Asker(x), x) = {} /\ About(Server(x), x) = {}
      BY <2>1, <2>2
    <3>3. ch.st = "none" /\ ch.shut = "no"
      BY <1>2
    <3>4. EndsOK(ch, ch) /\ ConfirmComes(ch, ch, {})
      BY <3>3 DEF EndsOK, ConfirmComes
    <3>5. Linked(ch, ch, {}, {})
      BY <3>4 DEF Linked
    <3> QED BY <3>1, <3>2, <3>3, <3>5 DEF LinkInv, Answered, OpenStates, AcceptStates
  <2>5. ASSUME x = Global PROVE GlobalInv
    BY <2>2, <2>5 DEF GlobalInv, MuxSides
  <2>6. Waiting(x) = {}
    BY <1>3 DEF Waiting, CallsOf
  <2>7. Requests(x) = {} /\ Replies(x) = {} /\ Served(x) = <<>> /\ Answer(x) = <<>>
    BY <2>1, <2>2, <2>3 DEF Requests, Replies, Served, Answer
  <2>8. CallInv(x)
    BY <2>1, <2>3, <2>6, <2>7 DEF CallInv, Tokens, OnePlace
  <2> QED BY <2>4, <2>5, <2>8 DEF NameInv
<1> QED BY <1>9, <1>10, <1>12, <1>14, <1>16, <1>17 DEF MuxInv

(* Steps of others.                                                         *)
LEMMA MuxStays ==
    ASSUME MuxInv, UNCHANGED muxVars
    PROVE  MuxInv'
<1>1. /\ mPlan' = mPlan /\ mList' = mList /\ mCh' = mCh /\ mWire' = mWire /\ mReq' = mReq /\ mMsg' = mMsg
      /\ mCall' = mCall /\ mLoop' = mLoop /\ mUp' = mUp
  BY DEF muxVars
<1>2. MuxShape' /\ UpInv'
  BY <1>1 DEF MuxInv, MuxShape, UpInv, ListTyped, ChTyped
<1>3. ListInv' /\ LiveInv'
  BY <1>1 DEF MuxInv, ListInv, LiveInv, ListedOK, SlotAt
<1>4. \A q \in MuxSides : Still(q)
  BY <1>1 DEF Still
<1>5. \A q \in MuxSides : WireOK(q)' /\ Packets(q)' = Packets(q)
  BY <1>4, StillIs DEF MuxInv, OrderInv
<1>6. \A x \in MuxNames : SameAt(x)
  BY <1>1, <1>5 DEF SameAt, About
<1>7. \A x \in MuxNames : NameInv(x)'
  BY <1>6, SameKept DEF MuxInv
<1> QED BY <1>2, <1>3, <1>5, <1>7 DEF MuxInv, OrderInv

(* Every step keeps the invariant.                                          *)
LEMMA MuxNextInv == MuxInv /\ [MuxNext]_muxVars => MuxInv'
<1>1. SUFFICES ASSUME MuxInv, [MuxNext]_muxVars PROVE MuxInv'
  OBVIOUS
<1>2. CASE UNCHANGED muxVars
  BY <1>1, <1>2, MuxStays
<1>3. ASSUME NEW o \in Opens, OpenChannel(o) \/ OpenReturns(o) PROVE MuxInv'
  BY <1>1, <1>3, OpenChannelKeeps, OpenReturnsKeeps
<1>4. ASSUME NEW k \in Callers, SendRequest(k) \/ RequestReturns(k) PROVE MuxInv'
  BY <1>1, <1>4, SendRequestKeeps, RequestReturnsKeeps
<1>5. ASSUME NEW p \in MuxSides, LoopSteps(p) PROVE MuxInv'
  <2>1. CASE HandleChannelOpen(p)
    BY <1>1, <2>1, HandleChannelOpenKeeps
  <2>2. CASE HandleGlobalPacket(p)
    BY <1>1, <2>2, HandleGlobalPacketKeeps
  <2>3. CASE HandlePacket(p)
    BY <1>1, <2>3, HandlePacketKeeps
  <2>4. CASE LoopEnds(p)
    BY <1>1, <2>4, LoopEndsKeeps
  <2> QED BY <1>5, <2>1, <2>2, <2>3, <2>4 DEF LoopSteps
<1>6. ASSUME NEW p \in MuxSides, ServeSteps(p) PROVE MuxInv'
  <2>1. ASSUME NEW o \in Opens, Accept(p, o) PROVE MuxInv'
    <3>1. /\ mCh[p][o].st = "offered" /\ mCh' = [mCh EXCEPT ![p][o].st = "open"]
          /\ mWire' = ChanWired(p, o, [t |-> "confirm", tag |-> 0])
          /\ UNCHANGED <<mList, mReq, mMsg, mCall, mLoop, mUp, mPlan>>
      BY <2>1 DEF Accept
    <3> QED BY <1>1, <2>1, <3>1, DecideKeeps
  <2>2. ASSUME NEW o \in Opens, Reject(p, o) PROVE MuxInv'
    <3>1. /\ mCh[p][o].st = "offered" /\ mCh' = [mCh EXCEPT ![p][o].st = "rejected"]
          /\ mWire' = ChanWired(p, o, [t |-> "failure", tag |-> 0])
          /\ UNCHANGED <<mList, mReq, mMsg, mCall, mLoop, mUp, mPlan>>
      BY <2>2 DEF Reject
    <3> QED BY <1>1, <2>2, <3>1, DecideKeeps
  <2>3. ASSUME NEW x \in MuxNames, Reply(p, x) PROVE MuxInv'
    BY <1>1, <2>3, ReplyKeeps
  <2> QED BY <1>6, <2>1, <2>2, <2>3 DEF ServeSteps, MuxNames
<1>7. ASSUME NEW p \in MuxSides, NEW o \in Opens, MuxClose(p, o) PROVE MuxInv'
  BY <1>1, <1>7, MuxCloseKeeps
<1>8. CASE MuxConnLost
  BY <1>1, <1>8, MuxConnLostKeeps
<1> QED BY <1>1, <1>2, <1>3, <1>4, <1>5, <1>6, <1>7, <1>8 DEF MuxNext

(* What the invariant says of the packets on the way and of the lists.      *)
LEMMA RoutedIs ==
    ASSUME MuxInv, NEW p \in MuxSides, NEW i \in 1..Len(mWire[Peer(p)]), mWire[Peer(p)][i].t \in ChanTypes
    PROVE  GetChan(p, mWire[Peer(p)][i].to) = mWire[Peer(p)][i].o
<1>1. PICK q : q = Peer(p)
  OBVIOUS
<1>2. PICK m : m = mWire[q][i]
  OBVIOUS
<1>3. q \in MuxSides /\ m \in Packets(q) /\ mWire[q] \in Seq(MuxPackets)
  BY <1>1, <1>2, Peers DEF Packets, MuxInv, OrderInv, WireOK
<1>4. mUp = "up"
  <2>1. mWire[q] # <<>>
    BY <1>1
  <2> QED BY <1>3, <2>1 DEF MuxInv, MuxShape, UpInv
<1>5. m \in MuxPackets
  BY <1>1, <1>2, <1>3
<1>6. PICK x : x = m.o
  OBVIOUS
<1>7. x \in MuxNames /\ m \in About(q, x)
  BY <1>3, <1>5, <1>6 DEF About, MuxPackets
<1>8. x # Global
  <2>1. SUFFICES ASSUME x = Global PROVE FALSE
    OBVIOUS
  <2>2. GlobalInv
    BY <2>1, SidesAre DEF MuxInv, NameInv
  <2>3. m.t \in {"greq", "greply"}
    BY <1>3, <1>7, <2>1, <2>2 DEF GlobalInv, MuxSides
  <2> QED BY <1>1, <1>2, <2>3 DEF ChanTypes
<1>9. x \in Opens
  BY <1>7, <1>8 DEF MuxNames
<1>10. m \in About(Peer(p), x) /\ m.t \in ChanTypes
  BY <1>1, <1>2, <1>7
<1>11. GetChan(p, m.to) = x
  BY <1>4, <1>9, <1>10, FindsChannel
<1> QED BY <1>1, <1>2, <1>6, <1>11

(* What is in the list.                                                     *)
LEMMA ListedIs ==
    ASSUME MuxInv, NEW p \in MuxSides, NEW i \in 1..Len(mList[p])
    PROVE  mList[p][i] \in Opens \cup {NoOpen} /\ i \in Slots /\ SlotAt(p, i) = mList[p][i] /\ ListedOK(p, i)
<1>1. mList[p] \in Seq(Opens \cup {NoOpen})
  BY DEF MuxInv, MuxShape, ListTyped
<1>2. mList[p][i] \in Opens \cup {NoOpen} /\ i \in Slots
  BY <1>1 DEF Slots
<1> QED BY <1>2 DEF SlotAt, MuxInv, ListInv

(* The types of the state.                                                  *)
LEMMA MuxInvTyped == MuxInv => MuxTypeOK
<1>1. SUFFICES ASSUME MuxInv PROVE MuxTypeOK
  OBVIOUS
<1>2. \A p \in MuxSides : \A i \in 1..Len(mList[p]) : mList[p][i] \in Opens \cup {NoOpen}
  BY <1>1, ListedIs
<1>3. \A p \in MuxSides, o \in Opens : mCh[p][o] \in MuxChans
  BY <1>1 DEF MuxInv, MuxShape, ChTyped
<1>4. \A p \in MuxSides, o \in Opens :
        /\ mCh[p][o].st \in {"none", "opening", "confirmed", "refused", "offered", "open", "rejected", "failed"}
        /\ mCh[p][o].shut \in {"no", "sent", "closed"}
        /\ mCh[p][o].id \in 0..Cardinality(Opens) /\ mCh[p][o].remote \in 0..Cardinality(Opens)
  BY <1>3 DEF MuxChans, Ids, OpenStates, AcceptStates
<1>5. CallInv(Global) /\ Ready(Global)
  BY <1>1, SidesAre DEF MuxInv, NameInv, Ready
<1>6. PICK a : a = mMsg["s"][Global]
  OBVIOUS
<1>7. a \in Seq(Callers \cup MuxAnswers)
  BY <1>1, <1>6, SidesAre DEF MuxInv, MuxShape, MuxSides
<1>8. a # <<>> => Tail(a) = <<>>
  BY <1>5, <1>6, SidesAre DEF CallInv, Tokens, OnePlace, Answer
<1>9. Len(a) <= 1
  BY <1>7, <1>8
<1>10. mMsg["c"][Global] = <<>>
  BY <1>5, SidesAre DEF CallInv
<1>11. \A p \in MuxSides : Len(mMsg[p][Global]) <= 1
  BY <1>6, <1>9, <1>10 DEF MuxSides
<1>12. /\ mCall \in [Callers -> {"new", "sent", "answered", "failed", "confused"}]
       /\ mLoop \in [MuxSides -> {"run", "protocolError", "done"}] /\ mUp \in {"up", "down"}
  BY <1>1 DEF MuxInv, MuxShape
<1> QED BY <1>2, <1>4, <1>11, <1>12 DEF MuxTypeOK

(* The safety of the multiplexer follows.                                   *)
LEMMA MuxInvSound == MuxInv => MuxSound
<1>1. SUFFICES ASSUME MuxInv PROVE MuxSound
  OBVIOUS
<1>2. MuxRouted
  BY <1>1, RoutedIs DEF MuxRouted, ChanTypes
<1>3. MuxReplyMatched /\ MuxNoProtocolError
  BY <1>1 DEF MuxReplyMatched, MuxNoProtocolError, MuxInv, MuxShape
<1>4. MuxSlotsFreed
  BY <1>1, ListedIs DEF MuxSlotsFreed, ListedOK
<1> QED BY <1>2, <1>3, <1>4 DEF MuxSound

(* Whatever opens, accepts, refusals, closes, requests and replies cross on *)
(* the way, on both ends of mux.go and for any number of channels and       *)
(* calls: the id of every packet on the way finds the other end of its own  *)
(* channel although ids are reused, no SendRequest takes the answer to      *)
(* another, no loop ends with a protocol error, and the list holds no       *)
(* channel that is over.                                                    *)
THEOREM MuxIsSound == MuxSpec => [](MuxTypeOK /\ MuxSound)
<1>1. MuxInit => MuxInv
  BY MuxInitInv
<1>2. MuxInv /\ [MuxNext]_muxVars => MuxInv'
  BY MuxNextInv
<1>3. MuxInv => MuxTypeOK /\ MuxSound
  BY MuxInvTyped, MuxInvSound
<1> QED BY <1>1, <1>2, <1>3, PTL DEF MuxSpec

------------------------------------------------------------------------------
(* Remote forwards.                                                         *)

FwMsgs == [conn : {0} \cup FwConns, ok : BOOLEAN, addr : FwAddrs \cup {FwBad}]

(* What the variables hold.                                                 *)
FwTypes ==
    /\ fwLn = [l \in FwListeners |-> fwLn[l]] /\ fwLaddr = [l \in FwListeners |-> fwLaddr[l]]
    /\ fwReq \in FwListeners \cup {FwNone}
    /\ fwConn = [i \in FwConns |-> fwConn[i]] /\ fwTo = [i \in FwConns |-> fwTo[i]]
    /\ fwTaken \in [FwKinds -> {0} \cup FwConns] /\ fwHolder \in FwKinds \cup {FwNone}
    /\ fwEntries \in Seq(FwListeners) /\ fwIn \in [FwListeners -> Seq(FwConns)]
    /\ fwShut = [l \in FwListeners |-> fwShut[l]]

(* The queues that a channel goes through before a forward takes it.        *)
FwQueues ==
    /\ fwWire \in Seq(FwMsgs) /\ fwIncoming \in Seq(FwConns) /\ Len(fwIncoming) <= FwChanSize
    /\ fwHandler \in [FwKinds -> Seq(FwConns)]
    /\ \A n \in 1..Len(fwWire) : fwWire[n].conn # 0 => fwConn[fwWire[n].conn] # "none"
    /\ \A n \in 1..Len(fwIncoming) : fwConn[fwIncoming[n]] # "none"
    /\ \A k \in FwKinds : \A n \in 1..Len(fwHandler[k]) : fwConn[fwHandler[k][n]] # "none"

(* One global request is under way at a time, and only its answer is.       *)
FwReqInv ==
    /\ fwReq # FwNone => fwLn[fwReq] \in {"asking", "cancelling"}
    /\ \A n \in 1..Len(fwWire) : fwWire[n].conn = 0 =>
         /\ fwReq # FwNone /\ fwAnswered
         /\ \A m \in 1..Len(fwWire) : fwWire[m].conn = 0 => m = n

(* A listener whose address does not change any more.                       *)
FwLive(l) == fwLn[l] \in {"open", "removing", "cancelling", "closed"}

(* The list holds live listeners, each once and with an open channel; only  *)
(* live listeners have been given channels, and for their address.          *)
FwListInv ==
    /\ \A n \in 1..Len(fwEntries) : FwLive(fwEntries[n]) /\ ~fwShut[fwEntries[n]]
    /\ \A n, m \in 1..Len(fwEntries) : fwEntries[n] = fwEntries[m] => n = m
    /\ \A l \in FwListeners : fwShut[l] => FwLive(l)
    /\ \A l \in FwListeners : \A n \in 1..Len(fwIn[l]) :
         FwLive(l) /\ fwConn[fwIn[l][n]] # "none" /\ fwTo[fwIn[l][n]] = fwLaddr[l]

(* What a kind has in hand has been opened, and a forward that waits has    *)
(* found its listener in the list.                                          *)
FwHoldInv ==
    /\ \A k \in FwKinds : fwTaken[k] # 0 => fwConn[fwTaken[k]] # "none"
    /\ fwHolder # FwNone =>
         /\ fwTaken[fwHolder] # 0
         /\ \E n \in 1..Len(fwEntries) : fwLaddr[fwEntries[n]] = fwTo[fwTaken[fwHolder]]

FwInv == FwTypes /\ FwQueues /\ FwReqInv /\ FwListInv /\ FwHoldInv

(* What most steps leave alone: addresses of live listeners and channels    *)
(* that have been opened.                                                   *)
FwKeeps ==
    /\ \A l \in FwListeners : FwLive(l) => FwLive(l)' /\ fwLaddr'[l] = fwLaddr[l]
    /\ \A i \in FwConns : fwConn[i] # "none" => fwConn'[i] # "none" /\ fwTo'[i] = fwTo[i]

(* FwEntryAt finds an entry with the address if there is one.               *)
LEMMA FwEntryAtIs ==
    ASSUME fwEntries \in Seq(FwListeners), NEW a
    PROVE  \/ FwEntryAt(a) = 0 /\ \A n \in 1..Len(fwEntries) : fwLaddr[fwEntries[n]] # a
           \/ FwEntryAt(a) \in 1..Len(fwEntries) /\ fwLaddr[fwEntries[FwEntryAt(a)]] = a
<1>1. PICK I : I = {i \in 1..Len(fwEntries) : fwLaddr[fwEntries[i]] = a}
  OBVIOUS
<1>2. FwEntryAt(a) = IF I # {} THEN Min(I) ELSE 0
  BY <1>1 DEF FwEntryAt, SelectInSeq
<1>3. CASE I = {}
  BY <1>1, <1>2, <1>3
<1>4. CASE I # {}
  <2>1. I \subseteq Nat
    BY <1>1
  <2>2. \E x \in I : \A y \in I : x <= y
    BY <1>4, <2>1, HasLeast
  <2>3. Min(I) \in I
    BY <2>2 DEF Min
  <2> QED BY <1>1, <1>2, <1>4, <2>3
<1> QED BY <1>3, <1>4

(* What remains when an entry is removed.                                   *)
FwWithout(s, n, r) ==
    /\ Len(r) = Len(s) - 1
    /\ \A m \in 1..(Len(s) - 1) :
         LET o == IF m < n THEN m ELSE m + 1
         IN  o \in 1..Len(s) /\ o # n /\ r[m] = s[o]

(* RemoveAt leaves the other entries, in their order.                       *)
LEMMA FwRemoveAtIs ==
    ASSUME NEW S, NEW s \in Seq(S), NEW n \in 1..Len(s)
    PROVE  RemoveAt(s, n) \in Seq(S) /\ FwWithout(s, n, RemoveAt(s, n))
<1>1. PICK a, b : a = SubSeq(s, 1, n - 1) /\ b = SubSeq(s, n + 1, Len(s))
  OBVIOUS
<1>2. Len(s) \in Nat /\ n \in Nat /\ n >= 1 /\ n <= Len(s)
  OBVIOUS
<1>3. a \in Seq(S) /\ Len(a) = n - 1 /\ \A m \in 1..(n - 1) : a[m] = s[m]
  BY <1>1, <1>2
<1>4. b \in Seq(S) /\ Len(b) = Len(s) - n /\ \A m \in 1..(Len(s) - n) : b[m] = s[n + m]
  BY <1>1, <1>2
<1>5. RemoveAt(s, n) = a \o b
  BY <1>1 DEF RemoveAt
<1>6. /\ a \o b \in Seq(S) /\ Len(a \o b) = Len(s) - 1
      /\ \A m \in 1..(Len(s) - 1) : (a \o b)[m] = IF m <= n - 1 THEN a[m] ELSE b[m - (n - 1)]
  <2>1. a \o b \in Seq(S) /\ Len(a \o b) = Len(a) + Len(b)
    <3>1. a \in Seq(S)
      BY <1>3
    <3>2. b \in Seq(S)
      BY <1>4
    <3>3. a \o b \in Seq(S)
      BY <3>1, <3>2
    <3>4. Len(a \o b) = Len(a) + Len(b)
      BY <3>1, <3>2
    <3> QED BY <3>3, <3>4
  <2>2. \A m \in 1..(Len(a) + Len(b)) : (a \o b)[m] = IF m <= Len(a) THEN a[m] ELSE b[m - Len(a)]
    BY <1>3, <1>4
  <2>3. Len(a) + Len(b) = Len(s) - 1
    BY <1>2, <1>3, <1>4
  <2> QED BY <1>3, <2>1, <2>2, <2>3
<1>7. ASSUME NEW m \in 1..(Len(s) - 1)
      PROVE  LET o == IF m < n THEN m ELSE m + 1
             IN  o \in 1..Len(s) /\ o # n /\ (a \o b)[m] = s[o]
  <2>1. CASE m < n
    BY <1>2, <1>3, <1>6, <2>1
  <2>2. CASE ~(m < n)
    <3>1. m - (n - 1) \in 1..(Len(s) - n) /\ n + (m - (n - 1)) = m + 1
      BY <1>2, <2>2
    <3>2. (a \o b)[m] = s[m + 1]
      BY <1>2, <1>4, <1>6, <2>2, <3>1
    <3> QED BY <1>2, <2>2, <3>2
  <2> QED BY <2>1, <2>2
<1> QED BY <1>5, <1>6, <1>7 DEF FwWithout

(* FwInv holds at first.                                                    *)
LEMMA FwInitInv == FwInit => FwInv
<1> SUFFICES ASSUME FwInit PROVE FwInv
  OBVIOUS
<1>1. FwTypes
  BY DEF FwInit, FwTypes
<1>2. FwQueues
  BY FwAssumption DEF FwInit, FwQueues
<1>3. FwReqInv /\ FwListInv /\ FwHoldInv
  BY DEF FwInit, FwReqInv, FwListInv, FwHoldInv
<1> QED BY <1>1, <1>2, <1>3 DEF FwInv

(* Steps that leave the list and the listeners' channels alone.             *)
LEMMA FwListStable ==
    ASSUME FwInv, FwKeeps, UNCHANGED <<fwEntries, fwIn, fwShut>>
    PROVE  FwListInv'
<1>1. FwTypes /\ FwListInv
  BY DEF FwInv
<1>2. \A n \in 1..Len(fwEntries) : fwEntries[n] \in FwListeners
  BY <1>1 DEF FwTypes
<1>3. \A l \in FwListeners : \A n \in 1..Len(fwIn[l]) : fwIn[l][n] \in FwConns
  BY <1>1 DEF FwTypes
<1>4. \A n \in 1..Len(fwEntries) : (FwLive(fwEntries[n]) /\ ~fwShut[fwEntries[n]])'
  BY <1>1, <1>2 DEF FwListInv, FwKeeps, FwLive
<1>5. \A l \in FwListeners : fwShut'[l] => FwLive(l)'
  BY <1>1 DEF FwListInv, FwKeeps, FwLive
<1>6. ASSUME NEW l \in FwListeners, NEW n \in 1..Len(fwIn[l])
      PROVE  (FwLive(l) /\ fwConn[fwIn[l][n]] # "none" /\ fwTo[fwIn[l][n]] = fwLaddr[l])'
  BY <1>1, <1>3 DEF FwListInv, FwKeeps, FwLive
<1> QED BY <1>1, <1>4, <1>5, <1>6 DEF FwListInv

(* Nor do they touch what the forwards have in hand.                        *)
LEMMA FwStable ==
    ASSUME FwInv, FwKeeps, UNCHANGED <<fwEntries, fwIn, fwShut, fwTaken, fwHolder>>
    PROVE  FwListInv' /\ FwHoldInv'
<1>1. FwTypes /\ FwListInv /\ FwHoldInv
  BY DEF FwInv
<1>2. FwListInv'
  BY FwListStable
<1>3. FwHoldInv'
  <2>1. \A k \in FwKinds : fwTaken[k] # 0 => fwTaken[k] \in FwConns
    BY <1>1 DEF FwTypes
  <2>2. \A k \in FwKinds : fwTaken[k] # 0 => (fwConn[fwTaken[k]] # "none")' /\ fwTo'[fwTaken[k]] = fwTo[fwTaken[k]]
    BY <1>1, <2>1 DEF FwHoldInv, FwKeeps
  <2>3. \A n \in 1..Len(fwEntries) : fwLaddr'[fwEntries[n]] = fwLaddr[fwEntries[n]]
    <3>1. \A n \in 1..Len(fwEntries) : fwEntries[n] \in FwListeners /\ FwLive(fwEntries[n])
      BY <1>1 DEF FwTypes, FwListInv
    <3> QED BY <3>1 DEF FwKeeps
  <2>4. fwHolder # FwNone => fwHolder \in FwKinds
    BY <1>1 DEF FwTypes
  <2> QED BY <1>1, <2>2, <2>3, <2>4 DEF FwHoldInv
<1> QED BY <1>2, <1>3

(* What is on the wire about a channel names one of the channels.           *)
LEMMA FwMsgsName == \A msg \in FwMsgs : msg.conn # 0 => msg.conn \in FwConns
<1>1. \A msg \in FwMsgs : msg.conn \in {0} \cup FwConns
  BY Zenon DEF FwMsgs
<1> QED BY <1>1

(* What is in the queues has been opened, and stays so.                     *)
FwQueued ==
    /\ \A n \in 1..Len(fwWire) : fwWire[n].conn # 0 => fwWire[n].conn \in FwConns /\ fwConn'[fwWire[n].conn] # "none"
    /\ \A n \in 1..Len(fwIncoming) : fwIncoming[n] \in FwConns /\ fwConn'[fwIncoming[n]] # "none"
    /\ \A k \in FwKinds : \A n \in 1..Len(fwHandler[k]) : fwHandler[k][n] \in FwConns /\ fwConn'[fwHandler[k][n]] # "none"

(* Steps that leave opened channels alone keep FwQueued.                    *)
LEMMA FwQueuesHave == ASSUME FwInv, FwKeeps PROVE FwQueued
<1>1. FwQueues
  BY DEF FwInv
<1>2. \A n \in 1..Len(fwWire) : fwWire[n] \in FwMsgs
  BY <1>1 DEF FwQueues
<1>3. \A n \in 1..Len(fwWire) : fwWire[n].conn # 0 => fwWire[n].conn \in FwConns
  BY <1>2, FwMsgsName
<1>4. \A n \in 1..Len(fwIncoming) : fwIncoming[n] \in FwConns
  BY <1>1 DEF FwQueues
<1>5. \A k \in FwKinds : \A n \in 1..Len(fwHandler[k]) : fwHandler[k][n] \in FwConns
  BY <1>1 DEF FwQueues
<1>6. \A n \in 1..Len(fwWire) : fwWire[n].conn # 0 => fwConn'[fwWire[n].conn] # "none"
  BY <1>1, <1>3 DEF FwQueues, FwKeeps
<1>7. \A n \in 1..Len(fwIncoming) : fwConn'[fwIncoming[n]] # "none"
  BY <1>1, <1>4 DEF FwQueues, FwKeeps
<1>8. \A k \in FwKinds : \A n \in 1..Len(fwHandler[k]) : fwConn'[fwHandler[k][n]] # "none"
  BY <1>1, <1>5 DEF FwQueues, FwKeeps
<1> QED BY <1>3, <1>4, <1>5, <1>6, <1>7, <1>8 DEF FwQueued

(* Channels on their way are kept by steps that leave the queues alone.     *)
LEMMA FwQueuesStable ==
    ASSUME FwInv, FwKeeps, UNCHANGED <<fwWire, fwIncoming, fwHandler>>
    PROVE  FwQueues'
BY FwQueuesHave DEF FwInv, FwQueues, FwQueued

(* A listener between two requests: it becomes another one only while its   *)
(* address may still change.                                                *)
LEMMA FwRefusedIs ==
    ASSUME FwTypes, NEW l \in FwListeners, fwLn[l] = "asking", FwRefused(l)
    PROVE  /\ \E s \in {"asking", "denied"} : fwLn' = [fwLn EXCEPT ![l] = s]
           /\ fwLaddr' = fwLaddr \/ \E a : fwLaddr' = [fwLaddr EXCEPT ![l] = a]
BY DEF FwRefused

(* Listen, and the beginnings of requests and of Close.                     *)
LEMMA FwCallInv ==
    ASSUME FwInv, NEW l \in FwListeners, FwListen(l) \/ FwSend(l) \/ FwClose(l)
    PROVE  FwInv'
<1>1. FwTypes /\ FwReqInv
  BY DEF FwInv
<1>2. /\ UNCHANGED <<fwWire, fwConn, fwTo, fwIncoming, fwHandler, fwTaken, fwHolder, fwEntries, fwIn, fwShut>>
  BY DEF FwListen, FwSend, FwClose, fwPath, fwList
<1>3. /\ \/ fwLn' = fwLn
         \/ fwLn[l] \in {"idle", "asking"} /\ \E s \in {"asking", "denied"} : fwLn' = [fwLn EXCEPT ![l] = s]
         \/ FwLive(l) /\ fwLn[l] # "closed" /\ \E s \in {"removing", "closed"} : fwLn' = [fwLn EXCEPT ![l] = s]
      /\ \/ fwLaddr' = fwLaddr
         \/ fwLn[l] \in {"idle", "asking"} /\ \E a : fwLaddr' = [fwLaddr EXCEPT ![l] = a]
      /\ \/ fwReq' = fwReq /\ fwAnswered' = fwAnswered /\ fwReq # l
         \/ fwReq' = fwReq /\ fwAnswered' = fwAnswered /\ fwReq = FwNone
         \/ fwReq = FwNone /\ fwReq' = l /\ fwLn[l] \in {"asking", "cancelling"} /\ fwLn' = fwLn
  <2>1. CASE FwListen(l)
    <3>1. fwReq # l \/ fwReq = FwNone
      BY <1>1, <2>1 DEF FwListen, FwReqInv
    <3> QED BY <2>1, <3>1 DEF FwListen
  <2>2. CASE FwSend(l)
    <3>1. CASE fwNet = "open"
      BY <2>2, <3>1 DEF FwSend
    <3>2. CASE fwNet # "open" /\ fwLn[l] = "asking"
      BY <1>1, <2>2, <3>2, FwRefusedIs DEF FwSend
    <3>3. CASE fwNet # "open" /\ fwLn[l] = "cancelling"
      BY <2>2, <3>3 DEF FwSend, FwCancelled, FwLive
    <3> QED BY <2>2, <3>1, <3>2, <3>3 DEF FwSend
  <2>3. CASE FwClose(l)
    <3>1. fwReq # l \/ fwReq = FwNone
      BY <1>1, <2>3 DEF FwClose, FwReqInv
    <3> QED BY <2>3, <3>1 DEF FwClose, FwLive
  <2> QED BY <2>1, <2>2, <2>3
<1>4. FwTypes'
  BY <1>1, <1>2, <1>3 DEF FwTypes
<1>5. FwKeeps
  <2>1. ASSUME NEW d \in FwListeners, FwLive(d) PROVE FwLive(d)' /\ fwLaddr'[d] = fwLaddr[d]
    BY <1>1, <1>3, <2>1 DEF FwTypes, FwLive
  <2> QED BY <1>2, <2>1 DEF FwKeeps
<1>6. FwReqInv'
  <2>1. fwReq' # FwNone => fwLn'[fwReq'] \in {"asking", "cancelling"}
    BY <1>1, <1>3 DEF FwTypes, FwReqInv
  <2>2. ASSUME NEW n \in 1..Len(fwWire), fwWire[n].conn = 0
        PROVE  fwReq' # FwNone /\ fwAnswered' /\ \A m \in 1..Len(fwWire) : fwWire[m].conn = 0 => m = n
    BY <1>1, <1>3, <2>2 DEF FwReqInv
  <2> QED BY <1>2, <2>1, <2>2 DEF FwReqInv
<1>7. FwListInv' /\ FwHoldInv'
  BY <1>2, <1>5, FwStable
<1>8. FwQueues'
  BY <1>2, <1>5, FwQueuesStable
<1> QED BY <1>4, <1>6, <1>7, <1>8 DEF FwInv

(* The peer's answers and the channels that it opens.                       *)
LEMMA FwPeerInv ==
    ASSUME FwInv,
           \/ \E a \in FwAddrs : \E ok \in BOOLEAN : FwAnswer(ok, a)
           \/ \E i \in FwConns : \E a \in FwAddrs \union {FwBad} : FwOpen(i, a)
    PROVE  FwInv'
<1>1. FwTypes /\ FwReqInv /\ FwQueues /\ Len(fwWire) \in Nat
  BY DEF FwInv, FwQueues
<1>2. /\ UNCHANGED <<fwLn, fwLaddr, fwReq, fwIncoming, fwHandler, fwTaken, fwHolder, fwEntries, fwIn, fwShut>>
  BY DEF FwAnswer, FwOpen, fwCall, fwList
<1>3. PICK msg \in FwMsgs :
        /\ fwWire' = Append(fwWire, msg)
        /\ \/ msg.conn = 0 /\ fwReq # FwNone /\ ~fwAnswered /\ fwAnswered' /\ UNCHANGED <<fwConn, fwTo>>
           \/ /\ msg.conn \in FwConns /\ fwConn[msg.conn] = "none" /\ fwAnswered' = fwAnswered
              /\ fwConn' = [fwConn EXCEPT ![msg.conn] = "coming"] /\ \E a : fwTo' = [fwTo EXCEPT ![msg.conn] = a]
  <2>1. ASSUME NEW a \in FwAddrs, NEW ok \in BOOLEAN, FwAnswer(ok, a)
        PROVE  /\ [conn |-> 0, ok |-> ok, addr |-> a] \in FwMsgs /\ fwWire' = Append(fwWire, [conn |-> 0, ok |-> ok, addr |-> a])
               /\ fwReq # FwNone /\ ~fwAnswered /\ fwAnswered' /\ UNCHANGED <<fwConn, fwTo>>
    BY <2>1 DEF FwAnswer, FwMsgs
  <2>2. ASSUME NEW i \in FwConns, NEW a \in FwAddrs \union {FwBad}, FwOpen(i, a)
        PROVE  /\ [conn |-> i, ok |-> TRUE, addr |-> a] \in FwMsgs /\ fwWire' = Append(fwWire, [conn |-> i, ok |-> TRUE, addr |-> a])
               /\ fwConn[i] = "none" /\ fwAnswered' = fwAnswered
               /\ fwConn' = [fwConn EXCEPT ![i] = "coming"] /\ fwTo' = [fwTo EXCEPT ![i] = a]
    BY <2>2 DEF FwOpen, FwMsgs, fwCall
  <2>3. CASE \E a \in FwAddrs : \E ok \in BOOLEAN : FwAnswer(ok, a)
    <3>1. PICK a \in FwAddrs, ok \in BOOLEAN : FwAnswer(ok, a)
      BY <2>3
    <3>2. PICK msg : msg = [conn |-> 0, ok |-> ok, addr |-> a]
      OBVIOUS
    <3>3. msg.conn = 0
      BY <3>2
    <3> QED BY <2>1, <3>1, <3>2, <3>3
  <2>4. CASE \E i \in FwConns : \E a \in FwAddrs \union {FwBad} : FwOpen(i, a)
    <3>1. PICK i \in FwConns, a \in FwAddrs \union {FwBad} : FwOpen(i, a)
      BY <2>4
    <3>2. PICK msg : msg = [conn |-> i, ok |-> TRUE, addr |-> a]
      OBVIOUS
    <3>3. msg.conn = i
      BY <3>2
    <3>4. /\ msg \in FwMsgs /\ fwWire' = Append(fwWire, msg) /\ fwConn[i] = "none" /\ fwAnswered' = fwAnswered
          /\ fwConn' = [fwConn EXCEPT ![i] = "coming"] /\ fwTo' = [fwTo EXCEPT ![i] = a]
      BY <2>2, <3>1, <3>2
    <3> QED BY <3>3, <3>4
  <2> QED BY <2>3, <2>4
<1>4. /\ fwWire' \in Seq(FwMsgs) /\ Len(fwWire') = Len(fwWire) + 1 /\ fwWire'[Len(fwWire) + 1] = msg
      /\ \A n \in 1..Len(fwWire) : fwWire'[n] = fwWire[n]
  BY <1>1, <1>3 DEF FwQueues
<1>5. FwTypes'
  BY <1>1, <1>2, <1>3 DEF FwTypes
<1>6. FwKeeps
  <2>1. ASSUME NEW i \in FwConns, fwConn[i] # "none" PROVE fwConn'[i] # "none" /\ fwTo'[i] = fwTo[i]
    BY <1>1, <1>3, <2>1 DEF FwTypes
  <2> QED BY <1>2, <2>1 DEF FwKeeps, FwLive
<1>7. FwListInv' /\ FwHoldInv'
  BY <1>2, <1>6, FwStable
<1>8. FwReqInv'
  <2>1. ASSUME NEW n \in 1..Len(fwWire'), fwWire'[n].conn = 0
        PROVE  fwReq' # FwNone /\ fwAnswered' /\ \A m \in 1..Len(fwWire') : fwWire'[m].conn = 0 => m = n
    <3>1. \A m \in 1..Len(fwWire') : m \in 1..Len(fwWire) \/ m = Len(fwWire) + 1
      BY <1>1, <1>4
    <3>2. CASE msg.conn = 0 /\ fwReq # FwNone /\ ~fwAnswered /\ fwAnswered'
      <4>1. \A m \in 1..Len(fwWire) : fwWire'[m].conn # 0
        BY <1>1, <1>4, <3>2 DEF FwReqInv
      <4> QED BY <1>2, <2>1, <3>1, <3>2, <4>1
    <3>3. CASE msg.conn \in FwConns /\ fwAnswered' = fwAnswered
      <4>1. msg.conn # 0
        BY <3>3 DEF FwConns
      <4>2. n \in 1..Len(fwWire) /\ fwWire[n].conn = 0
        BY <1>4, <2>1, <3>1, <4>1
      <4>3. fwReq # FwNone /\ fwAnswered /\ \A m \in 1..Len(fwWire) : fwWire[m].conn = 0 => m = n
        BY <1>1, <4>2 DEF FwReqInv
      <4> QED BY <1>2, <1>4, <3>1, <3>3, <4>1, <4>3
    <3> QED BY <1>3, <3>2, <3>3
  <2> QED BY <1>1, <1>2, <2>1 DEF FwReqInv
<1>9. FwQueues'
  <2>1. FwQueued
    BY <1>6, FwQueuesHave
  <2>2. ASSUME NEW n \in 1..Len(fwWire'), fwWire'[n].conn # 0 PROVE fwConn'[fwWire'[n].conn] # "none"
    <3>1. CASE n \in 1..Len(fwWire)
      BY <1>4, <2>1, <2>2, <3>1 DEF FwQueued
    <3>2. CASE n = Len(fwWire) + 1
      BY <1>1, <1>3, <1>4, <2>2, <3>2 DEF FwTypes
    <3> QED BY <1>1, <1>4, <3>1, <3>2
  <2> QED BY <1>1, <1>2, <1>4, <2>1, <2>2 DEF FwQueues, FwQueued
<1> QED BY <1>5, <1>7, <1>8, <1>9 DEF FwInv

(* The end of the connection: what was not read is lost, and the request    *)
(* under way fails.                                                         *)
LEMMA FwDropInv == ASSUME FwInv, FwDrop PROVE FwInv'
<1>1. FwTypes /\ FwReqInv /\ FwQueues
  BY DEF FwInv
<1>2. /\ fwWire' = <<>> /\ fwReq' = FwNone
      /\ UNCHANGED <<fwTo, fwIncoming, fwHandler, fwTaken, fwHolder, fwEntries, fwIn, fwShut>>
      /\ fwConn' = [i \in FwConns |-> IF \E n \in DOMAIN fwWire : fwWire[n].conn = i THEN "lost" ELSE fwConn[i]]
  BY DEF FwDrop, fwList
<1>3. \/ UNCHANGED <<fwLn, fwLaddr>>
      \/ /\ fwReq \in FwListeners /\ fwLn[fwReq] = "asking"
         /\ \E s \in {"asking", "denied"} : fwLn' = [fwLn EXCEPT ![fwReq] = s]
         /\ fwLaddr' = fwLaddr \/ \E a : fwLaddr' = [fwLaddr EXCEPT ![fwReq] = a]
      \/ fwReq \in FwListeners /\ fwLn[fwReq] = "cancelling" /\ fwLn' = [fwLn EXCEPT ![fwReq] = "closed"] /\ fwLaddr' = fwLaddr
  <2>1. CASE fwReq = FwNone
    BY <2>1 DEF FwDrop
  <2>2. CASE fwReq # FwNone /\ fwLn[fwReq] = "asking"
    BY <1>1, <2>2, FwRefusedIs DEF FwDrop, FwTypes
  <2>3. CASE fwReq # FwNone /\ fwLn[fwReq] = "cancelling"
    BY <1>1, <2>3 DEF FwDrop, FwTypes, FwCancelled
  <2> QED BY <1>1, <2>1, <2>2, <2>3 DEF FwReqInv
<1>4. FwTypes'
  <2>1. fwLn' = [l \in FwListeners |-> fwLn'[l]] /\ fwLaddr' = [l \in FwListeners |-> fwLaddr'[l]]
    BY <1>1, <1>3 DEF FwTypes
  <2> QED BY <1>1, <1>2, <2>1 DEF FwTypes
<1>5. FwKeeps
  <2>1. ASSUME NEW l \in FwListeners, FwLive(l) PROVE FwLive(l)' /\ fwLaddr'[l] = fwLaddr[l]
    BY <1>1, <1>3, <2>1 DEF FwTypes, FwLive
  <2> QED BY <1>2, <2>1 DEF FwKeeps
<1>6. FwListInv' /\ FwHoldInv'
  BY <1>2, <1>5, FwStable
<1>7. FwReqInv'
  BY <1>2 DEF FwReqInv
<1>8. FwQueues'
  <2>1. FwQueued
    BY <1>5, FwQueuesHave
  <2>2. fwWire' \in Seq(FwMsgs) /\ 1..Len(fwWire') = {}
    BY <1>2
  <2> QED BY <1>1, <1>2, <2>1, <2>2 DEF FwQueues, FwQueued
<1> QED BY <1>4, <1>6, <1>7, <1>8 DEF FwInv

(* The mux's loop.                                                          *)
LEMMA FwReadInv == ASSUME FwInv, FwRead PROVE FwInv'
<1>1. FwTypes /\ FwReqInv /\ FwQueues
  BY DEF FwInv
<1>2. /\ fwWire # <<>> /\ fwWire' = Tail(fwWire)
      /\ UNCHANGED <<fwConn, fwTo, fwHandler, fwTaken, fwHolder, fwEntries, fwIn, fwShut, fwAnswered>>
  BY DEF FwRead, FwReadChannel, FwReadAnswer, fwList, fwCall
<1>3. /\ fwWire' \in Seq(FwMsgs) /\ Len(fwWire') = Len(fwWire) - 1 /\ Len(fwWire) \in Nat /\ Len(fwWire) >= 1
      /\ Head(fwWire) = fwWire[1]
      /\ \A n \in 1..Len(fwWire') : fwWire'[n] = fwWire[n + 1]
  <2>1. fwWire \in Seq(FwMsgs)
    BY <1>1 DEF FwQueues
  <2> QED BY <1>2, <2>1
<1>4. \A n \in 1..Len(fwWire') : n + 1 \in 1..Len(fwWire) /\ n \in Nat
  BY <1>3
<1>5. CASE FwReadChannel
  <2>1. /\ fwWire[1].conn # 0 /\ Len(fwIncoming) < FwChanSize /\ fwIncoming' = Append(fwIncoming, fwWire[1].conn)
        /\ UNCHANGED <<fwLn, fwLaddr, fwReq>>
    BY <1>3, <1>5 DEF FwReadChannel, fwCall
  <2>2. FwKeeps
    BY <1>2, <2>1 DEF FwKeeps, FwLive
  <2>3. FwQueued
    BY <2>2, FwQueuesHave
  <2>4. FwTypes'
    BY <1>1, <1>2, <2>1 DEF FwTypes
  <2>5. FwListInv' /\ FwHoldInv'
    BY <1>2, <2>2, FwStable
  <2>6. FwReqInv'
    <3>1. ASSUME NEW n \in 1..Len(fwWire'), fwWire'[n].conn = 0
          PROVE  fwReq # FwNone /\ fwAnswered /\ \A m \in 1..Len(fwWire') : fwWire'[m].conn = 0 => m = n
      <4>1. fwReq # FwNone /\ fwAnswered /\ \A m \in 1..Len(fwWire) : fwWire[m].conn = 0 => m = n + 1
        BY <1>1, <1>3, <1>4, <3>1 DEF FwReqInv
      <4>2. ASSUME NEW m \in 1..Len(fwWire'), fwWire'[m].conn = 0 PROVE m = n
        <5>1. m + 1 = n + 1
          BY <1>3, <1>4, <4>1, <4>2
        <5> QED BY <1>4, <5>1
      <4> QED BY <4>1, <4>2
    <3> QED BY <1>1, <1>2, <2>1, <3>1 DEF FwReqInv
  <2>7. FwQueues'
    <3>1. PICK i \in FwConns : i = fwWire[1].conn /\ fwConn'[i] # "none"
      BY <1>3, <2>1, <2>3 DEF FwQueued
    <3>2. fwIncoming \in Seq(FwConns) /\ Len(fwIncoming) \in Nat /\ FwChanSize \in Nat
      BY <1>1, FwAssumption DEF FwQueues
    <3>3. /\ fwIncoming' \in Seq(FwConns) /\ Len(fwIncoming') = Len(fwIncoming) + 1 /\ fwIncoming'[Len(fwIncoming) + 1] = i
          /\ \A n \in 1..Len(fwIncoming) : fwIncoming'[n] = fwIncoming[n]
      BY <2>1, <3>1, <3>2
    <3>4. Len(fwIncoming') <= FwChanSize
      BY <2>1, <3>2, <3>3
    <3>5. ASSUME NEW n \in 1..Len(fwIncoming') PROVE fwConn'[fwIncoming'[n]] # "none"
      <4>1. n \in 1..Len(fwIncoming) \/ n = Len(fwIncoming) + 1
        BY <3>2, <3>3
      <4> QED BY <2>3, <3>1, <3>3, <4>1 DEF FwQueued
    <3>6. \A n \in 1..Len(fwWire') : fwWire'[n].conn # 0 => fwConn'[fwWire'[n].conn] # "none"
      BY <1>3, <1>4, <2>3 DEF FwQueued
    <3> QED BY <1>1, <1>2, <1>3, <2>3, <3>3, <3>4, <3>5, <3>6 DEF FwQueues, FwQueued
  <2> QED BY <2>4, <2>5, <2>6, <2>7 DEF FwInv
<1>6. CASE FwReadAnswer
  <2>1. fwWire[1].conn = 0 /\ fwReq' = FwNone /\ UNCHANGED fwIncoming
    BY <1>3, <1>6 DEF FwReadAnswer
  <2>2. fwReq # FwNone /\ fwReq \in FwListeners /\ fwLn[fwReq] \in {"asking", "cancelling"}
        /\ \A n \in 1..Len(fwWire) : fwWire[n].conn = 0 => n = 1
    <3>1. 1 \in 1..Len(fwWire)
      BY <1>3
    <3>2. fwReq # FwNone /\ \A n \in 1..Len(fwWire) : fwWire[n].conn = 0 => n = 1
      BY <1>1, <2>1, <3>1 DEF FwReqInv
    <3> QED BY <1>1, <3>2 DEF FwReqInv, FwTypes
  <2>3. \/ /\ fwLn[fwReq] = "asking" /\ \E s \in {"asking", "denied", "granted"} : fwLn' = [fwLn EXCEPT ![fwReq] = s]
           /\ fwLaddr' = fwLaddr \/ \E a : fwLaddr' = [fwLaddr EXCEPT ![fwReq] = a]
        \/ fwLn[fwReq] = "cancelling" /\ fwLn' = [fwLn EXCEPT ![fwReq] = "closed"] /\ fwLaddr' = fwLaddr
    <3>1. CASE fwLn[fwReq] = "cancelling"
      BY <1>6, <3>1 DEF FwReadAnswer, FwCancelled
    <3>2. CASE fwLn[fwReq] = "asking" /\ Head(fwWire).ok
      BY <1>6, <3>2 DEF FwReadAnswer
    <3>3. CASE fwLn[fwReq] = "asking" /\ ~Head(fwWire).ok
      <4>1. FwRefused(fwReq)
        BY <1>6, <3>3 DEF FwReadAnswer
      <4> QED BY <1>1, <2>2, <3>3, <4>1, FwRefusedIs
    <3> QED BY <2>2, <3>1, <3>2, <3>3
  <2>4. FwTypes'
    <3>1. fwLn' = [l \in FwListeners |-> fwLn'[l]] /\ fwLaddr' = [l \in FwListeners |-> fwLaddr'[l]]
      BY <1>1, <2>3 DEF FwTypes
    <3> QED BY <1>1, <1>2, <2>1, <3>1 DEF FwTypes
  <2>5. FwKeeps
    <3>1. ASSUME NEW l \in FwListeners, FwLive(l) PROVE FwLive(l)' /\ fwLaddr'[l] = fwLaddr[l]
      BY <1>1, <2>3, <3>1 DEF FwTypes, FwLive
    <3> QED BY <1>2, <3>1 DEF FwKeeps
  <2>6. FwListInv' /\ FwHoldInv'
    BY <1>2, <2>5, FwStable
  <2>7. FwReqInv'
    <3>1. ASSUME NEW n \in 1..Len(fwWire') PROVE fwWire'[n].conn # 0
      <4>1. n + 1 # 1 /\ n + 1 \in 1..Len(fwWire)
        BY <1>3, <1>4
      <4> QED BY <1>3, <2>2, <4>1
    <3> QED BY <2>1, <3>1 DEF FwReqInv
  <2>8. FwQueues'
    <3>1. FwQueued
      BY <2>5, FwQueuesHave
    <3>2. \A n \in 1..Len(fwWire') : fwWire'[n].conn # 0 => fwConn'[fwWire'[n].conn] # "none"
      BY <1>3, <1>4, <3>1 DEF FwQueued
    <3> QED BY <1>1, <1>2, <1>3, <2>1, <3>1, <3>2 DEF FwQueues, FwQueued
  <2> QED BY <2>4, <2>6, <2>7, <2>8 DEF FwInv
<1> QED BY <1>5, <1>6 DEF FwRead

(* handleChannelOpens.                                                      *)
LEMMA FwPassInv == ASSUME FwInv, FwPass PROVE FwInv'
<1>1. FwTypes /\ FwReqInv /\ FwQueues
  BY DEF FwInv
<1>2. UNCHANGED <<fwLn, fwLaddr, fwReq, fwAnswered, fwWire, fwTo, fwTaken, fwHolder, fwEntries, fwIn, fwShut>>
  BY DEF FwPass, FwDispatch, FwHandlersClose, fwCall, fwList
<1>3. FwReqInv'
  BY <1>1, <1>2 DEF FwReqInv
<1>4. CASE FwHandlersClose
  <2>1. UNCHANGED <<fwConn, fwIncoming, fwHandler>>
    BY <1>4 DEF FwHandlersClose
  <2>2. FwKeeps
    BY <1>2, <2>1 DEF FwKeeps, FwLive
  <2>3. FwTypes'
    BY <1>1, <1>2, <2>1 DEF FwTypes
  <2> QED BY <1>2, <1>3, <2>1, <2>2, <2>3, FwStable, FwQueuesStable DEF FwInv
<1>5. CASE FwDispatch
  <2>1. fwIncoming # <<>> /\ fwIncoming' = Tail(fwIncoming)
    BY <1>5 DEF FwDispatch
  <2>2. PICK i, k : i = Head(fwIncoming) /\ k = FwKindOf[fwTo[i]]
    OBVIOUS
  <2>3. \/ fwHandler' = [fwHandler EXCEPT ![k] = Append(fwHandler[k], i)] /\ fwConn' = fwConn
        \/ fwConn' = [fwConn EXCEPT ![i] = "rejected"] /\ fwHandler' = fwHandler
    BY <1>5, <2>2 DEF FwDispatch
  <2>4. /\ fwIncoming' \in Seq(FwConns) /\ Len(fwIncoming') = Len(fwIncoming) - 1 /\ Len(fwIncoming) \in Nat
        /\ Len(fwIncoming) >= 1 /\ i = fwIncoming[1]
        /\ \A n \in 1..Len(fwIncoming') : fwIncoming'[n] = fwIncoming[n + 1]
    <3>1. fwIncoming \in Seq(FwConns)
      BY <1>1 DEF FwQueues
    <3> QED BY <2>1, <2>2, <3>1
  <2>5. FwKeeps
    <3>1. \A j \in FwConns : fwConn[j] # "none" => fwConn'[j] # "none"
      BY <1>1, <2>3 DEF FwTypes
    <3> QED BY <1>2, <3>1 DEF FwKeeps, FwLive
  <2>6. FwQueued
    BY <2>5, FwQueuesHave
  <2>7. i \in FwConns /\ fwConn'[i] # "none"
    BY <2>4, <2>6 DEF FwQueued
  <2>8. FwTypes'
    <3>1. fwConn' = [j \in FwConns |-> fwConn'[j]]
      BY <1>1, <2>3 DEF FwTypes
    <3> QED BY <1>1, <1>2, <3>1 DEF FwTypes
  <2>9. \A n \in 1..Len(fwIncoming') : fwConn'[fwIncoming'[n]] # "none"
    <3>1. \A n \in 1..Len(fwIncoming') : n + 1 \in 1..Len(fwIncoming)
      BY <2>4
    <3> QED BY <2>4, <2>6, <3>1 DEF FwQueued
  <2>10. fwHandler' \in [FwKinds -> Seq(FwConns)]
    <3>1. fwHandler \in [FwKinds -> Seq(FwConns)]
      BY <1>1 DEF FwQueues
    <3>2. k \in FwKinds => Append(fwHandler[k], i) \in Seq(FwConns)
      BY <2>7, <3>1
    <3> QED BY <2>3, <3>1, <3>2
  <2>11. ASSUME NEW j \in FwKinds, NEW n \in 1..Len(fwHandler'[j]) PROVE fwConn'[fwHandler'[j][n]] # "none"
    <3>1. fwHandler[j] \in Seq(FwConns) /\ Len(fwHandler[j]) \in Nat
      BY <1>1 DEF FwQueues
    <3>2. CASE fwHandler'[j] = fwHandler[j]
      BY <2>6, <2>11, <3>2 DEF FwQueued
    <3>3. CASE fwHandler'[j] = Append(fwHandler[j], i)
      <4>1. /\ Len(fwHandler'[j]) = Len(fwHandler[j]) + 1 /\ fwHandler'[j][Len(fwHandler[j]) + 1] = i
            /\ \A m \in 1..Len(fwHandler[j]) : fwHandler'[j][m] = fwHandler[j][m]
        BY <2>7, <3>1, <3>3
      <4>2. n \in 1..Len(fwHandler[j]) \/ n = Len(fwHandler[j]) + 1
        BY <2>11, <3>1, <4>1
      <4> QED BY <2>6, <2>7, <4>1, <4>2 DEF FwQueued
    <3> QED BY <1>1, <2>3, <3>2, <3>3 DEF FwQueues
  <2>12. FwQueues'
    <3>1. Len(fwIncoming') <= FwChanSize
      BY <1>1, <2>4, FwAssumption DEF FwQueues
    <3> QED BY <1>1, <1>2, <2>4, <2>6, <2>9, <2>10, <2>11, <3>1 DEF FwQueues, FwQueued
  <2>13. FwListInv' /\ FwHoldInv'
    BY <1>2, <2>5, FwStable
  <2> QED BY <1>3, <2>8, <2>12, <2>13 DEF FwInv
<1> QED BY <1>4, <1>5 DEF FwPass

(* handleChannels takes a channel.                                          *)
LEMMA FwTakeInv == ASSUME FwInv, NEW k \in FwKinds, FwTake(k) PROVE FwInv'
<1>1. FwTypes /\ FwReqInv /\ FwQueues /\ FwHoldInv
  BY DEF FwInv
<1>2. UNCHANGED <<fwLn, fwLaddr, fwReq, fwAnswered, fwWire, fwTo, fwIncoming, fwHolder, fwEntries, fwIn, fwShut>>
  BY DEF FwTake, fwCall, fwList
<1>3. PICK i : i = Head(fwHandler[k])
  OBVIOUS
<1>4. /\ fwTaken[k] = 0 /\ fwHandler[k] # <<>> /\ fwHandler' = [fwHandler EXCEPT ![k] = Tail(fwHandler[k])]
      /\ \/ fwConn' = [fwConn EXCEPT ![i] = "rejected"] /\ fwTaken' = fwTaken
         \/ fwTaken' = [fwTaken EXCEPT ![k] = i] /\ fwConn' = fwConn
  BY <1>3 DEF FwTake
<1>5. PICK old, new : old = fwHandler[k] /\ new = Tail(fwHandler[k])
  OBVIOUS
<1>6. /\ old \in Seq(FwConns) /\ new \in Seq(FwConns) /\ Len(new) = Len(old) - 1 /\ Len(old) \in Nat /\ Len(old) >= 1
      /\ i = old[1] /\ \A n \in 1..Len(new) : new[n] = old[n + 1]
  <2>1. old \in Seq(FwConns) /\ old # <<>>
    BY <1>1, <1>4, <1>5 DEF FwQueues
  <2> QED BY <1>3, <1>5, <2>1
<1>7. FwKeeps
  <2>1. \A j \in FwConns : fwConn[j] # "none" => fwConn'[j] # "none"
    BY <1>1, <1>4 DEF FwTypes
  <2> QED BY <1>2, <2>1 DEF FwKeeps, FwLive
<1>8. FwQueued
  BY <1>7, FwQueuesHave
<1>9. i \in FwConns /\ fwConn'[i] # "none"
  <2>1. 1 \in 1..Len(old)
    BY <1>6
  <2> QED BY <1>5, <1>6, <1>8, <2>1 DEF FwQueued
<1>10. FwTypes'
  <2>1. fwConn' = [j \in FwConns |-> fwConn'[j]]
    BY <1>1, <1>4 DEF FwTypes
  <2>2. fwTaken' \in [FwKinds -> {0} \cup FwConns]
    BY <1>1, <1>4, <1>9 DEF FwTypes
  <2> QED BY <1>1, <1>2, <2>1, <2>2 DEF FwTypes
<1>11. FwReqInv'
  BY <1>1, <1>2 DEF FwReqInv
<1>12. FwQueues'
  <2>1. fwHandler \in [FwKinds -> Seq(FwConns)]
    BY <1>1 DEF FwQueues
  <2>2. fwHandler' \in [FwKinds -> Seq(FwConns)] /\ fwHandler'[k] = new /\ \A j \in FwKinds \ {k} : fwHandler'[j] = fwHandler[j]
    BY <1>4, <1>5, <1>6, <2>1
  <2>3. ASSUME NEW n \in 1..Len(new) PROVE fwConn'[new[n]] # "none"
    <3>1. n + 1 \in 1..Len(old) /\ new[n] = old[n + 1]
      BY <1>6
    <3> QED BY <1>5, <1>8, <3>1 DEF FwQueued
  <2> QED BY <1>1, <1>2, <1>8, <2>2, <2>3 DEF FwQueues, FwQueued
<1>13. FwListInv'
  BY <1>2, <1>7, FwListStable
<1>14. FwHoldInv'
  <2>1. \A j \in FwKinds : fwTaken'[j] # 0 => fwTaken'[j] \in FwConns /\ fwConn'[fwTaken'[j]] # "none"
    <3>1. ASSUME NEW j \in FwKinds, fwTaken[j] # 0 PROVE fwTaken[j] \in FwConns /\ fwConn'[fwTaken[j]] # "none"
      BY <1>1, <1>7, <3>1 DEF FwTypes, FwHoldInv, FwKeeps
    <3>2. ASSUME NEW j \in FwKinds PROVE fwTaken'[j] \in {fwTaken[j], i}
      BY <1>1, <1>4 DEF FwTypes
    <3> QED BY <1>9, <3>1, <3>2
  <2>2. fwHolder # FwNone => fwHolder \in FwKinds /\ fwHolder # k /\ fwTaken'[fwHolder] = fwTaken[fwHolder]
    BY <1>1, <1>4 DEF FwTypes, FwHoldInv
  <2> QED BY <1>1, <1>2, <2>1, <2>2 DEF FwHoldInv
<1> QED BY <1>10, <1>11, <1>12, <1>13, <1>14 DEF FwInv

(* forward: the listener that it has found by address is live.              *)
LEMMA FwForwardInv == ASSUME FwInv, NEW k \in FwKinds, FwForward(k) PROVE FwInv'
<1>1. FwTypes /\ FwReqInv /\ FwListInv /\ FwHoldInv
  BY DEF FwInv
<1>2. /\ UNCHANGED <<fwLn, fwLaddr, fwReq, fwAnswered, fwWire, fwTo, fwIncoming, fwHandler, fwEntries, fwShut>>
      /\ fwTaken[k] # 0 /\ (fwHolder = FwNone \/ fwHolder = k)
  BY DEF FwForward, FwFree, fwCall
<1>3. PICK i, n : i = fwTaken[k] /\ n = FwEntryAt(fwTo[i])
  OBVIOUS
<1>4. i \in FwConns /\ fwConn[i] # "none" /\ fwEntries \in Seq(FwListeners)
  BY <1>1, <1>2, <1>3 DEF FwTypes, FwHoldInv
<1>5. \/ n = 0 /\ \A m \in 1..Len(fwEntries) : fwLaddr[fwEntries[m]] # fwTo[i]
      \/ n \in 1..Len(fwEntries) /\ fwLaddr[fwEntries[n]] = fwTo[i]
  BY <1>3, <1>4, FwEntryAtIs
<1>6. \/ /\ n = 0 /\ fwConn' = [fwConn EXCEPT ![i] = "rejected"] /\ fwTaken' = [fwTaken EXCEPT ![k] = 0]
         /\ fwHolder' = FwNone /\ fwIn' = fwIn
      \/ /\ n # 0 /\ fwIn' = [fwIn EXCEPT ![fwEntries[n]] = <<i>>] /\ fwConn' = [fwConn EXCEPT ![i] = "queued"]
         /\ fwTaken' = [fwTaken EXCEPT ![k] = 0] /\ fwHolder' = FwNone
      \/ n # 0 /\ fwHolder' = k /\ UNCHANGED <<fwIn, fwConn, fwTaken>>
  BY <1>3 DEF FwForward
<1>7. FwKeeps
  <2>1. \A j \in FwConns : fwConn[j] # "none" => fwConn'[j] # "none"
    BY <1>1, <1>6 DEF FwTypes
  <2> QED BY <1>2, <2>1 DEF FwKeeps, FwLive
<1>8. n # 0 => fwEntries[n] \in FwListeners /\ FwLive(fwEntries[n])
  BY <1>1, <1>4, <1>5 DEF FwListInv
<1>9. FwTypes'
  <2>1. fwConn' = [j \in FwConns |-> fwConn'[j]]
    BY <1>1, <1>6 DEF FwTypes
  <2>2. fwTaken' \in [FwKinds -> {0} \cup FwConns]
    BY <1>1, <1>6 DEF FwTypes
  <2>3. fwIn' \in [FwListeners -> Seq(FwConns)]
    <3>1. <<i>> \in Seq(FwConns) /\ fwIn \in [FwListeners -> Seq(FwConns)]
      BY <1>1, <1>4 DEF FwTypes
    <3> QED BY <1>6, <3>1
  <2>4. fwHolder' \in FwKinds \cup {FwNone}
    BY <1>6
  <2> QED BY <1>1, <1>2, <2>1, <2>2, <2>3, <2>4 DEF FwTypes
<1>10. FwReqInv'
  BY <1>1, <1>2 DEF FwReqInv
<1>11. FwQueues'
  BY <1>2, <1>7, FwQueuesStable
<1>12. FwListInv'
  <2>1. CASE fwIn' = fwIn
    BY <1>2, <1>7, <2>1, FwListStable
  <2>2. CASE n # 0 /\ fwIn' = [fwIn EXCEPT ![fwEntries[n]] = <<i>>]
    <3>1. ASSUME NEW l \in FwListeners, NEW m \in 1..Len(fwIn'[l])
          PROVE  (FwLive(l) /\ fwConn[fwIn[l][m]] # "none" /\ fwTo[fwIn[l][m]] = fwLaddr[l])'
      <4>1. CASE l = fwEntries[n]
        <5>1. fwIn'[l] = <<i>>
          BY <1>1, <2>2, <4>1 DEF FwTypes
        <5>2. fwIn'[l][m] = i
          BY <3>1, <5>1
        <5>3. fwLaddr[l] = fwTo[i] /\ FwLive(l)
          BY <1>5, <1>8, <2>2, <4>1
        <5>4. fwConn'[i] # "none"
          BY <1>4, <1>7 DEF FwKeeps
        <5> QED BY <1>2, <5>2, <5>3, <5>4 DEF FwLive
      <4>2. CASE l # fwEntries[n]
        <5>1. fwIn'[l] = fwIn[l]
          BY <1>1, <2>2, <4>2 DEF FwTypes
        <5>2. fwIn[l][m] \in FwConns
          BY <1>1, <3>1, <5>1 DEF FwTypes
        <5>3. FwLive(l) /\ fwConn[fwIn[l][m]] # "none" /\ fwTo[fwIn[l][m]] = fwLaddr[l]
          BY <1>1, <3>1, <5>1 DEF FwListInv
        <5> QED BY <1>2, <1>7, <5>1, <5>2, <5>3 DEF FwKeeps, FwLive
      <4> QED BY <4>1, <4>2
    <3> QED BY <1>1, <1>2, <3>1 DEF FwListInv, FwLive
  <2> QED BY <1>6, <2>1, <2>2
<1>13. FwHoldInv'
  <2>1. ASSUME NEW j \in FwKinds, fwTaken'[j] # 0 PROVE fwConn'[fwTaken'[j]] # "none"
    <3>1. fwTaken'[j] = fwTaken[j]
      BY <1>1, <1>6, <2>1 DEF FwTypes
    <3>2. fwTaken[j] \in FwConns /\ fwConn[fwTaken[j]] # "none"
      BY <1>1, <2>1, <3>1 DEF FwTypes, FwHoldInv
    <3> QED BY <1>7, <3>1, <3>2 DEF FwKeeps
  <2>2. CASE fwHolder' = FwNone
    BY <2>1, <2>2 DEF FwHoldInv
  <2>3. CASE n # 0 /\ fwHolder' = k /\ UNCHANGED fwTaken
    BY <1>2, <1>3, <1>5, <2>1, <2>3 DEF FwHoldInv
  <2> QED BY <1>6, <2>2, <2>3
<1> QED BY <1>9, <1>10, <1>11, <1>12, <1>13 DEF FwInv

(* Accept takes what has been forwarded, or reads the end.                  *)
LEMMA FwAcceptInv == ASSUME FwInv, NEW l \in FwListeners, FwAccept(l) PROVE FwInv'
<1>1. FwTypes /\ FwReqInv /\ FwListInv /\ FwHoldInv
  BY DEF FwInv
<1>2. UNCHANGED <<fwLn, fwLaddr, fwReq, fwAnswered, fwWire, fwTo, fwIncoming, fwHandler, fwTaken, fwHolder, fwEntries, fwShut>>
  BY DEF FwAccept, fwCall
<1>3. \/ UNCHANGED <<fwIn, fwConn>>
      \/ fwIn' = [fwIn EXCEPT ![l] = <<>>] /\ \E i : \E s \in {"accepted", "lost"} : fwConn' = [fwConn EXCEPT ![i] = s]
  BY DEF FwAccept
<1>4. FwKeeps
  <2>1. \A j \in FwConns : fwConn[j] # "none" => fwConn'[j] # "none"
    BY <1>1, <1>3 DEF FwTypes
  <2> QED BY <1>2, <2>1 DEF FwKeeps, FwLive
<1>5. FwTypes'
  <2>1. fwConn' = [j \in FwConns |-> fwConn'[j]]
    BY <1>1, <1>3 DEF FwTypes
  <2>2. fwIn' \in [FwListeners -> Seq(FwConns)]
    <3>1. <<>> \in Seq(FwConns) /\ fwIn \in [FwListeners -> Seq(FwConns)]
      BY <1>1 DEF FwTypes
    <3>2. fwIn' = fwIn \/ fwIn' = [fwIn EXCEPT ![l] = <<>>]
      BY <1>3
    <3> QED BY <3>1, <3>2
  <2> QED BY <1>1, <1>2, <2>1, <2>2 DEF FwTypes
<1>6. FwReqInv'
  BY <1>1, <1>2 DEF FwReqInv
<1>7. FwQueues'
  BY <1>2, <1>4, FwQueuesStable
<1>8. FwListInv'
  <2>1. ASSUME NEW d \in FwListeners, NEW m \in 1..Len(fwIn'[d])
        PROVE  (FwLive(d) /\ fwConn[fwIn[d][m]] # "none" /\ fwTo[fwIn[d][m]] = fwLaddr[d])'
    <3>1. fwIn'[d] = fwIn[d]
      BY <1>1, <1>3, <2>1 DEF FwTypes
    <3>2. fwIn[d][m] \in FwConns
      BY <1>1, <2>1, <3>1 DEF FwTypes
    <3>3. FwLive(d) /\ fwConn[fwIn[d][m]] # "none" /\ fwTo[fwIn[d][m]] = fwLaddr[d]
      BY <1>1, <2>1, <3>1 DEF FwListInv
    <3> QED BY <1>2, <1>4, <3>1, <3>2, <3>3 DEF FwKeeps, FwLive
  <2> QED BY <1>1, <1>2, <2>1 DEF FwListInv, FwLive
<1>9. FwHoldInv'
  <2>1. ASSUME NEW j \in FwKinds, fwTaken[j] # 0 PROVE fwConn'[fwTaken[j]] # "none"
    BY <1>1, <1>4, <2>1 DEF FwTypes, FwHoldInv, FwKeeps
  <2> QED BY <1>1, <1>2, <2>1 DEF FwHoldInv
<1> QED BY <1>5, <1>6, <1>7, <1>8, <1>9 DEF FwInv

(* Changes of the list, which a waiting forward keeps others from: a new    *)
(* entry, one that Close removes, and the end of all of them.               *)
LEMMA FwListStepsInv ==
    ASSUME FwInv, (\E l \in FwListeners : FwAdd(l) \/ FwRemove(l)) \/ FwCloseAll
    PROVE  FwInv'
<1>1. FwTypes /\ FwReqInv /\ FwListInv /\ FwHoldInv /\ fwEntries \in Seq(FwListeners) /\ Len(fwEntries) \in Nat
  BY DEF FwInv, FwTypes
<1>2. /\ UNCHANGED <<fwLaddr, fwReq, fwAnswered, fwWire, fwConn, fwTo, fwIncoming, fwHandler, fwTaken, fwHolder, fwIn>>
      /\ fwHolder = FwNone
  BY DEF FwAdd, FwRemove, FwCloseAll, FwFree, fwCall, fwPath
<1>3. FwHoldInv'
  BY <1>1, <1>2 DEF FwHoldInv
<1>4. ASSUME NEW l \in FwListeners, fwLn[l] \in {"granted", "removing"},
             NEW s \in {"open", "cancelling"}, fwLn' = [fwLn EXCEPT ![l] = s]
      PROVE  FwKeeps /\ FwReqInv' /\ FwLive(l)' /\ fwLn' = [d \in FwListeners |-> fwLn'[d]]
  <2>1. \A d \in FwListeners : FwLive(d) => FwLive(d)'
    BY <1>1, <1>4 DEF FwTypes, FwLive
  <2>2. FwLive(l)' /\ fwLn' = [d \in FwListeners |-> fwLn'[d]]
    BY <1>1, <1>4 DEF FwTypes, FwLive
  <2>3. fwReq # FwNone => fwReq # l /\ fwLn'[fwReq] = fwLn[fwReq]
    BY <1>1, <1>4 DEF FwTypes, FwReqInv
  <2>4. FwReqInv'
    BY <1>1, <1>2, <2>3 DEF FwReqInv
  <2> QED BY <1>2, <2>1, <2>2, <2>4 DEF FwKeeps
<1>5. ASSUME FwKeeps, NEW l \in FwListeners
      PROVE  \A n \in 1..Len(fwIn[l]) : FwLive(l)' /\ fwConn[fwIn[l][n]] # "none" /\ fwTo[fwIn[l][n]] = fwLaddr[l]
  BY <1>1, <1>5 DEF FwListInv, FwKeeps
<1>6. ASSUME NEW l \in FwListeners, FwAdd(l) PROVE FwInv'
  <2>1. fwLn[l] = "granted" /\ fwLn' = [fwLn EXCEPT ![l] = "open"] /\ fwEntries' = Append(fwEntries, l) /\ fwShut' = fwShut
    BY <1>6 DEF FwAdd
  <2>2. FwKeeps /\ FwReqInv' /\ FwLive(l)' /\ fwLn' = [d \in FwListeners |-> fwLn'[d]]
    BY <1>4, <2>1
  <2>3. ~FwLive(l) /\ ~fwShut[l] /\ \A n \in 1..Len(fwEntries) : fwEntries[n] # l
    BY <1>1, <2>1 DEF FwListInv, FwLive
  <2>4. /\ fwEntries' \in Seq(FwListeners) /\ Len(fwEntries') = Len(fwEntries) + 1 /\ fwEntries'[Len(fwEntries) + 1] = l
        /\ \A n \in 1..Len(fwEntries) : fwEntries'[n] = fwEntries[n] /\ fwEntries[n] \in FwListeners
        /\ \A n \in 1..Len(fwEntries') : n \in 1..Len(fwEntries) \/ n = Len(fwEntries) + 1
    BY <1>1, <2>1
  <2>5. FwTypes'
    BY <1>1, <1>2, <2>1, <2>2, <2>4 DEF FwTypes
  <2>6. FwQueues'
    BY <1>2, <2>2, FwQueuesStable
  <2>7. FwListInv'
    <3>1. ASSUME NEW n \in 1..Len(fwEntries') PROVE (FwLive(fwEntries[n]))' /\ ~fwShut[fwEntries'[n]]
      <4>1. CASE n \in 1..Len(fwEntries)
        <5>1. fwEntries'[n] = fwEntries[n] /\ fwEntries[n] \in FwListeners /\ FwLive(fwEntries[n]) /\ ~fwShut[fwEntries[n]]
          BY <1>1, <2>4, <4>1 DEF FwListInv
        <5> QED BY <2>2, <5>1 DEF FwKeeps, FwLive
      <4>2. CASE n = Len(fwEntries) + 1
        BY <2>2, <2>3, <2>4, <4>2 DEF FwLive
      <4> QED BY <2>4, <4>1, <4>2
    <3>2. \A n, m \in 1..Len(fwEntries') : fwEntries'[n] = fwEntries'[m] => n = m
      BY <1>1, <2>3, <2>4 DEF FwListInv
    <3>3. \A d \in FwListeners : fwShut[d] => FwLive(d)'
      BY <1>1, <2>2 DEF FwListInv, FwKeeps
    <3> QED BY <1>2, <1>5, <2>1, <2>2, <3>1, <3>2, <3>3 DEF FwListInv
  <2> QED BY <1>3, <2>2, <2>5, <2>6, <2>7 DEF FwInv
<1>7. ASSUME NEW l \in FwListeners, FwRemove(l) PROVE FwInv'
  <2>1. PICK n : n = FwEntryAt(fwLaddr[l])
    OBVIOUS
  <2>2. /\ fwLn[l] = "removing" /\ fwLn' = [fwLn EXCEPT ![l] = "cancelling"]
        /\ \/ n = 0 /\ UNCHANGED <<fwEntries, fwShut>>
           \/ n # 0 /\ fwEntries' = RemoveAt(fwEntries, n) /\ fwShut' = [fwShut EXCEPT ![fwEntries[n]] = TRUE]
    BY <1>7, <2>1 DEF FwRemove
  <2>3. FwKeeps /\ FwReqInv' /\ fwLn' = [d \in FwListeners |-> fwLn'[d]]
    BY <1>4, <2>2
  <2>4. FwQueues'
    BY <1>2, <2>3, FwQueuesStable
  <2>5. CASE UNCHANGED <<fwEntries, fwShut>>
    <3>1. FwTypes'
      BY <1>1, <1>2, <2>3, <2>5 DEF FwTypes
    <3> QED BY <1>2, <1>3, <2>3, <2>4, <2>5, <3>1, FwListStable DEF FwInv
  <2>6. CASE n # 0 /\ fwEntries' = RemoveAt(fwEntries, n) /\ fwShut' = [fwShut EXCEPT ![fwEntries[n]] = TRUE]
    <3>1. n \in 1..Len(fwEntries)
      BY <1>1, <2>1, <2>6, FwEntryAtIs
    <3>2. fwEntries[n] \in FwListeners /\ FwLive(fwEntries[n])
      BY <1>1, <3>1 DEF FwListInv
    <3>3. /\ fwEntries' \in Seq(FwListeners) /\ Len(fwEntries') = Len(fwEntries) - 1
          /\ \A m \in 1..Len(fwEntries') :
                LET o == IF m < n THEN m ELSE m + 1
                IN  o \in 1..Len(fwEntries) /\ o # n /\ fwEntries'[m] = fwEntries[o]
      <4>1. fwEntries' \in Seq(FwListeners) /\ FwWithout(fwEntries, n, fwEntries')
        BY <1>1, <2>6, <3>1, FwRemoveAtIs
      <4> QED BY <4>1 DEF FwWithout
    <3>4. FwTypes'
      <4>1. fwShut' = [d \in FwListeners |-> fwShut'[d]]
        BY <1>1, <2>6 DEF FwTypes
      <4> QED BY <1>1, <1>2, <2>3, <3>3, <4>1 DEF FwTypes
    <3>5. ASSUME NEW m \in 1..Len(fwEntries') PROVE (FwLive(fwEntries[m]))' /\ ~fwShut'[fwEntries'[m]]
      <4>1. PICK o \in 1..Len(fwEntries) : o # n /\ fwEntries'[m] = fwEntries[o]
        BY <3>3
      <4>2. fwEntries[o] \in FwListeners /\ FwLive(fwEntries[o]) /\ ~fwShut[fwEntries[o]] /\ fwEntries[o] # fwEntries[n]
        BY <1>1, <3>1, <4>1 DEF FwListInv
      <4>3. ~fwShut'[fwEntries[o]]
        BY <1>1, <2>6, <4>2 DEF FwTypes
      <4> QED BY <2>3, <4>1, <4>2, <4>3 DEF FwKeeps, FwLive
    <3>6. ASSUME NEW m \in 1..Len(fwEntries'), NEW j \in 1..Len(fwEntries'), fwEntries'[m] = fwEntries'[j] PROVE m = j
      <4>1. PICK o, p : o = (IF m < n THEN m ELSE m + 1) /\ p = (IF j < n THEN j ELSE j + 1)
        OBVIOUS
      <4>2. o \in 1..Len(fwEntries) /\ p \in 1..Len(fwEntries) /\ fwEntries[o] = fwEntries[p]
        BY <3>3, <3>6, <4>1
      <4>3. o = p
        BY <1>1, <4>2 DEF FwListInv
      <4> QED BY <1>1, <3>1, <3>3, <4>1, <4>3
    <3>7. ASSUME NEW d \in FwListeners, fwShut'[d] PROVE FwLive(d)'
      <4>1. d = fwEntries[n] \/ fwShut[d]
        BY <1>1, <2>6, <3>7 DEF FwTypes
      <4>2. FwLive(d)
        BY <1>1, <3>2, <4>1 DEF FwListInv
      <4> QED BY <2>3, <4>2 DEF FwKeeps
    <3>8. FwListInv'
      BY <1>2, <1>5, <2>3, <3>5, <3>6, <3>7 DEF FwListInv
    <3> QED BY <1>3, <2>3, <2>4, <3>4, <3>8 DEF FwInv
  <2> QED BY <2>2, <2>5, <2>6
<1>8. CASE FwCloseAll
  <2>1. /\ fwLn' = fwLn /\ fwEntries' = <<>>
        /\ fwShut' = [l \in FwListeners |-> fwShut[l] \/ l \in ToSet(fwEntries)]
    BY <1>8 DEF FwCloseAll, fwCall
  <2>2. FwKeeps
    BY <1>2, <2>1 DEF FwKeeps, FwLive
  <2>3. FwTypes'
    <3>1. fwShut' = [d \in FwListeners |-> fwShut'[d]]
      BY <2>1
    <3>2. fwEntries' \in Seq(FwListeners)
      BY <2>1
    <3> QED BY <1>1, <1>2, <2>1, <3>1, <3>2 DEF FwTypes
  <2>4. FwReqInv'
    BY <1>1, <1>2, <2>1 DEF FwReqInv
  <2>5. FwQueues'
    BY <1>2, <2>2, FwQueuesStable
  <2>6. FwListInv'
    <3>1. ASSUME NEW d \in FwListeners, fwShut'[d] PROVE FwLive(d)'
      <4>1. fwShut[d] \/ d \in ToSet(fwEntries)
        BY <2>1, <3>1
      <4>2. d \in ToSet(fwEntries) => \E n \in 1..Len(fwEntries) : fwEntries[n] = d
        BY <1>1 DEF ToSet
      <4>3. FwLive(d)
        BY <1>1, <4>1, <4>2 DEF FwListInv
      <4> QED BY <2>2, <4>3 DEF FwKeeps
    <3>2. 1..Len(fwEntries') = {}
      BY <2>1
    <3> QED BY <1>2, <1>5, <2>2, <3>1, <3>2 DEF FwListInv
  <2> QED BY <1>3, <2>3, <2>4, <2>5, <2>6 DEF FwInv
<1> QED BY <1>6, <1>7, <1>8

(* Every step keeps FwInv.                                                  *)
LEMMA FwNextInv == FwInv /\ [FwNext]_fwVars => FwInv'
<1> SUFFICES ASSUME FwInv, [FwNext]_fwVars PROVE FwInv'
  OBVIOUS
<1>1. CASE FwNext
  <2>1. CASE FwDrop \/ FwRead \/ FwPass \/ FwCloseAll
    BY <2>1, FwDropInv, FwReadInv, FwPassInv, FwListStepsInv
  <2>2. CASE \E k \in FwKinds : FwKindSteps(k)
    BY <2>2, FwTakeInv, FwForwardInv DEF FwKindSteps
  <2>3. ASSUME NEW l \in FwListeners, FwListen(l) \/ FwCallSteps(l) \/ FwClose(l) \/ FwAccept(l) PROVE FwInv'
    <3>1. CASE FwListen(l) \/ FwSend(l) \/ FwClose(l)
      BY <3>1, FwCallInv
    <3>2. CASE FwAdd(l) \/ FwRemove(l)
      BY <3>2, FwListStepsInv
    <3>3. CASE FwAccept(l)
      BY <3>3, FwAcceptInv
    <3> QED BY <2>3, <3>1, <3>2, <3>3 DEF FwCallSteps
  <2>4. CASE \/ \E a \in FwAddrs : \E ok \in BOOLEAN : FwAnswer(ok, a)
             \/ \E i \in FwConns : \E a \in FwAddrs \union {FwBad} : FwOpen(i, a)
    BY <2>4, FwPeerInv
  <2> QED BY <1>1, <2>1, <2>2, <2>3, <2>4 DEF FwNext
<1>2. CASE UNCHANGED fwVars
  <2>1. FwTypes' /\ FwQueues' /\ FwReqInv'
    BY <1>2 DEF fwVars, FwInv, FwTypes, FwQueues, FwReqInv
  <2>2. FwListInv' /\ FwHoldInv'
    BY <1>2 DEF fwVars, FwInv, FwListInv, FwHoldInv, FwLive
  <2> QED BY <2>1, <2>2 DEF FwInv
<1> QED BY <1>1, <1>2

(* However Listen, Accept, Close, the peer's channels and the end of the    *)
(* connection interleave, a listener only gets channels for its own         *)
(* address, a forward never sends on a channel that was closed, even while  *)
(* it waits for room, no listener is in the list twice, and the mux's loop  *)
(* never has more channels than room (tcpip.go, streamlocal.go, client.go), *)
(* for any listeners, addresses and number of channels.                     *)
THEOREM ForwardsAreSound == FwSpec => [](FwSound /\ Len(fwIncoming) <= FwChanSize)
<1>1. FwInv => FwSound /\ Len(fwIncoming) <= FwChanSize
  <2> SUFFICES ASSUME FwInv PROVE FwSound /\ Len(fwIncoming) <= FwChanSize
    OBVIOUS
  <2>1. FwTypes /\ FwQueues /\ FwListInv /\ FwHoldInv
    BY DEF FwInv
  <2>2. ASSUME NEW l \in FwListeners, NEW i \in ToSet(fwIn[l]) PROVE fwTo[i] = fwLaddr[l]
    <3>1. DOMAIN fwIn[l] = 1..Len(fwIn[l])
      BY <2>1 DEF FwTypes
    <3> QED BY <2>1, <2>2, <3>1 DEF FwListInv, ToSet
  <2>3. DOMAIN fwEntries = 1..Len(fwEntries)
    BY <2>1 DEF FwTypes
  <2>4. \A l \in ToSet(fwEntries) : ~fwShut[l]
    BY <2>1, <2>3 DEF FwListInv, ToSet
  <2>5. IsInjective(fwEntries)
    BY <2>1, <2>3 DEF FwListInv, IsInjective
  <2>6. ASSUME fwHolder # FwNone PROVE FwEntryAt(fwTo[fwTaken[fwHolder]]) # 0
    <3>1. \E n \in 1..Len(fwEntries) : fwLaddr[fwEntries[n]] = fwTo[fwTaken[fwHolder]]
      BY <2>1, <2>6 DEF FwHoldInv
    <3>2. fwEntries \in Seq(FwListeners) /\ 0 \notin 1..Len(fwEntries)
      BY <2>1 DEF FwTypes
    <3> QED BY <3>1, <3>2, FwEntryAtIs
  <2>7. Len(fwIncoming) <= FwChanSize
    BY <2>1 DEF FwQueues
  <2> QED BY <2>2, <2>4, <2>5, <2>6, <2>7 DEF FwSound
<1> QED BY <1>1, FwInitInv, FwNextInv, PTL DEF FwSpec
=============================================================================
