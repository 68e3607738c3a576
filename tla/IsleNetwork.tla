----------------------------- MODULE IsleNetwork -----------------------------
(***************************************************************************)
(* The network of the containers: allocIP of guest/network.go, the bridge, *)
(* its gateway addresses and the rules of the firewall that                *)
(* ConfigureProcess and Delete of network/bridge.go keep, and how          *)
(* StartContainer and CleanupContainer of guest/runc.go call them.         *)
(*                                                                         *)
(* The IPv4 network has the numbers 0 (the network), 1 (the gateway), up   *)
(* to NwSize - 1.  allocIP reads lastUsedIP at its start and writes it at  *)
(* its end, without a lock: two boots may be inside at once when the       *)
(* context of the first was cancelled.  Every boot has an id of its own    *)
(* (an xid), from which its MAC, its IPv6 address and its iptables chain   *)
(* are made.  Nothing ever writes the "ips" bucket or usedIps.  The bridge *)
(* and the rules belong to the kernel and outlive the guest's process.     *)
(***************************************************************************)
EXTENDS Integers, FiniteSets

CONSTANTS
    NwBoots,       \* the ids of the boots
    NwPlans,       \* which boots happen, and which of them are followed beyond their address
    NwSize,        \* addresses of the IPv4 network
    NwMaxRestarts  \* bound: restarts of the guest

ASSUME NwAssumption ==
    /\ \A p \in NwPlans : p.boots \subseteq NwBoots /\ p.whole \subseteq p.boots
    /\ NwSize \in Nat /\ NwSize > 2 /\ NwMaxRestarts \in Nat

VARIABLES
    nwPlan,     \* the plan of this behaviour
    nwLast,     \* lastUsedIP
    nwPc,       \* where StartContainer is, per boot
    nwStart,    \* the value of lastUsedIP that the boot's allocIP has read
    nwIp,       \* the address of the boot's eth0, 0 before that
    nwProc,     \* the task's process and with it the namespace: "none", "alive", "dead"
    nwLink,     \* whether eth0 exists: "none", "bare", "addressed"
    nwBridge,   \* the bridge isle0: "none", "up"
    nwGw,       \* the gateway addresses that the bridge has, of {"v4", "v6"}
    nwNat,      \* how often the rule for the metadata address is in the table
    nwRules,    \* which of the boot's masquerading rules exist, of {"v4", "v6"}
    nwDel,      \* per deleter and boot: "idle", "v4", "v6" (rules to remove next), "done"
    nwMiss,     \* history: why a boot's rules may remain ("none" when nothing went wrong)
    nwRaced,    \* history: whether a boot looked for the rule while another was adding it
    nwSeen,     \* history: allocations of this run of the guest when the boot read lastUsedIP
    nwAt,       \* history: the number of the boot's own allocation
    nwCount,    \* history: allocations in this run of the guest
    nwRun,      \* history: the run of the guest
    nwIn        \* history: the run in which the boot got its address

nwBr == <<nwBridge, nwGw, nwNat, nwRaced>>
nwVars == <<nwPlan, nwLast, nwPc, nwStart, nwIp, nwProc, nwLink, nwBr, nwRules, nwDel, nwMiss, nwSeen, nwAt, nwCount, nwRun, nwIn>>
nwHistory == <<nwSeen, nwAt, nwCount, nwRun, nwIn>>

NwGateway == 1
NwDeleters == {"start", "cleanup"}

NwInit ==
    /\ nwPlan \in NwPlans
    /\ nwLast = NwGateway
    /\ nwPc = [b \in NwBoots |-> "idle"] /\ nwStart = [b \in NwBoots |-> 0] /\ nwIp = [b \in NwBoots |-> 0]
    /\ nwProc = [b \in NwBoots |-> "none"] /\ nwLink = [b \in NwBoots |-> "none"]
    /\ nwBridge = "none" /\ nwGw = {} /\ nwNat = 0 /\ nwRaced = "no"
    /\ nwRules = [b \in NwBoots |-> {}]
    /\ nwDel = [d \in NwDeleters |-> [b \in NwBoots |-> "idle"]]
    /\ nwMiss = [b \in NwBoots |-> "none"]
    /\ nwSeen = [b \in NwBoots |-> 0] /\ nwAt = [b \in NwBoots |-> 0] /\ nwCount = 0
    /\ nwRun = 0 /\ nwIn = [b \in NwBoots |-> 0]

(* usedIps holds the gateway's address and nothing else.                    *)
NwUsed == {NwGateway}

(* The loop of allocIP goes on to the next address, wrapping to firstIP,    *)
(* until it is back at its start ("exhausted IPs", 0 here) or finds one     *)
(* that is not used.                                                        *)
NwAfter(n) == IF n + 1 < NwSize THEN n + 1 ELSE 1
NwWalk(start) == LET at[i \in 0..NwSize] == IF i = 0 THEN start ELSE NwAfter(at[i - 1]) IN at
NwNext(start) ==
    LET tried == NwWalk(start)
        ends == {i \in 1..NwSize : tried[i] = start \/ tried[i] \notin NwUsed}
        last == CHOOSE i \in ends : \A j \in ends : i <= j
    IN IF tried[last] = start THEN 0 ELSE tried[last]

(* Where ConfigureProcess is while it works.                                *)
NwConfiguring == {"bridge", "veth", "alloc", "iface", "port", "gw6", "nat", "append", "masq4", "masq6", "configured"}

(* NewTask, then setupBridge: the bridge is made unless it exists, and is   *)
(* set up.                                                                  *)
NwEnsureBridge(b) ==
    /\ b \in nwPlan.boots /\ nwPc[b] = "idle"
    /\ nwPc' = [nwPc EXCEPT ![b] = "bridge"]
    /\ nwProc' = [nwProc EXCEPT ![b] = "alive"]
    /\ nwBridge' = "up"
    /\ UNCHANGED <<nwPlan, nwLast, nwStart, nwIp, nwLink, nwGw, nwNat, nwRaced, nwRules, nwDel, nwMiss, nwHistory>>

(* setupVeth: eth0 is made in the namespace, its other end joins the bridge. *)
NwVeth(b) ==
    /\ nwPc[b] = "bridge"
    /\ nwPc' = [nwPc EXCEPT ![b] = "veth"]
    /\ nwLink' = [nwLink EXCEPT ![b] = "bare"]
    /\ UNCHANGED <<nwPlan, nwLast, nwStart, nwIp, nwProc, nwBr, nwRules, nwDel, nwMiss, nwHistory>>

(* IPForMac finds nothing in the database; allocIP reads lastUsedIP.        *)
NwReadLast(b) ==
    /\ nwPc[b] = "veth"
    /\ nwPc' = [nwPc EXCEPT ![b] = "alloc"]
    /\ nwStart' = [nwStart EXCEPT ![b] = nwLast]
    /\ nwSeen' = [nwSeen EXCEPT ![b] = nwCount]
    /\ UNCHANGED <<nwBr, nwPlan, nwLast, nwIp, nwProc, nwLink, nwRules, nwDel, nwMiss, nwAt, nwCount, nwRun, nwIn>>

(* Mutant: lastUsedIP is written back as it was read.                       *)
MutNwWriteLast(b) == nwStart[b]

(* The address is chosen and lastUsedIP is written.                         *)
NwWriteLast(b) == NwNext(nwStart[b])
NwAlloc(b) ==
    /\ nwPc[b] = "alloc" /\ nwProc[b] = "alive" /\ NwNext(nwStart[b]) # 0
    /\ nwLast' = NwWriteLast(b)
    /\ nwIp' = [nwIp EXCEPT ![b] = NwNext(nwStart[b])]
    /\ nwPc' = [nwPc EXCEPT ![b] = "iface"]
    /\ nwCount' = nwCount + 1
    /\ nwAt' = [nwAt EXCEPT ![b] = nwCount + 1]
    /\ nwIn' = [nwIn EXCEPT ![b] = nwRun]
    /\ UNCHANGED <<nwPlan, nwStart, nwProc, nwLink, nwBr, nwRules, nwDel, nwMiss, nwSeen, nwRun>>

(* configureIface: eth0 gets its addresses and routes and is set up.        *)
NwConfigureIface(b) ==
    /\ b \in nwPlan.whole /\ nwPc[b] = "iface"
    /\ nwLink' = [nwLink EXCEPT ![b] = "addressed"]
    /\ nwPc' = [nwPc EXCEPT ![b] = "port"]
    /\ UNCHANGED <<nwPlan, nwLast, nwStart, nwIp, nwProc, nwBr, nwRules, nwDel, nwMiss, nwHistory>>

(* The bridge port is up; configureGW goes through the addresses, and       *)
(* ensureAddr gives the bridge the gateway's unless it has it.              *)
NwEnsureAddr(b, v) ==
    /\ nwPc[b] = IF v = "v4" THEN "port" ELSE "gw6"
    /\ nwGw' = nwGw \cup {v}
    /\ nwPc' = [nwPc EXCEPT ![b] = IF v = "v4" THEN "gw6" ELSE "nat"]
    /\ UNCHANGED <<nwPlan, nwLast, nwStart, nwIp, nwProc, nwLink, nwBridge, nwNat, nwRaced, nwRules, nwDel, nwMiss, nwHistory>>

(* AppendUnique looks for the rule first and appends it in a second call of *)
(* iptables.                                                                *)
NwLookForNat(b) ==
    /\ nwPc[b] = "nat"
    /\ nwPc' = [nwPc EXCEPT ![b] = IF nwNat = 0 THEN "append" ELSE "masq4"]
    /\ nwRaced' = IF \E c \in NwBoots : nwPc[c] = "append" THEN "yes" ELSE nwRaced
    /\ UNCHANGED <<nwPlan, nwLast, nwStart, nwIp, nwProc, nwLink, nwBridge, nwGw, nwNat, nwRules, nwDel, nwMiss, nwHistory>>

NwAppendNat(b) ==
    /\ nwPc[b] = "append"
    /\ nwNat' = nwNat + 1
    /\ nwPc' = [nwPc EXCEPT ![b] = "masq4"]
    /\ UNCHANGED <<nwPlan, nwLast, nwStart, nwIp, nwProc, nwLink, nwBridge, nwGw, nwRaced, nwRules, nwDel, nwMiss, nwHistory>>

(* SetupIPMasq for the IPv4 address and for the IPv6 address.               *)
NwMasq(b, v) ==
    /\ nwPc[b] = IF v = "v4" THEN "masq4" ELSE "masq6"
    /\ nwRules' = [nwRules EXCEPT ![b] = @ \cup {v}]
    /\ nwPc' = [nwPc EXCEPT ![b] = IF v = "v4" THEN "masq6" ELSE "configured"]
    /\ UNCHANGED <<nwPlan, nwLast, nwStart, nwIp, nwProc, nwLink, nwBr, nwDel, nwMiss, nwHistory>>

(* task.Start; from here on the deferred network.Delete is registered.      *)
NwStarted(b) ==
    /\ nwPc[b] = "configured"
    /\ nwPc' = [nwPc EXCEPT ![b] = "up"]
    /\ UNCHANGED <<nwBr, nwPlan, nwLast, nwStart, nwIp, nwProc, nwLink, nwRules, nwDel, nwMiss, nwHistory>>

(* ConfigureProcess or task.Start fails: StartContainer returns, and only   *)
(* the task and the container are deleted.                                  *)
NwBootFails(b) ==
    /\ b \in nwPlan.whole /\ nwPc[b] \in NwConfiguring
    /\ nwPc' = [nwPc EXCEPT ![b] = "over"]
    /\ nwProc' = [nwProc EXCEPT ![b] = "dead"] /\ nwLink' = [nwLink EXCEPT ![b] = "none"]
    /\ nwMiss' = [nwMiss EXCEPT ![b] = "boot"]
    /\ UNCHANGED <<nwBr, nwPlan, nwLast, nwStart, nwIp, nwRules, nwDel, nwHistory>>

(* The container's first process ends by itself: its namespace goes.        *)
NwExit(b) ==
    /\ nwPc[b] \in {"up", "adopted"} /\ nwProc[b] = "alive"
    /\ nwProc' = [nwProc EXCEPT ![b] = "dead"] /\ nwLink' = [nwLink EXCEPT ![b] = "none"]
    /\ nwMiss' = [nwMiss EXCEPT ![b] = IF nwLink[b] = "addressed" THEN "exit" ELSE @]
    /\ UNCHANGED <<nwBr, nwPlan, nwLast, nwPc, nwStart, nwIp, nwRules, nwDel, nwHistory>>

(* Delete: eth0 is deleted in the namespace, which tells its addresses;     *)
(* without a namespace or without eth0 there is nothing more to do.         *)
NwDelLink(d, b) ==
    /\ nwDel[d][b] = "idle"
    /\ nwPc[b] \in (IF d = "start" THEN {"up"} ELSE {"up", "adopted"})
    /\ IF nwProc[b] = "alive" /\ nwLink[b] = "addressed"
       THEN nwLink' = [nwLink EXCEPT ![b] = "none"] /\ nwDel' = [nwDel EXCEPT ![d][b] = "v4"]
       ELSE nwDel' = [nwDel EXCEPT ![d][b] = "done"] /\ UNCHANGED nwLink
    /\ UNCHANGED <<nwBr, nwPlan, nwLast, nwPc, nwStart, nwIp, nwProc, nwRules, nwMiss, nwHistory>>

(* TeardownIPMasq for each address; an error ends Delete.                   *)
NwTeardown(d, b, fails) ==
    /\ nwDel[d][b] \in {"v4", "v6"}
    /\ IF fails
       THEN /\ nwDel' = [nwDel EXCEPT ![d][b] = "done"]
            /\ nwMiss' = [nwMiss EXCEPT ![b] = "teardown"] /\ UNCHANGED nwRules
       ELSE /\ nwDel' = [nwDel EXCEPT ![d][b] = IF @ = "v4" THEN "v6" ELSE "done"]
            /\ nwRules' = [nwRules EXCEPT ![b] = @ \ {nwDel[d][b]}] /\ UNCHANGED nwMiss
    /\ UNCHANGED <<nwBr, nwPlan, nwLast, nwPc, nwStart, nwIp, nwProc, nwLink, nwHistory>>

(* Mutant: the task is killed before or while its network is deleted.       *)
MutNwKillReady(d, b) == TRUE

(* The task is killed and deleted after Delete has returned.                *)
NwKillReady(d, b) == nwDel[d][b] = "done"
NwKill(d, b) ==
    /\ nwPc[b] \in (IF d = "start" THEN {"up"} ELSE {"up", "adopted"}) /\ NwKillReady(d, b)
    /\ nwProc' = [nwProc EXCEPT ![b] = "dead"] /\ nwLink' = [nwLink EXCEPT ![b] = "none"]
    /\ nwPc' = [nwPc EXCEPT ![b] = IF d = "start" THEN "over" ELSE IF @ = "adopted" THEN "over" ELSE @]
    /\ UNCHANGED <<nwBr, nwPlan, nwLast, nwStart, nwIp, nwRules, nwDel, nwMiss, nwHistory>>

(* The guest process is restarted: Init sets lastUsedIP again, containers   *)
(* go on and are adopted, boots and deleters are gone.                      *)
NwRestart ==
    /\ nwRun < NwMaxRestarts
    /\ nwRun' = nwRun + 1 /\ nwCount' = 0
    /\ nwLast' = NwGateway
    /\ nwPc' = [b \in NwBoots |-> CASE nwPc[b] = "up" /\ nwProc[b] = "alive" -> "adopted"
                                    [] nwPc[b] \in {"idle", "over", "adopted"} -> nwPc[b]
                                    [] OTHER -> "over"]
    /\ nwMiss' = [b \in NwBoots |-> IF \/ nwPc[b] \in NwConfiguring
                                       \/ \E d \in NwDeleters : nwDel[d][b] \in {"v4", "v6"}
                                    THEN "restart" ELSE nwMiss[b]]
    /\ nwDel' = [d \in NwDeleters |-> [b \in NwBoots |-> IF nwDel[d][b] = "done" THEN "done" ELSE "idle"]]
    /\ UNCHANGED <<nwBr, nwPlan, nwStart, nwIp, nwProc, nwLink, nwRules, nwSeen, nwAt, nwIn>>

NwNextStep ==
    \/ \E b \in NwBoots :
         \/ NwEnsureBridge(b) \/ NwVeth(b) \/ NwReadLast(b) \/ NwAlloc(b) \/ NwConfigureIface(b)
         \/ NwLookForNat(b) \/ NwAppendNat(b) \/ NwStarted(b) \/ NwBootFails(b) \/ NwExit(b)
         \/ \E v \in {"v4", "v6"} : NwEnsureAddr(b, v) \/ NwMasq(b, v)
         \/ \E d \in NwDeleters : NwDelLink(d, b) \/ (\E f \in BOOLEAN : NwTeardown(d, b, f)) \/ NwKill(d, b)
    \/ NwRestart

NwSpec == NwInit /\ [][NwNextStep]_nwVars

------------------------------------------------------------------------------
NwTypeOK ==
    /\ nwLast \in 1..(NwSize - 1)
    /\ \A b \in NwBoots :
         /\ nwPc[b] \in NwConfiguring \cup {"idle", "up", "adopted", "over"}
         /\ nwStart[b] \in 0..(NwSize - 1) /\ nwIp[b] \in (0..(NwSize - 1)) \ {NwGateway}
         /\ nwProc[b] \in {"none", "alive", "dead"} /\ nwLink[b] \in {"none", "bare", "addressed"}
         /\ nwRules[b] \subseteq {"v4", "v6"}
    /\ nwBridge \in {"none", "up"} /\ nwGw \subseteq {"v4", "v6"} /\ nwNat \in Nat /\ nwRaced \in {"no", "yes"}

(* Two containers get different addresses, and never the gateway's, when    *)
(* the second allocIP begins after the first has ended, in the same run of  *)
(* the guest and less than a round of the network later: nothing else keeps *)
(* addresses apart, since usedIps is never written.                         *)
NwDistinct ==
    NwTypeOK /\ \A b, c \in NwBoots :
        (/\ b # c /\ nwIp[b] # 0 /\ nwIp[c] # 0 /\ nwIn[b] = nwIn[c]
         /\ nwAt[b] <= nwSeen[c]
         /\ nwAt[c] - nwAt[b] < NwSize - 2
         /\ \A o \in NwBoots : nwIn[o] = nwIn[c] /\ nwIp[o] # 0 /\ nwAt[o] \in nwAt[b]..nwAt[c] => nwSeen[o] = nwAt[o] - 1)
        => nwIp[b] # nwIp[c]

(* A container that runs has both its masquerading rules and keeps them     *)
(* until a Delete has begun.                                                *)
NwRunningHasRules ==
    \A b \in NwBoots :
        nwPc[b] \in {"up", "adopted"} /\ nwLink[b] = "addressed" => nwRules[b] = {"v4", "v6"}

(* A container that was removed leaves no rule behind, though StartContainer *)
(* and CleanupContainer may both delete its network at once: except when    *)
(* its boot failed half way, its process ended by itself before, iptables   *)
(* refused, or the guest was restarted in between.                          *)
NwNothingLeft ==
    \A b \in NwBoots :
        (/\ nwPc[b] = "over" /\ nwMiss[b] = "none"
         /\ \A d \in NwDeleters : nwDel[d][b] \in {"idle", "done"})
        => nwRules[b] = {}

(* A container that runs has a bridge with both gateways and the metadata   *)
(* address behind it, also when the boot that made them failed later or the *)
(* guest was restarted; and the rule for that address is there once, unless *)
(* two boots were in configureGW at the same time, one of them cancelled.   *)
NwGatewayThere ==
    /\ \A b \in NwBoots : nwPc[b] \in {"configured", "up", "adopted"} =>
         nwBridge = "up" /\ nwGw = {"v4", "v6"} /\ nwNat > 0
    /\ nwNat > 1 => nwRaced = "yes"

(* Bridge and rules of the firewall are what the containers need.           *)
NwRulesMatch == NwRunningHasRules /\ NwNothingLeft /\ NwGatewayThere
=============================================================================
