------------------------------- MODULE IsleDNS -------------------------------
(***************************************************************************)
(* Name resolution of the guest: guest/dns.go asks the mac's resolver over *)
(* a vsock session, served by vm/dns.go, and falls back to the servers of  *)
(* its own resolv.conf.                                                    *)
(*                                                                         *)
(* A query is of a kind that resolveLocal handles and answers ("A"), one   *)
(* whose answers it collects in a variable of an inner scope ("MX", and    *)
(* TXT is the same), or one that it leaves alone ("other").  DNS clients   *)
(* give up on a silent server after a time.                                *)
(***************************************************************************)
EXTENDS Integers, SequencesExt

CONSTANTS
    DnQueries,    \* the queries
    DnKinds,      \* the kinds that they may have
    DnReaches,    \* the sets of name servers that a network may let through
    DnDefault,    \* the servers used without a resolv.conf
    DnConfs,      \* the contents that resolv.conf may have
    DnTries,      \* rounds over the servers; 10
    DnMaxMoves    \* bound: changes of the network

ASSUME DnAssumption == DnTries \in Nat \ {0} /\ DnMaxMoves \in Nat

VARIABLES
    dnConf,      \* the guest's resolv.conf
    dnReach,     \* the servers that answer
    dnMoves,     \* changes of the network
    dnChanged,   \* a change of resolv.conf that the watcher has not taken
    dnOnce,      \* configOnce of the guest
    dnAddrs,     \* the guest's addresses
    dnHostAddrs, \* the host's, read with its first query; <<>>: not yet
    dnHost,      \* runDNS: "listening", "serving", "ended"
    dnSess,      \* the guest's session: "none", "up", "unserved" (nobody at the other end), "broken"
    dnQ,         \* the guest's handler: "none", "begun", "asking", "rounds", "over"
    dnLeft,      \* rounds left
    dnAt,        \* the host's handler: "none", "asked", "upstream", "records", "empty", "silent"
    dnReply      \* the replies to the query: "host", "upstream"

dnVars == <<dnConf, dnReach, dnMoves, dnChanged, dnOnce, dnAddrs, dnHostAddrs, dnHost, dnSess, dnQ, dnLeft, dnAt, dnReply>>
dnNetwork == <<dnConf, dnReach, dnMoves>>

DnInit ==
    /\ dnConf \in DnConfs /\ dnReach \in DnReaches /\ dnMoves = 0 /\ dnChanged = FALSE
    /\ dnOnce = FALSE /\ dnAddrs = <<>> /\ dnHostAddrs = <<>> /\ dnHost = "listening" /\ dnSess = "none"
    /\ dnQ = [q \in DnQueries |-> "none"] /\ dnLeft = [q \in DnQueries |-> DnTries]
    /\ dnAt = [q \in DnQueries |-> "none"] /\ dnReply = [q \in DnQueries |-> <<>>]

(* updateConfig: servers are appended to the ones of earlier files.         *)
DnServersOf(conf) == IF conf = <<>> THEN DnDefault ELSE conf
MutDnUpdated(addrs) == IF addrs = <<>> THEN DnServersOf(dnConf) ELSE addrs
DnUpdated(addrs) == addrs \o DnServersOf(dnConf)

(* The network changes, and resolv.conf with it.                           *)
DnMove(conf, reach) ==
    /\ dnMoves < DnMaxMoves
    /\ dnMoves' = dnMoves + 1 /\ dnConf' = conf /\ dnReach' = reach /\ dnChanged' = TRUE
    /\ UNCHANGED <<dnOnce, dnAddrs, dnHostAddrs, dnHost, dnSess, dnQ, dnLeft, dnAt, dnReply>>

(* The watcher of StartDNS.                                                *)
DnWatch ==
    /\ dnChanged
    /\ dnChanged' = FALSE /\ dnAddrs' = DnUpdated(dnAddrs)
    /\ UNCHANGED <<dnNetwork, dnOnce, dnHostAddrs, dnHost, dnSess, dnQ, dnLeft, dnAt, dnReply>>

(* ServeDNS of the guest: the configuration once ...                        *)
DnBegin(q) ==
    /\ dnQ[q] = "none"
    /\ dnQ' = [dnQ EXCEPT ![q] = "begun"]
    /\ dnOnce' = TRUE /\ dnAddrs' = IF dnOnce THEN dnAddrs ELSE DnUpdated(dnAddrs)
    /\ UNCHANGED <<dnNetwork, dnChanged, dnHostAddrs, dnHost, dnSess, dnLeft, dnAt, dnReply>>

(* ... connectHost: a stream of the session, or of a new one.  The host     *)
(* takes one connection only; one that it does not take is refused, or      *)
(* stays unserved in its backlog.                                          *)
DnConnect(q, refused) ==
    /\ dnQ[q] = "begun"
    /\ LET redial == dnSess \in {"none", "broken"} IN
       /\ refused => redial /\ dnHost # "listening"
       /\ dnSess' = IF ~redial THEN dnSess ELSE IF refused THEN dnSess ELSE IF dnHost = "listening" THEN "up" ELSE "unserved"
       /\ dnHost' = IF redial /\ dnHost = "listening" THEN "serving" ELSE dnHost
    /\ dnQ' = [dnQ EXCEPT ![q] = IF refused THEN "rounds" ELSE "asking"]
    /\ dnAt' = IF ~refused /\ dnSess' = "up" THEN [dnAt EXCEPT ![q] = "asked"] ELSE dnAt
    /\ UNCHANGED <<dnNetwork, dnChanged, dnOnce, dnAddrs, dnHostAddrs, dnLeft, dnReply>>

(* The vsock connection breaks; the host's server ends with it.             *)
DnBreak ==
    /\ dnSess \in {"up", "unserved"}
    /\ dnSess' = "broken" /\ dnHost' = "ended"
    /\ UNCHANGED <<dnNetwork, dnChanged, dnOnce, dnAddrs, dnHostAddrs, dnQ, dnLeft, dnAt, dnReply>>

(* ServeDNS of the host: resolveLocal, by the kind of the query and what    *)
(* the mac's resolver says of its name.  Loopback addresses are left out; a *)
(* name that is not found gives an empty answer, and so does "MX".          *)
DnAnswers == {"found", "loopback", "notfound", "error"}
DnResolved(kind, known) ==
    CASE kind = "other" \/ known = "error" -> "upstream"
      [] kind = "A" /\ known = "found" -> "records"
      [] OTHER -> "empty"

DnResolve(q, kind, known) ==
    /\ dnAt[q] = "asked"
    /\ dnHostAddrs' = IF dnHostAddrs = <<>> THEN DnDefault ELSE dnHostAddrs
    /\ dnAt' = [dnAt EXCEPT ![q] = DnResolved(kind, known)]
    /\ UNCHANGED <<dnNetwork, dnChanged, dnOnce, dnAddrs, dnHost, dnSess, dnQ, dnLeft, dnReply>>

(* Its rounds over the servers; without an answer it stays silent.          *)
DnHostRounds(q) ==
    /\ dnAt[q] = "upstream"
    /\ dnAt' = [dnAt EXCEPT ![q] = IF ToSet(dnHostAddrs) \intersect dnReach # {} THEN "records" ELSE "silent"]
    /\ UNCHANGED <<dnNetwork, dnChanged, dnOnce, dnAddrs, dnHostAddrs, dnHost, dnSess, dnQ, dnLeft, dnReply>>

(* The guest's exchange with the host: only an answer with records counts;  *)
(* else, or after an error or its time limit, it turns to its own servers.  *)
DnTakes(q) == dnAt[q] = "records" /\ dnSess = "up"
DnExchange(q) ==
    /\ dnQ[q] = "asking"
    /\ dnQ' = [dnQ EXCEPT ![q] = IF DnTakes(q) THEN "over" ELSE "rounds"]
    /\ dnReply' = IF DnTakes(q) THEN [dnReply EXCEPT ![q] = Append(@, "host")] ELSE dnReply
    /\ UNCHANGED <<dnNetwork, dnChanged, dnOnce, dnAddrs, dnHostAddrs, dnHost, dnSess, dnLeft, dnAt>>

(* A round over the addresses as they are when it begins.                   *)
DnRound(q) ==
    /\ dnQ[q] = "rounds"
    /\ dnLeft' = [dnLeft EXCEPT ![q] = @ - 1]
    /\ LET answered == ToSet(dnAddrs) \intersect dnReach # {} IN
       /\ dnQ' = IF answered \/ dnLeft[q] = 1 THEN [dnQ EXCEPT ![q] = "over"] ELSE dnQ
       /\ dnReply' = IF answered THEN [dnReply EXCEPT ![q] = Append(@, "upstream")] ELSE dnReply
    /\ UNCHANGED <<dnNetwork, dnChanged, dnOnce, dnAddrs, dnHostAddrs, dnHost, dnSess, dnAt>>

DnServe(q) == DnExchange(q) \/ DnRound(q) \/ \E refused \in BOOLEAN : DnConnect(q, refused)
DnHostServe(q) == DnHostRounds(q) \/ \E kind \in DnKinds, known \in DnAnswers : DnResolve(q, kind, known)

DnNext ==
    \/ DnWatch \/ DnBreak
    \/ \E q \in DnQueries : DnBegin(q) \/ DnServe(q) \/ DnHostServe(q)
    \/ \E conf \in DnConfs, reach \in DnReaches : DnMove(conf, reach)

DnSpec == DnInit /\ [][DnNext]_dnVars

(* Handlers run, time limits pass, and the watcher is told.                 *)
DnFairSpec ==
    /\ DnSpec /\ WF_dnVars(DnWatch)
    /\ \A q \in DnQueries : WF_dnVars(DnServe(q)) /\ WF_dnVars(DnHostServe(q))

(* A query gets one reply at most, and the host's only when the host found  *)
(* records; the servers of resolv.conf are among the guest's once it knows  *)
(* of them; and a query without a reply means that none of the guest's      *)
(* servers could be reached, unless the network changed meanwhile.          *)
DnSound ==
    /\ \A q \in DnQueries :
         /\ Len(dnReply[q]) <= 1
         /\ dnReply[q] = <<"host">> => dnAt[q] = "records"
         /\ dnQ[q] = "over" /\ dnReply[q] = <<>> /\ dnMoves = 0 => ToSet(DnServersOf(dnConf)) \intersect dnReach = {}
    /\ dnOnce /\ ~dnChanged => ToSet(DnServersOf(dnConf)) \subseteq ToSet(dnAddrs)

(* Every query ends, whatever becomes of the host's session (runDNS takes    *)
(* one connection in its life, and a later session is served by nobody),    *)
(* and ends with an answer as above.                                        *)
DnServed ==
    /\ [](DnSound /\ Len(dnHostAddrs) <= Len(DnDefault))
    /\ \A q \in DnQueries : []<>(dnQ[q] \in {"none", "over"})
=============================================================================
