----------------------------- MODULE SshForwards -----------------------------
(***************************************************************************)
(* Remote forwards of the SSH client: Listen, Accept and Close of tcpip.go *)
(* and streamlocal.go, the list of forwards, and the goroutines of client.go *)
(* that pass the channels the peer opens on to the listeners.              *)
(*                                                                         *)
(* Everything arrives through the mux's one loop, which stops while the    *)
(* channel for opened channels is full.  One global request is under way at *)
(* a time (SendRequest of mux.go).  The peer is the external part: it      *)
(* grants or denies what is asked and opens channels as it likes.          *)
(***************************************************************************)
EXTENDS Integers, SequencesExt

CONSTANTS
    FwListeners,   \* the calls of Listen
    FwAddrs,       \* the addresses a listener can have
    FwBad,         \* an address that cannot be parsed
    FwKindOf,      \* the kind of each address and of FwBad: "tcp" or "unix"
    FwAny,         \* port 0: any address
    FwNone,
    FwChanSize,    \* chanSize: room for opened channels, at the mux and per kind
    FwTries,       \* tries: ports that autoPortListenWorkaround asks for
    FwMaxConns     \* bound: channels that the peer opens

ASSUME FwAssumption == FwChanSize \in Nat \ {0} /\ FwTries \in Nat \ {0} /\ FwMaxConns \in Nat

FwKinds == {"tcp", "unix"}
FwConns == 1..FwMaxConns
FwRange(k) == {a \in FwAddrs : FwKindOf[a] = k}

VARIABLES
    fwBroken,     \* isBrokenOpenSSHVersion
    fwWish,       \* the address each listener is to have, or FwAny
    fwNet,        \* "open", "closed" or "cleared": closeAll is done
    fwLn,         \* a listener: "idle", "asking", "granted", "denied", "open", "removing", "cancelling", "closed"
    fwLaddr,      \* its address
    fwLeft,       \* the ports it may still try
    fwReq,        \* the listener whose global request is under way
    fwAnswered,   \* whether the peer has answered it
    fwPeer,       \* the addresses that the peer forwards
    fwWire,       \* from the peer: channels, and answers (conn 0)
    fwConn,       \* a channel: "none", "coming", "queued", "accepted", "rejected", "lost"
    fwTo,         \* the address it is for
    fwIncoming,   \* mux.incomingChannels
    fwHandlers,   \* channelHandlers of both kinds: "none", "open", "closed"
    fwHandler,    \* the channels waiting in them
    fwTaken,      \* the channel that handleChannels has in hand, per kind; 0: none
    fwHolder,     \* the kind whose forward blocks in f.c <- with the list locked
    fwEntries,    \* forwardList.entries: listeners, in order
    fwIn,         \* a listener's channel
    fwShut,       \* whether it was closed
    fwEof         \* whether Accept has returned io.EOF

fwVars == <<fwBroken, fwWish, fwNet, fwLn, fwLaddr, fwLeft, fwReq, fwAnswered, fwPeer, fwWire, fwConn, fwTo, fwIncoming,
            fwHandlers, fwHandler, fwTaken, fwHolder, fwEntries, fwIn, fwShut, fwEof>>
fwCall == <<fwBroken, fwWish, fwLn, fwLaddr, fwLeft, fwReq, fwAnswered, fwPeer>>
fwPath == <<fwWire, fwConn, fwTo, fwIncoming, fwHandlers, fwHandler, fwTaken, fwHolder>>
fwList == <<fwEntries, fwIn, fwShut, fwEof>>

FwInit ==
    /\ fwBroken \in BOOLEAN /\ fwWish \in [FwListeners -> FwRange("unix") \union {FwAny}] /\ fwNet = "open"
    /\ fwLn = [l \in FwListeners |-> "idle"] /\ fwLaddr = [l \in FwListeners |-> FwNone] /\ fwLeft = [l \in FwListeners |-> 1]
    /\ fwReq = FwNone /\ fwAnswered = FALSE /\ fwPeer = {} /\ fwWire = <<>>
    /\ fwConn = [i \in FwConns |-> "none"] /\ fwTo = [i \in FwConns |-> FwNone]
    /\ fwIncoming = <<>> /\ fwHandlers = "none" /\ fwHandler = [k \in FwKinds |-> <<>>]
    /\ fwTaken = [k \in FwKinds |-> 0] /\ fwHolder = FwNone
    /\ fwEntries = <<>> /\ fwIn = [l \in FwListeners |-> <<>>]
    /\ fwShut = [l \in FwListeners |-> FALSE] /\ fwEof = [l \in FwListeners |-> FALSE]

(* The list's lock, which only a blocked forward keeps.                    *)
MutFwFree == TRUE
FwFree == fwHolder = FwNone

(* ListenTCP, ListenUnix: the handlers once; then the address to ask for:   *)
(* one of its own choice for port 0 of a server that cannot choose.        *)
FwAsks(l) ==
    IF fwWish[l] = FwAny /\ fwBroken THEN FwRange("tcp") ELSE {fwWish[l]}

(* HandleChannelOpen: nothing is handled once the connection has ended.     *)
FwHandlersMade == IF fwHandlers = "none" THEN "open" ELSE fwHandlers

FwListen(l) ==
    /\ fwLn[l] = "idle"
    /\ fwHandlers' = FwHandlersMade
    /\ fwLn' = [fwLn EXCEPT ![l] = "asking"]
    /\ fwLeft' = [fwLeft EXCEPT ![l] = IF fwWish[l] = FwAny /\ fwBroken THEN FwTries ELSE 1]
    /\ \E a \in FwAsks(l) : fwLaddr' = [fwLaddr EXCEPT ![l] = a]
    /\ UNCHANGED <<fwBroken, fwWish, fwNet, fwReq, fwAnswered, fwPeer, fwWire, fwConn, fwTo, fwIncoming, fwHandler, fwTaken, fwHolder, fwList>>

(* Another port, or the call fails.                                        *)
FwRefused(l) ==
    /\ fwLeft' = [fwLeft EXCEPT ![l] = @ - 1]
    /\ IF fwLeft[l] = 1
       THEN fwLn' = [fwLn EXCEPT ![l] = "denied"] /\ UNCHANGED fwLaddr
       ELSE fwLn' = [fwLn EXCEPT ![l] = "asking"] /\ \E a \in FwAsks(l) : fwLaddr' = [fwLaddr EXCEPT ![l] = a]

(* The end of Close, whatever the peer says.                               *)
FwCancelled(l) == fwLn' = [fwLn EXCEPT ![l] = "closed"] /\ UNCHANGED <<fwLaddr, fwLeft>>

(* SendRequest begins, or fails at once on a closed connection.            *)
FwSend(l) ==
    /\ fwLn[l] \in {"asking", "cancelling"} /\ fwReq = FwNone
    /\ IF fwNet = "open"
       THEN fwReq' = l /\ fwAnswered' = FALSE /\ UNCHANGED <<fwLn, fwLaddr, fwLeft>>
       ELSE /\ UNCHANGED <<fwReq, fwAnswered>>
            /\ IF fwLn[l] = "asking" THEN FwRefused(l) ELSE FwCancelled(l)
    /\ UNCHANGED <<fwBroken, fwWish, fwNet, fwPeer, fwPath, fwList>>

(* The peer: it grants an address that it does not forward yet, or denies. *)
FwAnswer(ok, a) ==
    /\ fwNet = "open" /\ fwReq # FwNone /\ ~fwAnswered
    /\ fwAnswered' = TRUE
    /\ IF fwLn[fwReq] = "cancelling"
       THEN ok /\ a = fwLaddr[fwReq] /\ fwPeer' = fwPeer \ {a}
       ELSE /\ ok => a \notin fwPeer
            /\ IF fwLaddr[fwReq] = FwAny THEN FwKindOf[a] = "tcp" ELSE a = fwLaddr[fwReq]
            /\ fwPeer' = IF ok THEN fwPeer \union {a} ELSE fwPeer
    /\ fwWire' = Append(fwWire, [conn |-> 0, ok |-> ok, addr |-> a])
    /\ UNCHANGED <<fwBroken, fwWish, fwNet, fwLn, fwLaddr, fwLeft, fwReq, fwConn, fwTo, fwIncoming, fwHandlers, fwHandler, fwTaken, fwHolder, fwList>>

FwOpen(i, a) ==
    /\ fwNet = "open" /\ fwConn[i] = "none" /\ \A j \in 1..(i - 1) : fwConn[j] # "none"
    /\ fwConn' = [fwConn EXCEPT ![i] = "coming"] /\ fwTo' = [fwTo EXCEPT ![i] = a]
    /\ fwWire' = Append(fwWire, [conn |-> i, ok |-> TRUE, addr |-> a])
    /\ UNCHANGED <<fwNet, fwCall, fwIncoming, fwHandlers, fwHandler, fwTaken, fwHolder, fwList>>

(* The connection ends: what has not been read from it is lost, and so is  *)
(* the answer to the request under way.                                    *)
FwDrop ==
    /\ fwNet = "open"
    /\ fwNet' = "closed"
    /\ fwWire' = <<>>
    /\ fwConn' = [i \in FwConns |-> IF \E n \in DOMAIN fwWire : fwWire[n].conn = i THEN "lost" ELSE fwConn[i]]
    /\ fwReq' = FwNone
    /\ IF fwReq = FwNone THEN UNCHANGED <<fwLn, fwLaddr, fwLeft>>
       ELSE IF fwLn[fwReq] = "asking" THEN FwRefused(fwReq)
       ELSE FwCancelled(fwReq)
    /\ UNCHANGED <<fwBroken, fwWish, fwAnswered, fwPeer, fwTo, fwIncoming, fwHandlers, fwHandler, fwTaken, fwHolder, fwList>>

(* The mux's loop: it stops before a channel for which there is no room.   *)
FwReadChannel ==
    /\ fwWire # <<>> /\ Head(fwWire).conn # 0 /\ Len(fwIncoming) < FwChanSize
    /\ fwWire' = Tail(fwWire) /\ fwIncoming' = Append(fwIncoming, Head(fwWire).conn)
    /\ UNCHANGED <<fwNet, fwCall, fwConn, fwTo, fwHandlers, fwHandler, fwTaken, fwHolder, fwList>>

FwReadAnswer ==
    /\ fwWire # <<>> /\ Head(fwWire).conn = 0
    /\ fwWire' = Tail(fwWire)
    /\ fwReq' = FwNone
    /\ IF fwLn[fwReq] = "cancelling"
       THEN FwCancelled(fwReq)
       ELSE IF Head(fwWire).ok
       THEN /\ fwLn' = [fwLn EXCEPT ![fwReq] = "granted"]
            /\ fwLaddr' = [fwLaddr EXCEPT ![fwReq] = Head(fwWire).addr] /\ UNCHANGED fwLeft
       ELSE FwRefused(fwReq)
    /\ UNCHANGED <<fwBroken, fwWish, fwNet, fwAnswered, fwPeer, fwConn, fwTo, fwIncoming, fwHandlers, fwHandler, fwTaken, fwHolder, fwList>>

(* handleChannelOpens: to the handler of the channel's kind, when it has   *)
(* room; without one it is rejected.                                       *)
FwDispatch ==
    /\ fwIncoming # <<>>
    /\ LET i == Head(fwIncoming) k == FwKindOf[fwTo[i]] IN
       IF fwHandlers = "open"
       THEN /\ Len(fwHandler[k]) < FwChanSize
            /\ fwHandler' = [fwHandler EXCEPT ![k] = Append(@, i)] /\ UNCHANGED fwConn
       ELSE fwConn' = [fwConn EXCEPT ![i] = "rejected"] /\ UNCHANGED fwHandler
    /\ fwIncoming' = Tail(fwIncoming)
    /\ UNCHANGED <<fwNet, fwCall, fwWire, fwTo, fwHandlers, fwTaken, fwHolder, fwList>>

FwHandlersClose ==
    /\ fwNet # "open" /\ fwIncoming = <<>> /\ fwHandlers # "closed"
    /\ fwHandlers' = "closed"
    /\ UNCHANGED <<fwNet, fwCall, fwWire, fwConn, fwTo, fwIncoming, fwHandler, fwTaken, fwHolder, fwList>>

(* handleChannels takes a channel; an address that does not parse is       *)
(* rejected.                                                               *)
FwTake(k) ==
    /\ fwTaken[k] = 0 /\ fwHandler[k] # <<>>
    /\ fwHandler' = [fwHandler EXCEPT ![k] = Tail(@)]
    /\ LET i == Head(fwHandler[k]) IN
       IF fwTo[i] = FwBad
       THEN fwConn' = [fwConn EXCEPT ![i] = "rejected"] /\ UNCHANGED fwTaken
       ELSE fwTaken' = [fwTaken EXCEPT ![k] = i] /\ UNCHANGED fwConn
    /\ UNCHANGED <<fwNet, fwCall, fwWire, fwTo, fwIncoming, fwHandlers, fwHolder, fwList>>

(* The first entry with an address.                                        *)
FwEntryAt(a) == SelectInSeq(fwEntries, LAMBDA l : fwLaddr[l] = a)

(* forward: to the first listener with the address; without room in its    *)
(* channel the goroutine waits and keeps the list locked.                  *)
FwForward(k) ==
    /\ fwTaken[k] # 0 /\ (FwFree \/ fwHolder = k)
    /\ LET i == fwTaken[k] n == FwEntryAt(fwTo[i]) IN
       IF n = 0
       THEN /\ fwConn' = [fwConn EXCEPT ![i] = "rejected"] /\ fwTaken' = [fwTaken EXCEPT ![k] = 0]
            /\ fwHolder' = FwNone /\ UNCHANGED fwIn
       ELSE IF fwIn[fwEntries[n]] = <<>>
       THEN /\ fwIn' = [fwIn EXCEPT ![fwEntries[n]] = <<i>>] /\ fwConn' = [fwConn EXCEPT ![i] = "queued"]
            /\ fwTaken' = [fwTaken EXCEPT ![k] = 0] /\ fwHolder' = FwNone
       ELSE /\ fwHolder # k
            /\ fwHolder' = k /\ UNCHANGED <<fwIn, fwConn, fwTaken>>
    /\ UNCHANGED <<fwNet, fwCall, fwWire, fwTo, fwIncoming, fwHandlers, fwHandler, fwEntries, fwShut, fwEof>>

(* forwards.add, with the address that was granted.                        *)
FwAdd(l) ==
    /\ fwLn[l] = "granted" /\ FwFree
    /\ fwLn' = [fwLn EXCEPT ![l] = "open"] /\ fwEntries' = Append(fwEntries, l)
    /\ UNCHANGED <<fwBroken, fwWish, fwNet, fwLaddr, fwLeft, fwReq, fwAnswered, fwPeer, fwPath, fwIn, fwShut, fwEof>>

(* Close: the entry is removed and its channel closed, then the peer is    *)
(* told.                                                                   *)
FwClose(l) ==
    /\ fwLn[l] = "open"
    /\ fwLn' = [fwLn EXCEPT ![l] = "removing"]
    /\ UNCHANGED <<fwBroken, fwWish, fwNet, fwLaddr, fwLeft, fwReq, fwAnswered, fwPeer, fwPath, fwList>>

FwRemove(l) ==
    /\ fwLn[l] = "removing" /\ FwFree
    /\ fwLn' = [fwLn EXCEPT ![l] = "cancelling"]
    /\ LET n == FwEntryAt(fwLaddr[l]) IN
       IF n = 0 THEN UNCHANGED <<fwEntries, fwShut>>
       ELSE fwEntries' = RemoveAt(fwEntries, n) /\ fwShut' = [fwShut EXCEPT ![fwEntries[n]] = TRUE]
    /\ UNCHANGED <<fwBroken, fwWish, fwNet, fwLaddr, fwLeft, fwReq, fwAnswered, fwPeer, fwPath, fwIn, fwEof>>

(* The goroutine of NewClient: after the connection's end, closeAll.       *)
FwCloseAll ==
    /\ fwNet = "closed" /\ FwFree
    /\ fwNet' = "cleared"
    /\ fwShut' = [l \in FwListeners |-> fwShut[l] \/ l \in ToSet(fwEntries)] /\ fwEntries' = <<>>
    /\ UNCHANGED <<fwCall, fwPath, fwIn, fwEof>>

(* Accept, called again and again while the listener has not ended.        *)
FwAccept(l) ==
    /\ fwLn[l] \in {"open", "removing", "cancelling", "closed"} /\ ~fwEof[l]
    /\ IF fwIn[l] # <<>>
       THEN /\ fwIn' = [fwIn EXCEPT ![l] = <<>>]
            /\ fwConn' = [fwConn EXCEPT ![Head(fwIn[l])] = IF fwNet = "open" THEN "accepted" ELSE "lost"]
            /\ UNCHANGED fwEof
       ELSE fwShut[l] /\ fwEof' = [fwEof EXCEPT ![l] = TRUE] /\ UNCHANGED <<fwIn, fwConn>>
    /\ UNCHANGED <<fwNet, fwCall, fwWire, fwTo, fwIncoming, fwHandlers, fwHandler, fwTaken, fwHolder, fwEntries, fwShut>>

FwRead == FwReadChannel \/ FwReadAnswer
FwPass == FwDispatch \/ FwHandlersClose
FwKindSteps(k) == FwTake(k) \/ FwForward(k)
FwCallSteps(l) == FwSend(l) \/ FwAdd(l) \/ FwRemove(l)

FwNext ==
    \/ FwDrop \/ FwRead \/ FwPass \/ FwCloseAll
    \/ \E k \in FwKinds : FwKindSteps(k)
    \/ \E l \in FwListeners : FwListen(l) \/ FwCallSteps(l) \/ FwClose(l) \/ FwAccept(l)
    \/ \E a \in FwAddrs : \E ok \in BOOLEAN : FwAnswer(ok, a)
    \/ \E i \in FwConns : \E a \in FwAddrs \union {FwBad} : FwOpen(i, a)

FwSpec == FwInit /\ [][FwNext]_fwVars

(* Goroutines run, the peer answers, and the listener is serviced, as the  *)
(* comment of Listen requires: Accept is called again and again.           *)
FwFairSpec ==
    /\ FwSpec /\ WF_fwVars(FwRead) /\ WF_fwVars(FwPass) /\ WF_fwVars(FwCloseAll)
    /\ WF_fwVars(\E a \in FwAddrs : \E ok \in BOOLEAN : FwAnswer(ok, a))
    /\ \A k \in FwKinds : WF_fwVars(FwKindSteps(k))
    /\ \A l \in FwListeners : SF_fwVars(FwCallSteps(l)) /\ WF_fwVars(FwAccept(l))

(* A listener only gets channels for its own address; a channel of the     *)
(* list is open as long as it is in the list, so that a forward that waits *)
(* for room never sends on a closed one; and an entry is there once.       *)
FwSound ==
    /\ \A l \in FwListeners : \A i \in ToSet(fwIn[l]) : fwTo[i] = fwLaddr[l]
    /\ \A l \in ToSet(fwEntries) : ~fwShut[l]
    /\ fwHolder # FwNone => FwEntryAt(fwTo[fwTaken[fwHolder]]) # 0
    /\ IsInjective(fwEntries)

(* Every channel that the peer opens is accepted or rejected, or lost with  *)
(* the connection; Listen and Close return; and a listener that was in the  *)
(* list when the connection ended reads the end (tcpip.go: the lock is held *)
(* while a forward waits for its listener, and the one loop of the mux     *)
(* waits behind it).                                                       *)
FwServed ==
    /\ [](FwSound /\ Len(fwIncoming) <= FwChanSize)
    /\ []<>(\A i \in FwConns : fwConn[i] \notin {"coming", "queued"})
    /\ []<>(\A l \in FwListeners : fwLn[l] \notin {"asking", "granted", "removing", "cancelling"})
    /\ \A l \in FwListeners : (fwNet = "closed" /\ l \in ToSet(fwEntries)) ~> fwEof[l]
=============================================================================
