------------------------------ MODULE SshServer ------------------------------
(***************************************************************************)
(* The server of pkg/ssh: Serve, HandleConn, Close and Shutdown with the   *)
(* listeners and connections they track (server.go, conn.go), and the      *)
(* listeners that clients ask for (ForwardedTCPHandler of tcpip.go), which *)
(* all connections keep in one map by address.                             *)
(*                                                                         *)
(* A connection is tracked only after its handshake.  srv.mu is held for   *)
(* one step at a time, so every step under it is one action.               *)
(***************************************************************************)
EXTENDS Integers, FiniteSets

CONSTANTS
    SvConns,    \* connections
    SvPlans,    \* what happens: [calls, conns, forwards] with the calls of the application
    SvAddrs,    \* addresses that clients ask to listen on
    SvLns       \* listeners of tcpip-forward

ASSUME SvAssumption ==
    \A p \in SvPlans : p.calls \subseteq {"close", "shutdown"} /\ p.conns \subseteq SvConns /\ p.lns \subseteq SvLns

VARIABLES
    svPlan,     \* the plan of this behaviour
    svServe,    \* Serve: "none", "accepting", "returned"
    svLn,       \* its listener: "open" or "closed"
    svListed,   \* whether the listener is in srv.listeners
    svDone,     \* doneChan: "nil", "open", "closed"
    svConn,     \* HandleConn, per connection: "none", "handshake", "ready", "serving", "returned"
    svNet,      \* the connection itself: "open" or "closed"
    svTracked,  \* srv.conns
    svWg,       \* connWg
    svCalls,    \* the calls of the application: "none", "waiting" (Shutdown), "returned", "expired"
    svAtClose,  \* history: the connections that Close found in srv.conns
    svFwd,      \* h.forwards: the listener of each address, or SvNoLn
    svFln,      \* listeners of clients: "none", "open", "closed"
    svOf,       \* the connection and the address of each
    svWatch,    \* its goroutine that waits for ctx.Done: "none", "waiting", "over"
    svAcc,      \* its accept loop: "none", "accepting", "over"
    svAgain,    \* history: addresses that were listened on more than once
    svAsked     \* history: cancel-tcpip-forward for an address that was found

svServer == <<svServe, svLn, svListed, svDone, svConn, svNet, svTracked, svWg, svCalls, svAtClose>>
svForward == <<svFwd, svFln, svOf, svWatch, svAcc, svAgain, svAsked>>
svVars == <<svPlan, svServer, svForward>>

SvNoLn == "none"
SvNobody == "nobody"

SvInit ==
    /\ svPlan \in SvPlans
    /\ svServe = "none" /\ svLn = "open" /\ svListed = FALSE /\ svDone = "nil"
    /\ svConn = [c \in SvConns |-> "none"] /\ svNet = [c \in SvConns |-> "open"]
    /\ svTracked = {} /\ svWg = 0
    /\ svCalls = [k \in {"close", "shutdown"} |-> "none"] /\ svAtClose = {}
    /\ svFwd = [a \in SvAddrs |-> SvNoLn] /\ svFln = [l \in SvLns |-> "none"]
    /\ svOf = [l \in SvLns |-> [conn |-> SvNobody, addr |-> SvNobody]]
    /\ svWatch = [l \in SvLns |-> "none"] /\ svAcc = [l \in SvLns |-> "none"]
    /\ svAgain = {} /\ svAsked = {}

(* Serve, up to trackListener, which makes a server that was closed usable  *)
(* again: doneChan is reset when nothing is tracked.                        *)
SvServeCall ==
    /\ svServe = "none"
    /\ svServe' = "accepting" /\ svListed' = TRUE
    /\ svDone' = IF svTracked = {} THEN "nil" ELSE svDone
    /\ UNCHANGED <<svPlan, svLn, svConn, svNet, svTracked, svWg, svCalls, svAtClose, svForward>>

(* l.Accept: a connection, which gets a goroutine, or an error: then the    *)
(* closed doneChan tells a closed server, and any error that is not         *)
(* temporary ends Serve.                                                    *)
SvAccept(c) ==
    /\ c \in svPlan.conns
    /\ svServe = "accepting" /\ svLn = "open" /\ svConn[c] = "none"
    /\ svConn' = [svConn EXCEPT ![c] = "handshake"]
    /\ UNCHANGED <<svPlan, svServe, svLn, svListed, svDone, svNet, svTracked, svWg, svCalls, svAtClose, svForward>>

SvServeReturns ==
    /\ svServe = "accepting" /\ svLn = "closed"
    /\ svServe' = "returned" /\ svListed' = FALSE
    /\ svDone' = IF svDone = "nil" THEN "open" ELSE svDone
    /\ UNCHANGED <<svPlan, svLn, svConn, svNet, svTracked, svWg, svCalls, svAtClose, svForward>>

(* NewServerConn: the handshake succeeds or fails.                          *)
SvHandshake(c, ok) ==
    /\ svConn[c] = "handshake"
    /\ ok => svNet[c] = "open"
    /\ svConn' = [svConn EXCEPT ![c] = IF ok THEN "ready" ELSE "returned"]
    /\ svNet' = [svNet EXCEPT ![c] = IF ok THEN @ ELSE "closed"]
    /\ UNCHANGED <<svPlan, svServe, svLn, svListed, svDone, svTracked, svWg, svCalls, svAtClose, svForward>>

(* trackConn(sshConn, true); the connection is served.                      *)
SvTrack(c) ==
    /\ svConn[c] = "ready"
    /\ svConn' = [svConn EXCEPT ![c] = "serving"]
    /\ svTracked' = svTracked \cup {c} /\ svWg' = svWg + 1
    /\ UNCHANGED <<svPlan, svServe, svLn, svListed, svDone, svNet, svCalls, svAtClose, svForward>>

(* The client closes its connection.                                        *)
SvHangUp(c) ==
    /\ svConn[c] \in {"handshake", "ready", "serving"} /\ svNet[c] = "open"
    /\ svNet' = [svNet EXCEPT ![c] = "closed"]
    /\ UNCHANGED <<svPlan, svServe, svLn, svListed, svDone, svConn, svTracked, svWg, svCalls, svAtClose, svForward>>

(* Mutant: a connection that Close has removed is not counted down.         *)
MutSvWgAfter(c) == IF c \in svTracked THEN svWg - 1 ELSE svWg

(* connWg.Done, also for a connection that Close has taken from the map.    *)
SvWgAfter(c) == svWg - 1

(* chans is closed: HandleConn untracks, closes, and cancels its context.   *)
SvConnReturns(c) ==
    /\ svConn[c] = "serving" /\ svNet[c] = "closed"
    /\ svConn' = [svConn EXCEPT ![c] = "returned"]
    /\ svTracked' = svTracked \ {c} /\ svWg' = SvWgAfter(c)
    /\ UNCHANGED <<svPlan, svServe, svLn, svListed, svDone, svNet, svCalls, svAtClose, svForward>>

(* Close: doneChan, the listeners, and every tracked connection.            *)
SvClose ==
    /\ "close" \in svPlan.calls /\ svCalls["close"] = "none"
    /\ svCalls' = [svCalls EXCEPT !["close"] = "returned"]
    /\ svDone' = "closed"
    /\ svLn' = IF svListed THEN "closed" ELSE svLn
    /\ svListed' = FALSE
    /\ svNet' = [c \in SvConns |-> IF c \in svTracked THEN "closed" ELSE svNet[c]]
    /\ svTracked' = {} /\ svAtClose' = svTracked
    /\ UNCHANGED <<svPlan, svServe, svConn, svWg, svForward>>

(* Shutdown: the listeners and doneChan; then its goroutine waits for Serve *)
(* and for the connections.                                                 *)
SvShutdown ==
    /\ "shutdown" \in svPlan.calls /\ svCalls["shutdown"] = "none"
    /\ svCalls' = [svCalls EXCEPT !["shutdown"] = "waiting"]
    /\ svLn' = IF svListed THEN "closed" ELSE svLn
    /\ svListed' = FALSE
    /\ svDone' = "closed"
    /\ UNCHANGED <<svPlan, svServe, svConn, svNet, svTracked, svWg, svAtClose, svForward>>

SvShutdownReturns(expires) ==
    /\ svCalls["shutdown"] = "waiting"
    /\ ~expires => svServe # "accepting" /\ svWg = 0
    /\ svCalls' = [svCalls EXCEPT !["shutdown"] = IF expires THEN "expired" ELSE "returned"]
    /\ UNCHANGED <<svPlan, svServe, svLn, svListed, svDone, svConn, svNet, svTracked, svWg, svAtClose, svForward>>

(* tcpip-forward: net.Listen fails while the address is listened on.        *)
SvForward(c, a, l) ==
    /\ svConn[c] = "serving" /\ svNet[c] = "open" /\ l \in svPlan.lns /\ svFln[l] = "none"
    /\ ~\E o \in SvLns : svFln[o] = "open" /\ svOf[o].addr = a
    /\ svFln' = [svFln EXCEPT ![l] = "open"]
    /\ svOf' = [svOf EXCEPT ![l] = [conn |-> c, addr |-> a]]
    /\ svFwd' = [svFwd EXCEPT ![a] = l]
    /\ svWatch' = [svWatch EXCEPT ![l] = "waiting"] /\ svAcc' = [svAcc EXCEPT ![l] = "accepting"]
    /\ svAgain' = IF \E o \in SvLns : svOf[o].addr = a THEN svAgain \cup {a} ELSE svAgain
    /\ UNCHANGED <<svPlan, svServer, svAsked>>

(* cancel-tcpip-forward, of any connection: the listener that the map has   *)
(* for the address is closed.                                               *)
SvCancel(c, a) ==
    /\ svConn[c] = "serving" /\ svNet[c] = "open" /\ svFwd[a] # SvNoLn
    /\ svFln' = [svFln EXCEPT ![svFwd[a]] = "closed"]
    /\ svAsked' = svAsked \cup {svFwd[a]}
    /\ UNCHANGED <<svPlan, svServer, svFwd, svOf, svWatch, svAcc, svAgain>>

(* What the goroutine finds under its address when its connection is done.  *)
SvWatched(l) == svFwd[svOf[l].addr]

SvWatchEnds(l) ==
    /\ svWatch[l] = "waiting" /\ svConn[svOf[l].conn] = "returned"
    /\ svWatch' = [svWatch EXCEPT ![l] = "over"]
    /\ svFln' = IF SvWatched(l) = SvNoLn THEN svFln ELSE [svFln EXCEPT ![SvWatched(l)] = "closed"]
    /\ UNCHANGED <<svPlan, svServer, svFwd, svOf, svAcc, svAgain, svAsked>>

(* The accept loop of a closed listener ends and deletes its address.       *)
SvAcceptEnds(l) ==
    /\ svAcc[l] = "accepting" /\ svFln[l] = "closed"
    /\ svAcc' = [svAcc EXCEPT ![l] = "over"]
    /\ svFwd' = [svFwd EXCEPT ![svOf[l].addr] = SvNoLn]
    /\ UNCHANGED <<svPlan, svServer, svFln, svOf, svWatch, svAgain, svAsked>>

SvSteps ==
    \/ SvServeReturns \/ SvShutdownReturns(FALSE)
    \/ \E c \in SvConns : SvTrack(c) \/ SvConnReturns(c) \/ SvHandshake(c, FALSE)
    \/ \E l \in SvLns : SvWatchEnds(l) \/ SvAcceptEnds(l)

SvNext ==
    \/ SvSteps \/ SvServeCall \/ SvClose \/ SvShutdown \/ SvShutdownReturns(TRUE)
    \/ \E c \in SvConns :
         \/ SvAccept(c) \/ SvHandshake(c, TRUE) \/ SvHangUp(c)
         \/ \E a \in SvAddrs : SvCancel(c, a) \/ \E l \in SvLns : SvForward(c, a, l)

(* The goroutines run; clients, users and the application need not.         *)
SvFairSpec ==
    /\ SvInit /\ [][SvNext]_svVars
    /\ WF_svVars(SvServeReturns) /\ WF_svVars(SvShutdownReturns(FALSE))
    /\ \A c \in SvConns : WF_svVars(SvTrack(c)) /\ WF_svVars(SvConnReturns(c))
                          /\ WF_svVars(svNet[c] = "closed" /\ SvHandshake(c, FALSE))
    /\ \A l \in SvLns : WF_svVars(SvWatchEnds(l)) /\ WF_svVars(SvAcceptEnds(l))

------------------------------------------------------------------------------
SvTypeOK ==
    /\ svServe \in {"none", "accepting", "returned"} /\ svDone \in {"nil", "open", "closed"}
    /\ svTracked \subseteq {c \in SvConns : svConn[c] = "serving"}
    /\ svWg = Cardinality({c \in SvConns : svConn[c] = "serving"})
    /\ \A a \in SvAddrs : svFwd[a] \in SvLns \cup {SvNoLn}

(* A Shutdown that has returned without its context's error has waited for  *)
(* Serve and for every connection that had been accepted and authenticated  *)
(* by then.                                                                 *)
SvShutdownWaits ==
    [][svCalls["shutdown"] = "waiting" /\ svCalls'["shutdown"] = "returned"
        => svServe # "accepting" /\ \A c \in SvConns : svConn[c] # "serving"]_svVars

(* After Close, Serve returns if it had been called before, and every       *)
(* connection that was tracked is served no longer.                         *)
SvCloseEnds ==
    []<>(svCalls["close"] = "returned" /\ svLn = "closed"
            => svServe # "accepting" /\ \A c \in svAtClose : svConn[c] = "returned")

(* Shutdown returns once the clients are gone, even when Close has taken    *)
(* their connections from the map in between.                               *)
SvShutdownEnds ==
    []<>(svCalls["shutdown"] = "waiting" /\ svLn = "closed"
            => \E c \in SvConns : svNet[c] = "open" /\ svConn[c] \in {"handshake", "ready", "serving"})

(* A connection's listeners are closed after the connection, and the accept *)
(* loops end, as long as its address is not listened on again: then the     *)
(* first accept loop may delete, and the first connection close, what       *)
(* belongs to the second listener.                                          *)
SvForwardsEnd ==
    []<>(\A l \in SvLns :
            svAcc[l] = "accepting" /\ svConn[svOf[l].conn] = "returned" => svOf[l].addr \in svAgain)

(* Until then only a cancel request or its own connection's end closes it.  *)
SvForwardKept ==
    \A l \in SvLns :
        svFln[l] = "closed" => l \in svAsked \/ svConn[svOf[l].conn] = "returned" \/ svOf[l].addr \in svAgain

(* What an application and its clients can rely on.                         *)
SvServed ==
    /\ [](SvTypeOK /\ SvForwardKept)
    /\ SvShutdownWaits /\ SvCloseEnds /\ SvShutdownEnds /\ SvForwardsEnd
=============================================================================
