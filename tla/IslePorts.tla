------------------------------ MODULE IslePorts ------------------------------
(***************************************************************************)
(* Port forwarding.  In the guest, monitorPorts and processPorts look, for *)
(* each container, at the ports its processes listen on and ask the host   *)
(* for a forwarder for each new one and the end of it for each one gone    *)
(* (guest/guest.go).  On the host, StartPortForward, CancelPortForward and *)
(* the accept loop of forwardPort (vm/vm.go).                              *)
(*                                                                         *)
(* Each call is a stream of its own (hostAPI dials anew), handled by a     *)
(* goroutine of its own; a call whose context is cancelled returns at once *)
(* in the guest, and its handler may still run, later, or never.           *)
(***************************************************************************)
EXTENDS Naturals, FiniteSets

CONSTANTS
    Conts,   \* booted containers, each with its own address
    NoCont,  \* nobody
    Ports,   \* TCP ports
    NoPort   \* no port

ASSUME NoContIsNone == NoCont \notin Conts
ASSUME NoPortIsNone == NoPort \notin Ports

VARIABLES
    ctx,     \* the boot context of each container
    opens,   \* the ports its processes listen on
    mon,     \* where its monitor is
    v4, v6,  \* what is left of the two lists of the sweep
    cur,     \* curPorts: everything the sweep has found
    ports,   \* the monitor's map of forwarded ports
    call,    \* the call the monitor waits for
    cport,   \* the port of that call
    hand,    \* what has become of that call on the host
    sock,    \* host: each port's socket
    owner,   \* host: the container that socket forwards to
    broken   \* ports that lost their forwarder to an Accept error

guestVars == <<v4, v6, cur, ports>>
callVars  == <<call, cport, hand>>
hostVars  == <<sock, owner, broken>>
portsVars == <<ctx, opens, mon, guestVars, callVars, hostVars>>

MonState  == {"off", "wait", "sweep", "retract", "ended"}
CallKind  == {"none", "start", "cancel"}
HandState == {"none", "start", "bound", "cancel", "ok", "failed"}
SockState == {"free", "busy", "bound", "registered"}

PortsTypeOK ==
    /\ ctx \in [Conts -> {"live", "done"}]
    /\ opens \in [Conts -> SUBSET Ports]
    /\ mon \in [Conts -> MonState]
    /\ v4 \in [Conts -> SUBSET Ports] /\ v6 \in [Conts -> SUBSET Ports]
    /\ cur \in [Conts -> SUBSET Ports] /\ ports \in [Conts -> SUBSET Ports]
    /\ call \in [Conts -> CallKind]
    /\ cport \in [Conts -> Ports \cup {NoPort}]
    /\ hand \in [Conts -> HandState]
    /\ sock \in [Ports -> SockState]
    /\ owner \in [Ports -> Conts \cup {NoCont}]
    /\ broken \subseteq Ports
    /\ \A p \in Ports : owner[p] \in Conts <=> sock[p] \in {"bound", "registered"}

PortsInit ==
    /\ ctx = [c \in Conts |-> "live"]
    /\ opens = [c \in Conts |-> {}]
    /\ mon = [c \in Conts |-> "off"]
    /\ v4 = [c \in Conts |-> {}] /\ v6 = [c \in Conts |-> {}]
    /\ cur = [c \in Conts |-> {}] /\ ports = [c \in Conts |-> {}]
    /\ call = [c \in Conts |-> "none"]
    /\ cport = [c \in Conts |-> NoPort]
    /\ hand = [c \in Conts |-> "none"]
    /\ sock = [p \in Ports |-> "free"]
    /\ owner = [p \in Ports |-> NoCont]
    /\ broken = {}

-----------------------------------------------------------------------------
(* The container and its context                                            *)

(* bootContainer: go g.monitorPorts(...)                                    *)
Begin(c) ==
    /\ mon[c] = "off"
    /\ mon' = [mon EXCEPT ![c] = "wait"]
    /\ UNCHANGED <<ctx, opens, guestVars, callVars, hostVars>>

(* A process of the container starts or stops listening.                    *)
Open(c, p) ==
    /\ mon[c] \notin {"off", "ended"} /\ p \notin opens[c]
    /\ opens' = [opens EXCEPT ![c] = @ \cup {p}]
    /\ UNCHANGED <<ctx, mon, guestVars, callVars, hostVars>>

Close(c, p) ==
    /\ p \in opens[c]
    /\ opens' = [opens EXCEPT ![c] = @ \ {p}]
    /\ UNCHANGED <<ctx, mon, guestVars, callVars, hostVars>>

Cancelled(c) ==
    /\ mon[c] # "off" /\ ctx[c] = "live"
    /\ ctx' = [ctx EXCEPT ![c] = "done"]
    /\ UNCHANGED <<opens, mon, guestVars, callVars, hostVars>>

-----------------------------------------------------------------------------
(* monitorPorts and processPorts                                            *)

(* A tick or a SIGHUP: gatherPorts reads the two listings.  Either may fail *)
(* to open or stop short, and then counts for what it has.                  *)
Sweep(c, s4, s6) ==
    /\ mon[c] = "wait"
    /\ s4 \subseteq opens[c] /\ s6 \subseteq opens[c]
    /\ mon' = [mon EXCEPT ![c] = "sweep"]
    /\ v4' = [v4 EXCEPT ![c] = s4]
    /\ v6' = [v6 EXCEPT ![c] = s6]
    /\ cur' = [cur EXCEPT ![c] = s4 \cup s6]
    /\ UNCHANGED <<ctx, opens, ports, callVars, hostVars>>

FullSweep(c) == Sweep(c, opens[c], {})

(* The next port of the first list, then of the second.                     *)
Pick(c, p) ==
    \/ /\ p \in v4[c]
       /\ v4' = [v4 EXCEPT ![c] = @ \ {p}] /\ UNCHANGED v6
    \/ /\ v4[c] = {} /\ p \in v6[c]
       /\ v6' = [v6 EXCEPT ![c] = @ \ {p}] /\ UNCHANGED v4

Send(c, kind, p) ==
    /\ call' = [call EXCEPT ![c] = kind]
    /\ cport' = [cport EXCEPT ![c] = p]
    /\ hand' = [hand EXCEPT ![c] = kind]

(* A port already forwarded is skipped.  With a cancelled context the call  *)
(* fails without having been sent.                                          *)
NextPort(c, p) ==
    /\ mon[c] = "sweep" /\ call[c] = "none"
    /\ Pick(c, p)
    /\ IF p \notin ports[c] /\ ctx[c] = "live"
       THEN Send(c, "start", p)
       ELSE UNCHANGED callVars
    /\ UNCHANGED <<ctx, opens, mon, cur, ports, hostVars>>

(* Mutant: a sweep that finds nothing has nothing to do.                    *)
MutSweepDone(c) ==
    /\ mon[c] = "sweep" /\ call[c] = "none" /\ v4[c] = {} /\ v6[c] = {}
    /\ mon' = [mon EXCEPT ![c] = IF cur[c] = {} THEN "wait" ELSE "retract"]
    /\ UNCHANGED <<ctx, opens, guestVars, callVars, hostVars>>

SweepDone(c) ==
    /\ mon[c] = "sweep" /\ call[c] = "none" /\ v4[c] = {} /\ v6[c] = {}
    /\ mon' = [mon EXCEPT ![c] = "retract"]
    /\ UNCHANGED <<ctx, opens, guestVars, callVars, hostVars>>

(* A port that was not found is forgotten first, then cancelled.            *)
Retract(c, p) ==
    /\ mon[c] = "retract" /\ call[c] = "none"
    /\ p \in ports[c] \ cur[c]
    /\ ports' = [ports EXCEPT ![c] = @ \ {p}]
    /\ IF ctx[c] = "live" THEN Send(c, "cancel", p) ELSE UNCHANGED callVars
    /\ UNCHANGED <<ctx, opens, mon, v4, v6, cur, hostVars>>

RetractDone(c) ==
    /\ mon[c] = "retract" /\ call[c] = "none" /\ ports[c] \subseteq cur[c]
    /\ mon' = [mon EXCEPT ![c] = "wait"]
    /\ cur' = [cur EXCEPT ![c] = {}]
    /\ UNCHANGED <<ctx, opens, v4, v6, ports, callVars, hostVars>>

(* Mutant: an error of StartPortForward is logged and the port recorded.    *)
MutAnswered(c) ==
    /\ call[c] # "none" /\ hand[c] \in {"ok", "failed"}
    /\ ports' = IF call[c] = "start"
                THEN [ports EXCEPT ![c] = @ \cup {cport[c]}] ELSE ports
    /\ call' = [call EXCEPT ![c] = "none"]
    /\ cport' = [cport EXCEPT ![c] = NoPort]
    /\ hand' = [hand EXCEPT ![c] = "none"]
    /\ UNCHANGED <<ctx, opens, mon, v4, v6, cur, hostVars>>

(* The answer: a successful start is recorded.                              *)
Answered(c) ==
    /\ call[c] # "none" /\ hand[c] \in {"ok", "failed"}
    /\ ports' = IF call[c] = "start" /\ hand[c] = "ok"
                THEN [ports EXCEPT ![c] = @ \cup {cport[c]}] ELSE ports
    /\ call' = [call EXCEPT ![c] = "none"]
    /\ cport' = [cport EXCEPT ![c] = NoPort]
    /\ hand' = [hand EXCEPT ![c] = "none"]
    /\ UNCHANGED <<ctx, opens, mon, v4, v6, cur, hostVars>>

(* The context is cancelled under a call: it returns an error, and its      *)
(* handler goes its own way.                                                *)
Abandon(c) ==
    /\ call[c] # "none" /\ ctx[c] = "done"
    /\ call' = [call EXCEPT ![c] = "none"]
    /\ UNCHANGED <<ctx, opens, mon, guestVars, cport, hand, hostVars>>

(* case <-ctx.Done(): the map goes with the monitor, the forwarders stay.   *)
Exit(c) ==
    /\ mon[c] = "wait" /\ ctx[c] = "done"
    /\ mon' = [mon EXCEPT ![c] = "ended"]
    /\ opens' = [opens EXCEPT ![c] = {}]
    /\ ports' = [ports EXCEPT ![c] = {}]
    /\ UNCHANGED <<ctx, v4, v6, cur, callVars, hostVars>>

-----------------------------------------------------------------------------
(* The host                                                                 *)

HandlerDone(c, how) == hand' = [hand EXCEPT ![c] = how]

(* A call that nobody waits for any more may never reach its handler.       *)
Dropped(c) ==
    /\ call[c] = "none" /\ hand[c] \in {"start", "cancel"}
    /\ HandlerDone(c, "failed")
    /\ UNCHANGED <<ctx, opens, mon, guestVars, call, cport, hostVars>>

(* StartPortForward: net.Listen fails on a port in use.                     *)
HostListen(c) ==
    /\ hand[c] = "start"
    /\ IF sock[cport[c]] = "free"
       THEN /\ HandlerDone(c, "bound")
            /\ sock' = [sock EXCEPT ![cport[c]] = "bound"]
            /\ owner' = [owner EXCEPT ![cport[c]] = c]
       ELSE HandlerDone(c, "failed") /\ UNCHANGED <<sock, owner>>
    /\ UNCHANGED <<ctx, opens, mon, guestVars, call, cport, broken>>

(* v.listeners[port] = l, under v.mu; a new socket has replaced whatever    *)
(* closed listener was there.  The accept loop starts.                      *)
HostRegister(c) ==
    /\ hand[c] = "bound"
    /\ HandlerDone(c, "ok")
    /\ sock' = [sock EXCEPT ![cport[c]] = "registered"]
    /\ UNCHANGED <<ctx, opens, mon, guestVars, call, cport, owner, broken>>

FreeSocket(p) ==
    /\ sock' = [sock EXCEPT ![p] = "free"]
    /\ owner' = [owner EXCEPT ![p] = NoCont]

(* Mutant: CancelPortForward leaves the listener open.                      *)
MutHostCancel(c) ==
    /\ hand[c] = "cancel"
    /\ HandlerDone(c, "ok")
    /\ UNCHANGED <<ctx, opens, mon, guestVars, call, cport, hostVars>>

(* CancelPortForward closes the registered listener of the port, whoever's  *)
(* it is; closing a closed one does nothing.                                *)
HostCancel(c) ==
    /\ hand[c] = "cancel"
    /\ HandlerDone(c, "ok")
    /\ IF sock[cport[c]] = "registered"
       THEN FreeSocket(cport[c])
       ELSE UNCHANGED <<sock, owner>>
    /\ UNCHANGED <<ctx, opens, mon, guestVars, call, cport, broken>>

(* forwardPort: an error of Accept that is not its own Close ends the loop  *)
(* and closes the listener.                                                 *)
AcceptError(p) ==
    /\ sock[p] = "registered"
    /\ FreeSocket(p)
    /\ broken' = broken \cup {p}
    /\ UNCHANGED <<ctx, opens, mon, guestVars, callVars>>

(* Another program of the host takes or releases the port.                  *)
OtherListens(p) ==
    /\ sock[p] \in {"free", "busy"}
    /\ sock' = [sock EXCEPT ![p] = IF @ = "free" THEN "busy" ELSE "free"]
    /\ UNCHANGED <<ctx, opens, mon, guestVars, callVars, owner, broken>>

-----------------------------------------------------------------------------
MonitorStep(c) ==
    \/ \E p \in Ports : NextPort(c, p) \/ Retract(c, p)
    \/ SweepDone(c) \/ RetractDone(c) \/ Answered(c)

HandlerStep(c) == HostListen(c) \/ HostRegister(c) \/ HostCancel(c)

PortsNext ==
    \/ \E c \in Conts :
        \/ Begin(c) \/ Cancelled(c) \/ Abandon(c) \/ Exit(c) \/ Dropped(c)
        \/ MonitorStep(c) \/ HandlerStep(c)
        \/ \E p \in Ports : Open(c, p) \/ Close(c, p)
        \/ \E s4, s6 \in SUBSET Ports : Sweep(c, s4, s6)
    \/ \E p \in Ports : AcceptError(p) \/ OtherListens(p)

PortsSpec == PortsInit /\ [][PortsNext]_portsVars

(* The ticker ticks, and a listing is read in full again and again; the     *)
(* monitor and the handlers of calls somebody waits for run.                *)
PortsFairness ==
    \A c \in Conts :
        /\ WF_portsVars(MonitorStep(c))
        /\ WF_portsVars(call[c] # "none" /\ HandlerStep(c))
        /\ WF_portsVars(\E s4, s6 \in SUBSET Ports : Sweep(c, s4, s6))
        /\ SF_portsVars(FullSweep(c))

PortsFairSpec == PortsSpec /\ PortsFairness

-----------------------------------------------------------------------------
(* What a monitor has recorded as forwarded is forwarded to its container:  *)
(* the port's socket is its own and can be cancelled, although handlers     *)
(* bind and register in two steps and calls are given up half way.  Only an *)
(* Accept error, which nobody tells the guest about, makes it untrue.       *)
RecordedIsForwarded ==
    \A c \in Conts, p \in Ports :
        p \in ports[c] /\ p \notin broken
            => owner[p] = c /\ sock[p] = "registered"

(* No socket is forgotten while its container's context lives: it is in the *)
(* monitor's map or in the hands of a call the monitor waits for.  (After   *)
(* the cancellation it may be, and stays bound to the dead container.)      *)
NoForgottenSocket ==
    \A c \in Conts, p \in Ports :
        owner[p] = c /\ ctx[c] = "live"
            => p \in ports[c] \/ (cport[c] = p /\ call[c] # "none")

(* A port the container has closed is released on the host, unless it is    *)
(* opened again or the container's context is cancelled first.              *)
ClosedIsWithdrawn ==
    \A c \in Conts, p \in Ports :
        []<>(owner[p] # c \/ p \in opens[c] \/ ctx[c] = "done")

(* A port the container listens on is forwarded, unless the host has no     *)
(* room for it.                                                             *)
OpenIsForwarded ==
    \A c \in Conts, p \in Ports :
        []<>(\/ mon[c] = "off" \/ p \notin opens[c] \/ p \in ports[c]
             \/ ctx[c] = "done" \/ sock[p] = "busy" \/ owner[p] \notin {c, NoCont})

(* The host's forwarders follow what the containers open and close.         *)
PortsFollow == ClosedIsWithdrawn /\ OpenIsForwarded
=============================================================================
