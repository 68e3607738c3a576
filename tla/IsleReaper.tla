----------------------------- MODULE IsleReaper -----------------------------
(***************************************************************************)
(* The monitor that reaps child processes and tells its subscribers of     *)
(* their exits: pkg/reaper/reaper_unix.go.  Each command has a subscription *)
(* of its own, made before it starts; its process is named after it.       *)
(***************************************************************************)
EXTENDS Integers, FiniteSets, SequencesExt

CONSTANTS
    RpCmds,     \* the commands that are started through the monitor
    RpLimited,  \* the ones among them whose caller waits with a limit
    RpBuffer    \* bufferSize: room in a subscription's channel

ASSUME RpAssumption == IsFiniteSet(RpCmds) /\ RpLimited \subseteq RpCmds /\ RpBuffer \in Nat \ {0}

VARIABLES
    rpSub,      \* a command's subscription: "none", "in" (the map), "closed"
    rpChan,     \* the exits in its channel
    rpGot,      \* every exit that was ever put in it
    rpProc,     \* its process: "none", "runs", "zombie", "reaped"
    rpWait,     \* Wait: "idle", "begun", "started", "failed", "waiting", "flushing", "returned", "lost"
    rpLimit,    \* WaitTimeout's caller: "none", "waits", "gave up"
    rpExits,    \* the exits that the running Reap has still to notify, the first being notified
    rpNote,     \* notify's goroutine, per exit: "none", "snap", "pass", "done"
    rpTodo,     \* the subscribers that its pass has not visited
    rpFailed,   \* whether one of them had no room in this pass
    rpSuccess   \* the ones that have got the exit

rpVars == <<rpSub, rpChan, rpGot, rpProc, rpWait, rpLimit, rpExits, rpNote, rpTodo, rpFailed, rpSuccess>>
rpNoteVars == <<rpNote, rpTodo, rpFailed, rpSuccess>>

RpInit ==
    /\ rpSub = [c \in RpCmds |-> "none"] /\ rpChan = [c \in RpCmds |-> <<>>] /\ rpGot = [c \in RpCmds |-> <<>>]
    /\ rpProc = [c \in RpCmds |-> "none"] /\ rpWait = [c \in RpCmds |-> "idle"] /\ rpLimit = [c \in RpCmds |-> "none"]
    /\ rpExits = <<>>
    /\ rpNote = [e \in RpCmds |-> "none"] /\ rpTodo = [e \in RpCmds |-> {}]
    /\ rpFailed = [e \in RpCmds |-> FALSE] /\ rpSuccess = [e \in RpCmds |-> {}]

(* Start: Subscribe, then the command's start, whose failure unsubscribes. *)
RpSubscribe(c) ==
    /\ rpWait[c] = "idle"
    /\ rpWait' = [rpWait EXCEPT ![c] = "begun"] /\ rpSub' = [rpSub EXCEPT ![c] = "in"]
    /\ UNCHANGED <<rpChan, rpGot, rpProc, rpLimit, rpExits, rpNoteVars>>

RpUnsubscribed(c) == [rpSub EXCEPT ![c] = "closed"]

RpStart(c, ok) ==
    /\ rpWait[c] = "begun"
    /\ rpWait' = [rpWait EXCEPT ![c] = IF ok THEN "started" ELSE "failed"]
    /\ rpSub' = IF ok THEN rpSub ELSE RpUnsubscribed(c)
    /\ rpProc' = IF ok THEN [rpProc EXCEPT ![c] = "runs"] ELSE rpProc
    /\ UNCHANGED <<rpChan, rpGot, rpLimit, rpExits, rpNoteVars>>

(* Wait, called by itself or in the goroutine of WaitTimeout.              *)
RpWait(c) ==
    /\ rpWait[c] = "started"
    /\ rpWait' = [rpWait EXCEPT ![c] = "waiting"]
    /\ rpLimit' = IF c \in RpLimited THEN [rpLimit EXCEPT ![c] = "waits"] ELSE rpLimit
    /\ UNCHANGED <<rpSub, rpChan, rpGot, rpProc, rpExits, rpNoteVars>>

(* It takes exits from its channel until its own process's comes.          *)
RpReceive(c) ==
    /\ rpWait[c] = "waiting"
    /\ \/ /\ rpChan[c] # <<>>
          /\ rpChan' = [rpChan EXCEPT ![c] = Tail(@)]
          /\ rpWait' = IF Head(rpChan[c]) = c THEN [rpWait EXCEPT ![c] = "flushing"] ELSE rpWait
       \/ /\ rpChan[c] = <<>> /\ rpSub[c] = "closed"
          /\ rpWait' = [rpWait EXCEPT ![c] = "lost"] /\ UNCHANGED rpChan
    /\ UNCHANGED <<rpSub, rpGot, rpProc, rpLimit, rpExits, rpNoteVars>>

(* c.Wait copies the rest of the output, which a grandchild may hold open  *)
(* for ever; then the subscription ends.                                   *)
RpFlush(c) ==
    /\ rpWait[c] = "flushing"
    /\ rpWait' = [rpWait EXCEPT ![c] = "returned"] /\ rpSub' = RpUnsubscribed(c)
    /\ UNCHANGED <<rpChan, rpGot, rpProc, rpLimit, rpExits, rpNoteVars>>

(* The timer of WaitTimeout: it kills the process and leaves the goroutine. *)
RpTimeout(c) ==
    /\ rpLimit[c] = "waits" /\ rpWait[c] # "returned"
    /\ rpLimit' = [rpLimit EXCEPT ![c] = "gave up"]
    /\ rpProc' = IF rpProc[c] = "runs" THEN [rpProc EXCEPT ![c] = "zombie"] ELSE rpProc
    /\ UNCHANGED <<rpSub, rpChan, rpGot, rpWait, rpExits, rpNoteVars>>

RpExit(c) ==
    /\ rpProc[c] = "runs"
    /\ rpProc' = [rpProc EXCEPT ![c] = "zombie"]
    /\ UNCHANGED <<rpSub, rpChan, rpGot, rpWait, rpLimit, rpExits, rpNoteVars>>

(* Reap, after a SIGCHLD: wait4 collects every zombie, in any order.       *)
RpReap ==
    /\ rpExits = <<>>
    /\ LET zombies == {c \in RpCmds : rpProc[c] = "zombie"} IN
       /\ zombies # {}
       /\ \E order \in SetToSeqs(zombies) : rpExits' = order
       /\ rpProc' = [c \in RpCmds |-> IF c \in zombies THEN "reaped" ELSE rpProc[c]]
    /\ UNCHANGED <<rpSub, rpChan, rpGot, rpWait, rpLimit, rpNoteVars>>

(* It notifies one exit after the other: it goes on when the goroutine is  *)
(* done, or after a second.                                                *)
RpNotify ==
    /\ rpExits # <<>> /\ rpNote[Head(rpExits)] = "none"
    /\ rpNote' = [rpNote EXCEPT ![Head(rpExits)] = "snap"]
    /\ UNCHANGED <<rpSub, rpChan, rpGot, rpProc, rpWait, rpLimit, rpExits, rpTodo, rpFailed, rpSuccess>>

RpReapNext ==
    /\ rpExits # <<>> /\ rpNote[Head(rpExits)] # "none"
    /\ rpExits' = Tail(rpExits)
    /\ UNCHANGED <<rpSub, rpChan, rpGot, rpProc, rpWait, rpLimit, rpNoteVars>>

(* notify's goroutine: a pass over a copy of the subscribers, and another  *)
(* one as long as a subscriber had no room for a millisecond.              *)
RpSnapshot(e) ==
    /\ rpNote[e] = "snap"
    /\ rpNote' = [rpNote EXCEPT ![e] = "pass"]
    /\ rpTodo' = [rpTodo EXCEPT ![e] = {c \in RpCmds : rpSub[c] = "in"}]
    /\ rpFailed' = [rpFailed EXCEPT ![e] = FALSE]
    /\ UNCHANGED <<rpSub, rpChan, rpGot, rpProc, rpWait, rpLimit, rpExits, rpSuccess>>

MutRpWants(e, c) == rpSub[c] # "closed"
RpWants(e, c) == rpSub[c] # "closed" /\ c \notin rpSuccess[e]

RpOffer(e, c) ==
    /\ rpNote[e] = "pass" /\ c \in rpTodo[e]
    /\ rpTodo' = [rpTodo EXCEPT ![e] = @ \ {c}]
    /\ IF RpWants(e, c) /\ Len(rpChan[c]) < RpBuffer
       THEN /\ rpChan' = [rpChan EXCEPT ![c] = Append(@, e)] /\ rpGot' = [rpGot EXCEPT ![c] = Append(@, e)]
            /\ rpSuccess' = [rpSuccess EXCEPT ![e] = @ \union {c}]
            /\ UNCHANGED rpFailed
       ELSE /\ rpFailed' = IF RpWants(e, c) THEN [rpFailed EXCEPT ![e] = TRUE] ELSE rpFailed
            /\ UNCHANGED <<rpChan, rpGot, rpSuccess>>
    /\ UNCHANGED <<rpSub, rpProc, rpWait, rpLimit, rpExits, rpNote>>

RpPassEnds(e) ==
    /\ rpNote[e] = "pass" /\ rpTodo[e] = {}
    /\ rpNote' = [rpNote EXCEPT ![e] = IF rpFailed[e] THEN "snap" ELSE "done"]
    /\ rpFailed' = [rpFailed EXCEPT ![e] = FALSE]
    /\ rpSuccess' = IF rpFailed[e] THEN rpSuccess ELSE [rpSuccess EXCEPT ![e] = {}]
    /\ UNCHANGED <<rpSub, rpChan, rpGot, rpProc, rpWait, rpLimit, rpExits, rpTodo>>

RpReapSteps == RpReap \/ RpNotify \/ RpReapNext
RpNoteSteps(e) == RpSnapshot(e) \/ RpPassEnds(e) \/ \E c \in RpCmds : RpOffer(e, c)

RpNext ==
    \/ RpReapSteps
    \/ \E c \in RpCmds :
        \/ RpSubscribe(c) \/ (\E ok \in BOOLEAN : RpStart(c, ok)) \/ RpWait(c) \/ RpReceive(c)
        \/ RpFlush(c) \/ RpTimeout(c) \/ RpExit(c) \/ RpNoteSteps(c)

RpSpec == RpInit /\ [][RpNext]_rpVars

(* Goroutines run, SIGCHLD is delivered and handled; that a command ends,  *)
(* or that its output does, is nobody's duty.                              *)
RpFairSpec ==
    /\ RpSpec /\ WF_rpVars(RpReapSteps)
    /\ \A c \in RpCmds : WF_rpVars(RpReceive(c)) /\ WF_rpVars(RpNoteSteps(c))

RpTypeOK ==
    /\ \A c \in RpCmds : rpSub[c] \in {"none", "in", "closed"} /\ Len(rpChan[c]) <= RpBuffer
    /\ \A e \in RpCmds : rpTodo[e] \subseteq RpCmds /\ rpSuccess[e] \subseteq RpCmds

(* An exit is offered again and again until everybody has it, yet nobody    *)
(* gets it twice; a goroutine that is done has told the command's own       *)
(* subscription; and no subscription is closed under a waiting caller.      *)
RpOnce ==
    /\ \A c \in RpCmds : IsInjective(rpGot[c]) /\ rpWait[c] # "lost"
    /\ \A e \in RpCmds : rpNote[e] = "done" /\ rpSub[e] = "in" => e \in ToSet(rpGot[e])

(* A caller that waits for a process that has exited gets its exit, however *)
(* many other subscribers have stopped reading: notify passes them by, and  *)
(* Reap waits a second for each at most (reaper_unix.go, notify and Reap).  *)
RpDelivers ==
    /\ [](RpTypeOK /\ RpOnce)
    /\ []<>(\A c \in RpCmds : rpWait[c] = "waiting" => rpProc[c] \notin {"zombie", "reaped"})
=============================================================================
