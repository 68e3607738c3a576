------------------------------- MODULE IsleVM -------------------------------
(***************************************************************************)
(* The host process that runs the virtual machine: the select loop at the  *)
(* end of VM.Run, the control goroutine and the one Accept that            *)
(* startListener starts, and the reader of the guest's console (vm/vm.go); *)
(* the process is started, and its signals are caught, by startVM          *)
(* (cmd/linux/main.go).                                                    *)
(*                                                                         *)
(* Channels are their contents: sigC and ctrlC hold one element, a ticker  *)
(* keeps one tick, and one that is pending when the ticker is reset stays. *)
(***************************************************************************)
EXTENDS Naturals, Sequences

CONSTANT MaxSignals  \* bound: SIGINT, SIGTERM and SIGQUIT sent to the process

ASSUME SignalBound == MaxSignals \in Nat

VARIABLES
    run,       \* where Run is
    how,       \* why it returned
    shutdown,  \* its local variable of that name
    sigs,      \* signals sent so far
    sigC,      \* signals pending
    ctrlC,     \* control messages pending
    tickC,     \* ticks pending
    since,     \* whether ten seconds have passed since the last Reset
    notes,     \* state changes of the machine not yet observed
    lis,       \* the control goroutine
    sess,      \* v.currentSession
    machine,   \* the virtual machine
    guest      \* the guest's part in a shutdown

loopVars == <<run, how, shutdown>>
timeVars == <<tickC, since>>
linkVars == <<lis, sess>>
vmVars == <<loopVars, timeVars, linkVars, sigs, sigC, ctrlC, notes, machine, guest>>

VMTypeOK ==
    /\ run \in {"select", "ctrl", "stop", "returned"}
    /\ how \in {"no", "timeout", "halted", "stopped", "error"}
    /\ shutdown \in {"no", "yes"}
    /\ sigs \in 0..MaxSignals /\ sigC \in 0..1
    /\ ctrlC \in 0..1
    /\ tickC \in 0..1 /\ since \in {"none", "fresh", "passed"}
    /\ notes \in Seq({"running", "stopped", "error"}) /\ Len(notes) <= 2
    /\ lis \in {"off", "select", "decode"}
    /\ sess \in {"none", "up", "lost"}
    /\ machine \in {"starting", "running", "stopped", "error"}
    /\ guest \in {"on", "halting", "halted"}

(* vm.Start has returned and the loop begins.                               *)
VMInit ==
    /\ run = "select" /\ how = "no" /\ shutdown = "no"
    /\ sigs = 0 /\ sigC = 0 /\ ctrlC = 0
    /\ tickC = 0 /\ since = "none"
    /\ notes = <<>>
    /\ lis = "off" /\ sess = "none"
    /\ machine = "starting" /\ guest = "on"

Return(why) == run' = "returned" /\ how' = why

-----------------------------------------------------------------------------
(* The cases of the select.  Any that is ready may be taken.                *)

(* Mutant: every tick ends the wait.                                        *)
MutTakeTick ==
    /\ run = "select" /\ tickC = 1
    /\ tickC' = 0
    /\ Return("timeout")
    /\ UNCHANGED <<shutdown, since, linkVars, sigs, sigC, ctrlC, notes, machine, guest>>

(* The ticker matters only once a shutdown has been requested.              *)
TakeTick ==
    /\ run = "select" /\ tickC = 1
    /\ tickC' = 0
    /\ IF shutdown = "yes" THEN Return("timeout") ELSE UNCHANGED <<run, how>>
    /\ UNCHANGED <<shutdown, since, linkVars, sigs, sigC, ctrlC, notes, machine, guest>>

(* The console reader has seen "reboot: System halted" and closed           *)
(* shutdownCh.                                                              *)
TakeHalted ==
    /\ run = "select" /\ guest = "halted"
    /\ Return("halted")
    /\ UNCHANGED <<shutdown, timeVars, linkVars, sigs, sigC, ctrlC, notes, machine, guest>>

TakeSignal ==
    /\ run = "select" /\ sigC = 1
    /\ sigC' = 0 /\ run' = "ctrl"
    /\ UNCHANGED <<how, shutdown, timeVars, linkVars, sigs, ctrlC, notes, machine, guest>>

(* ctrlC <- shutdown: Run itself waits for room, deaf to everything else.   *)
SendControl ==
    /\ run = "ctrl" /\ ctrlC = 0
    /\ ctrlC' = 1 /\ run' = "stop"
    /\ UNCHANGED <<how, shutdown, timeVars, linkVars, sigs, sigC, notes, machine, guest>>

(* Mutant: shutdown is not set.                                             *)
MutRequestStop ==
    /\ run = "stop"
    /\ \/ /\ machine = "running"
          /\ run' = "select" /\ since' = "fresh"
          /\ UNCHANGED <<how, shutdown>>
       \/ Return("error") /\ UNCHANGED <<since, shutdown>>
    /\ UNCHANGED <<tickC, linkVars, sigs, sigC, ctrlC, notes, machine, guest>>

(* vm.RequestStop, refused by a machine that does not run; then the ticker  *)
(* is reset.                                                                *)
RequestStop ==
    /\ run = "stop"
    /\ \/ /\ machine = "running"
          /\ run' = "select" /\ shutdown' = "yes" /\ since' = "fresh"
          /\ UNCHANGED how
       \/ Return("error") /\ UNCHANGED <<since, shutdown>>
    /\ UNCHANGED <<tickC, linkVars, sigs, sigC, ctrlC, notes, machine, guest>>

(* A state change: a running machine gets its listeners, a stopped one ends *)
(* Run, any other is only logged.                                           *)
TakeNote ==
    /\ run = "select" /\ notes # <<>>
    /\ notes' = Tail(notes)
    /\ \/ /\ Head(notes) = "running"
          /\ \/ lis' = "select" /\ UNCHANGED <<run, how>>
             \/ Return("error") /\ UNCHANGED lis
       \/ Head(notes) = "stopped" /\ Return("stopped") /\ UNCHANGED lis
       \/ Head(notes) = "error" /\ UNCHANGED <<run, how, lis>>
    /\ UNCHANGED <<shutdown, timeVars, sess, sigs, sigC, ctrlC, machine, guest>>

LoopStep ==
    TakeTick \/ TakeHalted \/ TakeSignal \/ SendControl \/ RequestStop \/ TakeNote

-----------------------------------------------------------------------------
(* The control goroutine and the session with the guest                     *)

(* A message is dropped without a session, or sent; Decode then waits.      *)
TakeControl ==
    /\ lis = "select" /\ ctrlC = 1 /\ how = "no"
    /\ ctrlC' = 0
    /\ lis' = IF sess = "up" THEN "decode" ELSE lis
    /\ UNCHANGED <<loopVars, timeVars, sess, sigs, sigC, notes, machine, guest>>

(* The guest answers, then runs /sbin/halt.                                 *)
GuestAnswers ==
    /\ lis = "decode" /\ sess = "up" /\ machine = "running"
    /\ lis' = "select"
    /\ guest' = IF guest = "on" THEN "halting" ELSE guest
    /\ UNCHANGED <<loopVars, timeVars, sess, sigs, sigC, ctrlC, notes, machine>>

(* The connection breaks, or its keepalive finds the guest dead.            *)
SessionLost ==
    /\ sess = "up"
    /\ sess' = "lost"
    /\ lis' = IF lis = "decode" THEN "select" ELSE lis
    /\ UNCHANGED <<loopVars, timeVars, sigs, sigC, ctrlC, notes, machine, guest>>

(* The only guest connection that is ever accepted.                         *)
GuestConnects ==
    /\ lis # "off" /\ sess = "none" /\ machine = "running"
    /\ sess' = "up"
    /\ UNCHANGED <<loopVars, timeVars, lis, sigs, sigC, ctrlC, notes, machine, guest>>

-----------------------------------------------------------------------------
(* The machine, the guest, the clock and the user                           *)

Observed(s) == machine' = s /\ notes' = Append(notes, s)

MachineChanges ==
    /\ \/ machine = "starting" /\ Observed("running")
       \/ machine = "running" /\ (Observed("stopped") \/ Observed("error"))
    /\ UNCHANGED <<loopVars, timeVars, linkVars, sigs, sigC, ctrlC, guest>>

(* The guest halts, after a control message or because somebody in it said  *)
(* so; its console tells.                                                   *)
GuestHalts ==
    /\ guest # "halted" /\ machine = "running"
    /\ guest' = "halted"
    /\ UNCHANGED <<loopVars, timeVars, linkVars, sigs, sigC, ctrlC, notes, machine>>

(* The ticker fires; a tick that is not taken stays, and a second is lost.  *)
Tick ==
    /\ how = "no"
    /\ tickC' = 1
    /\ since' = IF since = "fresh" THEN "passed" ELSE since
    /\ UNCHANGED <<loopVars, linkVars, sigs, sigC, ctrlC, notes, machine, guest>>

(* A signal, lost if one is pending.                                        *)
Signal ==
    /\ how = "no" /\ sigs < MaxSignals
    /\ sigs' = sigs + 1 /\ sigC' = 1
    /\ UNCHANGED <<loopVars, timeVars, linkVars, ctrlC, notes, machine, guest>>

VMNext ==
    \/ LoopStep
    \/ TakeControl \/ GuestAnswers \/ SessionLost \/ GuestConnects
    \/ MachineChanges \/ GuestHalts \/ Tick \/ Signal

VMSpec == VMInit /\ [][VMNext]_vmVars

(* The loop, the control goroutine and the ticker run; a select does not    *)
(* pass over a ready case for ever, neither the ticker's, which is ready    *)
(* again and again, nor one of the others, which come finitely often;       *)
(* Decode ends, with the guest's answer or with the session.  The machine   *)
(* and the guest owe nothing.                                               *)
VMFairness ==
    /\ WF_vmVars(LoopStep) /\ WF_vmVars(TakeControl) /\ WF_vmVars(Tick)
    /\ SF_vmVars(TakeSignal \/ TakeHalted \/ TakeNote) /\ SF_vmVars(TakeTick)
    /\ WF_vmVars(lis = "decode" /\ (GuestAnswers \/ SessionLost))

VMFairSpec == VMSpec /\ VMFairness

-----------------------------------------------------------------------------
(* "stop the background VM" (cmd/linux/main.go:48): once a signal has been   *)
(* sent, Run returns, whatever the guest does about it.                     *)
StopEnds == []<>(sigs > 0 => run = "returned")

(* Run ends, stopped by a signal or together with its guest, which may halt *)
(* without being asked.                                                     *)
VMEnds == []<>(sigs > 0 \/ guest = "halted" => run = "returned")

(* A guest is told to halt, or given up on, only after a signal: the ticker *)
(* of Run fires all the time, and a control message may wait in ctrlC, be   *)
(* dropped, or reach the guest long after the signal.                       *)
OnlyWhenAsked == (guest = "halting" \/ how = "timeout" \/ ctrlC = 1) => sigs > 0

(* "requested shutdown, waiting 10 seconds for safe shutdown"               *)
(* (vm/vm.go:547): Run gives up on the guest only when the ten seconds are  *)
(* over.                                                                    *)
GraceGiven ==
    [][how = "no" /\ how' = "timeout" => since = "passed"]_vmVars
=============================================================================
