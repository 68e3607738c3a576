----------------------------- MODULE SshSession -----------------------------
(***************************************************************************)
(* A session channel of the server (pkg/ssh/session.go): the request loop, *)
(* the goroutine that runs the handler, and one that takes window sizes    *)
(* and signals off the channels for the handler, as the guest's does.      *)
(***************************************************************************)
EXTENDS Integers, Sequences, FiniteSets

CONSTANTS
    SeKinds,      \* the sets of requests that a client uses, to begin with
    SeMax,        \* bound: requests of a client
    SeSigBuf      \* maxSigBufSize

ASSUME SeAssumption == SeMax \in Nat /\ SeSigBuf \in Nat

VARIABLES
    sePlan,       \* the kinds of requests of this client
    seSent,       \* requests sent
    seQueue,      \* reqs: requests that the loop has not taken
    seLoop,       \* the loop: "idle", or blocked in a send: "winch", "signal", "break"; "ended"
    seDone,       \* requests that the loop is through with
    seHandled,    \* sess.handled: "no", "shell", "subsystem"
    seEnv,        \* len(sess.env)
    sePty,        \* sess.pty.Window, 0 without a pty
    seWinch,      \* the channel winch, of capacity 1; "closed" at the end
    seSeen,       \* the last window that the handler has got
    seSigs,       \* sess.sigBuf
    seReg,        \* whether sigCh and breakCh are set
    seLock,       \* the session's mutex: "free", "loop", "exit"
    seRun,        \* the handler: "no", "running", "returned", "over"
    seExits,      \* exit-status requests sent
    seClosed      \* whether the channel is closed

seVars == <<sePlan, seSent, seQueue, seLoop, seDone, seHandled, seEnv, sePty, seWinch, seSeen,
            seSigs, seReg, seLock, seRun, seExits, seClosed>>

SeInit ==
    /\ sePlan \in SeKinds
    /\ seSent = 0 /\ seQueue = <<>> /\ seLoop = "idle" /\ seDone = 0
    /\ seHandled = "no" /\ seEnv = 0 /\ sePty = 0 /\ seWinch = <<>> /\ seSeen = 0
    /\ seSigs = <<>> /\ seReg = "no" /\ seLock = "free"
    /\ seRun = "no" /\ seExits = 0 /\ seClosed = "no"

(* The client; a window's size is the number of its request.                *)
SeSend(kind) ==
    /\ seSent < SeMax /\ seClosed = "no"
    /\ seSent' = seSent + 1
    /\ seQueue' = Append(seQueue, [kind |-> kind, size |-> seSent + 1])
    /\ UNCHANGED <<sePlan, seLoop, seDone, seHandled, seEnv, sePty, seWinch, seSeen, seSigs, seReg,
                   seLock, seRun, seExits, seClosed>>

SeTake(kinds) ==
    /\ seLoop = "idle" /\ seQueue # <<>> /\ Head(seQueue).kind \in kinds
    /\ seQueue' = Tail(seQueue)
    /\ UNCHANGED <<sePlan, seSent, seSeen, seExits, seClosed>>

SeReplied == seDone' = seDone + 1 /\ seLoop' = "idle"

(* shell, exec and subsystem: once, if the callback and a handler agree.    *)
SeStart(agreed) ==
    /\ SeTake({"shell", "subsystem"})
    /\ IF seHandled = "no" /\ agreed
       THEN seHandled' = Head(seQueue).kind /\ seRun' = "running"
       ELSE UNCHANGED <<seHandled, seRun>>
    /\ SeReplied
    /\ UNCHANGED <<seEnv, sePty, seWinch, seSigs, seReg, seLock>>

(* Mutant: a handler's environment grows while it runs.                     *)
MutSeSetEnv ==
    /\ SeTake({"env"})
    /\ seEnv' = seEnv + 1
    /\ SeReplied
    /\ UNCHANGED <<seHandled, sePty, seWinch, seSigs, seReg, seLock, seRun>>

SeSetEnv ==
    /\ SeTake({"env"})
    /\ seEnv' = IF seHandled = "no" THEN seEnv + 1 ELSE seEnv
    /\ SeReplied
    /\ UNCHANGED <<seHandled, sePty, seWinch, seSigs, seReg, seLock, seRun>>

(* pty-req: the first window goes into the new channel.                     *)
SePtyReq(agreed) ==
    /\ SeTake({"pty-req"})
    /\ IF seHandled = "no" /\ sePty = 0 /\ agreed
       THEN sePty' = Head(seQueue).size /\ seWinch' = <<Head(seQueue).size>>
       ELSE UNCHANGED <<sePty, seWinch>>
    /\ SeReplied
    /\ UNCHANGED <<seHandled, seEnv, seSigs, seReg, seLock, seRun>>

(* window-change: the send blocks while the channel is full; the reply      *)
(* comes after it.                                                          *)
SeWindowChange ==
    /\ SeTake({"window-change"})
    /\ IF sePty = 0 THEN SeReplied /\ UNCHANGED <<sePty, seWinch>>
       ELSE /\ sePty' = Head(seQueue).size
            /\ IF seWinch = <<>> THEN seWinch' = <<Head(seQueue).size>> /\ SeReplied
               ELSE seLoop' = "winch" /\ UNCHANGED <<seWinch, seDone>>
    /\ UNCHANGED <<seHandled, seEnv, seSigs, seReg, seLock, seRun>>

SeWinchSent ==
    /\ seLoop = "winch" /\ seWinch = <<>>
    /\ seWinch' = <<sePty>>
    /\ SeReplied
    /\ UNCHANGED <<sePlan, seSent, seQueue, seHandled, seEnv, sePty, seSeen, seSigs, seReg, seLock,
                   seRun, seExits, seClosed>>

(* signal and break: the mutex is held during the send; signals without a   *)
(* channel are kept, up to a limit, and are never answered.                 *)
SeSignal ==
    /\ SeTake({"signal", "break"}) /\ seLock = "free"
    /\ IF seReg = "yes" THEN seLock' = "loop" /\ seLoop' = Head(seQueue).kind /\ UNCHANGED <<seDone, seSigs>>
       ELSE /\ seSigs' = IF Head(seQueue).kind = "signal" /\ Len(seSigs) < SeSigBuf
                         THEN Append(seSigs, Head(seQueue).size) ELSE seSigs
            /\ SeReplied /\ UNCHANGED seLock
    /\ UNCHANGED <<seHandled, seEnv, sePty, seWinch, seReg, seRun>>

(* The handler's goroutine receives what the loop is sending.               *)
SeSignalTaken ==
    /\ seLoop \in {"signal", "break"}
    /\ seLock' = "free"
    /\ SeReplied
    /\ UNCHANGED <<sePlan, seSent, seQueue, seHandled, seEnv, sePty, seWinch, seSeen, seSigs, seReg,
                   seRun, seExits, seClosed>>

(* auth-agent-req, and everything else, which is refused.                   *)
SeOther ==
    /\ SeTake({"agent", "other"})
    /\ SeReplied
    /\ UNCHANGED <<seHandled, seEnv, sePty, seWinch, seSigs, seReg, seLock, seRun>>

(* reqs is closed: the loop ends and closes winch.                          *)
SeLoopEnds ==
    /\ seLoop = "idle" /\ seQueue = <<>> /\ seClosed = "yes"
    /\ seLoop' = "ended"
    /\ UNCHANGED <<sePlan, seSent, seQueue, seDone, seHandled, seEnv, sePty, seWinch, seSeen, seSigs,
                   seReg, seLock, seRun, seExits, seClosed>>

(* The handler's side, which reads Pty and Environ when it starts.          *)
SeRegister ==
    /\ seRun = "running" /\ seReg = "no" /\ seLock = "free"
    /\ seReg' = "yes"
    /\ UNCHANGED <<sePlan, seSent, seQueue, seLoop, seDone, seHandled, seEnv, sePty, seWinch, seSeen,
                   seSigs, seLock, seRun, seExits, seClosed>>

SeDrain ==
    /\ seRun # "no" /\ seWinch # <<>>
    /\ seSeen' = Head(seWinch) /\ seWinch' = Tail(seWinch)
    /\ UNCHANGED <<sePlan, seSent, seQueue, seLoop, seDone, seHandled, seEnv, sePty, seSigs, seReg,
                   seLock, seRun, seExits, seClosed>>

(* Exit of the handler itself, and the Exit(0) after it has returned.       *)
SeExit ==
    IF seExits > 0 THEN UNCHANGED <<seExits, seClosed>>
    ELSE seExits' = seExits + 1 /\ seClosed' = "yes"

SeHandlerExits ==
    /\ seRun = "running" /\ seLock = "free"
    /\ SeExit
    /\ seRun' = "returned"
    /\ UNCHANGED <<sePlan, seSent, seQueue, seLoop, seDone, seHandled, seEnv, sePty, seWinch, seSeen,
                   seSigs, seReg, seLock>>

SeHandlerReturns ==
    /\ seRun = "running"
    /\ seRun' = "returned"
    /\ UNCHANGED <<sePlan, seSent, seQueue, seLoop, seDone, seHandled, seEnv, sePty, seWinch, seSeen,
                   seSigs, seReg, seLock, seExits, seClosed>>

SeExitZero ==
    /\ seRun = "returned" /\ seLock = "free"
    /\ SeExit
    /\ seRun' = "over"
    /\ UNCHANGED <<sePlan, seSent, seQueue, seLoop, seDone, seHandled, seEnv, sePty, seWinch, seSeen,
                   seSigs, seReg, seLock>>

(* The client closes the channel; what it has sent stays in reqs.           *)
SeClientCloses ==
    /\ seClosed = "no" /\ seRun = "no"
    /\ seClosed' = "yes"
    /\ UNCHANGED <<sePlan, seSent, seQueue, seLoop, seDone, seHandled, seEnv, sePty, seWinch, seSeen,
                   seSigs, seReg, seLock, seRun, seExits>>

SeLoopSteps ==
    \/ \E agreed \in BOOLEAN : SeStart(agreed) \/ SePtyReq(agreed)
    \/ SeSetEnv \/ SeWindowChange \/ SeWinchSent \/ SeSignal \/ SeOther \/ SeLoopEnds

SeHandlerSteps == SeHandlerReturns \/ SeExitZero

SeNext ==
    \/ \E kind \in sePlan : SeSend(kind)
    \/ SeLoopSteps \/ SeHandlerSteps \/ SeSignalTaken \/ SeDrain
    \/ SeRegister \/ SeHandlerExits \/ SeClientCloses

(* The goroutines go on; a handler need not return, but the one that takes  *)
(* windows and signals does so as long as there are any.                    *)
SeFairSpec ==
    /\ SeInit /\ [][SeNext]_seVars
    /\ WF_seVars(SeLoopSteps) /\ WF_seVars(SeExitZero) /\ WF_seVars(SeSignalTaken) /\ WF_seVars(SeDrain)

------------------------------------------------------------------------------
SeTypeOK ==
    /\ seLoop \in {"idle", "winch", "signal", "break", "ended"} /\ seDone \in 0..seSent
    /\ seHandled \in {"no", "shell", "subsystem"} /\ Len(seWinch) <= 1
    /\ Len(seSigs) <= SeSigBuf
    /\ seLock \in {"free", "loop"} /\ (seLock = "loop") = (seLoop \in {"signal", "break"})
    /\ seRun \in {"no", "running", "returned", "over"} /\ (seRun = "no") = (seHandled = "no")
    /\ seExits \in 0..1

(* The environment and the terminal of a handler, and which handler it is,  *)
(* do not change under it, whatever the client asks for later.              *)
SeFrozen ==
    [][seHandled # "no" => /\ seHandled' = seHandled /\ seEnv' = seEnv
                           /\ (sePty = 0) = (sePty' = 0)]_seVars

(* Once the loop is idle and the channel drained, the handler knows the     *)
(* window that the client set last.                                         *)
SeWindowKnown ==
    seRun # "no" /\ seLoop = "idle" /\ seWinch = <<>> => seSeen = sePty

(* Once a handler runs, every request is gone through: neither a full       *)
(* window channel nor a signal blocks the loop for good.  (Before that      *)
(* nobody reads the window channel, and a window-change blocks the loop.)   *)
SeAnswered == []<>(seHandled # "no" => seQueue = <<>> /\ seLoop \in {"idle", "ended"})

(* A handler that returns leads to one exit status and a closed channel,    *)
(* also when the loop is just handing a signal over.                        *)
SeCloses == []<>(seRun \in {"no", "running"} \/ (seRun = "over" /\ seExits = 1 /\ seClosed = "yes"))

(* What a handler and its client can rely on.                               *)
SeServed == [](SeTypeOK /\ SeWindowKnown) /\ SeFrozen /\ SeAnswered /\ SeCloses
=============================================================================
