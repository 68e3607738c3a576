------------------------------- MODULE IsleRun -------------------------------
(***************************************************************************)
(* A command that a user in an isle runs on the mac (isle run) or in the   *)
(* guest's base system (isle console): RunCmd and ConsoleCmd of            *)
(* helper/helper.go, RunOnMac and Console of guest/api.go, and RunOnMac of *)
(* vm/vm.go.                                                               *)
(*                                                                         *)
(* Messages pass over gRPC streams, one for each hop: the helper's call of *)
(* the guest and, for isle run, the guest's call of the mac.  Console and  *)
(* the mac's RunOnMac have the same body, the server at the last hop.      *)
(***************************************************************************)
EXTENDS Integers, Sequences, FiniteSets

CONSTANTS
    RuKinds,   \* {"run", "console"}
    RuTyped,   \* bound: pieces of input that the user types
    RuLines    \* bound: pieces of output that the command writes

ASSUME RuAssumption == RuKinds \subseteq {"run", "console"} /\ RuTyped \in Nat /\ RuLines \in Nat

RuHops == 1..2

VARIABLES
    ruKind,     \* which of the two
    ruHelper,   \* the helper: "begin", "open", "exited" (with the command's code), "failed", "killed"
    ruStdin,    \* its input goroutine: pieces sent, or "closed"
    ruIn,       \* messages towards the server, per hop
    ruOut,      \* messages towards the helper, per hop
    ruProxy,    \* RunOnMac of the guest: "open" or "over"
    ruBack,     \* its goroutine that copies output: "open" or "over"
    ruSrv,      \* the server's handler: "begin", "open", "waiting" (for the process), "over", "refused"
    ruFeed,     \* its goroutine that feeds the command: "open" or "over"
    ruCmd,      \* the command: "none", "runs", "exited"
    ruEof,      \* whether its stdin was closed
    ruWrote,    \* pieces of output that it has written
    ruRead,     \* pieces that the server has read from the pipe
    ruPrinted   \* pieces that the helper has printed

ruVars == <<ruKind, ruHelper, ruStdin, ruIn, ruOut, ruProxy, ruBack, ruSrv, ruFeed, ruCmd, ruEof, ruWrote, ruRead, ruPrinted>>
ruCommand == <<ruCmd, ruEof, ruWrote, ruRead>>

RuInit ==
    /\ ruKind \in RuKinds
    /\ ruHelper = "begin" /\ ruStdin = 0
    /\ ruIn = [h \in RuHops |-> <<>>] /\ ruOut = [h \in RuHops |-> <<>>]
    /\ ruProxy = "open" /\ ruBack = "open" /\ ruSrv = "begin" /\ ruFeed = "open"
    /\ ruCmd = "none" /\ ruEof = FALSE /\ ruWrote = 0 /\ ruRead = 0 /\ ruPrinted = <<>>

RuLast == IF ruKind = "run" THEN 2 ELSE 1

(* A stream lives while its caller and its handler do: the helper's, and    *)
(* the guest's call of the mac, which has the context of the helper's.      *)
RuHelperThere == ruHelper \in {"begin", "open"}
RuServed == ruSrv \in {"begin", "open", "waiting"}
RuCallOpen == RuHelperThere /\ (ruKind = "run" => ruProxy = "open")

(* The helper sends the command, then what it reads from its stdin.         *)
RuCommand ==
    /\ ruHelper = "begin"
    /\ ruHelper' = "open"
    /\ ruIn' = [ruIn EXCEPT ![1] = Append(@, "command")]
    /\ UNCHANGED <<ruKind, ruStdin, ruOut, ruProxy, ruBack, ruSrv, ruFeed, ruCommand, ruPrinted>>

RuType(closed) ==
    /\ ruHelper = "open" /\ ruStdin <= RuTyped
    /\ ~closed => ruStdin < RuTyped
    /\ ruStdin' = IF closed THEN RuTyped + 1 ELSE ruStdin + 1
    /\ ruIn' = [ruIn EXCEPT ![1] = Append(@, IF closed THEN "closed" ELSE "input")]
    /\ UNCHANGED <<ruKind, ruHelper, ruOut, ruProxy, ruBack, ruSrv, ruFeed, ruCommand, ruPrinted>>

(* RunOnMac of the guest: s.Recv, then c.Send, which fails when the mac's   *)
(* handler has returned; an error of either ends the call.                  *)
RuForward ==
    /\ ruKind = "run" /\ ruProxy = "open"
    /\ \/ /\ ~RuHelperThere
          /\ ruProxy' = "over" /\ UNCHANGED ruIn
       \/ /\ RuHelperThere /\ ruIn[1] # <<>>
          /\ IF RuServed
             THEN /\ ruIn' = [ruIn EXCEPT ![1] = Tail(@), ![2] = Append(@, Head(ruIn[1]))]
                  /\ UNCHANGED ruProxy
             ELSE ruIn' = [ruIn EXCEPT ![1] = Tail(@)] /\ ruProxy' = "over"
    /\ UNCHANGED <<ruKind, ruHelper, ruStdin, ruOut, ruBack, ruSrv, ruFeed, ruCommand, ruPrinted>>

(* c.Recv fails when the mac's handler has returned and all is received.    *)
RuBackEnds == ruOut[2] = <<>> /\ ~RuServed

(* Its goroutine: c.Recv, then s.Send; at the end of the mac's stream it    *)
(* returns, and does not end the helper's call.                             *)
RuForwardBack ==
    /\ ruKind = "run" /\ ruBack = "open"
    /\ \/ /\ ruOut[2] # <<>> /\ RuCallOpen
          /\ ruOut' = [ruOut EXCEPT ![1] = Append(@, Head(ruOut[2])), ![2] = Tail(@)] /\ UNCHANGED ruBack
       \/ /\ RuBackEnds \/ ~RuCallOpen
          /\ ruBack' = "over" /\ UNCHANGED ruOut
    /\ UNCHANGED <<ruKind, ruHelper, ruStdin, ruIn, ruProxy, ruSrv, ruFeed, ruCommand, ruPrinted>>

(* The server takes the command and starts it, or fails.                    *)
RuStart(starts) ==
    /\ ruSrv = "begin" /\ ruIn[RuLast] # <<>> /\ RuCallOpen
    /\ ruIn' = [ruIn EXCEPT ![RuLast] = Tail(@)]
    /\ ruSrv' = IF starts THEN "open" ELSE "refused"
    /\ ruCmd' = IF starts THEN "runs" ELSE ruCmd
    /\ UNCHANGED <<ruKind, ruHelper, ruStdin, ruOut, ruProxy, ruBack, ruFeed, ruEof, ruWrote, ruRead, ruPrinted>>

(* The first s.Recv fails because the caller is gone.                       *)
RuNoCommand ==
    /\ ruSrv = "begin" /\ ~RuCallOpen
    /\ ruSrv' = "refused"
    /\ UNCHANGED <<ruKind, ruHelper, ruStdin, ruIn, ruOut, ruProxy, ruBack, ruFeed, ruCommand, ruPrinted>>

(* The goroutine that feeds stdin: input is written, "closed" closes it, an *)
(* error of Recv leaves it open.                                            *)
RuFeed ==
    /\ ruSrv \in {"open", "waiting"} /\ ruFeed = "open"
    /\ \/ /\ RuCallOpen /\ ruIn[RuLast] # <<>>
          /\ ruIn' = [ruIn EXCEPT ![RuLast] = Tail(@)]
          /\ ruEof' = (ruEof \/ Head(ruIn[RuLast]) = "closed")
          /\ ruFeed' = IF Head(ruIn[RuLast]) = "closed" THEN "over" ELSE ruFeed
       \/ /\ ~RuCallOpen
          /\ ruFeed' = "over" /\ UNCHANGED <<ruIn, ruEof>>
    /\ UNCHANGED <<ruKind, ruHelper, ruStdin, ruOut, ruProxy, ruBack, ruSrv, ruCmd, ruWrote, ruRead, ruPrinted>>

(* The command writes, and exits when it likes.                             *)
RuWrites ==
    /\ ruCmd = "runs" /\ ruWrote < RuLines
    /\ ruWrote' = ruWrote + 1
    /\ UNCHANGED <<ruKind, ruHelper, ruStdin, ruIn, ruOut, ruProxy, ruBack, ruSrv, ruFeed, ruCmd, ruEof, ruRead, ruPrinted>>

RuExits ==
    /\ ruCmd = "runs"
    /\ ruCmd' = "exited"
    /\ UNCHANGED <<ruKind, ruHelper, ruStdin, ruIn, ruOut, ruProxy, ruBack, ruSrv, ruFeed, ruEof, ruWrote, ruRead, ruPrinted>>

(* stdout.Read and s.Send; an error of Send ends the copying.               *)
RuCopy ==
    /\ ruSrv = "open" /\ ruRead < ruWrote
    /\ ruRead' = ruRead + 1
    /\ IF RuCallOpen
       THEN ruOut' = [ruOut EXCEPT ![RuLast] = Append(@, ruRead + 1)] /\ UNCHANGED ruSrv
       ELSE ruSrv' = "waiting" /\ UNCHANGED ruOut
    /\ UNCHANGED <<ruKind, ruHelper, ruStdin, ruIn, ruProxy, ruBack, ruFeed, ruCmd, ruEof, ruWrote, ruPrinted>>

(* Mutant: the process is waited for before its output is read to the end.  *)
MutRuDrained == TRUE

(* Read returns nothing: the pipe is empty and the command has exited.      *)
RuDrained == ruRead = ruWrote

RuCopied ==
    /\ ruSrv = "open" /\ ruCmd = "exited" /\ RuDrained
    /\ ruSrv' = "waiting"
    /\ UNCHANGED <<ruKind, ruHelper, ruStdin, ruIn, ruOut, ruProxy, ruBack, ruFeed, ruCommand, ruPrinted>>

(* cmd.Wait, and the last message with the exit code.                       *)
RuWaited ==
    /\ ruSrv = "waiting" /\ ruCmd = "exited"
    /\ ruOut' = IF RuCallOpen THEN [ruOut EXCEPT ![RuLast] = Append(@, 0)] ELSE ruOut
    /\ ruSrv' = "over"
    /\ UNCHANGED <<ruKind, ruHelper, ruStdin, ruIn, ruProxy, ruBack, ruFeed, ruCommand, ruPrinted>>

(* os.Exit with the code of the last message.                               *)
RuCode(m) == IF m = 0 THEN "exited" ELSE ruHelper

(* stream.Recv of the helper; at an error os.Exit(1).                       *)
RuRecv ==
    /\ ruHelper = "open"
    /\ \/ /\ ruOut[1] # <<>>
          /\ ruOut' = [ruOut EXCEPT ![1] = Tail(@)]
          /\ ruPrinted' = IF Head(ruOut[1]) = 0 THEN ruPrinted ELSE Append(ruPrinted, Head(ruOut[1]))
          /\ ruHelper' = RuCode(Head(ruOut[1]))
       \/ /\ ruOut[1] = <<>> /\ IF ruKind = "run" THEN ruProxy = "over" ELSE ~RuServed
          /\ ruHelper' = "failed" /\ UNCHANGED <<ruOut, ruPrinted>>
    /\ UNCHANGED <<ruKind, ruStdin, ruIn, ruProxy, ruBack, ruSrv, ruFeed, ruCommand>>

(* The user interrupts the helper.                                          *)
RuKilled ==
    /\ RuHelperThere
    /\ ruHelper' = "killed"
    /\ UNCHANGED <<ruKind, ruStdin, ruIn, ruOut, ruProxy, ruBack, ruSrv, ruFeed, ruCommand, ruPrinted>>

RuSteps ==
    \/ RuCommand \/ RuForward \/ RuForwardBack \/ (\E b \in BOOLEAN : RuStart(b)) \/ RuNoCommand
    \/ RuFeed \/ RuCopy \/ RuCopied \/ RuWaited \/ RuRecv

RuNext == RuSteps \/ (\E b \in BOOLEAN : RuType(b)) \/ RuWrites \/ RuExits \/ RuKilled

(* The goroutines of the three processes run; users and commands need not.  *)
RuFairSpec == RuInit /\ [][RuNext]_ruVars /\ WF_ruVars(RuSteps)

------------------------------------------------------------------------------
RuTypeOK ==
    /\ ruHelper \in {"begin", "open", "exited", "failed", "killed"}
    /\ ruStdin \in 0..(RuTyped + 1) /\ ruRead <= ruWrote /\ ruWrote <= RuLines
    /\ ruSrv \in {"begin", "open", "waiting", "over", "refused"}
    /\ (ruCmd = "none") = (ruSrv \in {"begin", "refused"})

(* The helper prints the command's output in order, and exits with the      *)
(* command's code only when it has printed all of it.                       *)
RuOutputFirst ==
    /\ \A i \in 1..Len(ruPrinted) : ruPrinted[i] = i
    /\ ruHelper = "exited" => ruCmd = "exited" /\ Len(ruPrinted) = ruWrote

(* The end of the command ends the helper.                                  *)
RuEnds == []<>(ruCmd = "exited" => ~RuHelperThere)

(* A command that cannot be started ends the helper too: at once on the     *)
(* console, and for isle run, where the guest does not pass the end of the  *)
(* mac's stream on, only if some input comes after it.                      *)
RuRefusalSeen ==
    []<>(ruSrv = "refused" /\ (ruKind = "run" => ruIn[1] # <<>> \/ ruProxy = "over") => ~RuHelperThere)

(* A helper that is gone ends the handler once the command exits: it is not *)
(* stopped by that.                                                         *)
RuHandlerEnds ==
    []<>(~RuHelperThere /\ ruCmd # "runs" => ruSrv \in {"over", "refused"} /\ (ruKind = "run" => ruProxy = "over"))

(* What the user of isle run and of the console sees.                       *)
RuFinishes == [](RuTypeOK /\ RuOutputFirst) /\ RuEnds /\ RuRefusalSeen /\ RuHandlerEnds
=============================================================================
