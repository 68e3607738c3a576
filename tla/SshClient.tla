------------------------------ MODULE SshClient ------------------------------
(***************************************************************************)
(* A session of the SSH client: Session of pkg/crypto/ssh/session.go, from *)
(* the requests before the start to Wait, and CLI.Shell of cli.go, which   *)
(* is its user.  The server and the channel's order of delivery are        *)
(* external here: SshSession and SshChannel model them.                    *)
(***************************************************************************)
EXTENDS Integers, FiniteSets, SequencesExt

CONSTANTS
    ClTries,      \* 100: dials of the local socket before Shell goes on without one
    ClChanSize,   \* chanSize: room for the channel's requests
    ClTaken,      \* the sets of pipes that a caller may take
    ClScripts,    \* what a server may send once the command has started: sequences of messages
    ClMaxTyped    \* bound: pieces that the user types

ASSUME ClAssumption == ClTries \in Nat \ {0} /\ ClChanSize \in Nat \ {0} /\ ClMaxTyped \in Nat

VARIABLES
    clCli,      \* Shell: "dialing", "dialed", "env", "pty", "start", "wait", "collect", "returned", "panicked"
    clRoute,    \* where it dials: "direct", "bonjour", "local"; "up": it has dialed
    clLeft,     \* dials left
    clPipes,    \* the streams that the caller has taken with StdinPipe, StdoutPipe, StderrPipe
    clAsked,    \* a request that waits for its reply: "no", "sent", "answered"
    clWire,     \* from the server, in order
    clScript,   \* what this server sends
    clSent,     \* how much of it was sent
    clGone,     \* the connection was lost
    clShut,     \* the channel is closed at this end
    clReqs,     \* the channel of its requests
    clStatus,   \* wait's wm.status
    clSignal,   \* whether wm.signal is set
    clExit,     \* the channel exitStatus: "none", or what wait returned
    clOut,      \* what is buffered for stdout and stderr
    clEof,      \* the buffers that have their end
    clMade,     \* the buffers that exist
    clCopy,     \* the copy functions: "none", "begun", "copying", "over", "failed"
    clShown,    \* what was copied to Stdout and Stderr
    clTyped,    \* pieces that the user has typed
    clPipe,     \* the stdin pipe: "empty", "full" (a blocked write), "closed"
    clResult    \* what Wait returned

clVars == <<clCli, clRoute, clLeft, clPipes, clAsked, clWire, clScript, clSent, clGone, clShut, clReqs, clStatus, clSignal, clExit,
            clOut, clEof, clMade, clCopy, clShown, clTyped, clPipe, clResult>>
clServer == <<clWire, clScript, clSent, clGone>>
clBuffers == <<clOut, clEof, clMade>>
clWaiter == <<clStatus, clSignal, clExit>>

ClOutputs == {"out", "err"}
ClStreams == ClOutputs \union {"in"}
ClExits == {"exit0", "exit1", "signal", "malformed"}

(* StdinPipe, StdoutPipe and StderrPipe are called before the start or not  *)
(* at all.                                                                 *)
ClPipes == ClTaken \intersect SUBSET ClStreams

ClDials == [direct |-> 1, bonjour |-> 2, local |-> ClTries]

ClInit ==
    /\ clCli = "dialing" /\ clRoute \in DOMAIN ClDials /\ clLeft = ClDials[clRoute] /\ clPipes \in ClPipes /\ clAsked = "no"
    /\ clWire = <<>> /\ clScript \in ClScripts /\ clSent = 0 /\ clGone = FALSE /\ clShut = FALSE /\ clReqs = <<>>
    /\ clStatus = -1 /\ clSignal = FALSE /\ clExit = "none"
    /\ clOut = [s \in ClOutputs |-> 0] /\ clEof = {} /\ clMade = {"out"}
    /\ clCopy = [s \in ClStreams |-> "none"] /\ clShown = [s \in ClOutputs |-> 0]
    /\ clTyped = 0 /\ clPipe = "empty" /\ clResult = "none"

ClReturns(result) == clCli' = "returned" /\ clResult' = result

(* Shell dials; after the last failure it returns the error, except that of *)
(* the local socket, when it calls NewSession of a nil client.             *)
ClDial(ok) ==
    /\ clCli = "dialing"
    /\ clLeft' = IF ok THEN 0 ELSE clLeft - 1
    /\ clRoute' = IF ok THEN "up" ELSE clRoute
    /\ IF ~ok /\ clLeft = 1 /\ clRoute # "local" THEN ClReturns("refused")
       ELSE clCli' = (IF ok THEN "dialed" ELSE IF clLeft = 1 THEN "panicked" ELSE "dialing") /\ UNCHANGED clResult
    /\ UNCHANGED <<clPipes, clAsked, clServer, clShut, clReqs, clWaiter, clBuffers, clCopy, clShown, clTyped, clPipe>>

(* NewSession.                                                             *)
ClSession(ok) ==
    /\ clCli = "dialed"
    /\ IF ok THEN clCli' = "env" /\ UNCHANGED clResult ELSE ClReturns("refused")
    /\ UNCHANGED <<clRoute, clLeft, clPipes, clAsked, clServer, clShut, clReqs, clWaiter, clBuffers, clCopy, clShown, clTyped, clPipe>>

(* A request that wants a reply: Setenv, RequestPty, Shell or Start.       *)
ClRequest ==
    /\ clCli \in {"env", "pty", "start"} /\ clAsked = "no" /\ ~clShut
    /\ clAsked' = "sent"
    /\ UNCHANGED <<clCli, clRoute, clLeft, clPipes, clServer, clShut, clReqs, clWaiter, clBuffers, clCopy, clShown, clTyped, clPipe, clResult>>

(* start: the copy functions of the streams that were not taken.           *)
ClStarted == [s \in ClStreams |-> IF s \in clPipes THEN "none" ELSE "begun"]

(* What follows the answer, or the channel's end.  Shell does not look at  *)
(* the answers about the environment.                                      *)
ClAnswered(ok) ==
    CASE clCli = "env" -> clCli' = "pty" /\ UNCHANGED <<clCopy, clResult>>
      [] clCli = "pty" -> IF ok THEN clCli' = "start" /\ UNCHANGED <<clCopy, clResult>> ELSE ClReturns("refused") /\ UNCHANGED clCopy
      [] clCli = "start" -> IF ok THEN clCli' = "wait" /\ clCopy' = ClStarted /\ UNCHANGED clResult
                            ELSE ClReturns("refused") /\ UNCHANGED clCopy

(* On a closed channel a request fails at once.                            *)
ClRequestFails ==
    /\ clCli \in {"env", "pty", "start"} /\ clShut
    /\ clAsked' = "no" /\ ClAnswered(FALSE)
    /\ UNCHANGED <<clRoute, clLeft, clPipes, clServer, clShut, clReqs, clWaiter, clBuffers, clShown, clTyped, clPipe>>

(* The server answers; from the start on it sends output, its end, requests *)
(* and the channel's end.                                                  *)
ClSays(m) == clWire' = Append(clWire, m)
ClHas(m) == \E n \in 1..clSent : clScript[n] = m

ClServerAnswers(ok) ==
    /\ ~clGone /\ clAsked = "sent"
    /\ clAsked' = "answered" /\ ClSays(IF ok THEN "yes" ELSE "no")
    /\ UNCHANGED <<clCli, clRoute, clLeft, clPipes, clScript, clSent, clGone, clShut, clReqs, clWaiter, clBuffers, clCopy, clShown, clTyped, clPipe, clResult>>

ClServerSends ==
    /\ ~clGone /\ clCli \in {"wait", "collect"} /\ clSent < Len(clScript)
    /\ clSent' = clSent + 1 /\ ClSays(clScript[clSent'])
    /\ UNCHANGED <<clCli, clRoute, clLeft, clPipes, clAsked, clScript, clGone, clShut, clReqs, clWaiter, clBuffers, clCopy, clShown, clTyped, clPipe, clResult>>

(* The connection is lost, with what was under way.                        *)
ClDrop ==
    /\ ~clGone /\ clCli \notin {"dialing", "dialed", "panicked"}
    /\ clGone' = TRUE /\ clWire' = <<"close">>
    /\ UNCHANGED <<clCli, clRoute, clLeft, clPipes, clAsked, clScript, clSent, clShut, clReqs, clWaiter, clBuffers, clCopy, clShown, clTyped, clPipe, clResult>>

(* The mux's loop hands the next message out.                              *)
ClDeliver ==
    /\ clWire # <<>> /\ ~clShut
    /\ clWire' = Tail(clWire)
    /\ LET m == Head(clWire) IN
       \/ /\ m \in {"yes", "no"}
          /\ clAsked' = "no" /\ ClAnswered(m = "yes")
          /\ UNCHANGED <<clShut, clReqs, clBuffers>>
       \/ /\ m \in ClOutputs
          /\ clOut' = [clOut EXCEPT ![m] = @ + 1] /\ clMade' = clMade \union {m}
          /\ UNCHANGED <<clCli, clAsked, clCopy, clResult, clShut, clReqs, clEof>>
       \/ /\ m = "eof"
          /\ clEof' = clMade
          /\ UNCHANGED <<clCli, clAsked, clCopy, clResult, clShut, clReqs, clOut, clMade>>
       \/ /\ m \in ClExits \union {"keepalive"} /\ Len(clReqs) < ClChanSize
          /\ clReqs' = Append(clReqs, m)
          /\ UNCHANGED <<clCli, clAsked, clCopy, clResult, clShut, clBuffers>>
       \/ /\ m = "close"
          /\ clShut' = TRUE /\ clEof' = clMade
          /\ UNCHANGED <<clCli, clAsked, clCopy, clResult, clReqs, clOut, clMade>>
    /\ UNCHANGED <<clRoute, clLeft, clPipes, clScript, clSent, clGone, clWaiter, clShown, clTyped, clPipe>>

(* wait: what it makes of the requests once their channel is closed.        *)
ClVerdict ==
    CASE clStatus = 0 -> "ok"
      [] clStatus > 0 -> "failed"
      [] clStatus = -1 /\ clSignal -> "signalled"
      [] clStatus = -1 /\ ~clSignal -> "missing"

ClWaitRequest ==
    /\ clExit = "none" /\ clReqs # <<>>
    /\ clReqs' = Tail(clReqs)
    /\ LET m == Head(clReqs) IN
       /\ clStatus' = CASE m = "exit0" -> 0 [] m = "exit1" -> 1 [] OTHER -> clStatus
       /\ clSignal' = (clSignal \/ m = "signal")
       /\ clExit' = IF m = "malformed" THEN "unreadable" ELSE clExit
    /\ UNCHANGED <<clCli, clRoute, clLeft, clPipes, clAsked, clServer, clShut, clBuffers, clCopy, clShown, clTyped, clPipe, clResult>>

ClWaitEnds ==
    /\ clExit = "none" /\ clReqs = <<>> /\ clShut
    /\ clExit' = ClVerdict
    /\ UNCHANGED <<clCli, clRoute, clLeft, clPipes, clAsked, clServer, clShut, clReqs, clStatus, clSignal, clBuffers, clCopy, clShown, clTyped, clPipe, clResult>>

(* Wait: the status, then it closes the stdin pipe ...                      *)
MutClPipeClosed == clPipe
ClPipeClosed == "closed"
ClWaitStatus ==
    /\ clCli = "wait" /\ clExit # "none"
    /\ clCli' = "collect" /\ clPipe' = ClPipeClosed
    /\ UNCHANGED <<clRoute, clLeft, clPipes, clAsked, clServer, clShut, clReqs, clWaiter, clBuffers, clCopy, clShown, clTyped, clResult>>

(* ... and waits for every copy function; the first error of a copy counts *)
(* when the command itself has succeeded.                                  *)
ClCollected == \A s \in ClStreams \ clPipes : clCopy[s] \in {"over", "failed"}
ClWaitReturns ==
    /\ clCli = "collect" /\ ClCollected
    /\ ClReturns(IF clExit # "ok" THEN clExit ELSE IF \E s \in ClStreams : clCopy[s] = "failed" THEN "copy" ELSE "ok")
    /\ UNCHANGED <<clRoute, clLeft, clPipes, clAsked, clServer, clShut, clReqs, clWaiter, clBuffers, clCopy, clShown, clTyped, clPipe>>

(* The copies of stdout and stderr.  The first read makes the buffer.       *)
ClCopyOutput(s) ==
    /\ \/ /\ clCopy[s] = "begun"
          /\ clCopy' = [clCopy EXCEPT ![s] = "copying"] /\ clMade' = clMade \union {s} /\ UNCHANGED <<clOut, clShown>>
       \/ /\ clCopy[s] = "copying" /\ clOut[s] > 0
          /\ clOut' = [clOut EXCEPT ![s] = 0] /\ clShown' = [clShown EXCEPT ![s] = @ + clOut[s]] /\ UNCHANGED <<clCopy, clMade>>
       \/ /\ clCopy[s] = "copying" /\ clOut[s] = 0 /\ s \in clEof
          /\ clCopy' = [clCopy EXCEPT ![s] = "over"] /\ UNCHANGED <<clOut, clShown, clMade>>
    /\ UNCHANGED <<clCli, clRoute, clLeft, clPipes, clAsked, clServer, clShut, clReqs, clWaiter, clEof, clTyped, clPipe, clResult>>

(* The user types, or ends the input, into the pipe.                        *)
ClType(ends) ==
    /\ clCopy["in"] # "none" /\ clPipe = "empty"
    /\ ends \/ clTyped < ClMaxTyped
    /\ clPipe' = IF ends THEN "closed" ELSE "full"
    /\ clTyped' = IF ends THEN clTyped ELSE clTyped + 1
    /\ UNCHANGED <<clCli, clRoute, clLeft, clPipes, clAsked, clServer, clShut, clReqs, clWaiter, clBuffers, clCopy, clShown, clResult>>

(* The copy of stdin: a write fails on a closed channel and blocks while    *)
(* the server's window is closed; the end is passed on with CloseWrite.     *)
ClCopyInput ==
    /\ clCopy["in"] \in {"begun", "copying"}
    /\ \/ /\ clPipe = "full"
          /\ clPipe' = "empty"
          /\ clCopy' = [clCopy EXCEPT !["in"] = IF clShut THEN "failed" ELSE "copying"]
       \/ /\ clPipe = "closed"
          /\ clCopy' = [clCopy EXCEPT !["in"] = "over"] /\ UNCHANGED clPipe
    /\ UNCHANGED <<clCli, clRoute, clLeft, clPipes, clAsked, clServer, clShut, clReqs, clWaiter, clBuffers, clShown, clTyped, clResult>>

ClCliSteps == ClRequest \/ ClRequestFails \/ ClWaitStatus \/ ClWaitReturns
ClWaitSteps == ClWaitRequest \/ ClWaitEnds

ClNext ==
    \/ ClCliSteps \/ ClWaitSteps \/ ClDeliver \/ ClCopyInput \/ ClDrop \/ ClServerSends
    \/ \E s \in ClOutputs : ClCopyOutput(s)
    \/ \E ok \in BOOLEAN : ClDial(ok) \/ ClSession(ok) \/ ClServerAnswers(ok) \/ ClType(ok)

ClSpec == ClInit /\ [][ClNext]_clVars

(* The client's goroutines run; the user and the server owe nothing.        *)
ClFairSpec ==
    /\ ClSpec /\ WF_clVars(ClCliSteps) /\ WF_clVars(ClWaitSteps) /\ WF_clVars(ClDeliver)
    /\ WF_clVars(ClCopyInput /\ (clShut \/ clPipe = "closed"))
    /\ \A s \in ClOutputs : WF_clVars(ClCopyOutput(s))

(* When Wait returns, all that the server had sent of a stream is copied,  *)
(* unless the connection was lost; it reports success only for status 0,   *)
(* and a missing status only when none was sent.                           *)
ClFaithful ==
    clCli = "returned" /\ clResult # "refused" =>
      /\ ~clGone => \A s \in ClOutputs \ clPipes :
            clShown[s] = Cardinality({n \in 1..clSent : clScript[n] = s})
      /\ clResult \in {"ok", "copy"} => ClHas("exit0")
      /\ clResult = "missing" /\ ~clGone => \A e \in ClExits : ~ClHas(e)

(* Wait returns after the channel's end although the user's input never     *)
(* ends, because it closes the pipe between them.  The copy of stderr is   *)
(* the exception: a buffer first made after the end is never told of it.   *)
ClServed ==
    /\ [](ClFaithful /\ Len(clReqs) <= ClChanSize)
    /\ []<>(clShut /\ ClOutputs \ clPipes \subseteq clEof => clCli \notin {"wait", "collect"})
    /\ []<>(clShut => clAsked # "sent")
=============================================================================
