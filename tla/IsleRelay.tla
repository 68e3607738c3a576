------------------------------ MODULE IsleRelay ------------------------------
(***************************************************************************)
(* Connections that are relayed between the mac and the guest over a       *)
(* stream of the yamux session: a forwarded port (forwardPort of vm.go     *)
(* towards handleProtocol of guest.go) and the ssh agent (forwardSSHAgent  *)
(* of guest.go towards handleGuestConn of vm.go).                          *)
(*                                                                         *)
(* The near side accepts, opens a stream and asks in its accept loop, the  *)
(* far side dials and answers; then two goroutines on each side copy until *)
(* one direction ends and close both connections.  The server behind the   *)
(* far side sends its bytes 1, 2, ... whenever it likes.                   *)
(***************************************************************************)
EXTENDS Integers, Sequences, FiniteSets

CONSTANTS
    RyKinds,     \* {"port", "agent"}
    RyClients,   \* connections to the near side's listener
    RyTalkers,   \* bound: the connections that data is sent on
    RyBytes      \* bound: bytes that a server or a client sends

RyNone == "none"

ASSUME RyAssumption ==
    RyNone \notin RyClients /\ RyKinds \subseteq {"port", "agent"} /\ RyTalkers \subseteq RyClients /\ RyBytes \in Nat

VARIABLES
    ryKind,      \* what is relayed
    ryLoop,      \* the connection that the accept loop is at, or RyNone
    ryNear,      \* near side, per connection: "none", "waiting", "opened", "asked", "refused", "copying", "over"
    ryFar,       \* far side: "none", "asked", "copying", "over"
    ryDown,      \* the stream towards the near side: RyOk or RyError, and bytes
    rySent,      \* bytes that the server has sent
    ryServer,    \* the server: "none", "sends", "closed" by itself, "told" (closed by the far side)
    ryGot,       \* bytes that the client has received
    ryTaken,     \* bytes that the decoder of the answer has taken with it
    ryUp,        \* bytes of the client: written, through the stream, at the server
    ryClient,    \* the client: "open", "closed" by itself, "told" (closed by the near side)
    ryStream     \* the stream: "none", "open", "near" or "far" closed it

ryVars == <<ryKind, ryLoop, ryNear, ryFar, ryDown, rySent, ryServer, ryGot, ryTaken, ryUp, ryClient, ryStream>>

RyOk == 0
RyError == -1

RyInit ==
    /\ ryKind \in RyKinds
    /\ ryLoop = RyNone
    /\ ryNear = [c \in RyClients |-> "none"] /\ ryFar = [c \in RyClients |-> "none"]
    /\ ryDown = [c \in RyClients |-> <<>>] /\ rySent = [c \in RyClients |-> 0]
    /\ ryServer = [c \in RyClients |-> "none"] /\ ryGot = [c \in RyClients |-> <<>>]
    /\ ryTaken = [c \in RyClients |-> 0] /\ ryUp = [c \in RyClients |-> <<0, 0, 0>>]
    /\ ryClient = [c \in RyClients |-> "open"] /\ ryStream = [c \in RyClients |-> "none"]

(* A client dials the listener of the near side.                            *)
RyDial(c) ==
    /\ ryNear[c] = "none"
    /\ ryNear' = [ryNear EXCEPT ![c] = "waiting"]
    /\ UNCHANGED <<ryKind, ryLoop, ryFar, ryDown, rySent, ryServer, ryGot, ryTaken, ryUp, ryClient, ryStream>>

(* Accept, and sess.Open, which may fail: the loop goes on, and only the    *)
(* agent's closes the connection then.                                      *)
RyAccept(c, opens) ==
    /\ ryLoop = RyNone /\ ryNear[c] = "waiting"
    /\ IF opens
       THEN /\ ryLoop' = c /\ ryNear' = [ryNear EXCEPT ![c] = "opened"]
            /\ ryStream' = [ryStream EXCEPT ![c] = "open"]
            /\ UNCHANGED ryClient
       ELSE /\ ryNear' = [ryNear EXCEPT ![c] = "refused"]
            /\ ryClient' = [ryClient EXCEPT ![c] = IF ryKind = "agent" /\ @ = "open" THEN "told" ELSE @]
            /\ UNCHANGED <<ryLoop, ryStream>>
    /\ UNCHANGED <<ryKind, ryFar, ryDown, rySent, ryServer, ryGot, ryTaken, ryUp>>

(* The header, and for a port its number and key.                           *)
RyAsk(c) ==
    /\ ryLoop = c /\ ryNear[c] = "opened"
    /\ ryNear' = [ryNear EXCEPT ![c] = "asked"]
    /\ ryFar' = [ryFar EXCEPT ![c] = "asked"]
    /\ UNCHANGED <<ryKind, ryLoop, ryDown, rySent, ryServer, ryGot, ryTaken, ryUp, ryClient, ryStream>>

(* handleProtocol dials the port in the guest, handleGuestConn the agent of *)
(* the mac, and answers; the goroutines start copying.                      *)
RyAnswer(c, dials) ==
    /\ ryFar[c] = "asked"
    /\ ryDown' = [ryDown EXCEPT ![c] = Append(@, IF dials THEN RyOk ELSE RyError)]
    /\ ryFar' = [ryFar EXCEPT ![c] = IF dials THEN "copying" ELSE "over"]
    /\ ryServer' = [ryServer EXCEPT ![c] = IF dials THEN "sends" ELSE @]
    /\ ryStream' = [ryStream EXCEPT ![c] = IF dials \/ @ # "open" THEN @ ELSE "far"]
    /\ UNCHANGED <<ryKind, ryLoop, ryNear, rySent, ryGot, ryTaken, ryUp, ryClient>>

(* dec.Decode of the question fails: the far side gives up without an       *)
(* answer, and its deferred Close ends the stream.                          *)
RyUnasked(c) ==
    /\ ryFar[c] = "asked"
    /\ ryFar' = [ryFar EXCEPT ![c] = "over"]
    /\ ryStream' = [ryStream EXCEPT ![c] = IF @ = "open" THEN "far" ELSE @]
    /\ UNCHANGED <<ryKind, ryLoop, ryNear, ryDown, rySent, ryServer, ryGot, ryTaken, ryUp, ryClient>>

(* dec.Decode(&resp): the decoder reads ahead as much as has arrived; what  *)
(* it holds besides the answer is not copied any more.                      *)
RyDecode(c, ahead) ==
    /\ ryLoop = c /\ ryNear[c] = "asked" /\ ryDown[c] # <<>>
    /\ ahead \in 0..(Len(ryDown[c]) - 1)
    /\ ryDown' = [ryDown EXCEPT ![c] = SubSeq(@, ahead + 2, Len(@))]
    /\ ryTaken' = [ryTaken EXCEPT ![c] = ahead]
    /\ ryLoop' = RyNone
    /\ IF Head(ryDown[c]) = RyOk
       THEN ryNear' = [ryNear EXCEPT ![c] = "copying"] /\ UNCHANGED ryClient
       ELSE /\ ryNear' = [ryNear EXCEPT ![c] = "refused"]
            /\ ryClient' = [ryClient EXCEPT ![c] = IF ryKind = "agent" /\ @ = "open" THEN "told" ELSE @]
    /\ UNCHANGED <<ryKind, ryFar, rySent, ryServer, ryGot, ryUp, ryStream>>

(* The stream ends without an answer.                                       *)
RyNoAnswer(c) ==
    /\ ryLoop = c /\ ryNear[c] = "asked" /\ ryDown[c] = <<>> /\ ryStream[c] = "far"
    /\ ryNear' = [ryNear EXCEPT ![c] = "refused"]
    /\ ryClient' = [ryClient EXCEPT ![c] = IF ryKind = "agent" /\ @ = "open" THEN "told" ELSE @]
    /\ ryLoop' = RyNone
    /\ UNCHANGED <<ryKind, ryFar, ryDown, rySent, ryServer, ryGot, ryTaken, ryUp, ryStream>>

(* The far side copies what its server sends; when the server closes, it    *)
(* closes both ends, after everything before that.                          *)
RyServerSends(c) ==
    /\ ryFar[c] = "copying" /\ ryServer[c] = "sends" /\ rySent[c] < RyBytes /\ c \in RyTalkers
    /\ rySent' = [rySent EXCEPT ![c] = @ + 1]
    /\ ryDown' = [ryDown EXCEPT ![c] = IF ryStream[c] = "open" THEN Append(@, rySent[c] + 1) ELSE @]
    /\ UNCHANGED <<ryKind, ryLoop, ryNear, ryFar, ryServer, ryGot, ryTaken, ryUp, ryClient, ryStream>>

RyServerCloses(c) ==
    /\ ryFar[c] = "copying" /\ ryServer[c] = "sends"
    /\ ryServer' = [ryServer EXCEPT ![c] = "closed"]
    /\ ryFar' = [ryFar EXCEPT ![c] = "over"]
    /\ ryStream' = [ryStream EXCEPT ![c] = IF @ = "open" THEN "far" ELSE @]
    /\ UNCHANGED <<ryKind, ryLoop, ryNear, ryDown, rySent, ryGot, ryTaken, ryUp, ryClient>>

(* io.Copy(c, guest) of the near side; at the stream's end both are closed. *)
RyCopyDown(c) ==
    /\ ryNear[c] = "copying" /\ ryDown[c] # <<>> /\ ryClient[c] = "open"
    /\ ryGot' = [ryGot EXCEPT ![c] = Append(@, Head(ryDown[c]))]
    /\ ryDown' = [ryDown EXCEPT ![c] = Tail(@)]
    /\ UNCHANGED <<ryKind, ryLoop, ryNear, ryFar, rySent, ryServer, ryTaken, ryUp, ryClient, ryStream>>

(* Mutant: the end of the stream overtakes the bytes before it.             *)
MutRyDrained(c) == TRUE

RyDrained(c) == ryDown[c] = <<>>

RyDownEnds(c) ==
    /\ ryNear[c] = "copying" /\ RyDrained(c) /\ ryStream[c] = "far"
    /\ ryNear' = [ryNear EXCEPT ![c] = "over"]
    /\ ryClient' = [ryClient EXCEPT ![c] = IF @ = "open" THEN "told" ELSE @]
    /\ UNCHANGED <<ryKind, ryLoop, ryFar, ryDown, rySent, ryServer, ryGot, ryTaken, ryUp, ryStream>>

(* The client writes and closes; io.Copy(guest, c) and io.Copy(c, conn)     *)
(* carry its bytes to the server.                                           *)
RyClientSends(c) ==
    /\ ryNear[c] # "none" /\ ryClient[c] = "open" /\ ryUp[c][1] < RyBytes /\ c \in RyTalkers
    /\ ryUp' = [ryUp EXCEPT ![c][1] = @ + 1]
    /\ UNCHANGED <<ryKind, ryLoop, ryNear, ryFar, ryDown, rySent, ryServer, ryGot, ryTaken, ryClient, ryStream>>

RyClientCloses(c) ==
    /\ ryNear[c] # "none" /\ ryClient[c] = "open"
    /\ ryClient' = [ryClient EXCEPT ![c] = "closed"]
    /\ UNCHANGED <<ryKind, ryLoop, ryNear, ryFar, ryDown, rySent, ryServer, ryGot, ryTaken, ryUp, ryStream>>

RyCopyUp(c) ==
    /\ ryNear[c] = "copying" /\ ryStream[c] = "open" /\ ryUp[c][2] < ryUp[c][1]
    /\ ryUp' = [ryUp EXCEPT ![c][2] = @ + 1]
    /\ UNCHANGED <<ryKind, ryLoop, ryNear, ryFar, ryDown, rySent, ryServer, ryGot, ryTaken, ryClient, ryStream>>

RyFarCopyUp(c) ==
    /\ ryFar[c] = "copying" /\ ryUp[c][3] < ryUp[c][2]
    /\ ryUp' = [ryUp EXCEPT ![c][3] = @ + 1]
    /\ UNCHANGED <<ryKind, ryLoop, ryNear, ryFar, ryDown, rySent, ryServer, ryGot, ryTaken, ryClient, ryStream>>

(* The client has closed and its bytes are through, or the server's data    *)
(* meets a closed client: the near side closes both.                        *)
RyUpEnds(c) ==
    /\ ryNear[c] = "copying" /\ ryClient[c] = "closed"
    /\ ryUp[c][2] = ryUp[c][1] \/ ryDown[c] # <<>> \/ ryStream[c] = "far"
    /\ ryNear' = [ryNear EXCEPT ![c] = "over"]
    /\ ryStream' = [ryStream EXCEPT ![c] = IF @ = "open" THEN "near" ELSE @]
    /\ UNCHANGED <<ryKind, ryLoop, ryFar, ryDown, rySent, ryServer, ryGot, ryTaken, ryUp, ryClient>>

RyFarUpEnds(c) ==
    /\ ryFar[c] = "copying" /\ ryStream[c] = "near" /\ ryUp[c][3] = ryUp[c][2]
    /\ ryFar' = [ryFar EXCEPT ![c] = "over"]
    /\ ryServer' = [ryServer EXCEPT ![c] = "told"]
    /\ UNCHANGED <<ryKind, ryLoop, ryNear, ryDown, rySent, ryGot, ryTaken, ryUp, ryClient, ryStream>>

RySteps(c) ==
    \/ \E b \in BOOLEAN : RyAccept(c, b) \/ RyAnswer(c, b)
    \/ RyAsk(c) \/ (\E k \in 0..RyBytes : RyDecode(c, k)) \/ RyUnasked(c) \/ RyNoAnswer(c)
    \/ RyCopyDown(c) \/ RyDownEnds(c) \/ RyCopyUp(c) \/ RyFarCopyUp(c) \/ RyUpEnds(c) \/ RyFarUpEnds(c)

RyNext ==
    \E c \in RyClients : RyDial(c) \/ RySteps(c) \/ RyServerSends(c) \/ RyServerCloses(c) \/ RyClientSends(c) \/ RyClientCloses(c)

RySpec == RyInit /\ [][RyNext]_ryVars

(* The goroutines of both sides run; servers and clients need not.          *)
RyFairSpec == RySpec /\ \A c \in RyClients : WF_ryVars(RySteps(c))

------------------------------------------------------------------------------
RyTypeOK ==
    /\ ryLoop \in RyClients \cup {RyNone}
    /\ \A c \in RyClients :
         /\ ryNear[c] \in {"none", "waiting", "opened", "asked", "refused", "copying", "over"}
         /\ ryFar[c] \in {"none", "asked", "copying", "over"}
         /\ ryStream[c] \in {"none", "open", "near", "far"}
         /\ ryClient[c] \in {"open", "closed", "told"} /\ ryServer[c] \in {"none", "sends", "closed", "told"}
         /\ (ryLoop = c) = (ryNear[c] \in {"opened", "asked"})

(* What a client receives is what its server sent, in order and without a   *)
(* hole, except for the bytes that came together with the answer; the       *)
(* answer itself never reaches the client.                                  *)
RyInOrder ==
    \A c \in RyClients :
        /\ \A i \in 1..Len(ryGot[c]) : ryGot[c][i] = ryTaken[c] + i
        /\ ryTaken[c] + Len(ryGot[c]) <= rySent[c]
        /\ ryUp[c][3] <= ryUp[c][2] /\ ryUp[c][2] <= ryUp[c][1]

(* A server that closes first has all its bytes delivered before the client *)
(* is told; a client that closes first, all its bytes before the server is. *)
RyComplete ==
    \A c \in RyClients :
        /\ ryNear[c] = "over" /\ ryClient[c] = "told" => ryTaken[c] + Len(ryGot[c]) = rySent[c]
        /\ ryServer[c] = "told" /\ ryUp[c][2] = ryUp[c][1] => ryUp[c][3] = ryUp[c][1]

(* When one end closes, the other one is closed too.                        *)
RyBothClose ==
    []<>(\A c \in RyClients : ryNear[c] \in {"copying", "over"} =>
            /\ ryClient[c] = "closed" => ryServer[c] # "sends"
            /\ ryServer[c] = "closed" => ryClient[c] # "open")

(* The accept loop, which negotiates one connection after the other, gets   *)
(* to every client; and an agent's client that is refused is told.          *)
RyServed ==
    []<>(\A c \in RyClients :
            ryNear[c] # "waiting" /\ (ryNear[c] = "refused" /\ ryKind = "agent" => ryClient[c] # "open"))

(* What the two ends of a relayed connection can rely on.                   *)
RyRelays == [](RyTypeOK /\ RyInOrder /\ RyComplete) /\ RyBothClose /\ RyServed
=============================================================================
