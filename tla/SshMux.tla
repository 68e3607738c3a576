------------------------------- MODULE SshMux -------------------------------
(***************************************************************************)
(* The multiplexer of SSH channels, pkg/crypto/ssh/mux.go, on both ends of *)
(* a connection: the list of channels and its reused ids, opening,         *)
(* accepting, rejecting and closing a channel, requests on a channel and   *)
(* on the connection with their replies, and the end of mux.loop           *)
(* (channel.go holds the handlers of a channel's own packets).             *)
(*                                                                         *)
(* A packet carries the number of the open it is meant for (o); only the   *)
(* properties look at it, the code goes by the id.                         *)
(***************************************************************************)
EXTENDS Naturals, Sequences, FiniteSets

CONSTANTS
    Opens,     \* calls of OpenChannel
    Opener,    \* open -> the side that calls it
    Callers,   \* calls of SendRequest with wantReply
    Target,    \* call -> the open whose channel it is on, or Global
    Plans      \* bound: the sets of opens and calls that one behaviour may make

ASSUME MuxConstants ==
    /\ IsFiniteSet(Opens) /\ IsFiniteSet(Callers)
    /\ "none" \notin Opens /\ "global" \notin Opens
    /\ Opener \in [Opens -> {"c", "s"}]
    /\ Target \in [Callers -> Opens \cup {"global"}]
    /\ Plans \subseteq SUBSET (Opens \cup Callers)

VARIABLES
    mList,    \* side -> chanList.chans, as open numbers
    mCh,      \* side -> open -> the channel object
    mWire,    \* side -> packets sent by it
    mReq,     \* side -> open or Global -> incomingRequests
    mMsg,     \* side -> open or Global -> msg, or globalResponses
    mCall,    \* call -> where it is
    mLoop,    \* side -> its loop
    mUp,      \* the transport
    mPlan     \* what this behaviour opens and calls

muxVars == <<mPlan, mList, mCh, mWire, mReq, mMsg, mCall, mLoop, mUp>>

MuxSides == {"c", "s"}
Global == "global"
NoOpen == "none"     \* a nil entry of the list
Peer(p) == CHOOSE q \in MuxSides : q # p
(* The side of a call: requests on a channel are made by its opener, those  *)
(* on the connection by the server.                                         *)
CallSide(k) == IF Target[k] = Global THEN "s" ELSE Opener[Target[k]]

MuxInit ==
    /\ mList = [p \in MuxSides |-> <<>>]
    /\ mCh = [p \in MuxSides |-> [o \in Opens |-> [st |-> "none", id |-> 0, remote |-> 0, shut |-> "no"]]]
    /\ mWire = [p \in MuxSides |-> <<>>]
    /\ mReq = [p \in MuxSides |-> [o \in Opens \cup {Global} |-> <<>>]]
    /\ mMsg = [p \in MuxSides |-> [o \in Opens \cup {Global} |-> <<>>]]
    /\ mCall = [k \in Callers |-> "new"]
    /\ mLoop = [p \in MuxSides |-> "run"]
    /\ mUp = "up"
    /\ mPlan \in Plans

------------------------------------------------------------------------------
(* chanList.add takes the first free slot; ids count from 0.                *)
FreeSlots(p) == {i \in 1..Len(mList[p]) : mList[p][i] = NoOpen}
SlotFor(p) ==
    IF FreeSlots(p) = {} THEN Len(mList[p]) + 1
    ELSE CHOOSE i \in FreeSlots(p) : \A j \in FreeSlots(p) : i <= j
Added(p, o) ==
    [i \in 1..(IF SlotFor(p) > Len(mList[p]) THEN SlotFor(p) ELSE Len(mList[p])) |->
        IF i = SlotFor(p) THEN o ELSE mList[p][i]]
Removed(p, id) == [mList EXCEPT ![p] = [i \in 1..Len(@) |-> IF i = id + 1 THEN NoOpen ELSE @[i]]]

(* getChan: the open whose channel has this id on side p.                   *)
GetChan(p, id) == IF id < Len(mList[p]) THEN mList[p][id + 1] ELSE NoOpen

(* mux.sendMessage; channel.sendMessage fails after a close was sent.       *)
Wired(p, m) == IF mUp = "up" THEN [mWire EXCEPT ![p] = Append(@, m)] ELSE mWire
ChanWired(p, o, m) ==
    IF mCh[p][o].shut = "no"
    THEN Wired(p, [t |-> m.t, tag |-> m.tag, o |-> o, to |-> mCh[p][o].remote, my |-> mCh[p][o].id])
    ELSE mWire

OpenChannel(o) ==
    LET p == Opener[o] IN
    /\ o \in mPlan /\ mCh[p][o].st = "none" /\ mLoop[p] = "run"
    /\ mList' = [mList EXCEPT ![p] = Added(p, o)]
    /\ mCh' = [mCh EXCEPT ![p][o] = [st |-> IF mUp = "up" THEN "opening" ELSE "failed",
                                      id |-> SlotFor(p) - 1, remote |-> 0, shut |-> "no"]]
    /\ mWire' = Wired(p, [t |-> "open", tag |-> 0, o |-> o, to |-> 0, my |-> SlotFor(p) - 1])
    /\ UNCHANGED <<mReq, mMsg, mCall, mLoop, mUp, mPlan>>

(* openChannel gets its answer, or finds ch.msg closed.                     *)
OpenReturns(o) ==
    LET p == Opener[o] IN
    /\ mCh[p][o].st \in {"opening", "confirmed", "refused"}
    /\ \/ /\ mMsg[p][o] # <<>>
          /\ mMsg' = [mMsg EXCEPT ![p][o] = Tail(@)]
          /\ mCh' = [mCh EXCEPT ![p][o].st = IF Head(mMsg[p][o]) = "confirm" THEN "open" ELSE "failed"]
       \/ /\ mMsg[p][o] = <<>> /\ mCh[p][o].shut = "closed"
          /\ mCh' = [mCh EXCEPT ![p][o].st = "failed"]
          /\ UNCHANGED mMsg
    /\ UNCHANGED <<mList, mWire, mReq, mCall, mLoop, mUp, mPlan>>

(* The application takes a NewChannel from incomingChannels and decides.    *)
Accept(p, o) ==
    /\ mCh[p][o].st = "offered"
    /\ mCh' = [mCh EXCEPT ![p][o].st = "open"]
    /\ mWire' = ChanWired(p, o, [t |-> "confirm", tag |-> 0])
    /\ UNCHANGED <<mList, mReq, mMsg, mCall, mLoop, mUp, mPlan>>

(* Reject does not take the channel out of the list.                        *)
Reject(p, o) ==
    /\ mCh[p][o].st = "offered"
    /\ mCh' = [mCh EXCEPT ![p][o].st = "rejected"]
    /\ mWire' = ChanWired(p, o, [t |-> "failure", tag |-> 0])
    /\ UNCHANGED <<mList, mReq, mMsg, mCall, mLoop, mUp, mPlan>>

MuxClose(p, o) ==
    /\ mCh[p][o].st = "open" /\ mCh[p][o].shut = "no"
    /\ mCh' = [mCh EXCEPT ![p][o].shut = "sent"]
    /\ mWire' = ChanWired(p, o, [t |-> "close", tag |-> 0])
    /\ UNCHANGED <<mList, mReq, mMsg, mCall, mLoop, mUp, mPlan>>

(* SendRequest with wantReply, of a channel and of the connection: a mutex  *)
(* lets one caller at a time send and wait.                                 *)
SendRequest(k) ==
    LET o == Target[k]  p == CallSide(k)
        sends == mUp = "up" /\ (o = Global \/ mCh[p][o].shut = "no") IN
    /\ k \in mPlan /\ mCall[k] = "new"
    /\ o # Global => mCh[p][o].st = "open"
    /\ \A j \in Callers : Target[j] = o => mCall[j] # "sent"
    /\ mCall' = [mCall EXCEPT ![k] = IF sends THEN "sent" ELSE "failed"]
    /\ mWire' = IF o = Global THEN Wired(p, [t |-> "greq", tag |-> k, o |-> o, to |-> 0, my |-> 0])
                              ELSE ChanWired(p, o, [t |-> "req", tag |-> k])
    /\ UNCHANGED <<mList, mCh, mReq, mMsg, mLoop, mUp, mPlan>>

(* It takes the next response; a closed channel is io.EOF.                  *)
RequestReturns(k) ==
    LET o == Target[k]  p == CallSide(k) IN
    /\ mCall[k] = "sent"
    /\ \/ /\ mMsg[p][o] # <<>>
          /\ mCall' = [mCall EXCEPT ![k] = IF Head(mMsg[p][o]) = k THEN "answered" ELSE "confused"]
          /\ mMsg' = [mMsg EXCEPT ![p][o] = Tail(@)]
       \/ /\ mMsg[p][o] = <<>>
          /\ IF o = Global THEN mLoop[p] = "done" ELSE mCh[p][o].shut = "closed"
          /\ mCall' = [mCall EXCEPT ![k] = "failed"]
          /\ UNCHANGED mMsg
    /\ UNCHANGED <<mList, mCh, mWire, mReq, mLoop, mUp, mPlan>>

(* The application serves a request: Request.Reply, ackRequest.             *)
Reply(p, o) ==
    /\ mReq[p][o] # <<>>
    /\ mReq' = [mReq EXCEPT ![p][o] = Tail(@)]
    /\ mWire' = IF o = Global
                THEN Wired(p, [t |-> "greply", tag |-> Head(mReq[p][o]), o |-> o, to |-> 0, my |-> 0])
                ELSE ChanWired(p, o, [t |-> "reply", tag |-> Head(mReq[p][o])])
    /\ UNCHANGED <<mList, mCh, mMsg, mCall, mLoop, mUp, mPlan>>

------------------------------------------------------------------------------
(* mux.loop: one packet at a time.                                          *)

Taken(p) == [mWire EXCEPT ![Peer(p)] = Tail(@)]
InHand(p) == Head(mWire[Peer(p)])
Reading(p) == mLoop[p] = "run" /\ mWire[Peer(p)] # <<>>

HandleChannelOpen(p) ==
    /\ Reading(p) /\ InHand(p).t = "open"
    /\ LET o == InHand(p).o IN
       /\ mList' = [mList EXCEPT ![p] = Added(p, o)]
       /\ mCh' = [mCh EXCEPT ![p][o] = [st |-> "offered", id |-> SlotFor(p) - 1,
                                         remote |-> InHand(p).my, shut |-> "no"]]
    /\ mWire' = Taken(p)
    /\ UNCHANGED <<mReq, mMsg, mCall, mLoop, mUp, mPlan>>

HandleGlobalPacket(p) ==
    /\ Reading(p) /\ InHand(p).t \in {"greq", "greply"}
    /\ IF InHand(p).t = "greq"
       THEN mReq' = [mReq EXCEPT ![p][Global] = Append(@, InHand(p).tag)] /\ UNCHANGED mMsg
       ELSE mMsg' = [mMsg EXCEPT ![p][Global] = Append(@, InHand(p).tag)] /\ UNCHANGED mReq
    /\ mWire' = Taken(p)
    /\ UNCHANGED <<mList, mCh, mCall, mLoop, mUp, mPlan>>

(* responseMessageReceived: only the opener of an undecided channel may get *)
(* an answer to its open.                                                   *)
Undecided(p, o) == Opener[o] = p /\ mCh[p][o].st = "opening"

(* The packet of a channel: handlePacket of the channel with its id, or, if *)
(* there is none, handleUnknownChannelPacket.                               *)
HandlePacket(p) ==
    LET m == InHand(p)  o == GetChan(p, InHand(p).to) IN
    /\ Reading(p) /\ m.t \in {"confirm", "failure", "close", "req", "reply"}
    /\ CASE o = NoOpen /\ m.t = "req" ->
              /\ mWire' = [Wired(p, [t |-> "reply", tag |-> m.tag, o |-> o, to |-> m.to, my |-> 0])
                             EXCEPT ![Peer(p)] = Tail(@)]
              /\ UNCHANGED <<mList, mCh, mReq, mMsg, mLoop>>
         [] \/ o = NoOpen /\ m.t # "req"
            \/ o # NoOpen /\ m.t \in {"confirm", "failure"} /\ ~Undecided(p, o) ->
              /\ mLoop' = [mLoop EXCEPT ![p] = "protocolError"]
              /\ mWire' = Taken(p)
              /\ UNCHANGED <<mList, mCh, mReq, mMsg>>
         [] o # NoOpen /\ m.t = "confirm" /\ Undecided(p, o) ->
              /\ mCh' = [mCh EXCEPT ![p][o].st = "confirmed", ![p][o].remote = m.my]
              /\ mMsg' = [mMsg EXCEPT ![p][o] = Append(@, "confirm")]
              /\ mWire' = Taken(p)
              /\ UNCHANGED <<mList, mReq, mLoop>>
         [] o # NoOpen /\ m.t = "failure" /\ Undecided(p, o) ->
              /\ mList' = Removed(p, m.to)
              /\ mCh' = [mCh EXCEPT ![p][o].st = "refused"]
              /\ mMsg' = [mMsg EXCEPT ![p][o] = Append(@, "failure")]
              /\ mWire' = Taken(p)
              /\ UNCHANGED <<mReq, mLoop>>
         [] o # NoOpen /\ m.t = "close" ->
              /\ mWire' = [ChanWired(p, o, [t |-> "close", tag |-> 0]) EXCEPT ![Peer(p)] = Tail(@)]
              /\ mList' = Removed(p, mCh[p][o].id)
              /\ mCh' = [mCh EXCEPT ![p][o].shut = "closed"]
              /\ UNCHANGED <<mReq, mMsg, mLoop>>
         [] o # NoOpen /\ m.t = "req" ->
              /\ mReq' = [mReq EXCEPT ![p][o] = Append(@, m.tag)]
              /\ mWire' = Taken(p)
              /\ UNCHANGED <<mList, mCh, mMsg, mLoop>>
         [] o # NoOpen /\ m.t = "reply" ->
              /\ mMsg' = [mMsg EXCEPT ![p][o] = Append(@, m.tag)]
              /\ mWire' = Taken(p)
              /\ UNCHANGED <<mList, mCh, mReq, mLoop>>
    /\ UNCHANGED <<mCall, mUp, mPlan>>

(* The transport fails, and what is on the way is lost.                     *)
MuxConnLost ==
    /\ mUp = "up"
    /\ mUp' = "down"
    /\ mWire' = [p \in MuxSides |-> <<>>]
    /\ UNCHANGED <<mList, mCh, mReq, mMsg, mCall, mLoop, mPlan>>

(* Mutant: the channels are dropped from the list and not closed.           *)
MutDropAll(p) == mCh[p]

(* dropAll, and the close of every channel that was in the list.            *)
DropAll(p) ==
    [o \in Opens |-> IF \E i \in 1..Len(mList[p]) : mList[p][i] = o
                     THEN [mCh[p][o] EXCEPT !.shut = "closed"] ELSE mCh[p][o]]

(* The end of loop: every channel in the list is closed and so are the      *)
(* connection's own Go channels.                                            *)
LoopEnds(p) ==
    /\ \/ mLoop[p] = "protocolError"
       \/ mLoop[p] = "run" /\ mUp = "down"
    /\ mCh' = [mCh EXCEPT ![p] = DropAll(p)]
    /\ mList' = [mList EXCEPT ![p] = <<>>]
    /\ mLoop' = [mLoop EXCEPT ![p] = "done"]
    /\ mUp' = "down"
    /\ mWire' = [q \in MuxSides |-> <<>>]
    /\ UNCHANGED <<mReq, mMsg, mCall, mPlan>>

LoopSteps(p) == HandleChannelOpen(p) \/ HandleGlobalPacket(p) \/ HandlePacket(p) \/ LoopEnds(p)
ServeSteps(p) ==
    \/ \E o \in Opens : Accept(p, o) \/ Reject(p, o)
    \/ \E o \in Opens \cup {Global} : Reply(p, o)

MuxNext ==
    \/ \E o \in Opens : OpenChannel(o) \/ OpenReturns(o)
    \/ \E k \in Callers : SendRequest(k) \/ RequestReturns(k)
    \/ \E p \in MuxSides : LoopSteps(p) \/ ServeSteps(p) \/ \E o \in Opens : MuxClose(p, o)
    \/ MuxConnLost

(* Fairness: the loops run, the application serves what it is offered (the  *)
(* Go channel must be serviced), and callers take their answers.            *)
MuxSpec == MuxInit /\ [][MuxNext]_muxVars
MuxFairSpec ==
    /\ MuxSpec
    /\ \A p \in MuxSides : WF_muxVars(LoopSteps(p)) /\ WF_muxVars(ServeSteps(p))
    /\ \A o \in Opens : WF_muxVars(OpenReturns(o))
    /\ \A k \in Callers : WF_muxVars(RequestReturns(k))

------------------------------------------------------------------------------
MuxTypeOK ==
    /\ \A p \in MuxSides : \A i \in 1..Len(mList[p]) : mList[p][i] \in Opens \cup {NoOpen}
    /\ \A p \in MuxSides, o \in Opens :
         /\ mCh[p][o].st \in {"none", "opening", "confirmed", "refused", "offered", "open", "rejected", "failed"}
         /\ mCh[p][o].shut \in {"no", "sent", "closed"}
         /\ mCh[p][o].id \in 0..Cardinality(Opens) /\ mCh[p][o].remote \in 0..Cardinality(Opens)
    /\ \A p \in MuxSides : Len(mMsg[p][Global]) <= 1
    /\ mCall \in [Callers -> {"new", "sent", "answered", "failed", "confused"}]
    /\ mLoop \in [MuxSides -> {"run", "protocolError", "done"}]
    /\ mUp \in {"up", "down"}

(* Ids are reused, and yet no packet can reach a wrong channel: at the id   *)
(* that a packet on the way carries is the other end of its own channel.    *)
MuxRouted ==
    \A p \in MuxSides : mLoop[p] = "run" =>
        \A i \in 1..Len(mWire[Peer(p)]) :
            LET m == mWire[Peer(p)][i] IN
            m.t \in {"confirm", "failure", "close", "req", "reply"} => GetChan(p, m.to) = m.o

(* No request gets the answer to another: requests carry no id, only the    *)
(* mutex and the order of the packets keep them apart.                      *)
MuxReplyMatched == \A k \in Callers : mCall[k] # "confused"

(* A loop ends only with the transport: no peer that runs this code sends   *)
(* an unknown id, or a second answer to an open.                            *)
MuxNoProtocolError ==
    \A p \in MuxSides : mLoop[p] # "protocolError"

(* The list holds no finished channel: a slot is free again once the close  *)
(* or the refusal has come.  (A side that rejects keeps the slot.)          *)
MuxSlotsFreed ==
    \A p \in MuxSides : \A i \in 1..Len(mList[p]) :
        mList[p][i] # NoOpen =>
            LET ch == mCh[p][mList[p][i]] IN
            ch.id = i - 1 /\ ch.shut # "closed" /\ (ch.st \in {"refused", "failed"} => mUp = "down")

(* Ids and answers are never mixed up, however channels come and go.        *)
MuxSound == MuxRouted /\ MuxReplyMatched /\ MuxNoProtocolError /\ MuxSlotsFreed

(* OpenChannel returns: the peer answers or the connection ends.            *)
MuxOpenReturns ==
    []<>(\A o \in Opens : mCh[Opener[o]][o].st # "opening")

(* SendRequest returns: a reply comes, or the close of the channel or of    *)
(* the connection wakes the caller.                                         *)
MuxRequestReturns ==
    []<>(\A k \in Callers : mCall[k] # "sent")

(* Whatever opens, closes, requests and answers cross on the way, ids and   *)
(* answers are never mixed up, and every call that waits for the peer       *)
(* returns.                                                                 *)
MuxReturns == [](MuxTypeOK /\ MuxSound) /\ MuxOpenReturns /\ MuxRequestReturns
=============================================================================
