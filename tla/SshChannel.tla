----------------------------- MODULE SshChannel -----------------------------
(***************************************************************************)
(* One open channel of the SSH connection protocol, in the direction from  *)
(* a writing to a reading side: pkg/crypto/ssh/channel.go, its linked-list *)
(* buffer (buffer.go) and its window (common.go).  Two streams share the   *)
(* window, "out" (code 0) and "err" (an extended code), each with a writer *)
(* and a reader goroutine; each side has the goroutine of mux.loop.        *)
(*                                                                         *)
(* This copy of the library keeps a map of extended buffers that are made  *)
(* on first use; the bytes of a stream are the numbers 1, 2, 3 ...         *)
(***************************************************************************)
EXTENDS Naturals, Sequences, FiniteSets

CONSTANTS
    ChanWindow,   \* channelWindowSize
    ChanPacket,   \* channelMaxPacket
    ChanBytes,    \* bound: bytes written to both streams
    ChanReads,    \* sizes of the readers' slices
    ChanModulus   \* 2^32: windows are uint32

ASSUME ChanConstants ==
    /\ {ChanWindow, ChanPacket, ChanModulus} \subseteq Nat \ {0}
    /\ ChanBytes \in Nat /\ ChanReads \subseteq Nat \ {0}
    /\ ChanWindow < ChanModulus

VARIABLES
    cWire,    \* packets from the writing to the reading side
    cBack,    \* packets from the reading to the writing side
    cWin,     \* remoteWin.win of the writing side
    cWinShut, \* remoteWin.closed
    cMyWin,   \* myWindow of the reading side
    cWriter,  \* stream -> where its WriteExtended is
    cLeft,    \* stream -> bytes this call has not sent
    cSpace,   \* stream -> bytes reserved and not sent
    cSent,    \* stream -> bytes handed to the transport
    cEOF,     \* sentEOF of the writing side
    cMark,    \* stream -> cSent when the first EOF or close was sent
    cClosed,  \* side -> sentClose
    cBuf,     \* stream -> bytes in its buffer
    cBufSt,   \* stream -> whether its buffer exists, or is closed
    cReader,  \* stream -> where its ReadExtended is
    cGot,     \* stream -> bytes taken out of the buffer, not yet credited
    cRead,    \* stream -> everything its reader has read
    cLoop,    \* side -> its mux.loop
    cConn     \* the transport

cSendVars == <<cWin, cWinShut, cWriter, cLeft, cSpace, cSent, cEOF, cMark>>
cRecvVars == <<cMyWin, cBuf, cBufSt, cReader, cGot, cRead>>
chanVars == <<cWire, cBack, cSendVars, cClosed, cRecvVars, cLoop, cConn>>

ChanStreams == {"out", "err"}
ChanSides == {"writer", "reader"}
Unmarked == ChanBytes + 1   \* cMark before an EOF or a close

(* newChannel, after the open has been confirmed on both sides.             *)
ChanInit ==
    /\ cWire = <<>> /\ cBack = <<>>
    /\ cWin = ChanWindow /\ cWinShut = "no" /\ cMyWin = ChanWindow
    /\ cWriter = [s \in ChanStreams |-> "idle"]
    /\ cLeft = [s \in ChanStreams |-> 0] /\ cSpace = [s \in ChanStreams |-> 0]
    /\ cSent = [s \in ChanStreams |-> 0]
    /\ cEOF = "no" /\ cMark = [s \in ChanStreams |-> Unmarked]
    /\ cClosed = [p \in ChanSides |-> "no"]
    /\ cBuf = [s \in ChanStreams |-> <<>>]
    /\ cBufSt = [s \in ChanStreams |-> IF s = "out" THEN "open" ELSE "none"]
    /\ cReader = [s \in ChanStreams |-> IF s = "out" THEN "read" ELSE "idle"]
    /\ cGot = [s \in ChanStreams |-> 0]
    /\ cRead = [s \in ChanStreams |-> <<>>]
    /\ cLoop = [p \in ChanSides |-> "run"]
    /\ cConn = "up"

SumOver(f) == f["out"] + f["err"]
LeastOf(S) == CHOOSE x \in S : \A y \in S : x <= y

(* Whether channel.writePacket of a side reaches the transport.             *)
CanSend(p) == cClosed[p] = "no" /\ cConn = "up"

(* What is on the way from side p after it sends m; packets to a side whose *)
(* loop has ended are not kept.                                             *)
Put(p, m) ==
    LET way == IF p = "writer" THEN cWire ELSE cBack IN
    IF CanSend(p) /\ \A q \in ChanSides \ {p} : cLoop[q] # "done" THEN Append(way, m) ELSE way

(* window.add: a sum that wraps around is refused.                          *)
WindowAdds(win, n) == n = 0 \/ (win + n) % ChanModulus >= n

Marked == [s \in ChanStreams |-> IF cMark[s] = Unmarked THEN cSent[s] ELSE cMark[s]]

------------------------------------------------------------------------------
(* The writing side.                                                        *)

WriteFails(s) ==
    /\ cWriter' = [cWriter EXCEPT ![s] = "failed"]
    /\ cLeft' = [cLeft EXCEPT ![s] = 0]

(* WriteExtended begins: it looks at sentEOF once.                          *)
ChanWrite(s, n) ==
    /\ cWriter[s] = "idle" /\ SumOver(cSent) + SumOver(cLeft) + n <= ChanBytes
    /\ IF cEOF = "yes"
       THEN WriteFails(s)
       ELSE /\ cWriter' = [cWriter EXCEPT ![s] = "reserve"]
            /\ cLeft' = [cLeft EXCEPT ![s] = n]
    /\ UNCHANGED <<cWire, cBack, cWin, cWinShut, cSpace, cSent, cEOF, cMark, cClosed,
                   cRecvVars, cLoop, cConn>>

(* window.reserve: it waits for window, takes what there is, and fails if   *)
(* the window has been closed.                                              *)
ChanReserve(s) ==
    /\ cWriter[s] = "reserve"
    /\ cWin > 0 \/ cWinShut = "yes"
    /\ LET space == LeastOf({ChanPacket, cLeft[s], cWin}) IN
       /\ cWin' = cWin - space
       /\ IF cWinShut = "yes"
          THEN WriteFails(s) /\ UNCHANGED cSpace
          ELSE /\ cWriter' = [cWriter EXCEPT ![s] = "send"]
               /\ cSpace' = [cSpace EXCEPT ![s] = space]
               /\ UNCHANGED cLeft
    /\ UNCHANGED <<cWire, cBack, cWinShut, cSent, cEOF, cMark, cClosed,
                   cRecvVars, cLoop, cConn>>

(* The rest of the loop of WriteExtended: writePacket of the reserved part. *)
ChanSendData(s) ==
    /\ cWriter[s] = "send"
    /\ IF CanSend("writer")
       THEN /\ cWire' = Put("writer", [t |-> "data", s |-> s, from |-> cSent[s], n |-> cSpace[s]])
            /\ cSent' = [cSent EXCEPT ![s] = @ + cSpace[s]]
            /\ cLeft' = [cLeft EXCEPT ![s] = @ - cSpace[s]]
            /\ cWriter' = [cWriter EXCEPT ![s] = IF cLeft'[s] = 0 THEN "idle" ELSE "reserve"]
       ELSE WriteFails(s) /\ UNCHANGED <<cWire, cSent>>
    /\ cSpace' = [cSpace EXCEPT ![s] = 0]
    /\ UNCHANGED <<cBack, cWin, cWinShut, cEOF, cMark, cClosed, cRecvVars, cLoop, cConn>>

ChanCloseWrite ==
    /\ cEOF = "no"
    /\ cEOF' = "yes"
    /\ cWire' = Put("writer", [t |-> "eof"])
    /\ cMark' = IF CanSend("writer") THEN Marked ELSE cMark
    /\ UNCHANGED <<cBack, cWin, cWinShut, cWriter, cLeft, cSpace, cSent, cClosed,
                   cRecvVars, cLoop, cConn>>

(* writePacket sets sentClose even if the transport then fails.             *)
ChanClose(p) ==
    /\ cClosed[p] = "no"
    /\ cClosed' = [cClosed EXCEPT ![p] = "yes"]
    /\ IF p = "writer"
       THEN /\ cWire' = Put(p, [t |-> "close"])
            /\ cMark' = IF CanSend(p) THEN Marked ELSE cMark
            /\ UNCHANGED cBack
       ELSE cBack' = Put(p, [t |-> "close"]) /\ UNCHANGED <<cWire, cMark>>
    /\ UNCHANGED <<cWin, cWinShut, cWriter, cLeft, cSpace, cSent, cEOF, cRecvVars, cLoop, cConn>>

------------------------------------------------------------------------------
(* The reading side.                                                        *)

(* ReadExtended begins; extBuffer makes the buffer of a code that has none, *)
(* and a buffer made now is open.                                           *)
ChanReadStart ==
    /\ cReader["err"] = "idle"
    /\ cReader' = [cReader EXCEPT !["err"] = "read"]
    /\ cBufSt' = [cBufSt EXCEPT !["err"] = IF @ = "none" THEN "open" ELSE @]
    /\ UNCHANGED <<cWire, cBack, cSendVars, cClosed, cMyWin, cBuf, cGot, cRead, cLoop, cConn>>

(* Mutant: the end of the stream is reported before the buffered bytes.     *)
MutAtEnd(s) == cBufSt[s] = "closed"

AtEnd(s) == cBuf[s] = <<>> /\ cBufSt[s] = "closed"

(* Mutant: adjustWindow only tells the peer.                                *)
MutCredited(n) == cMyWin

(* adjustWindow: the own account grows before the peer is told.             *)
Credited(n) == cMyWin + n

(* buffer.Read, over as many elements as it takes to fill the caller's m    *)
(* bytes; it reports the end only when nothing is buffered.  adjustWindow   *)
(* then first lets the own window grow.                                     *)
ChanRead(s, m) ==
    /\ cReader[s] = "read"
    /\ \/ /\ cBuf[s] # <<>>
          /\ LET n == LeastOf({m, Len(cBuf[s])}) IN
             /\ cRead' = [cRead EXCEPT ![s] = @ \o SubSeq(cBuf[s], 1, n)]
             /\ cBuf' = [cBuf EXCEPT ![s] = SubSeq(@, n + 1, Len(@))]
             /\ cGot' = [cGot EXCEPT ![s] = n]
             /\ cMyWin' = Credited(n)
             /\ cReader' = [cReader EXCEPT ![s] = "adjust"]
       \/ /\ AtEnd(s)
          /\ cReader' = [cReader EXCEPT ![s] = "eof"]
          /\ UNCHANGED <<cRead, cBuf, cGot, cMyWin>>
    /\ UNCHANGED <<cWire, cBack, cSendVars, cClosed, cBufSt, cLoop, cConn>>

(* ... and then tells the peer; a failed send does not fail the Read.  The  *)
(* reader reads again at once.                                              *)
ChanAdjust(s) ==
    /\ cReader[s] = "adjust"
    /\ cBack' = Put("reader", [t |-> "adjust", n |-> cGot[s]])
    /\ cGot' = [cGot EXCEPT ![s] = 0]
    /\ cReader' = [cReader EXCEPT ![s] = "read"]
    /\ UNCHANGED <<cWire, cSendVars, cClosed, cMyWin, cBuf, cBufSt, cRead, cLoop, cConn>>

------------------------------------------------------------------------------
(* The loops of the two muxes.                                              *)

(* Every buffer that exists gets its eof.                                   *)
ShutBuffers == [s \in ChanStreams |-> IF cBufSt[s] = "none" THEN "none" ELSE "closed"]

(* channel.close: the buffers and the window are closed and nothing is sent *)
(* any more.  The loop handles no more packets for the channel.             *)
ReaderShuts ==
    /\ cClosed' = [cClosed EXCEPT !["reader"] = "yes"]
    /\ cBufSt' = ShutBuffers
    /\ cLoop' = [cLoop EXCEPT !["reader"] = "done"]
    /\ cWire' = <<>>
    /\ UNCHANGED <<cMyWin, cBuf, cReader, cGot, cRead>>

(* Mutant: channel.close does not close the window.                         *)
MutWriterShuts ==
    /\ cClosed' = [cClosed EXCEPT !["writer"] = "yes"]
    /\ cWinShut' = cWinShut
    /\ cLoop' = [cLoop EXCEPT !["writer"] = "done"]
    /\ cBack' = <<>>

WriterShuts ==
    /\ cClosed' = [cClosed EXCEPT !["writer"] = "yes"]
    /\ cWinShut' = "yes"
    /\ cLoop' = [cLoop EXCEPT !["writer"] = "done"]
    /\ cBack' = <<>>

(* handleData: the length and the window are tested, then the data is       *)
(* written to its buffer, which is made if need be.                         *)
HandleData(m) ==
    IF m.n > ChanPacket \/ cMyWin < m.n
    THEN cLoop' = [cLoop EXCEPT !["reader"] = "protocolError"] /\ UNCHANGED cRecvVars
    ELSE /\ cMyWin' = cMyWin - m.n
         /\ cBuf' = [cBuf EXCEPT ![m.s] = @ \o [i \in 1..m.n |-> m.from + i]]
         /\ cBufSt' = [cBufSt EXCEPT ![m.s] = IF @ = "none" THEN "open" ELSE @]
         /\ UNCHANGED <<cReader, cGot, cRead, cLoop>>

(* handlePacket on the reading side.  A close is answered with a close and  *)
(* is the end of the channel, channel.close.                                *)
ReaderHandles ==
    /\ cLoop["reader"] = "run" /\ cWire # <<>>
    /\ LET m == Head(cWire) IN
       CASE m.t = "data" -> HandleData(m) /\ cWire' = Tail(cWire) /\ UNCHANGED <<cBack, cClosed>>
         [] m.t = "eof" -> /\ cBufSt' = ShutBuffers
                           /\ cWire' = Tail(cWire)
                           /\ UNCHANGED <<cBack, cClosed, cMyWin, cBuf, cReader, cGot, cRead, cLoop>>
         [] OTHER -> /\ cBack' = Put("reader", [t |-> "close"])
                     /\ ReaderShuts
    /\ UNCHANGED <<cSendVars, cConn>>

(* handlePacket on the writing side: a window adjustment or a close.        *)
WriterHandles ==
    /\ cLoop["writer"] = "run" /\ cBack # <<>>
    /\ LET m == Head(cBack) IN
       CASE m.t = "adjust" ->
              /\ IF WindowAdds(cWin, m.n)
                 THEN cWin' = (cWin + m.n) % ChanModulus /\ UNCHANGED cLoop
                 ELSE cLoop' = [cLoop EXCEPT !["writer"] = "protocolError"] /\ UNCHANGED cWin
              /\ cBack' = Tail(cBack)
              /\ UNCHANGED <<cWire, cMark, cClosed, cWinShut>>
         [] OTHER ->
              /\ cWire' = Put("writer", [t |-> "close"])
              /\ cMark' = IF CanSend("writer") THEN Marked ELSE cMark
              /\ WriterShuts
              /\ UNCHANGED cWin
    /\ UNCHANGED <<cWriter, cLeft, cSpace, cSent, cEOF, cRecvVars, cConn>>

(* mux.loop has met an error, of the transport or of the protocol: it drops *)
(* the channel and closes it.                                               *)
LoopFails(p) ==
    /\ cLoop[p] = "protocolError" \/ (cLoop[p] = "run" /\ cConn = "down")
    /\ IF p = "reader"
       THEN ReaderShuts /\ UNCHANGED <<cBack, cSendVars>>
       ELSE WriterShuts /\ UNCHANGED <<cWire, cWin, cWriter, cLeft, cSpace, cSent, cEOF, cMark, cRecvVars>>
    /\ UNCHANGED cConn

(* The transport fails, and what is on the way is lost.                     *)
ChanConnLost ==
    /\ cConn = "up"
    /\ cConn' = "down"
    /\ cWire' = <<>> /\ cBack' = <<>>
    /\ UNCHANGED <<cSendVars, cClosed, cRecvVars, cLoop>>

(* Everything is over: both loops have closed the channel.                  *)
ChanOver == \A p \in ChanSides : cLoop[p] = "done"

ChanNext ==
    \/ \E s \in ChanStreams : \/ \E n \in 1..ChanBytes : ChanWrite(s, n)
                              \/ ChanReserve(s)
                              \/ ChanSendData(s)
                              \/ \E m \in ChanReads : ChanRead(s, m)
                              \/ ChanAdjust(s)
    \/ ChanReadStart
    \/ ChanCloseWrite
    \/ \E p \in ChanSides : ChanClose(p) \/ LoopFails(p)
    \/ ReaderHandles
    \/ WriterHandles
    \/ ChanConnLost

------------------------------------------------------------------------------
(* Fairness: a goroutine that can go on does, the readers read until the    *)
(* end, and nobody has to write, to close or to lose the connection.        *)
ChanWriterSteps(s) == ChanReserve(s) \/ ChanSendData(s)
ChanReaderSteps(s) ==
    \/ s = "err" /\ ChanReadStart
    \/ ChanAdjust(s)
    \/ \E m \in ChanReads : ChanRead(s, m)
ChanLoopSteps(p) == LoopFails(p) \/ IF p = "reader" THEN ReaderHandles ELSE WriterHandles

ChanSpec == ChanInit /\ [][ChanNext]_chanVars
ChanFairSpec ==
    /\ ChanSpec
    /\ \A s \in ChanStreams : WF_chanVars(ChanWriterSteps(s)) /\ WF_chanVars(ChanReaderSteps(s))
    /\ \A p \in ChanSides : WF_chanVars(ChanLoopSteps(p))

------------------------------------------------------------------------------
ChanTypeOK ==
    /\ cWin \in 0..ChanWindow /\ cMyWin \in 0..ChanWindow
    /\ cWinShut \in {"no", "yes"} /\ cEOF \in {"no", "yes"} /\ cConn \in {"up", "down"}
    /\ cWriter \in [ChanStreams -> {"idle", "reserve", "send", "failed"}]
    /\ {cLeft, cSpace, cSent} \subseteq [ChanStreams -> 0..ChanBytes]
    /\ cMark \in [ChanStreams -> 0..Unmarked]
    /\ cClosed \in [ChanSides -> {"no", "yes"}]
    /\ {cBuf, cRead} \subseteq [ChanStreams -> Seq(1..ChanBytes)]
    /\ cBufSt \in [ChanStreams -> {"none", "open", "closed"}] /\ cBufSt["out"] # "none"
    /\ cReader \in [ChanStreams -> {"idle", "read", "adjust", "eof"}]
    /\ cGot \in [ChanStreams -> 0..ChanWindow]
    /\ cLoop \in [ChanSides -> {"run", "protocolError", "done"}]

TotalOf(v) == LET sum[i \in 0..Len(v)] == IF i = 0 THEN 0 ELSE sum[i - 1] + v[i] IN sum[Len(v)]
Credits(q) == [i \in 1..Len(q) |-> IF q[i].t = "adjust" THEN q[i].n ELSE 0]
AdjustsOnWay == TotalOf(Credits(cBack))

(* No byte of window is lost or made up: until a side closes, what the      *)
(* writer may still send, has reserved, has sent and the reader has not     *)
(* read, or has read and not yet given back, is the window of the channel,  *)
(* and the reader's own account never promises less than that.              *)
ChanConserved ==
    (cConn = "up" /\ \A p \in ChanSides : cClosed[p] = "no") =>
        /\ cWin + SumOver(cSpace) + SumOver(cSent) + SumOver(cGot) + AdjustsOnWay
             = ChanWindow + Len(cRead["out"]) + Len(cRead["err"])
        /\ cMyWin >= cWin + SumOver(cSpace) + AdjustsOnWay

(* Two sides that run this code never break the connection with "remote     *)
(* side wrote too much" or "invalid window update", whatever their readers, *)
(* writers and loops do in between.                                         *)
ChanNoProtocolError == \A p \in ChanSides : cLoop[p] # "protocolError"

(* Windows and loops of the two sides agree in every state.                 *)
ChanReliable == ChanTypeOK /\ ChanConserved /\ ChanNoProtocolError

(* The streams of the channel as its users see them.                        *)
Stream == INSTANCE SshStream WITH
    Streams <- ChanStreams, NoMark <- Unmarked, Most <- ChanBytes,
    sent <- cSent, mark <- cMark, got <- cRead,
    ended <- {s \in ChanStreams : cReader[s] = "eof"}, line <- cConn

(* The channel implements reliable streams: with windows, packets, buffers  *)
(* that are made late, two loops and closes that cross, a stream still      *)
(* arrives in order, without gaps and without repetitions, and a Read       *)
(* reports the end only after everything sent before the EOF or the close.  *)
ChanIsStream == Stream!StreamSpec

ChanEnding == cConn = "down" \/ \E p \in ChanSides : cClosed[p] = "yes"

(* A Write that waits for window ends: the reader gives the window back,    *)
(* unless the side has meanwhile declared its data to be complete.          *)
ChanWriteEnds ==
    []<>(cEOF = "yes" \/ \A s \in ChanStreams : cWriter[s] \in {"idle", "failed"})

(* A close by either side, or a lost connection, ends every Write.          *)
ChanCloseEndsWrites ==
    []<>(ChanEnding => \A s \in ChanStreams : cWriter[s] \in {"idle", "failed"})

(* The reader of the data stream gets to its end after an EOF, a close by   *)
(* either side or a lost connection.                                        *)
ChanReadEnds == []<>(ChanEnding \/ cEOF = "yes" => cReader["out"] = "eof")

(* Nobody waits for ever on a channel, but for readers of extended streams. *)
ChanEnds == ChanWriteEnds /\ ChanCloseEndsWrites /\ ChanReadEnds
=============================================================================
