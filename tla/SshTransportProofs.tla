------------------------- MODULE SshTransportProofs -------------------------
(***************************************************************************)
(* The transport of the SSH library: every packet cipher reads back what   *)
(* it writes, for payloads of any length up to the limit, the key          *)
(* exchanges of the two sides stay in step under traffic, and messages in  *)
(* the wire format are read back as they were sent.                        *)
(***************************************************************************)
EXTENDS SshCipher, SshHandshake, SshWire, InductionLemmas, SequenceTheorems

------------------------------------------------------------------------------
(* The frames.                                                              *)

Aligned(f) ==
    CASE yMode \in {"stream", "cbc16"} -> (f.len + 4) % 16 = 0
      [] yMode \in {"etm", "gcm"} -> f.len % 16 = 0
      [] yMode = "cbc8" -> (f.len + 4) % 8 = 0
      [] yMode = "chacha" -> f.len % 8 = 0

(* What a frame must be: the payload, a byte for the length of the padding  *)
(* and the padding; aligned, accepted, and as long as its reader takes it.  *)
GoodFrame(f, n) ==
    /\ f.len \in Nat /\ f.pad \in 4..255 /\ f.len = n + 1 + f.pad
    /\ Aligned(f) /\ Accepts(f)

LEMMA Pad16 ==
    ASSUME NEW m \in Nat
    PROVE  /\ UpTo4(16 - (m % 16), 16) \in 4..19
           /\ (m + UpTo4(16 - (m % 16), 16)) % 16 = 0
BY DEF UpTo4

LEMMA Pad8 ==
    ASSUME NEW m \in Nat
    PROVE  /\ UpTo4(8 - (m % 8), 8) \in 4..11
           /\ (m + UpTo4(8 - (m % 8), 8)) % 8 = 0
BY DEF UpTo4

LEMMA CbcUnits ==
    ASSUME NEW n \in Nat \ {0}
    PROVE  /\ MaxUInt32(8, 8) = 8 /\ MaxUInt32(8, 16) = 16 /\ MaxUInt32(16, 8) = 16 /\ MaxUInt32(16, 16) = 16
           /\ MaxUInt32(5 + n + 4, 4) = n + 9
BY DEF MaxUInt32

(* Every reader takes four bytes more than the length it reads.             *)
LEMMA Taken ==
    ASSUME NEW len \in Nat, yMode \in CipherModes
    PROVE  CipherTaken(len) = 4 + len
<1>1. CASE yMode \in {"stream", "etm"}
  BY <1>1 DEF CipherTaken
<1>2. CASE yMode \in {"cbc8", "cbc16", "gcm", "chacha"}
  BY <1>2 DEF CipherTaken
<1> QED BY <1>1, <1>2 DEF CipherModes

(* Every writer makes a good frame of every payload.                        *)
LEMMA Frames ==
    ASSUME NEW n \in CipherPayloads, yMode \in CipherModes
    PROVE  /\ GoodFrame(Frame(n), n)
           /\ Frame(n).size \in Nat /\ Frame(n).size = 4 + Frame(n).len
<1>1. n \in Nat \ {0} /\ n + 32 <= CipherMaxPacket /\ CipherMaxPacket \in Nat
  BY CipherConstants
<1>2. CASE yMode = "stream"
  <2>1. PICK p : p = UpTo4(16 - ((5 + n) % 16), 16)
    OBVIOUS
  <2>2. p \in 4..19 /\ (5 + n + p) % 16 = 0
    BY <1>1, <2>1, Pad16
  <2>3. Frame(n) = [len |-> n + 1 + p, pad |-> p, size |-> 5 + n + p]
    <3>1. 5 + n - 0 = 5 + n
      BY <1>1
    <3> QED BY <1>2, <2>1, <3>1 DEF Frame, StreamFrame
  <2>4. (n + 1 + p + 4) % 16 = 0
    BY <1>1, <2>2
  <2>5. PICK f : f = Frame(n)
    OBVIOUS
  <2>6. f.len = n + 1 + p /\ f.pad = p /\ f.size = 5 + n + p
    BY <2>3, <2>5
  <2>7. Aligned(f)
    BY <1>2, <2>4, <2>6 DEF Aligned
  <2>8. Accepts(f)
    <3>1. StreamAccepts(f.len, f.pad)
      BY <1>1, <2>2, <2>6 DEF StreamAccepts
    <3> QED BY <1>2, <3>1 DEF Accepts
  <2>9. f.size = 4 + f.len
    BY <1>1, <2>2, <2>6
  <2>10. f.len \in Nat /\ f.size \in Nat /\ f.pad \in 4..255 /\ f.len = n + 1 + f.pad
    BY <1>1, <2>2, <2>6
  <2> QED BY <2>5, <2>7, <2>8, <2>9, <2>10 DEF GoodFrame
<1>3. CASE yMode = "etm"
  <2>1. PICK p : p = UpTo4(16 - ((1 + n) % 16), 16)
    OBVIOUS
  <2>2. p \in 4..19 /\ (1 + n + p) % 16 = 0
    BY <1>1, <2>1, Pad16
  <2>3. Frame(n) = [len |-> n + 1 + p, pad |-> p, size |-> 5 + n + p]
    <3>1. 5 + n - 4 = 1 + n
      BY <1>1
    <3> QED BY <1>3, <2>1, <3>1 DEF Frame, StreamFrame
  <2>4. (n + 1 + p) % 16 = 0
    BY <1>1, <2>2
  <2>5. PICK f : f = Frame(n)
    OBVIOUS
  <2>6. f.len = n + 1 + p /\ f.pad = p /\ f.size = 5 + n + p
    BY <2>3, <2>5
  <2>7. Aligned(f)
    BY <1>3, <2>4, <2>6 DEF Aligned
  <2>8. Accepts(f)
    <3>1. StreamAccepts(f.len, f.pad)
      BY <1>1, <2>2, <2>6 DEF StreamAccepts
    <3> QED BY <1>3, <3>1 DEF Accepts
  <2>9. f.size = 4 + f.len
    BY <1>1, <2>2, <2>6
  <2>10. f.len \in Nat /\ f.size \in Nat /\ f.pad \in 4..255 /\ f.len = n + 1 + f.pad
    BY <1>1, <2>2, <2>6
  <2> QED BY <2>5, <2>7, <2>8, <2>9, <2>10 DEF GoodFrame
<1>4. CASE yMode = "gcm"
  <2>1. PICK p : p = UpTo4(16 - ((1 + n) % 16), 16)
    OBVIOUS
  <2>2. p \in 4..19 /\ (1 + n + p) % 16 = 0
    BY <1>1, <2>1, Pad16
  <2>3. Frame(n) = [len |-> n + p + 1, pad |-> p, size |-> 4 + n + p + 1]
    BY <1>4, <2>1 DEF Frame, GcmFrame
  <2>4. (n + p + 1) % 16 = 0
    BY <1>1, <2>2
  <2>5. PICK f : f = Frame(n)
    OBVIOUS
  <2>6. f.len = n + p + 1 /\ f.pad = p /\ f.size = 4 + n + p + 1
    BY <2>3, <2>5
  <2>7. Aligned(f)
    BY <1>4, <2>4, <2>6 DEF Aligned
  <2>8. Accepts(f)
    <3>1. GcmAccepts(f.len, f.pad)
      BY <1>1, <2>2, <2>6 DEF GcmAccepts
    <3> QED BY <1>4, <3>1 DEF Accepts
  <2>9. f.size = 4 + f.len
    BY <1>1, <2>2, <2>6
  <2>10. f.len \in Nat /\ f.size \in Nat /\ f.pad \in 4..255 /\ f.len = n + 1 + f.pad
    BY <1>1, <2>2, <2>6
  <2> QED BY <2>5, <2>7, <2>8, <2>9, <2>10 DEF GoodFrame
<1>5. CASE yMode = "chacha"
  <2>1. PICK p : p = UpTo4(8 - ((1 + n) % 8), 8)
    OBVIOUS
  <2>2. p \in 4..11 /\ (1 + n + p) % 8 = 0
    BY <1>1, <2>1, Pad8
  <2>3. Frame(n) = [len |-> 1 + n + p, pad |-> p, size |-> 4 + 1 + n + p]
    BY <1>5, <2>1 DEF Frame, Chacha20Frame
  <2>5. PICK f : f = Frame(n)
    OBVIOUS
  <2>6. f.len = 1 + n + p /\ f.pad = p /\ f.size = 4 + 1 + n + p
    BY <2>3, <2>5
  <2>7. Aligned(f)
    BY <1>5, <2>2, <2>6 DEF Aligned
  <2>8. Accepts(f)
    <3>1. Chacha20Accepts(f.len, f.pad)
      BY <1>1, <2>2, <2>6 DEF Chacha20Accepts
    <3> QED BY <1>5, <3>1 DEF Accepts
  <2>9. f.size = 4 + f.len
    BY <1>1, <2>2, <2>6
  <2>10. f.len \in Nat /\ f.size \in Nat /\ f.pad \in 4..255 /\ f.len = n + 1 + f.pad
    BY <1>1, <2>2, <2>6
  <2> QED BY <2>5, <2>7, <2>8, <2>9, <2>10 DEF GoodFrame
<1>6. CASE yMode = "cbc8"
  <2>1. PICK e : e = ((n + 9 + 8 - 1) \div 8) * 8
    OBVIOUS
  <2>2. e \in (n + 9)..(n + 16) /\ e % 8 = 0 /\ e >= 16
    BY <1>1, <2>1
  <2>3. Frame(n) = [len |-> e - 4, pad |-> e - 4 - (1 + n), size |-> e]
    BY <1>1, <1>6, <2>1, CbcUnits DEF Frame, CbcFrame
  <2>4. e - 4 \in Nat /\ e - 4 + 4 = e /\ e - 4 - (1 + n) \in 4..255
    BY <1>1, <2>2
  <2>5. PICK f : f = Frame(n)
    OBVIOUS
  <2>6. f.len = e - 4 /\ f.pad = e - 4 - (1 + n) /\ f.size = e
    BY <2>3, <2>5
  <2>7. Aligned(f)
    BY <1>6, <2>2, <2>4, <2>6 DEF Aligned
  <2>8. Accepts(f)
    <3>1. CbcAccepts(f.len, f.pad, 8)
      BY <1>1, <2>2, <2>6, <2>4, CbcUnits DEF CbcAccepts
    <3> QED BY <1>6, <3>1 DEF Accepts
  <2>9. f.size = 4 + f.len
    BY <1>1, <2>2, <2>6
  <2>10. f.len \in Nat /\ f.size \in Nat /\ f.pad \in 4..255 /\ f.len = n + 1 + f.pad
    BY <1>1, <2>2, <2>6, <2>4
  <2> QED BY <2>5, <2>7, <2>8, <2>9, <2>10 DEF GoodFrame
<1>7. CASE yMode = "cbc16"
  <2>1. PICK e : e = ((n + 9 + 16 - 1) \div 16) * 16
    OBVIOUS
  <2>2. e \in (n + 9)..(n + 24) /\ e % 16 = 0 /\ e >= 16
    BY <1>1, <2>1
  <2>3. Frame(n) = [len |-> e - 4, pad |-> e - 4 - (1 + n), size |-> e]
    BY <1>1, <1>7, <2>1, CbcUnits DEF Frame, CbcFrame
  <2>4. e - 4 \in Nat /\ e - 4 + 4 = e /\ e - 4 - (1 + n) \in 4..255
    BY <1>1, <2>2
  <2>5. PICK f : f = Frame(n)
    OBVIOUS
  <2>6. f.len = e - 4 /\ f.pad = e - 4 - (1 + n) /\ f.size = e
    BY <2>3, <2>5
  <2>7. Aligned(f)
    BY <1>7, <2>2, <2>4, <2>6 DEF Aligned
  <2>8. Accepts(f)
    <3>1. CbcAccepts(f.len, f.pad, 16)
      BY <1>1, <2>2, <2>6, <2>4, CbcUnits DEF CbcAccepts
    <3> QED BY <1>7, <3>1 DEF Accepts
  <2>9. f.size = 4 + f.len
    BY <1>1, <2>2, <2>6
  <2>10. f.len \in Nat /\ f.size \in Nat /\ f.pad \in 4..255 /\ f.len = n + 1 + f.pad
    BY <1>1, <2>2, <2>6, <2>4
  <2> QED BY <2>5, <2>7, <2>8, <2>9, <2>10 DEF GoodFrame
<1> QED BY <1>2, <1>3, <1>4, <1>5, <1>6, <1>7 DEF CipherModes

------------------------------------------------------------------------------
(* The inductive invariant.                                                 *)

CipherPackets == [len : Nat, pad : Nat, at : Nat, seal : Nat]

CipherShape ==
    /\ yMode \in CipherModes /\ yWire \in Seq(CipherPackets)
    /\ yPos \in Nat /\ yEnd \in Nat /\ yWSeq \in Nat /\ yRSeq \in Nat /\ yWIv \in Nat /\ yRIv \in Nat
    /\ yDone \in Seq(CipherPayloads) /\ yGot \in Seq(CipherPayloads) /\ yErr = "no"

(* The place and the number of the packet i on the wire q, for a reader at  *)
(* the place p with the number k; the writer is where the packet after the  *)
(* last would be.                                                           *)
NumberAfter(mode, k) == IF mode = "gcm" THEN k + 1 ELSE (k + 1) % CipherSeqMod
PlaceOf(q, p, i) == IF i = 1 THEN p ELSE q[i - 1].at + (4 + q[i - 1].len)
NumberOf(mode, q, k, i) == IF i = 1 THEN k ELSE NumberAfter(mode, q[i - 1].seal)
ReaderNumber == IF yMode = "gcm" THEN yRIv ELSE yRSeq
WriterNumber == IF yMode = "gcm" THEN yWIv ELSE yWSeq
InStep ==
    /\ \A i \in 1..Len(yWire) : yWire[i].at = PlaceOf(yWire, yPos, i) /\ yWire[i].seal = NumberOf(yMode, yWire, ReaderNumber, i)
    /\ yEnd = PlaceOf(yWire, yPos, Len(yWire) + 1)
    /\ WriterNumber = NumberOf(yMode, yWire, ReaderNumber, Len(yWire) + 1)

(* What was written was read or is on the wire, in its order.               *)
InOrder ==
    /\ Len(yGot) + Len(yWire) = Len(yDone)
    /\ \A i \in 1..Len(yGot) : yGot[i] = yDone[i]
    /\ \A i \in 1..Len(yWire) : GoodFrame(yWire[i], yDone[Len(yGot) + i])

CipherInv == CipherShape /\ InStep /\ InOrder

(* What the steps need from the sequence operators.                         *)
LEMMA AppendFacts ==
    ASSUME NEW S, NEW q \in Seq(S), NEW e \in S
    PROVE  /\ Append(q, e) \in Seq(S) /\ Len(q) \in Nat /\ Len(Append(q, e)) = Len(q) + 1
           /\ Append(q, e)[Len(q) + 1] = e
           /\ \A i \in 1..Len(q) : Append(q, e)[i] = q[i]
OBVIOUS

LEMMA TailFacts ==
    ASSUME NEW S, NEW q \in Seq(S), q # <<>>
    PROVE  /\ Head(q) \in S /\ Head(q) = q[1] /\ Tail(q) \in Seq(S) /\ Len(q) \in Nat \ {0}
           /\ Len(Tail(q)) = Len(q) - 1
           /\ \A i \in 1..(Len(q) - 1) : Tail(q)[i] = q[i + 1]
OBVIOUS

(* CipherInv holds when both ends have their keys.                          *)
LEMMA CipherInitInv == CipherInit => CipherInv
<1>1. SUFFICES ASSUME CipherInit PROVE CipherInv
  OBVIOUS
<1>2. CipherShape
  BY <1>1, CipherConstants DEF CipherInit, CipherShape
<1>3. Len(yWire) = 0 /\ Len(yGot) = 0 /\ Len(yDone) = 0
  BY <1>1 DEF CipherInit
<1>4. InStep /\ InOrder
  BY <1>1, <1>3 DEF CipherInit, InStep, InOrder, PlaceOf, NumberOf, ReaderNumber, WriterNumber
<1> QED BY <1>2, <1>4 DEF CipherInv

(* writePacket: the frame is good and takes the writer's place and number.  *)
LEMMA WriteStep == ASSUME CipherInv, NEW n \in CipherPayloads, CipherWrite(n) PROVE CipherInv'
<1>1. CipherShape /\ InStep /\ InOrder
  BY DEF CipherInv
<1>2. PICK f : f = Frame(n)
  OBVIOUS
<1>3. GoodFrame(f, n) /\ f.size \in Nat /\ f.size = 4 + f.len
  BY <1>1, <1>2, Frames DEF CipherShape
<1>4. PICK m : m = [len |-> f.len, pad |-> f.pad, at |-> yEnd, seal |-> WriterNumber]
  OBVIOUS
<1>5. /\ yWire' = Append(yWire, m) /\ yEnd' = yEnd + f.size /\ yWSeq' = (yWSeq + 1) % CipherSeqMod
      /\ yWIv' = (IF yMode = "gcm" THEN yWIv + 1 ELSE yWIv) /\ yDone' = Append(yDone, n)
      /\ yMode' = yMode /\ yPos' = yPos /\ yRSeq' = yRSeq /\ yRIv' = yRIv /\ yGot' = yGot /\ yErr' = yErr
  BY <1>2, <1>4 DEF CipherWrite, WriterNumber
<1>6. m \in CipherPackets
  <2>1. f.len \in Nat /\ f.pad \in Nat
    BY <1>3 DEF GoodFrame
  <2>2. yEnd \in Nat /\ WriterNumber \in Nat
    BY <1>1 DEF CipherShape, WriterNumber
  <2> QED BY <1>4, <2>1, <2>2 DEF CipherPackets
<1>7. /\ yWire' \in Seq(CipherPackets) /\ Len(yWire) \in Nat /\ Len(yWire') = Len(yWire) + 1
      /\ yWire'[Len(yWire) + 1] = m /\ \A i \in 1..Len(yWire) : yWire'[i] = yWire[i]
  BY <1>1, <1>5, <1>6, AppendFacts DEF CipherShape
<1>8. /\ yDone' \in Seq(CipherPayloads) /\ Len(yDone) \in Nat /\ Len(yDone') = Len(yDone) + 1
      /\ yDone'[Len(yDone) + 1] = n /\ \A i \in 1..Len(yDone) : yDone'[i] = yDone[i]
  BY <1>1, <1>5, AppendFacts DEF CipherShape
<1>9. CipherShape'
  <2>1. yWSeq' \in Nat /\ yWIv' \in Nat /\ yEnd' \in Nat
    BY <1>1, <1>3, <1>5, CipherConstants DEF CipherShape
  <2> QED BY <1>1, <1>5, <1>7, <1>8, <2>1 DEF CipherShape
<1>10. PICK k, l, g : k = Len(yWire) /\ l = Len(yDone) /\ g = Len(yGot)
  OBVIOUS
<1>11. k \in Nat /\ l \in Nat /\ g \in Nat /\ g + k = l
  BY <1>1, <1>7, <1>8, <1>10 DEF InOrder, CipherShape
<1>12. InOrder'
  <2>1. Len(yGot') + Len(yWire') = Len(yDone')
    <3>1. Len(yGot') = g /\ Len(yWire') = k + 1 /\ Len(yDone') = l + 1
      BY <1>5, <1>7, <1>8, <1>10
    <3>2. g + (k + 1) = l + 1
      BY <1>11
    <3> QED BY <3>1, <3>2
  <2>2. ASSUME NEW i \in 1..Len(yGot') PROVE yGot'[i] = yDone'[i]
    <3>1. i \in 1..g /\ i \in 1..l
      BY <1>5, <1>10, <1>11
    <3> QED BY <1>1, <1>5, <1>8, <1>10, <3>1 DEF InOrder
  <2>3. ASSUME NEW i \in 1..Len(yWire') PROVE GoodFrame(yWire[i], yDone[Len(yGot) + i])'
    <3>1. CASE i \in 1..k
      <4>1. g + i \in 1..l
        BY <1>11, <3>1
      <4>2. GoodFrame(yWire[i], yDone[g + i]) /\ yWire'[i] = yWire[i] /\ yDone'[g + i] = yDone[g + i]
        BY <1>1, <1>7, <1>8, <1>10, <3>1, <4>1 DEF InOrder
      <4> QED BY <1>5, <1>10, <4>2 DEF GoodFrame, Aligned, Accepts
    <3>2. CASE i = k + 1
      <4>1. g + i = l + 1
        BY <1>11, <3>2
      <4>2. yWire'[i] = m /\ yDone'[g + i] = n
        BY <1>7, <1>8, <1>10, <3>2, <4>1
      <4>3. m.len = f.len /\ m.pad = f.pad
        BY <1>4
      <4> QED BY <1>3, <1>5, <1>10, <4>2, <4>3 DEF GoodFrame, Aligned, Accepts
    <3>3. i \in 1..k \/ i = k + 1
      BY <1>7, <1>10, <1>11
    <3> QED BY <3>1, <3>2, <3>3
  <2> QED BY <2>1, <2>2, <2>3 DEF InOrder
<1>13. InStep'
  <2>1. ReaderNumber' = ReaderNumber /\ WriterNumber' = NumberAfter(yMode, WriterNumber)
    BY <1>5 DEF ReaderNumber, WriterNumber, NumberAfter
  <2>2. ASSUME NEW i \in 1..(k + 1)
        PROVE  PlaceOf(yWire, yPos, i)' = PlaceOf(yWire, yPos, i) /\ NumberOf(yMode, yWire, ReaderNumber, i)' = NumberOf(yMode, yWire, ReaderNumber, i)
    <3>1. i # 1 => i - 1 \in 1..k
      BY <1>11
    <3>2. i # 1 => yWire'[i - 1] = yWire[i - 1]
      BY <1>7, <1>10, <3>1
    <3> QED BY <1>5, <2>1, <3>2 DEF PlaceOf, NumberOf
  <2>3. m.at = yEnd /\ m.len = f.len /\ m.seal = WriterNumber
    BY <1>4
  <2>4. ASSUME NEW i \in 1..Len(yWire')
        PROVE  /\ yWire'[i].at = PlaceOf(yWire, yPos, i)' /\ yWire'[i].seal = NumberOf(yMode, yWire, ReaderNumber, i)'
    <3>1. i \in 1..(k + 1)
      BY <1>7, <1>10, <1>11
    <3>2. CASE i \in 1..k
      BY <1>1, <1>7, <1>10, <2>2, <3>1, <3>2 DEF InStep
    <3>3. CASE i = k + 1
      BY <1>1, <1>7, <1>10, <2>2, <2>3, <3>1, <3>3 DEF InStep
    <3> QED BY <1>11, <3>1, <3>2, <3>3
  <2>5. Len(yWire') + 1 # 1 /\ Len(yWire') + 1 - 1 = k + 1
    BY <1>7, <1>10, <1>11
  <2>6. yEnd' = PlaceOf(yWire, yPos, Len(yWire) + 1)' /\ WriterNumber' = NumberOf(yMode, yWire, ReaderNumber, Len(yWire) + 1)'
    <3>1. yWire'[k + 1] = m
      BY <1>7, <1>10
    <3>2. yEnd' = m.at + (4 + m.len) /\ WriterNumber' = NumberAfter(yMode, m.seal)
      BY <1>3, <1>5, <2>1, <2>3
    <3> QED BY <1>5, <2>5, <3>1, <3>2 DEF PlaceOf, NumberOf
  <2> QED BY <2>4, <2>6 DEF InStep
<1> QED BY <1>9, <1>12, <1>13 DEF CipherInv

(* readPacket: the packet is where and what the reader expects, and what it *)
(* returns is the next payload.                                             *)
LEMMA ReadStep == ASSUME CipherInv, CipherRead PROVE CipherInv'
<1>1. CipherShape /\ InStep /\ InOrder
  BY DEF CipherInv
<1>2. PICK f : f = Head(yWire)
  OBVIOUS
<1>3. /\ yWire # <<>> /\ yWire \in Seq(CipherPackets)
  BY <1>1 DEF CipherRead, CipherShape
<1>4. /\ f \in CipherPackets /\ f = yWire[1] /\ Tail(yWire) \in Seq(CipherPackets) /\ Len(yWire) \in Nat \ {0}
      /\ Len(Tail(yWire)) = Len(yWire) - 1 /\ \A i \in 1..(Len(yWire) - 1) : Tail(yWire)[i] = yWire[i + 1]
  BY <1>2, <1>3, TailFacts
<1>5. PICK k, l, g : k = Len(yWire) /\ l = Len(yDone) /\ g = Len(yGot)
  OBVIOUS
<1>6. k \in Nat \ {0} /\ l \in Nat /\ g \in Nat /\ g + k = l
  BY <1>1, <1>4, <1>5 DEF InOrder, CipherShape
<1>7. f.at = yPos /\ f.seal = ReaderNumber
  <2>1. 1 \in 1..k
    BY <1>6
  <2> QED BY <1>1, <1>4, <1>5, <2>1 DEF InStep, PlaceOf, NumberOf
<1>8. PICK n : n = yDone[g + 1]
  OBVIOUS
<1>9. n \in CipherPayloads /\ n \in Nat /\ GoodFrame(f, n)
  <2>1. g + 1 \in 1..l /\ 1 \in 1..k
    BY <1>6
  <2>2. yDone \in Seq(CipherPayloads)
    BY <1>1 DEF CipherShape
  <2>3. n \in CipherPayloads
    BY <1>5, <1>8, <2>1, <2>2
  <2>4. GoodFrame(f, n)
    BY <1>1, <1>4, <1>5, <1>8, <2>1 DEF InOrder
  <2> QED BY <2>3, <2>4, CipherConstants
<1>10. f.len \in Nat /\ f.pad \in Nat /\ f.len - f.pad - 1 = n /\ Accepts(f) /\ CipherTaken(f.len) = 4 + f.len
  <2>1. f.len \in Nat /\ f.pad \in 4..255 /\ f.len = n + 1 + f.pad /\ Accepts(f)
    BY <1>9 DEF GoodFrame
  <2>2. CipherTaken(f.len) = 4 + f.len
    BY <1>1, <2>1, Taken DEF CipherShape
  <2> QED BY <1>9, <2>1, <2>2
<1>11. yErr' = "no"
  BY <1>2, <1>7, <1>10 DEF CipherRead, ReaderNumber
<1>12. /\ yGot' = Append(yGot, n) /\ yPos' = yPos + (4 + f.len) /\ yWire' = Tail(yWire)
       /\ yRSeq' = (yRSeq + 1) % CipherSeqMod /\ yRIv' = (IF yMode = "gcm" THEN yRIv + 1 ELSE yRIv)
       /\ yMode' = yMode /\ yEnd' = yEnd /\ yWSeq' = yWSeq /\ yWIv' = yWIv /\ yDone' = yDone
  BY <1>2, <1>10, <1>11 DEF CipherRead
<1>13. /\ yGot' \in Seq(CipherPayloads) /\ Len(yGot') = g + 1 /\ yGot'[g + 1] = n
       /\ \A i \in 1..g : yGot'[i] = yGot[i]
  BY <1>1, <1>5, <1>9, <1>12, AppendFacts DEF CipherShape
<1>14. yWire' \in Seq(CipherPackets) /\ Len(yWire') = k - 1 /\ \A i \in 1..(k - 1) : yWire'[i] = yWire[i + 1]
  BY <1>4, <1>5, <1>12
<1>15. CipherShape'
  <2>1. yPos' \in Nat /\ yRSeq' \in Nat /\ yRIv' \in Nat
    BY <1>1, <1>10, <1>12, CipherConstants DEF CipherShape
  <2> QED BY <1>1, <1>11, <1>12, <1>13, <1>14, <2>1 DEF CipherShape
<1>16. InOrder'
  <2>1. Len(yGot') + Len(yWire') = Len(yDone')
    BY <1>5, <1>6, <1>12, <1>13, <1>14
  <2>2. ASSUME NEW i \in 1..Len(yGot') PROVE yGot'[i] = yDone'[i]
    <3>1. i \in 1..g \/ i = g + 1
      BY <1>6, <1>13
    <3>2. CASE i \in 1..g
      BY <1>1, <1>5, <1>12, <1>13, <3>2 DEF InOrder
    <3>3. CASE i = g + 1
      BY <1>8, <1>12, <1>13, <3>3
    <3> QED BY <3>1, <3>2, <3>3
  <2>3. ASSUME NEW i \in 1..Len(yWire') PROVE GoodFrame(yWire[i], yDone[Len(yGot) + i])'
    <3>1. i \in 1..(k - 1) /\ i + 1 \in 1..k /\ g + (i + 1) = Len(yGot') + i
      BY <1>6, <1>13, <1>14
    <3>2. GoodFrame(yWire[i + 1], yDone[g + (i + 1)])
      BY <1>1, <1>5, <3>1 DEF InOrder
    <3>3. yWire'[i] = yWire[i + 1] /\ yDone'[Len(yGot') + i] = yDone[g + (i + 1)]
      BY <1>12, <1>14, <3>1
    <3> QED BY <1>12, <3>2, <3>3 DEF GoodFrame, Aligned, Accepts
  <2> QED BY <2>1, <2>2, <2>3 DEF InOrder
<1>17. InStep'
  <2>1. ReaderNumber' = NumberAfter(yMode, ReaderNumber) /\ WriterNumber' = WriterNumber
    BY <1>12 DEF ReaderNumber, WriterNumber, NumberAfter
  <2>2. ASSUME NEW i \in 1..k
        PROVE  /\ PlaceOf(yWire, yPos, i)' = PlaceOf(yWire, yPos, i + 1)
               /\ NumberOf(yMode, yWire, ReaderNumber, i)' = NumberOf(yMode, yWire, ReaderNumber, i + 1)
    <3>1. i + 1 # 1 /\ i + 1 - 1 = i
      OBVIOUS
    <3>2. CASE i = 1
      BY <1>4, <1>7, <1>12, <2>1, <3>1, <3>2 DEF PlaceOf, NumberOf
    <3>3. CASE i # 1
      <4>1. i - 1 \in 1..(k - 1) /\ i - 1 + 1 = i
        BY <1>6, <3>3
      <4>2. yWire'[i - 1] = yWire[i]
        BY <1>14, <4>1
      <4>3. PICK e : e = yWire[i]
        OBVIOUS
      <4>4. /\ PlaceOf(yWire, yPos, i + 1) = e.at + (4 + e.len)
            /\ NumberOf(yMode, yWire, ReaderNumber, i + 1) = NumberAfter(yMode, e.seal)
        BY <3>1, <4>3 DEF PlaceOf, NumberOf
      <4>5. /\ PlaceOf(yWire, yPos, i)' = e.at + (4 + e.len)
            /\ NumberOf(yMode, yWire, ReaderNumber, i)' = NumberAfter(yMode, e.seal)
        BY <1>12, <3>3, <4>2, <4>3 DEF PlaceOf, NumberOf
      <4> QED BY <4>4, <4>5
    <3> QED BY <3>2, <3>3
  <2>3. ASSUME NEW i \in 1..Len(yWire')
        PROVE  /\ yWire'[i].at = PlaceOf(yWire, yPos, i)'
               /\ yWire'[i].seal = NumberOf(yMode, yWire, ReaderNumber, i)'
    <3>1. i \in 1..(k - 1) /\ i \in 1..k /\ i + 1 \in 1..k
      BY <1>6, <1>14
    <3>2. yWire'[i] = yWire[i + 1]
      BY <1>14, <3>1
    <3> QED BY <1>1, <1>5, <2>2, <3>1, <3>2 DEF InStep
  <2>4. k \in 1..k /\ Len(yWire') + 1 = k
    BY <1>6, <1>14
  <2>5. /\ yEnd' = PlaceOf(yWire, yPos, Len(yWire) + 1)'
        /\ WriterNumber' = NumberOf(yMode, yWire, ReaderNumber, Len(yWire) + 1)'
    <3>1. yEnd = PlaceOf(yWire, yPos, k + 1) /\ WriterNumber = NumberOf(yMode, yWire, ReaderNumber, k + 1)
      BY <1>1, <1>5 DEF InStep
    <3>2. PlaceOf(yWire, yPos, k)' = PlaceOf(yWire, yPos, k + 1)
          /\ NumberOf(yMode, yWire, ReaderNumber, k)' = NumberOf(yMode, yWire, ReaderNumber, k + 1)
      BY <2>2, <2>4
    <3> QED BY <1>12, <2>1, <2>4, <3>1, <3>2
  <2> QED BY <2>3, <2>5 DEF InStep
<1> QED BY <1>15, <1>16, <1>17 DEF CipherInv

(* Every step of the two ends keeps CipherInv.                              *)
LEMMA CipherNextInv == CipherInv /\ [CipherNext]_cipherVars => CipherInv'
<1>1. ASSUME CipherInv, CipherNext PROVE CipherInv'
  BY <1>1, WriteStep, ReadStep DEF CipherNext
<1>2. ASSUME CipherInv, UNCHANGED cipherVars PROVE CipherInv'
  <2>1. CipherShape' /\ InStep'
    BY <1>2 DEF cipherVars, CipherInv, CipherShape, InStep, ReaderNumber, WriterNumber, PlaceOf, NumberOf
  <2>2. InOrder'
    BY <1>2 DEF cipherVars, CipherInv, InOrder, GoodFrame, Aligned, Accepts
  <2> QED BY <2>1, <2>2 DEF CipherInv
<1> QED BY <1>1, <1>2

(* CipherInv is an invariant of the specification.                          *)
LEMMA CipherInvariance == CipherSpec => []CipherInv
BY CipherInitInv, CipherNextInv, PTL DEF CipherSpec

(* For payloads of any length up to the limit and every packet cipher, what *)
(* writeCipherPacket frames has at least four bytes of padding and is       *)
(* aligned; readCipherPacket accepts it, keeps its place in the stream and  *)
(* returns the payloads in their order, across the wrap of the sequence     *)
(* number.                                                                  *)
THEOREM CipherIsSound == CipherSpec => []CipherSound
<1>1. CipherInv => CipherSound
  <2>1. SUFFICES ASSUME CipherInv PROVE CipherRoundTrip /\ CipherAligned
    BY DEF CipherSound
  <2>2. CipherShape /\ InOrder
    BY <2>1 DEF CipherInv
  <2>3. PICK g : g = Len(yGot)
    OBVIOUS
  <2>4. g \in Nat /\ Len(yDone) \in Nat /\ g <= Len(yDone)
    BY <2>2, <2>3 DEF CipherShape, InOrder
  <2>5. yGot = SubSeq(yDone, 1, g)
    <3>1. PICK q : q = SubSeq(yDone, 1, g)
      OBVIOUS
    <3>2. yDone \in Seq(CipherPayloads) /\ yGot \in Seq(CipherPayloads)
      BY <2>2 DEF CipherShape
    <3>3. q \in Seq(CipherPayloads) /\ Len(q) = g /\ \A i \in 1..g : q[i] = yDone[i]
      BY <2>4, <3>1, <3>2
    <3>4. \A i \in 1..g : yGot[i] = q[i]
      BY <2>2, <2>3, <3>3 DEF InOrder
    <3> QED BY <2>3, <2>4, <3>1, <3>2, <3>3, <3>4
  <2>6. CipherRoundTrip
    BY <2>2, <2>3, <2>5 DEF CipherRoundTrip, CipherShape, InOrder
  <2>7. CipherAligned
    BY <2>2 DEF CipherAligned, InOrder, GoodFrame, Aligned
  <2> QED BY <2>6, <2>7
<1> QED BY <1>1, CipherInvariance, PTL


------------------------------------------------------------------------------
(* Exchange number e of both sides, for the algorithm a that they agree on: *)
(* the KEXINITs carry the cookie e, and so do all that is exchanged, hashed *)
(* and derived. What a side writes is a fixed sequence of packets in each   *)
(* round, with data between the rounds, so that a place in it is a round    *)
(* and a slot: slot 0 for data and the KEXINIT, then the side's packets of  *)
(* the exchange, then NEWKEYS.                                              *)
HsAlgs == {"dh", "ecdh", "curve25519", "gex"}
Hash(a, e) == <<a, e, e, e, e>>
KeyOf(a, p, e) == IF e = 0 THEN NoKey ELSE CipherOf(p, Hash(a, e), Hash(a, 1))

(* Packets of the exchange that each side sends.                            *)
Turns(a) == IF a = "gex" THEN 2 ELSE 1
SendsOf(a, p) ==
    IF a = "gex" THEN IF p = "c" THEN {"gexRequest", "gexInit"} ELSE {"gexGroup", "gexReply"}
    ELSE IF a = "dh" THEN IF p = "c" THEN {"init"} ELSE {"reply"}
    ELSE IF p = "c" THEN {"ecInit"} ELSE {"ecReply"}

Epoch(m) == IF m.key = NoKey THEN 0 ELSE m.key.h[2]
Slot(a, t) ==
    IF t \in {"kexinit", "data"} THEN 0
    ELSE IF t = "newkeys" THEN Turns(a) + 1
    ELSE IF t \in {"gexInit", "gexReply"} THEN 2 ELSE 1
At(a, m) == <<Epoch(m), Slot(a, m.t)>>
After(a, m) ==
    IF m.t = "data" THEN At(a, m)
    ELSE IF m.t = "newkeys" THEN <<Epoch(m) + 1, 0>>
    ELSE <<Epoch(m), Slot(a, m.t) + 1>>

(* A packet of p: the key is that of its round, and so is the cookie. There *)
(* is no data before the first exchange.                                    *)
Good(a, p, m) ==
    /\ Epoch(m) \in Nat /\ m.key = KeyOf(a, p, Epoch(m))
    /\ m.t \in {"kexinit", "data", "newkeys"} \cup SendsOf(a, p)
    /\ m.t \notin {"data", "newkeys"} => m.val = Epoch(m) + 1
    /\ m.t = "data" => Epoch(m) > 0

(* The packets of w lead from one place to another.                         *)
Chain(a, p, w, from, to) ==
    /\ \A i \in 1..Len(w) : Good(a, p, w[i])
    /\ \A i \in 1..Len(w) : At(a, w[i]) = IF i = 1 THEN from ELSE After(a, w[i - 1])
    /\ to = IF w = <<>> THEN from ELSE After(a, w[Len(w)])

------------------------------------------------------------------------------
(* Where a side is in what it writes and in what it reads.                  *)
SendsDone(p, n) ==
    IF p = "c" THEN IF n = 0 THEN 0 ELSE IF n < 3 THEN 1 ELSE 2
    ELSE IF n < 2 THEN 0 ELSE IF n < 4 THEN 1 ELSE 2
ReadsDone(p, n) == n - SendsDone(p, n)

WRound(p) == IF hSent[p] # 0 /\ hKex[p] \in {"select", "exchange"} THEN hCount[p] - 1 ELSE hCount[p]
RRound(p) == IF hSent[p] # 0 /\ hKex[p] # "finish" THEN hCount[p] - 1 ELSE hCount[p]
WSlot(p) == IF hSent[p] # 0 /\ hKex[p] \in {"select", "exchange"} THEN SendsDone(p, hStep[p]) + 1 ELSE 0
RSlot(p) == IF hKex[p] # "finish" /\ (hStart[p] # 0 \/ hOther[p] # 0) THEN ReadsDone(p, hStep[p]) + 1 ELSE 0
WPlace(p) == <<WRound(p), WSlot(p)>>
RPlace(p) == <<RRound(p), RSlot(p)>>

(* The loops of a side on a live connection.                                *)
LoopsInv(p) ==
    /\ hKex[p] # "dead" /\ hRead[p] # "dead"
    /\ hSent[p] \in {0, hCount[p]} /\ hOther[p] \in {0, hCount[p]}
    /\ hKex[p] = "select" => hOther[p] = 0 /\ hStep[p] = 0
    /\ hKex[p] # "select" => hSent[p] # 0 /\ hOther[p] # 0 /\ hStart[p] = 0
    /\ hStart[p] # 0 => hStart[p] = IF hSent[p] = 0 THEN hCount[p] + 1 ELSE hCount[p]
    /\ hRead[p] = "kex" <=> hStart[p] # 0 \/ hOther[p] # 0
    /\ hRead[p] = "first" => RRound(p) = 0
    /\ hRead[p] = "read" => RRound(p) > 0
    /\ hStep[p] \in 0..(2 * Turns(KexAlg))
    /\ hKex[p] \in {"newkeys", "finish"} => hStep[p] = 2 * Turns(KexAlg) /\ KexAlg \in HsAlgs
    /\ hKex[p] # "select" /\ ReadsDone(p, hStep[p]) > 0 => hEph[p] = hCount[p]

(* The keys of a side.                                                      *)
KeysInv(p) ==
    /\ hKey[p] = [w |-> KeyOf(KexAlg, p, WRound(p)), r |-> KeyOf(KexAlg, Other(p), RRound(p))]
    /\ hNext[p] = [w |-> NoKey, r |-> hNext[p].r]
    /\ hKex[p] = "newkeys" => hNext[p].r = KeyOf(KexAlg, Other(p), hCount[p])
    /\ hSid[p] = IF WRound(p) = 0 THEN <<>> ELSE Hash(KexAlg, 1)

(* The packets on the way from a side.                                      *)
WireInv(p) ==
    /\ Chain(KexAlg, p, hWire[p], RPlace(Other(p)), WPlace(p))
    /\ \A i \in 1..Len(hWire[p]) : hWire[p][i].t = "kexinit" => hWire[p][i].val <= hCount[p]

(* What travels, and what the variables hold.                               *)
HsKeys == {KeyOf(KexAlg, p, e) : p \in HsSides, e \in Nat}
HsTypes == {"kexinit", "data", "newkeys", "init", "reply", "ecInit", "ecReply",
            "gexRequest", "gexGroup", "gexInit", "gexReply"}
HsPackets == [t : HsTypes, val : Nat, key : HsKeys]

HsShape ==
    /\ hConf \in HsConfigs
    /\ hWire \in [HsSides -> Seq(HsPackets)]
    /\ hRead \in [HsSides -> {"first", "read", "kex", "dead"}]
    /\ hKex \in [HsSides -> {"select", "exchange", "newkeys", "finish", "dead"}]
    /\ hErr \in [HsSides -> {"no", "read", "write", "algorithm"}]
    /\ hWant \in [HsSides -> 0..1]
    /\ hSent \in [HsSides -> Nat] /\ hStart \in [HsSides -> Nat] /\ hOther \in [HsSides -> Nat]
    /\ hStep \in [HsSides -> Nat] /\ hEph \in [HsSides -> Nat] /\ hCount \in [HsSides -> Nat]
    /\ hLeftW \in [HsSides -> 0..HsThreshold] /\ hLeftR \in [HsSides -> 0..HsThreshold]
    /\ hOut \in [HsSides -> Nat] /\ hIn \in [HsSides -> Seq(Nat)] /\ hPend \in [HsSides -> Seq(Nat)]
    /\ DOMAIN hKey = HsSides /\ DOMAIN hNext = HsSides /\ DOMAIN hSid = HsSides
    /\ hUp \in {"up", "down"}

(* The cookies and the numbers of packets stay within their bounds.         *)
BoundInv ==
    \A p \in HsSides :
        /\ hSent[p] <= hCount[p] /\ hStart[p] <= hCount[Other(p)] /\ hOther[p] <= hCount[Other(p)]
        /\ hStep[p] <= 4 /\ (hSent[p] = 0 => hPend[p] = <<>>)
        /\ Len(hPend[p]) + Len(hIn[Other(p)]) <= hOut[p] /\ hOut[p] <= HsData

(* The two sides are in step while the connection lasts; nothing travels on *)
(* a lost one.                                                              *)
UpInv == hUp = "up" => \A p \in HsSides : LoopsInv(p) /\ KeysInv(p) /\ WireInv(p)
DownInv == hUp = "down" => hWire = [p \in HsSides |-> <<>>]

(* The inductive invariant.                                                 *)
HsInv == HsShape /\ BoundInv /\ UpInv /\ DownInv /\ HsAgree /\ HsInOrder
------------------------------------------------------------------------------
(* The exchanges.                                                           *)

(* There are two sides.                                                     *)
LEMMA TwoSides ==
    ASSUME NEW p \in HsSides
    PROVE  /\ Other(p) \in HsSides /\ Other(p) # p /\ Other(Other(p)) = p
           /\ \A r \in HsSides : r = p \/ r = Other(p)
<1>1. Other("c") = "s" /\ Other("s") = "c"
  BY DEF Other, HsSides
<1> QED BY <1>1 DEF HsSides

(* The lists of algorithms that findCommon compares.                        *)
Lists == Seq(HsAlgs)

(* findCommon returns an algorithm of the client's list.                    *)
LEMMA CommonIsKnown ==
    ASSUME NEW client \in Lists, NEW server \in Lists, CommonSet(client, server) # {}
    PROVE  FindCommon(client, server) \in HsAlgs
<1>1. CommonSet(client, server) \subseteq Nat
  BY DEF CommonSet
<1>2. \E i \in CommonSet(client, server) : \A j \in CommonSet(client, server) : i <= j
  BY <1>1, HasLeast
<1>3. PICK i \in CommonSet(client, server) : FindCommon(client, server) = client[i]
  BY <1>2 DEF FindCommon
<1> QED BY <1>3 DEF CommonSet, Lists

(* What the next step of an exchange is, for each algorithm and side: the   *)
(* packet that a side reads next is the only one of its peer's in that slot. *)
StepFits(a, p, n) ==
    LET s == KexScript(a, p)[n + 1] IN
    /\ s.do \in {"send", "read"}
    /\ s.do = "send" => /\ s.m \in SendsOf(a, p) /\ Slot(a, s.m) = SendsDone(p, n) + 1
                        /\ SendsDone(p, n + 1) = SendsDone(p, n) + 1
                        /\ ReadsDone(p, n + 1) = ReadsDone(p, n)
    /\ s.do = "read" => /\ \A t \in {"kexinit", "data", "newkeys"} \cup SendsOf(a, Other(p)) :
                             Slot(a, t) = ReadsDone(p, n) + 1 => t = s.m
                        /\ s.m \in SendsOf(a, Other(p)) /\ Slot(a, s.m) = ReadsDone(p, n) + 1
                        /\ SendsDone(p, n + 1) = SendsDone(p, n)
                        /\ ReadsDone(p, n + 1) = ReadsDone(p, n) + 1

(* An exchange is a turn or two of each side, in which they alternate.      *)
LEMMA Exchanges ==
    ASSUME NEW a \in HsAlgs, NEW p \in HsSides
    PROVE  /\ Len(KexScript(a, p)) = 2 * Turns(a)
           /\ \A n \in 0..(2 * Turns(a) - 1) : StepFits(a, p, n)
           /\ SendsDone(p, 2 * Turns(a)) = Turns(a) /\ ReadsDone(p, 2 * Turns(a)) = Turns(a)
<1>1. Other("c") = "s" /\ Other("s") = "c"
  BY DEF Other, HsSides
<1>2. /\ SendsDone("c", 0) = 0 /\ SendsDone("c", 1) = 1 /\ SendsDone("c", 2) = 1
      /\ SendsDone("c", 3) = 2 /\ SendsDone("c", 4) = 2
      /\ SendsDone("s", 0) = 0 /\ SendsDone("s", 1) = 0 /\ SendsDone("s", 2) = 1
      /\ SendsDone("s", 3) = 1 /\ SendsDone("s", 4) = 2
  BY DEF SendsDone
<1>3. /\ ReadsDone("c", 0) = 0 /\ ReadsDone("c", 1) = 0 /\ ReadsDone("c", 2) = 1
      /\ ReadsDone("c", 3) = 1 /\ ReadsDone("c", 4) = 2
      /\ ReadsDone("s", 0) = 0 /\ ReadsDone("s", 1) = 1 /\ ReadsDone("s", 2) = 1
      /\ ReadsDone("s", 3) = 2 /\ ReadsDone("s", 4) = 2
  BY <1>2 DEF ReadsDone
<1>4. CASE a = "gex"
  <2>1. Turns(a) = 2 /\ KexScript(a, p) = (IF p = "c" THEN GexClient ELSE GexServer)
    BY <1>4 DEF Turns, KexScript
  <2>2. Len(KexScript(a, p)) = 4
    BY <2>1 DEF GexClient, GexServer
  <2>3. StepFits(a, p, 0) /\ StepFits(a, p, 1)
    BY <1>1, <1>2, <1>3, <1>4, <2>1 DEF StepFits, GexClient, GexServer, SendsOf, Slot, Turns, HsSides
  <2>4. StepFits(a, p, 2) /\ StepFits(a, p, 3)
    BY <1>1, <1>2, <1>3, <1>4, <2>1 DEF StepFits, GexClient, GexServer, SendsOf, Slot, Turns, HsSides
  <2>5. \A n \in 0..3 : n = 0 \/ n = 1 \/ n = 2 \/ n = 3
    OBVIOUS
  <2> QED BY <1>2, <1>3, <2>1, <2>2, <2>3, <2>4, <2>5 DEF HsSides
<1>5. CASE a # "gex"
  <2>1. Turns(a) = 1 /\ Len(KexScript(a, p)) = 2
    BY <1>5 DEF Turns, KexScript, HsAlgs, DhGroupClient, DhGroupServer, EcdhClient, EcdhServer, Curve25519Client, Curve25519Server
  <2>2. ASSUME a = "dh" PROVE StepFits(a, p, 0) /\ StepFits(a, p, 1)
    <3>1. KexScript(a, p) = (IF p = "c" THEN DhGroupClient ELSE DhGroupServer)
      BY <2>2 DEF KexScript
    <3>2. StepFits(a, p, 0) /\ StepFits(a, p, 1)
      BY <1>1, <1>2, <1>3, <2>1, <2>2, <3>1 DEF StepFits, DhGroupClient, DhGroupServer, SendsOf, Slot, HsSides
    <3> QED BY <3>2
  <2>3. ASSUME a # "dh" PROVE StepFits(a, p, 0) /\ StepFits(a, p, 1)
    <3>1. KexScript(a, p) = (IF p = "c" THEN EcdhClient ELSE EcdhServer)
      BY <1>5, <2>3 DEF KexScript, HsAlgs, EcdhClient, EcdhServer, Curve25519Client, Curve25519Server
    <3>2. StepFits(a, p, 0) /\ StepFits(a, p, 1)
      BY <1>1, <1>2, <1>3, <1>5, <2>1, <2>3, <3>1 DEF StepFits, EcdhClient, EcdhServer, SendsOf, Slot, HsSides
    <3> QED BY <3>2
  <2>4. StepFits(a, p, 0) /\ StepFits(a, p, 1)
    BY <2>2, <2>3
  <2>5. \A n \in 0..1 : n = 0 \/ n = 1
    OBVIOUS
  <2> QED BY <1>2, <1>3, <2>1, <2>4, <2>5 DEF HsSides
<1> QED BY <1>4, <1>5

------------------------------------------------------------------------------
(* Chains of packets.                                                       *)

(* The hash of a round names the round.                                     *)
LEMMA HashNames ==
    ASSUME NEW a, NEW e \in Nat, NEW p, NEW m, m.key = KeyOf(a, p, e)
    PROVE  Epoch(m) = e
BY DEF Epoch, KeyOf, CipherOf, Hash, NoKey

(* A wire is empty if it has no packets.                                    *)
LEMMA EmptyWire ==
    ASSUME NEW S, NEW w \in Seq(S)
    PROVE  Len(w) = 0 <=> w = <<>>
OBVIOUS

(* A packet is written at the end of the chain.                             *)
LEMMA ChainSend ==
    ASSUME NEW a, NEW p, NEW S, NEW w \in Seq(S), NEW m \in S, NEW from, NEW to,
           Chain(a, p, w, from, to), Good(a, p, m), At(a, m) = to
    PROVE  Chain(a, p, Append(w, m), from, After(a, m))
<1>1. PICK n : n = Len(w)
  OBVIOUS
<1>2. PICK v : v = Append(w, m)
  OBVIOUS
<1>3. n \in Nat /\ v \in Seq(S) /\ Len(v) = n + 1 /\ v[n + 1] = m /\ \A i \in 1..n : v[i] = w[i]
  BY <1>1, <1>2
<1>4. \A i \in 1..(n + 1) : Good(a, p, v[i])
  <2>1. \A i \in 1..n : Good(a, p, v[i])
    BY <1>1, <1>3 DEF Chain
  <2> QED BY <1>3, <2>1
<1>5. ASSUME NEW i \in 1..(n + 1) PROVE At(a, v[i]) = IF i = 1 THEN from ELSE After(a, v[i - 1])
  <2>1. CASE i \in 1..n
    <3>1. i # 1 => i - 1 \in 1..n
      BY <2>1, <1>3
    <3> QED BY <1>1, <1>3, <2>1, <3>1 DEF Chain
  <2>2. CASE i = n + 1
    <3>1. CASE n = 0
      <4>1. w = <<>>
        BY <1>1, <3>1, EmptyWire
      <4>2. to = from
        BY <4>1 DEF Chain
      <4> QED BY <1>3, <2>2, <3>1, <4>2
    <3>2. CASE n # 0
      <4>1. w # <<>> /\ n \in 1..n /\ i - 1 = n /\ i # 1
        BY <1>1, <1>3, <2>2, <3>2
      <4>2. to = After(a, w[n])
        BY <1>1, <4>1 DEF Chain
      <4>3. v[i - 1] = w[n] /\ v[i] = m
        BY <1>3, <2>2, <4>1
      <4> QED BY <4>1, <4>2, <4>3
    <3> QED BY <3>1, <3>2
  <2> QED BY <1>3, <2>1, <2>2
<1>6. v # <<>> /\ v[Len(v)] = m
  BY <1>3
<1> QED BY <1>2, <1>3, <1>4, <1>5, <1>6 DEF Chain

(* The first packet of the chain is read.                                   *)
LEMMA ChainRead ==
    ASSUME NEW a, NEW p, NEW S, NEW w \in Seq(S), w # <<>>, NEW from, NEW to, Chain(a, p, w, from, to)
    PROVE  /\ Good(a, p, Head(w)) /\ At(a, Head(w)) = from
           /\ Chain(a, p, Tail(w), After(a, Head(w)), to)
<1>1. PICK n : n = Len(w)
  OBVIOUS
<1>2. PICK v : v = Tail(w)
  OBVIOUS
<1>3. n \in Nat /\ n > 0 /\ v \in Seq(S) /\ Len(v) = n - 1 /\ Head(w) = w[1] /\ \A i \in 1..(n - 1) : v[i] = w[i + 1]
  BY <1>1, <1>2
<1>4. Good(a, p, Head(w)) /\ At(a, Head(w)) = from
  BY <1>1, <1>3 DEF Chain
<1>5. ASSUME NEW i \in 1..(n - 1)
      PROVE  Good(a, p, v[i]) /\ At(a, v[i]) = IF i = 1 THEN After(a, Head(w)) ELSE After(a, v[i - 1])
  <2>1. i + 1 \in 1..n /\ i + 1 # 1 /\ (i + 1) - 1 = i /\ v[i] = w[i + 1]
    BY <1>3
  <2>2. Good(a, p, v[i]) /\ At(a, v[i]) = After(a, w[i])
    BY <1>1, <2>1 DEF Chain
  <2>3. i # 1 => v[i - 1] = w[i]
    <3>1. ASSUME i # 1 PROVE i - 1 \in 1..(n - 1) /\ (i - 1) + 1 = i
      BY <1>3, <3>1
    <3> QED BY <1>3, <3>1
  <2> QED BY <1>3, <2>2, <2>3
<1>6. to = IF v = <<>> THEN After(a, Head(w)) ELSE After(a, v[Len(v)])
  <2>1. to = After(a, w[n])
    BY <1>1 DEF Chain
  <2>2. CASE v = <<>>
    <3>1. n = 1
      BY <1>3, <2>2
    <3> QED BY <1>3, <2>1, <2>2, <3>1
  <2>3. CASE v # <<>>
    <3>1. n - 1 \in 1..(n - 1) /\ (n - 1) + 1 = n
      BY <1>3, <2>3
    <3> QED BY <1>3, <2>1, <2>3, <3>1
  <2> QED BY <2>2, <2>3
<1>7. \A i \in 1..Len(v) : Good(a, p, v[i])
  BY <1>3, <1>5
<1>8. \A i \in 1..Len(v) : At(a, v[i]) = IF i = 1 THEN After(a, Head(w)) ELSE After(a, v[i - 1])
  BY <1>3, <1>5
<1> QED BY <1>2, <1>4, <1>6, <1>7, <1>8 DEF Chain

(* What two sequences make together.                                        *)
LEMMA JoinMeans ==
    ASSUME NEW S, NEW w \in Seq(S), NEW f \in Seq(S)
    PROVE  /\ Len(w) \in Nat /\ Len(f) \in Nat /\ w \o f \in Seq(S) /\ Len(w \o f) = Len(w) + Len(f)
           /\ \A i \in 1..Len(w) : (w \o f)[i] = w[i]
           /\ \A i \in 1..(Len(w) + Len(f)) : i > Len(w) => (w \o f)[i] = f[i - Len(w)]
OBVIOUS

(* Packets that had to wait are written at the end of the chain.            *)
LEMMA ChainFlush ==
    ASSUME NEW a, NEW p, NEW S, NEW w \in Seq(S), NEW f \in Seq(S), NEW from, NEW to,
           Chain(a, p, w, from, to),
           \A i \in 1..Len(f) : Good(a, p, f[i]) /\ At(a, f[i]) = to /\ After(a, f[i]) = to
    PROVE  Chain(a, p, w \o f, from, to)
<1>1. PICK n : n = Len(w)
  OBVIOUS
<1>2. PICK k : k = Len(f)
  OBVIOUS
<1>3. PICK v : v = w \o f
  OBVIOUS
<1>4. /\ n \in Nat /\ k \in Nat /\ v \in Seq(S) /\ Len(v) = n + k
      /\ \A i \in 1..n : v[i] = w[i]
      /\ \A i \in 1..(n + k) : i > n => v[i] = f[i - n]
  BY <1>1, <1>2, <1>3
<1>5. \A i \in 1..(n + k) : i > n => Good(a, p, v[i]) /\ At(a, v[i]) = to /\ After(a, v[i]) = to
  <2>1. ASSUME NEW i \in 1..(n + k), i > n PROVE i - n \in 1..k
    BY <1>4, <2>1
  <2> QED BY <1>2, <1>4, <2>1
<1>6. n > 0 => to = After(a, v[n])
  BY <1>1, <1>4 DEF Chain
<1>7. n = 0 => to = from
  BY <1>1, EmptyWire DEF Chain
<1>8. ASSUME NEW i \in 1..(n + k) PROVE Good(a, p, v[i]) /\ At(a, v[i]) = IF i = 1 THEN from ELSE After(a, v[i - 1])
  <2>1. CASE i \in 1..n
    <3>1. i # 1 => i - 1 \in 1..n
      BY <2>1, <1>4
    <3> QED BY <1>1, <1>4, <2>1, <3>1 DEF Chain
  <2>2. CASE i = n + 1
    <3>1. Good(a, p, v[i]) /\ At(a, v[i]) = to
      BY <1>4, <1>5, <2>2
    <3>2. i = 1 => n = 0
      BY <1>4, <2>2
    <3>3. i # 1 => n > 0 /\ i - 1 = n
      BY <1>4, <2>2
    <3> QED BY <1>6, <1>7, <3>1, <3>2, <3>3
  <2>3. CASE i > n + 1
    <3>1. Good(a, p, v[i]) /\ At(a, v[i]) = to
      BY <1>4, <1>5, <2>3
    <3>2. i # 1 /\ i - 1 \in 1..(n + k) /\ i - 1 > n
      BY <1>4, <2>3
    <3>3. After(a, v[i - 1]) = to
      BY <1>5, <3>2
    <3> QED BY <3>1, <3>2, <3>3
  <2> QED BY <1>4, <2>1, <2>2, <2>3
<1>9. to = IF v = <<>> THEN from ELSE After(a, v[Len(v)])
  <2>1. CASE k = 0
    <3>1. Len(v) = n /\ (v = <<>> <=> n = 0)
      BY <1>4, <2>1
    <3> QED BY <1>4, <1>6, <1>7, <3>1
  <2>2. CASE k # 0
    <3>1. n + k \in 1..(n + k) /\ n + k > n /\ v # <<>>
      BY <1>4, <2>2
    <3> QED BY <1>4, <1>5, <3>1
  <2> QED BY <2>1, <2>2
<1>10. \A i \in 1..Len(v) : Good(a, p, v[i])
  BY <1>4, <1>8
<1>11. \A i \in 1..Len(v) : At(a, v[i]) = IF i = 1 THEN from ELSE After(a, v[i - 1])
  BY <1>4, <1>8
<1> QED BY <1>3, <1>9, <1>10, <1>11 DEF Chain
------------------------------------------------------------------------------
(* One side.                                                                *)

(* A side keeps what its places and keys depend on.                         *)
SideSame(r) ==
    /\ hRead'[r] = hRead[r] /\ hKex'[r] = hKex[r] /\ hStep'[r] = hStep[r] /\ hSent'[r] = hSent[r]
    /\ hStart'[r] = hStart[r] /\ hOther'[r] = hOther[r] /\ hEph'[r] = hEph[r] /\ hKey'[r] = hKey[r]
    /\ hNext'[r] = hNext[r] /\ hSid'[r] = hSid[r] /\ hCount'[r] = hCount[r]

(* A side that does nothing stays where it is.                              *)
LEMMA SideStays ==
    ASSUME NEW r \in HsSides, SideSame(r), hConf' = hConf
    PROVE  /\ LoopsInv(r) => LoopsInv(r)'
           /\ KeysInv(r) => KeysInv(r)'
           /\ RPlace(r)' = RPlace(r) /\ WPlace(r)' = WPlace(r)
<1>1. WRound(r)' = WRound(r) /\ RRound(r)' = RRound(r) /\ WSlot(r)' = WSlot(r) /\ RSlot(r)' = RSlot(r)
  BY DEF SideSame, WRound, RRound, WSlot, RSlot
<1>2. KexAlg' = KexAlg
  BY DEF KexAlg
<1>3. LoopsInv(r) => LoopsInv(r)'
  BY <1>1, <1>2 DEF SideSame, LoopsInv
<1>4. KeysInv(r) => KeysInv(r)'
  BY <1>1, <1>2 DEF SideSame, KeysInv
<1> QED BY <1>1, <1>3, <1>4 DEF RPlace, WPlace

(* kexLoop is woken on a live connection.                                   *)
LEMMA WakeSide ==
    ASSUME NEW p \in HsSides, HsShape, LoopsInv(p), KeysInv(p), hUp = "up", KexWake(p)
    PROVE  /\ LoopsInv(p)' /\ KeysInv(p)' /\ RPlace(p)' = RPlace(p)
           /\ \/ hSent[p] # 0 /\ WPlace(p)' = WPlace(p) /\ UNCHANGED <<hWire, hCount, hErr>>
              \/ /\ hSent[p] = 0 /\ UNCHANGED hErr
                 /\ WPlace(p) = <<hCount[p], 0>> /\ WPlace(p)' = <<hCount[p], 1>>
                 /\ hCount' = [hCount EXCEPT ![p] = @ + 1]
                 /\ Pushed(p, Packet(p, "kexinit", hCount[p] + 1))
                 /\ hKey[p].w = KeyOf(KexAlg, p, hCount[p])
<1>1. KexAlg' = KexAlg
  BY DEF KexAlg, KexWake
<1>2. /\ hCount[p] \in Nat /\ hSent[p] \in Nat /\ hStart[p] \in Nat /\ hOther[p] \in Nat
      /\ hKex[p] = "select" /\ hStep[p] = 0 /\ hOther[p] = 0
      /\ \A r \in HsSides : hStep'[r] = hStep[r] /\ hEph'[r] = hEph[r] /\ hRead'[r] = hRead[r]
                            /\ hKey'[r] = hKey[r] /\ hNext'[r] = hNext[r] /\ hSid'[r] = hSid[r]
  BY DEF HsShape, LoopsInv, KexWake
<1>3. SendsDone(p, 0) = 0 /\ ReadsDone(p, 0) = 0
  BY DEF SendsDone, ReadsDone
<1>4. /\ \/ hStart[p] # 0 /\ hOther'[p] = hStart[p] /\ hStart'[p] = 0
         \/ hOther'[p] = 0 /\ hStart'[p] = hStart[p]
      /\ hKex'[p] = IF hOther'[p] # 0 /\ hSent'[p] # 0 THEN "exchange" ELSE "select"
  BY <1>2 DEF KexWake, HsShape
<1>5. CASE hSent[p] # 0
  <2>1. UNCHANGED <<hWire, hSent, hCount, hErr>>
    BY <1>5 DEF KexWake, SendKexInit
  <2>2. WRound(p)' = WRound(p) /\ RRound(p)' = RRound(p) /\ WSlot(p)' = WSlot(p) /\ RSlot(p)' = RSlot(p)
    BY <1>2, <1>3, <1>4, <1>5, <2>1 DEF WRound, RRound, WSlot, RSlot
  <2>3. LoopsInv(p)'
    BY <1>1, <1>2, <1>3, <1>4, <1>5, <2>1, <2>2 DEF LoopsInv
  <2>4. KeysInv(p)'
    BY <1>1, <1>2, <1>4, <2>1, <2>2 DEF KeysInv
  <2> QED BY <1>5, <2>1, <2>2, <2>3, <2>4 DEF RPlace, WPlace
<1>6. CASE hSent[p] = 0
  <2>1. /\ hCount' = [hCount EXCEPT ![p] = @ + 1] /\ hSent' = [hSent EXCEPT ![p] = hCount'[p]]
        /\ Pushed(p, Packet(p, "kexinit", hCount'[p])) /\ UNCHANGED hErr
    BY <1>6 DEF KexWake, SendKexInit
  <2>2. hCount'[p] = hCount[p] + 1 /\ hSent'[p] = hCount[p] + 1
    BY <2>1 DEF HsShape
  <2>3. WRound(p) = hCount[p] /\ WRound(p)' = hCount[p] /\ WSlot(p) = 0 /\ WSlot(p)' = 1
    BY <1>2, <1>3, <1>4, <1>6, <2>2 DEF WRound, WSlot
  <2>4. RRound(p)' = RRound(p) /\ RSlot(p)' = RSlot(p)
    BY <1>2, <1>3, <1>4, <1>6, <2>2 DEF RRound, RSlot
  <2>5. LoopsInv(p)'
    BY <1>1, <1>2, <1>3, <1>4, <1>6, <2>2, <2>4 DEF LoopsInv
  <2>6. KeysInv(p)'
    BY <1>1, <1>2, <1>4, <2>3, <2>4 DEF KeysInv
  <2>7. hKey[p].w = KeyOf(KexAlg, p, hCount[p])
    BY <2>3 DEF KeysInv
  <2> QED BY <1>6, <2>1, <2>2, <2>3, <2>4, <2>5, <2>6, <2>7 DEF RPlace, WPlace
<1> QED BY <1>5, <1>6

(* The agreed algorithm is one of those in the lists.                       *)
LEMMA AgreedIsKnown ==
    ASSUME hConf \in HsConfigs, CommonSet(hConf["c"], hConf["s"]) # {}
    PROVE  KexAlg \in HsAlgs
<1>1. hConf["c"] \in Lists /\ hConf["s"] \in Lists
  BY HsConstants DEF Lists, HsAlgs
<1> QED BY <1>1, CommonIsKnown DEF KexAlg

(* The packet that a side reads next, if it comes from the wire as it should. *)
Expected(p, m) == Good(KexAlg, Other(p), m) /\ At(KexAlg, m) = RPlace(p) /\ m.val \in Nat

(* It is read with the key that it was written with.                        *)
LEMMA KeyFits ==
    ASSUME NEW p \in HsSides, NEW m, KeysInv(p), Expected(p, m)
    PROVE  m.key = hKey[p].r /\ Epoch(m) = RRound(p) /\ Slot(KexAlg, m.t) = RSlot(p)
BY DEF KeysInv, Expected, Good, At, RPlace

(* A packet of the exchange is sent.                                        *)
LEMMA ExchangeSendSide ==
    ASSUME NEW p \in HsSides, HsShape, LoopsInv(p), KeysInv(p), ExchangeStep(p),
           Script(p)[hStep[p] + 1].do = "send"
    PROVE  /\ LoopsInv(p)' /\ KeysInv(p)' /\ RPlace(p)' = RPlace(p) /\ UNCHANGED <<hErr, hEph>>
           /\ \E t \in SendsOf(KexAlg, p) :
                 /\ Pushed(p, Packet(p, t, hCount[p]))
                 /\ hKey[p].w = KeyOf(KexAlg, p, hCount[p] - 1) /\ hCount[p] > 0
                 /\ WPlace(p) = <<hCount[p] - 1, Slot(KexAlg, t)>>
                 /\ WPlace(p)' = <<hCount[p] - 1, Slot(KexAlg, t) + 1>>
<1>1. KexAlg' = KexAlg /\ KexAlg \in HsAlgs
  BY AgreedIsKnown DEF KexAlg, ExchangeStep, HsShape
<1>2. PICK n : n = hStep[p]
  OBVIOUS
<1>3. /\ hCount[p] \in Nat /\ n \in Nat /\ hKex[p] = "exchange" /\ hSent[p] = hCount[p] /\ hCount[p] # 0
      /\ hOther[p] = hCount[p] /\ hStart[p] = 0 /\ n < Len(Script(p))
  BY <1>2 DEF HsShape, LoopsInv, ExchangeStep
<1>4. Turns(KexAlg) \in Nat /\ n \in 0..(2 * Turns(KexAlg) - 1)
  <2>1. Len(Script(p)) = 2 * Turns(KexAlg)
    BY <1>1, Exchanges DEF Script
  <2>2. Turns(KexAlg) \in Nat
    BY DEF Turns
  <2> QED BY <1>3, <2>1, <2>2
<1>5. StepFits(KexAlg, p, n)
  BY <1>1, <1>4, Exchanges
<1>6. PICK t : t = Script(p)[n + 1].m
  OBVIOUS
<1>7. /\ t \in SendsOf(KexAlg, p) /\ Slot(KexAlg, t) = SendsDone(p, n) + 1
      /\ SendsDone(p, n + 1) = SendsDone(p, n) + 1 /\ ReadsDone(p, n + 1) = ReadsDone(p, n)
  BY <1>2, <1>5, <1>6 DEF StepFits, Script
<1>8. /\ Pushed(p, Packet(p, t, hCount[p])) /\ UNCHANGED <<hEph, hErr>>
      /\ hStep'[p] = n + 1
      /\ \A r \in HsSides : hKex'[r] = hKex[r] /\ hRead'[r] = hRead[r] /\ hSent'[r] = hSent[r] /\ hStart'[r] = hStart[r]
                 /\ hOther'[r] = hOther[r] /\ hKey'[r] = hKey[r] /\ hNext'[r] = hNext[r] /\ hSid'[r] = hSid[r]
                 /\ hCount'[r] = hCount[r]
  BY <1>2, <1>3, <1>6 DEF ExchangeStep, HsShape
<1>9. SendsDone(p, n) \in Nat
  BY <1>3 DEF SendsDone
<1>10. /\ WRound(p) = hCount[p] - 1 /\ WRound(p)' = hCount[p] - 1
       /\ WSlot(p) = Slot(KexAlg, t) /\ WSlot(p)' = Slot(KexAlg, t) + 1
  BY <1>2, <1>3, <1>7, <1>8 DEF WRound, WSlot
<1>11. RRound(p)' = RRound(p) /\ RSlot(p)' = RSlot(p)
  BY <1>2, <1>3, <1>7, <1>8 DEF RRound, RSlot
<1>12. LoopsInv(p)'
  BY <1>1, <1>2, <1>3, <1>4, <1>7, <1>8, <1>11 DEF LoopsInv
<1>13. KeysInv(p)'
  BY <1>1, <1>8, <1>10, <1>11 DEF KeysInv
<1>14. hKey[p].w = KeyOf(KexAlg, p, hCount[p] - 1)
  BY <1>10 DEF KeysInv
<1> QED BY <1>3, <1>7, <1>8, <1>10, <1>11, <1>12, <1>13, <1>14 DEF RPlace, WPlace

(* A packet of the exchange is read: it is the expected one.                *)
LEMMA ExchangeReadSide ==
    ASSUME NEW p \in HsSides, HsShape, LoopsInv(p), KeysInv(p), ExchangeStep(p), Expected(p, Next1(p)),
           Script(p)[hStep[p] + 1].do = "read"
    PROVE  /\ LoopsInv(p)' /\ KeysInv(p)' /\ WPlace(p)' = WPlace(p) /\ UNCHANGED hErr
           /\ Arrived(p) /\ Consumed(p) /\ RPlace(p)' = After(KexAlg, Next1(p))
           /\ hEph' = [hEph EXCEPT ![p] = Next1(p).val] /\ Next1(p).t # "data"
<1>1. KexAlg' = KexAlg /\ KexAlg \in HsAlgs
  BY AgreedIsKnown DEF KexAlg, ExchangeStep, HsShape
<1>2. PICK n : n = hStep[p]
  OBVIOUS
<1>3. /\ hCount[p] \in Nat /\ n \in Nat /\ hKex[p] = "exchange" /\ hSent[p] = hCount[p] /\ hCount[p] # 0
      /\ hOther[p] = hCount[p] /\ hStart[p] = 0 /\ n < Len(Script(p))
  BY <1>2 DEF HsShape, LoopsInv, ExchangeStep
<1>4. Turns(KexAlg) \in Nat /\ n \in 0..(2 * Turns(KexAlg) - 1)
  <2>1. Len(Script(p)) = 2 * Turns(KexAlg)
    BY <1>1, Exchanges DEF Script
  <2>2. Turns(KexAlg) \in Nat
    BY DEF Turns
  <2> QED BY <1>3, <2>1, <2>2
<1>5. StepFits(KexAlg, p, n)
  BY <1>1, <1>4, Exchanges
<1>6. PICK m : m = Next1(p)
  OBVIOUS
<1>7. m.key = hKey[p].r /\ Epoch(m) = RRound(p) /\ Slot(KexAlg, m.t) = RSlot(p) /\ Good(KexAlg, Other(p), m)
  BY <1>6, KeyFits DEF Expected
<1>8. RRound(p) = hCount[p] - 1 /\ RSlot(p) = ReadsDone(p, n) + 1
  BY <1>2, <1>3 DEF RRound, RSlot
<1>9. /\ m.t = Script(p)[n + 1].m /\ m.t \in SendsOf(KexAlg, Other(p))
      /\ SendsDone(p, n + 1) = SendsDone(p, n) /\ ReadsDone(p, n + 1) = ReadsDone(p, n) + 1
  BY <1>2, <1>5, <1>7, <1>8 DEF StepFits, Script, Good
<1>10. m.t \notin {"data", "newkeys", "kexinit"}
  BY <1>9 DEF SendsOf
<1>11. m.val = hCount[p]
  BY <1>3, <1>7, <1>8, <1>10 DEF Good
<1>12. /\ Arrived(p) /\ Consumed(p) /\ UNCHANGED hErr /\ hEph' = [hEph EXCEPT ![p] = m.val]
       /\ hStep'[p] = n + 1
       /\ \A r \in HsSides : hKex'[r] = hKex[r] /\ hRead'[r] = hRead[r] /\ hSent'[r] = hSent[r] /\ hStart'[r] = hStart[r]
                 /\ hOther'[r] = hOther[r] /\ hKey'[r] = hKey[r] /\ hNext'[r] = hNext[r] /\ hSid'[r] = hSid[r]
                 /\ hCount'[r] = hCount[r]
  BY <1>2, <1>3, <1>6, <1>7, <1>9 DEF ExchangeStep, HsShape
<1>13. hEph'[p] = hCount[p]
  BY <1>11, <1>12 DEF HsShape
<1>14. ReadsDone(p, n) \in Nat
  BY <1>3 DEF ReadsDone, SendsDone
<1>15. WRound(p)' = WRound(p) /\ WSlot(p)' = WSlot(p)
  BY <1>2, <1>3, <1>9, <1>12 DEF WRound, WSlot
<1>16. RRound(p)' = hCount[p] - 1 /\ RSlot(p)' = ReadsDone(p, n) + 2
  BY <1>2, <1>3, <1>9, <1>12, <1>14 DEF RRound, RSlot
<1>17. LoopsInv(p)'
  <2>1. n + 1 \in 0..(2 * Turns(KexAlg)) /\ RRound(p)' = RRound(p) /\ hRead[p] = "kex"
    BY <1>3, <1>4, <1>8, <1>16 DEF LoopsInv
  <2> QED BY <1>1, <1>3, <1>12, <1>13, <2>1 DEF LoopsInv
<1>18. KeysInv(p)'
  BY <1>1, <1>8, <1>12, <1>15, <1>16 DEF KeysInv
<1>19. After(KexAlg, m) = <<hCount[p] - 1, ReadsDone(p, n) + 2>>
  BY <1>7, <1>8, <1>10, <1>14 DEF After
<1> QED BY <1>6, <1>10, <1>12, <1>15, <1>16, <1>17, <1>18, <1>19 DEF RPlace, WPlace

(* The exchange is over: both sides have hashed the same.                   *)
LEMMA SendNewKeysSide ==
    ASSUME NEW p \in HsSides, HsShape, LoopsInv(p), KeysInv(p), SendNewKeys(p)
    PROVE  /\ LoopsInv(p)' /\ KeysInv(p)' /\ RPlace(p)' = RPlace(p)
           /\ Pushed(p, Packet(p, "newkeys", 0))
           /\ hKey[p].w = KeyOf(KexAlg, p, hCount[p] - 1) /\ hCount[p] > 0
           /\ WPlace(p) = <<hCount[p] - 1, Turns(KexAlg) + 1>> /\ WPlace(p)' = <<hCount[p], 0>>
<1>1. KexAlg' = KexAlg /\ KexAlg \in HsAlgs
  BY AgreedIsKnown DEF KexAlg, SendNewKeys, HsShape
<1>2. PICK k : k = hCount[p]
  OBVIOUS
<1>3. /\ k \in Nat /\ hKex[p] = "exchange" /\ hSent[p] = k /\ k # 0
      /\ hOther[p] = k /\ hStart[p] = 0 /\ hStep[p] = Len(Script(p))
  BY <1>2 DEF HsShape, LoopsInv, SendNewKeys
<1>4. Turns(KexAlg) \in Nat \ {0} /\ hStep[p] = 2 * Turns(KexAlg)
  BY <1>1, <1>3, Exchanges DEF Script, Turns
<1>5. SendsDone(p, hStep[p]) = Turns(KexAlg) /\ ReadsDone(p, hStep[p]) = Turns(KexAlg)
  BY <1>1, <1>4, Exchanges
<1>6. hEph[p] = k
  BY <1>2, <1>3, <1>4, <1>5 DEF LoopsInv
<1>7. ExchangeHash(p) = Hash(KexAlg, k)
  BY <1>3, <1>6 DEF ExchangeHash, Hash
<1>8. /\ WRound(p) = k - 1 /\ WSlot(p) = Turns(KexAlg) + 1
      /\ RRound(p) = k - 1 /\ RSlot(p) = Turns(KexAlg) + 1
  BY <1>2, <1>3, <1>5 DEF WRound, WSlot, RRound, RSlot
<1>9. (IF hSid[p] = <<>> THEN Hash(KexAlg, k) ELSE hSid[p]) = Hash(KexAlg, 1)
  <2>1. Hash(KexAlg, 1) # <<>>
    BY DEF Hash
  <2>2. CASE k = 1
    BY <1>8, <2>2 DEF KeysInv
  <2>3. CASE k # 1
    <3>1. hSid[p] = Hash(KexAlg, 1)
      BY <1>3, <1>8, <2>3 DEF KeysInv
    <3> QED BY <2>1, <3>1
  <2> QED BY <2>2, <2>3
<1>10. /\ hSid' = [hSid EXCEPT ![p] = Hash(KexAlg, 1)]
       /\ hNext' = [hNext EXCEPT ![p].r = CipherOf(Other(p), Hash(KexAlg, k), Hash(KexAlg, 1))]
       /\ hKey' = [hKey EXCEPT ![p].w = CipherOf(p, Hash(KexAlg, k), Hash(KexAlg, 1))]
       /\ hKex' = [hKex EXCEPT ![p] = "newkeys"]
       /\ Pushed(p, Packet(p, "newkeys", 0))
       /\ UNCHANGED <<hRead, hStep, hSent, hStart, hOther, hEph, hCount>>
  BY <1>7, <1>9 DEF SendNewKeys
<1>11. hSid'[p] = Hash(KexAlg, 1) /\ hKex'[p] = "newkeys"
  BY <1>10 DEF HsShape
<1>12. \A r \in HsSides : KeyOf(KexAlg, r, k) = CipherOf(r, Hash(KexAlg, k), Hash(KexAlg, 1))
  BY <1>3 DEF KeyOf
<1>13. Other(p) \in HsSides
  BY TwoSides
<1>14. hKey'[p] = [w |-> KeyOf(KexAlg, p, k), r |-> KeyOf(KexAlg, Other(p), k - 1)]
  <2>1. hKey[p] = [w |-> KeyOf(KexAlg, p, k - 1), r |-> KeyOf(KexAlg, Other(p), k - 1)]
    BY <1>8 DEF KeysInv
  <2> QED BY <1>10, <1>12, <2>1 DEF HsShape
<1>15. hNext'[p] = [w |-> NoKey, r |-> KeyOf(KexAlg, Other(p), k)]
  <2>1. hNext[p] = [w |-> NoKey, r |-> hNext[p].r]
    BY DEF KeysInv
  <2>2. hNext'[p] = [hNext[p] EXCEPT !.r = KeyOf(KexAlg, Other(p), k)]
    BY <1>10, <1>12, <1>13 DEF HsShape
  <2> QED BY <2>1, <2>2
<1>16. WRound(p)' = k /\ WSlot(p)' = 0 /\ RRound(p)' = k - 1 /\ RSlot(p)' = Turns(KexAlg) + 1
  BY <1>2, <1>3, <1>5, <1>10, <1>11 DEF WRound, WSlot, RRound, RSlot
<1>17. LoopsInv(p)'
  BY <1>1, <1>2, <1>3, <1>4, <1>6, <1>8, <1>10, <1>11, <1>16 DEF LoopsInv
<1>18. KeysInv(p)'
  BY <1>1, <1>2, <1>3, <1>10, <1>11, <1>14, <1>15, <1>16 DEF KeysInv
<1>19. hKey[p].w = KeyOf(KexAlg, p, k - 1)
  BY <1>8 DEF KeysInv
<1> QED BY <1>2, <1>3, <1>8, <1>10, <1>16, <1>17, <1>18, <1>19 DEF RPlace, WPlace

(* The peer's NEWKEYS is read, and what follows it with the new key.        *)
LEMMA ReadNewKeysSide ==
    ASSUME NEW p \in HsSides, HsShape, LoopsInv(p), KeysInv(p), ReadNewKeys(p), Expected(p, Next1(p))
    PROVE  /\ LoopsInv(p)' /\ KeysInv(p)' /\ WPlace(p)' = WPlace(p) /\ UNCHANGED hErr
           /\ Arrived(p) /\ Consumed(p) /\ RPlace(p)' = After(KexAlg, Next1(p)) /\ Next1(p).t # "data"
<1>1. KexAlg' = KexAlg
  BY DEF KexAlg, ReadNewKeys
<1>2. PICK k : k = hCount[p]
  OBVIOUS
<1>3. PICK m : m = Next1(p)
  OBVIOUS
<1>4. /\ k \in Nat /\ hKex[p] = "newkeys" /\ hSent[p] = k /\ k # 0
      /\ hOther[p] = k /\ hStart[p] = 0 /\ hStep[p] = 2 * Turns(KexAlg) /\ KexAlg \in HsAlgs
  BY <1>2 DEF HsShape, LoopsInv, ReadNewKeys
<1>5. ReadsDone(p, hStep[p]) = Turns(KexAlg) /\ Turns(KexAlg) \in Nat \ {0}
  <2>1. Turns(KexAlg) \in Nat \ {0}
    BY DEF Turns
  <2> QED BY <1>4, <2>1, Exchanges
<1>6. RRound(p) = k - 1 /\ RSlot(p) = Turns(KexAlg) + 1 /\ WRound(p) = k /\ WSlot(p) = 0
  BY <1>2, <1>4, <1>5 DEF RRound, RSlot, WRound, WSlot
<1>7. m.key = hKey[p].r /\ Epoch(m) = k - 1 /\ Slot(KexAlg, m.t) = Turns(KexAlg) + 1 /\ Good(KexAlg, Other(p), m)
  BY <1>3, <1>6, KeyFits DEF Expected
<1>8. m.t = "newkeys"
  BY <1>7 DEF Good, Slot, SendsOf, Turns
<1>9. /\ hKey' = [hKey EXCEPT ![p].r = hNext[p].r]
      /\ hKex' = [hKex EXCEPT ![p] = "finish"]
      /\ Arrived(p) /\ Consumed(p) /\ UNCHANGED hErr
      /\ UNCHANGED <<hRead, hStep, hSent, hStart, hOther, hEph, hNext, hSid, hCount>>
  BY <1>3, <1>7, <1>8 DEF ReadNewKeys
<1>10. hKex'[p] = "finish"
  BY <1>9 DEF HsShape
<1>11. hKey'[p] = [w |-> KeyOf(KexAlg, p, k), r |-> KeyOf(KexAlg, Other(p), k)]
  <2>1. hKey[p] = [w |-> KeyOf(KexAlg, p, k), r |-> KeyOf(KexAlg, Other(p), k - 1)]
    BY <1>6 DEF KeysInv
  <2>2. hNext[p].r = KeyOf(KexAlg, Other(p), k)
    BY <1>2, <1>4 DEF KeysInv
  <2>3. hKey'[p] = [hKey[p] EXCEPT !.r = KeyOf(KexAlg, Other(p), k)]
    BY <1>9, <2>2 DEF HsShape
  <2> QED BY <2>1, <2>3
<1>12. WRound(p)' = k /\ WSlot(p)' = 0 /\ RRound(p)' = k /\ RSlot(p)' = 0
  BY <1>2, <1>4, <1>9, <1>10 DEF WRound, WSlot, RRound, RSlot
<1>13. LoopsInv(p)'
  BY <1>1, <1>2, <1>4, <1>5, <1>9, <1>10, <1>12 DEF LoopsInv
<1>14. KeysInv(p)'
  BY <1>1, <1>4, <1>6, <1>9, <1>10, <1>11, <1>12 DEF KeysInv
<1>15. After(KexAlg, m) = <<k, 0>>
  BY <1>4, <1>7, <1>8 DEF After
<1> QED BY <1>3, <1>6, <1>8, <1>9, <1>12, <1>13, <1>14, <1>15 DEF RPlace, WPlace

(* An iteration of kexLoop ends, and readLoop reads on.                     *)
LEMMA FinishSide ==
    ASSUME NEW p \in HsSides, HsShape, LoopsInv(p), KeysInv(p), FinishKex(p)
    PROVE  /\ LoopsInv(p)' /\ KeysInv(p)' /\ WPlace(p)' = WPlace(p) /\ RPlace(p)' = RPlace(p)
           /\ WPlace(p) = <<hCount[p], 0>> /\ hKey[p].w = KeyOf(KexAlg, p, hCount[p]) /\ hCount[p] > 0
<1>1. KexAlg' = KexAlg
  BY DEF KexAlg, FinishKex
<1>2. /\ hCount[p] \in Nat /\ hKex[p] = "finish" /\ hSent[p] = hCount[p] /\ hCount[p] # 0
      /\ hOther[p] = hCount[p] /\ hStart[p] = 0
  BY DEF HsShape, LoopsInv, FinishKex
<1>3. /\ hSent'[p] = 0 /\ hOther'[p] = 0 /\ hStep'[p] = 0 /\ hRead'[p] = "read" /\ hKex'[p] = "select"
      /\ UNCHANGED <<hStart, hEph, hNext, hSid, hCount, hKey>>
  BY DEF FinishKex, HsShape, Released
<1>4. WRound(p) = hCount[p] /\ WSlot(p) = 0 /\ RRound(p) = hCount[p] /\ RSlot(p) = 0
  BY <1>2 DEF WRound, WSlot, RRound, RSlot
<1>5. WRound(p)' = hCount[p] /\ WSlot(p)' = 0 /\ RRound(p)' = hCount[p] /\ RSlot(p)' = 0
  BY <1>2, <1>3 DEF WRound, WSlot, RRound, RSlot
<1>6. Turns(KexAlg) \in Nat
  BY DEF Turns
<1>7. LoopsInv(p)'
  BY <1>1, <1>2, <1>3, <1>5, <1>6 DEF LoopsInv
<1>8. KeysInv(p)'
  BY <1>1, <1>3, <1>4, <1>5 DEF KeysInv
<1>9. hKey[p].w = KeyOf(KexAlg, p, hCount[p])
  BY <1>4 DEF KeysInv
<1> QED BY <1>2, <1>4, <1>5, <1>7, <1>8, <1>9 DEF RPlace, WPlace

(* readLoop gets a KEXINIT, or data and not as its first packet.            *)
LEMMA ReadOneSide ==
    ASSUME NEW p \in HsSides, HsShape, LoopsInv(p), KeysInv(p), ReadOnePacket(p), Expected(p, Next1(p))
    PROVE  /\ LoopsInv(p)' /\ KeysInv(p)' /\ WPlace(p)' = WPlace(p) /\ UNCHANGED hErr
           /\ RPlace(p)' = After(KexAlg, Next1(p))
           /\ \/ /\ Next1(p).t = "kexinit" /\ UNCHANGED hIn
                 /\ hStart' = [hStart EXCEPT ![p] = Next1(p).val]
                 /\ hRead' = [hRead EXCEPT ![p] = "kex"]
              \/ /\ Next1(p).t = "data" /\ UNCHANGED <<hStart, hRead>>
                 /\ hIn' = [hIn EXCEPT ![p] = Append(@, Next1(p).val)]
<1>1. KexAlg' = KexAlg
  BY DEF KexAlg, ReadOnePacket
<1>2. PICK m : m = Next1(p)
  OBVIOUS
<1>3. /\ hRead[p] \in {"first", "read"} /\ hStart[p] = 0 /\ hOther[p] = 0 /\ hKex[p] = "select" /\ hStep[p] = 0
      /\ hCount[p] \in Nat /\ hSent[p] \in {0, hCount[p]}
  BY DEF ReadOnePacket, LoopsInv, HsShape
<1>4. RSlot(p) = 0 /\ RRound(p) \in Int
  BY <1>3 DEF RSlot, RRound
<1>5. m.key = hKey[p].r /\ Epoch(m) = RRound(p) /\ Slot(KexAlg, m.t) = 0 /\ Good(KexAlg, Other(p), m)
  BY <1>2, <1>4, KeyFits DEF Expected
<1>6. m.t \in {"kexinit", "data"}
  BY <1>5 DEF Slot, Turns
<1>7. UNCHANGED <<hKex, hStep, hSent, hOther, hEph, hNext, hSid, hCount, hKey>>
  BY DEF ReadOnePacket
<1>8. CASE m.t = "kexinit"
  <2>1. /\ hStart' = [hStart EXCEPT ![p] = m.val] /\ hRead' = [hRead EXCEPT ![p] = "kex"]
        /\ UNCHANGED <<hIn, hErr>>
    BY <1>2, <1>5, <1>8 DEF ReadOnePacket
  <2>2. m.val = RRound(p) + 1
    BY <1>5, <1>8 DEF Good
  <2>3. hStart'[p] = RRound(p) + 1 /\ hRead'[p] = "kex" /\ hStart'[p] # 0
    BY <1>4, <1>5, <2>1, <2>2 DEF HsShape, Good
  <2>4. RRound(p) = IF hSent[p] = 0 THEN hCount[p] ELSE hCount[p] - 1
    BY <1>3 DEF RRound
  <2>5. RRound(p)' = RRound(p) /\ WRound(p)' = WRound(p) /\ WSlot(p)' = WSlot(p)
    BY <1>7 DEF RRound, WRound, WSlot
  <2>6. ReadsDone(p, 0) = 0
    BY DEF ReadsDone, SendsDone
  <2>7. RSlot(p)' = 1
    BY <1>3, <1>7, <2>3, <2>6 DEF RSlot
  <2>8. LoopsInv(p)'
    BY <1>1, <1>3, <1>7, <2>3, <2>4, <2>5, <2>6 DEF LoopsInv
  <2>9. KeysInv(p)'
    BY <1>1, <1>7, <2>5 DEF KeysInv
  <2>10. After(KexAlg, m) = <<RRound(p), 1>>
    BY <1>5, <1>8 DEF After
  <2> QED BY <1>2, <1>8, <2>1, <2>5, <2>7, <2>8, <2>9, <2>10 DEF RPlace, WPlace
<1>9. CASE m.t = "data"
  <2>1. RRound(p) > 0 /\ hRead[p] = "read"
    BY <1>3, <1>4, <1>5, <1>9 DEF Good, LoopsInv
  <2>2. hIn' = [hIn EXCEPT ![p] = Append(@, m.val)] /\ UNCHANGED <<hRead, hStart, hErr>>
    BY <1>2, <1>5, <1>9, <2>1 DEF ReadOnePacket
  <2>3. SideSame(p) /\ hConf' = hConf
    BY <1>7, <2>2 DEF SideSame, ReadOnePacket
  <2>4. After(KexAlg, m) = RPlace(p)
    BY <1>4, <1>5, <1>9 DEF After, At, RPlace
  <2> QED BY <1>2, <1>9, <2>2, <2>3, <2>4, SideStays
<1> QED BY <1>6, <1>8, <1>9
------------------------------------------------------------------------------
(* Data on the way: the packets of w carry the numbers after r up to g, in  *)
(* their order.                                                             *)
IsData(w, i) == i \in 1..Len(w) /\ w[i].t = "data"
OnWay(w, r, g) ==
    /\ \A i : IsData(w, i) => w[i].val \in (r + 1)..g
    /\ \A v \in (r + 1)..g : \E i : IsData(w, i) /\ w[i].val = v
    /\ \A i, j : IsData(w, i) /\ IsData(w, j) /\ i < j => w[i].val < w[j].val

(* HsInOrder, in this form.                                                 *)
Delivered(w, in, pend, out) ==
    /\ \A i \in 1..Len(in) : in[i] = i
    /\ \A i \in 1..Len(pend) : pend[i] = (out - Len(pend)) + i
    /\ OnWay(w, Len(in), out - Len(pend))

DataOf(w) == {i \in 1..Len(w) : w[i].t = "data"}

(* The same as sets of numbers, as HsInOrder has it.                        *)
LEMMA WayMeans ==
    ASSUME NEW w, NEW r, NEW g
    PROVE  OnWay(w, r, g) <=> /\ {w[i].val : i \in DataOf(w)} = (r + 1)..g
                              /\ \A i, j \in DataOf(w) : i < j => w[i].val < w[j].val
<1>1. PICK S : S = (r + 1)..g
  OBVIOUS
<1>2. \A i : IsData(w, i) <=> i \in DataOf(w)
  BY DEF IsData, DataOf
<1>3. (/\ \A i : IsData(w, i) => w[i].val \in S
       /\ \A v \in S : \E i : IsData(w, i) /\ w[i].val = v)
      <=> {w[i].val : i \in DataOf(w)} = S
  BY <1>2
<1>4. (\A i, j : IsData(w, i) /\ IsData(w, j) /\ i < j => w[i].val < w[j].val)
      <=> \A i, j \in DataOf(w) : i < j => w[i].val < w[j].val
  BY <1>2
<1> QED BY <1>1, <1>3, <1>4 DEF OnWay

(* HsInOrder is Delivered in both directions.                               *)
LEMMA InOrderMeans ==
    /\ HsInOrder <=> \A p \in HsSides : hUp = "up" => Delivered(hWire[p], hIn[Other(p)], hPend[p], hOut[p])
    /\ HsInOrder' <=> \A p \in HsSides : hUp' = "up" => Delivered(hWire'[p], hIn'[Other(p)], hPend'[p], hOut'[p])
<1>1. HsInOrder <=> \A p \in HsSides : hUp = "up" => Delivered(hWire[p], hIn[Other(p)], hPend[p], hOut[p])
  BY WayMeans DEF HsInOrder, Delivered, DataOf
<1>2. HsInOrder' <=> \A p \in HsSides : hUp' = "up" => Delivered(hWire'[p], hIn'[Other(p)], hPend'[p], hOut'[p])
  BY WayMeans DEF HsInOrder, Delivered, DataOf
<1> QED BY <1>1, <1>2

(* The next number is written.                                              *)
LEMMA WaySend ==
    ASSUME NEW S, NEW w \in Seq(S), NEW m \in S, NEW r \in Nat, NEW g \in Nat, OnWay(w, r, g), r <= g,
           m.t = "data", m.val = g + 1
    PROVE  OnWay(Append(w, m), r, g + 1)
<1>1. PICK n : n = Len(w)
  OBVIOUS
<1>2. PICK v : v = Append(w, m)
  OBVIOUS
<1>3. n \in Nat /\ v \in Seq(S) /\ Len(v) = n + 1 /\ v[n + 1] = m /\ \A i \in 1..n : v[i] = w[i]
  BY <1>1, <1>2
<1>4. \A i : IsData(v, i) <=> IsData(w, i) \/ i = n + 1
  BY <1>1, <1>3 DEF IsData
<1>5. \A i : IsData(w, i) => i \in 1..n /\ v[i] = w[i] /\ w[i].val \in (r + 1)..g
  BY <1>1, <1>3 DEF IsData, OnWay
<1>6. ASSUME NEW i, IsData(v, i) PROVE v[i].val \in (r + 1)..(g + 1)
  BY <1>3, <1>4, <1>5, <1>6
<1>7. ASSUME NEW x \in (r + 1)..(g + 1) PROVE \E i : IsData(v, i) /\ v[i].val = x
  <2>1. CASE x = g + 1
    BY <1>3, <1>4, <2>1
  <2>2. CASE x \in (r + 1)..g
    BY <1>4, <1>5, <2>2 DEF OnWay
  <2> QED BY <2>1, <2>2
<1>8. ASSUME NEW i, NEW j, IsData(v, i), IsData(v, j), i < j PROVE v[i].val < v[j].val
  <2>1. IsData(w, i)
    BY <1>3, <1>4, <1>5, <1>8
  <2>2. CASE IsData(w, j)
    BY <1>5, <1>8, <2>1, <2>2 DEF OnWay
  <2>3. CASE j = n + 1
    BY <1>3, <1>5, <2>1, <2>3
  <2> QED BY <1>4, <1>8, <2>2, <2>3
<1> QED BY <1>2, <1>6, <1>7, <1>8 DEF OnWay

(* A packet of an exchange is written.                                      *)
LEMMA WayOther ==
    ASSUME NEW S, NEW w \in Seq(S), NEW m \in S, NEW r, NEW g, OnWay(w, r, g), m.t # "data"
    PROVE  OnWay(Append(w, m), r, g)
<1>1. PICK n : n = Len(w)
  OBVIOUS
<1>2. PICK v : v = Append(w, m)
  OBVIOUS
<1>3. n \in Nat /\ v \in Seq(S) /\ Len(v) = n + 1 /\ v[n + 1] = m /\ \A i \in 1..n : v[i] = w[i]
  BY <1>1, <1>2
<1>4. \A i : IsData(v, i) <=> IsData(w, i)
  BY <1>1, <1>3 DEF IsData
<1>5. \A i : IsData(w, i) => v[i] = w[i]
  BY <1>1, <1>3 DEF IsData
<1>6. PICK B : B = (r + 1)..g
  OBVIOUS
<1>7. /\ \A i : IsData(w, i) => w[i].val \in B
      /\ \A x \in B : \E i : IsData(w, i) /\ w[i].val = x
      /\ \A i, j : IsData(w, i) /\ IsData(w, j) /\ i < j => w[i].val < w[j].val
  BY <1>6 DEF OnWay
<1>8. /\ \A i : IsData(v, i) => v[i].val \in B
      /\ \A x \in B : \E i : IsData(v, i) /\ v[i].val = x
      /\ \A i, j : IsData(v, i) /\ IsData(v, j) /\ i < j => v[i].val < v[j].val
  BY <1>4, <1>5, <1>7
<1> QED BY <1>2, <1>6, <1>8 DEF OnWay

(* The first packet is read: if it is data it is the next number.           *)
LEMMA WayRead ==
    ASSUME NEW S, NEW w \in Seq(S), w # <<>>, NEW r \in Nat, NEW g \in Int, OnWay(w, r, g)
    PROVE  /\ Head(w).t = "data" => Head(w).val = r + 1 /\ r + 1 <= g /\ OnWay(Tail(w), r + 1, g)
           /\ Head(w).t # "data" => OnWay(Tail(w), r, g)
<1>1. PICK n : n = Len(w)
  OBVIOUS
<1>2. PICK v : v = Tail(w)
  OBVIOUS
<1>3. n \in Nat /\ n > 0 /\ v \in Seq(S) /\ Len(v) = n - 1 /\ Head(w) = w[1] /\ \A i \in 1..(n - 1) : v[i] = w[i + 1]
  BY <1>1, <1>2
<1>4. \A i \in Int : IsData(v, i) <=> IsData(w, i + 1) /\ i # 0
  BY <1>1, <1>3 DEF IsData
<1>5. \A i : IsData(v, i) => i \in Int /\ v[i] = w[i + 1] /\ i + 1 > 1
  BY <1>1, <1>3 DEF IsData
<1>6. \A i : IsData(w, i) => i \in Int /\ i >= 1 /\ w[i].val \in (r + 1)..g
  BY DEF IsData, OnWay
<1>11. \A i, j : IsData(w, i) /\ IsData(w, j) /\ i < j => w[i].val < w[j].val
  BY DEF OnWay
<1>7. ASSUME NEW i, NEW j, IsData(v, i), IsData(v, j), i < j PROVE v[i].val < v[j].val
  <2>1. i \in Int /\ j \in Int /\ v[i] = w[i + 1] /\ v[j] = w[j + 1]
    BY <1>5, <1>7
  <2>2. IsData(w, i + 1) /\ IsData(w, j + 1) /\ i + 1 < j + 1
    BY <1>4, <1>7, <2>1
  <2> QED BY <1>11, <2>1, <2>2
<1>8. \A i : IsData(w, i) /\ i # 1 => i - 1 \in Int /\ IsData(v, i - 1) /\ v[i - 1].val = w[i].val
  <2>1. ASSUME NEW i, IsData(w, i), i # 1 PROVE i - 1 \in Int /\ IsData(v, i - 1) /\ v[i - 1].val = w[i].val
    <3>1. i \in Int /\ i - 1 \in Int /\ i - 1 # 0 /\ (i - 1) + 1 = i
      BY <1>6, <2>1
    <3>2. IsData(v, i - 1)
      BY <1>4, <2>1, <3>1
    <3> QED BY <1>5, <3>1, <3>2
  <2> QED BY <2>1
<1>9. CASE Head(w).t # "data"
  <2>1. ~IsData(w, 1)
    BY <1>3, <1>9 DEF IsData
  <2>2. \A i : IsData(v, i) => v[i].val \in (r + 1)..g
    BY <1>4, <1>5, <1>6
  <2>3. \A x \in (r + 1)..g : \E i : IsData(v, i) /\ v[i].val = x
    <3>1. ASSUME NEW x \in (r + 1)..g PROVE \E i : IsData(v, i) /\ v[i].val = x
      <4>1. PICK i : IsData(w, i) /\ w[i].val = x
        BY DEF OnWay
      <4> QED BY <1>8, <2>1, <4>1
    <3> QED BY <3>1
  <2> QED BY <1>2, <1>7, <1>9, <2>2, <2>3 DEF OnWay
<1>10. CASE Head(w).t = "data"
  <2>1. IsData(w, 1)
    BY <1>1, <1>3, <1>10 DEF IsData
  <2>2. PICK h : h = w[1].val
    OBVIOUS
  <2>3. h \in (r + 1)..g /\ r + 1 <= g
    BY <1>6, <2>1, <2>2
  <2>4. h = r + 1
    <3>1. PICK i : IsData(w, i) /\ w[i].val = r + 1
      BY <2>3 DEF OnWay
    <3>2. i # 1 => h < r + 1
      <4>1. i # 1 => 1 < i
        BY <1>6, <3>1
      <4> QED BY <1>11, <2>1, <2>2, <3>1, <4>1
    <3> QED BY <2>2, <2>3, <3>1, <3>2
  <2>5. ASSUME NEW i, IsData(v, i) PROVE v[i].val \in ((r + 1) + 1)..g
    <3>1. IsData(w, i + 1) /\ v[i] = w[i + 1] /\ i + 1 > 1 /\ i + 1 \in Int
      BY <1>4, <1>5, <2>5
    <3>2. PICK x : x = w[i + 1].val
      OBVIOUS
    <3>3. x \in (r + 1)..g
      BY <1>6, <3>1, <3>2
    <3>4. h < x
      BY <2>1, <2>2, <3>1, <3>2 DEF OnWay
    <3> QED BY <2>4, <3>1, <3>2, <3>3, <3>4
  <2>6. ASSUME NEW x \in ((r + 1) + 1)..g PROVE \E i : IsData(v, i) /\ v[i].val = x
    <3>1. x \in (r + 1)..g /\ x # r + 1
      OBVIOUS
    <3>2. PICK i : IsData(w, i) /\ w[i].val = x
      BY <3>1 DEF OnWay
    <3>3. i # 1
      BY <2>2, <2>4, <3>1, <3>2
    <3> QED BY <1>8, <3>2, <3>3
  <2> QED BY <1>2, <1>3, <1>7, <1>10, <2>2, <2>3, <2>4, <2>5, <2>6 DEF OnWay
<1> QED BY <1>9, <1>10

(* What had to wait is written.                                             *)
LEMMA WayFlush ==
    ASSUME NEW S, NEW w \in Seq(S), NEW f \in Seq(S), NEW r \in Nat, NEW g \in Nat, OnWay(w, r, g), r <= g,
           \A i \in 1..Len(f) : f[i].t = "data" /\ f[i].val = g + i
    PROVE  OnWay(w \o f, r, g + Len(f))
<1>1. PICK n : n = Len(w)
  OBVIOUS
<1>2. PICK k : k = Len(f)
  OBVIOUS
<1>3. PICK v : v = w \o f
  OBVIOUS
<1>4. /\ n \in Nat /\ k \in Nat /\ v \in Seq(S) /\ Len(v) = n + k
      /\ \A i \in 1..n : v[i] = w[i]
      /\ \A i \in 1..(n + k) : i > n => v[i] = f[i - n]
  BY <1>1, <1>2, <1>3
<1>5. \A i : IsData(w, i) => i \in 1..n /\ IsData(v, i) /\ v[i] = w[i] /\ v[i].val \in (r + 1)..g
  <2>1. \A i : IsData(w, i) => i \in 1..n /\ IsData(v, i) /\ v[i] = w[i]
    BY <1>1, <1>4 DEF IsData
  <2>2. \A i : IsData(w, i) => w[i].val \in (r + 1)..g
    BY DEF OnWay
  <2> QED BY <2>1, <2>2
<1>6. \A i \in (n + 1)..(n + k) : IsData(v, i) /\ v[i].val = g + (i - n)
  <2>1. ASSUME NEW i \in (n + 1)..(n + k) PROVE IsData(v, i) /\ v[i].val = g + (i - n)
    <3>1. i - n \in 1..k /\ i \in 1..(n + k) /\ i > n
      BY <1>4
    <3>2. v[i] = f[i - n] /\ f[i - n].t = "data" /\ f[i - n].val = g + (i - n)
      BY <1>2, <1>4, <3>1
    <3> QED BY <1>4, <3>1, <3>2 DEF IsData
  <2> QED BY <2>1
<1>7. \A i : IsData(v, i) => IsData(w, i) \/ i \in (n + 1)..(n + k)
  BY <1>1, <1>4 DEF IsData
<1>8. ASSUME NEW i, IsData(v, i) PROVE v[i].val \in (r + 1)..(g + k)
  <2>1. CASE IsData(w, i)
    BY <1>4, <1>5, <2>1
  <2>2. CASE i \in (n + 1)..(n + k)
    BY <1>4, <1>6, <2>2
  <2> QED BY <1>7, <1>8, <2>1, <2>2
<1>9. ASSUME NEW x \in (r + 1)..(g + k) PROVE \E i : IsData(v, i) /\ v[i].val = x
  <2>1. CASE x \in (r + 1)..g
    BY <1>5, <2>1 DEF OnWay
  <2>2. CASE x > g
    <3>1. n + (x - g) \in (n + 1)..(n + k) /\ (n + (x - g)) - n = x - g /\ g + (x - g) = x
      BY <1>4, <2>2
    <3> QED BY <1>6, <3>1
  <2> QED BY <2>1, <2>2
<1>10. ASSUME NEW i, NEW j, IsData(v, i), IsData(v, j), i < j PROVE v[i].val < v[j].val
  <2>1. CASE IsData(w, i) /\ IsData(w, j)
    BY <1>5, <1>10, <2>1 DEF OnWay
  <2>2. CASE IsData(w, i) /\ j \in (n + 1)..(n + k)
    <3>1. v[i].val \in (r + 1)..g /\ v[j].val = g + (j - n) /\ j - n > 0 /\ j - n \in Int
      BY <1>4, <1>5, <1>6, <2>2
    <3> QED BY <3>1
  <2>3. CASE i \in (n + 1)..(n + k)
    <3>1. j \in (n + 1)..(n + k)
      BY <1>4, <1>5, <1>7, <1>10, <2>3
    <3>2. v[i].val = g + (i - n) /\ v[j].val = g + (j - n)
      BY <1>6, <2>3, <3>1
    <3> QED BY <1>4, <1>10, <2>3, <3>1, <3>2
  <2> QED BY <1>7, <1>10, <2>1, <2>2, <2>3
<1> QED BY <1>2, <1>3, <1>8, <1>9, <1>10 DEF OnWay
------------------------------------------------------------------------------
(* The wires.                                                               *)

(* Nothing is written or read.                                              *)
LEMMA WireStays ==
    ASSUME NEW r \in HsSides, HsShape, WireInv(r), hConf' = hConf, hWire'[r] = hWire[r],
           RPlace(Other(r))' = RPlace(Other(r)), WPlace(r)' = WPlace(r), hCount'[r] = hCount[r]
    PROVE  WireInv(r)'
<1>1. KexAlg' = KexAlg
  BY DEF KexAlg
<1> QED BY <1>1 DEF WireInv

(* What is written fits: its key, its cookie and its place are those of the *)
(* writer.                                                                  *)
Fits(p, t, val, e) ==
    /\ e \in Nat /\ val \in Nat /\ hKey[p].w = KeyOf(KexAlg, p, e) /\ WPlace(p) = <<e, Slot(KexAlg, t)>>
    /\ t \in {"kexinit", "data", "newkeys"} \cup SendsOf(KexAlg, p)
    /\ t \notin {"data", "newkeys"} => val = e + 1
    /\ t = "data" => e > 0

(* The packet it makes is good, at the place of its writer.                 *)
LEMMA FitsIsGood ==
    ASSUME NEW p \in HsSides, NEW t, NEW val, NEW e, Fits(p, t, val, e)
    PROVE  LET m == Packet(p, t, val) IN
           /\ m \in HsPackets /\ m.t = t /\ m.val = val
           /\ Good(KexAlg, p, m) /\ At(KexAlg, m) = WPlace(p)
           /\ After(KexAlg, m) = IF t = "data" THEN WPlace(p) ELSE IF t = "newkeys" THEN <<e + 1, 0>>
                                 ELSE <<e, Slot(KexAlg, t) + 1>>
<1>1. PICK m : m = Packet(p, t, val)
  OBVIOUS
<1>2. m = [t |-> t, val |-> val, key |-> KeyOf(KexAlg, p, e)]
  BY <1>1 DEF Packet, Fits
<1>3. m.t = t /\ m.val = val /\ m.key = KeyOf(KexAlg, p, e)
  BY <1>2
<1>4. Epoch(m) = e
  BY <1>3, HashNames DEF Fits
<1>5. t \in HsTypes
  BY DEF Fits, SendsOf, HsTypes
<1>6. KeyOf(KexAlg, p, e) \in HsKeys
  BY DEF HsKeys, Fits
<1>7. m \in HsPackets
  BY <1>2, <1>5, <1>6 DEF HsPackets, Fits
<1>8. Good(KexAlg, p, m)
  BY <1>3, <1>4 DEF Good, Fits
<1> QED BY <1>1, <1>3, <1>4, <1>7, <1>8 DEF At, After, Fits

(* A side writes.                                                           *)
Writes(p, t, val, e) ==
    /\ Fits(p, t, val, e) /\ Pushed(p, Packet(p, t, val)) /\ hConf' = hConf
    /\ RPlace(Other(p))' = RPlace(Other(p))
    /\ WPlace(p)' = IF t = "data" THEN WPlace(p) ELSE IF t = "newkeys" THEN <<e + 1, 0>>
                    ELSE <<e, Slot(KexAlg, t) + 1>>
    /\ hCount'[p] \in Nat /\ hCount[p] <= hCount'[p] /\ (t = "kexinit" => val <= hCount'[p])

(* The chain grows by what is written.                                      *)
LEMMA WireWritten ==
    ASSUME NEW p \in HsSides, NEW t, NEW val, NEW e, HsShape, WireInv(p), Writes(p, t, val, e)
    PROVE  /\ WireInv(p)'
           /\ hWire' \in [HsSides -> Seq(HsPackets)]
           /\ Packet(p, t, val) \in HsPackets
           /\ hWire'[p] = Append(hWire[p], Packet(p, t, val)) /\ hWire'[Other(p)] = hWire[Other(p)]
<1>1. KexAlg' = KexAlg
  BY DEF KexAlg, Writes
<1>2. PICK m : m = Packet(p, t, val)
  OBVIOUS
<1>3. /\ m \in HsPackets /\ m.t = t /\ m.val = val /\ Good(KexAlg, p, m) /\ At(KexAlg, m) = WPlace(p)
      /\ After(KexAlg, m) = WPlace(p)'
  BY <1>2, FitsIsGood DEF Writes
<1>4. hWire[p] \in Seq(HsPackets) /\ hCount[p] \in Nat
  BY DEF HsShape
<1>5. hWire' = [hWire EXCEPT ![p] = Append(hWire[p], m)]
  BY <1>2 DEF Pushed, Writes
<1>6. hWire'[p] = Append(hWire[p], m) /\ hWire'[Other(p)] = hWire[Other(p)]
  BY <1>5, TwoSides DEF HsShape
<1>7. hWire' \in [HsSides -> Seq(HsPackets)]
  <2>1. Append(hWire[p], m) \in Seq(HsPackets)
    BY <1>3, <1>4
  <2> QED BY <1>5, <2>1 DEF HsShape
<1>8. Chain(KexAlg, p, hWire[p], RPlace(Other(p)), WPlace(p))
  BY DEF WireInv
<1>9. Chain(KexAlg, p, hWire'[p], RPlace(Other(p))', WPlace(p)')
  BY <1>3, <1>4, <1>6, <1>8, ChainSend DEF Writes
<1>10. \A i \in 1..Len(hWire'[p]) : hWire'[p][i].t = "kexinit" => hWire'[p][i].val <= hCount'[p]
  <2>1. PICK n : n = Len(hWire[p])
    OBVIOUS
  <2>2. PICK w : w = hWire'[p]
    OBVIOUS
  <2>3. n \in Nat /\ Len(w) = n + 1 /\ w[n + 1] = m /\ \A i \in 1..n : w[i] = hWire[p][i] /\ hWire[p][i].val \in Nat
    <3>1. n \in Nat /\ Len(w) = n + 1 /\ w[n + 1] = m /\ \A i \in 1..n : w[i] = hWire[p][i]
      BY <1>3, <1>4, <1>6, <2>1, <2>2
    <3>2. \A i \in 1..n : hWire[p][i] \in HsPackets
      BY <1>4, <2>1
    <3>3. \A x \in HsPackets : x.val \in Nat
      BY DEF HsPackets
    <3> QED BY <3>1, <3>2, <3>3
  <2>4. \A i \in 1..n : w[i].t = "kexinit" => w[i].val <= hCount[p] /\ w[i].val \in Nat
    BY <2>1, <2>3 DEF WireInv
  <2>5. \A i \in 1..n : w[i].t = "kexinit" => w[i].val <= hCount'[p]
    BY <1>4, <2>4 DEF Writes
  <2> QED BY <1>3, <2>2, <2>3, <2>5 DEF Writes
<1> QED BY <1>1, <1>2, <1>3, <1>6, <1>7, <1>9, <1>10 DEF WireInv

(* What a side finds is what it expects.                                    *)
LEMMA WireHead ==
    ASSUME NEW p \in HsSides, HsShape, WireInv(Other(p)), Arrived(p)
    PROVE  /\ Expected(p, Next1(p))
           /\ Next1(p).t = "kexinit" => Next1(p).val <= hCount[Other(p)]
<1>1. PICK q : q = Other(p)
  OBVIOUS
<1>2. q \in HsSides /\ Other(q) = p /\ hWire[q] \in Seq(HsPackets) /\ hWire[q] # <<>> /\ WireInv(q)
  BY <1>1, TwoSides DEF HsShape, Arrived
<1>3. Good(KexAlg, q, Head(hWire[q])) /\ At(KexAlg, Head(hWire[q])) = RPlace(p)
  BY <1>2, ChainRead DEF WireInv
<1>4. Head(hWire[q]) = hWire[q][1] /\ 1 \in 1..Len(hWire[q]) /\ Head(hWire[q]) \in HsPackets
  BY <1>2
<1>5. Head(hWire[q]).val \in Nat
  BY <1>4 DEF HsPackets
<1>6. Head(hWire[q]).t = "kexinit" => Head(hWire[q]).val <= hCount[q]
  BY <1>2, <1>4 DEF WireInv
<1> QED BY <1>1, <1>3, <1>5, <1>6 DEF Expected, Next1

(* A side reads.                                                            *)
Takes(p) ==
    /\ Arrived(p) /\ Consumed(p) /\ hConf' = hConf
    /\ WPlace(Other(p))' = WPlace(Other(p)) /\ RPlace(p)' = After(KexAlg, Next1(p))
    /\ hCount'[Other(p)] = hCount[Other(p)]

(* The chain loses what is read.                                            *)
LEMMA WireConsumed ==
    ASSUME NEW p \in HsSides, HsShape, WireInv(Other(p)), Takes(p)
    PROVE  /\ WireInv(Other(p))'
           /\ hWire' \in [HsSides -> Seq(HsPackets)]
           /\ hWire'[Other(p)] = Tail(hWire[Other(p)]) /\ hWire'[p] = hWire[p]
<1>1. KexAlg' = KexAlg
  BY DEF KexAlg, Takes
<1>2. PICK q : q = Other(p)
  OBVIOUS
<1>3. /\ q \in HsSides /\ q # p /\ Other(q) = p /\ hWire[q] \in Seq(HsPackets) /\ hWire[q] # <<>> /\ WireInv(q)
      /\ p \in HsSides
  BY <1>2, TwoSides DEF HsShape, Arrived, Takes
<1>4. hWire' = [hWire EXCEPT ![q] = Tail(hWire[q])]
  BY <1>2 DEF Consumed, Takes
<1>5. hWire'[q] = Tail(hWire[q]) /\ hWire'[p] = hWire[p] /\ hWire' \in [HsSides -> Seq(HsPackets)]
  <2>1. Tail(hWire[q]) \in Seq(HsPackets)
    BY <1>3
  <2> QED BY <1>3, <1>4, <2>1 DEF HsShape
<1>6. Chain(KexAlg, q, hWire[q], RPlace(p), WPlace(q))
  BY <1>3 DEF WireInv
<1>7. Chain(KexAlg, q, Tail(hWire[q]), After(KexAlg, Head(hWire[q])), WPlace(q))
  BY <1>3, <1>6, ChainRead
<1>8. Chain(KexAlg, q, hWire'[q], RPlace(p)', WPlace(q)')
  BY <1>2, <1>5, <1>7 DEF Next1, Takes
<1>9. \A i \in 1..Len(hWire'[q]) : hWire'[q][i].t = "kexinit" => hWire'[q][i].val <= hCount'[q]
  <2>1. PICK n : n = Len(hWire[q])
    OBVIOUS
  <2>2. PICK w : w = hWire'[q]
    OBVIOUS
  <2>3. n \in Nat /\ Len(w) = n - 1 /\ \A i \in 1..(n - 1) : w[i] = hWire[q][i + 1]
    BY <1>3, <1>5, <2>1, <2>2
  <2>4. \A i \in 1..(n - 1) : i + 1 \in 1..n
    BY <2>3
  <2>5. \A j \in 1..n : hWire[q][j].t = "kexinit" => hWire[q][j].val <= hCount[q]
    BY <1>3, <2>1 DEF WireInv
  <2> QED BY <1>2, <2>2, <2>3, <2>4, <2>5 DEF Takes
<1> QED BY <1>1, <1>2, <1>3, <1>5, <1>8, <1>9 DEF WireInv
------------------------------------------------------------------------------
(* Application packets, from writePacket to readPacket.                     *)

(* A packet that is not data changes nothing.                               *)
LEMMA DeliverOther ==
    ASSUME NEW S, NEW w \in Seq(S), NEW m \in S, NEW in, NEW pend, NEW out,
           Delivered(w, in, pend, out), m.t # "data"
    PROVE  Delivered(Append(w, m), in, pend, out)
BY WayOther DEF Delivered

(* writePacket, with no exchange under way, writes the next number.         *)
LEMMA DeliverWrite ==
    ASSUME NEW S, NEW w \in Seq(S), NEW m \in S, NEW in \in Seq(Nat), NEW out \in Nat,
           Delivered(w, in, <<>>, out), Len(in) <= out, m.t = "data", m.val = out + 1
    PROVE  Delivered(Append(w, m), in, <<>>, out + 1)
<1>1. PICK r : r = Len(in)
  OBVIOUS
<1>2. r \in Nat /\ r <= out /\ Len(<<>>) = 0 /\ out - 0 = out /\ (out + 1) - 0 = out + 1
  BY <1>1
<1>3. OnWay(w, r, out)
  BY <1>1, <1>2 DEF Delivered
<1>4. OnWay(Append(w, m), r, out + 1)
  BY <1>2, <1>3, WaySend
<1>5. OnWay(Append(w, m), Len(in), (out + 1) - Len(<<>>))
  BY <1>1, <1>2, <1>4
<1>6. \A i \in 1..Len(<<>>) : <<>>[i] = ((out + 1) - Len(<<>>)) + i
  BY <1>2
<1> QED BY <1>5, <1>6 DEF Delivered

(* writePacket, during an exchange, appends it to pendingPackets.           *)
LEMMA DeliverHold ==
    ASSUME NEW w, NEW in, NEW pend \in Seq(Nat), NEW out \in Nat, Delivered(w, in, pend, out)
    PROVE  Delivered(w, in, Append(pend, out + 1), out + 1)
<1>1. PICK n : n = Len(pend)
  OBVIOUS
<1>2. PICK h : h = Append(pend, out + 1)
  OBVIOUS
<1>3. n \in Nat /\ h \in Seq(Nat) /\ Len(h) = n + 1 /\ h[n + 1] = out + 1 /\ \A i \in 1..n : h[i] = pend[i]
  BY <1>1, <1>2
<1>4. \A i \in 1..n : h[i] = (out - n) + i
  BY <1>1, <1>3 DEF Delivered
<1>5. (out + 1) - Len(h) = out - n
  BY <1>3
<1>6. ASSUME NEW i \in 1..Len(h) PROVE h[i] = (out - n) + i
  <2>1. CASE i \in 1..n
    BY <1>4, <2>1
  <2>2. CASE i = n + 1
    BY <1>3, <2>2
  <2> QED BY <1>3, <2>1, <2>2
<1>7. OnWay(w, Len(in), out - n) /\ \A i \in 1..Len(in) : in[i] = i
  BY <1>1 DEF Delivered
<1> QED BY <1>2, <1>5, <1>6, <1>7 DEF Delivered

(* readPacket returns the number after those it has returned.               *)
LEMMA DeliverRead ==
    ASSUME NEW S, NEW w \in Seq(S), w # <<>>, NEW in \in Seq(Nat), NEW pend \in Seq(Nat), NEW out \in Nat,
           Delivered(w, in, pend, out)
    PROVE  /\ Head(w).t = "data" =>
                /\ Delivered(Tail(w), Append(in, Head(w).val), pend, out)
                /\ Len(pend) + Len(Append(in, Head(w).val)) <= out
           /\ Head(w).t # "data" => Delivered(Tail(w), in, pend, out)
<1>1. PICK r : r = Len(in)
  OBVIOUS
<1>2. PICK g : g = out - Len(pend)
  OBVIOUS
<1>3. r \in Nat /\ g \in Int /\ Len(pend) \in Nat
  BY <1>1, <1>2
<1>4. OnWay(w, r, g) /\ \A i \in 1..r : in[i] = i
  BY <1>1, <1>2 DEF Delivered
<1>5. CASE Head(w).t # "data"
  <2>1. OnWay(Tail(w), r, g)
    BY <1>3, <1>4, <1>5, WayRead
  <2> QED BY <1>1, <1>2, <1>5, <2>1 DEF Delivered
<1>6. CASE Head(w).t = "data"
  <2>1. Head(w).val = r + 1 /\ r + 1 <= g /\ OnWay(Tail(w), r + 1, g)
    BY <1>3, <1>4, <1>6, WayRead
  <2>2. PICK k : k = Append(in, Head(w).val)
    OBVIOUS
  <2>3. k = Append(in, r + 1)
    BY <2>1, <2>2
  <2>4. Len(k) = r + 1 /\ k[r + 1] = r + 1 /\ \A i \in 1..r : k[i] = in[i]
    BY <1>1, <1>3, <2>3
  <2>5. \A i \in 1..Len(k) : k[i] = i
    <3>1. \A i \in 1..Len(k) : i \in 1..r \/ i = r + 1
      BY <1>3, <2>4
    <3>2. \A i \in 1..r : k[i] = i
      BY <1>4, <2>4
    <3> QED BY <2>4, <3>1, <3>2
  <2>6. Delivered(Tail(w), k, pend, out)
    BY <1>2, <2>1, <2>4, <2>5 DEF Delivered
  <2>7. Len(pend) + Len(k) <= out
    <3>1. PICK n : n = Len(pend)
      OBVIOUS
    <3>2. n \in Nat /\ r + 1 <= out - n
      BY <1>2, <1>3, <2>1, <3>1
    <3>3. n + (r + 1) <= out
      BY <1>3, <3>2
    <3> QED BY <2>4, <3>1, <3>3
  <2> QED BY <1>6, <2>2, <2>6, <2>7
<1> QED BY <1>5, <1>6

(* kexLoop writes all of pendingPackets, after what was written before.     *)
LEMMA DeliverFlush ==
    ASSUME NEW S, NEW w \in Seq(S), NEW f \in Seq(S), NEW in \in Seq(Nat), NEW pend \in Seq(Nat), NEW out \in Nat,
           Delivered(w, in, pend, out), Len(pend) + Len(in) <= out, Len(f) = Len(pend),
           \A i \in 1..Len(f) : f[i].t = "data" /\ f[i].val = pend[i]
    PROVE  Delivered(w \o f, in, <<>>, out)
<1>1. PICK r : r = Len(in)
  OBVIOUS
<1>2. PICK n : n = Len(pend)
  OBVIOUS
<1>3. PICK g : g = out - n
  OBVIOUS
<1>4. r \in Nat /\ n \in Nat /\ n + r <= out
  BY <1>1, <1>2
<1>5. g \in Nat /\ r <= g /\ g + n = out
  BY <1>3, <1>4
<1>6. OnWay(w, r, g) /\ \A i \in 1..n : pend[i] = g + i
  BY <1>1, <1>2, <1>3 DEF Delivered
<1>7. \A i \in 1..Len(f) : f[i].t = "data" /\ f[i].val = g + i
  BY <1>2, <1>6
<1>8. OnWay(w \o f, r, g + Len(f))
  BY <1>4, <1>5, <1>6, <1>7, WayFlush
<1>9. Len(<<>>) = 0 /\ out - 0 = out
  OBVIOUS
<1>10. OnWay(w \o f, Len(in), out - Len(<<>>))
  BY <1>1, <1>2, <1>5, <1>8, <1>9
<1>11. \A i \in 1..Len(<<>>) : <<>>[i] = (out - Len(<<>>)) + i
  BY <1>9
<1> QED BY <1>10, <1>11 DEF Delivered

------------------------------------------------------------------------------
(* The invariant.                                                           *)

(* The keys of both sides agree on the session.                             *)
LEMMA KeysAgree ==
    /\ (\A r \in HsSides : KeysInv(r)) => HsAgree
    /\ (\A r \in HsSides : KeysInv(r)') => HsAgree'
<1>1. ASSUME \A r \in HsSides : KeysInv(r) PROVE HsAgree
  <2>1. ASSUME NEW r \in HsSides, hSid[r] # <<>>
        PROVE  hSid[r] = Hash(KexAlg, 1) /\ hKey[r].w.sid = hSid[r]
    <3>1. KeysInv(r)
      BY <1>1
    <3>2. hSid[r] = Hash(KexAlg, 1) /\ WRound(r) # 0
      BY <2>1, <3>1 DEF KeysInv
    <3>3. hKey[r].w = KeyOf(KexAlg, r, WRound(r))
      BY <3>1 DEF KeysInv
    <3>4. KeyOf(KexAlg, r, WRound(r)).sid = Hash(KexAlg, 1)
      BY <3>2 DEF KeyOf, CipherOf
    <3> QED BY <3>2, <3>3, <3>4
  <2> QED BY <2>1 DEF HsAgree, HsSides
<1>2. ASSUME \A r \in HsSides : KeysInv(r)' PROVE HsAgree'
  <2>1. ASSUME NEW r \in HsSides, hSid'[r] # <<>>
        PROVE  hSid'[r] = Hash(KexAlg', 1) /\ hKey'[r].w.sid = hSid'[r]
    <3>1. KeysInv(r)'
      BY <1>2
    <3>2. hSid'[r] = Hash(KexAlg', 1) /\ WRound(r)' # 0
      BY <2>1, <3>1 DEF KeysInv
    <3>3. hKey'[r].w = KeyOf(KexAlg', r, WRound(r)')
      BY <3>1 DEF KeysInv
    <3>4. KeyOf(KexAlg', r, WRound(r)').sid = Hash(KexAlg', 1)
      BY <3>2 DEF KeyOf, CipherOf
    <3> QED BY <3>2, <3>3, <3>4
  <2> QED BY <2>1 DEF HsAgree, HsSides
<1> QED BY <1>1, <1>2

(* The invariant holds at first.                                            *)
LEMMA HsInitInv == HsInit => HsInv
<1> SUFFICES ASSUME HsInit PROVE HsInv
  OBVIOUS
<1> USE DEF HsInit
<1>1. \A p \in HsSides : Other(p) \in HsSides
  BY TwoSides
<1>2. HsShape
  BY HsConstants DEF HsShape
<1>3. BoundInv
  BY <1>1, HsConstants DEF BoundInv
<1>4. \A p \in HsSides : WRound(p) = 0 /\ RRound(p) = 0 /\ WSlot(p) = 0 /\ RSlot(p) = 0
  BY DEF WRound, RRound, WSlot, RSlot
<1>5. Turns(KexAlg) \in Nat
  BY DEF Turns
<1>6. \A p \in HsSides : LoopsInv(p)
  BY <1>4, <1>5 DEF LoopsInv
<1>7. \A p \in HsSides : KeysInv(p)
  BY <1>1, <1>4 DEF KeysInv, KeyOf
<1>8. \A p \in HsSides : WireInv(p)
  BY <1>1, <1>4 DEF WireInv, Chain, RPlace, WPlace
<1>9. DownInv
  BY DEF DownInv
<1>10. \A p \in HsSides : Delivered(hWire[p], hIn[Other(p)], hPend[p], hOut[p])
  BY <1>1 DEF Delivered, OnWay, IsData
<1> QED BY <1>2, <1>3, <1>6, <1>7, <1>8, <1>9, <1>10, KeysAgree, InOrderMeans DEF HsInv, UpInv

(* The invariant on a live connection, from its parts for the two sides.    *)
LEMMA Assembled ==
    ASSUME NEW p \in HsSides, hUp' = "up",
           LoopsInv(p)', KeysInv(p)', WireInv(p)',
           LoopsInv(Other(p))', KeysInv(Other(p))', WireInv(Other(p))',
           HsShape', BoundInv',
           Delivered(hWire'[p], hIn'[Other(p)], hPend'[p], hOut'[p]),
           Delivered(hWire'[Other(p)], hIn'[p], hPend'[Other(p)], hOut'[Other(p)])
    PROVE  HsInv'
<1>1. \A r \in HsSides : LoopsInv(r)' /\ KeysInv(r)' /\ WireInv(r)'
  BY TwoSides
<1>2. UpInv' /\ DownInv' /\ HsAgree'
  BY <1>1, KeysAgree DEF UpInv, DownInv
<1>3. \A r \in HsSides : Delivered(hWire'[r], hIn'[Other(r)], hPend'[r], hOut'[r])
  BY TwoSides
<1> QED BY <1>2, <1>3, InOrderMeans DEF HsInv

(* What the invariant says of a side on a live connection.                  *)
LEMMA Parts ==
    ASSUME NEW p \in HsSides, HsInv, hUp = "up"
    PROVE  /\ Other(p) \in HsSides /\ Other(p) # p /\ Other(Other(p)) = p
           /\ HsShape /\ LoopsInv(p) /\ KeysInv(p) /\ WireInv(p) /\ WireInv(Other(p))
           /\ LoopsInv(Other(p)) /\ KeysInv(Other(p))
           /\ Delivered(hWire[p], hIn[Other(p)], hPend[p], hOut[p])
           /\ Delivered(hWire[Other(p)], hIn[p], hPend[Other(p)], hOut[Other(p)])
           /\ Len(hPend[p]) + Len(hIn[Other(p)]) <= hOut[p]
<1>1. Other(p) \in HsSides /\ Other(p) # p /\ Other(Other(p)) = p
  BY TwoSides
<1>2. \A r \in HsSides : Delivered(hWire[r], hIn[Other(r)], hPend[r], hOut[r])
  BY InOrderMeans DEF HsInv
<1> QED BY <1>1, <1>2 DEF HsInv, UpInv, BoundInv

(* kexLoop is woken: a KEXINIT is written unless one is under way.          *)
LEMMA WakeUp == ASSUME NEW p \in HsSides, HsInv, hUp = "up", KexWake(p) PROVE HsInv'
<1>1. PICK q : q = Other(p)
  OBVIOUS
<1>2. /\ q \in HsSides /\ q # p /\ Other(q) = p /\ HsShape /\ LoopsInv(p) /\ KeysInv(p) /\ WireInv(p)
      /\ WireInv(q) /\ LoopsInv(q) /\ KeysInv(q)
      /\ Delivered(hWire[p], hIn[q], hPend[p], hOut[p]) /\ Delivered(hWire[q], hIn[p], hPend[q], hOut[q])
  BY <1>1, Parts
<1>3. /\ LoopsInv(p)' /\ KeysInv(p)' /\ RPlace(p)' = RPlace(p)
      /\ \/ hSent[p] # 0 /\ WPlace(p)' = WPlace(p) /\ UNCHANGED <<hWire, hCount, hErr>>
         \/ /\ hSent[p] = 0 /\ UNCHANGED hErr
            /\ WPlace(p) = <<hCount[p], 0>> /\ WPlace(p)' = <<hCount[p], 1>>
            /\ hCount' = [hCount EXCEPT ![p] = @ + 1]
            /\ Pushed(p, Packet(p, "kexinit", hCount[p] + 1))
            /\ hKey[p].w = KeyOf(KexAlg, p, hCount[p])
  BY <1>2, WakeSide
<1>4. hConf' = hConf /\ hUp' = "up" /\ UNCHANGED <<hIn, hPend, hOut>>
  BY DEF KexWake, hAppVars
<1>5. SideSame(q)
  BY <1>2 DEF KexWake, SendKexInit, SideSame, HsShape
<1>6. LoopsInv(q)' /\ KeysInv(q)' /\ RPlace(q)' = RPlace(q) /\ WPlace(q)' = WPlace(q) /\ hCount'[q] = hCount[q]
  BY <1>2, <1>4, <1>5, SideStays DEF SideSame
<1>7. hCount[p] \in Nat /\ hSent[p] \in Nat /\ hCount \in [HsSides -> Nat] /\ hSent \in [HsSides -> Nat]
  BY DEF HsInv, HsShape
<1>8. /\ hWire' \in [HsSides -> Seq(HsPackets)] /\ WireInv(p)' /\ hWire'[q] = hWire[q]
      /\ Delivered(hWire'[p], hIn[q], hPend[p], hOut[p])
      /\ hCount' \in [HsSides -> Nat] /\ hErr' = hErr /\ hCount[p] <= hCount'[p]
  <2>1. CASE hSent[p] # 0
    <3>1. WPlace(p)' = WPlace(p) /\ UNCHANGED <<hWire, hCount, hErr>>
      BY <1>3, <2>1
    <3>2. WireInv(p)'
      BY <1>1, <1>2, <1>4, <1>6, <3>1, WireStays
    <3>3. hWire' \in [HsSides -> Seq(HsPackets)] /\ hWire'[q] = hWire[q]
      BY <1>2, <3>1 DEF HsShape
    <3>4. Delivered(hWire'[p], hIn[q], hPend[p], hOut[p])
      BY <1>2, <3>1
    <3> QED BY <1>7, <3>1, <3>2, <3>3, <3>4
  <2>2. CASE hSent[p] = 0
    <3>1. /\ WPlace(p) = <<hCount[p], 0>> /\ WPlace(p)' = <<hCount[p], 1>>
          /\ hCount' = [hCount EXCEPT ![p] = @ + 1] /\ hErr' = hErr
          /\ Pushed(p, Packet(p, "kexinit", hCount[p] + 1))
          /\ hKey[p].w = KeyOf(KexAlg, p, hCount[p])
      BY <1>3, <2>2
    <3>2. hCount'[p] = hCount[p] + 1 /\ hCount' \in [HsSides -> Nat] /\ hCount[p] <= hCount'[p]
      BY <1>7, <3>1
    <3>3. Slot(KexAlg, "kexinit") = 0
      BY DEF Slot
    <3>4. Fits(p, "kexinit", hCount[p] + 1, hCount[p])
      BY <1>7, <3>1, <3>3 DEF Fits
    <3>5. /\ WireInv(p)' /\ hWire' \in [HsSides -> Seq(HsPackets)] /\ Packet(p, "kexinit", hCount[p] + 1) \in HsPackets
          /\ hWire'[p] = Append(hWire[p], Packet(p, "kexinit", hCount[p] + 1)) /\ hWire'[q] = hWire[q]
      <4>1. Writes(p, "kexinit", hCount[p] + 1, hCount[p])
        BY <1>1, <1>4, <1>6, <1>7, <3>1, <3>2, <3>3, <3>4 DEF Writes
      <4> QED BY <1>1, <1>2, <4>1, WireWritten
    <3>6. Packet(p, "kexinit", hCount[p] + 1).t # "data"
      BY DEF Packet
    <3>7. hWire[p] \in Seq(HsPackets)
      BY <1>2 DEF HsShape
    <3>8. Delivered(hWire'[p], hIn[q], hPend[p], hOut[p])
      BY <1>2, <3>5, <3>6, <3>7, DeliverOther
    <3> QED BY <3>1, <3>2, <3>5, <3>8
  <2> QED BY <2>1, <2>2
<1>9. WireInv(q)'
  BY <1>2, <1>3, <1>4, <1>6, <1>8, WireStays
<1>10. /\ hOther' \in [HsSides -> Nat] /\ hStart' \in [HsSides -> Nat] /\ hSent' \in [HsSides -> Nat]
       /\ hKex' \in [HsSides -> {"select", "exchange", "newkeys", "finish", "dead"}]
       /\ hWant' \in [HsSides -> 0..1]
  <2>1. hOther' \in [HsSides -> Nat] /\ hStart' \in [HsSides -> Nat] /\ hWant' \in [HsSides -> 0..1]
    <3>1. \/ /\ hOther' = [hOther EXCEPT ![p] = hStart[p]] /\ hStart' = [hStart EXCEPT ![p] = 0] /\ hWant' = hWant
          \/ hOther' = hOther /\ hStart' = hStart /\ hWant' = [hWant EXCEPT ![p] = 0]
      BY DEF KexWake
    <3>2. hOther \in [HsSides -> Nat] /\ hStart \in [HsSides -> Nat] /\ hWant \in [HsSides -> 0..1]
      BY <1>2 DEF HsShape
    <3>3. hStart[p] \in Nat /\ 0 \in 0..1
      BY <3>2
    <3> QED BY <3>1, <3>2, <3>3
  <2>2. hKex' \in [HsSides -> {"select", "exchange", "newkeys", "finish", "dead"}]
    BY <1>2 DEF KexWake, HsShape
  <2>3. hSent' = hSent \/ hSent' = [hSent EXCEPT ![p] = hCount'[p]]
    BY DEF KexWake, SendKexInit
  <2> QED BY <1>7, <1>8, <2>1, <2>2, <2>3
<1>11. HsShape'
  <2>1. KexAlg' = KexAlg
    BY <1>4 DEF KexAlg
  <2>2. HsPackets' = HsPackets
    BY <2>1 DEF HsPackets, HsKeys
  <2> QED BY <1>2, <1>8, <1>10, <2>2 DEF HsShape, KexWake, hAppVars
<1>12. BoundInv'
  <2>1. /\ hOther'[p] \in {hOther[p], hStart[p]} /\ hStart'[p] \in {hStart[p], 0}
        /\ hOther'[q] = hOther[q] /\ hStart'[q] = hStart[q] /\ hSent'[q] = hSent[q] /\ hCount'[q] = hCount[q]
    BY <1>2, <1>5 DEF KexWake, HsShape, SideSame
  <2>2. hSent'[p] <= hCount'[p] /\ (hSent'[p] = 0 => hSent[p] = 0)
    <3>1. (hSent' = hSent /\ hSent[p] # 0) \/ hSent' = [hSent EXCEPT ![p] = hCount'[p]] 
      BY <1>3 DEF KexWake, SendKexInit
    <3>2. hCount'[p] \in Nat /\ hCount[p] <= hCount'[p] /\ hSent[p] <= hCount[p]
      BY <1>8 DEF HsInv, BoundInv
    <3>3. hCount'[p] # 0 \/ hSent[p] # 0
      BY <1>3, <1>7
    <3> QED BY <1>7, <3>1, <3>2, <3>3
  <2>3. \A r \in HsSides : r = p \/ r = q
    BY <1>1, TwoSides
  <2>4. \A r \in HsSides : hStart[r] \in Nat /\ hOther[r] \in Nat /\ hCount[r] \in Nat /\ hCount'[r] \in Nat
    BY <1>2, <1>8 DEF HsShape
  <2>5. hStep' = hStep /\ UNCHANGED <<hIn, hPend, hOut>>
    BY <1>4 DEF KexWake
  <2>6. BoundInv
    BY DEF HsInv
  <2>7. hStart'[p] <= hCount'[q] /\ hOther'[p] <= hCount'[q] /\ hStart'[q] <= hCount'[p] /\ hOther'[q] <= hCount'[p]
    <3>1. hStart[p] <= hCount[q] /\ hOther[p] <= hCount[q] /\ hStart[q] <= hCount[p] /\ hOther[q] <= hCount[p]
      BY <1>1, <1>2, <2>6 DEF BoundInv
    <3>2. hCount'[q] = hCount[q] /\ hCount[p] <= hCount'[p]
      BY <1>8, <2>1
    <3>3. /\ {hStart[p], hOther[p], hStart[q], hOther[q], hCount[p], hCount[q], hCount'[p]} \subseteq Nat
      BY <1>2, <2>4
    <3> QED BY <2>1, <3>1, <3>2, <3>3
  <2>8. hSent'[q] <= hCount'[q]
    BY <1>2, <2>1, <2>6 DEF BoundInv
  <2>9. \A r \in HsSides : /\ hStep'[r] <= 4 /\ (hSent'[r] = 0 => hPend'[r] = <<>>)
                           /\ Len(hPend'[r]) + Len(hIn'[Other(r)]) <= hOut'[r] /\ hOut'[r] <= HsData
    BY <2>1, <2>2, <2>3, <2>5, <2>6 DEF BoundInv
  <2> QED BY <1>1, <1>2, <2>2, <2>3, <2>7, <2>8, <2>9 DEF BoundInv
<1> QED BY <1>1, <1>2, <1>3, <1>4, <1>6, <1>8, <1>9, <1>11, <1>12, Assembled

(* Nothing arrives on a connection that is lost.                            *)
LEMMA ArrivedUp == ASSUME NEW p \in HsSides, HsInv, Arrived(p) PROVE hUp = "up"
BY TwoSides DEF HsInv, DownInv, Arrived, HsShape

(* The packets are of the same set while the lists stay.                    *)
LEMMA SamePackets == ASSUME hConf' = hConf PROVE HsPackets' = HsPackets
<1>1. KexAlg' = KexAlg
  BY DEF KexAlg
<1> QED BY <1>1 DEF HsPackets, HsKeys

(* A packet of the exchange is sent or read.                                *)
LEMMA ExchangeUp == ASSUME NEW p \in HsSides, HsInv, ExchangeStep(p) PROVE HsInv'
<1>1. PICK q : q = Other(p)
  OBVIOUS
<1>2. PICK do : do = Script(p)[hStep[p] + 1].do
  OBVIOUS
<1>3. hUp = "up" /\ hUp' = "up" /\ do \in {"send", "read"} /\ (do = "read" => Arrived(p))
  BY <1>2, ArrivedUp DEF ExchangeStep
<1>4. /\ q \in HsSides /\ q # p /\ Other(q) = p /\ HsShape /\ LoopsInv(p) /\ KeysInv(p) /\ WireInv(p)
      /\ WireInv(q) /\ LoopsInv(q) /\ KeysInv(q)
      /\ Delivered(hWire[p], hIn[q], hPend[p], hOut[p]) /\ Delivered(hWire[q], hIn[p], hPend[q], hOut[q])
  BY <1>1, <1>3, Parts
<1>5. /\ hConf' = hConf /\ UNCHANGED <<hIn, hPend, hOut, hSent, hStart, hOther, hCount, hRead, hKex, hNext, hSid, hWant, hKey>>
      /\ UNCHANGED <<hLeftW, hLeftR>> /\ hStep' = [hStep EXCEPT ![p] = @ + 1]
  BY DEF ExchangeStep, hAppVars
<1>6. hEph'[q] = hEph[q]
  BY <1>4 DEF ExchangeStep, HsShape
<1>7. SideSame(q)
  BY <1>4, <1>5, <1>6 DEF SideSame, HsShape
<1>8. LoopsInv(q)' /\ KeysInv(q)' /\ RPlace(q)' = RPlace(q) /\ WPlace(q)' = WPlace(q)
  BY <1>4, <1>5, <1>7, SideStays
<1>9. hCount[p] \in Nat /\ hWire[p] \in Seq(HsPackets) /\ hWire[q] \in Seq(HsPackets)
  BY <1>4 DEF HsShape
<1>10. /\ LoopsInv(p)' /\ KeysInv(p)' /\ WireInv(p)' /\ WireInv(q)' /\ hErr' = hErr
       /\ hWire' \in [HsSides -> Seq(HsPackets)] /\ hEph' \in [HsSides -> Nat]
       /\ Delivered(hWire'[p], hIn[q], hPend[p], hOut[p]) /\ Delivered(hWire'[q], hIn[p], hPend[q], hOut[q])
  <2>1. CASE do = "send"
    <3>1. PICK t \in SendsOf(KexAlg, p) :
                 /\ Pushed(p, Packet(p, t, hCount[p]))
                 /\ hKey[p].w = KeyOf(KexAlg, p, hCount[p] - 1) /\ hCount[p] > 0
                 /\ WPlace(p) = <<hCount[p] - 1, Slot(KexAlg, t)>>
                 /\ WPlace(p)' = <<hCount[p] - 1, Slot(KexAlg, t) + 1>>
      BY <1>2, <1>4, <2>1, ExchangeSendSide
    <3>2. LoopsInv(p)' /\ KeysInv(p)' /\ RPlace(p)' = RPlace(p) /\ hErr' = hErr /\ hEph' = hEph
      BY <1>2, <1>4, <2>1, ExchangeSendSide
    <3>3. t \notin {"kexinit", "data", "newkeys"}
      BY <3>1 DEF SendsOf
    <3>4. Fits(p, t, hCount[p], hCount[p] - 1)
      BY <1>9, <3>1, <3>3 DEF Fits
    <3>5. Writes(p, t, hCount[p], hCount[p] - 1)
      BY <1>1, <1>5, <1>8, <1>9, <3>1, <3>3, <3>4 DEF Writes
    <3>6. /\ WireInv(p)' /\ hWire' \in [HsSides -> Seq(HsPackets)] /\ Packet(p, t, hCount[p]) \in HsPackets
          /\ hWire'[p] = Append(hWire[p], Packet(p, t, hCount[p])) /\ hWire'[q] = hWire[q]
      BY <1>1, <1>4, <3>5, WireWritten
    <3>7. Packet(p, t, hCount[p]).t # "data"
      BY <3>3 DEF Packet
    <3>8. Delivered(hWire'[p], hIn[q], hPend[p], hOut[p])
      BY <1>4, <1>9, <3>6, <3>7, DeliverOther
    <3>9. WireInv(q)'
      BY <1>4, <1>5, <1>8, <3>2, <3>6, WireStays
    <3>10. hEph' \in [HsSides -> Nat]
      BY <1>4, <3>2 DEF HsShape
    <3> QED BY <1>4, <3>2, <3>6, <3>8, <3>9, <3>10
  <2>2. CASE do = "read"
    <3>1. Expected(p, Next1(p))
      BY <1>1, <1>3, <1>4, <2>2, WireHead
    <3>2. /\ LoopsInv(p)' /\ KeysInv(p)' /\ WPlace(p)' = WPlace(p) /\ hErr' = hErr
          /\ Arrived(p) /\ Consumed(p) /\ RPlace(p)' = After(KexAlg, Next1(p))
          /\ hEph' = [hEph EXCEPT ![p] = Next1(p).val] /\ Next1(p).t # "data"
      BY <1>2, <1>4, <2>2, <3>1, ExchangeReadSide
    <3>3. Takes(p)
      BY <1>1, <1>5, <1>8, <3>2 DEF Takes
    <3>4. /\ WireInv(q)' /\ hWire' \in [HsSides -> Seq(HsPackets)]
          /\ hWire'[q] = Tail(hWire[q]) /\ hWire'[p] = hWire[p]
      BY <1>1, <1>4, <3>3, WireConsumed
    <3>5. WireInv(p)'
      BY <1>1, <1>4, <1>5, <1>8, <3>2, <3>4, WireStays
    <3>6. Next1(p) = Head(hWire[q]) /\ hWire[q] # <<>>
      BY <1>1, <3>2 DEF Next1, Arrived
    <3>7. hIn[p] \in Seq(Nat) /\ hPend[q] \in Seq(Nat) /\ hOut[q] \in Nat
      BY <1>4 DEF HsShape
    <3>8. Delivered(hWire'[q], hIn[p], hPend[q], hOut[q])
      BY <1>4, <1>9, <3>2, <3>4, <3>6, <3>7, DeliverRead
    <3>9. hEph' \in [HsSides -> Nat]
      <4>1. hEph \in [HsSides -> Nat] /\ Next1(p).val \in Nat
        BY <1>4, <3>1 DEF HsShape, Expected
      <4> QED BY <3>2, <4>1
    <3> QED BY <1>4, <3>2, <3>4, <3>5, <3>8, <3>9
  <2> QED BY <1>3, <2>1, <2>2
<1>11. HsShape'
  <2>1. HsPackets' = HsPackets
    BY <1>5, SamePackets
  <2>2. hStep' \in [HsSides -> Nat]
    <3>1. hStep \in [HsSides -> Nat]
      BY <1>4 DEF HsShape
    <3> QED BY <1>5, <3>1
  <2> QED BY <1>3, <1>4, <1>5, <1>10, <2>1, <2>2 DEF HsShape
<1>12. BoundInv'
  <2>1. hStep'[p] <= 4 /\ hStep'[q] = hStep[q]
    <3>1. hStep'[p] \in 0..(2 * Turns(KexAlg)')
      BY <1>10 DEF LoopsInv
    <3>2. Turns(KexAlg)' \in {1, 2}
      BY DEF Turns
    <3>3. hStep \in [HsSides -> Nat]
      BY <1>4 DEF HsShape
    <3>4. hStep'[p] <= 4
      BY <3>1, <3>2
    <3> QED BY <1>4, <1>5, <3>3, <3>4
  <2>2. \A r \in HsSides : r = p \/ r = q
    BY <1>1, TwoSides
  <2>3. \A r \in HsSides : hStep'[r] <= 4
    BY <1>4, <2>1, <2>2 DEF HsInv, BoundInv
  <2> QED BY <1>5, <2>3 DEF HsInv, BoundInv
<1> QED BY <1>1, <1>3, <1>4, <1>5, <1>8, <1>10, <1>11, <1>12, Assembled

(* NEWKEYS is written, the writer changes over.                             *)
LEMMA SendNewKeysUp == ASSUME NEW p \in HsSides, HsInv, SendNewKeys(p) PROVE HsInv'
<1>1. PICK q : q = Other(p)
  OBVIOUS
<1>2. hUp = "up" /\ hUp' = "up"
  BY DEF SendNewKeys
<1>3. /\ q \in HsSides /\ q # p /\ Other(q) = p /\ HsShape /\ LoopsInv(p) /\ KeysInv(p) /\ WireInv(p)
      /\ WireInv(q) /\ LoopsInv(q) /\ KeysInv(q)
      /\ Delivered(hWire[p], hIn[q], hPend[p], hOut[p]) /\ Delivered(hWire[q], hIn[p], hPend[q], hOut[q])
  BY <1>1, <1>2, Parts
<1>4. /\ hConf' = hConf /\ UNCHANGED <<hRead, hStep, hSent, hStart, hOther, hEph, hCount, hWant, hPend>>
      /\ UNCHANGED <<hLeftW, hLeftR, hIn, hOut, hErr>> /\ hKex' = [hKex EXCEPT ![p] = "newkeys"]
  BY DEF SendNewKeys, hAppVars
<1>5. /\ LoopsInv(p)' /\ KeysInv(p)' /\ RPlace(p)' = RPlace(p)
      /\ Pushed(p, Packet(p, "newkeys", 0))
      /\ hKey[p].w = KeyOf(KexAlg, p, hCount[p] - 1) /\ hCount[p] > 0
      /\ WPlace(p) = <<hCount[p] - 1, Turns(KexAlg) + 1>> /\ WPlace(p)' = <<hCount[p], 0>>
  BY <1>3, SendNewKeysSide
<1>6. DOMAIN hKey' = HsSides /\ DOMAIN hNext' = HsSides /\ DOMAIN hSid' = HsSides
      /\ hKey'[q] = hKey[q] /\ hNext'[q] = hNext[q] /\ hSid'[q] = hSid[q]
  BY <1>3 DEF SendNewKeys, HsShape
<1>7. SideSame(q)
  BY <1>3, <1>4, <1>6 DEF SideSame, HsShape
<1>8. LoopsInv(q)' /\ KeysInv(q)' /\ RPlace(q)' = RPlace(q) /\ WPlace(q)' = WPlace(q)
  BY <1>3, <1>4, <1>7, SideStays
<1>9. hCount[p] \in Nat /\ hWire[p] \in Seq(HsPackets)
  BY <1>3 DEF HsShape
<1>10. Slot(KexAlg, "newkeys") = Turns(KexAlg) + 1
  BY DEF Slot
<1>11. Fits(p, "newkeys", 0, hCount[p] - 1)
  BY <1>5, <1>9, <1>10 DEF Fits
<1>12. Writes(p, "newkeys", 0, hCount[p] - 1)
  BY <1>1, <1>4, <1>5, <1>8, <1>9, <1>11 DEF Writes
<1>13. /\ WireInv(p)' /\ hWire' \in [HsSides -> Seq(HsPackets)] /\ Packet(p, "newkeys", 0) \in HsPackets
       /\ hWire'[p] = Append(hWire[p], Packet(p, "newkeys", 0)) /\ hWire'[q] = hWire[q]
  BY <1>1, <1>3, <1>12, WireWritten
<1>14. Packet(p, "newkeys", 0).t # "data"
  BY DEF Packet
<1>15. Delivered(hWire'[p], hIn[q], hPend[p], hOut[p])
  BY <1>3, <1>9, <1>13, <1>14, DeliverOther
<1>16. WireInv(q)'
  BY <1>3, <1>4, <1>5, <1>8, <1>13, WireStays
<1>17. HsShape'
  <2>1. HsPackets' = HsPackets
    BY <1>4, SamePackets
  <2>2. hKex' \in [HsSides -> {"select", "exchange", "newkeys", "finish", "dead"}]
    BY <1>3, <1>4 DEF HsShape
  <2> QED BY <1>2, <1>3, <1>4, <1>6, <1>13, <2>1, <2>2 DEF HsShape
<1>18. BoundInv'
  BY <1>4 DEF HsInv, BoundInv
<1> QED BY <1>1, <1>2, <1>3, <1>4, <1>5, <1>8, <1>13, <1>15, <1>16, <1>17, <1>18, Assembled

(* NEWKEYS is read, the reader changes over.                                *)
LEMMA ReadNewKeysUp == ASSUME NEW p \in HsSides, HsInv, ReadNewKeys(p) PROVE HsInv'
<1>1. PICK q : q = Other(p)
  OBVIOUS
<1>2. hUp = "up" /\ hUp' = "up" /\ Arrived(p)
  BY ArrivedUp DEF ReadNewKeys
<1>3. /\ q \in HsSides /\ q # p /\ Other(q) = p /\ HsShape /\ LoopsInv(p) /\ KeysInv(p) /\ WireInv(p)
      /\ WireInv(q) /\ LoopsInv(q) /\ KeysInv(q)
      /\ Delivered(hWire[p], hIn[q], hPend[p], hOut[p]) /\ Delivered(hWire[q], hIn[p], hPend[q], hOut[q])
  BY <1>1, <1>2, Parts
<1>4. /\ hConf' = hConf /\ UNCHANGED <<hRead, hStep, hSent, hStart, hOther, hEph, hNext, hSid, hCount, hWant, hPend>>
      /\ UNCHANGED <<hLeftW, hLeftR, hIn, hOut>>
  BY DEF ReadNewKeys, hAppVars
<1>5. Expected(p, Next1(p))
  BY <1>1, <1>2, <1>3, WireHead
<1>6. /\ LoopsInv(p)' /\ KeysInv(p)' /\ WPlace(p)' = WPlace(p) /\ hErr' = hErr
      /\ Arrived(p) /\ Consumed(p) /\ RPlace(p)' = After(KexAlg, Next1(p)) /\ Next1(p).t # "data"
  BY <1>3, <1>5, ReadNewKeysSide
<1>7. /\ hKey' = hKey \/ hKey' = [hKey EXCEPT ![p].r = hNext[p].r]
      /\ hKex' = hKex \/ hKex' = [hKex EXCEPT ![p] = "finish"]
  BY DEF ReadNewKeys
<1>8. /\ DOMAIN hKey' = HsSides /\ hKey'[q] = hKey[q] /\ hKex'[q] = hKex[q]
      /\ hKex' \in [HsSides -> {"select", "exchange", "newkeys", "finish", "dead"}]
  BY <1>3, <1>7 DEF HsShape
<1>9. SideSame(q)
  BY <1>3, <1>4, <1>8 DEF SideSame, HsShape
<1>10. LoopsInv(q)' /\ KeysInv(q)' /\ RPlace(q)' = RPlace(q) /\ WPlace(q)' = WPlace(q)
  BY <1>3, <1>4, <1>9, SideStays
<1>11. Takes(p)
  BY <1>1, <1>4, <1>6, <1>10 DEF Takes
<1>12. /\ WireInv(q)' /\ hWire' \in [HsSides -> Seq(HsPackets)]
       /\ hWire'[q] = Tail(hWire[q]) /\ hWire'[p] = hWire[p]
  BY <1>1, <1>3, <1>11, WireConsumed
<1>13. WireInv(p)'
  BY <1>1, <1>3, <1>4, <1>6, <1>10, <1>12, WireStays
<1>14. Next1(p) = Head(hWire[q]) /\ hWire[q] # <<>>
  BY <1>1, <1>2 DEF Next1, Arrived
<1>15. hIn[p] \in Seq(Nat) /\ hPend[q] \in Seq(Nat) /\ hOut[q] \in Nat /\ hWire[q] \in Seq(HsPackets)
  BY <1>3 DEF HsShape
<1>16. Delivered(hWire'[q], hIn[p], hPend[q], hOut[q])
  BY <1>3, <1>6, <1>12, <1>14, <1>15, DeliverRead
<1>17. HsShape'
  <2>1. HsPackets' = HsPackets
    BY <1>4, SamePackets
  <2> QED BY <1>2, <1>3, <1>4, <1>6, <1>8, <1>12, <2>1 DEF HsShape
<1>18. BoundInv'
  BY <1>4 DEF HsInv, BoundInv
<1> QED BY <1>1, <1>2, <1>3, <1>4, <1>6, <1>10, <1>12, <1>13, <1>16, <1>17, <1>18, Assembled

(* An iteration of kexLoop ends, and pendingPackets are written.            *)
LEMMA FinishUp == ASSUME NEW p \in HsSides, HsInv, hUp = "up", FinishKex(p) PROVE HsInv'
<1>1. PICK q : q = Other(p)
  OBVIOUS
<1>2. hUp' = "up"
  BY DEF FinishKex
<1>3. /\ q \in HsSides /\ q # p /\ Other(q) = p /\ HsShape /\ LoopsInv(p) /\ KeysInv(p) /\ WireInv(p)
      /\ WireInv(q) /\ LoopsInv(q) /\ KeysInv(q)
      /\ Delivered(hWire[p], hIn[q], hPend[p], hOut[p]) /\ Delivered(hWire[q], hIn[p], hPend[q], hOut[q])
      /\ Len(hPend[p]) + Len(hIn[q]) <= hOut[p]
  BY <1>1, Parts
<1>4. /\ hConf' = hConf /\ UNCHANGED <<hStart, hEph, hNext, hSid, hCount, hKey, hIn, hOut, hErr>>
      /\ hSent' = [hSent EXCEPT ![p] = 0] /\ hOther' = [hOther EXCEPT ![p] = 0] /\ hStep' = [hStep EXCEPT ![p] = 0]
      /\ hLeftW' = [hLeftW EXCEPT ![p] = HsThreshold] /\ hLeftR' = [hLeftR EXCEPT ![p] = HsThreshold]
      /\ hWant' = [hWant EXCEPT ![p] = 0] /\ hRead' = [hRead EXCEPT ![p] = "read"]
      /\ hWire' = [hWire EXCEPT ![p] = @ \o Flushed(p)]
      /\ hPend' = [hPend EXCEPT ![p] = <<>>] /\ hKex' = [hKex EXCEPT ![p] = "select"]
  BY DEF FinishKex, Released, hAppVars
<1>5. /\ LoopsInv(p)' /\ KeysInv(p)' /\ WPlace(p)' = WPlace(p) /\ RPlace(p)' = RPlace(p)
      /\ WPlace(p) = <<hCount[p], 0>> /\ hKey[p].w = KeyOf(KexAlg, p, hCount[p]) /\ hCount[p] > 0
  BY <1>3, FinishSide
<1>6. SideSame(q)
  BY <1>3, <1>4 DEF SideSame, HsShape
<1>7. LoopsInv(q)' /\ KeysInv(q)' /\ RPlace(q)' = RPlace(q) /\ WPlace(q)' = WPlace(q)
  BY <1>3, <1>4, <1>6, SideStays
<1>8. /\ hCount[p] \in Nat /\ hWire[p] \in Seq(HsPackets) /\ hPend[p] \in Seq(Nat)
      /\ hIn[q] \in Seq(Nat) /\ hOut[p] \in Nat
  BY <1>3 DEF HsShape
<1>9. PICK f : f = Flushed(p)
  OBVIOUS
<1>10. \A x \in Nat : /\ Packet(p, "data", x) \in HsPackets
                      /\ Packet(p, "data", x).t = "data" /\ Packet(p, "data", x).val = x
                      /\ Good(KexAlg, p, Packet(p, "data", x))
                      /\ At(KexAlg, Packet(p, "data", x)) = WPlace(p)
                      /\ After(KexAlg, Packet(p, "data", x)) = WPlace(p)
  <2>1. Slot(KexAlg, "data") = 0
    BY DEF Slot
  <2>2. ASSUME NEW x \in Nat PROVE Fits(p, "data", x, hCount[p])
    BY <1>5, <1>8, <2>1 DEF Fits
  <2> QED BY <2>2, FitsIsGood
<1>11. PICK n : n = Len(hPend[p])
  OBVIOUS
<1>12. n \in Nat /\ \A i \in 1..n : hPend[p][i] \in Nat
  BY <1>8, <1>11
<1>13. f = [i \in 1..n |-> Packet(p, "data", hPend[p][i])]
  BY <1>9, <1>11 DEF Flushed
<1>14. \A i \in 1..n : Packet(p, "data", hPend[p][i]) \in HsPackets
  BY <1>10, <1>12
<1>15. f \in Seq(HsPackets) /\ Len(f) = n /\ \A i \in 1..n : f[i] = Packet(p, "data", hPend[p][i])
  BY <1>12, <1>13, <1>14
<1>16. \A i \in 1..Len(f) : /\ f[i].t = "data" /\ f[i].val = hPend[p][i]
                            /\ Good(KexAlg, p, f[i]) /\ At(KexAlg, f[i]) = WPlace(p) /\ After(KexAlg, f[i]) = WPlace(p)
  BY <1>10, <1>12, <1>15
<1>17. hWire'[p] = hWire[p] \o f /\ hWire'[q] = hWire[q] /\ hWire' \in [HsSides -> Seq(HsPackets)]
  <2>1. hWire[p] \o f \in Seq(HsPackets)
    BY <1>8, <1>15
  <2>2. hWire \in [HsSides -> Seq(HsPackets)]
    BY <1>3 DEF HsShape
  <2> QED BY <1>3, <1>4, <1>9, <2>1, <2>2
<1>18. WireInv(p)'
  <2>1. KexAlg' = KexAlg
    BY <1>4 DEF KexAlg
  <2>2. Chain(KexAlg, p, hWire[p], RPlace(q), WPlace(p))
    BY <1>1, <1>3 DEF WireInv
  <2>3. Chain(KexAlg, p, hWire[p] \o f, RPlace(q), WPlace(p))
    BY <1>8, <1>15, <1>16, <2>2, ChainFlush
  <2>4. Chain(KexAlg, p, hWire'[p], RPlace(q)', WPlace(p)')
    BY <1>5, <1>7, <1>17, <2>3
  <2>5. \A i \in 1..Len(hWire'[p]) : hWire'[p][i].t = "kexinit" => hWire'[p][i].val <= hCount'[p]
    <3>1. PICK w : w = hWire[p] \o f
      OBVIOUS
    <3>2. PICK k : k = Len(hWire[p])
      OBVIOUS
    <3>3. /\ k \in Nat /\ Len(w) = k + n /\ \A i \in 1..k : w[i] = hWire[p][i]
          /\ \A i \in 1..(k + n) : i > k => w[i] = f[i - k]
      <4>1. hWire[p] \in Seq(HsPackets) /\ f \in Seq(HsPackets) /\ Len(f) = n
        BY <1>8, <1>15
      <4> QED BY <3>1, <3>2, <4>1, JoinMeans
    <3>4. \A i \in 1..k : w[i].t = "kexinit" => w[i].val <= hCount[p]
      BY <1>3, <3>2, <3>3 DEF WireInv
    <3>5. \A i \in 1..(k + n) : i > k => w[i].t # "kexinit"
      <4>1. \A i \in 1..(k + n) : i > k => i - k \in 1..n
        BY <1>12, <3>3
      <4>2. \A j \in 1..n : f[j].t = "data"
        BY <1>15, <1>16
      <4> QED BY <3>3, <4>1, <4>2
    <3>6. \A i \in 1..(k + n) : i \in 1..k \/ i > k
      BY <1>12, <3>3
    <3> QED BY <1>4, <1>17, <3>1, <3>3, <3>4, <3>5, <3>6
  <2> QED BY <1>1, <2>1, <2>4, <2>5 DEF WireInv
<1>19. WireInv(q)'
  BY <1>3, <1>4, <1>5, <1>7, <1>17, WireStays
<1>20. hPend'[p] = <<>> /\ hPend'[q] = hPend[q]
  BY <1>3, <1>4 DEF HsShape
<1>21. Delivered(hWire'[p], hIn'[q], hPend'[p], hOut'[p])
  <2>1. Delivered(hWire[p] \o f, hIn[q], <<>>, hOut[p])
    BY <1>3, <1>8, <1>11, <1>15, <1>16, DeliverFlush
  <2> QED BY <1>4, <1>17, <1>20, <2>1
<1>22. HsShape'
  <2>1. HsPackets' = HsPackets
    BY <1>4, SamePackets
  <2>2. hPend' \in [HsSides -> Seq(Nat)]
    <3>1. hPend \in [HsSides -> Seq(Nat)] /\ <<>> \in Seq(Nat)
      BY <1>3 DEF HsShape
    <3> QED BY <1>4, <3>1
  <2>3. hLeftW' \in [HsSides -> 0..HsThreshold] /\ hLeftR' \in [HsSides -> 0..HsThreshold] /\ hWant' \in [HsSides -> 0..1]
    <3>1. hLeftW \in [HsSides -> 0..HsThreshold] /\ hLeftR \in [HsSides -> 0..HsThreshold] /\ hWant \in [HsSides -> 0..1]
      BY <1>3 DEF HsShape
    <3>2. HsThreshold \in 0..HsThreshold /\ 0 \in 0..1
      BY HsConstants
    <3> QED BY <1>4, <3>1, <3>2
  <2>4. hSent' \in [HsSides -> Nat] /\ hOther' \in [HsSides -> Nat] /\ hStep' \in [HsSides -> Nat]
    <3>1. hSent \in [HsSides -> Nat] /\ hOther \in [HsSides -> Nat] /\ hStep \in [HsSides -> Nat]
      BY <1>3 DEF HsShape
    <3> QED BY <1>4, <3>1
  <2>5. /\ hRead' \in [HsSides -> {"first", "read", "kex", "dead"}]
        /\ hKex' \in [HsSides -> {"select", "exchange", "newkeys", "finish", "dead"}]
    BY <1>3, <1>4 DEF HsShape
  <2> QED BY <1>2, <1>3, <1>4, <1>17, <2>1, <2>2, <2>3, <2>4, <2>5 DEF HsShape
<1>23. BoundInv'
  <2>1. hSent'[p] = 0 /\ hOther'[p] = 0 /\ hStep'[p] = 0 /\ hSent'[q] = hSent[q] /\ hOther'[q] = hOther[q] /\ hStep'[q] = hStep[q]
    BY <1>3, <1>4 DEF HsShape
  <2>2. \A r \in HsSides : r = p \/ r = q
    BY <1>1, TwoSides
  <2>3. Len(hPend'[p]) + Len(hIn'[q]) <= hOut'[p]
    <3>1. Len(<<>>) = 0
      OBVIOUS
    <3>2. PICK k : k = Len(hIn[q])
      OBVIOUS
    <3>3. n + k <= hOut[p] /\ k \in Nat
      <4>1. Len(hPend[p]) + Len(hIn[q]) <= hOut[p]
        BY <1>3
      <4>2. k \in Nat
        BY <1>8, <3>2
      <4>3. hOut[p] \in Nat /\ n \in Nat
        BY <1>8, <1>12
      <4> QED BY <1>11, <3>2, <4>1, <4>2, <4>3
    <3>4. 0 + k <= hOut[p]
      BY <1>8, <1>12, <3>3
    <3> QED BY <1>4, <1>20, <3>1, <3>2, <3>4
  <2>4. BoundInv /\ hCount[p] \in Nat /\ hCount[q] \in Nat
    BY <1>3 DEF HsInv, HsShape
  <2>5. /\ hSent'[p] <= hCount'[p] /\ hStart'[p] <= hCount'[q] /\ hOther'[p] <= hCount'[q] /\ hStep'[p] <= 4
        /\ (hSent'[p] = 0 => hPend'[p] = <<>>) /\ hOut'[p] <= HsData
    <3>1. hStart[p] <= hCount[q] /\ hOut[p] <= HsData
      BY <1>1, <2>4 DEF BoundInv
    <3>2. hStart' = hStart /\ hCount' = hCount /\ hOut' = hOut
      BY <1>4
    <3>3. 0 <= hCount[p] /\ 0 <= hCount[q]
      BY <2>4
    <3> QED BY <1>20, <2>1, <3>1, <3>2, <3>3
  <2>6. /\ hSent'[q] <= hCount'[q] /\ hStart'[q] <= hCount'[p] /\ hOther'[q] <= hCount'[p] /\ hStep'[q] <= 4
        /\ (hSent'[q] = 0 => hPend'[q] = <<>>) /\ Len(hPend'[q]) + Len(hIn'[p]) <= hOut'[q] /\ hOut'[q] <= HsData
    BY <1>3, <1>4, <1>20, <2>1, <2>4 DEF BoundInv
  <2> QED BY <1>1, <1>3, <2>2, <2>3, <2>5, <2>6 DEF BoundInv
<1> QED BY <1>1, <1>2, <1>3, <1>4, <1>5, <1>7, <1>17, <1>18, <1>19, <1>20, <1>21, <1>22, <1>23, Assembled

(* readLoop takes a packet.                                                 *)
LEMMA ReadOneUp == ASSUME NEW p \in HsSides, HsInv, ReadOnePacket(p) PROVE HsInv'
<1>1. PICK q : q = Other(p)
  OBVIOUS
<1>2. hUp = "up" /\ hUp' = "up" /\ Arrived(p)
  BY ArrivedUp DEF ReadOnePacket
<1>3. /\ q \in HsSides /\ q # p /\ Other(q) = p /\ HsShape /\ LoopsInv(p) /\ KeysInv(p) /\ WireInv(p)
      /\ WireInv(q) /\ LoopsInv(q) /\ KeysInv(q)
      /\ Delivered(hWire[p], hIn[q], hPend[p], hOut[p]) /\ Delivered(hWire[q], hIn[p], hPend[q], hOut[q])
  BY <1>1, <1>2, Parts
<1>4. /\ hConf' = hConf /\ UNCHANGED <<hKex, hStep, hSent, hOther, hEph, hNext, hSid, hCount, hPend, hKey, hLeftW, hOut>>
      /\ Consumed(p)
  BY DEF ReadOnePacket
<1>5. PICK m : m = Next1(p)
  OBVIOUS
<1>6. Expected(p, m) /\ (m.t = "kexinit" => m.val <= hCount[q])
  BY <1>1, <1>2, <1>3, <1>5, WireHead
<1>7. /\ LoopsInv(p)' /\ KeysInv(p)' /\ WPlace(p)' = WPlace(p) /\ hErr' = hErr
      /\ RPlace(p)' = After(KexAlg, m)
      /\ \/ /\ m.t = "kexinit" /\ hIn' = hIn
            /\ hStart' = [hStart EXCEPT ![p] = m.val]
            /\ hRead' = [hRead EXCEPT ![p] = "kex"]
         \/ /\ m.t = "data" /\ hStart' = hStart /\ hRead' = hRead
            /\ hIn' = [hIn EXCEPT ![p] = Append(@, m.val)]
  BY <1>3, <1>5, <1>6, ReadOneSide
<1>8. /\ hIn \in [HsSides -> Seq(Nat)] /\ hStart \in [HsSides -> Nat] /\ m.val \in Nat
      /\ hRead \in [HsSides -> {"first", "read", "kex", "dead"}] /\ hWire \in [HsSides -> Seq(HsPackets)]
      /\ hPend[q] \in Seq(Nat) /\ hOut[q] \in Nat
  BY <1>3, <1>6 DEF HsShape, Expected
<1>9. /\ hStart' \in [HsSides -> Nat] /\ hRead' \in [HsSides -> {"first", "read", "kex", "dead"}]
      /\ hIn' \in [HsSides -> Seq(Nat)]
      /\ hStart'[q] = hStart[q] /\ hRead'[q] = hRead[q] /\ hIn'[q] = hIn[q]
      /\ hIn'[p] = IF m.t = "data" THEN Append(hIn[p], m.val) ELSE hIn[p]
  <2>1. Append(hIn[p], m.val) \in Seq(Nat)
    BY <1>8
  <2>2. CASE m.t = "kexinit"
    BY <1>3, <1>7, <1>8, <2>2
  <2>3. CASE m.t = "data"
    BY <1>3, <1>7, <1>8, <2>1, <2>3
  <2> QED BY <1>7, <2>2, <2>3
<1>10. SideSame(q)
  BY <1>3, <1>4, <1>9 DEF SideSame
<1>11. LoopsInv(q)' /\ KeysInv(q)' /\ RPlace(q)' = RPlace(q) /\ WPlace(q)' = WPlace(q)
  BY <1>3, <1>4, <1>10, SideStays
<1>12. Takes(p)
  BY <1>1, <1>2, <1>4, <1>5, <1>7, <1>11 DEF Takes
<1>13. /\ WireInv(q)' /\ hWire' \in [HsSides -> Seq(HsPackets)]
       /\ hWire'[q] = Tail(hWire[q]) /\ hWire'[p] = hWire[p]
  BY <1>1, <1>3, <1>12, WireConsumed
<1>14. WireInv(p)'
  BY <1>1, <1>3, <1>4, <1>7, <1>11, <1>13, WireStays
<1>15. m = Head(hWire[q]) /\ hWire[q] # <<>> /\ hWire[q] \in Seq(HsPackets) /\ hIn[p] \in Seq(Nat)
  BY <1>1, <1>2, <1>3, <1>5, <1>8 DEF Next1, Arrived
<1>16. /\ m.t = "data" => /\ Delivered(Tail(hWire[q]), Append(hIn[p], m.val), hPend[q], hOut[q])
                          /\ Len(hPend[q]) + Len(Append(hIn[p], m.val)) <= hOut[q]
       /\ m.t # "data" => Delivered(Tail(hWire[q]), hIn[p], hPend[q], hOut[q])
  BY <1>3, <1>8, <1>15, DeliverRead
<1>17. Delivered(hWire'[q], hIn'[p], hPend[q], hOut[q])
  BY <1>9, <1>13, <1>16
<1>18. HsShape'
  <2>1. HsPackets' = HsPackets
    BY <1>4, SamePackets
  <2>2. hLeftR' \in [HsSides -> 0..HsThreshold] /\ hWant' \in [HsSides -> 0..1]
    <3>1. hLeftR \in [HsSides -> 0..HsThreshold] /\ hWant \in [HsSides -> 0..1]
      BY <1>3 DEF HsShape
    <3>2. CASE hLeftR[p] > 0
      <4>1. hLeftR' = [hLeftR EXCEPT ![p] = hLeftR[p] - 1] /\ hWant' = hWant
        BY <3>2 DEF ReadOnePacket
      <4>2. hLeftR[p] - 1 \in 0..HsThreshold
        <5>1. hLeftR[p] \in 0..HsThreshold
          BY <3>1
        <5> QED BY <3>2, <5>1, HsConstants
      <4> QED BY <3>1, <4>1, <4>2
    <3>3. CASE ~(hLeftR[p] > 0)
      <4>1. hWant' = [hWant EXCEPT ![p] = 1] /\ hLeftR' = hLeftR
        BY <3>3 DEF ReadOnePacket
      <4>2. 1 \in 0..1
        OBVIOUS
      <4> QED BY <3>1, <4>1, <4>2
    <3> QED BY <3>2, <3>3
  <2> QED BY <1>2, <1>3, <1>4, <1>7, <1>9, <1>13, <2>1, <2>2 DEF HsShape
<1>19. BoundInv'
  <2>1. BoundInv
    BY DEF HsInv
  <2>2. \A r \in HsSides : r = p \/ r = q
    BY <1>1, TwoSides
  <2>3. hStart'[p] <= hCount[q]
    <3>1. hStart[p] <= hCount[q]
      BY <1>1, <2>1 DEF BoundInv
    <3> QED BY <1>6, <1>7, <1>8, <3>1
  <2>4. Len(hPend[q]) + Len(hIn'[p]) <= hOut[q]
    <3>1. Len(hPend[q]) + Len(hIn[p]) <= hOut[q]
      BY <1>3, <2>1 DEF BoundInv
    <3> QED BY <1>9, <1>16, <3>1
  <2>5. /\ hSent'[p] <= hCount'[p] /\ hOther'[p] <= hCount'[q] /\ hStep'[p] <= 4
        /\ (hSent'[p] = 0 => hPend'[p] = <<>>) /\ hOut'[p] <= HsData
    BY <1>1, <1>4, <2>1 DEF BoundInv
  <2>6. Len(hPend'[p]) + Len(hIn'[q]) <= hOut'[p]
    BY <1>1, <1>4, <1>9, <2>1 DEF BoundInv
  <2>7. /\ hSent'[q] <= hCount'[q] /\ hStart'[q] <= hCount'[p] /\ hOther'[q] <= hCount'[p] /\ hStep'[q] <= 4
        /\ (hSent'[q] = 0 => hPend'[q] = <<>>) /\ hOut'[q] <= HsData
    BY <1>3, <1>4, <1>9, <2>1 DEF BoundInv
  <2> QED BY <1>1, <1>3, <1>4, <2>2, <2>3, <2>4, <2>5, <2>6, <2>7 DEF BoundInv
<1> QED BY <1>1, <1>2, <1>3, <1>4, <1>7, <1>9, <1>11, <1>13, <1>14, <1>17, <1>18, <1>19, Assembled

(* writePacket writes or appends to pendingPackets.                         *)
LEMMA WriteUp == ASSUME NEW p \in HsSides, HsInv, hUp = "up", WritePacket(p) PROVE HsInv'
<1>1. PICK q : q = Other(p)
  OBVIOUS
<1>2. hUp' = "up"
  BY DEF WritePacket
<1>3. /\ q \in HsSides /\ q # p /\ Other(q) = p /\ HsShape /\ LoopsInv(p) /\ KeysInv(p) /\ WireInv(p)
      /\ WireInv(q) /\ LoopsInv(q) /\ KeysInv(q)
      /\ Delivered(hWire[p], hIn[q], hPend[p], hOut[p]) /\ Delivered(hWire[q], hIn[p], hPend[q], hOut[q])
      /\ Len(hPend[p]) + Len(hIn[q]) <= hOut[p]
  BY <1>1, Parts
<1>4. /\ hConf' = hConf
      /\ UNCHANGED <<hRead, hKex, hStep, hSent, hStart, hOther, hEph, hNext, hSid, hCount, hKey, hLeftR, hIn>>
      /\ hOut' = [hOut EXCEPT ![p] = @ + 1] /\ hOut[p] < HsData /\ hSid[p] # <<>>
  BY DEF WritePacket, hKexVars
<1>5. /\ hOut \in [HsSides -> Nat] /\ hPend \in [HsSides -> Seq(Nat)] /\ hWire \in [HsSides -> Seq(HsPackets)]
      /\ hIn[q] \in Seq(Nat) /\ hIn[p] \in Seq(Nat) /\ hCount[p] \in Nat
  BY <1>3 DEF HsShape
<1>6. PICK o : o = hOut[p]
  OBVIOUS
<1>7. o \in Nat /\ hOut'[p] = o + 1 /\ hOut'[q] = hOut[q] /\ hOut' \in [HsSides -> Nat] /\ o + 1 <= HsData
  BY <1>3, <1>4, <1>5, <1>6, HsConstants
<1>8. \A r \in HsSides : SideSame(r)
  BY <1>4 DEF SideSame
<1>9. /\ LoopsInv(q)' /\ KeysInv(q)' /\ RPlace(q)' = RPlace(q) /\ WPlace(q)' = WPlace(q)
      /\ LoopsInv(p)' /\ KeysInv(p)' /\ RPlace(p)' = RPlace(p) /\ WPlace(p)' = WPlace(p)
  BY <1>3, <1>4, <1>8, SideStays
<1>10. PICK n : n = Len(hPend[p])
  OBVIOUS
<1>11. PICK k : k = Len(hIn[q])
  OBVIOUS
<1>12. n \in Nat /\ k \in Nat
  BY <1>5, <1>10, <1>11
<1>13. n + k <= o
  BY <1>3, <1>6, <1>7, <1>10, <1>11, <1>12
<1>14. /\ WireInv(p)' /\ hWire' \in [HsSides -> Seq(HsPackets)] /\ hWire'[q] = hWire[q]
       /\ hErr' = hErr /\ hPend' \in [HsSides -> Seq(Nat)] /\ hPend'[q] = hPend[q]
       /\ hSent[p] = 0 => hPend'[p] = <<>>
       /\ hLeftW' \in [HsSides -> 0..HsThreshold] /\ hWant' \in [HsSides -> 0..1]
       /\ Len(hPend'[p]) + k <= o + 1
       /\ Delivered(hWire'[p], hIn[q], hPend'[p], o + 1)
  <2>1. hLeftW \in [HsSides -> 0..HsThreshold] /\ hWant \in [HsSides -> 0..1]
    BY <1>3 DEF HsShape
  <2>2. CASE hSent[p] # 0
    <3>1. hPend' = [hPend EXCEPT ![p] = Append(hPend[p], o + 1)] /\ UNCHANGED <<hWire, hWant, hLeftW, hErr>>
      BY <1>7, <2>2 DEF WritePacket, HeldBack
    <3>2. Append(hPend[p], o + 1) \in Seq(Nat) /\ Len(Append(hPend[p], o + 1)) = n + 1
      BY <1>5, <1>7, <1>10
    <3>3. hPend'[p] = Append(hPend[p], o + 1) /\ hPend'[q] = hPend[q] /\ hPend' \in [HsSides -> Seq(Nat)]
      BY <1>3, <1>5, <3>1, <3>2
    <3>4. Len(hPend'[p]) + k <= o + 1
      <4>1. (n + 1) + k <= o + 1
        BY <1>7, <1>12, <1>13
      <4> QED BY <3>2, <3>3, <4>1
    <3>5. Delivered(hWire'[p], hIn[q], hPend'[p], o + 1)
      <4>1. hPend[p] \in Seq(Nat)
        BY <1>5
      <4> QED BY <1>3, <1>6, <1>7, <3>1, <3>3, <4>1, DeliverHold
    <3>6. WireInv(p)'
      BY <1>1, <1>3, <1>4, <1>9, <3>1, WireStays
    <3>7. hWire' \in [HsSides -> Seq(HsPackets)] /\ hWire'[q] = hWire[q]
      BY <1>5, <3>1
    <3> QED BY <2>1, <2>2, <3>1, <3>3, <3>4, <3>5, <3>6, <3>7
  <2>3. CASE hSent[p] = 0
    <3>1. Pushed(p, Packet(p, "data", o + 1)) /\ hErr' = hErr /\ hPend' = hPend
      BY <1>7, <2>3 DEF WritePacket, HeldBack
    <3>2. hPend[p] = <<>>
      BY <2>3 DEF HsInv, BoundInv
    <3>3. hKex[p] = "select"
      BY <1>3, <2>3 DEF LoopsInv
    <3>4. WRound(p) = hCount[p] /\ WSlot(p) = 0
      BY <2>3 DEF WRound, WSlot
    <3>5. hKey[p].w = KeyOf(KexAlg, p, hCount[p]) /\ hCount[p] # 0
      BY <1>3, <1>4, <3>4 DEF KeysInv
    <3>6. Fits(p, "data", o + 1, hCount[p])
      <4>1. Slot(KexAlg, "data") = 0
        BY DEF Slot
      <4> QED BY <1>5, <1>7, <3>4, <3>5, <4>1 DEF Fits, WPlace
    <3>7. Writes(p, "data", o + 1, hCount[p])
      BY <1>1, <1>4, <1>5, <1>9, <3>1, <3>6 DEF Writes
    <3>8. /\ WireInv(p)' /\ hWire' \in [HsSides -> Seq(HsPackets)] /\ Packet(p, "data", o + 1) \in HsPackets
          /\ hWire'[p] = Append(hWire[p], Packet(p, "data", o + 1)) /\ hWire'[q] = hWire[q]
      BY <1>1, <1>3, <3>7, WireWritten
    <3>9. Packet(p, "data", o + 1).t = "data" /\ Packet(p, "data", o + 1).val = o + 1
      BY DEF Packet
    <3>10. Delivered(hWire'[p], hIn[q], hPend'[p], o + 1)
      <4>1. hWire[p] \in Seq(HsPackets) /\ Delivered(hWire[p], hIn[q], <<>>, o)
        BY <1>3, <1>5, <1>6, <3>2
      <4>2. Len(hIn[q]) <= o
        BY <1>7, <1>11, <1>12, <1>13
      <4>3. Delivered(Append(hWire[p], Packet(p, "data", o + 1)), hIn[q], <<>>, o + 1)
        BY <1>5, <1>7, <3>8, <3>9, <4>1, <4>2, DeliverWrite
      <4> QED BY <3>1, <3>2, <3>8, <4>3
    <3>11. Len(hPend'[p]) + k <= o + 1
      <4>1. n + k <= o + 1
        BY <1>7, <1>12, <1>13
      <4> QED BY <1>10, <3>1, <4>1
    <3>12. hLeftW' \in [HsSides -> 0..HsThreshold] /\ hWant' \in [HsSides -> 0..1]
      <4>1. CASE hLeftW[p] > 0
        <5>1. hLeftW' = [hLeftW EXCEPT ![p] = hLeftW[p] - 1] /\ hWant' = hWant
          BY <2>3, <4>1 DEF WritePacket, HeldBack
        <5>2. hLeftW[p] - 1 \in 0..HsThreshold
          <6>1. hLeftW[p] \in 0..HsThreshold
            BY <2>1
          <6> QED BY <4>1, <6>1, HsConstants
        <5> QED BY <2>1, <5>1, <5>2
      <4>2. CASE ~(hLeftW[p] > 0)
        <5>1. hWant' = [hWant EXCEPT ![p] = 1] /\ hLeftW' = hLeftW
          BY <2>3, <4>2 DEF WritePacket, HeldBack
        <5>2. 1 \in 0..1
          OBVIOUS
        <5> QED BY <2>1, <5>1, <5>2
      <4> QED BY <4>1, <4>2
    <3> QED BY <1>5, <3>1, <3>2, <3>8, <3>10, <3>11, <3>12
  <2> QED BY <2>2, <2>3
<1>15. WireInv(q)'
  BY <1>3, <1>4, <1>9, <1>14, WireStays
<1>16. Delivered(hWire'[p], hIn'[q], hPend'[p], hOut'[p]) /\ Delivered(hWire'[q], hIn'[p], hPend'[q], hOut'[q])
  BY <1>3, <1>4, <1>7, <1>14
<1>17. HsShape'
  <2>1. HsPackets' = HsPackets
    BY <1>4, SamePackets
  <2> QED BY <1>2, <1>3, <1>4, <1>7, <1>14, <2>1 DEF HsShape
<1>18. BoundInv'
  <2>1. BoundInv
    BY DEF HsInv
  <2>2. \A r \in HsSides : r = p \/ r = q
    BY <1>1, TwoSides
  <2>3. \A r \in HsSides : hSent'[r] <= hCount'[r] /\ hStart'[r] <= hCount'[Other(r)] /\ hOther'[r] <= hCount'[Other(r)] /\ hStep'[r] <= 4
    BY <1>4, <2>1 DEF BoundInv
  <2>4. (hSent'[p] = 0 => hPend'[p] = <<>>) /\ Len(hPend'[p]) + Len(hIn'[q]) <= hOut'[p] /\ hOut'[p] <= HsData
    BY <1>4, <1>7, <1>11, <1>14
  <2>5. (hSent'[q] = 0 => hPend'[q] = <<>>) /\ Len(hPend'[q]) + Len(hIn'[p]) <= hOut'[q] /\ hOut'[q] <= HsData
    BY <1>3, <1>4, <1>7, <1>14, <2>1 DEF BoundInv
  <2> QED BY <1>1, <1>3, <2>2, <2>3, <2>4, <2>5 DEF BoundInv
<1> QED BY <1>1, <1>2, <1>3, <1>4, <1>9, <1>14, <1>15, <1>16, <1>17, <1>18, Assembled

(* On a lost connection nothing is on the way.                              *)
LEMMA AssembledDown ==
    ASSUME HsInv, hUp' = "down", HsShape', BoundInv', hWire' = [p \in HsSides |-> <<>>],
           hSid' = hSid, hKey' = hKey
    PROVE  HsInv'
<1>1. HsAgree'
  BY DEF HsInv, HsAgree
<1>2. HsInOrder' /\ UpInv' /\ DownInv'
  BY DEF HsInOrder, UpInv, DownInv
<1> QED BY <1>1, <1>2 DEF HsInv

(* A side records an error, and nothing else happens.                       *)
LEMMA OnlyFails ==
    ASSUME HsInv, hErr' \in [HsSides -> {"no", "read", "write", "algorithm"}],
           UNCHANGED <<hConf, hWire, hRead, hKexVars, hWant, hPend, hKey, hLeftW, hLeftR, hAppVars, hUp>>
    PROVE  HsInv'
<1>1. /\ hConf' = hConf /\ hUp' = hUp
      /\ UNCHANGED <<hWire, hRead, hKex, hStep, hSent, hStart, hOther, hEph, hNext, hSid, hCount, hKey>>
      /\ UNCHANGED <<hWant, hPend, hLeftW, hLeftR, hIn, hOut>>
  BY DEF hKexVars, hAppVars
<1>2. HsShape'
  <2>1. HsPackets' = HsPackets
    BY <1>1, SamePackets
  <2> QED BY <1>1, <2>1 DEF HsInv, HsShape
<1>3. BoundInv'
  BY <1>1 DEF HsInv, BoundInv
<1>4. CASE hUp = "down"
  <2>1. hWire' = [p \in HsSides |-> <<>>]
    BY <1>1, <1>4 DEF HsInv, DownInv
  <2> QED BY <1>1, <1>2, <1>3, <1>4, <2>1, AssembledDown
<1>5. CASE hUp = "up"
  <2>1. PICK p \in HsSides : TRUE
    BY DEF HsSides
  <2>2. PICK q : q = Other(p)
    OBVIOUS
  <2>3. /\ q \in HsSides /\ q # p /\ Other(q) = p /\ HsShape /\ LoopsInv(p) /\ KeysInv(p) /\ WireInv(p)
        /\ WireInv(q) /\ LoopsInv(q) /\ KeysInv(q)
        /\ Delivered(hWire[p], hIn[q], hPend[p], hOut[p]) /\ Delivered(hWire[q], hIn[p], hPend[q], hOut[q])
    BY <1>5, <2>1, <2>2, Parts
  <2>4. \A r \in HsSides : SideSame(r)
    BY <1>1 DEF SideSame
  <2>5. /\ LoopsInv(q)' /\ KeysInv(q)' /\ RPlace(q)' = RPlace(q) /\ WPlace(q)' = WPlace(q)
        /\ LoopsInv(p)' /\ KeysInv(p)' /\ RPlace(p)' = RPlace(p) /\ WPlace(p)' = WPlace(p)
    BY <1>1, <2>3, <2>4, SideStays
  <2>6. WireInv(p)' /\ WireInv(q)'
    BY <1>1, <2>2, <2>3, <2>5, WireStays
  <2>7. Delivered(hWire'[p], hIn'[q], hPend'[p], hOut'[p]) /\ Delivered(hWire'[q], hIn'[p], hPend'[q], hOut'[q])
    BY <1>1, <2>3
  <2> QED BY <1>1, <1>2, <1>3, <1>5, <2>2, <2>3, <2>5, <2>6, <2>7, Assembled
<1> QED BY <1>4, <1>5 DEF HsInv, HsShape

(* No common algorithm.                                                     *)
LEMMA NoAlgorithmInv == ASSUME NEW p \in HsSides, HsInv, NoAlgorithm(p) PROVE HsInv'
<1>1. hErr' \in [HsSides -> {"no", "read", "write", "algorithm"}]
  BY DEF NoAlgorithm, Fails, HsInv, HsShape
<1> QED BY <1>1, OnlyFails DEF NoAlgorithm

(* A loop finds the connection gone.                                        *)
LEMMA ReadFailsInv == ASSUME NEW p \in HsSides, HsInv, HsReadFails(p) PROVE HsInv'
<1>1. hErr' \in [HsSides -> {"no", "read", "write", "algorithm"}]
  BY DEF HsReadFails, Fails, HsInv, HsShape
<1> QED BY <1>1, OnlyFails DEF HsReadFails

(* Nothing happens.                                                         *)
LEMMA StutterInv == ASSUME HsInv, UNCHANGED hsVars PROVE HsInv'
<1>1. hErr' \in [HsSides -> {"no", "read", "write", "algorithm"}]
  BY DEF hsVars, HsInv, HsShape
<1> QED BY <1>1, OnlyFails DEF hsVars

(* Empty wires are wires.                                                   *)
LEMMA NoPackets == ASSUME hConf' = hConf PROVE [p \in HsSides |-> <<>>] \in [HsSides -> Seq(HsPackets')]
OBVIOUS

(* The connection is lost.                                                  *)
LEMMA ConnLostInv == ASSUME HsInv, HsConnLost PROVE HsInv'
<1>1. /\ hConf' = hConf /\ hUp' = "down" /\ hWire' = [p \in HsSides |-> <<>>]
      /\ UNCHANGED <<hRead, hKex, hStep, hSent, hStart, hOther, hEph, hNext, hSid, hCount, hKey>>
      /\ UNCHANGED <<hWant, hPend, hLeftW, hLeftR, hIn, hOut, hErr>>
  BY DEF HsConnLost, hKexVars, hAppVars
<1>2. HsShape'
  <2>1. HsShape /\ hWire' \in [HsSides -> Seq(HsPackets')]
    BY <1>1, NoPackets DEF HsInv
  <2> QED BY <1>1, <2>1 DEF HsShape
<1>3. BoundInv'
  BY <1>1 DEF HsInv, BoundInv
<1> QED BY <1>1, <1>2, <1>3, AssembledDown

(* After an error, the loops stop and the connection is closed.             *)
LEMMA StopInv == ASSUME NEW p \in HsSides, HsInv, HsStop(p) PROVE HsInv'
<1>1. /\ hConf' = hConf /\ hUp' = "down" /\ hWire' = [r \in HsSides |-> <<>>]
      /\ UNCHANGED <<hStep, hSent, hStart, hOther, hEph, hNext, hSid, hCount, hKey>>
      /\ UNCHANGED <<hWant, hPend, hLeftW, hLeftR, hIn, hOut, hErr>>
      /\ hKex' = [hKex EXCEPT ![p] = "dead"] /\ hRead' = [hRead EXCEPT ![p] = "dead"]
  BY DEF HsStop, hAppVars
<1>2. HsShape'
  <2>1. HsShape /\ hWire' \in [HsSides -> Seq(HsPackets')]
    BY <1>1, NoPackets DEF HsInv
  <2>2. /\ hKex' \in [HsSides -> {"select", "exchange", "newkeys", "finish", "dead"}]
        /\ hRead' \in [HsSides -> {"first", "read", "kex", "dead"}]
    BY <1>1, <2>1 DEF HsShape
  <2> QED BY <1>1, <2>1, <2>2 DEF HsShape
<1>3. BoundInv'
  BY <1>1 DEF HsInv, BoundInv
<1> QED BY <1>1, <1>2, <1>3, AssembledDown

(* kexLoop is woken on a lost connection: no KEXINIT can be written.        *)
LEMMA WakeDown == ASSUME NEW p \in HsSides, HsInv, hUp = "down", KexWake(p) PROVE HsInv'
<1>1. PICK q : q = Other(p)
  OBVIOUS
<1>2. q \in HsSides /\ q # p /\ Other(q) = p /\ HsShape /\ BoundInv /\ \A r \in HsSides : r = p \/ r = q
  BY <1>1, TwoSides DEF HsInv
<1>3. /\ hConf' = hConf /\ hUp' = "down"
      /\ UNCHANGED <<hRead, hStep, hEph, hNext, hSid, hPend, hKey, hLeftW, hLeftR, hIn, hOut>>
      /\ UNCHANGED <<hWire, hSent, hCount>> /\ (hErr' = hErr \/ hErr' = [hErr EXCEPT ![p] = "write"])
      /\ hKex' = [hKex EXCEPT ![p] = IF hOther'[p] # 0 /\ hSent'[p] # 0 THEN "exchange" ELSE "select"]
      /\ \/ hOther' = [hOther EXCEPT ![p] = hStart[p]] /\ hStart' = [hStart EXCEPT ![p] = 0] /\ hWant' = hWant
         \/ hWant' = [hWant EXCEPT ![p] = 0] /\ hOther' = hOther /\ hStart' = hStart
  BY DEF KexWake, SendKexInit, Fails, hAppVars
<1>4. hWire' = [r \in HsSides |-> <<>>]
  BY <1>3 DEF HsInv, DownInv
<1>5. hOther \in [HsSides -> Nat] /\ hStart \in [HsSides -> Nat] /\ hWant \in [HsSides -> 0..1]
  BY <1>2 DEF HsShape
<1>6. hOther' \in [HsSides -> Nat] /\ hStart' \in [HsSides -> Nat] /\ hWant' \in [HsSides -> 0..1]
  <2>1. hStart[p] \in Nat /\ 0 \in 0..1
    BY <1>5
  <2> QED BY <1>3, <1>5, <2>1
<1>7. /\ hKex' \in [HsSides -> {"select", "exchange", "newkeys", "finish", "dead"}]
      /\ hErr' \in [HsSides -> {"no", "read", "write", "algorithm"}]
  BY <1>2, <1>3 DEF HsShape
<1>8. HsShape'
  <2>1. HsPackets' = HsPackets
    BY <1>3, SamePackets
  <2> QED BY <1>2, <1>3, <1>6, <1>7, <2>1 DEF HsShape
<1>9. BoundInv'
  <2>1. hOther'[p] \in {hOther[p], hStart[p]} /\ hStart'[p] \in {hStart[p], 0} /\ hOther'[q] = hOther[q] /\ hStart'[q] = hStart[q]
    BY <1>2, <1>3, <1>5
  <2>2. hStart[p] <= hCount[q] /\ hOther[p] <= hCount[q] /\ hStart[q] <= hCount[p] /\ hOther[q] <= hCount[p]
    BY <1>1, <1>2 DEF BoundInv
  <2>3. 0 <= hCount[q]
    <3>1. hCount \in [HsSides -> Nat]
      BY <1>2 DEF HsShape
    <3>2. hCount[q] \in Nat
      BY <1>2, <3>1
    <3> QED BY <3>2
  <2>4. hStart'[p] <= hCount[q] /\ hOther'[p] <= hCount[q] /\ hStart'[q] <= hCount[p] /\ hOther'[q] <= hCount[p]
    BY <2>1, <2>2, <2>3
  <2>5. \A r \in HsSides : /\ hSent'[r] <= hCount'[r] /\ hStep'[r] <= 4 /\ (hSent'[r] = 0 => hPend'[r] = <<>>)
                           /\ Len(hPend'[r]) + Len(hIn'[Other(r)]) <= hOut'[r] /\ hOut'[r] <= HsData
    BY <1>2, <1>3 DEF BoundInv
  <2> QED BY <1>1, <1>2, <1>3, <2>4, <2>5 DEF BoundInv
<1> QED BY <1>3, <1>4, <1>8, <1>9, AssembledDown

(* An iteration of kexLoop ends on a lost connection.                       *)
LEMMA FinishDown == ASSUME NEW p \in HsSides, HsInv, hUp = "down", FinishKex(p) PROVE HsInv'
<1>1. PICK q : q = Other(p)
  OBVIOUS
<1>2. q \in HsSides /\ q # p /\ Other(q) = p /\ HsShape /\ BoundInv /\ \A r \in HsSides : r = p \/ r = q
  BY <1>1, TwoSides DEF HsInv
<1>3. /\ hConf' = hConf /\ hUp' = "down" /\ UNCHANGED <<hStart, hEph, hNext, hSid, hCount, hKey, hIn, hOut, hErr, hWire>>
      /\ hSent' = [hSent EXCEPT ![p] = 0] /\ hOther' = [hOther EXCEPT ![p] = 0] /\ hStep' = [hStep EXCEPT ![p] = 0]
      /\ hLeftW' = [hLeftW EXCEPT ![p] = HsThreshold] /\ hLeftR' = [hLeftR EXCEPT ![p] = HsThreshold]
      /\ hWant' = [hWant EXCEPT ![p] = 0] /\ hRead' = [hRead EXCEPT ![p] = "read"]
      /\ hPend' = [hPend EXCEPT ![p] = <<>>] /\ hKex' = [hKex EXCEPT ![p] = "select"]
  BY DEF FinishKex, Released, hAppVars
<1>4. hWire' = [r \in HsSides |-> <<>>]
  BY <1>3 DEF HsInv, DownInv
<1>5. /\ hPend \in [HsSides -> Seq(Nat)] /\ hSent \in [HsSides -> Nat] /\ hOther \in [HsSides -> Nat]
      /\ hStep \in [HsSides -> Nat] /\ hLeftW \in [HsSides -> 0..HsThreshold] /\ hLeftR \in [HsSides -> 0..HsThreshold]
      /\ hWant \in [HsSides -> 0..1] /\ hCount \in [HsSides -> Nat] /\ hIn \in [HsSides -> Seq(Nat)]
      /\ hOut \in [HsSides -> Nat]
  BY <1>2 DEF HsShape
<1>6. /\ hPend' \in [HsSides -> Seq(Nat)] /\ hSent' \in [HsSides -> Nat] /\ hOther' \in [HsSides -> Nat]
      /\ hStep' \in [HsSides -> Nat] /\ hLeftW' \in [HsSides -> 0..HsThreshold] /\ hLeftR' \in [HsSides -> 0..HsThreshold]
      /\ hWant' \in [HsSides -> 0..1]
  <2>1. HsThreshold \in 0..HsThreshold /\ 0 \in 0..1 /\ <<>> \in Seq(Nat)
    BY HsConstants
  <2> QED BY <1>3, <1>5, <2>1
<1>7. /\ hKex' \in [HsSides -> {"select", "exchange", "newkeys", "finish", "dead"}]
      /\ hRead' \in [HsSides -> {"first", "read", "kex", "dead"}]
  BY <1>2, <1>3 DEF HsShape
<1>8. HsShape'
  <2>1. HsPackets' = HsPackets
    BY <1>3, SamePackets
  <2> QED BY <1>2, <1>3, <1>6, <1>7, <2>1 DEF HsShape
<1>9. BoundInv'
  <2>1. /\ hSent'[p] = 0 /\ hOther'[p] = 0 /\ hStep'[p] = 0 /\ hSent'[q] = hSent[q] /\ hOther'[q] = hOther[q]
        /\ hStep'[q] = hStep[q] /\ hPend'[p] = <<>> /\ hPend'[q] = hPend[q]
    BY <1>2, <1>3, <1>5
  <2>2. /\ hStart[p] <= hCount[q] /\ hOut[p] <= HsData /\ hStart[q] <= hCount[p] /\ hOther[q] <= hCount[p]
        /\ hSent[q] <= hCount[q] /\ hStep[q] <= 4 /\ (hSent[q] = 0 => hPend[q] = <<>>) /\ hOut[q] <= HsData
        /\ Len(hPend[q]) + Len(hIn[p]) <= hOut[q] /\ Len(hPend[p]) + Len(hIn[q]) <= hOut[p]
    BY <1>1, <1>2 DEF BoundInv
  <2>3. 0 <= hCount[p] /\ 0 <= hCount[q]
    <3>1. hCount[p] \in Nat /\ hCount[q] \in Nat
      BY <1>2, <1>5
    <3> QED BY <3>1
  <2>4. 0 + Len(hIn[q]) <= hOut[p]
    <3>1. PICK n : n = Len(hPend[p])
      OBVIOUS
    <3>2. PICK k : k = Len(hIn[q])
      OBVIOUS
    <3>3. PICK o : o = hOut[p]
      OBVIOUS
    <3>4. n \in Nat /\ k \in Nat /\ o \in Nat
      BY <1>2, <1>5, <3>1, <3>2, <3>3
    <3>5. n + k <= o
      BY <2>2, <3>1, <3>2, <3>3, <3>4
    <3>6. 0 + k <= o
      BY <3>4, <3>5
    <3> QED BY <3>2, <3>3, <3>6
  <2>5. Len(<<>>) = 0
    OBVIOUS
  <2>6. /\ hSent'[p] <= hCount'[p] /\ hStart'[p] <= hCount'[q] /\ hOther'[p] <= hCount'[q] /\ hStep'[p] <= 4
        /\ (hSent'[p] = 0 => hPend'[p] = <<>>) /\ hOut'[p] <= HsData
    BY <1>3, <2>1, <2>2, <2>3
  <2>8. Len(hPend'[p]) + Len(hIn'[q]) <= hOut'[p]
    <3>1. hIn'[q] = hIn[q] /\ hOut'[p] = hOut[p] /\ hPend'[p] = <<>>
      BY <1>3, <2>1
    <3> QED BY <2>4, <2>5, <3>1
  <2>7. /\ hSent'[q] <= hCount'[q] /\ hStart'[q] <= hCount'[p] /\ hOther'[q] <= hCount'[p] /\ hStep'[q] <= 4
        /\ (hSent'[q] = 0 => hPend'[q] = <<>>) /\ hOut'[q] <= HsData
        /\ Len(hPend'[q]) + Len(hIn'[p]) <= hOut'[q]
    BY <1>3, <2>1, <2>2
  <2> QED BY <1>1, <1>2, <2>6, <2>7, <2>8 DEF BoundInv
<1> QED BY <1>3, <1>4, <1>8, <1>9, AssembledDown

(* writePacket on a lost connection.                                        *)
LEMMA WriteDown == ASSUME NEW p \in HsSides, HsInv, hUp = "down", WritePacket(p) PROVE HsInv'
<1>1. PICK q : q = Other(p)
  OBVIOUS
<1>2. q \in HsSides /\ q # p /\ Other(q) = p /\ HsShape /\ BoundInv /\ \A r \in HsSides : r = p \/ r = q
  BY <1>1, TwoSides DEF HsInv
<1>3. /\ hConf' = hConf /\ hUp' = "down" /\ hWire' = hWire
      /\ UNCHANGED <<hRead, hKex, hStep, hSent, hStart, hOther, hEph, hNext, hSid, hCount, hKey, hLeftR, hIn>>
      /\ hOut' = [hOut EXCEPT ![p] = @ + 1] /\ hOut[p] < HsData
      /\ \/ hLeftW' = hLeftW
         \/ hLeftW[p] > 0 /\ hLeftW' = [hLeftW EXCEPT ![p] = @ - 1]
      /\ hWant' = hWant \/ hWant' = [hWant EXCEPT ![p] = 1]
      /\ hErr' = hErr \/ hErr' = [hErr EXCEPT ![p] = "write"]
      /\ \/ hSent[p] # 0 /\ hPend' = [hPend EXCEPT ![p] = Append(@, hOut'[p])]
         \/ hSent[p] = 0 /\ hPend' = hPend
  BY DEF WritePacket, HeldBack, Fails, hKexVars
<1>4. hWire' = [r \in HsSides |-> <<>>]
  BY <1>3 DEF HsInv, DownInv
<1>5. /\ hOut \in [HsSides -> Nat] /\ hPend \in [HsSides -> Seq(Nat)] /\ hIn \in [HsSides -> Seq(Nat)]
      /\ hLeftW \in [HsSides -> 0..HsThreshold] /\ hWant \in [HsSides -> 0..1]
  BY <1>2 DEF HsShape
<1>6. PICK o : o = hOut[p]
  OBVIOUS
<1>7. o \in Nat /\ hOut'[p] = o + 1 /\ hOut'[q] = hOut[q] /\ hOut' \in [HsSides -> Nat] /\ o + 1 <= HsData
  BY <1>2, <1>3, <1>5, <1>6, HsConstants
<1>8. PICK n : n = Len(hPend[p])
  OBVIOUS
<1>9. PICK k : k = Len(hIn[q])
  OBVIOUS
<1>10. n \in Nat /\ k \in Nat
  BY <1>2, <1>5, <1>8, <1>9
<1>11. n + k <= o
  <2>1. Len(hPend[p]) + Len(hIn[q]) <= hOut[p]
    BY <1>1, <1>2 DEF BoundInv
  <2> QED BY <1>6, <1>7, <1>8, <1>9, <1>10, <2>1
<1>12. /\ hPend' \in [HsSides -> Seq(Nat)] /\ hPend'[q] = hPend[q] /\ (hSent[p] = 0 => hPend'[p] = <<>>)
       /\ Len(hPend'[p]) + k <= o + 1
  <2>1. CASE hSent[p] # 0
    <3>1. Append(hPend[p], o + 1) \in Seq(Nat) /\ Len(Append(hPend[p], o + 1)) = n + 1
      BY <1>5, <1>7, <1>8
    <3>2. hPend' = [hPend EXCEPT ![p] = Append(hPend[p], o + 1)]
      BY <1>3, <1>7, <2>1
    <3>3. hPend'[p] = Append(hPend[p], o + 1) /\ hPend'[q] = hPend[q] /\ hPend' \in [HsSides -> Seq(Nat)]
      BY <1>2, <1>5, <3>1, <3>2
    <3>4. (n + 1) + k <= o + 1
      BY <1>7, <1>10, <1>11
    <3> QED BY <2>1, <3>1, <3>3, <3>4
  <2>2. CASE hSent[p] = 0
    <3>1. hPend[p] = <<>>
      BY <1>2, <2>2 DEF BoundInv
    <3>2. n + k <= o + 1
      BY <1>7, <1>10, <1>11
    <3> QED BY <1>3, <1>5, <1>8, <2>2, <3>1, <3>2
  <2> QED BY <2>1, <2>2
<1>13. /\ hLeftW' \in [HsSides -> 0..HsThreshold] /\ hWant' \in [HsSides -> 0..1]
       /\ hErr' \in [HsSides -> {"no", "read", "write", "algorithm"}]
  <2>1. hLeftW[p] > 0 => hLeftW[p] - 1 \in 0..HsThreshold
    <3>1. hLeftW[p] \in 0..HsThreshold
      BY <1>5
    <3> QED BY <3>1, HsConstants
  <2>2. hLeftW' \in [HsSides -> 0..HsThreshold]
    BY <1>3, <1>5, <2>1
  <2>3. hWant' \in [HsSides -> 0..1]
    <3>1. 1 \in 0..1
      OBVIOUS
    <3> QED BY <1>3, <1>5, <3>1
  <2>4. hErr' \in [HsSides -> {"no", "read", "write", "algorithm"}]
    BY <1>2, <1>3 DEF HsShape
  <2> QED BY <2>2, <2>3, <2>4
<1>14. HsShape'
  <2>1. HsPackets' = HsPackets
    BY <1>3, SamePackets
  <2> QED BY <1>2, <1>3, <1>7, <1>12, <1>13, <2>1 DEF HsShape
<1>15. BoundInv'
  <2>1. \A r \in HsSides : hSent'[r] <= hCount'[r] /\ hStart'[r] <= hCount'[Other(r)] /\ hOther'[r] <= hCount'[Other(r)] /\ hStep'[r] <= 4
    BY <1>2, <1>3 DEF BoundInv
  <2>2. (hSent'[p] = 0 => hPend'[p] = <<>>) /\ Len(hPend'[p]) + Len(hIn'[q]) <= hOut'[p] /\ hOut'[p] <= HsData
    BY <1>3, <1>7, <1>9, <1>12
  <2>3. (hSent'[q] = 0 => hPend'[q] = <<>>) /\ Len(hPend'[q]) + Len(hIn'[p]) <= hOut'[q] /\ hOut'[q] <= HsData
    BY <1>2, <1>3, <1>7, <1>12 DEF BoundInv
  <2> QED BY <1>1, <1>2, <2>1, <2>2, <2>3 DEF BoundInv
<1> QED BY <1>3, <1>4, <1>14, <1>15, AssembledDown

(* Every step keeps the invariant.                                          *)
LEMMA HsNextInv == HsInv /\ [HsNext]_hsVars => HsInv'
<1> SUFFICES ASSUME HsInv, [HsNext]_hsVars PROVE HsInv'
  OBVIOUS
<1>1. hUp \in {"up", "down"}
  BY DEF HsInv, HsShape
<1>2. ASSUME NEW p \in HsSides, HsLoopSteps(p) \/ HsReadSteps(p) \/ WritePacket(p) PROVE HsInv'
  <2>1. CASE KexWake(p)
    BY <1>1, <2>1, WakeUp, WakeDown
  <2>2. CASE NoAlgorithm(p)
    BY <2>2, NoAlgorithmInv
  <2>3. CASE ExchangeStep(p)
    BY <2>3, ExchangeUp
  <2>4. CASE SendNewKeys(p)
    BY <2>4, SendNewKeysUp
  <2>5. CASE ReadNewKeys(p)
    BY <2>5, ReadNewKeysUp
  <2>6. CASE FinishKex(p)
    BY <1>1, <2>6, FinishUp, FinishDown
  <2>7. CASE HsStop(p)
    BY <2>7, StopInv
  <2>8. CASE ReadOnePacket(p)
    BY <2>8, ReadOneUp
  <2>9. CASE HsReadFails(p)
    BY <2>9, ReadFailsInv
  <2>10. CASE WritePacket(p)
    BY <1>1, <2>10, WriteUp, WriteDown
  <2> QED BY <1>2, <2>1, <2>2, <2>3, <2>4, <2>5, <2>6, <2>7, <2>8, <2>9, <2>10 DEF HsLoopSteps, HsReadSteps
<1>3. CASE HsConnLost
  BY <1>3, ConnLostInv
<1>4. CASE UNCHANGED hsVars
  BY <1>4, StutterInv
<1> QED BY <1>2, <1>3, <1>4 DEF HsNext

(* A KEXINIT leads to slot 1, and only NEWKEYS leads back to slot 0, where  *)
(* data is.                                                                 *)
LEMMA ChainSilent ==
    ASSUME NEW a, NEW p, NEW w, NEW from, NEW to, Chain(a, p, w, from, to), Len(w) \in Nat,
           NEW i \in 1..Len(w), NEW j \in 1..Len(w), i < j, w[i].t = "kexinit", w[j].t = "data"
    PROVE  \E k \in i..j : w[k].t = "newkeys"
<1>1. SUFFICES ASSUME \A k \in i..j : w[k].t # "newkeys" PROVE FALSE
  OBVIOUS
<1>2. PICK n : n = Len(w)
  OBVIOUS
<1>3. n \in Nat /\ i \in 1..n /\ j \in 1..n
  BY <1>2
<1>4. PICK S : S = {k \in (i + 1)..j : w[k].t \in {"data", "kexinit"}}
  OBVIOUS
<1>5. S \subseteq Nat /\ j \in S
  BY <1>3, <1>4
<1>6. PICK x \in S : \A y \in S : x <= y
  BY <1>5, HasLeast
<1>7. x \in (i + 1)..j /\ x \in 1..n /\ x # 1 /\ x - 1 \in i..j /\ x - 1 \in Int /\ w[x].t \in {"data", "kexinit"}
  BY <1>3, <1>4, <1>6
<1>8. At(a, w[x]) = After(a, w[x - 1])
  BY <1>2, <1>7 DEF Chain
<1>9. Slot(a, w[x].t) = 0
  BY <1>7 DEF Slot
<1>10. w[x - 1].t # "data" /\ w[x - 1].t # "newkeys"
  <2>1. w[x - 1].t # "newkeys"
    BY <1>1, <1>7
  <2>2. CASE x = i + 1
    <3>1. x - 1 = i
      BY <1>3, <2>2
    <3> QED BY <2>1, <3>1
  <2>3. CASE x # i + 1
    <3>1. x - 1 \in (i + 1)..j
      BY <1>3, <1>7, <2>3
    <3>2. x - 1 \notin S
      <4>1. ~(x <= x - 1)
        BY <1>3, <1>7
      <4> QED BY <1>6, <4>1
    <3> QED BY <1>4, <2>1, <3>1, <3>2
  <2> QED BY <2>2, <2>3
<1>11. After(a, w[x - 1]) = <<Epoch(w[x - 1]), Slot(a, w[x - 1].t) + 1>>
  BY <1>10 DEF After
<1>12. At(a, w[x]) = <<Epoch(w[x]), 0>>
  BY <1>9 DEF At
<1>13. Slot(a, w[x - 1].t) + 1 = 0
  BY <1>8, <1>11, <1>12
<1>14. Slot(a, w[x - 1].t) \in {0, 1, 2}
  BY <1>10 DEF Slot
<1> QED BY <1>13, <1>14

(* The invariant implies what the handshake promises.                       *)
LEMMA HsInvSound == HsInv => HsSound
<1> SUFFICES ASSUME HsInv PROVE HsSound
  OBVIOUS
<1>1. HsShape /\ BoundInv /\ \A p \in HsSides : Other(p) \in HsSides
  BY TwoSides DEF HsInv
<1>2. HsTypeOK
  <2>1. ASSUME NEW p \in HsSides
        PROVE  /\ hSent[p] \in 0..hCount[p] /\ hStart[p] \in 0..hCount[Other(p)] /\ hOther[p] \in 0..hCount[Other(p)]
               /\ hStep[p] \in 0..4 /\ hLeftW[p] \in 0..HsThreshold /\ hLeftR[p] \in 0..HsThreshold
               /\ Len(hPend[p]) + Len(hIn[Other(p)]) <= hOut[p] /\ hOut[p] <= HsData
    <3>1. /\ hSent[p] \in Nat /\ hStart[p] \in Nat /\ hOther[p] \in Nat /\ hStep[p] \in Nat /\ hCount[p] \in Nat
          /\ hCount[Other(p)] \in Nat /\ hLeftW[p] \in 0..HsThreshold /\ hLeftR[p] \in 0..HsThreshold
      BY <1>1 DEF HsShape
    <3>2. /\ hSent[p] <= hCount[p] /\ hStart[p] <= hCount[Other(p)] /\ hOther[p] <= hCount[Other(p)] /\ hStep[p] <= 4
          /\ Len(hPend[p]) + Len(hIn[Other(p)]) <= hOut[p] /\ hOut[p] <= HsData
      BY <1>1 DEF BoundInv
    <3>3. hSent[p] \in 0..hCount[p] /\ hStart[p] \in 0..hCount[Other(p)] /\ hOther[p] \in 0..hCount[Other(p)]
      BY <3>1, <3>2
    <3>4. hStep[p] \in 0..4
      BY <3>1, <3>2
    <3>5. Len(hPend[p]) + Len(hIn[Other(p)]) <= hOut[p] /\ hOut[p] <= HsData
      BY <3>2
    <3> QED BY <3>1, <3>3, <3>4, <3>5
  <2>2. /\ hRead \in [HsSides -> {"first", "read", "kex", "dead"}]
        /\ hKex \in [HsSides -> {"select", "exchange", "newkeys", "finish", "dead"}]
        /\ hErr \in [HsSides -> {"no", "read", "write", "algorithm", "unexpected", "mac"}]
        /\ hWant \in [HsSides -> 0..1] /\ hUp \in {"up", "down"}
    BY <1>1 DEF HsShape
  <2> QED BY <2>1, <2>2 DEF HsTypeOK
<1>3. HsKeysInStep
  BY <1>1 DEF HsKeysInStep, HsShape
<1>4. HsSilent
  <2>1. SUFFICES ASSUME NEW p \in HsSides, NEW i \in 1..Len(hWire[p]), NEW j \in 1..Len(hWire[p]),
                        i < j, hWire[p][i].t = "kexinit", hWire[p][j].t = "data"
                 PROVE  \E k \in i..j : hWire[p][k].t = "newkeys"
    BY DEF HsSilent
  <2>2. hWire[p] \in Seq(HsPackets) /\ Len(hWire[p]) \in Nat
    BY <1>1 DEF HsShape
  <2>3. CASE hUp = "up"
    <3>1. Chain(KexAlg, p, hWire[p], RPlace(Other(p)), WPlace(p))
      BY <2>3 DEF HsInv, UpInv, WireInv
    <3> QED BY <2>1, <2>2, <3>1, ChainSilent
  <2>4. CASE hUp = "down"
    <3>1. hWire[p] = <<>>
      BY <2>4 DEF HsInv, DownInv
    <3> QED BY <2>1, <3>1
  <2> QED BY <1>1, <2>3, <2>4 DEF HsShape
<1> QED BY <1>2, <1>3, <1>4 DEF HsInv, HsSound

(* However the key exchanges that either side starts, the traffic and the   *)
(* loss of the connection interleave (readLoop, kexLoop and writePacket of  *)
(* handshake.go): every packet is read with the key it was written with and *)
(* where it is expected, nothing but the exchange is sent between a KEXINIT *)
(* and its NEWKEYS, both sides keep the session id of the first exchange, and *)
(* no packet is lost, repeated or reordered. For all lists of algorithms, any *)
(* threshold and any number of packets and of exchanges.                    *)
THEOREM HandshakeIsSound == HsSpec => []HsSound
<1>1. HsSpec => []HsInv
  BY HsInitInv, HsNextInv, PTL DEF HsSpec
<1> QED BY <1>1, HsInvSound, PTL

------------------------------------------------------------------------------
(* Powers of two: the recursive function WrTwo exists.                      *)

Doubles(n, f) == f \in [0..n -> Nat] /\ f[0] = 1 /\ \A i \in 1..n : f[i] = 2 * f[i - 1]

(* There are tables of the powers up to every exponent.                      *)
LEMMA DoublesExist == \A n \in Nat : \E f : Doubles(n, f)
<1> DEFINE S == {n \in Nat : \E f : Doubles(n, f)}
<1>1. 0 \in S
  <2>1. Doubles(0, [i \in 0..0 |-> 1])
    BY DEF Doubles
  <2> QED BY <2>1
<1>2. ASSUME NEW n \in S PROVE n + 1 \in S
  <2>1. PICK f : Doubles(n, f)
    OBVIOUS
  <2> DEFINE g == [i \in 0..(n + 1) |-> IF i = n + 1 THEN 2 * f[n] ELSE f[i]]
  <2>2. g \in [0..(n + 1) -> Nat] /\ g[0] = 1
    BY <2>1 DEF Doubles
  <2>3. ASSUME NEW i \in 1..(n + 1) PROVE g[i] = 2 * g[i - 1]
    <3>1. CASE i = n + 1
      BY <3>1
    <3>2. CASE i \in 1..n
      <4>1. g[i] = f[i] /\ g[i - 1] = f[i - 1]
        BY <3>2
      <4> QED BY <2>1, <3>2, <4>1 DEF Doubles
    <3> QED BY <3>1, <3>2
  <2>4. Doubles(n + 1, g)
    BY <2>2, <2>3 DEF Doubles
  <2> QED BY <2>4
<1>3. S = Nat
  <2> HIDE DEF S
  <2>1. S \subseteq Nat
    BY DEF S
  <2> QED BY <1>1, <1>2, <2>1, SetInduction
<1> QED BY <1>3

(* Two tables agree where both are defined.                                  *)
LEMMA DoublesAgree ==
    ASSUME NEW n \in Nat, NEW m \in Nat, NEW f, NEW g, Doubles(n, f), Doubles(m, g)
    PROVE  \A i \in Nat : i <= n /\ i <= m => f[i] = g[i]
<1> DEFINE S == {i \in Nat : i <= n /\ i <= m => f[i] = g[i]}
<1>1. 0 \in S
  BY DEF Doubles
<1>2. ASSUME NEW i \in S PROVE i + 1 \in S
  BY DEF Doubles
<1>3. S = Nat
  <2> HIDE DEF S
  <2>1. S \subseteq Nat
    BY DEF S
  <2> QED BY <1>1, <1>2, <2>1, SetInduction
<1> QED BY <1>3

(* The recursive definition of WrTwo.                                        *)
IsTwo(f) == f = [k \in Nat |-> IF k = 0 THEN 1 ELSE 2 * f[k - 1]]

(* WrTwo satisfies its recursive definition, and its values are positive.    *)
LEMMA TwoIs ==
    /\ WrTwo[0] = 1
    /\ \A k \in Nat : WrTwo[k] \in Nat \ {0} /\ WrTwo[k + 1] = 2 * WrTwo[k]
<1>1. PICK c : c = [n \in Nat |-> CHOOSE f : Doubles(n, f)]
  OBVIOUS
<1>2. \A n \in Nat : Doubles(n, c[n])
  BY <1>1, DoublesExist
<1>3. PICK g : g = [n \in Nat |-> c[n][n]]
  OBVIOUS
<1>4. g[0] = 1
  BY <1>2, <1>3 DEF Doubles
<1>5. ASSUME NEW k \in Nat \ {0} PROVE g[k] = 2 * g[k - 1]
  <2>1. k - 1 \in Nat /\ Doubles(k, c[k]) /\ Doubles(k - 1, c[k - 1])
    BY <1>2
  <2>2. c[k][k - 1] = c[k - 1][k - 1]
    BY <2>1, DoublesAgree
  <2>3. c[k][k] = 2 * c[k][k - 1]
    BY <2>1 DEF Doubles
  <2> QED BY <1>3, <2>1, <2>2, <2>3
<1>6. IsTwo(g)
  <2>1. \A k \in Nat : g[k] = IF k = 0 THEN 1 ELSE 2 * g[k - 1]
    BY <1>4, <1>5
  <2>2. g = [k \in Nat |-> g[k]]
    BY <1>3
  <2> QED BY <2>1, <2>2 DEF IsTwo
<1>7. WrTwo = CHOOSE f : IsTwo(f)
  BY DEF WrTwo, IsTwo
<1>8. IsTwo(WrTwo)
  BY <1>6, <1>7
<1>9. PICK h : h = WrTwo
  OBVIOUS
<1>10. h = [k \in Nat |-> IF k = 0 THEN 1 ELSE 2 * h[k - 1]]
  BY <1>8, <1>9 DEF IsTwo
<1>11. \A k \in Nat : h[k] = IF k = 0 THEN 1 ELSE 2 * h[k - 1]
  BY <1>10, Zenon
<1>12. h[0] = 1 /\ \A k \in Nat : h[k + 1] = 2 * h[k]
  BY <1>11
<1> DEFINE S == {k \in Nat : h[k] \in Nat \ {0}}
<1>13. 0 \in S /\ \A k \in S : k + 1 \in S
  BY <1>12
<1>14. S = Nat
  <2> HIDE DEF S
  <2>1. S \subseteq Nat
    BY DEF S
  <2> QED BY <1>13, <2>1, SetInduction
<1> QED BY <1>9, <1>12, <1>14

(* Powers of a sum.                                                          *)
LEMMA TwoSum ==
    ASSUME NEW a \in Nat, NEW b \in Nat
    PROVE  WrTwo[a + b] = WrTwo[a] * WrTwo[b]
<1> DEFINE S == {i \in Nat : WrTwo[a + i] = WrTwo[a] * WrTwo[i]}
<1>1. 0 \in S
  BY TwoIs
<1>2. ASSUME NEW i \in S PROVE i + 1 \in S
  <2>1. PICK x, y, z : x = WrTwo[a] /\ y = WrTwo[i] /\ z = WrTwo[a + i]
    OBVIOUS
  <2>2. x \in Nat /\ y \in Nat /\ z = x * y
    BY <2>1, TwoIs
  <2>3. WrTwo[i + 1] = 2 * y /\ WrTwo[a + (i + 1)] = 2 * z
    <3>1. a + i \in Nat /\ a + (i + 1) = (a + i) + 1
      OBVIOUS
    <3> QED BY <2>1, <3>1, TwoIs
  <2>4. 2 * z = x * (2 * y)
    BY <2>2
  <2> QED BY <2>1, <2>3, <2>4
<1>3. S = Nat
  <2> HIDE DEF S
  <2>1. S \subseteq Nat
    BY DEF S
  <2> QED BY <1>1, <1>2, <2>1, SetInduction
<1> QED BY <1>3

(* Powers grow.                                                              *)
LEMMA TwoGrows ==
    ASSUME NEW a \in Nat, NEW b \in Nat, a < b
    PROVE  2 * WrTwo[a] <= WrTwo[b] /\ WrTwo[a] < WrTwo[b]
<1>1. PICK d : d = b - (a + 1)
  OBVIOUS
<1>2. d \in Nat /\ a + 1 \in Nat /\ b = (a + 1) + d
  BY <1>1
<1>3. PICK x, y : x = WrTwo[a] /\ y = WrTwo[d]
  OBVIOUS
<1>4. x \in Nat \ {0} /\ y \in Nat \ {0} /\ WrTwo[a + 1] = 2 * x
  BY <1>2, <1>3, TwoIs
<1>5. WrTwo[b] = (2 * x) * y
  BY <1>2, <1>3, <1>4, TwoSum
<1>6. 2 * x <= (2 * x) * y
  BY <1>4
<1> QED BY <1>3, <1>4, <1>5, <1>6

(* A number is below its power.                                              *)
LEMMA TwoAbove == ASSUME NEW n \in Nat PROVE n < WrTwo[n]
<1> DEFINE S == {i \in Nat : i < WrTwo[i]}
<1>1. 0 \in S /\ \A i \in S : i + 1 \in S
  BY TwoIs
<1>2. S = Nat
  <2> HIDE DEF S
  <2>1. S \subseteq Nat
    BY DEF S
  <2> QED BY <1>1, <2>1, SetInduction
<1> QED BY <1>2

(* The base is even and at least two.                                        *)
LEMMA BaseIs ==
    /\ WrBase \in Nat /\ WrBase >= 2 /\ WrBits \in Nat /\ WrBits > 0 /\ WrWord \in Nat /\ WrWord > 0 /\ WrArray \in Nat
    /\ WrBase = 2 * WrTwo[WrBits - 1] /\ WrTwo[WrBits - 1] \in Nat /\ WrComma \in WrByte
<1>1. WrBits \in Nat /\ WrBits > 0 /\ WrBits - 1 \in Nat /\ (WrBits - 1) + 1 = WrBits
  BY WrAssumption
<1>2. PICK h : h = WrTwo[WrBits - 1]
  OBVIOUS
<1>3. h \in Nat \ {0} /\ WrBase = 2 * h
  BY <1>1, <1>2, TwoIs DEF WrBase
<1> QED BY <1>1, <1>2, <1>3, WrAssumption

(* Bytes are the numbers below the base.                                     *)
LEMMA ByteIs ==
    /\ WrBase \in Nat /\ WrBase >= 2 /\ \A x \in WrByte : x \in Nat /\ x < WrBase
    /\ \A x \in Nat : x < WrBase => x \in WrByte
<1>1. PICK B : B = WrBase
  OBVIOUS
<1>2. B \in Nat /\ B >= 2
  BY <1>1, BaseIs
<1>3. WrByte = 0..(B - 1)
  BY <1>1 DEF WrByte
<1> QED BY <1>1, <1>2, <1>3

(* One byte more multiplies the bound by the base.                           *)
LEMMA BoundIs ==
    /\ WrBound(0) = 1
    /\ \A k \in Nat : WrBound(k) \in Nat \ {0} /\ WrBound(k + 1) = WrBound(k) * WrBase
<1>1. WrBits * 0 = 0
  BY BaseIs
<1>2. WrBound(0) = 1
  BY <1>1, TwoIs DEF WrBound
<1>3. ASSUME NEW k \in Nat PROVE WrBound(k) \in Nat \ {0} /\ WrBound(k + 1) = WrBound(k) * WrBase
  <2>1. WrBits * k \in Nat /\ WrBits * (k + 1) = WrBits * k + WrBits
    BY BaseIs
  <2>2. WrTwo[WrBits * k + WrBits] = WrTwo[WrBits * k] * WrTwo[WrBits]
    BY <2>1, BaseIs, TwoSum
  <2> QED BY <2>1, <2>2, TwoIs DEF WrBound, WrBase
<1> QED BY <1>2, <1>3

------------------------------------------------------------------------------
(* Digits.                                                                  *)

(* f[i] is the number that the first i digits of s make.                    *)
Numbers(s, f) == f = [i \in 0..Len(s) |-> IF i = 0 THEN 0 ELSE f[i - 1] * WrBase + s[i]]

(* Quotient and remainder.                                                   *)
LEMMA DivMod ==
    ASSUME NEW n \in Nat, NEW p \in Nat \ {0}
    PROVE  n = (n \div p) * p + (n % p)
OBVIOUS

(* A digit more: what is left of n over P is B times what is left over P*B. *)
LEMMA OneDigit ==
    ASSUME NEW n \in Nat, NEW P \in Nat \ {0}, NEW B \in Nat \ {0}
    PROVE  n \div P = (n \div (P * B)) * B + ((n \div P) % B)
<1>1. PICK q : q = n \div P
  OBVIOUS
<1>2. q \in Nat
  BY <1>1
<1>3. PICK c : c = n \div (P * B)
  OBVIOUS
<1>4. c = q \div B
  BY <1>1, <1>3
<1>5. q = c * B + (q % B)
  BY <1>2, <1>4, DivMod
<1> QED BY <1>1, <1>3, <1>5

(* The digits of a number are bytes, as many as asked for.                   *)
LEMMA DigitsTyped ==
    ASSUME NEW n \in Nat, NEW k \in Nat
    PROVE  /\ WrDigits(n, k) \in Seq(WrByte) /\ Len(WrDigits(n, k)) = k
           /\ \A i \in 1..k : WrDigits(n, k)[i] = (n \div WrBound(k - i)) % WrBase /\ WrDigits(n, k)[i] \in WrByte
<1>1. ASSUME NEW i \in 1..k PROVE (n \div WrBound(k - i)) % WrBase \in WrByte
  <2>1. PICK B, P : B = WrBase /\ P = WrBound(k - i)
    OBVIOUS
  <2>2. B \in Nat \ {0} /\ P \in Nat \ {0}
    <3>1. k - i \in Nat
      OBVIOUS
    <3> QED BY <2>1, <3>1, BaseIs, BoundIs
  <2>3. n \div P \in Nat
    BY <2>2
  <2>4. (n \div P) % B \in 0..(B - 1)
    BY <2>2, <2>3
  <2> QED BY <2>1, <2>4 DEF WrByte
<1>2. PICK d : d = [i \in 1..k |-> (n \div WrBound(k - i)) % WrBase]
  OBVIOUS
<1>3. d \in [1..k -> WrByte]
  BY <1>1, <1>2
<1>4. d \in Seq(WrByte) /\ Len(d) = k
  BY <1>3
<1>5. WrDigits(n, k) = d
  BY <1>2 DEF WrDigits
<1> QED BY <1>1, <1>2, <1>4, <1>5

(* parseUint32 and the like read a number back from its digits, if there are *)
(* enough of them.                                                           *)
LEMMA NumberIs ==
    ASSUME NEW n \in Nat, NEW k \in Nat, n < WrBound(k)
    PROVE  WrNumber(WrDigits(n, k)) = n
<1>1. PICK s : s = WrDigits(n, k)
  OBVIOUS
<1>2. s \in Seq(WrByte) /\ Len(s) = k /\ \A i \in 1..k : s[i] = (n \div WrBound(k - i)) % WrBase
  BY <1>1, DigitsTyped
<1>3. PICK w : w = [i \in 0..k |-> n \div WrBound(k - i)]
  OBVIOUS
<1>4. ASSUME NEW i \in 1..k PROVE w[i] = w[i - 1] * WrBase + s[i]
  <2>1. PICK B, P : B = WrBase /\ P = WrBound(k - i)
    OBVIOUS
  <2>2. k - i \in Nat /\ k - (i - 1) = (k - i) + 1 /\ i \in 0..k /\ i - 1 \in 0..k
    OBVIOUS
  <2>3. B \in Nat \ {0} /\ P \in Nat \ {0} /\ WrBound(k - (i - 1)) = P * B
    BY <2>1, <2>2, BaseIs, BoundIs
  <2>4. w[i] = n \div P /\ w[i - 1] = n \div (P * B) /\ s[i] = (n \div P) % B
    BY <1>2, <1>3, <2>1, <2>2, <2>3
  <2>5. n \div P = (n \div (P * B)) * B + ((n \div P) % B)
    BY <2>3, OneDigit
  <2>6. w[i] = w[i - 1] * B + s[i]
    BY <2>4, <2>5
  <2> QED BY <2>1, <2>6
<1>5. w[0] = 0 /\ w[k] = n
  <2>1. PICK P : P = WrBound(k)
    OBVIOUS
  <2>2. P \in Nat \ {0} /\ n < P
    BY <2>1, BoundIs
  <2>3. n \div P = 0
    BY <2>2
  <2>4. k - 0 = k /\ k - k = 0 /\ 0 \in 0..k /\ k \in 0..k
    OBVIOUS
  <2>5. n \div 1 = n
    OBVIOUS
  <2> QED BY <1>3, <2>1, <2>3, <2>4, <2>5, BoundIs
<1>6. Numbers(s, w)
  <2>1. \A i \in 0..k : w[i] = IF i = 0 THEN 0 ELSE w[i - 1] * WrBase + s[i]
    BY <1>4, <1>5
  <2>2. w = [i \in 0..k |-> w[i]]
    BY <1>3
  <2> QED BY <1>2, <2>1, <2>2 DEF Numbers
<1>7. PICK f : f = CHOOSE g : Numbers(s, g)
  OBVIOUS
<1>8. Numbers(s, f)
  BY <1>6, <1>7
<1>9. WrNumber(s) = f[k]
  BY <1>2, <1>7 DEF WrNumber, Numbers
<1>10. \A i \in 0..k : f[i] = IF i = 0 THEN 0 ELSE f[i - 1] * WrBase + s[i]
  <2>1. f = [i \in 0..k |-> IF i = 0 THEN 0 ELSE f[i - 1] * WrBase + s[i]]
    BY <1>2, <1>8 DEF Numbers
  <2> QED BY <2>1, Zenon
<1>11. f[0] = 0 /\ \A i \in 1..k : f[i] = f[i - 1] * WrBase + s[i]
  BY <1>10
<1> DEFINE S == {i \in Nat : i <= k => f[i] = w[i]}
<1>12. 0 \in S
  BY <1>5, <1>11
<1>13. ASSUME NEW i \in S PROVE i + 1 \in S
  <2>1. SUFFICES ASSUME i + 1 <= k PROVE f[i + 1] = w[i + 1]
    OBVIOUS
  <2>2. i + 1 \in 1..k /\ (i + 1) - 1 = i /\ f[i] = w[i]
    BY <2>1
  <2> QED BY <1>4, <1>11, <2>2
<1>14. S = Nat
  <2> HIDE DEF S
  <2>1. S \subseteq Nat
    BY DEF S
  <2> QED BY <1>12, <1>13, <2>1, SetInduction
<1>15. f[k] = w[k]
  BY <1>14
<1> QED BY <1>1, <1>5, <1>9, <1>15

(* The shortest sequence of digits, and of bits.                            *)
LEMMA BitLenIs ==
    ASSUME NEW n \in Nat
    PROVE  WrBitLen(n) \in Nat /\ n < WrTwo[WrBitLen(n)] /\ (WrBitLen(n) > 0 => n >= WrTwo[WrBitLen(n) - 1])
<1> DEFINE S == {k \in Nat : n < WrTwo[k]}
<1>1. n \in S
  BY TwoAbove
<1>2. PICK k \in S : \A j \in S : k <= j
  <2>1. S \subseteq Nat /\ S # {}
    BY <1>1
  <2> HIDE DEF S
  <2> QED BY <2>1, HasLeast
<1>3. k \in 0..n /\ n < WrTwo[k]
  BY <1>1, <1>2
<1>4. k > 0 => n >= WrTwo[k - 1]
  <2>1. SUFFICES ASSUME k > 0 PROVE n >= WrTwo[k - 1]
    OBVIOUS
  <2>2. k - 1 \in Nat /\ k - 1 \notin S
    BY <1>2, <2>1
  <2> QED BY <2>2, TwoIs
<1>5. \E j \in 0..n : n < WrTwo[j] /\ (j > 0 => n >= WrTwo[j - 1])
  BY <1>3, <1>4
<1>6. PICK b : b = WrBitLen(n)
  OBVIOUS
<1>7. b \in 0..n /\ n < WrTwo[b] /\ (b > 0 => n >= WrTwo[b - 1])
  BY <1>5, <1>6 DEF WrBitLen
<1> QED BY <1>6, <1>7

(* A number fits in as many bytes as its value.                              *)
LEMMA BoundAbove == ASSUME NEW n \in Nat PROVE n < WrBound(n)
<1>1. n <= WrBits * n /\ WrBits * n \in Nat
  BY BaseIs
<1>2. n = WrBits * n \/ n < WrBits * n
  BY <1>1
<1> QED BY <1>1, <1>2, TwoAbove, TwoGrows, TwoIs DEF WrBound

(* WrSize is the number of bytes of the shortest form of a number.           *)
LEMMA SizeIs ==
    ASSUME NEW n \in Nat
    PROVE  WrSize(n) \in Nat /\ n < WrBound(WrSize(n)) /\ (WrSize(n) > 0 => n >= WrBound(WrSize(n) - 1))
<1> DEFINE S == {k \in Nat : n < WrBound(k)}
<1>1. n \in S
  BY BoundAbove
<1>2. PICK k \in S : \A j \in S : k <= j
  <2>1. S \subseteq Nat /\ S # {}
    BY <1>1
  <2> HIDE DEF S
  <2> QED BY <2>1, HasLeast
<1>3. k \in 0..n /\ n < WrBound(k)
  BY <1>1, <1>2
<1>4. k > 0 => n >= WrBound(k - 1)
  <2>1. SUFFICES ASSUME k > 0 PROVE n >= WrBound(k - 1)
    OBVIOUS
  <2>2. k - 1 \in Nat /\ k - 1 \notin S
    BY <1>2, <2>1
  <2> QED BY <2>2, BoundIs
<1>5. \E j \in 0..n : n < WrBound(j) /\ (j > 0 => n >= WrBound(j - 1))
  BY <1>3, <1>4
<1>6. PICK b : b = WrSize(n)
  OBVIOUS
<1>7. b \in 0..n /\ n < WrBound(b) /\ (b > 0 => n >= WrBound(b - 1))
  BY <1>5, <1>6 DEF WrSize
<1> QED BY <1>6, <1>7

------------------------------------------------------------------------------
(* Sequences of bytes.                                                      *)

LEMMA ConsIs ==
    ASSUME NEW S, NEW x \in S, NEW s \in Seq(S)
    PROVE  /\ <<x>> \o s \in Seq(S) /\ Len(<<x>> \o s) = Len(s) + 1
           /\ (<<x>> \o s)[1] = x /\ \A i \in 1..Len(s) : (<<x>> \o s)[i + 1] = s[i]
<1>1. <<x>> \in Seq(S) /\ Len(<<x>>) = 1 /\ <<x>>[1] = x
  OBVIOUS
<1>2. PICK y : y = <<x>>
  OBVIOUS
<1>3. y \in Seq(S) /\ Len(y) = 1 /\ y[1] = x
  BY <1>1, <1>2
<1>4. y \o s \in Seq(S) /\ Len(y \o s) = 1 + Len(s)
  BY <1>3, ConcatProperties
<1>5. \A i \in 1..(1 + Len(s)) : (y \o s)[i] = IF i <= 1 THEN y[i] ELSE s[i - 1]
  <2>1. \A i \in 1..(Len(y) + Len(s)) : (y \o s)[i] = IF i <= Len(y) THEN y[i] ELSE s[i - Len(y)]
    BY <1>3, ConcatProperties
  <2> QED BY <1>3, <2>1
<1>6. Len(s) \in Nat
  OBVIOUS
<1>7. (y \o s)[1] = x
  BY <1>3, <1>5, <1>6
<1>8. ASSUME NEW i \in 1..Len(s) PROVE (y \o s)[i + 1] = s[i]
  <2>1. i + 1 \in 1..(1 + Len(s)) /\ ~(i + 1 <= 1) /\ (i + 1) - 1 = i
    BY <1>6
  <2> QED BY <1>5, <2>1
<1>9. Len(y \o s) = Len(s) + 1
  BY <1>4, <1>6
<1> QED BY <1>2, <1>4, <1>7, <1>8, <1>9

(* A digit 0 in front does not change the number.                           *)
LEMMA PadDigit ==
    ASSUME NEW n \in Nat, NEW k \in Nat, n < WrBound(k)
    PROVE  WrDigits(n, k + 1) = <<0>> \o WrDigits(n, k) /\ WrDigits(n, k + 1)[1] = 0
<1>1. PICK d, e : d = WrDigits(n, k) /\ e = WrDigits(n, k + 1)
  OBVIOUS
<1>2. d \in Seq(WrByte) /\ Len(d) = k /\ \A i \in 1..k : d[i] = (n \div WrBound(k - i)) % WrBase
  BY <1>1, DigitsTyped
<1>3. e \in Seq(WrByte) /\ Len(e) = k + 1 /\ \A i \in 1..(k + 1) : e[i] = (n \div WrBound((k + 1) - i)) % WrBase
  <2>1. k + 1 \in Nat
    OBVIOUS
  <2> QED BY <1>1, <2>1, DigitsTyped
<1>4. e[1] = 0
  <2>1. PICK P, B : P = WrBound(k) /\ B = WrBase
    OBVIOUS
  <2>2. P \in Nat \ {0} /\ B \in Nat \ {0}
    BY <2>1, BaseIs, BoundIs
  <2>3. n \div P = 0
    BY <2>1, <2>2
  <2>4. 0 % B = 0
    BY <2>2
  <2>5. 1 \in 1..(k + 1) /\ (k + 1) - 1 = k
    OBVIOUS
  <2> QED BY <1>3, <2>1, <2>3, <2>4, <2>5
<1>5. 0 \in WrByte
  BY BaseIs DEF WrByte
<1>6. PICK g : g = <<0>> \o d
  OBVIOUS
<1>7. g \in Seq(WrByte) /\ Len(g) = k + 1 /\ g[1] = 0 /\ \A i \in 1..k : g[i + 1] = d[i]
  <2>1. /\ <<0>> \o d \in Seq(WrByte) /\ Len(<<0>> \o d) = Len(d) + 1
        /\ (<<0>> \o d)[1] = 0 /\ \A i \in 1..Len(d) : (<<0>> \o d)[i + 1] = d[i]
    BY <1>2, <1>5, ConsIs
  <2> QED BY <1>2, <1>6, <2>1
<1>8. ASSUME NEW i \in 1..(k + 1) PROVE e[i] = g[i]
  <2>1. CASE i = 1
    BY <1>4, <1>7, <2>1
  <2>2. CASE i # 1
    <3>1. i - 1 \in 1..k /\ (i - 1) + 1 = i /\ k - (i - 1) = (k + 1) - i
      BY <2>2
    <3>2. g[i] = d[i - 1] /\ d[i - 1] = (n \div WrBound((k + 1) - i)) % WrBase
      BY <1>2, <1>7, <3>1
    <3> QED BY <1>3, <3>2
  <2> QED BY <2>1, <2>2
<1>9. e = g
  BY <1>3, <1>7, <1>8, SeqEqual
<1> QED BY <1>1, <1>4, <1>6, <1>9

(* The first digit has its first bit set from half of the bound on.         *)
LEMMA FirstDigit ==
    ASSUME NEW n \in Nat, NEW k \in Nat, n < WrBound(k + 1)
    PROVE  /\ WrBits * (k + 1) - 1 \in Nat
           /\ 2 * WrDigits(n, k + 1)[1] >= WrBase <=> n >= WrTwo[WrBits * (k + 1) - 1]
<1>1. PICK P, B, h : P = WrBound(k) /\ B = WrBase /\ h = WrTwo[WrBits - 1]
  OBVIOUS
<1>2. P \in Nat \ {0} /\ B \in Nat \ {0} /\ h \in Nat \ {0} /\ B = 2 * h /\ n < P * B
  <2>1. WrBits - 1 \in Nat
    BY BaseIs
  <2> QED BY <1>1, <2>1, BaseIs, BoundIs, TwoIs
<1>3. PICK q : q = n \div P
  OBVIOUS
<1>4. q \in Nat /\ q < B
  BY <1>2, <1>3
<1>5. q % B = q
  BY <1>2, <1>4
<1>6. WrDigits(n, k + 1)[1] = q
  <2>1. k + 1 \in Nat /\ 1 \in 1..(k + 1) /\ (k + 1) - 1 = k
    OBVIOUS
  <2>2. WrDigits(n, k + 1)[1] = (n \div WrBound((k + 1) - 1)) % WrBase
    BY <2>1, DigitsTyped
  <2> QED BY <1>1, <1>3, <1>5, <2>1, <2>2
<1>7. q >= h <=> n >= P * h
  BY <1>2, <1>3, <1>4
<1>8. /\ WrBits * k \in Nat /\ WrBits - 1 \in Nat /\ WrBits * (k + 1) - 1 \in Nat
      /\ WrBits * (k + 1) - 1 = WrBits * k + (WrBits - 1)
  <2>1. WrBits * k \in Nat /\ WrBits * (k + 1) = WrBits * k + WrBits
    BY BaseIs
  <2> QED BY <2>1, BaseIs
<1>9. WrTwo[WrBits * k + (WrBits - 1)] = P * h
  BY <1>1, <1>8, TwoSum DEF WrBound
<1>10. 2 * q >= B <=> q >= h
  BY <1>2, <1>4
<1> QED BY <1>1, <1>6, <1>7, <1>8, <1>9, <1>10

(* Zero has neither bytes nor bits.                                          *)
LEMMA ZeroIs == WrSize(0) = 0 /\ WrBitLen(0) = 0
<1>1. WrSize(0) \in Nat /\ (WrSize(0) > 0 => 0 >= WrBound(WrSize(0) - 1))
  BY SizeIs
<1>2. WrBitLen(0) \in Nat /\ (WrBitLen(0) > 0 => 0 >= WrTwo[WrBitLen(0) - 1])
  BY BitLenIs
<1>3. PICK a, b : a = WrSize(0) /\ b = WrBitLen(0)
  OBVIOUS
<1>4. a > 0 => a - 1 \in Nat /\ WrBound(a - 1) > 0
  BY <1>1, <1>3, BoundIs
<1>5. b > 0 => b - 1 \in Nat /\ WrTwo[b - 1] > 0
  BY <1>2, <1>3, TwoIs
<1> QED BY <1>1, <1>2, <1>3, <1>4, <1>5, BoundIs, TwoIs

(* The remainder is unique.                                                  *)
LEMMA Remainder ==
    ASSUME NEW n \in Nat, NEW p \in Nat \ {0}, NEW q \in Nat, NEW r \in 0..(p - 1), n = p * q + r
    PROVE  n % p = r
OBVIOUS

(* intLength counts bits, marshalInt bytes: they agree on the size, and on  *)
(* whether the first bit is set.                                            *)
LEMMA BitsAndBytes ==
    ASSUME NEW n \in Nat \ {0}
    PROVE  /\ WrSize(n) \in Nat \ {0} /\ WrBitLen(n) \in Nat
           /\ (WrBitLen(n) + WrBits - 1) \div WrBits = WrSize(n)
           /\ WrBitLen(n) % WrBits = 0 <=> 2 * WrDigits(n, WrSize(n))[1] >= WrBase
<1>1. PICK k, L, b : k = WrSize(n) /\ L = WrBitLen(n) /\ b = WrBits
  OBVIOUS
<1>2. k \in Nat /\ n < WrBound(k) /\ (k > 0 => n >= WrBound(k - 1))
  BY <1>1, SizeIs
<1>3. L \in Nat /\ n < WrTwo[L] /\ (L > 0 => n >= WrTwo[L - 1])
  BY <1>1, BitLenIs
<1>4. k > 0 /\ L > 0 /\ b \in Nat /\ b > 0
  <2>1. WrBound(0) = 1 /\ WrTwo[0] = 1
    BY BoundIs, TwoIs
  <2>2. k # 0
    BY <1>2, <2>1
  <2>3. L # 0
    BY <1>3, <2>1
  <2>4. b \in Nat /\ b > 0
    BY <1>1, BaseIs
  <2> QED BY <1>2, <1>3, <2>2, <2>3, <2>4
<1>5. PICK j : j = k - 1
  OBVIOUS
<1>6. j \in Nat /\ k = j + 1 /\ b * j \in Nat /\ b * k = b * j + b /\ b * k \in Nat /\ b * k - 1 \in Nat
  BY <1>2, <1>4, <1>5
<1>7. n >= WrTwo[b * j] /\ n < WrTwo[b * k]
  BY <1>1, <1>2, <1>4, <1>5 DEF WrBound
<1>8. b * j < L
  <2>1. SUFFICES ASSUME L <= b * j PROVE FALSE
    BY <1>3, <1>6
  <2>2. WrTwo[L] <= WrTwo[b * j]
    <3>1. L = b * j \/ L < b * j
      BY <1>3, <1>6, <2>1
    <3> QED BY <1>3, <1>6, <3>1, TwoGrows, TwoIs
  <2> QED BY <1>3, <1>6, <1>7, <2>2, TwoIs
<1>9. L <= b * k
  <2>1. SUFFICES ASSUME b * k < L PROVE FALSE
    BY <1>3, <1>6
  <2>2. WrTwo[b * k] <= WrTwo[L - 1]
    <3>1. L - 1 \in Nat /\ (b * k = L - 1 \/ b * k < L - 1)
      BY <1>3, <1>4, <1>6, <2>1
    <3> QED BY <1>6, <3>1, TwoGrows, TwoIs
  <2>3. L - 1 \in Nat
    BY <1>3, <1>4
  <2> QED BY <1>3, <1>4, <1>6, <1>7, <2>2, <2>3, TwoIs
<1>10. (L + b - 1) \div b = k
  <2>1. PICK r : r = (L + b - 1) - b * k
    OBVIOUS
  <2>2. r \in 0..(b - 1) /\ L + b - 1 = b * k + r /\ L + b - 1 \in Nat
    BY <1>3, <1>4, <1>6, <1>8, <1>9, <2>1
  <2> QED BY <1>2, <1>4, <2>2
<1>11. L % b = 0 <=> L = b * k
  <2>1. CASE L = b * k
    <3>1. L = b * k + 0 /\ 0 \in 0..(b - 1)
      BY <1>3, <1>4, <1>6, <2>1
    <3>2. L % b = 0
      BY <1>2, <1>3, <1>4, <3>1, Remainder
    <3> QED BY <2>1, <3>2
  <2>2. CASE L # b * k
    <3>1. PICK r : r = L - b * j
      OBVIOUS
    <3>2. r \in 1..(b - 1) /\ L = b * j + r
      BY <1>3, <1>4, <1>6, <1>8, <1>9, <2>2, <3>1
    <3>3. L % b = r
      <4>1. r \in 0..(b - 1)
        BY <3>2
      <4> QED BY <1>3, <1>4, <1>6, <3>2, <4>1, Remainder
    <3> QED BY <2>2, <3>2, <3>3
  <2> QED BY <2>1, <2>2
<1>12. L = b * k <=> n >= WrTwo[b * k - 1]
  <2>1. ASSUME L = b * k PROVE n >= WrTwo[b * k - 1]
    BY <1>3, <1>4, <2>1
  <2>2. ASSUME L # b * k, n >= WrTwo[b * k - 1] PROVE FALSE
    <3>1. L = b * k - 1 \/ L < b * k - 1
      BY <1>3, <1>6, <1>9, <2>2
    <3>2. WrTwo[L] <= WrTwo[b * k - 1]
      BY <1>3, <1>6, <3>1, TwoGrows, TwoIs
    <3> QED BY <1>3, <1>6, <2>2, <3>2, TwoIs
  <2> QED BY <2>1, <2>2
<1>13. 2 * WrDigits(n, k)[1] >= WrBase <=> n >= WrTwo[b * k - 1]
  BY <1>1, <1>2, <1>6, FirstDigit
<1> QED BY <1>1, <1>2, <1>3, <1>4, <1>10, <1>11, <1>12, <1>13

------------------------------------------------------------------------------
(* Multi-precision integers.                                                *)

WrFlip(s) == [i \in 1..Len(s) |-> WrBase - 1 - s[i]]

(* Complementing every byte of the two's complement, twice, changes nothing. *)
LEMMA FlipIs ==
    ASSUME NEW s \in Seq(WrByte)
    PROVE  /\ WrFlip(s) \in Seq(WrByte) /\ Len(WrFlip(s)) = Len(s)
           /\ \A i \in 1..Len(s) : WrFlip(s)[i] = WrBase - 1 - s[i]
           /\ WrFlip(WrFlip(s)) = s
<1>1. PICK B, f : B = WrBase /\ f = WrFlip(s)
  OBVIOUS
<1>2. B \in Nat /\ WrByte = 0..(B - 1) /\ Len(s) \in Nat /\ \A i \in 1..Len(s) : s[i] \in WrByte
  <2>1. Len(s) \in Nat /\ \A i \in 1..Len(s) : s[i] \in WrByte
    OBVIOUS
  <2>2. B \in Nat /\ WrByte = 0..(B - 1)
    BY <1>1, BaseIs DEF WrByte
  <2> QED BY <2>1, <2>2
<1>3. f = [i \in 1..Len(s) |-> B - 1 - s[i]]
  BY <1>1 DEF WrFlip
<1>4. f \in [1..Len(s) -> WrByte]
  BY <1>2, <1>3
<1>5. f \in Seq(WrByte) /\ Len(f) = Len(s) /\ \A i \in 1..Len(s) : f[i] = B - 1 - s[i]
  BY <1>2, <1>3, <1>4
<1>6. PICK g : g = WrFlip(f)
  OBVIOUS
<1>7. g = [i \in 1..Len(s) |-> B - 1 - f[i]]
  BY <1>1, <1>5, <1>6 DEF WrFlip
<1>8. \A i \in 1..Len(s) : B - 1 - f[i] = s[i]
  BY <1>2, <1>5
<1>9. g \in [1..Len(s) -> WrByte] /\ \A i \in 1..Len(s) : g[i] = s[i]
  BY <1>2, <1>7, <1>8
<1>10. g = s
  BY <1>2, <1>9
<1> QED BY <1>1, <1>5, <1>6, <1>10

(* The sign byte of a negative number is the complement of a zero byte.      *)
LEMMA FlipPad ==
    ASSUME NEW s \in Seq(WrByte)
    PROVE  WrFlip(<<0>> \o s) = <<WrBase - 1>> \o WrFlip(s)
<1>1. PICK B, f, z, g, h : B = WrBase - 1 /\ f = WrFlip(s) /\ z = <<0>> \o s /\ g = WrFlip(z) /\ h = <<B>> \o f
  OBVIOUS
<1>2. B \in Nat /\ B \in WrByte /\ 0 \in WrByte
  <2>1. B \in Nat /\ B < WrBase /\ 0 < WrBase
    BY <1>1, ByteIs
  <2> QED BY <2>1, ByteIs
<1>3. f \in Seq(WrByte) /\ Len(f) = Len(s) /\ \A i \in 1..Len(s) : f[i] = B - s[i]
  BY <1>1, FlipIs
<1>4. z \in Seq(WrByte) /\ Len(z) = Len(s) + 1 /\ z[1] = 0 /\ \A i \in 1..Len(s) : z[i + 1] = s[i]
  BY <1>1, <1>2, ConsIs
<1>5. g \in Seq(WrByte) /\ Len(g) = Len(z) /\ \A i \in 1..Len(z) : g[i] = B - z[i]
  BY <1>1, <1>4, FlipIs
<1>6. h \in Seq(WrByte) /\ Len(h) = Len(f) + 1 /\ h[1] = B /\ \A i \in 1..Len(f) : h[i + 1] = f[i]
  BY <1>1, <1>2, <1>3, ConsIs
<1>7. Len(s) \in Nat /\ \A i \in 1..Len(s) : s[i] \in Nat
  <2>1. Len(s) \in Nat /\ \A i \in 1..Len(s) : s[i] \in WrByte
    OBVIOUS
  <2> QED BY <2>1, ByteIs
<1>8. ASSUME NEW i \in 1..(Len(s) + 1) PROVE g[i] = h[i]
  <2>1. CASE i = 1
    BY <1>2, <1>4, <1>5, <1>6, <1>7, <2>1
  <2>2. CASE i # 1
    <3>1. PICK q : q = i - 1
      OBVIOUS
    <3>2. q \in 1..Len(s) /\ q + 1 = i /\ i \in 1..(Len(s) + 1)
      BY <1>7, <2>2, <3>1
    <3>3. g[i] = B - s[q]
      BY <1>4, <1>5, <3>2
    <3>4. h[i] = B - s[q]
      BY <1>3, <1>6, <3>2
    <3> QED BY <3>3, <3>4
  <2> QED BY <2>1, <2>2
<1>9. g = h
  BY <1>3, <1>4, <1>5, <1>6, <1>8, SeqEqual
<1> QED BY <1>1, <1>9

(* j bytes for a number n that is not negative: they are its digits, the   *)
(* first of them has no sign, and intLength has room for exactly them.     *)
NatBytes(n, j) ==
    /\ j \in Nat /\ n < WrBound(j) /\ WrIntBytes(n) = WrDigits(n, j) /\ WrIntLength(n) = WrWord + j
    /\ j > 0 => 2 * WrDigits(n, j)[1] < WrBase

(* marshalInt and intLength of a number that is not negative.                *)
LEMMA NatBytesExist == ASSUME NEW n \in Nat PROVE \E j : NatBytes(n, j)
<1>1. PICK k, d : k = WrSize(n) /\ d = WrDigits(n, k)
  OBVIOUS
<1>2. k \in Nat /\ n < WrBound(k) /\ d \in Seq(WrByte) /\ Len(d) = k
  BY <1>1, SizeIs, DigitsTyped
<1>3. d = <<>> <=> k = 0
  BY <1>2
<1>4. WrIntBytes(n) = IF d # <<>> /\ 2 * d[1] >= WrBase THEN <<0>> \o d ELSE d
  BY <1>1 DEF WrIntBytes
<1>5. CASE n = 0
  <2>1. k = 0 /\ WrIntLength(n) = WrWord + 0
    BY <1>1, <1>5, ZeroIs, BaseIs DEF WrIntLength
  <2>2. NatBytes(n, 0)
    BY <1>1, <1>2, <1>3, <1>4, <2>1 DEF NatBytes
  <2> QED BY <2>2
<1>6. CASE n # 0
  <2>1. /\ k > 0 /\ WrBitLen(n) \in Nat /\ (WrBitLen(n) + WrBits - 1) \div WrBits = k
        /\ WrBitLen(n) % WrBits = 0 <=> 2 * d[1] >= WrBase
    BY <1>1, <1>2, <1>6, BitsAndBytes
  <2>2. WrIntLength(n) = WrWord + (IF 2 * d[1] >= WrBase THEN 1 ELSE 0) + k
    <3>1. WrBitsOf(n) = WrBitLen(n)
      BY DEF WrBitsOf
    <3> QED BY <1>6, <2>1, <3>1 DEF WrIntLength, WrPads
  <2>3. d[1] \in Nat
    <3>1. d[1] \in WrByte
      BY <1>2, <2>1
    <3> QED BY <3>1, ByteIs
  <2>4. CASE 2 * d[1] >= WrBase
    <3>1. n < WrBound(k + 1)
      <4>1. PICK P, B : P = WrBound(k) /\ B = WrBase
        OBVIOUS
      <4>2. P \in Nat /\ B \in Nat /\ B > 0 /\ WrBound(k + 1) = P * B /\ n < P
        BY <1>2, <4>1, ByteIs, BoundIs
      <4>3. P <= P * B
        BY <4>2
      <4> QED BY <4>2, <4>3
    <3>2. WrDigits(n, k + 1) = <<0>> \o d /\ WrDigits(n, k + 1)[1] = 0
      BY <1>1, <1>2, PadDigit
    <3>3. k + 1 \in Nat /\ 2 * WrDigits(n, k + 1)[1] < WrBase /\ WrIntLength(n) = WrWord + (k + 1)
      <4>1. 2 * 0 < WrBase
        BY ByteIs
      <4>2. WrWord + 1 + k = WrWord + (k + 1)
        BY <1>2, BaseIs
      <4> QED BY <1>2, <2>2, <2>4, <3>2, <4>1, <4>2
    <3>4. WrIntBytes(n) = WrDigits(n, k + 1)
      <4>1. d # <<>>
        BY <1>2, <1>3, <2>1
      <4> QED BY <1>4, <2>4, <3>2, <4>1, Zenon
    <3>5. NatBytes(n, k + 1)
      BY <3>1, <3>3, <3>4 DEF NatBytes
    <3> QED BY <3>5
  <2>5. CASE ~(2 * d[1] >= WrBase)
    <3>1. WrIntLength(n) = WrWord + k /\ 2 * d[1] < WrBase
      BY <1>2, <2>2, <2>3, <2>5, BaseIs
    <3>2. NatBytes(n, k)
      BY <1>1, <1>2, <1>4, <2>5, <3>1 DEF NatBytes
    <3> QED BY <3>2
  <2> QED BY <2>4, <2>5
<1> QED BY <1>5, <1>6

(* The same for a negative number: the complements of the digits of         *)
(* m = -n - 1, and the first has the sign.                                  *)
NegBytes(n, m, j) ==
    /\ j \in Nat \ {0} /\ m < WrBound(j) /\ WrIntBytes(n) = WrFlip(WrDigits(m, j))
    /\ WrIntLength(n) = WrWord + j /\ 2 * WrFlip(WrDigits(m, j))[1] >= WrBase

(* marshalInt and intLength of a negative number.                            *)
LEMMA NegBytesExist ==
    ASSUME NEW n \in Int, n < 0, NEW m \in Nat, m = -n - 1
    PROVE  \E j : NegBytes(n, m, j)
<1>1. PICK k, d, f : k = WrSize(m) /\ d = WrDigits(m, k) /\ f = WrFlip(d)
  OBVIOUS
<1>2. k \in Nat /\ m < WrBound(k) /\ d \in Seq(WrByte) /\ Len(d) = k
  BY <1>1, SizeIs, DigitsTyped
<1>3. f \in Seq(WrByte) /\ Len(f) = k /\ \A i \in 1..k : f[i] = WrBase - 1 - d[i]
  BY <1>1, <1>2, FlipIs
<1>4. f = <<>> <=> k = 0
  BY <1>2, <1>3
<1>5. WrIntBytes(n) = IF f = <<>> \/ 2 * f[1] < WrBase THEN <<WrBase - 1>> \o f ELSE f
  <2>1. f = [i \in 1..k |-> WrBase - 1 - d[i]]
    BY <1>1, <1>2 DEF WrFlip
  <2>2. f = [i \in 1..WrSize(-n - 1) |-> WrBase - 1 - WrDigits(-n - 1, WrSize(-n - 1))[i]]
    BY <1>1, <2>1
  <2> QED BY <2>2 DEF WrIntBytes
<1>6. PICK B, h : B = WrBase /\ h = WrTwo[WrBits - 1]
  OBVIOUS
<1>7. B \in Nat /\ B >= 2 /\ h \in Nat /\ B = 2 * h
  BY <1>6, BaseIs
<1>8. n # 0 /\ WrBitsOf(n) = WrBitLen(m)
  BY DEF WrBitsOf
<1>9. ASSUME WrIntBytes(n) = <<WrBase - 1>> \o f, WrIntLength(n) = WrWord + (k + 1) PROVE NegBytes(n, m, k + 1)
  <2>1. m < WrBound(k + 1)
    <3>1. PICK P : P = WrBound(k)
      OBVIOUS
    <3>2. P \in Nat /\ WrBound(k + 1) = P * B /\ m < P
      BY <1>2, <1>6, <3>1, BoundIs
    <3>3. P <= P * B
      BY <1>7, <3>2
    <3> QED BY <3>2, <3>3, <1>7
  <2>2. WrDigits(m, k + 1) = <<0>> \o d
    BY <1>1, <1>2, PadDigit
  <2>3. WrFlip(WrDigits(m, k + 1)) = <<WrBase - 1>> \o f
    BY <1>1, <1>2, <2>2, FlipPad
  <2>4. (<<WrBase - 1>> \o f)[1] = WrBase - 1
    <3>1. WrBase - 1 \in WrByte
      BY BaseIs DEF WrByte
    <3> QED BY <1>3, <3>1, ConsIs
  <2>5. 2 * (WrBase - 1) >= WrBase /\ k + 1 \in Nat \ {0}
    BY <1>2, BaseIs
  <2> QED BY <1>9, <2>1, <2>3, <2>4, <2>5 DEF NegBytes
<1>10. CASE m = 0
  <2>1. k = 0 /\ WrBitLen(m) = 0
    BY <1>1, <1>10, ZeroIs
  <2>2. PICK b : b = WrBits
    OBVIOUS
  <2>3. b \in Nat /\ b > 0 /\ 0 % b = 0 /\ (0 + b - 1) \div b = 0
    BY <2>2, BaseIs
  <2>4. WrIntLength(n) = WrWord + 1 + 0
    BY <1>8, <2>1, <2>2, <2>3 DEF WrIntLength, WrPads
  <2>5. WrIntLength(n) = WrWord + (k + 1)
    BY <2>1, <2>4, BaseIs
  <2> QED BY <1>4, <1>5, <1>9, <2>1, <2>5
<1>11. CASE m # 0
  <2>1. /\ k > 0 /\ WrBitLen(m) \in Nat /\ (WrBitLen(m) + WrBits - 1) \div WrBits = k
        /\ WrBitLen(m) % WrBits = 0 <=> 2 * d[1] >= WrBase
    BY <1>1, <1>2, <1>11, BitsAndBytes
  <2>2. d[1] \in Nat /\ f[1] = B - 1 - d[1]
    <3>1. 1 \in 1..k /\ d[1] \in WrByte
      BY <1>2, <2>1
    <3> QED BY <1>3, <1>6, <3>1, ByteIs
  <2>3. 2 * d[1] >= B <=> 2 * f[1] < B
    BY <1>7, <2>2
  <2>4. WrIntLength(n) = WrWord + (IF 2 * f[1] < B THEN 1 ELSE 0) + k
    BY <1>6, <1>8, <2>1, <2>3 DEF WrIntLength, WrPads
  <2>5. CASE 2 * f[1] < B
    <3>1. WrIntLength(n) = WrWord + (k + 1)
      BY <1>2, <2>4, <2>5, BaseIs
    <3> QED BY <1>5, <1>6, <1>9, <2>5, <3>1
  <2>6. CASE ~(2 * f[1] < B)
    <3>1. WrIntLength(n) = WrWord + k /\ 2 * f[1] >= B
      BY <1>2, <1>7, <2>2, <2>4, <2>6, BaseIs
    <3>2. NegBytes(n, m, k)
      BY <1>1, <1>2, <1>4, <1>5, <1>6, <2>1, <2>6, <3>1 DEF NegBytes
    <3> QED BY <3>2
  <2> QED BY <2>5, <2>6
<1> QED BY <1>10, <1>11

------------------------------------------------------------------------------
(* Parsers.                                                                 *)

(* Two sequences of bytes agree as far as both go.                          *)
WrAlike(in, F) ==
    in \in Seq(WrByte) /\ F \in Seq(WrByte) /\ \A i \in 1..Len(F) : i <= Len(in) => in[i] = F[i]

(* What is left after n bytes.                                               *)
LEMMA FromIs ==
    ASSUME NEW in \in Seq(WrByte), NEW n \in Nat, n <= Len(in)
    PROVE  /\ WrFrom(in, n) \in Seq(WrByte) /\ Len(WrFrom(in, n)) = Len(in) - n
           /\ \A i \in 1..(Len(in) - n) : WrFrom(in, n)[i] = in[n + i]
<1>1. PICK L, f : L = Len(in) /\ f = WrFrom(in, n)
  OBVIOUS
<1>2. L \in Nat /\ n <= L /\ \A i \in (n + 1)..L : in[i] \in WrByte
  BY <1>1
<1>3. f = SubSeq(in, n + 1, L) /\ n + 1 \in Int /\ L \in Int
  BY <1>1, <1>2 DEF WrFrom
<1>4. /\ f \in Seq(WrByte) /\ Len(f) = (IF n + 1 <= L THEN L - (n + 1) + 1 ELSE 0)
      /\ \A i \in 1..(L - (n + 1) + 1) : f[i] = in[(n + 1) + i - 1]
  BY <1>2, <1>3, SubSeqProperties
<1>5. L - (n + 1) + 1 = L - n /\ \A i \in 1..(L - n) : (n + 1) + i - 1 = n + i
  BY <1>2
<1>6. Len(f) = L - n
  BY <1>2, <1>4
<1> QED BY <1>1, <1>4, <1>5, <1>6

(* Nothing is left after all, all after nothing.                             *)
LEMMA FromAll == ASSUME NEW in \in Seq(WrByte) PROVE WrFrom(in, Len(in)) = <<>> /\ WrFrom(in, 0) = in
<1>1. Len(in) \in Nat /\ Len(in) <= Len(in) /\ 0 <= Len(in) /\ 0 \in Nat /\ Len(in) - Len(in) = 0 /\ Len(in) - 0 = Len(in)
  OBVIOUS
<1>2. WrFrom(in, Len(in)) \in Seq(WrByte) /\ Len(WrFrom(in, Len(in))) = 0
  BY <1>1, FromIs
<1>3. WrFrom(in, Len(in)) = <<>>
  BY <1>2, EmptySeq
<1>4. /\ WrFrom(in, 0) \in Seq(WrByte) /\ Len(WrFrom(in, 0)) = Len(in)
      /\ \A i \in 1..Len(in) : WrFrom(in, 0)[i] = in[0 + i]
  BY <1>1, FromIs
<1>5. \A i \in 1..Len(in) : 0 + i = i
  BY <1>1
<1>6. WrFrom(in, 0) = in
  BY <1>4, <1>5, SeqEqual
<1> QED BY <1>3, <1>6

(* What is left after two reads is what is left after one of both.           *)
LEMMA FromFrom ==
    ASSUME NEW in \in Seq(WrByte), NEW n \in Nat, NEW m \in Nat, n + m <= Len(in)
    PROVE  WrFrom(WrFrom(in, n), m) = WrFrom(in, n + m)
<1>1. PICK L, f, g, h : L = Len(in) /\ f = WrFrom(in, n) /\ g = WrFrom(f, m) /\ h = WrFrom(in, n + m)
  OBVIOUS
<1>2. L \in Nat /\ n <= L /\ n + m \in Nat /\ m <= L - n /\ n + m <= L
  BY <1>1
<1>3. f \in Seq(WrByte) /\ Len(f) = L - n /\ \A i \in 1..(L - n) : f[i] = in[n + i]
  BY <1>1, <1>2, FromIs
<1>4. g \in Seq(WrByte) /\ Len(g) = (L - n) - m /\ \A i \in 1..((L - n) - m) : g[i] = f[m + i]
  <2>1. m <= Len(f)
    BY <1>2, <1>3
  <2>2. g \in Seq(WrByte) /\ Len(g) = Len(f) - m /\ \A i \in 1..(Len(f) - m) : g[i] = f[m + i]
    BY <1>1, <1>3, <2>1, FromIs
  <2> QED BY <1>3, <2>2
<1>5. h \in Seq(WrByte) /\ Len(h) = L - (n + m) /\ \A i \in 1..(L - (n + m)) : h[i] = in[(n + m) + i]
  BY <1>1, <1>2, FromIs
<1>6. ASSUME NEW i \in 1..(L - (n + m)) PROVE g[i] = h[i]
  <2>1. i \in 1..((L - n) - m) /\ m + i \in 1..(L - n) /\ n + (m + i) = (n + m) + i
    BY <1>2
  <2> QED BY <1>3, <1>4, <1>5, <2>1
<1>7. Len(g) = Len(h) /\ Len(g) = L - (n + m)
  BY <1>2, <1>4, <1>5
<1>8. g = h
  BY <1>4, <1>5, <1>6, <1>7, SeqEqual
<1> QED BY <1>1, <1>8

(* A packet that agrees with F and is long enough starts with F.             *)
LEMMA UpToIs ==
    ASSUME NEW in, NEW F, WrAlike(in, F), Len(F) <= Len(in)
    PROVE  WrUpTo(in, Len(F)) = F
<1>1. PICK n, u : n = Len(F) /\ u = WrUpTo(in, n)
  OBVIOUS
<1>2. n \in Nat /\ n <= Len(in) /\ Len(in) \in Nat /\ \A i \in 1..n : in[i] = F[i] /\ F[i] \in WrByte
  BY <1>1 DEF WrAlike
<1>3. u = SubSeq(in, 1, n) /\ \A i \in 1..n : in[i] \in WrByte
  BY <1>1, <1>2 DEF WrUpTo
<1>4. u \in Seq(WrByte) /\ Len(u) = (IF 1 <= n THEN n - 1 + 1 ELSE 0) /\ \A i \in 1..(n - 1 + 1) : u[i] = in[1 + i - 1]
  <2>1. 1 \in Int /\ n \in Int
    BY <1>2
  <2> QED BY <1>3, <2>1, SubSeqProperties
<1>5. Len(u) = n /\ n - 1 + 1 = n /\ \A i \in 1..n : 1 + i - 1 = i
  BY <1>2, <1>4
<1>6. \A i \in 1..n : u[i] = F[i]
  BY <1>2, <1>4, <1>5
<1>7. u = F
  BY <1>1, <1>4, <1>5, <1>6, SeqEqual DEF WrAlike
<1> QED BY <1>1, <1>7

(* A packet that agrees with two parts agrees with the first and then with   *)
(* the second.                                                               *)
LEMMA AlikeParts ==
    ASSUME NEW in, NEW F \in Seq(WrByte), NEW G \in Seq(WrByte), WrAlike(in, F \o G)
    PROVE  WrAlike(in, F) /\ (Len(F) <= Len(in) => WrAlike(WrFrom(in, Len(F)), G))
<1>1. PICK H, n, m, L : H = F \o G /\ n = Len(F) /\ m = Len(G) /\ L = Len(in)
  OBVIOUS
<1>2. n \in Nat /\ m \in Nat /\ L \in Nat /\ in \in Seq(WrByte)
  BY <1>1 DEF WrAlike
<1>3. Len(H) = n + m /\ \A i \in 1..(n + m) : H[i] = IF i <= n THEN F[i] ELSE G[i - n]
  BY <1>1, ConcatProperties
<1>4. \A i \in 1..(n + m) : i <= L => in[i] = H[i]
  BY <1>1, <1>3 DEF WrAlike
<1>5. ASSUME NEW i \in 1..n, i <= L PROVE in[i] = F[i]
  <2>1. i \in 1..(n + m)
    BY <1>2
  <2> QED BY <1>3, <1>4, <1>5, <2>1
<1>6. WrAlike(in, F)
  BY <1>1, <1>2, <1>5 DEF WrAlike
<1>7. ASSUME n <= L PROVE WrAlike(WrFrom(in, n), G)
  <2>1. PICK f : f = WrFrom(in, n)
    OBVIOUS
  <2>2. f \in Seq(WrByte) /\ Len(f) = L - n /\ \A i \in 1..(L - n) : f[i] = in[n + i]
    BY <1>1, <1>2, <1>7, <2>1, FromIs
  <2>3. ASSUME NEW i \in 1..m, i <= L - n PROVE f[i] = G[i]
    <3>1. i \in 1..(L - n) /\ n + i \in 1..(n + m) /\ n + i <= L /\ ~(n + i <= n) /\ (n + i) - n = i
      BY <1>2, <2>3
    <3> QED BY <1>3, <1>4, <2>2, <3>1
  <2> QED BY <1>1, <2>1, <2>2, <2>3 DEF WrAlike
<1> QED BY <1>1, <1>6, <1>7

(* What a parser makes of the bytes F of v, or of what is there of them.    *)
WrReads(p, in, F, v) ==
    /\ Len(F) <= Len(in) => p = WrParsed(v, WrFrom(in, Len(F)))
    /\ Len(in) < Len(F) => ~p.ok

(* A field of a fixed length is read back, or the packet is too short.       *)
LEMMA FixedReads ==
    ASSUME NEW in, NEW F, WrAlike(in, F)
    PROVE  WrReads(WrParseFixed(in, Len(F)), in, F, F)
<1>1. Len(in) \in Nat /\ Len(F) \in Nat
  BY DEF WrAlike
<1>2. CASE Len(F) <= Len(in)
  <2>1. WrUpTo(in, Len(F)) = F /\ ~(Len(in) < Len(F))
    BY <1>1, <1>2, UpToIs
  <2> QED BY <2>1 DEF WrReads, WrParseFixed
<1>3. CASE Len(in) < Len(F)
  <2>1. ~(Len(F) <= Len(in))
    BY <1>1, <1>3
  <2> QED BY <1>3, <2>1 DEF WrReads, WrParseFixed, WrShort
<1> QED BY <1>1, <1>2, <1>3

(* uint32: its digits and its value.                                         *)
LEMMA U32Is ==
    ASSUME NEW n \in Nat, n < WrBound(WrWord)
    PROVE  WrU32(n) \in Seq(WrByte) /\ Len(WrU32(n)) = WrWord /\ WrNumber(WrU32(n)) = n
<1>1. WrWord \in Nat
  BY BaseIs
<1> QED BY <1>1, DigitsTyped, NumberIs DEF WrU32

(* A string is a length and its bytes.                                       *)
LEMMA StringIs ==
    ASSUME NEW s, WrFits(s)
    PROVE  WrString(s) \in Seq(WrByte) /\ Len(WrString(s)) = WrWord + Len(s) /\ s \in Seq(WrByte)
<1>1. s \in Seq(WrByte) /\ Len(s) \in Nat /\ Len(s) < WrBound(WrWord)
  BY DEF WrFits
<1>2. PICK u : u = WrU32(Len(s))
  OBVIOUS
<1>3. u \in Seq(WrByte) /\ Len(u) = WrWord
  BY <1>1, <1>2, U32Is
<1>4. u \o s \in Seq(WrByte) /\ Len(u \o s) = Len(u) + Len(s)
  BY <1>1, <1>3, ConcatProperties
<1> QED BY <1>1, <1>2, <1>3, <1>4 DEF WrString

(* parseString reads a string back, or the packet is too short.              *)
LEMMA StringReads ==
    ASSUME NEW in, NEW s, WrFits(s), WrAlike(in, WrString(s))
    PROVE  WrReads(WrParseString(in), in, WrString(s), s)
<1>1. PICK W, u, F, f : W = WrWord /\ u = WrU32(Len(s)) /\ F = WrString(s) /\ f = WrFrom(in, W)
  OBVIOUS
<1>2. s \in Seq(WrByte) /\ Len(s) \in Nat /\ Len(s) < WrBound(WrWord) /\ in \in Seq(WrByte) /\ Len(in) \in Nat /\ W \in Nat
  BY <1>1, BaseIs DEF WrFits, WrAlike
<1>3. u \in Seq(WrByte) /\ Len(u) = W /\ WrNumber(u) = Len(s)
  BY <1>1, <1>2, U32Is
<1>4. F \in Seq(WrByte) /\ Len(F) = W + Len(s) /\ F = u \o s
  BY <1>1, StringIs DEF WrString
<1>5. WrAlike(in, u) /\ (W <= Len(in) => WrAlike(f, s))
  <2>1. WrAlike(in, u \o s)
    BY <1>1, <1>4
  <2> QED BY <1>1, <1>2, <1>3, <2>1, AlikeParts
<1>6. CASE Len(in) < W
  <2>1. Len(in) < Len(F) /\ ~(Len(F) <= Len(in))
    BY <1>2, <1>4, <1>6
  <2>2. WrParseString(in) = WrShort
    BY <1>1, <1>6 DEF WrParseString
  <2> QED BY <1>1, <2>1, <2>2 DEF WrReads, WrShort
<1>7. CASE W <= Len(in)
  <2>1. WrUpTo(in, W) = u
    BY <1>3, <1>5, <1>7, UpToIs
  <2>2. WrParseString(in) = WrParseFixed(f, Len(s))
    <3>1. ~(Len(in) < W)
      BY <1>2, <1>7
    <3> QED BY <1>1, <1>3, <2>1, <3>1 DEF WrParseString
  <2>3. WrReads(WrParseFixed(f, Len(s)), f, s, s)
    BY <1>5, <1>7, FixedReads
  <2>4. Len(f) = Len(in) - W
    BY <1>1, <1>2, <1>7, FromIs
  <2>5. Len(F) <= Len(in) <=> Len(s) <= Len(f)
    BY <1>2, <1>4, <2>4
  <2>6. Len(in) < Len(F) <=> Len(f) < Len(s)
    BY <1>2, <1>4, <2>4
  <2>7. ASSUME Len(F) <= Len(in) PROVE WrFrom(f, Len(s)) = WrFrom(in, Len(F))
    BY <1>1, <1>2, <1>4, <2>7, FromFrom
  <2> QED BY <1>1, <2>2, <2>3, <2>5, <2>6, <2>7 DEF WrReads
<1> QED BY <1>2, <1>6, <1>7

------------------------------------------------------------------------------
(* Bytes that are put together piece by piece: the fields of a message, and *)
(* the names of a list.                                                     *)

WrJoined(x, y, z) == x = y \o z

(* J[i] is J[i - 1] followed by the piece G[i]: a sequence put together from *)
(* pieces.                                                                   *)
WrChain(n, J, G) ==
    /\ n \in Nat /\ J \in [0..n -> Seq(WrByte)] /\ G \in [1..n -> Seq(WrByte)]
    /\ \A i \in 1..n : WrJoined(J[i], J[i - 1], G[i])

(* A chain up to its k-th piece.                                             *)
WrChainUp(k, J, a, G) == J \in [0..k -> Seq(WrByte)] /\ J[0] = a /\ \A i \in 1..k : WrJoined(J[i], J[i - 1], G[i])

(* Any pieces can be put together.                                           *)
LEMMA ChainExists ==
    ASSUME NEW n \in Nat, NEW a \in Seq(WrByte), NEW G \in [1..n -> Seq(WrByte)]
    PROVE  \E J : WrChain(n, J, G) /\ J[0] = a
<1> DEFINE S == {k \in Nat : k <= n => \E J : WrChainUp(k, J, a, G)}
<1>1. 0 \in S
  <2>1. WrChainUp(0, [i \in 0..0 |-> a], a, G)
    BY DEF WrChainUp
  <2> QED BY <2>1
<1>2. ASSUME NEW k \in S PROVE k + 1 \in S
  <2>1. SUFFICES ASSUME k + 1 <= n PROVE \E J : WrChainUp(k + 1, J, a, G)
    OBVIOUS
  <2>2. PICK J : WrChainUp(k, J, a, G)
    BY <2>1
  <2>3. PICK x : WrJoined(x, J[k], G[k + 1])
    BY DEF WrJoined
  <2>4. x \in Seq(WrByte)
    <3>1. J[k] \in Seq(WrByte) /\ G[k + 1] \in Seq(WrByte)
      BY <2>1, <2>2 DEF WrChainUp
    <3> QED BY <2>3, <3>1, ConcatProperties DEF WrJoined
  <2>5. PICK K : K = [i \in 0..(k + 1) |-> IF i = k + 1 THEN x ELSE J[i]]
    OBVIOUS
  <2>6. K \in [0..(k + 1) -> Seq(WrByte)] /\ K[0] = a
    BY <2>2, <2>4, <2>5 DEF WrChainUp
  <2>7. ASSUME NEW i \in 1..(k + 1) PROVE WrJoined(K[i], K[i - 1], G[i])
    <3>1. CASE i = k + 1
      <4>1. K[i] = x /\ K[i - 1] = J[k]
        BY <2>5, <3>1
      <4> QED BY <2>3, <3>1, <4>1
    <3>2. CASE i \in 1..k
      <4>1. K[i] = J[i] /\ K[i - 1] = J[i - 1]
        BY <2>5, <3>2
      <4>2. WrJoined(J[i], J[i - 1], G[i])
        BY <2>2, <3>2 DEF WrChainUp
      <4> QED BY <4>1, <4>2
    <3>3. i = k + 1 \/ i \in 1..k
      OBVIOUS
    <3> QED BY <3>1, <3>2, <3>3
  <2>8. WrChainUp(k + 1, K, a, G)
    BY <2>6, <2>7 DEF WrChainUp
  <2> QED BY <2>8
<1>3. S = Nat
  <2> HIDE DEF S
  <2>1. S \subseteq Nat
    BY DEF S
  <2> QED BY <1>1, <1>2, <2>1, SetInduction
<1>4. PICK J : WrChainUp(n, J, a, G)
  <2>1. n \in S
    <3> HIDE DEF S
    <3> QED BY <1>3
  <2>2. n <= n
    OBVIOUS
  <2> QED BY <2>1, <2>2
<1> QED BY <1>4 DEF WrChain, WrChainUp

(* One link of a chain.                                                      *)
LEMMA ChainStep ==
    ASSUME NEW n, NEW J, NEW G, WrChain(n, J, G)
    PROVE  \A i \in 1..n : J[i - 1] \in Seq(WrByte) /\ G[i] \in Seq(WrByte) /\ WrJoined(J[i], J[i - 1], G[i])
<1> TAKE i \in 1..n
<1>1. n \in Nat /\ J \in [0..n -> Seq(WrByte)] /\ G \in [1..n -> Seq(WrByte)] /\ WrJoined(J[i], J[i - 1], G[i])
  BY DEF WrChain
<1>2. i - 1 \in 0..n
  BY <1>1
<1>3. J[i - 1] \in Seq(WrByte) /\ G[i] \in Seq(WrByte)
  BY <1>1, <1>2, Zenon
<1> QED BY <1>1, <1>3

(* x is as long as y and z together.                                         *)
WrLonger(x, y, z) == Len(x) = Len(y) + Len(z)

(* Every link of a chain is longer by its piece.                             *)
LEMMA ChainGrows ==
    ASSUME NEW n, NEW J, NEW G, WrChain(n, J, G)
    PROVE  /\ \A i \in 0..n : J[i] \in Seq(WrByte) /\ Len(J[i]) \in Nat /\ Len(J[i]) <= Len(J[n])
           /\ \A i \in 1..n : G[i] \in Seq(WrByte) /\ Len(G[i]) \in Nat /\ WrLonger(J[i], J[i - 1], G[i])
<1>1. n \in Nat
  BY DEF WrChain
<1>2. \A i \in 0..n : J[i] \in Seq(WrByte) /\ Len(J[i]) \in Nat
  BY DEF WrChain
<1>3. ASSUME NEW i \in 1..n
      PROVE  G[i] \in Seq(WrByte) /\ Len(G[i]) \in Nat /\ Len(J[i]) = Len(J[i - 1]) + Len(G[i])
  <2>0. J[i - 1] \in Seq(WrByte) /\ G[i] \in Seq(WrByte) /\ WrJoined(J[i], J[i - 1], G[i])
    BY ChainStep, Zenon
  <2>1. PICK x, y : x = J[i - 1] /\ y = G[i]
    OBVIOUS
  <2>2. x \in Seq(WrByte) /\ y \in Seq(WrByte) /\ WrJoined(J[i], x, y)
    BY <2>0, <2>1, Zenon
  <2>3. Len(x \o y) = Len(x) + Len(y) /\ Len(y) \in Nat /\ J[i] = x \o y
    BY <2>2, ConcatProperties DEF WrJoined
  <2> QED BY <2>1, <2>2, <2>3
<1> DEFINE S == {d \in Nat : d <= n => Len(J[n - d]) <= Len(J[n])}
<1>4. 0 \in S
  BY <1>1, <1>2
<1>5. ASSUME NEW d \in S PROVE d + 1 \in S
  <2>1. SUFFICES ASSUME d + 1 <= n PROVE Len(J[n - (d + 1)]) <= Len(J[n])
    OBVIOUS
  <2>2. n - d \in 1..n /\ (n - d) - 1 = n - (d + 1) /\ n - (d + 1) \in 0..n /\ n - d \in 0..n /\ n \in 0..n
    BY <1>1, <2>1
  <2>3. Len(J[n - d]) <= Len(J[n])
    BY <1>1, <2>1
  <2>4. Len(G[n - d]) \in Nat /\ Len(J[n - d]) = Len(J[n - (d + 1)]) + Len(G[n - d])
    BY <1>3, <2>2
  <2>5. Len(J[n - (d + 1)]) \in Nat /\ Len(J[n - d]) \in Nat /\ Len(J[n]) \in Nat
    BY <1>2, <2>2
  <2>6. PICK x, y, z, g : x = Len(J[n - (d + 1)]) /\ y = Len(J[n - d]) /\ z = Len(J[n]) /\ g = Len(G[n - d])
    OBVIOUS
  <2>7. x \in Nat /\ y \in Nat /\ z \in Nat /\ g \in Nat /\ y = x + g /\ y <= z
    BY <2>3, <2>4, <2>5, <2>6
  <2>8. x <= z
    BY <2>7
  <2> QED BY <2>6, <2>8
<1>6. S = Nat
  <2> HIDE DEF S
  <2>1. S \subseteq Nat
    BY DEF S
  <2> QED BY <1>4, <1>5, <2>1, SetInduction
<1>7. ASSUME NEW i \in 0..n PROVE Len(J[i]) <= Len(J[n])
  <2>1. n - i \in Nat /\ n - i <= n /\ n - (n - i) = i
    BY <1>1
  <2> QED BY <1>6, <2>1
<1> QED BY <1>2, <1>3, <1>7 DEF WrLonger

(* A packet that agrees with all of a chain agrees with every piece at its   *)
(* place.                                                                    *)
LEMMA ChainAlike ==
    ASSUME NEW n, NEW J, NEW G, NEW in, WrChain(n, J, G), WrAlike(in, J[n])
    PROVE  \A i \in 1..n : Len(J[i - 1]) <= Len(in) => WrAlike(WrFrom(in, Len(J[i - 1])), G[i])
<1>1. n \in Nat
  BY DEF WrChain
<1>2. ASSUME NEW i \in 1..n, WrAlike(in, J[i])
      PROVE  WrAlike(in, J[i - 1]) /\ (Len(J[i - 1]) <= Len(in) => WrAlike(WrFrom(in, Len(J[i - 1])), G[i]))
  <2>0. J[i - 1] \in Seq(WrByte) /\ G[i] \in Seq(WrByte) /\ WrJoined(J[i], J[i - 1], G[i])
    BY ChainStep, Zenon
  <2>1. PICK x, y : x = J[i - 1] /\ y = G[i]
    OBVIOUS
  <2>2. x \in Seq(WrByte) /\ y \in Seq(WrByte) /\ WrJoined(J[i], x, y)
    BY <2>0, <2>1, Zenon
  <2>3. WrAlike(in, x \o y)
    BY <1>2, <2>2 DEF WrJoined
  <2> QED BY <2>1, <2>2, <2>3, AlikeParts
<1> DEFINE S == {d \in Nat : d <= n => WrAlike(in, J[n - d])}
<1>3. 0 \in S
  BY <1>1
<1>4. ASSUME NEW d \in S PROVE d + 1 \in S
  <2>1. SUFFICES ASSUME d + 1 <= n PROVE WrAlike(in, J[n - (d + 1)])
    OBVIOUS
  <2>2. n - d \in 1..n /\ (n - d) - 1 = n - (d + 1) /\ d <= n
    BY <1>1, <2>1
  <2>3. WrAlike(in, J[n - d])
    BY <2>2
  <2> QED BY <1>2, <2>2, <2>3
<1>5. S = Nat
  <2> HIDE DEF S
  <2>1. S \subseteq Nat
    BY DEF S
  <2> QED BY <1>3, <1>4, <2>1, SetInduction
<1>6. ASSUME NEW i \in 1..n PROVE WrAlike(in, J[i])
  <2>1. n - i \in Nat /\ n - i <= n /\ n - (n - i) = i
    BY <1>1
  <2>2. n - i \in S
    BY <1>5, <2>1
  <2> QED BY <2>1, <2>2
<1> QED BY <1>2, <1>6

(* The names of a list with the commas between them.                        *)
WrComma1(j) == IF j = 1 THEN <<>> ELSE <<WrComma>>
(* Commas in front of the name j.                                            *)
WrGap(j) == IF j = 1 THEN 0 ELSE 1
(* Three sequences, in the association of WrJoin.                            *)
WrAdd(x, y, z) == x \o y \o z
(* The pieces of a name list.                                                *)
WrPieces(l) == [j \in 1..Len(l) |-> WrComma1(j) \o l[j]]
(* The recursive definition within WrJoin.                                   *)
WrJoins(l, f) == f = [j \in 0..Len(l) |-> IF j = 0 THEN <<>> ELSE WrAdd(f[j - 1], WrComma1(j), l[j])]

(* The association of the three does not matter.                             *)
LEMMA AddIs ==
    ASSUME NEW x \in Seq(WrByte), NEW y \in Seq(WrByte), NEW z \in Seq(WrByte), NEW w, WrJoined(w, x, y \o z)
    PROVE  w = WrAdd(x, y, z)
<1>1. (x \o y) \o z = x \o (y \o z)
  BY ConcatAssociative
<1> QED BY <1>1 DEF WrJoined, WrAdd

(* A comma or nothing.                                                       *)
LEMMA CommaIs == ASSUME NEW j PROVE WrComma1(j) \in Seq(WrByte) /\ Len(WrComma1(j)) = WrGap(j) /\ WrGap(j) \in Nat
<1>1. <<WrComma>> \in Seq(WrByte) /\ Len(<<WrComma>>) = 1
  <2>1. WrComma \in WrByte
    BY BaseIs
  <2> QED BY <2>1
<1>2. <<>> \in Seq(WrByte) /\ Len(<<>>) = 0
  BY EmptySeq
<1> QED BY <1>1, <1>2 DEF WrComma1, WrGap

(* A piece is the comma, if any, and the name.                               *)
LEMMA PiecesAre ==
    ASSUME NEW l \in Seq(Seq(WrByte))
    PROVE  /\ WrPieces(l) \in [1..Len(l) -> Seq(WrByte)]
           /\ \A j \in 1..Len(l) : l[j] \in Seq(WrByte) /\ WrPieces(l)[j] = WrComma1(j) \o l[j]
<1>1. ASSUME NEW j \in 1..Len(l) PROVE l[j] \in Seq(WrByte) /\ WrComma1(j) \o l[j] \in Seq(WrByte)
  <2>1. l[j] \in Seq(WrByte)
    BY ElementOfSeq
  <2>2. WrComma1(j) \in Seq(WrByte)
    BY CommaIs
  <2> QED BY <2>1, <2>2, ConcatProperties
<1> QED BY <1>1 DEF WrPieces

(* WrJoin is a chain of the pieces.                                          *)
LEMMA JoinIs ==
    ASSUME NEW l \in Seq(Seq(WrByte))
    PROVE  \E J : WrChain(Len(l), J, WrPieces(l)) /\ J[0] = <<>> /\ WrJoin(l) = J[Len(l)]
<1>1. PICK n, G : n = Len(l) /\ G = WrPieces(l)
  OBVIOUS
<1>2. n \in Nat /\ G \in [1..n -> Seq(WrByte)] /\ <<>> \in Seq(WrByte)
  BY <1>1, PiecesAre, EmptySeq
<1>3. PICK J : WrChain(n, J, G) /\ J[0] = <<>>
  BY <1>2, ChainExists
<1>4. ASSUME NEW j \in 1..n PROVE J[j] = WrAdd(J[j - 1], WrComma1(j), l[j])
  <2>1. J[j - 1] \in Seq(WrByte) /\ WrJoined(J[j], J[j - 1], G[j])
    BY <1>3, ChainStep
  <2>2. l[j] \in Seq(WrByte) /\ G[j] = WrComma1(j) \o l[j] /\ WrComma1(j) \in Seq(WrByte)
    BY <1>1, PiecesAre, CommaIs
  <2>3. WrJoined(J[j], J[j - 1], WrComma1(j) \o l[j])
    BY <2>1, <2>2
  <2> QED BY <2>1, <2>2, <2>3, AddIs
<1>5. WrJoins(l, J)
  <2>1. \A j \in 0..n : J[j] = IF j = 0 THEN <<>> ELSE WrAdd(J[j - 1], WrComma1(j), l[j])
    BY <1>2, <1>3, <1>4
  <2>2. J = [j \in 0..n |-> J[j]]
    BY <1>3 DEF WrChain
  <2> QED BY <1>1, <2>1, <2>2 DEF WrJoins
<1>6. PICK f : f = CHOOSE g : WrJoins(l, g)
  OBVIOUS
<1>7. WrJoins(l, f)
  BY <1>5, <1>6
<1>8. WrJoin(l) = f[n]
  BY <1>1, <1>6 DEF WrJoin, WrJoins, WrAdd, WrComma1
<1>9. \A j \in 0..n : f[j] = IF j = 0 THEN <<>> ELSE WrAdd(f[j - 1], WrComma1(j), l[j])
  <2>1. f = [j \in 0..n |-> IF j = 0 THEN <<>> ELSE WrAdd(f[j - 1], WrComma1(j), l[j])]
    BY <1>1, <1>7 DEF WrJoins
  <2> QED BY <2>1, Zenon
<1>10. f[0] = <<>> /\ \A j \in 1..n : f[j] = WrAdd(f[j - 1], WrComma1(j), l[j])
  BY <1>2, <1>9
<1> DEFINE S == {j \in Nat : j <= n => f[j] = J[j]}
<1>11. 0 \in S
  BY <1>3, <1>10
<1>12. ASSUME NEW j \in S PROVE j + 1 \in S
  <2>1. SUFFICES ASSUME j + 1 <= n PROVE f[j + 1] = J[j + 1]
    OBVIOUS
  <2>2. j + 1 \in 1..n /\ (j + 1) - 1 = j /\ f[j] = J[j]
    BY <1>2, <2>1
  <2> QED BY <1>4, <1>10, <2>2
<1>13. S = Nat
  <2> HIDE DEF S
  <2>1. S \subseteq Nat
    BY DEF S
  <2> QED BY <1>11, <1>12, <2>1, SetInduction
<1>14. f[n] = J[n]
  BY <1>2, <1>13
<1> QED BY <1>1, <1>3, <1>8, <1>14

(* The first n steps of WrSplit.                                             *)
WrSplitting(n, s, f) ==
    /\ f = [i \in 0..n |-> f[i]] /\ f[0] = <<<<>>>>
    /\ \A i \in 1..n : f[i] = WrSplitAt(f[i - 1], s[i])

(* The steps of WrSplit exist.                                               *)
LEMMA SplittingExists == ASSUME NEW s, NEW n \in Nat PROVE \E f : WrSplitting(n, s, f)
<1> DEFINE S == {k \in Nat : \E f : WrSplitting(k, s, f)}
<1>1. 0 \in S
  <2>1. PICK f : f = [i \in 0..0 |-> <<<<>>>>]
    OBVIOUS
  <2>2. f = [i \in 0..0 |-> f[i]] /\ f[0] = <<<<>>>> /\ ~(\E i \in 1..0 : TRUE)
    BY <2>1
  <2>3. WrSplitting(0, s, f)
    BY <2>2 DEF WrSplitting
  <2> QED BY <2>3
<1>2. ASSUME NEW k \in S PROVE k + 1 \in S
  <2>1. PICK f : WrSplitting(k, s, f)
    OBVIOUS
  <2>2. k \in Nat
    OBVIOUS
  <2>3. PICK x : x = WrSplitAt(f[k], s[k + 1])
    OBVIOUS
  <2>4. PICK g : g = [i \in 0..(k + 1) |-> IF i = k + 1 THEN x ELSE f[i]]
    OBVIOUS
  <2>5. g = [i \in 0..(k + 1) |-> g[i]]
    BY <2>4
  <2>6. g[0] = <<<<>>>>
    <3>1. g[0] = f[0]
      BY <2>2, <2>4
    <3> QED BY <2>1, <3>1 DEF WrSplitting
  <2>7. ASSUME NEW i \in 1..(k + 1) PROVE g[i] = WrSplitAt(g[i - 1], s[i])
    <3>1. CASE i = k + 1
      <4>1. g[i] = x /\ g[i - 1] = f[k]
        BY <2>2, <2>4, <3>1
      <4> QED BY <2>3, <3>1, <4>1
    <3>2. CASE i \in 1..k
      <4>1. g[i] = f[i] /\ g[i - 1] = f[i - 1]
        BY <2>2, <2>4, <3>2
      <4>2. f[i] = WrSplitAt(f[i - 1], s[i])
        BY <2>1, <3>2 DEF WrSplitting
      <4> QED BY <4>1, <4>2
    <3>3. i = k + 1 \/ i \in 1..k
      BY <2>2
    <3> QED BY <3>1, <3>2, <3>3
  <2>8. WrSplitting(k + 1, s, g)
    BY <2>5, <2>6, <2>7 DEF WrSplitting
  <2> QED BY <2>2, <2>8
<1>3. S = Nat
  <2> HIDE DEF S
  <2>1. S \subseteq Nat
    BY DEF S
  <2> QED BY <1>1, <1>2, <2>1, SetInduction
<1> QED BY <1>3

(* The recursive definition within WrSplit.                                  *)
WrSplits(s, f) == f = [i \in 0..Len(s) |-> IF i = 0 THEN <<<<>>>> ELSE WrSplitAt(f[i - 1], s[i])]

(* WrSplit is its last step.                                                 *)
LEMMA SplitIs ==
    ASSUME NEW s \in Seq(WrByte)
    PROVE  \E U : WrSplitting(Len(s), s, U) /\ WrSplit(s) = U[Len(s)]
<1>1. PICK n : n = Len(s)
  OBVIOUS
<1>2. n \in Nat
  BY <1>1
<1>3. PICK w : WrSplitting(n, s, w)
  BY <1>2, SplittingExists
<1>4. WrSplits(s, w)
  <2>1. w[0] = <<<<>>>> /\ (\A i \in 1..n : w[i] = WrSplitAt(w[i - 1], s[i])) /\ w = [i \in 0..n |-> w[i]]
    BY <1>3 DEF WrSplitting
  <2>2. \A i \in 0..n : i = 0 \/ i \in 1..n
    BY <1>2
  <2>3. \A i \in 0..n : w[i] = IF i = 0 THEN <<<<>>>> ELSE WrSplitAt(w[i - 1], s[i])
    BY <2>1, <2>2
  <2> QED BY <1>1, <2>1, <2>3 DEF WrSplits
<1>5. PICK f : f = CHOOSE g : WrSplits(s, g)
  OBVIOUS
<1>6. WrSplits(s, f)
  BY <1>4, <1>5
<1>7. WrSplit(s) = f[n]
  BY <1>1, <1>5 DEF WrSplit, WrSplits
<1>8. f = [i \in 0..n |-> IF i = 0 THEN <<<<>>>> ELSE WrSplitAt(f[i - 1], s[i])]
  BY <1>1, <1>6 DEF WrSplits
<1>9. \A i \in 0..n : f[i] = IF i = 0 THEN <<<<>>>> ELSE WrSplitAt(f[i - 1], s[i])
  BY <1>8, Zenon
<1>10. f[0] = <<<<>>>> /\ (\A i \in 1..n : f[i] = WrSplitAt(f[i - 1], s[i]))
  <2>1. 0 \in 0..n /\ \A i \in 1..n : i \in 0..n /\ i # 0
    BY <1>2
  <2> QED BY <1>9, <2>1
<1>11. f = [i \in 0..n |-> f[i]]
  BY <1>8, <1>9
<1>12. WrSplitting(n, s, f)
  BY <1>10, <1>11 DEF WrSplitting
<1> QED BY <1>1, <1>7, <1>12

(* What has been split off when the first i bytes of name j have been read. *)
WrPart(l, j, i) == [k \in 1..j |-> IF k = j THEN [q \in 1..i |-> l[j][q]] ELSE l[k]]

(* p holds the names before j, and the first i bytes of name j.              *)
WrIsPart(l, j, i, p) ==
    /\ p \in Seq(Seq(WrByte)) /\ Len(p) = j /\ \A k \in 1..j : k # j => p[k] = l[k]
    /\ p[j] \in Seq(WrByte) /\ Len(p[j]) = i /\ \A q \in 1..i : p[j][q] = l[j][q]

(* WrPart is such a list.                                                    *)
LEMMA PartIs ==
    ASSUME NEW l \in Seq(Seq(WrByte)), NEW j \in 1..Len(l), NEW i \in 0..Len(l[j])
    PROVE  WrIsPart(l, j, i, WrPart(l, j, i))
<1>1. PICK a, b, p : a = l[j] /\ b = [q \in 1..i |-> a[q]] /\ p = WrPart(l, j, i)
  OBVIOUS
<1>2. a \in Seq(WrByte) /\ Len(a) \in Nat /\ i \in Nat /\ i <= Len(a) /\ j \in Nat /\ j > 0 /\ j <= Len(l)
  <2>1. l[j] \in Seq(WrByte)
    BY ElementOfSeq
  <2>2. Len(l[j]) \in Nat
    BY <2>1
  <2> QED BY <1>1, <2>1, <2>2
<1>3. b \in Seq(WrByte) /\ Len(b) = i /\ \A q \in 1..i : b[q] = a[q]
  <2>1. \A q \in 1..i : a[q] \in WrByte
    BY <1>2
  <2>2. b \in [1..i -> WrByte]
    BY <1>1, <2>1
  <2> QED BY <1>1, <1>2, <2>2
<1>4. p = [k \in 1..j |-> IF k = j THEN b ELSE l[k]]
  BY <1>1 DEF WrPart
<1>5. \A k \in 1..j : l[k] \in Seq(WrByte)
  BY <1>2, ElementOfSeq
<1>6. p \in [1..j -> Seq(WrByte)]
  BY <1>3, <1>4, <1>5
<1>7. p \in Seq(Seq(WrByte)) /\ Len(p) = j
  <2>1. PICK T : T = Seq(WrByte)
    OBVIOUS
  <2>2. p \in [1..j -> T]
    BY <1>6, <2>1
  <2>3. p \in Seq(T) /\ Len(p) = j
    BY <1>2, <2>2
  <2> QED BY <2>1, <2>3
<1>8. p[j] = b /\ \A k \in 1..j : k # j => p[k] = l[k]
  BY <1>2, <1>4
<1> QED BY <1>1, <1>3, <1>7, <1>8 DEF WrIsPart

(* A byte that is no comma goes on with the name.                            *)
LEMMA PartByte ==
    ASSUME NEW l \in Seq(Seq(WrByte)), NEW j \in 1..Len(l), NEW i \in Nat, i < Len(l[j]), l[j][i + 1] # WrComma
    PROVE  WrSplitAt(WrPart(l, j, i), l[j][i + 1]) = WrPart(l, j, i + 1)
<1>1. PICK T, a, x, p, r : T = Seq(WrByte) /\ a = l[j] /\ x = a[i + 1] /\ p = WrPart(l, j, i) /\ r = WrPart(l, j, i + 1)
  OBVIOUS
<1>2. a \in Seq(WrByte) /\ Len(a) \in Nat /\ i + 1 \in Nat /\ i + 1 <= Len(a) /\ i < Len(a) /\ x \in WrByte /\ j \in Nat
  <2>1. a \in Seq(WrByte)
    BY <1>1, ElementOfSeq
  <2>2. Len(a) \in Nat /\ i < Len(a)
    BY <1>1, <2>1
  <2>3. i + 1 \in 1..Len(a)
    BY <2>2
  <2> QED BY <1>1, <2>1, <2>2, <2>3
<1>3. /\ p \in Seq(T) /\ Len(p) = j /\ (\A k \in 1..j : k # j => p[k] = l[k])
      /\ p[j] \in Seq(WrByte) /\ Len(p[j]) = i /\ \A q \in 1..i : p[j][q] = a[q]
  <2>1. i \in 0..Len(l[j])
    BY <1>1, <1>2
  <2>2. WrIsPart(l, j, i, p)
    BY <1>1, <2>1, PartIs
  <2> QED BY <1>1, <2>2 DEF WrIsPart
<1>4. /\ r \in Seq(T) /\ Len(r) = j /\ (\A k \in 1..j : k # j => r[k] = l[k])
      /\ r[j] \in Seq(WrByte) /\ Len(r[j]) = i + 1 /\ \A q \in 1..(i + 1) : r[j][q] = a[q]
  <2>1. i + 1 \in 0..Len(l[j])
    BY <1>1, <1>2
  <2>2. WrIsPart(l, j, i + 1, r)
    BY <1>1, <2>1, PartIs
  <2> QED BY <1>1, <2>2 DEF WrIsPart
<1>5. PICK b, c : b = p[j] /\ c = Append(b, x)
  OBVIOUS
<1>6. b \in Seq(WrByte) /\ Len(b) = i /\ \A q \in 1..i : b[q] = a[q]
  BY <1>3, <1>5
<1>7. c \in Seq(WrByte) /\ Len(c) = i + 1 /\ c[i + 1] = x /\ \A q \in 1..i : c[q] = b[q]
  BY <1>2, <1>5, <1>6
<1>8. ASSUME NEW q \in 1..(i + 1) PROVE c[q] = r[j][q]
  <2>1. q = i + 1 \/ q \in 1..i
    OBVIOUS
  <2>2. r[j][q] = a[q]
    BY <1>4
  <2>3. CASE q = i + 1
    BY <1>1, <1>7, <2>2, <2>3
  <2>4. CASE q \in 1..i
    BY <1>6, <1>7, <2>2, <2>4
  <2> QED BY <2>1, <2>3, <2>4
<1>9. c = r[j]
  BY <1>4, <1>7, <1>8, SeqEqual
<1>10. PICK e : e = [p EXCEPT ![j] = c]
  OBVIOUS
<1>11. c \in T
  BY <1>1, <1>7
<1>12. e \in Seq(T) /\ Len(e) = j /\ \A k \in 1..j : e[k] = IF k = j THEN c ELSE p[k]
  BY <1>2, <1>3, <1>10, <1>11, ExceptSeq
<1>13. \A k \in 1..j : e[k] = r[k]
  BY <1>3, <1>4, <1>9, <1>12
<1>14. e = r
  BY <1>4, <1>12, <1>13, SeqEqual
<1>15. WrSplitAt(p, x) = e
  <2>1. x # WrComma /\ Len(p) = j
    BY <1>1, <1>3
  <2>2. WrSplitAt(p, x) = [p EXCEPT ![j] = Append(@, x)]
    BY <2>1 DEF WrSplitAt
  <2> QED BY <1>5, <1>10, <2>2
<1> QED BY <1>1, <1>14, <1>15

(* A comma begins the next name.                                             *)
LEMMA PartComma ==
    ASSUME NEW l \in Seq(Seq(WrByte)), NEW j \in 1..Len(l), j < Len(l)
    PROVE  WrSplitAt(WrPart(l, j, Len(l[j])), WrComma) = WrPart(l, j + 1, 0)
<1>1. PICK T, a, p, r : T = Seq(WrByte) /\ a = l[j] /\ p = WrPart(l, j, Len(a)) /\ r = WrPart(l, j + 1, 0)
  OBVIOUS
<1>2. a \in Seq(WrByte) /\ Len(a) \in Nat /\ j \in Nat /\ j + 1 \in 1..Len(l) /\ j > 0
  <2>1. a \in Seq(WrByte)
    BY <1>1, ElementOfSeq
  <2>2. Len(l) \in Nat
    OBVIOUS
  <2> QED BY <2>1, <2>2
<1>3. /\ p \in Seq(T) /\ Len(p) = j /\ (\A k \in 1..j : k # j => p[k] = l[k])
      /\ p[j] \in Seq(WrByte) /\ Len(p[j]) = Len(a) /\ \A q \in 1..Len(a) : p[j][q] = a[q]
  <2>1. Len(a) \in 0..Len(l[j])
    BY <1>1, <1>2
  <2>2. WrIsPart(l, j, Len(a), p)
    BY <1>1, <2>1, PartIs
  <2> QED BY <1>1, <2>2 DEF WrIsPart
<1>4. p[j] = a
  BY <1>2, <1>3, SeqEqual
<1>5. /\ r \in Seq(T) /\ Len(r) = j + 1 /\ (\A k \in 1..(j + 1) : k # j + 1 => r[k] = l[k])
      /\ r[j + 1] \in Seq(WrByte) /\ Len(r[j + 1]) = 0
  <2>1. 0 \in 0..Len(l[j + 1])
    <3>1. l[j + 1] \in Seq(WrByte)
      BY <1>2, ElementOfSeq
    <3>2. Len(l[j + 1]) \in Nat
      BY <3>1
    <3> QED BY <3>2
  <2>2. WrIsPart(l, j + 1, 0, r)
    BY <1>1, <1>2, <2>1, PartIs
  <2> QED BY <1>1, <2>2 DEF WrIsPart
<1>6. r[j + 1] = <<>>
  BY <1>5, EmptySeq
<1>7. <<>> \in T
  BY <1>1, EmptySeq
<1>8. PICK e, z : z = <<>> /\ e = Append(p, z)
  OBVIOUS
<1>9. e \in Seq(T) /\ Len(e) = j + 1 /\ e[j + 1] = z /\ \A k \in 1..j : e[k] = p[k]
  BY <1>3, <1>7, <1>8
<1>10. ASSUME NEW k \in 1..(j + 1) PROVE e[k] = r[k]
  <2>1. k = j + 1 \/ (k \in 1..j /\ k # j + 1)
    BY <1>2
  <2>2. CASE k = j + 1
    BY <1>6, <1>8, <1>9, <2>2
  <2>3. CASE k \in 1..j /\ k # j + 1
    <3>1. p[k] = l[k]
      BY <1>1, <1>3, <1>4, <2>3
    <3> QED BY <1>5, <1>9, <2>3, <3>1
  <2> QED BY <2>1, <2>2, <2>3
<1>11. e = r
  BY <1>5, <1>9, <1>10, SeqEqual
<1>12. WrSplitAt(p, WrComma) = e
  BY <1>8 DEF WrSplitAt
<1> QED BY <1>1, <1>11, <1>12

(* WrSplit begins with one empty name.                                       *)
LEMMA PartFirst ==
    ASSUME NEW l \in Seq(Seq(WrByte)), Len(l) > 0
    PROVE  WrPart(l, 1, 0) = <<<<>>>>
<1>1. PICK T, r : T = Seq(WrByte) /\ r = WrPart(l, 1, 0)
  OBVIOUS
<1>2. 1 \in 1..Len(l) /\ 0 \in 0..Len(l[1])
  <2>1. Len(l) \in Nat
    OBVIOUS
  <2>2. 1 \in 1..Len(l)
    BY <2>1
  <2>3. l[1] \in Seq(WrByte)
    BY <2>2, ElementOfSeq
  <2>4. Len(l[1]) \in Nat
    BY <2>3
  <2> QED BY <2>2, <2>4
<1>3. r \in Seq(T) /\ Len(r) = 1 /\ r[1] \in Seq(WrByte) /\ Len(r[1]) = 0
  <2>1. WrIsPart(l, 1, 0, r)
    BY <1>1, <1>2, PartIs
  <2> QED BY <1>1, <2>1 DEF WrIsPart
<1>4. r[1] = <<>>
  BY <1>3, EmptySeq
<1>5. PICK z : z = <<>>
  OBVIOUS
<1>6. r[1] = z
  BY <1>4, <1>5
<1>7. r = <<z>>
  BY <1>3, <1>6
<1> QED BY <1>1, <1>5, <1>7

(* All of the last name makes the list complete.                             *)
LEMMA PartLast ==
    ASSUME NEW l \in Seq(Seq(WrByte)), Len(l) > 0
    PROVE  WrPart(l, Len(l), Len(l[Len(l)])) = l
<1>1. PICK T, n, a : T = Seq(WrByte) /\ n = Len(l) /\ a = l[n]
  OBVIOUS
<1>2. n \in Nat /\ n \in 1..n /\ a \in Seq(WrByte) /\ l \in Seq(T)
  <2>1. n \in Nat /\ n > 0
    BY <1>1
  <2>2. n \in 1..Len(l)
    BY <1>1, <2>1
  <2>3. l[n] \in Seq(WrByte)
    BY <2>2, ElementOfSeq
  <2> QED BY <1>1, <2>1, <2>2, <2>3
<1>3. PICK p : p = WrPart(l, n, Len(a))
  OBVIOUS
<1>4. /\ p \in Seq(T) /\ Len(p) = n /\ (\A k \in 1..n : k # n => p[k] = l[k])
      /\ p[n] \in Seq(WrByte) /\ Len(p[n]) = Len(a) /\ \A q \in 1..Len(a) : p[n][q] = a[q]
  <2>1. Len(a) \in 0..Len(l[n])
    BY <1>1, <1>2
  <2>2. WrIsPart(l, n, Len(a), p)
    BY <1>1, <1>2, <1>3, <2>1, PartIs
  <2> QED BY <1>1, <2>2 DEF WrIsPart
<1>5. p[n] = a
  BY <1>2, <1>4, SeqEqual
<1>6. \A k \in 1..n : p[k] = l[k]
  BY <1>1, <1>4, <1>5
<1>7. p = l
  BY <1>1, <1>2, <1>4, <1>6, SeqEqual
<1> QED BY <1>1, <1>3, <1>7

(* The name a stands in s after the place p.                                 *)
WrNameAt(s, p, a, m) == p + Len(a) <= m /\ \A i \in 1..Len(a) : s[p + i] = a[i] /\ a[i] # WrComma

(* Splitting over a name adds it to the list.                                *)
LEMMA SplitName ==
    ASSUME NEW s, NEW U, NEW m \in Nat, WrSplitting(m, s, U),
           NEW l \in Seq(Seq(WrByte)), NEW j \in 1..Len(l), NEW p \in Nat,
           WrNameAt(s, p, l[j], m), U[p] = WrPart(l, j, 0)
    PROVE  U[p + Len(l[j])] = WrPart(l, j, Len(l[j]))
<1>1. PICK L : L = Len(l[j])
  OBVIOUS
<1>2. L \in Nat /\ p + L <= m
  <2>1. l[j] \in Seq(WrByte)
    BY ElementOfSeq
  <2>2. Len(l[j]) \in Nat
    BY <2>1
  <2> QED BY <1>1, <2>2 DEF WrNameAt
<1> DEFINE S == {i \in Nat : i <= L => U[p + i] = WrPart(l, j, i)}
<1>3. 0 \in S
  <2>1. p + 0 = p
    OBVIOUS
  <2> QED BY <2>1
<1>4. ASSUME NEW i \in S PROVE i + 1 \in S
  <2>1. SUFFICES ASSUME i + 1 <= L PROVE U[p + (i + 1)] = WrPart(l, j, i + 1)
    OBVIOUS
  <2>2. i \in Nat /\ i <= L /\ i < L /\ i + 1 \in 1..L
    BY <1>2, <2>1
  <2>3. U[p + i] = WrPart(l, j, i)
    BY <2>2
  <2>4. p + (i + 1) \in 1..m /\ (p + (i + 1)) - 1 = p + i
    BY <1>2, <2>1, <2>2
  <2>5. U[p + (i + 1)] = WrSplitAt(U[p + i], s[p + (i + 1)])
    BY <2>4 DEF WrSplitting
  <2>6. s[p + (i + 1)] = l[j][i + 1] /\ l[j][i + 1] # WrComma
    BY <1>1, <2>2 DEF WrNameAt
  <2>7. WrSplitAt(WrPart(l, j, i), l[j][i + 1]) = WrPart(l, j, i + 1)
    BY <1>1, <2>2, <2>6, PartByte
  <2> QED BY <2>3, <2>5, <2>6, <2>7
<1>5. S = Nat
  <2> HIDE DEF S
  <2>1. S \subseteq Nat
    BY DEF S
  <2> QED BY <1>3, <1>4, <2>1, SetInduction
<1>6. L \in S
  <2> HIDE DEF S
  <2> QED BY <1>2, <1>5
<1>7. U[p + L] = WrPart(l, j, L)
  BY <1>2, <1>6
<1> QED BY <1>1, <1>7

(* Name j of the list comes right after position p of what was joined.      *)
WrPlaced(l, J, s, j, p) ==
    /\ s \in Seq(WrByte) /\ p \in Nat /\ l[j] \in Seq(WrByte)
    /\ p = Len(J[j - 1]) + WrGap(j) /\ Len(J[j]) = p + Len(l[j]) /\ Len(J[j]) <= Len(s)
    /\ \A i \in 1..Len(l[j]) : s[p + i] = l[j][i]
    /\ j # 1 => s[p] = WrComma

(* Every name of a joined list stands at its place, after its comma.         *)
LEMMA JoinPiece ==
    ASSUME NEW l \in Seq(Seq(WrByte)), NEW J, WrChain(Len(l), J, WrPieces(l)), NEW j \in 1..Len(l)
    PROVE  \E p : WrPlaced(l, J, J[Len(l)], j, p)
<1>1. PICK n, s, G, a, g, k, c, o :
        /\ n = Len(l) /\ s = J[n] /\ G = WrPieces(l) /\ a = l[j] /\ g = G[j] /\ k = WrComma1(j)
        /\ c = WrGap(j) /\ o = Len(J[j - 1])
  OBVIOUS
<1>2. n \in Nat /\ j \in 1..n /\ j - 1 \in 0..n /\ n \in 0..n /\ j \in 0..n /\ WrChain(n, J, G)
  BY <1>1
<1>3. a \in Seq(WrByte) /\ WrJoined(g, k, a) /\ k \in Seq(WrByte) /\ Len(k) = c /\ c \in Nat
  BY <1>1, PiecesAre, CommaIs DEF WrJoined
<1>4. PICK M, N : M = Len(J[j]) /\ N = Len(s)
  OBVIOUS
<1>5. s \in Seq(WrByte) /\ N \in Nat /\ o \in Nat /\ M \in Nat /\ M <= N /\ M = o + Len(g)
  <2>1. \A i \in 0..n : J[i] \in Seq(WrByte) /\ Len(J[i]) \in Nat /\ Len(J[i]) <= Len(J[n])
    BY <1>2, ChainGrows
  <2>2. WrLonger(J[j], J[j - 1], G[j])
    BY <1>2, ChainGrows
  <2> QED BY <1>1, <1>2, <1>4, <2>1, <2>2 DEF WrLonger
<1>6. PICK A : A = Len(a)
  OBVIOUS
<1>7. A \in Nat /\ Len(g) = c + A /\ \A i \in 1..(c + A) : g[i] = IF i <= c THEN k[i] ELSE a[i - c]
  <2>1. Len(k \o a) = Len(k) + Len(a) /\ \A i \in 1..(Len(k) + Len(a)) : (k \o a)[i] = IF i <= Len(k) THEN k[i] ELSE a[i - Len(k)]
    BY <1>3, ConcatProperties
  <2>2. Len(a) \in Nat
    BY <1>3
  <2>3. g = k \o a
    BY <1>3 DEF WrJoined
  <2> QED BY <1>3, <1>6, <2>1, <2>2, <2>3
<1>8. PICK p : p = o + c
  OBVIOUS
<1>9. p \in Nat /\ M = p + A /\ o <= N
  BY <1>3, <1>5, <1>7, <1>8
<1>10. WrAlike(WrFrom(s, o), g)
  <2>1. WrAlike(s, J[n])
    BY <1>1, <1>5 DEF WrAlike
  <2> QED BY <1>1, <1>2, <1>4, <1>9, <2>1, ChainAlike
<1>11. ASSUME NEW q \in 1..(c + A) PROVE s[o + q] = g[q]
  <2>1. PICK f : f = WrFrom(s, o)
    OBVIOUS
  <2>2. q \in 1..(N - o) /\ q <= N - o
    BY <1>3, <1>5, <1>7, <1>8, <1>9
  <2>3. Len(f) = N - o /\ f[q] = s[o + q]
    BY <1>4, <1>5, <1>9, <2>1, <2>2, FromIs
  <2>4. f[q] = g[q]
    <3>1. \A i \in 1..Len(g) : i <= Len(f) => f[i] = g[i]
      BY <1>10, <2>1 DEF WrAlike
    <3>2. q \in 1..Len(g) /\ q <= Len(f)
      BY <1>7, <2>2, <2>3
    <3> QED BY <3>1, <3>2
  <2> QED BY <2>3, <2>4
<1>12. ASSUME NEW i \in 1..A PROVE s[p + i] = a[i]
  <2>1. c + i \in 1..(c + A) /\ o + (c + i) = p + i /\ ~(c + i <= c) /\ (c + i) - c = i
    BY <1>3, <1>5, <1>7, <1>8
  <2>2. s[o + (c + i)] = g[c + i]
    BY <1>11, <2>1
  <2>3. g[c + i] = a[i]
    BY <1>7, <2>1
  <2> QED BY <2>1, <2>2, <2>3
<1>13. ASSUME j # 1 PROVE s[p] = WrComma
  <2>1. c = 1 /\ k = <<WrComma>>
    BY <1>1, <1>13 DEF WrComma1, WrGap
  <2>2. 1 \in 1..(c + A) /\ 1 <= c /\ o + 1 = p
    BY <1>7, <1>8, <2>1
  <2>3. k[1] = WrComma
    BY <2>1
  <2> QED BY <1>7, <1>11, <2>2, <2>3
<1>14. WrPlaced(l, J, s, j, p)
  BY <1>1, <1>3, <1>4, <1>5, <1>6, <1>8, <1>9, <1>12, <1>13 DEF WrPlaced
<1> QED BY <1>1, <1>14

(* A list of names without an empty name or a comma.                        *)
WrCleanNames(l) == \A j \in DOMAIN l : l[j] # <<>> /\ \A k \in DOMAIN l[j] : l[j][k] # WrComma

(* Clean names are not empty and have no comma.                              *)
LEMMA NoComma ==
    ASSUME NEW l \in Seq(Seq(WrByte)), WrCleanNames(l), NEW j \in 1..Len(l)
    PROVE  l[j] \in Seq(WrByte) /\ Len(l[j]) \in Nat /\ Len(l[j]) > 0 /\ \A i \in 1..Len(l[j]) : l[j][i] # WrComma
<1>1. PICK a : a = l[j]
  OBVIOUS
<1>2. j \in DOMAIN l /\ a \in Seq(WrByte)
  BY <1>1, ElementOfSeq
<1>3. DOMAIN a = 1..Len(a) /\ a # <<>> /\ Len(a) \in Nat
  BY <1>1, <1>2 DEF WrCleanNames
<1>4. Len(a) > 0
  BY <1>2, <1>3, EmptySeq
<1>5. \A i \in DOMAIN a : a[i] # WrComma
  BY <1>1, <1>2 DEF WrCleanNames
<1> QED BY <1>1, <1>2, <1>3, <1>4, <1>5

(* Once the comma before it has been read, a name is read to its end.       *)
LEMMA SplitNext ==
    ASSUME NEW l \in Seq(Seq(WrByte)), WrCleanNames(l), NEW J, NEW s, NEW U, NEW j \in 1..Len(l), NEW p,
           WrPlaced(l, J, s, j, p), WrSplitting(Len(s), s, U), U[p] = WrPart(l, j, 0)
    PROVE  U[Len(J[j])] = WrPart(l, j, Len(l[j]))
<1>1. PICK m : m = Len(s)
  OBVIOUS
<1>2. m \in Nat /\ p \in Nat /\ Len(J[j]) = p + Len(l[j]) /\ p + Len(l[j]) <= m /\ WrSplitting(m, s, U)
  BY <1>1 DEF WrPlaced
<1>3. \A i \in 1..Len(l[j]) : s[p + i] = l[j][i] /\ l[j][i] # WrComma
  BY NoComma DEF WrPlaced
<1>4. U[p + Len(l[j])] = WrPart(l, j, Len(l[j]))
  <2>1. WrNameAt(s, p, l[j], m)
    BY <1>2, <1>3 DEF WrNameAt
  <2> QED BY <1>2, <2>1, SplitName
<1> QED BY <1>2, <1>4

(* parseNameList reads back a list of clean names.                           *)
LEMMA SplitJoin ==
    ASSUME NEW l \in Seq(Seq(WrByte)), Len(l) > 0, WrCleanNames(l)
    PROVE  WrJoin(l) # <<>> /\ WrSplit(WrJoin(l)) = l
<1>1. PICK n, G : n = Len(l) /\ G = WrPieces(l)
  OBVIOUS
<1>2. n \in Nat /\ n > 0 /\ 1 \in 1..n
  BY <1>1
<1>3. PICK J : WrChain(n, J, G) /\ J[0] = <<>> /\ WrJoin(l) = J[n]
  BY <1>1, JoinIs
<1>4. PICK s : s = J[n]
  OBVIOUS
<1>5. \A j \in 1..n : \E p : WrPlaced(l, J, s, j, p)
  BY <1>1, <1>3, <1>4, JoinPiece
<1>6. PICK p1 : WrPlaced(l, J, s, 1, p1)
  BY <1>2, <1>5
<1>7. s \in Seq(WrByte) /\ Len(s) \in Nat /\ p1 = 0 /\ Len(J[1]) = 0 + Len(l[1]) /\ Len(J[1]) <= Len(s)
  <2>1. Len(J[0]) = 0 /\ WrGap(1) = 0
    BY <1>3, EmptySeq DEF WrGap
  <2>2. p1 = 0 + 0
    BY <1>6, <2>1 DEF WrPlaced
  <2> QED BY <1>6, <2>2 DEF WrPlaced
<1>8. s # <<>>
  <2>1. Len(l[1]) \in Nat /\ Len(l[1]) > 0
    BY <1>1, <1>2, NoComma
  <2>2. Len(s) > 0
    BY <1>7, <2>1
  <2> QED BY <1>7, <2>2
<1>9. PICK U : WrSplitting(Len(s), s, U) /\ WrSplit(s) = U[Len(s)]
  BY <1>7, SplitIs
<1> DEFINE S == {j \in Nat : j \in 1..n => U[Len(J[j])] = WrPart(l, j, Len(l[j]))}
<1>10. 0 \in S
  OBVIOUS
<1>11. ASSUME NEW j \in S PROVE j + 1 \in S
  <2>1. SUFFICES ASSUME j + 1 \in 1..n PROVE U[Len(J[j + 1])] = WrPart(l, j + 1, Len(l[j + 1]))
    OBVIOUS
  <2>2. j \in Nat /\ (j + 1) - 1 = j
    OBVIOUS
  <2>3. PICK p : WrPlaced(l, J, s, j + 1, p)
    BY <1>5, <2>1
  <2>4. U[p] = WrPart(l, j + 1, 0)
    <3>1. CASE j = 0
      <4>1. U[0] = <<<<>>>> /\ WrPart(l, 1, 0) = <<<<>>>>
        BY <1>1, <1>2, <1>9, PartFirst DEF WrSplitting
      <4>2. j + 1 = 1 /\ Len(J[j]) = 0 /\ WrGap(1) = 0
        BY <1>3, <3>1, EmptySeq DEF WrGap
      <4>3. p = 0 + 0
        BY <2>2, <2>3, <4>2 DEF WrPlaced
      <4>4. p = 0 /\ WrPart(l, j + 1, 0) = WrPart(l, 1, 0)
        BY <4>2, <4>3
      <4> QED BY <4>1, <4>4
    <3>2. CASE j # 0
      <4>1. j \in 1..n /\ j < n /\ j + 1 # 1
        BY <1>2, <2>1, <2>2, <3>2
      <4>2. U[Len(J[j])] = WrPart(l, j, Len(l[j]))
        BY <4>1
      <4>3. PICK o, g : o = Len(J[j]) /\ g = WrGap(j + 1)
        OBVIOUS
      <4>4. o \in Nat
        <5>1. j \in 0..n
          BY <1>2, <4>1
        <5>2. Len(J[j]) \in Nat
          BY <1>3, <5>1, ChainGrows
        <5> QED BY <4>3, <5>2
      <4>5. g = 1 /\ p = o + g /\ s[p] = WrComma /\ p \in Nat /\ p <= Len(s)
        <5>1. g = 1
          BY <4>1, <4>3 DEF WrGap
        <5>2. /\ p = Len(J[j]) + WrGap(j + 1) /\ s[p] = WrComma /\ p \in Nat
              /\ Len(J[j + 1]) = p + Len(l[j + 1]) /\ Len(J[j + 1]) <= Len(s)
          BY <2>2, <2>3, <4>1 DEF WrPlaced
        <5>3. Len(l[j + 1]) \in Nat
          BY <1>1, <2>1, NoComma
        <5>4. p <= Len(s)
          <6>1. PICK x, y, z : x = Len(l[j + 1]) /\ y = Len(J[j + 1]) /\ z = Len(s)
            OBVIOUS
          <6>2. x \in Nat /\ z \in Nat /\ p \in Nat /\ y = p + x /\ y <= z
            BY <1>7, <5>2, <5>3, <6>1
          <6>3. p <= z
            BY <6>2
          <6> QED BY <6>1, <6>3
        <5> QED BY <4>3, <5>1, <5>2, <5>4
      <4>6. p \in 1..Len(s) /\ p - 1 = o
        BY <1>7, <4>4, <4>5
      <4>7. U[p] = WrSplitAt(U[o], WrComma)
        <5>1. U[p] = WrSplitAt(U[p - 1], s[p])
          BY <1>9, <4>6 DEF WrSplitting
        <5> QED BY <4>5, <4>6, <5>1
      <4> QED BY <1>1, <4>1, <4>2, <4>3, <4>7, PartComma
    <3> QED BY <3>1, <3>2
  <2> QED BY <1>1, <1>9, <2>1, <2>3, <2>4, SplitNext
<1>12. S = Nat
  <2> HIDE DEF S
  <2>1. S \subseteq Nat
    BY DEF S
  <2> QED BY <1>10, <1>11, <2>1, SetInduction
<1>13. n \in S
  <2> HIDE DEF S
  <2> QED BY <1>2, <1>12
<1>14. U[Len(s)] = WrPart(l, n, Len(l[n]))
  <2>1. n \in 1..n
    BY <1>2
  <2> QED BY <1>4, <1>13, <2>1
<1>15. WrPart(l, n, Len(l[n])) = l
  BY <1>1, <1>2, PartLast
<1> QED BY <1>3, <1>4, <1>8, <1>9, <1>14, <1>15

------------------------------------------------------------------------------
(* Fields.                                                                  *)

(* What a field is read as: the value, or for a list of names that is not   *)
(* clean some other list; no part of a field is taken for the whole.        *)
WrGets(kind, v, F, in) ==
    /\ Len(F) <= Len(in) =>
         /\ WrParse(kind, in).ok /\ WrParse(kind, in).rest = WrFrom(in, Len(F))
         /\ (kind = "names" => WrCleanNames(v)) => WrParse(kind, in).out = v
    /\ Len(in) < Len(F) => ~WrParse(kind, in).ok

(* The parts of what a parser returns.                                       *)
LEMMA ParsedIs == ASSUME NEW v, NEW r PROVE WrParsed(v, r).ok = TRUE /\ WrParsed(v, r).out = v /\ WrParsed(v, r).rest = r
BY DEF WrParsed

(* What it means that a parser reads F.                                      *)
LEMMA ReadsIs ==
    ASSUME NEW q, NEW in, NEW F, NEW v, WrReads(q, in, F, v)
    PROVE  /\ Len(F) <= Len(in) => q.ok = TRUE /\ q.out = v /\ q.rest = WrFrom(in, Len(F))
           /\ Len(in) < Len(F) => ~q.ok
<1>1. ASSUME Len(F) <= Len(in) PROVE q.ok = TRUE /\ q.out = v /\ q.rest = WrFrom(in, Len(F))
  <2>1. q = WrParsed(v, WrFrom(in, Len(F)))
    BY <1>1 DEF WrReads
  <2> QED BY <2>1 DEF WrParsed
<1>2. Len(in) < Len(F) => ~q.ok
  BY DEF WrReads
<1> QED BY <1>1, <1>2

(* Enough for a field to be read back.                                       *)
LEMMA GetsIs ==
    ASSUME NEW kind, NEW v, NEW F, NEW in, NEW x,
           Len(F) <= Len(in) => WrParse(kind, in) = WrParsed(x, WrFrom(in, Len(F))),
           Len(in) < Len(F) => ~WrParse(kind, in).ok, (kind = "names" => WrCleanNames(v)) => x = v
    PROVE  WrGets(kind, v, F, in)
<1>1. PICK p : p = WrParse(kind, in)
  OBVIOUS
<1>2. ASSUME Len(F) <= Len(in) PROVE p.ok = TRUE /\ p.out = x /\ p.rest = WrFrom(in, Len(F))
  <2>1. p = WrParsed(x, WrFrom(in, Len(F)))
    BY <1>1, <1>2
  <2> QED BY <2>1 DEF WrParsed
<1> QED BY <1>1, <1>2 DEF WrGets

(* A sequence of one byte.                                                   *)
LEMMA OneByte == ASSUME NEW b \in WrByte PROVE <<b>> \in Seq(WrByte) /\ Len(<<b>>) = 1 /\ <<b>>[1] = b
OBVIOUS

(* A uint8 is read back.                                                     *)
LEMMA ByteGets ==
    ASSUME NEW v \in WrByte, NEW in, WrAlike(in, <<v>>)
    PROVE  WrGets("u8", v, <<v>>, in)
<1>1. PICK F, q, p : F = <<v>> /\ q = WrParseFixed(in, 1) /\ p = WrParse("u8", in)
  OBVIOUS
<1>2. Len(F) = 1 /\ F[1] = v /\ WrAlike(in, F)
  BY <1>1, OneByte
<1>3. WrReads(q, in, F, F)
  BY <1>1, <1>2, FixedReads
<1>4. p = IF q.ok THEN WrParsed(q.out[1], q.rest) ELSE q
  BY <1>1 DEF WrParse
<1>5. Len(F) <= Len(in) => p = WrParsed(v, WrFrom(in, Len(F)))
  BY <1>2, <1>3, <1>4, ReadsIs
<1>6. Len(in) < Len(F) => ~p.ok
  BY <1>3, <1>4, ReadsIs
<1> QED BY <1>1, <1>5, <1>6, GetsIs

(* A bool is read back.                                                      *)
LEMMA BoolGets ==
    ASSUME NEW v \in BOOLEAN, NEW in, NEW F, F = <<IF v THEN 1 ELSE 0>>, WrAlike(in, F)
    PROVE  WrGets("bool", v, F, in)
<1>1. PICK q, p : q = WrParseFixed(in, 1) /\ p = WrParse("bool", in)
  OBVIOUS
<1>2. Len(F) = 1 /\ ((F[1] # 0) = v)
  OBVIOUS
<1>3. WrReads(q, in, F, F)
  BY <1>1, <1>2, FixedReads
<1>4. p = IF q.ok THEN WrParsed(q.out[1] # 0, q.rest) ELSE q
  BY <1>1 DEF WrParse
<1>5. ASSUME Len(F) <= Len(in) PROVE p = WrParsed(v, WrFrom(in, Len(F)))
  <2>1. q.ok = TRUE /\ q.out = F /\ q.rest = WrFrom(in, Len(F))
    BY <1>3, <1>5, ReadsIs
  <2>2. p = WrParsed(F[1] # 0, WrFrom(in, Len(F)))
    BY <1>4, <2>1
  <2> QED BY <1>2, <2>2
<1>6. Len(in) < Len(F) => ~p.ok
  BY <1>3, <1>4, ReadsIs
<1> QED BY <1>1, <1>5, <1>6, GetsIs

(* An array is read back.                                                    *)
LEMMA ArrayGets ==
    ASSUME NEW v, Len(v) = WrArray, NEW in, WrAlike(in, v)
    PROVE  WrGets("array", v, v, in)
<1>1. PICK p : p = WrParse("array", in)
  OBVIOUS
<1>2. p = WrParseFixed(in, Len(v))
  BY <1>1 DEF WrParse
<1>3. WrReads(p, in, v, v)
  BY <1>2, FixedReads
<1> QED BY <1>1, <1>3, ReadsIs DEF WrGets

(* A uint32 or a uint64 is read back.                                        *)
LEMMA NumberGets ==
    ASSUME NEW k \in Nat, NEW v \in Nat, v < WrBound(k), NEW kind \in {"u32", "u64"},
           NEW in, WrAlike(in, WrDigits(v, k)), WrParse(kind, in) = WrAs(WrParseFixed(in, k), WrNumber(WrParseFixed(in, k).out))
    PROVE  WrGets(kind, v, WrDigits(v, k), in)
<1>1. PICK F, q, p : F = WrDigits(v, k) /\ q = WrParseFixed(in, k) /\ p = WrParse(kind, in)
  OBVIOUS
<1>2. Len(F) = k /\ WrNumber(F) = v
  BY <1>1, DigitsTyped, NumberIs
<1>3. WrReads(q, in, F, F)
  BY <1>1, <1>2, FixedReads
<1>4. p = IF q.ok THEN WrParsed(WrNumber(q.out), q.rest) ELSE q
  BY <1>1 DEF WrAs
<1>5. Len(F) <= Len(in) => p = WrParsed(v, WrFrom(in, Len(F)))
  BY <1>2, <1>3, <1>4, ReadsIs
<1>6. Len(in) < Len(F) => ~p.ok
  BY <1>3, <1>4, ReadsIs
<1> QED BY <1>1, <1>5, <1>6, GetsIs

(* A string is read back.                                                    *)
LEMMA StringGets ==
    ASSUME NEW v, WrFits(v), NEW in, WrAlike(in, WrString(v))
    PROVE  WrGets("string", v, WrString(v), in)
<1>1. PICK p : p = WrParse("string", in)
  OBVIOUS
<1>2. p = WrParseString(in)
  BY <1>1 DEF WrParse
<1>3. WrReads(p, in, WrString(v), v)
  BY <1>2, StringReads
<1> QED BY <1>1, <1>3, ReadsIs DEF WrGets

(* A name list is read back.                                                 *)
LEMMA NamesGets ==
    ASSUME NEW v \in Seq(Seq(WrByte)), WrFits(WrJoin(v)), NEW in, WrAlike(in, WrString(WrJoin(v)))
    PROVE  WrGets("names", v, WrString(WrJoin(v)), in)
<1>1. PICK s, F, q, p : s = WrJoin(v) /\ F = WrString(s) /\ q = WrParseString(in) /\ p = WrParse("names", in)
  OBVIOUS
<1>2. WrReads(q, in, F, s)
  BY <1>1, StringReads
<1>3. p = IF ~q.ok THEN WrShort ELSE WrParsed(IF q.out = <<>> THEN <<>> ELSE WrSplit(q.out), q.rest)
  BY <1>1 DEF WrParse, WrParseNames
<1>4. PICK x : x = IF s = <<>> THEN <<>> ELSE WrSplit(s)
  OBVIOUS
<1>5. Len(F) <= Len(in) => p = WrParsed(x, WrFrom(in, Len(F)))
  BY <1>2, <1>3, <1>4, ReadsIs
<1>6. WrCleanNames(v) => x = v
  <2>1. CASE Len(v) = 0
    <3>1. v = <<>>
      BY <2>1, EmptySeq
    <3>2. PICK J : J[0] = <<>> /\ s = J[Len(v)]
      BY <1>1, JoinIs
    <3> QED BY <1>4, <2>1, <3>1, <3>2
  <2>2. CASE Len(v) # 0
    <3>1. Len(v) \in Nat
      OBVIOUS
    <3>2. Len(v) > 0
      BY <2>2, <3>1
    <3> QED BY <1>1, <1>4, <3>2, SplitJoin
  <2> QED BY <2>1, <2>2
<1>7. Len(in) < Len(F) => ~p.ok
  BY <1>2, <1>3, ReadsIs DEF WrShort
<1> QED BY <1>1, <1>5, <1>6, <1>7, GetsIs

(* The bytes of an integer, what they are read as, and their room.          *)
WrReadInt(s) ==
    IF s # <<>> /\ 2 * s[1] >= WrBase
    THEN -(WrNumber([i \in DOMAIN s |-> WrBase - 1 - s[i]]) + 1) ELSE WrNumber(s)

(* The bytes of marshalInt fill the room of intLength, and parseInt reads    *)
(* them back.                                                                *)
LEMMA IntBytesAre ==
    ASSUME NEW n \in Int
    PROVE  /\ WrIntBytes(n) \in Seq(WrByte) /\ WrIntLength(n) = WrWord + Len(WrIntBytes(n))
           /\ WrReadInt(WrIntBytes(n)) = n
<1>1. CASE n >= 0
  <2>1. n \in Nat
    BY <1>1
  <2>2. PICK j : NatBytes(n, j)
    BY <2>1, NatBytesExist
  <2>3. PICK d : d = WrDigits(n, j)
    OBVIOUS
  <2>4. j \in Nat /\ n < WrBound(j) /\ WrIntBytes(n) = d /\ WrIntLength(n) = WrWord + j /\ (j > 0 => 2 * d[1] < WrBase)
    BY <2>2, <2>3 DEF NatBytes
  <2>5. d \in Seq(WrByte) /\ Len(d) = j /\ WrNumber(d) = n
    BY <2>1, <2>3, <2>4, DigitsTyped, NumberIs
  <2>6. WrReadInt(d) = WrNumber(d)
    <3>1. ASSUME d # <<>>, 2 * d[1] >= WrBase PROVE FALSE
      <4>1. j > 0
        BY <2>4, <2>5, <3>1, EmptySeq
      <4>2. d[1] \in WrByte
        BY <2>5, <4>1
      <4>3. d[1] \in Nat /\ WrBase \in Nat
        BY <4>2, ByteIs
      <4> QED BY <2>4, <3>1, <4>1, <4>3
    <3> QED BY <3>1 DEF WrReadInt
  <2> QED BY <2>4, <2>5, <2>6
<1>2. CASE n < 0
  <2>1. PICK m : m = -n - 1
    OBVIOUS
  <2>2. m \in Nat /\ -(m + 1) = n
    BY <1>2, <2>1
  <2>3. PICK j : NegBytes(n, m, j)
    BY <1>2, <2>1, <2>2, NegBytesExist
  <2>4. PICK d, f : d = WrDigits(m, j) /\ f = WrFlip(d)
    OBVIOUS
  <2>5. /\ j \in Nat \ {0} /\ m < WrBound(j) /\ WrIntBytes(n) = f /\ WrIntLength(n) = WrWord + j
        /\ 2 * f[1] >= WrBase
    BY <2>3, <2>4 DEF NegBytes
  <2>6. d \in Seq(WrByte) /\ Len(d) = j /\ WrNumber(d) = m
    BY <2>2, <2>4, <2>5, DigitsTyped, NumberIs
  <2>7. f \in Seq(WrByte) /\ Len(f) = j /\ WrFlip(f) = d
    BY <2>4, <2>6, FlipIs
  <2>8. f # <<>> /\ DOMAIN f = 1..Len(f)
    BY <2>5, <2>7
  <2>9. WrReadInt(f) = -(WrNumber(WrFlip(f)) + 1)
    BY <2>5, <2>8 DEF WrReadInt, WrFlip
  <2> QED BY <2>2, <2>5, <2>6, <2>7, <2>9
<1> QED BY <1>1, <1>2

(* No byte of the room for an integer is missing or left over.               *)
LEMMA MarshalIntIs ==
    ASSUME NEW n \in Int, Len(WrIntBytes(n)) < WrBound(WrWord)
    PROVE  /\ WrFits(WrIntBytes(n)) /\ WrMarshalInt(n) = WrString(WrIntBytes(n))
           /\ Len(WrString(WrIntBytes(n))) = WrIntLength(n)
<1>1. PICK b, s : b = WrIntBytes(n) /\ s = WrString(b)
  OBVIOUS
<1>2. WrFits(b) /\ WrIntLength(n) = WrWord + Len(b)
  BY <1>1, IntBytesAre DEF WrFits
<1>3. s \in Seq(WrByte) /\ Len(s) = WrIntLength(n) /\ Len(s) \in Nat
  BY <1>1, <1>2, StringIs
<1>4. PICK z : z = [i \in 1..(WrIntLength(n) - Len(s)) |-> 0]
  OBVIOUS
<1>5. z = <<>>
  <2>1. WrIntLength(n) - Len(s) = 0
    BY <1>3
  <2>2. z = [i \in 1..0 |-> 0]
    BY <1>4, <2>1
  <2>3. z \in Seq(Nat) /\ Len(z) = 0
    BY <2>2
  <2> QED BY <2>3, EmptySeq
<1>6. WrMarshalInt(n) = s \o z
  <2>1. ~(Len(s) > WrIntLength(n))
    BY <1>3
  <2> QED BY <1>1, <1>4, <2>1 DEF WrMarshalInt
<1>7. s \o z = s
  BY <1>3, <1>5, ConcatEmptySeq
<1> QED BY <1>1, <1>2, <1>3, <1>6, <1>7

(* An integer is read back.                                                  *)
LEMMA IntGets ==
    ASSUME NEW v \in Int, Len(WrIntBytes(v)) < WrBound(WrWord), NEW in, WrAlike(in, WrMarshalInt(v))
    PROVE  WrGets("mpint", v, WrMarshalInt(v), in)
<1>1. PICK s, F, q, p : s = WrIntBytes(v) /\ F = WrMarshalInt(v) /\ q = WrParseString(in) /\ p = WrParse("mpint", in)
  OBVIOUS
<1>2. WrFits(s) /\ F = WrString(s) /\ WrReadInt(s) = v
  BY <1>1, MarshalIntIs, IntBytesAre
<1>3. WrReads(q, in, F, s)
  BY <1>1, <1>2, StringReads
<1>4. p = IF ~q.ok THEN WrShort ELSE WrParsed(WrReadInt(q.out), q.rest)
  <2>1. p = WrParseInt(in)
    BY <1>1 DEF WrParse
  <2>2. CASE ~q.ok
    BY <1>1, <2>1, <2>2 DEF WrParseInt
  <2>3. CASE q.ok /\ q.out # <<>> /\ 2 * q.out[1] >= WrBase
    BY <1>1, <2>1, <2>3 DEF WrParseInt, WrReadInt
  <2>4. CASE q.ok /\ ~(q.out # <<>> /\ 2 * q.out[1] >= WrBase)
    BY <1>1, <2>1, <2>4 DEF WrParseInt, WrReadInt
  <2> QED BY <2>2, <2>3, <2>4
<1>5. Len(F) <= Len(in) => p = WrParsed(v, WrFrom(in, Len(F)))
  BY <1>2, <1>3, <1>4, ReadsIs
<1>6. Len(in) < Len(F) => ~p.ok
  BY <1>3, <1>4, ReadsIs DEF WrShort
<1> QED BY <1>1, <1>5, <1>6, GetsIs

(* The field of every kind is bytes.                                         *)
LEMMA FieldTyped ==
    ASSUME NEW kind \in WrKinds, NEW v \in WrValues[kind]
    PROVE  WrField(kind, v) \in Seq(WrByte)
<1>1. CASE kind = "bool"
  <2>1. v \in BOOLEAN
    BY <1>1, WrValuesAssumption
  <2>2. PICK b : b = IF v THEN 1 ELSE 0
    OBVIOUS
  <2>3. b \in WrByte
    BY <2>2, ByteIs
  <2>4. WrField(kind, v) = <<b>>
    BY <1>1, <2>2 DEF WrField
  <2> QED BY <2>3, <2>4, OneByte
<1>2. CASE kind = "u8"
  <2>1. v \in WrByte
    BY <1>2, WrValuesAssumption
  <2>2. WrField(kind, v) = <<v>>
    BY <1>2 DEF WrField
  <2> QED BY <2>1, <2>2, OneByte
<1>3. CASE kind = "u32"
  <2>1. v \in Nat /\ WrField(kind, v) = WrDigits(v, WrWord) /\ WrWord \in Nat
    BY <1>3, WrValuesAssumption, BaseIs DEF WrField, WrU32
  <2> QED BY <2>1, DigitsTyped
<1>4. CASE kind = "u64"
  <2>1. v \in Nat /\ WrField(kind, v) = WrDigits(v, 2 * WrWord)
    BY <1>4, WrValuesAssumption DEF WrField, WrU64
  <2>2. 2 * WrWord \in Nat
    BY BaseIs
  <2> QED BY <2>1, <2>2, DigitsTyped
<1>5. CASE kind \in {"array", "rest"}
  BY <1>5, WrValuesAssumption DEF WrField
<1>6. CASE kind = "string"
  <2>1. WrFits(v) /\ WrField(kind, v) = WrString(v)
    BY <1>6, WrValuesAssumption DEF WrField
  <2> QED BY <2>1, StringIs
<1>7. CASE kind = "names"
  <2>1. WrFits(WrJoin(v)) /\ WrField(kind, v) = WrString(WrJoin(v))
    BY <1>7, WrValuesAssumption DEF WrField
  <2> QED BY <2>1, StringIs
<1>8. CASE kind = "mpint"
  <2>1. v \in Int /\ Len(WrIntBytes(v)) < WrBound(WrWord) /\ WrField(kind, v) = WrMarshalInt(v)
    BY <1>8, WrValuesAssumption DEF WrField
  <2> QED BY <2>1, MarshalIntIs, StringIs
<1> QED BY <1>1, <1>2, <1>3, <1>4, <1>5, <1>6, <1>7, <1>8 DEF WrKinds

(* Every field but the data up to the end is read back.                      *)
LEMMA FieldGets ==
    ASSUME NEW kind \in WrKinds \ {"rest"}, NEW v \in WrValues[kind], NEW in, WrAlike(in, WrField(kind, v))
    PROVE  WrGets(kind, v, WrField(kind, v), in)
<1>1. CASE kind = "bool"
  <2>1. v \in BOOLEAN /\ WrField(kind, v) = <<IF v THEN 1 ELSE 0>>
    BY <1>1, WrValuesAssumption DEF WrField
  <2> QED BY <1>1, <2>1, BoolGets
<1>2. CASE kind = "u8"
  <2>1. v \in WrByte
    BY <1>2, WrValuesAssumption
  <2>2. WrField(kind, v) = <<v>>
    BY <1>2 DEF WrField
  <2>3. WrAlike(in, <<v>>)
    BY <2>2
  <2> QED BY <1>2, <2>1, <2>2, <2>3, ByteGets
<1>3. CASE kind = "u32"
  <2>1. v \in Nat /\ v < WrBound(WrWord) /\ WrField(kind, v) = WrDigits(v, WrWord) /\ WrWord \in Nat
    BY <1>3, WrValuesAssumption, BaseIs DEF WrField, WrU32
  <2>2. WrParse(kind, in) = WrAs(WrParseFixed(in, WrWord), WrNumber(WrParseFixed(in, WrWord).out))
    BY <1>3 DEF WrParse
  <2> QED BY <1>3, <2>1, <2>2, NumberGets
<1>4. CASE kind = "u64"
  <2>1. v \in Nat /\ v < WrBound(2 * WrWord) /\ WrField(kind, v) = WrDigits(v, 2 * WrWord)
    BY <1>4, WrValuesAssumption DEF WrField, WrU64
  <2>2. WrParse(kind, in) = WrAs(WrParseFixed(in, 2 * WrWord), WrNumber(WrParseFixed(in, 2 * WrWord).out))
    BY <1>4 DEF WrParse
  <2>3. PICK k : k = 2 * WrWord
    OBVIOUS
  <2>4. k \in Nat
    BY <2>3, BaseIs
  <2> QED BY <1>4, <2>1, <2>2, <2>3, <2>4, NumberGets
<1>5. CASE kind = "array"
  <2>1. Len(v) = WrArray /\ WrField(kind, v) = v
    BY <1>5, WrValuesAssumption DEF WrField
  <2> QED BY <1>5, <2>1, ArrayGets
<1>6. CASE kind = "string"
  <2>1. WrFits(v) /\ WrField(kind, v) = WrString(v)
    BY <1>6, WrValuesAssumption DEF WrField
  <2> QED BY <1>6, <2>1, StringGets
<1>7. CASE kind = "names"
  <2>1. v \in Seq(Seq(WrByte)) /\ WrFits(WrJoin(v)) /\ WrField(kind, v) = WrString(WrJoin(v))
    BY <1>7, WrValuesAssumption DEF WrField
  <2> QED BY <1>7, <2>1, NamesGets
<1>8. CASE kind = "mpint"
  <2>1. v \in Int /\ Len(WrIntBytes(v)) < WrBound(WrWord) /\ WrField(kind, v) = WrMarshalInt(v)
    BY <1>8, WrValuesAssumption DEF WrField
  <2> QED BY <1>8, <2>1, IntGets
<1> QED BY <1>1, <1>2, <1>3, <1>4, <1>5, <1>6, <1>7, <1>8 DEF WrKinds

------------------------------------------------------------------------------
(* Messages.                                                                *)

WrAny == UNION {WrValues[kind] : kind \in WrKinds}

(* A message with all its fields set.                                       *)
WrGood(t, vals) ==
    /\ t \in WrTypes /\ vals \in Seq(WrAny) /\ Len(vals) = Len(t.fields)
    /\ \A i \in 1..Len(t.fields) : vals[i] \in WrValues[t.fields[i]]

(* The first byte of a message, if its type has a number.                    *)
WrTag(t) == IF t.tags = <<>> THEN <<>> ELSE <<t.tags[1]>>
(* The pieces of a message.                                                  *)
WrParts(t, vals) == [i \in 1..Len(t.fields) |-> WrField(t.fields[i], vals[i])]
(* The recursive definition within WrMarshal.                                *)
WrMarshals(t, vals, f) ==
    f = [i \in 0..Len(t.fields) |->
           IF i = 0 THEN IF t.tags = <<>> THEN <<>> ELSE <<t.tags[1]>> ELSE f[i - 1] \o WrField(t.fields[i], vals[i])]

(* What is assumed of a type.                                                *)
LEMMA TypeIs ==
    ASSUME NEW t \in WrTypes
    PROVE  /\ t.tags \in Seq(WrByte) /\ t.fields \in Seq(WrKinds) /\ Len(t.fields) \in Nat
           /\ \A i \in 1..Len(t.fields) : t.fields[i] \in WrKinds
           /\ WrTag(t) \in Seq(WrByte) /\ Len(WrTag(t)) = (IF t.tags = <<>> THEN 0 ELSE 1)
           /\ t.tags # <<>> => t.tags[1] \in Nat /\ t.tags[1] > 0 /\ 1 \in DOMAIN t.tags /\ WrTag(t)[1] = t.tags[1]
<1>1. PICK g, f : g = t.tags /\ f = t.fields
  OBVIOUS
<1>2. g \in Seq(WrByte) /\ f \in Seq(WrKinds) /\ (g # <<>> => g[1] > 0)
  BY <1>1, WrTypesAssumption DEF WrTagged
<1>3. Len(f) \in Nat /\ \A i \in 1..Len(f) : f[i] \in WrKinds
  BY <1>2, ElementOfSeq
<1>4. g # <<>> => 1 \in DOMAIN g /\ g[1] \in WrByte
  <2>1. SUFFICES ASSUME g # <<>> PROVE 1 \in DOMAIN g /\ g[1] \in WrByte
    OBVIOUS
  <2>2. Len(g) \in Nat \ {0}
    BY <1>2, <2>1, EmptySeq
  <2>3. 1 \in 1..Len(g)
    BY <2>2
  <2> QED BY <1>2, <2>3
<1>5. g # <<>> => <<g[1]>> \in Seq(WrByte) /\ Len(<<g[1]>>) = 1 /\ <<g[1]>>[1] = g[1] /\ g[1] \in Nat
  BY <1>4, OneByte, ByteIs
<1>6. <<>> \in Seq(WrByte) /\ Len(<<>>) = 0
  BY EmptySeq
<1>7. WrTag(t) = IF g = <<>> THEN <<>> ELSE <<g[1]>>
  BY <1>1 DEF WrTag
<1> QED BY <1>1, <1>2, <1>3, <1>4, <1>5, <1>6, <1>7

(* WrMarshal is a chain of the fields after the type number.                 *)
LEMMA MarshalIs ==
    ASSUME NEW t, NEW vals, WrGood(t, vals)
    PROVE  /\ \A i \in 1..Len(t.fields) : WrParts(t, vals)[i] = WrField(t.fields[i], vals[i])
           /\ \E J : /\ WrChain(Len(t.fields), J, WrParts(t, vals)) /\ J[0] = WrTag(t)
                     /\ WrMarshal(t, vals) = J[Len(t.fields)]
<1>1. PICK n, G : n = Len(t.fields) /\ G = WrParts(t, vals)
  OBVIOUS
<1>2. n \in Nat /\ WrTag(t) \in Seq(WrByte) /\ t \in WrTypes
  BY <1>1, TypeIs DEF WrGood
<1>3. ASSUME NEW i \in 1..n PROVE WrField(t.fields[i], vals[i]) \in Seq(WrByte)
  <2>1. t.fields[i] \in WrKinds /\ vals[i] \in WrValues[t.fields[i]]
    BY <1>1, <1>2, TypeIs DEF WrGood
  <2> QED BY <2>1, FieldTyped
<1>4. G \in [1..n -> Seq(WrByte)] /\ \A i \in 1..n : G[i] = WrField(t.fields[i], vals[i])
  <2>1. G = [i \in 1..n |-> WrField(t.fields[i], vals[i])]
    BY <1>1 DEF WrParts
  <2> QED BY <1>3, <2>1
<1>5. PICK J : WrChain(n, J, G) /\ J[0] = WrTag(t)
  BY <1>2, <1>4, ChainExists
<1>6. WrMarshals(t, vals, J)
  <2>1. ASSUME NEW i \in 1..n PROVE WrJoined(J[i], J[i - 1], WrField(t.fields[i], vals[i]))
    BY <1>4, <1>5, ChainStep
  <2>2. \A i \in 0..n : i = 0 \/ i \in 1..n
    BY <1>2
  <2>3. \A i \in 0..n : J[i] = IF i = 0 THEN IF t.tags = <<>> THEN <<>> ELSE <<t.tags[1]>>
                               ELSE J[i - 1] \o WrField(t.fields[i], vals[i])
    BY <1>5, <2>1, <2>2 DEF WrJoined, WrTag
  <2>4. J = [i \in 0..n |-> J[i]]
    BY <1>5 DEF WrChain
  <2> QED BY <1>1, <2>3, <2>4 DEF WrMarshals
<1>7. PICK f : f = CHOOSE g : WrMarshals(t, vals, g)
  OBVIOUS
<1>8. WrMarshals(t, vals, f)
  BY <1>6, <1>7
<1>9. WrMarshal(t, vals) = f[n]
  BY <1>1, <1>7 DEF WrMarshal, WrMarshals
<1>10. \A i \in 0..n : f[i] = IF i = 0 THEN IF t.tags = <<>> THEN <<>> ELSE <<t.tags[1]>>
                              ELSE f[i - 1] \o WrField(t.fields[i], vals[i])
  <2>1. f = [i \in 0..n |-> IF i = 0 THEN IF t.tags = <<>> THEN <<>> ELSE <<t.tags[1]>>
                            ELSE f[i - 1] \o WrField(t.fields[i], vals[i])]
    BY <1>1, <1>8 DEF WrMarshals
  <2> QED BY <2>1, Zenon
<1>11. f[0] = J[0] /\ \A i \in 1..n : WrJoined(f[i], f[i - 1], G[i])
  <2>1. 0 \in 0..n /\ \A i \in 1..n : i \in 0..n /\ i # 0
    BY <1>2
  <2>2. f[0] = J[0]
    BY <1>5, <1>10, <2>1 DEF WrTag
  <2>3. ASSUME NEW i \in 1..n PROVE WrJoined(f[i], f[i - 1], G[i])
    BY <1>4, <1>10, <2>1 DEF WrJoined
  <2> QED BY <2>2, <2>3
<1> DEFINE S == {i \in Nat : i <= n => f[i] = J[i]}
<1>12. 0 \in S
  BY <1>11
<1>13. ASSUME NEW i \in S PROVE i + 1 \in S
  <2>1. SUFFICES ASSUME i + 1 <= n PROVE f[i + 1] = J[i + 1]
    OBVIOUS
  <2>2. i + 1 \in 1..n /\ (i + 1) - 1 = i /\ f[i] = J[i]
    BY <1>2, <2>1
  <2>3. WrJoined(f[i + 1], f[i], G[i + 1]) /\ WrJoined(J[i + 1], J[i], G[i + 1])
    BY <1>5, <1>11, <2>2, ChainStep
  <2> QED BY <2>2, <2>3 DEF WrJoined
<1>14. S = Nat
  <2> HIDE DEF S
  <2>1. S \subseteq Nat
    BY DEF S
  <2> QED BY <1>12, <1>13, <2>1, SetInduction
<1>15. n \in S
  <2> HIDE DEF S
  <2> QED BY <1>2, <1>14
<1>16. f[n] = J[n]
  BY <1>2, <1>15
<1> QED BY <1>1, <1>4, <1>5, <1>9, <1>16

(* The state in which the fields are read, at the start.                     *)
WrStart(in) == [ok |-> TRUE, in |-> in, vals |-> <<>>]
(* Reading the first n fields.                                               *)
WrReading(n, fields, in, f) ==
    /\ f = [i \in 0..n |-> f[i]] /\ f[0] = WrStart(in)
    /\ \A i \in 1..n : f[i] = WrReadField(f[i - 1], fields[i])

(* The steps of reading exist.                                               *)
LEMMA ReadingExists == ASSUME NEW fields, NEW in, NEW n \in Nat PROVE \E f : WrReading(n, fields, in, f)
<1> DEFINE S == {k \in Nat : \E f : WrReading(k, fields, in, f)}
<1>1. 0 \in S
  <2>1. PICK f : f = [i \in 0..0 |-> WrStart(in)]
    OBVIOUS
  <2>2. f = [i \in 0..0 |-> f[i]] /\ f[0] = WrStart(in) /\ ~(\E i \in 1..0 : TRUE)
    BY <2>1
  <2>3. WrReading(0, fields, in, f)
    BY <2>2 DEF WrReading
  <2> QED BY <2>3
<1>2. ASSUME NEW k \in S PROVE k + 1 \in S
  <2>1. PICK f : WrReading(k, fields, in, f)
    OBVIOUS
  <2>2. k \in Nat
    OBVIOUS
  <2>3. PICK x : x = WrReadField(f[k], fields[k + 1])
    OBVIOUS
  <2>4. PICK g : g = [i \in 0..(k + 1) |-> IF i = k + 1 THEN x ELSE f[i]]
    OBVIOUS
  <2>5. g = [i \in 0..(k + 1) |-> g[i]]
    BY <2>4
  <2>6. g[0] = WrStart(in)
    <3>1. g[0] = f[0]
      BY <2>2, <2>4
    <3> QED BY <2>1, <3>1 DEF WrReading
  <2>7. ASSUME NEW i \in 1..(k + 1) PROVE g[i] = WrReadField(g[i - 1], fields[i])
    <3>1. CASE i = k + 1
      <4>1. g[i] = x /\ g[i - 1] = f[k]
        BY <2>2, <2>4, <3>1
      <4> QED BY <2>3, <3>1, <4>1
    <3>2. CASE i \in 1..k
      <4>1. g[i] = f[i] /\ g[i - 1] = f[i - 1]
        BY <2>2, <2>4, <3>2
      <4>2. f[i] = WrReadField(f[i - 1], fields[i])
        BY <2>1, <3>2 DEF WrReading
      <4> QED BY <4>1, <4>2
    <3>3. i = k + 1 \/ i \in 1..k
      BY <2>2
    <3> QED BY <3>1, <3>2, <3>3
  <2>8. WrReading(k + 1, fields, in, g)
    BY <2>5, <2>6, <2>7 DEF WrReading
  <2> QED BY <2>2, <2>8
<1>3. S = Nat
  <2> HIDE DEF S
  <2>1. S \subseteq Nat
    BY DEF S
  <2> QED BY <1>1, <1>2, <2>1, SetInduction
<1> QED BY <1>3

(* The recursive definition within WrReadFields.                             *)
WrAllRead(fields, in, f) ==
    f = [i \in 0..Len(fields) |->
           IF i = 0 THEN [ok |-> TRUE, in |-> in, vals |-> <<>>] ELSE WrReadField(f[i - 1], fields[i])]

(* WrReadFields is its last step.                                            *)
LEMMA ReadFieldsIs ==
    ASSUME NEW fields, NEW in, Len(fields) \in Nat
    PROVE  \E R : WrReading(Len(fields), fields, in, R) /\ WrReadFields(fields, in) = R[Len(fields)]
<1>1. PICK n : n = Len(fields)
  OBVIOUS
<1>2. n \in Nat
  BY <1>1
<1>3. PICK w : WrReading(n, fields, in, w)
  BY <1>2, ReadingExists
<1>4. WrAllRead(fields, in, w)
  <2>1. w[0] = WrStart(in) /\ (\A i \in 1..n : w[i] = WrReadField(w[i - 1], fields[i])) /\ w = [i \in 0..n |-> w[i]]
    BY <1>3 DEF WrReading
  <2>2. \A i \in 0..n : i = 0 \/ i \in 1..n
    BY <1>2
  <2>3. \A i \in 0..n : w[i] = IF i = 0 THEN WrStart(in) ELSE WrReadField(w[i - 1], fields[i])
    BY <2>1, <2>2
  <2> QED BY <1>1, <2>1, <2>3 DEF WrAllRead, WrStart
<1>5. PICK f : f = CHOOSE g : WrAllRead(fields, in, g)
  OBVIOUS
<1>6. WrAllRead(fields, in, f)
  BY <1>4, <1>5
<1>7. WrReadFields(fields, in) = f[n]
  BY <1>1, <1>5 DEF WrReadFields, WrAllRead
<1>8. f = [i \in 0..n |-> IF i = 0 THEN WrStart(in) ELSE WrReadField(f[i - 1], fields[i])]
  BY <1>1, <1>6 DEF WrAllRead, WrStart
<1>9. \A i \in 0..n : f[i] = IF i = 0 THEN WrStart(in) ELSE WrReadField(f[i - 1], fields[i])
  BY <1>8, Zenon
<1>10. f[0] = WrStart(in) /\ (\A i \in 1..n : f[i] = WrReadField(f[i - 1], fields[i]))
  <2>1. 0 \in 0..n /\ \A i \in 1..n : i \in 0..n /\ i # 0
    BY <1>2
  <2> QED BY <1>9, <2>1
<1>11. f = [i \in 0..n |-> f[i]]
  BY <1>8, <1>9
<1>12. WrReading(n, fields, in, f)
  BY <1>10, <1>11 DEF WrReading
<1> QED BY <1>1, <1>7, <1>12

(* A packet that agrees with the message as far as both go is being read.   *)
WrScene(t, vals, J, pk, R) ==
    /\ WrGood(t, vals) /\ WrChain(Len(t.fields), J, WrParts(t, vals)) /\ J[0] = WrTag(t)
    /\ WrAlike(pk, J[Len(t.fields)]) /\ Len(J[0]) <= Len(pk)
    /\ WrReading(Len(t.fields), t.fields, WrFrom(pk, Len(J[0])), R)

(* Every name list of the message is clean.                                  *)
WrAllClean(t, vals) == \A i \in 1..Len(t.fields) : t.fields[i] = "names" => WrCleanNames(vals[i])

(* After i fields: they were all there and have been read, or an error has  *)
(* been met.                                                                *)
WrRecord(st) == st = [ok |-> st.ok, in |-> st.in, vals |-> st.vals]
(* The first i fields are read, or the packet ends within them.              *)
WrSoFar(t, vals, J, pk, R, i) ==
    /\ WrRecord(R[i])
    /\ Len(J[i]) <= Len(pk) => /\ R[i].ok = TRUE /\ R[i].in = WrFrom(pk, Len(J[i]))
                               /\ WrAllClean(t, vals) => R[i].vals = SubSeq(vals, 1, i)
    /\ Len(pk) < Len(J[i]) => R[i].ok = FALSE

(* A field that cannot be read is an error.                                  *)
LEMMA FailsIs ==
    ASSUME NEW st, NEW kind, WrRecord(st), ~st.ok \/ ~WrParse(kind, st.in).ok
    PROVE  WrRecord(WrReadField(st, kind)) /\ WrReadField(st, kind).ok = FALSE
<1>1. PICK a, b, c, r : a = st.ok /\ b = st.in /\ c = st.vals /\ r = WrReadField(st, kind)
  OBVIOUS
<1>2. st = [ok |-> a, in |-> b, vals |-> c]
  BY <1>1 DEF WrRecord
<1>3. r = [st EXCEPT !.ok = FALSE]
  BY <1>1 DEF WrReadField
<1>4. r = [ok |-> FALSE, in |-> b, vals |-> c]
  BY <1>2, <1>3
<1>5. r.ok = FALSE /\ r.in = b /\ r.vals = c
  BY <1>4
<1> QED BY <1>1, <1>4, <1>5 DEF WrRecord

(* r is what is left and what is known after a field.                        *)
WrWorked(st, kind, r) ==
    /\ WrRecord(r) /\ r.ok = TRUE /\ r.in = WrParse(kind, st.in).rest
    /\ r.vals = Append(st.vals, WrParse(kind, st.in).out)

(* A field that can be read.                                                 *)
LEMMA WorksIs ==
    ASSUME NEW st, NEW kind, st.ok = TRUE, WrParse(kind, st.in).ok
    PROVE  WrWorked(st, kind, WrReadField(st, kind))
<1>1. PICK a, b, r : a = WrParse(kind, st.in).rest /\ b = Append(st.vals, WrParse(kind, st.in).out) /\ r = WrReadField(st, kind)
  OBVIOUS
<1>2. r = [ok |-> TRUE, in |-> a, vals |-> b]
  BY <1>1 DEF WrReadField
<1>3. r.ok = TRUE /\ r.in = a /\ r.vals = b
  BY <1>2
<1> QED BY <1>1, <1>2, <1>3 DEF WrRecord, WrWorked

(* A prefix and its next element.                                            *)
LEMMA AppendNext ==
    ASSUME NEW S, NEW s \in Seq(S), NEW i \in 1..Len(s)
    PROVE  Append(SubSeq(s, 1, i - 1), s[i]) = SubSeq(s, 1, i)
OBVIOUS

(* Reading begins after the type number.                                     *)
LEMMA ReadBegins ==
    ASSUME NEW t, NEW vals, NEW J, NEW pk, NEW R, WrScene(t, vals, J, pk, R)
    PROVE  WrSoFar(t, vals, J, pk, R, 0)
<1>1. PICK in : in = WrFrom(pk, Len(J[0]))
  OBVIOUS
<1>2. R[0] = [ok |-> TRUE, in |-> in, vals |-> <<>>] /\ Len(J[0]) <= Len(pk)
  BY <1>1 DEF WrScene, WrReading, WrStart
<1>3. R[0].ok = TRUE /\ R[0].in = in /\ R[0].vals = <<>>
  BY <1>2
<1>4. SubSeq(vals, 1, 0) = <<>>
  BY SubSeqEmpty
<1>5. ~(Len(pk) < Len(J[0]))
  <2>1. Len(pk) \in Nat
    BY DEF WrScene, WrAlike
  <2>2. Len(J[0]) \in Nat
    <3>1. Len(t.fields) \in Nat /\ 0 \in 0..Len(t.fields)
      BY TypeIs DEF WrScene, WrGood
    <3>2. WrChain(Len(t.fields), J, WrParts(t, vals))
      BY DEF WrScene
    <3> QED BY <3>1, <3>2, ChainGrows
  <2> QED BY <1>2, <2>1, <2>2
<1>6. WrRecord(R[0])
  BY <1>2, <1>3 DEF WrRecord
<1> QED BY <1>1, <1>3, <1>4, <1>5, <1>6 DEF WrSoFar

(* Reading goes on with the next field.                                      *)
LEMMA WireReadStep ==
    ASSUME NEW t, NEW vals, NEW J, NEW pk, NEW R, WrScene(t, vals, J, pk, R), NEW i \in 1..Len(t.fields),
           t.fields[i] # "rest", WrSoFar(t, vals, J, pk, R, i - 1)
    PROVE  WrSoFar(t, vals, J, pk, R, i)
<1>1. PICK n, G, st, kind, v, F :
        /\ n = Len(t.fields) /\ G = WrParts(t, vals) /\ st = R[i - 1] /\ kind = t.fields[i] /\ v = vals[i] /\ F = G[i]
  OBVIOUS
<1>2. /\ n \in Nat /\ i \in 1..n /\ i \in 0..n /\ i - 1 \in 0..n /\ kind \in WrKinds \ {"rest"} /\ v \in WrValues[kind]
      /\ vals \in Seq(WrAny) /\ Len(vals) = n
  BY <1>1, TypeIs DEF WrScene, WrGood
<1>3. WrChain(n, J, G) /\ WrAlike(pk, J[n]) /\ F = WrField(kind, v) /\ pk \in Seq(WrByte) /\ Len(pk) \in Nat
  BY <1>1, <1>2, MarshalIs DEF WrScene, WrAlike
<1>4. R[i] = WrReadField(st, kind)
  BY <1>1, <1>2 DEF WrScene, WrReading
<1>5. PICK a, b, c, L : a = Len(J[i - 1]) /\ b = Len(J[i]) /\ c = Len(F) /\ L = Len(pk)
  OBVIOUS
<1>6. a \in Nat /\ b \in Nat /\ c \in Nat /\ L \in Nat /\ b = a + c
  <2>1. Len(J[i - 1]) \in Nat /\ Len(J[i]) \in Nat
    BY <1>2, <1>3, ChainGrows
  <2>2. Len(G[i]) \in Nat /\ WrLonger(J[i], J[i - 1], G[i])
    BY <1>2, <1>3, ChainGrows
  <2> QED BY <1>1, <1>3, <1>5, <2>1, <2>2 DEF WrLonger
<1>7. WrRecord(st)
  BY <1>1 DEF WrSoFar
<1>8. CASE L < a
  <2>1. ~st.ok /\ L < b /\ ~(b <= L)
    <3>1. st.ok = FALSE
      BY <1>1, <1>5, <1>8 DEF WrSoFar
    <3>2. L < b /\ ~(b <= L)
      BY <1>6, <1>8
    <3> QED BY <3>1, <3>2
  <2>2. WrRecord(R[i]) /\ R[i].ok = FALSE
    BY <1>4, <1>7, <2>1, FailsIs
  <2> QED BY <1>5, <2>1, <2>2 DEF WrSoFar
<1>9. CASE a <= L
  <2>1. PICK in : in = WrFrom(pk, a)
    OBVIOUS
  <2>2. st.ok = TRUE /\ st.in = in /\ (WrAllClean(t, vals) => st.vals = SubSeq(vals, 1, i - 1))
    BY <1>1, <1>5, <1>9, <2>1 DEF WrSoFar
  <2>3. WrAlike(in, F)
    BY <1>1, <1>2, <1>3, <1>5, <1>9, <2>1, ChainAlike
  <2>4. WrGets(kind, v, F, in)
    BY <1>2, <1>3, <2>3, FieldGets
  <2>5. Len(in) = L - a
    BY <1>3, <1>5, <1>6, <1>9, <2>1, FromIs
  <2>6. CASE b <= L
    <3>1. c <= Len(in) /\ ~(L < b)
      BY <1>6, <2>5, <2>6
    <3>2. /\ WrParse(kind, in).ok /\ WrParse(kind, in).rest = WrFrom(in, c)
          /\ (kind = "names" => WrCleanNames(v)) => WrParse(kind, in).out = v
      BY <1>5, <2>4, <3>1 DEF WrGets
    <3>3. WrFrom(in, c) = WrFrom(pk, b)
      <4>1. a + c <= Len(pk)
        BY <1>5, <1>6, <2>6
      <4>2. WrFrom(WrFrom(pk, a), c) = WrFrom(pk, a + c)
        BY <1>3, <1>6, <4>1, FromFrom
      <4> QED BY <1>6, <2>1, <4>2
    <3>4. /\ WrRecord(R[i]) /\ R[i].ok = TRUE /\ R[i].in = WrFrom(pk, b)
          /\ R[i].vals = Append(st.vals, WrParse(kind, in).out)
      <4>1. WrWorked(st, kind, R[i])
        BY <1>4, <2>2, <3>2, WorksIs
      <4> QED BY <2>2, <3>2, <3>3, <4>1 DEF WrWorked
    <3>5. ASSUME WrAllClean(t, vals) PROVE R[i].vals = SubSeq(vals, 1, i)
      <4>1. WrParse(kind, in).out = v
        BY <1>1, <1>2, <3>2, <3>5 DEF WrAllClean
      <4>2. R[i].vals = Append(SubSeq(vals, 1, i - 1), vals[i])
        BY <1>1, <2>2, <3>4, <3>5, <4>1
      <4>3. i \in 1..Len(vals)
        BY <1>2
      <4> QED BY <1>2, <4>2, <4>3, AppendNext
    <3> QED BY <1>5, <3>1, <3>4, <3>5 DEF WrSoFar
  <2>7. CASE L < b
    <3>1. Len(in) < c /\ ~(b <= L)
      BY <1>6, <2>5, <2>7
    <3>2. ~WrParse(kind, in).ok
      BY <1>5, <2>4, <3>1 DEF WrGets
    <3>3. WrRecord(R[i]) /\ R[i].ok = FALSE
      BY <1>4, <1>7, <2>2, <3>2, FailsIs
    <3> QED BY <1>5, <3>1, <3>3 DEF WrSoFar
  <2> QED BY <1>6, <2>6, <2>7
<1> QED BY <1>6, <1>8, <1>9

(* Reading of all the fields before the data up to the end.                  *)
LEMMA ReadUpTo ==
    ASSUME NEW t, NEW vals, NEW J, NEW pk, NEW R, WrScene(t, vals, J, pk, R), NEW k \in 0..Len(t.fields),
           \A i \in 1..k : t.fields[i] # "rest"
    PROVE  WrSoFar(t, vals, J, pk, R, k)
<1> DEFINE S == {i \in Nat : i <= k => WrSoFar(t, vals, J, pk, R, i)}
<1>1. 0 \in S
  BY ReadBegins
<1>2. Len(t.fields) \in Nat
  BY TypeIs DEF WrScene, WrGood
<1>3. ASSUME NEW i \in S PROVE i + 1 \in S
  <2>1. SUFFICES ASSUME i + 1 <= k PROVE WrSoFar(t, vals, J, pk, R, i + 1)
    OBVIOUS
  <2>2. i \in Nat /\ i + 1 \in 1..k /\ i + 1 \in 1..Len(t.fields) /\ (i + 1) - 1 = i /\ i <= k
    BY <1>2, <2>1
  <2>3. WrSoFar(t, vals, J, pk, R, (i + 1) - 1)
    BY <2>2
  <2> QED BY <2>2, <2>3, WireReadStep
<1>4. S = Nat
  <2> HIDE DEF S
  <2>1. S \subseteq Nat
    BY DEF S
  <2> QED BY <1>1, <1>3, <2>1, SetInduction
<1>5. k \in S /\ k <= k
  <2> HIDE DEF S
  <2> QED BY <1>2, <1>4
<1> QED BY <1>5

(* Agreeing is symmetric.                                                    *)
LEMMA AlikeBoth ==
    ASSUME NEW x \in Seq(WrByte), NEW y \in Seq(WrByte), WrAlike(y, x)
    PROVE  WrAlike(x, y)
<1>1. Len(x) \in Nat /\ Len(y) \in Nat
  OBVIOUS
<1>2. ASSUME NEW i \in 1..Len(y), i <= Len(x) PROVE x[i] = y[i]
  <2>1. i \in 1..Len(x) /\ i <= Len(y)
    BY <1>1, <1>2
  <2> QED BY <2>1 DEF WrAlike
<1> QED BY <1>2 DEF WrAlike

(* A packet that agrees with a chain agrees with its start.                  *)
LEMMA ChainStarts ==
    ASSUME NEW n, NEW J, NEW G, NEW in, WrChain(n, J, G), WrAlike(in, J[n])
    PROVE  WrAlike(in, J[0])
<1>1. n \in Nat
  BY DEF WrChain
<1>2. ASSUME NEW i \in 1..n, WrAlike(in, J[i]) PROVE WrAlike(in, J[i - 1])
  <2>1. PICK x, y : x = J[i - 1] /\ y = G[i]
    OBVIOUS
  <2>2. x \in Seq(WrByte) /\ y \in Seq(WrByte) /\ WrJoined(J[i], x, y)
    BY <2>1, ChainStep
  <2>3. WrAlike(in, x \o y)
    BY <1>2, <2>2 DEF WrJoined
  <2> QED BY <2>1, <2>2, <2>3, AlikeParts
<1> DEFINE S == {d \in Nat : d <= n => WrAlike(in, J[n - d])}
<1>3. 0 \in S
  BY <1>1
<1>4. ASSUME NEW d \in S PROVE d + 1 \in S
  <2>1. SUFFICES ASSUME d + 1 <= n PROVE WrAlike(in, J[n - (d + 1)])
    OBVIOUS
  <2>2. n - d \in 1..n /\ (n - d) - 1 = n - (d + 1) /\ d <= n
    BY <1>1, <2>1
  <2>3. WrAlike(in, J[n - d])
    BY <2>2
  <2> QED BY <1>2, <2>2, <2>3
<1>5. S = Nat
  <2> HIDE DEF S
  <2>1. S \subseteq Nat
    BY DEF S
  <2> QED BY <1>3, <1>4, <2>1, SetInduction
<1>6. n \in S /\ n <= n /\ n - n = 0
  <2> HIDE DEF S
  <2> QED BY <1>1, <1>5
<1> QED BY <1>6

(* A packet that agrees with the message has the number of its type, and is  *)
(* read field by field.                                                      *)
LEMMA SceneExists ==
    ASSUME NEW t, NEW vals, WrGood(t, vals), NEW pk, WrAlike(pk, WrMarshal(t, vals)), t.tags # <<>> => pk # <<>>
    PROVE  /\ t.tags # <<>> => pk[1] = t.tags[1]
           /\ \E J, R : /\ WrScene(t, vals, J, pk, R) /\ WrMarshal(t, vals) = J[Len(t.fields)]
                        /\ WrReadFields(t.fields, IF t.tags = <<>> THEN pk ELSE Tail(pk)) = R[Len(t.fields)]
<1>1. PICK n, G, M : n = Len(t.fields) /\ G = WrParts(t, vals) /\ M = WrMarshal(t, vals)
  OBVIOUS
<1>2. t \in WrTypes /\ n \in Nat /\ pk \in Seq(WrByte) /\ Len(pk) \in Nat /\ 0 \in 0..n
  BY <1>1, TypeIs DEF WrGood, WrAlike
<1>3. PICK J : WrChain(n, J, G) /\ J[0] = WrTag(t) /\ M = J[n]
  BY <1>1, MarshalIs
<1>4. PICK in : in = WrFrom(pk, Len(J[0]))
  OBVIOUS
<1>5. PICK R : WrReading(n, t.fields, in, R) /\ WrReadFields(t.fields, in) = R[n]
  BY <1>1, <1>2, ReadFieldsIs
<1>6. CASE t.tags = <<>>
  <2>1. Len(J[0]) = 0
    BY <1>2, <1>3, <1>6, TypeIs
  <2>2. in = pk /\ Len(J[0]) <= Len(pk)
    BY <1>2, <1>4, <2>1, FromAll
  <2>3. WrScene(t, vals, J, pk, R)
    BY <1>1, <1>3, <1>4, <1>5, <2>2 DEF WrScene
  <2> QED BY <1>1, <1>3, <1>5, <1>6, <2>2, <2>3
<1>7. CASE t.tags # <<>>
  <2>1. Len(J[0]) = 1 /\ J[0][1] = t.tags[1] /\ J[0] \in Seq(WrByte)
    BY <1>2, <1>3, <1>7, TypeIs
  <2>2. pk # <<>> /\ Len(pk) > 0 /\ 1 <= Len(pk)
    BY <1>2, <1>7, EmptySeq
  <2>3. in = Tail(pk)
    <3>1. Tail(pk) = SubSeq(pk, 2, Len(pk))
      BY <1>2, <2>2, TailIsSubSeq
    <3>2. in = SubSeq(pk, 1 + 1, Len(pk))
      BY <1>4, <2>1 DEF WrFrom
    <3> QED BY <3>1, <3>2
  <2>4. pk[1] = t.tags[1]
    <3>1. Len(J[0]) <= Len(J[n]) /\ Len(J[n]) \in Nat
      <4>1. n \in 0..n
        BY <1>2
      <4> QED BY <1>2, <1>3, <4>1, ChainGrows
    <3>2. J[n][1] = J[0][1]
      <4>1. WrAlike(J[0], J[n])
        <5>1. J[n] \in Seq(WrByte)
          BY <1>1, <1>3 DEF WrAlike
        <5>2. WrAlike(J[n], J[n])
          BY <5>1 DEF WrAlike
        <5>3. WrAlike(J[n], J[0])
          BY <1>3, <5>2, ChainStarts
        <5> QED BY <2>1, <5>1, <5>3, AlikeBoth
      <4>2. 1 \in 1..Len(J[n]) /\ 1 <= Len(J[0])
        BY <2>1, <3>1
      <4> QED BY <4>1, <4>2 DEF WrAlike
    <3>3. pk[1] = M[1]
      <4>1. 1 \in 1..Len(M) /\ 1 <= Len(pk) /\ WrAlike(pk, M)
        BY <1>1, <1>3, <2>1, <2>2, <3>1
      <4> QED BY <4>1 DEF WrAlike
    <3> QED BY <1>3, <2>1, <3>2, <3>3
  <2>5. WrScene(t, vals, J, pk, R)
    BY <1>1, <1>3, <1>4, <1>5, <2>1, <2>2 DEF WrScene
  <2> QED BY <1>1, <1>3, <1>5, <1>7, <2>3, <2>4, <2>5
<1> QED BY <1>6, <1>7

(* Only the last field is data up to the end.                                *)
LEMMA NoRestBefore ==
    ASSUME NEW t \in WrTypes, NEW i \in 1..Len(t.fields), i < Len(t.fields)
    PROVE  t.fields[i] # "rest"
<1>1. t.fields[i] = "rest" => i = Len(t.fields)
  BY WrTypesAssumption
<1>2. Len(t.fields) \in Nat
  BY TypeIs
<1> QED BY <1>1, <1>2

(* The whole message is read to its end.                                    *)
WrDone(st, vals) == st.ok = TRUE /\ st.in = <<>> /\ st.vals = vals

(* All of a message is read back and nothing is left.                        *)
LEMMA EndOfWhole ==
    ASSUME NEW t, NEW vals, NEW J, NEW pk, NEW R, WrScene(t, vals, J, pk, R), pk = J[Len(t.fields)], WrAllClean(t, vals)
    PROVE  WrDone(R[Len(t.fields)], vals)
<1>1. PICK n, G : n = Len(t.fields) /\ G = WrParts(t, vals)
  OBVIOUS
<1>2. /\ t \in WrTypes /\ n \in Nat /\ n \in 0..n /\ vals \in Seq(WrAny) /\ Len(vals) = n /\ WrChain(n, J, G)
      /\ pk \in Seq(WrByte) /\ Len(pk) \in Nat /\ Len(J[n]) <= Len(pk)
  <2>1. t \in WrTypes /\ n \in Nat /\ vals \in Seq(WrAny) /\ Len(vals) = n
    BY <1>1, TypeIs DEF WrScene, WrGood
  <2>2. WrChain(n, J, G) /\ pk \in Seq(WrByte) /\ Len(pk) \in Nat
    BY <1>1 DEF WrScene, WrAlike
  <2> QED BY <1>1, <2>1, <2>2
<1>3. SubSeq(vals, 1, n) = vals
  BY <1>2, SubSeqFull
<1>4. CASE n = 0 \/ t.fields[n] # "rest"
  <2>1. \A i \in 1..n : t.fields[i] # "rest"
    <3>1. \A i \in 1..n : i < n \/ i = n
      BY <1>2
    <3>2. n = 0 => ~\E i \in 1..n : TRUE
      OBVIOUS
    <3> QED BY <1>1, <1>2, <1>4, <3>1, <3>2, NoRestBefore
  <2>2. WrSoFar(t, vals, J, pk, R, n)
    BY <1>1, <1>2, <2>1, ReadUpTo
  <2>3. R[n].ok = TRUE /\ R[n].in = WrFrom(pk, Len(J[n])) /\ R[n].vals = SubSeq(vals, 1, n)
    BY <1>2, <2>2 DEF WrSoFar
  <2>4. WrFrom(pk, Len(J[n])) = <<>>
    BY <1>1, <1>2, FromAll
  <2> QED BY <1>1, <1>3, <2>3, <2>4 DEF WrDone
<1>5. CASE n # 0 /\ t.fields[n] = "rest"
  <2>1. PICK k, st : k = n - 1 /\ st = R[k]
    OBVIOUS
  <2>2. k \in Nat /\ k \in 0..n /\ n \in 1..n /\ n - 1 = k /\ \A i \in 1..k : i \in 1..n /\ i < n
    BY <1>2, <1>5, <2>1
  <2>3. WrSoFar(t, vals, J, pk, R, k)
    BY <1>1, <1>2, <2>2, NoRestBefore, ReadUpTo
  <2>4. Len(J[k]) \in Nat /\ Len(J[k]) <= Len(pk) /\ WrLonger(pk, J[k], G[n]) /\ Len(G[n]) \in Nat
    <3>1. Len(J[k]) \in Nat /\ Len(J[k]) <= Len(J[n])
      BY <1>2, <2>2, ChainGrows
    <3>2. WrLonger(J[n], J[n - 1], G[n]) /\ Len(G[n]) \in Nat
      BY <1>2, <2>2, ChainGrows
    <3> QED BY <1>1, <2>2, <3>1, <3>2
  <2>5. PICK in : in = WrFrom(pk, Len(J[k]))
    OBVIOUS
  <2>6. st.ok = TRUE /\ st.in = in /\ st.vals = SubSeq(vals, 1, n - 1)
    BY <2>1, <2>2, <2>3, <2>4, <2>5 DEF WrSoFar
  <2>7. R[n] = WrReadField(st, "rest")
    BY <1>1, <1>5, <2>1, <2>2 DEF WrScene, WrReading
  <2>8. WrParse("rest", in) = WrParsed(in, <<>>)
    BY DEF WrParse
  <2>9. WrParse("rest", in).ok = TRUE /\ WrParse("rest", in).out = in /\ WrParse("rest", in).rest = <<>>
    <3>1. PICK z, p : z = <<>> /\ p = WrParse("rest", in)
      OBVIOUS
    <3>2. p = WrParsed(in, z)
      BY <2>8, <3>1
    <3>3. p.ok = TRUE /\ p.out = in /\ p.rest = z
      BY <3>2 DEF WrParsed
    <3> QED BY <3>1, <3>3
  <2>10. R[n].ok = TRUE /\ R[n].in = <<>> /\ R[n].vals = Append(st.vals, in)
    <3>1. WrWorked(st, "rest", R[n])
      BY <2>6, <2>7, <2>9, WorksIs
    <3> QED BY <2>6, <2>9, <3>1 DEF WrWorked
  <2>11. in = vals[n]
    <3>1. WrAlike(in, G[n])
      <4>1. WrAlike(pk, J[n])
        BY <1>1 DEF WrScene
      <4> QED BY <1>2, <2>2, <2>4, <2>5, <4>1, ChainAlike
    <3>2. Len(in) = Len(pk) - Len(J[k])
      BY <1>2, <2>4, <2>5, FromIs
    <3>3. Len(in) = Len(G[n])
      <4>1. PICK x, y, z, w : x = Len(pk) /\ y = Len(J[k]) /\ z = Len(G[n]) /\ w = Len(in)
        OBVIOUS
      <4>2. x = y + z /\ w = x - y /\ y \in Nat /\ z \in Nat
        BY <2>4, <3>2, <4>1 DEF WrLonger
      <4>3. w = z
        BY <4>2
      <4> QED BY <4>1, <4>3
    <3>4. in \in Seq(WrByte) /\ G[n] \in Seq(WrByte)
      BY <3>1 DEF WrAlike
    <3>5. Len(in) \in Nat
      BY <3>4
    <3>6. \A i \in 1..Len(in) : in[i] = G[n][i]
      BY <3>1, <3>3, <3>5 DEF WrAlike
    <3>7. in = G[n]
      BY <3>3, <3>4, <3>6, SeqEqual
    <3>8. G[n] = WrField("rest", vals[n])
      BY <1>1, <1>5, <2>2, MarshalIs DEF WrScene
    <3> QED BY <3>7, <3>8 DEF WrField
  <2>12. Append(SubSeq(vals, 1, n - 1), vals[n]) = SubSeq(vals, 1, n)
    BY <1>2, <2>2, AppendNext
  <2> QED BY <1>1, <1>3, <2>6, <2>10, <2>11, <2>12 DEF WrDone
<1> QED BY <1>4, <1>5

(* One that is too short or too long is refused.                            *)
LEMMA EndOfOther ==
    ASSUME NEW t, NEW vals, NEW J, NEW pk, NEW R, WrScene(t, vals, J, pk, R), Len(pk) # Len(J[Len(t.fields)]),
           \A i \in 1..Len(t.fields) : t.fields[i] # "rest"
    PROVE  ~(R[Len(t.fields)].ok /\ R[Len(t.fields)].in = <<>>)
<1>1. PICK n, G, a : n = Len(t.fields) /\ G = WrParts(t, vals) /\ a = Len(J[n])
  OBVIOUS
<1>2. n \in Nat /\ n \in 0..n /\ WrChain(n, J, G) /\ pk \in Seq(WrByte) /\ Len(pk) \in Nat
  <2>1. n \in Nat
    BY <1>1, TypeIs DEF WrScene, WrGood
  <2> QED BY <1>1, <2>1 DEF WrScene, WrAlike
<1>3. a \in Nat /\ a # Len(pk)
  BY <1>1, <1>2, ChainGrows
<1>4. WrSoFar(t, vals, J, pk, R, n)
  BY <1>1, <1>2, ReadUpTo
<1>5. CASE Len(pk) < a
  BY <1>1, <1>4, <1>5 DEF WrSoFar
<1>6. CASE a < Len(pk)
  <2>1. a <= Len(pk)
    BY <1>2, <1>3, <1>6
  <2>2. R[n].in = WrFrom(pk, a)
    BY <1>1, <1>4, <2>1 DEF WrSoFar
  <2>3. Len(WrFrom(pk, a)) = Len(pk) - a
    BY <1>2, <1>3, <2>1, FromIs
  <2>4. WrFrom(pk, a) # <<>>
    <3>1. Len(pk) - a # 0
      BY <1>2, <1>3
    <3>2. Len(<<>>) = 0
      BY EmptySeq
    <3> QED BY <2>3, <3>1, <3>2
  <2> QED BY <1>1, <2>2, <2>4
<1> QED BY <1>2, <1>3, <1>5, <1>6

(* The result of a read.                                                     *)
WrAnswer(t, pk) == IF t.tags = <<>> THEN WrUnmarshal(t, pk) ELSE WrDecode(pk)

(* Unmarshal of a packet with the number of its type.                        *)
LEMMA UnmarshalIs ==
    ASSUME NEW t \in WrTypes, NEW pk, pk # <<>>, t.tags # <<>> => pk[1] = t.tags[1],
           NEW end, end = WrReadFields(t.fields, IF t.tags = <<>> THEN pk ELSE Tail(pk))
    PROVE  WrUnmarshal(t, pk) = IF end.ok /\ end.in = <<>> THEN [ok |-> TRUE, vals |-> end.vals] ELSE WrRefused
<1>1. WrTypeFits(t, pk)
  BY TypeIs DEF WrTypeFits
<1> QED BY <1>1 DEF WrUnmarshal

(* decode finds the type of the packet.                                      *)
LEMMA DecodeIs ==
    ASSUME NEW t \in WrTypes, NEW pk, t.tags # <<>>, pk[1] = t.tags[1]
    PROVE  WrDecode(pk) = IF t.bare THEN [ok |-> TRUE, vals |-> <<>>] ELSE WrUnmarshal(t, pk)
<1>1. \E u \in WrTypes : u.tags # <<>> /\ u.tags[1] = pk[1]
  OBVIOUS
<1>2. PICK c : c = CHOOSE u \in WrTypes : u.tags # <<>> /\ u.tags[1] = pk[1]
  OBVIOUS
<1>3. c \in WrTypes /\ c.tags # <<>> /\ c.tags[1] = pk[1]
  BY <1>1, <1>2
<1>4. c = t
  BY <1>3, WrTypesAssumption DEF WrTagged
<1> QED BY <1>1, <1>2, <1>4 DEF WrDecode

(* A message that arrived whole is what was sent.                           *)
LEMMA WholeIsRead ==
    ASSUME NEW t, NEW vals, WrGood(t, vals), NEW pk, pk = WrMarshal(t, vals), pk # <<>>, WrAllClean(t, vals)
    PROVE  WrAnswer(t, pk) = [ok |-> TRUE, vals |-> vals]
<1>1. t \in WrTypes /\ Len(t.fields) \in Nat
  BY TypeIs DEF WrGood
<1>2. WrAlike(pk, WrMarshal(t, vals))
  <2>1. PICK J : WrChain(Len(t.fields), J, WrParts(t, vals)) /\ WrMarshal(t, vals) = J[Len(t.fields)]
    BY MarshalIs
  <2>2. pk \in Seq(WrByte)
    <3>1. Len(t.fields) \in 0..Len(t.fields)
      BY <1>1
    <3> QED BY <2>1, <3>1, ChainGrows
  <2> QED BY <2>2 DEF WrAlike
<1>3. t.tags # <<>> => pk[1] = t.tags[1]
  BY <1>2, SceneExists
<1>4. PICK J, R : /\ WrScene(t, vals, J, pk, R) /\ WrMarshal(t, vals) = J[Len(t.fields)]
                  /\ WrReadFields(t.fields, IF t.tags = <<>> THEN pk ELSE Tail(pk)) = R[Len(t.fields)]
  BY <1>2, SceneExists
<1>5. PICK end : end = R[Len(t.fields)]
  OBVIOUS
<1>6. end.ok = TRUE /\ end.in = <<>> /\ end.vals = vals
  <2>1. pk = J[Len(t.fields)]
    BY <1>4
  <2>2. WrDone(R[Len(t.fields)], vals)
    BY <1>4, <2>1, EndOfWhole
  <2> QED BY <1>5, <2>2 DEF WrDone
<1>7. WrUnmarshal(t, pk) = [ok |-> TRUE, vals |-> vals]
  <2>1. WrUnmarshal(t, pk) = IF end.ok /\ end.in = <<>> THEN [ok |-> TRUE, vals |-> end.vals] ELSE WrRefused
    BY <1>1, <1>3, <1>4, <1>5, UnmarshalIs
  <2> QED BY <1>6, <2>1
<1>8. CASE t.tags = <<>>
  BY <1>7, <1>8 DEF WrAnswer
<1>9. CASE t.tags # <<>>
  <2>1. WrAnswer(t, pk) = IF t.bare THEN [ok |-> TRUE, vals |-> <<>>] ELSE WrUnmarshal(t, pk)
    BY <1>1, <1>3, <1>9, DecodeIs DEF WrAnswer
  <2>2. t.bare => vals = <<>>
    <3>1. SUFFICES ASSUME t.bare PROVE vals = <<>>
      OBVIOUS
    <3>2. t.fields = <<>>
      BY <1>1, <3>1, WrTypesAssumption
    <3>3. vals \in Seq(WrAny) /\ Len(vals) = 0
      BY <3>2, EmptySeq DEF WrGood
    <3> QED BY <3>3, EmptySeq
  <2> QED BY <1>7, <2>1, <2>2
<1> QED BY <1>8, <1>9

(* One that is not is refused.                                              *)
LEMMA OtherIsRefused ==
    ASSUME NEW t, NEW vals, WrGood(t, vals), NEW pk, WrAlike(pk, WrMarshal(t, vals)),
           t.tags # <<>> => pk # <<>>, Len(pk) # Len(WrMarshal(t, vals)),
           ~t.bare, \A i \in 1..Len(t.fields) : t.fields[i] # "rest"
    PROVE  ~WrAnswer(t, pk).ok
<1>1. t \in WrTypes
  BY DEF WrGood
<1>2. t.tags # <<>> => pk[1] = t.tags[1]
  BY SceneExists
<1>3. PICK J, R : /\ WrScene(t, vals, J, pk, R) /\ WrMarshal(t, vals) = J[Len(t.fields)]
                  /\ WrReadFields(t.fields, IF t.tags = <<>> THEN pk ELSE Tail(pk)) = R[Len(t.fields)]
  BY SceneExists
<1>4. PICK end : end = R[Len(t.fields)]
  OBVIOUS
<1>5. ~(end.ok /\ end.in = <<>>)
  BY <1>3, <1>4, EndOfOther
<1>6. WrUnmarshal(t, pk) = WrRefused
  <2>1. CASE pk = <<>>
    BY <2>1 DEF WrUnmarshal
  <2>2. CASE pk # <<>>
    <3>1. WrUnmarshal(t, pk) = IF end.ok /\ end.in = <<>> THEN [ok |-> TRUE, vals |-> end.vals] ELSE WrRefused
      BY <1>1, <1>2, <1>3, <1>4, <2>2, UnmarshalIs
    <3> QED BY <1>5, <3>1
  <2> QED BY <2>1, <2>2
<1>7. WrAnswer(t, pk) = WrRefused
  <2>1. CASE t.tags = <<>>
    BY <1>6, <2>1 DEF WrAnswer
  <2>2. CASE t.tags # <<>>
    BY <1>1, <1>2, <1>6, <2>2, DecodeIs DEF WrAnswer
  <2> QED BY <2>1, <2>2
<1> QED BY <1>7 DEF WrRefused

------------------------------------------------------------------------------
(* The specification.                                                       *)

(* A packet that is not what was sent: a part of it, or a byte more.        *)
WrSpoiled(M, pk) ==
    \/ \E n \in Nat : n < Len(M) /\ pk = WrUpTo(M, n)
    \/ \E b \in WrByte : pk = Append(M, b)

(* The inductive invariant: the fields have values of their kinds, and what  *)
(* arrives is the message, a part of it, or more than it.                    *)
WrIndInv ==
    /\ wrType \in WrTypes /\ wrVals \in Seq(WrAny) /\ Len(wrVals) <= Len(wrType.fields)
    /\ \A i \in 1..Len(wrVals) : wrVals[i] \in WrValues[wrType.fields[i]]
    /\ wrStage \in {"begin", "sent", "arrived", "read"}
    /\ wrStage # "begin" => Len(wrVals) = Len(wrType.fields)
    /\ wrStage \in {"begin", "sent"} => wrFate = "whole"
    /\ wrStage = "sent" => wrPacket = WrMarshal(wrType, wrVals)
    /\ wrStage = "arrived" => wrFate # "whole" /\ WrSpoiled(WrMarshal(wrType, wrVals), wrPacket)
    /\ WrFaithful

(* A packet cut short or grown agrees with the message and has another       *)
(* length.                                                                   *)
LEMMA SpoiledIs ==
    ASSUME NEW M \in Seq(WrByte), NEW pk, WrSpoiled(M, pk)
    PROVE  WrAlike(pk, M) /\ Len(pk) # Len(M)
<1>1. Len(M) \in Nat
  OBVIOUS
<1>2. ASSUME NEW n \in Nat, n < Len(M), pk = WrUpTo(M, n) PROVE WrAlike(pk, M) /\ Len(pk) # Len(M)
  <2>1. n <= Len(M) /\ \A i \in 1..n : M[i] \in WrByte
    BY <1>1, <1>2
  <2>2. /\ pk \in Seq(WrByte) /\ Len(pk) = (IF 1 <= n THEN n - 1 + 1 ELSE 0)
        /\ \A i \in 1..(n - 1 + 1) : pk[i] = M[1 + i - 1]
    <3>1. 1 \in Int /\ n \in Int /\ pk = SubSeq(M, 1, n)
      BY <1>2 DEF WrUpTo
    <3> QED BY <2>1, <3>1, SubSeqProperties
  <2>3. Len(pk) = n /\ n - 1 + 1 = n /\ \A i \in 1..n : 1 + i - 1 = i
    BY <2>2
  <2>4. \A i \in 1..n : pk[i] = M[i]
    BY <2>2, <2>3
  <2>5. \A i \in 1..Len(M) : i <= n => i \in 1..n
    BY <1>1
  <2> QED BY <1>1, <1>2, <2>2, <2>3, <2>4, <2>5 DEF WrAlike
<1>3. ASSUME NEW b \in WrByte, pk = Append(M, b) PROVE WrAlike(pk, M) /\ Len(pk) # Len(M)
  <2>1. pk \in Seq(WrByte) /\ Len(pk) = Len(M) + 1 /\ \A i \in 1..Len(M) : pk[i] = M[i]
    BY <1>1, <1>3
  <2> QED BY <1>1, <2>1 DEF WrAlike
<1> QED BY <1>2, <1>3 DEF WrSpoiled

(* A message is bytes.                                                       *)
LEMMA MarshalTyped == ASSUME NEW t, NEW vals, WrGood(t, vals) PROVE WrMarshal(t, vals) \in Seq(WrByte)
<1>1. PICK J : WrChain(Len(t.fields), J, WrParts(t, vals)) /\ WrMarshal(t, vals) = J[Len(t.fields)]
  BY MarshalIs
<1>2. Len(t.fields) \in 0..Len(t.fields)
  <2>1. Len(t.fields) \in Nat
    BY TypeIs DEF WrGood
  <2> QED BY <2>1
<1> QED BY <1>1, <1>2, ChainGrows

(* WrIndInv holds initially.                                                 *)
LEMMA WrInitInv == WrInit => WrIndInv
<1> SUFFICES ASSUME WrInit PROVE WrIndInv
  OBVIOUS
<1>1. wrType \in WrTypes /\ wrVals = <<>> /\ wrStage = "begin" /\ wrFate = "whole"
  BY DEF WrInit
<1>2. wrVals \in Seq(WrAny) /\ Len(wrVals) = 0
  BY <1>1, EmptySeq
<1>3. Len(wrVals) <= Len(wrType.fields) /\ \A i \in 1..Len(wrVals) : wrVals[i] \in WrValues[wrType.fields[i]]
  BY <1>1, <1>2, TypeIs
<1> QED BY <1>1, <1>2, <1>3 DEF WrIndInv, WrFaithful

(* Setting a field keeps WrIndInv.                                           *)
LEMMA WrSetInv ==
    ASSUME WrIndInv, Len(wrVals) < Len(wrType.fields), NEW v \in WrValues[wrType.fields[Len(wrVals) + 1]], WrSet(v)
    PROVE  WrIndInv'
<1>1. PICK n, s, w, t : n = Len(wrVals) /\ s = wrVals /\ w = wrVals' /\ t = wrType
  OBVIOUS
<1>2. s \in Seq(WrAny) /\ n \in Nat /\ n = Len(s) /\ t \in WrTypes /\ Len(t.fields) \in Nat /\ n < Len(t.fields)
  BY <1>1, TypeIs DEF WrIndInv
<1>3. v \in WrAny
  <2>1. n + 1 \in 1..Len(t.fields)
    BY <1>2
  <2>2. t.fields[n + 1] \in WrKinds
    BY <1>2, <2>1, TypeIs
  <2> QED BY <1>1, <2>2 DEF WrAny
<1>4. w = Append(s, v) /\ wrType' = t /\ wrStage = "begin" /\ wrStage' = "begin" /\ wrFate' = wrFate
  BY <1>1 DEF WrSet
<1>5. w \in Seq(WrAny) /\ Len(w) = n + 1 /\ w[n + 1] = v /\ \A i \in 1..n : w[i] = s[i]
  BY <1>2, <1>3, <1>4
<1>6. ASSUME NEW i \in 1..(n + 1) PROVE w[i] \in WrValues[t.fields[i]]
  <2>1. i = n + 1 \/ i \in 1..n
    BY <1>2
  <2>2. \A k \in 1..n : s[k] \in WrValues[t.fields[k]]
    BY <1>1 DEF WrIndInv
  <2> QED BY <1>1, <1>5, <2>1, <2>2
<1>7. wrFate = "whole" /\ n + 1 <= Len(t.fields)
  BY <1>2, <1>4 DEF WrIndInv
<1> QED BY <1>1, <1>2, <1>4, <1>5, <1>6, <1>7 DEF WrIndInv, WrFaithful

(* Sending, cutting and growing keep WrIndInv.                               *)
LEMMA WrOthersInv ==
    ASSUME WrIndInv, WrSend \/ (\E n \in 0..Len(wrPacket) : WrCut(n)) \/ (\E b \in WrByte : WrGrow(b)) \/ UNCHANGED wrVars
    PROVE  WrIndInv'
<1>1. CASE WrSend
  BY <1>1 DEF WrSend, WrIndInv, WrFaithful
<1>2. ASSUME NEW n \in 0..Len(wrPacket), WrCut(n) PROVE WrIndInv'
  <2>1. WrSpoiled(WrMarshal(wrType, wrVals), wrPacket')
    <3>1. n \in Nat /\ n < Len(wrPacket) /\ wrPacket' = WrUpTo(wrPacket, n) /\ wrPacket = WrMarshal(wrType, wrVals)
      BY <1>2 DEF WrCut, WrIndInv
    <3> QED BY <3>1 DEF WrSpoiled
  <2> QED BY <1>2, <2>1 DEF WrCut, WrIndInv, WrFaithful
<1>3. ASSUME NEW b \in WrByte, WrGrow(b) PROVE WrIndInv'
  <2>1. WrSpoiled(WrMarshal(wrType, wrVals), wrPacket')
    <3>1. wrPacket' = Append(wrPacket, b) /\ wrPacket = WrMarshal(wrType, wrVals)
      BY <1>3 DEF WrGrow, WrIndInv
    <3> QED BY <3>1 DEF WrSpoiled
  <2> QED BY <1>3, <2>1 DEF WrGrow, WrIndInv, WrFaithful
<1>4. CASE UNCHANGED wrVars
  BY <1>4 DEF wrVars, WrIndInv, WrFaithful, WrClean, WrHasRest
<1> QED BY <1>1, <1>2, <1>3, <1>4

(* Unmarshal and decode keep WrIndInv.                                       *)
LEMMA WrReadInv == ASSUME WrIndInv, WrRead PROVE WrIndInv'
<1>1. PICK t, vals, pk, M : t = wrType /\ vals = wrVals /\ pk = wrPacket /\ M = WrMarshal(t, vals)
  OBVIOUS
<1>2. wrType' = t /\ wrVals' = vals /\ wrFate' = wrFate /\ wrStage' = "read" /\ wrStage \in {"sent", "arrived"}
  BY <1>1 DEF WrRead
<1>3. WrGood(t, vals)
  BY <1>1, <1>2 DEF WrIndInv, WrGood
<1>4. wrResult' = WrAnswer(t, pk) /\ (t.tags # <<>> => pk # <<>>)
  BY <1>1 DEF WrRead, WrAnswer
<1>5. t.fields \in Seq(WrKinds) /\ DOMAIN t.fields = 1..Len(t.fields)
  <2>1. t.fields \in Seq(WrKinds)
    BY <1>3, TypeIs DEF WrGood
  <2> QED BY <2>1
<1>6. ASSUME wrFate' = "whole", WrClean' PROVE wrResult' = [ok |-> TRUE, vals |-> wrVals']
  <2>1. wrStage = "sent" /\ pk = M
    BY <1>1, <1>2, <1>6 DEF WrIndInv
  <2>2. pk # <<>> /\ WrAllClean(t, vals)
    BY <1>1, <1>2, <1>5, <1>6, <2>1 DEF WrClean, WrAllClean, WrCleanNames
  <2> QED BY <1>1, <1>2, <1>3, <1>4, <2>1, <2>2, WholeIsRead
<1>7. ASSUME wrFate' # "whole", wrResult'.ok PROVE WrHasRest' \/ wrType'.bare
  <2>1. SUFFICES ASSUME ~WrHasRest', ~t.bare PROVE FALSE
    BY <1>2
  <2>2. wrStage = "arrived" /\ WrSpoiled(M, pk)
    BY <1>1, <1>2, <1>7 DEF WrIndInv
  <2>3. \A i \in 1..Len(t.fields) : t.fields[i] # "rest"
    BY <1>2, <1>5, <2>1 DEF WrHasRest
  <2>4. WrAlike(pk, M) /\ Len(pk) # Len(M)
    BY <1>1, <1>3, <2>2, MarshalTyped, SpoiledIs
  <2> QED BY <1>1, <1>3, <1>4, <1>7, <2>1, <2>3, <2>4, OtherIsRefused
<1>8. ASSUME NEW i \in 1..Len(t.fields), t.fields[i] = "mpint"
      PROVE  Len(WrString(WrIntBytes(vals[i]))) = WrIntLength(vals[i])
  <2>1. vals[i] \in WrValues["mpint"]
    BY <1>3, <1>8 DEF WrGood
  <2>2. vals[i] \in Int /\ Len(WrIntBytes(vals[i])) < WrBound(WrWord)
    BY <2>1, WrValuesAssumption
  <2> QED BY <2>2, MarshalIntIs
<1>9. WrFaithful'
  BY <1>2, <1>5, <1>6, <1>7, <1>8 DEF WrFaithful
<1> QED BY <1>1, <1>2, <1>9 DEF WrIndInv

(* Marshal, Unmarshal and decode (messages.go): whatever is marshalled is   *)
(* read back as it was, and what is cut short or too long is refused.       *)
THEOREM WireIsFaithful == WrSpec => []WrFaithful
<1>1. WrInit => WrIndInv
  BY WrInitInv
<1>2. WrIndInv /\ [WrNext]_wrVars => WrIndInv'
  <2> SUFFICES ASSUME WrIndInv, [WrNext]_wrVars PROVE WrIndInv'
    OBVIOUS
  <2> QED BY WrSetInv, WrReadInv, WrOthersInv DEF WrNext
<1>3. WrIndInv => WrFaithful
  BY DEF WrIndInv
<1> QED BY <1>1, <1>2, <1>3, PTL DEF WrSpec
=============================================================================
