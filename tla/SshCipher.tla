----------------------------- MODULE SshCipher ------------------------------
(***************************************************************************)
(* The framing of the packet ciphers of pkg/crypto/ssh/cipher.go: what     *)
(* length and padding each one writes for a payload, what it reads and     *)
(* refuses, and the sequence numbers of transport.go that both ends count. *)
(* A payload is its length; a packet on the wire is its fields and the     *)
(* sequence number and IV it was sealed with.                              *)
(***************************************************************************)
EXTENDS Naturals, Sequences

CONSTANTS
    CipherPayloads,  \* payload lengths to write
    CipherMaxPacket, \* maxPacket
    CipherSeqMod,    \* 2^32, sequence numbers are uint32
    CipherCount      \* bound: packets written

ASSUME CipherConstants ==
    /\ CipherPayloads \subseteq Nat \ {0}
    /\ \A n \in CipherPayloads : n + 32 <= CipherMaxPacket
    /\ CipherMaxPacket \in Nat /\ CipherSeqMod \in Nat \ {0} /\ CipherCount \in Nat

VARIABLES
    yMode,   \* the packet cipher both ends have
    yWire,   \* packets written and not read
    yPos,    \* what the reader takes for the position of the next packet
    yEnd,    \* the position after the packets written
    yWSeq, yRSeq,  \* seqNum of the writer and of the reader
    yWIv, yRIv,    \* packets sealed and opened with the GCM IV
    yDone,   \* payloads written
    yGot,    \* payloads read
    yErr

cipherVars == <<yMode, yWire, yPos, yEnd, yWSeq, yRSeq, yWIv, yRIv, yDone, yGot, yErr>>

CipherModes == {"stream", "etm", "gcm", "cbc8", "cbc16", "chacha"}

CipherInit ==
    /\ yMode \in CipherModes
    /\ yWire = <<>> /\ yPos = 0 /\ yEnd = 0
    /\ yWSeq \in {0, CipherSeqMod - 1} /\ yRSeq = yWSeq
    /\ yWIv = 0 /\ yRIv = 0
    /\ yDone = <<>> /\ yGot = <<>> /\ yErr = "no"

(* Mutant: any padding will do.                                             *)
MutUpTo4(pad, multiple) == pad

(* There are at least four bytes of padding.                                *)
UpTo4(pad, multiple) == IF pad < 4 THEN pad + multiple ELSE pad

(* streamPacketCipher.writeCipherPacket; with etm the length is not part of *)
(* what is padded to the block.                                             *)
StreamFrame(n, etm) ==
    LET aadlen == IF etm THEN 4 ELSE 0
        pad == UpTo4(16 - ((5 + n - aadlen) % 16), 16)
    IN  [len |-> n + 1 + pad, pad |-> pad, size |-> 5 + n + pad]

GcmFrame(n) ==
    LET pad == UpTo4(16 - ((1 + n) % 16), 16)
    IN  [len |-> n + pad + 1, pad |-> pad, size |-> 4 + n + pad + 1]

MaxUInt32(a, b) == IF a > b THEN a ELSE b
CbcFrame(n, block) ==
    LET unit == MaxUInt32(8, block)
        enc == ((MaxUInt32(5 + n + 4, 4) + unit - 1) \div unit) * unit
    IN  [len |-> enc - 4, pad |-> enc - 4 - (1 + n), size |-> enc]

Chacha20Frame(n) ==
    LET pad == UpTo4(8 - ((1 + n) % 8), 8)
    IN  [len |-> 1 + n + pad, pad |-> pad, size |-> 4 + 1 + n + pad]

Frame(n) ==
    CASE yMode = "stream" -> StreamFrame(n, FALSE)
      [] yMode = "etm" -> StreamFrame(n, TRUE)
      [] yMode = "gcm" -> GcmFrame(n)
      [] yMode = "cbc8" -> CbcFrame(n, 8)
      [] yMode = "cbc16" -> CbcFrame(n, 16)
      [] yMode = "chacha" -> Chacha20Frame(n)

(* What the readers refuse.                                                 *)
StreamAccepts(len, pad) == len > pad + 1 /\ len <= CipherMaxPacket
GcmAccepts(len, pad) == len <= CipherMaxPacket /\ len > 0 /\ pad >= 4 /\ pad + 1 < len
CbcAccepts(len, pad, block) ==
    /\ len <= CipherMaxPacket
    /\ len + 4 >= MaxUInt32(16, block)
    /\ (len + 4) % MaxUInt32(8, block) = 0
    /\ pad >= 4 /\ len > pad + 1
Chacha20Accepts(len, pad) == len <= CipherMaxPacket /\ len > 0 /\ pad >= 4 /\ pad + 1 < len

Accepts(f) ==
    CASE yMode \in {"stream", "etm"} -> StreamAccepts(f.len, f.pad)
      [] yMode = "gcm" -> GcmAccepts(f.len, f.pad)
      [] yMode = "cbc8" -> CbcAccepts(f.len, f.pad, 8)
      [] yMode = "cbc16" -> CbcAccepts(f.len, f.pad, 16)
      [] yMode = "chacha" -> Chacha20Accepts(f.len, f.pad)

(* The bytes a reader takes for a packet of this length, its tag left out;  *)
(* the CBC reader decrypts a first block to learn the length.               *)
CipherTaken(len) ==
    CASE yMode \in {"stream", "etm"} -> 5 + (len - 1)
      [] yMode \in {"cbc8", "cbc16", "gcm", "chacha"} -> 4 + len

(* connectionState.writePacket: the number goes into the tag or the nonce   *)
(* and counts up; GCM has its own counter.                                  *)
CipherWrite(n) ==
    /\ Len(yDone) < CipherCount
    /\ LET f == Frame(n) IN
       /\ yWire' = Append(yWire, [len |-> f.len, pad |-> f.pad, at |-> yEnd,
                                  seal |-> IF yMode = "gcm" THEN yWIv ELSE yWSeq])
       /\ yEnd' = yEnd + f.size
    /\ yWSeq' = (yWSeq + 1) % CipherSeqMod
    /\ yWIv' = IF yMode = "gcm" THEN yWIv + 1 ELSE yWIv
    /\ yDone' = Append(yDone, n)
    /\ UNCHANGED <<yMode, yPos, yRSeq, yRIv, yGot, yErr>>

(* connectionState.readPacket: the number counts up also after an error.    *)
CipherRead ==
    /\ yWire # <<>> /\ yErr = "no"
    /\ LET f == Head(yWire)
           opens == f.at = yPos /\ f.seal = (IF yMode = "gcm" THEN yRIv ELSE yRSeq) IN
       /\ yErr' = IF ~opens THEN "mac" ELSE IF Accepts(f) THEN "no" ELSE "length"
       /\ yGot' = IF yErr' = "no" THEN Append(yGot, f.len - f.pad - 1) ELSE yGot
       /\ yPos' = yPos + CipherTaken(f.len)
    /\ yWire' = Tail(yWire)
    /\ yRSeq' = (yRSeq + 1) % CipherSeqMod
    /\ yRIv' = IF yMode = "gcm" THEN yRIv + 1 ELSE yRIv
    /\ UNCHANGED <<yMode, yEnd, yWSeq, yWIv, yDone>>

CipherNext == (\E n \in CipherPayloads : CipherWrite(n)) \/ CipherRead
CipherSpec == CipherInit /\ [][CipherNext]_cipherVars

------------------------------------------------------------------------------
(* Whatever cipher was agreed on, payloads of every length come back as     *)
(* they were written, across the wrap of the sequence number: the reader    *)
(* never refuses a packet and never loses the place in the stream.          *)
CipherRoundTrip ==
    /\ yErr = "no"
    /\ yGot = SubSeq(yDone, 1, Len(yGot)) /\ Len(yGot) + Len(yWire) = Len(yDone)

(* Every packet has at least four bytes of padding, fits a byte's worth of  *)
(* it, and what is encrypted is a whole number of the cipher's blocks (RFC  *)
(* 4253, 6).                                                                *)
CipherAligned ==
    \A i \in 1..Len(yWire) :
        LET f == yWire[i] IN
        /\ f.pad \in 4..255
        /\ CASE yMode \in {"stream", "cbc16"} -> (f.len + 4) % 16 = 0
             [] yMode \in {"etm", "gcm"} -> f.len % 16 = 0
             [] yMode = "cbc8" -> (f.len + 4) % 8 = 0
             [] yMode = "chacha" -> f.len % 8 = 0

(* Every reader accepts and gets back what its writer framed.               *)
CipherSound == CipherRoundTrip /\ CipherAligned
=============================================================================
