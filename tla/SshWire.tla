------------------------------- MODULE SshWire -------------------------------
(***************************************************************************)
(* Messages in the SSH wire format: Marshal, Unmarshal and decode of       *)
(* pkg/crypto/ssh/messages.go.                                             *)
(*                                                                         *)
(* Bytes are digits of base WrBase and a uint32 has WrWord of them (256    *)
(* and 4 in the code): small enough to check every value near the places   *)
(* where a multi-precision integer needs a byte more.  A message type is a *)
(* record of its type numbers, its fields' kinds, and whether decode reads *)
(* no more than the type (userAuthSuccessMsg).                             *)
(***************************************************************************)
EXTENDS Integers, FiniteSets, Sequences

CONSTANTS
    WrBits,    \* bits of a byte; 8
    WrWord,    \* bytes of a uint32; 4
    WrArray,   \* bytes of an array field (a cookie; 16)
    WrComma,   \* the byte ','
    WrTypes,   \* the message types
    WrValues   \* the values of a field, by kind

WrTwo[k \in Nat] == IF k = 0 THEN 1 ELSE 2 * WrTwo[k - 1]
WrBase == WrTwo[WrBits]
WrByte == 0..(WrBase - 1)
WrBound(k) == WrTwo[WrBits * k]     \* numbers below it have k bytes

ASSUME WrAssumption == WrBits \in Nat \ {0} /\ WrWord \in Nat \ {0} /\ WrArray \in Nat /\ WrComma \in WrByte

VARIABLES
    wrType,     \* the type of the message
    wrVals,     \* its fields
    wrPacket,   \* what was sent, then what arrived
    wrStage,    \* "begin", "sent", "arrived" or "read"
    wrFate,     \* what became of it: "whole", "cut", "grown"
    wrResult    \* what Unmarshal or decode made of it: a record, with ok FALSE for an error

wrVars == <<wrType, wrVals, wrPacket, wrStage, wrFate, wrResult>>

(* Numbers: the shortest sequence of digits, one of a given length, and     *)
(* back.                                                                   *)
WrSize(n) == CHOOSE k \in 0..n : n < WrBound(k) /\ (k > 0 => n >= WrBound(k - 1))
WrDigits(n, k) == [i \in 1..k |-> (n \div WrBound(k - i)) % WrBase]
WrNumber(s) == LET upTo[i \in 0..Len(s)] == IF i = 0 THEN 0 ELSE upTo[i - 1] * WrBase + s[i] IN upTo[Len(s)]
WrBitLen(n) == CHOOSE k \in 0..n : n < WrTwo[k] /\ (k > 0 => n >= WrTwo[k - 1])

WrU32(n) == WrDigits(n, WrWord)
WrU64(n) == WrDigits(n, 2 * WrWord)
WrString(s) == WrU32(Len(s)) \o s

(* intLength: what marshalStruct makes room for.                           *)
MutWrPads(bits) == bits % WrBits = 0 /\ bits > 0
WrPads(bits) == bits % WrBits = 0
WrBitsOf(n) == WrBitLen(IF n < 0 THEN -n - 1 ELSE n)
WrIntLength(n) ==
    IF n = 0 THEN WrWord
    ELSE WrWord + (IF WrPads(WrBitsOf(n)) THEN 1 ELSE 0) + (WrBitsOf(n) + WrBits - 1) \div WrBits

(* marshalInt: two's complement, padded so that the first bit is the sign.  *)
WrIntBytes(n) ==
    IF n < 0
    THEN LET bytes == [i \in 1..WrSize(-n - 1) |-> WrBase - 1 - WrDigits(-n - 1, WrSize(-n - 1))[i]] IN
         IF bytes = <<>> \/ 2 * bytes[1] < WrBase THEN <<WrBase - 1>> \o bytes ELSE bytes
    ELSE LET bytes == WrDigits(n, WrSize(n)) IN
         IF bytes # <<>> /\ 2 * bytes[1] >= WrBase THEN <<0>> \o bytes ELSE bytes

(* The buffer has intLength bytes: what marshalInt leaves of it stays zero, *)
(* and one byte too few is a panic.                                        *)
WrMarshalInt(n) ==
    LET s == WrString(WrIntBytes(n)) IN
    IF Len(s) > WrIntLength(n) THEN <<>> ELSE s \o [i \in 1..(WrIntLength(n) - Len(s)) |-> 0]

(* Names are joined with commas.                                           *)
WrJoin(names) ==
    LET upTo[j \in 0..Len(names)] ==
            IF j = 0 THEN <<>> ELSE upTo[j - 1] \o (IF j = 1 THEN <<>> ELSE <<WrComma>>) \o names[j]
    IN upTo[Len(names)]

WrField(kind, v) ==
    CASE kind = "bool"   -> <<IF v THEN 1 ELSE 0>>
      [] kind = "array"  -> v
      [] kind = "u8"     -> <<v>>
      [] kind = "u32"    -> WrU32(v)
      [] kind = "u64"    -> WrU64(v)
      [] kind = "string" -> WrString(v)
      [] kind = "rest"   -> v
      [] kind = "names"  -> WrString(WrJoin(v))
      [] kind = "mpint"  -> WrMarshalInt(v)

(* marshalStruct.                                                          *)
WrMarshal(t, vals) ==
    LET upTo[i \in 0..Len(t.fields)] ==
            IF i = 0 THEN IF t.tags = <<>> THEN <<>> ELSE <<t.tags[1]>>
            ELSE upTo[i - 1] \o WrField(t.fields[i], vals[i])
    IN upTo[Len(t.fields)]

(* The parsers return the value and the rest.                              *)
WrShort == [ok |-> FALSE, out |-> <<>>, rest |-> <<>>]
WrParsed(v, rest) == [ok |-> TRUE, out |-> v, rest |-> rest]
WrFrom(in, n) == SubSeq(in, n + 1, Len(in))
WrUpTo(in, n) == SubSeq(in, 1, n)

WrParseFixed(in, n) == IF Len(in) < n THEN WrShort ELSE WrParsed(WrUpTo(in, n), WrFrom(in, n))

WrParseString(in) ==
    IF Len(in) < WrWord THEN WrShort
    ELSE LET length == WrNumber(WrUpTo(in, WrWord)) IN WrParseFixed(WrFrom(in, WrWord), length)

WrSplitAt(parts, b) == IF b = WrComma THEN Append(parts, <<>>) ELSE [parts EXCEPT ![Len(parts)] = Append(@, b)]
WrSplit(s) ==
    LET upTo[i \in 0..Len(s)] == IF i = 0 THEN <<<<>>>> ELSE WrSplitAt(upTo[i - 1], s[i]) IN upTo[Len(s)]

WrParseNames(in) ==
    LET p == WrParseString(in) IN
    IF ~p.ok THEN WrShort ELSE WrParsed(IF p.out = <<>> THEN <<>> ELSE WrSplit(p.out), p.rest)

WrParseInt(in) ==
    LET p == WrParseString(in) IN
    IF ~p.ok THEN WrShort
    ELSE IF p.out # <<>> /\ 2 * p.out[1] >= WrBase
    THEN WrParsed(-(WrNumber([i \in DOMAIN p.out |-> WrBase - 1 - p.out[i]]) + 1), p.rest)
    ELSE WrParsed(WrNumber(p.out), p.rest)

WrAs(p, v) == IF p.ok THEN WrParsed(v, p.rest) ELSE p

WrParse(kind, in) ==
    CASE kind = "bool"   -> LET p == WrParseFixed(in, 1) IN IF p.ok THEN WrParsed(p.out[1] # 0, p.rest) ELSE p
      [] kind = "array"  -> WrParseFixed(in, WrArray)
      [] kind = "u8"     -> LET p == WrParseFixed(in, 1) IN IF p.ok THEN WrParsed(p.out[1], p.rest) ELSE p
      [] kind = "u32"    -> LET p == WrParseFixed(in, WrWord) IN WrAs(p, WrNumber(p.out))
      [] kind = "u64"    -> LET p == WrParseFixed(in, 2 * WrWord) IN WrAs(p, WrNumber(p.out))
      [] kind = "string" -> WrParseString(in)
      [] kind = "rest"   -> WrParsed(in, <<>>)
      [] kind = "names"  -> WrParseNames(in)
      [] kind = "mpint"  -> WrParseInt(in)

(* Unmarshal: an empty packet is refused, one of the type numbers must come *)
(* first, and nothing may be left after the last field.                    *)
WrRefused == [ok |-> FALSE, vals |-> <<>>]

WrTypeFits(t, in) == t.tags = <<>> \/ \E i \in DOMAIN t.tags : t.tags[i] > 0 /\ t.tags[i] = in[1]

WrReadField(st, kind) ==
    LET p == WrParse(kind, st.in) IN
    IF ~st.ok \/ ~p.ok THEN [st EXCEPT !.ok = FALSE]
    ELSE [ok |-> TRUE, in |-> p.rest, vals |-> Append(st.vals, p.out)]
WrReadFields(fields, in) ==
    LET upTo[i \in 0..Len(fields)] ==
            IF i = 0 THEN [ok |-> TRUE, in |-> in, vals |-> <<>>] ELSE WrReadField(upTo[i - 1], fields[i])
    IN upTo[Len(fields)]

WrUnmarshal(t, in) ==
    IF in = <<>> \/ ~WrTypeFits(t, in) THEN WrRefused
    ELSE LET end == WrReadFields(t.fields, IF t.tags = <<>> THEN in ELSE Tail(in))
         IN IF end.ok /\ end.in = <<>> THEN [ok |-> TRUE, vals |-> end.vals] ELSE WrRefused

(* decode: the first byte chooses the type; success of the authentication   *)
(* is not looked into any further.                                         *)
WrDecode(in) ==
    IF \E t \in WrTypes : t.tags # <<>> /\ t.tags[1] = in[1]
    THEN LET t == CHOOSE t \in WrTypes : t.tags # <<>> /\ t.tags[1] = in[1] IN
         IF t.bare THEN [ok |-> TRUE, vals |-> <<>>] ELSE WrUnmarshal(t, in)
    ELSE WrRefused

(* Types and values are the code's: the fields of a message are of the kinds *)
(* above, data up to the end is the last one, types are told apart by their  *)
(* first number, and what goes behind a length fits it.                      *)
WrKinds == {"bool", "array", "u8", "u32", "u64", "string", "rest", "names", "mpint"}
WrTagged(t) == t.tags # <<>>

ASSUME WrTypesAssumption ==
    /\ \A t \in WrTypes :
         /\ t.tags \in Seq(WrByte) /\ t.fields \in Seq(WrKinds) /\ t.bare \in BOOLEAN
         /\ WrTagged(t) => t.tags[1] > 0
         /\ t.bare => WrTagged(t) /\ t.fields = <<>>
         /\ \A i \in 1..Len(t.fields) : t.fields[i] = "rest" => i = Len(t.fields)
    /\ \A t, u \in WrTypes : WrTagged(t) /\ WrTagged(u) /\ t.tags[1] = u.tags[1] => t = u

WrFits(s) == s \in Seq(WrByte) /\ Len(s) < WrBound(WrWord)
ASSUME WrValuesAssumption ==
    /\ WrValues["bool"] \subseteq BOOLEAN /\ WrValues["u8"] \subseteq WrByte
    /\ \A n \in WrValues["u32"] : n \in Nat /\ n < WrBound(WrWord)
    /\ \A n \in WrValues["u64"] : n \in Nat /\ n < WrBound(2 * WrWord)
    /\ \A n \in WrValues["mpint"] : n \in Int /\ Len(WrIntBytes(n)) < WrBound(WrWord)
    /\ \A s \in WrValues["array"] : s \in Seq(WrByte) /\ Len(s) = WrArray
    /\ \A s \in WrValues["rest"] : s \in Seq(WrByte)
    /\ \A s \in WrValues["string"] : WrFits(s)
    /\ \A l \in WrValues["names"] : l \in Seq(Seq(WrByte)) /\ WrFits(WrJoin(l))

WrInit ==
    /\ wrType \in WrTypes /\ wrVals = <<>>
    /\ wrPacket = <<>> /\ wrStage = "begin" /\ wrFate = "whole" /\ wrResult = WrRefused

(* The caller sets the fields of the message.                              *)
WrSet(v) ==
    /\ wrStage = "begin"
    /\ wrVals' = Append(wrVals, v)
    /\ UNCHANGED <<wrType, wrPacket, wrStage, wrFate, wrResult>>

WrSend ==
    /\ wrStage = "begin" /\ Len(wrVals) = Len(wrType.fields)
    /\ wrPacket' = WrMarshal(wrType, wrVals) /\ wrStage' = "sent"
    /\ UNCHANGED <<wrType, wrVals, wrFate, wrResult>>

(* A peer that sends too little or too much.                               *)
WrCut(n) ==
    /\ wrStage = "sent" /\ n < Len(wrPacket)
    /\ wrPacket' = WrUpTo(wrPacket, n) /\ wrFate' = "cut" /\ wrStage' = "arrived"
    /\ UNCHANGED <<wrType, wrVals, wrResult>>

WrGrow(b) ==
    /\ wrStage = "sent"
    /\ wrPacket' = Append(wrPacket, b) /\ wrFate' = "grown" /\ wrStage' = "arrived"
    /\ UNCHANGED <<wrType, wrVals, wrResult>>

(* Tagged messages are read by decode, which their callers spare the empty  *)
(* packet, the payloads in them by Unmarshal.                              *)
WrRead ==
    /\ wrStage \in {"sent", "arrived"}
    /\ wrType.tags # <<>> => wrPacket # <<>>
    /\ wrResult' = IF wrType.tags = <<>> THEN WrUnmarshal(wrType, wrPacket) ELSE WrDecode(wrPacket)
    /\ wrStage' = "read"
    /\ UNCHANGED <<wrType, wrVals, wrPacket, wrFate>>

WrNext ==
    \/ Len(wrVals) < Len(wrType.fields) /\ \E v \in WrValues[wrType.fields[Len(wrVals) + 1]] : WrSet(v)
    \/ WrSend \/ WrRead \/ (\E n \in 0..Len(wrPacket) : WrCut(n)) \/ (\E b \in WrByte : WrGrow(b))

WrSpec == WrInit /\ [][WrNext]_wrVars

(* A list of names without an empty name or a comma; the empty payload is   *)
(* no payload.                                                             *)
WrClean ==
    /\ \A i \in DOMAIN wrType.fields : wrType.fields[i] = "names" =>
         \A j \in DOMAIN wrVals[i] :
             wrVals[i][j] # <<>> /\ \A k \in DOMAIN wrVals[i][j] : wrVals[i][j][k] # WrComma
    /\ WrMarshal(wrType, wrVals) # <<>>

WrHasRest == \E i \in DOMAIN wrType.fields : wrType.fields[i] = "rest"

(* What was marshalled is read back as it was; no message is accepted that  *)
(* was cut short or that goes on after its last field, except where the    *)
(* type says that the rest is data; and an integer takes exactly the room   *)
(* that intLength has made for it (messages.go, intLength and marshalInt    *)
(* count the sign's byte each in its own way).                             *)
WrFaithful ==
    wrStage = "read" =>
      /\ wrFate = "whole" /\ WrClean => wrResult = [ok |-> TRUE, vals |-> wrVals]
      /\ wrFate # "whole" /\ wrResult.ok => WrHasRest \/ wrType.bare
      /\ \A i \in DOMAIN wrType.fields : wrType.fields[i] = "mpint" =>
           Len(WrString(WrIntBytes(wrVals[i]))) = WrIntLength(wrVals[i])
=============================================================================
