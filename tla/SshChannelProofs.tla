-------------------------- MODULE SshChannelProofs --------------------------
(***************************************************************************)
(* A channel of the SSH connection protocol keeps its window and           *)
(* implements reliable streams, for windows, packets, buffers and amounts  *)
(* of data of any size.                                                    *)
(***************************************************************************)
EXTENDS SshChannel, InductionLemmas

------------------------------------------------------------------------------
(* The inductive invariant.                                                 *)

DataPackets == [t : {"data"}, s : ChanStreams, from : Nat, n : Nat]
EndPackets  == [t : {"eof", "close"}]
WirePackets == DataPackets \cup EndPackets
BackPackets == [t : {"adjust"}, n : Nat] \cup [t : {"close"}]

LenOver(f) == Len(f["out"]) + Len(f["err"])

(* The types, without the bounds that follow from the accounts below.       *)
ShapeInv ==
    /\ cWire \in Seq(WirePackets) /\ cBack \in Seq(BackPackets)
    /\ cWin \in Nat /\ cMyWin \in Nat
    /\ cWinShut \in {"no", "yes"} /\ cEOF \in {"no", "yes"} /\ cConn \in {"up", "down"}
    /\ cWriter \in [ChanStreams -> {"idle", "reserve", "send", "failed"}]
    /\ cLeft \in [ChanStreams -> Nat] /\ cSpace \in [ChanStreams -> Nat] /\ cSent \in [ChanStreams -> Nat]
    /\ cMark \in [ChanStreams -> 0..Unmarked]
    /\ cClosed \in [ChanSides -> {"no", "yes"}]
    /\ cBuf \in [ChanStreams -> Seq(Nat)] /\ cRead \in [ChanStreams -> Seq(Nat)]
    /\ cBufSt \in [ChanStreams -> {"none", "open", "closed"}] /\ cBufSt["out"] # "none"
    /\ cReader \in [ChanStreams -> {"idle", "read", "adjust", "eof"}]
    /\ cGot \in [ChanStreams -> Nat]
    /\ cLoop \in [ChanSides -> {"run", "done"}]

(* What WriteExtended holds where it is.                                    *)
WriterInv ==
    /\ SumOver(cSent) + SumOver(cLeft) <= ChanBytes
    /\ \A s \in ChanStreams :
         /\ cWriter[s] \in {"reserve", "send"} => cLeft[s] > 0
         /\ cWriter[s] = "send" => cSpace[s] > 0 /\ cSpace[s] <= cLeft[s] /\ cSpace[s] <= ChanPacket
         /\ cWriter[s] # "send" => cSpace[s] = 0

(* The reader's window and what it has buffered are the channel's window;   *)
(* the writer's account, with all that has left it and has not come back,   *)
(* is never more, and is exactly that until a side closes.                  *)
Claimed == cWin + SumOver(cSpace) + SumOver(cSent) + SumOver(cGot) + AdjustsOnWay
AccountInv ==
    /\ cMyWin + LenOver(cBuf) = ChanWindow
    /\ Claimed <= ChanWindow + LenOver(cRead)
    /\ (cConn = "up" /\ \A p \in ChanSides : cClosed[p] = "no") => Claimed = ChanWindow + LenOver(cRead)
    /\ \A s \in ChanStreams : cReader[s] # "adjust" => cGot[s] = 0

(* What follows once a side or the transport is gone.                       *)
WireLive == cConn = "up" /\ cLoop["reader"] # "done"
ShutInv ==
    /\ cWinShut = "yes" => cClosed["writer"] = "yes"
    /\ \A p \in ChanSides : cLoop[p] = "done" => cClosed[p] = "yes"
    /\ cConn = "down" \/ cLoop["writer"] = "done" => cBack = <<>>
    /\ ~WireLive => cWire = <<>>

(* The way of a stream through the packets on the wire: pos[i] is the place *)
(* in the stream before the packet i.  An EOF or a close comes after all    *)
(* that its side had declared complete.                                     *)
Carried(m, s) == IF m.t = "data" /\ m.s = s THEN m.n ELSE 0
IsRoute(q, s, mark, pos) ==
    \A i \in 1..Len(q) :
        /\ pos[i + 1] = pos[i] + Carried(q[i], s)
        /\ q[i].t = "data" /\ q[i].s = s => q[i].from = pos[i]
        /\ q[i].t # "data" => mark # Unmarked /\ mark <= pos[i]
Received(s) == Len(cRead[s]) + Len(cBuf[s])
Routed(q, s, sent, mark, start, live) ==
    \E pos \in [1..(Len(q) + 1) -> 0..sent] :
        /\ pos[1] = start
        /\ live => pos[Len(q) + 1] = sent
        /\ IsRoute(q, s, mark, pos)
RouteInv(s) == Routed(cWire, s, cSent[s], cMark[s], Received(s), WireLive)

(* The buffer continues what was read; the marks are where they say; and a  *)
(* buffer is only closed once everything before the mark has arrived, or    *)
(* the connection is lost.                                                  *)
Counts(q, k) == \A i \in 1..Len(q) : q[i] = k + i
BufferInv(s) ==
    /\ Counts(cBuf[s], Len(cRead[s])) /\ Counts(cRead[s], 0)
    /\ cMark[s] = Unmarked \/ cMark[s] <= cSent[s]
    /\ cBufSt[s] = "closed" => cConn = "down" \/ (cMark[s] # Unmarked /\ cMark[s] <= Received(s))

PacketInv == \A i \in 1..Len(cWire) : cWire[i].t = "data" => cWire[i].n <= ChanPacket

ChanInv ==
    /\ ShapeInv /\ WriterInv /\ AccountInv /\ ShutInv /\ PacketInv
    /\ \A s \in ChanStreams : RouteInv(s) /\ BufferInv(s)

------------------------------------------------------------------------------
(* Sums of sequences: the recursion of TotalOf, unfolded at either end.     *)

(* f[i] is the sum of the first i numbers of v.                             *)
Sums(v, n, f) == f \in [0..n -> Nat] /\ f[0] = 0 /\ \A i \in 1..n : f[i] = f[i - 1] + v[i]

LEMMA SumsExist ==
    ASSUME NEW v \in Seq(Nat)
    PROVE  \E f : Sums(v, Len(v), f)
<1> DEFINE S == {n \in Nat : n <= Len(v) => \E f : Sums(v, n, f)}
<1>1. 0 \in S
  <2>1. Sums(v, 0, [i \in 0..0 |-> 0])
    BY DEF Sums
  <2> QED BY <2>1
<1>2. ASSUME NEW n \in S PROVE n + 1 \in S
  <2>1. SUFFICES ASSUME n + 1 <= Len(v) PROVE \E f : Sums(v, n + 1, f)
    OBVIOUS
  <2>2. PICK f : Sums(v, n, f)
    BY <2>1
  <2>3. v[n + 1] \in Nat
    BY <2>1
  <2> DEFINE g == [i \in 0..(n + 1) |-> IF i = n + 1 THEN f[n] + v[n + 1] ELSE f[i]]
  <2>4. g \in [0..(n + 1) -> Nat] /\ g[0] = 0
    BY <2>2, <2>3 DEF Sums
  <2>5. ASSUME NEW i \in 1..(n + 1) PROVE g[i] = g[i - 1] + v[i]
    <3>1. CASE i = n + 1
      BY <3>1
    <3>2. CASE i \in 1..n
      <4>1. g[i] = f[i] /\ g[i - 1] = f[i - 1]
        BY <3>2
      <4> QED BY <2>2, <3>2, <4>1 DEF Sums
    <3> QED BY <3>1, <3>2
  <2>6. Sums(v, n + 1, g)
    BY <2>4, <2>5 DEF Sums
  <2> QED BY <2>6
<1>3. S = Nat
  <2> HIDE DEF S
  <2>1. S \subseteq Nat
    BY DEF S
  <2> QED BY <1>1, <1>2, <2>1, SetInduction
<1>4. Len(v) \in S
  <2>1. Len(v) \in Nat
    OBVIOUS
  <2> HIDE DEF S
  <2> QED BY <1>3, <2>1
<1> QED BY <1>4

LEMMA SumsUnique ==
    ASSUME NEW n \in Nat, NEW v, NEW w, NEW f, NEW g,
           Sums(v, n, f), Sums(w, n, g), \A i \in 1..n : v[i] = w[i]
    PROVE  f = g
<1> DEFINE S == {i \in Nat : i <= n => f[i] = g[i]}
<1>1. 0 \in S
  BY DEF Sums
<1>2. ASSUME NEW i \in S PROVE i + 1 \in S
  BY DEF Sums
<1>3. S = Nat
  <2> HIDE DEF S
  <2>1. S \subseteq Nat
    BY DEF S
  <2> QED BY <1>1, <1>2, <2>1, SetInduction
<1>4. \A i \in 0..n : f[i] = g[i]
  BY <1>3
<1> QED BY <1>4 DEF Sums

(* The recursive function in TotalOf exists, and is f.                      *)
LEMMA TotalIs ==
    ASSUME NEW v \in Seq(Nat)
    PROVE  \E f : Sums(v, Len(v), f) /\ TotalOf(v) = f[Len(v)]
<1> DEFINE Eq(f) == f = [i \in 0..Len(v) |-> IF i = 0 THEN 0 ELSE f[i - 1] + v[i]]
<1>1. PICK g : Sums(v, Len(v), g)
  BY SumsExist
<1>2. Eq(g)
  BY <1>1 DEF Sums
<1>3. PICK f : Eq(f) /\ TotalOf(v) = f[Len(v)]
  BY <1>2 DEF TotalOf
<1> DEFINE S == {i \in Nat : i <= Len(v) => f[i] \in Nat}
<1>4. 0 \in S
  BY <1>3
<1>5. ASSUME NEW i \in S PROVE i + 1 \in S
  <2>1. SUFFICES ASSUME i + 1 <= Len(v) PROVE f[i + 1] \in Nat
    OBVIOUS
  <2>2. f[i + 1] = f[i] + v[i + 1] /\ f[i] \in Nat /\ v[i + 1] \in Nat
    BY <1>3, <2>1
  <2> QED BY <2>2
<1>6. S = Nat
  <2> HIDE DEF S
  <2>1. S \subseteq Nat
    BY DEF S
  <2> QED BY <1>4, <1>5, <2>1, SetInduction
<1>7. \A i \in 0..Len(v) : f[i] \in Nat
  BY <1>6
<1>8. f \in [0..Len(v) -> Nat]
  BY <1>3, <1>7
<1>9. f[0] = 0
  BY <1>3
<1>10. ASSUME NEW i \in 1..Len(v) PROVE f[i] = f[i - 1] + v[i]
  <2>1. i \in 0..Len(v) /\ i # 0
    OBVIOUS
  <2> QED BY <1>3, <2>1
<1> QED BY <1>3, <1>8, <1>9, <1>10 DEF Sums

LEMMA TotalEmpty == TotalOf(<<>>) = 0
<1>1. <<>> \in Seq(Nat) /\ Len(<<>>) = 0
  OBVIOUS
<1> QED BY <1>1, TotalIs DEF Sums

LEMMA TotalAppend ==
    ASSUME NEW v \in Seq(Nat), NEW x \in Nat
    PROVE  TotalOf(v) \in Nat /\ TotalOf(Append(v, x)) = TotalOf(v) + x
<1>1. PICK f : Sums(v, Len(v), f) /\ TotalOf(v) = f[Len(v)]
  BY TotalIs
<1> DEFINE w == Append(v, x)
<1>2. w \in Seq(Nat) /\ Len(w) = Len(v) + 1 /\ w[Len(v) + 1] = x /\ \A i \in 1..Len(v) : w[i] = v[i]
  OBVIOUS
<1>3. PICK g : Sums(w, Len(w), g) /\ TotalOf(w) = g[Len(w)]
  BY <1>2, TotalIs
<1> DEFINE h == [i \in 0..Len(v) |-> g[i]]
<1> HIDE DEF w
<1>4. h \in [0..Len(v) -> Nat] /\ h[0] = 0
  BY <1>2, <1>3 DEF Sums
<1>5. ASSUME NEW i \in 1..Len(v) PROVE h[i] = h[i - 1] + w[i]
  <2>1. g[i] = g[i - 1] + w[i]
    BY <1>2, <1>3 DEF Sums
  <2> QED BY <2>1
<1>6. Sums(w, Len(v), h)
  BY <1>4, <1>5 DEF Sums
<1>7. g[Len(v)] = h[Len(v)] /\ Len(v) \in Nat
  OBVIOUS
<1> HIDE DEF h
<1>8. h = f
  BY <1>1, <1>2, <1>6, <1>7, SumsUnique
<1>9. g[Len(v) + 1] = g[Len(v)] + w[Len(v) + 1]
  <2>1. Len(v) + 1 \in 1..Len(w) /\ (Len(v) + 1) - 1 = Len(v)
    BY <1>2, <1>7
  <2> QED BY <1>3, <2>1 DEF Sums
<1>10. f[Len(v)] \in Nat
  BY <1>1, <1>7 DEF Sums
<1> QED BY <1>1, <1>2, <1>3, <1>7, <1>8, <1>9, <1>10 DEF w

LEMMA TotalTail ==
    ASSUME NEW v \in Seq(Nat), v # <<>>
    PROVE  TotalOf(v) = Head(v) + TotalOf(Tail(v)) /\ Head(v) \in Nat /\ TotalOf(Tail(v)) \in Nat
<1> DEFINE w == Tail(v)
<1>1. w \in Seq(Nat) /\ Len(w) = Len(v) - 1 /\ Len(v) > 0 /\ Head(v) = v[1] /\ v[1] \in Nat /\ \A i \in 1..Len(w) : w[i] = v[i + 1]
  OBVIOUS
<1>2. PICK f : Sums(v, Len(v), f) /\ TotalOf(v) = f[Len(v)]
  BY TotalIs
<1>3. PICK g : Sums(w, Len(w), g) /\ TotalOf(w) = g[Len(w)]
  BY <1>1, TotalIs
<1> HIDE DEF w
<1> DEFINE S == {i \in Nat : i <= Len(w) => f[i + 1] = v[1] + g[i]}
<1>4. 0 \in S
  BY <1>1, <1>2, <1>3 DEF Sums
<1>5. ASSUME NEW i \in S PROVE i + 1 \in S
  <2>1. SUFFICES ASSUME i + 1 <= Len(w) PROVE f[i + 2] = v[1] + g[i + 1]
    OBVIOUS
  <2>2. f[i + 1] = v[1] + g[i]
    BY <2>1, <1>1
  <2>3. i \in Nat /\ i \in 0..Len(w) /\ i + 1 \in 1..Len(w) /\ i + 2 \in 1..Len(v) /\ (i + 1) - 1 = i /\ (i + 2) - 1 = i + 1
    BY <1>1, <2>1
  <2>4. f[i + 2] = f[i + 1] + v[i + 2]
    BY <1>2, <2>3 DEF Sums
  <2>5. g[i + 1] = g[i] + w[i + 1] /\ w[i + 1] = v[i + 2]
    BY <1>1, <1>3, <2>3 DEF Sums
  <2>6. g[i] \in Nat
    BY <1>3, <2>3 DEF Sums
  <2>7. w[i + 1] \in Nat
    BY <1>1, <2>3
  <2> QED BY <1>1, <2>2, <2>4, <2>5, <2>6, <2>7
<1>6. S = Nat
  <2> HIDE DEF S
  <2>1. S \subseteq Nat
    BY DEF S
  <2> QED BY <1>4, <1>5, <2>1, SetInduction
<1>7. Len(w) \in S
  <2>1. Len(w) \in Nat
    BY <1>1
  <2> HIDE DEF S
  <2> QED BY <1>6, <2>1
<1>8. f[Len(v)] = v[1] + g[Len(w)] /\ g[Len(w)] \in Nat
  BY <1>1, <1>3, <1>7 DEF Sums
<1> QED BY <1>1, <1>2, <1>3, <1>8 DEF w

(* What the window adjustments on the way add up to, when one is sent and   *)
(* when one arrives.                                                        *)
Credit(m) == IF m.t = "adjust" THEN m.n ELSE 0

LEMMA CreditType == ASSUME NEW m \in BackPackets PROVE Credit(m) \in Nat
BY DEF Credit, BackPackets

LEMMA CreditsType ==
    ASSUME NEW q \in Seq(BackPackets)
    PROVE  Credits(q) \in Seq(Nat) /\ Len(Credits(q)) = Len(q) /\ \A i \in 1..Len(q) : Credits(q)[i] = Credit(q[i])
<1>1. \A i \in 1..Len(q) : q[i] \in BackPackets
  OBVIOUS
<1>2. \A i \in 1..Len(q) : Credit(q[i]) \in Nat
  BY <1>1, CreditType
<1>3. Credits(q) = [i \in 1..Len(q) |-> Credit(q[i])]
  BY DEF Credits, Credit
<1> QED BY <1>2, <1>3

LEMMA CreditsAppend ==
    ASSUME NEW q \in Seq(BackPackets), NEW m \in BackPackets
    PROVE  /\ TotalOf(Credits(q)) \in Nat
           /\ TotalOf(Credits(Append(q, m))) = TotalOf(Credits(q)) + Credit(m)
<1>1. Append(q, m) \in Seq(BackPackets) /\ Len(Append(q, m)) = Len(q) + 1 /\ Len(q) \in Nat
  OBVIOUS
<1>2. \A i \in 1..(Len(q) + 1) : Append(q, m)[i] = IF i = Len(q) + 1 THEN m ELSE q[i]
  OBVIOUS
<1>3. Credits(q) \in Seq(Nat) /\ Len(Credits(q)) = Len(q) /\ Credit(m) \in Nat
  BY CreditsType, CreditType
<1>4. Credits(Append(q, m)) = Append(Credits(q), Credit(m))
  <2> DEFINE a == Credits(Append(q, m))  b == Append(Credits(q), Credit(m))
  <2>1. a \in Seq(Nat) /\ Len(a) = Len(q) + 1 /\ \A i \in 1..(Len(q) + 1) : a[i] = Credit(Append(q, m)[i])
    BY <1>1, CreditsType
  <2>2. b \in Seq(Nat) /\ Len(b) = Len(q) + 1
        /\ \A i \in 1..(Len(q) + 1) : b[i] = IF i = Len(q) + 1 THEN Credit(m) ELSE Credits(q)[i]
    BY <1>3
  <2>3. \A i \in 1..(Len(q) + 1) : a[i] = b[i]
    BY <1>1, <1>2, <2>1, <2>2, CreditsType
  <2> HIDE DEF a, b
  <2>4. a = b
    BY <2>1, <2>2, <2>3
  <2> QED BY <2>4 DEF a, b
<1> QED BY <1>3, <1>4, TotalAppend

LEMMA CreditsTail ==
    ASSUME NEW q \in Seq(BackPackets), q # <<>>
    PROVE  /\ TotalOf(Credits(q)) = Credit(Head(q)) + TotalOf(Credits(Tail(q)))
           /\ Credit(Head(q)) \in Nat /\ TotalOf(Credits(Tail(q))) \in Nat
<1>1. /\ Tail(q) \in Seq(BackPackets) /\ Len(Tail(q)) = Len(q) - 1 /\ Len(q) \in Nat \ {0} /\ Head(q) = q[1]
      /\ \A i \in 1..(Len(q) - 1) : Tail(q)[i] = q[i + 1]
  OBVIOUS
<1>2. Credits(q) \in Seq(Nat) /\ Len(Credits(q)) = Len(q) /\ Credits(q) # <<>>
      /\ \A i \in 1..Len(q) : Credits(q)[i] = Credit(q[i])
  BY <1>1, CreditsType
<1>3. Head(Credits(q)) = Credit(Head(q))
  BY <1>1, <1>2
<1>4. Credits(Tail(q)) = Tail(Credits(q))
  <2> DEFINE a == Credits(Tail(q))  b == Tail(Credits(q))
  <2>1. a \in Seq(Nat) /\ Len(a) = Len(q) - 1 /\ \A i \in 1..(Len(q) - 1) : a[i] = Credit(q[i + 1])
    BY <1>1, CreditsType
  <2>2. b \in Seq(Nat) /\ Len(b) = Len(q) - 1 /\ \A i \in 1..(Len(q) - 1) : b[i] = Credit(q[i + 1])
    BY <1>1, <1>2
  <2> HIDE DEF a, b
  <2>3. Len(a) = Len(b) /\ \A i \in 1..Len(a) : a[i] = b[i]
    BY <2>1, <2>2
  <2>4. a = b
    BY <2>1, <2>2, <2>3
  <2> QED BY <2>4 DEF a, b
<1> QED BY <1>2, <1>3, <1>4, TotalTail

LEMMA CreditsEmpty == TotalOf(Credits(<<>>)) = 0
<1>1. Credits(<<>>) = <<>>
  BY DEF Credits
<1> QED BY <1>1, TotalEmpty

LEMMA CreditsNat == ASSUME NEW q \in Seq(BackPackets) PROVE TotalOf(Credits(q)) \in Nat
<1>1. [t |-> "close"] \in BackPackets
  BY DEF BackPackets
<1> QED BY <1>1, CreditsAppend

------------------------------------------------------------------------------
(* The other operators.                                                     *)

LEMMA LeastOf2 ==
    ASSUME NEW a \in Nat, NEW b \in Nat
    PROVE  LeastOf({a, b}) \in {a, b} /\ LeastOf({a, b}) <= a /\ LeastOf({a, b}) <= b
<1>1. \E x \in {a, b} : \A y \in {a, b} : x <= y
  OBVIOUS
<1> QED BY <1>1 DEF LeastOf

LEMMA LeastOf3 ==
    ASSUME NEW a \in Nat, NEW b \in Nat, NEW c \in Nat
    PROVE  /\ LeastOf({a, b, c}) \in {a, b, c}
           /\ LeastOf({a, b, c}) <= a /\ LeastOf({a, b, c}) <= b /\ LeastOf({a, b, c}) <= c
<1>1. \E x \in {a, b, c} : \A y \in {a, b, c} : x <= y
  BY SMT
<1> QED BY <1>1 DEF LeastOf

LEMMA SmallModulo == ASSUME NEW a \in Nat, NEW b \in Nat, a < b PROVE a % b = a
OBVIOUS

LEMMA SumUpdate ==
    ASSUME NEW f \in [ChanStreams -> Nat], NEW s \in ChanStreams, NEW x \in Nat
    PROVE  /\ SumOver([f EXCEPT ![s] = x]) = SumOver(f) - f[s] + x
           /\ SumOver(f) \in Nat /\ f[s] <= SumOver(f)
BY DEF SumOver, ChanStreams

LEMMA SumOfLengths == ASSUME NEW a \in Seq(Nat), NEW b \in Seq(Nat) PROVE Len(a) + Len(b) \in Nat
OBVIOUS

LEMMA LenUpdate ==
    ASSUME NEW f \in [ChanStreams -> Seq(Nat)], NEW s \in ChanStreams, NEW x \in Seq(Nat)
    PROVE  /\ LenOver([f EXCEPT ![s] = x]) = LenOver(f) - Len(f[s]) + Len(x)
           /\ LenOver(f) \in Nat /\ Len(f[s]) \in Nat /\ Len(x) \in Nat /\ Len(f[s]) <= LenOver(f)
<1>1. \A r \in ChanStreams : Len(f[r]) \in Nat
  OBVIOUS
<1>2. Len(x) \in Nat
  OBVIOUS
<1> DEFINE g == [f EXCEPT ![s] = x]
<1>3. g[s] = x /\ \A r \in ChanStreams \ {s} : g[r] = f[r]
  OBVIOUS
<1> HIDE DEF g
<1>4. CASE s = "out"
  <2>1. g["out"] = x /\ g["err"] = f["err"]
    BY <1>3, <1>4 DEF ChanStreams
  <2>2. Len(f["out"]) \in Nat /\ Len(f["err"]) \in Nat
    BY <1>1 DEF ChanStreams
  <2>3. LenOver(g) = Len(x) + Len(f["err"]) /\ LenOver(f) = Len(f["out"]) + Len(f["err"])
    BY <2>1 DEF LenOver
  <2> QED BY <1>2, <1>4, <2>2, <2>3 DEF g
<1>5. CASE s = "err"
  <2>1. g["err"] = x /\ g["out"] = f["out"]
    BY <1>3, <1>5 DEF ChanStreams
  <2>2. Len(f["out"]) \in Nat /\ Len(f["err"]) \in Nat
    BY <1>1 DEF ChanStreams
  <2>3. LenOver(g) = Len(f["out"]) + Len(x) /\ LenOver(f) = Len(f["out"]) + Len(f["err"])
    BY <2>1 DEF LenOver
  <2> QED BY <1>2, <1>5, <2>2, <2>3 DEF g
<1> QED BY <1>4, <1>5 DEF ChanStreams

------------------------------------------------------------------------------
(* Routes: a packet is put on the wire, or is taken off it.                 *)

LEMMA RoutedStart ==
    ASSUME NEW q \in Seq(WirePackets), NEW s \in ChanStreams, NEW sent \in Nat, NEW mark, NEW start, NEW live,
           Routed(q, s, sent, mark, start, live)
    PROVE  start \in 0..sent
<1>1. 1 \in 1..(Len(q) + 1)
  OBVIOUS
<1> QED BY <1>1 DEF Routed

LEMMA RoutedEmpty ==
    ASSUME NEW s \in ChanStreams, NEW sent \in Nat, NEW mark, NEW start \in 0..sent, NEW live, live => start = sent
    PROVE  Routed(<<>>, s, sent, mark, start, live)
<1> DEFINE pos == [i \in 1..1 |-> start]
<1>1. pos \in [1..(Len(<<>>) + 1) -> 0..sent] /\ pos[1] = start /\ pos[Len(<<>>) + 1] = start
  OBVIOUS
<1>2. IsRoute(<<>>, s, mark, pos)
  BY DEF IsRoute
<1> QED BY <1>1, <1>2 DEF Routed

(* A mark may be set where there was none.                                  *)
LEMMA RoutedMark ==
    ASSUME NEW q \in Seq(WirePackets), NEW s \in ChanStreams, NEW sent \in Nat, NEW mark, NEW mark2, NEW start, NEW live,
           Routed(q, s, sent, mark, start, live), mark # Unmarked => mark2 = mark
    PROVE  Routed(q, s, sent, mark2, start, live)
BY DEF Routed, IsRoute

LEMMA RoutedPut ==
    ASSUME NEW q \in Seq(WirePackets), NEW m \in WirePackets, NEW s \in ChanStreams, NEW sent \in Nat,
           NEW mark, NEW mark2, NEW start,
           Routed(q, s, sent, mark, start, TRUE), mark # Unmarked => mark2 = mark,
           m.t = "data" /\ m.s = s => m.from = sent,
           m.t # "data" => mark2 # Unmarked /\ mark2 <= sent
    PROVE  Routed(Append(q, m), s, sent + Carried(m, s), mark2, start, TRUE)
<1>1. PICK pos \in [1..(Len(q) + 1) -> 0..sent] :
           pos[1] = start /\ pos[Len(q) + 1] = sent /\ IsRoute(q, s, mark, pos)
  BY DEF Routed
<1>2. Len(q) \in Nat /\ Len(Append(q, m)) = Len(q) + 1 /\ Append(q, m)[Len(q) + 1] = m
      /\ \A i \in 1..Len(q) : Append(q, m)[i] = q[i]
  OBVIOUS
<1>3. Carried(m, s) \in Nat
  BY DEF Carried, WirePackets, DataPackets, EndPackets
<1> DEFINE pos2 == [i \in 1..(Len(q) + 2) |-> IF i = Len(q) + 2 THEN sent + Carried(m, s) ELSE pos[i]]
<1>4. pos2 \in [1..(Len(q) + 2) -> 0..(sent + Carried(m, s))]
  BY <1>2, <1>3
<1>5. \A i \in 1..(Len(q) + 1) : pos2[i] = pos[i]
  BY <1>2
<1>6. pos2[Len(q) + 2] = sent + Carried(m, s)
  BY <1>2
<1> HIDE DEF pos2
<1>7. IsRoute(Append(q, m), s, mark2, pos2)
  <2>1. ASSUME NEW i \in 1..Len(q)
        PROVE  /\ pos2[i + 1] = pos2[i] + Carried(Append(q, m)[i], s)
               /\ Append(q, m)[i].t = "data" /\ Append(q, m)[i].s = s => Append(q, m)[i].from = pos2[i]
               /\ Append(q, m)[i].t # "data" => mark2 # Unmarked /\ mark2 <= pos2[i]
    <3>1. pos2[i] = pos[i] /\ pos2[i + 1] = pos[i + 1]
      BY <1>2, <1>5
    <3> QED BY <1>1, <1>2, <3>1 DEF IsRoute
  <2>2. pos2[Len(q) + 1] = sent /\ pos2[(Len(q) + 1) + 1] = sent + Carried(m, s)
    BY <1>1, <1>2, <1>5, <1>6
  <2>3. \A i \in 1..Len(Append(q, m)) : i \in 1..Len(q) \/ i = Len(q) + 1
    BY <1>2
  <2> QED BY <1>2, <2>1, <2>2, <2>3 DEF IsRoute
<1>8. pos2[1] = start
  BY <1>1, <1>2, <1>5
<1> QED BY <1>2, <1>4, <1>6, <1>7, <1>8 DEF Routed

LEMMA RoutedTake ==
    ASSUME NEW q \in Seq(WirePackets), q # <<>>, NEW s \in ChanStreams, NEW sent \in Nat, NEW mark, NEW start, NEW live,
           Routed(q, s, sent, mark, start, live)
    PROVE  /\ Routed(Tail(q), s, sent, mark, start + Carried(Head(q), s), live)
           /\ start + Carried(Head(q), s) <= sent /\ start \in 0..sent
           /\ Head(q).t = "data" /\ Head(q).s = s => Head(q).from = start
           /\ Head(q).t # "data" => mark # Unmarked /\ mark <= start
<1>1. PICK pos \in [1..(Len(q) + 1) -> 0..sent] :
           pos[1] = start /\ (live => pos[Len(q) + 1] = sent) /\ IsRoute(q, s, mark, pos)
  BY DEF Routed
<1>2. Len(q) \in Nat \ {0} /\ Len(Tail(q)) = Len(q) - 1 /\ Head(q) = q[1]
      /\ \A i \in 1..(Len(q) - 1) : Tail(q)[i] = q[i + 1]
  OBVIOUS
<1> DEFINE pos2 == [i \in 1..Len(q) |-> pos[i + 1]]
<1>3. pos2 \in [1..Len(q) -> 0..sent] /\ (Len(q) - 1) + 1 = Len(q)
  BY <1>2
<1>4. \A i \in 1..Len(q) : pos2[i] = pos[i + 1]
  OBVIOUS
<1> HIDE DEF pos2
<1>5. ASSUME NEW i \in 1..(Len(q) - 1)
      PROVE  /\ pos2[i + 1] = pos2[i] + Carried(Tail(q)[i], s)
             /\ Tail(q)[i].t = "data" /\ Tail(q)[i].s = s => Tail(q)[i].from = pos2[i]
             /\ Tail(q)[i].t # "data" => mark # Unmarked /\ mark <= pos2[i]
  <2>1. i + 1 \in 1..Len(q) /\ i \in 1..Len(q)
    BY <1>2
  <2>2. pos2[i] = pos[i + 1] /\ pos2[i + 1] = pos[(i + 1) + 1] /\ Tail(q)[i] = q[i + 1]
    BY <1>2, <1>4, <2>1
  <2> QED BY <1>1, <2>1, <2>2 DEF IsRoute
<1>6. IsRoute(Tail(q), s, mark, pos2)
  BY <1>2, <1>5 DEF IsRoute
<1>7. 1 \in 1..Len(q) /\ Len(q) \in 1..Len(q)
  BY <1>2
<1>8. /\ pos[1 + 1] = pos[1] + Carried(q[1], s)
      /\ q[1].t = "data" /\ q[1].s = s => q[1].from = pos[1]
      /\ q[1].t # "data" => mark # Unmarked /\ mark <= pos[1]
  BY <1>1, <1>7 DEF IsRoute
<1>9. pos2[1] = start + Carried(Head(q), s) /\ pos2[1] \in 0..sent /\ pos[1] \in 0..sent
  BY <1>1, <1>2, <1>3, <1>4, <1>7, <1>8
<1>10. live => pos2[(Len(q) - 1) + 1] = sent
  BY <1>1, <1>3, <1>4, <1>7
<1>11. Routed(Tail(q), s, sent, mark, start + Carried(Head(q), s), live)
  BY <1>2, <1>3, <1>6, <1>9, <1>10 DEF Routed
<1> QED BY <1>1, <1>2, <1>8, <1>9, <1>11

(* Less may be known of a route whose reading side is gone.                 *)
LEMMA RoutedLive ==
    ASSUME NEW q, NEW s, NEW sent, NEW mark, NEW start, NEW live, NEW live2,
           Routed(q, s, sent, mark, start, live), live2 => live
    PROVE  Routed(q, s, sent, mark, start, live2)
BY DEF Routed

------------------------------------------------------------------------------
(* What a step that leaves a part of the state alone keeps.                 *)

LEMMA Amounts ==
    ASSUME ShapeInv
    PROVE  /\ SumOver(cSpace) \in Nat /\ SumOver(cSent) \in Nat /\ SumOver(cGot) \in Nat /\ SumOver(cLeft) \in Nat
           /\ LenOver(cRead) \in Nat /\ LenOver(cBuf) \in Nat
           /\ AdjustsOnWay \in Nat /\ cWin \in Nat /\ cMyWin \in Nat /\ Claimed \in Nat
           /\ ChanWindow \in Nat \ {0} /\ ChanPacket \in Nat \ {0} /\ ChanModulus \in Nat \ {0} /\ ChanBytes \in Nat
<1>1. cSpace \in [ChanStreams -> Nat] /\ cSent \in [ChanStreams -> Nat] /\ cGot \in [ChanStreams -> Nat]
      /\ cLeft \in [ChanStreams -> Nat]
  BY DEF ShapeInv
<1>2. SumOver(cSpace) \in Nat /\ SumOver(cSent) \in Nat /\ SumOver(cGot) \in Nat /\ SumOver(cLeft) \in Nat
  <2>1. "out" \in ChanStreams /\ 0 \in Nat
    BY DEF ChanStreams
  <2> QED BY <1>1, <2>1, SumUpdate
<1>3. cRead \in [ChanStreams -> Seq(Nat)] /\ cBuf \in [ChanStreams -> Seq(Nat)]
  BY DEF ShapeInv
<1>4. LenOver(cRead) \in Nat /\ LenOver(cBuf) \in Nat
  <2>1. "out" \in ChanStreams /\ <<>> \in Seq(Nat)
    BY DEF ChanStreams
  <2> QED BY <1>3, <2>1, LenUpdate
<1>5. AdjustsOnWay \in Nat
  BY CreditsNat DEF AdjustsOnWay, ShapeInv
<1>6. cWin \in Nat /\ cMyWin \in Nat
  BY DEF ShapeInv
<1>7. ChanWindow \in Nat \ {0} /\ ChanPacket \in Nat \ {0} /\ ChanModulus \in Nat \ {0} /\ ChanBytes \in Nat
  BY ChanConstants
<1>8. Claimed \in Nat
  BY <1>2, <1>5, <1>6 DEF Claimed
<1> QED BY <1>2, <1>4, <1>5, <1>6, <1>7, <1>8

LEMMA StreamAmounts ==
    ASSUME ShapeInv, NEW s \in ChanStreams
    PROVE  /\ cSpace[s] \in Nat /\ cSent[s] \in Nat /\ cGot[s] \in Nat /\ cLeft[s] \in Nat
           /\ cSpace[s] <= SumOver(cSpace) /\ cSent[s] <= SumOver(cSent) /\ cGot[s] <= SumOver(cGot)
           /\ cLeft[s] <= SumOver(cLeft)
           /\ cBuf[s] \in Seq(Nat) /\ cRead[s] \in Seq(Nat) /\ Len(cBuf[s]) \in Nat /\ Len(cRead[s]) \in Nat
           /\ Len(cBuf[s]) <= LenOver(cBuf) /\ Len(cRead[s]) <= LenOver(cRead) /\ Received(s) \in Nat
<1>1. cSpace \in [ChanStreams -> Nat] /\ cSent \in [ChanStreams -> Nat] /\ cGot \in [ChanStreams -> Nat]
      /\ cLeft \in [ChanStreams -> Nat]
  BY DEF ShapeInv
<1>2. cSpace[s] \in Nat /\ cSent[s] \in Nat /\ cGot[s] \in Nat /\ cLeft[s] \in Nat
  BY <1>1
<1>3. cSpace[s] <= SumOver(cSpace) /\ cSent[s] <= SumOver(cSent) /\ cGot[s] <= SumOver(cGot) /\ cLeft[s] <= SumOver(cLeft)
  BY <1>1, SumUpdate
<1>4. cRead \in [ChanStreams -> Seq(Nat)] /\ cBuf \in [ChanStreams -> Seq(Nat)]
  BY DEF ShapeInv
<1>5. cRead[s] \in Seq(Nat) /\ cBuf[s] \in Seq(Nat)
  BY <1>4
<1>6. <<>> \in Seq(Nat)
  OBVIOUS
<1>7. Len(cBuf[s]) \in Nat /\ Len(cRead[s]) \in Nat
      /\ Len(cBuf[s]) <= LenOver(cBuf) /\ Len(cRead[s]) <= LenOver(cRead)
  BY <1>4, <1>6, LenUpdate
<1>8. Received(s) \in Nat
  BY <1>5, SumOfLengths DEF Received
<1> QED BY <1>2, <1>3, <1>5, <1>7, <1>8

LEMMA RouteKeeps ==
    ASSUME ShapeInv, NEW s \in ChanStreams, RouteInv(s),
           cWire' = cWire, cSent'[s] = cSent[s], cMark[s] # Unmarked => cMark'[s] = cMark[s],
           Received(s)' = Received(s), WireLive' => WireLive
    PROVE  RouteInv(s)'
<1>1. cWire \in Seq(WirePackets) /\ cSent[s] \in Nat
  BY DEF ShapeInv
<1>2. Routed(cWire, s, cSent[s], cMark'[s], Received(s), WireLive)
  BY <1>1, RoutedMark DEF RouteInv
<1>3. Routed(cWire, s, cSent[s], cMark'[s], Received(s), WireLive')
  BY <1>2, RoutedLive
<1> QED BY <1>3 DEF RouteInv

LEMMA RouteDrops ==
    ASSUME ShapeInv, NEW s \in ChanStreams, RouteInv(s),
           cWire' = <<>>, cSent'[s] = cSent[s], Received(s)' = Received(s), ~WireLive'
    PROVE  RouteInv(s)'
<1>1. cWire \in Seq(WirePackets) /\ cSent[s] \in Nat
  BY DEF ShapeInv
<1>2. Received(s) \in 0..cSent[s]
  BY <1>1, RoutedStart DEF RouteInv
<1>3. Routed(<<>>, s, cSent[s], cMark'[s], Received(s), WireLive')
  BY <1>1, <1>2, RoutedEmpty
<1> QED BY <1>3 DEF RouteInv

LEMMA BufferKeeps ==
    ASSUME NEW s \in ChanStreams, BufferInv(s), cBuf'[s] = cBuf[s], cRead'[s] = cRead[s],
           cMark'[s] = cMark[s], cSent'[s] = cSent[s], cBufSt'[s] = "closed" => cBufSt[s] = "closed",
           cConn = "down" => cConn' = "down"
    PROVE  BufferInv(s)'
BY DEF BufferInv, Received

LEMMA ReceivedKeeps ==
    ASSUME NEW s, cBuf'[s] = cBuf[s], cRead'[s] = cRead[s] PROVE Received(s)' = Received(s)
BY DEF Received

Ending == cConn = "down" \/ \E p \in ChanSides : cClosed[p] = "yes"

LEMMA AccountKeeps ==
    ASSUME ShapeInv, AccountInv, UNCHANGED <<cMyWin, cBuf, cWin, cSpace, cSent, cGot, cBack, cRead>>,
           \A s \in ChanStreams : cReader'[s] # "adjust" => cReader[s] # "adjust",
           Ending => Ending', ShapeInv'
    PROVE  AccountInv'
BY DEF AccountInv, Claimed, AdjustsOnWay, Ending, ShapeInv

(* Once a side has closed, credits may be lost.                             *)
LEMMA AccountEnds ==
    ASSUME ShapeInv, AccountInv, UNCHANGED <<cMyWin, cBuf, cWin, cSpace, cSent, cGot, cRead, cReader>>,
           cBack' \in Seq(BackPackets), TotalOf(Credits(cBack')) <= TotalOf(Credits(cBack)), Ending'
    PROVE  AccountInv'
<1>1. TotalOf(Credits(cBack)) \in Nat /\ TotalOf(Credits(cBack')) \in Nat
  BY CreditsNat DEF ShapeInv
<1>2. cWin \in Nat /\ SumOver(cSpace) \in Nat /\ SumOver(cSent) \in Nat /\ SumOver(cGot) \in Nat
  BY Amounts
<1>3. LenOver(cRead) \in Nat /\ ChanWindow \in Nat
  BY Amounts
<1>4. Claimed' <= Claimed /\ Claimed \in Nat /\ Claimed' \in Nat
  BY <1>1, <1>2 DEF Claimed, AdjustsOnWay
<1>5. LenOver(cRead)' = LenOver(cRead)
  OBVIOUS
<1>6. Claimed' <= ChanWindow + LenOver(cRead)'
  <2>1. Claimed <= ChanWindow + LenOver(cRead)
    BY DEF AccountInv
  <2> QED BY <1>3, <1>4, <1>5, <2>1
<1>7. ~(cConn' = "up" /\ \A p \in ChanSides : cClosed'[p] = "no")
  BY DEF Ending
<1>8. cMyWin' + LenOver(cBuf)' = ChanWindow
  BY DEF AccountInv
<1>9. \A s \in ChanStreams : cReader'[s] # "adjust" => cGot'[s] = 0
  BY DEF AccountInv
<1> QED BY <1>6, <1>7, <1>8, <1>9 DEF AccountInv

LEMMA WriterKeeps ==
    ASSUME WriterInv, UNCHANGED <<cSent, cLeft, cWriter, cSpace>> PROVE WriterInv'
BY DEF WriterInv

(* What a packet that a side sends does to the wire.                        *)
LEMMA PutWriter ==
    ASSUME ShapeInv, NEW m
    PROVE  Put("writer", m) = IF cClosed["writer"] = "no" /\ WireLive THEN Append(cWire, m) ELSE cWire
BY DEF Put, CanSend, WireLive, ChanSides

LEMMA PutReader ==
    ASSUME ShapeInv, NEW m
    PROVE  Put("reader", m) = IF CanSend("reader") /\ cLoop["writer"] # "done" THEN Append(cBack, m) ELSE cBack
BY DEF Put, ChanSides

(* An EOF or a close is put behind all that was sent, and marks it.         *)
LEMMA EndSent ==
    ASSUME ChanInv, NEW m \in EndPackets, cWire' = Put("writer", m),
           cMark' = IF CanSend("writer") THEN Marked ELSE cMark,
           UNCHANGED <<cSent, cRecvVars, cConn>>, cLoop'["reader"] = cLoop["reader"]
    PROVE  /\ cWire' \in Seq(WirePackets) /\ cMark' \in [ChanStreams -> 0..Unmarked]
           /\ PacketInv' /\ (~WireLive' => cWire' = <<>>)
           /\ \A s \in ChanStreams : RouteInv(s)' /\ BufferInv(s)'
<1> USE DEF ChanInv
<1>1. m \in WirePackets /\ m.t # "data" /\ cWire \in Seq(WirePackets)
  BY DEF WirePackets, EndPackets, ShapeInv
<1>2. WireLive' <=> WireLive
  BY DEF WireLive
<1>3. \A s \in ChanStreams : cSent[s] \in 0..ChanBytes /\ ChanBytes \in Nat
  <2>1. SumOver(cSent) + SumOver(cLeft) <= ChanBytes
    BY DEF WriterInv
  <2> QED BY <2>1, Amounts, StreamAmounts
<1>4. cMark' \in [ChanStreams -> 0..Unmarked]
  <2>1. cMark \in [ChanStreams -> 0..Unmarked]
    BY DEF ShapeInv
  <2>2. Marked \in [ChanStreams -> 0..Unmarked]
    BY <1>3, <2>1 DEF Marked, Unmarked
  <2> QED BY <2>1, <2>2
<1>5. ASSUME NEW s \in ChanStreams, CanSend("writer")
      PROVE  cMark'[s] # Unmarked /\ cMark'[s] <= cSent[s] /\ (cMark[s] # Unmarked => cMark'[s] = cMark[s])
  BY <1>3, <1>5 DEF ShapeInv, Marked, Unmarked, BufferInv
<1>6. ASSUME NEW s \in ChanStreams PROVE cMark[s] # Unmarked => cMark'[s] = cMark[s]
  BY <1>5
<1>7. Append(cWire, m) \in Seq(WirePackets) /\ cWire' \in Seq(WirePackets)
  BY <1>1, PutWriter
<1>8. PacketInv'
  <2>1. CASE cWire' = cWire
    BY <2>1 DEF PacketInv
  <2>2. CASE cWire' = Append(cWire, m)
    BY <1>1, <2>2 DEF PacketInv
  <2> QED BY <2>1, <2>2, PutWriter
<1>9. ~WireLive' => cWire' = <<>>
  BY <1>2, PutWriter DEF ShutInv
<1>10. ASSUME NEW s \in ChanStreams PROVE RouteInv(s)'
  <2>1. Received(s)' = Received(s) /\ cSent[s] \in Nat
    BY <1>3 DEF cRecvVars, Received
  <2>2. CASE cWire' = cWire
    BY <1>2, <1>6, <2>1, <2>2, RouteKeeps
  <2>3. CASE cWire' = Append(cWire, m) /\ WireLive /\ cClosed["writer"] = "no"
    <3>1. CanSend("writer")
      BY <2>3 DEF CanSend, WireLive
    <3>2. Routed(cWire, s, cSent[s], cMark[s], Received(s), TRUE)
      <4>1. Routed(cWire, s, cSent[s], cMark[s], Received(s), WireLive)
        BY DEF RouteInv
      <4> QED BY <2>3, <4>1, RoutedLive
    <3>3. Routed(Append(cWire, m), s, cSent[s] + Carried(m, s), cMark'[s], Received(s), TRUE)
      BY <1>1, <1>5, <2>1, <3>1, <3>2, RoutedPut
    <3>4. cSent[s] + Carried(m, s) = cSent[s]
      BY <1>1, <2>1 DEF Carried
    <3>5. Routed(Append(cWire, m), s, cSent[s], cMark'[s], Received(s), WireLive')
      BY <3>3, <3>4, RoutedLive
    <3> QED BY <2>1, <2>3, <3>5 DEF RouteInv
  <2> QED BY <2>2, <2>3, PutWriter
<1>11. ASSUME NEW s \in ChanStreams PROVE BufferInv(s)'
  <2>1. BufferInv(s)
    OBVIOUS
  <2> QED BY <1>5, <1>6, <2>1 DEF BufferInv, Received, cRecvVars
<1> QED BY <1>4, <1>7, <1>8, <1>9, <1>10, <1>11

(* A step that does not touch the wire, the marks or what has arrived keeps *)
(* the ways and the buffers of the streams.                                 *)
LEMMA StreamsKeep ==
    ASSUME ChanInv, UNCHANGED <<cWire, cSent, cMark, cBuf, cRead, cConn>>,
           cLoop'["reader"] = cLoop["reader"],
           \A s \in ChanStreams : cBufSt'[s] = "closed" => cBufSt[s] = "closed"
    PROVE  PacketInv' /\ \A s \in ChanStreams : RouteInv(s)' /\ BufferInv(s)'
<1> USE DEF ChanInv
<1>1. PacketInv'
  BY DEF PacketInv
<1>2. WireLive' <=> WireLive
  BY DEF WireLive
<1>3. ASSUME NEW s \in ChanStreams PROVE RouteInv(s)'
  <2>1. Received(s)' = Received(s)
    BY ReceivedKeeps
  <2> QED BY <1>2, <2>1, RouteKeeps
<1>4. ASSUME NEW s \in ChanStreams PROVE BufferInv(s)'
  BY BufferKeeps
<1> QED BY <1>1, <1>3, <1>4

LEMMA ShutKeeps ==
    ASSUME ShutInv, UNCHANGED <<cWinShut, cClosed, cLoop, cConn, cBack, cWire>> PROVE ShutInv'
BY DEF ShutInv, WireLive

------------------------------------------------------------------------------
(* The steps of the writing side.                                           *)

LEMMA WriteStep ==
    ASSUME ChanInv, NEW s \in ChanStreams, NEW n \in 1..ChanBytes, ChanWrite(s, n)
    PROVE  ChanInv'
<1> USE DEF ChanInv
<1>1. UNCHANGED <<cWire, cBack, cWin, cWinShut, cSpace, cSent, cEOF, cMark, cClosed, cRecvVars, cLoop, cConn>>
  BY DEF ChanWrite
<1>2. UNCHANGED <<cMyWin, cBuf, cBufSt, cReader, cGot, cRead>>
  BY <1>1 DEF cRecvVars
<1>3. n \in Nat \ {0} /\ ChanBytes \in Nat /\ cWriter[s] = "idle" /\ SumOver(cSent) + SumOver(cLeft) + n <= ChanBytes
  BY ChanConstants DEF ChanWrite
<1>4. PICK w \in {"failed", "reserve"}, k \in {0, n} :
          /\ cWriter' = [cWriter EXCEPT ![s] = w] /\ cLeft' = [cLeft EXCEPT ![s] = k]
          /\ w = "reserve" => k = n
  BY DEF ChanWrite, WriteFails
<1>5. k \in Nat /\ k <= n
  BY <1>3
<1>6. ShapeInv'
  BY <1>1, <1>2, <1>4, <1>5 DEF ShapeInv
<1>7. WriterInv'
  <2>1. SumOver(cLeft)' = SumOver(cLeft) - cLeft[s] + k
    <3>1. cLeft \in [ChanStreams -> Nat]
      BY DEF ShapeInv
    <3>2. SumOver([cLeft EXCEPT ![s] = k]) = SumOver(cLeft) - cLeft[s] + k
      BY <1>5, <3>1, SumUpdate
    <3> QED BY <1>4, <3>2
  <2>2. SumOver(cSent)' + SumOver(cLeft)' <= ChanBytes
    <3>1. SumOver(cSent)' = SumOver(cSent)
      BY <1>1
    <3>2. cLeft[s] \in Nat /\ SumOver(cLeft) \in Nat /\ SumOver(cSent) \in Nat
      BY Amounts, StreamAmounts
    <3> QED BY <1>3, <1>5, <2>1, <3>1, <3>2
  <2>3. cWriter \in [ChanStreams -> {"idle", "reserve", "send", "failed"}] /\ cLeft \in [ChanStreams -> Nat]
    BY DEF ShapeInv
  <2>4. ASSUME NEW r \in ChanStreams
        PROVE  /\ cWriter'[r] \in {"reserve", "send"} => cLeft'[r] > 0
               /\ cWriter'[r] = "send" => cSpace'[r] > 0 /\ cSpace'[r] <= cLeft'[r] /\ cSpace'[r] <= ChanPacket
               /\ cWriter'[r] # "send" => cSpace'[r] = 0
    <3>1. CASE r = s
      BY <1>1, <1>3, <1>4, <2>3, <3>1 DEF WriterInv
    <3>2. CASE r # s
      BY <1>1, <1>4, <2>3, <3>2 DEF WriterInv
    <3> QED BY <3>1, <3>2
  <2> QED BY <2>2, <2>4 DEF WriterInv
<1>8. AccountInv'
  BY <1>1, <1>2, <1>6, AccountKeeps DEF Ending
<1>9. ShutInv'
  BY <1>1, ShutKeeps
<1>10. PacketInv' /\ \A r \in ChanStreams : RouteInv(r)' /\ BufferInv(r)'
  BY <1>1, <1>2, StreamsKeep
<1> QED BY <1>6, <1>7, <1>8, <1>9, <1>10

LEMMA ReserveStep ==
    ASSUME ChanInv, NEW s \in ChanStreams, ChanReserve(s)
    PROVE  ChanInv'
<1> USE DEF ChanInv
<1>1. UNCHANGED <<cWire, cBack, cWinShut, cSent, cEOF, cMark, cClosed, cRecvVars, cLoop, cConn>>
  BY DEF ChanReserve
<1>2. UNCHANGED <<cMyWin, cBuf, cBufSt, cReader, cGot, cRead>>
  BY <1>1 DEF cRecvVars
<1> DEFINE space == LeastOf({ChanPacket, cLeft[s], cWin})
<1>3. space \in {ChanPacket, cLeft[s], cWin} /\ space <= ChanPacket /\ space <= cLeft[s] /\ space <= cWin /\ space \in Nat
  <2>1. ChanPacket \in Nat /\ cLeft[s] \in Nat /\ cWin \in Nat
    BY Amounts, StreamAmounts
  <2> QED BY <2>1, LeastOf3
<1>4. cWin' = cWin - space /\ cWriter[s] = "reserve" /\ (cWin > 0 \/ cWinShut = "yes")
  BY DEF ChanReserve
<1>5. cLeft[s] > 0 /\ cSpace[s] = 0
  BY <1>4 DEF WriterInv
<1>6. \/ /\ cWinShut = "yes" /\ cSpace' = cSpace
         /\ cWriter' = [cWriter EXCEPT ![s] = "failed"] /\ cLeft' = [cLeft EXCEPT ![s] = 0]
      \/ /\ cWinShut # "yes" /\ cLeft' = cLeft
         /\ cWriter' = [cWriter EXCEPT ![s] = "send"] /\ cSpace' = [cSpace EXCEPT ![s] = space]
  <2>1. CASE cWinShut = "yes"
    BY <2>1 DEF ChanReserve, WriteFails
  <2>2. CASE cWinShut # "yes"
    BY <2>2 DEF ChanReserve
  <2> QED BY <2>1, <2>2
<1> HIDE DEF space
<1>7. /\ cWriter \in [ChanStreams -> {"idle", "reserve", "send", "failed"}] /\ cLeft \in [ChanStreams -> Nat]
      /\ cSpace \in [ChanStreams -> Nat]
  BY DEF ShapeInv
<1>8. cWin' \in Nat /\ cWriter' \in [ChanStreams -> {"idle", "reserve", "send", "failed"}]
      /\ cLeft' \in [ChanStreams -> Nat] /\ cSpace' \in [ChanStreams -> Nat]
  BY <1>3, <1>4, <1>6, <1>7, Amounts
<1>9. ShapeInv'
  BY <1>1, <1>2, <1>8 DEF ShapeInv
<1>10. WriterInv'
  <2>1. SumOver(cLeft)' <= SumOver(cLeft)
    <3>1. CASE cLeft' = cLeft
      BY <3>1, Amounts
    <3>2. CASE cLeft' = [cLeft EXCEPT ![s] = 0]
      <4>1. SumOver([cLeft EXCEPT ![s] = 0]) = SumOver(cLeft) - cLeft[s] + 0
        BY <1>7, SumUpdate
      <4>2. SumOver(cLeft)' = SumOver([cLeft EXCEPT ![s] = 0])
        BY <3>2
      <4> QED BY <4>1, <4>2, Amounts, StreamAmounts
    <3> QED BY <1>6, <3>1, <3>2
  <2>2. SumOver(cLeft)' \in Nat
    BY <1>9, Amounts, SumUpdate, <1>8 DEF SumOver, ChanStreams
  <2>3. SumOver(cSent)' + SumOver(cLeft)' <= ChanBytes
    BY <1>1, <2>1, <2>2, Amounts DEF WriterInv
  <2>4. ASSUME NEW r \in ChanStreams
        PROVE  /\ cWriter'[r] \in {"reserve", "send"} => cLeft'[r] > 0
               /\ cWriter'[r] = "send" => cSpace'[r] > 0 /\ cSpace'[r] <= cLeft'[r] /\ cSpace'[r] <= ChanPacket
               /\ cWriter'[r] # "send" => cSpace'[r] = 0
    <3>1. CASE r = s /\ cWinShut = "yes"
      BY <1>5, <1>6, <1>7, <3>1
    <3>2. CASE r = s /\ cWinShut # "yes"
      <4>1. cWriter'[s] = "send" /\ cSpace'[s] = space /\ cLeft'[s] = cLeft[s]
        BY <1>6, <1>7, <3>2
      <4>2. space > 0
        BY <1>3, <1>4, <1>5, <3>2, Amounts, StreamAmounts
      <4> QED BY <1>3, <1>5, <3>2, <4>1, <4>2
    <3>3. CASE r # s
      <4>1. cWriter'[r] = cWriter[r] /\ cSpace'[r] = cSpace[r] /\ cLeft'[r] = cLeft[r]
        BY <1>6, <1>7, <3>3
      <4> QED BY <4>1 DEF WriterInv
    <3> QED BY <3>1, <3>2, <3>3
  <2> QED BY <2>3, <2>4 DEF WriterInv
<1>11. AccountInv'
  <2>1. SumOver(cSent)' = SumOver(cSent) /\ SumOver(cGot)' = SumOver(cGot) /\ AdjustsOnWay' = AdjustsOnWay
        /\ LenOver(cRead)' = LenOver(cRead) /\ LenOver(cBuf)' = LenOver(cBuf) /\ cMyWin' = cMyWin
    BY <1>1, <1>2 DEF AdjustsOnWay
  <2>2. CASE cWinShut = "yes"
    <3>1. SumOver(cSpace)' = SumOver(cSpace)
      BY <1>6, <2>2
    <3>2. Claimed' <= Claimed /\ Claimed' \in Nat
      BY <1>3, <1>4, <1>8, <2>1, <3>1, Amounts DEF Claimed
    <3>3. cClosed'["writer"] = "yes" /\ "writer" \in ChanSides
      BY <1>1, <2>2 DEF ShutInv, ChanSides
    <3>4. Claimed' <= ChanWindow + LenOver(cRead)'
      BY <2>1, <3>2, Amounts DEF AccountInv
    <3> QED BY <1>1, <1>2, <2>1, <3>3, <3>4 DEF AccountInv
  <2>3. CASE cWinShut # "yes"
    <3>1. SumOver(cSpace)' = SumOver(cSpace) + space
      BY <1>3, <1>5, <1>6, <1>7, <2>3, SumUpdate, Amounts
    <3>2. Claimed' = Claimed
      BY <1>3, <1>4, <2>1, <3>1, Amounts DEF Claimed
    <3> QED BY <1>1, <1>2, <2>1, <3>2 DEF AccountInv
  <2> QED BY <2>2, <2>3
<1>12. ShutInv'
  BY <1>1, ShutKeeps
<1>13. PacketInv' /\ \A r \in ChanStreams : RouteInv(r)' /\ BufferInv(r)'
  BY <1>1, <1>2, StreamsKeep
<1> QED BY <1>9, <1>10, <1>11, <1>12, <1>13

(* WriteExtended whose writePacket fails.                                   *)
LEMMA SendFailsStep ==
    ASSUME ChanInv, NEW s \in ChanStreams, ChanSendData(s), ~CanSend("writer")
    PROVE  ChanInv'
<1> USE DEF ChanInv
<1>1. /\ UNCHANGED <<cBack, cWin, cWinShut, cEOF, cMark, cClosed, cRecvVars, cLoop, cConn, cWire, cSent>>
      /\ cWriter' = [cWriter EXCEPT ![s] = "failed"] /\ cLeft' = [cLeft EXCEPT ![s] = 0]
      /\ cSpace' = [cSpace EXCEPT ![s] = 0]
  BY DEF ChanSendData, WriteFails
<1>2. UNCHANGED <<cMyWin, cBuf, cBufSt, cReader, cGot, cRead>>
  BY <1>1 DEF cRecvVars
<1>3. /\ cWriter \in [ChanStreams -> {"idle", "reserve", "send", "failed"}] /\ cLeft \in [ChanStreams -> Nat]
      /\ cSpace \in [ChanStreams -> Nat]
  BY DEF ShapeInv
<1>4. /\ cWriter' \in [ChanStreams -> {"idle", "reserve", "send", "failed"}] /\ cLeft' \in [ChanStreams -> Nat]
      /\ cSpace' \in [ChanStreams -> Nat]
  BY <1>1, <1>3
<1>5. ShapeInv'
  BY <1>1, <1>2, <1>4 DEF ShapeInv
<1>6. /\ SumOver(cLeft)' = SumOver(cLeft) - cLeft[s] + 0
      /\ SumOver(cSpace)' = SumOver(cSpace) - cSpace[s] + 0
  <2>1. /\ SumOver([cLeft EXCEPT ![s] = 0]) = SumOver(cLeft) - cLeft[s] + 0
        /\ SumOver([cSpace EXCEPT ![s] = 0]) = SumOver(cSpace) - cSpace[s] + 0
    BY <1>3, SumUpdate
  <2> QED BY <1>1, <2>1
<1>7. WriterInv'
  <2>1. SumOver(cSent)' + SumOver(cLeft)' <= ChanBytes
    <3>1. SumOver(cSent)' = SumOver(cSent) /\ SumOver(cSent) + SumOver(cLeft) <= ChanBytes
      BY <1>1 DEF WriterInv
    <3>2. cLeft[s] \in Nat /\ SumOver(cLeft) \in Nat /\ SumOver(cSent) \in Nat /\ ChanBytes \in Nat
      BY Amounts, StreamAmounts
    <3> QED BY <1>6, <3>1, <3>2
  <2>2. ASSUME NEW r \in ChanStreams
        PROVE  /\ cWriter'[r] \in {"reserve", "send"} => cLeft'[r] > 0
               /\ cWriter'[r] = "send" => cSpace'[r] > 0 /\ cSpace'[r] <= cLeft'[r] /\ cSpace'[r] <= ChanPacket
               /\ cWriter'[r] # "send" => cSpace'[r] = 0
    <3>1. CASE r = s
      BY <1>1, <1>3, <3>1
    <3>2. CASE r # s
      <4>1. cWriter'[r] = cWriter[r] /\ cSpace'[r] = cSpace[r] /\ cLeft'[r] = cLeft[r]
        BY <1>1, <1>3, <3>2
      <4> QED BY <4>1 DEF WriterInv
    <3> QED BY <3>1, <3>2
  <2> QED BY <2>1, <2>2 DEF WriterInv
<1>8. AccountInv'
  <2>1. SumOver(cSent)' = SumOver(cSent) /\ SumOver(cGot)' = SumOver(cGot) /\ AdjustsOnWay' = AdjustsOnWay
        /\ LenOver(cRead)' = LenOver(cRead) /\ LenOver(cBuf)' = LenOver(cBuf) /\ cMyWin' = cMyWin /\ cWin' = cWin
    BY <1>1, <1>2 DEF AdjustsOnWay
  <2>2. Claimed' <= Claimed /\ Claimed' \in Nat
    <3>1. cSpace[s] \in Nat /\ cSpace[s] <= SumOver(cSpace)
      BY StreamAmounts
    <3> QED BY <1>6, <2>1, <3>1, Amounts DEF Claimed
  <2>3. Claimed' <= ChanWindow + LenOver(cRead)'
    BY <2>1, <2>2, Amounts DEF AccountInv
  <2>4. ~(cConn' = "up" /\ \A p \in ChanSides : cClosed'[p] = "no")
    BY <1>1 DEF CanSend, ChanSides
  <2> QED BY <1>1, <1>2, <2>1, <2>3, <2>4 DEF AccountInv
<1>9. ShutInv'
  BY <1>1, ShutKeeps
<1>10. PacketInv' /\ \A r \in ChanStreams : RouteInv(r)' /\ BufferInv(r)'
  BY <1>1, <1>2, StreamsKeep
<1> QED BY <1>5, <1>7, <1>8, <1>9, <1>10

(* WriteExtended sends the part that it has reserved.                       *)
LEMMA SendDataStep ==
    ASSUME ChanInv, NEW s \in ChanStreams, ChanSendData(s), CanSend("writer")
    PROVE  ChanInv'
<1> USE DEF ChanInv
<1> DEFINE m == [t |-> "data", s |-> s, from |-> cSent[s], n |-> cSpace[s]]
<1>1. /\ UNCHANGED <<cBack, cWin, cWinShut, cEOF, cMark, cClosed, cRecvVars, cLoop, cConn>>
      /\ cWriter[s] = "send" /\ cWire' = Put("writer", m)
      /\ cSent' = [cSent EXCEPT ![s] = cSent[s] + cSpace[s]]
      /\ cLeft' = [cLeft EXCEPT ![s] = cLeft[s] - cSpace[s]]
      /\ cWriter' = [cWriter EXCEPT ![s] = IF cLeft'[s] = 0 THEN "idle" ELSE "reserve"]
      /\ cSpace' = [cSpace EXCEPT ![s] = 0]
  BY DEF ChanSendData
<1>2. UNCHANGED <<cMyWin, cBuf, cBufSt, cReader, cGot, cRead>>
  BY <1>1 DEF cRecvVars
<1>3. /\ cWriter \in [ChanStreams -> {"idle", "reserve", "send", "failed"}] /\ cLeft \in [ChanStreams -> Nat]
      /\ cSpace \in [ChanStreams -> Nat] /\ cSent \in [ChanStreams -> Nat] /\ cWire \in Seq(WirePackets)
  BY DEF ShapeInv
<1>4. cSpace[s] \in Nat /\ cSpace[s] > 0 /\ cSpace[s] <= cLeft[s] /\ cSpace[s] <= ChanPacket /\ cLeft[s] \in Nat
      /\ cSent[s] \in Nat /\ cLeft[s] - cSpace[s] \in Nat /\ cSent[s] + cSpace[s] \in Nat
  BY <1>1, <1>3 DEF WriterInv
<1>5. m \in WirePackets /\ m.t = "data" /\ m.s = s /\ m.from = cSent[s] /\ m.n = cSpace[s]
  BY <1>4 DEF WirePackets, DataPackets
<1> HIDE DEF m
<1>6. /\ cWriter' \in [ChanStreams -> {"idle", "reserve", "send", "failed"}] /\ cLeft' \in [ChanStreams -> Nat]
      /\ cSpace' \in [ChanStreams -> Nat] /\ cSent' \in [ChanStreams -> Nat]
  BY <1>1, <1>3, <1>4
<1>7. cWire' \in Seq(WirePackets)
  <2>1. Append(cWire, m) \in Seq(WirePackets)
    BY <1>3, <1>5
  <2> QED BY <1>1, <1>3, <2>1, PutWriter
<1>8. ShapeInv'
  BY <1>1, <1>2, <1>6, <1>7 DEF ShapeInv
<1>9. /\ SumOver(cLeft)' = SumOver(cLeft) - cLeft[s] + (cLeft[s] - cSpace[s])
      /\ SumOver(cSent)' = SumOver(cSent) - cSent[s] + (cSent[s] + cSpace[s])
      /\ SumOver(cSpace)' = SumOver(cSpace) - cSpace[s] + 0
  <2>1. /\ SumOver([cLeft EXCEPT ![s] = cLeft[s] - cSpace[s]]) = SumOver(cLeft) - cLeft[s] + (cLeft[s] - cSpace[s])
        /\ SumOver([cSent EXCEPT ![s] = cSent[s] + cSpace[s]]) = SumOver(cSent) - cSent[s] + (cSent[s] + cSpace[s])
        /\ SumOver([cSpace EXCEPT ![s] = 0]) = SumOver(cSpace) - cSpace[s] + 0
    BY <1>3, <1>4, SumUpdate
  <2> QED BY <1>1, <2>1
<1>10. WriterInv'
  <2>1. SumOver(cSent)' + SumOver(cLeft)' <= ChanBytes
    <3>1. SumOver(cSent) + SumOver(cLeft) <= ChanBytes
      BY DEF WriterInv
    <3> QED BY <1>4, <1>9, <3>1, Amounts
  <2>2. ASSUME NEW r \in ChanStreams
        PROVE  /\ cWriter'[r] \in {"reserve", "send"} => cLeft'[r] > 0
               /\ cWriter'[r] = "send" => cSpace'[r] > 0 /\ cSpace'[r] <= cLeft'[r] /\ cSpace'[r] <= ChanPacket
               /\ cWriter'[r] # "send" => cSpace'[r] = 0
    <3>1. CASE r = s
      <4>1. cWriter'[s] = (IF cLeft'[s] = 0 THEN "idle" ELSE "reserve") /\ cSpace'[s] = 0 /\ cLeft'[s] \in Nat
        BY <1>1, <1>3, <1>6
      <4> QED BY <3>1, <4>1
    <3>2. CASE r # s
      <4>1. cWriter'[r] = cWriter[r] /\ cSpace'[r] = cSpace[r] /\ cLeft'[r] = cLeft[r]
        BY <1>1, <1>3, <3>2
      <4> QED BY <4>1 DEF WriterInv
    <3> QED BY <3>1, <3>2
  <2> QED BY <2>1, <2>2 DEF WriterInv
<1>11. AccountInv'
  <2>1. SumOver(cGot)' = SumOver(cGot) /\ AdjustsOnWay' = AdjustsOnWay
        /\ LenOver(cRead)' = LenOver(cRead) /\ LenOver(cBuf)' = LenOver(cBuf) /\ cMyWin' = cMyWin /\ cWin' = cWin
    BY <1>1, <1>2 DEF AdjustsOnWay
  <2>2. Claimed' = Claimed
    BY <1>4, <1>9, <2>1, Amounts DEF Claimed
  <2> QED BY <1>1, <1>2, <2>1, <2>2 DEF AccountInv
<1>12. WireLive' <=> WireLive
  BY <1>1 DEF WireLive
<1>13. ShutInv'
  <2>1. ~WireLive' => cWire' = <<>>
    BY <1>1, <1>12, PutWriter DEF ShutInv
  <2> QED BY <1>1, <2>1 DEF ShutInv
<1>14. PacketInv'
  <2>1. CASE cWire' = cWire
    BY <2>1 DEF PacketInv
  <2>2. CASE cWire' = Append(cWire, m)
    BY <1>3, <1>4, <1>5, <2>2 DEF PacketInv
  <2> QED BY <1>1, <2>1, <2>2, PutWriter
<1>15. ASSUME NEW r \in ChanStreams PROVE RouteInv(r)'
  <2>1. Received(r)' = Received(r) /\ cMark'[r] = cMark[r]
    BY <1>1, <1>2, ReceivedKeeps
  <2>2. cSent'[r] = cSent[r] + Carried(m, r) /\ Carried(m, r) \in Nat /\ cSent[r] \in Nat
    BY <1>1, <1>3, <1>4, <1>5 DEF Carried
  <2>3. CASE ~WireLive
    <3>1. cWire' = <<>>
      BY <1>12, <1>13, <2>3 DEF ShutInv
    <3>2. Received(r) \in 0..cSent[r]
      BY <1>3, <2>2, RoutedStart DEF RouteInv
    <3>3. Received(r) \in 0..cSent'[r] /\ cSent'[r] \in Nat
      BY <2>2, <3>2
    <3>4. Routed(<<>>, r, cSent'[r], cMark[r], Received(r), WireLive')
      BY <1>12, <2>3, <3>3, RoutedEmpty
    <3> QED BY <2>1, <3>1, <3>4 DEF RouteInv
  <2>4. CASE WireLive
    <3>1. cWire' = Append(cWire, m)
      BY <1>1, <2>4, PutWriter DEF CanSend
    <3>2. Routed(cWire, r, cSent[r], cMark[r], Received(r), TRUE)
      <4>1. Routed(cWire, r, cSent[r], cMark[r], Received(r), WireLive)
        BY DEF RouteInv
      <4> QED BY <2>4, <4>1, RoutedLive
    <3>3. Routed(Append(cWire, m), r, cSent[r] + Carried(m, r), cMark[r], Received(r), TRUE)
      BY <1>3, <1>5, <2>2, <3>2, RoutedPut
    <3>4. Routed(Append(cWire, m), r, cSent[r] + Carried(m, r), cMark[r], Received(r), WireLive')
      BY <3>3, RoutedLive
    <3> QED BY <2>1, <2>2, <3>1, <3>4 DEF RouteInv
  <2> QED BY <2>3, <2>4
<1>16. ASSUME NEW r \in ChanStreams PROVE BufferInv(r)'
  <2>1. cSent[r] \in Nat /\ cSent'[r] \in Nat /\ cSent[r] <= cSent'[r]
    BY <1>1, <1>3, <1>4
  <2>2. cMark[r] \in 0..Unmarked /\ Unmarked \in Nat
    BY ChanConstants DEF ShapeInv, Unmarked
  <2>3. cMark[r] = Unmarked \/ cMark[r] <= cSent'[r]
    BY <2>1, <2>2 DEF BufferInv
  <2>4. BufferInv(r)
    OBVIOUS
  <2> QED BY <1>1, <1>2, <2>3, <2>4 DEF BufferInv, Received
<1> QED BY <1>8, <1>10, <1>11, <1>13, <1>14, <1>15, <1>16

LEMMA CloseWriteStep == ASSUME ChanInv, ChanCloseWrite PROVE ChanInv'
<1> USE DEF ChanInv
<1>1. /\ UNCHANGED <<cBack, cWin, cWinShut, cWriter, cLeft, cSpace, cSent, cClosed, cRecvVars, cLoop, cConn>>
      /\ cEOF' = "yes" /\ cWire' = Put("writer", [t |-> "eof"])
      /\ cMark' = IF CanSend("writer") THEN Marked ELSE cMark
  BY DEF ChanCloseWrite
<1>2. UNCHANGED <<cMyWin, cBuf, cBufSt, cReader, cGot, cRead>>
  BY <1>1 DEF cRecvVars
<1>3. [t |-> "eof"] \in EndPackets
  BY DEF EndPackets
<1>4. /\ cWire' \in Seq(WirePackets) /\ cMark' \in [ChanStreams -> 0..Unmarked]
      /\ PacketInv' /\ (~WireLive' => cWire' = <<>>)
      /\ \A s \in ChanStreams : RouteInv(s)' /\ BufferInv(s)'
  <2>1. UNCHANGED <<cSent, cRecvVars, cConn>> /\ cLoop'["reader"] = cLoop["reader"]
    BY <1>1
  <2> QED BY <1>1, <1>3, <2>1, EndSent
<1>5. ShapeInv'
  BY <1>1, <1>2, <1>4 DEF ShapeInv
<1>6. WriterInv'
  BY <1>1, WriterKeeps
<1>7. AccountInv'
  BY <1>1, <1>2, <1>5, AccountKeeps DEF Ending
<1>8. ShutInv'
  BY <1>1, <1>4 DEF ShutInv
<1> QED BY <1>4, <1>5, <1>6, <1>7, <1>8

LEMMA CloseStep == ASSUME ChanInv, NEW p \in ChanSides, ChanClose(p) PROVE ChanInv'
<1> USE DEF ChanInv
<1>1. /\ UNCHANGED <<cWin, cWinShut, cWriter, cLeft, cSpace, cSent, cEOF, cRecvVars, cLoop, cConn>>
      /\ cClosed' = [cClosed EXCEPT ![p] = "yes"]
  BY DEF ChanClose
<1>2. UNCHANGED <<cMyWin, cBuf, cBufSt, cReader, cGot, cRead>>
  BY <1>1 DEF cRecvVars
<1>3. cClosed \in [ChanSides -> {"no", "yes"}]
  BY DEF ShapeInv
<1>4. cClosed' \in [ChanSides -> {"no", "yes"}] /\ cClosed'[p] = "yes" /\ \A r \in ChanSides : cClosed[r] = "yes" => cClosed'[r] = "yes"
  BY <1>1, <1>3
<1>5. WriterInv'
  BY <1>1, WriterKeeps
<1>6. Ending'
  BY <1>4 DEF Ending
<1>7. CASE p = "writer"
  <2>1. cBack' = cBack /\ cWire' = Put("writer", [t |-> "close"]) /\ cMark' = IF CanSend("writer") THEN Marked ELSE cMark
    BY <1>7 DEF ChanClose
  <2>2. [t |-> "close"] \in EndPackets
    BY DEF EndPackets
  <2>3. /\ cWire' \in Seq(WirePackets) /\ cMark' \in [ChanStreams -> 0..Unmarked]
        /\ PacketInv' /\ (~WireLive' => cWire' = <<>>)
        /\ \A s \in ChanStreams : RouteInv(s)' /\ BufferInv(s)'
    <3>1. UNCHANGED <<cSent, cRecvVars, cConn>> /\ cLoop'["reader"] = cLoop["reader"]
      BY <1>1
    <3> QED BY <2>1, <2>2, <3>1, EndSent
  <2>4. ShapeInv'
    BY <1>1, <1>2, <1>4, <2>1, <2>3 DEF ShapeInv
  <2>5. AccountInv'
    BY <1>1, <1>2, <1>6, <2>1, <2>4, AccountKeeps
  <2>6. ShutInv'
    BY <1>1, <1>4, <2>1, <2>3 DEF ShutInv, ChanSides
  <2> QED BY <1>5, <2>3, <2>4, <2>5, <2>6
<1>8. CASE p = "reader"
  <2>1. cBack' = Put("reader", [t |-> "close"]) /\ UNCHANGED <<cWire, cMark>>
    BY <1>8 DEF ChanClose
  <2>2. [t |-> "close"] \in BackPackets /\ Credit([t |-> "close"]) = 0
    BY DEF BackPackets, Credit
  <2>3. cBack \in Seq(BackPackets)
    BY DEF ShapeInv
  <2>4. cBack' \in Seq(BackPackets) /\ TotalOf(Credits(cBack')) <= TotalOf(Credits(cBack))
    <3>1. CASE cBack' = cBack
      BY <2>3, <3>1, CreditsNat
    <3>2. CASE cBack' = Append(cBack, [t |-> "close"])
      <4>1. TotalOf(Credits(cBack)) \in Nat /\ TotalOf(Credits(Append(cBack, [t |-> "close"]))) = TotalOf(Credits(cBack)) + 0
        BY <2>2, <2>3, CreditsAppend
      <4> QED BY <2>2, <2>3, <3>2, <4>1
    <3> QED BY <2>1, <3>1, <3>2, PutReader
  <2>5. ShapeInv'
    BY <1>1, <1>2, <1>4, <2>1, <2>4 DEF ShapeInv
  <2>6. AccountInv'
    BY <1>1, <1>2, <1>6, <2>4, AccountEnds
  <2>7. ShutInv'
    <3>1. cConn' = "down" \/ cLoop'["writer"] = "done" => cBack' = <<>>
      BY <1>1, <2>1, PutReader DEF ShutInv, CanSend
    <3> QED BY <1>1, <1>4, <2>1, <3>1 DEF ShutInv, ChanSides, WireLive
  <2>8. PacketInv' /\ \A r \in ChanStreams : RouteInv(r)' /\ BufferInv(r)'
    BY <1>1, <1>2, <2>1, StreamsKeep
  <2> QED BY <1>5, <2>5, <2>6, <2>7, <2>8
<1> QED BY <1>7, <1>8 DEF ChanSides

------------------------------------------------------------------------------
(* The steps of the readers.                                                *)

LEMMA ReadStartStep == ASSUME ChanInv, ChanReadStart PROVE ChanInv'
<1> USE DEF ChanInv
<1>1. /\ UNCHANGED <<cWire, cBack, cSendVars, cClosed, cMyWin, cBuf, cGot, cRead, cLoop, cConn>>
      /\ cReader["err"] = "idle"
      /\ cReader' = [cReader EXCEPT !["err"] = "read"]
      /\ cBufSt' = [cBufSt EXCEPT !["err"] = IF cBufSt["err"] = "none" THEN "open" ELSE cBufSt["err"]]
  BY DEF ChanReadStart
<1>2. UNCHANGED <<cWin, cWinShut, cWriter, cLeft, cSpace, cSent, cEOF, cMark>>
  BY <1>1 DEF cSendVars
<1>3. /\ cReader \in [ChanStreams -> {"idle", "read", "adjust", "eof"}]
      /\ cBufSt \in [ChanStreams -> {"none", "open", "closed"}] /\ cBufSt["out"] # "none"
  BY DEF ShapeInv
<1>4. /\ cReader' \in [ChanStreams -> {"idle", "read", "adjust", "eof"}]
      /\ cBufSt' \in [ChanStreams -> {"none", "open", "closed"}] /\ cBufSt'["out"] # "none"
      /\ \A s \in ChanStreams : cReader'[s] # "adjust" => cReader[s] # "adjust"
      /\ \A s \in ChanStreams : cBufSt'[s] = "closed" => cBufSt[s] = "closed"
  BY <1>1, <1>3 DEF ChanStreams
<1>5. ShapeInv'
  BY <1>1, <1>2, <1>4 DEF ShapeInv
<1>6. WriterInv'
  BY <1>2, WriterKeeps
<1>7. AccountInv'
  BY <1>1, <1>2, <1>4, <1>5, AccountKeeps DEF Ending
<1>8. ShutInv'
  BY <1>1, <1>2, ShutKeeps
<1>9. PacketInv' /\ \A r \in ChanStreams : RouteInv(r)' /\ BufferInv(r)'
  BY <1>1, <1>2, <1>4, StreamsKeep
<1> QED BY <1>5, <1>6, <1>7, <1>8, <1>9

(* The reader is told of the end.                                           *)
LEMMA ReadEndStep ==
    ASSUME ChanInv, NEW s \in ChanStreams, cReader[s] = "read", cReader' = [cReader EXCEPT ![s] = "eof"],
           UNCHANGED <<cWire, cBack, cSendVars, cClosed, cMyWin, cBuf, cBufSt, cGot, cRead, cLoop, cConn>>
    PROVE  ChanInv'
<1> USE DEF ChanInv
<1>2. UNCHANGED <<cWin, cWinShut, cWriter, cLeft, cSpace, cSent, cEOF, cMark>>
  BY DEF cSendVars
<1>3. cReader \in [ChanStreams -> {"idle", "read", "adjust", "eof"}]
  BY DEF ShapeInv
<1>4. /\ cReader' \in [ChanStreams -> {"idle", "read", "adjust", "eof"}]
      /\ \A r \in ChanStreams : cReader'[r] # "adjust" => cReader[r] # "adjust"
  BY <1>3
<1>5. ShapeInv'
  BY <1>2, <1>4 DEF ShapeInv
<1>6. WriterInv'
  BY <1>2, WriterKeeps
<1>7. AccountInv'
  BY <1>2, <1>4, <1>5, AccountKeeps DEF Ending
<1>8. ShutInv'
  BY <1>2, ShutKeeps
<1>9. PacketInv' /\ \A r \in ChanStreams : RouteInv(r)' /\ BufferInv(r)'
  BY <1>2, StreamsKeep
<1> QED BY <1>5, <1>6, <1>7, <1>8, <1>9

LEMMA ConcatElements ==
    ASSUME NEW a \in Seq(Nat), NEW b \in Seq(Nat)
    PROVE  /\ a \o b \in Seq(Nat) /\ Len(a \o b) = Len(a) + Len(b)
           /\ \A i \in 1..Len(a) : (a \o b)[i] = a[i]
           /\ \A i \in 1..Len(b) : (a \o b)[Len(a) + i] = b[i]
OBVIOUS

(* What continues a stream may be put behind it.                            *)
LEMMA CountsConcat ==
    ASSUME NEW a \in Seq(Nat), NEW b \in Seq(Nat), NEW k \in Nat, Counts(a, k), Counts(b, k + Len(a))
    PROVE  Counts(a \o b, k)
<1> DEFINE c == a \o b
<1>1. /\ Len(c) = Len(a) + Len(b) /\ Len(a) \in Nat /\ Len(b) \in Nat
      /\ \A i \in 1..Len(a) : c[i] = a[i]
      /\ \A i \in 1..Len(b) : c[Len(a) + i] = b[i]
  BY ConcatElements
<1> HIDE DEF c
<1>2. ASSUME NEW i \in 1..Len(c) PROVE c[i] = k + i
  <2>1. CASE i \in 1..Len(a)
    BY <1>1, <2>1 DEF Counts
  <2>2. CASE i \notin 1..Len(a)
    <3> DEFINE j == i - Len(a)
    <3>1. j \in 1..Len(b) /\ i = Len(a) + j
      BY <1>1, <2>2
    <3> HIDE DEF j
    <3>2. c[i] = b[j] /\ b[j] = (k + Len(a)) + j
      BY <1>1, <3>1 DEF Counts
    <3> QED BY <1>1, <3>1, <3>2
  <2> QED BY <2>1, <2>2
<1> QED BY <1>2 DEF Counts, c

LEMMA CountsBounded ==
    ASSUME NEW q \in Seq(Nat), NEW k \in Nat, NEW most \in Nat, Counts(q, k), k + Len(q) <= most
    PROVE  q \in Seq(1..most)
<1>1. Len(q) \in Nat
  OBVIOUS
<1>2. ASSUME NEW i \in 1..Len(q) PROVE q[i] \in 1..most
  BY <1>1 DEF Counts
<1> QED BY <1>2

(* A piece of a stream counts on from where it was cut.                     *)
LEMMA CountsCut ==
    ASSUME NEW b \in Seq(Nat), NEW k \in Nat, Counts(b, k), NEW n \in 0..Len(b)
    PROVE  /\ SubSeq(b, 1, n) \in Seq(Nat) /\ Len(SubSeq(b, 1, n)) = n /\ Counts(SubSeq(b, 1, n), k)
           /\ SubSeq(b, n + 1, Len(b)) \in Seq(Nat) /\ Len(SubSeq(b, n + 1, Len(b))) = Len(b) - n
           /\ Counts(SubSeq(b, n + 1, Len(b)), k + n)
<1> DEFINE f == SubSeq(b, 1, n)  g == SubSeq(b, n + 1, Len(b))
<1>1. Len(b) \in Nat /\ n \in Nat /\ n <= Len(b)
  OBVIOUS
<1>2. f \in Seq(Nat) /\ Len(f) = n /\ \A i \in 1..n : f[i] = b[i]
  BY <1>1
<1>3. g \in Seq(Nat) /\ Len(g) = Len(b) - n /\ \A i \in 1..(Len(b) - n) : g[i] = b[n + i]
  BY <1>1
<1> HIDE DEF f, g
<1>4. Counts(f, k)
  <2>1. \A i \in 1..n : i \in 1..Len(b)
    BY <1>1
  <2> QED BY <1>2, <2>1 DEF Counts
<1>5. ASSUME NEW i \in 1..(Len(b) - n) PROVE g[i] = (k + n) + i
  <2>1. n + i \in 1..Len(b)
    BY <1>1
  <2>2. g[i] = b[n + i] /\ b[n + i] = k + (n + i)
    BY <1>3, <2>1 DEF Counts
  <2> QED BY <1>1, <2>2
<1>6. Counts(g, k + n)
  BY <1>3, <1>5 DEF Counts
<1> QED BY <1>2, <1>3, <1>4, <1>6 DEF f, g

(* The reader takes n bytes.                                                *)
LEMMA ReadTakeStep ==
    ASSUME ChanInv, NEW s \in ChanStreams, NEW m \in ChanReads, ChanRead(s, m), ~AtEnd(s)
    PROVE  ChanInv'
<1> USE DEF ChanInv
<1> DEFINE n == LeastOf({m, Len(cBuf[s])})
           r2 == cRead[s] \o SubSeq(cBuf[s], 1, n)
           b2 == SubSeq(cBuf[s], n + 1, Len(cBuf[s]))
<1>1. UNCHANGED <<cWire, cBack, cSendVars, cClosed, cBufSt, cLoop, cConn, cWin, cWinShut, cWriter, cLeft, cSpace, cSent, cEOF, cMark>>
  BY DEF ChanRead, cSendVars
<1>2. /\ cReader \in [ChanStreams -> {"idle", "read", "adjust", "eof"}] /\ cGot \in [ChanStreams -> Nat]
      /\ cRead \in [ChanStreams -> Seq(Nat)] /\ cBuf \in [ChanStreams -> Seq(Nat)]
  BY DEF ShapeInv
<1>3. /\ cRead' = [cRead EXCEPT ![s] = r2] /\ cBuf' = [cBuf EXCEPT ![s] = b2] /\ cGot' = [cGot EXCEPT ![s] = n]
      /\ cMyWin' = cMyWin + n /\ cReader' = [cReader EXCEPT ![s] = "adjust"] /\ cReader[s] = "read"
      /\ cBuf[s] # <<>>
  BY DEF ChanRead, Credited
<1>4. /\ Len(cBuf[s]) \in Nat /\ Len(cRead[s]) \in Nat /\ cGot[s] = 0 /\ cRead[s] \in Seq(Nat) /\ cBuf[s] \in Seq(Nat)
      /\ Len(cBuf[s]) <= LenOver(cBuf)
  <2>1. cGot[s] = 0
    BY <1>3 DEF AccountInv
  <2> QED BY <2>1, StreamAmounts
<1>5. n \in 1..Len(cBuf[s])
  <2>1. m \in Nat \ {0}
    BY ChanConstants
  <2>2. Len(cBuf[s]) > 0
    BY <1>3, <1>4
  <2>3. n \in {m, Len(cBuf[s])} /\ n <= Len(cBuf[s])
    BY <1>4, <2>1, LeastOf2
  <2> HIDE DEF n
  <2> QED BY <1>4, <2>1, <2>2, <2>3
<1> HIDE DEF n
<1>6. n \in Nat
  BY <1>4, <1>5
<1>7. /\ r2 \in Seq(Nat) /\ b2 \in Seq(Nat) /\ Len(r2) = Len(cRead[s]) + n /\ Len(b2) = Len(cBuf[s]) - n
      /\ Counts(r2, 0) /\ Counts(b2, Len(r2))
  <2>1. Counts(cRead[s], 0) /\ Counts(cBuf[s], Len(cRead[s]))
    BY DEF BufferInv
  <2>2. cRead[s] \in Seq(Nat) /\ cBuf[s] \in Seq(Nat) /\ Len(cRead[s]) \in Nat
    BY <1>4
  <2>3. n \in 0..Len(cBuf[s])
    BY <1>4, <1>5
  <2> DEFINE f == SubSeq(cBuf[s], 1, n)
  <2>4. /\ f \in Seq(Nat) /\ Len(f) = n /\ Counts(f, Len(cRead[s]))
        /\ b2 \in Seq(Nat) /\ Len(b2) = Len(cBuf[s]) - n /\ Counts(b2, Len(cRead[s]) + n)
    BY <2>1, <2>2, <2>3, CountsCut
  <2>5. r2 = cRead[s] \o f
    OBVIOUS
  <2> HIDE DEF f, r2, b2
  <2>6. r2 \in Seq(Nat) /\ Len(r2) = Len(cRead[s]) + Len(f)
    BY <2>2, <2>4, <2>5, ConcatElements
  <2>7. 0 + Len(cRead[s]) = Len(cRead[s])
    BY <2>2
  <2>8. Counts(r2, 0)
    BY <2>1, <2>2, <2>4, <2>5, <2>7, CountsConcat
  <2> QED BY <2>4, <2>6, <2>8
<1> HIDE DEF r2, b2
<1>8. /\ cReader' \in [ChanStreams -> {"idle", "read", "adjust", "eof"}] /\ cGot' \in [ChanStreams -> Nat]
      /\ cRead' \in [ChanStreams -> Seq(Nat)] /\ cBuf' \in [ChanStreams -> Seq(Nat)]
  BY <1>2, <1>3, <1>6, <1>7
<1>9. cMyWin' \in Nat
  BY <1>3, <1>6, Amounts
<1>10. ShapeInv'
  BY <1>1, <1>8, <1>9 DEF ShapeInv
<1>11. WriterInv'
  BY <1>1, WriterKeeps
<1>12. AccountInv'
  <2>1. /\ LenOver([cRead EXCEPT ![s] = r2]) = LenOver(cRead) - Len(cRead[s]) + Len(r2)
        /\ LenOver([cBuf EXCEPT ![s] = b2]) = LenOver(cBuf) - Len(cBuf[s]) + Len(b2)
    BY <1>2, <1>7, LenUpdate
  <2>2. SumOver([cGot EXCEPT ![s] = n]) = SumOver(cGot) - cGot[s] + n
    BY <1>2, <1>6, SumUpdate
  <2>3. LenOver(cRead)' = LenOver(cRead) + n /\ LenOver(cBuf)' = LenOver(cBuf) - n /\ SumOver(cGot)' = SumOver(cGot) + n
    <3>1. /\ LenOver(cRead)' = LenOver(cRead) - Len(cRead[s]) + Len(r2)
          /\ LenOver(cBuf)' = LenOver(cBuf) - Len(cBuf[s]) + Len(b2)
          /\ SumOver(cGot)' = SumOver(cGot) - cGot[s] + n
      BY <1>3, <2>1, <2>2
    <3>2. Len(r2) = Len(cRead[s]) + n /\ Len(b2) = Len(cBuf[s]) - n
      BY <1>7
    <3>3. Len(cRead[s]) \in Nat /\ Len(cBuf[s]) \in Nat /\ cGot[s] = 0
      BY <1>4
    <3> DEFINE lr == Len(cRead[s])  lb == Len(cBuf[s])  lr2 == Len(r2)  lb2 == Len(b2)
    <3>4. /\ LenOver(cRead)' = LenOver(cRead) - lr + lr2 /\ LenOver(cBuf)' = LenOver(cBuf) - lb + lb2
          /\ lr2 = lr + n /\ lb2 = lb - n /\ lr \in Nat /\ lb \in Nat
      BY <3>1, <3>2, <3>3
    <3>5. SumOver(cGot)' = SumOver(cGot) - 0 + n
      BY <3>1, <3>3
    <3> HIDE DEF lr, lb, lr2, lb2
    <3> QED BY <1>6, <3>4, <3>5, Amounts
  <2>4. SumOver(cSent)' = SumOver(cSent) /\ SumOver(cSpace)' = SumOver(cSpace) /\ AdjustsOnWay' = AdjustsOnWay /\ cWin' = cWin
    BY <1>1 DEF AdjustsOnWay
  <2>5. Claimed' = Claimed + n
    BY <1>6, <2>3, <2>4, Amounts DEF Claimed
  <2>6. cMyWin' + LenOver(cBuf)' = cMyWin + LenOver(cBuf)
    BY <1>3, <1>6, <2>3, Amounts
  <2>7. ASSUME NEW r \in ChanStreams, cReader'[r] # "adjust" PROVE cGot'[r] = 0
    <3>1. r # s
      BY <1>2, <1>3, <2>7
    <3>2. cReader'[r] = cReader[r] /\ cGot'[r] = cGot[r]
      BY <1>2, <1>3, <3>1
    <3> QED BY <2>7, <3>2 DEF AccountInv
  <2>8. /\ Claimed <= ChanWindow + LenOver(cRead)
        /\ (cConn = "up" /\ \A p \in ChanSides : cClosed[p] = "no") => Claimed = ChanWindow + LenOver(cRead)
        /\ cMyWin + LenOver(cBuf) = ChanWindow
    BY DEF AccountInv
  <2>9. /\ Claimed' <= ChanWindow + LenOver(cRead)'
        /\ (cConn' = "up" /\ \A p \in ChanSides : cClosed'[p] = "no") => Claimed' = ChanWindow + LenOver(cRead)'
    BY <1>1, <1>6, <2>3, <2>5, <2>8, Amounts
  <2> QED BY <2>6, <2>7, <2>8, <2>9 DEF AccountInv
<1>13. ShutInv'
  BY <1>1, ShutKeeps
<1>14. PacketInv'
  BY <1>1 DEF PacketInv
<1>15. WireLive' <=> WireLive
  BY <1>1 DEF WireLive
<1>16. ASSUME NEW r \in ChanStreams PROVE Received(r)' = Received(r)
  <2>1. CASE r = s
    <3>1. cRead'[s] = r2 /\ cBuf'[s] = b2
      BY <1>2, <1>3
    <3>2. Received(s)' = Len(r2) + Len(b2)
      BY <3>1 DEF Received
    <3>3. Len(r2) = Len(cRead[s]) + n /\ Len(b2) = Len(cBuf[s]) - n
      BY <1>7
    <3>4. Len(cRead[s]) \in Nat /\ Len(cBuf[s]) \in Nat
      BY <1>4
    <3>5. Len(r2) + Len(b2) = Len(cRead[s]) + Len(cBuf[s])
      <4> DEFINE lr == Len(cRead[s])  lb == Len(cBuf[s])  lr2 == Len(r2)  lb2 == Len(b2)
      <4>1. lr2 = lr + n /\ lb2 = lb - n /\ lr \in Nat /\ lb \in Nat
        BY <3>3, <3>4
      <4> HIDE DEF lr, lb, lr2, lb2
      <4>2. lr2 + lb2 = lr + lb
        BY <1>6, <4>1
      <4> QED BY <4>2 DEF lr, lb, lr2, lb2
    <3> QED BY <2>1, <3>2, <3>5 DEF Received
  <2>2. CASE r # s
    <3>1. cRead'[r] = cRead[r] /\ cBuf'[r] = cBuf[r]
      BY <1>2, <1>3, <2>2
    <3> QED BY <3>1, ReceivedKeeps
  <2> QED BY <2>1, <2>2
<1>17. ASSUME NEW r \in ChanStreams PROVE RouteInv(r)'
  BY <1>1, <1>15, <1>16, RouteKeeps
<1>18. ASSUME NEW r \in ChanStreams PROVE BufferInv(r)'
  <2>1. CASE r = s
    <3>1. cRead'[s] = r2 /\ cBuf'[s] = b2
      BY <1>2, <1>3
    <3>2. /\ cMark[s] = Unmarked \/ cMark[s] <= cSent[s]
          /\ cBufSt[s] = "closed" => cConn = "down" \/ (cMark[s] # Unmarked /\ cMark[s] <= Received(s))
      BY DEF BufferInv
    <3>3. Counts(cBuf'[s], Len(cRead'[s])) /\ Counts(cRead'[s], 0)
      BY <1>7, <3>1
    <3>4. /\ cMark'[s] = Unmarked \/ cMark'[s] <= cSent'[s]
          /\ cBufSt'[s] = "closed" => cConn' = "down" \/ (cMark'[s] # Unmarked /\ cMark'[s] <= Received(s)')
      BY <1>1, <1>16, <3>2
    <3> QED BY <2>1, <3>3, <3>4 DEF BufferInv
  <2>2. CASE r # s
    <3>1. cRead'[r] = cRead[r] /\ cBuf'[r] = cBuf[r]
      BY <1>2, <1>3, <2>2
    <3> QED BY <1>1, <3>1, BufferKeeps
  <2> QED BY <2>1, <2>2
<1> QED BY <1>10, <1>11, <1>12, <1>13, <1>14, <1>17, <1>18

LEMMA ReadStep ==
    ASSUME ChanInv, NEW s \in ChanStreams, NEW m \in ChanReads, ChanRead(s, m)
    PROVE  ChanInv'
<1>1. CASE AtEnd(s)
  <2>1. /\ cReader[s] = "read" /\ cReader' = [cReader EXCEPT ![s] = "eof"]
        /\ UNCHANGED <<cWire, cBack, cSendVars, cClosed, cMyWin, cBuf, cBufSt, cGot, cRead, cLoop, cConn>>
    BY <1>1 DEF ChanRead, AtEnd
  <2> QED BY <2>1, ReadEndStep
<1> QED BY <1>1, ReadTakeStep

(* The reader tells the peer what it has taken.                             *)
LEMMA AdjustStep == ASSUME ChanInv, NEW s \in ChanStreams, ChanAdjust(s) PROVE ChanInv'
<1> USE DEF ChanInv
<1> DEFINE m == [t |-> "adjust", n |-> cGot[s]]
<1>1. /\ UNCHANGED <<cWire, cSendVars, cClosed, cMyWin, cBuf, cBufSt, cRead, cLoop, cConn>>
      /\ cReader[s] = "adjust" /\ cBack' = Put("reader", m)
      /\ cGot' = [cGot EXCEPT ![s] = 0] /\ cReader' = [cReader EXCEPT ![s] = "read"]
  BY DEF ChanAdjust
<1>2. UNCHANGED <<cWin, cWinShut, cWriter, cLeft, cSpace, cSent, cEOF, cMark>>
  BY <1>1 DEF cSendVars
<1>3. /\ cReader \in [ChanStreams -> {"idle", "read", "adjust", "eof"}] /\ cGot \in [ChanStreams -> Nat]
      /\ cBack \in Seq(BackPackets)
  BY DEF ShapeInv
<1>4. cGot[s] \in Nat /\ cGot[s] <= SumOver(cGot)
  BY StreamAmounts
<1>5. m \in BackPackets /\ Credit(m) = cGot[s]
  BY <1>4 DEF BackPackets, Credit
<1> HIDE DEF m
<1>6. Append(cBack, m) \in Seq(BackPackets)
  BY <1>3, <1>5
<1>7. cBack' \in Seq(BackPackets)
  BY <1>1, <1>3, <1>6, PutReader
<1>8. /\ cReader' \in [ChanStreams -> {"idle", "read", "adjust", "eof"}] /\ cGot' \in [ChanStreams -> Nat]
  BY <1>1, <1>3
<1>9. ShapeInv'
  BY <1>1, <1>2, <1>7, <1>8 DEF ShapeInv
<1>10. WriterInv'
  BY <1>2, WriterKeeps
<1>11. AccountInv'
  <2>1. SumOver([cGot EXCEPT ![s] = 0]) = SumOver(cGot) - cGot[s] + 0
    BY <1>3, SumUpdate
  <2>2. SumOver(cGot)' = SumOver(cGot) - cGot[s]
    BY <1>1, <1>4, <2>1, Amounts
  <2>3. SumOver(cSent)' = SumOver(cSent) /\ SumOver(cSpace)' = SumOver(cSpace) /\ cWin' = cWin
        /\ LenOver(cRead)' = LenOver(cRead) /\ LenOver(cBuf)' = LenOver(cBuf) /\ cMyWin' = cMyWin
    BY <1>1, <1>2
  <2>4. /\ Claimed <= ChanWindow + LenOver(cRead)
        /\ (cConn = "up" /\ \A p \in ChanSides : cClosed[p] = "no") => Claimed = ChanWindow + LenOver(cRead)
        /\ cMyWin + LenOver(cBuf) = ChanWindow
    BY DEF AccountInv
  <2>5. ASSUME NEW r \in ChanStreams, cReader'[r] # "adjust" PROVE cGot'[r] = 0
    <3>1. CASE r = s
      BY <1>1, <1>3, <3>1
    <3>2. CASE r # s
      <4>1. cReader'[r] = cReader[r] /\ cGot'[r] = cGot[r]
        BY <1>1, <1>3, <3>2
      <4> QED BY <2>5, <4>1 DEF AccountInv
    <3> QED BY <3>1, <3>2
  <2>6. CASE cBack' = Append(cBack, m)
    <3>1. AdjustsOnWay' = AdjustsOnWay + cGot[s]
      BY <1>3, <1>5, <2>6, CreditsAppend DEF AdjustsOnWay
    <3>2. Claimed' = Claimed
      BY <1>4, <2>2, <2>3, <3>1, Amounts DEF Claimed
    <3> QED BY <1>1, <2>3, <2>4, <2>5, <3>2 DEF AccountInv
  <2>7. CASE cBack' = cBack /\ ~(CanSend("reader") /\ cLoop["writer"] # "done")
    <3>1. AdjustsOnWay' = AdjustsOnWay
      BY <2>7 DEF AdjustsOnWay
    <3>2. Claimed' <= Claimed /\ Claimed' \in Nat
      BY <1>4, <2>2, <2>3, <3>1, Amounts DEF Claimed
    <3>3. ~(cConn' = "up" /\ \A p \in ChanSides : cClosed'[p] = "no")
      BY <1>1, <2>7 DEF CanSend, ShutInv, ChanSides
    <3>4. Claimed' <= ChanWindow + LenOver(cRead)'
      BY <2>3, <2>4, <3>2, Amounts
    <3> QED BY <2>3, <2>4, <2>5, <3>3, <3>4 DEF AccountInv
  <2> QED BY <1>1, <2>6, <2>7, PutReader
<1>12. ShutInv'
  <2>1. cConn' = "down" \/ cLoop'["writer"] = "done" => cBack' = <<>>
    BY <1>1, PutReader DEF ShutInv, CanSend
  <2> QED BY <1>1, <1>2, <2>1 DEF ShutInv, WireLive
<1>13. PacketInv' /\ \A r \in ChanStreams : RouteInv(r)' /\ BufferInv(r)'
  BY <1>1, <1>2, StreamsKeep
<1> QED BY <1>9, <1>10, <1>11, <1>12, <1>13

------------------------------------------------------------------------------
(* The steps of the loops.                                                  *)

(* What has arrived is never more than what was sent.                       *)
LEMMA ArrivedSent ==
    ASSUME ChanInv
    PROVE  /\ \A s \in ChanStreams : Received(s) \in 0..cSent[s]
           /\ LenOver(cRead) + LenOver(cBuf) <= SumOver(cSent)
<1> USE DEF ChanInv
<1>1. ASSUME NEW s \in ChanStreams PROVE Received(s) \in 0..cSent[s]
  <2>1. cWire \in Seq(WirePackets) /\ cSent[s] \in Nat
    BY StreamAmounts DEF ShapeInv
  <2> QED BY <2>1, RoutedStart DEF RouteInv
<1>2. "out" \in ChanStreams /\ "err" \in ChanStreams
  BY DEF ChanStreams
<1>3. /\ Received("out") \in 0..cSent["out"] /\ Received("err") \in 0..cSent["err"]
      /\ cSent["out"] \in Nat /\ cSent["err"] \in Nat
  BY <1>1, <1>2, StreamAmounts
<1>4. LenOver(cRead) + LenOver(cBuf) = Received("out") + Received("err")
  <2> DEFINE a == Len(cRead["out"])  b == Len(cRead["err"])  c == Len(cBuf["out"])  d == Len(cBuf["err"])
  <2>1. a \in Nat /\ b \in Nat /\ c \in Nat /\ d \in Nat
    BY <1>2, StreamAmounts
  <2>2. LenOver(cRead) = a + b /\ LenOver(cBuf) = c + d /\ Received("out") = a + c /\ Received("err") = b + d
    BY DEF LenOver, Received
  <2> HIDE DEF a, b, c, d
  <2> QED BY <2>1, <2>2
<1>5. LenOver(cRead) + LenOver(cBuf) <= cSent["out"] + cSent["err"]
  BY <1>3, <1>4
<1> QED BY <1>1, <1>5 DEF SumOver

(* The first packet on the wire, as the reader's loop meets it: data fits   *)
(* the window and the packet limit and continues its stream, and an EOF or  *)
(* a close comes after everything that it declares complete.                *)
LEMMA HeadOfWire ==
    ASSUME ChanInv, cWire # <<>>
    PROVE  LET m == Head(cWire) IN
           /\ m \in WirePackets /\ cWire \in Seq(WirePackets) /\ Tail(cWire) \in Seq(WirePackets)
           /\ \A s \in ChanStreams : Routed(Tail(cWire), s, cSent[s], cMark[s], Received(s) + Carried(m, s), WireLive)
           /\ m.t = "data" => /\ m.s \in ChanStreams /\ m.n \in Nat /\ m.n <= ChanPacket /\ m.n <= cMyWin
                              /\ m.from = Received(m.s)
           /\ m.t # "data" => \A s \in ChanStreams : cMark[s] # Unmarked /\ cMark[s] <= Received(s)
<1> USE DEF ChanInv
<1> DEFINE m == Head(cWire)
<1>1. cWire \in Seq(WirePackets)
  BY DEF ShapeInv
<1>2. m \in WirePackets /\ Tail(cWire) \in Seq(WirePackets) /\ m = cWire[1] /\ 1 \in 1..Len(cWire)
  BY <1>1
<1>3. ASSUME NEW s \in ChanStreams
      PROVE  /\ Routed(Tail(cWire), s, cSent[s], cMark[s], Received(s) + Carried(m, s), WireLive)
             /\ Received(s) + Carried(m, s) <= cSent[s] /\ Received(s) \in 0..cSent[s] /\ cSent[s] \in Nat
             /\ m.t = "data" /\ m.s = s => m.from = Received(s)
             /\ m.t # "data" => cMark[s] # Unmarked /\ cMark[s] <= Received(s)
  <2>1. cSent[s] \in Nat
    BY StreamAmounts
  <2>2. Routed(cWire, s, cSent[s], cMark[s], Received(s), WireLive)
    BY DEF RouteInv
  <2> QED BY <1>1, <2>1, <2>2, RoutedTake
<1> HIDE DEF m
<1>4. ASSUME m.t = "data"
      PROVE  m.s \in ChanStreams /\ m.n \in Nat /\ m.n <= ChanPacket /\ m.n <= cMyWin /\ m.from = Received(m.s)
  <2>1. m.s \in ChanStreams /\ m.n \in Nat
    BY <1>2, <1>4 DEF WirePackets, DataPackets, EndPackets
  <2>2. m.n <= ChanPacket
    BY <1>2, <1>4 DEF PacketInv
  <2>3. m.from = Received(m.s)
    BY <1>3, <1>4, <2>1
  <2>4. Carried(m, m.s) = m.n /\ \A s \in ChanStreams : Carried(m, s) \in Nat
    BY <1>4, <2>1 DEF Carried
  <2>5. /\ Received("out") + Carried(m, "out") <= cSent["out"] /\ Received("err") + Carried(m, "err") <= cSent["err"]
        /\ cSent["out"] \in Nat /\ cSent["err"] \in Nat /\ Received("out") \in Nat /\ Received("err") \in Nat
        /\ Carried(m, "out") \in Nat /\ Carried(m, "err") \in Nat
    BY <1>3, <2>4 DEF ChanStreams
  <2>6. m.n <= Carried(m, "out") + Carried(m, "err")
    <3>1. m.s = "out" \/ m.s = "err"
      BY <2>1 DEF ChanStreams
    <3>2. Carried(m, "out") = m.n \/ Carried(m, "err") = m.n
      BY <2>4, <3>1
    <3> QED BY <2>1, <2>5, <3>2
  <2>7. LenOver(cRead) + LenOver(cBuf) = Received("out") + Received("err")
    <3> DEFINE a == Len(cRead["out"])  b == Len(cRead["err"])  c == Len(cBuf["out"])  d == Len(cBuf["err"])
    <3>1. a \in Nat /\ b \in Nat /\ c \in Nat /\ d \in Nat
      BY StreamAmounts DEF ChanStreams
    <3>2. LenOver(cRead) = a + b /\ LenOver(cBuf) = c + d /\ Received("out") = a + c /\ Received("err") = b + d
      BY DEF LenOver, Received
    <3> HIDE DEF a, b, c, d
    <3> QED BY <3>1, <3>2
  <2>8. LenOver(cRead) + LenOver(cBuf) + m.n <= SumOver(cSent)
    <3>1. SumOver(cSent) = cSent["out"] + cSent["err"]
      BY DEF SumOver
    <3> DEFINE k == m.n  a == Received("out")  b == Received("err")  x == Carried(m, "out")  y == Carried(m, "err")
               u == cSent["out"]  v == cSent["err"]
    <3>2. /\ k \in Nat /\ a \in Nat /\ b \in Nat /\ x \in Nat /\ y \in Nat /\ u \in Nat /\ v \in Nat
          /\ a + x <= u /\ b + y <= v /\ k <= x + y
          /\ LenOver(cRead) + LenOver(cBuf) = a + b /\ SumOver(cSent) = u + v
      BY <2>1, <2>5, <2>6, <2>7, <3>1
    <3> HIDE DEF k, a, b, x, y, u, v
    <3>3. LenOver(cRead) + LenOver(cBuf) + k <= SumOver(cSent)
      BY <3>2
    <3> QED BY <3>3 DEF k
  <2>9. SumOver(cSent) <= ChanWindow + LenOver(cRead)
    <3>1. Claimed <= ChanWindow + LenOver(cRead)
      BY DEF AccountInv
    <3>2. SumOver(cSent) <= Claimed
      BY Amounts DEF Claimed
    <3> QED BY <3>1, <3>2, Amounts
  <2>10. cMyWin + LenOver(cBuf) = ChanWindow
    BY DEF AccountInv
  <2>11. m.n <= cMyWin
    <3> DEFINE k == m.n  a == LenOver(cRead)  b == LenOver(cBuf)  u == SumOver(cSent)
    <3>1. cMyWin \in Nat /\ ChanWindow \in Nat /\ a \in Nat /\ b \in Nat /\ u \in Nat
      BY Amounts
    <3>2. k \in Nat /\ a + b + k <= u /\ u <= ChanWindow + a /\ cMyWin + b = ChanWindow
      BY <2>1, <2>8, <2>9, <2>10
    <3> HIDE DEF k, a, b, u
    <3>3. k <= cMyWin
      BY <3>1, <3>2
    <3> QED BY <3>3 DEF k
  <2> QED BY <2>1, <2>2, <2>3, <2>11
<1> QED BY <1>1, <1>2, <1>3, <1>4 DEF m

(* handleData.                                                              *)
LEMMA DataStep == ASSUME ChanInv, ReaderHandles, Head(cWire).t = "data" PROVE ChanInv'
<1> USE DEF ChanInv
<1> DEFINE m == Head(cWire)
<1>1. cWire # <<>> /\ UNCHANGED <<cSendVars, cConn, cBack, cClosed>> /\ HandleData(m) /\ cWire' = Tail(cWire)
  BY DEF ReaderHandles
<1>2. UNCHANGED <<cWin, cWinShut, cWriter, cLeft, cSpace, cSent, cEOF, cMark>>
  BY <1>1 DEF cSendVars
<1>3. /\ m \in WirePackets /\ cWire \in Seq(WirePackets) /\ Tail(cWire) \in Seq(WirePackets)
      /\ \A s \in ChanStreams : Routed(Tail(cWire), s, cSent[s], cMark[s], Received(s) + Carried(m, s), WireLive)
      /\ m.s \in ChanStreams /\ m.n \in Nat /\ m.n <= ChanPacket /\ m.n <= cMyWin
      /\ m.from = Received(m.s) /\ m.t = "data"
  BY <1>1, HeadOfWire
<1> HIDE DEF m
<1>4. PICK s \in ChanStreams : s = m.s
  BY <1>3
<1>5. PICK n \in Nat : n = m.n
  BY <1>3
<1>6. PICK d : d = [i \in 1..n |-> Received(s) + i]
  OBVIOUS
<1>7. Received(s) \in Nat /\ cBuf[s] \in Seq(Nat) /\ Len(cBuf[s]) \in Nat /\ Len(cRead[s]) \in Nat
  BY StreamAmounts
<1>8. /\ cMyWin' = cMyWin - n /\ cBuf' = [cBuf EXCEPT ![s] = cBuf[s] \o d]
      /\ cBufSt' = [cBufSt EXCEPT ![s] = IF cBufSt[s] = "none" THEN "open" ELSE cBufSt[s]]
      /\ UNCHANGED <<cReader, cGot, cRead, cLoop>> /\ n <= cMyWin
  <2>1. ~(m.n > ChanPacket \/ cMyWin < m.n)
    BY <1>3, Amounts
  <2> QED BY <1>1, <1>3, <1>4, <1>5, <1>6, <2>1 DEF HandleData
<1>9. d \in Seq(Nat) /\ Len(d) = n /\ Counts(d, Received(s))
  BY <1>6, <1>7 DEF Counts
<1>10. PICK b2 : b2 = cBuf[s] \o d
  OBVIOUS
<1>11. b2 \in Seq(Nat) /\ Len(b2) = Len(cBuf[s]) + n /\ Counts(b2, Len(cRead[s]))
  <2>1. Counts(cBuf[s], Len(cRead[s])) /\ Received(s) = Len(cRead[s]) + Len(cBuf[s])
    BY DEF BufferInv, Received
  <2>2. Counts(d, Len(cRead[s]) + Len(cBuf[s]))
    BY <1>9, <2>1
  <2> QED BY <1>7, <1>9, <1>10, <2>1, <2>2, CountsConcat, ConcatElements
<1>12. /\ cBuf \in [ChanStreams -> Seq(Nat)]
       /\ cBufSt \in [ChanStreams -> {"none", "open", "closed"}] /\ cBufSt["out"] # "none"
  BY DEF ShapeInv
<1>13. cBuf' = [cBuf EXCEPT ![s] = b2]
  BY <1>8, <1>10
<1>14. /\ cBuf' \in [ChanStreams -> Seq(Nat)] /\ cMyWin' \in Nat
       /\ cBufSt' \in [ChanStreams -> {"none", "open", "closed"}] /\ cBufSt'["out"] # "none"
       /\ \A r \in ChanStreams : cBufSt'[r] = "closed" => cBufSt[r] = "closed"
  <2>1. cMyWin' \in Nat
    BY <1>8, Amounts
  <2>2. cBuf' \in [ChanStreams -> Seq(Nat)]
    BY <1>11, <1>12, <1>13
  <2> QED BY <1>8, <1>12, <2>1, <2>2 DEF ChanStreams
<1>15. ShapeInv'
  BY <1>1, <1>2, <1>3, <1>8, <1>14 DEF ShapeInv
<1>16. WriterInv'
  BY <1>2, WriterKeeps
<1>17. AccountInv'
  <2>1. LenOver([cBuf EXCEPT ![s] = b2]) = LenOver(cBuf) - Len(cBuf[s]) + Len(b2)
    BY <1>11, <1>12, LenUpdate
  <2>2. LenOver(cBuf)' = LenOver(cBuf) + n
    <3> DEFINE lb == Len(cBuf[s])
    <3>1. LenOver(cBuf)' = LenOver(cBuf) - lb + (lb + n) /\ lb \in Nat
      BY <1>7, <1>11, <1>13, <2>1
    <3> HIDE DEF lb
    <3> QED BY <3>1, Amounts
  <2>3. cMyWin' + LenOver(cBuf)' = cMyWin + LenOver(cBuf)
    BY <1>8, <2>2, Amounts
  <2>4. LenOver(cRead)' = LenOver(cRead) /\ Claimed' = Claimed
    BY <1>1, <1>2, <1>8 DEF Claimed, AdjustsOnWay
  <2> QED BY <1>1, <1>8, <2>3, <2>4 DEF AccountInv
<1>18. WireLive' <=> WireLive
  BY <1>1, <1>8 DEF WireLive
<1>19. ShutInv'
  <2>1. ~WireLive' => cWire' = <<>>
    BY <1>1, <1>18 DEF ShutInv
  <2> QED BY <1>1, <1>2, <1>8, <2>1 DEF ShutInv
<1>20. PacketInv'
  BY <1>1, <1>3 DEF PacketInv
<1>21. ASSUME NEW r \in ChanStreams
       PROVE  Received(r)' = Received(r) + Carried(m, r) /\ Carried(m, r) \in Nat
  <2>1. CASE r = s
    <3>1. cRead'[s] = cRead[s] /\ cBuf'[s] = b2
      BY <1>8, <1>12, <1>13
    <3> DEFINE lr == Len(cRead[s])  lb == Len(cBuf[s])
    <3>2. Received(s)' = lr + (lb + n) /\ Received(s) = lr + lb /\ lr \in Nat /\ lb \in Nat
      BY <1>7, <1>11, <3>1 DEF Received
    <3>3. Carried(m, s) = n
      BY <1>3, <1>4, <1>5 DEF Carried
    <3> HIDE DEF lr, lb
    <3>4. Received(s)' = Received(s) + n
      BY <3>2
    <3> QED BY <2>1, <3>3, <3>4
  <2>2. CASE r # s
    <3>1. cRead'[r] = cRead[r] /\ cBuf'[r] = cBuf[r]
      BY <1>8, <1>12, <1>13, <2>2
    <3>2. Carried(m, r) = 0
      BY <1>4, <2>2 DEF Carried
    <3>3. Received(r)' = Received(r) /\ Received(r) \in Nat
      BY <3>1, ReceivedKeeps, StreamAmounts
    <3> QED BY <3>2, <3>3
  <2> QED BY <2>1, <2>2
<1>22. ASSUME NEW r \in ChanStreams PROVE RouteInv(r)'
  <2>1. Routed(Tail(cWire), r, cSent[r], cMark[r], Received(r)', WireLive)
    BY <1>3, <1>21
  <2>2. Routed(Tail(cWire), r, cSent[r], cMark[r], Received(r)', WireLive')
    BY <1>18, <2>1, RoutedLive
  <2> QED BY <1>1, <1>2, <2>2 DEF RouteInv
<1>23. ASSUME NEW r \in ChanStreams PROVE BufferInv(r)'
  <2>1. Counts(cBuf'[r], Len(cRead'[r])) /\ Counts(cRead'[r], 0)
    <3>1. CASE r = s
      <4>1. cRead'[s] = cRead[s] /\ cBuf'[s] = b2
        BY <1>8, <1>12, <1>13
      <4> QED BY <1>11, <3>1, <4>1 DEF BufferInv
    <3>2. CASE r # s
      <4>1. cRead'[r] = cRead[r] /\ cBuf'[r] = cBuf[r]
        BY <1>8, <1>12, <1>13, <3>2
      <4> QED BY <4>1 DEF BufferInv
    <3> QED BY <3>1, <3>2
  <2>2. /\ cMark[r] = Unmarked \/ cMark[r] <= cSent[r]
        /\ cBufSt[r] = "closed" => cConn = "down" \/ (cMark[r] # Unmarked /\ cMark[r] <= Received(r))
    BY DEF BufferInv
  <2>3. cMark[r] \in Nat /\ Received(r) \in Nat
    <3>1. cMark \in [ChanStreams -> 0..Unmarked] /\ Unmarked \in Nat
      BY ChanConstants DEF ShapeInv, Unmarked
    <3> QED BY <3>1, StreamAmounts
  <2>4. cMark[r] <= Received(r) => cMark[r] <= Received(r)'
    BY <1>21, <2>3
  <2>5. /\ cMark'[r] = Unmarked \/ cMark'[r] <= cSent'[r]
        /\ cBufSt'[r] = "closed" => cConn' = "down" \/ (cMark'[r] # Unmarked /\ cMark'[r] <= Received(r)')
    BY <1>1, <1>2, <1>14, <2>2, <2>4
  <2> QED BY <2>1, <2>5 DEF BufferInv
<1> QED BY <1>15, <1>16, <1>17, <1>19, <1>20, <1>22, <1>23

(* handlePacket, an EOF.                                                    *)
LEMMA EofStep == ASSUME ChanInv, ReaderHandles, Head(cWire).t = "eof" PROVE ChanInv'
<1> USE DEF ChanInv
<1>1. /\ cWire # <<>> /\ cWire' = Tail(cWire) /\ cBufSt' = ShutBuffers
      /\ UNCHANGED <<cSendVars, cConn, cBack, cClosed, cMyWin, cBuf, cReader, cGot, cRead, cLoop>>
  BY DEF ReaderHandles
<1>2. UNCHANGED <<cWin, cWinShut, cWriter, cLeft, cSpace, cSent, cEOF, cMark>>
  BY <1>1 DEF cSendVars
<1>3. PICK m : m = Head(cWire)
  OBVIOUS
<1>4. /\ cWire \in Seq(WirePackets) /\ Tail(cWire) \in Seq(WirePackets)
      /\ \A s \in ChanStreams : Routed(Tail(cWire), s, cSent[s], cMark[s], Received(s) + Carried(m, s), WireLive)
      /\ \A s \in ChanStreams : cMark[s] # Unmarked /\ cMark[s] <= Received(s)
  BY <1>1, <1>3, HeadOfWire
<1>5. ASSUME NEW s \in ChanStreams PROVE Received(s) + Carried(m, s) = Received(s)
  <2>1. Carried(m, s) = 0
    BY <1>3 DEF Carried
  <2> QED BY <2>1, StreamAmounts
<1>6. cBufSt' \in [ChanStreams -> {"none", "open", "closed"}] /\ cBufSt'["out"] # "none"
  BY <1>1 DEF ShapeInv, ShutBuffers, ChanStreams
<1>7. ShapeInv'
  BY <1>1, <1>2, <1>4, <1>6 DEF ShapeInv
<1>8. WriterInv'
  BY <1>2, WriterKeeps
<1>9. AccountInv'
  BY <1>1, <1>2, <1>7, AccountKeeps DEF Ending
<1>10. WireLive' <=> WireLive
  BY <1>1 DEF WireLive
<1>11. ShutInv'
  <2>1. ~WireLive' => cWire' = <<>>
    BY <1>1, <1>10 DEF ShutInv
  <2> QED BY <1>1, <1>2, <2>1 DEF ShutInv
<1>12. PacketInv'
  BY <1>1, <1>4 DEF PacketInv
<1>13. ASSUME NEW s \in ChanStreams PROVE RouteInv(s)'
  <2>1. Received(s)' = Received(s)
    BY <1>1, ReceivedKeeps
  <2>2. Routed(Tail(cWire), s, cSent[s], cMark[s], Received(s), WireLive)
    BY <1>4, <1>5
  <2>3. Routed(Tail(cWire), s, cSent[s], cMark[s], Received(s), WireLive')
    BY <1>10, <2>2, RoutedLive
  <2> QED BY <1>1, <1>2, <2>1, <2>3 DEF RouteInv
<1>14. ASSUME NEW s \in ChanStreams PROVE BufferInv(s)'
  <2>1. Received(s)' = Received(s)
    BY <1>1, ReceivedKeeps
  <2> QED BY <1>1, <1>2, <1>4, <2>1 DEF BufferInv
<1> QED BY <1>7, <1>8, <1>9, <1>11, <1>12, <1>13, <1>14

(* channel.close on the reading side, once the transport is gone or what    *)
(* was declared complete has arrived; credits on the way may be left.       *)
LEMMA ReaderShutStep ==
    ASSUME ChanInv, ReaderShuts, UNCHANGED <<cSendVars, cConn>>,
           cConn = "down" \/ \A s \in ChanStreams : cMark[s] # Unmarked /\ cMark[s] <= Received(s),
           cBack' \in Seq(BackPackets), TotalOf(Credits(cBack')) <= TotalOf(Credits(cBack)),
           cConn = "down" \/ cLoop["writer"] = "done" => cBack' = <<>>
    PROVE  ChanInv'
<1> USE DEF ChanInv
<1>1. /\ cClosed' = [cClosed EXCEPT !["reader"] = "yes"] /\ cBufSt' = ShutBuffers
      /\ cLoop' = [cLoop EXCEPT !["reader"] = "done"] /\ cWire' = <<>>
      /\ UNCHANGED <<cMyWin, cBuf, cReader, cGot, cRead>>
  BY DEF ReaderShuts
<1>2. UNCHANGED <<cWin, cWinShut, cWriter, cLeft, cSpace, cSent, cEOF, cMark>>
  BY DEF cSendVars
<1>3. cClosed \in [ChanSides -> {"no", "yes"}] /\ cLoop \in [ChanSides -> {"run", "done"}]
  BY DEF ShapeInv
<1>4. /\ cClosed' \in [ChanSides -> {"no", "yes"}] /\ cLoop' \in [ChanSides -> {"run", "done"}]
      /\ cClosed'["reader"] = "yes" /\ cLoop'["reader"] = "done" /\ "reader" \in ChanSides
      /\ cClosed'["writer"] = cClosed["writer"] /\ cLoop'["writer"] = cLoop["writer"]
  BY <1>1, <1>3 DEF ChanSides
<1>5. cBufSt' \in [ChanStreams -> {"none", "open", "closed"}] /\ cBufSt'["out"] # "none"
  BY <1>1 DEF ShapeInv, ShutBuffers, ChanStreams
<1>6. cWire' \in Seq(WirePackets)
  BY <1>1
<1>7. ShapeInv'
  BY <1>1, <1>2, <1>4, <1>5, <1>6 DEF ShapeInv
<1>8. WriterInv'
  BY <1>2, WriterKeeps
<1>9. AccountInv'
  <2>1. Ending'
    BY <1>4 DEF Ending
  <2> QED BY <1>1, <1>2, <2>1, AccountEnds
<1>10. ~WireLive'
  BY <1>4 DEF WireLive
<1>11. ShutInv'
  BY <1>1, <1>2, <1>4, <1>10 DEF ShutInv, ChanSides
<1>12. PacketInv'
  BY <1>1 DEF PacketInv
<1>13. ASSUME NEW s \in ChanStreams PROVE RouteInv(s)' /\ BufferInv(s)'
  <2>1. Received(s)' = Received(s)
    BY <1>1, ReceivedKeeps
  <2>2. RouteInv(s)'
    BY <1>1, <1>2, <1>10, <2>1, RouteDrops
  <2>3. BufferInv(s)'
    BY <1>1, <1>2, <2>1 DEF BufferInv
  <2> QED BY <2>2, <2>3
<1> QED BY <1>7, <1>8, <1>9, <1>11, <1>12, <1>13

LEMMA ReaderHandlesStep == ASSUME ChanInv, ReaderHandles PROVE ChanInv'
<1>1. CASE Head(cWire).t = "data"
  BY <1>1, DataStep
<1>2. CASE Head(cWire).t = "eof"
  BY <1>2, EofStep
<1>3. CASE Head(cWire).t # "data" /\ Head(cWire).t # "eof"
  <2> DEFINE m == [t |-> "close"]
  <2>1. cWire # <<>> /\ cBack' = Put("reader", m) /\ ReaderShuts /\ UNCHANGED <<cSendVars, cConn>>
    BY <1>3 DEF ReaderHandles
  <2>2. m \in BackPackets /\ Credit(m) = 0
    BY DEF BackPackets, Credit
  <2> HIDE DEF m
  <2>3. cBack \in Seq(BackPackets)
    BY DEF ChanInv, ShapeInv
  <2>4. cBack' = IF CanSend("reader") /\ cLoop["writer"] # "done" THEN Append(cBack, m) ELSE cBack
    BY <2>1, PutReader DEF ChanInv
  <2>5. cBack' \in Seq(BackPackets) /\ TotalOf(Credits(cBack')) <= TotalOf(Credits(cBack))
    <3>1. CASE cBack' = cBack
      BY <2>3, <3>1, CreditsNat
    <3>2. CASE cBack' = Append(cBack, m)
      <4>1. TotalOf(Credits(cBack)) \in Nat /\ TotalOf(Credits(Append(cBack, m))) = TotalOf(Credits(cBack)) + 0
        BY <2>2, <2>3, CreditsAppend
      <4>2. Append(cBack, m) \in Seq(BackPackets)
        BY <2>2, <2>3
      <4> QED BY <3>2, <4>1, <4>2
    <3> QED BY <2>4, <3>1, <3>2
  <2>6. cConn = "down" \/ cLoop["writer"] = "done" => cBack' = <<>>
    BY <2>4 DEF ChanInv, ShutInv, CanSend
  <2>7. \A s \in ChanStreams : cMark[s] # Unmarked /\ cMark[s] <= Received(s)
    BY <1>3, <2>1, HeadOfWire
  <2> QED BY <2>1, <2>5, <2>6, <2>7, ReaderShutStep
<1> QED BY <1>1, <1>2, <1>3

(* A window adjustment arrives: what it adds fits the window, and the sum   *)
(* is far from wrapping around.                                             *)
LEMMA AdjustArrives == ASSUME ChanInv, WriterHandles, Head(cBack).t = "adjust" PROVE ChanInv'
<1> USE DEF ChanInv
<1> DEFINE n == Head(cBack).n
<1>1. /\ cBack # <<>> /\ cBack' = Tail(cBack) /\ UNCHANGED <<cWriter, cLeft, cSpace, cSent, cEOF, cRecvVars, cConn>>
      /\ UNCHANGED <<cWire, cMark, cClosed, cWinShut>>
  BY DEF WriterHandles
<1>2. UNCHANGED <<cMyWin, cBuf, cBufSt, cReader, cGot, cRead>>
  BY <1>1 DEF cRecvVars
<1>3. cBack \in Seq(BackPackets) /\ Head(cBack) \in BackPackets /\ Tail(cBack) \in Seq(BackPackets)
  BY <1>1 DEF ShapeInv
<1>4. n \in Nat /\ Credit(Head(cBack)) = n
  BY <1>3 DEF BackPackets, Credit
<1>5. AdjustsOnWay = n + AdjustsOnWay' /\ AdjustsOnWay' \in Nat
  BY <1>1, <1>3, <1>4, CreditsTail DEF AdjustsOnWay
<1>6. IF WindowAdds(cWin, n) THEN cWin' = (cWin + n) % ChanModulus /\ cLoop' = cLoop
      ELSE cLoop' = [cLoop EXCEPT !["writer"] = "protocolError"] /\ cWin' = cWin
  BY DEF WriterHandles
<1> HIDE DEF n
<1>7. cWin + n <= ChanWindow
  <2>1. Claimed <= ChanWindow + LenOver(cRead) /\ LenOver(cRead) + LenOver(cBuf) <= SumOver(cSent)
    BY ArrivedSent DEF AccountInv
  <2>2. cWin + n + SumOver(cSent) <= Claimed
    BY <1>4, <1>5, Amounts DEF Claimed
  <2> QED BY <1>4, <2>1, <2>2, Amounts
<1>8. cWin + n \in Nat /\ cWin + n < ChanModulus /\ cWin + n >= n
  BY <1>4, <1>7, Amounts, ChanConstants
<1>9. (cWin + n) % ChanModulus = cWin + n
  BY <1>8, SmallModulo, Amounts
<1>10. cWin' = cWin + n /\ cLoop' = cLoop
  BY <1>6, <1>8, <1>9 DEF WindowAdds
<1>11. ShapeInv'
  BY <1>1, <1>2, <1>3, <1>8, <1>10 DEF ShapeInv
<1>12. WriterInv'
  BY <1>1, WriterKeeps
<1>13. AccountInv'
  <2>1. SumOver(cGot)' = SumOver(cGot) /\ SumOver(cSent)' = SumOver(cSent) /\ SumOver(cSpace)' = SumOver(cSpace)
        /\ LenOver(cRead)' = LenOver(cRead) /\ LenOver(cBuf)' = LenOver(cBuf)
    BY <1>1, <1>2
  <2>2. Claimed' = Claimed
    BY <1>4, <1>5, <1>10, <2>1, Amounts DEF Claimed
  <2> QED BY <1>1, <1>2, <2>1, <2>2 DEF AccountInv
<1>14. ShutInv'
  BY <1>1, <1>2, <1>10 DEF ShutInv, WireLive
<1>15. PacketInv' /\ \A r \in ChanStreams : RouteInv(r)' /\ BufferInv(r)'
  BY <1>1, <1>2, <1>10, StreamsKeep
<1> QED BY <1>11, <1>12, <1>13, <1>14, <1>15

(* channel.close on the writing side.                                       *)
LEMMA WriterShutStep ==
    ASSUME ChanInv, WriterShuts, UNCHANGED <<cWin, cWriter, cLeft, cSpace, cSent, cEOF, cRecvVars, cConn>>,
           cWire' \in Seq(WirePackets), cMark' \in [ChanStreams -> 0..Unmarked],
           PacketInv', ~WireLive' => cWire' = <<>>, \A s \in ChanStreams : RouteInv(s)' /\ BufferInv(s)'
    PROVE  ChanInv'
<1> USE DEF ChanInv
<1>1. /\ cClosed' = [cClosed EXCEPT !["writer"] = "yes"] /\ cWinShut' = "yes"
      /\ cLoop' = [cLoop EXCEPT !["writer"] = "done"] /\ cBack' = <<>>
  BY DEF WriterShuts
<1>2. UNCHANGED <<cMyWin, cBuf, cBufSt, cReader, cGot, cRead>>
  BY DEF cRecvVars
<1>3. cClosed \in [ChanSides -> {"no", "yes"}] /\ cLoop \in [ChanSides -> {"run", "done"}]
  BY DEF ShapeInv
<1>4. /\ cClosed' \in [ChanSides -> {"no", "yes"}] /\ cLoop' \in [ChanSides -> {"run", "done"}]
      /\ cClosed'["writer"] = "yes" /\ cLoop'["writer"] = "done" /\ "writer" \in ChanSides
      /\ cClosed'["reader"] = cClosed["reader"] /\ cLoop'["reader"] = cLoop["reader"]
  BY <1>1, <1>3 DEF ChanSides
<1>5. cBack' \in Seq(BackPackets)
  BY <1>1
<1>6. ShapeInv'
  BY <1>1, <1>2, <1>4, <1>5 DEF ShapeInv
<1>7. WriterInv'
  BY WriterKeeps
<1>8. AccountInv'
  <2>1. Ending'
    BY <1>4 DEF Ending
  <2>2. TotalOf(Credits(cBack')) = 0 /\ TotalOf(Credits(cBack)) \in Nat
    BY <1>1, CreditsEmpty, CreditsNat DEF ShapeInv
  <2>3. TotalOf(Credits(cBack')) <= TotalOf(Credits(cBack))
    BY <2>2
  <2> QED BY <1>2, <1>5, <2>1, <2>3, AccountEnds
<1>9. ShutInv'
  BY <1>1, <1>4 DEF ShutInv, ChanSides
<1> QED BY <1>6, <1>7, <1>8, <1>9

LEMMA WriterHandlesStep == ASSUME ChanInv, WriterHandles PROVE ChanInv'
<1>1. CASE Head(cBack).t = "adjust"
  BY <1>1, AdjustArrives
<1>2. CASE Head(cBack).t # "adjust"
  <2>1. /\ cWire' = Put("writer", [t |-> "close"]) /\ cMark' = IF CanSend("writer") THEN Marked ELSE cMark
        /\ WriterShuts /\ UNCHANGED <<cWin, cWriter, cLeft, cSpace, cSent, cEOF, cRecvVars, cConn>>
    BY <1>2 DEF WriterHandles
  <2>2. [t |-> "close"] \in EndPackets
    BY DEF EndPackets
  <2>3. UNCHANGED <<cSent, cRecvVars, cConn>> /\ cLoop'["reader"] = cLoop["reader"]
    BY <2>1 DEF WriterShuts, ChanInv, ShapeInv, ChanSides
  <2>4. /\ cWire' \in Seq(WirePackets) /\ cMark' \in [ChanStreams -> 0..Unmarked]
        /\ PacketInv' /\ (~WireLive' => cWire' = <<>>)
        /\ \A s \in ChanStreams : RouteInv(s)' /\ BufferInv(s)'
    BY <2>1, <2>2, <2>3, EndSent
  <2> QED BY <2>1, <2>4, WriterShutStep
<1> QED BY <1>1, <1>2

LEMMA LoopFailsStep == ASSUME ChanInv, NEW p \in ChanSides, LoopFails(p) PROVE ChanInv'
<1>1. cConn = "down" /\ cConn' = cConn
  BY DEF LoopFails, ChanInv, ShapeInv
<1>2. CASE p = "reader"
  <2>1. ReaderShuts /\ UNCHANGED <<cBack, cSendVars>>
    BY <1>2 DEF LoopFails
  <2>2. cBack' \in Seq(BackPackets) /\ TotalOf(Credits(cBack')) <= TotalOf(Credits(cBack))
    BY <2>1, CreditsNat DEF ChanInv, ShapeInv
  <2>3. cConn = "down" \/ cLoop["writer"] = "done" => cBack' = <<>>
    BY <2>1 DEF ChanInv, ShutInv
  <2> QED BY <1>1, <2>1, <2>2, <2>3, ReaderShutStep
<1>3. CASE p = "writer"
  <2>1. WriterShuts /\ UNCHANGED <<cWire, cWin, cWriter, cLeft, cSpace, cSent, cEOF, cMark, cRecvVars>>
    BY <1>3 DEF LoopFails
  <2>2. cLoop'["reader"] = cLoop["reader"]
    BY <2>1 DEF WriterShuts, ChanInv, ShapeInv, ChanSides
  <2>3. PacketInv' /\ \A r \in ChanStreams : RouteInv(r)' /\ BufferInv(r)'
    BY <1>1, <2>1, <2>2, StreamsKeep DEF cRecvVars
  <2>4. cWire' \in Seq(WirePackets) /\ cMark' \in [ChanStreams -> 0..Unmarked]
    BY <2>1 DEF ChanInv, ShapeInv
  <2>5. ~WireLive' => cWire' = <<>>
    BY <1>1, <2>1, <2>2 DEF ChanInv, ShutInv, WireLive
  <2> QED BY <1>1, <2>1, <2>3, <2>4, <2>5, WriterShutStep
<1> QED BY <1>2, <1>3 DEF ChanSides

LEMMA ConnLostStep == ASSUME ChanInv, ChanConnLost PROVE ChanInv'
<1> USE DEF ChanInv
<1>1. cConn' = "down" /\ cWire' = <<>> /\ cBack' = <<>> /\ UNCHANGED <<cSendVars, cClosed, cRecvVars, cLoop>>
  BY DEF ChanConnLost
<1>2. UNCHANGED <<cMyWin, cBuf, cBufSt, cReader, cGot, cRead, cWin, cWinShut, cWriter, cLeft, cSpace, cSent, cEOF, cMark>>
  BY <1>1 DEF cRecvVars, cSendVars
<1>3. cWire' \in Seq(WirePackets) /\ cBack' \in Seq(BackPackets)
  BY <1>1
<1>4. ShapeInv'
  BY <1>1, <1>2, <1>3 DEF ShapeInv
<1>5. WriterInv'
  BY <1>2, WriterKeeps
<1>6. AccountInv'
  <2>1. Ending'
    BY <1>1 DEF Ending
  <2>2. TotalOf(Credits(cBack')) = 0 /\ TotalOf(Credits(cBack)) \in Nat
    BY <1>1, CreditsEmpty, CreditsNat DEF ShapeInv
  <2>3. TotalOf(Credits(cBack')) <= TotalOf(Credits(cBack))
    BY <2>2
  <2> QED BY <1>2, <1>3, <2>1, <2>3, AccountEnds
<1>7. ShutInv' /\ ~WireLive'
  BY <1>1, <1>2 DEF ShutInv, WireLive
<1>8. PacketInv'
  BY <1>1 DEF PacketInv
<1>9. ASSUME NEW s \in ChanStreams PROVE RouteInv(s)' /\ BufferInv(s)'
  <2>1. Received(s)' = Received(s)
    BY <1>2, ReceivedKeeps
  <2>2. RouteInv(s)'
    BY <1>1, <1>2, <1>7, <2>1, RouteDrops
  <2>3. BufferInv(s)'
    BY <1>1, <1>2, <2>1 DEF BufferInv
  <2> QED BY <2>2, <2>3
<1> QED BY <1>4, <1>5, <1>6, <1>7, <1>8, <1>9

------------------------------------------------------------------------------
LEMMA ChanInitInv == ChanInit => ChanInv
<1> SUFFICES ASSUME ChanInit PROVE ChanInv
  OBVIOUS
<1> USE DEF ChanInit
<1>1. cWire \in Seq(WirePackets) /\ cBack \in Seq(BackPackets)
  OBVIOUS
<1>2. cMark \in [ChanStreams -> 0..Unmarked] /\ Unmarked \in Nat
  BY ChanConstants DEF Unmarked
<1>3. cWin \in Nat /\ cMyWin \in Nat
  BY ChanConstants
<1>4. /\ cBuf \in [ChanStreams -> Seq(Nat)] /\ cRead \in [ChanStreams -> Seq(Nat)]
      /\ \A s \in ChanStreams : cBuf[s] = <<>> /\ cRead[s] = <<>>
  OBVIOUS
<1>5. /\ cLeft \in [ChanStreams -> Nat] /\ cSpace \in [ChanStreams -> Nat] /\ cSent \in [ChanStreams -> Nat]
      /\ cGot \in [ChanStreams -> Nat]
      /\ cWriter \in [ChanStreams -> {"idle", "reserve", "send", "failed"}]
      /\ cBufSt \in [ChanStreams -> {"none", "open", "closed"}] /\ cBufSt["out"] # "none"
      /\ cReader \in [ChanStreams -> {"idle", "read", "adjust", "eof"}]
  BY DEF ChanStreams
<1>6. ShapeInv
  BY <1>1, <1>2, <1>3, <1>4, <1>5 DEF ShapeInv
<1>7. /\ SumOver(cSent) = 0 /\ SumOver(cLeft) = 0 /\ SumOver(cSpace) = 0 /\ SumOver(cGot) = 0
  BY DEF SumOver, ChanStreams
<1>8. WriterInv
  BY <1>7, ChanConstants DEF WriterInv
<1>9. LenOver(cBuf) = 0 /\ LenOver(cRead) = 0
  BY <1>4 DEF LenOver, ChanStreams
<1>10. AccountInv
  <2>1. AdjustsOnWay = 0
    BY CreditsEmpty DEF AdjustsOnWay
  <2>2. Claimed = ChanWindow
    BY <1>7, <2>1, ChanConstants DEF Claimed
  <2> QED BY <1>9, <2>2, ChanConstants DEF AccountInv
<1>11. ShutInv
  BY DEF ShutInv, WireLive
<1>12. PacketInv
  BY DEF PacketInv
<1>13. ASSUME NEW s \in ChanStreams PROVE RouteInv(s) /\ BufferInv(s)
  <2>1. Received(s) = 0 /\ cSent[s] = 0 /\ cMark[s] = Unmarked /\ cBufSt[s] # "closed"
    BY <1>4 DEF Received
  <2>2. Routed(<<>>, s, 0, Unmarked, 0, WireLive)
    BY RoutedEmpty
  <2>3. RouteInv(s)
    BY <2>1, <2>2 DEF RouteInv
  <2>4. BufferInv(s)
    BY <1>4, <2>1 DEF BufferInv, Counts
  <2> QED BY <2>3, <2>4
<1> QED BY <1>6, <1>8, <1>10, <1>11, <1>12, <1>13 DEF ChanInv

(* Every step of the two sides, and every failure, keeps the invariant.     *)
LEMMA ChanNextInv == ChanInv /\ [ChanNext]_chanVars => ChanInv'
<1> SUFFICES ASSUME ChanInv, [ChanNext]_chanVars PROVE ChanInv'
  OBVIOUS
<1>1. ASSUME NEW s \in ChanStreams, NEW n \in 1..ChanBytes, ChanWrite(s, n) PROVE ChanInv'
  BY <1>1, WriteStep
<1>2. ASSUME NEW s \in ChanStreams, ChanReserve(s) PROVE ChanInv'
  BY <1>2, ReserveStep
<1>3. ASSUME NEW s \in ChanStreams, ChanSendData(s) PROVE ChanInv'
  BY <1>3, SendDataStep, SendFailsStep
<1>4. ASSUME NEW s \in ChanStreams, NEW m \in ChanReads, ChanRead(s, m) PROVE ChanInv'
  BY <1>4, ReadStep
<1>5. ASSUME NEW s \in ChanStreams, ChanAdjust(s) PROVE ChanInv'
  BY <1>5, AdjustStep
<1>6. CASE ChanReadStart
  BY <1>6, ReadStartStep
<1>7. CASE ChanCloseWrite
  BY <1>7, CloseWriteStep
<1>8. ASSUME NEW p \in ChanSides, ChanClose(p) PROVE ChanInv'
  BY <1>8, CloseStep
<1>9. ASSUME NEW p \in ChanSides, LoopFails(p) PROVE ChanInv'
  BY <1>9, LoopFailsStep
<1>10. CASE ReaderHandles
  BY <1>10, ReaderHandlesStep
<1>11. CASE WriterHandles
  BY <1>11, WriterHandlesStep
<1>12. CASE ChanConnLost
  BY <1>12, ConnLostStep
<1>13. CASE UNCHANGED chanVars
  <2>1. /\ UNCHANGED <<cWire, cBack, cWin, cWinShut, cWriter, cLeft, cSpace, cSent, cEOF, cMark, cClosed, cLoop, cConn>>
        /\ UNCHANGED <<cMyWin, cBuf, cBufSt, cReader, cGot, cRead>>
    BY <1>13 DEF chanVars, cSendVars, cRecvVars
  <2>2. ShapeInv'
    BY <2>1 DEF ChanInv, ShapeInv
  <2>3. AccountInv'
    BY <2>1, <2>2, AccountKeeps DEF ChanInv, Ending
  <2>4. WriterInv' /\ ShutInv'
    BY <2>1, WriterKeeps, ShutKeeps DEF ChanInv
  <2>5. PacketInv' /\ \A r \in ChanStreams : RouteInv(r)' /\ BufferInv(r)'
    BY <2>1, StreamsKeep
  <2> QED BY <2>2, <2>3, <2>4, <2>5 DEF ChanInv
<1> QED BY <1>1, <1>2, <1>3, <1>4, <1>5, <1>6, <1>7, <1>8, <1>9, <1>10, <1>11, <1>12, <1>13 DEF ChanNext

(* What the invariant says of the channel's windows and loops.              *)
LEMMA ChanInvReliable == ChanInv => ChanReliable
<1> SUFFICES ASSUME ChanInv PROVE ChanReliable
  OBVIOUS
<1> USE DEF ChanInv
<1>1. /\ LenOver(cRead) + LenOver(cBuf) <= SumOver(cSent) /\ Claimed <= ChanWindow + LenOver(cRead)
      /\ cMyWin + LenOver(cBuf) = ChanWindow
  BY ArrivedSent DEF AccountInv
<1>2. cWin \in 0..ChanWindow /\ cMyWin \in 0..ChanWindow /\ SumOver(cGot) <= ChanWindow
  <2>1. cWin + SumOver(cGot) + SumOver(cSent) <= Claimed
    BY Amounts DEF Claimed
  <2> QED BY <1>1, <2>1, Amounts
<1>3. SumOver(cSent) + SumOver(cLeft) <= ChanBytes
  BY DEF WriterInv
<1>4. ASSUME NEW s \in ChanStreams
      PROVE  /\ cLeft[s] \in 0..ChanBytes /\ cSent[s] \in 0..ChanBytes /\ cSpace[s] \in 0..ChanBytes
             /\ cGot[s] \in 0..ChanWindow
             /\ cBuf[s] \in Seq(1..ChanBytes) /\ cRead[s] \in Seq(1..ChanBytes)
  <2>1. /\ cSpace[s] \in Nat /\ cSent[s] \in Nat /\ cGot[s] \in Nat /\ cLeft[s] \in Nat
        /\ cSent[s] <= SumOver(cSent) /\ cGot[s] <= SumOver(cGot) /\ cLeft[s] <= SumOver(cLeft)
    BY StreamAmounts
  <2>2. cLeft[s] \in 0..ChanBytes /\ cSent[s] \in 0..ChanBytes /\ cGot[s] \in 0..ChanWindow
    BY <1>2, <1>3, <2>1, Amounts
  <2>3. cSpace[s] = 0 \/ cSpace[s] <= cLeft[s]
    BY DEF WriterInv
  <2>4. cSpace[s] \in 0..ChanBytes
    BY <2>1, <2>2, <2>3, Amounts
  <2>5. Received(s) \in 0..cSent[s] /\ Counts(cBuf[s], Len(cRead[s])) /\ Counts(cRead[s], 0)
    BY ArrivedSent DEF BufferInv
  <2>6. cRead[s] \in Seq(Nat) /\ cBuf[s] \in Seq(Nat)
    BY StreamAmounts
  <2>7. /\ Len(cRead[s]) \in Nat /\ Len(cBuf[s]) \in Nat /\ Len(cRead[s]) + Len(cBuf[s]) <= ChanBytes
    <3>1. Len(cRead[s]) \in Nat /\ Len(cBuf[s]) \in Nat
      BY StreamAmounts
    <3>2. Received(s) <= ChanBytes
      BY <2>2, <2>5, Amounts
    <3> QED BY <3>1, <3>2 DEF Received
  <2>8. cRead[s] \in Seq(1..ChanBytes)
    <3> DEFINE a == Len(cRead[s])  b == Len(cBuf[s])
    <3>1. a \in Nat /\ b \in Nat /\ a + b <= ChanBytes
      BY <2>7
    <3> HIDE DEF a, b
    <3>2. 0 + a <= ChanBytes /\ ChanBytes \in Nat
      BY <3>1, Amounts
    <3>3. 0 + Len(cRead[s]) <= ChanBytes
      BY <3>2 DEF a
    <3> QED BY <2>5, <2>6, <3>2, <3>3, CountsBounded
  <2>9. cBuf[s] \in Seq(1..ChanBytes)
    BY <2>5, <2>6, <2>7, Amounts, CountsBounded
  <2> QED BY <2>2, <2>4, <2>8, <2>9
<1>5. ChanTypeOK
  <2>1. /\ cLeft \in [ChanStreams -> 0..ChanBytes] /\ cSent \in [ChanStreams -> 0..ChanBytes]
        /\ cSpace \in [ChanStreams -> 0..ChanBytes] /\ cGot \in [ChanStreams -> 0..ChanWindow]
    BY <1>4 DEF ShapeInv
  <2>2. cBuf \in [ChanStreams -> Seq(1..ChanBytes)] /\ cRead \in [ChanStreams -> Seq(1..ChanBytes)]
    BY <1>4 DEF ShapeInv
  <2> QED BY <1>2, <2>1, <2>2 DEF ChanTypeOK, ShapeInv
<1>6. ChanConserved
  <2>1. SUFFICES ASSUME cConn = "up" /\ \A p \in ChanSides : cClosed[p] = "no"
                 PROVE  /\ Claimed = ChanWindow + LenOver(cRead)
                        /\ cMyWin >= cWin + SumOver(cSpace) + AdjustsOnWay
    <3>1. Claimed = ChanWindow + LenOver(cRead)
          => Claimed = ChanWindow + Len(cRead["out"]) + Len(cRead["err"])
      <4> DEFINE a == Len(cRead["out"])  b == Len(cRead["err"])
      <4>1. a \in Nat /\ b \in Nat /\ LenOver(cRead) = a + b
        BY StreamAmounts DEF ChanStreams, LenOver
      <4> HIDE DEF a, b
      <4>2. ChanWindow + LenOver(cRead) = ChanWindow + a + b
        BY <4>1, Amounts
      <4> QED BY <4>2 DEF a, b
    <3> QED BY <3>1 DEF ChanConserved, Claimed
  <2>2. Claimed = ChanWindow + LenOver(cRead)
    BY <2>1 DEF AccountInv
  <2>3. Claimed = (cWin + SumOver(cSpace) + AdjustsOnWay) + SumOver(cSent) + SumOver(cGot)
    BY Amounts DEF Claimed
  <2> QED BY <1>1, <2>2, <2>3, Amounts
<1>7. ChanNoProtocolError
  BY DEF ChanNoProtocolError, ShapeInv
<1> QED BY <1>5, <1>6, <1>7 DEF ChanReliable

(* Windows of every size are kept: nothing of them is lost or made up, and  *)
(* no loop of two sides that run this code ends with "remote side wrote too *)
(* much" or with "invalid window update".                                   *)
THEOREM ChannelIsReliable == ChanSpec => []ChanReliable
<1>1. ChanSpec => []ChanInv
  BY ChanInitInv, ChanNextInv, PTL DEF ChanSpec
<1> QED BY <1>1, ChanInvReliable, PTL

------------------------------------------------------------------------------
(* The channel implements the reliable streams of SshStream.                *)

StreamStep == [Stream!StreamNext]_Stream!streamVars
Ended == {s \in ChanStreams : cReader[s] = "eof"}

LEMMA StreamStutters ==
    ASSUME UNCHANGED <<cSent, cMark, cRead, cConn>>, Ended' = Ended
    PROVE  StreamStep
BY DEF StreamStep, Stream!streamVars, Ended

(* A step that tells only readers that are not at an end.                   *)
LEMMA EndedKeeps ==
    ASSUME ShapeInv, NEW s \in ChanStreams, NEW x, x # "eof", cReader[s] # "eof",
           cReader' = [cReader EXCEPT ![s] = x]
    PROVE  Ended' = Ended
BY DEF Ended, ShapeInv

(* An EOF or a close ends the streams, or is not sent.                      *)
LEMMA EndIsFinish ==
    ASSUME cMark' = IF CanSend("writer") THEN Marked ELSE cMark, UNCHANGED <<cSent, cRead, cConn, cReader>>
    PROVE  StreamStep
<1>1. Ended' = Ended
  BY DEF Ended
<1>2. CASE ~CanSend("writer")
  BY <1>1, <1>2, StreamStutters
<1>3. CASE CanSend("writer")
  <2>1. Stream!Finish
    BY <1>1, <1>3 DEF Stream!Finish, Marked, Ended
  <2> QED BY <2>1 DEF StreamStep, Stream!StreamNext
<1> QED BY <1>2, <1>3

(* A packet of data is a write.                                             *)
LEMMA SendIsWrite ==
    ASSUME ChanInv, NEW s \in ChanStreams, ChanSendData(s)
    PROVE  StreamStep
<1>1. UNCHANGED <<cMark, cRead, cConn, cReader>>
  BY DEF ChanSendData, cRecvVars
<1>2. Ended' = Ended
  BY <1>1 DEF Ended
<1>3. CASE ~CanSend("writer")
  <2>1. cSent' = cSent
    BY <1>3 DEF ChanSendData
  <2> QED BY <1>1, <1>2, <2>1, StreamStutters
<1>4. CASE CanSend("writer")
  <2>1. cSent' = [cSent EXCEPT ![s] = @ + cSpace[s]] /\ cWriter[s] = "send"
    BY <1>4 DEF ChanSendData
  <2>2. cSpace[s] \in 1..ChanBytes
    <3>1. cSpace[s] > 0 /\ cSpace[s] <= cLeft[s] /\ SumOver(cSent) + SumOver(cLeft) <= ChanBytes
      BY <2>1 DEF ChanInv, WriterInv
    <3>2. cSpace[s] \in Nat /\ cLeft[s] \in Nat /\ cLeft[s] <= SumOver(cLeft)
      BY StreamAmounts DEF ChanInv
    <3>3. SumOver(cSent) \in Nat /\ SumOver(cLeft) \in Nat /\ ChanBytes \in Nat
      BY Amounts DEF ChanInv
    <3> QED BY <3>1, <3>2, <3>3
  <2>3. Stream!Write(s)
    BY <1>1, <1>2, <2>1, <2>2 DEF Stream!Write, Ended
  <2> QED BY <2>3 DEF StreamStep, Stream!StreamNext
<1> QED BY <1>3, <1>4

(* A read delivers the next bytes of the stream, or reports its end.        *)
LEMMA ReadIsDelivery ==
    ASSUME ChanInv, NEW s \in ChanStreams, NEW m \in ChanReads, ChanRead(s, m)
    PROVE  StreamStep
<1> USE DEF ChanInv
<1>1. UNCHANGED <<cSent, cMark, cConn>> /\ cReader[s] = "read"
  BY DEF ChanRead, cSendVars
<1>2. CASE AtEnd(s)
  <2>1. cRead' = cRead /\ cReader' = [cReader EXCEPT ![s] = "eof"] /\ cBuf[s] = <<>> /\ cBufSt[s] = "closed"
    BY <1>2 DEF ChanRead, AtEnd
  <2>2. Ended' = Ended \cup {s}
    BY <2>1 DEF Ended, ShapeInv
  <2>3. Received(s) = Len(cRead[s])
    <3>1. Len(cRead[s]) \in Nat /\ Len(cBuf[s]) = 0
      BY <2>1, StreamAmounts
    <3> DEFINE a == Len(cRead[s])  b == Len(cBuf[s])
    <3>2. Received(s) = a + b /\ a \in Nat /\ b = 0
      BY <3>1 DEF Received
    <3> HIDE DEF a, b
    <3>3. Received(s) = a
      BY <3>2
    <3> QED BY <3>3 DEF a
  <2>4. cConn = "down" \/ (cMark[s] # Unmarked /\ cMark[s] <= Len(cRead[s]))
    BY <2>1, <2>3 DEF BufferInv
  <2>5. Stream!End(s)
    BY <1>1, <2>1, <2>2, <2>4 DEF Stream!End, Ended
  <2> QED BY <2>5 DEF StreamStep, Stream!StreamNext
<1>3. CASE ~AtEnd(s)
  <2> DEFINE n == LeastOf({m, Len(cBuf[s])})  f == SubSeq(cBuf[s], 1, n)
  <2>1. /\ cRead' = [cRead EXCEPT ![s] = cRead[s] \o f] /\ cReader' = [cReader EXCEPT ![s] = "adjust"]
        /\ cBuf[s] # <<>>
    BY <1>3 DEF ChanRead
  <2>2. /\ Len(cBuf[s]) \in Nat /\ Len(cRead[s]) \in Nat /\ cRead[s] \in Seq(Nat) /\ cBuf[s] \in Seq(Nat)
        /\ cSent[s] \in Nat
    BY StreamAmounts
  <2>3. n \in 1..Len(cBuf[s])
    <3>1. m \in Nat \ {0}
      BY ChanConstants
    <3>2. Len(cBuf[s]) > 0
      BY <2>1, <2>2
    <3>3. n \in {m, Len(cBuf[s])} /\ n <= Len(cBuf[s])
      BY <2>2, <3>1, LeastOf2
    <3> HIDE DEF n
    <3> QED BY <2>2, <3>1, <3>2, <3>3
  <2> HIDE DEF n
  <2>4. n \in 0..Len(cBuf[s]) /\ n \in Nat
    BY <2>2, <2>3
  <2>5. f \in Seq(Nat) /\ Len(f) = n /\ Counts(f, Len(cRead[s]))
    <3>1. Counts(cBuf[s], Len(cRead[s]))
      BY DEF BufferInv
    <3> QED BY <2>2, <2>4, <3>1, CountsCut
  <2> HIDE DEF f
  <2>6. f = [i \in 1..n |-> Len(cRead[s]) + i]
    <3> DEFINE k == Len(cRead[s])
    <3>1. Counts(f, k) /\ k \in Nat
      BY <2>2, <2>5
    <3> HIDE DEF k
    <3>2. f = [i \in 1..n |-> k + i]
      BY <2>4, <2>5, <3>1 DEF Counts
    <3> QED BY <3>2 DEF k
  <2>7. n \in 1..(cSent[s] - Len(cRead[s]))
    <3>1. Received(s) \in 0..cSent[s]
      BY ArrivedSent
    <3> DEFINE a == Len(cRead[s])  b == Len(cBuf[s])
    <3>2. Received(s) = a + b /\ a \in Nat /\ b \in Nat /\ n \in 1..b
      BY <2>2, <2>3 DEF Received
    <3> HIDE DEF a, b
    <3>3. n \in 1..(cSent[s] - a)
      BY <2>2, <3>1, <3>2
    <3> QED BY <3>3 DEF a
  <2>8. Ended' = Ended /\ s \notin Ended
    BY <1>1, <2>1 DEF Ended, ShapeInv
  <2>9. cRead' = [cRead EXCEPT ![s] = @ \o [i \in 1..n |-> Len(@) + i]]
    BY <2>1, <2>6
  <2>10. Stream!Deliver(s)
    BY <1>1, <2>7, <2>8, <2>9 DEF Stream!Deliver, Ended
  <2> QED BY <2>10 DEF StreamStep, Stream!StreamNext
<1> QED BY <1>2, <1>3

LEMMA ChanNextStreams == ChanInv /\ [ChanNext]_chanVars => StreamStep
<1> SUFFICES ASSUME ChanInv, [ChanNext]_chanVars PROVE StreamStep
  OBVIOUS
<1>1. ASSUME NEW s \in ChanStreams, NEW n \in 1..ChanBytes, ChanWrite(s, n) PROVE StreamStep
  BY <1>1, StreamStutters DEF ChanWrite, cRecvVars, Ended
<1>2. ASSUME NEW s \in ChanStreams, ChanReserve(s) PROVE StreamStep
  BY <1>2, StreamStutters DEF ChanReserve, cRecvVars, Ended
<1>3. ASSUME NEW s \in ChanStreams, ChanSendData(s) PROVE StreamStep
  BY <1>3, SendIsWrite
<1>4. ASSUME NEW s \in ChanStreams, NEW m \in ChanReads, ChanRead(s, m) PROVE StreamStep
  BY <1>4, ReadIsDelivery
<1>5. ASSUME NEW s \in ChanStreams, ChanAdjust(s) PROVE StreamStep
  <2>1. Ended' = Ended
    BY <1>5, EndedKeeps DEF ChanAdjust, ChanInv
  <2> QED BY <1>5, <2>1, StreamStutters DEF ChanAdjust, cSendVars
<1>6. CASE ChanReadStart
  <2>1. Ended' = Ended
    BY <1>6, EndedKeeps DEF ChanReadStart, ChanInv, ChanStreams
  <2> QED BY <1>6, <2>1, StreamStutters DEF ChanReadStart, cSendVars
<1>7. CASE ChanCloseWrite
  BY <1>7, EndIsFinish DEF ChanCloseWrite, cRecvVars
<1>8. ASSUME NEW p \in ChanSides, ChanClose(p) PROVE StreamStep
  <2>1. CASE p = "writer"
    BY <1>8, <2>1, EndIsFinish DEF ChanClose, cRecvVars
  <2>2. CASE p # "writer"
    BY <1>8, <2>2, StreamStutters DEF ChanClose, cRecvVars, Ended
  <2> QED BY <2>1, <2>2
<1>9. ASSUME NEW p \in ChanSides, LoopFails(p) PROVE StreamStep
  <2>1. CASE p = "reader"
    BY <1>9, <2>1, StreamStutters DEF LoopFails, ReaderShuts, cSendVars, Ended
  <2>2. CASE p # "reader"
    BY <1>9, <2>2, StreamStutters DEF LoopFails, WriterShuts, cRecvVars, Ended
  <2> QED BY <2>1, <2>2
<1>10. CASE ReaderHandles
  <2>1. UNCHANGED <<cSendVars, cConn>> /\ cRead' = cRead /\ cReader' = cReader
    BY <1>10 DEF ReaderHandles, HandleData, ReaderShuts, cRecvVars
  <2> QED BY <2>1, StreamStutters DEF cSendVars, Ended
<1>11. CASE WriterHandles
  <2>1. UNCHANGED <<cSent, cRecvVars, cConn>>
    BY <1>11 DEF WriterHandles
  <2>2. CASE Head(cBack).t = "adjust"
    <3>1. cMark' = cMark
      BY <1>11, <2>2 DEF WriterHandles
    <3> QED BY <2>1, <3>1, StreamStutters DEF cRecvVars, Ended
  <2>3. CASE Head(cBack).t # "adjust"
    <3>1. cMark' = IF CanSend("writer") THEN Marked ELSE cMark
      BY <1>11, <2>3 DEF WriterHandles
    <3> QED BY <2>1, <3>1, EndIsFinish DEF cRecvVars
  <2> QED BY <2>2, <2>3
<1>12. CASE ChanConnLost
  <2>1. Stream!Break
    BY <1>12 DEF ChanConnLost, Stream!Break, cSendVars, cRecvVars
  <2> QED BY <2>1 DEF StreamStep, Stream!StreamNext
<1>13. CASE UNCHANGED chanVars
  BY <1>13, StreamStutters DEF chanVars, cSendVars, cRecvVars, Ended
<1> QED BY <1>1, <1>2, <1>3, <1>4, <1>5, <1>6, <1>7, <1>8, <1>9, <1>10, <1>11, <1>12, <1>13 DEF ChanNext

(* With windows, packets, late buffers, two loops and closes that cross, a  *)
(* stream still arrives in order, without gaps and without repetitions, and *)
(* its end is reported after all that was sent before the EOF or the close: *)
(* the channel implements the abstract streams, whatever its sizes are.     *)
THEOREM ChannelIsStream == ChanSpec => ChanIsStream
<1>1. ChanSpec => []ChanInv
  BY ChanInitInv, ChanNextInv, PTL DEF ChanSpec
<1>2. ChanInit => Stream!StreamInit
  BY DEF ChanInit, Stream!StreamInit
<1>3. ChanInv /\ [ChanNext]_chanVars => [Stream!StreamNext]_Stream!streamVars
  BY ChanNextStreams DEF StreamStep
<1> QED BY <1>1, <1>2, <1>3, PTL DEF ChanSpec, ChanIsStream, Stream!StreamSpec
=============================================================================
