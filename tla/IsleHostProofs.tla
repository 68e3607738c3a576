--------------------------- MODULE IsleHostProofs ---------------------------
(***************************************************************************)
(* Safety of the machine and of what outlives it: the loop around the      *)
(* virtual machine, for any number of signals, the disk images that a boot *)
(* prepares, for sizes of any range, the logs of the containers, for any   *)
(* number of entries, files and writers, the command line that starts and  *)
(* stops machines, for any plan of calls, and the monitor that reaps       *)
(* processes in the guest, for any number of commands.                     *)
(***************************************************************************)
EXTENDS IsleVM, IsleDisks, IsleLog, IsleLaunch, IsleReaper, FiniteSetTheorems, InductionLemmas

------------------------------------------------------------------------------
(* The loop of VM.Run.                                                      *)

(* The machine changes state at most twice, and each change is observed     *)
(* once: this bounds the notifications that wait for Run.                   *)
NoteInv ==
    /\ machine = "starting" => Len(notes) = 0
    /\ machine = "running" => Len(notes) <= 1

(* Everything on the way from a signal to the guest follows a signal: the   *)
(* signal in sigC, Run between sigC and the request, the shutdown flag, and *)
(* the control goroutine waiting for the guest's answer.                    *)
AskedInv ==
    sigs = 0 =>
        /\ sigC = 0
        /\ run \notin {"ctrl", "stop"}
        /\ shutdown = "no"
        /\ lis # "decode"

VMInv == VMTypeOK /\ NoteInv /\ AskedInv /\ OnlyWhenAsked

(* What the queue of notifications needs from the sequence operators.       *)
LEMMA QueueFacts ==
    ASSUME NEW S, NEW q \in Seq(S), NEW e \in S
    PROVE  /\ Append(q, e) \in Seq(S) /\ Len(Append(q, e)) = Len(q) + 1
           /\ Len(q) \in Nat
           /\ q # <<>> => /\ Tail(q) \in Seq(S) /\ Head(q) \in S
                          /\ Len(q) >= 1 /\ Len(Tail(q)) = Len(q) - 1
OBVIOUS

(* VMInv holds when the loop of Run begins.                                 *)
LEMMA VMInitInv == VMInit => VMInv
BY SignalBound DEF VMInit, VMInv, VMTypeOK, NoteInv, AskedInv, OnlyWhenAsked

(* Every step of the host, the guest, the machine and the clock keeps VMInv.*)
LEMMA VMNextInv == VMInv /\ [VMNext]_vmVars => VMInv'
<1>1. SUFFICES ASSUME VMInv, VMNext PROVE VMInv'
  BY DEF VMInv, VMTypeOK, NoteInv, AskedInv, OnlyWhenAsked, vmVars, loopVars, timeVars, linkVars
<1> DEFINE N == {"running", "stopped", "error"}
<1>2. CASE TakeTick
  BY <1>1, <1>2 DEF VMInv, VMTypeOK, NoteInv, AskedInv, OnlyWhenAsked, TakeTick, Return, linkVars
<1>3. CASE TakeHalted
  BY <1>1, <1>3 DEF VMInv, VMTypeOK, NoteInv, AskedInv, OnlyWhenAsked, TakeHalted, Return,
     timeVars, linkVars
<1>4. CASE TakeSignal
  BY <1>1, <1>4 DEF VMInv, VMTypeOK, NoteInv, AskedInv, OnlyWhenAsked, TakeSignal, timeVars, linkVars
<1>5. CASE SendControl
  BY <1>1, <1>5 DEF VMInv, VMTypeOK, NoteInv, AskedInv, OnlyWhenAsked, SendControl, timeVars, linkVars
<1>6. CASE RequestStop
  BY <1>1, <1>6 DEF VMInv, VMTypeOK, NoteInv, AskedInv, OnlyWhenAsked, RequestStop, Return, linkVars
<1>7. CASE TakeNote
  <2>1. notes \in Seq(N) /\ notes # <<>>
    BY <1>1, <1>7 DEF VMInv, VMTypeOK, TakeNote
  <2>2. Tail(notes) \in Seq(N) /\ Len(notes) \in Nat /\ Len(notes) >= 1
        /\ Len(Tail(notes)) = Len(notes) - 1
    BY <2>1, QueueFacts
  <2>3. notes' \in Seq(N) /\ Len(notes') <= 2
    BY <1>1, <1>7, <2>2 DEF VMInv, VMTypeOK, TakeNote
  <2>4. VMTypeOK' /\ AskedInv' /\ OnlyWhenAsked'
    BY <1>1, <1>7, <2>3
       DEF VMInv, VMTypeOK, AskedInv, OnlyWhenAsked, TakeNote, Return, timeVars
  <2>5. NoteInv'
    BY <1>1, <1>7, <2>2 DEF VMInv, NoteInv, TakeNote
  <2> QED BY <2>4, <2>5 DEF VMInv
<1>8. CASE TakeControl
  BY <1>1, <1>8 DEF VMInv, VMTypeOK, NoteInv, AskedInv, OnlyWhenAsked, TakeControl, loopVars, timeVars
<1>9. CASE GuestAnswers
  BY <1>1, <1>9 DEF VMInv, VMTypeOK, NoteInv, AskedInv, OnlyWhenAsked, GuestAnswers, loopVars, timeVars
<1>10. CASE SessionLost
  BY <1>1, <1>10 DEF VMInv, VMTypeOK, NoteInv, AskedInv, OnlyWhenAsked, SessionLost, loopVars, timeVars
<1>11. CASE GuestConnects
  BY <1>1, <1>11 DEF VMInv, VMTypeOK, NoteInv, AskedInv, OnlyWhenAsked, GuestConnects,
     loopVars, timeVars
<1>12. CASE MachineChanges
  <2>1. PICK e \in N : Observed(e) /\ e # "starting"
                       /\ (machine = "starting" => e = "running")
                       /\ (machine = "running" => e # "running")
                       /\ machine \in {"starting", "running"}
    BY <1>12 DEF MachineChanges
  <2>2. notes \in Seq(N)
    BY <1>1 DEF VMInv, VMTypeOK
  <2>3. Append(notes, e) \in Seq(N) /\ Len(notes) \in Nat
        /\ Len(Append(notes, e)) = Len(notes) + 1
    BY <2>2, QueueFacts
  <2>4. notes' \in Seq(N) /\ Len(notes') = Len(notes) + 1 /\ machine' = e
    BY <2>1, <2>3 DEF Observed
  <2>5. Len(notes') <= 2 /\ NoteInv'
    BY <1>1, <2>1, <2>3, <2>4 DEF VMInv, NoteInv
  <2>6. VMTypeOK' /\ AskedInv' /\ OnlyWhenAsked'
    BY <1>1, <1>12, <2>4, <2>5
       DEF VMInv, VMTypeOK, AskedInv, OnlyWhenAsked, MachineChanges, loopVars, timeVars, linkVars
  <2> QED BY <2>5, <2>6 DEF VMInv
<1>13. CASE GuestHalts
  BY <1>1, <1>13 DEF VMInv, VMTypeOK, NoteInv, AskedInv, OnlyWhenAsked, GuestHalts,
     loopVars, timeVars, linkVars
<1>14. CASE Tick
  BY <1>1, <1>14 DEF VMInv, VMTypeOK, NoteInv, AskedInv, OnlyWhenAsked, Tick, loopVars, linkVars
<1>15. CASE Signal
  BY <1>1, <1>15, SignalBound DEF VMInv, VMTypeOK, NoteInv, AskedInv, OnlyWhenAsked, Signal,
     loopVars, timeVars, linkVars
<1> QED
  BY <1>1, <1>2, <1>3, <1>4, <1>5, <1>6, <1>7, <1>8, <1>9, <1>10, <1>11, <1>12, <1>13,
     <1>14, <1>15 DEF VMNext, LoopStep

(* VMInv is an invariant of the specification.                              *)
LEMMA VMInvariance == VMSpec => []VMInv
BY VMInitInv, VMNextInv, PTL DEF VMSpec

(* Channels never exceed their capacity and Run is always at one of its     *)
(* steps; in particular at most two notifications ever wait.                *)
THEOREM VMTypeCorrect == VMSpec => []VMTypeOK
BY VMInvariance, PTL DEF VMInv

(* However many signals are sent, no guest is told to halt, and none is     *)
(* given up on by the ticker, before the first of them (VM.Run).            *)
THEOREM StopsOnlyWhenAsked == VMSpec => []OnlyWhenAsked
BY VMInvariance, PTL DEF VMInv

------------------------------------------------------------------------------
(* The disk images.                                                         *)

(* Between its creation and its extension data.fs holds its label only, so  *)
(* that extending it cannot cut anything off.                               *)
LabelInv == boot = "datasize" => file["data"] = Label

DiskInv == DiskTypeOK /\ LabelInv /\ UserDiskFits

(* Setting a length keeps the types, and changes the other image in no way. *)
LEMMA TruncateEffect ==
    ASSUME DiskTypeOK, NEW d \in Disks, NEW n \in 0 .. MaxSize, Truncate(d, n)
    PROVE  /\ file' \in [Disks -> 0 .. MaxSize]
           /\ used' \in [Disks -> 0 .. MaxSize]
           /\ \A e \in Disks : used'[e] <= file'[e]
           /\ file'[d] = n
           /\ used[d] <= n => used'[d] = used[d]
           /\ \A e \in Disks \ {d} : file'[e] = file[e] /\ used'[e] = used[e]
BY SizeBound DEF DiskTypeOK, Truncate, Disks

(* DiskInv holds before the first boot.                                     *)
LEMMA DiskInitInv == DiskInit => DiskInv
BY SizeBound DEF DiskInit, DiskInv, DiskTypeOK, LabelInv, UserDiskFits, Missing, Sizes, Disks

(* A step keeps DiskInv and loses nothing that data.fs holds.               *)
LEMMA DiskNextInv == DiskInv /\ [DiskNext]_diskVars => DiskInv' /\ used'["data"] >= used["data"]
<1>1. SUFFICES ASSUME DiskInv, DiskNext PROVE DiskInv' /\ used'["data"] >= used["data"]
  BY SizeBound DEF DiskInv, DiskTypeOK, LabelInv, UserDiskFits, Disks, diskVars
<1>2. /\ "data" \in Disks /\ "user" \in Disks /\ "data" # "user"
      /\ size["data"] \in 0 .. MaxSize /\ size["user"] \in 0 .. MaxSize
      /\ size["data"] >= Label /\ Label \in 0 .. MaxSize
      /\ used["data"] \in Nat /\ used["data"] <= file["data"]
  BY <1>1, SizeBound DEF DiskInv, DiskTypeOK, Disks, Sizes, Label
<1>3. CASE Configure
  BY <1>1, <1>2, <1>3 DEF DiskInv, DiskTypeOK, LabelInv, UserDiskFits, Configure
<1>4. CASE Start
  BY <1>1, <1>2, <1>4 DEF DiskInv, DiskTypeOK, LabelInv, UserDiskFits, Start
<1>5. CASE Stop
  BY <1>1, <1>2, <1>5 DEF DiskInv, DiskTypeOK, LabelInv, UserDiskFits, Stop
<1>6. ASSUME NEW d \in Disks, Write(d) PROVE DiskInv' /\ used'["data"] >= used["data"]
  BY <1>1, <1>2, <1>6, SizeBound DEF DiskInv, DiskTypeOK, LabelInv, UserDiskFits, Write, Disks
<1>7. CASE GrowData
  <2>1. CASE file["user"] = Missing
    BY <1>1, <1>2, <1>7, <2>1 DEF DiskInv, DiskTypeOK, LabelInv, UserDiskFits, GrowData
  <2>2. CASE file["user"] # Missing
    <3>1. Truncate("user", size["data"]) /\ boot' = "user" /\ UNCHANGED <<config, size>>
      BY <1>7, <2>2 DEF GrowData
    <3> QED
      BY <1>1, <1>2, <3>1, TruncateEffect DEF DiskInv, DiskTypeOK, LabelInv, UserDiskFits
  <2> QED BY <2>1, <2>2
<1>8. CASE KeepData
  BY <1>1, <1>2, <1>8 DEF DiskInv, DiskTypeOK, LabelInv, UserDiskFits, KeepData
<1>9. CASE CreateData
  <2>1. Truncate("data", Label) /\ boot' = "datasize" /\ UNCHANGED <<config, size>>
    BY <1>9 DEF CreateData
  <2>2. used["data"] <= Label
    BY <1>2, <1>9 DEF CreateData, Missing, Label
  <2> QED
    BY <1>1, <1>2, <2>1, <2>2, TruncateEffect DEF DiskInv, DiskTypeOK, LabelInv, UserDiskFits
<1>10. CASE SizeData
  <2>1. Truncate("data", size["data"]) /\ boot' = "user" /\ UNCHANGED <<config, size>>
    BY <1>10 DEF SizeData
  <2>2. used["data"] <= size["data"]
    BY <1>1, <1>2, <1>10, SizeBound DEF DiskInv, LabelInv, SizeData, Label
  <2> QED
    BY <1>1, <1>2, <2>1, <2>2, TruncateEffect DEF DiskInv, DiskTypeOK, LabelInv, UserDiskFits
<1>11. CASE GrowUser
  <2>1. Truncate("user", size["user"]) /\ boot' = "running" /\ UNCHANGED <<config, size>>
    BY <1>11 DEF GrowUser
  <2> QED
    BY <1>1, <1>2, <2>1, TruncateEffect DEF DiskInv, DiskTypeOK, LabelInv, UserDiskFits
<1>12. CASE KeepUser
  BY <1>1, <1>2, <1>12 DEF DiskInv, DiskTypeOK, LabelInv, UserDiskFits, KeepUser
<1>13. CASE CreateUser
  <2>1. Truncate("user", Label) /\ boot' = "usersize" /\ UNCHANGED <<config, size>>
    BY <1>13 DEF CreateUser
  <2> QED
    BY <1>1, <1>2, <2>1, TruncateEffect DEF DiskInv, DiskTypeOK, LabelInv, UserDiskFits
<1>14. CASE SizeUser
  <2>1. Truncate("user", size["user"]) /\ boot' = "running" /\ UNCHANGED <<config, size>>
    BY <1>14 DEF SizeUser
  <2> QED
    BY <1>1, <1>2, <2>1, TruncateEffect DEF DiskInv, DiskTypeOK, LabelInv, UserDiskFits
<1> QED
  BY <1>1, <1>3, <1>4, <1>5, <1>6, <1>7, <1>8, <1>9, <1>10, <1>11, <1>12, <1>13, <1>14
     DEF DiskNext

(* DiskInv is an invariant of the specification.                            *)
LEMMA DiskInvariance == DiskSpec => []DiskInv
<1>1. DiskInv /\ [DiskNext]_diskVars => DiskInv'
  BY DiskNextInv
<1> QED BY DiskInitInv, <1>1, PTL DEF DiskSpec

(* Lengths stay in range and the guest's data never exceeds its image.      *)
THEOREM DiskTypeCorrect == DiskSpec => []DiskTypeOK
BY DiskInvariance, PTL DEF DiskInv

(* The machine starts with a user.fs at least as long as configured,        *)
(* although extending data.fs cuts user.fs instead (VM.Run).                *)
THEOREM UserDiskFitsAtStart == DiskSpec => []UserDiskFits
BY DiskInvariance, PTL DEF DiskInv

(* No boot, crash or configuration takes away what data.fs holds (VM.Run).  *)
THEOREM DataIsNeverLost == DiskSpec => DataIsKept
<1>1. DiskInv /\ [DiskNext]_diskVars => [used'["data"] >= used["data"]]_diskVars
  BY DiskNextInv
<1> QED BY DiskInvariance, <1>1, PTL DEF DiskSpec, DataIsKept

------------------------------------------------------------------------------
(* The logs.                                                                *)

Elems(q) == {q[i] : i \in 1..Len(q)}
Sorted(q) == \A i, j \in 1..Len(q) : i < j => q[i] < q[j]
Below(A, B) == \A x \in A, y \in B : x < y

(* Entries are in the order of their numbers within a file, from file to    *)
(* file, and from the files to the buffer.                                  *)
Ordered(data, buf, last) ==
    /\ \A f \in LgIds : Sorted(data[f]) /\ Elems(data[f]) \subseteq 1..last
    /\ \A f, g \in LgIds : f < g => Below(Elems(data[f]), Elems(data[g]))
    /\ Sorted(buf) /\ Elems(buf) \subseteq 1..last
    /\ \A f \in LgIds : Below(Elems(data[f]), Elems(buf))

(* What the reader has returned is in order and before all it has not read. *)
ReadSoFar(data, buf, dir, pos, got) ==
    /\ Sorted(got) /\ Below(Elems(got), Elems(buf))
    /\ \A f \in LgIds : f > dir => Below(Elems(got), Elems(data[f]))
    /\ dir \in LgIds => /\ pos \in 0..Len(data[dir])
                        /\ \A x \in Elems(got), j \in (pos + 1)..Len(data[dir]) : x < data[dir][j]

LgShape ==
    /\ lgFiles \subseteq 1..lgMade /\ lgMade \in Nat /\ lgMade <= lgWriter + lgLast
    /\ lgData \in [LgIds -> Seq(Nat)] /\ lgBuf \in Seq(Nat) /\ lgSize \in 0..(LgMax - 1)
    /\ lgCur # LgNoFile => lgCur = lgMade /\ lgCur \in lgFiles
    /\ lgCur = LgNoFile => lgBuf = <<>>
    /\ lgWriter \in 0..LgWriters /\ lgLast \in 0..LgEntries
    /\ lgDir \in 0..lgMade /\ lgPos \in Nat /\ lgGot \in Seq(Nat)
    /\ lgEnd \in {"none", "reading", "eof"} /\ lgLive \in BOOLEAN
    /\ lgEnd = "none" => lgDir = 0 /\ lgPos = 0 /\ lgGot = <<>>
    /\ lgEnd # "none" => lgDir # 0
    /\ \A f \in LgIds : f > lgMade => lgData[f] = <<>>

LgOrder ==
    /\ Ordered(lgData, lgBuf, lgLast) /\ ReadSoFar(lgData, lgBuf, lgDir, lgPos, lgGot)
    /\ Elems(lgGot) \subseteq 1..lgLast

OnDisk(files, data) == UNION {Elems(data[f]) : f \in files}
KeptInv ==
    /\ 1..lgLast = OnDisk(lgFiles, lgData) \cup Elems(lgBuf) \cup lgLost
    /\ OnDisk(lgFiles, lgData) \cap lgLost = {} /\ Elems(lgBuf) \cap lgLost = {}

(* What a reader that no writer disturbs has returned, where it is.         *)
Earlier(files, dir) == {g \in files : g < dir}
FirstOf(q, n) == {q[i] : i \in 1..n}
ReadUpTo(files, data, dir, pos) == OnDisk(Earlier(files, dir), data) \cup FirstOf(data[dir], pos)
QuietInv ==
    lgEnd # "none" /\ ~lgLive =>
        /\ lgCur = LgNoFile /\ lgDir \in lgFiles
        /\ Elems(lgGot) = ReadUpTo(lgFiles, lgData, lgDir, lgPos)
        /\ lgEnd = "eof" => lgData[lgDir] = <<>> \/ (lgPos = Len(lgData[lgDir]) /\ \A g \in lgFiles : g <= lgDir)

LgInv == LgShape /\ LgOrder /\ KeptInv /\ QuietInv

(* Elements of sequences.                                                   *)
LEMMA ElemsAppend ==
    ASSUME NEW q \in Seq(Nat), NEW e \in Nat
    PROVE  Append(q, e) \in Seq(Nat) /\ Elems(Append(q, e)) = Elems(q) \cup {e}
<1>1. PICK p : p = Append(q, e)
  OBVIOUS
<1>2. /\ p \in Seq(Nat) /\ Len(q) \in Nat /\ Len(p) = Len(q) + 1 /\ p[Len(q) + 1] = e
      /\ \A i \in 1..Len(q) : p[i] = q[i]
  BY <1>1
<1>3. Elems(p) \subseteq Elems(q) \cup {e}
  <2>1. ASSUME NEW i \in 1..Len(p) PROVE p[i] \in Elems(q) \cup {e}
    <3>1. i \in 1..Len(q) \/ i = Len(q) + 1
      BY <1>2
    <3> QED BY <1>2, <3>1 DEF Elems
  <2> QED BY <2>1 DEF Elems
<1>4. Elems(q) \cup {e} \subseteq Elems(p)
  <2>1. ASSUME NEW i \in 1..Len(q) PROVE q[i] \in Elems(p)
    <3>1. i \in 1..Len(p)
      BY <1>2
    <3> QED BY <1>2, <3>1 DEF Elems
  <2>2. e \in Elems(p)
    <3>1. Len(q) + 1 \in 1..Len(p)
      BY <1>2
    <3> QED BY <1>2, <3>1 DEF Elems
  <2> QED BY <2>1, <2>2 DEF Elems
<1> QED BY <1>1, <1>2, <1>3, <1>4

LEMMA Concat ==
    ASSUME NEW p \in Seq(Nat), NEW q \in Seq(Nat)
    PROVE  /\ p \o q \in Seq(Nat) /\ Len(p) \in Nat /\ Len(q) \in Nat /\ Len(p \o q) = Len(p) + Len(q)
           /\ \A i \in 1..Len(p) : (p \o q)[i] = p[i]
           /\ \A i \in 1..Len(p \o q) : i > Len(p) => i - Len(p) \in 1..Len(q) /\ (p \o q)[i] = q[i - Len(p)]
           /\ Elems(p \o q) = Elems(p) \cup Elems(q)
<1>1. PICK r : r = p \o q
  OBVIOUS
<1>2. /\ r \in Seq(Nat) /\ Len(p) \in Nat /\ Len(q) \in Nat /\ Len(r) = Len(p) + Len(q)
      /\ \A i \in 1..Len(p) : r[i] = p[i]
  BY <1>1
<1>3. ASSUME NEW i \in 1..Len(r), i > Len(p) PROVE i - Len(p) \in 1..Len(q) /\ r[i] = q[i - Len(p)]
  <2>1. i - Len(p) \in 1..Len(q)
    BY <1>2, <1>3
  <2> QED BY <1>1, <1>2, <1>3, <2>1
<1>4. Elems(r) \subseteq Elems(p) \cup Elems(q)
  <2>1. ASSUME NEW i \in 1..Len(r) PROVE r[i] \in Elems(p) \cup Elems(q)
    <3>1. CASE i > Len(p)
      BY <1>3, <3>1 DEF Elems
    <3>2. CASE ~(i > Len(p))
      <4>1. i \in 1..Len(p)
        BY <1>2, <3>2
      <4> QED BY <1>2, <4>1 DEF Elems
    <3> QED BY <3>1, <3>2
  <2> QED BY <2>1 DEF Elems
<1>5. Elems(p) \cup Elems(q) \subseteq Elems(r)
  <2>1. ASSUME NEW i \in 1..Len(p) PROVE p[i] \in Elems(r)
    <3>1. i \in 1..Len(r)
      BY <1>2
    <3> QED BY <1>2, <3>1 DEF Elems
  <2>2. ASSUME NEW i \in 1..Len(q) PROVE q[i] \in Elems(r)
    <3>1. Len(p) + i \in 1..Len(r) /\ Len(p) + i > Len(p) /\ Len(p) + i - Len(p) = i
      BY <1>2
    <3>2. r[Len(p) + i] = q[i]
      BY <1>3, <3>1
    <3> QED BY <3>1, <3>2 DEF Elems
  <2> QED BY <2>1, <2>2 DEF Elems
<1> QED BY <1>1, <1>2, <1>3, <1>4, <1>5

LEMMA ElemsEmpty == Elems(<<>>) = {} /\ Sorted(<<>>)
BY DEF Elems, Sorted

(* An entry that is newer than all others can follow in any sorted          *)
(* sequence of them.                                                        *)
LEMMA SortedAppend ==
    ASSUME NEW q \in Seq(Nat), NEW e \in Nat, Sorted(q), \A x \in Elems(q) : x < e
    PROVE  Sorted(Append(q, e))
<1>1. PICK p : p = Append(q, e)
  OBVIOUS
<1>2. /\ p \in Seq(Nat) /\ Len(q) \in Nat /\ Len(p) = Len(q) + 1 /\ p[Len(q) + 1] = e
      /\ \A i \in 1..Len(q) : p[i] = q[i]
  BY <1>1
<1>3. ASSUME NEW i \in 1..Len(p), NEW j \in 1..Len(p), i < j PROVE p[i] < p[j]
  <2>1. i \in 1..Len(q) /\ (j \in 1..Len(q) \/ j = Len(q) + 1)
    <3>1. PICK n : n = Len(q)
      OBVIOUS
    <3>2. n \in Nat /\ i \in 1..(n + 1) /\ j \in 1..(n + 1) /\ i < j
      BY <1>2, <1>3, <3>1
    <3>3. i \in 1..n /\ (j \in 1..n \/ j = n + 1)
      BY <3>2
    <3> QED BY <3>1, <3>3
  <2>2. CASE j \in 1..Len(q)
    BY <1>2, <1>3, <2>1, <2>2 DEF Sorted
  <2>3. CASE j = Len(q) + 1
    <3>1. q[i] \in Elems(q)
      BY <2>1 DEF Elems
    <3> QED BY <1>2, <2>1, <2>3, <3>1
  <2> QED BY <2>1, <2>2, <2>3
<1> QED BY <1>1, <1>3 DEF Sorted

LEMMA SortedConcat ==
    ASSUME NEW p \in Seq(Nat), NEW q \in Seq(Nat), Sorted(p), Sorted(q), Below(Elems(p), Elems(q))
    PROVE  Sorted(p \o q)
<1>1. PICK r : r = p \o q
  OBVIOUS
<1>2. /\ r \in Seq(Nat) /\ Len(p) \in Nat /\ Len(q) \in Nat /\ Len(r) = Len(p) + Len(q)
      /\ \A i \in 1..Len(p) : r[i] = p[i]
      /\ \A i \in 1..Len(r) : i > Len(p) => i - Len(p) \in 1..Len(q) /\ r[i] = q[i - Len(p)]
  BY <1>1, Concat
<1>3. ASSUME NEW i \in 1..Len(r), NEW j \in 1..Len(r), i < j PROVE r[i] < r[j]
  <2>1. CASE j \in 1..Len(p)
    <3>1. i \in 1..Len(p)
      BY <1>2, <1>3, <2>1
    <3> QED BY <1>2, <1>3, <2>1, <3>1 DEF Sorted
  <2>2. CASE i \in 1..Len(p) /\ j > Len(p)
    <3>1. p[i] \in Elems(p) /\ r[i] = p[i]
      BY <1>2, <2>2 DEF Elems
    <3>2. q[j - Len(p)] \in Elems(q) /\ r[j] = q[j - Len(p)]
      BY <1>2, <2>2 DEF Elems
    <3> QED BY <3>1, <3>2 DEF Below
  <2>3. CASE i > Len(p)
    <3>1. j > Len(p) /\ i - Len(p) < j - Len(p)
      BY <1>2, <1>3, <2>3
    <3>2. i - Len(p) \in 1..Len(q) /\ r[i] = q[i - Len(p)] /\ j - Len(p) \in 1..Len(q) /\ r[j] = q[j - Len(p)]
      BY <1>2, <2>3, <3>1
    <3> QED BY <3>1, <3>2 DEF Sorted
  <2>4. j \in 1..Len(p) \/ (i \in 1..Len(p) /\ j > Len(p)) \/ i > Len(p)
    BY <1>2
  <2> QED BY <2>1, <2>2, <2>3, <2>4
<1> QED BY <1>1, <1>3 DEF Sorted

(* A new entry goes to the buffer.                                          *)
LEMMA Added ==
    ASSUME NEW data, NEW buf \in Seq(Nat), NEW last \in Nat, Ordered(data, buf, last),
           NEW dir, NEW pos, NEW got, ReadSoFar(data, buf, dir, pos, got), Elems(got) \subseteq 1..last
    PROVE  /\ Ordered(data, Append(buf, last + 1), last + 1)
           /\ ReadSoFar(data, Append(buf, last + 1), dir, pos, got)
<1>1. PICK b : b = Append(buf, last + 1)
  OBVIOUS
<1>2. b \in Seq(Nat) /\ Elems(b) = Elems(buf) \cup {last + 1}
  BY <1>1, ElemsAppend
<1>3. 1..last \subseteq 1..(last + 1) /\ last + 1 \in 1..(last + 1) /\ \A x \in 1..last : x < last + 1
  OBVIOUS
<1>4. Elems(buf) \subseteq 1..last /\ Sorted(buf)
  BY DEF Ordered
<1>5. Sorted(b)
  BY <1>1, <1>3, <1>4, SortedAppend
<1>6. ASSUME NEW f \in LgIds
      PROVE  Sorted(data[f]) /\ Elems(data[f]) \subseteq 1..(last + 1) /\ Below(Elems(data[f]), Elems(b))
  <2>1. Sorted(data[f]) /\ Elems(data[f]) \subseteq 1..last /\ Below(Elems(data[f]), Elems(buf))
    BY DEF Ordered
  <2>2. Below(Elems(data[f]), Elems(b))
    BY <1>2, <1>3, <2>1 DEF Below
  <2> QED BY <1>3, <2>1, <2>2
<1>7. Ordered(data, b, last + 1)
  BY <1>2, <1>3, <1>4, <1>5, <1>6 DEF Ordered
<1>8. Below(Elems(got), Elems(b))
  BY <1>2, <1>3 DEF Below, ReadSoFar
<1>9. ReadSoFar(data, b, dir, pos, got)
  BY <1>8 DEF ReadSoFar
<1> QED BY <1>1, <1>7, <1>9

(* The buffer is dropped.                                                   *)
LEMMA Dropped ==
    ASSUME NEW data, NEW buf, NEW last, Ordered(data, buf, last),
           NEW dir, NEW pos, NEW got, ReadSoFar(data, buf, dir, pos, got)
    PROVE  Ordered(data, <<>>, last) /\ ReadSoFar(data, <<>>, dir, pos, got)
<1>1. \A A : Below(A, Elems(<<>>))
  BY ElemsEmpty DEF Below
<1>2. Ordered(data, <<>>, last)
  BY <1>1, ElemsEmpty DEF Ordered
<1>3. ReadSoFar(data, <<>>, dir, pos, got)
  BY <1>1 DEF ReadSoFar
<1> QED BY <1>2, <1>3

(* The buffer reaches the newest file.                                      *)
Flush(data, buf, last, cur, dir, pos, got, new) ==
    /\ data \in [LgIds -> Seq(Nat)] /\ buf \in Seq(Nat) /\ last \in Nat /\ Ordered(data, buf, last)
    /\ cur \in LgIds /\ \A f \in LgIds : f > cur => data[f] = <<>>
    /\ dir \in Nat /\ pos \in Nat /\ ReadSoFar(data, buf, dir, pos, got)
    /\ new = [data EXCEPT ![cur] = @ \o buf]
FlushGives(data, buf, last, cur, dir, pos, got, new) ==
    /\ new \in [LgIds -> Seq(Nat)] /\ Elems(new[cur]) = Elems(data[cur]) \cup Elems(buf)
    /\ \A f \in LgIds : f # cur => new[f] = data[f]
    /\ Ordered(new, <<>>, last) /\ ReadSoFar(new, <<>>, dir, pos, got)
LEMMA Flushed ==
    ASSUME NEW data, NEW buf, NEW last, NEW cur, NEW dir, NEW pos, NEW got, NEW new,
           Flush(data, buf, last, cur, dir, pos, got, new)
    PROVE  FlushGives(data, buf, last, cur, dir, pos, got, new)
<1> USE DEF Flush
<1>1. data[cur] \in Seq(Nat) /\ cur \in Int
  BY DEF LgIds
<1>2. data[cur] \o buf \in Seq(Nat)
  BY <1>1, Concat
<1>3. new \in [LgIds -> Seq(Nat)] /\ new[cur] = data[cur] \o buf /\ \A f \in LgIds : f # cur => new[f] = data[f]
  BY <1>2
<1>4. Elems(new[cur]) = Elems(data[cur]) \cup Elems(buf)
  BY <1>1, <1>3, Concat
<1>5. Sorted(data[cur]) /\ Sorted(buf) /\ Below(Elems(data[cur]), Elems(buf))
      /\ Elems(data[cur]) \subseteq 1..last /\ Elems(buf) \subseteq 1..last
  BY DEF Ordered
<1>6. Sorted(new[cur])
  BY <1>1, <1>3, <1>5, SortedConcat
<1>7. Ordered(new, <<>>, last)
  <2>1. ASSUME NEW f \in LgIds PROVE Sorted(new[f]) /\ Elems(new[f]) \subseteq 1..last
    <3>1. CASE f = cur
      BY <1>4, <1>5, <1>6, <3>1
    <3>2. CASE f # cur
      BY <1>3, <3>2 DEF Ordered
    <3> QED BY <3>1, <3>2
  <2>2. ASSUME NEW f \in LgIds, NEW g \in LgIds, f < g PROVE Below(Elems(new[f]), Elems(new[g]))
    <3>1. Below(Elems(data[f]), Elems(data[g])) /\ Below(Elems(data[f]), Elems(buf))
      BY <2>2 DEF Ordered
    <3>2. CASE f = cur
      <4>1. g # cur /\ data[g] = <<>>
        BY <2>2, <3>2 DEF LgIds
      <4>2. Elems(new[g]) = {}
        BY <1>3, <4>1, ElemsEmpty
      <4> QED BY <4>2 DEF Below
    <3>3. CASE f # cur /\ g = cur
      BY <1>3, <1>4, <3>1, <3>3 DEF Below
    <3>4. CASE f # cur /\ g # cur
      BY <1>3, <3>1, <3>4
    <3> QED BY <3>2, <3>3, <3>4
  <2>3. \A A : Below(A, Elems(<<>>))
    BY ElemsEmpty DEF Below
  <2> QED BY <2>1, <2>2, <2>3, ElemsEmpty DEF Ordered
<1>8. ReadSoFar(new, <<>>, dir, pos, got)
  <2>1. Sorted(got) /\ Below(Elems(got), Elems(buf)) /\ Below(Elems(got), Elems(<<>>))
    BY ElemsEmpty DEF ReadSoFar, Below
  <2>2. ASSUME NEW f \in LgIds, f > dir PROVE Below(Elems(got), Elems(new[f]))
    <3>1. Below(Elems(got), Elems(data[f]))
      BY <2>2 DEF ReadSoFar
    <3>2. CASE f = cur
      BY <1>4, <2>1, <3>1, <3>2 DEF Below
    <3>3. CASE f # cur
      BY <1>3, <3>1, <3>3
    <3> QED BY <3>2, <3>3
  <2>3. ASSUME dir \in LgIds
        PROVE  /\ pos \in 0..Len(new[dir])
               /\ \A x \in Elems(got), j \in (pos + 1)..Len(new[dir]) : x < new[dir][j]
    <3>1. pos \in 0..Len(data[dir]) /\ \A x \in Elems(got), j \in (pos + 1)..Len(data[dir]) : x < data[dir][j]
      BY <2>3 DEF ReadSoFar
    <3>2. CASE dir = cur
      <4>1. PICK p, r : p = data[cur] /\ r = new[cur]
        OBVIOUS
      <4>2. /\ p \in Seq(Nat) /\ r = p \o buf /\ Len(p) \in Nat /\ Len(buf) \in Nat /\ Len(r) = Len(p) + Len(buf)
            /\ \A i \in 1..Len(p) : r[i] = p[i]
            /\ \A i \in 1..Len(r) : i > Len(p) => i - Len(p) \in 1..Len(buf) /\ r[i] = buf[i - Len(p)]
        BY <1>1, <1>3, <4>1, Concat
      <4>3. pos \in 0..Len(r)
        BY <3>1, <3>2, <4>1, <4>2
      <4>4. ASSUME NEW x \in Elems(got), NEW j \in (pos + 1)..Len(r) PROVE x < r[j]
        <5>1. j \in 1..Len(r)
          BY <4>2
        <5>2. CASE j > Len(p)
          <6>1. r[j] \in Elems(buf)
            BY <4>2, <5>1, <5>2 DEF Elems
          <6> QED BY <2>1, <6>1 DEF Below
        <5>3. CASE ~(j > Len(p))
          <6>1. j \in (pos + 1)..Len(p) /\ j \in 1..Len(p)
            BY <4>2, <5>1, <5>3
          <6> QED BY <3>1, <3>2, <4>1, <4>2, <6>1
        <5> QED BY <5>2, <5>3
      <4> QED BY <3>2, <4>1, <4>3, <4>4
    <3>3. CASE dir # cur
      BY <1>3, <2>3, <3>1, <3>3
    <3> QED BY <3>2, <3>3
  <2> QED BY <2>1, <2>2, <2>3 DEF ReadSoFar
<1> QED BY <1>3, <1>4, <1>7, <1>8 DEF FlushGives

(* Files and their numbers.                                                 *)
LEMMA FileFacts ==
    ASSUME LgShape
    PROVE  /\ lgMade \in Nat /\ lgLast \in Nat /\ LgEntries \in Nat /\ LgWriters \in Nat /\ lgWriter \in Nat
           /\ lgMade <= lgWriter + lgLast /\ lgLast <= LgEntries /\ lgWriter <= LgWriters
           /\ 1..lgMade \subseteq LgIds /\ lgFiles \subseteq LgIds /\ LgIds \subseteq Nat
           /\ lgDir \in Nat /\ lgPos \in Nat /\ (lgDir # 0 => lgDir \in LgIds)
           /\ (lgCur # LgNoFile => lgCur \in LgIds /\ lgCur = lgMade /\ \A f \in LgIds : f > lgCur => lgData[f] = <<>>)
<1>1. /\ lgMade \in Nat /\ lgLast \in Nat /\ LgEntries \in Nat /\ LgWriters \in Nat /\ lgWriter \in Nat
      /\ lgMade <= lgWriter + lgLast /\ lgLast <= LgEntries /\ lgWriter <= LgWriters
  BY LgAssumption DEF LgShape
<1>2. lgMade <= LgEntries + LgWriters
  BY <1>1
<1>3. 1..lgMade \subseteq LgIds /\ LgIds \subseteq Nat
  BY <1>1, <1>2 DEF LgIds
<1> QED BY <1>1, <1>3 DEF LgShape, LgNoFile

GrownBy(files, cur, data, new, buf) ==
    /\ files \subseteq LgIds /\ cur \in files /\ Elems(new[cur]) = Elems(data[cur]) \cup Elems(buf)
    /\ \A f \in LgIds : f # cur => new[f] = data[f]
LEMMA OnDiskFlushed ==
    ASSUME NEW files, NEW cur, NEW data, NEW new, NEW buf, GrownBy(files, cur, data, new, buf)
    PROVE  OnDisk(files, new) = OnDisk(files, data) \cup Elems(buf)
<1> USE DEF GrownBy
<1>1. ASSUME NEW x \in OnDisk(files, new) PROVE x \in OnDisk(files, data) \cup Elems(buf)
  BY DEF OnDisk
<1>2. ASSUME NEW x \in OnDisk(files, data) PROVE x \in OnDisk(files, new)
  <2>1. PICK f \in files : x \in Elems(data[f])
    BY DEF OnDisk
  <2>2. x \in Elems(new[f])
    BY <2>1
  <2> QED BY <2>2 DEF OnDisk
<1>3. ASSUME NEW x \in Elems(buf) PROVE x \in OnDisk(files, new)
  <2>1. x \in Elems(new[cur])
    OBVIOUS
  <2> QED BY <2>1 DEF OnDisk
<1> QED BY <1>1, <1>2, <1>3

(* A file without entries changes nothing.                                  *)
LEMMA OnDiskNew ==
    ASSUME NEW files, NEW data, NEW f, data[f] = <<>>
    PROVE  OnDisk(files \cup {f}, data) = OnDisk(files, data)
BY ElemsEmpty DEF OnDisk

(* No entry is in two files, or in a file and the buffer.                   *)
LEMMA Apart ==
    ASSUME NEW data, NEW buf, NEW last \in Nat, Ordered(data, buf, last)
    PROVE  /\ \A f, g \in LgIds : f # g => Elems(data[f]) \cap Elems(data[g]) = {}
           /\ \A f \in LgIds : Elems(data[f]) \cap Elems(buf) = {}
<1>1. ASSUME NEW A, NEW B, A \subseteq 1..last, Below(A, B) PROVE A \cap B = {}
  <2>1. ASSUME NEW x \in A, x \in B PROVE FALSE
    <3>1. x \in Int /\ x < x
      BY <1>1, <2>1 DEF Below
    <3> QED BY <3>1
  <2> QED BY <2>1
<1>2. ASSUME NEW f \in LgIds, NEW g \in LgIds, f # g PROVE Elems(data[f]) \cap Elems(data[g]) = {}
  <2>1. f < g \/ g < f
    BY <1>2, LgAssumption DEF LgIds
  <2>2. CASE f < g
    BY <1>1, <2>2 DEF Ordered
  <2>3. CASE g < f
    BY <1>1, <2>3 DEF Ordered
  <2> QED BY <2>1, <2>2, <2>3
<1>3. ASSUME NEW f \in LgIds PROVE Elems(data[f]) \cap Elems(buf) = {}
  BY <1>1 DEF Ordered
<1> QED BY <1>2, <1>3

(* The writer's buffer, or what it would be, reaches its file.              *)
LEMMA FlushedNow ==
    ASSUME LgShape, lgCur # LgNoFile, NEW buf \in Seq(Nat), NEW last \in Nat,
           Ordered(lgData, buf, last), ReadSoFar(lgData, buf, lgDir, lgPos, lgGot),
           NEW new, new = [lgData EXCEPT ![lgCur] = @ \o buf]
    PROVE  /\ new \in [LgIds -> Seq(Nat)] /\ \A f \in LgIds : f > lgMade => new[f] = <<>>
           /\ Ordered(new, <<>>, last) /\ ReadSoFar(new, <<>>, lgDir, lgPos, lgGot)
           /\ OnDisk(lgFiles, new) = OnDisk(lgFiles, lgData) \cup Elems(buf)
<1>1. /\ lgCur \in LgIds /\ lgCur = lgMade /\ \A f \in LgIds : f > lgCur => lgData[f] = <<>>
      /\ lgDir \in Nat /\ lgPos \in Nat /\ lgFiles \subseteq LgIds /\ lgCur \in Nat /\ LgIds \subseteq Nat
  BY FileFacts
<1>2. lgData \in [LgIds -> Seq(Nat)] /\ lgCur \in lgFiles
  BY DEF LgShape
<1>3. /\ new \in [LgIds -> Seq(Nat)]
      /\ Elems(new[lgCur]) = Elems(lgData[lgCur]) \cup Elems(buf)
      /\ \A f \in LgIds : f # lgCur => new[f] = lgData[f]
      /\ Ordered(new, <<>>, last) /\ ReadSoFar(new, <<>>, lgDir, lgPos, lgGot)
  <2>1. Flush(lgData, buf, last, lgCur, lgDir, lgPos, lgGot, new)
    BY <1>1, <1>2 DEF Flush
  <2>2. FlushGives(lgData, buf, last, lgCur, lgDir, lgPos, lgGot, new)
    BY <2>1, Flushed
  <2> QED BY <2>2 DEF FlushGives
<1>4. \A f \in LgIds : f > lgMade => new[f] = <<>>
  <2>1. ASSUME NEW f \in LgIds, f > lgMade PROVE f # lgCur /\ lgData[f] = <<>>
    BY <1>1, <2>1
  <2> QED BY <1>3, <2>1
<1>5. OnDisk(lgFiles, new) = OnDisk(lgFiles, lgData) \cup Elems(buf)
  <2>1. GrownBy(lgFiles, lgCur, lgData, new, buf)
    BY <1>1, <1>2, <1>3 DEF GrownBy
  <2> QED BY <2>1, OnDiskFlushed
<1> QED BY <1>3, <1>4, <1>5

(* Once a writer has worked, the reader is no longer undisturbed.           *)
LEMMA Disturbed == ASSUME lgLive' = (lgLive \/ lgEnd # "none"), lgEnd' = lgEnd PROVE QuietInv'
BY DEF QuietInv

(* LgInv holds for an empty directory.                                      *)
LEMMA LgInitInv == LgInit => LgInv
<1>1. SUFFICES ASSUME LgInit PROVE LgInv
  OBVIOUS
<1>2. LgShape
  <2>1. <<>> \in Seq(Nat) /\ 0 \in Nat /\ 0 <= 0 + 0
    OBVIOUS
  <2>2. 0 \in 0..(LgMax - 1) /\ 0 \in 0..LgWriters /\ 0 \in 0..LgEntries /\ 0 \in 0..0
    BY LgAssumption
  <2>3. lgData \in [LgIds -> Seq(Nat)] /\ \A f \in LgIds : lgData[f] = <<>>
    BY <1>1, <2>1 DEF LgInit
  <2> QED BY <1>1, <2>1, <2>2, <2>3 DEF LgInit, LgShape, LgNoFile
<1>3. \A f \in LgIds : Elems(lgData[f]) = {} /\ Sorted(lgData[f])
  BY <1>1, ElemsEmpty DEF LgInit
<1>4. Elems(lgBuf) = {} /\ Sorted(lgBuf) /\ Elems(lgGot) = {} /\ Sorted(lgGot)
  BY <1>1, ElemsEmpty DEF LgInit
<1>5. 0 \notin LgIds
  BY LgAssumption DEF LgIds
<1>6. LgOrder
  BY <1>1, <1>3, <1>4, <1>5 DEF LgInit, LgOrder, Ordered, ReadSoFar, Below, LgNoFile
<1>7. KeptInv /\ QuietInv
  BY <1>1, <1>4 DEF LgInit, KeptInv, OnDisk, QuietInv
<1> QED BY <1>2, <1>6, <1>7 DEF LgInv

(* NewDirectoryWriter.                                                      *)
LEMMA OpenWriterStep == ASSUME LgInv, LgOpenWriter PROVE LgInv'
<1>1. LgShape /\ LgOrder /\ KeptInv
  BY DEF LgInv
<1>2. /\ lgCur = LgNoFile /\ lgWriter < LgWriters /\ lgWriter' = lgWriter + 1 /\ lgMade' = lgMade + 1
      /\ lgFiles' = lgFiles \cup {lgMade + 1} /\ lgCur' = lgMade + 1 /\ lgSize' = 0
      /\ lgLive' = (lgLive \/ lgEnd # "none") /\ lgData' = lgData /\ lgBuf' = lgBuf /\ lgLast' = lgLast
      /\ lgDir' = lgDir /\ lgPos' = lgPos /\ lgGot' = lgGot /\ lgEnd' = lgEnd /\ lgLost' = lgLost
  BY DEF LgOpenWriter, lgReader
<1>3. /\ lgMade' \in Nat /\ lgMade' <= lgWriter' + lgLast' /\ lgMade + 1 \in LgIds /\ lgWriter' \in 0..LgWriters
      /\ lgMade + 1 # LgNoFile /\ lgFiles' \subseteq 1..lgMade' /\ lgDir \in 0..lgMade'
      /\ (\A f \in LgIds : f > lgMade' => f > lgMade) /\ 0 \in 0..(LgMax - 1)
  <2>1. lgMade + 1 \in LgIds /\ lgMade + 1 # LgNoFile
    BY <1>1, <1>2, FileFacts DEF LgIds, LgNoFile
  <2>2. lgFiles' \subseteq 1..lgMade'
    BY <1>1, <1>2, FileFacts DEF LgShape
  <2>3. \A f \in LgIds : f > lgMade' => f > lgMade
    BY <1>1, <1>2, FileFacts DEF LgIds
  <2> QED BY <1>1, <1>2, <2>1, <2>2, <2>3, FileFacts, LgAssumption DEF LgShape
<1>4. lgData[lgMade + 1] = <<>>
  BY <1>1, <1>3, FileFacts DEF LgShape
<1>5. LgShape'
  BY <1>1, <1>2, <1>3 DEF LgShape
<1>6. LgOrder'
  BY <1>1, <1>2 DEF LgOrder
<1>7. KeptInv'
  BY <1>1, <1>2, <1>4, OnDiskNew DEF KeptInv
<1> QED BY <1>2, <1>5, <1>6, <1>7, Disturbed DEF LgInv

(* The buffer runs over.                                                    *)
LEMMA SpillStep == ASSUME LgInv, LgSpill PROVE LgInv'
<1>1. LgShape /\ LgOrder /\ KeptInv
  BY DEF LgInv
<1>2. /\ lgCur # LgNoFile /\ lgData' = [lgData EXCEPT ![lgCur] = @ \o lgBuf] /\ lgBuf' = <<>>
      /\ lgLive' = (lgLive \/ lgEnd # "none")
      /\ lgFiles' = lgFiles /\ lgMade' = lgMade /\ lgSize' = lgSize /\ lgCur' = lgCur /\ lgWriter' = lgWriter
      /\ lgLast' = lgLast /\ lgDir' = lgDir /\ lgPos' = lgPos /\ lgGot' = lgGot /\ lgEnd' = lgEnd /\ lgLost' = lgLost
  BY DEF LgSpill, lgReader
<1>3. /\ lgBuf \in Seq(Nat) /\ lgLast \in Nat /\ Ordered(lgData, lgBuf, lgLast)
      /\ ReadSoFar(lgData, lgBuf, lgDir, lgPos, lgGot)
  BY <1>1, FileFacts DEF LgShape, LgOrder
<1>4. /\ lgData' \in [LgIds -> Seq(Nat)] /\ \A f \in LgIds : f > lgMade => lgData'[f] = <<>>
      /\ Ordered(lgData', <<>>, lgLast) /\ ReadSoFar(lgData', <<>>, lgDir, lgPos, lgGot)
      /\ OnDisk(lgFiles, lgData') = OnDisk(lgFiles, lgData) \cup Elems(lgBuf)
  BY <1>1, <1>2, <1>3, FlushedNow
<1>5. LgShape'
  BY <1>1, <1>2, <1>4 DEF LgShape
<1>6. LgOrder'
  BY <1>1, <1>2, <1>4 DEF LgOrder
<1>7. KeptInv'
  BY <1>1, <1>2, <1>4, ElemsEmpty DEF KeptInv
<1> QED BY <1>2, <1>5, <1>6, <1>7, Disturbed DEF LgInv

(* The writer ends, with or without a flush.                                *)
LEMMA EndWriterStep == ASSUME LgInv, NEW closes \in BOOLEAN, LgEndWriter(closes) PROVE LgInv'
<1>1. LgShape /\ LgOrder /\ KeptInv
  BY DEF LgInv
<1>2. /\ lgCur # LgNoFile /\ lgBuf' = <<>> /\ lgCur' = LgNoFile /\ lgSize' = 0 /\ lgLive' = (lgLive \/ lgEnd # "none")
      /\ lgFiles' = lgFiles /\ lgMade' = lgMade /\ lgWriter' = lgWriter
      /\ lgLast' = lgLast /\ lgDir' = lgDir /\ lgPos' = lgPos /\ lgGot' = lgGot /\ lgEnd' = lgEnd
  BY DEF LgEndWriter, lgReader
<1>3. 0 \in 0..(LgMax - 1)
  BY LgAssumption
<1>4. CASE closes
  <2>1. lgData' = [lgData EXCEPT ![lgCur] = @ \o lgBuf] /\ lgLost' = lgLost
    BY <1>4 DEF LgEndWriter
  <2>2. /\ lgBuf \in Seq(Nat) /\ lgLast \in Nat /\ Ordered(lgData, lgBuf, lgLast)
        /\ ReadSoFar(lgData, lgBuf, lgDir, lgPos, lgGot)
    BY <1>1, FileFacts DEF LgShape, LgOrder
  <2>3. /\ lgData' \in [LgIds -> Seq(Nat)] /\ \A f \in LgIds : f > lgMade => lgData'[f] = <<>>
        /\ Ordered(lgData', <<>>, lgLast) /\ ReadSoFar(lgData', <<>>, lgDir, lgPos, lgGot)
        /\ OnDisk(lgFiles, lgData') = OnDisk(lgFiles, lgData) \cup Elems(lgBuf)
    BY <1>1, <1>2, <2>1, <2>2, FlushedNow
  <2>4. LgShape'
    BY <1>1, <1>2, <1>3, <2>3 DEF LgShape
  <2>5. LgOrder'
    BY <1>1, <1>2, <2>3 DEF LgOrder
  <2>6. KeptInv'
    BY <1>1, <1>2, <2>1, <2>3, ElemsEmpty DEF KeptInv
  <2> QED BY <1>2, <2>4, <2>5, <2>6, Disturbed DEF LgInv
<1>5. CASE ~closes
  <2>1. lgData' = lgData /\ lgLost' = lgLost \cup Elems(lgBuf)
    BY <1>5 DEF LgEndWriter, Elems
  <2>2. LgShape'
    BY <1>1, <1>2, <1>3, <2>1 DEF LgShape
  <2>3. LgOrder'
    BY <1>1, <1>2, <2>1, Dropped DEF LgOrder
  <2>4. OnDisk(lgFiles, lgData) \cap Elems(lgBuf) = {}
    BY <1>1, Apart, FileFacts DEF LgOrder, OnDisk
  <2>5. KeptInv'
    BY <1>1, <1>2, <2>1, <2>4, ElemsEmpty DEF KeptInv
  <2> QED BY <1>2, <2>2, <2>3, <2>5, Disturbed DEF LgInv
<1> QED BY <1>4, <1>5

(* Pruning never takes the newest file.                                     *)
LEMMA NewestStays ==
    ASSUME NEW m \in Nat, NEW files, files \subseteq 1..m, NEW s \in Int, s < Cardinality(files \cup {m + 1})
    PROVE  LgPruned(files \cup {m + 1}, s) \subseteq files
<1>1. IsFiniteSet(1..m)
  BY FS_Interval
<1>2. IsFiniteSet(files)
  BY <1>1, FS_Subset
<1>3. m + 1 \notin files /\ \A g \in files : g < m + 1
  OBVIOUS
<1>4. Cardinality(files) \in Nat /\ Cardinality(files \cup {m + 1}) = Cardinality(files) + 1
  <2>1. \A x : x \notin files => Cardinality(files \cup {x}) = Cardinality(files) + 1
    BY <1>2, FS_AddElement
  <2> QED BY <1>2, <1>3, <2>1, FS_CardinalityType
<1>5. {g \in files \cup {m + 1} : g < m + 1} = files
  <2>1. ~(m + 1 < m + 1)
    OBVIOUS
  <2> QED BY <1>3, <2>1, Zenon
<1>6. ~(Cardinality(files) < s)
  <2>1. PICK c : c = Cardinality(files)
    OBVIOUS
  <2>2. c \in Nat /\ s < c + 1
    BY <1>4, <2>1
  <2>3. ~(c < s)
    BY <2>2
  <2> QED BY <2>1, <2>3
<1>7. m + 1 \notin LgPruned(files \cup {m + 1}, s)
  BY <1>5, <1>6 DEF LgPruned
<1> QED BY <1>7 DEF LgPruned

(* Files that are removed take their entries with them, and no others.      *)
LEMMA Removed ==
    ASSUME NEW files, files \subseteq LgIds, NEW gone, gone \subseteq files, NEW data, NEW last \in Nat,
           Ordered(data, <<>>, last)
    PROVE  /\ OnDisk(files \ gone, data) \cup OnDisk(gone, data) = OnDisk(files, data)
           /\ OnDisk(files \ gone, data) \cap OnDisk(gone, data) = {}
<1>1. OnDisk(files \ gone, data) \cup OnDisk(gone, data) = OnDisk(files, data)
  BY DEF OnDisk
<1>2. \A f, g \in LgIds : f # g => Elems(data[f]) \cap Elems(data[g]) = {}
  BY Apart
<1>3. ASSUME NEW x \in OnDisk(files \ gone, data), x \in OnDisk(gone, data) PROVE FALSE
  <2>1. PICK f \in files \ gone : x \in Elems(data[f])
    BY DEF OnDisk
  <2>2. PICK g \in gone : x \in Elems(data[g])
    BY <1>3 DEF OnDisk
  <2> QED BY <1>2, <2>1, <2>2
<1> QED BY <1>1, <1>3

(* Write, when the file has room.                                           *)
LEMMA WriteStays == ASSUME LgInv, LgWrite, ~LgFull PROVE LgInv'
<1>1. LgShape /\ LgOrder /\ KeptInv
  BY DEF LgInv
<1>2. /\ lgCur # LgNoFile /\ lgLast < LgEntries /\ lgLast' = lgLast + 1 /\ lgBuf' = Append(lgBuf, lgLast + 1)
      /\ lgSize' = lgSize + 1 /\ lgLive' = (lgLive \/ lgEnd # "none") /\ lgData' = lgData
      /\ lgFiles' = lgFiles /\ lgMade' = lgMade /\ lgCur' = lgCur /\ lgWriter' = lgWriter
      /\ lgDir' = lgDir /\ lgPos' = lgPos /\ lgGot' = lgGot /\ lgEnd' = lgEnd /\ lgLost' = lgLost
  BY DEF LgWrite, lgReader
<1>3. lgBuf \in Seq(Nat) /\ lgLast \in Nat /\ lgLast + 1 \in Nat /\ lgSize \in 0..(LgMax - 1)
  BY <1>1, FileFacts DEF LgShape
<1>4. lgBuf' \in Seq(Nat) /\ Elems(lgBuf') = Elems(lgBuf) \cup {lgLast + 1}
  BY <1>2, <1>3, ElemsAppend
<1>5. /\ lgLast' \in 0..LgEntries /\ lgMade' <= lgWriter' + lgLast' /\ lgSize' \in 0..(LgMax - 1)
      /\ 1..lgLast' = (1..lgLast) \cup {lgLast + 1} /\ lgLast + 1 \notin 1..lgLast
  <2>1. lgSize' \in 0..(LgMax - 1)
    BY <1>2, <1>3, LgAssumption DEF LgFull
  <2> QED BY <1>1, <1>2, <2>1, FileFacts
<1>6. LgShape'
  BY <1>1, <1>2, <1>4, <1>5 DEF LgShape
<1>7. LgOrder'
  <2>1. Ordered(lgData, Append(lgBuf, lgLast + 1), lgLast + 1) /\ ReadSoFar(lgData, Append(lgBuf, lgLast + 1), lgDir, lgPos, lgGot)
    BY <1>1, <1>3, Added DEF LgOrder
  <2>2. Elems(lgGot) \subseteq 1..lgLast'
    BY <1>1, <1>5 DEF LgOrder
  <2> QED BY <1>2, <2>1, <2>2 DEF LgOrder
<1>8. KeptInv'
  BY <1>1, <1>2, <1>4, <1>5 DEF KeptInv
<1> QED BY <1>2, <1>6, <1>7, <1>8, Disturbed DEF LgInv

(* Write, when the entry fills the file: it is flushed, the next file is    *)
(* made, and the oldest are removed.                                        *)
LEMMA WriteRotates == ASSUME LgInv, LgWrite, LgFull PROVE LgInv'
<1>1. LgShape /\ LgOrder /\ KeptInv
  BY DEF LgInv
<1> DEFINE b == Append(lgBuf, lgLast + 1)
           files == lgFiles \cup {lgMade + 1}
           gone == IF Cardinality(files) > LgShards THEN LgPruned(files, Cardinality(files) - LgShards) ELSE {}
<1>2. /\ lgCur # LgNoFile /\ lgLast < LgEntries /\ lgLast' = lgLast + 1 /\ lgBuf' = <<>>
      /\ lgSize' = 0 /\ lgLive' = (lgLive \/ lgEnd # "none") /\ lgData' = [lgData EXCEPT ![lgCur] = @ \o b]
      /\ lgFiles' = files \ gone /\ lgMade' = lgMade + 1 /\ lgCur' = lgMade + 1 /\ lgWriter' = lgWriter
      /\ lgDir' = lgDir /\ lgPos' = lgPos /\ lgGot' = lgGot /\ lgEnd' = lgEnd
      /\ lgLost' = lgLost \cup OnDisk(gone, lgData')
  BY DEF LgWrite, LgRotate, lgReader, OnDisk, Elems
<1>3. lgBuf \in Seq(Nat) /\ lgLast \in Nat /\ lgLast + 1 \in Nat
  BY <1>1, FileFacts DEF LgShape
<1>4. b \in Seq(Nat) /\ Elems(b) = Elems(lgBuf) \cup {lgLast + 1}
  BY <1>3, ElemsAppend
<1>5. Ordered(lgData, b, lgLast + 1) /\ ReadSoFar(lgData, b, lgDir, lgPos, lgGot)
  BY <1>1, <1>3, Added DEF LgOrder
<1>6. gone \subseteq lgFiles
  <2>1. lgMade \in Nat /\ lgFiles \subseteq 1..lgMade
    BY <1>1 DEF LgShape
  <2>2. Cardinality(files) \in Nat
    <3>1. IsFiniteSet(1..lgMade)
      BY <2>1, FS_Interval
    <3>2. IsFiniteSet(lgFiles)
      BY <2>1, <3>1, FS_Subset
    <3>3. IsFiniteSet(files)
      BY <3>2, FS_AddElement
    <3> QED BY <3>3, FS_CardinalityType
  <2>3. Cardinality(files) - LgShards \in Int /\ Cardinality(files) - LgShards < Cardinality(files)
    BY <2>2, LgAssumption
  <2>4. LgPruned(files, Cardinality(files) - LgShards) \subseteq lgFiles
    BY <2>1, <2>3, NewestStays
  <2> QED BY <2>4
<1> HIDE DEF b, gone
<1>7. /\ lgData' \in [LgIds -> Seq(Nat)] /\ \A f \in LgIds : f > lgMade => lgData'[f] = <<>>
      /\ Ordered(lgData', <<>>, lgLast + 1) /\ ReadSoFar(lgData', <<>>, lgDir, lgPos, lgGot)
      /\ OnDisk(lgFiles, lgData') = OnDisk(lgFiles, lgData) \cup Elems(b)
  BY <1>1, <1>2, <1>3, <1>4, <1>5, FlushedNow
<1>8. /\ lgLast' \in 0..LgEntries /\ lgMade' <= lgWriter' + lgLast' /\ lgMade' \in Nat /\ 0 \in 0..(LgMax - 1)
      /\ lgMade + 1 \in LgIds /\ lgMade + 1 # LgNoFile /\ lgMade + 1 \notin lgFiles /\ lgDir \in 0..lgMade'
      /\ files \subseteq 1..lgMade' /\ files \subseteq LgIds /\ \A f \in LgIds : f > lgMade' => f > lgMade
      /\ 1..lgLast' = (1..lgLast) \cup {lgLast + 1} /\ lgLast + 1 \notin 1..lgLast
  <2>1. lgMade + 1 \in LgIds /\ lgMade + 1 # LgNoFile /\ lgMade' <= lgWriter' + lgLast' /\ lgMade' \in Nat
    <3>1. /\ lgMade \in Nat /\ lgLast \in Nat /\ LgEntries \in Nat /\ LgWriters \in Nat /\ lgWriter \in Nat
          /\ lgMade <= lgWriter + lgLast /\ lgLast < LgEntries /\ lgWriter <= LgWriters
          /\ lgMade' = lgMade + 1 /\ lgLast' = lgLast + 1 /\ lgWriter' = lgWriter
      BY <1>1, <1>2, FileFacts
    <3> QED BY <3>1 DEF LgIds, LgNoFile
  <2>2. files \subseteq 1..lgMade' /\ lgMade + 1 \notin lgFiles
    BY <1>1, <1>2, FileFacts DEF LgShape
  <2>3. \A f \in LgIds : f > lgMade' => f > lgMade
    BY <1>1, <1>2, FileFacts DEF LgIds
  <2>4. files \subseteq LgIds
    BY <1>1, <2>1, FileFacts
  <2>5. lgDir \in 0..lgMade'
    BY <1>1, <1>2, FileFacts DEF LgShape
  <2>6. lgLast' \in 0..LgEntries /\ 1..lgLast' = (1..lgLast) \cup {lgLast + 1} /\ lgLast + 1 \notin 1..lgLast
    BY <1>1, <1>2, FileFacts
  <2> QED BY <2>1, <2>2, <2>3, <2>4, <2>5, <2>6, LgAssumption
<1>9. LgShape'
  <2>1. lgFiles' \subseteq 1..lgMade' /\ lgCur' \in lgFiles'
    BY <1>2, <1>6, <1>8
  <2> QED BY <1>1, <1>2, <1>7, <1>8, <2>1 DEF LgShape
<1>10. LgOrder'
  BY <1>1, <1>2, <1>7, <1>8 DEF LgOrder
<1>11. KeptInv'
  <2>1. lgData'[lgMade + 1] = <<>>
    BY <1>1, <1>7, <1>8, FileFacts
  <2>2. OnDisk(files, lgData') = OnDisk(lgFiles, lgData) \cup Elems(b)
    BY <1>7, <2>1, OnDiskNew
  <2>3. /\ OnDisk(lgFiles', lgData') \cup OnDisk(gone, lgData') = OnDisk(files, lgData')
        /\ OnDisk(lgFiles', lgData') \cap OnDisk(gone, lgData') = {}
    <3>1. gone \subseteq files
      BY <1>6
    <3> QED BY <1>2, <1>3, <1>7, <1>8, <3>1, Removed
  <2>4. /\ 1..lgLast = OnDisk(lgFiles, lgData) \cup Elems(lgBuf) \cup lgLost
        /\ OnDisk(lgFiles, lgData) \cap lgLost = {} /\ Elems(lgBuf) \cap lgLost = {}
    BY <1>1 DEF KeptInv
  <2>5. OnDisk(files, lgData') \cap lgLost = {}
    BY <1>4, <1>8, <2>2, <2>4
  <2>6. OnDisk(lgFiles', lgData') \cap lgLost' = {}
    BY <1>2, <2>3, <2>5
  <2>7. 1..lgLast' = OnDisk(lgFiles', lgData') \cup lgLost'
    BY <1>2, <1>4, <1>8, <2>2, <2>3, <2>4
  <2> QED BY <1>2, <2>6, <2>7, ElemsEmpty DEF KeptInv
<1> QED BY <1>2, <1>9, <1>10, <1>11, Disturbed DEF LgInv

(* The reader takes the next entry of its file.                             *)
Readable(data, buf, last, dir, pos, got) ==
    /\ data \in [LgIds -> Seq(Nat)] /\ Ordered(data, buf, last) /\ dir \in LgIds /\ pos \in Nat
    /\ got \in Seq(Nat) /\ ReadSoFar(data, buf, dir, pos, got) /\ Elems(got) \subseteq 1..last
LEMMA ReadOne ==
    ASSUME NEW data, NEW buf, NEW last, NEW dir, NEW pos, NEW got, Readable(data, buf, last, dir, pos, got),
           pos < Len(data[dir])
    PROVE  /\ Readable(data, buf, last, dir, pos + 1, Append(got, data[dir][pos + 1]))
           /\ Elems(Append(got, data[dir][pos + 1])) = Elems(got) \cup {data[dir][pos + 1]}
<1>1. /\ data \in [LgIds -> Seq(Nat)] /\ Ordered(data, buf, last) /\ dir \in LgIds /\ pos \in Nat
      /\ got \in Seq(Nat) /\ ReadSoFar(data, buf, dir, pos, got) /\ Elems(got) \subseteq 1..last
  BY DEF Readable
<1>2. PICK d, n, e : d = data[dir] /\ n = Len(d) /\ e = d[pos + 1]
  OBVIOUS
<1>3. d \in Seq(Nat) /\ n \in Nat
  BY <1>1, <1>2
<1>4. pos < n /\ pos + 1 \in 1..n /\ pos + 1 \in (pos + 1)..n /\ pos + 1 \in 0..n /\ pos + 1 \in Nat
  <2>1. pos < n
    BY <1>2
  <2> QED BY <1>1, <1>3, <2>1
<1>5. e \in Elems(d) /\ e \in Nat
  BY <1>2, <1>3, <1>4 DEF Elems
<1>6. /\ Sorted(d) /\ Elems(d) \subseteq 1..last /\ Below(Elems(d), Elems(buf))
      /\ \A f \in LgIds : dir < f => Below(Elems(d), Elems(data[f]))
  BY <1>1, <1>2 DEF Ordered
<1>7. /\ Sorted(got) /\ Below(Elems(got), Elems(buf)) /\ \A f \in LgIds : f > dir => Below(Elems(got), Elems(data[f]))
      /\ \A x \in Elems(got), j \in (pos + 1)..n : x < d[j]
  BY <1>1, <1>2 DEF ReadSoFar
<1>8. PICK more : more = Append(got, e)
  OBVIOUS
<1>9. more \in Seq(Nat) /\ Elems(more) = Elems(got) \cup {e}
  BY <1>1, <1>5, <1>8, ElemsAppend
<1>10. \A x \in Elems(got) : x < e
  BY <1>2, <1>4, <1>7
<1>11. Sorted(more)
  BY <1>1, <1>5, <1>7, <1>8, <1>10, SortedAppend
<1>12. Below(Elems(more), Elems(buf)) /\ Elems(more) \subseteq 1..last
  BY <1>1, <1>5, <1>6, <1>7, <1>9 DEF Below
<1>13. \A f \in LgIds : f > dir => Below(Elems(more), Elems(data[f]))
  <2>1. ASSUME NEW f \in LgIds, f > dir PROVE Below(Elems(more), Elems(data[f]))
    <3>1. dir < f
      BY <1>1, <2>1, LgAssumption DEF LgIds
    <3> QED BY <1>5, <1>6, <1>7, <1>9, <2>1, <3>1 DEF Below
  <2> QED BY <2>1
<1>14. ASSUME NEW x \in Elems(more), NEW j \in (pos + 1 + 1)..n PROVE x < d[j]
  <2>1. j \in (pos + 1)..n /\ j \in 1..n /\ pos + 1 < j
    BY <1>1, <1>3
  <2>2. e < d[j]
    BY <1>2, <1>4, <1>6, <2>1 DEF Sorted
  <2> QED BY <1>7, <1>9, <2>1, <2>2
<1>15. ReadSoFar(data, buf, dir, pos + 1, more)
  BY <1>2, <1>4, <1>7, <1>11, <1>12, <1>13, <1>14 DEF ReadSoFar
<1>16. Readable(data, buf, last, dir, pos + 1, more)
  BY <1>1, <1>4, <1>9, <1>12, <1>15 DEF Readable
<1> QED BY <1>2, <1>8, <1>9, <1>16

(* The reader goes to a later file.                                         *)
LEMMA MovesOn ==
    ASSUME NEW data, NEW buf, NEW last, NEW dir, NEW pos, NEW got, Readable(data, buf, last, dir, pos, got),
           NEW f \in LgIds, f > dir
    PROVE  Readable(data, buf, last, f, 0, got)
<1>1. /\ data \in [LgIds -> Seq(Nat)] /\ Ordered(data, buf, last) /\ dir \in LgIds
      /\ got \in Seq(Nat) /\ ReadSoFar(data, buf, dir, pos, got) /\ Elems(got) \subseteq 1..last
  BY DEF Readable
<1>2. \A g \in LgIds : g > f => g > dir
  BY <1>1, LgAssumption DEF LgIds
<1>3. 0 \in 0..Len(data[f])
  BY <1>1
<1>4. ASSUME NEW x \in Elems(got), NEW j \in (0 + 1)..Len(data[f]) PROVE x < data[f][j]
  <2>1. data[f][j] \in Elems(data[f])
    BY DEF Elems
  <2>2. Below(Elems(got), Elems(data[f]))
    BY <1>1 DEF ReadSoFar
  <2> QED BY <2>1, <2>2 DEF Below
<1>5. Sorted(got) /\ Below(Elems(got), Elems(buf)) /\ \A g \in LgIds : g > f => Below(Elems(got), Elems(data[g]))
  BY <1>1, <1>2 DEF ReadSoFar
<1>6. ReadSoFar(data, buf, f, 0, got)
  BY <1>3, <1>4, <1>5 DEF ReadSoFar
<1> QED BY <1>1, <1>6 DEF Readable

(* What is read up to an entry, and up to the next file.                    *)
LEMMA ReadUpToNext ==
    ASSUME NEW files, NEW data, NEW dir, NEW pos \in Nat
    PROVE  ReadUpTo(files, data, dir, pos + 1) = ReadUpTo(files, data, dir, pos) \cup {data[dir][pos + 1]}
<1>1. 1..(pos + 1) = (1..pos) \cup {pos + 1}
  OBVIOUS
<1>2. FirstOf(data[dir], pos + 1) = FirstOf(data[dir], pos) \cup {data[dir][pos + 1]}
  BY <1>1 DEF FirstOf
<1> QED BY <1>2 DEF ReadUpTo

LEMMA ReadUpToFile ==
    ASSUME NEW files, files \subseteq Nat, NEW data, NEW dir \in files, NEW f \in files, f > dir,
           \A g \in files : g > dir => f <= g
    PROVE  ReadUpTo(files, data, f, 0) = ReadUpTo(files, data, dir, Len(data[dir]))
<1>1. ASSUME NEW g \in files PROVE g < f <=> (g < dir \/ g = dir)
  <2>1. g \in Nat /\ f \in Nat /\ dir \in Nat
    OBVIOUS
  <2>2. ~(g > dir) => (g < f /\ (g < dir \/ g = dir))
    BY <2>1
  <2>3. g > dir => ~(g < f) /\ ~(g < dir \/ g = dir)
    <3>1. ASSUME g > dir PROVE f <= g
      BY <3>1
    <3> QED BY <2>1, <3>1
  <2> QED BY <2>2, <2>3
<1>2. Earlier(files, f) = Earlier(files, dir) \cup {dir}
  BY <1>1 DEF Earlier
<1>3. FirstOf(data[f], 0) = {} /\ FirstOf(data[dir], Len(data[dir])) = Elems(data[dir])
  <2>1. 1..0 = {}
    OBVIOUS
  <2> QED BY <2>1 DEF FirstOf, Elems
<1>4. OnDisk(Earlier(files, dir) \cup {dir}, data) = OnDisk(Earlier(files, dir), data) \cup Elems(data[dir])
  BY DEF OnDisk
<1> QED BY <1>2, <1>3, <1>4 DEF ReadUpTo

(* NewDirectoryReader.                                                      *)
LEMMA OpenReaderStep == ASSUME LgInv, LgOpenReader PROVE LgInv'
<1>1. LgShape /\ LgOrder /\ KeptInv
  BY DEF LgInv
<1>2. /\ lgEnd = "none" /\ lgFiles # {} /\ lgDir' = (CHOOSE f \in lgFiles : \A g \in lgFiles : f <= g)
      /\ lgEnd' = "reading" /\ lgLive' = (lgCur # LgNoFile)
      /\ lgFiles' = lgFiles /\ lgMade' = lgMade /\ lgData' = lgData /\ lgBuf' = lgBuf /\ lgSize' = lgSize
      /\ lgCur' = lgCur /\ lgWriter' = lgWriter /\ lgLast' = lgLast /\ lgPos' = lgPos /\ lgGot' = lgGot /\ lgLost' = lgLost
  BY DEF LgOpenReader
<1>3. lgFiles \subseteq LgIds /\ LgIds \subseteq Nat /\ lgFiles \subseteq 1..lgMade /\ lgData \in [LgIds -> Seq(Nat)]
  BY <1>1, FileFacts DEF LgShape
<1>4. \E f \in lgFiles : \A g \in lgFiles : f <= g
  BY <1>2, <1>3, HasLeast
<1>5. lgDir' \in lgFiles /\ \A g \in lgFiles : lgDir' <= g
  BY <1>2, <1>4
<1>6. lgPos = 0 /\ lgGot = <<>> /\ Elems(lgGot) = {} /\ Sorted(lgGot)
  BY <1>1, <1>2, ElemsEmpty DEF LgShape
<1>7. lgDir' \in 0..lgMade /\ lgDir' # 0
  BY <1>1, <1>3, <1>5, FileFacts
<1>8. LgShape'
  BY <1>1, <1>2, <1>7 DEF LgShape
<1>9. LgOrder'
  <2>1. 0 \in 0..Len(lgData[lgDir'])
    BY <1>3, <1>5
  <2>2. ReadSoFar(lgData, lgBuf, lgDir', 0, lgGot)
    BY <1>6, <2>1 DEF ReadSoFar, Below
  <2> QED BY <1>1, <1>2, <1>6, <2>2 DEF LgOrder
<1>10. KeptInv'
  BY <1>1, <1>2 DEF KeptInv
<1>11. QuietInv'
  <2>1. Earlier(lgFiles, lgDir') = {}
    <3>1. ASSUME NEW g \in lgFiles PROVE ~(g < lgDir')
      <4>1. g \in Nat /\ lgDir' \in Nat /\ lgDir' <= g
        BY <1>3, <1>5
      <4> QED BY <4>1
    <3> QED BY <3>1 DEF Earlier
  <2>2. FirstOf(lgData[lgDir'], 0) = {}
    <3>1. 1..0 = {}
      OBVIOUS
    <3> QED BY <3>1 DEF FirstOf
  <2>3. ReadUpTo(lgFiles, lgData, lgDir', 0) = {}
    BY <2>1, <2>2 DEF ReadUpTo, OnDisk
  <2> QED BY <1>2, <1>5, <1>6, <2>3 DEF QuietInv
<1> QED BY <1>8, <1>9, <1>10, <1>11 DEF LgInv

(* Next: what is read stays in order, and what has been read is all up to   *)
(* the place in the directory.                                              *)
LEMMA NextEntryStep == ASSUME LgInv, LgNextEntry PROVE LgInv'
<1>1. LgShape /\ LgOrder /\ KeptInv /\ QuietInv
  BY DEF LgInv
<1>2. /\ lgEnd = "reading" /\ lgFiles' = lgFiles /\ lgMade' = lgMade /\ lgData' = lgData /\ lgBuf' = lgBuf
      /\ lgSize' = lgSize /\ lgCur' = lgCur /\ lgWriter' = lgWriter /\ lgLast' = lgLast /\ lgLive' = lgLive /\ lgLost' = lgLost
  BY DEF LgNextEntry
<1>3. /\ lgFiles \subseteq LgIds /\ LgIds \subseteq Nat /\ lgFiles \subseteq 1..lgMade /\ lgData \in [LgIds -> Seq(Nat)]
      /\ lgDir # 0 /\ lgDir \in LgIds /\ lgPos \in Nat /\ lgMade \in Nat /\ lgDir \in 0..lgMade
  BY <1>1, <1>2, FileFacts DEF LgShape
<1>4. Readable(lgData, lgBuf, lgLast, lgDir, lgPos, lgGot)
  BY <1>1, <1>3 DEF Readable, LgShape, LgOrder
<1>5. lgPos \in 0..Len(lgData[lgDir]) /\ Len(lgData[lgDir]) \in Nat
  BY <1>1, <1>3 DEF LgOrder, ReadSoFar
<1>6. ASSUME Readable(lgData, lgBuf, lgLast, lgDir', lgPos', lgGot'), lgDir' \in 0..lgMade, lgDir' # 0,
             lgEnd' \in {"reading", "eof"}
      PROVE  LgShape' /\ LgOrder' /\ KeptInv'
  <2>1. lgPos' \in Nat /\ lgGot' \in Seq(Nat) /\ ReadSoFar(lgData, lgBuf, lgDir', lgPos', lgGot') /\ Elems(lgGot') \subseteq 1..lgLast
    BY <1>6 DEF Readable
  <2>2. lgEnd' # "none"
    BY <1>6
  <2>3. LgShape'
    BY <1>1, <1>2, <1>6, <2>1, <2>2 DEF LgShape
  <2>4. LgOrder'
    BY <1>1, <1>2, <2>1 DEF LgOrder
  <2>5. KeptInv'
    BY <1>1, <1>2 DEF KeptInv
  <2> QED BY <2>3, <2>4, <2>5
<1>7. CASE lgPos < Len(lgData[lgDir])
  <2>1. lgPos' = lgPos + 1 /\ lgGot' = Append(lgGot, lgData[lgDir][lgPos + 1]) /\ lgDir' = lgDir /\ lgEnd' = lgEnd
    BY <1>7 DEF LgNextEntry
  <2>2. /\ Readable(lgData, lgBuf, lgLast, lgDir, lgPos + 1, Append(lgGot, lgData[lgDir][lgPos + 1]))
        /\ Elems(Append(lgGot, lgData[lgDir][lgPos + 1])) = Elems(lgGot) \cup {lgData[lgDir][lgPos + 1]}
    BY <1>4, <1>7, ReadOne
  <2>3. LgShape' /\ LgOrder' /\ KeptInv'
    BY <1>2, <1>3, <1>6, <2>1, <2>2
  <2>4. ReadUpTo(lgFiles, lgData, lgDir, lgPos + 1) = ReadUpTo(lgFiles, lgData, lgDir, lgPos) \cup {lgData[lgDir][lgPos + 1]}
    BY <1>3, ReadUpToNext
  <2>5. QuietInv'
    BY <1>1, <1>2, <2>1, <2>2, <2>4 DEF QuietInv
  <2> QED BY <2>3, <2>5 DEF LgInv
<1>8. CASE ~(lgPos < Len(lgData[lgDir])) /\ LgFollowing = {}
  <2>1. lgEnd' = "eof" /\ lgDir' = lgDir /\ lgPos' = lgPos /\ lgGot' = lgGot
    BY <1>8 DEF LgNextEntry
  <2>2. LgShape' /\ LgOrder' /\ KeptInv'
    BY <1>3, <1>4, <1>6, <2>1
  <2>3. lgPos = Len(lgData[lgDir])
    BY <1>5, <1>8
  <2>4. ASSUME lgDir \in lgFiles, NEW g \in lgFiles PROVE g <= lgDir
    <3> DEFINE later == {h \in lgFiles : h > lgDir}
    <3>1. CASE g > lgDir
      <4>1. later \subseteq Nat /\ later # {}
        BY <1>3, <3>1
      <4>2. PICK x \in later : \A y \in later : x <= y
        BY <4>1, HasLeast
      <4>3. x \in LgFollowing
        BY <2>4, <4>2 DEF LgFollowing
      <4> QED BY <1>8, <4>3
    <3> QED BY <1>3, <3>1
  <2>5. QuietInv'
    BY <1>1, <1>2, <2>1, <2>3, <2>4 DEF QuietInv
  <2> QED BY <2>2, <2>5 DEF LgInv
<1>9. CASE ~(lgPos < Len(lgData[lgDir])) /\ LgFollowing # {}
  <2>1. PICK f : f = (CHOOSE g \in LgFollowing : TRUE)
    OBVIOUS
  <2>2. f \in LgFollowing
    BY <1>9, <2>1
  <2>3. f \in lgFiles /\ lgDir \in lgFiles /\ f > lgDir /\ \A g \in lgFiles : g > lgDir => f <= g
    BY <2>2 DEF LgFollowing
  <2>4. f \in LgIds /\ f \in 0..lgMade /\ f # 0 /\ lgPos = Len(lgData[lgDir])
    BY <1>3, <1>5, <1>9, <2>3
  <2>5. Readable(lgData, lgBuf, lgLast, f, 0, lgGot)
    BY <1>4, <2>3, <2>4, MovesOn
  <2>6. ReadUpTo(lgFiles, lgData, f, 0) = ReadUpTo(lgFiles, lgData, lgDir, lgPos)
    BY <1>3, <2>3, <2>4, ReadUpToFile
  <2>7. CASE lgData[f] = <<>>
    <3>1. lgDir' = f /\ lgEnd' = "eof" /\ lgPos' = 0 /\ lgGot' = lgGot
      BY <1>9, <2>1, <2>7 DEF LgNextEntry
    <3>2. LgShape' /\ LgOrder' /\ KeptInv'
      BY <1>6, <2>4, <2>5, <3>1
    <3>3. QuietInv'
      BY <1>1, <1>2, <2>3, <2>6, <2>7, <3>1 DEF QuietInv
    <3> QED BY <3>2, <3>3 DEF LgInv
  <2>8. CASE lgData[f] # <<>>
    <3>1. lgDir' = f /\ lgEnd' = lgEnd /\ lgPos' = 1 /\ lgGot' = Append(lgGot, lgData[f][1])
      BY <1>9, <2>1, <2>8 DEF LgNextEntry
    <3>2. 0 < Len(lgData[f])
      BY <1>3, <2>4, <2>8
    <3>3. /\ Readable(lgData, lgBuf, lgLast, f, 0 + 1, Append(lgGot, lgData[f][0 + 1]))
          /\ Elems(Append(lgGot, lgData[f][0 + 1])) = Elems(lgGot) \cup {lgData[f][0 + 1]}
      BY <2>5, <3>2, ReadOne
    <3>4. ReadUpTo(lgFiles, lgData, f, 0 + 1) = ReadUpTo(lgFiles, lgData, f, 0) \cup {lgData[f][0 + 1]}
      BY ReadUpToNext
    <3>5. 0 + 1 = 1
      OBVIOUS
    <3>6. LgShape' /\ LgOrder' /\ KeptInv'
      BY <1>2, <1>6, <2>4, <3>1, <3>3, <3>5
    <3>7. QuietInv'
      BY <1>1, <1>2, <2>3, <2>6, <3>1, <3>3, <3>4, <3>5 DEF QuietInv
    <3> QED BY <3>6, <3>7 DEF LgInv
  <2> QED BY <2>7, <2>8
<1> QED BY <1>7, <1>8, <1>9

LEMMA LgNextInv == LgInv /\ [LgNext]_lgVars => LgInv'
<1>1. SUFFICES ASSUME LgInv, [LgNext]_lgVars PROVE LgInv'
  OBVIOUS
<1>2. CASE LgOpenWriter
  BY <1>1, <1>2, OpenWriterStep
<1>3. CASE LgWrite
  BY <1>1, <1>3, WriteStays, WriteRotates
<1>4. CASE LgSpill
  BY <1>1, <1>4, SpillStep
<1>5. CASE \E b \in BOOLEAN : LgEndWriter(b)
  BY <1>1, <1>5, EndWriterStep
<1>6. CASE LgOpenReader
  BY <1>1, <1>6, OpenReaderStep
<1>7. CASE LgNextEntry
  BY <1>1, <1>7, NextEntryStep
<1>8. CASE UNCHANGED lgVars
  BY <1>1, <1>8 DEF lgVars, LgInv, LgShape, LgOrder, KeptInv, QuietInv
<1> QED BY <1>1, <1>2, <1>3, <1>4, <1>5, <1>6, <1>7, <1>8 DEF LgNext

LEMMA LgFaithfulFollows == LgInv => LgFaithful
<1>1. SUFFICES ASSUME LgInv PROVE LgFaithful
  OBVIOUS
<1>2. LgShape /\ LgOrder /\ KeptInv /\ QuietInv
  BY <1>1 DEF LgInv
<1>3. /\ lgFiles \subseteq LgIds /\ lgMade \in Nat /\ lgMade <= LgEntries + LgWriters /\ LgIds \subseteq Nat
      /\ lgData \in [LgIds -> Seq(Nat)] /\ lgDir \in Nat
  <2>1. lgMade <= LgEntries + LgWriters
    BY <1>2, FileFacts
  <2> QED BY <1>2, <2>1, FileFacts DEF LgShape
<1>4. LgTypeOK
  <2>1. lgMade \in 0..(LgEntries + LgWriters)
    BY <1>3, LgAssumption
  <2>2. lgCur \in LgIds \cup {LgNoFile}
    BY <1>2, <1>3 DEF LgShape
  <2> QED BY <1>2, <1>3, <2>1, <2>2 DEF LgTypeOK, LgShape
<1>5. LgReadsInOrder
  BY <1>2 DEF LgOrder, ReadSoFar, Sorted, LgReadsInOrder
<1>6. LgKept
  <2>1. OnDisk(lgFiles, lgData) \cap Elems(lgBuf) = {}
    BY <1>2, Apart, FileFacts DEF LgOrder, OnDisk
  <2> QED BY <1>2, <2>1 DEF LgKept, KeptInv, OnDisk, Elems, LgShape
<1>7. LgReadsAll
  <2>1. SUFFICES ASSUME lgEnd = "eof", ~lgLive, \A f \in lgFiles : lgData[f] # <<>>
                 PROVE  Elems(lgGot) = OnDisk(lgFiles, lgData)
    BY DEF LgReadsAll, Elems, OnDisk
  <2>2. /\ lgDir \in lgFiles /\ Elems(lgGot) = ReadUpTo(lgFiles, lgData, lgDir, lgPos)
        /\ lgPos = Len(lgData[lgDir]) /\ \A g \in lgFiles : g <= lgDir
    BY <1>2, <2>1 DEF QuietInv
  <2>3. FirstOf(lgData[lgDir], lgPos) = Elems(lgData[lgDir])
    BY <2>2 DEF FirstOf, Elems
  <2>4. lgFiles = Earlier(lgFiles, lgDir) \cup {lgDir}
    <3>1. ASSUME NEW g \in lgFiles PROVE g < lgDir \/ g = lgDir
      <4>1. g \in Nat /\ lgDir \in Nat /\ g <= lgDir
        BY <1>3, <2>2
      <4> QED BY <4>1
    <3> QED BY <2>2, <3>1 DEF Earlier
  <2>5. OnDisk(Earlier(lgFiles, lgDir) \cup {lgDir}, lgData) = OnDisk(Earlier(lgFiles, lgDir), lgData) \cup Elems(lgData[lgDir])
    BY DEF OnDisk
  <2> QED BY <2>2, <2>3, <2>4, <2>5 DEF ReadUpTo
<1> QED BY <1>4, <1>5, <1>6, <1>7 DEF LgFaithful

(* The logs of a container, for any number of entries, writers and files to *)
(* keep and any size of a file: every entry that was written is in the      *)
(* buffer, on disk or lost in one of the two ways there are, and in one     *)
(* place only; a writer never prunes its own file; a reader returns entries *)
(* in order and each once, through rotation, pruning and writers that come  *)
(* and go, and one that no writer disturbs returns all that is on disk.     *)
THEOREM LogIsFaithful == LgSpec => []LgFaithful
<1>1. LgSpec => []LgInv
  BY LgInitInv, LgNextInv, PTL DEF LgSpec
<1> QED BY <1>1, LgFaithfulFollows, PTL

------------------------------------------------------------------------------
(* The command line and the machines it starts.                             *)

LnSetup == {"setup", "fetch", "unpack", "config", "encode"}
LnServing == {"vm", "run", "up", "ending", "ended"}
LnPcs == LnSetup \cup LnServing \cup {"idle", "stop", "pid", "connect", "shell", "over", "killed"}

(* What the variables hold; a process that is not begun has done nothing,  *)
(* and where a process can be depends on what it was called for.           *)
LnShape ==
    /\ lnPlan \in LnPlans /\ lnBegun \in LnProcs \cup {0} /\ lnAsked \in Nat /\ lnAsked <= lnBegun
    /\ lnKind \in [LnProcs -> {"none", "shell", "start", "stop"}] /\ lnVer \in [LnProcs -> Nat]
    /\ lnPc \in [LnProcs -> LnPcs] /\ lnNew \in [LnProcs -> Nat] /\ lnLeft \in [LnProcs -> 0..LnFiles]
    /\ lnVersion \in Nat /\ lnDisk \in [1..LnFiles -> Nat] /\ lnConf \in {"none", "empty", "whole"}
    /\ lnPid \in LnProcs \cup {LnNone}

LnKindInv ==
    \A p \in LnProcs :
        /\ p > lnBegun => lnPc[p] = "idle"
        /\ lnPc[p] \in LnServing => lnKind[p] = "start"
        /\ lnPc[p] \in {"pid", "connect", "shell"} => lnKind[p] = "shell"
        /\ lnPc[p] \in LnSetup => lnKind[p] \in {"shell", "start"}
        /\ lnPc[p] = "unpack" => lnLeft[p] > 0

(* One machine at a time, until two have overlapped; the pid file names it  *)
(* from writePid on, or one that was killed.                               *)
LnPidInv ==
    ~lnTwo => /\ \A p, q \in LnMachines : p = q
              /\ \A p \in LnProcs : lnPc[p] \in {"run", "up"} => lnPid = p
              /\ lnPid # LnNone => lnPc[lnPid] \in {"run", "up", "ending", "killed"}

LnRelease(v) == IF v \in LnPublished THEN v ELSE LnLatest

(* The one process that unpacks has written the first files of the release  *)
(* that the version file stands for; without one, all of them are.          *)
LnUnpackInv ==
    ~lnTorn =>
        /\ \A p, q \in LnProcs : lnPc[p] = "unpack" /\ lnPc[q] = "unpack" => p = q
        /\ \A p \in LnProcs : lnPc[p] = "unpack" =>
             /\ lnNew[p] = LnRelease(lnVersion)
             /\ \A f \in 1..LnFiles : f <= LnFiles - lnLeft[p] => lnDisk[f] = lnNew[p]
        /\ (\A p \in LnProcs : lnPc[p] # "unpack") /\ lnVersion # LnNone =>
             \A f \in 1..LnFiles : lnDisk[f] = LnRelease(lnVersion)

LnInv == LnShape /\ LnKindInv /\ LnPidInv /\ LnUnpackInv

(* Pids are positive numbers.                                               *)
LEMMA LnPids == /\ 0 \notin LnProcs /\ LnFiles \in Nat /\ LnFiles > 0 /\ LnLatest \in Nat /\ LnPublished \subseteq Nat
                /\ \A p \in LnProcs : p \in Nat
<1>1. Cardinality(LnProcs) \in Nat
  BY LnAssumption, FS_CardinalityType
<1> QED BY <1>1, LnAssumption

(* LnInv holds at first.                                                    *)
LEMMA LnInitInv == LnInit => LnInv
<1> SUFFICES ASSUME LnInit PROVE LnInv
  OBVIOUS
<1> USE LnPids
<1>1. PICK v, w : v = lnPlan.installed /\ w = lnPlan.conf
  OBVIOUS
<1>6. v \in LnPublished \cup {LnNone} /\ w \in {"none", "whole"}
  <2>1. lnPlan \in LnPlans
    BY DEF LnInit
  <2> QED BY <1>1, <2>1, LnPlansAssumption, Zenon
<1>7. v \in Nat
  BY <1>6 DEF LnNone
<1>8. /\ lnVersion = v /\ lnDisk = [f \in 1..LnFiles |-> v] /\ lnConf = w
  BY <1>1 DEF LnInit
<1>2. LnShape
  <2>1. /\ lnPlan \in LnPlans /\ lnBegun \in LnProcs \cup {0} /\ lnAsked \in Nat /\ lnAsked <= lnBegun
        /\ lnPid \in LnProcs \cup {LnNone}
    BY DEF LnInit, LnNone
  <2>2. lnKind \in [LnProcs -> {"none", "shell", "start", "stop"}] /\ lnPc \in [LnProcs -> LnPcs]
    BY DEF LnInit, LnPcs, LnSetup, LnServing
  <2>3. lnVer \in [LnProcs -> Nat] /\ lnNew \in [LnProcs -> Nat] /\ lnLeft \in [LnProcs -> 0..LnFiles]
    BY DEF LnInit, LnNone
  <2>4. lnVersion \in Nat /\ lnDisk \in [1..LnFiles -> Nat] /\ lnConf \in {"none", "empty", "whole"}
    BY <1>6, <1>7, <1>8
  <2> QED BY <2>1, <2>2, <2>3, <2>4 DEF LnShape
<1>3. LnKindInv
  BY DEF LnInit, LnKindInv, LnServing, LnSetup
<1>4. LnPidInv
  BY DEF LnInit, LnPidInv, LnMachines, LnAlive
<1>5. LnUnpackInv
  BY <1>6, <1>8 DEF LnInit, LnUnpackInv, LnRelease, LnNone
<1> QED BY <1>2, <1>3, <1>4, <1>5 DEF LnInv
LnAtRun == {"run", "up", "ending", "killed"}
LnSame == UNCHANGED <<lnPlan, lnBegun, lnAsked, lnKind, lnVer, lnNew, lnLeft, lnVersion, lnDisk, lnPid, lnTwo>>

(* A process goes from one place to another and leaves the files alone.     *)
LnMoves(p, x) ==
    /\ LnSame /\ lnPc' = [lnPc EXCEPT ![p] = x] /\ lnConf' \in {"none", "empty", "whole"} /\ (lnTorn => lnTorn')
    /\ lnPc[p] = "unpack" => lnTorn'
    /\ x \in LnPcs \ {"idle", "unpack"} /\ lnPc[p] \notin {"idle", "over", "killed"}
    /\ x \in LnServing => lnKind[p] = "start"
    /\ x \in {"pid", "connect", "shell"} => lnKind[p] = "shell"
    /\ x \in LnSetup => lnKind[p] \in {"shell", "start"}
    /\ lnPc[p] \in LnAtRun => x \in LnAtRun
    /\ x \in {"run", "up"} => lnPc[p] \in {"run", "up"}

(* Such a move keeps the invariant.                                         *)
LEMMA LnMoveInv == ASSUME LnInv, NEW p \in LnProcs, NEW x, LnMoves(p, x) PROVE LnInv'
<1> USE LnPids
<1>1. LnShape /\ LnKindInv /\ LnPidInv /\ LnUnpackInv
  BY DEF LnInv
<1>2. /\ lnPc' \in [LnProcs -> LnPcs] /\ lnPc'[p] = x /\ \A q \in LnProcs : q # p => lnPc'[q] = lnPc[q]
      /\ lnPc \in [LnProcs -> LnPcs]
  BY <1>1 DEF LnMoves, LnShape
<1>3. LnShape'
  BY <1>1, <1>2 DEF LnShape, LnMoves, LnSame
<1>4. LnKindInv'
  BY <1>1, <1>2 DEF LnKindInv, LnMoves, LnSame, LnShape
<1>5. LnMachines' \subseteq LnMachines
  BY <1>2 DEF LnMachines, LnAlive, LnMoves, LnSame
<1>6. LnPidInv'
  <2>1. SUFFICES ASSUME ~lnTwo PROVE /\ \A q, r \in LnMachines' : q = r
                                     /\ \A q \in LnProcs : lnPc'[q] \in {"run", "up"} => lnPid = q
                                     /\ lnPid # LnNone => lnPc'[lnPid] \in {"run", "up", "ending", "killed"}
    BY DEF LnPidInv, LnMoves, LnSame
  <2>2. \A q, r \in LnMachines' : q = r
    BY <1>1, <1>5, <2>1 DEF LnPidInv
  <2>3. /\ \A q \in LnProcs : lnPc[q] \in {"run", "up"} => lnPid = q
        /\ lnPid # LnNone => lnPc[lnPid] \in {"run", "up", "ending", "killed"}
    BY <1>1, <2>1 DEF LnPidInv
  <2>4. x \in {"run", "up"} => lnPid = p
    BY <2>3 DEF LnMoves
  <2>5. lnPid = p => x \in {"run", "up", "ending", "killed"}
    BY <2>3 DEF LnMoves, LnAtRun, LnNone
  <2>6. lnPid # LnNone => lnPid \in LnProcs
    BY <1>1 DEF LnShape
  <2> QED BY <1>2, <2>2, <2>3, <2>4, <2>5, <2>6
<1>7. LnUnpackInv'
  <2>1. CASE lnTorn'
    BY <2>1 DEF LnUnpackInv
  <2>2. CASE ~lnTorn'
    <3>1. ~lnTorn /\ lnPc[p] # "unpack" /\ x # "unpack"
      BY <2>2 DEF LnMoves
    <3>2. \A q \in LnProcs : lnPc'[q] = "unpack" <=> lnPc[q] = "unpack"
      BY <1>2, <3>1
    <3>3. /\ lnNew' = lnNew /\ lnVersion' = lnVersion /\ lnDisk' = lnDisk /\ lnLeft' = lnLeft
      BY DEF LnMoves, LnSame
    <3>4. /\ \A q, r \in LnProcs : lnPc[q] = "unpack" /\ lnPc[r] = "unpack" => q = r
          /\ \A q \in LnProcs : lnPc[q] = "unpack" =>
               /\ lnNew[q] = LnRelease(lnVersion)
               /\ \A f \in 1..LnFiles : f <= LnFiles - lnLeft[q] => lnDisk[f] = lnNew[q]
          /\ (\A q \in LnProcs : lnPc[q] # "unpack") /\ lnVersion # LnNone =>
               \A f \in 1..LnFiles : lnDisk[f] = LnRelease(lnVersion)
      BY <1>1, <3>1 DEF LnUnpackInv
    <3>5. LnRelease(lnVersion)' = LnRelease(lnVersion)
      BY <3>3 DEF LnRelease
    <3> QED BY <3>2, <3>3, <3>4, <3>5 DEF LnUnpackInv
  <2> QED BY <2>1, <2>2
<1> QED BY <1>3, <1>4, <1>6, <1>7 DEF LnInv

(* The steps that only move.                                                *)
LEMMA LnMovingSteps ==
    ASSUME LnInv, NEW p \in LnProcs,
           \/ LnStop(p) \/ LnCheckState(p) \/ LnFetch(p, FALSE) \/ LnUnpack(p, TRUE) \/ LnCheckConfig(p)
           \/ LnWriteConfig(p) \/ (LnAutoStart(p) /\ LnRuns(p)) \/ LnConnect(p) \/ LnListen(p) \/ LnRunEnds(p)
           \/ LnKilled(p)
    PROVE  \E x : LnMoves(p, x)
<1>1. LnShape /\ LnKindInv
  BY DEF LnInv
<1>2. /\ lnPc[p] \in LnPcs /\ lnKind[p] \in {"none", "shell", "start", "stop"} /\ lnConf \in {"none", "empty", "whole"}
      /\ lnPc[p] \in LnServing => lnKind[p] = "start"
      /\ lnPc[p] \in {"pid", "connect", "shell"} => lnKind[p] = "shell"
      /\ lnPc[p] \in LnSetup => lnKind[p] \in {"shell", "start"}
  BY <1>1 DEF LnShape, LnKindInv
<1> USE <1>2 DEF LnMoves, LnSame, LnPcs, LnSetup, LnServing, LnAtRun, lnState
<1>3. CASE LnStop(p)
  <2>1. LnMoves(p, "over")
    BY <1>3 DEF LnStop
  <2> QED BY <2>1
<1>4. CASE LnCheckState(p)
  <2>1. LnMoves(p, "fetch") \/ LnMoves(p, "config")
    BY <1>4 DEF LnCheckState
  <2> HIDE DEF LnMoves
  <2> QED BY <2>1
<1>5. CASE LnFetch(p, FALSE)
  <2>1. LnMoves(p, "over")
    BY <1>5 DEF LnFetch
  <2> QED BY <2>1
<1>6. CASE LnUnpack(p, TRUE)
  <2>1. LnMoves(p, "config")
    BY <1>6 DEF LnUnpack
  <2> QED BY <2>1
<1>7. CASE LnCheckConfig(p)
  <2>1. LnMoves(p, "encode") \/ LnMoves(p, "over") \/ LnMoves(p, "vm") \/ LnMoves(p, "pid")
    BY <1>7 DEF LnCheckConfig, LnConfigured
  <2> HIDE DEF LnMoves
  <2> QED BY <2>1
<1>8. CASE LnWriteConfig(p)
  <2>1. LnMoves(p, "vm") \/ LnMoves(p, "pid")
    BY <1>8 DEF LnWriteConfig, LnConfigured
  <2> HIDE DEF LnMoves
  <2> QED BY <2>1
<1>9. CASE LnAutoStart(p) /\ LnRuns(p)
  <2>1. LnMoves(p, "connect")
    BY <1>9 DEF LnAutoStart
  <2> QED BY <2>1
<1>10. CASE LnConnect(p)
  <2>1. LnMoves(p, "shell") \/ LnMoves(p, "over")
    BY <1>10 DEF LnConnect
  <2> HIDE DEF LnMoves
  <2> QED BY <2>1
<1>11. CASE LnListen(p)
  <2>1. LnMoves(p, "up")
    BY <1>11 DEF LnListen
  <2> QED BY <2>1
<1>12. CASE LnRunEnds(p)
  <2>1. LnMoves(p, "ending")
    BY <1>12 DEF LnRunEnds
  <2> QED BY <2>1
<1>13. CASE LnKilled(p)
  <2>1. LnMoves(p, "killed")
    BY <1>13 DEF LnKilled, LnAlive
  <2> QED BY <2>1
<1> QED BY <1>3, <1>4, <1>5, <1>6, <1>7, <1>8, <1>9, <1>10, <1>11, <1>12, <1>13

(* A process is begun, by a user or by a shell that goes on to connect.     *)
LnBorn(kind, ver, x) ==
    /\ kind \in {"shell", "start", "stop"} /\ ver \in Nat /\ LnBirth(kind, ver)
    /\ x \in {"setup", "stop"} /\ (x = "setup" => kind # "stop")
    /\ lnPc' \in [LnProcs -> LnPcs] /\ lnPc'[lnBegun + 1] = x
    /\ \A q \in LnProcs : q # lnBegun + 1 => lnPc'[q] = lnPc[q] \/ (lnPc[q] = "pid" /\ lnPc'[q] = "connect")
    /\ UNCHANGED <<lnPlan, lnNew, lnLeft, lnVersion, lnDisk, lnConf, lnPid, lnTorn>> /\ lnAsked' \in {lnAsked, lnAsked + 1}

(* Its pid is new, and a machine begun while another one lives is noted.    *)
LEMMA LnBirthInv == ASSUME LnInv, NEW kind, NEW ver, NEW x, LnBorn(kind, ver, x) PROVE LnInv'
<1> USE LnPids
<1>1. LnShape /\ LnKindInv /\ LnPidInv /\ LnUnpackInv
  BY DEF LnInv
<1>2. PICK b : b = lnBegun + 1
  OBVIOUS
<1>3. /\ b \in LnProcs /\ lnBegun' = b /\ b \in Nat /\ lnBegun \in Nat /\ b = lnBegun + 1
      /\ lnKind' \in [LnProcs -> {"none", "shell", "start", "stop"}] /\ lnVer' \in [LnProcs -> Nat]
      /\ lnKind'[b] = kind /\ \A q \in LnProcs : q # b => lnKind'[q] = lnKind[q]
  BY <1>1, <1>2 DEF LnBorn, LnBirth, LnShape
<1>4. /\ lnPc' \in [LnProcs -> LnPcs] /\ lnPc'[b] = x /\ lnPc[b] = "idle" /\ x \in {"setup", "stop"}
      /\ \A q \in LnProcs : q # b => lnPc'[q] = lnPc[q] \/ (lnPc[q] = "pid" /\ lnPc'[q] = "connect")
  BY <1>1, <1>2, <1>3 DEF LnBorn, LnKindInv
<1>5. LnShape'
  <2>1. lnAsked' \in Nat /\ lnAsked' <= lnBegun'
    <3>1. lnAsked \in Nat /\ lnAsked <= lnBegun
      BY <1>1 DEF LnShape
    <3>2. lnAsked' \in {lnAsked, lnAsked + 1}
      BY DEF LnBorn
    <3>3. lnBegun \in Nat /\ lnBegun' = lnBegun + 1
      BY <1>3
    <3> QED BY <3>1, <3>2, <3>3
  <2> QED BY <1>1, <1>3, <1>4, <2>1 DEF LnShape, LnBorn
<1>6. LnKindInv'
  <2>1. SUFFICES ASSUME NEW q \in LnProcs
                 PROVE  /\ q > lnBegun' => lnPc'[q] = "idle"
                        /\ lnPc'[q] \in LnServing => lnKind'[q] = "start"
                        /\ lnPc'[q] \in {"pid", "connect", "shell"} => lnKind'[q] = "shell"
                        /\ lnPc'[q] \in LnSetup => lnKind'[q] \in {"shell", "start"}
                        /\ lnPc'[q] = "unpack" => lnLeft'[q] > 0
    BY DEF LnKindInv
  <2>2. CASE q = b
    BY <1>3, <1>4, <2>2 DEF LnBorn, LnServing, LnSetup
  <2>3. CASE q # b
    <3>1. /\ q > lnBegun => lnPc[q] = "idle"
          /\ lnPc[q] \in LnServing => lnKind[q] = "start"
          /\ lnPc[q] \in {"pid", "connect", "shell"} => lnKind[q] = "shell"
          /\ lnPc[q] \in LnSetup => lnKind[q] \in {"shell", "start"}
          /\ lnPc[q] = "unpack" => lnLeft[q] > 0
      BY <1>1 DEF LnKindInv
    <3>2. lnLeft' = lnLeft /\ lnKind'[q] = lnKind[q]
      BY <1>3, <2>3 DEF LnBorn
    <3>3. CASE lnPc'[q] = lnPc[q]
      BY <1>3, <3>1, <3>2, <3>3
    <3>4. CASE lnPc[q] = "pid" /\ lnPc'[q] = "connect"
      BY <1>3, <3>1, <3>2, <3>4 DEF LnServing, LnSetup
    <3> QED BY <1>4, <2>3, <3>3, <3>4
  <2> QED BY <2>2, <2>3
<1>7. LnPidInv'
  <2>1. SUFFICES ASSUME ~lnTwo' PROVE /\ \A q, r \in LnMachines' : q = r
                                      /\ \A q \in LnProcs : lnPc'[q] \in {"run", "up"} => lnPid = q
                                      /\ lnPid # LnNone => lnPc'[lnPid] \in {"run", "up", "ending", "killed"}
    BY DEF LnPidInv, LnBorn
  <2>2. ~lnTwo /\ (kind = "start" => LnMachines = {})
    BY <2>1 DEF LnBorn, LnBirth
  <2>3. ASSUME NEW q \in LnMachines', q # b PROVE q \in LnMachines
    BY <1>3, <1>4, <2>3 DEF LnMachines, LnAlive
  <2>4. b \in LnMachines' => kind = "start"
    BY <1>3 DEF LnMachines
  <2>5. \A q, r \in LnMachines : q = r
    BY <1>1, <2>2 DEF LnPidInv
  <2>6. \A q, r \in LnMachines' : q = r
    BY <2>2, <2>3, <2>4, <2>5
  <2>7. /\ \A q \in LnProcs : lnPc[q] \in {"run", "up"} => lnPid = q
        /\ lnPid # LnNone => lnPc[lnPid] \in {"run", "up", "ending", "killed"}
    BY <1>1, <2>2 DEF LnPidInv
  <2>8. lnPid # LnNone => lnPid \in LnProcs
    BY <1>1 DEF LnShape
  <2> QED BY <1>4, <2>6, <2>7, <2>8
<1>8. LnUnpackInv'
  <2>1. \A q \in LnProcs : lnPc'[q] = "unpack" <=> lnPc[q] = "unpack"
    BY <1>4
  <2>2. /\ lnNew' = lnNew /\ lnVersion' = lnVersion /\ lnDisk' = lnDisk /\ lnLeft' = lnLeft /\ lnTorn' = lnTorn
    BY DEF LnBorn
  <2>3. LnRelease(lnVersion)' = LnRelease(lnVersion)
    BY <2>2 DEF LnRelease
  <2>4. CASE ~lnTorn
    <3>1. /\ \A q, r \in LnProcs : lnPc[q] = "unpack" /\ lnPc[r] = "unpack" => q = r
          /\ \A q \in LnProcs : lnPc[q] = "unpack" =>
               /\ lnNew[q] = LnRelease(lnVersion)
               /\ \A f \in 1..LnFiles : f <= LnFiles - lnLeft[q] => lnDisk[f] = lnNew[q]
          /\ (\A q \in LnProcs : lnPc[q] # "unpack") /\ lnVersion # LnNone =>
               \A f \in 1..LnFiles : lnDisk[f] = LnRelease(lnVersion)
      BY <1>1, <2>4 DEF LnUnpackInv
    <3> QED BY <2>1, <2>2, <2>3, <3>1 DEF LnUnpackInv
  <2>5. CASE lnTorn
    BY <2>2, <2>5 DEF LnUnpackInv
  <2> QED BY <2>4, <2>5
<1> QED BY <1>5, <1>6, <1>7, <1>8 DEF LnInv

(* Elements of a sequence.                                                  *)
LEMMA LnSeqElements == ASSUME NEW S, NEW s \in Seq(S) PROVE Len(s) \in Nat /\ \A i \in 1..Len(s) : s[i] \in S
OBVIOUS

(* The user's call, and autoStart without a machine.                        *)
LEMMA LnBirths ==
    ASSUME LnInv, LnBegin \/ \E p \in LnProcs : LnAutoStart(p) /\ ~LnRuns(p)
    PROVE  \E kind, ver, x : LnBorn(kind, ver, x)
<1> USE LnPids
<1>1. LnShape /\ LnKindInv
  BY DEF LnInv
<1>2. lnBegun \in Nat /\ (lnBegun + 1 \in LnProcs => lnPc[lnBegun + 1] = "idle")
  BY <1>1 DEF LnShape, LnKindInv
<1>3. lnPc \in [LnProcs -> LnPcs] /\ lnAsked \in Nat
  BY <1>1 DEF LnShape
<1>4. CASE LnBegin
  <2>1. PICK calls : calls = lnPlan.calls
    OBVIOUS
  <2>2. calls \in Seq([kind : {"shell", "start", "stop"}, ver : Nat])
    <3>1. lnPlan \in LnPlans
      BY <1>1 DEF LnShape
    <3> QED BY <2>1, <3>1, LnPlansAssumption, Zenon
  <2>3. PICK call : call = calls[lnAsked + 1]
    OBVIOUS
  <2>4. /\ LnBirth(call.kind, call.ver) /\ lnAsked < Len(calls) /\ lnAsked' = lnAsked + 1
        /\ lnPc' = [lnPc EXCEPT ![lnBegun + 1] = IF call.kind = "stop" THEN "stop" ELSE "setup"]
        /\ UNCHANGED <<lnPlan, lnNew, lnLeft, lnVersion, lnDisk, lnConf, lnPid, lnTorn>>
    BY <1>4, <2>1, <2>3 DEF LnBegin, lnState
  <2>5. call.kind \in {"shell", "start", "stop"} /\ call.ver \in Nat
    <3>1. Len(calls) \in Nat /\ \A i \in 1..Len(calls) : calls[i] \in [kind : {"shell", "start", "stop"}, ver : Nat]
      BY <2>2, LnSeqElements
    <3>2. call \in [kind : {"shell", "start", "stop"}, ver : Nat]
      BY <1>3, <2>3, <2>4, <3>1
    <3> QED BY <3>2
  <2>6. PICK kind, ver : kind = call.kind /\ ver = call.ver
    OBVIOUS
  <2>7. PICK x : x = IF kind = "stop" THEN "stop" ELSE "setup"
    OBVIOUS
  <2>8. lnBegun + 1 \in LnProcs
    BY <2>4 DEF LnBirth
  <2>9. LnBorn(kind, ver, x)
    BY <1>3, <2>4, <2>5, <2>6, <2>7, <2>8 DEF LnBorn, LnPcs, LnSetup
  <2> QED BY <2>9
<1>5. ASSUME NEW p \in LnProcs, LnAutoStart(p), ~LnRuns(p) PROVE \E kind, ver, x : LnBorn(kind, ver, x)
  <2>1. /\ LnBirth("start", lnVer[p]) /\ lnPc[p] = "pid"
        /\ lnPc' = [lnPc EXCEPT ![p] = "connect", ![lnBegun + 1] = "setup"]
        /\ UNCHANGED <<lnPlan, lnAsked, lnNew, lnLeft, lnVersion, lnDisk, lnConf, lnPid, lnTorn>>
    BY <1>5 DEF LnAutoStart, lnState
  <2>2. lnBegun + 1 \in LnProcs /\ p # lnBegun + 1 /\ lnVer[p] \in Nat
    BY <1>1, <1>2, <2>1 DEF LnBirth, LnShape
  <2>3. LnBorn("start", lnVer[p], "setup")
    BY <1>3, <2>1, <2>2 DEF LnBorn, LnPcs, LnSetup
  <2> QED BY <2>3
<1> QED BY <1>4, <1>5
(* The remaining steps of a process p.                                      *)
LnKeep == UNCHANGED <<lnPlan, lnBegun, lnAsked, lnKind, lnVer, lnConf, lnTwo>>

(* The version file is written and unpacking begins.                        *)
LEMMA LnFetchInv == ASSUME LnInv, NEW p \in LnProcs, LnFetch(p, TRUE) PROVE LnInv'
<1> USE LnPids
<1>1. LnShape /\ LnKindInv /\ LnPidInv
  BY DEF LnInv
<1>2. /\ LnKeep /\ lnPc[p] = "fetch" /\ lnPc' = [lnPc EXCEPT ![p] = "unpack"] /\ lnVersion' = lnVer[p]
      /\ lnNew' = [lnNew EXCEPT ![p] = LnRelease(lnVer[p])] /\ lnLeft' = [lnLeft EXCEPT ![p] = LnFiles]
      /\ (lnTorn' <=> (lnTorn \/ \E q \in LnProcs : lnPc[q] = "unpack")) /\ lnPid' = lnPid /\ lnDisk' = lnDisk
  BY DEF LnFetch, LnKeep, LnPick, LnRelease
<1>3. /\ lnPc \in [LnProcs -> LnPcs] /\ lnPc' \in [LnProcs -> LnPcs] /\ lnPc'[p] = "unpack"
      /\ \A q \in LnProcs : q # p => lnPc'[q] = lnPc[q]
  BY <1>1, <1>2 DEF LnShape, LnPcs, LnSetup
<1>4. LnShape'
  <2>1. lnVer[p] \in Nat /\ LnRelease(lnVer[p]) \in Nat
    BY <1>1 DEF LnShape, LnRelease
  <2>2. lnNew' \in [LnProcs -> Nat] /\ lnVersion' \in Nat
    BY <1>1, <1>2, <2>1 DEF LnShape
  <2>3. lnLeft' \in [LnProcs -> 0..LnFiles]
    BY <1>1, <1>2 DEF LnShape
  <2> QED BY <1>1, <1>2, <1>3, <2>2, <2>3 DEF LnShape, LnKeep
<1>5. LnKindInv'
  BY <1>1, <1>2, <1>3 DEF LnKindInv, LnKeep, LnShape, LnServing, LnSetup
<1>6. LnPidInv'
  <2>1. LnMachines' = LnMachines
    BY <1>2, <1>3 DEF LnMachines, LnAlive, LnKeep
  <2>2. lnPid # LnNone => lnPid \in LnProcs
    BY <1>1 DEF LnShape
  <2> QED BY <1>1, <1>2, <1>3, <2>1, <2>2 DEF LnPidInv, LnKeep
<1>7. LnUnpackInv'
  <2>1. SUFFICES ASSUME ~lnTorn'
                 PROVE  /\ \A r, q \in LnProcs : lnPc'[r] = "unpack" /\ lnPc'[q] = "unpack" => r = q
                        /\ \A q \in LnProcs : lnPc'[q] = "unpack" =>
                             /\ lnNew'[q] = LnRelease(lnVersion')
                             /\ \A f \in 1..LnFiles : f <= LnFiles - lnLeft'[q] => lnDisk'[f] = lnNew'[q]
                        /\ (\A q \in LnProcs : lnPc'[q] # "unpack") /\ lnVersion' # LnNone =>
                             \A f \in 1..LnFiles : lnDisk'[f] = LnRelease(lnVersion')
    BY DEF LnUnpackInv, LnRelease
  <2>2. \A q \in LnProcs : lnPc'[q] = "unpack" <=> q = p
    BY <1>2, <1>3, <2>1
  <2>3. lnNew'[p] = LnRelease(lnVersion') /\ lnLeft'[p] = LnFiles
    BY <1>1, <1>2 DEF LnShape
  <2> QED BY <2>2, <2>3
<1> QED BY <1>4, <1>5, <1>6, <1>7 DEF LnInv

(* The next file is written.                                                *)
LEMMA LnUnpackFileInv == ASSUME LnInv, NEW p \in LnProcs, LnUnpack(p, FALSE) PROVE LnInv'
<1> USE LnPids
<1>1. LnShape /\ LnKindInv /\ LnPidInv /\ LnUnpackInv
  BY DEF LnInv
<1>2. PICK k, x : k = lnLeft[p] /\ x = IF k = 1 THEN "config" ELSE "unpack"
  OBVIOUS
<1>3. /\ LnKeep /\ lnPc[p] = "unpack" /\ lnPc' = [lnPc EXCEPT ![p] = x] /\ lnVersion' = lnVersion /\ lnNew' = lnNew
      /\ lnDisk' = [lnDisk EXCEPT ![LnFiles + 1 - k] = lnNew[p]] /\ lnLeft' = [lnLeft EXCEPT ![p] = k - 1]
      /\ lnTorn' = lnTorn /\ lnPid' = lnPid
  BY <1>1, <1>2 DEF LnUnpack, LnKeep, LnShape
<1>4. /\ k \in 1..LnFiles /\ lnKind[p] \in {"shell", "start"}
  BY <1>1, <1>2, <1>3 DEF LnShape, LnKindInv, LnSetup
<1>5. /\ lnPc \in [LnProcs -> LnPcs] /\ lnPc' \in [LnProcs -> LnPcs] /\ lnPc'[p] = x /\ x \in {"config", "unpack"}
      /\ \A q \in LnProcs : q # p => lnPc'[q] = lnPc[q]
  BY <1>1, <1>2, <1>3 DEF LnShape, LnPcs, LnSetup
<1>6. /\ lnLeft' \in [LnProcs -> 0..LnFiles] /\ lnLeft'[p] = k - 1 /\ \A q \in LnProcs : q # p => lnLeft'[q] = lnLeft[q]
  BY <1>1, <1>3, <1>4 DEF LnShape
<1>7. /\ lnDisk' \in [1..LnFiles -> Nat] /\ lnDisk'[LnFiles + 1 - k] = lnNew[p]
      /\ \A f \in 1..LnFiles : f # LnFiles + 1 - k => lnDisk'[f] = lnDisk[f]
  BY <1>1, <1>3, <1>4 DEF LnShape
<1>8. LnShape'
  BY <1>1, <1>3, <1>5, <1>6, <1>7 DEF LnShape, LnKeep
<1>9. LnKindInv'
  <2>1. SUFFICES ASSUME NEW q \in LnProcs
                 PROVE  /\ q > lnBegun => lnPc'[q] = "idle"
                        /\ lnPc'[q] \in LnServing => lnKind[q] = "start"
                        /\ lnPc'[q] \in {"pid", "connect", "shell"} => lnKind[q] = "shell"
                        /\ lnPc'[q] \in LnSetup => lnKind[q] \in {"shell", "start"}
                        /\ lnPc'[q] = "unpack" => lnLeft'[q] > 0
    BY <1>3 DEF LnKindInv, LnKeep
  <2>2. CASE q = p
    BY <1>1, <1>2, <1>3, <1>4, <1>5, <1>6, <2>2 DEF LnKindInv, LnServing, LnSetup
  <2>3. CASE q # p
    BY <1>1, <1>5, <1>6, <2>3 DEF LnKindInv
  <2> QED BY <2>2, <2>3
<1>10. LnPidInv'
  <2>1. LnMachines' = LnMachines
    BY <1>3, <1>5 DEF LnMachines, LnAlive, LnKeep
  <2>2. lnPid # LnNone => lnPid \in LnProcs
    BY <1>1 DEF LnShape
  <2> QED BY <1>1, <1>3, <1>5, <2>1, <2>2 DEF LnPidInv, LnKeep
<1>11. LnUnpackInv'
  <2>1. SUFFICES ASSUME ~lnTorn
                 PROVE  /\ \A r, q \in LnProcs : lnPc'[r] = "unpack" /\ lnPc'[q] = "unpack" => r = q
                        /\ \A q \in LnProcs : lnPc'[q] = "unpack" =>
                             /\ lnNew[q] = LnRelease(lnVersion)
                             /\ \A f \in 1..LnFiles : f <= LnFiles - lnLeft'[q] => lnDisk'[f] = lnNew[q]
                        /\ (\A q \in LnProcs : lnPc'[q] # "unpack") /\ lnVersion # LnNone =>
                             \A f \in 1..LnFiles : lnDisk'[f] = LnRelease(lnVersion)
    BY <1>3 DEF LnUnpackInv, LnRelease
  <2>2. /\ \A q \in LnProcs : lnPc[q] = "unpack" => q = p
        /\ lnNew[p] = LnRelease(lnVersion)
        /\ \A f \in 1..LnFiles : f <= LnFiles - k => lnDisk[f] = lnNew[p]
    BY <1>1, <1>2, <1>3, <2>1 DEF LnUnpackInv
  <2>3. \A q \in LnProcs : lnPc'[q] = "unpack" => q = p
    BY <1>5, <2>2
  <2>4. \A f \in 1..LnFiles : f <= LnFiles - (k - 1) => lnDisk'[f] = lnNew[p]
    BY <1>4, <1>7, <2>2
  <2>5. CASE x = "unpack"
    BY <1>5, <1>6, <2>2, <2>3, <2>4, <2>5
  <2>6. CASE x # "unpack"
    <3>1. k = 1 /\ \A q \in LnProcs : lnPc'[q] # "unpack"
      BY <1>2, <1>5, <2>3, <2>6
    <3> QED BY <2>2, <2>4, <3>1
  <2> QED BY <2>5, <2>6
<1> QED BY <1>8, <1>9, <1>10, <1>11 DEF LnInv

(* The pid file is written by startVM, and removed by the machine's process *)
(* when it ends: no other machine is there unless that was noted.           *)
LEMMA LnPidFileInv ==
    ASSUME LnInv, NEW p \in LnProcs, LnWritePid(p) \/ \E last \in BOOLEAN : LnRemovePid(p, last)
    PROVE  LnInv'
<1> USE LnPids
<1>1. LnShape /\ LnKindInv /\ LnPidInv /\ LnUnpackInv
  BY DEF LnInv
<1>2. PICK x, f : /\ LnKeep /\ lnPc' = [lnPc EXCEPT ![p] = x] /\ lnPid' = f
                  /\ UNCHANGED <<lnNew, lnLeft, lnVersion, lnDisk, lnTorn>>
                  /\ lnPc[p] \in {"vm", "ending", "ended"}
                  /\ (x = "run" /\ f = p) \/ (x \in {"ended", "over"} /\ f = LnNone)
  <2>1. CASE LnWritePid(p)
    BY <2>1 DEF LnWritePid, LnPidWritten, LnKeep
  <2>2. ASSUME NEW last \in BOOLEAN, LnRemovePid(p, last)
        PROVE  /\ LnKeep /\ lnPc' = [lnPc EXCEPT ![p] = IF last THEN "over" ELSE "ended"] /\ lnPid' = LnNone
               /\ UNCHANGED <<lnNew, lnLeft, lnVersion, lnDisk, lnTorn>> /\ lnPc[p] \in {"vm", "ending", "ended"}
    BY <2>2 DEF LnRemovePid, LnPidRemoved, LnKeep
  <2> QED BY <2>1, <2>2
<1>3. /\ lnPc \in [LnProcs -> LnPcs] /\ lnPc' \in [LnProcs -> LnPcs] /\ lnPc'[p] = x /\ lnKind[p] = "start"
      /\ \A q \in LnProcs : q # p => lnPc'[q] = lnPc[q]
  BY <1>1, <1>2 DEF LnShape, LnPcs, LnServing, LnKindInv
<1>4. LnShape'
  BY <1>1, <1>2, <1>3 DEF LnShape, LnKeep
<1>5. LnKindInv'
  BY <1>1, <1>2, <1>3 DEF LnKindInv, LnKeep, LnShape, LnServing, LnSetup
<1>6. LnPidInv'
  <2>1. SUFFICES ASSUME ~lnTwo PROVE /\ \A q, r \in LnMachines' : q = r
                                     /\ \A q \in LnProcs : lnPc'[q] \in {"run", "up"} => f = q
                                     /\ f # LnNone => lnPc'[f] \in {"run", "up", "ending", "killed"}
    BY <1>2 DEF LnPidInv, LnKeep
  <2>2. LnMachines' \subseteq LnMachines
    BY <1>2, <1>3 DEF LnMachines, LnAlive, LnKeep
  <2>3. \A q, r \in LnMachines : q = r
    BY <1>1, <2>1 DEF LnPidInv
  <2>4. ASSUME NEW q \in LnProcs, q # p PROVE lnPc[q] \notin {"run", "up"}
    <3>1. p \in LnMachines
      BY <1>2, <1>3 DEF LnMachines, LnAlive, LnNone
    <3>2. lnPc[q] \in {"run", "up"} => q \in LnMachines
      BY <1>1 DEF LnMachines, LnAlive, LnNone, LnKindInv, LnServing
    <3> QED BY <2>3, <2>4, <3>1, <3>2
  <2> QED BY <1>2, <1>3, <2>2, <2>3, <2>4
<1>7. LnUnpackInv'
  <2>1. \A q \in LnProcs : lnPc'[q] = "unpack" <=> lnPc[q] = "unpack"
    BY <1>2, <1>3
  <2>2. LnRelease(lnVersion)' = LnRelease(lnVersion)
    BY <1>2 DEF LnRelease
  <2> QED BY <1>1, <1>2, <2>1, <2>2 DEF LnUnpackInv
<1> QED BY <1>4, <1>5, <1>6, <1>7 DEF LnInv

(* Every step keeps LnInv.                                                  *)
LEMMA LnNextInv == LnInv /\ [LnNext]_lnVars => LnInv'
<1> SUFFICES ASSUME LnInv, [LnNext]_lnVars PROVE LnInv'
  OBVIOUS
<1>1. CASE LnBegin \/ \E p \in LnProcs : LnAutoStart(p) /\ ~LnRuns(p)
  BY <1>1, LnBirths, LnBirthInv
<1>2. ASSUME NEW p \in LnProcs,
             \/ LnStop(p) \/ LnCheckState(p) \/ LnFetch(p, FALSE) \/ LnUnpack(p, TRUE) \/ LnCheckConfig(p)
             \/ LnWriteConfig(p) \/ (LnAutoStart(p) /\ LnRuns(p)) \/ LnConnect(p) \/ LnListen(p) \/ LnRunEnds(p)
             \/ LnKilled(p)
      PROVE  LnInv'
  BY <1>2, LnMovingSteps, LnMoveInv
<1>3. ASSUME NEW p \in LnProcs, LnFetch(p, TRUE) PROVE LnInv'
  BY <1>3, LnFetchInv
<1>4. ASSUME NEW p \in LnProcs, LnUnpack(p, FALSE) PROVE LnInv'
  BY <1>4, LnUnpackFileInv
<1>5. ASSUME NEW p \in LnProcs, LnWritePid(p) \/ \E last \in BOOLEAN : LnRemovePid(p, last) PROVE LnInv'
  BY <1>5, LnPidFileInv
<1>6. CASE UNCHANGED lnVars
  BY <1>6 DEF lnVars, LnInv, LnShape, LnKindInv, LnPidInv, LnUnpackInv, LnMachines, LnAlive, LnRelease
<1>7. CASE LnNext
  <2>1. CASE LnBegin
    BY <1>1, <2>1
  <2>2. ASSUME NEW p \in LnProcs, LnSteps(p) \/ LnRunEnds(p) \/ LnKilled(p) PROVE LnInv'
    <3>1. ASSUME NEW b \in BOOLEAN, LnFetch(p, b) \/ LnUnpack(p, b) \/ LnRemovePid(p, b) PROVE LnInv'
      <4>1. b = TRUE \/ b = FALSE
        OBVIOUS
      <4> QED BY <1>2, <1>3, <1>4, <1>5, <3>1, <4>1
    <3>2. CASE LnAutoStart(p)
      BY <1>1, <1>2, <3>2
    <3> QED BY <1>2, <1>5, <2>2, <3>1, <3>2 DEF LnSteps
  <2> QED BY <1>7, <2>1, <2>2 DEF LnNext
<1> QED BY <1>6, <1>7

(* While machines do not overlap, vm.pid names the one that runs, whatever  *)
(* is killed when, and the files of the bundle are those of the release     *)
(* that the version file stands for unless an unpacking was cut short or    *)
(* two have overlapped (startVM, setupStateDir and ghrelease.Unpack): for   *)
(* any calls, number of processes, kills, releases and files.               *)
THEOREM LaunchIsSound == LnSpec => [](LnTypeOK /\ LnPidNames /\ LnFilesWhole)
<1>1. LnSpec => []LnInv
  BY LnInitInv, LnNextInv, PTL DEF LnSpec
<1>2. LnInv => LnTypeOK /\ LnPidNames /\ LnFilesWhole
  <2> SUFFICES ASSUME LnInv PROVE LnTypeOK /\ LnPidNames /\ LnFilesWhole
    OBVIOUS
  <2>1. LnTypeOK
    <3>1. lnBegun \in Nat
      BY LnPids DEF LnInv, LnShape
    <3> QED BY <3>1 DEF LnInv, LnShape, LnTypeOK
  <2>2. LnPidNames
    BY DEF LnInv, LnPidInv, LnPidNames, LnMachines
  <2>3. LnFilesWhole
    BY DEF LnInv, LnUnpackInv, LnFilesWhole, LnRelease
  <2> QED BY <2>1, <2>2, <2>3
<1> QED BY <1>1, <1>2, PTL

------------------------------------------------------------------------------
(* The monitor that reaps the processes of the guest.                       *)

RpWaits == {"idle", "begun", "started", "failed", "waiting", "flushing", "returned"}

(* What the variables hold; the channels keep to their size.                *)
RpTypes ==
    /\ rpSub \in [RpCmds -> {"none", "in", "closed"}]
    /\ rpChan \in [RpCmds -> Seq(RpCmds)] /\ \A c \in RpCmds : Len(rpChan[c]) <= RpBuffer
    /\ rpGot \in [RpCmds -> Seq(RpCmds)]
    /\ rpProc \in [RpCmds -> {"none", "runs", "zombie", "reaped"}]
    /\ rpWait \in [RpCmds -> RpWaits]
    /\ rpExits \in Seq(RpCmds)
    /\ rpNote \in [RpCmds -> {"none", "snap", "pass", "done"}]
    /\ rpTodo \in [RpCmds -> SUBSET RpCmds] /\ rpSuccess \in [RpCmds -> SUBSET RpCmds]
    /\ rpFailed = [e \in RpCmds |-> rpFailed[e]]

(* A subscription is in the map from Subscribe until the caller that made   *)
(* it ends it, and a process is notified of when it has been reaped.        *)
RpLifeInv ==
    \A c \in RpCmds :
        /\ rpSub[c] = IF rpWait[c] = "idle" THEN "none" ELSE IF rpWait[c] \in {"failed", "returned"} THEN "closed" ELSE "in"
        /\ rpWait[c] \in {"idle", "begun"} => rpProc[c] = "none"
        /\ rpNote[c] # "none" => rpProc[c] = "reaped"

RpExitsInv == \A i \in 1..Len(rpExits) : rpProc[rpExits[i]] = "reaped"

RpHas(c, e) == \E i \in 1..Len(rpGot[c]) : rpGot[c][i] = e

(* The subscribers that a goroutine has recorded as successful are the ones *)
(* that have its exit, until it is done.                                    *)
RpGotInv ==
    \A e, c \in RpCmds :
        /\ rpNote[e] = "none" => c \notin rpSuccess[e] /\ ~RpHas(c, e)
        /\ rpNote[e] \in {"snap", "pass"} => (c \in rpSuccess[e] <=> RpHas(c, e))

RpDistinct == \A c \in RpCmds : \A i, j \in 1..Len(rpGot[c]) : rpGot[c][i] = rpGot[c][j] => i = j

(* A pass that has not failed has told the process's own subscription, or   *)
(* is still to visit it.                                                    *)
RpPassInv ==
    \A e \in RpCmds :
        /\ rpNote[e] = "pass" /\ rpSub[e] = "in" => rpFailed[e] \/ e \in rpTodo[e] \/ e \in rpSuccess[e]
        /\ rpNote[e] = "done" /\ rpSub[e] = "in" => RpHas(e, e)

RpInv == RpTypes /\ RpLifeInv /\ RpExitsInv /\ RpGotInv /\ RpDistinct /\ RpPassInv

(* RpInv holds at first.                                                    *)
LEMMA RpInitInv == RpInit => RpInv
<1> SUFFICES ASSUME RpInit PROVE RpInv
  OBVIOUS
<1>1. RpTypes
  BY RpAssumption DEF RpInit, RpTypes, RpWaits
<1>2. RpLifeInv /\ RpExitsInv /\ RpGotInv /\ RpDistinct /\ RpPassInv
  BY DEF RpInit, RpLifeInv, RpExitsInv, RpGotInv, RpDistinct, RpPassInv, RpHas
<1> QED BY <1>1, <1>2 DEF RpInv

(* Start and its steps keep RpInv: they touch one subscription.             *)
LEMMA RpSubscribeInv == ASSUME RpInv, NEW c \in RpCmds, RpSubscribe(c) PROVE RpInv'
<1>1. /\ RpTypes /\ RpLifeInv /\ RpPassInv
      /\ UNCHANGED <<rpChan, rpGot, rpProc, rpExits, rpNote, rpTodo, rpFailed, rpSuccess>>
  BY DEF RpInv, RpSubscribe, rpNoteVars
<1>2. rpNote[c] = "none"
  BY <1>1 DEF RpSubscribe, RpLifeInv
<1>3. RpTypes'
  BY <1>1 DEF RpTypes, RpSubscribe, RpWaits
<1>4. RpLifeInv'
  BY <1>1 DEF RpTypes, RpLifeInv, RpSubscribe
<1>5. RpPassInv'
  BY <1>1, <1>2 DEF RpTypes, RpPassInv, RpSubscribe, RpHas
<1>6. RpExitsInv' /\ RpGotInv' /\ RpDistinct'
  BY <1>1 DEF RpInv, RpExitsInv, RpGotInv, RpDistinct, RpHas
<1> QED BY <1>3, <1>4, <1>5, <1>6 DEF RpInv

(* The command's start, whose failure unsubscribes, keeps RpInv.            *)
LEMMA RpStartInv == ASSUME RpInv, NEW c \in RpCmds, NEW ok \in BOOLEAN, RpStart(c, ok) PROVE RpInv'
<1>1. /\ RpTypes /\ RpLifeInv /\ RpPassInv /\ RpExitsInv
      /\ UNCHANGED <<rpChan, rpGot, rpExits, rpNote, rpTodo, rpFailed, rpSuccess>>
  BY DEF RpInv, RpStart, rpNoteVars
<1>2. rpNote[c] = "none" /\ rpProc[c] = "none" /\ rpSub[c] = "in"
  BY <1>1 DEF RpStart, RpLifeInv
<1>3. \/ /\ rpWait' = [rpWait EXCEPT ![c] = "started"] /\ rpSub' = rpSub /\ rpProc' = [rpProc EXCEPT ![c] = "runs"]
      \/ /\ rpWait' = [rpWait EXCEPT ![c] = "failed"] /\ rpSub' = [rpSub EXCEPT ![c] = "closed"] /\ rpProc' = rpProc
  BY DEF RpStart, RpUnsubscribed
<1>4. RpTypes'
  <2>1. rpWait' \in [RpCmds -> RpWaits]
    BY <1>1, <1>3 DEF RpTypes, RpWaits
  <2>2. rpSub' \in [RpCmds -> {"none", "in", "closed"}]
    BY <1>1, <1>3 DEF RpTypes
  <2>3. rpProc' \in [RpCmds -> {"none", "runs", "zombie", "reaped"}]
    BY <1>1, <1>3 DEF RpTypes
  <2> QED BY <1>1, <2>1, <2>2, <2>3 DEF RpTypes
<1>5. RpLifeInv'
  BY <1>1, <1>2, <1>3 DEF RpTypes, RpLifeInv
<1>6. RpPassInv'
  BY <1>1, <1>2, <1>3 DEF RpTypes, RpPassInv, RpHas
<1>7. RpExitsInv'
  BY <1>1, <1>2, <1>3 DEF RpTypes, RpExitsInv
<1>8. RpGotInv' /\ RpDistinct'
  BY <1>1 DEF RpInv, RpGotInv, RpDistinct, RpHas
<1> QED BY <1>4, <1>5, <1>6, <1>7, <1>8 DEF RpInv

(* Waiting, receiving, returning, giving up and exiting keep RpInv: none of *)
(* them closes a subscription that somebody waits on.                       *)
LEMMA RpCallerInv ==
    ASSUME RpInv, NEW c \in RpCmds, RpWait(c) \/ RpReceive(c) \/ RpFlush(c) \/ RpTimeout(c) \/ RpExit(c)
    PROVE  RpInv'
<1>1. /\ RpTypes /\ RpLifeInv /\ RpPassInv /\ RpExitsInv
      /\ UNCHANGED <<rpGot, rpExits, rpNote, rpTodo, rpFailed, rpSuccess>>
  BY DEF RpInv, RpWait, RpReceive, RpFlush, RpTimeout, RpExit, rpNoteVars
<1>2. \/ rpWait[c] = "started" /\ rpWait' = [rpWait EXCEPT ![c] = "waiting"] /\ UNCHANGED <<rpSub, rpChan, rpProc>>
      \/ /\ rpWait[c] = "waiting" /\ rpChan[c] # <<>> /\ rpChan' = [rpChan EXCEPT ![c] = Tail(rpChan[c])]
         /\ rpWait' \in {rpWait, [rpWait EXCEPT ![c] = "flushing"]} /\ UNCHANGED <<rpSub, rpProc>>
      \/ /\ rpWait[c] = "flushing" /\ rpWait' = [rpWait EXCEPT ![c] = "returned"]
         /\ rpSub' = [rpSub EXCEPT ![c] = "closed"] /\ UNCHANGED <<rpChan, rpProc>>
      \/ /\ rpProc' = rpProc \/ (rpProc[c] = "runs" /\ rpProc' = [rpProc EXCEPT ![c] = "zombie"])
         /\ UNCHANGED <<rpSub, rpChan, rpWait>>
  <2>1. CASE RpWait(c)
    BY <2>1 DEF RpWait
  <2>2. CASE RpReceive(c)
    <3>1. rpSub[c] # "closed"
      BY <1>1, <2>2 DEF RpReceive, RpLifeInv
    <3> QED BY <2>2, <3>1 DEF RpReceive
  <2>3. CASE RpFlush(c)
    BY <2>3 DEF RpFlush, RpUnsubscribed
  <2>4. CASE RpTimeout(c)
    BY <2>4 DEF RpTimeout
  <2>5. CASE RpExit(c)
    BY <2>5 DEF RpExit
  <2> QED BY <2>1, <2>2, <2>3, <2>4, <2>5
<1>3. RpTypes'
  <2>1. rpChan' \in [RpCmds -> Seq(RpCmds)] /\ \A d \in RpCmds : (Len(rpChan[d]) <= RpBuffer)'
    <3>1. CASE rpChan[c] # <<>> /\ rpChan' = [rpChan EXCEPT ![c] = Tail(rpChan[c])]
      <4>1. rpChan[c] \in Seq(RpCmds) /\ Len(rpChan[c]) <= RpBuffer /\ RpBuffer \in Nat
        BY <1>1, RpAssumption DEF RpTypes
      <4>2. Tail(rpChan[c]) \in Seq(RpCmds) /\ Len(Tail(rpChan[c])) <= RpBuffer
        BY <3>1, <4>1
      <4> QED BY <1>1, <3>1, <4>2 DEF RpTypes
    <3>2. CASE rpChan' = rpChan
      BY <1>1, <3>2 DEF RpTypes
    <3> QED BY <1>2, <3>1, <3>2
  <2> QED BY <1>1, <1>2, <2>1 DEF RpTypes, RpWaits
<1>4. RpLifeInv'
  BY <1>1, <1>2 DEF RpTypes, RpLifeInv
<1>5. RpPassInv'
  BY <1>1, <1>2 DEF RpTypes, RpPassInv, RpHas
<1>6. RpExitsInv'
  BY <1>1, <1>2 DEF RpTypes, RpExitsInv
<1>7. RpGotInv' /\ RpDistinct'
  BY <1>1 DEF RpInv, RpGotInv, RpDistinct, RpHas
<1> QED BY <1>3, <1>4, <1>5, <1>6, <1>7 DEF RpInv

(* Reap keeps RpInv.                                                        *)
LEMMA RpReapInv == ASSUME RpInv, RpReap PROVE RpInv'
<1>1. /\ RpTypes /\ RpLifeInv /\ RpPassInv
      /\ UNCHANGED <<rpSub, rpChan, rpGot, rpWait, rpNote, rpTodo, rpFailed, rpSuccess>>
  BY DEF RpInv, RpReap, rpNoteVars
<1>2. PICK zombies : zombies = {c \in RpCmds : rpProc[c] = "zombie"}
  OBVIOUS
<1>3. /\ \E order \in SetToSeqs(zombies) : rpExits' = order
      /\ rpProc' = [c \in RpCmds |-> IF c \in zombies THEN "reaped" ELSE rpProc[c]]
  BY <1>2 DEF RpReap
<1>4. Cardinality(zombies) \in Nat /\ zombies \subseteq RpCmds
  BY <1>2, RpAssumption, FS_Subset, FS_CardinalityType
<1>5. rpExits' \in [1..Cardinality(zombies) -> zombies]
  BY <1>3 DEF SetToSeqs
<1>6. rpExits' \in Seq(RpCmds) /\ \A i \in 1..Len(rpExits') : rpExits'[i] \in zombies
  BY <1>4, <1>5
<1>7. RpTypes'
  BY <1>1, <1>3, <1>6 DEF RpTypes
<1>8. RpLifeInv'
  BY <1>1, <1>2, <1>3 DEF RpTypes, RpLifeInv
<1>9. RpExitsInv'
  BY <1>3, <1>4, <1>6 DEF RpExitsInv
<1>10. RpGotInv' /\ RpDistinct' /\ RpPassInv'
  BY <1>1 DEF RpInv, RpGotInv, RpDistinct, RpPassInv, RpHas
<1> QED BY <1>7, <1>8, <1>9, <1>10 DEF RpInv

(* Beginning to notify of an exit, and going on to the next, keep RpInv.    *)
LEMMA RpNotifyInv == ASSUME RpInv, RpNotify \/ RpReapNext PROVE RpInv'
<1>1. /\ RpTypes /\ RpLifeInv /\ RpPassInv /\ RpGotInv /\ RpExitsInv
      /\ UNCHANGED <<rpSub, rpChan, rpGot, rpWait, rpProc, rpTodo, rpFailed, rpSuccess>>
  BY DEF RpInv, RpNotify, RpReapNext, rpNoteVars
<1>2. PICK e \in RpCmds : rpProc[e] = "reaped" /\ e = Head(rpExits)
  <2>1. rpExits # <<>>
    BY DEF RpNotify, RpReapNext
  <2>2. rpExits \in Seq(RpCmds)
    BY <1>1 DEF RpTypes
  <2>3. Head(rpExits) \in RpCmds /\ Head(rpExits) = rpExits[1] /\ 1 \in 1..Len(rpExits)
    BY <2>1, <2>2
  <2> QED BY <1>1, <2>3 DEF RpExitsInv
<1>3. /\ \/ rpNote' = rpNote
         \/ rpNote[e] = "none" /\ rpNote' = [rpNote EXCEPT ![e] = "snap"]
      /\ rpExits' = rpExits \/ (rpExits # <<>> /\ rpExits' = Tail(rpExits))
  BY <1>2 DEF RpNotify, RpReapNext, rpNoteVars
<1>4. rpExits' \in Seq(RpCmds) /\ RpExitsInv'
  <2>1. rpExits \in Seq(RpCmds)
    BY <1>1 DEF RpTypes
  <2>2. CASE rpExits # <<>> /\ rpExits' = Tail(rpExits)
    <3>1. /\ rpExits' \in Seq(RpCmds) /\ Len(rpExits') = Len(rpExits) - 1 /\ Len(rpExits) \in Nat
          /\ \A i \in 1..Len(rpExits') : rpExits'[i] = rpExits[i + 1]
      BY <2>1, <2>2
    <3>2. \A i \in 1..Len(rpExits') : i + 1 \in 1..Len(rpExits)
      BY <3>1
    <3> QED BY <1>1, <3>1, <3>2 DEF RpExitsInv
  <2>3. CASE rpExits' = rpExits
    BY <1>1, <2>1, <2>3 DEF RpExitsInv
  <2> QED BY <1>3, <2>2, <2>3
<1>5. RpTypes'
  BY <1>1, <1>3, <1>4 DEF RpTypes
<1>6. RpLifeInv'
  BY <1>1, <1>2, <1>3 DEF RpTypes, RpLifeInv
<1>7. RpGotInv'
  BY <1>1, <1>3 DEF RpTypes, RpGotInv, RpHas
<1>8. RpPassInv'
  BY <1>1, <1>3 DEF RpTypes, RpPassInv, RpHas
<1>9. RpDistinct'
  BY <1>1 DEF RpInv, RpDistinct
<1> QED BY <1>4, <1>5, <1>6, <1>7, <1>8, <1>9 DEF RpInv

(* The beginning and the end of a pass keep RpInv.                          *)
LEMMA RpPassStepsInv == ASSUME RpInv, NEW e \in RpCmds, RpSnapshot(e) \/ RpPassEnds(e) PROVE RpInv'
<1>1. /\ RpTypes /\ RpLifeInv /\ RpPassInv /\ RpGotInv
      /\ UNCHANGED <<rpSub, rpChan, rpGot, rpWait, rpProc, rpExits>>
  BY DEF RpInv, RpSnapshot, RpPassEnds
<1>2. \/ /\ rpNote[e] = "snap" /\ rpNote' = [rpNote EXCEPT ![e] = "pass"]
         /\ rpTodo' = [rpTodo EXCEPT ![e] = {c \in RpCmds : rpSub[c] = "in"}] /\ rpSuccess' = rpSuccess
      \/ /\ rpNote[e] = "pass" /\ rpNote' = [rpNote EXCEPT ![e] = "snap"] /\ rpTodo' = rpTodo /\ rpSuccess' = rpSuccess
      \/ /\ rpNote[e] = "pass" /\ rpTodo[e] = {} /\ ~rpFailed[e] /\ rpNote' = [rpNote EXCEPT ![e] = "done"]
         /\ rpTodo' = rpTodo /\ rpSuccess' = [rpSuccess EXCEPT ![e] = {}]
  BY DEF RpSnapshot, RpPassEnds
<1>3. rpFailed' = [rpFailed EXCEPT ![e] = FALSE]
  BY DEF RpSnapshot, RpPassEnds
<1>4. RpTypes'
  <2>1. rpFailed' = [d \in RpCmds |-> rpFailed'[d]]
    BY <1>1, <1>3 DEF RpTypes
  <2>2. rpTodo' \in [RpCmds -> SUBSET RpCmds]
    <3>1. rpTodo \in [RpCmds -> SUBSET RpCmds] /\ rpTodo' \in {rpTodo, [rpTodo EXCEPT ![e] = {c \in RpCmds : rpSub[c] = "in"}]}
      BY <1>1, <1>2 DEF RpTypes
    <3> QED BY <3>1
  <2>3. rpSuccess' \in [RpCmds -> SUBSET RpCmds]
    <3>1. rpSuccess \in [RpCmds -> SUBSET RpCmds] /\ rpSuccess' \in {rpSuccess, [rpSuccess EXCEPT ![e] = {}]}
      BY <1>1, <1>2 DEF RpTypes
    <3> QED BY <3>1
  <2>4. rpNote' \in [RpCmds -> {"none", "snap", "pass", "done"}]
    <3>1. \E x \in {"snap", "pass", "done"} : rpNote' = [rpNote EXCEPT ![e] = x]
      BY <1>2
    <3>2. rpNote \in [RpCmds -> {"none", "snap", "pass", "done"}]
      BY <1>1 DEF RpTypes
    <3> QED BY <3>1, <3>2
  <2> QED BY <1>1, <2>1, <2>2, <2>3, <2>4 DEF RpTypes
<1>5. RpLifeInv'
  BY <1>1, <1>2 DEF RpTypes, RpLifeInv
<1>6. RpGotInv'
  BY <1>1, <1>2 DEF RpTypes, RpGotInv, RpHas
<1>7. RpPassInv'
  <2>1. SUFFICES ASSUME NEW d \in RpCmds
                 PROVE /\ (rpNote[d] = "pass" /\ rpSub[d] = "in" => rpFailed[d] \/ d \in rpTodo[d] \/ d \in rpSuccess[d])'
                       /\ (rpNote[d] = "done" /\ rpSub[d] = "in" => RpHas(d, d))'
    BY DEF RpPassInv
  <2>2. CASE d # e
    <3>1. rpFailed'[d] = rpFailed[d]
      BY <1>1, <1>3, <2>2 DEF RpTypes
    <3>2. rpNote'[d] = rpNote[d] /\ rpTodo'[d] = rpTodo[d] /\ rpSuccess'[d] = rpSuccess[d] /\ RpHas(d, d)' = RpHas(d, d)
      BY <1>1, <1>2, <2>2 DEF RpTypes, RpHas
    <3> QED BY <1>1, <3>1, <3>2 DEF RpPassInv
  <2>3. CASE d = e
    <3>1. (rpNote[e] = "pass" /\ rpSub[e] = "in" => e \in rpTodo[e])'
      BY <1>1, <1>2 DEF RpTypes
    <3>2. (rpNote[e] = "done" /\ rpSub[e] = "in" => RpHas(e, e))'
      <4>1. CASE rpNote[e] = "pass" /\ rpTodo[e] = {} /\ ~rpFailed[e]
        BY <1>1, <4>1 DEF RpPassInv, RpGotInv, RpHas
      <4>2. CASE rpNote'[e] \in {"pass", "snap"}
        BY <4>2
      <4> QED BY <1>1, <1>2, <4>1, <4>2 DEF RpTypes
    <3> QED BY <2>3, <3>1, <3>2
  <2> QED BY <2>2, <2>3
<1>8. RpExitsInv' /\ RpDistinct'
  BY <1>1 DEF RpInv, RpExitsInv, RpDistinct
<1> QED BY <1>4, <1>5, <1>6, <1>7, <1>8 DEF RpInv

(* Offering an exit to a subscriber keeps RpInv: one that has it is not     *)
(* given it again.                                                          *)
LEMMA RpOfferInv == ASSUME RpInv, NEW e \in RpCmds, NEW c \in RpCmds, RpOffer(e, c) PROVE RpInv'
<1>1. /\ RpTypes /\ RpLifeInv /\ RpPassInv /\ RpGotInv /\ RpDistinct
      /\ UNCHANGED <<rpSub, rpWait, rpProc, rpExits, rpNote>>
      /\ rpNote[e] = "pass" /\ rpTodo' = [rpTodo EXCEPT ![e] = rpTodo[e] \ {c}]
  BY DEF RpInv, RpOffer
<1>2. CASE RpWants(e, c) /\ Len(rpChan[c]) < RpBuffer
  <2>1. /\ rpChan' = [rpChan EXCEPT ![c] = Append(rpChan[c], e)]
        /\ rpGot' = [rpGot EXCEPT ![c] = Append(rpGot[c], e)]
        /\ rpSuccess' = [rpSuccess EXCEPT ![e] = rpSuccess[e] \cup {c}] /\ rpFailed' = rpFailed
    BY <1>2 DEF RpOffer
  <2>2. ~RpHas(c, e)
    BY <1>1, <1>2 DEF RpGotInv, RpWants
  <2>3. /\ rpGot[c] \in Seq(RpCmds) /\ rpChan[c] \in Seq(RpCmds) /\ RpBuffer \in Nat
        /\ rpGot'[c] = Append(rpGot[c], e) /\ \A d \in RpCmds \ {c} : rpGot'[d] = rpGot[d]
    BY <1>1, <2>1, RpAssumption DEF RpTypes
  <2>4. RpTypes'
    <3>1. rpChan' \in [RpCmds -> Seq(RpCmds)] /\ rpGot' \in [RpCmds -> Seq(RpCmds)]
      BY <1>1, <2>1, <2>3 DEF RpTypes
    <3>2. Len(rpChan'[c]) <= RpBuffer /\ \A d \in RpCmds \ {c} : rpChan'[d] = rpChan[d]
      BY <1>1, <1>2, <2>1, <2>3 DEF RpTypes
    <3>3. rpTodo' \in [RpCmds -> SUBSET RpCmds] /\ rpSuccess' \in [RpCmds -> SUBSET RpCmds]
      BY <1>1, <2>1 DEF RpTypes
    <3> QED BY <1>1, <2>1, <3>1, <3>2, <3>3 DEF RpTypes
  <2>5. ASSUME NEW d \in RpCmds, NEW x \in RpCmds PROVE RpHas(d, x)' <=> (RpHas(d, x) \/ (d = c /\ x = e))
    <3>1. CASE d = c
      <4>1. Len(rpGot'[c]) = Len(rpGot[c]) + 1 /\ rpGot'[c][Len(rpGot[c]) + 1] = e
            /\ \A i \in 1..Len(rpGot[c]) : rpGot'[c][i] = rpGot[c][i]
        BY <2>3
      <4>2. Len(rpGot[c]) \in Nat
        BY <2>3
      <4> QED BY <3>1, <4>1, <4>2 DEF RpHas
    <3>2. CASE d # c
      BY <2>3, <3>2 DEF RpHas
    <3> QED BY <3>1, <3>2
  <2>6. RpGotInv'
    BY <1>1, <2>1, <2>5 DEF RpTypes, RpGotInv
  <2>7. RpDistinct'
    <3>1. ASSUME NEW i \in 1..Len(rpGot'[c]), NEW j \in 1..Len(rpGot'[c]), rpGot'[c][i] = rpGot'[c][j] PROVE i = j
      <4>1. Len(rpGot'[c]) = Len(rpGot[c]) + 1 /\ rpGot'[c][Len(rpGot[c]) + 1] = e
            /\ \A n \in 1..Len(rpGot[c]) : rpGot'[c][n] = rpGot[c][n] /\ rpGot[c][n] # e
        BY <2>2, <2>3 DEF RpHas
      <4>2. Len(rpGot[c]) \in Nat
        BY <2>3
      <4>3. \A n, m \in 1..Len(rpGot[c]) : rpGot[c][n] = rpGot[c][m] => n = m
        BY <1>1 DEF RpDistinct
      <4>4. CASE i \in 1..Len(rpGot[c]) /\ j \in 1..Len(rpGot[c])
        BY <3>1, <4>1, <4>3, <4>4
      <4>5. CASE i = Len(rpGot[c]) + 1 \/ j = Len(rpGot[c]) + 1
        <5>1. i \in 1..Len(rpGot[c]) \/ i = Len(rpGot[c]) + 1
          BY <3>1, <4>1, <4>2
        <5>2. j \in 1..Len(rpGot[c]) \/ j = Len(rpGot[c]) + 1
          BY <3>1, <4>1, <4>2
        <5> QED BY <3>1, <4>1, <4>5, <5>1, <5>2
      <4> QED BY <3>1, <4>1, <4>2, <4>4, <4>5
    <3> QED BY <1>1, <2>3, <3>1 DEF RpDistinct
  <2>8. RpPassInv'
    BY <1>1, <2>1, <2>5 DEF RpTypes, RpPassInv
  <2> QED BY <1>1, <2>4, <2>6, <2>7, <2>8 DEF RpInv, RpLifeInv, RpExitsInv
<1>3. CASE ~(RpWants(e, c) /\ Len(rpChan[c]) < RpBuffer)
  <2>1. /\ UNCHANGED <<rpChan, rpGot, rpSuccess>>
        /\ rpFailed' = IF RpWants(e, c) THEN [rpFailed EXCEPT ![e] = TRUE] ELSE rpFailed
    BY <1>3 DEF RpOffer
  <2>2. RpTypes'
    <3>1. rpFailed' = [d \in RpCmds |-> rpFailed'[d]]
      BY <1>1, <2>1 DEF RpTypes
    <3>2. rpTodo' \in [RpCmds -> SUBSET RpCmds]
      BY <1>1 DEF RpTypes
    <3> QED BY <1>1, <2>1, <3>1, <3>2 DEF RpTypes
  <2>3. RpPassInv'
    <3>1. SUFFICES ASSUME NEW d \in RpCmds, (rpNote[d] = "pass" /\ rpSub[d] = "in")'
                   PROVE (rpFailed[d] \/ d \in rpTodo[d] \/ d \in rpSuccess[d])'
      BY <1>1, <2>1 DEF RpPassInv, RpHas
    <3>2. CASE d # e
      <4>1. rpFailed'[d] = rpFailed[d]
        BY <1>1, <2>1, <3>2 DEF RpTypes
      <4>2. rpTodo'[d] = rpTodo[d]
        BY <1>1, <3>2 DEF RpTypes
      <4> QED BY <1>1, <2>1, <3>1, <4>1, <4>2 DEF RpPassInv
    <3>3. CASE d = e /\ RpWants(e, c)
      BY <1>1, <2>1, <3>3 DEF RpTypes
    <3>4. CASE d = e /\ ~RpWants(e, c)
      <4>1. rpFailed'[e] = rpFailed[e]
        BY <2>1, <3>4
      <4>2. rpTodo'[e] = rpTodo[e] \ {c} /\ rpSub[e] = "in"
        BY <1>1, <3>1, <3>4 DEF RpTypes
      <4>3. c # e \/ c \in rpSuccess[e]
        BY <3>4, <4>2 DEF RpWants
      <4> QED BY <1>1, <2>1, <3>1, <3>4, <4>1, <4>2, <4>3 DEF RpPassInv
    <3> QED BY <3>2, <3>3, <3>4
  <2> QED BY <1>1, <2>1, <2>2, <2>3 DEF RpInv, RpLifeInv, RpExitsInv, RpGotInv, RpDistinct, RpHas
<1> QED BY <1>2, <1>3

(* Every step keeps RpInv.                                                  *)
LEMMA RpNextInv == RpInv /\ [RpNext]_rpVars => RpInv'
<1> SUFFICES ASSUME RpInv, [RpNext]_rpVars PROVE RpInv'
  OBVIOUS
<1>1. CASE RpNext
  <2>1. CASE RpReapSteps
    BY <2>1, RpReapInv, RpNotifyInv DEF RpReapSteps
  <2>2. ASSUME NEW c \in RpCmds,
               \/ RpSubscribe(c) \/ (\E ok \in BOOLEAN : RpStart(c, ok)) \/ RpWait(c) \/ RpReceive(c)
               \/ RpFlush(c) \/ RpTimeout(c) \/ RpExit(c) \/ RpNoteSteps(c)
        PROVE RpInv'
    BY <2>2, RpSubscribeInv, RpStartInv, RpCallerInv, RpPassStepsInv, RpOfferInv DEF RpNoteSteps
  <2> QED BY <1>1, <2>1, <2>2 DEF RpNext
<1>2. CASE UNCHANGED rpVars
  BY <1>2 DEF rpVars, RpInv, RpTypes, RpLifeInv, RpExitsInv, RpGotInv, RpDistinct, RpPassInv, RpHas
<1> QED BY <1>1, <1>2

(* However exits, subscribers that stop reading, callers that give up and   *)
(* repeated passes interleave, nobody gets an exit twice, a goroutine that  *)
(* is done has told the command's own subscription, no subscription is      *)
(* closed under a waiting caller and no channel holds more than its room    *)
(* (reaper_unix.go, notify, Reap and Wait), for any number of commands.     *)
THEOREM ReaperIsSound == RpSpec => [](RpTypeOK /\ RpOnce)
<1>1. RpInv => RpTypeOK /\ RpOnce
  <2> SUFFICES ASSUME RpInv PROVE RpTypeOK /\ RpOnce
    OBVIOUS
  <2>1. RpTypeOK
    BY DEF RpInv, RpTypes, RpTypeOK
  <2>2. ASSUME NEW c \in RpCmds PROVE IsInjective(rpGot[c]) /\ rpWait[c] # "lost"
    <3>1. rpGot[c] \in Seq(RpCmds) /\ DOMAIN rpGot[c] = 1..Len(rpGot[c])
      BY DEF RpInv, RpTypes
    <3>2. IsInjective(rpGot[c])
      BY <3>1 DEF RpInv, RpDistinct, IsInjective
    <3>3. rpWait[c] # "lost"
      BY DEF RpInv, RpTypes, RpWaits
    <3> QED BY <3>2, <3>3
  <2>3. ASSUME NEW e \in RpCmds, rpNote[e] = "done", rpSub[e] = "in" PROVE e \in ToSet(rpGot[e])
    <3>1. rpGot[e] \in Seq(RpCmds) /\ DOMAIN rpGot[e] = 1..Len(rpGot[e])
      BY DEF RpInv, RpTypes
    <3> QED BY <2>3, <3>1 DEF RpInv, RpPassInv, RpHas, ToSet
  <2> QED BY <2>1, <2>2, <2>3 DEF RpOnce
<1> QED BY <1>1, RpInitInv, RpNextInv, PTL DEF RpSpec
=============================================================================
