------------------------------- MODULE IsleLog -------------------------------
(***************************************************************************)
(* The log of a container (pkg/clog): a directory of files, one writer     *)
(* after the other (a container that is booted again opens a new one in    *)
(* the same directory), and a reader that follows the files by name while  *)
(* they are written, rotated and pruned.                                   *)
(*                                                                         *)
(* Entries are numbered in the order in which they are written.  A file is *)
(* named by its ULID: the files' numbers are their order by name, and by   *)
(* the millisecond, which is all that pruneEntries looks at, as long as no *)
(* two files are made in the same one.                                     *)
(***************************************************************************)
EXTENDS Integers, Sequences, FiniteSets

CONSTANTS
    LgMax,      \* entries that fill a file
    LgShards,   \* files that rotate keeps
    LgEntries,  \* bound: entries
    LgWriters   \* bound: writers, one after the other

ASSUME LgAssumption ==
    LgMax \in Nat \ {0} /\ LgShards \in Nat \ {0} /\ LgEntries \in Nat /\ LgWriters \in Nat

LgIds == 1..(LgEntries + LgWriters)
LgNoFile == 0

VARIABLES
    lgFiles,    \* the files in the directory
    lgMade,     \* files made so far
    lgData,     \* the entries of each file that have reached it
    lgBuf,      \* the entries in the writer's buffer
    lgSize,     \* entries that went into the writer since its file was made
    lgCur,      \* the file that the writer writes, LgNoFile without a writer
    lgWriter,   \* writers so far
    lgLast,     \* entries so far
    lgDir,      \* the reader: the file it is at (LgNoFile before the first)
    lgPos,      \* entries of that file that it has read
    lgGot,      \* history: the entries it has returned
    lgEnd,      \* "reading" or "eof"
    lgLive,     \* history: whether a writer has written since the reader began
    lgLost      \* history: entries that were lost in a buffer or with a file

lgVars == <<lgFiles, lgMade, lgData, lgBuf, lgSize, lgCur, lgWriter, lgLast, lgDir, lgPos, lgGot, lgEnd, lgLive, lgLost>>
lgReader == <<lgDir, lgPos, lgGot, lgEnd>>

LgInit ==
    /\ lgFiles = {} /\ lgMade = 0 /\ lgData = [f \in LgIds |-> <<>>]
    /\ lgBuf = <<>> /\ lgSize = 0 /\ lgCur = LgNoFile /\ lgWriter = 0 /\ lgLast = 0
    /\ lgDir = LgNoFile /\ lgPos = 0 /\ lgGot = <<>> /\ lgEnd = "none"
    /\ lgLive = FALSE /\ lgLost = {}

(* NewDirectoryWriter: a new file; older ones stay.                         *)
LgOpenWriter ==
    /\ lgCur = LgNoFile /\ lgWriter < LgWriters
    /\ lgWriter' = lgWriter + 1
    /\ lgMade' = lgMade + 1 /\ lgFiles' = lgFiles \cup {lgMade + 1}
    /\ lgCur' = lgMade + 1 /\ lgSize' = 0
    /\ lgLive' = (lgLive \/ lgEnd # "none")
    /\ UNCHANGED <<lgData, lgBuf, lgLast, lgReader, lgLost>>

(* Mutant: the newest files are removed.                                    *)
MutLgPruned(files, s) == {f \in files : Cardinality({g \in files : g > f}) < s}

(* toRemove := ids[:len(ids)-shards] of the files sorted by millisecond.    *)
LgPruned(files, s) == {f \in files : Cardinality({g \in files : g < f}) < s}

(* rotate: flush, close, make the next file, prune.                         *)
LgRotate(buf) ==
    /\ lgMade' = lgMade + 1
    /\ lgData' = [lgData EXCEPT ![lgCur] = @ \o buf] /\ lgBuf' = <<>>
    /\ LET files == lgFiles \cup {lgMade + 1}
           removed == IF Cardinality(files) > LgShards
                      THEN LgPruned(files, Cardinality(files) - LgShards) ELSE {} IN
       /\ lgFiles' = files \ removed
       /\ lgLost' = lgLost \cup UNION {{lgData'[f][i] : i \in 1..Len(lgData'[f])} : f \in removed}
    /\ lgCur' = lgMade + 1 /\ lgSize' = 0

LgFull == lgSize + 1 >= LgMax

(* Write: the entry goes to the buffer; a file that is full is rotated.     *)
LgWrite ==
    /\ lgCur # LgNoFile /\ lgLast < LgEntries
    /\ lgLast' = lgLast + 1
    /\ lgLive' = (lgLive \/ lgEnd # "none")
    /\ IF LgFull THEN LgRotate(Append(lgBuf, lgLast + 1))
       ELSE /\ lgBuf' = Append(lgBuf, lgLast + 1) /\ lgSize' = lgSize + 1
            /\ UNCHANGED <<lgFiles, lgMade, lgData, lgCur, lgLost>>
    /\ UNCHANGED <<lgWriter, lgReader>>

(* The buffer runs over and reaches the file.                               *)
LgSpill ==
    /\ lgCur # LgNoFile /\ lgBuf # <<>>
    /\ lgData' = [lgData EXCEPT ![lgCur] = @ \o lgBuf] /\ lgBuf' = <<>>
    /\ lgLive' = (lgLive \/ lgEnd # "none")
    /\ UNCHANGED <<lgFiles, lgMade, lgSize, lgCur, lgWriter, lgLast, lgReader, lgLost>>

(* The writer ends: Close flushes; the goroutine of IOInput, when its pipe  *)
(* ends, and a guest that crashes do not.                                   *)
LgEndWriter(closes) ==
    /\ lgCur # LgNoFile
    /\ lgData' = IF closes THEN [lgData EXCEPT ![lgCur] = @ \o lgBuf] ELSE lgData
    /\ lgLost' = IF closes THEN lgLost ELSE lgLost \cup {lgBuf[i] : i \in 1..Len(lgBuf)}
    /\ lgBuf' = <<>> /\ lgCur' = LgNoFile /\ lgSize' = 0
    /\ lgLive' = (lgLive \/ lgEnd # "none")
    /\ UNCHANGED <<lgFiles, lgMade, lgWriter, lgLast, lgReader>>

(* NewDirectoryReader: the first file by name.                              *)
LgOpenReader ==
    /\ lgEnd = "none" /\ lgFiles # {}
    /\ lgDir' = CHOOSE f \in lgFiles : \A g \in lgFiles : f <= g
    /\ lgEnd' = "reading" /\ lgLive' = (lgCur # LgNoFile)
    /\ UNCHANGED <<lgFiles, lgMade, lgData, lgBuf, lgSize, lgCur, lgWriter, lgLast, lgPos, lgGot, lgLost>>

(* openNext: the file after the current one in the directory; none when the *)
(* current one is the last or was pruned.                                   *)
LgFollowing == {f \in lgFiles : lgDir \in lgFiles /\ f > lgDir /\ \A g \in lgFiles : g > lgDir => f <= g}

(* Next: the next entry of the open file (which stays readable when it is   *)
(* pruned); otherwise the first entry of the next file, or the end.         *)
LgNextEntry ==
    /\ lgEnd = "reading"
    /\ IF lgPos < Len(lgData[lgDir])
       THEN /\ lgPos' = lgPos + 1 /\ lgGot' = Append(lgGot, lgData[lgDir][lgPos + 1])
            /\ UNCHANGED <<lgDir, lgEnd>>
       ELSE IF LgFollowing = {}
       THEN lgEnd' = "eof" /\ UNCHANGED <<lgDir, lgPos, lgGot>>
       ELSE LET f == CHOOSE f \in LgFollowing : TRUE IN
            /\ lgDir' = f
            /\ IF lgData[f] = <<>>
               THEN lgEnd' = "eof" /\ lgPos' = 0 /\ UNCHANGED lgGot
               ELSE lgPos' = 1 /\ lgGot' = Append(lgGot, lgData[f][1]) /\ UNCHANGED lgEnd
    /\ UNCHANGED <<lgFiles, lgMade, lgData, lgBuf, lgSize, lgCur, lgWriter, lgLast, lgLive, lgLost>>

LgNext ==
    \/ LgOpenWriter \/ LgWrite \/ LgSpill \/ (\E b \in BOOLEAN : LgEndWriter(b)) \/ LgOpenReader \/ LgNextEntry

LgSpec == LgInit /\ [][LgNext]_lgVars

------------------------------------------------------------------------------
LgTypeOK ==
    /\ lgFiles \subseteq LgIds /\ lgMade \in 0..(LgEntries + LgWriters)
    /\ lgCur \in LgIds \cup {LgNoFile} /\ lgSize \in 0..(LgMax - 1)
    /\ lgEnd \in {"none", "reading", "eof"}

(* The reader returns entries in the order in which they were written, each *)
(* once, across rotations, pruning and several writers.                     *)
LgReadsInOrder == \A i, j \in 1..Len(lgGot) : i < j => lgGot[i] < lgGot[j]

(* A reader that no writer disturbs returns every entry that is on disk, to *)
(* the last, unless it meets an empty file, where it stops.                 *)
LgReadsAll ==
    (lgEnd = "eof" /\ ~lgLive /\ \A f \in lgFiles : lgData[f] # <<>>)
    => {lgGot[i] : i \in 1..Len(lgGot)} = UNION {{lgData[f][i] : i \in 1..Len(lgData[f])} : f \in lgFiles}

(* What was written is in the buffer, on disk, or was lost in one of the    *)
(* two ways there are; it is in no two places; a writer's own file is never *)
(* pruned.                                                                  *)
LgKept ==
    LET onDisk == UNION {{lgData[f][i] : i \in 1..Len(lgData[f])} : f \in lgFiles}
        inBuf == {lgBuf[i] : i \in 1..Len(lgBuf)} IN
    /\ 1..lgLast = onDisk \cup inBuf \cup lgLost
    /\ onDisk \cap inBuf = {} /\ onDisk \cap lgLost = {}
    /\ lgCur # LgNoFile => lgCur \in lgFiles

(* Entries are neither lost unnoticed nor read twice or out of order.       *)
LgFaithful == LgTypeOK /\ LgReadsInOrder /\ LgReadsAll /\ LgKept
=============================================================================
