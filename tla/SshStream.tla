----------------------------- MODULE SshStream -----------------------------
(***************************************************************************)
(* What ssh.Channel promises for each of its streams: the reader gets the  *)
(* bytes that were written, in order and once, and is told of the end only *)
(* when it has read what was sent before the EOF or the close, unless the  *)
(* connection is lost.  Nothing here knows of windows, packets, buffers,   *)
(* loops or of the answers to a close.                                     *)
(***************************************************************************)
EXTENDS Naturals, Sequences

CONSTANTS
    Streams,     \* the streams of the channel
    NoMark,      \* a stream that nobody has ended
    Most         \* the longest write

VARIABLES
    sent,        \* stream -> bytes written, numbered from 1
    mark,        \* stream -> how many of them come before its end
    got,         \* stream -> what its reader has got
    ended,       \* the streams whose end has been reported
    line         \* the connection: "up", "down"

streamVars == <<sent, mark, got, ended, line>>

StreamInit ==
    /\ sent = [s \in Streams |-> 0] /\ mark = [s \in Streams |-> NoMark]
    /\ got = [s \in Streams |-> <<>>] /\ ended = {} /\ line = "up"

Write(s) ==
    /\ \E n \in 1..Most : sent' = [sent EXCEPT ![s] = @ + n]
    /\ UNCHANGED <<mark, got, ended, line>>

(* The writing side ends every stream that it has not ended before.         *)
Finish ==
    /\ mark' = [s \in Streams |-> IF mark[s] = NoMark THEN sent[s] ELSE mark[s]]
    /\ UNCHANGED <<sent, got, ended, line>>

(* A prefix of what is missing.                                             *)
Deliver(s) ==
    /\ s \notin ended
    /\ \E n \in 1..(sent[s] - Len(got[s])) :
         got' = [got EXCEPT ![s] = @ \o [i \in 1..n |-> Len(@) + i]]
    /\ UNCHANGED <<sent, mark, ended, line>>

End(s) ==
    /\ line = "down" \/ (mark[s] # NoMark /\ mark[s] <= Len(got[s]))
    /\ ended' = ended \cup {s}
    /\ UNCHANGED <<sent, mark, got, line>>

Break == line' = "down" /\ UNCHANGED <<sent, mark, got, ended>>

StreamNext == Finish \/ Break \/ \E s \in Streams : Write(s) \/ Deliver(s) \/ End(s)
StreamSpec == StreamInit /\ [][StreamNext]_streamVars
=============================================================================
