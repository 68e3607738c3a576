---------------------------- MODULE SshKnownHosts ----------------------------
(***************************************************************************)
(* The known_hosts database (pkg/crypto/ssh/knownhosts): the files are     *)
(* read line by line, then host keys are checked against it; certificates  *)
(* go to CertChecker with the database's authorities.                      *)
(*                                                                         *)
(* A host name is a sequence of letters, a pattern one of letters, "*" and *)
(* "?"; a key has a type and an identity.                                  *)
(***************************************************************************)
EXTENDS Integers, Sequences, FiniteSets

CONSTANTS
    KhLines,     \* the lines that files may consist of
    KhHosts,     \* host names, those in KhV6 written with colons
    KhV6,
    KhPorts,
    KhKeys,      \* records of a type and a name
    KhMax        \* bound: lines

KhPatterns == [negate : BOOLEAN, host : Seq(STRING), port : STRING]
ASSUME KhAssumption ==
    /\ KhMax \in Nat /\ "none" \notin KhPorts
    /\ \A h \in KhHosts : h \in Seq(STRING) /\ \A i \in 1..Len(h) : h[i] \notin {"*", "?"}
    /\ \A l \in KhLines : /\ l.pats \in Seq(KhPatterns)
                          /\ l.hash = <<>> \/ (l.hash = <<l.hash[1], l.hash[2]>> /\ l.pats = <<>>)

VARIABLES
    khFile,      \* history: the lines read, in order
    khDb,        \* db.lines
    khRevoked,   \* db.revoked
    khSt,        \* "reading", "ready", "failed"
    khResult     \* the last check: the address, the key and the verdict

khVars == <<khFile, khDb, khRevoked, khSt, khResult>>

KhNoCheck == [host |-> <<>>, port |-> "", key |-> [type |-> "", name |-> ""], verdict |-> "none"]

KhInit ==
    /\ khFile = <<>> /\ khDb = <<>> /\ khRevoked = {}
    /\ khSt = "reading" /\ khResult = KhNoCheck

(* wildcardMatch: the positions of the name from which the last d letters   *)
(* of the pattern match, given those for one letter less.  A "*" may stand  *)
(* for nothing, but a pattern with letters left never matches an empty rest.*)
MatchTail(pat, str, d, rest) ==
    LET i == Len(pat) - d + 1
    IN  {j \in 1..Len(str) : IF pat[i] = "*" THEN d = 1 \/ \E k \in j..Len(str) : k \in rest
                             ELSE pat[i] \in {"?", str[j]} /\ j + 1 \in rest}
WildcardMatch(pat, str) ==
    LET from[d \in 0..Len(pat)] == IF d = 0 THEN {Len(str) + 1} ELSE MatchTail(pat, str, d, from[d - 1])
    IN  1 \in from[Len(pat)]

(* hostPatterns.match: the first negated pattern that matches decides.      *)
HostPatternsMatch(ps, h, p) ==
    LET hits == {i \in 1..Len(ps) : WildcardMatch(ps[i].host, h) /\ ps[i].port = p}
    IN  hits # {} /\ \A i \in hits : ~ps[i].negate

(* Normalize: the entry for an address, as its host, port and brackets.     *)
Normalize(h, p) ==
    CASE p # "22"  -> [host |-> h, port |-> p, brackets |-> TRUE]
      [] h \in KhV6 /\ p = "22" -> [host |-> h, port |-> "none", brackets |-> TRUE]
      [] OTHER     -> [host |-> h, port |-> "none", brackets |-> FALSE]

(* newHostnameMatcher of such an entry: brackets need a port.               *)
EntryParses(e)  == e.brackets => e.port # "none"
EntryMatcher(e) == <<[negate |-> FALSE, host |-> e.host, port |-> IF e.port = "none" THEN "22" ELSE e.port]>>

(* hashedHost.match: the salted hash of the normalized address.             *)
HashHost(entry, salt) == <<salt, entry>>
LineMatches(l, h, p) ==
    IF l.hash # <<>> THEN HashHost(Normalize(h, p), l.hash[1]) = l.hash
    ELSE HostPatternsMatch(l.pats, h, p)

(* Read and parseLine: a revoked key is known by itself, whatever hosts its *)
(* line names; a line that does not parse fails New.                        *)
ParseLine(l) ==
    /\ khSt = "reading" /\ Len(khFile) < KhMax
    /\ khFile' = Append(khFile, l)
    /\ CASE l.marker = "bad"      -> khSt' = "failed" /\ UNCHANGED <<khDb, khRevoked>>
         [] l.marker = "@revoked" -> khRevoked' = khRevoked \cup {l.key} /\ UNCHANGED <<khDb, khSt>>
         [] OTHER                 -> khDb' = Append(khDb, l) /\ UNCHANGED <<khRevoked, khSt>>
    /\ UNCHANGED khResult

KhReady ==
    /\ khSt = "reading"
    /\ khSt' = "ready"
    /\ UNCHANGED <<khFile, khDb, khRevoked, khResult>>

(* Mutant: every line's key is an authority.                                *)
MutIsHostAuthority(k, h, p) ==
    \E i \in 1..Len(khDb) : khDb[i].key = k /\ LineMatches(khDb[i], h, p)

IsHostAuthority(k, h, p) ==
    \E i \in 1..Len(khDb) : khDb[i].marker = "@cert-authority" /\ khDb[i].key = k /\ LineMatches(khDb[i], h, p)

(* checkAddr: of every type, the first line that matches.                   *)
CheckAddr(h, p, k) ==
    LET known == {i \in 1..Len(khDb) : LineMatches(khDb[i], h, p)}
        first == {i \in known : \A j \in known : khDb[j].key.type = khDb[i].key.type => i <= j}
    IN  IF first = {} THEN "unknown"
        ELSE IF \E i \in first : khDb[i].key = k THEN "accepted" ELSE "mismatch"

(* check: the host name is preferred to the remote address.                 *)
CheckHostKey(name, remote, p, k) ==
    /\ khSt = "ready" /\ khResult = KhNoCheck
    /\ LET h == IF name = <<>> THEN remote ELSE name
       IN  khResult' = [host |-> h, port |-> p, key |-> k,
                        verdict |-> IF k \in khRevoked THEN "revoked" ELSE CheckAddr(h, p, k)]
    /\ UNCHANGED <<khFile, khDb, khRevoked, khSt>>

(* A host certificate, correctly signed by k: CheckHostKey of CertChecker   *)
(* with IsHostAuthority (IsRevoked looks the certificate itself up).        *)
CheckHostCertKey(name, p, k) ==
    /\ khSt = "ready" /\ khResult = KhNoCheck
    /\ khResult' = [host |-> name, port |-> p, key |-> k,
                    verdict |-> IF IsHostAuthority(k, name, p) THEN "certified" ELSE "uncertified"]
    /\ UNCHANGED <<khFile, khDb, khRevoked, khSt>>

KhNext ==
    \/ \E l \in KhLines : ParseLine(l)
    \/ KhReady
    \/ \E p \in KhPorts, k \in KhKeys :
         \/ \E h \in KhHosts, r \in KhHosts : CheckHostKey(h, r, p, k) \/ CheckHostKey(<<>>, r, p, k)
         \/ \E h \in KhHosts : CheckHostCertKey(h, p, k)

KhSpec == KhInit /\ [][KhNext]_khVars

------------------------------------------------------------------------------
(* What "*" and "?" mean: there is a cut of the name into consecutive runs, *)
(* one for each letter of the pattern, where "?" and a letter take one and  *)
(* "*" any number, but not nothing at the very end.                         *)
Glob(pat, str) ==
    \E cut \in [1..(Len(pat) + 1) -> 0..Len(str)] :
        /\ cut[1] = 0 /\ cut[Len(pat) + 1] = Len(str)
        /\ \A i \in 1..Len(pat) :
             IF pat[i] = "*" THEN cut[i] <= cut[i + 1] /\ (i = Len(pat) => cut[i] < Len(str))
             ELSE cut[i + 1] = cut[i] + 1 /\ pat[i] \in {"?", str[cut[i + 1]]}

(* wildcardMatch, with its early returns and its recursion, decides Glob.   *)
KhWildcard ==
    \A i \in 1..Len(khFile) : \A j \in 1..Len(khFile[i].pats) : \A h \in KhHosts :
        WildcardMatch(khFile[i].pats[j].host, h) <=> Glob(khFile[i].pats[j].host, h)

(* A line of the file that names the address.                               *)
Names(l, h, p) ==
    \/ /\ \E i \in 1..Len(l.pats) : Glob(l.pats[i].host, h) /\ l.pats[i].port = p /\ ~l.pats[i].negate
       /\ ~\E i \in 1..Len(l.pats) : Glob(l.pats[i].host, h) /\ l.pats[i].port = p /\ l.pats[i].negate
    \/ l.hash # <<>> /\ l.hash[2] = Normalize(h, p)

(* A host key is accepted only if the files name it for that address and no *)
(* line of them revokes it, wherever that line stands; and of two keys of   *)
(* one type the earlier line is the one that counts.                        *)
KhTrusted ==
    khResult.verdict = "accepted" =>
        /\ \A i \in 1..Len(khFile) : khFile[i].marker = "@revoked" => khFile[i].key # khResult.key
        /\ \E i \in 1..Len(khFile) :
             /\ khFile[i].key = khResult.key /\ Names(khFile[i], khResult.host, khResult.port)
             /\ \A j \in 1..(i - 1) :
                  /\ khFile[j].marker # "@revoked"
                  /\ khFile[j].key.type = khResult.key.type
                  => ~Names(khFile[j], khResult.host, khResult.port)

(* A known host that shows another key is never taken for an unknown one,   *)
(* which a user might be asked to trust.                                    *)
KhUnknownIsNew ==
    khResult.verdict = "unknown" =>
        \A i \in 1..Len(khFile) :
            khFile[i].marker # "@revoked" => ~Names(khFile[i], khResult.host, khResult.port)

(* Only an authority for that address makes certificates that count.        *)
KhCertified ==
    khResult.verdict = "certified" =>
        \E i \in 1..Len(khFile) : /\ khFile[i].marker = "@cert-authority" /\ khFile[i].key = khResult.key
                                  /\ Names(khFile[i], khResult.host, khResult.port)

(* The entry that Line writes for an address is read back as a pattern that *)
(* matches that address and no other, except that a bracketed address       *)
(* without a port, as Normalize writes IPv6 on port 22, does not parse.     *)
KhLineReadsBack ==
    khResult # KhNoCheck =>
        LET e == Normalize(khResult.host, khResult.port)
        IN  /\ EntryParses(e) <=> ~(khResult.host \in KhV6 /\ khResult.port = "22")
            /\ \A h \in KhHosts, p \in KhPorts :
                 HostPatternsMatch(EntryMatcher(e), h, p) <=> (h = khResult.host /\ p = khResult.port)

(* The verdicts on host keys follow from the files, line by line.           *)
KhVerdicts == KhWildcard /\ KhTrusted /\ KhUnknownIsNew /\ KhCertified /\ KhLineReadsBack
=============================================================================
