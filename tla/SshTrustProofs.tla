--------------------------- MODULE SshTrustProofs ---------------------------
(***************************************************************************)
(* Whom the SSH code trusts: serverAuthenticate against every client, for  *)
(* any users, keys, methods, limits and number of requests, CertChecker    *)
(* for any certificates, options and time stamps, and the database of      *)
(* known hosts for any files, patterns and addresses; which keys and       *)
(* methods clientAuthenticate uses, whatever the server answers; and what  *)
(* the key agent answers, for any goroutines, keys and lifetimes.          *)
(***************************************************************************)
EXTENDS SshAuthServer, SshAuthClient, SshCerts, SshKnownHosts, SshAgent, FiniteSetTheorems, InductionLemmas

------------------------------------------------------------------------------
(* serverAuthenticate.                                                      *)

CacheEntries == [user : AuthUsers, key : AuthKeys, ok : BOOLEAN]

(* A sub-dialogue is only begun for a configured method and while tries are *)
(* left, and it is about a user.                                            *)
DialogueInv ==
    /\ aSt = "challenge" => "keyboard-interactive" \in aConf
    /\ aSt = "gss" => "gssapi-with-mic" \in aConf
    /\ aSt \in {"challenge", "gss"} => aUser \in AuthUsers /\ aFail < MaxTries

(* Every refused credential has been counted; only a "none" that was granted *)
(* leaves the count below zero.                                              *)
CountInv ==
    /\ aRefused <= aFail \/ (aSt = "granted" /\ aRefused = 0)
    /\ aSt # "granted" => aFail >= 0

(* The cache repeats what the callback would say.                           *)
CacheInv == aCache \in Seq(CacheEntries) /\ \A i \in 1..Len(aCache) : aCache[i].ok = Decides(aCache[i].user, aCache[i].key)

AuthInv == AuthGuarded /\ DialogueInv /\ CountInv /\ CacheInv

LEMMA AuthInitInv == AuthInit => AuthInv
BY AuthServerConstants DEF AuthInit, AuthInv, AuthGuarded, AuthTypeOK, AuthSound, AuthPermsFresh, AuthTriesBounded,
   DialogueInv, CountInv, CacheInv, NoProof, Proof

(* The answer of the cache is the callback's, about that user and that key. *)
LEMMA CandidateDecides ==
    ASSUME CacheInv, NEW u \in AuthUsers, NEW k \in AuthKeys
    PROVE  /\ Candidate(u, k) \in CacheEntries
           /\ Candidate(u, k).user = u /\ Candidate(u, k).key = k /\ Candidate(u, k).ok = Decides(u, k)
<1>1. CASE CacheHits(u, k) = {}
  BY <1>1 DEF Candidate, CacheEntries, Decides
<1>2. CASE CacheHits(u, k) # {}
  <2>1. CacheHits(u, k) \subseteq Nat
    BY DEF CacheHits
  <2>2. \E i \in CacheHits(u, k) : \A j \in CacheHits(u, k) : i <= j
    BY <1>2, <2>1, HasLeast
  <2>3. PICK i \in CacheHits(u, k) : Candidate(u, k) = aCache[i]
    BY <1>2, <2>2 DEF Candidate
  <2>4. i \in 1..Len(aCache) /\ aCache[i].user = u /\ aCache[i].key = k
    BY <2>3 DEF CacheHits
  <2>5. aCache[i] \in CacheEntries /\ aCache[i].ok = Decides(u, k)
    BY <2>4 DEF CacheInv
  <2> QED BY <2>3, <2>4, <2>5
<1> QED BY <1>1, <1>2

(* Adding to the cache keeps it right and within its limit.                 *)
LEMMA CacheAddKeeps ==
    ASSUME CacheInv, Len(aCache) <= MaxCached, NEW u \in AuthUsers, NEW k \in AuthKeys, CacheAdd(u, k)
    PROVE  /\ CacheInv' /\ Len(aCache') <= MaxCached
           /\ \A i \in 1..Len(aCache') : aCache'[i].user \in AuthUsers /\ aCache'[i].key \in AuthKeys
<1>1. Candidate(u, k) \in CacheEntries /\ Candidate(u, k).ok = Decides(Candidate(u, k).user, Candidate(u, k).key)
  BY CandidateDecides
<1>2. CASE aCache' = aCache
  <2>1. CacheInv'
    BY <1>2 DEF CacheInv
  <2>2. \A i \in 1..Len(aCache) : aCache[i] \in CacheEntries
    BY DEF CacheInv
  <2> QED BY <1>2, <2>1, <2>2 DEF CacheEntries
<1>3. CASE aCache' = Append(aCache, Candidate(u, k)) /\ Len(aCache) < MaxCached
  <2>1. aCache' \in Seq(CacheEntries) /\ Len(aCache') = Len(aCache) + 1 /\ Len(aCache) \in Nat
    BY <1>1, <1>3 DEF CacheInv
  <2>2. \A i \in 1..Len(aCache') : aCache'[i] = IF i <= Len(aCache) THEN aCache[i] ELSE Candidate(u, k)
    BY <1>1, <1>3, <2>1 DEF CacheInv
  <2>3. \A i \in 1..Len(aCache') : aCache'[i].ok = Decides(aCache'[i].user, aCache'[i].key)
    BY <1>1, <2>1, <2>2 DEF CacheInv
  <2>4. \A i \in 1..Len(aCache') : aCache'[i] \in CacheEntries
    BY <2>1
  <2> QED BY <1>3, <2>1, <2>3, <2>4, AuthServerConstants DEF CacheInv, CacheEntries, Decides
<1> QED BY <1>2, <1>3 DEF CacheAdd

(* Every step of the server keeps AuthInv.                                  *)
LEMMA AuthNextInv == AuthInv /\ [AuthNext]_authVars => AuthInv'
<1>1. SUFFICES ASSUME AuthInv, AuthNext PROVE AuthInv'
  BY DEF AuthInv, authVars, AuthGuarded, AuthTypeOK, AuthSound, AuthPermsFresh, AuthTriesBounded,
     DialogueInv, CountInv, CacheInv, Decides
<1> USE AuthServerConstants DEF AuthInv, AuthGuarded, AuthTypeOK, AuthSound, AuthPermsFresh, AuthTriesBounded,
        DialogueInv, CountInv, NoProof, Proof, FreshPerms, Nobody
<1> DEFINE Same == UNCHANGED <<aConf, aCache>>
<1>2. Same => CacheInv' /\ Len(aCache') <= MaxCached
              /\ \A i \in 1..Len(aCache') : aCache'[i].user \in AuthUsers /\ aCache'[i].key \in AuthKeys
  BY <1>1 DEF CacheInv, Decides
<1>3. CASE TooManyFailures
  BY <1>1, <1>2, <1>3 DEF TooManyFailures
<1>4. CASE NoAnswer
  BY <1>1, <1>2, <1>4 DEF NoAnswer
<1>5. ASSUME NEW right \in BOOLEAN, Answer(right) PROVE AuthInv'
  BY <1>1, <1>2, <1>5 DEF Answer, Grant, Guessed, Refuse
<1>6. ASSUME NEW right \in BOOLEAN, GssExchangeToken(right) PROVE AuthInv'
  BY <1>1, <1>2, <1>6 DEF GssExchangeToken, Grant, Guessed, Refuse
<1>7. ASSUME NEW u \in AuthUsers, AskNone(u) PROVE AuthInv'
  BY <1>1, <1>2, <1>7 DEF AskNone, Request, Grant, Refuse, AfterNone
<1>8. ASSUME NEW u \in AuthUsers, AskInteractive(u) PROVE AuthInv'
  BY <1>1, <1>2, <1>8 DEF AskInteractive, Request, Guessed, Refuse
<1>9. ASSUME NEW u \in AuthUsers, AskUnknown(u) PROVE AuthInv'
  BY <1>1, <1>2, <1>9 DEF AskUnknown, Request, Guessed, Refuse
<1>10. ASSUME NEW u \in AuthUsers, NEW right \in BOOLEAN, AskPassword(u, right) PROVE AuthInv'
  BY <1>1, <1>2, <1>10 DEF AskPassword, Request, Grant, Guessed, Refuse
<1>11. ASSUME NEW u \in AuthUsers, NEW krb5 \in BOOLEAN, AskGss(u, krb5) PROVE AuthInv'
  BY <1>1, <1>2, <1>11 DEF AskGss, Request, Guessed, Refuse
<1>12. ASSUME NEW u \in AuthUsers, NEW k \in AuthKeys, QueryKey(u, k) PROVE AuthInv'
  <2>1. CacheInv' /\ Len(aCache') <= MaxCached
        /\ \A i \in 1..Len(aCache') : aCache'[i].user \in AuthUsers /\ aCache'[i].key \in AuthKeys
    BY <1>1, <1>2, <1>12, CacheAddKeeps DEF QueryKey
  <2> QED BY <1>1, <1>12, <2>1 DEF QueryKey, Request, Guessed, Refuse
<1>13. ASSUME NEW u \in AuthUsers, NEW k \in AuthKeys, NEW u2 \in AuthUsers, NEW k2 \in AuthKeys,
              SignedKey(u, k, u2, k2)
       PROVE  AuthInv'
  <2>1. CacheInv' /\ Len(aCache') <= MaxCached
        /\ \A i \in 1..Len(aCache') : aCache'[i].user \in AuthUsers /\ aCache'[i].key \in AuthKeys
    BY <1>1, <1>2, <1>13, CacheAddKeeps DEF SignedKey
  <2>2. Candidate(u, k).key = k /\ (Candidate(u, k).ok => k \in Authorized[u] /\ k \notin SourceBound)
    BY <1>1, CandidateDecides DEF Decides
  <2>3. CASE "publickey" \notin aConf
    BY <1>1, <1>13, <2>1, <2>3 DEF SignedKey, Request, Guessed, Refuse
  <2>4. CASE "publickey" \in aConf /\ (u2 # u \/ k2 # k)
    BY <1>1, <1>13, <2>1, <2>4 DEF SignedKey, Request
  <2>5. CASE "publickey" \in aConf /\ u2 = u /\ k2 = k /\ Candidate(u, k).ok
    <3>1. Request(u) /\ Grant(k, Proof("publickey", u, k)) /\ UNCHANGED <<aConf, aFail>>
      BY <1>13, <2>2, <2>5 DEF SignedKey
    <3> QED BY <1>1, <2>1, <2>2, <2>5, <3>1 DEF Request, Grant
  <2>6. CASE "publickey" \in aConf /\ u2 = u /\ k2 = k /\ ~Candidate(u, k).ok
    BY <1>1, <1>13, <2>1, <2>6 DEF SignedKey, Request, Refuse
  <2> QED BY <2>3, <2>4, <2>5, <2>6
<1> QED
  BY <1>1, <1>3, <1>4, <1>5, <1>6, <1>7, <1>8, <1>9, <1>10, <1>11, <1>12, <1>13 DEF AuthNext

(* Whoever serverAuthenticate lets in has proved, in that very request, to  *)
(* be the user that the connection then has, with the permissions of that   *)
(* proof, and at most MaxAuthTries credentials were refused before.         *)
THEOREM AuthenticationIsSound == AuthSpec => []AuthGuarded
<1>1. AuthInv => AuthGuarded
  BY DEF AuthInv
<1> QED BY <1>1, AuthInitInv, AuthNextInv, PTL DEF AuthSpec

------------------------------------------------------------------------------
(* Certificates.                                                            *)

(* The keys of a map of options can be sorted.                              *)
Upto(n) == {CertOptions[i] : i \in 1..n}
HasSorted(D) == IsFiniteSet(D) /\ \E q \in [1..Cardinality(D) -> D] : ListsInOrder(q, D)

LEMMA IndexOf == ASSUME NEW i \in 1..Len(CertOptions) PROVE CertIndex(CertOptions[i]) = i
<1>1. \A j \in 1..Len(CertOptions) : CertOptions[j] = CertOptions[i] => j = i
  BY CertAssumption
<1> QED BY <1>1 DEF CertIndex

LEMMA SortedStep ==
    ASSUME NEW D, NEW n \in Nat, n + 1 \in 1..Len(CertOptions), HasSorted(D \cap Upto(n)),
           CertOptions[n + 1] \in D
    PROVE  HasSorted(D \cap Upto(n + 1))
<1> DEFINE E == D \cap Upto(n)  x == CertOptions[n + 1]
<1>1. 1..(n + 1) = (1..n) \cup {n + 1} /\ 1..n \subseteq 1..Len(CertOptions) /\ n + 1 \notin 1..n /\ \A i \in 1..n : i < n + 1
  <2>1. PICK m : m = Len(CertOptions)
    OBVIOUS
  <2>2. m \in Nat /\ n + 1 \in 1..m
    BY <2>1, CertAssumption
  <2>3. 1..n \subseteq 1..m
    BY <2>2
  <2> QED BY <2>1, <2>3
<1>2. D \cap Upto(n + 1) = E \cup {x}
  BY <1>1 DEF Upto
<1>3. x \notin E
  BY <1>1, CertAssumption DEF Upto
<1>4. IsFiniteSet(E)
  BY DEF HasSorted
<1>5. PICK c : c = Cardinality(E)
  OBVIOUS
<1>6. c \in Nat /\ IsFiniteSet(E \cup {x}) /\ Cardinality(E \cup {x}) = c + 1
  BY <1>3, <1>4, <1>5, FS_AddElement, FS_CardinalityType
<1>7. PICK q \in [1..c -> E] : ListsInOrder(q, E)
  BY <1>5 DEF HasSorted
<1>8. \A y \in E : CertIndex(y) < CertIndex(x)
  BY <1>1, IndexOf DEF Upto
<1> HIDE DEF E, x
<1> DEFINE r == [i \in 1..(c + 1) |-> IF i = c + 1 THEN x ELSE q[i]]
<1>9. \A i \in 1..(c + 1) : i = c + 1 \/ i \in 1..c
  BY <1>6
<1>10. r \in [1..(c + 1) -> E \cup {x}]
  BY <1>7, <1>9
<1>11. DOMAIN r = 1..(c + 1) /\ DOMAIN q = 1..c
  BY <1>7, <1>10
<1>12. ASSUME NEW i \in 1..(c + 1), NEW j \in 1..(c + 1), i < j PROVE CertIndex(r[i]) < CertIndex(r[j])
  <2>1. i \in 1..c /\ i # c + 1
    BY <1>6, <1>12
  <2>2. r[i] = q[i] /\ q[i] \in E
    BY <1>7, <2>1
  <2>3. CASE j = c + 1
    BY <1>8, <2>2, <2>3
  <2>4. CASE j \in 1..c
    <3>1. r[j] = q[j]
      BY <1>6, <2>4
    <3> QED BY <1>7, <1>11, <1>12, <2>1, <2>2, <2>4, <3>1 DEF ListsInOrder
  <2> QED BY <1>9, <2>3, <2>4
<1>13. ASSUME NEW y \in E \cup {x} PROVE \E i \in 1..(c + 1) : r[i] = y
  <2>1. CASE y = x
    <3>1. c + 1 \in 1..(c + 1) /\ r[c + 1] = x
      BY <1>6
    <3> QED BY <2>1, <3>1
  <2>2. CASE y \in E
    <3>1. PICK i \in 1..c : q[i] = y
      BY <1>7, <1>11, <2>2 DEF ListsInOrder
    <3>2. i \in 1..(c + 1) /\ i # c + 1
      BY <1>6
    <3> QED BY <3>1, <3>2
  <2> QED BY <2>1, <2>2
<1> HIDE DEF r
<1>14. ListsInOrder(r, E \cup {x})
  BY <1>11, <1>12, <1>13 DEF ListsInOrder
<1> QED BY <1>2, <1>6, <1>10, <1>14 DEF HasSorted, E, x

LEMMA Sortable ==
    ASSUME NEW D, D \subseteq Upto(Len(CertOptions))
    PROVE  HasSorted(D)
<1>1. PICK m : m = Len(CertOptions)
  OBVIOUS
<1>2. m \in Nat
  BY <1>1, CertAssumption
<1> DEFINE S == {n \in Nat : n <= m => HasSorted(D \cap Upto(n))}
<1>3. 0 \in S
  <2>1. Upto(0) = {}
    <3>1. 1..0 = {}
      OBVIOUS
    <3> QED BY <3>1 DEF Upto
  <2>2. Cardinality({}) = 0 /\ IsFiniteSet({})
    BY FS_EmptySet
  <2>3. \E q \in [1..0 -> {}] : ListsInOrder(q, {})
    <3>1. PICK q : q = [i \in 1..0 |-> i]
      OBVIOUS
    <3>2. 1..0 = {}
      OBVIOUS
    <3>3. q \in [1..0 -> {}] /\ DOMAIN q = {}
      BY <3>1, <3>2
    <3> QED BY <3>3 DEF ListsInOrder
  <2>4. HasSorted({})
    BY <2>2, <2>3 DEF HasSorted
  <2>5. D \cap Upto(0) = {}
    BY <2>1
  <2> QED BY <2>4, <2>5
<1>4. ASSUME NEW n \in S PROVE n + 1 \in S
  <2>1. n \in Nat /\ n + 1 \in Nat /\ (n + 1 <= m => n <= m)
    BY <1>2
  <2>2. ASSUME n + 1 <= m PROVE HasSorted(D \cap Upto(n + 1))
    <3>1. HasSorted(D \cap Upto(n)) /\ n + 1 \in 1..m
      BY <1>2, <2>1, <2>2
    <3>2. CASE CertOptions[n + 1] \in D
      BY <1>1, <2>1, <3>1, <3>2, SortedStep
    <3>3. CASE CertOptions[n + 1] \notin D
      <4>1. 1..(n + 1) = (1..n) \cup {n + 1}
        BY <2>1
      <4>2. D \cap Upto(n + 1) = D \cap Upto(n)
        BY <3>3, <4>1 DEF Upto
      <4> QED BY <3>1, <4>2
    <3> QED BY <3>2, <3>3
  <2> QED BY <2>1, <2>2
<1>5. S \subseteq Nat /\ \A n \in S : n + 1 \in S
  BY <1>4
<1>6. S = Nat
  BY <1>3, <1>5, SetInduction
<1>7. HasSorted(D \cap Upto(m))
  <2>1. m \in S /\ m <= m
    BY <1>2, <1>6
  <2> QED BY <2>1
<1>8. D \cap Upto(m) = D
  BY <1>1
<1> QED BY <1>7, <1>8

(* What marshalTuples writes, parseTuples reads.                            *)
LEMMA RoundTrip ==
    ASSUME NEW opts, NEW D, D \subseteq Upto(Len(CertOptions)), NEW V, opts \in [D -> V]
    PROVE  ParseTuples(MarshalTuples(opts)) = opts
<1>1. DOMAIN opts = D
  OBVIOUS
<1>2. IsFiniteSet(D) /\ \E q \in [1..Cardinality(D) -> D] : ListsInOrder(q, D)
  BY Sortable DEF HasSorted
<1>3. PICK c, q : c = Cardinality(D) /\ q = SortStrings(D)
  OBVIOUS
<1>4. c \in Nat /\ q \in [1..c -> D] /\ ListsInOrder(q, D)
  <2>1. c \in Nat
    BY <1>2, <1>3, FS_CardinalityType
  <2>2. q = CHOOSE s \in [1..c -> D] : ListsInOrder(s, D)
    BY <1>3, Zenon DEF SortStrings
  <2> QED BY <1>2, <1>3, <2>1, <2>2
<1>5. /\ \A i, j \in 1..c : i < j => CertIndex(q[i]) < CertIndex(q[j])
      /\ \A n \in D : \E i \in 1..c : q[i] = n
  BY <1>4 DEF ListsInOrder
<1>6. PICK tups : tups = MarshalTuples(opts)
  OBVIOUS
<1>7. tups = [i \in 1..c |-> [key |-> q[i], val |-> MarshalValue(opts[q[i]])]]
  BY <1>1, <1>3, <1>6 DEF MarshalTuples
<1>8. Len(tups) = c
  BY <1>4, <1>7
<1>9. \A i \in 1..c : tups[i].key = q[i] /\ tups[i].val = MarshalValue(opts[q[i]])
  BY <1>7
<1>10. \A n \in D : CertIndex(n) \in 1..Len(CertOptions)
  <2>1. ASSUME NEW n \in D PROVE CertIndex(n) \in 1..Len(CertOptions)
    <3>1. PICK i \in 1..Len(CertOptions) : n = CertOptions[i]
      BY DEF Upto
    <3> QED BY <3>1, IndexOf
  <2> QED BY <2>1
<1>11. \A i, j \in 1..c : q[i] = q[j] => i = j
  <2>1. ASSUME NEW i \in 1..c, NEW j \in 1..c, q[i] = q[j], i # j PROVE FALSE
    <3>1. CertIndex(q[i]) < CertIndex(q[j]) \/ CertIndex(q[j]) < CertIndex(q[i])
      BY <1>4, <1>5, <2>1
    <3>2. PICK k : k = CertIndex(q[i])
      OBVIOUS
    <3>3. k \in Int /\ k < k
      BY <1>4, <1>10, <2>1, <3>1, <3>2, CertAssumption
    <3> QED BY <3>3
  <2> QED BY <2>1
<1>12. \A i \in 1..(c - 1) : CertIndex(tups[i].key) < CertIndex(tups[i + 1].key)
  <2>1. ASSUME NEW i \in 1..(c - 1) PROVE CertIndex(tups[i].key) < CertIndex(tups[i + 1].key)
    <3>1. i \in 1..c /\ i + 1 \in 1..c /\ i < i + 1
      BY <1>4
    <3> QED BY <1>5, <1>9, <3>1
  <2> QED BY <2>1
<1>13. {tups[i].key : i \in 1..Len(tups)} = D
  <2>1. \A i \in 1..Len(tups) : tups[i].key \in D
    BY <1>4, <1>8, <1>9
  <2>2. \A n \in D : \E i \in 1..Len(tups) : tups[i].key = n
    BY <1>5, <1>8, <1>9
  <2> QED BY <2>1, <2>2
<1>14. ASSUME NEW n \in D PROVE TupleValue(tups[CHOOSE i \in 1..Len(tups) : tups[i].key = n].val) = opts[n]
  <2>1. PICK k : k = CHOOSE i \in 1..Len(tups) : tups[i].key = n
    OBVIOUS
  <2>2. \E i \in 1..Len(tups) : tups[i].key = n
    BY <1>5, <1>8, <1>9
  <2>3. k \in 1..c /\ tups[k].key = n
    BY <1>8, <2>1, <2>2
  <2>4. tups[k].val = MarshalValue(opts[n])
    BY <1>9, <2>3
  <2>5. TupleValue(MarshalValue(opts[n])) = opts[n]
    BY DEF TupleValue, MarshalValue
  <2> QED BY <2>1, <2>4, <2>5
<1>15. \A i \in 1..(Len(tups) - 1) : CertIndex(tups[i].key) < CertIndex(tups[i + 1].key)
  BY <1>8, <1>12
<1>16. ParseTuples(tups) = [n \in {tups[i].key : i \in 1..Len(tups)} |->
                              TupleValue(tups[CHOOSE i \in 1..Len(tups) : tups[i].key = n].val)]
  BY <1>15, Zenon DEF ParseTuples
<1>17. ParseTuples(tups) = [n \in D |-> opts[n]]
  BY <1>13, <1>14, <1>16
<1> QED BY <1>6, <1>17

(* A certificate has all its fields, its time stamps are unsigned numbers   *)
(* of their width, its options have names that are known.                   *)
CertFields == {"ctype", "principal", "after", "before", "serial", "key", "nonce", "opts", "authority", "seal"}
OptionMaps == UNION {[D -> {"", "v"}] : D \in SUBSET Upto(Len(CertOptions))}
CertShape(c) ==
    DOMAIN c = CertFields /\ c.after \in 0..CertInfinity /\ c.before \in 0..CertInfinity /\ c.opts \in OptionMaps

(* What the checker said stands for the certificate and the clock as they   *)
(* are, since neither changes after that.                                   *)
Verdict ==
    /\ ctStage # "presented" => ctResult.ok = FALSE
    /\ ctStage = "presented" =>
         /\ ctResult.as \in {"user", "host"}
         /\ ctResult.ok <=> IF ctResult.as = "user" THEN AuthenticateCert(ctResult.for, ctCert, ctTime)
                            ELSE CheckHostCert(ctResult.for, ctCert, ctTime)

CertInv == ctTime \in CertTimes /\ CertShape(ctCert) /\ Verdict

LEMMA CertInitInv == CertInit => CertInv
<1>1. SUFFICES ASSUME CertInit PROVE CertInv
  OBVIOUS
<1>2. ctCert \in CertsMade
  BY <1>1 DEF CertInit
<1>3. ctCert.after \in CertAfters /\ ctCert.before \in CertBefores /\ DOMAIN ctCert = CertFields /\ ctCert.opts \in CertMaps
  <2>1. DOMAIN ctCert = CertFields
    BY <1>2 DEF CertsMade, CertFields
  <2> QED BY <1>2, <2>1 DEF CertsMade
<1>4. ctCert.opts \in OptionMaps
  <2>1. PICK os \in CertOptionSets : ctCert.opts \in [os -> {"", "v"}]
    BY <1>3 DEF CertMaps
  <2>2. os \subseteq Upto(Len(CertOptions))
    BY CertAssumption DEF Upto
  <2> QED BY <2>1, <2>2 DEF OptionMaps
<1>5. CertShape(ctCert)
  BY <1>3, <1>4, CertAssumption DEF CertShape, CertInfinity
<1>6. ctTime \in CertTimes /\ Verdict
  BY <1>1 DEF CertInit, Verdict
<1> QED BY <1>5, <1>6 DEF CertInv

(* SignCert writes the nonce, the authority and the seal, and nothing else. *)
LEMMA SignKeepsShape == ASSUME NEW auth, CertShape(ctCert), SignCert(auth) PROVE CertShape(ctCert')
<1>1. DOMAIN ctCert = CertFields
  BY DEF CertShape
<1>2. PICK c, x : ctCert' = [c EXCEPT !.seal = x] /\ c = [ctCert EXCEPT !.nonce = 1, !.authority = auth]
  BY DEF SignCert
<1>3. DOMAIN c = CertFields /\ c.after = ctCert.after /\ c.before = ctCert.before /\ c.opts = ctCert.opts
  BY <1>1, <1>2 DEF CertFields
<1>4. DOMAIN ctCert' = CertFields /\ ctCert'.after = c.after /\ ctCert'.before = c.before /\ ctCert'.opts = c.opts
  BY <1>2, <1>3 DEF CertFields
<1> QED BY <1>3, <1>4 DEF CertShape

(* A changed certificate is still one.                                      *)
LEMMA ChangeKeepsShape == ASSUME CertShape(ctCert), NEW c \in CertChanged(ctCert) PROVE CertShape(c)
<1>1. DOMAIN ctCert = CertFields
  BY DEF CertShape
<1>2. CASE \E p : c = [ctCert EXCEPT !.principal = p]
  <2>1. DOMAIN c = CertFields /\ c.after = ctCert.after /\ c.before = ctCert.before /\ c.opts = ctCert.opts
    BY <1>1, <1>2 DEF CertFields
  <2> QED BY <2>1 DEF CertShape
<1>3. CASE c = [ctCert EXCEPT !.before = CertInfinity]
  <2>1. DOMAIN c = CertFields /\ c.after = ctCert.after /\ c.before = CertInfinity /\ c.opts = ctCert.opts
    BY <1>1, <1>3 DEF CertFields
  <2>2. CertInfinity \in 0..CertInfinity
    BY CertAssumption DEF CertInfinity
  <2> QED BY <2>1, <2>2 DEF CertShape
<1>4. CASE c = [ctCert EXCEPT !.authority = "ca"]
  <2>1. DOMAIN c = CertFields /\ c.after = ctCert.after /\ c.before = ctCert.before /\ c.opts = ctCert.opts
    BY <1>1, <1>4 DEF CertFields
  <2> QED BY <2>1 DEF CertShape
<1>5. CASE c = [ctCert EXCEPT !.opts = [o \in {} |-> ""]]
  <2>1. DOMAIN c = CertFields /\ c.after = ctCert.after /\ c.before = ctCert.before /\ c.opts = [o \in {} |-> ""]
    BY <1>1, <1>5 DEF CertFields
  <2>2. [o \in {} |-> ""] \in [{} -> {"", "v"}] /\ {} \in SUBSET Upto(Len(CertOptions))
    OBVIOUS
  <2>3. [o \in {} |-> ""] \in OptionMaps
    BY <2>2 DEF OptionMaps
  <2> QED BY <2>1, <2>3 DEF CertShape
<1>6. CASE c = [ctCert EXCEPT !.key = "k2"]
  <2>1. DOMAIN c = CertFields /\ c.after = ctCert.after /\ c.before = ctCert.before /\ c.opts = ctCert.opts
    BY <1>1, <1>6 DEF CertFields
  <2> QED BY <2>1 DEF CertShape
<1> QED BY <1>2, <1>3, <1>4, <1>5, <1>6 DEF CertChanged

LEMMA CertNextInv == CertInv /\ [CertNext]_certVars => CertInv'
<1>1. SUFFICES ASSUME CertInv, [CertNext]_certVars PROVE CertInv'
  OBVIOUS
<1>2. ctTime \in CertTimes /\ CertShape(ctCert) /\ Verdict
  BY <1>1 DEF CertInv
<1>3. ASSUME NEW auth \in CertAuthorities, SignCert(auth) PROVE CertInv'
  <2>1. ctStage' = "signed" /\ ctTime' = ctTime /\ ctResult' = ctResult /\ ctResult.ok = FALSE
    BY <1>2, <1>3 DEF SignCert, Verdict
  <2> QED BY <1>2, <1>3, <2>1, SignKeepsShape DEF CertInv, Verdict
<1>4. ASSUME NEW c \in CertChanged(ctCert), ChangeCert(c) PROVE CertInv'
  <2>1. ctStage' = "changed" /\ ctTime' = ctTime /\ ctResult' = ctResult /\ ctResult.ok = FALSE /\ ctCert' = c
    BY <1>2, <1>4 DEF ChangeCert, Verdict
  <2> QED BY <1>2, <2>1, ChangeKeepsShape DEF CertInv, Verdict
<1>5. ASSUME NEW as \in {"user", "host"}, NEW who \in CertNames, PresentCert(as, who) PROVE CertInv'
  <2>1. ctStage' = "presented" /\ ctTime' = ctTime /\ ctCert' = ctCert
    BY <1>5 DEF PresentCert
  <2>2. /\ ctResult'.as = as /\ ctResult'.for = who
        /\ ctResult'.ok <=> IF as = "user" THEN AuthenticateCert(who, ctCert, ctTime)
                            ELSE CheckHostCert(who, ctCert, ctTime)
    BY <1>5 DEF PresentCert
  <2>3. Verdict'
    BY <2>1, <2>2 DEF Verdict
  <2> QED BY <1>2, <2>1, <2>3 DEF CertInv
<1>6. CASE UNCHANGED certVars
  BY <1>2, <1>6 DEF certVars, CertInv, Verdict
<1> QED BY <1>1, <1>3, <1>4, <1>5, <1>6 DEF CertNext

(* An int64 that is not negative is the unsigned number itself.             *)
LEMMA Int64Value ==
    ASSUME NEW x \in 0..CertInfinity
    PROVE  (Int64(x) >= 0 <=> x < CertHalf) /\ (x < CertHalf => Int64(x) = x)
BY CertAssumption DEF Int64, CertInfinity

LEMMA CertCheckedFollows == CertInv => CertChecked
<1>1. SUFFICES ASSUME CertInv PROVE CertChecked
  OBVIOUS
<1>2. ctTime \in CertTimes /\ CertShape(ctCert) /\ Verdict
  BY <1>1 DEF CertInv
<1>3. PICK a, b : a = ctCert.after /\ b = ctCert.before
  OBVIOUS
<1>4. a \in 0..CertInfinity /\ b \in 0..CertInfinity
  BY <1>2, <1>3 DEF CertShape
<1>5. CertInTime(ctCert, ctTime) <=> a <= ctTime /\ ctTime < b /\ (b < CertHalf \/ b = CertInfinity)
  <2>1. ctTime \in Nat /\ ctTime < CertHalf /\ CertHalf \in Nat /\ CertHalf <= CertInfinity
    BY <1>2, CertAssumption DEF CertTimes, CertInfinity
  <2>2. CertInTime(ctCert, ctTime) <=> /\ a < CertHalf /\ ctTime >= a
                                       /\ b = CertInfinity \/ (ctTime < b /\ b < CertHalf)
    <3>1. /\ (Int64(a) >= 0 <=> a < CertHalf) /\ (a < CertHalf => Int64(a) = a)
          /\ (Int64(b) >= 0 <=> b < CertHalf) /\ (b < CertHalf => Int64(b) = b)
      BY <1>4, Int64Value
    <3>2. CertInTime(ctCert, ctTime) <=> /\ Int64(a) >= 0 /\ ctTime >= Int64(a)
                                         /\ b = CertInfinity \/ (ctTime < Int64(b) /\ Int64(b) >= 0)
      BY <1>3 DEF CertInTime
    <3> QED BY <3>1, <3>2
  <2> QED BY <1>4, <2>1, <2>2
<1>6. CertSound
  <2>1. SUFFICES ASSUME ctResult.ok PROVE CertSound
    BY DEF CertSound
  <2>2. /\ ctStage = "presented" /\ ctCert.ctype = ctResult.as /\ ctCert.authority = "ca"
        /\ CheckCert(ctResult.for, ctCert, ctTime)
    BY <1>2, <2>1 DEF Verdict, AuthenticateCert, CheckHostCert
  <2> QED BY <1>3, <1>5, <2>2 DEF CertSound, CheckCert, CertVerifies
<1>7. CertComplete
  <2>1. SUFFICES ASSUME ctStage = "presented", ctCert.seal.by = "ca", ctCert.authority = "ca",
                        ctCert.seal.over = SignedBytes(ctCert), ctCert.ctype = ctResult.as,
                        ctCert.principal \in {"any", ctResult.for}, ctCert.after <= ctTime, ctTime < ctCert.before,
                        ctCert.before < CertHalf \/ ctCert.before = CertInfinity,
                        DOMAIN ctCert.opts \subseteq CertSupported, ctCert.serial \notin CertRevoked
                 PROVE  ctResult.ok
    BY DEF CertComplete
  <2>2. CertInTime(ctCert, ctTime)
    BY <1>3, <1>5, <2>1
  <2>3. CheckCert(ctResult.for, ctCert, ctTime)
    BY <2>1, <2>2 DEF CheckCert, CertVerifies
  <2> QED BY <1>2, <2>1, <2>3 DEF Verdict, AuthenticateCert, CheckHostCert
<1>8. CertOptionsRoundTrip
  <2>1. PICK D \in SUBSET Upto(Len(CertOptions)) : ctCert.opts \in [D -> {"", "v"}]
    BY <1>2 DEF CertShape, OptionMaps
  <2> QED BY <2>1, RoundTrip DEF CertOptionsRoundTrip
<1> QED BY <1>6, <1>7, <1>8 DEF CertChecked

(* CertChecker, for any width of the time stamps, any options, names and    *)
(* revoked serial numbers: a certificate is accepted for a user or a host   *)
(* only when the trusted authority signed it with exactly these contents,   *)
(* for that kind of peer and that name, and its time stamps enclose the     *)
(* present; one of which all that is true is accepted; and the options that *)
(* are read are those that were written.                                    *)
THEOREM CertificatesAreChecked == CertSpec => []CertChecked
<1>1. CertSpec => []CertInv
  BY CertInitInv, CertNextInv, PTL DEF CertSpec
<1> QED BY <1>1, CertCheckedFollows, PTL

------------------------------------------------------------------------------
(* Patterns of known_hosts.                                                 *)

(* Letter i of the pattern takes the letters a + 1 to b of the name.        *)
Fits(pat, str, i, a, b) ==
    IF pat[i] = "*" THEN a <= b /\ (i = Len(pat) => a < Len(str))
    ELSE b = a + 1 /\ pat[i] \in {"?", str[b]}

(* Glob, for the pattern from i and the name from j.                        *)
Cuts(pat, str, i) == [i..(Len(pat) + 1) -> 0..Len(str)]
CutFrom(pat, str, i, j, cut) ==
    /\ cut[i] = j - 1 /\ cut[Len(pat) + 1] = Len(str)
    /\ \A e \in i..Len(pat) : Fits(pat, str, e, cut[e], cut[e + 1])
GlobFrom(pat, str, i, j) == \E cut \in Cuts(pat, str, i) : CutFrom(pat, str, i, j, cut)

LEMMA GlobIsFrom ==
    ASSUME NEW pat \in Seq(STRING), NEW str \in Seq(STRING)
    PROVE  Glob(pat, str) <=> GlobFrom(pat, str, 1, 1)
<1>1. 1 - 1 = 0
  OBVIOUS
<1> QED BY <1>1 DEF Glob, GlobFrom, Cuts, CutFrom, Fits

(* A cut is one for the first letter and one for the rest.                  *)
LEMMA CutOne ==
    ASSUME NEW pat \in Seq(STRING), NEW str \in Seq(STRING), NEW i \in 1..Len(pat), NEW j \in 1..(Len(str) + 1)
    PROVE  GlobFrom(pat, str, i, j) <=>
             \E k \in 1..(Len(str) + 1) : Fits(pat, str, i, j - 1, k - 1) /\ GlobFrom(pat, str, i + 1, k)
<1>1. PICK n, l : n = Len(pat) /\ l = Len(str)
  OBVIOUS
<1>2. n \in Nat /\ l \in Nat /\ i \in 1..n /\ j \in 1..(l + 1)
  BY <1>1
<1>3. /\ i \in i..(n + 1) /\ i + 1 \in i..(n + 1) /\ i + 1 \in (i + 1)..(n + 1) /\ n + 1 \in (i + 1)..(n + 1) /\ n + 1 \in i..(n + 1)
      /\ i \in i..n /\ (\A e \in (i + 1)..n : e \in i..n /\ e # i /\ e + 1 \in (i + 1)..(n + 1) /\ e + 1 # i)
      /\ (\A e \in i..n : e = i \/ e \in (i + 1)..n)
      /\ (\A e \in i..(n + 1) : e = i \/ e \in (i + 1)..(n + 1))
      /\ (\A e \in (i + 1)..(n + 1) : e \in i..(n + 1) /\ e # i)
      /\ i + 1 # i /\ n + 1 # i /\ j - 1 \in 0..l
  BY <1>2
<1>4. ASSUME GlobFrom(pat, str, i, j)
      PROVE  \E k \in 1..(l + 1) : Fits(pat, str, i, j - 1, k - 1) /\ GlobFrom(pat, str, i + 1, k)
  <2>1. PICK cut \in [i..(n + 1) -> 0..l] :
          /\ cut[i] = j - 1 /\ cut[n + 1] = l /\ \A e \in i..n : Fits(pat, str, e, cut[e], cut[e + 1])
    BY <1>1, <1>4 DEF GlobFrom, Cuts, CutFrom
  <2>2. PICK c \in 0..l : c = cut[i + 1]
    BY <1>3
  <2>3. PICK k : k = c + 1
    OBVIOUS
  <2>4. k \in 1..(l + 1) /\ k - 1 = c
    BY <1>2, <2>3
  <2>5. Fits(pat, str, i, j - 1, k - 1)
    BY <1>3, <2>1, <2>2, <2>4
  <2>6. PICK rest : rest = [e \in (i + 1)..(n + 1) |-> cut[e]]
    OBVIOUS
  <2>7. rest \in [(i + 1)..(n + 1) -> 0..l]
    BY <1>3, <2>6
  <2>8. rest[i + 1] = k - 1 /\ rest[n + 1] = l
    BY <1>3, <2>1, <2>2, <2>4, <2>6
  <2>9. ASSUME NEW e \in (i + 1)..n PROVE Fits(pat, str, e, rest[e], rest[e + 1])
    <3>1. e \in (i + 1)..(n + 1)
      BY <1>2
    <3>2. rest[e] = cut[e] /\ rest[e + 1] = cut[e + 1]
      BY <1>3, <2>6, <3>1
    <3> QED BY <1>3, <2>1, <3>2
  <2>10. GlobFrom(pat, str, i + 1, k)
    BY <1>1, <2>7, <2>8, <2>9 DEF GlobFrom, Cuts, CutFrom
  <2> QED BY <2>4, <2>5, <2>10
<1>5. ASSUME NEW k \in 1..(l + 1), Fits(pat, str, i, j - 1, k - 1), GlobFrom(pat, str, i + 1, k)
      PROVE  GlobFrom(pat, str, i, j)
  <2>1. PICK rest \in [(i + 1)..(n + 1) -> 0..l] :
          /\ rest[i + 1] = k - 1 /\ rest[n + 1] = l /\ \A e \in (i + 1)..n : Fits(pat, str, e, rest[e], rest[e + 1])
    BY <1>1, <1>5 DEF GlobFrom, Cuts, CutFrom
  <2>2. PICK cut : cut = [e \in i..(n + 1) |-> IF e = i THEN j - 1 ELSE rest[e]]
    OBVIOUS
  <2>3. \A e \in (i + 1)..(n + 1) : cut[e] = rest[e]
    BY <1>3, <2>2
  <2>4. cut[i] = j - 1
    BY <1>3, <2>2
  <2>5. cut \in [i..(n + 1) -> 0..l]
    BY <1>3, <2>1, <2>2
  <2>6. cut[n + 1] = l /\ cut[i + 1] = k - 1
    BY <1>3, <2>1, <2>3
  <2>7. ASSUME NEW e \in i..n PROVE Fits(pat, str, e, cut[e], cut[e + 1])
    <3>1. CASE e = i
      BY <1>5, <2>4, <2>6, <3>1
    <3>2. CASE e \in (i + 1)..n
      <4>1. e \in (i + 1)..(n + 1) /\ e + 1 \in (i + 1)..(n + 1)
        BY <1>2, <3>2
      <4> QED BY <2>1, <2>3, <3>2, <4>1
    <3> QED BY <1>3, <3>1, <3>2
  <2> QED BY <1>1, <2>4, <2>5, <2>6, <2>7 DEF GlobFrom, Cuts, CutFrom
<1> QED BY <1>1, <1>4, <1>5

(* One letter of the pattern: the positions from which the rest matches     *)
(* give the positions from which all of it does.                            *)
GlobTail(pat, str, d) == {j \in 1..(Len(str) + 1) : GlobFrom(pat, str, Len(pat) + 1 - d, j)}

LEMMA TailNone ==
    ASSUME NEW pat \in Seq(STRING), NEW str \in Seq(STRING)
    PROVE  GlobTail(pat, str, 0) = {Len(str) + 1}
<1>1. PICK n, l : n = Len(pat) /\ l = Len(str)
  OBVIOUS
<1>2. n \in Nat /\ l \in Nat
  BY <1>1
<1>3. n + 1 - 0 = n + 1 /\ (n + 1)..n = {} /\ (n + 1)..(n + 1) = {n + 1}
  BY <1>2
<1>4. ASSUME NEW j \in 1..(l + 1) PROVE GlobFrom(pat, str, n + 1, j) <=> j = l + 1
  <2>1. ASSUME GlobFrom(pat, str, n + 1, j) PROVE j = l + 1
    <3>1. l = j - 1
      BY <1>1, <2>1 DEF GlobFrom, CutFrom
    <3> QED BY <1>2, <3>1
  <2>2. ASSUME j = l + 1 PROVE GlobFrom(pat, str, n + 1, j)
    <3>1. PICK cut : cut = [e \in (n + 1)..(n + 1) |-> l]
      OBVIOUS
    <3>2. cut \in [(n + 1)..(n + 1) -> 0..l] /\ cut[n + 1] = l /\ l = j - 1
      BY <1>2, <1>3, <2>2, <3>1
    <3> QED BY <1>1, <1>3, <3>2 DEF GlobFrom, CutFrom, Cuts
  <2> QED BY <2>1, <2>2
<1>5. l + 1 \in 1..(l + 1)
  BY <1>2
<1> QED BY <1>1, <1>3, <1>4, <1>5 DEF GlobTail

(* Letters of a pattern never match an empty rest of the name, "*" included.*)
LEMMA NotEmpty ==
    ASSUME NEW pat \in Seq(STRING), NEW str \in Seq(STRING), NEW i \in 1..Len(pat)
    PROVE  ~GlobFrom(pat, str, i, Len(str) + 1)
<1>1. PICK n, l : n = Len(pat) /\ l = Len(str)
  OBVIOUS
<1>2. n \in Nat /\ l \in Nat /\ i \in 1..n /\ l + 1 \in 1..(l + 1) /\ l + 1 - 1 = l
  BY <1>1
<1>3. ASSUME NEW e \in 1..n, GlobFrom(pat, str, e, l + 1)
      PROVE  e # n /\ GlobFrom(pat, str, e + 1, l + 1)
  <2>1. PICK k \in 1..(l + 1) : Fits(pat, str, e, l, k - 1) /\ GlobFrom(pat, str, e + 1, k)
    <3>1. \E k \in 1..(l + 1) : Fits(pat, str, e, l + 1 - 1, k - 1) /\ GlobFrom(pat, str, e + 1, k)
      BY <1>1, <1>2, <1>3, CutOne
    <3> QED BY <1>2, <3>1
  <2>2. CASE pat[e] = "*"
    <3>1. l <= k - 1 /\ (e = n => l < l)
      BY <1>1, <2>1, <2>2 DEF Fits
    <3>2. k = l + 1 /\ e # n
      BY <1>2, <3>1
    <3> QED BY <2>1, <3>2
  <2>3. CASE pat[e] # "*"
    <3>1. k - 1 = l + 1
      BY <2>1, <2>3 DEF Fits
    <3> QED BY <1>2, <3>1
  <2> QED BY <2>2, <2>3
<1> DEFINE S == {d \in Nat : i + d <= n => GlobFrom(pat, str, i + d, l + 1)}
<1>4. ASSUME GlobFrom(pat, str, i, l + 1) PROVE FALSE
  <2>1. 0 \in S
    <3>1. i + 0 = i
      BY <1>2
    <3> QED BY <1>4, <3>1
  <2>2. ASSUME NEW d \in S PROVE d + 1 \in S
    <3>1. d \in Nat /\ d + 1 \in Nat /\ i + (d + 1) = (i + d) + 1
      BY <1>2
    <3>2. ASSUME i + (d + 1) <= n PROVE GlobFrom(pat, str, i + (d + 1), l + 1)
      <4>1. i + d \in 1..n /\ i + d <= n
        BY <1>2, <3>1, <3>2
      <4>2. GlobFrom(pat, str, i + d, l + 1)
        BY <4>1
      <4> QED BY <1>3, <3>1, <4>1, <4>2
    <3> QED BY <3>1, <3>2
  <2>3. S \subseteq Nat /\ \A d \in S : d + 1 \in S
    BY <2>2
  <2>4. S = Nat
    BY <2>1, <2>3, SetInduction
  <2>5. n - i \in Nat /\ i + (n - i) = n /\ n <= n /\ n \in 1..n
    BY <1>2
  <2>6. n - i \in S
    BY <2>4, <2>5
  <2>7. GlobFrom(pat, str, n, l + 1)
    BY <2>5, <2>6
  <2> QED BY <1>3, <2>5, <2>7
<1> QED BY <1>1, <1>4

LEMMA TailOne ==
    ASSUME NEW pat \in Seq(STRING), NEW str \in Seq(STRING), NEW d \in 1..Len(pat)
    PROVE  GlobTail(pat, str, d) = MatchTail(pat, str, d, GlobTail(pat, str, d - 1))
<1>1. PICK n, l, i : n = Len(pat) /\ l = Len(str) /\ i = n + 1 - d
  OBVIOUS
<1>2. n \in Nat /\ l \in Nat /\ d \in 1..n /\ i \in 1..n /\ n - d + 1 = i /\ n + 1 - (d - 1) = i + 1
      /\ (d = 1 <=> i = n) /\ (d # 1 => i + 1 \in 1..n)
  BY <1>1
<1>3. PICK rest : rest = GlobTail(pat, str, d - 1)
  OBVIOUS
<1>4. rest \subseteq 1..(l + 1) /\ \A k \in 1..(l + 1) : k \in rest <=> GlobFrom(pat, str, i + 1, k)
  BY <1>1, <1>2, <1>3 DEF GlobTail
<1>5. d # 1 => l + 1 \notin rest
  BY <1>1, <1>2, <1>4, NotEmpty
<1>6. d = 1 => rest = {l + 1}
  <2>1. d = 1 => d - 1 = 0
    OBVIOUS
  <2> QED BY <1>1, <1>3, <2>1, TailNone
<1>7. ASSUME NEW j \in 1..(l + 1)
      PROVE  GlobFrom(pat, str, i, j) <=> \E k \in rest : Fits(pat, str, i, j - 1, k - 1)
  BY <1>1, <1>2, <1>4, CutOne
<1> DEFINE Here(j) == IF pat[i] = "*" THEN d = 1 \/ \E k \in j..l : k \in rest
                      ELSE pat[i] \in {"?", str[j]} /\ j + 1 \in rest
<1>8. ASSUME NEW j \in 1..(l + 1), GlobFrom(pat, str, i, j) PROVE j \in 1..l /\ Here(j)
  <2>1. PICK k \in rest : Fits(pat, str, i, j - 1, k - 1)
    BY <1>7, <1>8
  <2>2. k \in 1..(l + 1)
    BY <1>4
  <2>3. CASE pat[i] = "*" /\ d = 1
    <3>1. j - 1 < l
      BY <1>1, <1>2, <2>1, <2>3 DEF Fits
    <3>2. j \in 1..l
      BY <1>2, <3>1
    <3> QED BY <2>3, <3>2
  <2>4. CASE pat[i] = "*" /\ d # 1
    <3>1. j - 1 <= k - 1 /\ k # l + 1
      BY <1>5, <2>1, <2>4 DEF Fits
    <3>2. j \in 1..l /\ k \in j..l
      BY <1>2, <2>2, <3>1
    <3> QED BY <2>4, <3>2
  <2>5. CASE pat[i] # "*"
    <3>1. k - 1 = j - 1 + 1 /\ pat[i] \in {"?", str[k - 1]}
      BY <2>1, <2>5 DEF Fits
    <3>2. k = j + 1 /\ k - 1 = j /\ j \in 1..l
      BY <1>2, <2>2, <3>1
    <3> QED BY <2>5, <3>1, <3>2
  <2> QED BY <2>3, <2>4, <2>5
<1>9. ASSUME NEW j \in 1..l, Here(j) PROVE j \in 1..(l + 1) /\ GlobFrom(pat, str, i, j)
  <2>1. j \in 1..(l + 1)
    BY <1>2
  <2>2. CASE pat[i] = "*" /\ d = 1
    <3>1. PICK k : k = l + 1
      OBVIOUS
    <3>2. k \in rest /\ j - 1 <= k - 1 /\ j - 1 < l
      BY <1>2, <1>6, <2>2, <3>1
    <3>3. Fits(pat, str, i, j - 1, k - 1)
      BY <1>1, <2>2, <3>2 DEF Fits
    <3> QED BY <1>7, <2>1, <3>2, <3>3
  <2>3. CASE pat[i] = "*" /\ d # 1
    <3>1. PICK k \in j..l : k \in rest
      BY <1>9, <2>3
    <3>2. j - 1 <= k - 1 /\ i # n
      BY <1>2, <2>3
    <3>3. Fits(pat, str, i, j - 1, k - 1)
      BY <1>1, <2>3, <3>2 DEF Fits
    <3> QED BY <1>7, <2>1, <3>1, <3>3
  <2>4. CASE pat[i] # "*"
    <3>1. pat[i] \in {"?", str[j]} /\ j + 1 \in rest
      BY <1>9, <2>4
    <3>2. j + 1 - 1 = j /\ j + 1 - 1 = j - 1 + 1
      OBVIOUS
    <3>3. Fits(pat, str, i, j - 1, j + 1 - 1)
      BY <2>4, <3>1, <3>2 DEF Fits
    <3> QED BY <1>7, <2>1, <3>1, <3>3
  <2> QED BY <2>2, <2>3, <2>4
<1>10. GlobTail(pat, str, d) = {j \in 1..(l + 1) : GlobFrom(pat, str, i, j)}
  BY <1>1 DEF GlobTail
<1>11. MatchTail(pat, str, d, rest) = {j \in 1..l : Here(j)}
  BY <1>1, <1>2 DEF MatchTail
<1> HIDE DEF Here
<1>12. GlobTail(pat, str, d) = MatchTail(pat, str, d, rest)
  BY <1>8, <1>9, <1>10, <1>11
<1> QED BY <1>3, <1>12

(* wildcardMatch decides Glob.                                              *)
IsFrom(pat, str, f) == f = [d \in 0..Len(pat) |-> IF d = 0 THEN {Len(str) + 1} ELSE MatchTail(pat, str, d, f[d - 1])]
LEMMA MatchIsGlob ==
    ASSUME NEW pat \in Seq(STRING), NEW str \in Seq(STRING)
    PROVE  WildcardMatch(pat, str) <=> Glob(pat, str)
<1>1. PICK n, l : n = Len(pat) /\ l = Len(str)
  OBVIOUS
<1>2. n \in Nat /\ l \in Nat
  BY <1>1
<1>3. PICK w : w = [d \in 0..n |-> GlobTail(pat, str, d)]
  OBVIOUS
<1>4. \A d \in 0..n : d # 0 => d \in 1..n /\ d - 1 \in 0..n
  BY <1>2
<1>5. IsFrom(pat, str, w)
  <2>1. ASSUME NEW d \in 0..n PROVE GlobTail(pat, str, d) = IF d = 0 THEN {l + 1} ELSE MatchTail(pat, str, d, w[d - 1])
    <3>1. CASE d = 0
      BY <1>1, <3>1, TailNone
    <3>2. CASE d # 0
      <4>1. d \in 1..n /\ w[d - 1] = GlobTail(pat, str, d - 1)
        BY <1>3, <1>4, <3>2
      <4> QED BY <1>1, <3>2, <4>1, TailOne
    <3> QED BY <3>1, <3>2
  <2> QED BY <1>1, <1>3, <2>1 DEF IsFrom
<1>6. PICK f : f = CHOOSE g : IsFrom(pat, str, g)
  OBVIOUS
<1>7. IsFrom(pat, str, f)
  BY <1>5, <1>6
<1>8. WildcardMatch(pat, str) <=> 1 \in f[n]
  BY <1>1, <1>6 DEF WildcardMatch, IsFrom
<1>9. \A d \in 0..n : f[d] = w[d]
  <2> DEFINE S == {d \in Nat : d <= n => f[d] = w[d]}
  <2>1. ASSUME NEW g, IsFrom(pat, str, g)
        PROVE  (0 \in 0..n => g[0] = {l + 1}) /\ \A d \in 0..n : d # 0 => g[d] = MatchTail(pat, str, d, g[d - 1])
    <3>1. g = [d \in 0..n |-> IF d = 0 THEN {l + 1} ELSE MatchTail(pat, str, d, g[d - 1])]
      BY <1>1, <2>1 DEF IsFrom
    <3>2. \A d \in 0..n : g[d] = IF d = 0 THEN {l + 1} ELSE MatchTail(pat, str, d, g[d - 1])
      BY <3>1, Zenon
    <3> QED BY <3>2
  <2>2. 0 \in S
    <3>1. 0 \in 0..n
      BY <1>2
    <3>2. f[0] = {l + 1} /\ w[0] = {l + 1}
      BY <1>5, <1>7, <2>1, <3>1
    <3> QED BY <3>2
  <2>3. ASSUME NEW d \in S PROVE d + 1 \in S
    <3>1. d \in Nat /\ d + 1 \in Nat /\ d + 1 # 0 /\ d + 1 - 1 = d
      OBVIOUS
    <3>2. ASSUME d + 1 <= n PROVE f[d + 1] = w[d + 1]
      <4>1. d + 1 \in 0..n /\ d <= n
        BY <1>2, <3>1, <3>2
      <4>2. f[d + 1] = MatchTail(pat, str, d + 1, f[d]) /\ w[d + 1] = MatchTail(pat, str, d + 1, w[d])
        <5>1. /\ f[d + 1] = MatchTail(pat, str, d + 1, f[d + 1 - 1])
              /\ w[d + 1] = MatchTail(pat, str, d + 1, w[d + 1 - 1])
          BY <1>5, <1>7, <2>1, <3>1, <4>1
        <5> QED BY <3>1, <5>1, Zenon
      <4> QED BY <4>1, <4>2
    <3> QED BY <3>1, <3>2
  <2>4. S \subseteq Nat /\ \A d \in S : d + 1 \in S
    BY <2>3
  <2>5. S = Nat
    BY <2>2, <2>4, SetInduction
  <2>6. ASSUME NEW d \in 0..n PROVE f[d] = w[d]
    <3>1. d \in Nat /\ d <= n
      BY <1>2
    <3>2. d \in S
      BY <2>5, <3>1
    <3> QED BY <3>1, <3>2
  <2> QED BY <2>6
<1>10. f[n] = GlobTail(pat, str, n)
  <2>1. n \in 0..n
    BY <1>2
  <2> QED BY <1>3, <1>9, <2>1
<1>11. 1 \in GlobTail(pat, str, n) <=> GlobFrom(pat, str, 1, 1)
  <2>1. 1 \in 1..(l + 1) /\ n + 1 - n = 1
    BY <1>2
  <2> QED BY <1>1, <2>1 DEF GlobTail
<1> QED BY <1>8, <1>10, <1>11, GlobIsFrom

(* A pattern without "*" and "?" matches itself only.                       *)
LEMMA LiteralMatch ==
    ASSUME NEW pat \in Seq(STRING), NEW str \in Seq(STRING), \A i \in 1..Len(pat) : pat[i] \notin {"*", "?"}
    PROVE  WildcardMatch(pat, str) <=> str = pat
<1>1. PICK n, l : n = Len(pat) /\ l = Len(str)
  OBVIOUS
<1>2. n \in Nat /\ l \in Nat
  BY <1>1
<1>3. Glob(pat, str) <=> \E cut \in [1..(n + 1) -> 0..l] :
        cut[1] = 0 /\ cut[n + 1] = l /\ \A i \in 1..n : cut[i + 1] = cut[i] + 1 /\ pat[i] = str[cut[i + 1]]
  BY <1>1 DEF Glob
<1>4. ASSUME Glob(pat, str) PROVE str = pat
  <2>1. PICK cut \in [1..(n + 1) -> 0..l] :
          cut[1] = 0 /\ cut[n + 1] = l /\ \A i \in 1..n : cut[i + 1] = cut[i] + 1 /\ pat[i] = str[cut[i + 1]]
    BY <1>3, <1>4
  <2> DEFINE S == {d \in Nat : d <= n => cut[d + 1] = d}
  <2>2. 0 \in S
    <3>1. 0 + 1 = 1
      OBVIOUS
    <3> QED BY <2>1, <3>1
  <2>3. ASSUME NEW d \in S PROVE d + 1 \in S
    <3>1. d \in Nat /\ d + 1 \in Nat
      OBVIOUS
    <3>2. ASSUME d + 1 <= n PROVE cut[d + 1 + 1] = d + 1
      <4>1. d <= n /\ d + 1 \in 1..n
        BY <1>2, <3>1, <3>2
      <4>2. cut[d + 1 + 1] = cut[d + 1] + 1
        BY <2>1, <4>1
      <4> QED BY <4>1, <4>2
    <3> QED BY <3>1, <3>2
  <2>4. S \subseteq Nat /\ \A d \in S : d + 1 \in S
    BY <2>3
  <2>5. S = Nat
    BY <2>2, <2>4, SetInduction
  <2>6. \A d \in Nat : d <= n => cut[d + 1] = d
    <3>1. ASSUME NEW d \in Nat, d <= n PROVE cut[d + 1] = d
      <4>1. d \in S
        BY <2>5
      <4> QED BY <3>1, <4>1
    <3> QED BY <3>1
  <2>7. n = l
    <3>1. n <= n
      BY <1>2
    <3> QED BY <1>2, <2>1, <2>6, <3>1
  <2>8. ASSUME NEW i \in 1..n PROVE pat[i] = str[i]
    <3>1. i \in Nat /\ i <= n
      BY <1>2
    <3>2. cut[i + 1] = i
      BY <2>6, <3>1
    <3> QED BY <2>1, <3>2
  <2>9. Len(pat) = Len(str) /\ \A i \in 1..Len(pat) : pat[i] = str[i]
    BY <1>1, <2>7, <2>8
  <2> QED BY <2>9
<1>5. ASSUME str = pat PROVE Glob(pat, str)
  <2>1. PICK cut : cut = [i \in 1..(n + 1) |-> i - 1]
    OBVIOUS
  <2>2. n = l
    BY <1>1, <1>5
  <2>3. cut \in [1..(n + 1) -> 0..l]
    BY <1>2, <2>1, <2>2
  <2>4. cut[1] = 0 /\ cut[n + 1] = l
    <3>1. 1 \in 1..(n + 1) /\ n + 1 \in 1..(n + 1) /\ 1 - 1 = 0 /\ n + 1 - 1 = n
      BY <1>2
    <3>2. \A e \in 1..(n + 1) : cut[e] = e - 1
      BY <2>1
    <3>3. PICK a, b : a = 1 /\ b = n + 1
      OBVIOUS
    <3>4. cut[a] = a - 1 /\ cut[b] = b - 1 /\ a - 1 = 0 /\ b - 1 = n
      BY <1>2, <3>1, <3>2, <3>3
    <3> QED BY <2>2, <3>3, <3>4, Zenon
  <2>5. ASSUME NEW i \in 1..n PROVE cut[i + 1] = cut[i] + 1 /\ pat[i] = str[cut[i + 1]]
    <3>1. i \in 1..(n + 1) /\ i + 1 \in 1..(n + 1) /\ i + 1 - 1 = i /\ i - 1 + 1 = i
      BY <1>2
    <3>2. cut[i] = i - 1 /\ cut[i + 1] = i + 1 - 1
      BY <2>1, <3>1
    <3> QED BY <1>5, <3>1, <3>2
  <2> QED BY <1>3, <2>3, <2>4, <2>5
<1> QED BY <1>4, <1>5, MatchIsGlob

------------------------------------------------------------------------------
(* The database of known hosts.                                             *)

(* A line matches an address exactly when it names it.                      *)
LEMMA MatchIsNames ==
    ASSUME NEW l \in KhLines, NEW h \in KhHosts, NEW p
    PROVE  LineMatches(l, h, p) <=> Names(l, h, p)
<1>1. l.pats \in Seq(KhPatterns) /\ (l.hash = <<>> \/ (l.hash = <<l.hash[1], l.hash[2]>> /\ l.pats = <<>>)) /\ h \in Seq(STRING)
  BY KhAssumption
<1>2. CASE l.hash # <<>>
  <2>1. Len(l.pats) = 0 /\ 1..0 = {}
    BY <1>1, <1>2
  <2>2. Names(l, h, p) <=> l.hash[2] = Normalize(h, p)
    BY <1>2, <2>1 DEF Names
  <2>3. LineMatches(l, h, p) <=> <<l.hash[1], Normalize(h, p)>> = l.hash
    BY <1>2 DEF LineMatches, HashHost
  <2>4. PICK s, e, x : s = l.hash[1] /\ e = l.hash[2] /\ x = Normalize(h, p)
    OBVIOUS
  <2>5. l.hash = <<s, e>>
    BY <1>1, <1>2, <2>4
  <2>6. <<s, x>> = <<s, e>> <=> e = x
    OBVIOUS
  <2> QED BY <2>2, <2>3, <2>4, <2>5, <2>6
<1>3. CASE l.hash = <<>>
  <2>1. PICK ps : ps = l.pats
    OBVIOUS
  <2>2. \A i \in 1..Len(ps) : ps[i].host \in Seq(STRING) /\ ps[i].negate \in BOOLEAN
    <3>1. \A i \in 1..Len(ps) : ps[i] \in KhPatterns
      BY <1>1, <2>1
    <3> QED BY <3>1 DEF KhPatterns
  <2>3. \A i \in 1..Len(ps) : WildcardMatch(ps[i].host, h) <=> Glob(ps[i].host, h)
    BY <1>1, <2>2, MatchIsGlob
  <2>4. LineMatches(l, h, p) <=> HostPatternsMatch(ps, h, p)
    BY <1>3, <2>1 DEF LineMatches
  <2>5. HostPatternsMatch(ps, h, p) <=>
          /\ \E i \in 1..Len(ps) : WildcardMatch(ps[i].host, h) /\ ps[i].port = p
          /\ \A i \in 1..Len(ps) : WildcardMatch(ps[i].host, h) /\ ps[i].port = p => ~ps[i].negate
    <3> DEFINE hits == {i \in 1..Len(ps) : WildcardMatch(ps[i].host, h) /\ ps[i].port = p}
    <3>1. HostPatternsMatch(ps, h, p) <=> hits # {} /\ \A i \in hits : ~ps[i].negate
      BY DEF HostPatternsMatch
    <3>2. \A i : i \in hits <=> i \in 1..Len(ps) /\ WildcardMatch(ps[i].host, h) /\ ps[i].port = p
      OBVIOUS
    <3> HIDE DEF hits
    <3> QED BY <3>1, <3>2
  <2>6. Names(l, h, p) <=>
          /\ \E i \in 1..Len(ps) : Glob(ps[i].host, h) /\ ps[i].port = p /\ ~ps[i].negate
          /\ ~\E i \in 1..Len(ps) : Glob(ps[i].host, h) /\ ps[i].port = p /\ ps[i].negate
    BY <1>3, <2>1 DEF Names
  <2> QED BY <2>3, <2>4, <2>5, <2>6
<1> QED BY <1>2, <1>3

(* The database has the lines of the files in their order, without those    *)
(* that revoke keys.                                                        *)
Embeds(db, lines, at) ==
    /\ at \in [1..Len(db) -> 1..Len(lines)] /\ \A i, j \in 1..Len(db) : i < j => at[i] < at[j]
    /\ \A i \in 1..Len(db) : db[i] = lines[at[i]] /\ db[i].marker # "@revoked"
    /\ \A j \in 1..Len(lines) : lines[j].marker \notin {"@revoked", "bad"} => \E i \in 1..Len(db) : at[i] = j
Revokes(lines, k) == \E j \in 1..Len(lines) : lines[j].marker = "@revoked" /\ lines[j].key = k

KhShape ==
    /\ khFile \in Seq(KhLines) /\ khDb \in Seq(KhLines)
    /\ \E at : Embeds(khDb, khFile, at)
    /\ \A k : k \in khRevoked <=> Revokes(khFile, k)
    /\ khSt # "failed" => \A j \in 1..Len(khFile) : khFile[j].marker # "bad"

(* A verdict is about the database as it is, since it is no longer written. *)
KhVerdict(h, p, k) == IF k \in khRevoked THEN "revoked" ELSE CheckAddr(h, p, k)
KhCertVerdict(h, p, k) == IF IsHostAuthority(k, h, p) THEN "certified" ELSE "uncertified"
KhDecided ==
    khResult # KhNoCheck =>
        /\ khSt = "ready" /\ khResult.host \in KhHosts /\ khResult.port \in KhPorts
        /\ \/ khResult.verdict = KhVerdict(khResult.host, khResult.port, khResult.key)
           \/ khResult.verdict = KhCertVerdict(khResult.host, khResult.port, khResult.key)

KhInv == KhShape /\ KhDecided

LEMMA KhInitInv == KhInit => KhInv
<1>1. SUFFICES ASSUME KhInit PROVE KhInv
  OBVIOUS
<1>2. Len(<<>>) = 0 /\ 1..0 = {} /\ <<>> \in Seq(KhLines)
  OBVIOUS
<1>3. PICK at : at = [i \in 1..0 |-> i]
  OBVIOUS
<1>4. at \in [1..0 -> 1..0]
  BY <1>3
<1>5. Embeds(<<>>, <<>>, at)
  BY <1>2, <1>4 DEF Embeds
<1>6. \A k : ~Revokes(<<>>, k)
  BY <1>2 DEF Revokes
<1> QED BY <1>1, <1>2, <1>5, <1>6 DEF KhInit, KhInv, KhShape, KhDecided

(* A line more, that does not go to the database, or does.                  *)
LEMMA AppendFacts ==
    ASSUME NEW T, NEW q \in Seq(T), NEW l \in T
    PROVE  /\ Append(q, l) \in Seq(T) /\ Len(q) \in Nat /\ Len(Append(q, l)) = Len(q) + 1
           /\ Append(q, l)[Len(q) + 1] = l /\ \A i \in 1..Len(q) : Append(q, l)[i] = q[i]
OBVIOUS

LEMMA EmbedsLess ==
    ASSUME NEW db \in Seq(KhLines), NEW lines \in Seq(KhLines), NEW at, Embeds(db, lines, at), NEW l \in KhLines,
           l.marker \in {"@revoked", "bad"}
    PROVE  Embeds(db, Append(lines, l), at)
<1>1. PICK more, n, d : more = Append(lines, l) /\ n = Len(lines) /\ d = Len(db)
  OBVIOUS
<1>2. /\ n \in Nat /\ d \in Nat /\ Len(more) = n + 1 /\ more[n + 1] = l /\ \A j \in 1..n : more[j] = lines[j]
  BY <1>1, AppendFacts
<1>3. /\ at \in [1..d -> 1..n] /\ \A i, j \in 1..d : i < j => at[i] < at[j]
      /\ \A i \in 1..d : db[i] = lines[at[i]] /\ db[i].marker # "@revoked"
      /\ \A j \in 1..n : lines[j].marker \notin {"@revoked", "bad"} => \E i \in 1..d : at[i] = j
  BY <1>1 DEF Embeds
<1>4. \A j \in 1..(n + 1) : j \in 1..n \/ j = n + 1
  BY <1>2
<1>5. 1..n \subseteq 1..(n + 1)
  BY <1>2
<1>6. at \in [1..d -> 1..(n + 1)]
  BY <1>3, <1>5
<1>7. \A i \in 1..d : db[i] = more[at[i]]
  BY <1>2, <1>3
<1>8. \A j \in 1..(n + 1) : more[j].marker \notin {"@revoked", "bad"} => \E i \in 1..d : at[i] = j
  BY <1>2, <1>3, <1>4
<1> QED BY <1>1, <1>2, <1>3, <1>6, <1>7, <1>8 DEF Embeds

LEMMA EmbedsMore ==
    ASSUME NEW db \in Seq(KhLines), NEW lines \in Seq(KhLines), NEW at, Embeds(db, lines, at), NEW l \in KhLines,
           l.marker # "@revoked"
    PROVE  \E to : Embeds(Append(db, l), Append(lines, l), to)
<1>1. PICK more, base, n, d : more = Append(lines, l) /\ base = Append(db, l) /\ n = Len(lines) /\ d = Len(db)
  OBVIOUS
<1>2. /\ n \in Nat /\ d \in Nat /\ Len(more) = n + 1 /\ more[n + 1] = l /\ \A j \in 1..n : more[j] = lines[j]
      /\ Len(base) = d + 1 /\ base[d + 1] = l /\ \A j \in 1..d : base[j] = db[j]
  BY <1>1, AppendFacts
<1>3. /\ at \in [1..d -> 1..n] /\ \A i, j \in 1..d : i < j => at[i] < at[j]
      /\ \A i \in 1..d : db[i] = lines[at[i]] /\ db[i].marker # "@revoked"
      /\ \A j \in 1..n : lines[j].marker \notin {"@revoked", "bad"} => \E i \in 1..d : at[i] = j
  BY <1>1 DEF Embeds
<1>4. /\ (\A j \in 1..(n + 1) : j \in 1..n \/ j = n + 1) /\ 1..n \subseteq 1..(n + 1) /\ n + 1 \in 1..(n + 1)
      /\ (\A j \in 1..n : j < n + 1)
      /\ (\A i \in 1..(d + 1) : i \in 1..d \/ i = d + 1) /\ 1..d \subseteq 1..(d + 1) /\ d + 1 \in 1..(d + 1)
      /\ (\A i \in 1..d : i # d + 1) /\ \A i, j \in 1..(d + 1) : i < j => i \in 1..d
  BY <1>2
<1>5. PICK to : to = [i \in 1..(d + 1) |-> IF i = d + 1 THEN n + 1 ELSE at[i]]
  OBVIOUS
<1>6. to[d + 1] = n + 1 /\ \A i \in 1..d : to[i] = at[i]
  BY <1>4, <1>5
<1>7. to \in [1..(d + 1) -> 1..(n + 1)]
  BY <1>3, <1>4, <1>5
<1>8. ASSUME NEW i \in 1..(d + 1), NEW j \in 1..(d + 1), i < j PROVE to[i] < to[j]
  <2>1. i \in 1..d /\ to[i] = at[i] /\ at[i] \in 1..n
    BY <1>3, <1>4, <1>6, <1>8
  <2>2. CASE j = d + 1
    BY <1>4, <1>6, <2>1, <2>2
  <2>3. CASE j \in 1..d
    BY <1>3, <1>6, <1>8, <2>1, <2>3
  <2> QED BY <1>4, <2>2, <2>3
<1>9. ASSUME NEW i \in 1..(d + 1) PROVE base[i] = more[to[i]] /\ base[i].marker # "@revoked"
  <2>1. CASE i = d + 1
    BY <1>2, <1>6, <2>1
  <2>2. CASE i \in 1..d
    <3>1. to[i] = at[i] /\ at[i] \in 1..n /\ base[i] = db[i]
      BY <1>2, <1>3, <1>6, <2>2
    <3>2. db[i] = lines[at[i]] /\ db[i].marker # "@revoked" /\ more[at[i]] = lines[at[i]]
      BY <1>2, <1>3, <2>2, <3>1
    <3> QED BY <3>1, <3>2
  <2> QED BY <1>4, <2>1, <2>2
<1>10. ASSUME NEW j \in 1..(n + 1), more[j].marker \notin {"@revoked", "bad"} PROVE \E i \in 1..(d + 1) : to[i] = j
  <2>1. CASE j = n + 1
    BY <1>4, <1>6, <2>1
  <2>2. CASE j \in 1..n
    BY <1>2, <1>3, <1>4, <1>6, <1>10, <2>2
  <2> QED BY <1>4, <2>1, <2>2
<1>11. Embeds(base, more, to)
  BY <1>2, <1>7, <1>8, <1>9, <1>10 DEF Embeds
<1> QED BY <1>1, <1>11

LEMMA RevokesMore ==
    ASSUME NEW lines \in Seq(KhLines), NEW l \in KhLines, NEW k
    PROVE  Revokes(Append(lines, l), k) <=> Revokes(lines, k) \/ (l.marker = "@revoked" /\ l.key = k)
<1>1. PICK more, n : more = Append(lines, l) /\ n = Len(lines)
  OBVIOUS
<1>2. n \in Nat /\ Len(more) = n + 1 /\ more[n + 1] = l /\ \A j \in 1..n : more[j] = lines[j]
  BY <1>1, AppendFacts
<1>3. (\A j \in 1..(n + 1) : j \in 1..n \/ j = n + 1) /\ 1..n \subseteq 1..(n + 1) /\ n + 1 \in 1..(n + 1)
  BY <1>2
<1>4. Revokes(more, k) <=> \E j \in 1..(n + 1) : more[j].marker = "@revoked" /\ more[j].key = k
  BY <1>2 DEF Revokes
<1>5. Revokes(lines, k) <=> \E j \in 1..n : lines[j].marker = "@revoked" /\ lines[j].key = k
  BY <1>1 DEF Revokes
<1>6. Revokes(more, k) <=> Revokes(lines, k) \/ (l.marker = "@revoked" /\ l.key = k)
  BY <1>2, <1>3, <1>4, <1>5
<1> QED BY <1>1, <1>6

LEMMA ParseLineStep == ASSUME KhInv, NEW l \in KhLines, ParseLine(l) PROVE KhInv'
<1>1. /\ khFile \in Seq(KhLines) /\ khDb \in Seq(KhLines) /\ (\E at : Embeds(khDb, khFile, at))
      /\ (\A k : k \in khRevoked <=> Revokes(khFile, k)) /\ KhDecided
      /\ khSt # "failed" => \A j \in 1..Len(khFile) : khFile[j].marker # "bad"
  BY DEF KhInv, KhShape
<1>2. khSt = "reading" /\ khFile' = Append(khFile, l) /\ khResult' = khResult
  BY DEF ParseLine
<1>3. KhDecided'
  BY <1>1, <1>2 DEF KhDecided
<1>4. PICK n : n = Len(khFile)
  OBVIOUS
<1>5. /\ khFile' \in Seq(KhLines) /\ n \in Nat /\ Len(khFile') = n + 1 /\ khFile'[n + 1] = l
      /\ \A j \in 1..n : khFile'[j] = khFile[j]
  BY <1>1, <1>2, <1>4, AppendFacts
<1>6. l.marker # "bad" => \A j \in 1..Len(khFile') : khFile'[j].marker # "bad"
  <2>1. \A j \in 1..(n + 1) : j \in 1..n \/ j = n + 1
    BY <1>5
  <2> QED BY <1>1, <1>2, <1>4, <1>5, <2>1
<1>7. \A k : Revokes(khFile', k) <=> Revokes(khFile, k) \/ (l.marker = "@revoked" /\ l.key = k)
  BY <1>1, <1>2, RevokesMore
<1>8. CASE l.marker = "bad"
  <2>1. khSt' = "failed" /\ khDb' = khDb /\ khRevoked' = khRevoked
    BY <1>8 DEF ParseLine
  <2>2. \E at : Embeds(khDb', khFile', at)
    BY <1>1, <1>2, <1>8, <2>1, EmbedsLess
  <2>3. \A k : k \in khRevoked' <=> Revokes(khFile', k)
    BY <1>1, <1>7, <1>8, <2>1
  <2> QED BY <1>1, <1>3, <1>5, <2>1, <2>2, <2>3 DEF KhInv, KhShape
<1>9. CASE l.marker = "@revoked"
  <2>1. khSt' = khSt /\ khDb' = khDb /\ khRevoked' = khRevoked \cup {l.key}
    BY <1>9 DEF ParseLine
  <2>2. \E at : Embeds(khDb', khFile', at)
    BY <1>1, <1>2, <1>9, <2>1, EmbedsLess
  <2>3. \A k : k \in khRevoked' <=> Revokes(khFile', k)
    BY <1>1, <1>7, <1>9, <2>1
  <2> QED BY <1>1, <1>3, <1>5, <1>6, <1>9, <2>1, <2>2, <2>3 DEF KhInv, KhShape
<1>10. CASE l.marker \notin {"bad", "@revoked"}
  <2>1. khSt' = khSt /\ khDb' = Append(khDb, l) /\ khRevoked' = khRevoked
    BY <1>10 DEF ParseLine
  <2>2. \E at : Embeds(khDb', khFile', at)
    BY <1>1, <1>2, <1>10, <2>1, EmbedsMore
  <2>3. \A k : k \in khRevoked' <=> Revokes(khFile', k)
    BY <1>1, <1>7, <1>10, <2>1
  <2>4. khDb' \in Seq(KhLines)
    BY <1>1, <2>1, AppendFacts
  <2> QED BY <1>1, <1>3, <1>5, <1>6, <1>10, <2>1, <2>2, <2>3, <2>4 DEF KhInv, KhShape
<1> QED BY <1>8, <1>9, <1>10

LEMMA KhNextInv == KhInv /\ [KhNext]_khVars => KhInv'
<1>1. SUFFICES ASSUME KhInv, [KhNext]_khVars PROVE KhInv'
  OBVIOUS
<1>2. KhShape /\ KhDecided
  BY <1>1 DEF KhInv
<1>3. ASSUME NEW l \in KhLines, ParseLine(l) PROVE KhInv'
  BY <1>1, <1>3, ParseLineStep
<1>4. CASE KhReady
  <2>1. khSt = "reading" /\ khSt' = "ready" /\ khFile' = khFile /\ khDb' = khDb /\ khRevoked' = khRevoked /\ khResult' = khResult
    BY <1>4 DEF KhReady
  <2>2. KhShape'
    BY <1>2, <2>1 DEF KhShape
  <2>3. KhDecided'
    BY <1>2, <2>1 DEF KhDecided
  <2> QED BY <2>2, <2>3 DEF KhInv
<1>5. ASSUME khSt = "ready", UNCHANGED <<khFile, khDb, khRevoked, khSt>>, NEW h \in KhHosts, NEW p \in KhPorts, NEW k, NEW v,
             khResult' = [host |-> h, port |-> p, key |-> k, verdict |-> v], v = KhVerdict(h, p, k) \/ v = KhCertVerdict(h, p, k)
      PROVE  KhInv'
  <2>1. khFile' = khFile /\ khDb' = khDb /\ khRevoked' = khRevoked /\ khSt' = khSt
    BY <1>5
  <2>2. KhShape'
    BY <1>2, <2>1 DEF KhShape
  <2>3. KhVerdict(h, p, k)' = KhVerdict(h, p, k) /\ KhCertVerdict(h, p, k)' = KhCertVerdict(h, p, k)
    BY <2>1 DEF KhVerdict, KhCertVerdict, CheckAddr, IsHostAuthority
  <2>4. khResult'.host = h /\ khResult'.port = p /\ khResult'.key = k /\ khResult'.verdict = v
    BY <1>5
  <2>5. KhDecided'
    BY <1>5, <2>1, <2>3, <2>4 DEF KhDecided
  <2> QED BY <2>2, <2>5 DEF KhInv
<1>6. ASSUME NEW p \in KhPorts, NEW k \in KhKeys, NEW name, NEW r \in KhHosts, name \in KhHosts \/ name = <<>>,
             CheckHostKey(name, r, p, k)
      PROVE  KhInv'
  <2>1. PICK h : h = IF name = <<>> THEN r ELSE name
    OBVIOUS
  <2>2. h \in KhHosts
    BY <1>6, <2>1
  <2>3. /\ khSt = "ready" /\ UNCHANGED <<khFile, khDb, khRevoked, khSt>>
        /\ khResult' = [host |-> h, port |-> p, key |-> k, verdict |-> KhVerdict(h, p, k)]
    BY <1>6, <2>1 DEF CheckHostKey, KhVerdict
  <2> QED BY <1>5, <2>2, <2>3
<1>7. ASSUME NEW p \in KhPorts, NEW k \in KhKeys, NEW h \in KhHosts, CheckHostCertKey(h, p, k) PROVE KhInv'
  <2>1. /\ khSt = "ready" /\ UNCHANGED <<khFile, khDb, khRevoked, khSt>>
        /\ khResult' = [host |-> h, port |-> p, key |-> k, verdict |-> KhCertVerdict(h, p, k)]
    BY <1>7 DEF CheckHostCertKey, KhCertVerdict
  <2> QED BY <1>5, <2>1
<1>8. CASE UNCHANGED khVars
  <2>1. khFile' = khFile /\ khDb' = khDb /\ khRevoked' = khRevoked /\ khSt' = khSt /\ khResult' = khResult
    BY <1>8 DEF khVars
  <2>2. KhShape'
    BY <1>2, <2>1 DEF KhShape
  <2>3. KhDecided'
    BY <1>2, <2>1 DEF KhDecided, KhVerdict, KhCertVerdict, CheckAddr, IsHostAuthority
  <2> QED BY <2>2, <2>3 DEF KhInv
<1>9. CASE \E p \in KhPorts, k \in KhKeys :
             \/ \E h \in KhHosts, r \in KhHosts : CheckHostKey(h, r, p, k) \/ CheckHostKey(<<>>, r, p, k)
             \/ \E h \in KhHosts : CheckHostCertKey(h, p, k)
  BY <1>6, <1>7, <1>9
<1> QED BY <1>1, <1>3, <1>4, <1>8, <1>9 DEF KhNext

(* What the first matching lines of the database say of the files.          *)
LEMMA VerdictsFollow == KhInv => KhVerdicts
<1>1. SUFFICES ASSUME KhInv PROVE KhVerdicts
  OBVIOUS
<1>2. /\ khFile \in Seq(KhLines) /\ khDb \in Seq(KhLines) /\ (\A k : k \in khRevoked <=> Revokes(khFile, k)) /\ KhDecided
      /\ khSt # "failed" => \A j \in 1..Len(khFile) : khFile[j].marker # "bad"
  BY <1>1 DEF KhInv, KhShape
<1>3. PICK at : Embeds(khDb, khFile, at)
  BY <1>1 DEF KhInv, KhShape
<1>4. PICK n, d, h, p, k : n = Len(khFile) /\ d = Len(khDb) /\ h = khResult.host /\ p = khResult.port /\ k = khResult.key
  OBVIOUS
<1>5. n \in Nat /\ d \in Nat /\ (\A i \in 1..n : khFile[i] \in KhLines) /\ \A i \in 1..d : khDb[i] \in KhLines
  BY <1>2, <1>4
<1>6. /\ at \in [1..d -> 1..n] /\ (\A i, j \in 1..d : i < j => at[i] < at[j])
      /\ (\A i \in 1..d : khDb[i] = khFile[at[i]] /\ khDb[i].marker # "@revoked")
      /\ \A j \in 1..n : khFile[j].marker \notin {"@revoked", "bad"} => \E i \in 1..d : at[i] = j
  BY <1>3, <1>4 DEF Embeds
<1>7. khResult # KhNoCheck =>
        /\ khSt = "ready" /\ h \in KhHosts /\ p \in KhPorts
        /\ khResult.verdict = KhVerdict(h, p, k) \/ khResult.verdict = KhCertVerdict(h, p, k)
  BY <1>2, <1>4 DEF KhDecided
<1>8. khResult.verdict # "none" => khResult # KhNoCheck
  <2>1. ASSUME NEW a, NEW b, NEW c PROVE [host |-> a, port |-> b, key |-> c, verdict |-> "none"].verdict = "none"
    OBVIOUS
  <2>2. KhNoCheck.verdict = "none"
    BY <2>1, Zenon DEF KhNoCheck
  <2> QED BY <2>2
<1> DEFINE known == {i \in 1..d : LineMatches(khDb[i], h, p)}
           first == {i \in known : \A j \in known : khDb[j].key.type = khDb[i].key.type => i <= j}
<1>9. CheckAddr(h, p, k) = IF first = {} THEN "unknown"
                           ELSE IF \E i \in first : khDb[i].key = k THEN "accepted" ELSE "mismatch"
  <2>1. Len(khDb) = d
    BY <1>4
  <2>2. known = {i \in 1..Len(khDb) : LineMatches(khDb[i], h, p)}
    BY <2>1
  <2> QED BY <2>2, Zenon DEF CheckAddr
<1>10. ASSUME h \in KhHosts, khSt # "failed", NEW j \in 1..n, khFile[j].marker # "@revoked", Names(khFile[j], h, p)
       PROVE  \E i \in known : at[i] = j /\ khDb[i] = khFile[j]
  <2>1. khFile[j].marker \notin {"@revoked", "bad"}
    BY <1>2, <1>4, <1>10
  <2>2. PICK i \in 1..d : at[i] = j
    BY <1>6, <2>1
  <2>3. khDb[i] = khFile[j] /\ khFile[j] \in KhLines
    BY <1>5, <1>6, <2>2
  <2>4. LineMatches(khDb[i], h, p)
    BY <1>10, <2>3, MatchIsNames
  <2> QED BY <2>2, <2>3, <2>4
<1>11. KhWildcard
  <2>1. ASSUME NEW i \in 1..Len(khFile), NEW j \in 1..Len(khFile[i].pats), NEW x \in KhHosts
        PROVE  WildcardMatch(khFile[i].pats[j].host, x) <=> Glob(khFile[i].pats[j].host, x)
    <3>1. khFile[i] \in KhLines
      BY <1>4, <1>5
    <3>2. khFile[i].pats \in Seq(KhPatterns) /\ x \in Seq(STRING)
      BY <3>1, KhAssumption
    <3>3. khFile[i].pats[j] \in KhPatterns
      BY <3>2
    <3>4. khFile[i].pats[j].host \in Seq(STRING)
      BY <3>3 DEF KhPatterns
    <3> QED BY <3>2, <3>4, MatchIsGlob
  <2> QED BY <2>1 DEF KhWildcard
<1>12. KhTrusted
  <2>1. SUFFICES ASSUME khResult.verdict = "accepted"
                 PROVE  /\ \A i \in 1..n : khFile[i].marker = "@revoked" => khFile[i].key # k
                        /\ \E i \in 1..n : /\ khFile[i].key = k /\ Names(khFile[i], h, p)
                                           /\ \A j \in 1..(i - 1) : khFile[j].marker # "@revoked" /\ khFile[j].key.type = k.type
                                                => ~Names(khFile[j], h, p)
    BY <1>4 DEF KhTrusted
  <2>2. khSt = "ready" /\ h \in KhHosts /\ khResult.verdict = KhVerdict(h, p, k)
    BY <1>7, <1>8, <2>1 DEF KhCertVerdict
  <2>3. k \notin khRevoked /\ CheckAddr(h, p, k) = "accepted"
    BY <2>1, <2>2 DEF KhVerdict
  <2>4. PICK i \in first : khDb[i].key = k
    BY <1>9, <2>3
  <2>5. i \in 1..d /\ LineMatches(khDb[i], h, p) /\ \A j \in known : khDb[j].key.type = k.type => i <= j
    BY <2>4
  <2>6. at[i] \in 1..n /\ khFile[at[i]] = khDb[i] /\ khDb[i] \in KhLines
    BY <1>5, <1>6, <2>5
  <2>7. Names(khFile[at[i]], h, p)
    BY <2>2, <2>5, <2>6, MatchIsNames
  <2>8. ASSUME NEW j \in 1..(at[i] - 1), khFile[j].marker # "@revoked", khFile[j].key.type = k.type, Names(khFile[j], h, p)
        PROVE  FALSE
    <3>1. j \in 1..n /\ j < at[i]
      BY <1>5, <2>6
    <3>2. PICK e \in known : at[e] = j /\ khDb[e] = khFile[j]
      BY <1>10, <2>2, <2>8, <3>1
    <3>3. i <= e /\ e \in 1..d
      BY <2>5, <2>8, <3>2
    <3>4. i = e \/ i < e
      BY <2>5, <3>3
    <3>5. at[e] \in Int /\ at[i] \in Int /\ (i < e => at[i] < at[e])
      BY <1>6, <2>5, <3>3
    <3>6. at[i] <= at[e]
      BY <3>4, <3>5
    <3> QED BY <3>1, <3>2, <3>5, <3>6
  <2>9. \A j \in 1..n : khFile[j].marker = "@revoked" => khFile[j].key # k
    BY <1>2, <1>4, <2>3 DEF Revokes
  <2> QED BY <2>4, <2>6, <2>7, <2>8, <2>9
<1>13. KhUnknownIsNew
  <2>1. SUFFICES ASSUME khResult.verdict = "unknown", NEW j \in 1..n, khFile[j].marker # "@revoked", Names(khFile[j], h, p)
                 PROVE  FALSE
    BY <1>4 DEF KhUnknownIsNew
  <2>2. khSt = "ready" /\ h \in KhHosts /\ khResult.verdict = KhVerdict(h, p, k)
    BY <1>7, <1>8, <2>1 DEF KhCertVerdict
  <2>3. CheckAddr(h, p, k) = "unknown"
    BY <2>1, <2>2 DEF KhVerdict
  <2>4. first = {}
    BY <1>9, <2>3
  <2>5. known # {} /\ known \subseteq Nat
    BY <1>10, <2>1, <2>2
  <2>6. PICK i \in known : \A e \in known : i <= e
    <3> HIDE DEF known
    <3> QED BY <2>5, HasLeast
  <2>7. i \in first
    BY <2>6
  <2> QED BY <2>4, <2>7
<1>14. KhCertified
  <2>1. SUFFICES ASSUME khResult.verdict = "certified"
                 PROVE  \E i \in 1..n : khFile[i].marker = "@cert-authority" /\ khFile[i].key = k /\ Names(khFile[i], h, p)
    BY <1>4 DEF KhCertified
  <2>2. h \in KhHosts /\ khResult.verdict = KhCertVerdict(h, p, k)
    <3>1. KhVerdict(h, p, k) # "certified"
      BY <1>9 DEF KhVerdict
    <3> QED BY <1>7, <1>8, <2>1, <3>1
  <2>3. PICK i \in 1..d : khDb[i].marker = "@cert-authority" /\ khDb[i].key = k /\ LineMatches(khDb[i], h, p)
    BY <1>4, <2>1, <2>2 DEF KhCertVerdict, IsHostAuthority
  <2>4. at[i] \in 1..n /\ khFile[at[i]] = khDb[i] /\ khDb[i] \in KhLines
    BY <1>5, <1>6
  <2>5. Names(khFile[at[i]], h, p)
    BY <2>2, <2>3, <2>4, MatchIsNames
  <2> QED BY <2>3, <2>4, <2>5
<1>15. KhLineReadsBack
  <2>1. SUFFICES ASSUME khResult # KhNoCheck
                 PROVE  /\ EntryParses(Normalize(h, p)) <=> ~(h \in KhV6 /\ p = "22")
                        /\ \A x \in KhHosts, y \in KhPorts :
                             HostPatternsMatch(EntryMatcher(Normalize(h, p)), x, y) <=> (x = h /\ y = p)
    BY <1>4 DEF KhLineReadsBack
  <2>2. h \in KhHosts /\ p \in KhPorts /\ p # "none" /\ h \in Seq(STRING) /\ \A i \in 1..Len(h) : h[i] \notin {"*", "?"}
    BY <1>7, <2>1, KhAssumption
  <2>3. PICK e : e = Normalize(h, p)
    OBVIOUS
  <2>4. /\ e.host = h /\ e.port = (IF p = "22" THEN "none" ELSE p)
        /\ e.brackets <=> (p # "22" \/ h \in KhV6)
    BY <2>3 DEF Normalize
  <2>5. EntryParses(e) <=> ~(h \in KhV6 /\ p = "22")
    BY <2>2, <2>4 DEF EntryParses
  <2>6. EntryMatcher(e) = <<[negate |-> FALSE, host |-> h, port |-> p]>>
    BY <2>2, <2>4 DEF EntryMatcher
  <2>7. ASSUME NEW x \in KhHosts, NEW y \in KhPorts
        PROVE  HostPatternsMatch(<<[negate |-> FALSE, host |-> h, port |-> p]>>, x, y) <=> (x = h /\ y = p)
    <3>1. WildcardMatch(h, x) <=> x = h
      BY <2>2, LiteralMatch, KhAssumption
    <3>2. PICK ps : ps = <<[negate |-> FALSE, host |-> h, port |-> p]>>
      OBVIOUS
    <3>3. 1..Len(ps) = {1} /\ ps[1].host = h /\ ps[1].port = p /\ ps[1].negate = FALSE
      BY <3>2
    <3>4. HostPatternsMatch(ps, x, y) <=> WildcardMatch(h, x) /\ p = y
      BY <3>3 DEF HostPatternsMatch
    <3> QED BY <3>1, <3>2, <3>4
  <2> QED BY <2>3, <2>5, <2>6, <2>7
<1> QED BY <1>11, <1>12, <1>13, <1>14, <1>15 DEF KhVerdicts

(* The verdicts on host keys, for any files, hosts, ports and keys:         *)
(* wildcardMatch decides what the patterns mean; a key is accepted only if  *)
(* the files name it for the address, on the first line for its type, and   *)
(* no line anywhere revokes it; a host that is in the files is never taken  *)
(* for unknown; only an authority for the address certifies; and an entry   *)
(* that is written for an address is read back for it and no other.         *)
THEOREM KnownHostsAreKnown == KhSpec => []KhVerdicts
<1>1. KhSpec => []KhInv
  BY KhInitInv, KhNextInv, PTL DEF KhSpec
<1> QED BY <1>1, VerdictsFollow, PTL

------------------------------------------------------------------------------
(* clientAuthenticate.                                                      *)

(* The first AuthMethod of its name: findNext never gets to a later one     *)
(* before this one has failed for good.                                     *)
FirstOf(i) == i \in 1..Len(ncConf) /\ \A j \in 1..(i - 1) : ncConf[j].m # ncConf[i].m

(* Rounds of a method that a partial success has ended.                     *)
EarlierFails(i) == ncExtra * (ncConf[i].tries - 1)

CaShape ==
    /\ ncConf \in CaConfigs
    /\ ncSt \in {"begin", "reply", "ack", "prompt", "mech", "token", "ok", "none left", "error"}
    /\ ncCur \in 0..Len(ncConf) /\ ncTry \in 0..(CaTries - 1)
    /\ ncKey \in 0..Len(CaKeys) /\ (ncSt = "ack" => ncKey > 0)
    /\ ncTried \subseteq CaMethods /\ ncExtra \in 0..CaExtra
    /\ ncFails \in [CaMethods -> Nat]

(* The method being tried has not failed for good, and is the first of its  *)
(* name; what has been tried has failed.                                    *)
CurInv ==
    /\ ncSt # "none left" => CaMethod \notin ncTried
    /\ ncCur # 0 => FirstOf(ncCur)
    /\ \A m \in ncTried : ncFails[m] > 0

(* How often a method may have failed in this round.                        *)
Allowed(i) == IF ncConf[i].m \in ncTried THEN ncConf[i].tries ELSE IF ncCur = i THEN ncTry ELSE 0

(* How often a method has failed: in earlier rounds, and in this one.       *)
TriesInv ==
    \A i \in 1..Len(ncConf) : FirstOf(i) => ncFails[ncConf[i].m] <= EarlierFails(i) + Allowed(i)

CaInv == CaShape /\ CurInv /\ TriesInv /\ CaSignsAcked /\ CaGivesUpLast

------------------------------------------------------------------------------
(* What config.Auth is.                                                     *)
LEMMA ConfigMeans ==
    ASSUME ncConf \in CaConfigs
    PROVE  /\ Len(ncConf) \in Nat
           /\ \A i \in 1..Len(ncConf) : /\ ncConf[i].m \in CaMethods /\ Len(ncConf[i].keys) \in Nat
                                        /\ ncConf[i].tries \in Nat \ {0}
BY CaAssumption

(* findNext returns the first of a name, which has not failed, or there is  *)
(* no method left.                                                          *)
LEMMA NextAuthIs ==
    ASSUME ncConf \in CaConfigs, NEW tried, NEW methods
    PROVE  /\ CaNextAuth(tried, methods) \in 0..Len(ncConf)
           /\ CaNextAuth(tried, methods) # 0 =>
                FirstOf(CaNextAuth(tried, methods)) /\ ncConf[CaNextAuth(tried, methods)].m \notin tried
           /\ CaNextAuth(tried, methods) = 0 =>
                \A i \in 1..Len(ncConf) : ncConf[i].m \in tried \/ ncConf[i].m \notin methods
<1>1. PICK left : left = {i \in 1..Len(ncConf) : ncConf[i].m \notin tried /\ ncConf[i].m \in methods}
  OBVIOUS
<1>2. CaNextAuth(tried, methods) = IF left = {} THEN 0 ELSE CHOOSE i \in left : \A j \in left : i <= j
  BY <1>1 DEF CaNextAuth
<1>3. Len(ncConf) \in Nat
  BY ConfigMeans
<1>4. CASE left = {}
  BY <1>1, <1>2, <1>3, <1>4
<1>5. CASE left # {}
  <2>1. left \subseteq Nat
    BY <1>1
  <2>2. \E i \in left : \A j \in left : i <= j
    BY <1>5, <2>1, HasLeast
  <2>3. PICK n : n = CHOOSE i \in left : \A j \in left : i <= j
    OBVIOUS
  <2>4. n \in left /\ \A j \in left : n <= j
    BY <2>2, <2>3
  <2>5. n \in 1..Len(ncConf) /\ ncConf[n].m \notin tried /\ ncConf[n].m \in methods
    BY <1>1, <2>4
  <2>6. ASSUME NEW j \in 1..(n - 1), ncConf[j].m = ncConf[n].m PROVE FALSE
    <3>1. j \in 1..Len(ncConf) /\ j < n
      <4>1. PICK len : len = Len(ncConf)
        OBVIOUS
      <4>2. len \in Nat /\ n \in 1..len
        BY <1>3, <2>5, <4>1
      <4>3. j \in 1..len /\ j < n
        BY <2>6, <4>2
      <4> QED BY <4>1, <4>3
    <3>2. j \in left
      BY <1>1, <2>5, <2>6, <3>1
    <3>3. n <= j
      BY <2>4, <3>2
    <3>4. n \in Nat /\ j \in Nat
      BY <2>1, <2>4, <3>2
    <3> QED BY <3>1, <3>3, <3>4
  <2>7. CaNextAuth(tried, methods) = n /\ n # 0 /\ n \in 0..Len(ncConf)
    <3>1. CaNextAuth(tried, methods) = n
      BY <1>2, <1>5, <2>3
    <3>2. PICK len : len = Len(ncConf)
      OBVIOUS
    <3>3. len \in Nat /\ n \in 1..len
      BY <1>3, <2>5, <3>2
    <3>4. n # 0 /\ n \in 0..len
      BY <3>3
    <3> QED BY <3>1, <3>2, <3>4
  <2> QED BY <2>5, <2>6, <2>7 DEF FirstOf
<1> QED BY <1>4, <1>5

(* Two AuthMethods of one name are not both the first.                      *)
LEMMA OneFirst ==
    ASSUME NEW i, NEW j, Len(ncConf) \in Nat, FirstOf(i), FirstOf(j), ncConf[i].m = ncConf[j].m
    PROVE  i = j
<1>1. i \in 1..Len(ncConf) /\ j \in 1..Len(ncConf)
  BY DEF FirstOf
<1>2. ~(i < j)
  <2>1. ASSUME i < j PROVE i \in 1..(j - 1)
    BY <1>1, <2>1
  <2> QED BY <2>1 DEF FirstOf
<1>3. ~(j < i)
  <2>1. ASSUME j < i PROVE j \in 1..(i - 1)
    BY <1>1, <2>1
  <2> QED BY <2>1 DEF FirstOf
<1> QED BY <1>1, <1>2, <1>3

LEMMA Rounds ==
    ASSUME NEW e \in Nat, NEW t \in Nat \ {0}
    PROVE  /\ e * (t - 1) \in Nat /\ (e + 1) * (t - 1) = e * (t - 1) + (t - 1)
OBVIOUS

(* The method at hand and what it may do.                                   *)
LEMMA AtHand ==
    ASSUME ncConf \in CaConfigs, ncCur \in 0..Len(ncConf)
    PROVE  CaMethod \in CaMethods /\ CaTries \in Nat \ {0} /\ Len(CaKeys) \in Nat
<1>1. CASE ncCur = 0
  BY <1>1 DEF CaMethod, CaTries, CaKeys, CaMethods
<1>2. CASE ncCur # 0
  <2>1. ncCur \in 1..Len(ncConf)
    BY <1>2, ConfigMeans
  <2> QED BY <1>2, <2>1, ConfigMeans DEF CaMethod, CaTries, CaKeys
<1> QED BY <1>1, <1>2

(* What the invariant says of the first AuthMethod of a name.               *)
FirstFacts(i) ==
    /\ i \in 1..Len(ncConf) /\ ncConf[i].m \in CaMethods /\ ncConf[i].tries \in Nat \ {0}
    /\ ncFails[ncConf[i].m] \in Nat /\ ncExtra \in Nat /\ ncTry \in Nat
    /\ Allowed(i) \in Nat /\ EarlierFails(i) \in Nat
    /\ ncFails[ncConf[i].m] <= EarlierFails(i) + Allowed(i)
    /\ ncCur = i => CaMethod = ncConf[i].m /\ ncTry + 1 <= ncConf[i].tries

LEMMA FirstHas ==
    ASSUME CaInv, NEW i, FirstOf(i)
    PROVE  FirstFacts(i)
<1>1. ncConf \in CaConfigs /\ ncCur \in 0..Len(ncConf) /\ ncTry \in 0..(CaTries - 1)
  BY DEF CaInv, CaShape
<1>2. i \in 1..Len(ncConf)
  BY DEF FirstOf
<1>3. Len(ncConf) \in Nat /\ ncConf[i].m \in CaMethods /\ ncConf[i].tries \in Nat \ {0}
  BY <1>1, <1>2, ConfigMeans
<1>4. CaTries \in Nat \ {0}
  BY <1>1, AtHand
<1>5. ncFails[ncConf[i].m] \in Nat
  BY <1>3 DEF CaInv, CaShape
<1>6. ncExtra \in Nat
  <2>1. ncExtra \in 0..CaExtra
    BY DEF CaInv, CaShape
  <2> QED BY <2>1, CaAssumption
<1>7. ncTry \in Nat /\ ncTry + 1 <= CaTries
  BY <1>1, <1>4
<1>8. Allowed(i) \in Nat
  BY <1>3, <1>7 DEF Allowed
<1>9. EarlierFails(i) \in Nat
  BY <1>3, <1>6, Rounds DEF EarlierFails
<1>10. ncFails[ncConf[i].m] <= EarlierFails(i) + Allowed(i)
  BY <1>2 DEF CaInv, TriesInv
<1>11. ASSUME ncCur = i PROVE CaMethod = ncConf[i].m /\ ncTry + 1 <= ncConf[i].tries
  <2>1. i # 0
    BY <1>2, <1>3
  <2>2. CaMethod = ncConf[i].m /\ CaTries = ncConf[i].tries
    BY <1>11, <2>1 DEF CaMethod, CaTries
  <2> QED BY <1>7, <2>2
<1> QED BY <1>2, <1>3, <1>5, <1>6, <1>7, <1>8, <1>9, <1>10, <1>11 DEF FirstFacts

(* A partial success or a banner adds to the rounds, nothing takes from them. *)
LEMMA RoundsGrow ==
    ASSUME NEW i, FirstFacts(i), ncConf' = ncConf, ncExtra' \in {ncExtra, ncExtra + 1}
    PROVE  /\ EarlierFails(i)' \in Nat /\ EarlierFails(i) <= EarlierFails(i)'
           /\ ncExtra' = ncExtra + 1 => EarlierFails(i)' = EarlierFails(i) + (ncConf[i].tries - 1)
<1>1. PICK t : t = ncConf[i].tries
  OBVIOUS
<1>2. PICK e : e = ncExtra
  OBVIOUS
<1>3. t \in Nat \ {0} /\ e \in Nat
  BY <1>1, <1>2 DEF FirstFacts
<1>4. EarlierFails(i) = e * (t - 1) /\ EarlierFails(i)' = ncExtra' * (t - 1)
  BY <1>1, <1>2 DEF EarlierFails
<1>5. PICK b : b = e * (t - 1)
  OBVIOUS
<1>6. b \in Nat /\ (e + 1) * (t - 1) = b + (t - 1)
  BY <1>3, <1>5, Rounds
<1>7. CASE ncExtra' = e
  BY <1>1, <1>2, <1>3, <1>4, <1>5, <1>6, <1>7
<1>8. CASE ncExtra' = e + 1
  <2>1. EarlierFails(i)' = b + (t - 1) /\ EarlierFails(i) = b
    BY <1>4, <1>5, <1>6, <1>8
  <2> QED BY <1>1, <1>3, <1>6, <2>1
<1> QED BY <1>2, <1>7, <1>8

(* The dialogue goes on, or ends, within one call of auth.                  *)
Goes ==
    /\ UNCHANGED <<ncConf, ncCur, ncTry, ncTried, ncLast, ncFails>>
    /\ ncSt # "none left" /\ ncSt' # "none left"
    /\ ncExtra' \in {ncExtra, ncExtra + 1}

LEMMA GoesOn ==
    ASSUME CaInv, Goes
    PROVE  CurInv' /\ TriesInv' /\ CaGivesUpLast'
<1>1. UNCHANGED <<ncConf, ncCur, ncTry, ncTried, ncLast, ncFails>> /\ ncSt # "none left" /\ ncSt' # "none left"
  BY DEF Goes
<1>2. \A i : FirstOf(i)' <=> FirstOf(i)
  BY <1>1 DEF FirstOf
<1>3. CaMethod' = CaMethod
  BY <1>1 DEF CaMethod
<1>4. CurInv'
  BY <1>1, <1>2, <1>3 DEF CaInv, CurInv
<1>5. CaGivesUpLast'
  BY <1>1 DEF CaGivesUpLast
<1>6. TriesInv'
  <2>1. SUFFICES ASSUME NEW i, FirstOf(i)
                 PROVE  ncFails[ncConf[i].m] <= EarlierFails(i)' + Allowed(i)'
    BY <1>1, <1>2 DEF TriesInv
  <2>2. FirstFacts(i)
    BY <2>1, FirstHas
  <2>3. Allowed(i)' = Allowed(i)
    BY <1>1 DEF Allowed
  <2>4. EarlierFails(i)' \in Nat /\ EarlierFails(i) <= EarlierFails(i)'
    BY <1>1, <2>2, RoundsGrow DEF Goes
  <2> QED BY <2>2, <2>3, <2>4 DEF FirstFacts
<1> QED BY <1>4, <1>5, <1>6

(* A call of auth returns: a failure that retryableAuthMethod repeats, or a *)
(* failure or a partial success after which findNext chooses.               *)
Returns(result, list) ==
    /\ CaReturn(result, list) /\ ncConf' = ncConf /\ ncSt # "none left"
    /\ ncExtra' \in {ncExtra, ncExtra + 1} /\ ncExtra' \in 0..CaExtra
    /\ result # "failure" => ncExtra' = ncExtra + 1

Tries(result) == result = "failure" /\ ncTry + 1 < CaTries

(* A method that has failed is counted, the others are not.                 *)
LEMMA FailsCounted ==
    ASSUME CaInv, NEW result, NEW list, Returns(result, list)
    PROVE  /\ CaMethod \in CaMethods
           /\ ncFails' \in [CaMethods -> Nat]
           /\ \A m \in CaMethods : ncFails'[m] = IF result = "failure" /\ m = CaMethod
                                                 THEN ncFails[m] + 1 ELSE ncFails[m]
<1>1. ncFails \in [CaMethods -> Nat] /\ ncConf \in CaConfigs /\ ncCur \in 0..Len(ncConf)
  BY DEF CaInv, CaShape
<1>2. CaMethod \in CaMethods
  BY <1>1, AtHand
<1>3. ncFails' = IF result = "failure" THEN [ncFails EXCEPT ![CaMethod] = @ + 1] ELSE ncFails
  BY DEF Returns, CaReturn
<1> QED BY <1>1, <1>2, <1>3

(* retryableAuthMethod calls auth again.                                    *)
LEMMA Retried ==
    ASSUME CaInv, NEW result, NEW list, Returns(result, list), Tries(result)
    PROVE  CaShape' /\ CurInv' /\ TriesInv' /\ CaGivesUpLast'
<1>1. /\ ncTry' = ncTry + 1 /\ ncSt' = "begin" /\ UNCHANGED <<ncConf, ncTried, ncLast, ncCur>>
      /\ ncKey' = 0
  BY DEF Returns, CaReturn, Tries
<1>2. /\ result = "failure" /\ ncTry + 1 < CaTries /\ ncSt # "none left"
      /\ ncExtra' \in {ncExtra, ncExtra + 1} /\ ncExtra' \in 0..CaExtra
  BY DEF Returns, Tries
<1>3. /\ ncConf \in CaConfigs /\ ncCur \in 0..Len(ncConf) /\ ncTry \in 0..(CaTries - 1)
      /\ ncTried \subseteq CaMethods
  BY DEF CaInv, CaShape
<1>4. CaTries \in Nat \ {0} /\ Len(CaKeys) \in Nat
  BY <1>3, AtHand
<1>5. CaMethod' = CaMethod /\ CaTries' = CaTries /\ CaKeys' = CaKeys
  BY <1>1 DEF CaMethod, CaTries, CaKeys
<1>6. \A i : FirstOf(i)' <=> FirstOf(i)
  BY <1>1 DEF FirstOf
<1>7. CaShape'
  <2>1. ncTry' \in 0..(CaTries' - 1)
    <3>1. PICK c : c = CaTries
      OBVIOUS
    <3>2. c \in Nat /\ ncTry \in 0..(c - 1) /\ ncTry + 1 < c
      BY <1>2, <1>3, <1>4, <3>1
    <3>3. ncTry + 1 \in 0..(c - 1)
      BY <3>2
    <3> QED BY <1>1, <1>5, <3>1, <3>3
  <2>2. ncKey' \in 0..Len(CaKeys')
    BY <1>1, <1>4, <1>5
  <2>3. ncFails' \in [CaMethods -> Nat]
    BY FailsCounted
  <2> QED BY <1>1, <1>2, <1>3, <2>1, <2>2, <2>3 DEF CaShape
<1>8. CurInv'
  <2>1. ASSUME NEW m \in ncTried PROVE ncFails'[m] > 0
    <3>1. m \in CaMethods /\ ncFails[m] > 0 /\ m # CaMethod
      BY <1>2, <1>3, <2>1 DEF CaInv, CurInv
    <3>2. ncFails'[m] = ncFails[m]
      BY <3>1, FailsCounted
    <3> QED BY <3>1, <3>2
  <2>2. CaMethod \notin ncTried /\ (ncCur # 0 => FirstOf(ncCur))
    BY <1>2 DEF CaInv, CurInv
  <2>3. (FirstOf(ncCur))' <=> FirstOf(ncCur)
    BY <1>1 DEF FirstOf
  <2> QED BY <1>1, <1>5, <2>1, <2>2, <2>3 DEF CurInv
<1>9. TriesInv'
  <2>1. SUFFICES ASSUME NEW i, FirstOf(i)
                 PROVE  ncFails'[ncConf[i].m] <= EarlierFails(i)' + Allowed(i)'
    BY <1>1, <1>6 DEF TriesInv
  <2>2. FirstFacts(i)
    BY <2>1, FirstHas
  <2>3. EarlierFails(i)' \in Nat /\ EarlierFails(i) <= EarlierFails(i)'
    BY <1>1, <1>2, <2>2, RoundsGrow
  <2>4. CASE ncConf[i].m = CaMethod
    <3>1. ncCur # 0
      <4>1. ncTry \in Nat /\ 1 < CaTries
        <5>1. PICK c : c = CaTries
          OBVIOUS
        <5>2. c \in Nat /\ ncTry \in 0..(c - 1) /\ ncTry + 1 < c
          BY <1>2, <1>3, <1>4, <5>1
        <5>3. ncTry \in Nat /\ 1 < c
          BY <5>2
        <5> QED BY <5>1, <5>3
      <4> QED BY <4>1 DEF CaTries
    <3>2. FirstOf(ncCur) /\ CaMethod \notin ncTried
      BY <1>2, <3>1 DEF CaInv, CurInv
    <3>3. ncConf[ncCur].m = CaMethod
      BY <3>1 DEF CaMethod
    <3>4. Len(ncConf) \in Nat
      BY <1>3, ConfigMeans
    <3>5. ncCur = i
      BY <2>1, <2>4, <3>2, <3>3, <3>4, OneFirst
    <3>6. Allowed(i) = ncTry /\ Allowed(i)' = ncTry + 1
      BY <1>1, <2>4, <3>2, <3>5 DEF Allowed
    <3>7. ncFails'[ncConf[i].m] = ncFails[ncConf[i].m] + 1
      BY <1>2, <2>2, <2>4, FailsCounted DEF FirstFacts
    <3> QED BY <2>2, <2>3, <3>6, <3>7 DEF FirstFacts
  <2>5. CASE ncConf[i].m # CaMethod
    <3>1. ncFails'[ncConf[i].m] = ncFails[ncConf[i].m]
      BY <2>2, <2>5, FailsCounted DEF FirstFacts
    <3>2. ncCur # i
      BY <2>2, <2>5 DEF FirstFacts
    <3>3. Allowed(i)' = Allowed(i)
      BY <1>1, <3>2 DEF Allowed
    <3> QED BY <2>2, <2>3, <3>1, <3>3 DEF FirstFacts
  <2> QED BY <2>4, <2>5
<1>10. CaGivesUpLast'
  BY <1>1 DEF CaGivesUpLast
<1> QED BY <1>7, <1>8, <1>9, <1>10

(* findNext chooses what is tried next, or gives up.                        *)
LEMMA Chosen ==
    ASSUME CaInv, NEW result, NEW list, Returns(result, list), ~Tries(result)
    PROVE  CaShape' /\ CurInv' /\ TriesInv' /\ CaGivesUpLast'
<1>1. PICK tried : tried = IF result = "failure" THEN ncTried \cup {CaMethod} ELSE ncTried
  OBVIOUS
<1>2. PICK methods : methods = IF list = NilList THEN ncLast ELSE list
  OBVIOUS
<1>3. PICK n : n = CaNextAuth(tried, methods)
  OBVIOUS
<1>4. /\ ncTry' = 0 /\ ncTried' = tried /\ ncLast' = methods /\ ncCur' = n /\ ncKey' = 0
      /\ ncSt' = IF n = 0 THEN "none left" ELSE "begin"
      /\ ncConf' = ncConf
  BY <1>1, <1>2, <1>3 DEF Returns, CaReturn, Tries
<1>5. /\ ncExtra' \in {ncExtra, ncExtra + 1} /\ ncExtra' \in 0..CaExtra /\ ncSt # "none left"
      /\ result # "failure" => ncExtra' = ncExtra + 1
  BY DEF Returns
<1>6. /\ ncConf \in CaConfigs /\ ncCur \in 0..Len(ncConf) /\ ncTry \in 0..(CaTries - 1)
      /\ ncTried \subseteq CaMethods /\ CaMethod \notin ncTried /\ (ncCur # 0 => FirstOf(ncCur))
  BY <1>5 DEF CaInv, CaShape, CurInv
<1>7. CaMethod \in CaMethods /\ ncFails \in [CaMethods -> Nat]
  BY <1>6, AtHand DEF CaInv, CaShape
<1>8. \A i : FirstOf(i)' <=> FirstOf(i)
  BY <1>4 DEF FirstOf
<1>9. /\ n \in 0..Len(ncConf)
      /\ n # 0 => FirstOf(n) /\ ncConf[n].m \notin tried
      /\ n = 0 => \A i \in 1..Len(ncConf) : ncConf[i].m \in tried \/ ncConf[i].m \notin methods
  BY <1>3, <1>6, NextAuthIs
<1>10. CaShape'
  <2>1. (ncConf \in CaConfigs)' /\ (ncCur \in 0..Len(ncConf))'
    BY <1>4, <1>6, <1>9
  <2>2. (CaTries \in Nat \ {0})' /\ (Len(CaKeys) \in Nat)'
    <3>1. CASE n = 0
      <4>1. CaTries' = 1 /\ CaKeys' = <<>>
        BY <1>4, <3>1 DEF CaTries, CaKeys
      <4> QED BY <4>1
    <3>2. CASE n # 0
      <4>1. n \in 1..Len(ncConf)
        BY <1>9, <3>2 DEF FirstOf
      <4> QED BY <1>4, <1>6, <3>2, <4>1, ConfigMeans DEF CaTries, CaKeys
    <3> QED BY <3>1, <3>2
  <2>3. (ncTry \in 0..(CaTries - 1) /\ ncKey \in 0..Len(CaKeys))'
    <3>1. PICK c : c = CaTries'
      OBVIOUS
    <3>2. PICK k : k = Len(CaKeys)'
      OBVIOUS
    <3>3. c \in Nat \ {0} /\ k \in Nat
      BY <2>2, <3>1, <3>2
    <3>4. 0 \in 0..(c - 1) /\ 0 \in 0..k
      BY <3>3
    <3> QED BY <1>4, <3>1, <3>2, <3>4
  <2>4. tried \subseteq CaMethods
    BY <1>1, <1>6, <1>7
  <2>5. ncFails' \in [CaMethods -> Nat]
    BY FailsCounted
  <2> QED BY <1>4, <1>5, <2>1, <2>3, <2>4, <2>5 DEF CaShape
<1>11. ASSUME NEW m \in tried PROVE ncFails'[m] > 0
  <2>1. CASE m \in ncTried
    <3>1. m \in CaMethods /\ ncFails[m] > 0 /\ m # CaMethod
      BY <1>6, <2>1 DEF CaInv, CurInv
    <3>2. ncFails'[m] = ncFails[m]
      BY <3>1, FailsCounted
    <3> QED BY <3>1, <3>2
  <2>2. CASE m \notin ncTried
    <3>1. m = CaMethod /\ result = "failure"
      BY <1>1, <1>11, <2>2
    <3>2. ncFails'[m] = ncFails[m] + 1 /\ ncFails[m] \in Nat
      BY <1>7, <3>1, FailsCounted
    <3> QED BY <3>2
  <2> QED BY <2>1, <2>2
<1>12. CurInv'
  <2>1. ncSt' # "none left" => CaMethod' = ncConf[n].m /\ n # 0
    BY <1>4 DEF CaMethod
  <2>2. (FirstOf(ncCur))' <=> FirstOf(n)
    BY <1>4 DEF FirstOf
  <2> QED BY <1>4, <1>9, <1>11, <2>1, <2>2 DEF CurInv
<1>13. CaGivesUpLast'
  <2>1. SUFFICES ASSUME n = 0, NEW i \in 1..Len(ncConf)
                 PROVE  ncFails'[ncConf[i].m] > 0 \/ ncConf[i].m \notin methods
    BY <1>4 DEF CaGivesUpLast
  <2> QED BY <1>9, <1>11, <2>1
<1>14. TriesInv'
  <2>1. SUFFICES ASSUME NEW i, FirstOf(i)
                 PROVE  ncFails'[ncConf[i].m] <= EarlierFails(i)' + Allowed(i)'
    BY <1>4, <1>8 DEF TriesInv
  <2>2. FirstFacts(i)
    BY <2>1, FirstHas
  <2>3. /\ EarlierFails(i)' \in Nat /\ EarlierFails(i) <= EarlierFails(i)'
        /\ ncExtra' = ncExtra + 1 => EarlierFails(i)' = EarlierFails(i) + (ncConf[i].tries - 1)
    BY <1>4, <1>5, <2>2, RoundsGrow
  <2>4. Allowed(i)' = IF ncConf[i].m \in tried THEN ncConf[i].tries ELSE 0
    BY <1>4 DEF Allowed
  <2>5. CASE ncConf[i].m \in ncTried
    <3>1. ncConf[i].m # CaMethod /\ ncConf[i].m \in tried
      BY <1>1, <1>6, <2>5
    <3>2. ncFails'[ncConf[i].m] = ncFails[ncConf[i].m]
      BY <2>2, <3>1, FailsCounted DEF FirstFacts
    <3>3. Allowed(i)' = Allowed(i)
      BY <2>4, <2>5, <3>1 DEF Allowed
    <3> QED BY <2>2, <2>3, <3>2, <3>3 DEF FirstFacts
  <2>6. CASE ncConf[i].m \notin ncTried /\ result = "failure" /\ ncConf[i].m = CaMethod
    <3>1. ncFails'[ncConf[i].m] = ncFails[ncConf[i].m] + 1
      BY <2>2, <2>6, FailsCounted DEF FirstFacts
    <3>2. Allowed(i)' = ncConf[i].tries
      BY <1>1, <2>4, <2>6
    <3>3. Allowed(i) + 1 <= ncConf[i].tries
      <4>1. Allowed(i) = IF ncCur = i THEN ncTry ELSE 0
        BY <2>6 DEF Allowed
      <4> QED BY <2>2, <4>1 DEF FirstFacts
    <3> QED BY <2>2, <2>3, <3>1, <3>2, <3>3 DEF FirstFacts
  <2>7. CASE ncConf[i].m \notin ncTried /\ result = "failure" /\ ncConf[i].m # CaMethod
    <3>1. ncFails'[ncConf[i].m] = ncFails[ncConf[i].m]
      BY <2>2, <2>7, FailsCounted DEF FirstFacts
    <3>2. ncCur # i
      BY <2>2, <2>7 DEF FirstFacts
    <3>3. Allowed(i)' = 0 /\ Allowed(i) = 0
      BY <1>1, <2>4, <2>7, <3>2 DEF Allowed
    <3> QED BY <2>2, <2>3, <3>1, <3>3 DEF FirstFacts
  <2>8. CASE ncConf[i].m \notin ncTried /\ result # "failure"
    <3>1. ncFails'[ncConf[i].m] = ncFails[ncConf[i].m]
      BY <2>2, <2>8, FailsCounted DEF FirstFacts
    <3>2. Allowed(i)' = 0
      BY <1>1, <2>4, <2>8
    <3>3. Allowed(i) <= ncConf[i].tries - 1
      <4>1. Allowed(i) = IF ncCur = i THEN ncTry ELSE 0
        BY <2>8 DEF Allowed
      <4> QED BY <2>2, <4>1 DEF FirstFacts
    <3>4. EarlierFails(i)' = EarlierFails(i) + (ncConf[i].tries - 1)
      BY <1>5, <2>3, <2>8
    <3> QED BY <2>2, <2>3, <3>1, <3>2, <3>3, <3>4 DEF FirstFacts
  <2> QED BY <2>5, <2>6, <2>7, <2>8
<1> QED BY <1>10, <1>12, <1>13, <1>14

Kept == CaShape' /\ CurInv' /\ TriesInv' /\ CaGivesUpLast'

LEMMA Returned ==
    ASSUME CaInv, NEW result, NEW list, Returns(result, list)
    PROVE  Kept
BY Retried, Chosen DEF Kept

(* The dialogue goes on at the same key or at another one.                  *)
LEMMA AtAKey ==
    ASSUME CaInv, Goes, ncExtra' \in 0..CaExtra, ncKey' \in 0..Len(CaKeys),
           ncSt' \in {"begin", "reply", "ack", "prompt", "mech", "token", "ok", "error"},
           ncSt' = "ack" => ncKey' > 0
    PROVE  Kept
<1>1. UNCHANGED <<ncConf, ncCur, ncTry, ncTried, ncLast, ncFails>>
  BY DEF Goes
<1>2. CaTries' = CaTries /\ CaKeys' = CaKeys
  BY <1>1 DEF CaTries, CaKeys
<1>3. CaShape'
  BY <1>1, <1>2 DEF CaInv, CaShape
<1> QED BY <1>3, GoesOn DEF Kept

LEMMA OneUp ==
    ASSUME NEW k \in Nat, NEW n \in 0..k, n < k
    PROVE  n + 1 \in 0..k /\ n + 1 > 0
OBVIOUS

(* publicKeyCallback goes to its next signer or is at its end.              *)
LEMMA KeyOffered ==
    ASSUME CaInv, NEW list, CaOfferKey(list), ncConf' = ncConf, ncSt # "none left",
           ncExtra' \in {ncExtra, ncExtra + 1}, ncExtra' \in 0..CaExtra
    PROVE  Kept
<1>1. CASE ncKey < Len(CaKeys)
  <2>1. /\ ncKey' = ncKey + 1 /\ ncSt' = "ack"
        /\ UNCHANGED <<ncCur, ncTry, ncTried, ncLast, ncFails>>
    BY <1>1 DEF CaOfferKey
  <2>2. ncKey' \in 0..Len(CaKeys) /\ ncKey' > 0
    <3>1. PICK k : k = Len(CaKeys)
      OBVIOUS
    <3>2. ncKey \in 0..k /\ ncKey < k
      BY <1>1, <3>1 DEF CaInv, CaShape
    <3>3. k \in Nat
      BY <3>1, AtHand DEF CaInv, CaShape
    <3>4. ncKey + 1 \in 0..k /\ ncKey + 1 > 0
      BY <3>2, <3>3, OneUp
    <3> QED BY <2>1, <3>1, <3>4
  <2>3. Goes
    BY <2>1 DEF Goes
  <2> QED BY <2>1, <2>2, <2>3, AtAKey
<1>2. CASE ~(ncKey < Len(CaKeys))
  <2>1. CaReturn("failure", list)
    BY <1>2 DEF CaOfferKey
  <2>2. Returns("failure", list)
    BY <2>1 DEF Returns
  <2> QED BY <2>2, Returned
<1> QED BY <1>1, <1>2

(* The dialogue waits or stops where it is.                                 *)
LEMMA Stays ==
    ASSUME CaInv, UNCHANGED <<ncConf, ncCur, ncTry, ncKey, ncTried, ncLast, ncFails>>,
           ncExtra' \in {ncExtra, ncExtra + 1}, ncExtra' \in 0..CaExtra, ncSt # "none left",
           ncSt' \in {"reply", "ack", "prompt", "mech", "token", "ok", "error"},
           ncSt' = "ack" => ncSt = "ack"
    PROVE  Kept
<1>1. Goes
  BY DEF Goes
<1>2. ncKey' \in 0..Len(CaKeys) /\ (ncSt' = "ack" => ncKey' > 0)
  BY DEF CaInv, CaShape
<1> QED BY <1>1, <1>2, AtAKey

------------------------------------------------------------------------------
LEMMA ExtraIsNat ==
    ASSUME CaInv
    PROVE  ncExtra \in Nat /\ ncExtra \in 0..CaExtra /\ (ncExtra < CaExtra => ncExtra + 1 \in 0..CaExtra)
<1>1. ncExtra \in 0..CaExtra /\ CaExtra \in Nat
  BY CaAssumption DEF CaInv, CaShape
<1> QED BY <1>1

LEMMA BeginKeeps ==
    ASSUME CaInv, CaBegin
    PROVE  Kept /\ CaSignsAcked'
<1>1. ncSt = "begin" /\ ncExtra \in 0..CaExtra
  BY ExtraIsNat DEF CaBegin
<1>2. CaMethod \in CaMethods
  BY AtHand DEF CaInv, CaShape
<1>3. ncExtra' = ncExtra /\ UNCHANGED <<ncConf, ncAcked, ncSigned>>
  BY <1>2 DEF CaBegin, CaWait, CaMethods
<1>4. CASE CaMethod = "publickey"
  <2>1. CaOfferKey(NilList)
    BY <1>4 DEF CaBegin
  <2> QED BY <1>1, <1>3, <2>1, KeyOffered DEF CaInv, CaSignsAcked
<1>5. CASE CaMethod # "publickey"
  <2>1. CaWait("reply") \/ CaWait("prompt") \/ CaWait("mech")
    BY <1>2, <1>5 DEF CaBegin, CaMethods
  <2>2. /\ UNCHANGED <<ncConf, ncCur, ncTry, ncKey, ncTried, ncLast, ncFails>>
        /\ ncSt' \in {"reply", "prompt", "mech"}
    BY <2>1 DEF CaWait
  <2> QED BY <1>1, <1>3, <2>2, Stays DEF CaInv, CaSignsAcked
<1> QED BY <1>4, <1>5

LEMMA StopKeeps ==
    ASSUME CaInv, NEW outcome \in {"ok", "error"}, CaStop(outcome), ncSt # "none left"
    PROVE  Kept /\ CaSignsAcked'
<1>1. /\ UNCHANGED <<ncConf, ncCur, ncTry, ncKey, ncTried, ncLast, ncFails, ncExtra, ncAcked, ncSigned>>
      /\ ncSt' = outcome
  BY DEF CaStop
<1>2. ncExtra' \in 0..CaExtra
  BY <1>1, ExtraIsNat
<1>3. Kept
  BY <1>1, <1>2, Stays
<1> QED BY <1>1, <1>3 DEF CaInv, CaSignsAcked

LEMMA WaitKeeps ==
    ASSUME CaInv, NEW what \in {"reply", "ack", "prompt", "token"}, CaWait(what), ncSt # "none left",
           what = "ack" => ncSt = "ack",
           ncExtra' = ncExtra \/ (ncExtra < CaExtra /\ ncExtra' = ncExtra + 1)
    PROVE  Kept /\ CaSignsAcked'
<1>1. /\ UNCHANGED <<ncConf, ncCur, ncTry, ncKey, ncTried, ncLast, ncFails, ncAcked, ncSigned>>
      /\ ncSt' = what
  BY DEF CaWait
<1>2. ncExtra' \in 0..CaExtra /\ ncExtra' \in {ncExtra, ncExtra + 1}
  BY ExtraIsNat
<1>3. Kept
  BY <1>1, <1>2, Stays
<1> QED BY <1>1, <1>3 DEF CaInv, CaSignsAcked

LEMMA ConfirmKeeps ==
    ASSUME CaInv, NEW k, CaConfirmKeyAck(k)
    PROVE  Kept /\ CaSignsAcked'
<1>1. /\ ncSt = "ack" /\ ncAcked' = ncAcked \cup {k} /\ ncConf' = ncConf /\ ncExtra' = ncExtra
      /\ ncExtra \in 0..CaExtra
  BY ExtraIsNat DEF CaConfirmKeyAck
<1>2. CASE KeyAcked(k)
  <2>1. /\ ncSigned' = ncSigned \cup {CaKeys[ncKey]} /\ ncSt' = "reply"
        /\ UNCHANGED <<ncCur, ncTry, ncKey, ncTried, ncLast, ncFails>>
    BY <1>2 DEF CaConfirmKeyAck
  <2>2. Kept
    BY <1>1, <2>1, Stays
  <2>3. CaSignsAcked'
    BY <1>1, <1>2, <2>1 DEF CaInv, CaSignsAcked, KeyAcked
  <2> QED BY <2>2, <2>3
<1>3. CASE ~KeyAcked(k)
  <2>1. CaOfferKey(ncKeyList) /\ ncSigned' = ncSigned
    BY <1>3 DEF CaConfirmKeyAck
  <2>2. Kept
    BY <1>1, <2>1, KeyOffered
  <2> QED BY <1>1, <2>1, <2>2 DEF CaInv, CaSignsAcked
<1> QED BY <1>2, <1>3

LEMMA RefusedKeeps ==
    ASSUME CaInv, CaKeyRefused
    PROVE  Kept /\ CaSignsAcked'
<1>1. /\ ncSt = "ack" /\ CaOfferKey(ncKeyList) /\ UNCHANGED <<ncConf, ncExtra, ncAcked, ncSigned>>
      /\ ncExtra \in 0..CaExtra
  BY ExtraIsNat DEF CaKeyRefused
<1>2. Kept
  BY <1>1, KeyOffered
<1> QED BY <1>1, <1>2 DEF CaInv, CaSignsAcked

LEMMA FailureKeeps ==
    ASSUME CaInv, NEW list, NEW partial \in BOOLEAN, CaFailure(list, partial)
    PROVE  Kept /\ CaSignsAcked'
<1>1. /\ ncSt # "none left" /\ UNCHANGED <<ncConf, ncAcked, ncSigned>>
      /\ ~partial \/ ncExtra < CaExtra
      /\ ncExtra' = IF partial THEN ncExtra + 1 ELSE ncExtra
  BY DEF CaFailure
<1>2. ncExtra' \in {ncExtra, ncExtra + 1} /\ ncExtra' \in 0..CaExtra
  BY <1>1, ExtraIsNat
<1>3. Kept
  <2>1. CASE CaOfferKey(list)
    BY <1>1, <1>2, <2>1, KeyOffered
  <2>2. CASE CaReturn(IF partial THEN "partial" ELSE "failure", list)
    <3>1. Returns(IF partial THEN "partial" ELSE "failure", list)
      BY <1>1, <1>2, <2>2 DEF Returns
    <3> QED BY <3>1, Returned
  <2> QED BY <2>1, <2>2 DEF CaFailure
<1> QED BY <1>1, <1>3 DEF CaInv, CaSignsAcked

LEMMA CaInitInv ==
    ASSUME CaInit
    PROVE  CaInv
<1>1. Len(ncConf) \in Nat /\ CaExtra \in Nat
  BY ConfigMeans, CaAssumption DEF CaInit
<1>2. CaTries = 1 /\ CaKeys = <<>> /\ ncFails \in [CaMethods -> Nat]
  BY DEF CaInit, CaTries, CaKeys
<1>3. CaShape
  BY <1>1, <1>2 DEF CaInit, CaShape
<1>4. CurInv
  BY DEF CaInit, CurInv
<1>5. TriesInv
  <2>1. SUFFICES ASSUME NEW i \in 1..Len(ncConf)
                 PROVE  ncFails[ncConf[i].m] <= EarlierFails(i) + Allowed(i)
    BY DEF TriesInv
  <2>2. ncConf[i].m \in CaMethods /\ ncConf[i].tries \in Nat \ {0}
    BY ConfigMeans DEF CaInit
  <2>3. ncFails[ncConf[i].m] = 0
    BY <2>2 DEF CaInit
  <2>4. i # 0
    BY <1>1
  <2>5. Allowed(i) = 0
    BY <2>4 DEF CaInit, Allowed
  <2>6. EarlierFails(i) \in Nat
    BY <2>2, Rounds DEF CaInit, EarlierFails
  <2> QED BY <2>3, <2>5, <2>6
<1> QED BY <1>3, <1>4, <1>5 DEF CaInit, CaInv, CaSignsAcked, CaGivesUpLast

LEMMA CaNextInv ==
    ASSUME CaInv, [CaNext]_caVars
    PROVE  CaInv'
<1>1. CASE UNCHANGED caVars
  BY <1>1 DEF caVars, CaInv, CaShape, CurInv, TriesInv, CaSignsAcked, CaGivesUpLast,
              FirstOf, EarlierFails, Allowed, CaMethod, CaTries, CaKeys
<1>2. CASE CaNext
  <2>0. SUFFICES Kept /\ CaSignsAcked'
    BY DEF Kept, CaInv
  <2>1. CASE CaBegin
    BY <2>1, BeginKeeps
  <2>2. CASE CaCallbackFails
    BY <2>2, StopKeeps DEF CaCallbackFails
  <2>3. CASE CaKeyRefused
    BY <2>3, RefusedKeeps
  <2>4. CASE CaSuccess
    BY <2>4, StopKeeps DEF CaSuccess
  <2>5. CASE CaBanner
    BY <2>5, WaitKeeps DEF CaBanner
  <2>6. CASE CaPrompt
    BY <2>6, WaitKeeps DEF CaPrompt
  <2>7. CASE CaToken
    <3>1. ncSt # "none left"
      BY <2>7 DEF CaToken
    <3>2. CASE CaWait("reply") /\ UNCHANGED ncExtra
      <4>1. CaWait("reply") /\ ncExtra' = ncExtra
        BY <3>2
      <4> QED BY <3>1, <4>1, WaitKeeps
    <3>3. CASE ncExtra < CaExtra /\ ncExtra' = ncExtra + 1 /\ CaWait("token")
      <4>1. CaWait("token") /\ ncExtra < CaExtra /\ ncExtra' = ncExtra + 1
        BY <3>3
      <4> QED BY <3>1, <4>1, WaitKeeps
    <3> QED BY <2>7, <3>2, <3>3 DEF CaToken
  <2>8. CASE CaUnexpected
    BY <2>8, StopKeeps DEF CaUnexpected
  <2>9. CASE \E cf \in CaConfigs : \E i \in 1..Len(cf) : \E n \in 1..Len(cf[i].keys) : CaConfirmKeyAck(cf[i].keys[n])
    BY <2>9, ConfirmKeeps
  <2>10. CASE \E list \in CaLists, partial \in BOOLEAN : CaFailure(list, partial)
    BY <2>10, FailureKeeps
  <2> QED BY <1>2, <2>1, <2>2, <2>3, <2>4, <2>5, <2>6, <2>7, <2>8, <2>9, <2>10 DEF CaNext
<1> QED BY <1>1, <1>2

LEMMA CaInvSafe ==
    ASSUME CaInv
    PROVE  CaTypeOK /\ CaSignsAcked /\ CaFailsBounded /\ CaGivesUpLast
<1>1. CaTypeOK
  BY DEF CaInv, CaShape, CaTypeOK
<1>2. CaFailsBounded
  <2>1. SUFFICES ASSUME NEW i \in 1..Len(ncConf), \A j \in 1..(i - 1) : ncConf[j].m # ncConf[i].m
                 PROVE  ncFails[ncConf[i].m] <= ncConf[i].tries + ncExtra * (ncConf[i].tries - 1)
    BY DEF CaFailsBounded
  <2>2. FirstOf(i)
    BY <2>1 DEF FirstOf
  <2>3. FirstFacts(i)
    BY <2>2, FirstHas
  <2>4. Allowed(i) <= ncConf[i].tries
    BY <2>3 DEF FirstFacts, Allowed
  <2>5. ncFails[ncConf[i].m] <= ncConf[i].tries + EarlierFails(i)
    BY <2>3, <2>4 DEF FirstFacts
  <2> QED BY <2>5 DEF EarlierFails
<1> QED BY <1>1, <1>2 DEF CaInv

(* Whatever the server answers, clientAuthenticate signs only with keys the *)
(* server has acknowledged, tries no method more often than it may, and     *)
(* gives up only when nothing that the server lists is left.                *)
THEOREM ClientAuthIsSafe == CaSpec => [](CaTypeOK /\ CaSignsAcked /\ CaFailsBounded /\ CaGivesUpLast)
<1>1. CaInit => CaInv
  BY CaInitInv
<1>2. CaInv /\ [CaNext]_caVars => CaInv'
  BY CaNextInv
<1>3. CaInv => CaTypeOK /\ CaSignsAcked /\ CaFailsBounded /\ CaGivesUpLast
  BY CaInvSafe
<1> QED BY <1>1, <1>2, <1>3, PTL DEF CaSpec

------------------------------------------------------------------------------
(* The key agent.                                                           *)

AgAddOps == {"add", "addConstrained"}
AgOps == AgAddOps \cup {"remove", "removeAll", "lock", "unlock", "list", "sign", "extension", "unknown"}

(* A request that a client can make: the message of an added key is the one *)
(* that the parser for its type reads, and its lifetime is a number.        *)
AgGood(r) ==
    /\ r.op \in AgOps
    /\ r.op \in AgAddOps => AgParses(r) /\ AgLifetime(r.cs) \in Nat

(* One goroutine holds the client while its request or the reply is on the  *)
(* way.                                                                     *)
AgCallInv ==
    /\ agPlan \in AgPlans /\ agTime \in Nat
    /\ agWire = [dir |-> agWire.dir, req |-> agWire.req, rep |-> agWire.rep]
    /\ agCall = [u \in AgUsers |-> agCall[u]] /\ \A u \in AgUsers : agCall[u] = AgNoReq \/ AgGood(agCall[u])
    /\ agWire.dir = "idle" \/ (agBusy \in AgUsers /\ agCall[agBusy] = agWire.req /\ agCall[agBusy] # AgNoReq)
    /\ agBusy = AgNobody => agWire.dir = "idle"

(* Every key in the ring was added and not removed since, and until then.   *)
AgKeysInv == \A k \in agKeys : k.expire \in Nat /\ \E a \in agAdded : a.id = k.id /\ a.until = k.expire

AgInv == AgCallInv /\ AgKeysInv /\ AgNoExpired /\ AgKept

(* parseConstraints reads the lifetime that Add has written.                *)
LEMMA AgLifetimeIs ==
    ASSUME NEW life \in Nat, NEW confirm \in BOOLEAN
    PROVE  AgLifetime(AgConstraints(life, confirm)) = life
<1>1. CASE life = 0 /\ ~confirm
  <2>1. AgConstraints(life, confirm) = <<>>
    BY <1>1 DEF AgConstraints
  <2>2. AgLifetime(<<>>) = 0
    BY DEF AgLifetime
  <2> QED BY <1>1, <2>1, <2>2
<1>2. CASE life = 0 /\ confirm
  <2>1. PICK cs : cs = AgConstraints(life, confirm)
    OBVIOUS
  <2>2. cs = <<[c |-> "confirm", secs |-> 0]>>
    BY <1>2, <2>1 DEF AgConstraints
  <2>3. {i \in 1..Len(cs) : cs[i].c = "lifetime"} = {}
    BY <2>2
  <2> QED BY <1>2, <2>1, <2>3 DEF AgLifetime
<1>3. CASE life # 0
  <2>1. PICK cs : cs = AgConstraints(life, confirm)
    OBVIOUS
  <2>2. Len(cs) \in {1, 2} /\ cs[1].c = "lifetime" /\ cs[1].secs = life /\ (Len(cs) = 2 => cs[2].c = "confirm")
    BY <1>3, <2>1 DEF AgConstraints
  <2>3. {i \in 1..Len(cs) : cs[i].c = "lifetime"} = {1}
    BY <2>2
  <2>4. (CHOOSE i \in {1} : \A j \in {1} : j <= i) = 1
    OBVIOUS
  <2> QED BY <2>1, <2>2, <2>3, <2>4 DEF AgLifetime
<1> QED BY <1>1, <1>2, <1>3

(* The parsers of insertIdentity read the messages of insertKey and         *)
(* insertCert.                                                              *)
LEMMA AgParsersFit ==
    ASSUME NEW id, id.kind \in {"rsa", "dsa", "ecdsa", "ed25519"}, id.cert \in BOOLEAN
    PROVE  AgParserFields(<<id.kind, id.cert>>) = AgFields(id)
<1>1. PICK k, c : k = id.kind /\ c = id.cert
  OBVIOUS
<1>2. AgParserFields(<<k, c>>) =
        CASE k = "rsa"     -> IF c THEN {"cert", "D", "Iqmp", "P", "Q"} ELSE {"N", "E", "D", "Iqmp", "P", "Q"}
          [] k = "dsa"     -> IF c THEN {"cert", "X"} ELSE {"P", "Q", "G", "Y", "X"}
          [] k = "ecdsa"   -> IF c THEN {"cert", "D"} ELSE {"Curve", "KeyBytes", "D"}
          [] k = "ed25519" -> IF c THEN {"cert", "Pub", "Priv"} ELSE {"Pub", "Priv"}
  BY <1>1 DEF AgParserFields
<1> QED BY <1>1, <1>2 DEF AgFields

(* Every request of a client is good.                                       *)
LEMMA AgRequestsGood == ASSUME agPlan \in AgPlans, NEW r \in AgRequests PROVE AgGood(r)
<1>1. ASSUME NEW id \in agPlan.ids, NEW l \in AgLives, r = AgAddReq(id, l.secs, l.confirm) PROVE AgGood(r)
  <2>1. /\ id.kind \in {"rsa", "dsa", "ecdsa", "ed25519"} /\ id.cert \in BOOLEAN
        /\ l.secs \in Nat /\ l.confirm \in BOOLEAN
    BY AgAssumption, Zenon
  <2>2. PICK cs, op : cs = AgConstraints(l.secs, l.confirm) /\ op = IF cs = <<>> THEN "add" ELSE "addConstrained"
    OBVIOUS
  <2>3. r = [op |-> op, type |-> <<id.kind, id.cert>>, id |-> id, fields |-> AgFields(id), cs |-> cs]
    BY <1>1, <2>2 DEF AgAddReq
  <2>4. r.op = op /\ r.cs = cs /\ r.type = <<id.kind, id.cert>> /\ r.fields = AgFields(id)
    BY <2>3
  <2>5. AgParses(r)
    BY <2>1, <2>4, AgParsersFit DEF AgParses
  <2>6. AgLifetime(r.cs) \in Nat
    BY <2>1, <2>2, <2>4, AgLifetimeIs
  <2>7. op \in AgAddOps
    BY <2>2 DEF AgAddOps
  <2> QED BY <2>4, <2>5, <2>6, <2>7 DEF AgGood, AgOps
<1>2. \/ \E id \in agPlan.ids, l \in AgLives : r = AgAddReq(id, l.secs, l.confirm)
      \/ r.op \in {"remove", "removeAll", "lock", "unlock", "list", "sign", "extension", "unknown"}
  BY DEF AgRequests
<1>3. CASE r.op \in {"remove", "removeAll", "lock", "unlock", "list", "sign", "extension", "unknown"}
  BY <1>3 DEF AgGood, AgOps, AgAddOps
<1> QED BY <1>1, <1>2, <1>3

(* AgInv holds at first.                                                    *)
LEMMA AgInitInv == AgInit => AgInv
<1> SUFFICES ASSUME AgInit PROVE AgInv
  OBVIOUS
<1>1. AgCallInv
  BY DEF AgInit, AgCallInv, AgIdle
<1>2. AgKeysInv /\ AgNoExpired /\ AgKept
  BY DEF AgInit, AgKeysInv, AgNoExpired, AgKept, AgIdle
<1> QED BY <1>1, <1>2 DEF AgInv

(* What the server answers with, whatever the request.                      *)
AgAnswers(rep) ==
    /\ agWire.dir = "request" /\ agWire' = [dir |-> "reply", req |-> agWire.req, rep |-> rep]
    /\ UNCHANGED <<agPlan, agTime, agBusy, agCall, agCount>>

(* A step of the server.                                                    *)
LEMMA AgServeIs ==
    ASSUME AgCallInv, AgServe
    PROVE  \E rep, req :
              /\ AgAnswers(rep) /\ req = agWire.req /\ AgGood(req)
              /\ \/ /\ req.op \in AgAddOps /\ agLocked = Unlocked /\ rep = AgSuccess
                    /\ \E exp \in Nat : /\ agKeys' = agKeys \cup {[id |-> req.id, expire |-> exp]}
                                        /\ agAdded' = agAdded \cup {[id |-> req.id, until |-> exp]}
                 \/ /\ req.op = "remove" /\ agLocked = Unlocked /\ rep = AgSuccess
                    /\ agKeys' = {k \in agKeys : k.id # req.id} /\ agAdded' = {a \in agAdded : a.id # req.id}
                 \/ /\ req.op = "removeAll" /\ agLocked = Unlocked /\ rep = AgSuccess /\ agKeys' = {} /\ agAdded' = {}
                 \/ /\ req.op \in {"lock", "unlock", "extension", "unknown"}
                    /\ rep \in {AgSuccess, AgFailure} /\ UNCHANGED <<agKeys, agAdded>>
                 \/ /\ req.op \in AgOps \ {"list"} /\ agLocked # Unlocked /\ rep = AgFailure /\ UNCHANGED <<agKeys, agAdded>>
                 \/ /\ req.op = "list" /\ agLocked # Unlocked /\ rep = [ok |-> TRUE, at |-> agTime, ids |-> {}]
                    /\ UNCHANGED <<agKeys, agAdded>>
                 \/ /\ req.op = "remove" /\ rep = AgFailure /\ UNCHANGED <<agKeys, agAdded>>
                 \/ /\ req.op = "list" /\ agLocked = Unlocked /\ agKeys' = AgExpireKeys(agKeys) /\ UNCHANGED agAdded
                    /\ rep = [ok |-> TRUE, at |-> agTime, ids |-> {k.id : k \in agKeys'}]
                 \/ /\ req.op = "sign" /\ agLocked = Unlocked /\ agKeys' = AgExpireKeys(agKeys) /\ UNCHANGED agAdded
                    /\ \/ rep = AgFailure
                       \/ rep = [ok |-> TRUE, at |-> agTime, by |-> req.id] /\ \E k \in agKeys' : k.id = req.id
<1>1. PICK req : req = agWire.req
  OBVIOUS
<1>2. AgGood(req) /\ req.op \in AgOps /\ agWire.dir = "request" /\ UNCHANGED <<agPlan, agTime, agBusy, agCall, agCount>>
  BY <1>1 DEF AgServe, AgCallInv, AgGood
<1>3. ASSUME NEW rep, AgOk(rep) PROVE AgAnswers(rep)
  BY <1>2, <1>3 DEF AgOk, AgAnswers, AgCallInv
<1>4. CASE req.op \in AgAddOps
  <2>1. AgAdd(req)
    BY <1>1, <1>4 DEF AgServe, AgAddOps
  <2>2. AgParses(req) /\ AgLifetime(req.cs) \in Nat
    BY <1>2, <1>4 DEF AgGood
  <2>3. CASE agLocked = Unlocked
    <3>1. PICK exp : exp = IF AgLifetime(req.cs) = 0 THEN 0 ELSE agTime + AgLifetime(req.cs)
      OBVIOUS
    <3>2. exp \in Nat
      BY <2>2, <3>1 DEF AgCallInv
    <3>3. /\ agKeys' = agKeys \cup {[id |-> req.id, expire |-> exp]}
          /\ agAdded' = agAdded \cup {[id |-> req.id, until |-> exp]} /\ AgOk(AgSuccess)
      BY <2>1, <2>2, <2>3, <3>1 DEF AgAdd, AgHistory
    <3> QED BY <1>1, <1>2, <1>3, <1>4, <2>3, <3>2, <3>3
  <2>4. CASE agLocked # Unlocked
    <3>1. UNCHANGED <<agKeys, agAdded>> /\ AgOk(AgFailure)
      BY <2>1, <2>4 DEF AgAdd
    <3>2. req.op \in AgOps \ {"list"}
      BY <1>2, <1>4 DEF AgAddOps
    <3> QED BY <1>1, <1>2, <1>3, <2>4, <3>1, <3>2
  <2> QED BY <2>3, <2>4
<1>5. CASE req.op = "remove"
  <2>1. AgRemove(req)
    BY <1>1, <1>5 DEF AgServe, AgAddOps
  <2>2. \/ /\ agLocked = Unlocked /\ AgOk(AgSuccess) /\ agKeys' = {k \in agKeys : k.id # req.id}
           /\ agAdded' = {a \in agAdded : a.id # req.id}
        \/ AgOk(AgFailure) /\ UNCHANGED <<agKeys, agAdded>>
    BY <2>1 DEF AgRemove, AgRemoveLocked, AgHistory
  <2> QED BY <1>1, <1>2, <1>3, <1>5, <2>2
<1>6. CASE req.op = "removeAll"
  <2>1. AgRemoveAll
    BY <1>1, <1>6 DEF AgServe, AgAddOps
  <2>2. \/ agLocked = Unlocked /\ AgOk(AgSuccess) /\ agKeys' = {} /\ agAdded' = {}
        \/ agLocked # Unlocked /\ AgOk(AgFailure) /\ UNCHANGED <<agKeys, agAdded>>
    BY <2>1 DEF AgRemoveAll, AgHistory
  <2>3. req.op \in AgOps \ {"list"}
    BY <1>2, <1>6
  <2> QED BY <1>1, <1>2, <1>3, <1>6, <2>2, <2>3
<1>7. CASE req.op \in {"lock", "unlock", "extension", "unknown"}
  <2>1. UNCHANGED <<agKeys, agAdded>> /\ (AgOk(AgSuccess) \/ AgOk(AgFailure))
    <3>1. CASE req.op = "lock"
      <4>1. AgLock(req)
        BY <1>1, <3>1 DEF AgServe
      <4> QED BY <4>1 DEF AgLock
    <3>2. CASE req.op = "unlock"
      <4>1. AgUnlock(req)
        BY <1>1, <3>2 DEF AgServe
      <4> QED BY <4>1 DEF AgUnlock
    <3>3. CASE req.op \in {"extension", "unknown"}
      BY <1>1, <3>3 DEF AgServe
    <3> QED BY <1>7, <3>1, <3>2, <3>3
  <2> QED BY <1>1, <1>2, <1>3, <1>7, <2>1
<1>8. CASE req.op = "list"
  <2>1. AgList
    BY <1>1, <1>8 DEF AgServe, AgAddOps
  <2>2. CASE agLocked # Unlocked
    <3>1. AgOk([ok |-> TRUE, at |-> agTime, ids |-> {}]) /\ UNCHANGED <<agKeys, agAdded>>
      BY <2>1, <2>2 DEF AgList
    <3> QED BY <1>1, <1>2, <1>3, <1>8, <2>2, <3>1
  <2>3. CASE agLocked = Unlocked
    <3>1. /\ agKeys' = AgExpireKeys(agKeys) /\ UNCHANGED agAdded
          /\ AgOk([ok |-> TRUE, at |-> agTime, ids |-> {k.id : k \in agKeys'}])
      BY <2>1, <2>3 DEF AgList
    <3> QED BY <1>1, <1>2, <1>3, <1>8, <2>3, <3>1
  <2> QED BY <2>2, <2>3
<1>9. CASE req.op = "sign"
  <2>1. AgSign(req)
    BY <1>1, <1>9 DEF AgServe, AgAddOps
  <2>2. CASE agLocked # Unlocked
    <3>1. AgOk(AgFailure) /\ UNCHANGED <<agKeys, agAdded>>
      BY <2>1, <2>2 DEF AgSign
    <3>2. req.op \in AgOps \ {"list"}
      BY <1>2, <1>9
    <3> QED BY <1>1, <1>2, <1>3, <2>2, <3>1, <3>2
  <2>3. CASE agLocked = Unlocked
    <3>1. /\ agKeys' = AgExpireKeys(agKeys) /\ UNCHANGED agAdded
          /\ \/ AgOk(AgFailure)
             \/ AgOk([ok |-> TRUE, at |-> agTime, by |-> req.id]) /\ \E k \in agKeys' : k.id = req.id
      BY <2>1, <2>3 DEF AgSign
    <3> QED BY <1>1, <1>2, <1>3, <1>9, <2>3, <3>1
  <2> QED BY <2>2, <2>3
<1> QED BY <1>2, <1>4, <1>5, <1>6, <1>7, <1>8, <1>9 DEF AgOps

(* A key that stays after expireKeysLocked has not expired, and one without *)
(* a lifetime goes only together with one of the same identity that has.    *)
LEMMA AgExpireIs ==
    /\ \A k \in AgExpireKeys(agKeys) : k \in agKeys /\ (k.expire = 0 \/ ~(agTime > k.expire))
    /\ \A k \in agKeys : k \in AgExpireKeys(agKeys) \/ \E j \in agKeys : j.id = k.id /\ j.expire # 0
BY DEF AgExpireKeys, AgExpired

(* The server's steps keep AgInv.                                           *)
LEMMA AgServeInv == ASSUME AgInv, AgServe PROVE AgInv'
<1>1. AgCallInv /\ AgKeysInv /\ AgKept
  BY DEF AgInv
<1>2. PICK rep, req :
              /\ AgAnswers(rep) /\ req = agWire.req /\ AgGood(req)
              /\ \/ /\ req.op \in AgAddOps /\ agLocked = Unlocked /\ rep = AgSuccess
                    /\ \E exp \in Nat : /\ agKeys' = agKeys \cup {[id |-> req.id, expire |-> exp]}
                                        /\ agAdded' = agAdded \cup {[id |-> req.id, until |-> exp]}
                 \/ /\ req.op = "remove" /\ agLocked = Unlocked /\ rep = AgSuccess
                    /\ agKeys' = {k \in agKeys : k.id # req.id} /\ agAdded' = {a \in agAdded : a.id # req.id}
                 \/ /\ req.op = "removeAll" /\ agLocked = Unlocked /\ rep = AgSuccess /\ agKeys' = {} /\ agAdded' = {}
                 \/ /\ req.op \in {"lock", "unlock", "extension", "unknown"}
                    /\ rep \in {AgSuccess, AgFailure} /\ UNCHANGED <<agKeys, agAdded>>
                 \/ /\ req.op \in AgOps \ {"list"} /\ agLocked # Unlocked /\ rep = AgFailure /\ UNCHANGED <<agKeys, agAdded>>
                 \/ /\ req.op = "list" /\ agLocked # Unlocked /\ rep = [ok |-> TRUE, at |-> agTime, ids |-> {}]
                    /\ UNCHANGED <<agKeys, agAdded>>
                 \/ /\ req.op = "remove" /\ rep = AgFailure /\ UNCHANGED <<agKeys, agAdded>>
                 \/ /\ req.op = "list" /\ agLocked = Unlocked /\ agKeys' = AgExpireKeys(agKeys) /\ UNCHANGED agAdded
                    /\ rep = [ok |-> TRUE, at |-> agTime, ids |-> {k.id : k \in agKeys'}]
                 \/ /\ req.op = "sign" /\ agLocked = Unlocked /\ agKeys' = AgExpireKeys(agKeys) /\ UNCHANGED agAdded
                    /\ \/ rep = AgFailure
                       \/ rep = [ok |-> TRUE, at |-> agTime, by |-> req.id] /\ \E k \in agKeys' : k.id = req.id
  BY <1>1, AgServeIs
<1>3. /\ agWire' = [dir |-> "reply", req |-> req, rep |-> rep]
      /\ UNCHANGED <<agPlan, agTime, agBusy, agCall, agCount>> /\ agTime \in Nat
  BY <1>1, <1>2 DEF AgAnswers, AgCallInv
<1>4. AgCallInv'
  BY <1>1, <1>2, <1>3 DEF AgCallInv, AgAnswers, AgGood, AgParses
<1>5. AgKeysInv'
  <2>1. CASE \E exp \in Nat : /\ agKeys' = agKeys \cup {[id |-> req.id, expire |-> exp]}
                              /\ agAdded' = agAdded \cup {[id |-> req.id, until |-> exp]}
    <3>1. PICK exp \in Nat : /\ agKeys' = agKeys \cup {[id |-> req.id, expire |-> exp]}
                             /\ agAdded' = agAdded \cup {[id |-> req.id, until |-> exp]}
      BY <2>1
    <3>2. PICK i, a : i = req.id /\ a = [id |-> i, until |-> exp]
      OBVIOUS
    <3>3. a.id = i /\ a.until = exp /\ a \in agAdded'
      BY <3>1, <3>2
    <3>4. SUFFICES ASSUME NEW k \in agKeys' PROVE k.expire \in Nat /\ \E b \in agAdded' : b.id = k.id /\ b.until = k.expire
      BY DEF AgKeysInv
    <3>5. CASE k \in agKeys
      <4>1. agAdded \subseteq agAdded'
        BY <3>1
      <4> QED BY <1>1, <3>5, <4>1 DEF AgKeysInv
    <3>6. CASE k = [id |-> i, expire |-> exp]
      <4>1. k.id = i /\ k.expire = exp
        BY <3>6
      <4> QED BY <3>3, <4>1
    <3> QED BY <3>1, <3>2, <3>4, <3>5, <3>6
  <2>2. CASE agKeys' = {k \in agKeys : k.id # req.id} /\ agAdded' = {a \in agAdded : a.id # req.id}
    BY <1>1, <2>2 DEF AgKeysInv
  <2>3. CASE agKeys' = {}
    BY <2>3 DEF AgKeysInv
  <2>4. CASE UNCHANGED <<agKeys, agAdded>>
    BY <1>1, <2>4 DEF AgKeysInv
  <2>5. CASE agKeys' = AgExpireKeys(agKeys) /\ UNCHANGED agAdded
    BY <1>1, <2>5, AgExpireIs DEF AgKeysInv
  <2> QED BY <1>2, <2>1, <2>2, <2>3, <2>4, <2>5
<1>6. AgKept'
  <2>1. CASE \E exp \in Nat : /\ agKeys' = agKeys \cup {[id |-> req.id, expire |-> exp]}
                              /\ agAdded' = agAdded \cup {[id |-> req.id, until |-> exp]}
    <3>1. PICK exp \in Nat : /\ agKeys' = agKeys \cup {[id |-> req.id, expire |-> exp]}
                             /\ agAdded' = agAdded \cup {[id |-> req.id, until |-> exp]}
      BY <2>1
    <3>2. SUFFICES ASSUME NEW a \in agAdded', a.until = 0, \A b \in agAdded' : b.id = a.id => b.until = 0
                   PROVE  \E k \in agKeys' : k.id = a.id
      BY DEF AgKept
    <3>3. CASE a \in agAdded
      BY <1>1, <3>1, <3>2, <3>3 DEF AgKept
    <3>4. CASE a = [id |-> req.id, until |-> exp]
      <4>1. PICK i, k : i = req.id /\ k = [id |-> i, expire |-> exp]
        OBVIOUS
      <4>2. k \in agKeys' /\ k.id = i /\ a.id = i
        BY <3>1, <3>4, <4>1
      <4> QED BY <4>2
    <3> QED BY <3>1, <3>2, <3>3, <3>4
  <2>2. CASE agKeys' = {k \in agKeys : k.id # req.id} /\ agAdded' = {a \in agAdded : a.id # req.id}
    <3>1. SUFFICES ASSUME NEW a \in agAdded', a.until = 0, \A b \in agAdded' : b.id = a.id => b.until = 0
                   PROVE  \E k \in agKeys' : k.id = a.id
      BY DEF AgKept
    <3>2. a \in agAdded /\ a.id # req.id /\ \A b \in agAdded : b.id = a.id => b.until = 0
      BY <2>2, <3>1
    <3>3. PICK k \in agKeys : k.id = a.id
      BY <1>1, <3>1, <3>2 DEF AgKept
    <3> QED BY <2>2, <3>2, <3>3
  <2>3. CASE agAdded' = {}
    BY <2>3 DEF AgKept
  <2>4. CASE UNCHANGED <<agKeys, agAdded>>
    BY <1>1, <2>4 DEF AgKept
  <2>5. CASE agKeys' = AgExpireKeys(agKeys) /\ UNCHANGED agAdded
    <3>1. SUFFICES ASSUME NEW a \in agAdded, a.until = 0, \A b \in agAdded : b.id = a.id => b.until = 0
                   PROVE  \E k \in agKeys' : k.id = a.id
      BY <2>5 DEF AgKept
    <3>2. PICK k \in agKeys : k.id = a.id
      BY <1>1, <3>1 DEF AgKept
    <3>3. ASSUME NEW j \in agKeys, j.id = k.id, j.expire # 0 PROVE FALSE
      BY <1>1, <3>1, <3>2, <3>3 DEF AgKeysInv
    <3> QED BY <2>5, <3>2, <3>3, AgExpireIs
  <2> QED BY <1>2, <2>1, <2>2, <2>3, <2>4, <2>5
<1>7. AgNoExpired'
  <2>1. agWire'.req = req /\ agWire'.rep = rep
    BY <1>3
  <2>2. ASSUME agKeys' = AgExpireKeys(agKeys), UNCHANGED agAdded, NEW k \in agKeys' PROVE AgAlive(k.id, agTime)'
    BY <1>1, <1>3, <2>2, AgExpireIs DEF AgKeysInv, AgAlive
  <2>3. CASE req.op \notin {"sign", "list"} \/ ~rep.ok
    BY <2>1, <2>3 DEF AgNoExpired
  <2>4. CASE req.op = "list" /\ rep = [ok |-> TRUE, at |-> agTime, ids |-> {}]
    BY <2>1, <2>4 DEF AgNoExpired
  <2>5. CASE /\ req.op = "list" /\ agKeys' = AgExpireKeys(agKeys) /\ UNCHANGED agAdded
             /\ rep = [ok |-> TRUE, at |-> agTime, ids |-> {k.id : k \in agKeys'}]
    <3>1. rep.at = agTime /\ rep.ids = {k.id : k \in agKeys'}
      BY <2>5
    <3>2. \A id \in rep.ids : AgAlive(id, agTime)'
      BY <2>2, <2>5, <3>1
    <3>3. agTime' = agTime
      BY <1>3
    <3> QED BY <2>1, <2>5, <3>1, <3>2, <3>3 DEF AgNoExpired, AgAlive
  <2>6. CASE /\ req.op = "sign" /\ agKeys' = AgExpireKeys(agKeys) /\ UNCHANGED agAdded
             /\ rep = [ok |-> TRUE, at |-> agTime, by |-> req.id] /\ \E k \in agKeys' : k.id = req.id
    <3>1. rep.at = agTime /\ AgAlive(req.id, agTime)'
      BY <2>2, <2>6
    <3>2. agTime' = agTime
      BY <1>3
    <3> QED BY <2>1, <2>6, <3>1, <3>2 DEF AgNoExpired, AgAlive
  <2>7. ~AgFailure.ok
    BY DEF AgFailure
  <2> QED BY <1>2, <2>3, <2>4, <2>5, <2>6, <2>7 DEF AgAddOps, AgOps
<1> QED BY <1>4, <1>5, <1>6, <1>7 DEF AgInv

(* Every step keeps AgInv.                                                  *)
LEMMA AgNextInv == AgInv /\ [AgNext]_agVars => AgInv'
<1> SUFFICES ASSUME AgInv, [AgNext]_agVars PROVE AgInv'
  OBVIOUS
<1>1. AgCallInv /\ AgKeysInv /\ AgKept /\ AgNoExpired /\ AgNobody \notin AgUsers
  BY AgAssumption DEF AgInv, AgNobody
<1>2. ASSUME AgCallInv', UNCHANGED <<agKeys, agAdded>>,
             agWire'.dir = "reply" => agWire' = agWire
      PROVE  AgInv'
  <2>1. AgKeysInv' /\ AgKept'
    BY <1>1, <1>2 DEF AgKeysInv, AgKept
  <2>2. AgNoExpired'
    BY <1>1, <1>2 DEF AgNoExpired, AgAlive
  <2> QED BY <1>2, <2>1, <2>2 DEF AgInv
<1>3. CASE UNCHANGED agVars
  <2>1. AgCallInv'
    BY <1>1, <1>3 DEF agVars, AgCallInv, AgGood, AgParses
  <2> QED BY <1>2, <1>3, <2>1 DEF agVars
<1>4. CASE AgTick
  <2>1. AgCallInv'
    BY <1>1, <1>4 DEF AgTick, AgCallInv, AgGood, AgParses
  <2> QED BY <1>2, <1>4, <2>1 DEF AgTick
<1>5. ASSUME NEW u \in AgUsers, AgWrite(u) PROVE AgInv'
  <2>1. AgCallInv'
    BY <1>1, <1>5 DEF AgWrite, AgCallInv, AgGood, AgParses
  <2> QED BY <1>2, <1>5, <2>1 DEF AgWrite
<1>6. ASSUME NEW u \in AgUsers, AgReturn(u) PROVE AgInv'
  <2>1. AgCallInv'
    BY <1>1, <1>6 DEF AgReturn, AgCallInv, AgGood, AgParses, AgIdle
  <2> QED BY <1>2, <1>6, <2>1 DEF AgReturn, AgIdle
<1>7. ASSUME NEW u \in AgUsers, NEW req \in AgRequests, AgCallRaw(u, req) PROVE AgInv'
  <2>1. AgGood(req)
    BY <1>1, AgRequestsGood DEF AgCallInv
  <2>2. AgCallInv'
    BY <1>1, <1>7, <2>1 DEF AgCallRaw, AgCallInv, AgGood, AgParses
  <2> QED BY <1>2, <1>7, <2>2 DEF AgCallRaw
<1> QED BY <1>3, <1>4, <1>5, <1>6, <1>7, AgServeInv DEF AgNext

(* What a step does to the wire, for the action properties.                 *)
LEMMA AgStepIs ==
    ASSUME AgInv, [AgNext]_agVars, agWire.dir = "request", agWire'.dir = "reply"
    PROVE  AgServe
BY DEF AgInv, AgCallInv, AgNext, AgTick, AgWrite, AgReturn, AgCallRaw, AgIdle, agVars

(* Whatever the calls of the goroutines that share a client: a reply goes   *)
(* to the call that it answers, the agent lists and signs with identities   *)
(* only that are neither removed nor expired, keeps those without a         *)
(* lifetime, does nothing with keys while it is locked, and understands     *)
(* every key that the client can send (client.go, server.go, keyring.go):   *)
(* for any users, keys, lifetimes and number of calls.                      *)
THEOREM AgentIsSafe == AgSpec => [](AgReplyMatched /\ AgNoExpired /\ AgKept) /\ AgLockedIsSilent /\ AgAddWorks
<1>1. AgSpec => []AgInv
  BY AgInitInv, AgNextInv, PTL DEF AgSpec
<1>2. AgInv => AgReplyMatched /\ AgNoExpired /\ AgKept
  BY AgAssumption DEF AgInv, AgCallInv, AgReplyMatched, AgNobody
<1>3. ASSUME AgInv, [AgNext]_agVars
      PROVE  /\ agLocked # Unlocked /\ agWire.dir = "request" /\ agWire'.dir = "reply" =>
                   /\ agWire.req.op = "sign" => ~agWire'.rep.ok
                   /\ agWire.req.op = "list" => agWire'.rep.ids = {}
                   /\ agKeys' = agKeys
             /\ agLocked = Unlocked /\ agWire.dir = "request" /\ agWire.req.op \in {"add", "addConstrained"}
                  /\ agWire'.dir = "reply" => agWire'.rep.ok
  <2>1. SUFFICES ASSUME agWire.dir = "request", agWire'.dir = "reply"
                 PROVE  /\ agLocked # Unlocked =>
                             /\ agWire.req.op = "sign" => ~agWire'.rep.ok
                             /\ agWire.req.op = "list" => agWire'.rep.ids = {}
                             /\ agKeys' = agKeys
                        /\ agLocked = Unlocked /\ agWire.req.op \in AgAddOps => agWire'.rep.ok
    BY DEF AgAddOps
  <2>2. AgServe /\ AgCallInv
    BY <1>3, <2>1, AgStepIs DEF AgInv
  <2>3. ASSUME NEW rep, AgAnswers(rep) PROVE agWire'.rep = rep
    BY <2>3 DEF AgAnswers
  <2>4. AgSuccess.ok /\ ~AgFailure.ok /\ [ok |-> TRUE, at |-> agTime, ids |-> {}].ids = {}
    BY DEF AgSuccess, AgFailure
  <2> QED BY <2>2, <2>3, <2>4, AgServeIs DEF AgAddOps
<1>4. AgSpec => AgLockedIsSilent
  BY <1>1, <1>3, PTL DEF AgSpec, AgLockedIsSilent
<1>5. AgSpec => AgAddWorks
  BY <1>1, <1>3, PTL DEF AgSpec, AgAddWorks
<1> QED BY <1>1, <1>2, <1>4, <1>5, PTL
=============================================================================
