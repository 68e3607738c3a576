------------------------------ MODULE SshCerts ------------------------------
(***************************************************************************)
(* OpenSSH certificates (pkg/crypto/ssh/certs.go): an authority signs a    *)
(* certificate, its holder may change a field before he presents it, and   *)
(* CertChecker decides about it for a user or a host.  The wire format of  *)
(* the options, which the signature covers, is MarshalTuples/ParseTuples.    *)
(***************************************************************************)
EXTENDS Integers, Sequences, FiniteSets

CONSTANTS
    CertNames,     \* users and hosts
    CertHalf,      \* half of the time stamps, those that an int64 holds: 2^63 in the code
    CertAfters, CertBefores,  \* the ValidAfter and ValidBefore to begin with
    CertOptions,   \* critical option names, in lexical order
    CertOptionSets,\* the sets of options to begin with
    CertIssuedTo,  \* the principals to begin with, "any" for an empty list
    CertSupported, \* SupportedCriticalOptions
    CertRevoked    \* serial numbers for which IsRevoked

ASSUME CertAssumption ==
    /\ CertHalf \in Nat \ {0} /\ CertAfters \cup CertBefores \subseteq 0..(2 * CertHalf - 1)
    /\ CertOptions \in Seq(STRING) /\ \A i, j \in 1..Len(CertOptions) : CertOptions[i] = CertOptions[j] => i = j
    /\ \A os \in CertOptionSets : os \subseteq {CertOptions[i] : i \in 1..Len(CertOptions)}

VARIABLES
    ctCert,    \* the certificate
    ctTime,    \* the clock
    ctStage,   \* "made", "signed", "changed" since, "presented"
    ctResult   \* what the checker said, for whom and as what

certVars == <<ctCert, ctTime, ctStage, ctResult>>

CertAuthorities == {"ca", "other"}
CertTimes    == 0..(CertHalf - 1)
CertInfinity == 2 * CertHalf - 1   \* CertTimeInfinity
NoSeal       == [by |-> "nobody", over |-> <<>>]

(* int64(x) of a uint64.                                                    *)
Int64(x) == IF x >= CertHalf THEN x - 2 * CertHalf ELSE x

CertIndex(n) == CHOOSE i \in 1..Len(CertOptions) : CertOptions[i] = n

(* The keys of a map, after sort.Strings.                                   *)
ListsInOrder(q, names) ==
    /\ \A i, j \in DOMAIN q : i < j => CertIndex(q[i]) < CertIndex(q[j])
    /\ \A n \in names : \E i \in DOMAIN q : q[i] = n
SortStrings(names) == CHOOSE q \in [1..Cardinality(names) -> names] : ListsInOrder(q, names)

(* marshalTuples: sorted by name; a value that is not empty gets a second   *)
(* length prefix.                                                           *)
MarshalValue(value) == IF value = "" THEN <<>> ELSE <<value>>
MarshalTuples(opts) ==
    LET keys == SortStrings(DOMAIN opts)
    IN  [i \in 1..Cardinality(DOMAIN opts) |->
            [key |-> keys[i], val |-> MarshalValue(opts[keys[i]])]]

(* parseTuples: names in strict lexical order, and nothing after a value.   *)
TupleValue(val) == IF val = <<>> THEN "" ELSE val[1]
NotInOrder == "not in order"
ParseTuples(tups) ==
    IF \A i \in 1..(Len(tups) - 1) : CertIndex(tups[i].key) < CertIndex(tups[i + 1].key)
    THEN [n \in {tups[i].key : i \in 1..Len(tups)} |->
            TupleValue(tups[CHOOSE i \in 1..Len(tups) : tups[i].key = n].val)]
    ELSE [n \in {NotInOrder} |-> ""]

(* bytesForSigning: every field but the signature.                          *)
SignedBytes(c) ==
    <<c.ctype, c.principal, c.after, c.before, c.serial, c.key, c.nonce, c.authority, MarshalTuples(c.opts)>>

CertMaps == UNION {[os -> {"", "v"}] : os \in CertOptionSets}
CertsMade ==
    [ctype : {"user", "host"}, principal : CertIssuedTo, after : CertAfters, before : CertBefores,
     serial : {1, 2}, key : {"k1"}, nonce : {0}, opts : CertMaps,
     authority : {"nobody"}, seal : {NoSeal}]

CertInit ==
    /\ ctCert \in CertsMade /\ ctTime \in CertTimes
    /\ ctStage = "made" /\ ctResult = [as |-> "nothing", for |-> "nobody", ok |-> FALSE]

(* SignCert: a new nonce, the authority's key, and its signature over both. *)
SignCert(auth) ==
    /\ ctStage = "made"
    /\ LET c == [ctCert EXCEPT !.nonce = 1, !.authority = auth]
       IN  ctCert' = [c EXCEPT !.seal = [by |-> auth, over |-> SignedBytes(c)]]
    /\ ctStage' = "signed"
    /\ UNCHANGED <<ctTime, ctResult>>

(* What is presented may differ from what was signed.                       *)
CertChanged(c) ==
    ({[c EXCEPT !.principal = p] : p \in CertNames \cup {"any"}}
        \cup {[c EXCEPT !.before = CertInfinity], [c EXCEPT !.authority = "ca"],
              [c EXCEPT !.opts = [o \in {} |-> ""]], [c EXCEPT !.key = "k2"]}) \ {c}

ChangeCert(c) ==
    /\ ctStage = "signed"
    /\ ctCert' = c
    /\ ctStage' = "changed"
    /\ UNCHANGED <<ctTime, ctResult>>

CertVerifies(c) == c.seal.by = c.authority /\ c.seal.over = SignedBytes(c)

(* Mutant: a time stamp past the range of an int64 is taken as it is.       *)
MutCertInTime(c, now) ==
    /\ now >= Int64(c.after)
    /\ \/ c.before = CertInfinity
       \/ now < Int64(c.before)

CertInTime(c, now) ==
    /\ Int64(c.after) >= 0 /\ now >= Int64(c.after)
    /\ \/ c.before = CertInfinity
       \/ now < Int64(c.before) /\ Int64(c.before) >= 0

(* CheckCert: revocation, critical options, principals, times, signature.   *)
CheckCert(principal, c, now) ==
    /\ c.serial \notin CertRevoked
    /\ \A o \in DOMAIN c.opts : o = "source-address" \/ o \in CertSupported
    /\ c.principal \in {"any", principal}
    /\ CertInTime(c, now)
    /\ CertVerifies(c)

(* Authenticate and CheckHostKey, with one trusted authority.               *)
AuthenticateCert(user, c, now) ==
    c.ctype = "user" /\ c.authority = "ca" /\ CheckCert(user, c, now)

CheckHostCert(host, c, now) ==
    c.ctype = "host" /\ c.authority = "ca" /\ CheckCert(host, c, now)

PresentCert(as, who) ==
    /\ ctStage \in {"signed", "changed"}
    /\ ctStage' = "presented"
    /\ ctResult' = [as |-> as, for |-> who,
                    ok |-> IF as = "user" THEN AuthenticateCert(who, ctCert, ctTime)
                           ELSE CheckHostCert(who, ctCert, ctTime)]
    /\ UNCHANGED <<ctCert, ctTime>>

CertNext ==
    \/ \E auth \in CertAuthorities : SignCert(auth)
    \/ \E c \in CertChanged(ctCert) : ChangeCert(c)
    \/ \E as \in {"user", "host"}, who \in CertNames : PresentCert(as, who)

CertSpec == CertInit /\ [][CertNext]_certVars

------------------------------------------------------------------------------
(* A certificate that is accepted for someone was issued by the trusted     *)
(* authority with exactly these contents, for that kind of peer and that    *)
(* name, its time stamps, read as the unsigned numbers that they are,       *)
(* enclose the present, and the server knows all its critical options.      *)
CertSound ==
    ctResult.ok =>
        /\ ctCert.seal.by = "ca" /\ ctCert.seal.over = SignedBytes(ctCert)
        /\ ctCert.ctype = ctResult.as
        /\ ctCert.principal \in {"any", ctResult.for}
        /\ ctCert.after <= ctTime /\ ctTime < ctCert.before
        /\ DOMAIN ctCert.opts \subseteq CertSupported \cup {"source-address"}
        /\ ctCert.serial \notin CertRevoked

(* And one that the authority issued for him is accepted while it is valid. *)
CertComplete ==
    (/\ ctStage = "presented" /\ ctCert.seal.by = "ca" /\ ctCert.authority = "ca"
     /\ ctCert.seal.over = SignedBytes(ctCert)
     /\ ctCert.ctype = ctResult.as /\ ctCert.principal \in {"any", ctResult.for}
     /\ ctCert.after <= ctTime
     /\ ctTime < ctCert.before /\ (ctCert.before < CertHalf \/ ctCert.before = CertInfinity)
     /\ DOMAIN ctCert.opts \subseteq CertSupported /\ ctCert.serial \notin CertRevoked)
        => ctResult.ok

(* The options that a server reads from a certificate are those that were   *)
(* put into it, and two certificates with different options are signed      *)
(* over different bytes.                                                    *)
CertOptionsRoundTrip == ParseTuples(MarshalTuples(ctCert.opts)) = ctCert.opts

(* CertChecker accepts exactly what the authority issued.                   *)
CertChecked == CertSound /\ CertComplete /\ CertOptionsRoundTrip
=============================================================================
