--------------------------- MODULE SshAuthServer ----------------------------
(***************************************************************************)
(* serverAuthenticate (pkg/crypto/ssh/server.go): the user authentication  *)
(* loop of a server against a client that may send any request at any      *)
(* time, with its cache of public key decisions, its count of failures and *)
(* the permissions it hands to the connection.                             *)
(*                                                                         *)
(* A signature is the user and the key it was made for, and whether the    *)
(* holder of the key made it over this session; the callbacks decide by    *)
(* the constants.                                                          *)
(***************************************************************************)
EXTENDS Integers, Sequences, FiniteSets

CONSTANTS
    AuthUsers, AuthKeys,
    Authorized,    \* user -> keys that PublicKeyCallback accepts
    SourceBound,   \* keys whose permissions have a source-address that does not match
    MaxTries,      \* MaxAuthTries
    MaxCached,     \* maxCachedPubKeys
    AuthConfigs,   \* the sets of configured methods to start with
    MaxRequests    \* bound: requests of the client

ASSUME AuthServerConstants ==
    /\ MaxTries \in Nat \ {0} /\ MaxCached \in Nat /\ MaxRequests \in Nat
    /\ Authorized \in [AuthUsers -> SUBSET AuthKeys] /\ SourceBound \subseteq AuthKeys
    /\ \A cf \in AuthConfigs : cf \subseteq {"none", "password", "publickey", "keyboard-interactive", "gssapi-with-mic"}

VARIABLES
    aConf,    \* methods with a callback; "none" stands for NoClientAuth
    aSt,      \* the loop, a sub-dialogue, or how it ended
    aUser,    \* s.user
    aFail,    \* authFailures
    aCache,   \* the cache
    aPerms,   \* perms: the key or the method that they are for
    aProof,   \* what the request that is being answered has proved
    aBanner,  \* displayedBanner
    aAsked,   \* requests so far
    aRefused  \* credentials refused

authVars == <<aConf, aSt, aUser, aFail, aCache, aPerms, aProof, aBanner, aAsked, aRefused>>

Nobody == "nobody"

Proof(m, u, k) == [m |-> m, u |-> u, k |-> k]

NoProof == Proof("nothing", Nobody, Nobody)

(* serverHandshake refuses to begin without any method; waitSession and the *)
(* service request have gone well.                                          *)
AuthInit ==
    /\ aConf \in {cf \in AuthConfigs : cf # {}}
    /\ aSt = "loop" /\ aUser = Nobody
    /\ aFail = 0 /\ aCache = <<>> /\ aPerms = Nobody /\ aProof = NoProof
    /\ aBanner = "no" /\ aAsked = 0 /\ aRefused = 0

(* perms = nil: every request starts without permissions.                   *)
FreshPerms == Nobody

(* The head of the loop: too many failures disconnect before anything is    *)
(* read.                                                                    *)
Request(u) ==
    /\ aSt = "loop" /\ aFail < MaxTries /\ aAsked < MaxRequests
    /\ aAsked' = aAsked + 1
    /\ aUser' = u
    /\ aBanner' = "yes"

TooManyFailures ==
    /\ aSt = "loop" /\ aFail >= MaxTries
    /\ aSt' = "disconnected"
    /\ UNCHANGED <<aConf, aUser, aFail, aCache, aPerms, aProof, aBanner, aAsked, aRefused>>

(* The tail of the loop: a failure is counted and answered with the methods *)
(* that are configured; none at all is an error.                            *)
Refuse(fail, perms) ==
    /\ aFail' = fail + 1
    /\ aSt' = IF aConf \ {"none"} = {} THEN "error" ELSE "loop"
    /\ aPerms' = perms
    /\ aProof' = NoProof

(* A guess at a credential that was refused.                                *)
Guessed == Refuse(aFail, FreshPerms) /\ aRefused' = aRefused + 1

Grant(who, proof) ==
    /\ aSt' = "granted" /\ aPerms' = who /\ aProof' = proof
    /\ UNCHANGED aRefused

(* "none" is free as long as nothing else has failed.                       *)
AfterNone(fail) == IF fail = 0 THEN -1 ELSE fail

AskNone(u) ==
    /\ Request(u)
    /\ IF "none" \in aConf THEN Grant(FreshPerms, Proof("none", u, Nobody)) /\ aFail' = AfterNone(aFail)
       ELSE Refuse(AfterNone(aFail), FreshPerms) /\ UNCHANGED aRefused
    /\ UNCHANGED <<aConf, aCache>>

AskPassword(u, right) ==
    /\ Request(u)
    /\ IF "password" \in aConf /\ right THEN Grant("password", Proof("password", u, Nobody)) /\ UNCHANGED aFail
       ELSE Guessed
    /\ UNCHANGED <<aConf, aCache>>

(* keyboard-interactive: the callback puts its challenge to the client and  *)
(* waits for the answers; any other packet ends the connection.             *)
AskInteractive(u) ==
    /\ Request(u)
    /\ IF "keyboard-interactive" \in aConf
       THEN aSt' = "challenge" /\ aPerms' = FreshPerms /\ UNCHANGED <<aProof, aFail, aRefused>>
       ELSE Guessed
    /\ UNCHANGED <<aConf, aCache>>

Answer(right) ==
    /\ aSt = "challenge"
    /\ IF right THEN Grant("keyboard", Proof("keyboard-interactive", aUser, Nobody)) /\ UNCHANGED aFail ELSE Guessed
    /\ UNCHANGED <<aConf, aUser, aCache, aBanner, aAsked>>

NoAnswer ==
    /\ aSt \in {"challenge", "gss"}
    /\ aSt' = "error"
    /\ UNCHANGED <<aConf, aUser, aFail, aCache, aPerms, aProof, aBanner, aAsked, aRefused>>

(* gssapi-with-mic: krb5 has to be among the mechanisms, then tokens are    *)
(* exchanged and the MIC over the session is verified (gssExchangeToken).   *)
AskGss(u, krb5) ==
    /\ Request(u)
    /\ IF "gssapi-with-mic" \in aConf /\ krb5
       THEN aSt' = "gss" /\ aPerms' = FreshPerms /\ UNCHANGED <<aProof, aFail, aRefused>>
       ELSE Guessed
    /\ UNCHANGED <<aConf, aCache>>

GssExchangeToken(right) ==
    /\ aSt = "gss"
    /\ IF right THEN Grant("gss", Proof("gssapi-with-mic", aUser, Nobody)) /\ UNCHANGED aFail ELSE Guessed
    /\ UNCHANGED <<aConf, aUser, aCache, aBanner, aAsked>>

(* Mutant: what was decided about a key holds for every user.               *)
MutCacheHits(u, k) == {i \in 1..Len(aCache) : aCache[i].key = k}

(* pubKeyCache.get: the first entry for the user and the key.               *)
CacheHits(u, k) == {i \in 1..Len(aCache) : aCache[i].user = u /\ aCache[i].key = k}

(* PublicKeyCallback and checkSourceAddress.                                *)
Decides(u, k) == k \in Authorized[u] /\ k \notin SourceBound

Candidate(u, k) ==
    IF CacheHits(u, k) # {} THEN aCache[CHOOSE i \in CacheHits(u, k) : \A j \in CacheHits(u, k) : i <= j]
    ELSE [user |-> u, key |-> k, ok |-> Decides(u, k)]

(* pubKeyCache.add: only while there is room.                               *)
CacheAdd(u, k) ==
    aCache' = IF CacheHits(u, k) = {} /\ Len(aCache) < MaxCached
              THEN Append(aCache, Candidate(u, k)) ELSE aCache

(* The query of a key is answered without being counted; the same key may   *)
(* be asked for again.                                                      *)
QueryKey(u, k) ==
    /\ Request(u)
    /\ IF "publickey" \in aConf
       THEN /\ CacheAdd(u, k)
            /\ IF Candidate(u, k).ok
               THEN aSt' = "loop" /\ aPerms' = FreshPerms /\ UNCHANGED <<aFail, aProof, aRefused>>
               ELSE Guessed
       ELSE Guessed /\ UNCHANGED aCache
    /\ UNCHANGED aConf

(* A signed request: a signature that does not verify ends the connection,  *)
(* one that does still needs the decision on the key.                       *)
SignedKey(u, k, sigUser, sigKey) ==
    /\ Request(u)
    /\ IF "publickey" \notin aConf THEN Guessed /\ UNCHANGED aCache
       ELSE /\ CacheAdd(u, k)
            /\ IF sigUser # u \/ sigKey # k
               THEN aSt' = "error" /\ UNCHANGED <<aFail, aPerms, aProof, aRefused>>
               ELSE IF Candidate(u, k).ok
                    THEN Grant(Candidate(u, k).key, Proof("publickey", sigUser, sigKey)) /\ UNCHANGED aFail
                    ELSE Refuse(aFail, k) /\ aRefused' = aRefused + 1
    /\ UNCHANGED aConf

AskUnknown(u) ==
    /\ Request(u)
    /\ Guessed
    /\ UNCHANGED <<aConf, aCache>>

AuthNext ==
    \/ TooManyFailures \/ NoAnswer
    \/ \E right \in BOOLEAN : Answer(right) \/ GssExchangeToken(right)
    \/ \E u \in AuthUsers :
         \/ AskNone(u) \/ AskInteractive(u) \/ AskUnknown(u)
         \/ \E b \in BOOLEAN : AskPassword(u, b) \/ AskGss(u, b)
         \/ \E k \in AuthKeys :
              \/ QueryKey(u, k)
              \/ \E u2 \in AuthUsers, k2 \in AuthKeys : SignedKey(u, k, u2, k2)

AuthSpec == AuthInit /\ [][AuthNext]_authVars

------------------------------------------------------------------------------
AuthTypeOK ==
    /\ aSt \in {"loop", "challenge", "gss", "granted", "disconnected", "error"}
    /\ aUser \in AuthUsers \cup {Nobody}
    /\ aFail \in -1..MaxTries
    /\ Len(aCache) <= MaxCached /\ \A i \in 1..Len(aCache) : aCache[i].user \in AuthUsers /\ aCache[i].key \in AuthKeys
    /\ aBanner \in {"no", "yes"} /\ aAsked \in 0..MaxRequests /\ aRefused \in Nat

(* Whoever is let in has proved, in the request that let him in, to be the  *)
(* user the connection then has: whatever was asked for before, cached or   *)
(* refused, for the same or another user.                                   *)
AuthSound ==
    aSt = "granted" =>
        /\ aProof # NoProof /\ aProof.u = aUser /\ aProof.m \in aConf
        /\ aProof.m = "publickey" =>
             aProof.k \in Authorized[aUser] /\ aProof.k \notin SourceBound

(* The permissions of the connection are those of what was proved, not of a *)
(* key or a method tried before.                                            *)
AuthPermsFresh ==
    /\ aSt = "granted" /\ aProof.m = "publickey" => aPerms = aProof.k
    /\ aSt = "granted" /\ aProof.m = "none" => aPerms = Nobody

(* At most MaxAuthTries credentials are refused on one connection, however   *)
(* queries, "none" and switches of user are mixed in.                        *)
AuthTriesBounded == aRefused <= MaxTries

(* What serverAuthenticate guarantees against every client.                 *)
AuthGuarded == AuthTypeOK /\ AuthSound /\ AuthPermsFresh /\ AuthTriesBounded
=============================================================================
