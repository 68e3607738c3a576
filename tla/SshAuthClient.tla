--------------------------- MODULE SshAuthClient ----------------------------
(***************************************************************************)
(* clientAuthenticate (pkg/crypto/ssh/client_auth.go): the client tries    *)
(* "none" and then the configured methods that the server lists, against a *)
(* server that may answer anything at any time.                            *)
(***************************************************************************)
EXTENDS Integers, Sequences, FiniteSets

CONSTANTS
    CaConfigs,  \* the lists config.Auth to begin with: records of the method, its
                \* signers' keys and its maxTries (1 when not retryable)
    CaLists,    \* the lists of methods that a failure message may carry
    CaExtra     \* bound: partial successes, banners, prompts and tokens of the server

CaMethods == {"none", "password", "publickey", "keyboard-interactive", "gssapi-with-mic"}

ASSUME CaAssumption ==
    /\ CaExtra \in Nat
    /\ \A cf \in CaConfigs :
         /\ Len(cf) \in Nat
         /\ \A i \in 1..Len(cf) : /\ cf[i].m \in CaMethods
                                 /\ Len(cf[i].keys) \in Nat /\ cf[i].tries \in Nat \ {0}

VARIABLES
    ncConf,     \* config.Auth
    ncSt,       \* what is waited for: "begin" (auth is about to be called), "reply", "ack",
                \* "prompt", "mech", "token"; or the outcome "ok", "none left", "error"
    ncCur,      \* the index of auth in config.Auth, 0 for noneAuth
    ncTry,      \* i of retryableAuthMethod
    ncKey,      \* the signer that publicKeyCallback is at
    ncKeyList,  \* methods of publicKeyCallback: from the last answer to a signature
    ncTried,    \* tried
    ncLast,     \* lastMethods
    ncExtra,    \* extras so far
    ncAcked,    \* history: the keys that the server has acknowledged
    ncSigned,   \* history: the keys that were signed with
    ncFails     \* history: how often each method has failed

caVars == <<ncConf, ncSt, ncCur, ncTry, ncKey, ncKeyList, ncTried, ncLast, ncExtra,
            ncAcked, ncSigned, ncFails>>

NilList == {"nil"}

CaInit ==
    /\ ncConf \in CaConfigs
    /\ ncSt = "begin" /\ ncCur = 0 /\ ncTry = 0 /\ ncKey = 0 /\ ncKeyList = NilList
    /\ ncTried = {} /\ ncLast = NilList /\ ncExtra = 0
    /\ ncAcked = {} /\ ncSigned = {} /\ ncFails = [m \in CaMethods |-> 0]

CaMethod == IF ncCur = 0 THEN "none" ELSE ncConf[ncCur].m
CaTries  == IF ncCur = 0 THEN 1 ELSE ncConf[ncCur].tries
CaKeys   == IF ncCur = 0 THEN <<>> ELSE ncConf[ncCur].keys

(* findNext: the first configured method that has not failed and is listed. *)
CaNextAuth(tried, methods) ==
    LET left == {i \in 1..Len(ncConf) : ncConf[i].m \notin tried /\ ncConf[i].m \in methods}
    IN  IF left = {} THEN 0 ELSE CHOOSE i \in left : \A j \in left : i <= j

(* auth returned ok = result and a list of methods: retryableAuthMethod     *)
(* calls it again after a failure, else clientAuthenticate goes on.         *)
CaReturn(result, list) ==
    /\ ncFails' = IF result = "failure" THEN [ncFails EXCEPT ![CaMethod] = @ + 1] ELSE ncFails
    /\ ncKey' = 0 /\ ncKeyList' = NilList
    /\ IF result = "failure" /\ ncTry + 1 < CaTries
       THEN ncTry' = ncTry + 1 /\ ncSt' = "begin" /\ UNCHANGED <<ncTried, ncLast, ncCur>>
       ELSE LET tried   == IF result = "failure" THEN ncTried \cup {CaMethod} ELSE ncTried
                methods == IF list = NilList THEN ncLast ELSE list
            IN  /\ ncTry' = 0 /\ ncTried' = tried /\ ncLast' = methods
                /\ ncCur' = CaNextAuth(tried, methods)
                /\ ncSt' = IF CaNextAuth(tried, methods) = 0 THEN "none left" ELSE "begin"

CaStop(outcome) ==
    /\ ncSt' = outcome
    /\ UNCHANGED <<ncConf, ncCur, ncTry, ncKey, ncKeyList, ncTried, ncLast, ncExtra, ncAcked, ncSigned, ncFails>>

CaWait(what) ==
    /\ ncSt' = what
    /\ UNCHANGED <<ncConf, ncCur, ncTry, ncKey, ncKeyList, ncTried, ncLast, ncAcked, ncSigned, ncFails>>

(* publicKeyCallback asks for its next signer, or has no more.              *)
CaOfferKey(list) ==
    IF ncKey < Len(CaKeys)
    THEN /\ ncKey' = ncKey + 1 /\ ncKeyList' = list /\ ncSt' = "ack"
         /\ UNCHANGED <<ncCur, ncTry, ncTried, ncLast, ncFails>>
    ELSE CaReturn("failure", list)

(* The callbacks of the caller (the password, the signers) may fail.        *)
CaBegin ==
    /\ ncSt = "begin"
    /\ CASE CaMethod \in {"none", "password"}  -> CaWait("reply") /\ UNCHANGED ncExtra
         [] CaMethod = "keyboard-interactive" -> CaWait("prompt") /\ UNCHANGED ncExtra
         [] CaMethod = "gssapi-with-mic"      -> CaWait("mech") /\ UNCHANGED ncExtra
         [] CaMethod = "publickey"            -> /\ CaOfferKey(NilList)
                                                 /\ UNCHANGED <<ncConf, ncExtra, ncAcked, ncSigned>>

CaCallbackFails ==
    /\ ncSt \in {"begin", "prompt", "token"} /\ CaMethod # "none"
    /\ CaStop("error")

(* Mutant: any acknowledgement is taken for one of the offered key.         *)
MutKeyAcked(k) == TRUE

KeyAcked(k) == k = CaKeys[ncKey]

(* confirmKeyAck: the acknowledgement has to be of the key that was asked   *)
(* for, with its algorithm; the signed request follows at once.             *)
CaConfirmKeyAck(k) ==
    /\ ncSt = "ack"
    /\ ncAcked' = ncAcked \cup {k}
    /\ IF KeyAcked(k)
       THEN /\ ncSigned' = ncSigned \cup {CaKeys[ncKey]}
            /\ ncSt' = "reply"
            /\ UNCHANGED <<ncCur, ncTry, ncKey, ncKeyList, ncTried, ncLast, ncFails>>
       ELSE CaOfferKey(ncKeyList) /\ UNCHANGED ncSigned
    /\ UNCHANGED <<ncConf, ncExtra>>

CaKeyRefused ==
    /\ ncSt = "ack"
    /\ CaOfferKey(ncKeyList)
    /\ UNCHANGED <<ncConf, ncExtra, ncAcked, ncSigned>>

(* handleAuthResponse, and the same cases in the loops of                   *)
(* KeyboardInteractiveChallenge and of gssAPIWithMICCallback.               *)
CaFailure(list, partial) ==
    /\ ncSt \in {"reply", "prompt", "token"}
    /\ ~partial \/ ncExtra < CaExtra
    /\ ncExtra' = IF partial THEN ncExtra + 1 ELSE ncExtra
    /\ IF ncSt = "reply" /\ CaMethod = "publickey" /\ "publickey" \in list
       THEN CaOfferKey(list)
       ELSE CaReturn(IF partial THEN "partial" ELSE "failure", list)
    /\ UNCHANGED <<ncConf, ncAcked, ncSigned>>

CaSuccess ==
    /\ ncSt \in {"reply", "prompt"}
    /\ CaStop("ok")

(* A banner, another round of questions or another token.                   *)
CaBanner ==
    /\ ncSt \in {"reply", "ack", "prompt"} /\ ncExtra < CaExtra
    /\ ncExtra' = ncExtra + 1
    /\ CaWait(ncSt)

CaPrompt ==
    /\ ncSt = "prompt" /\ ncExtra < CaExtra
    /\ ncExtra' = ncExtra + 1
    /\ CaWait("prompt")

CaToken ==
    /\ ncSt \in {"mech", "token"}
    /\ \/ CaWait("reply") /\ UNCHANGED ncExtra
       \/ /\ ncExtra < CaExtra /\ ncExtra' = ncExtra + 1
          /\ CaWait("token")

(* Any other message, one that does not parse, and the connection's end.    *)
CaUnexpected ==
    /\ ncSt \in {"reply", "ack", "prompt", "mech", "token"}
    /\ CaStop("error")

CaDone == ncSt \in {"ok", "none left", "error"}

(* The server may name any key that some client has.                        *)
CaNext ==
    \/ CaBegin \/ CaCallbackFails \/ CaKeyRefused
    \/ CaSuccess \/ CaBanner \/ CaPrompt \/ CaToken \/ CaUnexpected
    \/ \E cf \in CaConfigs : \E i \in 1..Len(cf) : \E n \in 1..Len(cf[i].keys) : CaConfirmKeyAck(cf[i].keys[n])
    \/ \E list \in CaLists, partial \in BOOLEAN : CaFailure(list, partial)

CaSpec == CaInit /\ [][CaNext]_caVars

(* Every read is answered: by the server, or by the connection's end.       *)
CaFairSpec == CaSpec /\ WF_caVars(CaNext)

------------------------------------------------------------------------------
CaTypeOK ==
    /\ ncSt \in {"begin", "reply", "ack", "prompt", "mech", "token", "ok", "none left", "error"}
    /\ ncCur \in 0..Len(ncConf) /\ ncTry \in 0..(CaTries - 1)
    /\ ncKey \in 0..Len(CaKeys) /\ (ncSt = "ack" => ncKey > 0)
    /\ ncTried \subseteq CaMethods /\ ncExtra \in 0..CaExtra
    /\ ncFails \in [CaMethods -> Nat]

(* The client signs with no key that the server has not acknowledged first: *)
(* an acknowledgement of another key than the one asked for does not count. *)
CaSignsAcked == ncSigned \subseteq ncAcked

(* A method fails at most as often as the first configured AuthMethod of    *)
(* that name may be tried, whatever is listed again afterwards; only a      *)
(* partial success lets a retryable method start counting again.            *)
CaFailsBounded ==
    \A i \in 1..Len(ncConf) :
        (\A j \in 1..(i - 1) : ncConf[j].m # ncConf[i].m)
            => ncFails[ncConf[i].m] <= ncConf[i].tries + ncExtra * (ncConf[i].tries - 1)

(* The client gives up only when every configured method has failed or is   *)
(* not on the last list that the server sent.                               *)
CaGivesUpLast ==
    ncSt = "none left" =>
        \A i \in 1..Len(ncConf) : ncFails[ncConf[i].m] > 0 \/ ncConf[i].m \notin ncLast

(* Against every server that does not talk for ever, authentication ends    *)
(* once the client has begun it.                                            *)
CaEnds == []<>(ncSt # "begin" => CaDone)

(* What clientAuthenticate guarantees against every server.                 *)
CaGuarded == [](CaTypeOK /\ CaSignsAcked /\ CaFailsBounded /\ CaGivesUpLast) /\ CaEnds
=============================================================================
