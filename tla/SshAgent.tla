------------------------------- MODULE SshAgent -------------------------------
(***************************************************************************)
(* The key agent (pkg/crypto/ssh/agent): goroutines share a client, whose  *)
(* calls go over one connection to ServeAgent with the in-memory keyring   *)
(* behind it; time passes.                                                 *)
(*                                                                         *)
(* A key is its kind and a number; a certificate on it makes another       *)
(* identity.  The requests are those of agent.Agent.                       *)
(***************************************************************************)
EXTENDS Integers, Sequences, FiniteSets

CONSTANTS
    AgUsers,      \* goroutines that use the client
    AgPhrases,    \* passphrases
    AgLives,      \* LifetimeSecs (0 for none) and ConfirmBeforeUse that keys are added with
    AgPlans,      \* the requests and identities to begin with
    AgCalls,      \* bound: calls
    AgMaxTime     \* bound: the clock

ASSUME AgAssumption ==
    /\ AgCalls \in Nat /\ AgMaxTime \in Nat /\ "nobody" \notin AgUsers /\ "unlocked" \notin AgPhrases
    /\ \A l \in AgLives : l.secs \in Nat /\ l.confirm \in BOOLEAN
    /\ \A plan \in AgPlans : \A id \in plan.ids :
         id.kind \in {"rsa", "dsa", "ecdsa", "ed25519"} /\ id.cert \in BOOLEAN

VARIABLES
    agPlan,       \* the requests and the identities (kind, cert, n) of this behaviour
    agKeys,       \* keyring.keys: identity and expire (0: never); their order decides nothing
    agLocked,     \* keyring.locked: the passphrase, or Unlocked
    agTime,       \* the clock
    agBusy,       \* client.mu: the goroutine in callRaw
    agCall,       \* per goroutine: its request
    agWire,       \* the connection: a request, a reply, or nothing
    agCount,      \* calls so far
    agAdded       \* history: what was added when, until when, and not removed since

agVars == <<agPlan, agKeys, agLocked, agTime, agBusy, agCall, agWire, agCount, agAdded>>

Unlocked == "unlocked"
AgNobody == "nobody"
AgNoReq  == [op |-> "none"]
AgIdle   == [dir |-> "idle", req |-> AgNoReq, rep |-> [ok |-> FALSE]]

AgInit ==
    /\ agPlan \in AgPlans
    /\ agKeys = {} /\ agLocked = Unlocked /\ agTime = 1
    /\ agBusy = AgNobody /\ agCall = [u \in AgUsers |-> AgNoReq]
    /\ agWire = AgIdle
    /\ agCount = 0 /\ agAdded = {}

(* insertKey and insertCert: the message for a private key of this kind.    *)
(* The certificate stands for the public numbers, except that an Ed25519    *)
(* message repeats them.                                                    *)
AgFields(id) ==
    CASE id.kind = "rsa"     -> IF id.cert THEN {"cert", "D", "Iqmp", "P", "Q"}
                                ELSE {"N", "E", "D", "Iqmp", "P", "Q"}
      [] id.kind = "dsa"     -> IF id.cert THEN {"cert", "X"} ELSE {"P", "Q", "G", "Y", "X"}
      [] id.kind = "ecdsa"   -> IF id.cert THEN {"cert", "D"} ELSE {"Curve", "KeyBytes", "D"}
      [] id.kind = "ed25519" -> IF id.cert THEN {"cert", "Pub", "Priv"} ELSE {"Pub", "Priv"}

(* Add: constraints become bytes after the key, and make the message an     *)
(* agentAddIDConstrained; constraint extensions are not sent.               *)
AgConstraints(life, confirm) ==
    (IF life # 0 THEN <<[c |-> "lifetime", secs |-> life]>> ELSE <<>>)
        \o (IF confirm THEN <<[c |-> "confirm", secs |-> 0]>> ELSE <<>>)

AgAddReq(id, life, confirm) ==
    LET cs == AgConstraints(life, confirm)
    IN  [op |-> IF cs = <<>> THEN "add" ELSE "addConstrained",
         type |-> <<id.kind, id.cert>>, id |-> id, fields |-> AgFields(id), cs |-> cs]

(* The messages that the parsers of insertIdentity read, by the type string *)
(* (parseRSAKey ... parseEd25519Cert), and the numbers that each takes the  *)
(* public key from.                                                         *)
AgParserFields(type) ==
    CASE type = <<"rsa", FALSE>>     -> {"N", "E", "D", "Iqmp", "P", "Q"}
      [] type = <<"rsa", TRUE>>      -> {"cert", "D", "Iqmp", "P", "Q"}
      [] type = <<"dsa", FALSE>>     -> {"P", "Q", "G", "Y", "X"}
      [] type = <<"dsa", TRUE>>      -> {"cert", "X"}
      [] type = <<"ecdsa", FALSE>>   -> {"Curve", "KeyBytes", "D"}
      [] type = <<"ecdsa", TRUE>>    -> {"cert", "D"}
      [] type = <<"ed25519", FALSE>> -> {"Pub", "Priv"}
      [] type = <<"ed25519", TRUE>>  -> {"cert", "Pub", "Priv"}

(* parseConstraints: one after the other, the last lifetime counts.         *)
AgLifetime(cs) ==
    LET ls == {i \in 1..Len(cs) : cs[i].c = "lifetime"}
    IN  IF ls = {} THEN 0 ELSE cs[CHOOSE i \in ls : \A j \in ls : j <= i].secs

AgParses(req) == AgParserFields(req.type) = req.fields

(* removeLocked: each hit is overwritten by the last key, in place.         *)
AgRemoveLocked(keys, id) == {k \in keys : k.id # id}

(* expireKeysLocked: time.Now().After(expire), and every key with the same  *)
(* public key goes too.                                                     *)
AgExpired(keys) == {k.id : k \in {j \in keys : j.expire # 0 /\ agTime > j.expire}}

(* Mutant: a lifetime is recorded and never looked at.                      *)
MutAgExpireKeys(keys) == keys

AgExpireKeys(keys) == {k \in keys : k.id \notin AgExpired(keys)}

AgOk(rep)  == agWire' = [agWire EXCEPT !.dir = "reply", !.rep = rep]
AgFailure  == [ok |-> FALSE]
AgSuccess  == [ok |-> TRUE]
AgHistory(hist) == agAdded' = hist

(* processRequest on the keyring; the keyring's mutex is held throughout.   *)
AgAdd(req) ==
    /\ IF AgParses(req) /\ agLocked = Unlocked
       THEN LET life == AgLifetime(req.cs)
                exp  == IF life = 0 THEN 0 ELSE agTime + life
            IN  /\ agKeys' = agKeys \cup {[id |-> req.id, expire |-> exp]}
                /\ AgHistory(agAdded \cup {[id |-> req.id, until |-> exp]})
                /\ AgOk(AgSuccess)
       ELSE UNCHANGED <<agKeys, agAdded>> /\ AgOk(AgFailure)
    /\ UNCHANGED agLocked

AgRemove(req) ==
    /\ IF agLocked = Unlocked /\ \E k \in agKeys : k.id = req.id
       THEN /\ agKeys' = AgRemoveLocked(agKeys, req.id)
            /\ AgHistory({a \in agAdded : a.id # req.id})
            /\ AgOk(AgSuccess)
       ELSE UNCHANGED <<agKeys, agAdded>> /\ AgOk(AgFailure)
    /\ UNCHANGED agLocked

AgRemoveAll ==
    /\ IF agLocked = Unlocked THEN agKeys' = {} /\ AgHistory({}) /\ AgOk(AgSuccess)
       ELSE UNCHANGED <<agKeys, agAdded>> /\ AgOk(AgFailure)
    /\ UNCHANGED agLocked

AgLock(req) ==
    /\ IF agLocked = Unlocked THEN agLocked' = req.phrase /\ AgOk(AgSuccess)
       ELSE UNCHANGED agLocked /\ AgOk(AgFailure)
    /\ UNCHANGED <<agKeys, agAdded>>

AgUnlock(req) ==
    /\ IF agLocked = req.phrase THEN agLocked' = Unlocked /\ AgOk(AgSuccess)
       ELSE UNCHANGED agLocked /\ AgOk(AgFailure)
    /\ UNCHANGED <<agKeys, agAdded>>

AgList ==
    /\ IF agLocked # Unlocked
       THEN UNCHANGED agKeys /\ AgOk([ok |-> TRUE, at |-> agTime, ids |-> {}])
       ELSE /\ agKeys' = AgExpireKeys(agKeys)
            /\ AgOk([ok |-> TRUE, at |-> agTime,
                     ids |-> {k.id : k \in AgExpireKeys(agKeys)}])
    /\ UNCHANGED <<agLocked, agAdded>>

(* SignWithFlags: flags choose the hash, which only RSA keys can change.    *)
AgSign(req) ==
    /\ IF agLocked # Unlocked THEN UNCHANGED agKeys /\ AgOk(AgFailure)
       ELSE /\ agKeys' = AgExpireKeys(agKeys)
            /\ AgOk(IF (\E k \in AgExpireKeys(agKeys) : k.id = req.id)
                         /\ (req.flags = "none" \/ req.id.kind = "rsa")
                    THEN [ok |-> TRUE, at |-> agTime, by |-> req.id] ELSE AgFailure)
    /\ UNCHANGED <<agLocked, agAdded>>

AgServe ==
    /\ agWire.dir = "request"
    /\ LET req == agWire.req
       IN  CASE req.op \in {"add", "addConstrained"} -> AgAdd(req)
             [] req.op = "remove"    -> AgRemove(req)
             [] req.op = "removeAll" -> AgRemoveAll
             [] req.op = "lock"      -> AgLock(req)
             [] req.op = "unlock"    -> AgUnlock(req)
             [] req.op = "list"      -> AgList
             [] req.op = "sign"      -> AgSign(req)
             [] req.op \in {"extension", "unknown"} ->
                    UNCHANGED <<agKeys, agLocked, agAdded>> /\ AgOk(AgFailure)
    /\ UNCHANGED <<agPlan, agTime, agBusy, agCall, agCount>>

AgRequests ==
    {r \in {AgAddReq(id, l.secs, l.confirm) : id \in agPlan.ids, l \in AgLives}
          \cup {[op |-> "remove", id |-> id] : id \in agPlan.ids}
          \cup {[op |-> "lock", phrase |-> p] : p \in AgPhrases}
          \cup {[op |-> "unlock", phrase |-> p] : p \in AgPhrases}
          \cup {[op |-> "sign", id |-> id, flags |-> f] : id \in agPlan.ids, f \in {"none", "sha512"}}
          \cup {[op |-> o] : o \in {"removeAll", "list", "extension", "unknown"}} :
       r.op \in agPlan.ops}

(* callRaw: one goroutine at a time writes and waits for the reply.         *)
AgCallRaw(u, req) ==
    /\ agCall[u] = AgNoReq /\ agCount < AgCalls
    /\ agCall' = [agCall EXCEPT ![u] = req]
    /\ agCount' = agCount + 1
    /\ UNCHANGED <<agPlan, agKeys, agLocked, agTime, agBusy, agWire, agAdded>>

AgWrite(u) ==
    /\ agCall[u] # AgNoReq /\ agBusy = AgNobody
    /\ agBusy' = u
    /\ agWire' = [dir |-> "request", req |-> agCall[u], rep |-> AgFailure]
    /\ UNCHANGED <<agPlan, agKeys, agLocked, agTime, agCall, agCount, agAdded>>

AgReturn(u) ==
    /\ agBusy = u /\ agWire.dir = "reply"
    /\ agCall' = [agCall EXCEPT ![u] = AgNoReq]
    /\ agWire' = AgIdle /\ agBusy' = AgNobody
    /\ UNCHANGED <<agPlan, agKeys, agLocked, agTime, agCount, agAdded>>

AgTick ==
    /\ agTime < AgMaxTime
    /\ agTime' = agTime + 1
    /\ UNCHANGED <<agPlan, agKeys, agLocked, agBusy, agCall, agWire, agCount, agAdded>>

AgNext ==
    \/ AgServe \/ AgTick
    \/ \E u \in AgUsers : AgWrite(u) \/ AgReturn(u) \/ \E req \in AgRequests : AgCallRaw(u, req)

AgSpec == AgInit /\ [][AgNext]_agVars

AgFairSpec ==
    AgSpec /\ WF_agVars(AgServe)
        /\ \A u \in AgUsers : WF_agVars(AgWrite(u) \/ AgReturn(u))

------------------------------------------------------------------------------
(* The reply on its way answers the request of the goroutine that holds     *)
(* the client, however the calls of several interleave.                     *)
AgReplyMatched == agWire.dir # "idle" => agBusy # AgNobody /\ agCall[agBusy] = agWire.req

AgAlive(id, t) == \E a \in agAdded : a.id = id /\ (a.until = 0 \/ t <= a.until)

(* What the agent answers with is alive: neither a signature nor a listing  *)
(* on its way uses an identity that was removed or has expired.             *)
AgNoExpired ==
    agWire.dir = "reply" /\ agWire.rep.ok =>
        /\ agWire.req.op = "sign" => AgAlive(agWire.req.id, agWire.rep.at)
        /\ agWire.req.op = "list" => \A id \in agWire.rep.ids : AgAlive(id, agWire.rep.at)

(* A locked agent neither signs nor lists anything, also not for a call     *)
(* that was waiting when it was locked.                                     *)
AgLockedIsSilent ==
    [][agLocked # Unlocked /\ agWire.dir = "request" /\ agWire'.dir = "reply" =>
          /\ agWire.req.op = "sign" => ~agWire'.rep.ok
          /\ agWire.req.op = "list" => agWire'.rep.ids = {}
          /\ agKeys' = agKeys]_agVars

(* Every kind of key that a client can send, with or without a certificate  *)
(* and constraints, is understood by the server.                            *)
AgAddWorks ==
    [][agLocked = Unlocked /\ agWire.dir = "request" /\ agWire.req.op \in {"add", "addConstrained"}
         /\ agWire'.dir = "reply" => agWire'.rep.ok]_agVars

(* An identity that no addition of a limited lifetime mentions stays until  *)
(* it is removed.                                                           *)
AgKept ==
    \A a \in agAdded :
        (a.until = 0 /\ \A b \in agAdded : b.id = a.id => b.until = 0)
            => \E k \in agKeys : k.id = a.id

(* Every call returns: the requests of all goroutines go through in turn.   *)
AgReturns == []<>(\A u \in AgUsers : agCall[u] = AgNoReq)

(* What the goroutines that share a client can rely on.                     *)
AgServed ==
    /\ [](AgReplyMatched /\ AgNoExpired /\ AgKept)
    /\ AgLockedIsSilent /\ AgAddWorks /\ AgReturns
=============================================================================
