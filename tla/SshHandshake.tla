---------------------------- MODULE SshHandshake ----------------------------
(***************************************************************************)
(* Key exchange and re-exchange of two SSH transports under traffic:       *)
(* pkg/crypto/ssh/handshake.go (readLoop, kexLoop, writePacket), the       *)
(* packet transport below it (transport.go), the exchanges of kex.go and   *)
(* the choice of algorithms (common.go).                                   *)
(*                                                                         *)
(* Cryptography is symbolic: a KEXINIT is its cookie, an ephemeral public  *)
(* value is the cookie of its side's KEXINIT, an exchange hash is what was *)
(* hashed, a key is what it is derived from, and a packet that is read     *)
(* with another key than it was written with fails its MAC.                *)
(***************************************************************************)
EXTENDS Naturals, Sequences

CONSTANTS
    HsConfigs,    \* pairs of preference lists, [c |-> ..., s |-> ...], to start with
    HsThreshold,  \* RekeyThreshold, in packets
    HsData        \* bound: application packets written by each side

ASSUME HsConstants ==
    /\ HsThreshold \in Nat /\ HsData \in Nat
    /\ HsConfigs \subseteq [{"c", "s"} -> Seq({"dh", "ecdh", "curve25519", "gex"})]

VARIABLES
    hConf,   \* the sides' lists of key exchange algorithms
    hWire,   \* side -> packets on the way from it
    hRead,   \* side -> readLoop
    hKex,    \* side -> kexLoop
    hStep,   \* side -> packets of the exchange that are done
    hSent,   \* side -> cookie in sentInitMsg, 0 for nil
    hStart,  \* side -> cookie in startKex, 0 for empty
    hOther,  \* side -> the request kexLoop works on, 0 for none
    hWant,   \* side -> requestKex
    hEph,    \* side -> the peer's public value, as received
    hPend,   \* side -> pendingPackets
    hKey,    \* side -> the ciphers [w, r] in use
    hNext,   \* side -> the ciphers of prepareKeyChange, pendingKeyChange
    hSid,    \* side -> sessionID
    hLeftW,  \* side -> write threshold left
    hLeftR,  \* side -> read threshold left
    hCount,  \* side -> KEXINITs sent
    hOut,    \* side -> application packets written
    hIn,     \* side -> application packets read
    hErr,    \* side -> why its transport ended
    hUp      \* the connection

hKexVars == <<hKex, hStep, hSent, hStart, hOther, hEph, hNext, hSid, hCount>>
hAppVars == <<hOut, hIn>>
hsVars == <<hConf, hWire, hRead, hKexVars, hWant, hPend, hKey, hLeftW, hLeftR, hAppVars, hErr, hUp>>

HsSides == {"c", "s"}
Other(p) == CHOOSE q \in HsSides : q # p
NoKey == [dir |-> "clear", h |-> <<>>, sid |-> <<>>]

------------------------------------------------------------------------------
(* The exchanges: what each side of an algorithm sends and reads in turn.   *)
DhGroupClient == <<[do |-> "send", m |-> "init"], [do |-> "read", m |-> "reply"]>>
DhGroupServer == <<[do |-> "read", m |-> "init"], [do |-> "send", m |-> "reply"]>>
EcdhClient == <<[do |-> "send", m |-> "ecInit"], [do |-> "read", m |-> "ecReply"]>>
EcdhServer == <<[do |-> "read", m |-> "ecInit"], [do |-> "send", m |-> "ecReply"]>>
Curve25519Client == <<[do |-> "send", m |-> "ecInit"], [do |-> "read", m |-> "ecReply"]>>
Curve25519Server == <<[do |-> "read", m |-> "ecInit"], [do |-> "send", m |-> "ecReply"]>>
GexClient == <<[do |-> "send", m |-> "gexRequest"], [do |-> "read", m |-> "gexGroup"],
               [do |-> "send", m |-> "gexInit"], [do |-> "read", m |-> "gexReply"]>>
GexServer == <<[do |-> "read", m |-> "gexRequest"], [do |-> "send", m |-> "gexGroup"],
               [do |-> "read", m |-> "gexInit"], [do |-> "send", m |-> "gexReply"]>>

(* kexAlgoMap.                                                              *)
KexScript(alg, p) ==
    CASE alg = "dh" -> IF p = "c" THEN DhGroupClient ELSE DhGroupServer
      [] alg = "ecdh" -> IF p = "c" THEN EcdhClient ELSE EcdhServer
      [] alg = "curve25519" -> IF p = "c" THEN Curve25519Client ELSE Curve25519Server
      [] alg = "gex" -> IF p = "c" THEN GexClient ELSE GexServer

(* findCommon: the client's first choice that the server has, too.          *)
CommonSet(client, server) ==
    {i \in 1..Len(client) : \E j \in 1..Len(server) : client[i] = server[j]}
FindCommon(client, server) ==
    client[CHOOSE i \in CommonSet(client, server) : \A j \in CommonSet(client, server) : i <= j]

KexAlg == FindCommon(hConf["c"], hConf["s"])
Script(p) == KexScript(KexAlg, p)

(* What is hashed: the two KEXINITs in the order client, server, the two    *)
(* public values in the same order (and the host key and the versions).     *)
ExchangeHash(p) ==
    IF p = "c" THEN <<KexAlg, hSent[p], hOther[p], hSent[p], hEph[p]>>
               ELSE <<KexAlg, hOther[p], hSent[p], hEph[p], hSent[p]>>

(* newPacketCipher: the tags of the direction, the hash and the session.    *)
CipherOf(dir, h, sid) == [dir |-> dir, h |-> h, sid |-> sid]

HsInit ==
    /\ hConf \in HsConfigs
    /\ hWire = [p \in HsSides |-> <<>>]
    /\ hRead = [p \in HsSides |-> "first"]
    /\ hKex = [p \in HsSides |-> "select"] /\ hStep = [p \in HsSides |-> 0]
    /\ hSent = [p \in HsSides |-> 0] /\ hStart = [p \in HsSides |-> 0] /\ hOther = [p \in HsSides |-> 0]
    /\ hWant = [p \in HsSides |-> 1]
    /\ hEph = [p \in HsSides |-> 0]
    /\ hPend = [p \in HsSides |-> <<>>]
    /\ hKey = [p \in HsSides |-> [w |-> NoKey, r |-> NoKey]]
    /\ hNext = hKey
    /\ hSid = [p \in HsSides |-> <<>>]
    /\ hLeftW = [p \in HsSides |-> HsThreshold] /\ hLeftR = hLeftW
    /\ hCount = [p \in HsSides |-> 0]
    /\ hOut = [p \in HsSides |-> 0] /\ hIn = [p \in HsSides |-> <<>>]
    /\ hErr = [p \in HsSides |-> "no"]
    /\ hUp = "up"

------------------------------------------------------------------------------
(* The transport: what is written is encrypted with the writer's cipher,    *)
(* what is read is decrypted with the reader's.                             *)
Packet(p, t, val) == [t |-> t, val |-> val, key |-> hKey[p].w]
Pushed(p, pkt) == hWire' = [hWire EXCEPT ![p] = Append(@, pkt)]
Arrived(p) == hWire[Other(p)] # <<>>
Next1(p) == Head(hWire[Other(p)])
Consumed(p) == hWire' = [hWire EXCEPT ![Other(p)] = Tail(@)]
Fails(p, why) == hErr' = [hErr EXCEPT ![p] = why]

(* sendKexInit: a KEXINIT, of which one is under way at a time.             *)
SendKexInit(p) ==
    IF hSent[p] # 0 THEN UNCHANGED <<hWire, hSent, hCount, hErr>>
    ELSE IF hUp = "up"
    THEN /\ hCount' = [hCount EXCEPT ![p] = @ + 1]
         /\ hSent' = [hSent EXCEPT ![p] = hCount'[p]]
         /\ Pushed(p, Packet(p, "kexinit", hCount'[p]))
         /\ UNCHANGED hErr
    ELSE Fails(p, "write") /\ UNCHANGED <<hWire, hSent, hCount>>

(* kexLoop is woken by the peer's KEXINIT or by a request, and goes on once *)
(* it has both sent its own and received the other's.                       *)
KexWake(p) ==
    /\ hKex[p] = "select" /\ hErr[p] = "no"
    /\ \/ hStart[p] # 0 /\ hOther' = [hOther EXCEPT ![p] = hStart[p]]
          /\ hStart' = [hStart EXCEPT ![p] = 0] /\ UNCHANGED hWant
       \/ hWant[p] = 1 /\ hWant' = [hWant EXCEPT ![p] = 0] /\ UNCHANGED <<hOther, hStart>>
    /\ SendKexInit(p)
    /\ hKex' = [hKex EXCEPT ![p] = IF hOther'[p] # 0 /\ hSent'[p] # 0 THEN "exchange" ELSE "select"]
    /\ UNCHANGED <<hConf, hRead, hStep, hEph, hNext, hSid, hPend, hKey, hLeftW, hLeftR, hAppVars, hUp>>

(* enterKeyExchange: no common algorithm ends the exchange, otherwise one   *)
(* packet of it is sent or read.                                            *)
NoAlgorithm(p) ==
    /\ hKex[p] = "exchange" /\ hErr[p] = "no" /\ CommonSet(hConf["c"], hConf["s"]) = {}
    /\ Fails(p, "algorithm")
    /\ UNCHANGED <<hConf, hWire, hRead, hKexVars, hWant, hPend, hKey, hLeftW, hLeftR, hAppVars, hUp>>

ExchangeStep(p) ==
    /\ hKex[p] = "exchange" /\ hErr[p] = "no" /\ CommonSet(hConf["c"], hConf["s"]) # {}
    /\ hStep[p] < Len(Script(p))
    /\ LET s == Script(p)[hStep[p] + 1] IN
       \/ /\ s.do = "send" /\ hUp = "up"
          /\ Pushed(p, Packet(p, s.m, hSent[p]))
          /\ UNCHANGED <<hEph, hErr>>
       \/ /\ s.do = "read" /\ Arrived(p)
          /\ Consumed(p)
          /\ hEph' = [hEph EXCEPT ![p] = Next1(p).val]
          /\ IF Next1(p).key = hKey[p].r /\ Next1(p).t = s.m THEN UNCHANGED hErr
             ELSE Fails(p, IF Next1(p).key = hKey[p].r THEN "unexpected" ELSE "mac")
    /\ hStep' = [hStep EXCEPT ![p] = @ + 1]
    /\ UNCHANGED <<hConf, hRead, hKex, hSent, hStart, hOther, hNext, hSid, hCount, hWant, hPend,
                   hKey, hLeftW, hLeftR, hAppVars, hUp>>

(* The exchange is complete: the session id is that of the first one, both  *)
(* ciphers are prepared, NEWKEYS is written with the old one and the writer *)
(* changes over.                                                            *)
SendNewKeys(p) ==
    LET h == ExchangeHash(p)  sid == IF hSid[p] = <<>> THEN h ELSE hSid[p] IN
    /\ hKex[p] = "exchange" /\ hErr[p] = "no" /\ hUp = "up"
    /\ CommonSet(hConf["c"], hConf["s"]) # {} /\ hStep[p] = Len(Script(p))
    /\ hSid' = [hSid EXCEPT ![p] = sid]
    /\ hNext' = [hNext EXCEPT ![p].r = CipherOf(Other(p), h, sid)]
    /\ Pushed(p, Packet(p, "newkeys", 0))
    /\ hKey' = [hKey EXCEPT ![p].w = CipherOf(p, h, sid)]
    /\ hKex' = [hKex EXCEPT ![p] = "newkeys"]
    /\ UNCHANGED <<hConf, hRead, hStep, hSent, hStart, hOther, hEph, hCount, hWant, hPend,
                   hLeftW, hLeftR, hAppVars, hErr, hUp>>

(* The peer's NEWKEYS: the reader changes over.                             *)
ReadNewKeys(p) ==
    /\ hKex[p] = "newkeys" /\ hErr[p] = "no" /\ Arrived(p)
    /\ Consumed(p)
    /\ IF Next1(p).key = hKey[p].r /\ Next1(p).t = "newkeys"
       THEN /\ hKey' = [hKey EXCEPT ![p].r = hNext[p].r]
            /\ hKex' = [hKex EXCEPT ![p] = "finish"]
            /\ UNCHANGED hErr
       ELSE /\ Fails(p, IF Next1(p).key = hKey[p].r THEN "unexpected" ELSE "mac")
            /\ UNCHANGED <<hKey, hKex>>
    /\ UNCHANGED <<hConf, hRead, hStep, hSent, hStart, hOther, hEph, hNext, hSid, hCount, hWant, hPend,
                   hLeftW, hLeftR, hAppVars, hUp>>

(* The end of an iteration of kexLoop, under its lock: requests made in the *)
(* meantime are forgotten, the reader is released, and the packets that had *)
(* to wait are written, past the thresholds.                                *)
Flushed(p) == [i \in 1..Len(hPend[p]) |-> Packet(p, "data", hPend[p][i])]

(* Mutant: readLoop is not told that the exchange is over.                  *)
MutReleased(p) == hRead[p]

(* request.done: readLoop, which waits for it, reads on.                    *)
Released(p) == "read"

FinishKex(p) ==
    /\ hKex[p] = "finish" /\ hErr[p] = "no"
    /\ hSent' = [hSent EXCEPT ![p] = 0]
    /\ hOther' = [hOther EXCEPT ![p] = 0]
    /\ hStep' = [hStep EXCEPT ![p] = 0]
    /\ hLeftW' = [hLeftW EXCEPT ![p] = HsThreshold]
    /\ hLeftR' = [hLeftR EXCEPT ![p] = HsThreshold]
    /\ hWant' = [hWant EXCEPT ![p] = 0]
    /\ hRead' = [hRead EXCEPT ![p] = Released(p)]
    /\ hWire' = IF hUp = "up" THEN [hWire EXCEPT ![p] = @ \o Flushed(p)] ELSE hWire
    /\ hPend' = [hPend EXCEPT ![p] = <<>>]
    /\ hKex' = [hKex EXCEPT ![p] = "select"]
    /\ UNCHANGED <<hConf, hStart, hEph, hNext, hSid, hCount, hKey, hAppVars, hErr, hUp>>

------------------------------------------------------------------------------
(* readLoop: thresholds are counted, a KEXINIT is handed to kexLoop and     *)
(* stops the reading until the exchange is over, data is passed on.         *)
ReadOnePacket(p) ==
    LET m == Next1(p) IN
    /\ hRead[p] \in {"first", "read"} /\ hErr[p] = "no" /\ Arrived(p)
    /\ Consumed(p)
    /\ IF hLeftR[p] > 0 THEN hLeftR' = [hLeftR EXCEPT ![p] = @ - 1] /\ UNCHANGED hWant
       ELSE hWant' = [hWant EXCEPT ![p] = 1] /\ UNCHANGED hLeftR
    /\ CASE m.key # hKey[p].r -> Fails(p, "mac") /\ UNCHANGED <<hRead, hStart, hIn>>
         [] m.key = hKey[p].r /\ m.t = "kexinit" ->
              /\ hStart' = [hStart EXCEPT ![p] = m.val]
              /\ hRead' = [hRead EXCEPT ![p] = "kex"]
              /\ UNCHANGED <<hIn, hErr>>
         [] m.key = hKey[p].r /\ m.t = "data" /\ hRead[p] = "read" ->
              hIn' = [hIn EXCEPT ![p] = Append(@, m.val)] /\ UNCHANGED <<hRead, hStart, hErr>>
         [] OTHER -> Fails(p, "unexpected") /\ UNCHANGED <<hRead, hStart, hIn>>
    /\ UNCHANGED <<hConf, hKex, hStep, hSent, hOther, hEph, hNext, hSid, hCount, hPend, hKey,
                   hLeftW, hOut, hUp>>

(* Mutant: packets wait only from the time the exchange is complete.        *)
MutHeldBack(p) == hKex[p] \in {"newkeys", "finish"}

HeldBack(p) == hSent[p] # 0

(* writePacket, once waitSession has returned: it waits in pendingPackets   *)
(* while an exchange is on, and asks for one past the threshold.            *)
WritePacket(p) ==
    /\ hSid[p] # <<>> /\ hRead[p] # "first" /\ hErr[p] = "no" /\ hOut[p] < HsData
    /\ hCount[p] > 1 \/ hSent[p] = 0
    /\ hOut' = [hOut EXCEPT ![p] = @ + 1]
    /\ IF HeldBack(p)
       THEN /\ hPend' = [hPend EXCEPT ![p] = Append(@, hOut'[p])]
            /\ UNCHANGED <<hWire, hWant, hLeftW, hErr>>
       ELSE /\ IF hLeftW[p] > 0 THEN hLeftW' = [hLeftW EXCEPT ![p] = @ - 1] /\ UNCHANGED hWant
               ELSE hWant' = [hWant EXCEPT ![p] = 1] /\ UNCHANGED hLeftW
            /\ IF hUp = "up" THEN Pushed(p, Packet(p, "data", hOut'[p])) /\ UNCHANGED hErr
               ELSE Fails(p, "write") /\ UNCHANGED hWire
            /\ UNCHANGED hPend
    /\ UNCHANGED <<hConf, hRead, hKexVars, hKey, hLeftR, hIn, hUp>>

(* The connection is lost, with what was on the way.                        *)
HsConnLost ==
    /\ hUp = "up"
    /\ hUp' = "down"
    /\ hWire' = [p \in HsSides |-> <<>>]
    /\ UNCHANGED <<hConf, hRead, hKexVars, hWant, hPend, hKey, hLeftW, hLeftR, hAppVars, hErr>>

(* readLoop or kexLoop finds the connection gone.                           *)
HsReadFails(p) ==
    /\ hUp = "down" /\ hErr[p] = "no"
    /\ hRead[p] # "kex" \/ hKex[p] \in {"exchange", "newkeys"}
    /\ Fails(p, "read")
    /\ UNCHANGED <<hConf, hWire, hRead, hKexVars, hWant, hPend, hKey, hLeftW, hLeftR, hAppVars, hUp>>

(* After an error the loops answer each other and stop: readLoop records it *)
(* and closes startKex, kexLoop answers a waiting readLoop and closes the   *)
(* connection.                                                              *)
HsStop(p) ==
    /\ hErr[p] # "no" /\ hKex[p] # "dead"
    /\ hKex' = [hKex EXCEPT ![p] = "dead"]
    /\ hRead' = [hRead EXCEPT ![p] = "dead"]
    /\ hUp' = "down"
    /\ hWire' = [q \in HsSides |-> <<>>]
    /\ UNCHANGED <<hConf, hStep, hSent, hStart, hOther, hEph, hNext, hSid, hCount, hWant, hPend, hKey,
                   hLeftW, hLeftR, hAppVars, hErr>>

HsLoopSteps(p) ==
    \/ KexWake(p) \/ NoAlgorithm(p) \/ ExchangeStep(p) \/ SendNewKeys(p) \/ ReadNewKeys(p)
    \/ FinishKex(p) \/ HsStop(p)
HsReadSteps(p) == ReadOnePacket(p) \/ HsReadFails(p)

HsNext ==
    \/ \E p \in HsSides : HsLoopSteps(p) \/ HsReadSteps(p) \/ WritePacket(p)
    \/ HsConnLost

HsSpec == HsInit /\ [][HsNext]_hsVars
HsFairSpec ==
    HsSpec /\ \A p \in HsSides : WF_hsVars(HsLoopSteps(p)) /\ WF_hsVars(HsReadSteps(p))

------------------------------------------------------------------------------
HsTypeOK ==
    /\ hRead \in [HsSides -> {"first", "read", "kex", "dead"}]
    /\ hKex \in [HsSides -> {"select", "exchange", "newkeys", "finish", "dead"}]
    /\ hErr \in [HsSides -> {"no", "read", "write", "algorithm", "unexpected", "mac"}]
    /\ hWant \in [HsSides -> 0..1]
    /\ \A p \in HsSides :
         /\ hSent[p] \in 0..hCount[p] /\ hStart[p] \in 0..hCount[Other(p)] /\ hOther[p] \in 0..hCount[Other(p)]
         /\ hStep[p] \in 0..4 /\ hLeftW[p] \in 0..HsThreshold /\ hLeftR[p] \in 0..HsThreshold
         /\ Len(hPend[p]) + Len(hIn[Other(p)]) <= hOut[p] /\ hOut[p] <= HsData
    /\ hUp \in {"up", "down"}

(* However the two exchanges, the re-exchanges asked for by either side and *)
(* the traffic interleave, every packet is read with the key it was written *)
(* with, and comes where its reader expects it.                             *)
HsKeysInStep == \A p \in HsSides : hErr[p] \notin {"mac", "unexpected"}

(* Nothing but the exchange itself is sent between a KEXINIT and the        *)
(* NEWKEYS that ends it (RFC 4253, 7.1).                                    *)
HsSilent ==
    \A p \in HsSides : \A i, j \in 1..Len(hWire[p]) :
        i < j /\ hWire[p][i].t = "kexinit" /\ hWire[p][j].t = "data"
            => \E k \in i..j : hWire[p][k].t = "newkeys"

(* The two sides have one session id, of the first exchange, whatever was   *)
(* exchanged after it, and all traffic keys are bound to it.                *)
HsAgree ==
    /\ hSid["c"] # <<>> /\ hSid["s"] # <<>> => hSid["c"] = hSid["s"]
    /\ \A p \in HsSides : hSid[p] # <<>> => hKey[p].w.sid = hSid[p]

(* Re-exchanging keys neither loses nor repeats nor reorders a packet: the  *)
(* packets read, on the way and waiting are those written.                  *)
HsInOrder ==
    \A p \in HsSides : hUp = "up" =>
        LET way == {i \in 1..Len(hWire[p]) : hWire[p][i].t = "data"}
            read == Len(hIn[Other(p)])
            gone == hOut[p] - Len(hPend[p])
        IN  /\ \A i \in 1..read : hIn[Other(p)][i] = i
            /\ \A i \in 1..Len(hPend[p]) : hPend[p][i] = gone + i
            /\ {hWire[p][i].val : i \in way} = (read + 1)..gone
            /\ \A i, j \in way : i < j => hWire[p][i].val < hWire[p][j].val

(* Keys, sessions and packets agree on both sides, however often the keys   *)
(* are exchanged.                                                           *)
HsSound == HsTypeOK /\ HsKeysInStep /\ HsSilent /\ HsAgree /\ HsInOrder

(* An exchange that has begun ends, with new keys or with the connection.   *)
HsKexEnds == []<>(\A p \in HsSides : hSent[p] = 0 \/ hKex[p] = "dead")

(* Every packet written arrives, those that waited included, unless the     *)
(* connection is lost.                                                      *)
HsDelivered ==
    []<>(hUp = "down" \/ \A p \in HsSides : Len(hIn[Other(p)]) = hOut[p])

(* Exchanges end and packets arrive.                                        *)
HsProgress == HsKexEnds /\ HsDelivered
=============================================================================
