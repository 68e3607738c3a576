------------------------ MODULE IsleContainersProofs ------------------------
(***************************************************************************)
(* Proofs about IsleContainers, for any number of isles, boots, requests   *)
(* and restarts.  The safety properties are not inductive: they rest on    *)
(* who holds g.mu while a boot can still create something, which is what   *)
(* the parts of Inv say.                                                   *)
(***************************************************************************)
EXTENDS IsleContainers, TLAPS

(* Only the holder of g.mu is inside Container or delete.                   *)
LockInv == \A r \in Reqs : rpc[r] \in Holding => mu = r

(* The id a request works on belongs to a spawned boot of the name it asks  *)
(* for.                                                                     *)
RidInv ==
    \A r \in Reqs :
        rpc[r] \in {"inspect", "replace", "wait", "dclean", "dkill"}
            => /\ rid[r] \in Ids
               /\ boot[rid[r]] # "unused"
               /\ bname[rid[r]] = rname[r]

(* A boot that may still create something has a requester waiting for it.   *)
WaiterInv ==
    \A i \in Ids : boot[i] \in Booting /\ i \notin ctxDone
        => \E r \in Reqs : rpc[r] = "wait" /\ rid[r] = i

(* No container exists before NewContainer.                                 *)
FreshInv ==
    \A i \in Ids : boot[i] \in Unpacking \cup {"unused"} => cont[i] = "none"

(* Nor does another container of the name, from the moment Container        *)
(* decides to spawn a boot until that boot creates it.                      *)
NameFreeInv ==
    \A r \in Reqs :
        rpc[r] = "spawn" \/ (rpc[r] = "wait" /\ boot[rid[r]] \in Unpacking)
            => \A i \in Ids : bname[i] = rname[r] => cont[i] = "none"

(* Entries are for spawned ids and their names.                             *)
EntryInv ==
    \A n \in Names : running[n] # NoId
        => boot[running[n]] # "unused" /\ bname[running[n]] = n

(* While Container has the lock and has not answered, and once delete has   *)
(* forgotten the entry, there is none.                                      *)
NoEntryInv ==
    \A r \in Reqs :
        rpc[r] \in {"list", "inspect", "replace", "spawn", "wait",
                    "dlist", "dclean", "dkill", "rm"}
            => running[rname[r]] = NoId

(* A boot puts its id on the channel, and is registered, only once it is in  *)
(* its loop, which it leaves only when its context is cancelled.            *)
PastSignal(i) ==
    boot[i] = "loop" \/ (boot[i] \in {"bgTask", "bgCont", "done"} /\ i \in ctxDone)
SentInv == \A i \in sent \cup owned : PastSignal(i)

(* A boot in its loop with a live context is registered with its cancel     *)
(* function, or is about to be.                                             *)
LoopInv ==
    \A i \in Ids : boot[i] = "loop" /\ i \notin ctxDone
        => \/ i \in owned /\ running[bname[i]] = i
           \/ \E r \in Reqs : rpc[r] = "wait" /\ rid[r] = i

(* What a boot with a live context has created so far is still there.       *)
LadderInv ==
    \A i \in Ids : i \notin ctxDone =>
        /\ boot[i] = "task" => cont[i] = "record"
        /\ boot[i] \in {"net", "tstart"} => cont[i] = "created"
        /\ boot[i] \in {"setup", "signal", "loop"} => cont[i] \in {"started", "stopped"}
        /\ boot[i] \in {"tstart", "setup", "signal", "loop"} => i \in net

(* Cleanup works on a container whose boot is cancelled or over.            *)
CleanInv ==
    cpc # "next" => cid \in Ids /\ (cid \in ctxDone \/ boot[cid] \in Ending \cup {"done"})

(* Past the listing, delete knows the only container of the name with a     *)
(* task.                                                                    *)
DeleteInv ==
    \A r \in Reqs :
        /\ rpc[r] \in {"dclean", "dkill"}
            => \A i \in Ids : bname[i] = rname[r] /\ HasTask(i) => i = rid[r]
        /\ rpc[r] = "rm" /\ pctx = "live"
            => \A i \in Ids : bname[i] = rname[r] => ~HasTask(i)

(* While a boot with a live context unpacks, its bundle has not been set up. *)
UnpackInv ==
    \A i \in Ids : boot[i] \in {"stat", "fetch", "layers"} /\ i \notin ctxDone
        => bundle[bname[i]] # "setup"

Inv ==
    /\ TypeOK /\ LockInv /\ RidInv /\ WaiterInv /\ FreshInv /\ NameFreeInv
    /\ EntryInv /\ NoEntryInv /\ SentInv /\ LoopInv /\ LadderInv
    /\ CleanInv /\ DeleteInv /\ UnpackInv /\ AtMostOnePerName

(* A new guest with an empty data disk satisfies Inv.                        *)
LEMMA InitInv == Init => Inv
<1> SUFFICES ASSUME Init PROVE Inv
  OBVIOUS
<1>0. SomeIsle \in Names
  BY SomeName DEF SomeIsle
<1>1. TypeOK
  BY <1>0, RestartBound
  DEF Init, TypeOK, ReqPc, Holding, Ops, BootPc, Booting, Unpacking, Ending,
      ContState, BundleState
<1>2. /\ LockInv /\ RidInv /\ WaiterInv /\ FreshInv /\ NameFreeInv
      /\ EntryInv /\ NoEntryInv /\ SentInv /\ LoopInv /\ LadderInv
      /\ CleanInv /\ DeleteInv /\ UnpackInv /\ AtMostOnePerName
  BY DEF Init, LockInv, RidInv, WaiterInv, FreshInv, NameFreeInv, EntryInv,
         NoEntryInv, SentInv, LoopInv, LadderInv, CleanInv, DeleteInv,
         UnpackInv, AtMostOnePerName, Holding, Booting, Unpacking
<1> QED
  BY <1>1, <1>2 DEF Inv

(* A new request only moves to "lock".                                        *)
LEMMA CallStep ==
    ASSUME Inv, NEW r \in Reqs, NEW op \in Ops, NEW n \in Names, Call(r, op, n)
    PROVE  Inv'
<1> USE NoReqIsNoRequest, NoIdIsNoId DEF Call, Goto, procVars, entryVars,
        bootVars, diskVars, cleanVars
<1>1. TypeOK'
  BY DEF Inv, TypeOK, ReqPc, Holding
<1>2. LockInv'
  BY DEF Inv, TypeOK, LockInv, Holding
<1>3. RidInv'
  BY DEF Inv, TypeOK, RidInv
<1>4. WaiterInv'
  BY DEF Inv, TypeOK, WaiterInv
<1>5. NameFreeInv'
  BY DEF Inv, TypeOK, NameFreeInv
<1>6. NoEntryInv'
  BY DEF Inv, TypeOK, NoEntryInv
<1>7. LoopInv'
  BY DEF Inv, TypeOK, LoopInv
<1>8. DeleteInv'
  BY DEF Inv, TypeOK, DeleteInv, HasTask
<1>9. FreshInv' /\ EntryInv' /\ SentInv' /\ LadderInv' /\ CleanInv' /\
     UnpackInv' /\ AtMostOnePerName'
  BY DEF Inv, FreshInv, EntryInv, SentInv, LadderInv, CleanInv, UnpackInv,
         AtMostOnePerName, PastSignal
<1> QED
  BY <1>1, <1>2, <1>3, <1>4, <1>5, <1>6, <1>7, <1>8, <1>9 DEF Inv

(* Whoever takes the free g.mu becomes the only request inside; Container     *)
(* goes on to the listing only when the name has no entry.                    *)
LEMMA LockStep ==
    ASSUME Inv, NEW r \in Reqs, Lock(r)
    PROVE  Inv'
<1> USE NoReqIsNoRequest, NoIdIsNoId DEF Lock, Goto, procVars, entryVars,
        bootVars, diskVars, cleanVars, Answer
<1>1. TypeOK'
  BY DEF Inv, TypeOK, ReqPc, Holding
<1>2. LockInv'
  BY DEF Inv, TypeOK, LockInv, Holding
<1>3. RidInv'
  BY DEF Inv, TypeOK, RidInv
<1>4. WaiterInv'
  BY DEF Inv, TypeOK, WaiterInv
<1>5. NameFreeInv'
  BY DEF Inv, TypeOK, NameFreeInv
<1>6. NoEntryInv'
  BY DEF Inv, TypeOK, NoEntryInv
<1>7. LoopInv'
  BY DEF Inv, TypeOK, LoopInv
<1>8. DeleteInv'
  BY DEF Inv, TypeOK, DeleteInv, HasTask
<1>9. FreshInv' /\ EntryInv' /\ SentInv' /\ LadderInv' /\ CleanInv' /\
     UnpackInv' /\ AtMostOnePerName'
  BY DEF Inv, FreshInv, EntryInv, SentInv, LadderInv, CleanInv, UnpackInv,
         AtMostOnePerName, PastSignal
<1> QED
  BY <1>1, <1>2, <1>3, <1>4, <1>5, <1>6, <1>7, <1>8, <1>9 DEF Inv

(* An empty listing is what lets Container spawn: nobody else can create a    *)
(* container while it holds g.mu.                                             *)
LEMMA ListStep ==
    ASSUME Inv, NEW r \in Reqs, List(r)
    PROVE  Inv'
<1> USE NoReqIsNoRequest, NoIdIsNoId DEF List, Goto, procVars, entryVars,
        bootVars, diskVars, cleanVars, Answer, ContainersOf
<1>1. TypeOK'
  BY DEF Inv, TypeOK, ReqPc, Holding
<1>2. LockInv'
  BY DEF Inv, TypeOK, LockInv, Holding
<1>3. RidInv'
  BY DEF Inv, TypeOK, RidInv, FreshInv
<1>4. WaiterInv'
  BY DEF Inv, TypeOK, WaiterInv
<1>5. NameFreeInv'
  BY DEF Inv, TypeOK, NameFreeInv
<1>6. NoEntryInv'
  BY DEF Inv, TypeOK, NoEntryInv
<1>7. LoopInv'
  BY DEF Inv, TypeOK, LoopInv
<1>8. DeleteInv'
  BY DEF Inv, TypeOK, DeleteInv, HasTask, LockInv, Holding
<1>9. FreshInv' /\ EntryInv' /\ SentInv' /\ LadderInv' /\ CleanInv' /\
     UnpackInv' /\ AtMostOnePerName'
  BY DEF Inv, FreshInv, EntryInv, SentInv, LadderInv, CleanInv, UnpackInv,
         AtMostOnePerName, PastSignal
<1> QED
  BY <1>1, <1>2, <1>3, <1>4, <1>5, <1>6, <1>7, <1>8, <1>9 DEF Inv

(* Adopting a container cannot take the cancel function from a live boot: a   *)
(* live boot would have an entry, and the name has none.                      *)
LEMMA InspectStep ==
    ASSUME Inv, NEW r \in Reqs, Inspect(r)
    PROVE  Inv'
<1> USE NoReqIsNoRequest, NoIdIsNoId DEF Inspect, Goto, Answer, Produced,
        HasTask, procVars, entryVars, bootVars, diskVars
<1>1. TypeOK'
  BY DEF Inv, TypeOK, ReqPc, Holding
<1>2. LockInv'
  BY DEF Inv, TypeOK, LockInv, Holding
<1>3. RidInv'
  BY DEF Inv, TypeOK, RidInv
<1>4. WaiterInv'
  BY DEF Inv, TypeOK, WaiterInv
<1>5. NameFreeInv'
  BY DEF Inv, TypeOK, NameFreeInv
<1>6. EntryInv'
  BY DEF Inv, TypeOK, EntryInv, RidInv
<1>7. NoEntryInv'
  BY DEF Inv, TypeOK, NoEntryInv, LockInv, Holding
<1>8. SentInv'
  BY DEF Inv, TypeOK, SentInv, PastSignal
<1>9. LoopInv'
  BY DEF Inv, TypeOK, LoopInv, LockInv, WaiterInv, NoEntryInv, RidInv,
         Holding, Booting, Unpacking
<1>10. DeleteInv'
  BY DEF Inv, TypeOK, DeleteInv, HasTask
<1>11. FreshInv' /\ LadderInv' /\ CleanInv' /\ UnpackInv' /\ AtMostOnePerName'
  BY DEF Inv, FreshInv, LadderInv, CleanInv, UnpackInv, AtMostOnePerName
<1> QED
  BY <1>1, <1>2, <1>3, <1>4, <1>5, <1>6, <1>7, <1>8, <1>9, <1>10, <1>11 DEF Inv

(* The record it deletes is the only container of the name, and no live boot  *)
(* stands behind it.                                                          *)
LEMMA ReplaceStep ==
    ASSUME Inv, NEW r \in Reqs, Replace(r)
    PROVE  Inv'
<1> USE NoReqIsNoRequest, NoIdIsNoId DEF Replace, Goto, procVars, entryVars,
        bootVars, diskVars, cleanVars, Answer
<1>1. TypeOK'
  BY DEF Inv, TypeOK, ReqPc, Holding, ContState
<1>2. LockInv'
  BY DEF Inv, TypeOK, LockInv, Holding
<1>3. RidInv'
  BY DEF Inv, TypeOK, RidInv
<1>4. WaiterInv'
  BY DEF Inv, TypeOK, WaiterInv
<1>5. FreshInv'
  BY DEF Inv, TypeOK, FreshInv
<1>6. NameFreeInv'
  BY DEF Inv, TypeOK, NameFreeInv, AtMostOnePerName, RidInv, LockInv, Holding
<1>7. NoEntryInv'
  BY DEF Inv, TypeOK, NoEntryInv
<1>8. LoopInv'
  BY DEF Inv, TypeOK, LoopInv
<1>9. LadderInv'
  BY DEF Inv, TypeOK, LadderInv, LockInv, WaiterInv, LoopInv, NoEntryInv,
         RidInv, Holding, Booting, Unpacking
<1>10. DeleteInv'
  BY DEF Inv, TypeOK, DeleteInv, HasTask
<1>11. AtMostOnePerName'
  BY DEF Inv, TypeOK, AtMostOnePerName
<1>12. EntryInv' /\ SentInv' /\ CleanInv' /\ UnpackInv'
  BY DEF Inv, EntryInv, SentInv, CleanInv, UnpackInv, PastSignal
<1> QED
  BY <1>1, <1>2, <1>3, <1>4, <1>5, <1>6, <1>7, <1>8, <1>9, <1>10, <1>11, <1>12 DEF Inv

(* The new boot starts with the name free and with its requester waiting.     *)
LEMMA SpawnStep ==
    ASSUME Inv, NEW r \in Reqs, Spawn(r)
    PROVE  Inv'
<1> USE NoReqIsNoRequest, NoIdIsNoId DEF Spawn, Goto, procVars, entryVars,
        diskVars, cleanVars
<1>1. TypeOK'
  BY DEF Inv, TypeOK, ReqPc, Holding, BootPc, Booting, Unpacking, Ending
<1>2. LockInv'
  BY DEF Inv, TypeOK, LockInv, Holding
<1>3. RidInv'
  BY DEF Inv, TypeOK, RidInv
<1>4. WaiterInv'
  BY DEF Inv, TypeOK, WaiterInv, RidInv
<1>5. FreshInv'
  BY DEF Inv, TypeOK, FreshInv, Unpacking
<1>6. NameFreeInv'
  BY DEF Inv, TypeOK, NameFreeInv, LockInv, Holding, FreshInv, Unpacking
<1>7. EntryInv'
  BY DEF Inv, TypeOK, EntryInv
<1>8. NoEntryInv'
  BY DEF Inv, TypeOK, NoEntryInv
<1>9. SentInv'
  BY DEF Inv, TypeOK, SentInv, PastSignal
<1>10. LoopInv'
  BY DEF Inv, TypeOK, LoopInv
<1>11. LadderInv'
  BY DEF Inv, TypeOK, LadderInv
<1>12. CleanInv'
  BY DEF Inv, TypeOK, CleanInv, Ending
<1>13. DeleteInv'
  BY DEF Inv, TypeOK, DeleteInv, HasTask, LockInv, Holding, FreshInv
<1>14. UnpackInv'
  BY DEF Inv, TypeOK, UnpackInv
<1>15. AtMostOnePerName'
  BY DEF Inv, TypeOK, AtMostOnePerName, FreshInv
<1> QED
  BY <1>1, <1>2, <1>3, <1>4, <1>5, <1>6, <1>7, <1>8, <1>9, <1>10, <1>11,
     <1>12, <1>13, <1>14, <1>15 DEF Inv

(* A boot that has signalled is in its loop or was cancelled; it is now       *)
(* registered.                                                                *)
LEMMA WaitStartedStep ==
    ASSUME Inv, NEW r \in Reqs, WaitStarted(r)
    PROVE  Inv'
<1> USE NoReqIsNoRequest, NoIdIsNoId DEF WaitStarted, Answer, Produced,
        procVars, diskVars
<1>1. TypeOK'
  BY DEF Inv, TypeOK, ReqPc, Holding
<1>2. LockInv'
  BY DEF Inv, TypeOK, LockInv, Holding
<1>3. RidInv'
  BY DEF Inv, TypeOK, RidInv
<1>4. WaiterInv'
  BY DEF Inv, TypeOK, WaiterInv, SentInv, PastSignal, Booting, Unpacking
<1>5. NameFreeInv'
  BY DEF Inv, TypeOK, NameFreeInv
<1>6. EntryInv'
  BY DEF Inv, TypeOK, EntryInv, RidInv
<1>7. NoEntryInv'
  BY DEF Inv, TypeOK, NoEntryInv, LockInv, Holding
<1>8. SentInv'
  BY DEF Inv, TypeOK, SentInv, PastSignal
<1>9. LoopInv'
  BY DEF Inv, TypeOK, LoopInv, RidInv, NoEntryInv
<1>10. DeleteInv'
  BY DEF Inv, TypeOK, DeleteInv, HasTask
<1>11. FreshInv' /\ LadderInv' /\ CleanInv' /\ UnpackInv' /\ AtMostOnePerName'
  BY DEF Inv, FreshInv, LadderInv, CleanInv, UnpackInv, AtMostOnePerName
<1> QED
  BY <1>1, <1>2, <1>3, <1>4, <1>5, <1>6, <1>7, <1>8, <1>9, <1>10, <1>11 DEF Inv

(* Giving up cancels the boot, so it needs no requester any more.             *)
LEMMA WaitGivenUpStep ==
    ASSUME Inv, NEW r \in Reqs, WaitGivenUp(r)
    PROVE  Inv'
<1> USE NoReqIsNoRequest, NoIdIsNoId DEF WaitGivenUp, Answer, procVars,
        entryVars, bootVars, diskVars, cleanVars
<1>1. TypeOK'
  BY DEF Inv, TypeOK, ReqPc, Holding, RidInv
<1>2. LockInv'
  BY DEF Inv, TypeOK, LockInv, Holding
<1>3. RidInv'
  BY DEF Inv, TypeOK, RidInv
<1>4. WaiterInv'
  BY DEF Inv, TypeOK, WaiterInv
<1>5. NameFreeInv'
  BY DEF Inv, TypeOK, NameFreeInv
<1>6. NoEntryInv'
  BY DEF Inv, TypeOK, NoEntryInv
<1>7. SentInv'
  BY DEF Inv, TypeOK, SentInv, PastSignal
<1>8. LoopInv'
  BY DEF Inv, TypeOK, LoopInv
<1>9. LadderInv'
  BY DEF Inv, TypeOK, LadderInv
<1>10. CleanInv'
  BY DEF Inv, TypeOK, CleanInv
<1>11. DeleteInv'
  BY DEF Inv, TypeOK, DeleteInv, HasTask
<1>12. UnpackInv'
  BY DEF Inv, TypeOK, UnpackInv
<1>13. FreshInv' /\ EntryInv' /\ AtMostOnePerName'
  BY DEF Inv, FreshInv, EntryInv, AtMostOnePerName
<1> QED
  BY <1>1, <1>2, <1>3, <1>4, <1>5, <1>6, <1>7, <1>8, <1>9, <1>10, <1>11,
     <1>12, <1>13 DEF Inv

(* The caller leaves with its id.                                             *)
LEMMA UseStep ==
    ASSUME Inv, NEW r \in Reqs, Use(r)
    PROVE  Inv'
<1> USE NoReqIsNoRequest, NoIdIsNoId DEF Use, Goto, procVars, entryVars,
        bootVars, diskVars, cleanVars
<1>1. TypeOK'
  BY DEF Inv, TypeOK, ReqPc, Holding
<1>2. LockInv'
  BY DEF Inv, TypeOK, LockInv, Holding
<1>3. RidInv'
  BY DEF Inv, TypeOK, RidInv
<1>4. WaiterInv'
  BY DEF Inv, TypeOK, WaiterInv
<1>5. NameFreeInv'
  BY DEF Inv, TypeOK, NameFreeInv
<1>6. NoEntryInv'
  BY DEF Inv, TypeOK, NoEntryInv
<1>7. LoopInv'
  BY DEF Inv, TypeOK, LoopInv
<1>8. DeleteInv'
  BY DEF Inv, TypeOK, DeleteInv, HasTask
<1>9. FreshInv' /\ EntryInv' /\ SentInv' /\ LadderInv' /\ CleanInv' /\
     UnpackInv' /\ AtMostOnePerName'
  BY DEF Inv, FreshInv, EntryInv, SentInv, LadderInv, CleanInv, UnpackInv,
         AtMostOnePerName, PastSignal
<1> QED
  BY <1>1, <1>2, <1>3, <1>4, <1>5, <1>6, <1>7, <1>8, <1>9 DEF Inv

(* Closing a connection cancels boots and changes nothing else that Inv       *)
(* speaks of.                                                                 *)
LEMMA ConnCloseStep ==
    ASSUME Inv, NEW r \in Reqs, ConnClose(r)
    PROVE  Inv'
<1> USE NoReqIsNoRequest, NoIdIsNoId DEF ConnClose, Goto, procVars, entryVars,
        bootVars, diskVars, cleanVars
<1>1. TypeOK'
  BY DEF Inv, TypeOK, ReqPc, Holding
<1>2. LockInv'
  BY DEF Inv, TypeOK, LockInv, Holding
<1>3. RidInv'
  BY DEF Inv, TypeOK, RidInv
<1>4. WaiterInv'
  BY DEF Inv, TypeOK, WaiterInv
<1>5. NameFreeInv'
  BY DEF Inv, TypeOK, NameFreeInv
<1>6. NoEntryInv'
  BY DEF Inv, TypeOK, NoEntryInv
<1>7. SentInv'
  BY DEF Inv, TypeOK, SentInv, PastSignal
<1>8. LoopInv'
  BY DEF Inv, TypeOK, LoopInv
<1>9. LadderInv'
  BY DEF Inv, TypeOK, LadderInv
<1>10. CleanInv'
  BY DEF Inv, TypeOK, CleanInv
<1>11. DeleteInv'
  BY DEF Inv, TypeOK, DeleteInv, HasTask
<1>12. UnpackInv'
  BY DEF Inv, TypeOK, UnpackInv
<1>13. FreshInv' /\ EntryInv' /\ AtMostOnePerName'
  BY DEF Inv, FreshInv, EntryInv, AtMostOnePerName
<1> QED
  BY <1>1, <1>2, <1>3, <1>4, <1>5, <1>6, <1>7, <1>8, <1>9, <1>10, <1>11,
     <1>12, <1>13 DEF Inv

(* Deciding whether the isle exists creates nothing.                          *)
LEMMA BootExistsStep ==
    ASSUME Inv, NEW i \in Ids, BootExists(i)
    PROVE  Inv'
<1> USE NoReqIsNoRequest, NoIdIsNoId DEF BootExists, At, BootGoto,
        BootUnchanged, procVars, reqVars, entryVars, cleanVars, diskVars
<1>1. TypeOK'
  BY DEF Inv, TypeOK, BootPc, Booting, Unpacking, Ending
<1>2. RidInv'
  BY DEF Inv, TypeOK, RidInv
<1>3. WaiterInv'
  BY DEF Inv, TypeOK, WaiterInv, Booting, Unpacking
<1>4. FreshInv'
  BY DEF Inv, TypeOK, FreshInv, Unpacking
<1>5. NameFreeInv'
  BY DEF Inv, TypeOK, NameFreeInv, RidInv, Unpacking
<1>6. EntryInv'
  BY DEF Inv, TypeOK, EntryInv
<1>7. SentInv'
  BY DEF Inv, TypeOK, SentInv, PastSignal
<1>8. LoopInv'
  BY DEF Inv, TypeOK, LoopInv, WaiterInv, Booting, Unpacking
<1>9. LadderInv'
  BY DEF Inv, TypeOK, LadderInv
<1>10. CleanInv'
  BY DEF Inv, TypeOK, CleanInv, Ending
<1>11. UnpackInv'
  BY DEF Inv, TypeOK, UnpackInv
<1>12. LockInv' /\ NoEntryInv' /\ DeleteInv' /\ AtMostOnePerName'
  BY DEF Inv, LockInv, NoEntryInv, DeleteInv, AtMostOnePerName, HasTask
<1> QED
  BY <1>1, <1>2, <1>3, <1>4, <1>5, <1>6, <1>7, <1>8, <1>9, <1>10, <1>11, <1>12 DEF Inv

(* Nor does asking again.                                                     *)
LEMMA BootStatStep ==
    ASSUME Inv, NEW i \in Ids, BootStat(i)
    PROVE  Inv'
<1> USE NoReqIsNoRequest, NoIdIsNoId DEF BootStat, At, BootGoto,
        BootUnchanged, procVars, reqVars, entryVars, cleanVars, diskVars
<1>1. TypeOK'
  BY DEF Inv, TypeOK, BootPc, Booting, Unpacking, Ending
<1>2. RidInv'
  BY DEF Inv, TypeOK, RidInv
<1>3. WaiterInv'
  BY DEF Inv, TypeOK, WaiterInv, Booting, Unpacking
<1>4. FreshInv'
  BY DEF Inv, TypeOK, FreshInv, Unpacking
<1>5. NameFreeInv'
  BY DEF Inv, TypeOK, NameFreeInv, RidInv, Unpacking
<1>6. EntryInv'
  BY DEF Inv, TypeOK, EntryInv
<1>7. SentInv'
  BY DEF Inv, TypeOK, SentInv, PastSignal
<1>8. LoopInv'
  BY DEF Inv, TypeOK, LoopInv, WaiterInv, Booting, Unpacking
<1>9. LadderInv'
  BY DEF Inv, TypeOK, LadderInv
<1>10. CleanInv'
  BY DEF Inv, TypeOK, CleanInv, Ending
<1>11. UnpackInv'
  BY DEF Inv, TypeOK, UnpackInv
<1>12. LockInv' /\ NoEntryInv' /\ DeleteInv' /\ AtMostOnePerName'
  BY DEF Inv, LockInv, NoEntryInv, DeleteInv, AtMostOnePerName, HasTask
<1> QED
  BY <1>1, <1>2, <1>3, <1>4, <1>5, <1>6, <1>7, <1>8, <1>9, <1>10, <1>11, <1>12 DEF Inv

(* Only a bundle that was absent changes.                                     *)
LEMMA BootFetchStep ==
    ASSUME Inv, NEW i \in Ids, BootFetch(i)
    PROVE  Inv'
<1> USE NoReqIsNoRequest, NoIdIsNoId DEF BootFetch, At, BootGoto,
        BootUnchanged, procVars, reqVars, entryVars, cleanVars, diskVars
<1>1. TypeOK'
  BY DEF Inv, TypeOK, BootPc, Booting, Unpacking, Ending, BundleState
<1>2. RidInv'
  BY DEF Inv, TypeOK, RidInv
<1>3. WaiterInv'
  BY DEF Inv, TypeOK, WaiterInv, Booting, Unpacking
<1>4. FreshInv'
  BY DEF Inv, TypeOK, FreshInv, Unpacking
<1>5. NameFreeInv'
  BY DEF Inv, TypeOK, NameFreeInv, RidInv, Unpacking
<1>6. EntryInv'
  BY DEF Inv, TypeOK, EntryInv
<1>7. SentInv'
  BY DEF Inv, TypeOK, SentInv, PastSignal
<1>8. LoopInv'
  BY DEF Inv, TypeOK, LoopInv, WaiterInv, Booting, Unpacking
<1>9. LadderInv'
  BY DEF Inv, TypeOK, LadderInv
<1>10. CleanInv'
  BY DEF Inv, TypeOK, CleanInv, Ending
<1>11. UnpackInv'
  BY DEF Inv, TypeOK, UnpackInv
<1>12. LockInv' /\ NoEntryInv' /\ DeleteInv' /\ AtMostOnePerName'
  BY DEF Inv, LockInv, NoEntryInv, DeleteInv, AtMostOnePerName, HasTask
<1> QED
  BY <1>1, <1>2, <1>3, <1>4, <1>5, <1>6, <1>7, <1>8, <1>9, <1>10, <1>11, <1>12 DEF Inv

(* A live boot finds a bundle that was not set up; a cancelled one only makes *)
(* a bare rootfs.                                                             *)
LEMMA BootLayersStep ==
    ASSUME Inv, NEW i \in Ids, BootLayers(i)
    PROVE  Inv'
<1> USE NoReqIsNoRequest, NoIdIsNoId DEF BootLayers, At, BootGoto,
        BootUnchanged, procVars, reqVars, entryVars, cleanVars, diskVars
<1>1. TypeOK'
  BY DEF Inv, TypeOK, BootPc, Booting, Unpacking, Ending, BundleState
<1>2. RidInv'
  BY DEF Inv, TypeOK, RidInv
<1>3. WaiterInv'
  BY DEF Inv, TypeOK, WaiterInv, Booting, Unpacking
<1>4. FreshInv'
  BY DEF Inv, TypeOK, FreshInv, Unpacking
<1>5. NameFreeInv'
  BY DEF Inv, TypeOK, NameFreeInv, RidInv, Unpacking
<1>6. EntryInv'
  BY DEF Inv, TypeOK, EntryInv
<1>7. SentInv'
  BY DEF Inv, TypeOK, SentInv, PastSignal
<1>8. LoopInv'
  BY DEF Inv, TypeOK, LoopInv, WaiterInv, Booting, Unpacking
<1>9. LadderInv'
  BY DEF Inv, TypeOK, LadderInv
<1>10. CleanInv'
  BY DEF Inv, TypeOK, CleanInv, Ending
<1>11. UnpackInv'
  BY DEF Inv, TypeOK, UnpackInv
<1>12. LockInv' /\ NoEntryInv' /\ DeleteInv' /\ AtMostOnePerName'
  BY DEF Inv, LockInv, NoEntryInv, DeleteInv, AtMostOnePerName, HasTask
<1> QED
  BY <1>1, <1>2, <1>3, <1>4, <1>5, <1>6, <1>7, <1>8, <1>9, <1>10, <1>11, <1>12 DEF Inv

(* The step that creates a container: its boot is live, so its requester      *)
(* holds g.mu and the name is free.                                           *)
LEMMA BootNewStep ==
    ASSUME Inv, NEW i \in Ids, BootNew(i)
    PROVE  Inv'
<1> USE NoReqIsNoRequest, NoIdIsNoId DEF BootNew, At, BootGoto, BootUnchanged,
        procVars, reqVars, entryVars, cleanVars, diskVars
<1>1. TypeOK'
  BY DEF Inv, TypeOK, BootPc, Booting, Unpacking, Ending, ContState
<1>2. RidInv'
  BY DEF Inv, TypeOK, RidInv
<1>3. WaiterInv'
  BY DEF Inv, TypeOK, WaiterInv, Booting, Unpacking
<1>4. FreshInv'
  BY DEF Inv, TypeOK, FreshInv, Unpacking
<1>5. NameFreeInv'
  BY DEF Inv, TypeOK, NameFreeInv, Unpacking, WaiterInv, LockInv, Holding,
         Booting, RidInv
<1>6. EntryInv'
  BY DEF Inv, TypeOK, EntryInv
<1>7. SentInv'
  BY DEF Inv, TypeOK, SentInv, PastSignal
<1>8. LoopInv'
  BY DEF Inv, TypeOK, LoopInv, WaiterInv, Booting, Unpacking
<1>9. LadderInv'
  BY DEF Inv, TypeOK, LadderInv, HasTask
<1>10. CleanInv'
  BY DEF Inv, TypeOK, CleanInv, Ending
<1>11. DeleteInv'
  BY DEF Inv, TypeOK, DeleteInv, HasTask, WaiterInv, LockInv, Holding,
         Booting, Unpacking
<1>12. UnpackInv'
  BY DEF Inv, TypeOK, UnpackInv
<1>13. AtMostOnePerName'
  BY DEF Inv, TypeOK, AtMostOnePerName, NameFreeInv, WaiterInv, Booting,
         Unpacking, RidInv
<1>14. LockInv' /\ NoEntryInv'
  BY DEF Inv, LockInv, NoEntryInv
<1> QED
  BY <1>1, <1>2, <1>3, <1>4, <1>5, <1>6, <1>7, <1>8, <1>9, <1>10, <1>11,
     <1>12, <1>13, <1>14 DEF Inv

(* The step that creates a task: no delete of the name is under way, its      *)
(* requester holds g.mu.                                                      *)
LEMMA BootTaskStep ==
    ASSUME Inv, NEW i \in Ids, BootTask(i)
    PROVE  Inv'
<1> USE NoReqIsNoRequest, NoIdIsNoId DEF BootTask, At, BootGoto,
        BootUnchanged, procVars, reqVars, entryVars, cleanVars, diskVars
<1>1. TypeOK'
  BY DEF Inv, TypeOK, BootPc, Booting, Unpacking, Ending, ContState
<1>2. RidInv'
  BY DEF Inv, TypeOK, RidInv
<1>3. WaiterInv'
  BY DEF Inv, TypeOK, WaiterInv, Booting, Unpacking
<1>4. FreshInv'
  BY DEF Inv, TypeOK, FreshInv, Unpacking
<1>5. NameFreeInv'
  BY DEF Inv, TypeOK, NameFreeInv, Unpacking, WaiterInv, LockInv, Holding,
         Booting, RidInv
<1>6. EntryInv'
  BY DEF Inv, TypeOK, EntryInv
<1>7. SentInv'
  BY DEF Inv, TypeOK, SentInv, PastSignal
<1>8. LoopInv'
  BY DEF Inv, TypeOK, LoopInv, WaiterInv, Booting, Unpacking
<1>9. LadderInv'
  BY DEF Inv, TypeOK, LadderInv, HasTask
<1>10. CleanInv'
  BY DEF Inv, TypeOK, CleanInv, Ending
<1>11. DeleteInv'
  BY DEF Inv, TypeOK, DeleteInv, HasTask, WaiterInv, LockInv, Holding,
         Booting, Unpacking
<1>12. UnpackInv'
  BY DEF Inv, TypeOK, UnpackInv
<1>13. AtMostOnePerName'
  BY DEF Inv, TypeOK, AtMostOnePerName, NameFreeInv, WaiterInv, Booting,
         Unpacking, RidInv
<1>14. LockInv' /\ NoEntryInv'
  BY DEF Inv, LockInv, NoEntryInv
<1> QED
  BY <1>1, <1>2, <1>3, <1>4, <1>5, <1>6, <1>7, <1>8, <1>9, <1>10, <1>11,
     <1>12, <1>13, <1>14 DEF Inv

(* The network of a live boot is added to a container that has its task.      *)
LEMMA BootNetStep ==
    ASSUME Inv, NEW i \in Ids, BootNet(i)
    PROVE  Inv'
<1> USE NoReqIsNoRequest, NoIdIsNoId DEF BootNet, At, BootGoto, BootUnchanged,
        procVars, reqVars, entryVars, cleanVars, diskVars, HasTask
<1>1. TypeOK'
  BY DEF Inv, TypeOK, BootPc, Booting, Unpacking, Ending
<1>2. RidInv'
  BY DEF Inv, TypeOK, RidInv
<1>3. WaiterInv'
  BY DEF Inv, TypeOK, WaiterInv, Booting, Unpacking
<1>4. FreshInv'
  BY DEF Inv, TypeOK, FreshInv, Unpacking
<1>5. NameFreeInv'
  BY DEF Inv, TypeOK, NameFreeInv, RidInv, Unpacking
<1>6. EntryInv'
  BY DEF Inv, TypeOK, EntryInv
<1>7. SentInv'
  BY DEF Inv, TypeOK, SentInv, PastSignal
<1>8. LoopInv'
  BY DEF Inv, TypeOK, LoopInv, WaiterInv, Booting, Unpacking
<1>9. LadderInv'
  BY DEF Inv, TypeOK, LadderInv
<1>10. CleanInv'
  BY DEF Inv, TypeOK, CleanInv, Ending
<1>11. UnpackInv'
  BY DEF Inv, TypeOK, UnpackInv
<1>12. LockInv' /\ NoEntryInv' /\ DeleteInv' /\ AtMostOnePerName'
  BY DEF Inv, LockInv, NoEntryInv, DeleteInv, AtMostOnePerName, HasTask
<1> QED
  BY <1>1, <1>2, <1>3, <1>4, <1>5, <1>6, <1>7, <1>8, <1>9, <1>10, <1>11, <1>12 DEF Inv

(* The task starts; its requester still waits.                                *)
LEMMA BootStartStep ==
    ASSUME Inv, NEW i \in Ids, BootStart(i)
    PROVE  Inv'
<1> USE NoReqIsNoRequest, NoIdIsNoId DEF BootStart, At, BootGoto,
        BootUnchanged, procVars, reqVars, entryVars, cleanVars, diskVars
<1>1. TypeOK'
  BY DEF Inv, TypeOK, BootPc, Booting, Unpacking, Ending, ContState
<1>2. RidInv'
  BY DEF Inv, TypeOK, RidInv
<1>3. WaiterInv'
  BY DEF Inv, TypeOK, WaiterInv, Booting, Unpacking
<1>4. FreshInv'
  BY DEF Inv, TypeOK, FreshInv, Unpacking
<1>5. NameFreeInv'
  BY DEF Inv, TypeOK, NameFreeInv, Unpacking, WaiterInv, LockInv, Holding,
         Booting, RidInv
<1>6. EntryInv'
  BY DEF Inv, TypeOK, EntryInv
<1>7. SentInv'
  BY DEF Inv, TypeOK, SentInv, PastSignal
<1>8. LoopInv'
  BY DEF Inv, TypeOK, LoopInv, WaiterInv, Booting, Unpacking
<1>9. LadderInv'
  BY DEF Inv, TypeOK, LadderInv, HasTask
<1>10. CleanInv'
  BY DEF Inv, TypeOK, CleanInv, Ending
<1>11. DeleteInv'
  BY DEF Inv, TypeOK, DeleteInv, HasTask, WaiterInv, LockInv, Holding,
         Booting, Unpacking
<1>12. UnpackInv'
  BY DEF Inv, TypeOK, UnpackInv
<1>13. AtMostOnePerName'
  BY DEF Inv, TypeOK, AtMostOnePerName, NameFreeInv, WaiterInv, Booting,
         Unpacking, RidInv
<1>14. LockInv' /\ NoEntryInv'
  BY DEF Inv, LockInv, NoEntryInv
<1> QED
  BY <1>1, <1>2, <1>3, <1>4, <1>5, <1>6, <1>7, <1>8, <1>9, <1>10, <1>11,
     <1>12, <1>13, <1>14 DEF Inv

(* The only step that marks a bundle as set up; any other live boot would     *)
(* have to hold g.mu too.                                                     *)
LEMMA BootSetupStep ==
    ASSUME Inv, NEW i \in Ids, BootSetup(i)
    PROVE  Inv'
<1> USE NoReqIsNoRequest, NoIdIsNoId DEF BootSetup, At, BootGoto,
        BootUnchanged, procVars, reqVars, entryVars, cleanVars, diskVars
<1>1. TypeOK'
  BY DEF Inv, TypeOK, BootPc, Booting, Unpacking, Ending, BundleState
<1>2. RidInv'
  BY DEF Inv, TypeOK, RidInv
<1>3. WaiterInv'
  BY DEF Inv, TypeOK, WaiterInv, Booting, Unpacking
<1>4. FreshInv'
  BY DEF Inv, TypeOK, FreshInv, Unpacking
<1>5. NameFreeInv'
  BY DEF Inv, TypeOK, NameFreeInv, RidInv, Unpacking
<1>6. EntryInv'
  BY DEF Inv, TypeOK, EntryInv
<1>7. SentInv'
  BY DEF Inv, TypeOK, SentInv, PastSignal
<1>8. LoopInv'
  BY DEF Inv, TypeOK, LoopInv, WaiterInv, Booting, Unpacking
<1>9. LadderInv'
  BY DEF Inv, TypeOK, LadderInv
<1>10. CleanInv'
  BY DEF Inv, TypeOK, CleanInv, Ending
<1>11. UnpackInv'
  BY DEF Inv, TypeOK, UnpackInv, WaiterInv, LockInv, Holding, Booting,
         Unpacking, RidInv
<1>12. LockInv' /\ NoEntryInv' /\ DeleteInv' /\ AtMostOnePerName'
  BY DEF Inv, LockInv, NoEntryInv, DeleteInv, AtMostOnePerName, HasTask
<1> QED
  BY <1>1, <1>2, <1>3, <1>4, <1>5, <1>6, <1>7, <1>8, <1>9, <1>10, <1>11, <1>12 DEF Inv

(* The boot enters its loop while its requester waits.                        *)
LEMMA BootSignalStep ==
    ASSUME Inv, NEW i \in Ids, BootSignal(i)
    PROVE  Inv'
<1> USE NoReqIsNoRequest, NoIdIsNoId DEF BootSignal, At, BootGoto,
        BootUnchanged, procVars, reqVars, entryVars, cleanVars, diskVars
<1>1. TypeOK'
  BY DEF Inv, TypeOK, BootPc, Booting, Unpacking, Ending
<1>2. RidInv'
  BY DEF Inv, TypeOK, RidInv
<1>3. WaiterInv'
  BY DEF Inv, TypeOK, WaiterInv, Booting, Unpacking
<1>4. FreshInv'
  BY DEF Inv, TypeOK, FreshInv, Unpacking
<1>5. NameFreeInv'
  BY DEF Inv, TypeOK, NameFreeInv, RidInv, Unpacking
<1>6. EntryInv'
  BY DEF Inv, TypeOK, EntryInv
<1>7. SentInv'
  BY DEF Inv, TypeOK, SentInv, PastSignal
<1>8. LoopInv'
  BY DEF Inv, TypeOK, LoopInv, WaiterInv, Booting, Unpacking
<1>9. LadderInv'
  BY DEF Inv, TypeOK, LadderInv
<1>10. CleanInv'
  BY DEF Inv, TypeOK, CleanInv, Ending
<1>11. UnpackInv'
  BY DEF Inv, TypeOK, UnpackInv
<1>12. LockInv' /\ NoEntryInv' /\ DeleteInv' /\ AtMostOnePerName'
  BY DEF Inv, LockInv, NoEntryInv, DeleteInv, AtMostOnePerName, HasTask
<1> QED
  BY <1>1, <1>2, <1>3, <1>4, <1>5, <1>6, <1>7, <1>8, <1>9, <1>10, <1>11, <1>12 DEF Inv

(* Only a cancelled boot leaves its loop.                                     *)
LEMMA BootLoopEndStep ==
    ASSUME Inv, NEW i \in Ids, BootLoopEnd(i)
    PROVE  Inv'
<1> USE NoReqIsNoRequest, NoIdIsNoId DEF BootLoopEnd, At, BootGoto,
        BootUnchanged, procVars, reqVars, entryVars, cleanVars, diskVars,
        NetworkDelete
<1>1. TypeOK'
  BY DEF Inv, TypeOK, BootPc, Booting, Unpacking, Ending
<1>2. RidInv'
  BY DEF Inv, TypeOK, RidInv
<1>3. WaiterInv'
  BY DEF Inv, TypeOK, WaiterInv, Booting, Unpacking
<1>4. FreshInv'
  BY DEF Inv, TypeOK, FreshInv, Unpacking
<1>5. NameFreeInv'
  BY DEF Inv, TypeOK, NameFreeInv, RidInv, Unpacking
<1>6. EntryInv'
  BY DEF Inv, TypeOK, EntryInv
<1>7. SentInv'
  BY DEF Inv, TypeOK, SentInv, PastSignal
<1>8. LoopInv'
  BY DEF Inv, TypeOK, LoopInv, WaiterInv, Booting, Unpacking
<1>9. LadderInv'
  BY DEF Inv, TypeOK, LadderInv
<1>10. CleanInv'
  BY DEF Inv, TypeOK, CleanInv, Ending
<1>11. UnpackInv'
  BY DEF Inv, TypeOK, UnpackInv
<1>12. LockInv' /\ NoEntryInv' /\ DeleteInv' /\ AtMostOnePerName'
  BY DEF Inv, LockInv, NoEntryInv, DeleteInv, AtMostOnePerName, HasTask
<1> QED
  BY <1>1, <1>2, <1>3, <1>4, <1>5, <1>6, <1>7, <1>8, <1>9, <1>10, <1>11, <1>12 DEF Inv

(* The deferred network.Delete of a boot on its way out.                      *)
LEMMA BootUndoNetStep ==
    ASSUME Inv, NEW i \in Ids, BootUndoNet(i)
    PROVE  Inv'
<1> USE NoReqIsNoRequest, NoIdIsNoId DEF BootUndoNet, At, BootGoto,
        BootUnchanged, procVars, reqVars, entryVars, cleanVars, diskVars,
        NetworkDelete
<1>1. TypeOK'
  BY DEF Inv, TypeOK, BootPc, Booting, Unpacking, Ending
<1>2. RidInv'
  BY DEF Inv, TypeOK, RidInv
<1>3. WaiterInv'
  BY DEF Inv, TypeOK, WaiterInv, Booting, Unpacking
<1>4. FreshInv'
  BY DEF Inv, TypeOK, FreshInv, Unpacking
<1>5. NameFreeInv'
  BY DEF Inv, TypeOK, NameFreeInv, RidInv, Unpacking
<1>6. EntryInv'
  BY DEF Inv, TypeOK, EntryInv
<1>7. SentInv'
  BY DEF Inv, TypeOK, SentInv, PastSignal
<1>8. LoopInv'
  BY DEF Inv, TypeOK, LoopInv, WaiterInv, Booting, Unpacking
<1>9. LadderInv'
  BY DEF Inv, TypeOK, LadderInv
<1>10. CleanInv'
  BY DEF Inv, TypeOK, CleanInv, Ending
<1>11. UnpackInv'
  BY DEF Inv, TypeOK, UnpackInv
<1>12. LockInv' /\ NoEntryInv' /\ DeleteInv' /\ AtMostOnePerName'
  BY DEF Inv, LockInv, NoEntryInv, DeleteInv, AtMostOnePerName, HasTask
<1> QED
  BY <1>1, <1>2, <1>3, <1>4, <1>5, <1>6, <1>7, <1>8, <1>9, <1>10, <1>11, <1>12 DEF Inv

(* The deferred task.Delete removes no container.                             *)
LEMMA BootTaskDeleteStep ==
    ASSUME Inv, NEW i \in Ids, BootTaskDelete(i)
    PROVE  Inv'
<1> USE NoReqIsNoRequest, NoIdIsNoId DEF BootTaskDelete, At, BootGoto,
        BootUnchanged, procVars, reqVars, entryVars, cleanVars, diskVars,
        HasTask
<1>1. TypeOK'
  BY DEF Inv, TypeOK, BootPc, Booting, Unpacking, Ending, ContState
<1>2. RidInv'
  BY DEF Inv, TypeOK, RidInv
<1>3. WaiterInv'
  BY DEF Inv, TypeOK, WaiterInv, Booting, Unpacking
<1>4. FreshInv'
  BY DEF Inv, TypeOK, FreshInv, Unpacking
<1>5. NameFreeInv'
  BY DEF Inv, TypeOK, NameFreeInv, Unpacking, WaiterInv, LockInv, Holding,
         Booting, RidInv
<1>6. EntryInv'
  BY DEF Inv, TypeOK, EntryInv
<1>7. SentInv'
  BY DEF Inv, TypeOK, SentInv, PastSignal
<1>8. LoopInv'
  BY DEF Inv, TypeOK, LoopInv, WaiterInv, Booting, Unpacking
<1>9. LadderInv'
  BY DEF Inv, TypeOK, LadderInv, HasTask
<1>10. CleanInv'
  BY DEF Inv, TypeOK, CleanInv, Ending
<1>11. DeleteInv'
  BY DEF Inv, TypeOK, DeleteInv, HasTask, WaiterInv, LockInv, Holding,
         Booting, Unpacking
<1>12. UnpackInv'
  BY DEF Inv, TypeOK, UnpackInv
<1>13. AtMostOnePerName'
  BY DEF Inv, TypeOK, AtMostOnePerName, NameFreeInv, WaiterInv, Booting,
         Unpacking, RidInv
<1>14. LockInv' /\ NoEntryInv'
  BY DEF Inv, LockInv, NoEntryInv
<1> QED
  BY <1>1, <1>2, <1>3, <1>4, <1>5, <1>6, <1>7, <1>8, <1>9, <1>10, <1>11,
     <1>12, <1>13, <1>14 DEF Inv

(* The deferred container.Delete only makes names free.                       *)
LEMMA BootContainerDeleteStep ==
    ASSUME Inv, NEW i \in Ids, BootContainerDelete(i)
    PROVE  Inv'
<1> USE NoReqIsNoRequest, NoIdIsNoId DEF BootContainerDelete, At, BootGoto,
        BootUnchanged, procVars, reqVars, entryVars, cleanVars, diskVars,
        HasTask
<1>1. TypeOK'
  BY DEF Inv, TypeOK, BootPc, Booting, Unpacking, Ending, ContState
<1>2. RidInv'
  BY DEF Inv, TypeOK, RidInv
<1>3. WaiterInv'
  BY DEF Inv, TypeOK, WaiterInv, Booting, Unpacking
<1>4. FreshInv'
  BY DEF Inv, TypeOK, FreshInv, Unpacking
<1>5. NameFreeInv'
  BY DEF Inv, TypeOK, NameFreeInv, Unpacking, WaiterInv, LockInv, Holding,
         Booting, RidInv
<1>6. EntryInv'
  BY DEF Inv, TypeOK, EntryInv
<1>7. SentInv'
  BY DEF Inv, TypeOK, SentInv, PastSignal
<1>8. LoopInv'
  BY DEF Inv, TypeOK, LoopInv, WaiterInv, Booting, Unpacking
<1>9. LadderInv'
  BY DEF Inv, TypeOK, LadderInv, HasTask
<1>10. CleanInv'
  BY DEF Inv, TypeOK, CleanInv, Ending
<1>11. DeleteInv'
  BY DEF Inv, TypeOK, DeleteInv, HasTask, WaiterInv, LockInv, Holding,
         Booting, Unpacking
<1>12. UnpackInv'
  BY DEF Inv, TypeOK, UnpackInv
<1>13. AtMostOnePerName'
  BY DEF Inv, TypeOK, AtMostOnePerName, NameFreeInv, WaiterInv, Booting,
         Unpacking, RidInv
<1>14. LockInv' /\ NoEntryInv'
  BY DEF Inv, LockInv, NoEntryInv
<1> QED
  BY <1>1, <1>2, <1>3, <1>4, <1>5, <1>6, <1>7, <1>8, <1>9, <1>10, <1>11,
     <1>12, <1>13, <1>14 DEF Inv

(* A task that exits is still there for containerd.                           *)
LEMMA TaskExitStep ==
    ASSUME Inv, NEW i \in Ids, TaskExit(i)
    PROVE  Inv'
<1> USE NoReqIsNoRequest, NoIdIsNoId DEF TaskExit, procVars, reqVars,
        entryVars, bootVars, cleanVars
<1>1. TypeOK'
  BY DEF Inv, TypeOK, ContState
<1>2. FreshInv'
  BY DEF Inv, TypeOK, FreshInv
<1>3. NameFreeInv'
  BY DEF Inv, TypeOK, NameFreeInv
<1>4. LadderInv'
  BY DEF Inv, TypeOK, LadderInv
<1>5. DeleteInv'
  BY DEF Inv, TypeOK, DeleteInv, HasTask
<1>6. AtMostOnePerName'
  BY DEF Inv, TypeOK, AtMostOnePerName
<1>7. LockInv' /\ RidInv' /\ WaiterInv' /\ EntryInv' /\ NoEntryInv' /\
     SentInv' /\ LoopInv' /\ CleanInv' /\ UnpackInv'
  BY DEF Inv, LockInv, RidInv, WaiterInv, EntryInv, NoEntryInv, SentInv,
         LoopInv, CleanInv, UnpackInv, PastSignal
<1> QED
  BY <1>1, <1>2, <1>3, <1>4, <1>5, <1>6, <1>7 DEF Inv

(* A signal only cancels boots.                                               *)
LEMMA SignalStep ==
    ASSUME Inv, Signal
    PROVE  Inv'
<1> USE NoReqIsNoRequest, NoIdIsNoId DEF Signal, reqVars, entryVars, bootVars,
        diskVars, cleanVars
<1>1. TypeOK'
  BY DEF Inv, TypeOK
<1>2. WaiterInv'
  BY DEF Inv, TypeOK, WaiterInv
<1>3. SentInv'
  BY DEF Inv, TypeOK, SentInv, PastSignal
<1>4. LoopInv'
  BY DEF Inv, TypeOK, LoopInv
<1>5. LadderInv'
  BY DEF Inv, TypeOK, LadderInv
<1>6. CleanInv'
  BY DEF Inv, TypeOK, CleanInv
<1>7. DeleteInv'
  BY DEF Inv, TypeOK, DeleteInv, HasTask
<1>8. UnpackInv'
  BY DEF Inv, TypeOK, UnpackInv
<1>9. LockInv' /\ RidInv' /\ FreshInv' /\ NameFreeInv' /\ EntryInv' /\
     NoEntryInv' /\ AtMostOnePerName'
  BY DEF Inv, LockInv, RidInv, FreshInv, NameFreeInv, EntryInv, NoEntryInv,
         AtMostOnePerName
<1> QED
  BY <1>1, <1>2, <1>3, <1>4, <1>5, <1>6, <1>7, <1>8, <1>9 DEF Inv

(* Cleanup begins.                                                            *)
LEMMA SessionEndStep ==
    ASSUME Inv, SessionEnd
    PROVE  Inv'
<1> USE NoReqIsNoRequest, NoIdIsNoId DEF SessionEnd, reqVars, entryVars,
        bootVars, diskVars
<1>1. TypeOK'
  BY DEF Inv, TypeOK
<1>2. LockInv' /\ RidInv' /\ WaiterInv' /\ FreshInv' /\ NameFreeInv' /\
     EntryInv' /\ NoEntryInv' /\ SentInv' /\ LoopInv' /\ LadderInv' /\
     CleanInv' /\ DeleteInv' /\ UnpackInv' /\ AtMostOnePerName'
  BY DEF Inv, LockInv, RidInv, WaiterInv, FreshInv, NameFreeInv, EntryInv,
         NoEntryInv, SentInv, LoopInv, LadderInv, CleanInv, DeleteInv,
         UnpackInv, AtMostOnePerName, PastSignal, HasTask
<1> QED
  BY <1>1, <1>2 DEF Inv

(* The process starts with what Die left.                                     *)
LEMMA RestartStep ==
    ASSUME Inv, Restart
    PROVE  Inv'
<1> USE NoReqIsNoRequest, NoIdIsNoId, RestartBound DEF Restart, reqVars,
        entryVars, bootVars, diskVars, cleanVars
<1>1. TypeOK'
  BY DEF Inv, TypeOK
<1>2. LockInv' /\ RidInv' /\ WaiterInv' /\ FreshInv' /\ NameFreeInv' /\
     EntryInv' /\ NoEntryInv' /\ SentInv' /\ LoopInv' /\ LadderInv' /\
     CleanInv' /\ DeleteInv' /\ UnpackInv' /\ AtMostOnePerName'
  BY DEF Inv, LockInv, RidInv, WaiterInv, FreshInv, NameFreeInv, EntryInv,
         NoEntryInv, SentInv, LoopInv, LadderInv, CleanInv, DeleteInv,
         UnpackInv, AtMostOnePerName, PastSignal, HasTask
<1> QED
  BY <1>1, <1>2 DEF Inv

(* An entry with a cancel function is cancelled; one without has no live boot *)
(* behind it.                                                                 *)
LEMMA CleanupNextStep ==
    ASSUME Inv, NEW n \in Names, CleanupNext(n)
    PROVE  Inv'
<1> USE NoReqIsNoRequest, NoIdIsNoId DEF CleanupNext, procVars, reqVars,
        entryVars, bootVars, diskVars
<1>1. TypeOK'
  BY DEF Inv, TypeOK
<1>2. WaiterInv'
  BY DEF Inv, TypeOK, WaiterInv
<1>3. SentInv'
  BY DEF Inv, TypeOK, SentInv, PastSignal
<1>4. LoopInv'
  BY DEF Inv, TypeOK, LoopInv
<1>5. LadderInv'
  BY DEF Inv, TypeOK, LadderInv
<1>6. CleanInv'
  BY DEF Inv, TypeOK, CleanInv, LockInv, WaiterInv, LoopInv, NoEntryInv,
         RidInv, Holding, Booting, Unpacking, EntryInv, BootPc, Ending
<1>7. UnpackInv'
  BY DEF Inv, TypeOK, UnpackInv
<1>8. LockInv' /\ RidInv' /\ FreshInv' /\ NameFreeInv' /\ EntryInv' /\
     NoEntryInv' /\ DeleteInv' /\ AtMostOnePerName'
  BY DEF Inv, LockInv, RidInv, FreshInv, NameFreeInv, EntryInv, NoEntryInv,
         DeleteInv, AtMostOnePerName, HasTask
<1> QED
  BY <1>1, <1>2, <1>3, <1>4, <1>5, <1>6, <1>7, <1>8 DEF Inv

(* The boot it waited for is done.                                            *)
LEMMA CleanupWaitStep ==
    ASSUME Inv, CleanupWait
    PROVE  Inv'
<1> USE NoReqIsNoRequest, NoIdIsNoId DEF CleanupWait, procVars, reqVars,
        entryVars, bootVars, diskVars
<1>1. TypeOK'
  BY DEF Inv, TypeOK
<1>2. CleanInv'
  BY DEF Inv, TypeOK, CleanInv
<1>3. LockInv' /\ RidInv' /\ WaiterInv' /\ FreshInv' /\ NameFreeInv' /\
     EntryInv' /\ NoEntryInv' /\ SentInv' /\ LoopInv' /\ LadderInv' /\
     DeleteInv' /\ UnpackInv' /\ AtMostOnePerName'
  BY DEF Inv, LockInv, RidInv, WaiterInv, FreshInv, NameFreeInv, EntryInv,
         NoEntryInv, SentInv, LoopInv, LadderInv, DeleteInv, UnpackInv,
         AtMostOnePerName, PastSignal, HasTask
<1> QED
  BY <1>1, <1>2, <1>3 DEF Inv

(* CleanupContainer takes the network of a container whose boot is over or    *)
(* cancelled.                                                                 *)
LEMMA CleanupNetStep ==
    ASSUME Inv, CleanupNet
    PROVE  Inv'
<1> USE NoReqIsNoRequest, NoIdIsNoId DEF CleanupNet, NetworkDelete, HasTask,
        procVars, reqVars, entryVars, bootVars
<1>1. TypeOK'
  BY DEF Inv, TypeOK
<1>2. LadderInv'
  BY DEF Inv, TypeOK, LadderInv, CleanInv, Ending
<1>3. CleanInv'
  BY DEF Inv, TypeOK, CleanInv
<1>4. LockInv' /\ RidInv' /\ WaiterInv' /\ FreshInv' /\ NameFreeInv' /\
     EntryInv' /\ NoEntryInv' /\ SentInv' /\ LoopInv' /\ DeleteInv' /\
     UnpackInv' /\ AtMostOnePerName'
  BY DEF Inv, LockInv, RidInv, WaiterInv, FreshInv, NameFreeInv, EntryInv,
         NoEntryInv, SentInv, LoopInv, DeleteInv, UnpackInv, AtMostOnePerName,
         PastSignal, HasTask
<1> QED
  BY <1>1, <1>2, <1>3, <1>4 DEF Inv

(* And its task, and the container.                                           *)
LEMMA CleanupKillStep ==
    ASSUME Inv, CleanupKill
    PROVE  Inv'
<1> USE NoReqIsNoRequest, NoIdIsNoId DEF CleanupKill, procVars, reqVars,
        entryVars, bootVars
<1>1. TypeOK'
  BY DEF Inv, TypeOK, ContState
<1>2. FreshInv'
  BY DEF Inv, TypeOK, FreshInv
<1>3. NameFreeInv'
  BY DEF Inv, TypeOK, NameFreeInv
<1>4. LadderInv'
  BY DEF Inv, TypeOK, LadderInv, CleanInv, Ending
<1>5. CleanInv'
  BY DEF Inv, TypeOK, CleanInv
<1>6. DeleteInv'
  BY DEF Inv, TypeOK, DeleteInv, HasTask
<1>7. AtMostOnePerName'
  BY DEF Inv, TypeOK, AtMostOnePerName
<1>8. LockInv' /\ RidInv' /\ WaiterInv' /\ EntryInv' /\ NoEntryInv' /\
     SentInv' /\ LoopInv' /\ UnpackInv'
  BY DEF Inv, LockInv, RidInv, WaiterInv, EntryInv, NoEntryInv, SentInv,
         LoopInv, UnpackInv, PastSignal
<1> QED
  BY <1>1, <1>2, <1>3, <1>4, <1>5, <1>6, <1>7, <1>8 DEF Inv

(* What the listing returns first is all there is of the name.                *)
LEMMA DeleteListStep ==
    ASSUME Inv, NEW r \in Reqs, DeleteList(r)
    PROVE  Inv'
<1> USE NoReqIsNoRequest, NoIdIsNoId DEF DeleteList, Goto, Answer,
        ContainersOf, DeleteUnchanged, procVars, bootVars, cleanVars,
        entryVars, diskVars
<1>1. TypeOK'
  BY DEF Inv, TypeOK, ReqPc, Holding
<1>2. LockInv'
  BY DEF Inv, TypeOK, LockInv, Holding
<1>3. RidInv'
  BY DEF Inv, TypeOK, RidInv, FreshInv
<1>4. WaiterInv'
  BY DEF Inv, TypeOK, WaiterInv
<1>5. NameFreeInv'
  BY DEF Inv, TypeOK, NameFreeInv
<1>6. NoEntryInv'
  BY DEF Inv, TypeOK, NoEntryInv
<1>7. LoopInv'
  BY DEF Inv, TypeOK, LoopInv
<1>8. DeleteInv'
  BY DEF Inv, TypeOK, DeleteInv, HasTask, AtMostOnePerName
<1>9. FreshInv' /\ EntryInv' /\ SentInv' /\ LadderInv' /\ CleanInv' /\
     UnpackInv' /\ AtMostOnePerName'
  BY DEF Inv, FreshInv, EntryInv, SentInv, LadderInv, CleanInv, UnpackInv,
         AtMostOnePerName, PastSignal
<1> QED
  BY <1>1, <1>2, <1>3, <1>4, <1>5, <1>6, <1>7, <1>8, <1>9 DEF Inv

(* The container it works on has no live boot: the entry is gone and g.mu is  *)
(* held.                                                                      *)
LEMMA DeleteCleanStep ==
    ASSUME Inv, NEW r \in Reqs, DeleteClean(r)
    PROVE  Inv'
<1> USE NoReqIsNoRequest, NoIdIsNoId DEF DeleteClean, Goto, NetworkDelete,
        HasTask, DeleteUnchanged, procVars, bootVars, cleanVars, entryVars
<1>1. TypeOK'
  BY DEF Inv, TypeOK, ReqPc, Holding
<1>2. LockInv'
  BY DEF Inv, TypeOK, LockInv, Holding
<1>3. RidInv'
  BY DEF Inv, TypeOK, RidInv
<1>4. WaiterInv'
  BY DEF Inv, TypeOK, WaiterInv
<1>5. NameFreeInv'
  BY DEF Inv, TypeOK, NameFreeInv
<1>6. NoEntryInv'
  BY DEF Inv, TypeOK, NoEntryInv
<1>7. LoopInv'
  BY DEF Inv, TypeOK, LoopInv
<1>8. LadderInv'
  BY DEF Inv, TypeOK, LadderInv, LockInv, WaiterInv, LoopInv, NoEntryInv,
         RidInv, Holding, Booting, Unpacking
<1>9. DeleteInv'
  BY DEF Inv, TypeOK, DeleteInv, HasTask
<1>10. FreshInv' /\ EntryInv' /\ SentInv' /\ CleanInv' /\ UnpackInv' /\
     AtMostOnePerName'
  BY DEF Inv, FreshInv, EntryInv, SentInv, CleanInv, UnpackInv,
         AtMostOnePerName, PastSignal
<1> QED
  BY <1>1, <1>2, <1>3, <1>4, <1>5, <1>6, <1>7, <1>8, <1>9, <1>10 DEF Inv

(* After it, no container of the name has a task.                             *)
LEMMA DeleteKillStep ==
    ASSUME Inv, NEW r \in Reqs, DeleteKill(r)
    PROVE  Inv'
<1> USE NoReqIsNoRequest, NoIdIsNoId DEF DeleteKill, Goto, DeleteUnchanged,
        procVars, bootVars, cleanVars, entryVars
<1>1. TypeOK'
  BY DEF Inv, TypeOK, ReqPc, Holding, ContState
<1>2. LockInv'
  BY DEF Inv, TypeOK, LockInv, Holding
<1>3. RidInv'
  BY DEF Inv, TypeOK, RidInv
<1>4. WaiterInv'
  BY DEF Inv, TypeOK, WaiterInv
<1>5. FreshInv'
  BY DEF Inv, TypeOK, FreshInv
<1>6. NameFreeInv'
  BY DEF Inv, TypeOK, NameFreeInv
<1>7. NoEntryInv'
  BY DEF Inv, TypeOK, NoEntryInv
<1>8. LoopInv'
  BY DEF Inv, TypeOK, LoopInv
<1>9. LadderInv'
  BY DEF Inv, TypeOK, LadderInv, LockInv, WaiterInv, LoopInv, NoEntryInv,
         RidInv, Holding, Booting, Unpacking
<1>10. DeleteInv'
  BY DEF Inv, TypeOK, DeleteInv, HasTask
<1>11. AtMostOnePerName'
  BY DEF Inv, TypeOK, AtMostOnePerName
<1>12. EntryInv' /\ SentInv' /\ CleanInv' /\ UnpackInv'
  BY DEF Inv, EntryInv, SentInv, CleanInv, UnpackInv, PastSignal
<1> QED
  BY <1>1, <1>2, <1>3, <1>4, <1>5, <1>6, <1>7, <1>8, <1>9, <1>10, <1>11, <1>12 DEF Inv

(* Removing the bundle cannot undo the setup of a live boot.                  *)
LEMMA DeleteBundleStep ==
    ASSUME Inv, NEW r \in Reqs, DeleteBundle(r)
    PROVE  Inv'
<1> USE NoReqIsNoRequest, NoIdIsNoId DEF DeleteBundle, Answer,
        DeleteUnchanged, procVars, bootVars, cleanVars, entryVars
<1>1. TypeOK'
  BY DEF Inv, TypeOK, ReqPc, Holding, BundleState
<1>2. LockInv'
  BY DEF Inv, TypeOK, LockInv, Holding
<1>3. RidInv'
  BY DEF Inv, TypeOK, RidInv
<1>4. WaiterInv'
  BY DEF Inv, TypeOK, WaiterInv
<1>5. NameFreeInv'
  BY DEF Inv, TypeOK, NameFreeInv
<1>6. NoEntryInv'
  BY DEF Inv, TypeOK, NoEntryInv
<1>7. LoopInv'
  BY DEF Inv, TypeOK, LoopInv
<1>8. DeleteInv'
  BY DEF Inv, TypeOK, DeleteInv, HasTask
<1>9. UnpackInv'
  BY DEF Inv, TypeOK, UnpackInv
<1>10. FreshInv' /\ EntryInv' /\ SentInv' /\ LadderInv' /\ CleanInv' /\
     AtMostOnePerName'
  BY DEF Inv, FreshInv, EntryInv, SentInv, LadderInv, CleanInv,
         AtMostOnePerName, PastSignal
<1> QED
  BY <1>1, <1>2, <1>3, <1>4, <1>5, <1>6, <1>7, <1>8, <1>9, <1>10 DEF Inv

(* The entry that delete forgets is cancelled first.                          *)
LEMMA ForgetStep ==
    ASSUME Inv, NEW r \in Reqs, rpc[r] = "dentry", Forget(r)
    PROVE  Inv'
<1> USE NoReqIsNoRequest, NoIdIsNoId DEF Forget, Goto, DeleteUnchanged,
        procVars, bootVars, cleanVars, diskVars
<1>1. TypeOK'
  BY DEF Inv, TypeOK, ReqPc, Holding
<1>2. LockInv'
  BY DEF Inv, TypeOK, LockInv, Holding
<1>3. RidInv'
  BY DEF Inv, TypeOK, RidInv
<1>4. WaiterInv'
  BY DEF Inv, TypeOK, WaiterInv
<1>5. NameFreeInv'
  BY DEF Inv, TypeOK, NameFreeInv
<1>6. EntryInv'
  BY DEF Inv, TypeOK, EntryInv
<1>7. NoEntryInv'
  BY DEF Inv, TypeOK, NoEntryInv
<1>8. SentInv'
  BY DEF Inv, TypeOK, SentInv, PastSignal
<1>9. LoopInv'
  BY DEF Inv, TypeOK, LoopInv, SentInv, PastSignal, EntryInv
<1>10. LadderInv'
  BY DEF Inv, TypeOK, LadderInv
<1>11. CleanInv'
  BY DEF Inv, TypeOK, CleanInv
<1>12. DeleteInv'
  BY DEF Inv, TypeOK, DeleteInv, HasTask
<1>13. UnpackInv'
  BY DEF Inv, TypeOK, UnpackInv
<1>14. FreshInv' /\ AtMostOnePerName'
  BY DEF Inv, FreshInv, AtMostOnePerName
<1> QED
  BY <1>1, <1>2, <1>3, <1>4, <1>5, <1>6, <1>7, <1>8, <1>9, <1>10, <1>11,
     <1>12, <1>13, <1>14 DEF Inv

(* Nothing is left of the process; containers, networks and bundles stay as   *)
(* they were.                                                                 *)
LEMMA DieStep ==
    ASSUME Inv, NEW how \in {"down", "panicked"}, Die(how)
    PROVE  Inv'
<1> USE NoReqIsNoRequest, NoIdIsNoId DEF Die, diskVars
<1>1. TypeOK'
  BY DEF Inv, TypeOK, ReqPc, Holding, BootPc, Booting, Unpacking, Ending
<1>2. LockInv'
  BY DEF Inv, TypeOK, LockInv, Holding
<1>3. RidInv'
  BY DEF Inv, TypeOK, RidInv
<1>4. WaiterInv'
  BY DEF Inv, TypeOK, WaiterInv, Booting, Unpacking
<1>5. FreshInv'
  BY DEF Inv, TypeOK, FreshInv, Unpacking
<1>6. NameFreeInv'
  BY DEF Inv, TypeOK, NameFreeInv
<1>7. EntryInv'
  BY DEF Inv, TypeOK, EntryInv
<1>8. NoEntryInv'
  BY DEF Inv, TypeOK, NoEntryInv
<1>9. SentInv'
  BY DEF Inv, TypeOK, SentInv, PastSignal
<1>10. LoopInv'
  BY DEF Inv, TypeOK, LoopInv
<1>11. LadderInv'
  BY DEF Inv, TypeOK, LadderInv
<1>12. CleanInv'
  BY DEF Inv, TypeOK, CleanInv
<1>13. DeleteInv'
  BY DEF Inv, TypeOK, DeleteInv, HasTask
<1>14. UnpackInv'
  BY DEF Inv, TypeOK, UnpackInv
<1>15. AtMostOnePerName'
  BY DEF Inv, AtMostOnePerName
<1> QED
  BY <1>1, <1>2, <1>3, <1>4, <1>5, <1>6, <1>7, <1>8, <1>9, <1>10, <1>11,
     <1>12, <1>13, <1>14, <1>15 DEF Inv

(* Inv is inductive: the initial states satisfy it (InitInv) and every step *)
(* of every actor, and every stuttering step, keeps it.                     *)
LEMMA NextInv == Inv /\ [Next]_vars => Inv'
<1> SUFFICES ASSUME Inv, [Next]_vars PROVE Inv'
  OBVIOUS
<1>1. CASE UNCHANGED vars
  <2>1. TypeOK'
    BY <1>1 DEF Inv, TypeOK, vars, procVars, reqVars, entryVars, bootVars,
                diskVars, cleanVars
  <2>2. /\ LockInv' /\ RidInv' /\ WaiterInv' /\ FreshInv' /\ NameFreeInv'
        /\ EntryInv' /\ NoEntryInv' /\ SentInv' /\ LoopInv' /\ LadderInv'
        /\ CleanInv' /\ DeleteInv' /\ UnpackInv' /\ AtMostOnePerName'
    BY <1>1 DEF Inv, LockInv, RidInv, WaiterInv, FreshInv, NameFreeInv, EntryInv,
                NoEntryInv, SentInv, PastSignal, LoopInv, LadderInv, CleanInv,
                DeleteInv, HasTask, UnpackInv, AtMostOnePerName, vars, procVars,
                reqVars, entryVars, bootVars, diskVars, cleanVars
  <2> QED
    BY <2>1, <2>2 DEF Inv
<1>2. ASSUME NEW r \in Reqs,
             \/ \E op \in Ops, n \in Names : Call(r, op, n)
             \/ Lock(r) \/ ContainerStep(r) \/ DeleteStep(r) \/ ConnClose(r)
      PROVE  Inv'
  <2>1. ASSUME DeleteEntry(r) PROVE Inv'
    <3>1. CASE Forget(r)
      BY <2>1, <3>1, ForgetStep DEF DeleteEntry
    <3>2. CASE Die("panicked")
      BY <3>2, DieStep
    <3> QED
      BY <2>1, <3>1, <3>2 DEF DeleteEntry
  <2>2. CASE ContainerStep(r)
    BY <2>2, ListStep, InspectStep, ReplaceStep, SpawnStep, WaitStartedStep,
       WaitGivenUpStep, UseStep DEF ContainerStep
  <2>3. CASE DeleteStep(r)
    BY <2>3, <2>1, DeleteListStep, DeleteCleanStep, DeleteKillStep,
       DeleteBundleStep DEF DeleteStep
  <2> QED
    BY <1>2, <2>2, <2>3, CallStep, LockStep, ConnCloseStep
<1>3. ASSUME NEW i \in Ids, BootStep(i) \/ TaskExit(i)
      PROVE  Inv'
  BY <1>3, BootExistsStep, BootStatStep, BootFetchStep, BootLayersStep,
     BootNewStep, BootTaskStep, BootNetStep, BootStartStep, BootSetupStep,
     BootSignalStep, BootLoopEndStep, BootUndoNetStep, BootTaskDeleteStep,
     BootContainerDeleteStep, TaskExitStep DEF BootStep
<1>4. CASE Crash \/ CleanupReturn \/ CleanupTimeout
  BY <1>4, DieStep DEF Crash, CleanupReturn, CleanupTimeout
<1>5. CASE \E n \in Names : CleanupNext(n)
  BY <1>5, CleanupNextStep
<1>6. CASE CleanupWait \/ CleanupNet \/ CleanupKill
  BY <1>6, CleanupWaitStep, CleanupNetStep, CleanupKillStep
<1>7. CASE Restart \/ Signal \/ SessionEnd
  BY <1>7, RestartStep, SignalStep, SessionEndStep
<1> QED
  BY <1>1, <1>2, <1>3, <1>4, <1>5, <1>6, <1>7 DEF Next, CleanupStep

(* The inductive invariant holds throughout every behaviour.                *)
LEMMA SpecInv == Spec => []Inv
<1> QED
  BY InitInv, NextInv, PTL DEF Spec

-----------------------------------------------------------------------------
(* Every variable keeps its type: g.running maps names to ids, a boot is in *)
(* one of its phases, a container in one of containerd's states.            *)
THEOREM TypeCorrect == Spec => []TypeOK
<1>1. Inv => TypeOK
  BY DEF Inv
<1> QED
  BY SpecInv, <1>1, PTL

(* However calls, boots, cancellations, crashes and the shutdown            *)
(* interleave, containerd never holds two containers with the same name     *)
(* label (guest/runc.go, Container and bootContainer).                      *)
THEOREM OneContainerPerName == Spec => []AtMostOnePerName
<1>1. Inv => AtMostOnePerName
  BY DEF Inv
<1> QED
  BY SpecInv, <1>1, PTL

(* An entry of g.running that has a live cancel function stands for a       *)
(* started container with its network, whose goroutine is in its loop.      *)
THEOREM OwnedEntriesLive == Spec => []OwnedEntryLive
<1>1. ASSUME Inv PROVE OwnedEntryLive
  <2> SUFFICES ASSUME NEW n \in Names, NEW i \in Ids,
                      running[n] = i, i \in owned, i \notin ctxDone
               PROVE  /\ boot[i] = "loop" /\ bname[i] = n
                      /\ cont[i] \in {"started", "stopped"}
                      /\ i \in net
    BY DEF OwnedEntryLive
  <2>1. boot[i] = "loop"
    BY <1>1 DEF Inv, SentInv, PastSignal
  <2>2. bname[i] = n
    BY <1>1, NoIdIsNoId DEF Inv, EntryInv
  <2> QED
    BY <1>1, <2>1, <2>2 DEF Inv, LadderInv
<1> QED
  BY SpecInv, <1>1, PTL

(* The delete command never removes a bundle under a container that still   *)
(* has a task, unless a signal has cancelled its calls to containerd.       *)
THEOREM DeleteLeavesNoTask == Spec => []DeletedHasNoTask
<1>1. Inv => DeletedHasNoTask
  BY DEF Inv, DeleteInv, DeletedHasNoTask, ContainersOf
<1> QED
  BY SpecInv, <1>1, PTL

(* No step but the delete command's own RemoveAll takes the setup of a      *)
(* bundle away: a live boot unpacks only into a bundle that has none        *)
(* (UnpackInv), a cancelled one makes at most a bare rootfs.                *)
THEOREM SetupIsKept == Spec => SetupKept
<1> DEFINE Kept == \A n \in Names : bundle[n] = "setup" /\ bundle'[n] # "setup"
                     => \E r \in Reqs : rpc[r] = "rm" /\ rname[r] = n
<1>1. ASSUME Inv, [Next]_vars PROVE Kept \/ UNCHANGED vars
  <2>1. ASSUME NEW i \in Ids, BootStep(i) PROVE Kept
    <3>1. CASE BootFetch(i)
      BY <1>1, <3>1 DEF Inv, TypeOK, BootFetch
    <3>2. CASE BootLayers(i)
      BY <1>1, <3>2 DEF Inv, TypeOK, BootLayers, At, UnpackInv
    <3>3. CASE BootSetup(i)
      BY <1>1, <3>3 DEF Inv, TypeOK, BootSetup
    <3>4. ASSUME ~BootFetch(i), ~BootLayers(i), ~BootSetup(i) PROVE bundle' = bundle
      BY <2>1, <3>4 DEF BootStep, BootExists, BootStat, BootNew, BootTask, BootNet,
         BootStart, BootSignal, BootLoopEnd, BootUndoNet, BootTaskDelete,
         BootContainerDelete, diskVars
    <3> QED
      BY <3>1, <3>2, <3>3, <3>4
  <2>2. ASSUME NEW r \in Reqs, DeleteStep(r) PROVE Kept
    <3>1. CASE DeleteBundle(r)
      BY <1>1, <3>1 DEF Inv, TypeOK, DeleteBundle
    <3>2. ASSUME ~DeleteBundle(r) PROVE bundle' = bundle
      BY <2>2, <3>2 DEF DeleteStep, DeleteEntry, Forget, Die, DeleteList,
         DeleteClean, DeleteKill, diskVars
    <3> QED
      BY <3>1, <3>2
  <2>3. ASSUME NEW r \in Reqs,
               \/ \E op \in Ops, n \in Names : Call(r, op, n)
               \/ Lock(r) \/ ContainerStep(r) \/ ConnClose(r)
        PROVE  bundle' = bundle
    BY <2>3 DEF Call, Lock, ContainerStep, List, Inspect, Replace, Spawn,
       WaitStarted, WaitGivenUp, Use, ConnClose, diskVars
  <2>4. ASSUME NEW i \in Ids, TaskExit(i) PROVE bundle' = bundle
    BY <2>4 DEF TaskExit
  <2>5. CASE Crash \/ Restart \/ Signal \/ SessionEnd \/ CleanupTimeout \/ CleanupStep
    <3>1. bundle' = bundle
      BY <2>5 DEF Crash, Restart, Signal, SessionEnd, CleanupTimeout, CleanupStep,
         CleanupNext, CleanupWait, CleanupNet, CleanupKill, CleanupReturn, Die,
         diskVars
    <3> QED
      BY <3>1
  <2> QED
    BY <1>1, <2>1, <2>2, <2>3, <2>4, <2>5 DEF Next
<1>2. Inv /\ [Next]_vars => [Kept]_vars
  BY <1>1
<1> QED
  BY SpecInv, <1>2, PTL DEF Spec, SetupKept
=============================================================================
