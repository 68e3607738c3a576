--------------------------- MODULE IsleContainers ---------------------------
(***************************************************************************)
(* The life of an isle's container inside the guest: Guest.Container, the  *)
(* goroutine it spawns (StartContainer, SetupIsle, unpackImg,              *)
(* bootContainer, setupContainer), the console's delete command,           *)
(* CleanupContainer, lookupContainer, and the shutdown in Guest.Cleanup    *)
(* (guest/runc.go, guest/console.go, guest/ssh.go, guest/guest.go,         *)
(* cmd/isle-guest/main.go).                                                *)
(*                                                                         *)
(* A request is one SSH session ("shell"), one direct-tcpip channel        *)
(* ("forward") or one console delete ("delete").  Requests serialise on    *)
(* g.mu; the boot goroutines do not take it, and neither does Cleanup.     *)
(* containerd, the kernel's networking and the files under                 *)
(* /data/containers outlive the guest process; everything else is lost     *)
(* when it dies, and supervise-daemon starts it again.                     *)
(*                                                                         *)
(* A call to containerd is one atomic step, and a call made with a         *)
(* cancelled context fails without effect.  The steps of a boot may also   *)
(* fail for their own reasons (registry, snapshot, netlink, setup script). *)
(***************************************************************************)
EXTENDS Naturals, FiniteSets

CONSTANTS
    Names,       \* the isles' names
    Existing,    \* those that the data disk holds at the start
    Ids,         \* container ids, one per boot (xid.New())
    NoId,        \* no container id
    Reqs,        \* concurrent requests
    NoReq,       \* nobody holds g.mu; the parent of a boot is the process
    MaxRestarts  \* bound: how often the guest process may be started again

ASSUME RestartBound == MaxRestarts \in Nat
ASSUME NoReqIsNoRequest == NoReq \notin Reqs
ASSUME NoIdIsNoId == NoId \notin Ids
ASSUME SomeName == Names # {}

VARIABLES
    guest,     \* the guest process: "up", "cleanup", "down" or "panicked"
    pctx,      \* the process context: "live", or "done" after a signal
    restarts,  \* how often the process was started again
    mu,        \* g.mu: the request that holds it, or NoReq
    rpc,       \* where each request is
    rop,       \* its operation
    rname,     \* the isle it names
    rid,       \* the container id it looks at, waits for or has been given
    closed,    \* direct-tcpip requests whose connection closed under them
    running,   \* g.running: the id of each name's entry, or NoId
    owned,     \* the ids whose entry has a cancel function and a doneCh
    boot,      \* where the boot goroutine of each id is
    bname,     \* the name (containerd label, bundle) an id was created for
    parent,    \* the direct-tcpip request whose context a boot inherits
    fresh,     \* ids whose boot found no bundle and so runs the setup
    sent,      \* ids whose boot has put its id on the started channel
    ctxDone,   \* ids whose boot context is cancelled
    cont,      \* containerd: what exists of each id
    net,       \* ids with a veth pair, addresses and masquerading rules
    bundle,    \* /data/containers/<name>
    todo,      \* Cleanup: names its range loop may still produce
    cpc,       \* Cleanup: what it does with the entry it is at
    cid        \* Cleanup: the container of that entry

reqVars   == <<mu, rpc, rop, rname, rid, closed>>
entryVars == <<running, owned>>
bootVars  == <<boot, bname, parent, fresh, sent>>
diskVars  == <<cont, net, bundle>>
procVars  == <<guest, pctx, restarts>>
cleanVars == <<todo, cpc, cid>>
vars == <<procVars, reqVars, entryVars, bootVars, ctxDone, diskVars, cleanVars>>

-----------------------------------------------------------------------------
(* The phases of a boot goroutine.  Up to "new" no container exists; before *)
(* "loop" the requester waits for it; "undonet" and "unwind..." are the     *)
(* deferred calls of an early return, made with the boot's own context,     *)
(* "bg..." those after the event loop, made with context.Background().      *)
Unpacking == {"exists", "stat", "fetch", "layers", "new"}
Booting   == Unpacking \cup {"task", "net", "tstart", "setup", "signal"}
Ending    == {"undonet", "unwindTask", "unwindCont", "bgTask", "bgCont"}
BootPc    == Booting \cup Ending \cup {"unused", "loop", "done"}

(* Container goes through "list", "inspect", "replace", "spawn" and "wait"; *)
(* the delete command through "dentry", "dlist", "dclean", "dkill", "rm".   *)
(* "got" has been given a container; "open" is a direct-tcpip channel in    *)
(* use, whose connection owns the context of whatever it booted.            *)
Holding  == {"list", "inspect", "replace", "spawn", "wait",
             "dentry", "dlist", "dclean", "dkill", "rm"}
ReqPc    == Holding \cup {"idle", "lock", "got", "open"}
Ops      == {"shell", "forward", "delete"}

ContState   == {"none", "record", "created", "started", "stopped"}
BundleState == {"absent", "rootfs", "unpacked", "setup"}

Alive           == guest \in {"up", "cleanup"}
HasTask(i)      == cont[i] \in {"created", "started", "stopped"}
ContainersOf(n) == {i \in Ids : bname[i] = n /\ cont[i] # "none"}

(* The context a request makes its containerd calls with: the process's     *)
(* for an SSH session, the connection's own for a direct-tcpip channel.     *)
ReqCtxDone(r) == IF rop[r] = "forward" THEN r \in closed ELSE pctx = "done"

TypeOK ==
    /\ guest \in {"up", "cleanup", "down", "panicked"}
    /\ pctx \in {"live", "done"}
    /\ restarts \in 0..MaxRestarts
    /\ mu \in Reqs \cup {NoReq}
    /\ rpc \in [Reqs -> ReqPc]
    /\ rop \in [Reqs -> Ops]
    /\ rname \in [Reqs -> Names]
    /\ rid \in [Reqs -> Ids \cup {NoId}]
    /\ closed \subseteq Reqs
    /\ running \in [Names -> Ids \cup {NoId}]
    /\ owned \subseteq Ids
    /\ boot \in [Ids -> BootPc]
    /\ bname \in [Ids -> Names]
    /\ parent \in [Ids -> Reqs \cup {NoReq}]
    /\ fresh \subseteq Ids
    /\ sent \subseteq Ids
    /\ ctxDone \subseteq Ids
    /\ cont \in [Ids -> ContState]
    /\ net \subseteq Ids
    /\ bundle \in [Names -> BundleState]
    /\ todo \subseteq Names
    /\ cpc \in {"next", "wait", "clean", "kill"}
    /\ cid \in Ids \cup {NoId}

(* Placeholder for names not given yet.                                     *)
SomeIsle == CHOOSE n \in Names : TRUE

(* The guest has just started; there are no containers.                     *)
Init ==
    /\ guest = "up" /\ pctx = "live" /\ restarts = 0
    /\ mu = NoReq
    /\ rpc = [r \in Reqs |-> "idle"]
    /\ rop = [r \in Reqs |-> "shell"]
    /\ rname = [r \in Reqs |-> SomeIsle]
    /\ rid = [r \in Reqs |-> NoId]
    /\ closed = {}
    /\ running = [n \in Names |-> NoId] /\ owned = {}
    /\ boot = [i \in Ids |-> "unused"]
    /\ bname = [i \in Ids |-> SomeIsle]
    /\ parent = [i \in Ids |-> NoReq]
    /\ fresh = {} /\ sent = {} /\ ctxDone = {}
    /\ cont = [i \in Ids |-> "none"]
    /\ net = {}
    /\ bundle = [n \in Names |-> IF n \in Existing THEN "setup" ELSE "absent"]
    /\ todo = {} /\ cpc = "next" /\ cid = NoId

-----------------------------------------------------------------------------
(* Guest.Container                                                          *)

Goto(r, pc) == rpc' = [rpc EXCEPT ![r] = pc]

(* An operation returns: it unlocks g.mu and either hands out an id or not. *)
Answer(r, i) ==
    /\ mu' = NoReq
    /\ rpc' = [rpc EXCEPT ![r] = IF i = NoId THEN "idle" ELSE "got"]
    /\ rid' = [rid EXCEPT ![r] = i]
    /\ closed' = IF i = NoId THEN closed \ {r} ELSE closed
    /\ UNCHANGED <<rop, rname>>

(* Bound: each call of Container may spawn a boot, and the model takes no    *)
(* more of them when it could run out of ids.                               *)
MaySpawn(r) == rop[r] # "delete"
               /\ rpc[r] \in {"lock", "list", "inspect", "replace", "spawn"}
IdsSuffice ==
    Cardinality({r \in Reqs : MaySpawn(r)}) <
        Cardinality({i \in Ids : boot[i] = "unused"})

(* A request arrives.  lookupContainer refuses a name that has no rootfs    *)
(* before it locks anything.                                                *)
Call(r, op, n) ==
    /\ Alive /\ rpc[r] = "idle"
    /\ op # "delete" => IdsSuffice
    /\ op = "forward" => bundle[n] # "absent"
    /\ rop' = [rop EXCEPT ![r] = op]
    /\ rname' = [rname EXCEPT ![r] = n]
    /\ Goto(r, "lock")
    /\ UNCHANGED <<mu, rid, closed, procVars, entryVars, bootVars, ctxDone,
                   diskVars, cleanVars>>

(* Lock g.mu and look the name up: an entry is returned as it stands.       *)
Lock(r) ==
    /\ Alive /\ rpc[r] = "lock" /\ mu = NoReq
    /\ \/ /\ rop[r] = "delete"
          /\ mu' = r /\ Goto(r, "dentry")
          /\ UNCHANGED <<rop, rname, rid, closed>>
       \/ /\ rop[r] # "delete"
          /\ running[rname[r]] = NoId
          /\ mu' = r /\ Goto(r, "list")
          /\ UNCHANGED <<rop, rname, rid, closed>>
       \/ /\ rop[r] # "delete"
          /\ running[rname[r]] # NoId
          /\ Answer(r, running[rname[r]])
    /\ UNCHANGED <<procVars, entryVars, bootVars, ctxDone, diskVars, cleanVars>>

(* g.C.Containers("labels.name==" + name); cont[0] is any of them.          *)
List(r) ==
    /\ Alive /\ rpc[r] = "list"
    /\ \/ ReqCtxDone(r) /\ Answer(r, NoId)
       \/ /\ ~ReqCtxDone(r)
          /\ ContainersOf(rname[r]) = {}
          /\ Goto(r, "spawn")
          /\ UNCHANGED <<mu, rop, rname, rid, closed>>
       \/ /\ ~ReqCtxDone(r)
          /\ \E i \in ContainersOf(rname[r]) : rid' = [rid EXCEPT ![r] = i]
          /\ Goto(r, "inspect")
          /\ UNCHANGED <<mu, rop, rname, closed>>
    /\ UNCHANGED <<procVars, entryVars, bootVars, ctxDone, diskVars, cleanVars>>

(* An entry added while Cleanup ranges over g.running may be produced by    *)
(* that loop or skipped.                                                    *)
Produced(n) == {todo} \cup (IF guest = "cleanup" THEN {todo \cup {n}} ELSE {})

(* LoadContainer and c.Task: a container that has a task is adopted, with   *)
(* an entry that has neither cancel function nor doneCh.                    *)
Inspect(r) ==
    /\ Alive /\ rpc[r] = "inspect"
    /\ LET i == rid[r] IN
       \/ /\ ReqCtxDone(r) \/ cont[i] = "none"
          /\ Answer(r, NoId)
          /\ UNCHANGED <<entryVars, todo>>
       \/ /\ ~ReqCtxDone(r) /\ HasTask(i)
          /\ running' = [running EXCEPT ![rname[r]] = i]
          /\ owned' = owned \ {i}
          /\ todo' \in Produced(rname[r])
          /\ Answer(r, i)
       \/ /\ ~ReqCtxDone(r) /\ cont[i] = "record"
          /\ Goto(r, "replace")
          /\ UNCHANGED <<mu, rop, rname, rid, closed, entryVars, todo>>
    /\ UNCHANGED <<procVars, bootVars, ctxDone, diskVars, cpc, cid>>

(* Mutant: the container without a task is left where it is.                *)
MutReplaceKeeps(r) ==
    /\ Alive /\ rpc[r] = "replace"
    /\ IF ReqCtxDone(r) THEN Answer(r, NoId)
       ELSE Goto(r, "spawn") /\ UNCHANGED <<mu, rop, rname, rid, closed>>
    /\ UNCHANGED <<procVars, entryVars, bootVars, ctxDone, diskVars, cleanVars>>

(* "There isn't a running task, so delete this one": fails if the container *)
(* is gone or has a task by now.                                            *)
Replace(r) ==
    /\ Alive /\ rpc[r] = "replace"
    /\ LET i == rid[r] IN
       \/ /\ ReqCtxDone(r) \/ cont[i] # "record"
          /\ Answer(r, NoId)
          /\ UNCHANGED cont
       \/ /\ ~ReqCtxDone(r) /\ cont[i] = "record"
          /\ cont' = [cont EXCEPT ![i] = "none"]
          /\ Goto(r, "spawn")
          /\ UNCHANGED <<mu, rop, rname, rid, closed>>
    /\ UNCHANGED <<procVars, entryVars, bootVars, ctxDone, net, bundle, cleanVars>>

(* A fresh id, a context derived from the request's, and the goroutine.     *)
Spawn(r) ==
    /\ Alive /\ rpc[r] = "spawn"
    /\ \E i \in Ids :
        /\ boot[i] = "unused"
        /\ boot' = [boot EXCEPT ![i] = "exists"]
        /\ bname' = [bname EXCEPT ![i] = rname[r]]
        /\ parent' = [parent EXCEPT ![i] = IF rop[r] = "forward" THEN r ELSE NoReq]
        /\ ctxDone' = ctxDone \cup (IF ReqCtxDone(r) THEN {i} ELSE {})
        /\ rid' = [rid EXCEPT ![r] = i]
    /\ Goto(r, "wait")
    /\ UNCHANGED <<mu, rop, rname, closed, procVars, entryVars, fresh, sent,
                   diskVars, cleanVars>>

(* Mutant: the select has no case for errorer.                              *)
MutWaitIgnoresError(r) ==
    /\ Alive /\ rpc[r] = "wait" /\ rid[r] \in ctxDone
    /\ Answer(r, NoId)
    /\ UNCHANGED <<procVars, entryVars, bootVars, ctxDone, diskVars, cleanVars>>

(* The select: any case that is ready may be taken.                         *)
WaitStarted(r) ==
    /\ Alive /\ rpc[r] = "wait" /\ rid[r] \in sent
    /\ running' = [running EXCEPT ![rname[r]] = rid[r]]
    /\ owned' = owned \cup {rid[r]}
    /\ sent' = sent \ {rid[r]}
    /\ todo' \in Produced(rname[r])
    /\ Answer(r, rid[r])
    /\ UNCHANGED <<procVars, boot, bname, parent, fresh, ctxDone, diskVars, cpc, cid>>

WaitGivenUp(r) ==
    /\ Alive /\ rpc[r] = "wait"
    /\ rid[r] \in ctxDone \/ boot[rid[r]] = "done"
    /\ ctxDone' = ctxDone \cup {rid[r]}
    /\ Answer(r, NoId)
    /\ UNCHANGED <<procVars, entryVars, bootVars, diskVars, cleanVars>>

(* The caller has its container.  A direct-tcpip channel goes on for as     *)
(* long as its connection, a shell keeps nothing of this state.             *)
Use(r) ==
    /\ Alive /\ rpc[r] = "got"
    /\ Goto(r, IF rop[r] = "forward" /\ r \notin closed THEN "open" ELSE "idle")
    /\ rid' = [rid EXCEPT ![r] = NoId]
    /\ closed' = closed \ {r}
    /\ UNCHANGED <<mu, rop, rname, procVars, entryVars, bootVars, ctxDone,
                   diskVars, cleanVars>>

(* The connection of a direct-tcpip channel closes, and with it the context *)
(* of a boot it asked for, at any time.                                     *)
ConnClose(r) ==
    /\ Alive /\ rop[r] = "forward" /\ rpc[r] # "idle" /\ r \notin closed
    /\ ctxDone' = ctxDone \cup {i \in Ids : parent[i] = r}
    /\ IF rpc[r] = "open"
       THEN Goto(r, "idle") /\ UNCHANGED closed
       ELSE closed' = closed \cup {r} /\ UNCHANGED rpc
    /\ UNCHANGED <<mu, rop, rname, rid, procVars, entryVars, bootVars, diskVars,
                   cleanVars>>

-----------------------------------------------------------------------------
(* The boot goroutine: StartContainer(ctx, info, id)                        *)

BootGoto(i, pc) == boot' = [boot EXCEPT ![i] = pc]
At(i, pc) == Alive /\ boot[i] = pc
BootUnchanged == UNCHANGED <<procVars, reqVars, entryVars, bname, parent,
                             ctxDone, cleanVars>>

(* isleExists: with a rootfs, boot it; without one, an image is needed.     *)
BootExists(i) ==
    /\ At(i, "exists")
    /\ IF bundle[bname[i]] # "absent"
       THEN BootGoto(i, "new") /\ UNCHANGED fresh
       ELSE IF parent[i] # NoReq
            THEN BootGoto(i, "done") /\ UNCHANGED fresh
            ELSE BootGoto(i, "stat") /\ fresh' = fresh \cup {i}
    /\ BootUnchanged /\ UNCHANGED <<sent, diskVars>>

(* SetupIsle asks again, and only writes its files if there is a rootfs.    *)
BootStat(i) ==
    /\ At(i, "stat")
    /\ IF bundle[bname[i]] = "absent"
       THEN BootGoto(i, "fetch")
       ELSE BootGoto(i, "new") \/ BootGoto(i, "done")
    /\ BootUnchanged /\ UNCHANGED <<fresh, sent, diskVars>>

(* unpackImg fetches the manifest, whatever becomes of the context, and     *)
(* makes the rootfs directory.                                              *)
BootFetch(i) ==
    /\ At(i, "fetch")
    /\ \/ BootGoto(i, "done") /\ UNCHANGED bundle
       \/ /\ BootGoto(i, "layers")
          /\ bundle' = [bundle EXCEPT ![bname[i]] = IF @ = "absent" THEN "rootfs" ELSE @]
    /\ BootUnchanged /\ UNCHANGED <<fresh, sent, cont, net>>

(* The layers are applied, then SetupIsle writes its files.  One file may   *)
(* still land in the rootfs after the context is cancelled, even if the     *)
(* bundle was removed meanwhile.                                            *)
BootLayers(i) ==
    /\ At(i, "layers")
    /\ \/ /\ i \notin ctxDone
          /\ BootGoto(i, "new")
          /\ bundle' = [bundle EXCEPT ![bname[i]] = "unpacked"]
       \/ BootGoto(i, "done") /\ UNCHANGED bundle
       \/ /\ BootGoto(i, "done")
          /\ bundle[bname[i]] = "absent"
          /\ bundle' = [bundle EXCEPT ![bname[i]] = "rootfs"]
    /\ BootUnchanged /\ UNCHANGED <<fresh, sent, cont, net>>

(* Mutant: a failed boot removes the bundle, whoever made it.               *)
MutNewRemovesBundle(i) ==
    /\ At(i, "new")
    /\ \/ /\ i \notin ctxDone /\ bundle[bname[i]] # "absent"
          /\ cont' = [cont EXCEPT ![i] = "record"]
          /\ BootGoto(i, "task") /\ UNCHANGED bundle
       \/ /\ BootGoto(i, "done")
          /\ bundle' = [bundle EXCEPT ![bname[i]] = "absent"] /\ UNCHANGED cont
    /\ BootUnchanged /\ UNCHANGED <<fresh, sent, net>>

(* bootContainer: the rootfs must exist, then NewContainer.                 *)
BootNew(i) ==
    /\ At(i, "new")
    /\ \/ /\ i \notin ctxDone /\ bundle[bname[i]] # "absent"
          /\ cont' = [cont EXCEPT ![i] = "record"]
          /\ BootGoto(i, "task")
       \/ BootGoto(i, "done") /\ UNCHANGED cont
    /\ BootUnchanged /\ UNCHANGED <<fresh, sent, net, bundle>>

(* NewTask; if it fails no deferred call is registered yet.                 *)
BootTask(i) ==
    /\ At(i, "task")
    /\ \/ /\ i \notin ctxDone /\ cont[i] = "record"
          /\ cont' = [cont EXCEPT ![i] = "created"]
          /\ BootGoto(i, "net")
       \/ BootGoto(i, "done") /\ UNCHANGED cont
    /\ BootUnchanged /\ UNCHANGED <<fresh, sent, net, bundle>>

(* ConfigureProcess ignores the context; a failure may come after the veth  *)
(* pair and part of the rules are in place.                                 *)
BootNet(i) ==
    /\ At(i, "net")
    /\ \/ HasTask(i) /\ BootGoto(i, "tstart") /\ net' = net \cup {i}
       \/ BootGoto(i, "unwindTask") /\ net' \in {net, net \cup {i}}
    /\ BootUnchanged /\ UNCHANGED <<fresh, sent, cont, bundle>>

(* task.Start; network.Delete is not deferred until it has succeeded.       *)
BootStart(i) ==
    /\ At(i, "tstart")
    /\ \/ /\ i \notin ctxDone /\ cont[i] = "created"
          /\ cont' = [cont EXCEPT ![i] = "started"]
          /\ BootGoto(i, IF i \in fresh THEN "setup" ELSE "signal")
       \/ BootGoto(i, "unwindTask") /\ UNCHANGED cont
    /\ BootUnchanged /\ UNCHANGED <<fresh, sent, net, bundle>>

(* setupContainer runs the setup script in the task.                        *)
BootSetup(i) ==
    /\ At(i, "setup")
    /\ \/ /\ i \notin ctxDone /\ cont[i] = "started"
          /\ bundle' = [bundle EXCEPT ![bname[i]] = "setup"]
          /\ BootGoto(i, "signal")
       \/ BootGoto(i, "undonet") /\ UNCHANGED bundle
    /\ BootUnchanged /\ UNCHANGED <<fresh, sent, cont, net>>

(* started <- id, a channel with room for it, or the context is done.       *)
BootSignal(i) ==
    /\ At(i, "signal")
    /\ \/ BootGoto(i, "loop") /\ sent' = sent \cup {i}
       \/ i \in ctxDone /\ BootGoto(i, "undonet") /\ UNCHANGED sent
    /\ BootUnchanged /\ UNCHANGED <<fresh, diskVars>>

(* network.Delete works through the task's network namespace: with the      *)
(* process gone it finds no addresses and leaves the rules behind.          *)
NetworkDelete(i) ==
    net' = IF cont[i] \in {"created", "started"} THEN net \ {i} ELSE net

(* The event loop ends when the context does.                               *)
BootLoopEnd(i) ==
    /\ At(i, "loop") /\ i \in ctxDone
    /\ NetworkDelete(i)
    /\ BootGoto(i, "bgTask")
    /\ BootUnchanged /\ UNCHANGED <<fresh, sent, cont, bundle>>

(* The deferred calls of an early return, last registered first.            *)
BootUndoNet(i) ==
    /\ At(i, "undonet")
    /\ NetworkDelete(i)
    /\ BootGoto(i, "unwindTask")
    /\ BootUnchanged /\ UNCHANGED <<fresh, sent, cont, bundle>>

(* task.Delete and container.Delete: with the boot's context after an early *)
(* return, so nothing happens if that is cancelled; with Background after   *)
(* the loop.                                                                *)
BootTaskDelete(i) ==
    /\ At(i, "unwindTask") \/ At(i, "bgTask")
    /\ cont' = IF HasTask(i) /\ (boot[i] = "bgTask" \/ i \notin ctxDone)
               THEN [cont EXCEPT ![i] = "record"] ELSE cont
    /\ BootGoto(i, IF boot[i] = "bgTask" THEN "bgCont" ELSE "unwindCont")
    /\ BootUnchanged /\ UNCHANGED <<fresh, sent, net, bundle>>

BootContainerDelete(i) ==
    /\ At(i, "unwindCont") \/ At(i, "bgCont")
    /\ cont' = IF cont[i] = "record" /\ (boot[i] = "bgCont" \/ i \notin ctxDone)
               THEN [cont EXCEPT ![i] = "none"] ELSE cont
    /\ BootGoto(i, "done")
    /\ BootUnchanged /\ UNCHANGED <<fresh, sent, net, bundle>>

BootStep(i) ==
    \/ BootExists(i) \/ BootStat(i) \/ BootFetch(i) \/ BootLayers(i)
    \/ BootNew(i) \/ BootTask(i) \/ BootNet(i) \/ BootStart(i)
    \/ BootSetup(i) \/ BootSignal(i) \/ BootLoopEnd(i) \/ BootUndoNet(i)
    \/ BootTaskDelete(i) \/ BootContainerDelete(i)

(* The init process of a container exits; nobody in the guest waits for it. *)
TaskExit(i) ==
    /\ cont[i] = "started"
    /\ cont' = [cont EXCEPT ![i] = "stopped"]
    /\ UNCHANGED <<procVars, reqVars, entryVars, bootVars, ctxDone, net, bundle,
                   cleanVars>>

-----------------------------------------------------------------------------
(* The guest process                                                        *)

(* The process is gone: its map, its mutex and its goroutines with it.      *)
Die(how) ==
    /\ guest' = how
    /\ pctx' = "live"
    /\ mu' = NoReq
    /\ rpc' = [r \in Reqs |-> "idle"]
    /\ rid' = [r \in Reqs |-> NoId]
    /\ closed' = {}
    /\ running' = [n \in Names |-> NoId] /\ owned' = {} /\ sent' = {}
    /\ boot' = [i \in Ids |-> IF boot[i] = "unused" THEN "unused" ELSE "done"]
    /\ ctxDone' = ctxDone \cup {i \in Ids : boot[i] # "unused"}
    /\ todo' = {} /\ cpc' = "next" /\ cid' = NoId
    /\ UNCHANGED <<restarts, rop, rname, bname, parent, fresh, diskVars>>

Crash == Alive /\ Die("down")

(* supervise-daemon starts it again; Init makes an empty g.running.         *)
Restart ==
    /\ guest \in {"down", "panicked"}
    /\ restarts < MaxRestarts
    /\ guest' = "up" /\ restarts' = restarts + 1
    /\ UNCHANGED <<pctx, reqVars, entryVars, bootVars, ctxDone, diskVars,
                   cleanVars>>

(* SIGTERM, SIGQUIT or SIGINT cancels the process context, and with it the  *)
(* boots that SSH sessions asked for.                                       *)
Signal ==
    /\ Alive /\ pctx = "live"
    /\ pctx' = "done"
    /\ ctxDone' = ctxDone \cup {i \in Ids : boot[i] # "unused" /\ parent[i] = NoReq}
    /\ UNCHANGED <<guest, restarts, reqVars, entryVars, bootVars, diskVars,
                   cleanVars>>

(* g.Run returns: the session with the host is lost, or was closed by the   *)
(* signal.  Cleanup ranges over g.running without g.mu.                     *)
SessionEnd ==
    /\ guest = "up"
    /\ guest' = "cleanup"
    /\ todo' = {n \in Names : running[n] # NoId}
    /\ UNCHANGED <<pctx, restarts, reqVars, entryVars, bootVars, ctxDone,
                   diskVars, cpc, cid>>

(* Mutant: CleanupContainer without the cancel and the wait before it.      *)
MutCleanupAtOnce(n) ==
    /\ guest = "cleanup" /\ cpc = "next" /\ n \in todo
    /\ todo' = todo \ {n}
    /\ \/ running[n] = NoId /\ UNCHANGED <<cpc, cid>>
       \/ running[n] # NoId /\ cid' = running[n] /\ cpc' = "clean"
    /\ UNCHANGED <<procVars, reqVars, entryVars, bootVars, ctxDone, diskVars>>

(* Mutant: it waits for doneCh without r.cancel().                          *)
MutCleanupNoCancel(n) ==
    /\ guest = "cleanup" /\ cpc = "next" /\ n \in todo
    /\ todo' = todo \ {n}
    /\ \/ running[n] = NoId /\ UNCHANGED <<cpc, cid>>
       \/ /\ running[n] # NoId
          /\ cid' = running[n]
          /\ cpc' = IF running[n] \in owned THEN "wait" ELSE "clean"
    /\ UNCHANGED <<procVars, reqVars, entryVars, bootVars, ctxDone, diskVars>>

(* The loop produces an entry, unless it was deleted since.                 *)
CleanupNext(n) ==
    /\ guest = "cleanup" /\ cpc = "next" /\ n \in todo
    /\ todo' = todo \ {n}
    /\ \/ running[n] = NoId /\ UNCHANGED <<cpc, cid, ctxDone>>
       \/ /\ running[n] # NoId
          /\ cid' = running[n]
          /\ cpc' = IF running[n] \in owned THEN "wait" ELSE "clean"
          /\ ctxDone' = ctxDone \cup ({running[n]} \cap owned)
    /\ UNCHANGED <<procVars, reqVars, entryVars, bootVars, diskVars>>

(* <-r.doneCh                                                               *)
CleanupWait ==
    /\ guest = "cleanup" /\ cpc = "wait" /\ boot[cid] = "done"
    /\ cpc' = "clean"
    /\ UNCHANGED <<procVars, reqVars, entryVars, bootVars, ctxDone, diskVars,
                   todo, cid>>

(* CleanupContainer: only a container with a task is touched.               *)
CleanupNet ==
    /\ guest = "cleanup" /\ cpc = "clean"
    /\ IF HasTask(cid)
       THEN NetworkDelete(cid) /\ cpc' = "kill" /\ UNCHANGED cid
       ELSE UNCHANGED net /\ cpc' = "next" /\ cid' = NoId
    /\ UNCHANGED <<procVars, reqVars, entryVars, bootVars, ctxDone, cont, bundle,
                   todo>>

CleanupKill ==
    /\ guest = "cleanup" /\ cpc = "kill"
    /\ cont' = [cont EXCEPT ![cid] = "none"]
    /\ cpc' = "next" /\ cid' = NoId
    /\ UNCHANGED <<procVars, reqVars, entryVars, bootVars, ctxDone, net, bundle,
                   todo>>

(* Every entry has been seen: Cleanup and then main return.                 *)
CleanupReturn ==
    /\ guest = "cleanup" /\ cpc = "next" /\ todo = {}
    /\ Die("down")

(* The ten minutes are over while it waits.                                 *)
CleanupTimeout ==
    /\ guest = "cleanup" /\ cpc = "wait"
    /\ Die("down")

-----------------------------------------------------------------------------
(* The console's delete command.  It holds g.mu throughout.                 *)

DeleteUnchanged ==
    UNCHANGED <<procVars, bootVars, cleanVars>>

(* Mutant: cancel is called whether or not there is an entry.               *)
MutForgetUnchecked(r) ==
    /\ running[rname[r]] \in owned \cup {NoId}
    /\ ctxDone' = ctxDone \cup {running[rname[r]]}
    /\ running' = [running EXCEPT ![rname[r]] = NoId]
    /\ owned' = owned \ {running[rname[r]]}
    /\ Goto(r, "dlist")
    /\ DeleteUnchanged
    /\ UNCHANGED <<mu, rop, rname, rid, closed, diskVars>>

(* Cancel and forget the entry, if there is one.                            *)
Forget(r) ==
    /\ running[rname[r]] \in owned \cup {NoId}
    /\ ctxDone' = ctxDone \cup ({running[rname[r]]} \cap owned)
    /\ running' = [running EXCEPT ![rname[r]] = NoId]
    /\ owned' = owned \ {running[rname[r]]}
    /\ Goto(r, "dlist")
    /\ DeleteUnchanged
    /\ UNCHANGED <<mu, rop, rname, rid, closed, diskVars>>

(* An adopted entry has no cancel function: calling it takes the process    *)
(* down.                                                                    *)
DeleteEntry(r) ==
    /\ Alive /\ rpc[r] = "dentry"
    /\ \/ Forget(r)
       \/ running[rname[r]] \notin owned \cup {NoId} /\ Die("panicked")

(* Mutant: len(cont) > 1.                                                   *)
MutDeleteListOffByOne(r) ==
    /\ Alive /\ rpc[r] = "dlist"
    /\ \/ pctx = "done" /\ Answer(r, NoId)
       \/ /\ pctx = "live" /\ Cardinality(ContainersOf(rname[r])) <= 1
          /\ Goto(r, "rm")
          /\ UNCHANGED <<mu, rop, rname, rid, closed>>
    /\ DeleteUnchanged /\ UNCHANGED <<entryVars, ctxDone, diskVars>>

(* The containers with the name; the first one listed is taken.             *)
DeleteList(r) ==
    /\ Alive /\ rpc[r] = "dlist"
    /\ \/ pctx = "done" /\ Answer(r, NoId)
       \/ /\ pctx = "live" /\ ContainersOf(rname[r]) = {}
          /\ Goto(r, "rm")
          /\ UNCHANGED <<mu, rop, rname, rid, closed>>
       \/ /\ pctx = "live"
          /\ \E i \in ContainersOf(rname[r]) : rid' = [rid EXCEPT ![r] = i]
          /\ Goto(r, "dclean")
          /\ UNCHANGED <<mu, rop, rname, closed>>
    /\ DeleteUnchanged /\ UNCHANGED <<entryVars, ctxDone, diskVars>>

(* CleanupContainer, whose failures the command does not see.               *)
DeleteClean(r) ==
    /\ Alive /\ rpc[r] = "dclean"
    /\ IF pctx = "live" /\ HasTask(rid[r])
       THEN NetworkDelete(rid[r]) /\ Goto(r, "dkill")
       ELSE UNCHANGED net /\ Goto(r, "rm")
    /\ DeleteUnchanged
    /\ UNCHANGED <<mu, rop, rname, rid, closed, entryVars, ctxDone, cont, bundle>>

DeleteKill(r) ==
    /\ Alive /\ rpc[r] = "dkill"
    /\ cont' = IF pctx = "done" THEN cont ELSE [cont EXCEPT ![rid[r]] = "none"]
    /\ Goto(r, "rm")
    /\ DeleteUnchanged
    /\ UNCHANGED <<mu, rop, rname, rid, closed, entryVars, ctxDone, net, bundle>>

(* os.RemoveAll(bundlePath)                                                 *)
DeleteBundle(r) ==
    /\ Alive /\ rpc[r] = "rm"
    /\ bundle' = [bundle EXCEPT ![rname[r]] = "absent"]
    /\ Answer(r, NoId)
    /\ DeleteUnchanged /\ UNCHANGED <<entryVars, ctxDone, cont, net>>

-----------------------------------------------------------------------------
ContainerStep(r) ==
    \/ List(r) \/ Inspect(r) \/ Replace(r) \/ Spawn(r)
    \/ WaitStarted(r) \/ WaitGivenUp(r) \/ Use(r)

DeleteStep(r) ==
    \/ DeleteEntry(r) \/ DeleteList(r) \/ DeleteClean(r) \/ DeleteKill(r)
    \/ DeleteBundle(r)

CleanupStep ==
    \/ \E n \in Names : CleanupNext(n)
    \/ CleanupWait \/ CleanupNet \/ CleanupKill \/ CleanupReturn

Next ==
    \/ \E r \in Reqs :
        \/ \E op \in Ops, n \in Names : Call(r, op, n)
        \/ Lock(r) \/ ContainerStep(r) \/ DeleteStep(r) \/ ConnClose(r)
    \/ \E i \in Ids : BootStep(i) \/ TaskExit(i)
    \/ Crash \/ Restart \/ Signal \/ SessionEnd \/ CleanupStep
    \/ CleanupTimeout

Spec == Init /\ [][Next]_vars

(* Goroutines that can run do run; a Go mutex hands itself to the longest   *)
(* waiter, so nobody waits for it forever; remote.Image, containerd and the *)
(* setup script answer or fail in the end; the session ends after a signal. *)
(* Nothing forces a crash, an exit, a closed connection, a restart, a       *)
(* signal or a timeout.                                                     *)
Fairness ==
    /\ \A r \in Reqs : WF_vars(ContainerStep(r)) /\ WF_vars(DeleteStep(r))
                       /\ SF_vars(Lock(r))
    /\ \A i \in Ids : WF_vars(BootStep(i))
    /\ WF_vars(CleanupStep) /\ WF_vars(pctx = "done" /\ SessionEnd)

FairSpec == Spec /\ Fairness

-----------------------------------------------------------------------------
(* Two containers never carry the same name: the lookup by label in         *)
(* Container and in the delete command takes cont[0] and would miss the     *)
(* other one.  The boots do not hold g.mu; what keeps them apart is that    *)
(* Container holds it until its boot has signalled or is cancelled.         *)
AtMostOnePerName ==
    \A i, j \in Ids :
        i # j /\ bname[i] = bname[j] => cont[i] = "none" \/ cont[j] = "none"

(* As long as its context lives, an entry that Container made for a boot    *)
(* stands for a container of that name whose task was started, whose        *)
(* network is configured and whose goroutine is in its event loop: neither  *)
(* a delete, nor a replacement, nor the shutdown, nor a cancelled boot of   *)
(* the same name takes it away.                                             *)
OwnedEntryLive ==
    \A n \in Names, i \in Ids :
        running[n] = i /\ i \in owned /\ i \notin ctxDone
            => /\ boot[i] = "loop" /\ bname[i] = n
               /\ cont[i] \in {"started", "stopped"}
               /\ i \in net

(* When the delete command gets to removing the bundle (and no signal has   *)
(* cancelled its calls), no container of that name has a task whose root    *)
(* file system it would pull away, although CleanupContainer looks at       *)
(* cont[0] only, ignores every error, and races with the cancelled boot.    *)
DeletedHasNoTask ==
    \A r \in Reqs :
        rpc[r] = "rm" /\ pctx = "live"
            => \A i \in ContainersOf(rname[r]) : ~HasTask(i)

(* A bundle whose setup has run loses that state only to the delete         *)
(* command: no boot of that name that fails or is cancelled, then or        *)
(* later, unpacks over it or clears it away.                                *)
SetupKept ==
    [][\A n \in Names : bundle[n] = "setup" /\ bundle'[n] # "setup"
          => \E r \in Reqs : rpc[r] = "rm" /\ rname[r] = n]_vars

(* Every call of Container and of delete returns, whatever becomes of the   *)
(* boot it waits for and however many others want g.mu.                     *)
EveryCallReturns ==
    \A r \in Reqs :
        rpc[r] \in Holding \cup {"lock"} ~> rpc[r] \in {"idle", "got", "open"}

(* The goroutine of a cancelled boot ends.                                  *)
CancelledBootEnds == \A i \in Ids : i \in ctxDone ~> boot[i] = "done"

(* After a signal the process ends without using up Cleanup's ten minutes:  *)
(* every doneCh it waits for is served.                                     *)
ShutdownEnds == pctx = "done" ~> pctx = "live"

(* What is cancelled, a boot or the whole guest, comes to its end.          *)
CancellationEnds == CancelledBootEnds /\ ShutdownEnds

-----------------------------------------------------------------------------
(* What the code says and does not do.                                      *)

(* "Delete an isle by name" (guest/console.go:65): deleting does not take   *)
(* the guest down.  DeleteEntry calls the nil cancel function of an adopted *)
(* entry.                                                                   *)
DeleteNeverPanics == guest # "panicked"

(* "There isn't a running task, so delete this one so we create it fresh    *)
(* with a task." (guest/runc.go:207): Container hands out a container that  *)
(* has a task.  An entry whose boot ended with the direct-tcpip connection  *)
(* that asked for it is handed out all the same.                            *)
CachedHasTask ==
    [][\A r \in Reqs :
          /\ guest = "up" /\ pctx = "live"
          /\ rpc[r] = "lock" /\ rpc'[r] = "got"
          => HasTask(rid'[r])]_vars

(* "We need be sure that /var/run is mapped to /run" (guest/runc.go:867):   *)
(* an isle in service has been through its setup.  A bundle left behind by  *)
(* a boot that failed before or in setupContainer is booted without it.     *)
IsleIsSetUp ==
    \A n \in Names, i \in Ids :
        running[n] = i /\ i \in owned /\ i \notin ctxDone
            => bundle[n] = "setup"
=============================================================================
