------------------------------ MODULE IsleLaunch ------------------------------
(***************************************************************************)
(* Invocations of the command line on the mac (cmd/linux/main.go): the     *)
(* bundle of the operating system (setupStateDir, ghrelease.Unpack), the   *)
(* configuration (CheckConfig), the pid file, the background start of the  *)
(* machine (startVM) and --stop.                                           *)
(*                                                                         *)
(* Invocations share nothing but the state directory, take no lock in it,  *)
(* and can be killed between any two steps.  A shell that finds no living  *)
(* machine starts one in the background, which goes through the same setup *)
(* again.  What v.Run does is IsleVM: here it listens, and it ends.        *)
(***************************************************************************)
EXTENDS Integers, Sequences, FiniteSets

CONSTANTS
    LnPlans,      \* what is installed at first, the calls of users, and how many processes are killed
    LnProcs,      \* bound: the pids, 1 and up: one for each call, one for each machine that a shell starts
    LnPublished,  \* the versions with a release of their own
    LnLatest,     \* the latest release
    LnFiles       \* number of files of a bundle

ASSUME LnAssumption ==
    /\ LnFiles \in Nat \ {0}
    /\ IsFiniteSet(LnProcs) /\ LnProcs = 1..Cardinality(LnProcs)
    /\ LnLatest \in LnPublished /\ LnPublished \subseteq Nat \ {0}

LnNone == 0

ASSUME LnPlansAssumption == \A l \in LnPlans :
    /\ l.installed \in LnPublished \cup {LnNone} /\ l.conf \in {"none", "whole"} /\ l.kills \in Nat
    /\ l.calls \in Seq([kind : {"shell", "start", "stop"}, ver : Nat])
    /\ 2 * Len(l.calls) <= Cardinality(LnProcs)

VARIABLES
    lnPlan,     \* the plan of this behaviour
    lnKills,    \* processes that were killed
    lnBegun,    \* processes so far; their numbers are the pids
    lnAsked,    \* how many of them users have started
    lnKind,     \* per process: "shell", "start" (the machine) or "stop"
    lnVer,      \* the version of its command line
    lnPc,       \* where it is
    lnNew,      \* the release that it unpacks
    lnLeft,     \* the files it has still to write
    lnVersion,  \* the version file
    lnDisk,     \* the release of each file of the bundle, LnNone: missing
    lnConf,     \* config.json: "none", "empty" (created, not written), "whole"
    lnPid,      \* the pid file
    lnSock,     \* the machine that control.sock was made by
    lnSig,      \* machines that --stop has signalled
    lnTorn,     \* history: an unpacking was cut short, or two have overlapped
    lnTwo       \* history: a machine's process was begun while another one lived

lnVars == <<lnPlan, lnKills, lnBegun, lnAsked, lnKind, lnVer, lnPc, lnNew, lnLeft, lnVersion, lnDisk, lnConf, lnPid, lnSock, lnSig, lnTorn, lnTwo>>
lnState == <<lnVersion, lnDisk, lnConf, lnPid, lnSock>>

LnInit ==
    /\ lnPlan \in LnPlans /\ lnKills = 0
    /\ lnBegun = 0 /\ lnAsked = 0
    /\ lnKind = [p \in LnProcs |-> "none"] /\ lnVer = [p \in LnProcs |-> LnNone]
    /\ lnPc = [p \in LnProcs |-> "idle"]
    /\ lnNew = [p \in LnProcs |-> LnNone] /\ lnLeft = [p \in LnProcs |-> 0]
    /\ lnVersion = lnPlan.installed /\ lnDisk = [f \in 1..LnFiles |-> lnPlan.installed]
    /\ lnConf = lnPlan.conf /\ lnPid = LnNone /\ lnSock = LnNone /\ lnSig = {}
    /\ lnTorn = FALSE /\ lnTwo = FALSE

LnAlive(p) == p # LnNone /\ lnPc[p] \notin {"idle", "over", "killed"}
LnMachines == {p \in LnProcs : lnKind[p] = "start" /\ LnAlive(p)}

LnBirth(kind, ver) ==
    LET p == lnBegun + 1 IN
    /\ p \in LnProcs
    /\ lnBegun' = p
    /\ lnKind' = [lnKind EXCEPT ![p] = kind] /\ lnVer' = [lnVer EXCEPT ![p] = ver]
    /\ lnTwo' = (lnTwo \/ (kind = "start" /\ LnMachines # {}))

(* A user calls the command line: a shell, --start or --stop.               *)
LnBegin ==
    /\ lnAsked < Len(lnPlan.calls)
    /\ lnAsked' = lnAsked + 1
    /\ LET call == lnPlan.calls[lnAsked + 1] IN
       /\ LnBirth(call.kind, call.ver)
       /\ lnPc' = [lnPc EXCEPT ![lnBegun + 1] = IF call.kind = "stop" THEN "stop" ELSE "setup"]
    /\ UNCHANGED <<lnPlan, lnKills, lnNew, lnLeft, lnState, lnSig, lnTorn>>

(* --stop: the pid in the file is signalled, whoever has it.                *)
LnStop(p) ==
    /\ lnPc[p] = "stop"
    /\ lnSig' = IF LnAlive(lnPid) THEN lnSig \cup {lnPid} ELSE lnSig
    /\ lnPc' = [lnPc EXCEPT ![p] = "over"]
    /\ UNCHANGED <<lnPlan, lnKills, lnBegun, lnAsked, lnKind, lnVer, lnNew, lnLeft, lnState, lnTorn, lnTwo>>

(* setupStateDir: a file is missing, or the version file differs.           *)
LnNeeded(p) == (\E f \in 1..LnFiles : lnDisk[f] = LnNone) \/ lnVersion # lnVer[p]

LnCheckState(p) ==
    /\ lnPc[p] = "setup"
    /\ lnPc' = [lnPc EXCEPT ![p] = IF LnNeeded(p) THEN "fetch" ELSE "config"]
    /\ UNCHANGED <<lnPlan, lnKills, lnBegun, lnAsked, lnKind, lnVer, lnNew, lnLeft, lnState, lnSig, lnTorn, lnTwo>>

(* The release of the version, or the latest when it has none.              *)
LnPick(p) == IF lnVer[p] \in LnPublished THEN lnVer[p] ELSE LnLatest

(* The version file is written first, then the bundle is unpacked; without  *)
(* a release or a connection setupStateDir fails and the process exits.     *)
LnFetch(p, found) ==
    /\ lnPc[p] = "fetch"
    /\ IF found
       THEN /\ lnVersion' = lnVer[p] /\ lnNew' = [lnNew EXCEPT ![p] = LnPick(p)]
            /\ lnLeft' = [lnLeft EXCEPT ![p] = LnFiles]
            /\ lnPc' = [lnPc EXCEPT ![p] = "unpack"]
            /\ lnTorn' = (lnTorn \/ \E q \in LnProcs : lnPc[q] = "unpack")
       ELSE lnPc' = [lnPc EXCEPT ![p] = "over"] /\ UNCHANGED <<lnVersion, lnNew, lnLeft, lnTorn>>
    /\ UNCHANGED <<lnPlan, lnKills, lnBegun, lnAsked, lnKind, lnVer, lnDisk, lnConf, lnPid, lnSock, lnSig, lnTwo>>

(* Unpack creates and writes the next file.  An archive that ends early is  *)
(* taken for a whole one: the error of tr.Next only ends the loop.          *)
LnUnpack(p, short) ==
    /\ lnPc[p] = "unpack"
    /\ IF short
       THEN lnPc' = [lnPc EXCEPT ![p] = "config"] /\ lnTorn' = TRUE /\ UNCHANGED <<lnDisk, lnLeft>>
       ELSE /\ lnDisk' = [lnDisk EXCEPT ![LnFiles + 1 - lnLeft[p]] = lnNew[p]]
            /\ lnLeft' = [lnLeft EXCEPT ![p] = @ - 1]
            /\ lnPc' = [lnPc EXCEPT ![p] = IF lnLeft[p] = 1 THEN "config" ELSE @]
            /\ UNCHANGED lnTorn
    /\ UNCHANGED <<lnPlan, lnKills, lnBegun, lnAsked, lnKind, lnVer, lnNew, lnVersion, lnConf, lnPid, lnSock, lnSig, lnTwo>>

LnConfigured(p) == IF lnKind[p] = "start" THEN "vm" ELSE "pid"

(* CheckConfig: a missing file is created and then written; one that cannot *)
(* be parsed ends the process.                                              *)
LnCheckConfig(p) ==
    /\ lnPc[p] = "config"
    /\ lnConf' = IF lnConf = "none" THEN "empty" ELSE lnConf
    /\ lnPc' = [lnPc EXCEPT ![p] = CASE lnConf = "none" -> "encode"
                                     [] lnConf = "empty" -> "over"
                                     [] OTHER -> LnConfigured(p)]
    /\ UNCHANGED <<lnPlan, lnKills, lnBegun, lnAsked, lnKind, lnVer, lnNew, lnLeft, lnVersion, lnDisk, lnPid, lnSock, lnSig, lnTorn, lnTwo>>

LnWriteConfig(p) ==
    /\ lnPc[p] = "encode"
    /\ lnConf' = "whole"
    /\ lnPc' = [lnPc EXCEPT ![p] = LnConfigured(p)]
    /\ UNCHANGED <<lnPlan, lnKills, lnBegun, lnAsked, lnKind, lnVer, lnNew, lnLeft, lnVersion, lnDisk, lnPid, lnSock, lnSig, lnTorn, lnTwo>>

(* The pid file names a living process.                                     *)
LnRuns(p) == LnAlive(lnPid)

(* autoStart: --bg-start in a new process, which calls --start.             *)
LnAutoStart(p) ==
    /\ lnPc[p] = "pid"
    /\ IF LnRuns(p)
       THEN /\ lnPc' = [lnPc EXCEPT ![p] = "connect"]
            /\ UNCHANGED <<lnBegun, lnKind, lnVer, lnTwo>>
       ELSE /\ LnBirth("start", lnVer[p])
            /\ lnPc' = [lnPc EXCEPT ![p] = "connect", ![lnBegun + 1] = "setup"]
    /\ UNCHANGED <<lnPlan, lnKills, lnAsked, lnNew, lnLeft, lnState, lnSig, lnTorn>>

(* After three seconds: control.sock must be there, and answer.             *)
LnConnect(p) ==
    /\ lnPc[p] = "connect"
    /\ lnPc' = [lnPc EXCEPT ![p] = IF LnAlive(lnSock) /\ lnPc[lnSock] = "up" THEN "shell" ELSE "over"]
    /\ UNCHANGED <<lnPlan, lnKills, lnBegun, lnAsked, lnKind, lnVer, lnNew, lnLeft, lnState, lnSig, lnTorn, lnTwo>>

(* os.Create truncates what was there.                                      *)
LnPidWritten(p) == p

(* startVM writes its pid; Run replaces control.sock and serves.            *)
LnWritePid(p) ==
    /\ lnPc[p] = "vm"
    /\ lnPid' = LnPidWritten(p)
    /\ lnPc' = [lnPc EXCEPT ![p] = "run"]
    /\ UNCHANGED <<lnPlan, lnKills, lnBegun, lnAsked, lnKind, lnVer, lnNew, lnLeft, lnVersion, lnDisk, lnConf, lnSock, lnSig, lnTorn, lnTwo>>

LnListen(p) ==
    /\ lnPc[p] = "run"
    /\ lnSock' = p
    /\ lnPc' = [lnPc EXCEPT ![p] = "up"]
    /\ UNCHANGED <<lnPlan, lnKills, lnBegun, lnAsked, lnKind, lnVer, lnNew, lnLeft, lnVersion, lnDisk, lnConf, lnPid, lnSig, lnTorn, lnTwo>>

(* Run returns: because of the signal, a halt of the guest or an error.     *)
LnRunEnds(p) ==
    /\ lnPc[p] \in {"run", "up"}
    /\ lnPc' = [lnPc EXCEPT ![p] = "ending"]
    /\ UNCHANGED <<lnPlan, lnKills, lnBegun, lnAsked, lnKind, lnVer, lnNew, lnLeft, lnState, lnSig, lnTorn, lnTwo>>

(* Mutant: the pid file stays.                                              *)
MutLnPidRemoved(p) == lnPid

(* os.Remove(pidPath), whatever the file says by now.                       *)
LnPidRemoved(p) == LnNone

(* Both the goroutine of Run and startVM itself remove the pid file, the    *)
(* second after bonjour's Shutdown; then the process exits.                 *)
LnRemovePid(p, last) ==
    /\ lnPc[p] \in (IF last THEN {"ending", "ended"} ELSE {"ending"})
    /\ lnPid' = LnPidRemoved(p)
    /\ lnPc' = [lnPc EXCEPT ![p] = IF last THEN "over" ELSE "ended"]
    /\ UNCHANGED <<lnPlan, lnKills, lnBegun, lnAsked, lnKind, lnVer, lnNew, lnLeft, lnVersion, lnDisk, lnConf, lnSock, lnSig, lnTorn, lnTwo>>

(* A process is killed, or the mac loses power for it: nothing is undone.   *)
LnKilled(p) ==
    /\ lnKills < lnPlan.kills
    /\ lnKills' = lnKills + 1
    /\ LnAlive(p) /\ lnPc[p] # "shell"
    /\ lnPc' = [lnPc EXCEPT ![p] = "killed"]
    /\ lnTorn' = (lnTorn \/ lnPc[p] = "unpack")
    /\ UNCHANGED <<lnPlan, lnBegun, lnAsked, lnKind, lnVer, lnNew, lnLeft, lnState, lnSig, lnTwo>>

LnSteps(p) ==
    \/ LnStop(p) \/ LnCheckState(p) \/ (\E b \in BOOLEAN : LnFetch(p, b) \/ LnUnpack(p, b) \/ LnRemovePid(p, b))
    \/ LnCheckConfig(p) \/ LnWriteConfig(p) \/ LnAutoStart(p) \/ LnConnect(p) \/ LnWritePid(p) \/ LnListen(p)

LnNext ==
    \/ LnBegin
    \/ \E p \in LnProcs : LnSteps(p) \/ LnRunEnds(p) \/ LnKilled(p)

LnSpec == LnInit /\ [][LnNext]_lnVars

(* Processes run; a machine that was signalled ends (IsleVM).               *)
LnFairSpec ==
    /\ LnSpec
    /\ \A p \in LnProcs : WF_lnVars(LnSteps(p)) /\ WF_lnVars(p \in lnSig /\ LnRunEnds(p))

------------------------------------------------------------------------------
LnTypeOK ==
    /\ lnBegun \in LnProcs \cup {0} /\ lnAsked \in 0..lnBegun
    /\ lnConf \in {"none", "empty", "whole"} /\ lnPid \in LnProcs \cup {LnNone}
    /\ \A p \in LnProcs : lnLeft[p] \in 0..LnFiles

(* While machines have followed one another without overlap, the pid file   *)
(* names the machine that runs, so that a shell finds it and --stop reaches *)
(* it, in spite of stale files of machines that were killed; a machine that *)
(* ended by itself leaves no pid behind.                                    *)
LnPidNames ==
    ~lnTwo => /\ \A p \in LnMachines : lnPc[p] \in {"run", "up"} => lnPid = p
              /\ lnPid # LnNone => lnPc[lnPid] \in {"run", "up", "ending", "killed"}

(* The files are those of the release that the version file stands for,     *)
(* unless an unpacking was cut short or two of them have overlapped.        *)
LnFilesWhole ==
    (/\ ~lnTorn /\ \A p \in LnProcs : lnPc[p] # "unpack"
     /\ lnVersion # LnNone)
    => \A f \in 1..LnFiles : lnDisk[f] = IF lnVersion \in LnPublished THEN lnVersion ELSE LnLatest

(* Every call of the command line ends or gets its shell, even when another *)
(* one is in the middle of the same files.                                  *)
LnCallEnds ==
    []<>(\A p \in LnProcs : lnKind[p] \in {"shell", "stop"} => lnPc[p] \in {"shell", "over", "killed"})

(* A machine that --stop signalled ends, and the pid file then names it no  *)
(* longer, unless it was killed.                                            *)
LnStopEnds ==
    []<>(\A p \in lnSig : lnPc[p] = "killed" \/ (lnPc[p] = "over" /\ lnPid # p))

(* However commands, machines and kills interleave, the pid file names the  *)
(* machine and the files belong together; commands end, and machines end    *)
(* when they are told to.                                                   *)
LnEnds == [](LnTypeOK /\ LnPidNames /\ LnFilesWhole) /\ LnCallEnds /\ LnStopEnds
=============================================================================
