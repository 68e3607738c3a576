------------------------------ MODULE IsleApps ------------------------------
(***************************************************************************)
(* The apps of the guest: AddApp and DisableApp of guest/api.go, the        *)
(* monitor of /data/apps/running of guest/app.go, LoadConfig of            *)
(* guest/config.go and the apps' part of Guest.Cleanup.                    *)
(*                                                                         *)
(* An app is the name of a link in that directory.  LoadConfig puts every  *)
(* configuration in the one directory /tmp/app before it reads it, on      *)
(* behalf of the monitor and of the calls alike.                           *)
(***************************************************************************)
EXTENDS Integers, Sequences, FiniteSets

CONSTANTS
    ApApps,    \* the apps
    ApNone,
    ApHomes,   \* the sets of apps that may be in the user's directory
    ApLinks,   \* the sets of links that an earlier run may have left
    ApMaxOps   \* bound: calls of AddApp and DisableApp

ASSUME ApAssumption == ApNone \notin ApApps /\ ApMaxOps \in Nat

VARIABLES
    apHome,       \* the apps that are in the user's linux-apps
    apLink,       \* the links in the directory of running apps
    apOps,        \* calls made
    apCall,       \* the call under way: "idle", "validate", "validating", "write", "link"
    apArg,        \* the app it is about
    apTmp,        \* the app whose configuration is in /tmp/app
    apMon,        \* the monitor: "scan", "start", "loading", "watch", "loop", "removing", "over"
    apTodo,       \* the links of its scan that it has not started
    apAt,         \* the app that it loads or removes
    apWatched,    \* whether it watches the directory
    apEvents,     \* the events of the watch
    apDetected,   \* detectedApps, and the names in g.apps
    apCfg,        \* an app's configuration: whose it is
    apGo,         \* an app's goroutine: "none", "starts", "pauses", "sending" (doneCh <- err), "closed"
    apCancelled,  \* the apps whose context is cancelled
    apOver,       \* the guest's context is done
    apClean,      \* Cleanup: "no", "begun", "waits", "over"
    apCleanTodo,  \* the apps that it has not come to
    apCleanAt     \* the app that it waits for

apVars == <<apHome, apLink, apOps, apCall, apArg, apTmp, apMon, apTodo, apAt, apWatched, apEvents, apDetected, apCfg, apGo,
            apCancelled, apOver, apClean, apCleanTodo, apCleanAt>>
apRequest == <<apHome, apLink, apOps, apCall, apArg>>
apMonitor == <<apMon, apTodo, apAt, apWatched, apEvents>>
apRunning == <<apDetected, apCfg, apGo, apCancelled>>
apEnd == <<apOver, apClean, apCleanTodo, apCleanAt>>

ApInit ==
    /\ apHome \in ApHomes /\ apLink \in ApLinks /\ apOps = 0 /\ apCall = "idle" /\ apArg = ApNone /\ apTmp = ApNone
    /\ apMon = "scan" /\ apTodo = {} /\ apAt = ApNone /\ apWatched = FALSE /\ apEvents = <<>>
    /\ apDetected = {} /\ apCfg = [a \in ApApps |-> ApNone] /\ apGo = [a \in ApApps |-> "none"] /\ apCancelled = {}
    /\ apOver = FALSE /\ apClean = "no" /\ apCleanTodo = {} /\ apCleanAt = ApNone

ApEvent(op, a) == apEvents' = IF apWatched THEN Append(apEvents, [op |-> op, app |-> a]) ELSE apEvents

(* AddApp: an app of the user's own directory is validated, another one is  *)
(* fetched and written; then the link is made, which must not be there.    *)
ApAdd(a, fetched) ==
    /\ apCall = "idle" /\ apOps < ApMaxOps
    /\ apOps' = apOps + 1 /\ apArg' = a
    /\ apCall' = IF a \in apHome THEN "validate" ELSE IF fetched THEN "write" ELSE "idle"
    /\ UNCHANGED <<apHome, apLink, apTmp, apMonitor, apRunning, apEnd>>

ApValidate ==
    /\ apCall = "validate"
    /\ apCall' = "validating" /\ apTmp' = apArg
    /\ UNCHANGED <<apHome, apLink, apOps, apArg, apMonitor, apRunning, apEnd>>

ApValidated ==
    /\ apCall = "validating"
    /\ apCall' = IF apTmp = ApNone THEN "idle" ELSE "link"
    /\ apTmp' = ApNone
    /\ UNCHANGED <<apHome, apLink, apOps, apArg, apMonitor, apRunning, apEnd>>

ApWrite ==
    /\ apCall = "write"
    /\ apCall' = "link"
    /\ UNCHANGED <<apHome, apLink, apOps, apArg, apTmp, apMonitor, apRunning, apEnd>>

ApSymlink ==
    /\ apCall = "link"
    /\ apCall' = "idle" /\ apLink' = apLink \union {apArg}
    /\ IF apArg \in apLink THEN UNCHANGED apEvents ELSE ApEvent("create", apArg)
    /\ UNCHANGED <<apHome, apOps, apArg, apTmp, apMon, apTodo, apAt, apWatched, apRunning, apEnd>>

(* DisableApp removes the link.                                            *)
ApDisable(a) ==
    /\ apCall = "idle" /\ apOps < ApMaxOps /\ a \in apLink
    /\ apOps' = apOps + 1 /\ apLink' = apLink \ {a} /\ ApEvent("remove", a)
    /\ UNCHANGED <<apHome, apCall, apArg, apTmp, apMon, apTodo, apAt, apWatched, apRunning, apEnd>>

(* monitorAppsDir: first it starts what is there ...                        *)
ApScan ==
    /\ apMon = "scan"
    /\ apMon' = "start" /\ apTodo' = apLink
    /\ UNCHANGED <<apRequest, apTmp, apAt, apWatched, apEvents, apRunning, apEnd>>

(* startApp: an app that it has seen is skipped; LoadConfig first brings    *)
(* the configuration to /tmp/app, which fails when the link is gone ...     *)
ApBegin(a, next) ==
    IF a \in apDetected \/ a \notin apLink
    THEN apMon' = next /\ UNCHANGED <<apAt, apTmp>>
    ELSE apMon' = "loading" /\ apAt' = a /\ apTmp' = a

ApStartNext(a) ==
    /\ apMon = "start" /\ a \in apTodo
    /\ apTodo' = apTodo \ {a} /\ ApBegin(a, "start")
    /\ UNCHANGED <<apRequest, apWatched, apEvents, apRunning, apEnd>>

(* ... then reads what it finds there, removes it and runs the app.         *)
ApLoaded ==
    /\ apMon = "loading"
    /\ apMon' = IF apWatched THEN "loop" ELSE "start"
    /\ apTmp' = ApNone /\ apAt' = ApNone
    /\ IF apTmp = ApNone THEN UNCHANGED apRunning
       ELSE /\ apDetected' = apDetected \union {apAt} /\ apCfg' = [apCfg EXCEPT ![apAt] = apTmp]
            /\ apGo' = [apGo EXCEPT ![apAt] = "starts"]
            /\ apCancelled' = IF apOver THEN apCancelled \union {apAt} ELSE apCancelled
    /\ UNCHANGED <<apRequest, apTodo, apWatched, apEvents, apEnd>>

(* ... and only then it watches the directory.                              *)
ApWatch ==
    /\ apMon = "start" /\ apTodo = {}
    /\ apMon' = "loop" /\ apWatched' = TRUE
    /\ UNCHANGED <<apRequest, apTmp, apTodo, apAt, apEvents, apRunning, apEnd>>

(* removeApp cancels the app's context and waits for its goroutine; the     *)
(* app stays detected.                                                     *)
ApTakeEvent ==
    /\ apMon = "loop" /\ apEvents # <<>>
    /\ apEvents' = Tail(apEvents)
    /\ LET ev == Head(apEvents) IN
       IF ev.op = "create" THEN ApBegin(ev.app, "loop") /\ UNCHANGED apCancelled
       ELSE IF ev.app \in apDetected
       THEN apMon' = "removing" /\ apAt' = ev.app /\ apCancelled' = apCancelled \union {ev.app} /\ UNCHANGED apTmp
       ELSE UNCHANGED <<apMon, apAt, apTmp, apCancelled>>
    /\ UNCHANGED <<apRequest, apTodo, apWatched, apDetected, apCfg, apGo, apEnd>>

(* <-doneCh: the goroutine's send, or the channel's close.                  *)
ApReceives(a) == apGo[a] \in {"sending", "closed"} /\ apGo' = [apGo EXCEPT ![a] = "closed"]

ApRemoved ==
    /\ apMon = "removing" /\ ApReceives(apAt)
    /\ apMon' = "loop" /\ apAt' = ApNone
    /\ UNCHANGED <<apRequest, apTmp, apTodo, apWatched, apEvents, apDetected, apCfg, apCancelled, apEnd>>

ApMonitorEnds ==
    /\ apOver /\ apMon \in {"loop", "removing"}
    /\ apMon' = "over"
    /\ UNCHANGED <<apRequest, apTmp, apTodo, apAt, apWatched, apEvents, apRunning, apEnd>>

(* MonitorApp: StartApp returns an error; unless the context is done the    *)
(* app is started again, after a pause.                                     *)
MutApStops(a) == FALSE
ApStops(a) == a \in apCancelled

ApAppSteps(a) ==
    /\ \/ /\ apGo[a] = "starts"
          /\ apGo' = [apGo EXCEPT ![a] = IF ApStops(a) THEN "sending" ELSE "pauses"]
       \/ /\ apGo[a] = "pauses"
          /\ apGo' = [apGo EXCEPT ![a] = "starts"]
    /\ UNCHANGED <<apRequest, apTmp, apMonitor, apDetected, apCfg, apCancelled, apEnd>>

(* The guest's context ends, and with it that of every app.                 *)
ApCtxDone ==
    /\ ~apOver
    /\ apOver' = TRUE /\ apCancelled' = apDetected
    /\ UNCHANGED <<apRequest, apTmp, apMonitor, apDetected, apCfg, apGo, apClean, apCleanTodo, apCleanAt>>

(* Cleanup: it cancels each app and waits for its goroutine.                *)
ApCleanup ==
    /\ apClean = "no"
    /\ apClean' = "begun" /\ apCleanTodo' = apDetected
    /\ UNCHANGED <<apRequest, apTmp, apMonitor, apRunning, apOver, apCleanAt>>

ApCleanNext(a) ==
    /\ apClean = "begun" /\ a \in apCleanTodo
    /\ apClean' = "waits" /\ apCleanAt' = a /\ apCleanTodo' = apCleanTodo \ {a}
    /\ apCancelled' = apCancelled \union {a}
    /\ UNCHANGED <<apRequest, apTmp, apMonitor, apDetected, apCfg, apGo, apOver>>

ApCleaned ==
    /\ apClean = "waits" /\ ApReceives(apCleanAt)
    /\ apClean' = "begun" /\ apCleanAt' = ApNone
    /\ UNCHANGED <<apRequest, apTmp, apMonitor, apDetected, apCfg, apCancelled, apOver, apCleanTodo>>

ApCleanEnds ==
    /\ apClean = "begun" /\ apCleanTodo = {}
    /\ apClean' = "over"
    /\ UNCHANGED <<apRequest, apTmp, apMonitor, apRunning, apOver, apCleanTodo, apCleanAt>>

ApCallSteps == ApValidate \/ ApValidated \/ ApWrite \/ ApSymlink
ApMonSteps ==
    \/ ApScan \/ ApLoaded \/ ApWatch \/ ApTakeEvent \/ ApRemoved \/ ApMonitorEnds
    \/ \E a \in ApApps : ApStartNext(a)
ApCleanSteps == ApCleaned \/ ApCleanEnds \/ \E a \in ApApps : ApCleanNext(a)

ApNext ==
    \/ ApCallSteps \/ ApMonSteps \/ ApCtxDone \/ ApCleanup \/ ApCleanSteps
    \/ \E a \in ApApps : ApDisable(a) \/ ApAppSteps(a) \/ \E ok \in BOOLEAN : ApAdd(a, ok)

ApSpec == ApInit /\ [][ApNext]_apVars

(* Goroutines run and calls go on; nobody has to call.                      *)
ApFairSpec ==
    /\ ApSpec /\ WF_apVars(ApCallSteps) /\ WF_apVars(ApMonSteps) /\ WF_apVars(ApCleanSteps)
    /\ \A a \in ApApps : WF_apVars(ApAppSteps(a))

ApTypeOK ==
    /\ apLink \subseteq ApApps /\ apTmp \in ApApps \union {ApNone} /\ apAt \in ApApps \union {ApNone}
    /\ apDetected = {a \in ApApps : apGo[a] # "none"}

(* An app runs with its own configuration, unless a call has validated an   *)
(* app of the user's at the same time; and an app's goroutine only ends     *)
(* after it was cancelled, so that nobody waits for one that goes on.       *)
ApOwnConfig ==
    /\ \A a \in apDetected : apCfg[a] = a \/ apCfg[a] \in apHome
    /\ apMon = "loading" /\ apHome = {} => apTmp = apAt
    /\ \A a \in ApApps : apGo[a] \in {"sending", "closed"} => a \in apCancelled

(* The monitor gets through its events and does not hang on an app that it  *)
(* removes, nor does Cleanup, also when both wait for the same app (app.go: *)
(* the send on doneCh has one receiver and the close serves the others;     *)
(* MonitorApp looks at its context only after each start).                  *)
ApFollows ==
    /\ [](ApTypeOK /\ ApOwnConfig)
    /\ []<>(apMon \in {"scan", "loop", "over"} /\ (apEvents # <<>> => apOver))
    /\ []<>(apClean # "waits")
=============================================================================
