----------------------------- MODULE MCServices ------------------------------
(***************************************************************************)
(* The services of isle and of ssh side by side, for what they must        *)
(* eventually do: each behaviour runs one of them, chosen at the start, and *)
(* leaves the others as they are.  The fairness of each is that of its own *)
(* module, while it runs.                                                  *)
(***************************************************************************)
EXTENDS IsleLaunch, IsleRelay, IsleRun, IsleReaper, IsleApps, IsleDNS,
        SshAgent, SshSession, SshServer, SshClient

Call(kind, version) == [kind |-> kind, ver |-> version]
LaunchPlans ==
    {[installed |-> 2, conf |-> "whole", kills |-> 1, calls |-> <<Call("shell", 2), Call("shell", 2)>>],
     [installed |-> 2, conf |-> "whole", kills |-> 1, calls |-> <<Call("start", 2), Call("stop", 2), Call("start", 2)>>],
     [installed |-> 0, conf |-> "none", kills |-> 0, calls |-> <<Call("shell", 1), Call("stop", 1)>>],
     [installed |-> 0, conf |-> "none", kills |-> 1, calls |-> <<Call("start", 1), Call("start", 2)>>]}

DefaultServers == <<"s1">>
ResolvConfs == {<<>>, <<"s2">>}

Identity(kind, cert) == [kind |-> kind, cert |-> cert, n |-> 1]
KeyLives == {[secs |-> 0, confirm |-> FALSE], [secs |-> 1, confirm |-> TRUE]}
AgentPlans ==
    {[ops |-> {"add", "addConstrained", "sign", "list"}, ids |-> {Identity("rsa", FALSE)}],
     [ops |-> {"add", "remove", "removeAll", "sign"}, ids |-> {Identity("rsa", TRUE)}],
     [ops |-> {"add", "lock", "unlock", "list", "sign"}, ids |-> {Identity("ed25519", FALSE)}],
     [ops |-> {"unknown", "addConstrained"},
      ids |-> {Identity("rsa", TRUE), Identity("dsa", FALSE), Identity("ecdsa", TRUE), Identity("ed25519", TRUE)}]}

RequestKinds ==
    {{"shell", "env", "pty-req", "window-change"}, {"shell", "signal", "break", "subsystem"},
     {"subsystem", "agent", "other"}}

ServerPlans ==
    {[calls |-> {"close", "shutdown"}, conns |-> {"c1", "c2"}, lns |-> {}],
     [calls |-> {}, conns |-> {"c1", "c2"}, lns |-> {"l1", "l2"}]}

ServerScripts ==
    {<<"out", "err", "exit0", "eof", "close">>, <<"eof", "exit1", "close">>, <<"err", "signal", "close">>,
     <<"malformed", "keepalive", "keepalive", "close">>, <<"keepalive", "out", "close">>}

------------------------------------------------------------------------------
VARIABLE part  \* the component that runs

allVars == <<part, lnVars, ryVars, ruVars, rpVars, apVars, dnVars, agVars,
             seVars, svVars, clVars>>

(* A component that does not run starts in one of its initial states.       *)
Fixed(p, x, S) == part # p => x = CHOOSE e \in S : TRUE

AllInit ==
    /\ part \in {"launch", "relay", "run", "reaper", "apps", "dns", "agent",
                "session", "server", "client"}
    /\ LnInit /\ Fixed("launch", lnPlan, LnPlans)
    /\ RyInit /\ Fixed("relay", ryKind, RyKinds)
    /\ RuInit /\ Fixed("run", ruKind, RuKinds)
    /\ RpInit
    /\ ApInit /\ Fixed("apps", apHome, ApHomes) /\ Fixed("apps", apLink, ApLinks)
    /\ DnInit /\ Fixed("dns", dnConf, DnConfs) /\ Fixed("dns", dnReach, DnReaches)
    /\ AgInit /\ Fixed("agent", agPlan, AgPlans)
    /\ SeInit /\ Fixed("session", sePlan, SeKinds)
    /\ SvInit /\ Fixed("server", svPlan, SvPlans)
    /\ ClInit /\ Fixed("client", clRoute, DOMAIN ClDials) /\ Fixed("client", clPipes, ClPipes) /\ Fixed("client", clScript, ClScripts)

AllNext ==
    /\ UNCHANGED part
    /\ IF part = "launch" THEN LnNext ELSE UNCHANGED lnVars
    /\ IF part = "relay" THEN RyNext ELSE UNCHANGED ryVars
    /\ IF part = "run" THEN RuNext ELSE UNCHANGED ruVars
    /\ IF part = "reaper" THEN RpNext ELSE UNCHANGED rpVars
    /\ IF part = "apps" THEN ApNext ELSE UNCHANGED apVars
    /\ IF part = "dns" THEN DnNext ELSE UNCHANGED dnVars
    /\ IF part = "agent" THEN AgNext ELSE UNCHANGED agVars
    /\ IF part = "session" THEN SeNext ELSE UNCHANGED seVars
    /\ IF part = "server" THEN SvNext ELSE UNCHANGED svVars
    /\ IF part = "client" THEN ClNext ELSE UNCHANGED clVars

AllSpec ==
    /\ AllInit /\ [][AllNext]_allVars
    /\ \A p \in LnProcs :
        /\ WF_lnVars(part = "launch" /\ LnSteps(p))
        /\ WF_lnVars(part = "launch" /\ p \in lnSig /\ LnRunEnds(p))
    /\ \A c \in RyClients : WF_ryVars(part = "relay" /\ RySteps(c))
    /\ WF_ruVars(part = "run" /\ RuSteps)
    /\ WF_rpVars(part = "reaper" /\ RpReapSteps)
    /\ \A c \in RpCmds :
        /\ WF_rpVars(part = "reaper" /\ RpReceive(c))
        /\ WF_rpVars(part = "reaper" /\ RpNoteSteps(c))
    /\ WF_apVars(part = "apps" /\ ApCallSteps) /\ WF_apVars(part = "apps" /\ ApMonSteps)
    /\ WF_apVars(part = "apps" /\ ApCleanSteps) /\ \A a \in ApApps : WF_apVars(part = "apps" /\ ApAppSteps(a))
    /\ WF_dnVars(part = "dns" /\ DnWatch)
    /\ \A q \in DnQueries : WF_dnVars(part = "dns" /\ DnServe(q)) /\ WF_dnVars(part = "dns" /\ DnHostServe(q))
    /\ WF_agVars(part = "agent" /\ AgServe)
    /\ \A u \in AgUsers : WF_agVars(part = "agent" /\ (AgWrite(u) \/ AgReturn(u)))
    /\ WF_seVars(part = "session" /\ SeLoopSteps) /\ WF_seVars(part = "session" /\ SeExitZero)
    /\ WF_seVars(part = "session" /\ SeSignalTaken) /\ WF_seVars(part = "session" /\ SeDrain)
    /\ WF_svVars(part = "server" /\ SvServeReturns) /\ WF_svVars(part = "server" /\ SvShutdownReturns(FALSE))
    /\ \A c \in SvConns :
        /\ WF_svVars(part = "server" /\ SvTrack(c)) /\ WF_svVars(part = "server" /\ SvConnReturns(c))
        /\ WF_svVars(part = "server" /\ svNet[c] = "closed" /\ SvHandshake(c, FALSE))
    /\ \A l \in SvLns : WF_svVars(part = "server" /\ SvWatchEnds(l)) /\ WF_svVars(part = "server" /\ SvAcceptEnds(l))
    /\ WF_clVars(part = "client" /\ ClCliSteps) /\ WF_clVars(part = "client" /\ ClWaitSteps)
    /\ WF_clVars(part = "client" /\ ClDeliver)
    /\ WF_clVars(part = "client" /\ ClCopyInput /\ (clShut \/ clPipe = "closed"))
    /\ \A s \in ClOutputs : WF_clVars(part = "client" /\ ClCopyOutput(s))
==============================================================================
