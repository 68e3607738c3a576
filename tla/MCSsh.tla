-------------------------------- MODULE MCSsh --------------------------------
(***************************************************************************)
(* Layers of the ssh libraries side by side, for what they must            *)
(* eventually do: each behaviour runs one of them, chosen at the start, and *)
(* leaves the others as they are.  The fairness of each is that of its own *)
(* module, while it runs.                                                  *)
(***************************************************************************)
EXTENDS SshChannel, SshMux, SshHandshake, SshAuthClient, SshForwards

OpenedBy == [o1 |-> "c", o2 |-> "s"]
RequestOn == [k1 |-> "o1", k2 |-> "o1", g1 |-> "global", g2 |-> "global"]
MuxPlans == {{"o1", "o2", "k1"}, {"o1", "k1", "k2"}, {"o1", "g1", "g2"}}

KexConfigs == {[c |-> <<"curve25519", "gex">>, s |-> <<"gex", "curve25519">>], [c |-> <<"ecdh">>, s |-> <<"dh">>]}

Method(m, keys, tries) == [m |-> m, keys |-> keys, tries |-> tries]
ClientConfigs ==
    {<<Method("publickey", <<"k1", "k2">>, 1), Method("password", <<>>, 2), Method("publickey", <<"k2">>, 1)>>,
     <<Method("keyboard-interactive", <<>>, 2), Method("gssapi-with-mic", <<>>, 1)>>}
MethodLists ==
    {{}, {"publickey"}, {"password", "publickey"}, {"password"}, {"keyboard-interactive", "gssapi-with-mic"}}

KindOfAddress == [t1 |-> "tcp", u1 |-> "unix", bad |-> "tcp"]

------------------------------------------------------------------------------
VARIABLE part  \* the component that runs

allVars == <<part, chanVars, muxVars, hsVars, caVars, fwVars>>

(* A component that does not run starts in one of its initial states.       *)
Fixed(p, x, S) == part # p => x = CHOOSE e \in S : TRUE

AllInit ==
    /\ part \in {"channel", "mux", "handshake", "authClient", "forwards"}
    /\ ChanInit
    /\ MuxInit /\ Fixed("mux", mPlan, Plans)
    /\ HsInit /\ Fixed("handshake", hConf, HsConfigs)
    /\ CaInit /\ Fixed("authClient", ncConf, CaConfigs)
    /\ FwInit /\ Fixed("forwards", fwBroken, BOOLEAN) /\ Fixed("forwards", fwWish, [FwListeners -> FwRange("unix") \union {FwAny}])

AllNext ==
    /\ UNCHANGED part
    /\ IF part = "channel" THEN ChanNext ELSE UNCHANGED chanVars
    /\ IF part = "mux" THEN MuxNext ELSE UNCHANGED muxVars
    /\ IF part = "handshake" THEN HsNext ELSE UNCHANGED hsVars
    /\ IF part = "authClient" THEN CaNext ELSE UNCHANGED caVars
    /\ IF part = "forwards" THEN FwNext ELSE UNCHANGED fwVars

AllSpec ==
    /\ AllInit /\ [][AllNext]_allVars
    /\ \A s \in ChanStreams :
        /\ WF_chanVars(part = "channel" /\ ChanWriterSteps(s))
        /\ WF_chanVars(part = "channel" /\ ChanReaderSteps(s))
    /\ \A p \in ChanSides : WF_chanVars(part = "channel" /\ ChanLoopSteps(p))
    /\ \A p \in MuxSides : WF_muxVars(part = "mux" /\ LoopSteps(p)) /\ WF_muxVars(part = "mux" /\ ServeSteps(p))
    /\ \A o \in Opens : WF_muxVars(part = "mux" /\ OpenReturns(o))
    /\ \A k \in Callers : WF_muxVars(part = "mux" /\ RequestReturns(k))
    /\ \A p \in HsSides :
        /\ WF_hsVars(part = "handshake" /\ HsLoopSteps(p))
        /\ WF_hsVars(part = "handshake" /\ HsReadSteps(p))
    /\ WF_caVars(part = "authClient" /\ CaNext)
    /\ WF_fwVars(part = "forwards" /\ FwRead) /\ WF_fwVars(part = "forwards" /\ FwPass)
    /\ WF_fwVars(part = "forwards" /\ FwCloseAll)
    /\ WF_fwVars(part = "forwards" /\ \E a \in FwAddrs : \E ok \in BOOLEAN : FwAnswer(ok, a))
    /\ \A k \in FwKinds : WF_fwVars(part = "forwards" /\ FwKindSteps(k))
    /\ \A l \in FwListeners : SF_fwVars(part = "forwards" /\ FwCallSteps(l)) /\ WF_fwVars(part = "forwards" /\ FwAccept(l))
==============================================================================
