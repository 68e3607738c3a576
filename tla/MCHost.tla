------------------------------- MODULE MCHost --------------------------------
(***************************************************************************)
(* The VM's loop and the port monitors side by side, for what they must    *)
(* eventually do: each behaviour runs one of them, chosen at the start, and *)
(* leaves the others as they are.  The fairness of each is that of its own *)
(* module, while it runs.                                                  *)
(***************************************************************************)
EXTENDS IslePorts, IsleVM

------------------------------------------------------------------------------
VARIABLE part  \* the component that runs

allVars == <<part, portsVars, vmVars>>

(* A component that does not run starts in one of its initial states.       *)
Fixed(p, x, S) == part # p => x = CHOOSE e \in S : TRUE

AllInit ==
    /\ part \in {"ports", "vm"}
    /\ PortsInit
    /\ VMInit

AllNext ==
    /\ UNCHANGED part
    /\ IF part = "ports" THEN PortsNext ELSE UNCHANGED portsVars
    /\ IF part = "vm" THEN VMNext ELSE UNCHANGED vmVars

AllSpec ==
    /\ AllInit /\ [][AllNext]_allVars
    /\ \A c \in Conts :
        /\ WF_portsVars(part = "ports" /\ MonitorStep(c))
        /\ WF_portsVars(part = "ports" /\ call[c] # "none" /\ HandlerStep(c))
        /\ WF_portsVars(part = "ports" /\ \E s4, s6 \in SUBSET Ports : Sweep(c, s4, s6))
        /\ SF_portsVars(part = "ports" /\ FullSweep(c))
    /\ WF_vmVars(part = "vm" /\ LoopStep) /\ WF_vmVars(part = "vm" /\ TakeControl) /\ WF_vmVars(part = "vm" /\ Tick)
    /\ SF_vmVars(part = "vm" /\ (TakeSignal \/ TakeHalted \/ TakeNote)) /\ SF_vmVars(part = "vm" /\ TakeTick)
    /\ WF_vmVars(part = "vm" /\ lis = "decode" /\ (GuestAnswers \/ SessionLost))
==============================================================================
