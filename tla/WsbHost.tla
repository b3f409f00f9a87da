------------------------------- MODULE WsbHost -------------------------------
(***************************************************************************)
(* The Windows Sandbox backend on one host: phases, daemons, one-shot runs *)
(* and the user's own sandboxes, and what they owe each other.             *)
(***************************************************************************)
EXTENDS WsbPhases

OwnerStep(o) ==
  \/ ReadSandbox(o) \/ AcquireVm(o) \/ VmBusy(o)
  \/ Yield(o) \/ Proceed(o) \/ TakeOver(o) \/ Reclaim(o) \/ Reclaimed(o)
  \/ Publish(o) \/ Launch(o) \/ Launched(o) \/ Prove(o) \/ Rendezvous(o)
  \/ Ready(o) \/ Watch(o) \/ StopServing(o)
  \/ Down(o) \/ Kill(o) \/ KillConfirmed(o) \/ Exit(o)

PhaseStep ==
  \/ StartSandbox \/ AwaitReady \/ AwaitFails \/ AwaitTimeout \/ Halt \/ HaltKill
  \/ StopRefused \/ NothingToReap \/ SendStop \/ DaemonGone \/ ForgetDaemon
  \/ CleanupRefused \/ CleanupBegins \/ CleanupLocks \/ CleanupKills \/ CleanupEnds

WsbNext ==
  \/ ForeignLaunch \/ Appear \/ Close
  \/ \E s \in Sandbox : Provision(s)
                        \/ \E op \in {"start", "stop", "deprovision"} : Begin(op, s)
  \/ PhaseStep \/ PhaseCrash
  \/ \E o \in VmOwner : \/ LaunchTakes(o) \/ LaunchFails(o) \/ OwnerStep(o)
                      \/ Run(o) \/ RunEnds(o) \/ Quit(o) \/ CtrlC(o) \/ Crash(o)

\* The processes run, WindowsSandbox.exe exits, and the waits of a phase end.
WsbFairness ==
  /\ \A o \in VmOwner : /\ WF_wsbVars(OwnerStep(o))
                        /\ WF_wsbVars(LaunchTakes(o) \/ LaunchFails(o))
  /\ WF_wsbVars(PhaseStep)

WsbSpec == WsbInit /\ [][WsbNext]_wsbVars /\ WsbFairness

-----------------------------------------------------------------------------

\* The variables and their types; the watchdog acts on the last confirmation it
\* waits for.
WsbTypeOK ==
  /\ born \in 0 .. VmLimit /\ vmBy \in VmOwner \cup {Foreign, NoOne} /\ midLaunch \in BOOLEAN
  /\ live \subseteq VmProcId /\ coming \subseteq VmProcId
  /\ child \in [VmOwner -> {"none", "running", "ok", "failed"}]
  /\ vmLock \in Actor \cup {NoOne}
  /\ daemonRecord \in [by : Daemon \cup {NoOne}, sandbox : Sandbox \cup {NoOne},
                       ready : BOOLEAN, proof : SUBSET VmProcId]
  /\ \A r \in Runner : marker[r] = NoOne \/ marker[r] \subseteq VmProcId
  /\ record \in [Sandbox -> SandboxState]
  /\ pc \in [VmOwner -> Holding \cup {"unborn", "spawned", "lock", "done", "dead"}]
  /\ stop \subseteq Daemon
  /\ streak \in [VmOwner -> 0 .. VM_WATCHDOG_GONE_CONFIRMATIONS - 1]
  /\ \A o \in VmOwner : ownership[o].proof \subseteq VmProcId
  /\ \A a \in Actor : killSet[a] \subseteq VmProcId

\* A step in which an actor terminates processes of the VM.
Strikes(a) ==
  /\ live' # live /\ live' \subseteq live
  /\ IF a = Phase THEN phase' # phase ELSE pc'[a] # pc[a]

\* A sandbox that the user opened is never terminated by mxc, unless force-reclaim
\* asks for it, or it came up while an owner was still to see which VM its launch
\* got it (teardown.rs: "foreign/manual sandboxes are not disturbed").
ForeignSpared ==
  [][\A a \in Actor : Strikes(a) /\ vmBy = Foreign => a \in Forcing \/ midLaunch]_wsbVars

\* Nobody terminates the VM of an owner that still holds the slot: not a daemon or
\* run that reclaims, with or without force, nor a phase that cleans up.
PeerSpared ==
  [][\A a \in Actor : Strikes(a) /\ vmBy \in VmOwner \ {a} => vmLock # vmBy]_wsbVars

\* A proof on disk that names a process still running is not lost, so that whoever
\* comes next can reclaim the VM; a daemon that a phase has told to stop aside.
ProofKept ==
  [][/\ daemonRecord.proof \cap live' # {} /\ phase.at # "forget" =>
          daemonRecord'.proof \cap live' # {}
     /\ \A r \in Runner : marker[r] # NoOne /\ marker'[r] = NoOne =>
          marker[r] \cap live' = {}]_wsbVars

\* A daemon that has taken a STOP ends, wherever in its boot, its service or its
\* teardown the STOP finds it.
StopObeyed == stop # {} ~> stop = {}

\* No daemon goes on holding a VM that is gone, whatever else the host runs by then:
\* the crash watchdog goes by the proof.
Stranded(d) ==
  pc[d] = "hold" /\ ownership[d].proof # {} /\ ownership[d].proof \cap live = {}
DeadVmReleased == (\E d \in Daemon : Stranded(d)) ~> (\A d \in Daemon : ~ Stranded(d))

\* A phase ends although none of its timeouts needs to fire: its daemon becomes ready,
\* stops when told to, or is dead.
PhaseEnds == phase # NoPhase ~> phase = NoPhase
=============================================================================
