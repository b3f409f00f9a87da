------------------------------ MODULE WsbState ------------------------------
(***************************************************************************)
(* The Windows Sandbox host as the mxc processes see it.  Windows runs one *)
(* sandbox VM per host.  Two kinds of mxc process launch it: a one-shot    *)
(* runner and the daemon of a state-aware sandbox (together: owners); the  *)
(* user of the host may open a sandbox of their own (a foreign VM).  A VM  *)
(* shows as its WindowsSandbox* host processes, each named by PID and      *)
(* creation time, here by the number of its VM and its role.  Owners take  *)
(* the host VM mutex, keep a proof of what they launched on disk (the      *)
(* daemon record, the marker of a run) and terminate by proof.             *)
(***************************************************************************)
EXTENDS Integers, FiniteSets

CONSTANTS Sandbox,      \* ids of state-aware sandboxes, never used again
          Daemon,       \* daemon processes
          Runner,       \* processes of one-shot runs
          Forcing,      \* the owners started with WXC_WSB_FORCE_RECLAIM
          Phase,        \* the phase process that holds the transition mutex
          Foreign,      \* whoever launches a VM without mxc
          NoOne,
          VmLimit,      \* bound: VMs launched on the host
          OpLimit,      \* bound: phases begun
          FaultLimit    \* bound: crashes, failed probes, writes and kills

VmOwner == Daemon \cup Runner
Actor == VmOwner \cup {Phase}
Vm == 1 .. VmLimit
VmProcId == Vm \X {"server", "client"}

ASSUME ActorAssumption ==
  /\ Phase \notin VmOwner
  /\ NoOne \notin Actor
  /\ Foreign \notin Actor
  /\ Daemon \cap Runner = {}

VARIABLES
  born,        \* VMs launched so far
  vmBy,        \* who launched the VM the host runs, NoOne for none
  midLaunch,   \* it is foreign and came up while an owner had no final proof
  live,        \* its host processes that an enumeration would list
  coming,      \* its host processes that have not appeared yet
  child,       \* WindowsSandbox.exe of an owner: none, running, ok, failed
  vmLock,      \* holder of the mutex Local\wxc-wsb-vm
  daemonRecord,  \* daemon.json
  marker,      \* proof in the marker of a run, NoOne without a marker
  record,      \* state in the record of each sandbox
  pc,          \* where each owner is
  ownership,   \* VmOwnership of each owner
  killSet,     \* the termination plan each actor is carrying out
  serves,      \* the sandbox of each daemon
  stop,        \* daemons whose control server has been told to stop
  streak,      \* consecutive polls of a daemon that found its VM gone
  phase,       \* the phase that holds Local\wxc-wsb-stateaware-transition
  ops, faults  \* bound counters

hostVars == <<born, vmBy, midLaunch, live, coming, child>>
diskVars == <<daemonRecord, marker, record>>
ownerVars == <<pc, ownership, killSet, serves, stop, streak>>
wsbVars == <<hostVars, vmLock, diskVars, ownerVars, phase, ops, faults>>

SandboxState == {"absent", "Provisioned", "Started", "Stopped", "gone"}

\* A sandbox without a record is yet to be provisioned, or deprovisioned.
Recorded(s) == record[s] \notin {"absent", "gone"}

NoRecord == [by |-> NoOne, sandbox |-> NoOne, ready |-> FALSE, proof |-> {}]
NoPhase == [at |-> "idle", op |-> NoOne, sandbox |-> NoOne, daemon |-> NoOne,
            proof |-> {}]
Unlaunched == [state |-> "NotLaunched", proof |-> {}]
Owned(proof) == [state |-> "Owned", proof |-> proof]

\* A host without VM, daemon or run, and sandboxes as earlier phases left them: also
\* Started, when the VM was closed and the daemon noticed.  Who will take part is
\* open, and so is how much of the bounds on VMs, phases and faults is left.
WsbInit ==
  /\ born \in 0 .. VmLimit /\ vmBy = NoOne /\ midLaunch = FALSE /\ live = {} /\ coming = {}
  /\ child = [o \in VmOwner |-> "none"]
  /\ vmLock = NoOne
  /\ daemonRecord = NoRecord
  /\ marker = [r \in Runner |-> NoOne]
  /\ record \in [Sandbox -> SandboxState]
  /\ pc \in [VmOwner -> {"unborn", "dead"}]
  /\ ownership = [o \in VmOwner |-> Unlaunched]
  /\ killSet = [a \in Actor |-> {}]
  /\ serves = [d \in Daemon |-> NoOne]
  /\ stop = {}
  /\ streak = [o \in VmOwner |-> 0]
  /\ phase = NoPhase
  /\ ops \in 0 .. OpLimit /\ faults \in 0 .. FaultLimit

-----------------------------------------------------------------------------
(* Faults, and operations of the system that fail only with one. *)

Fault == faults < FaultLimit /\ faults' = faults + 1
Succeeds(ok) == IF ok THEN UNCHANGED faults ELSE Fault

\* An owner whose process runs: running_process_creation_time finds it.
Alive(o) == pc[o] \notin {"unborn", "dead"}

\* live_daemon: the record of a daemon that still runs.
LiveDaemon == daemonRecord.by \in Daemon /\ Alive(daemonRecord.by)

\* While it has no proof, and a daemon until it refreshes its proof when ready, an
\* owner takes whatever VM the host runs for its own.
Unproven(o) ==
  \/ pc[o] = "inflight"
  \/ /\ ownership[o].state = "LaunchSucceededNoProof"
     /\ pc[o] \in {"prove", "rendezvous", "ready", "run", "hold", "down"}
  \/ o \in Daemon /\ pc[o] \in {"rendezvous", "ready"}

-----------------------------------------------------------------------------
(* The host: VMs come up and go, their processes appear. *)

Boot(who) ==
  /\ vmBy = NoOne /\ born < VmLimit
  /\ born' = born + 1
  /\ vmBy' = who
  /\ coming' = {born'} \X {"server", "client"}
  /\ UNCHANGED live

\* WindowsSandbox.exe of an owner starts the VM, even if the owner is gone by now.
LaunchTakes(o) ==
  /\ child[o] = "running"
  /\ Boot(o)
  /\ child' = [child EXCEPT ![o] = "ok"]
  /\ UNCHANGED <<midLaunch, vmLock, diskVars, ownerVars, phase, ops, faults>>

\* It exits with an error: the host has a VM already, or the launch failed.
LaunchFails(o) ==
  /\ child[o] = "running"
  /\ child' = [child EXCEPT ![o] = "failed"]
  /\ UNCHANGED <<born, vmBy, midLaunch, live, coming, vmLock, diskVars, ownerVars, phase,
                 ops, faults>>

ForeignLaunch ==
  /\ Boot(Foreign)
  /\ midLaunch' = \E o \in VmOwner : Unproven(o)
  /\ UNCHANGED <<child, vmLock, diskVars, ownerVars, phase, ops, faults>>

\* The server process comes first.
Appear ==
  /\ \E p \in coming :
       /\ p[2] = "client" => <<p[1], "server">> \notin coming
       /\ coming' = coming \ {p}
       /\ live' = live \cup {p}
  /\ UNCHANGED <<born, vmBy, midLaunch, child, vmLock, diskVars, ownerVars, phase, ops,
                 faults>>

VmGone == vmBy' = NoOne /\ midLaunch' = FALSE /\ coming' = {}

\* The window is closed, or the VM crashes.
Close ==
  /\ vmBy # NoOne
  /\ VmGone /\ live' = {}
  /\ UNCHANGED <<born, child, vmLock, diskVars, ownerVars, phase, ops, faults>>

\* terminate_processes: the targets still alive under their identity die; some
\* or all may refuse.  Without a process left the VM is gone.
Terminate(targets) ==
  \E dying \in SUBSET (targets \cap live) :
    /\ Succeeds(dying = targets \cap live)
    /\ live' = live \ dying
    /\ IF dying # {} /\ live' = {} THEN VmGone ELSE UNCHANGED <<vmBy, midLaunch, coming>>
    /\ UNCHANGED <<born, child>>
=============================================================================
