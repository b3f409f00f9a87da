-------------------------- MODULE HostSlots_proofs --------------------------
(***************************************************************************)
(* What a host has few of, for any number of who may want it: the slots of *)
(* the WSLc store pool never have two owners, and the host VM mutex keeps  *)
(* owners and cleaning phases of Windows Sandbox apart.                    *)
(***************************************************************************)
EXTENDS WsbHost, StoreSlots, TLAPS

PoolInv == TypeOK /\ Exclusive

LEMMA PoolInvHolds == Spec => []PoolInv
<1>1. Init => PoolInv
  BY DEF Init, PoolInv, TypeOK, Exclusive
<1>2. PoolInv /\ [Next]_vars => PoolInv'
  <2> SUFFICES ASSUME PoolInv, [Next]_vars PROVE PoolInv'
    OBVIOUS
  <2> USE DEF PoolInv, TypeOK, Exclusive
  <2>1. ASSUME NEW o \in Owner, Lease(o) PROVE PoolInv'
    <3>1. PICK k \in Slot \ leased : leased' = leased \cup {k} /\ owner' = [owner EXCEPT ![o] = k]
      BY <2>1 DEF Lease
    <3> QED BY <3>1
  <2>2. ASSUME NEW o \in Owner, Forget(o) PROVE PoolInv'
    BY <2>2, NoneAssumption DEF Forget, Slot
  <2>3. ASSUME NEW owners \in SUBSET Owner, Return(owners) PROVE PoolInv'
    BY <2>3, NoneAssumption DEF Return, Slot
  <2>4. CASE UNCHANGED vars
    BY <2>4 DEF vars
  <2> QED BY <2>1, <2>2, <2>3, <2>4 DEF Next
<1> QED BY <1>1, <1>2, PTL DEF Spec

\* However leases are taken, dropped and forgotten, no slot has two owners.
THEOREM PoolExclusive == Spec => []Exclusive
  BY PoolInvHolds, PTL DEF PoolInv

\* A slot whose lease was forgotten is never leased again (StoreSlotLease has
\* no other way back into the pool than its drop).
THEOREM ForgottenHeldForever == Spec => ForgottenStaysHeld
<1> DEFINE Kept == \A k \in leased \ Range(owner) : k \in leased' \ Range(owner')
<1>1. PoolInv /\ [Next]_vars => [Kept]_vars
  <2> SUFFICES ASSUME PoolInv, Next, NEW k \in leased \ Range(owner)
               PROVE k \in leased' \ Range(owner')
    BY DEF vars
  <2> USE DEF PoolInv, TypeOK, Range
  <2>0. k \in Slot /\ k # None /\ \A o \in Owner : owner[o] # k
    BY NoneAssumption DEF Slot
  <2>1. ASSUME NEW o \in Owner, Lease(o) PROVE k \in leased' \ Range(owner')
    <3>1. PICK j \in Slot \ leased : leased' = leased \cup {j} /\ owner' = [owner EXCEPT ![o] = j]
      BY <2>1 DEF Lease
    <3> QED BY <3>1, <2>0
  <2>2. ASSUME NEW o \in Owner, Forget(o) PROVE k \in leased' \ Range(owner')
    BY <2>2, <2>0 DEF Forget
  <2>3. ASSUME NEW owners \in SUBSET Owner, Return(owners) PROVE k \in leased' \ Range(owner')
    BY <2>3, <2>0 DEF Return
  <2> QED BY <2>1, <2>2, <2>3 DEF Next
<1> QED BY <1>1, PoolInvHolds, PTL DEF Spec, ForgottenStaysHeld
-----------------------------------------------------------------------------
PhaseFields ==
  phase = [at |-> phase.at, op |-> phase.op, sandbox |-> phase.sandbox,
           daemon |-> phase.daemon, proof |-> phase.proof]

OwnerStage == Holding \cup {"unborn", "spawned", "lock", "done", "dead"}

\* Whoever is past the acquisition of the mutex has it: an owner at any step up to its
\* exit, and a phase while it terminates an orphan.
LockInv ==
  /\ pc \in [VmOwner -> OwnerStage]
  /\ PhaseFields
  /\ \A o \in VmOwner : pc[o] \in Holding => vmLock = o
  /\ phase.at \in {"cleaning", "cleaned"} => vmLock = Phase

\* A host without owners and phases satisfies it.
LEMMA LockInit == WsbInit => LockInv
  BY DEF WsbInit, LockInv, OwnerStage, PhaseFields, NoPhase, Holding

\* A step that touches neither the mutex nor where anyone is.
LEMMA LockStutter ==
  ASSUME LockInv, UNCHANGED <<pc, vmLock, phase>>
  PROVE  LockInv'
  BY DEF LockInv, PhaseFields

\* An owner that holds the mutex goes on to another step, and keeps it.
LEMMA LockGoesOn ==
  ASSUME LockInv, NEW o \in VmOwner, pc[o] \in Holding,
         NEW step \in OwnerStage, Goto(o, step), UNCHANGED <<vmLock, phase>>
  PROVE  LockInv'
  BY DEF LockInv, PhaseFields, Goto

\* An owner that does not hold it goes to a step that does not need it.
LEMMA LockElsewhere ==
  ASSUME LockInv, NEW o \in VmOwner,
         NEW step \in OwnerStage \ Holding, Goto(o, step), UNCHANGED <<vmLock, phase>>
  PROVE  LockInv'
  BY DEF LockInv, PhaseFields, Goto

\* An owner that holds it releases it with Leave.
LEMMA LockLeft ==
  ASSUME LockInv, NEW o \in VmOwner, pc[o] \in Holding, Leave(o), UNCHANGED phase
  PROVE  LockInv'
  BY ActorAssumption DEF LockInv, PhaseFields, Leave, Goto, Holding, OwnerStage, Actor

\* An owner dies; what it held is abandoned, what another holds is not.
LEMMA LockAbandoned ==
  ASSUME LockInv, NEW o, Die(o), PhaseFields',
         (phase' = phase /\ o # Phase) \/ phase' = NoPhase
  PROVE  LockInv'
<1>1. pc' \in [VmOwner -> OwnerStage]
  BY DEF LockInv, Die, Goto, OwnerStage
<1>2. ASSUME NEW q \in VmOwner, pc'[q] \in Holding
      PROVE  vmLock' = q
  <2>1. pc' = [pc EXCEPT ![o] = "dead"] /\ pc \in [VmOwner -> OwnerStage]
    BY DEF LockInv, Die, Goto
  <2>2. q # o
    BY <2>1, <1>2 DEF Holding
  <2>3. pc[q] = pc'[q]
    BY <2>1, <2>2
  <2>4. vmLock = q
    BY <2>3, <1>2 DEF LockInv
  <2> QED
    BY <2>2, <2>4 DEF Die
<1>3. phase'.at \in {"cleaning", "cleaned"} => vmLock' = Phase
  BY DEF LockInv, Die, NoPhase
<1> QED
  BY <1>1, <1>2, <1>3 DEF LockInv

\* A phase goes on without the mutex: what the owners hold does not change.
LEMMA LockPhase ==
  ASSUME LockInv, UNCHANGED <<pc, vmLock>>, PhaseFields',
         phase'.at \in {"cleaning", "cleaned"} => phase.at \in {"cleaning", "cleaned"}
  PROVE  LockInv'
  BY DEF LockInv

\* Every step keeps it.
LEMMA LockStep == LockInv /\ [WsbNext]_wsbVars => LockInv'
<1> SUFFICES ASSUME LockInv, [WsbNext]_wsbVars
             PROVE  LockInv'
  OBVIOUS
<1>1. CASE UNCHANGED wsbVars
  BY <1>1, LockStutter DEF wsbVars, ownerVars
<1>2. CASE ForeignLaunch \/ Appear \/ Close \/ \E s \in Sandbox : Provision(s)
  BY <1>2, LockStutter DEF ForeignLaunch, Appear, Close, Provision, ownerVars
<1>3. ASSUME NEW s \in Sandbox, NEW op \in {"start", "stop", "deprovision"}, Begin(op, s)
      PROVE  LockInv'
  BY <1>3, LockPhase DEF Begin, NoPhase, PhaseFields, ownerVars
<1>4. CASE PhaseStep
  <2>1. CASE StartSandbox
    <3>1. CASE LiveDaemon
      BY <2>1, <3>1, LockPhase DEF StartSandbox, EndPhase, NoPhase, PhaseFields
    <3>2. CASE ~ LiveDaemon
      <4>1. PICK d \in Daemon : pc[d] = "unborn" /\ Goto(d, "spawned")
                                /\ phase' = [phase EXCEPT !.at = "await", !.daemon = d]
        BY <2>1, <3>2 DEF StartSandbox
      <4>2. UNCHANGED vmLock
        BY <2>1 DEF StartSandbox
      <4> QED
        BY <4>1, <4>2 DEF LockInv, PhaseFields, Goto, OwnerStage, Holding, VmOwner
    <3> QED
      BY <3>1, <3>2
  <2>2. CASE AwaitReady
    BY <2>2, LockPhase DEF AwaitReady, EndPhase, NoPhase, PhaseFields, LockInv, ownerVars
  <2>3. CASE AwaitFails \/ AwaitTimeout
    BY <2>3, LockPhase DEF AwaitFails, AwaitTimeout, EndPhase, NoPhase, PhaseFields, LockInv,
       ownerVars
  <2>4. CASE Halt
    BY <2>4, LockPhase DEF Halt, PhaseFields, LockInv
  <2>5. CASE HaltKill
    <3>1. PICK d : d = phase.daemon
      OBVIOUS
    <3>2. Die(d) /\ phase' = NoPhase /\ PhaseFields'
      BY <2>5, <3>1 DEF HaltKill, EndPhase, NoPhase, PhaseFields
    <3> QED
      BY <3>2, LockAbandoned
  <2>6. CASE StopRefused \/ NothingToReap
    BY <2>6, LockPhase DEF StopRefused, NothingToReap, Finish, EndPhase, NoPhase, PhaseFields,
       ownerVars
  <2>7. CASE SendStop
    <3>1. PICK d : phase' = NoPhase \/ phase' = [phase EXCEPT !.at = "stopping", !.daemon = d]
      BY <2>7 DEF SendStop, EndPhase
    <3>2. PhaseFields' /\ phase'.at \notin {"cleaning", "cleaned"}
      <4>1. CASE phase' = NoPhase
        BY <4>1 DEF PhaseFields, NoPhase
      <4>2. CASE phase' = [phase EXCEPT !.at = "stopping", !.daemon = d]
        BY <4>2 DEF LockInv, PhaseFields
      <4> QED
        BY <3>1, <4>1, <4>2
    <3> QED
      BY <2>7, <3>2, LockPhase DEF SendStop
  <2>8. CASE DaemonGone \/ ForgetDaemon
    BY <2>8, LockPhase DEF DaemonGone, ForgetDaemon, Finish, EndPhase, NoPhase, PhaseFields,
       LockInv, ownerVars
  <2>9. CASE CleanupRefused \/ CleanupBegins
    <3>1. UNCHANGED <<pc, vmLock>>
      BY <2>9 DEF CleanupRefused, CleanupBegins, ownerVars
    <3>2. PICK p : phase' = NoPhase \/ phase' = [phase EXCEPT !.at = "cleanup", !.proof = p]
      BY <2>9 DEF CleanupRefused, CleanupBegins, Finish, EndPhase
    <3>3. PhaseFields' /\ phase'.at \notin {"cleaning", "cleaned"}
      <4>1. CASE phase' = NoPhase
        BY <4>1 DEF PhaseFields, NoPhase
      <4>2. CASE phase' = [phase EXCEPT !.at = "cleanup", !.proof = p]
        BY <4>2 DEF LockInv, PhaseFields
      <4> QED
        BY <3>2, <4>1, <4>2
    <3> QED
      BY <3>1, <3>3, LockPhase
  <2>10. CASE CleanupLocks
    <3>1. UNCHANGED pc
      BY <2>10 DEF CleanupLocks
    <3>2. CASE vmLock # NoOne /\ EndPhase /\ UNCHANGED vmLock
      BY <3>1, <3>2, LockPhase DEF EndPhase, NoPhase, PhaseFields
    <3>3. CASE /\ vmLock = NoOne /\ vmLock' = Phase
               /\ phase' = [phase EXCEPT !.at = "cleaning", !.proof = {}]
      <4>1. \A o \in VmOwner : pc[o] \notin Holding
        BY <3>3, ActorAssumption DEF LockInv, Actor
      <4>2. PhaseFields'
        BY <3>3 DEF LockInv, PhaseFields
      <4> QED
        BY <3>1, <3>3, <4>1, <4>2 DEF LockInv
    <3> QED
      BY <2>10, <3>2, <3>3 DEF CleanupLocks
  <2>11. CASE CleanupKills
    BY <2>11 DEF CleanupKills, PhaseFields, LockInv
  <2>12. CASE CleanupEnds
    BY <2>12, ActorAssumption DEF CleanupEnds, Finish, EndPhase, NoPhase, PhaseFields, LockInv,
       Actor, ownerVars
  <2> QED
    BY <1>4, <2>1, <2>2, <2>3, <2>4, <2>5, <2>6, <2>7, <2>8, <2>9, <2>10, <2>11, <2>12
       DEF PhaseStep
<1>5. CASE PhaseCrash
  BY <1>5, ActorAssumption DEF PhaseCrash, EndPhase, NoPhase, PhaseFields, LockInv, Actor
<1>6. ASSUME NEW o \in VmOwner, OwnerStep(o)
      PROVE  LockInv'
  <2>1. CASE ReadSandbox(o) \/ VmBusy(o)
    <3>1. \E step \in {"lock", "dead", "done"} : Goto(o, step)
      BY <2>1 DEF ReadSandbox, VmBusy
    <3> QED
      BY <2>1, <3>1, LockElsewhere DEF ReadSandbox, VmBusy, OwnerStage, Holding
  <2>2. CASE AcquireVm(o)
    <3>1. \A q \in VmOwner : pc[q] \notin Holding
      BY <2>2, ActorAssumption DEF AcquireVm, LockInv, Actor
    <3>2. phase.at \notin {"cleaning", "cleaned"}
      BY <2>2, ActorAssumption DEF AcquireVm, LockInv, Actor
    <3> QED
      BY <2>2, <3>1, <3>2
         DEF AcquireVm, Goto, LockInv, PhaseFields, OwnerStage, Holding
  <2>3. CASE Yield(o) \/ Exit(o)
    BY <2>3, LockLeft DEF Yield, Exit, Holding
  <2>4. CASE Proceed(o) \/ TakeOver(o) \/ Reclaim(o) \/ Rendezvous(o) \/ StopServing(o)
             \/ Kill(o) \/ KillConfirmed(o)
    <3>1. pc[o] \in Holding /\ UNCHANGED <<vmLock, phase>>
      BY <2>4 DEF Proceed, TakeOver, Reclaim, Rendezvous, StopServing, Kill, KillConfirmed,
         Holding
    <3>2. \E step \in OwnerStage : Goto(o, step)
      BY <2>4 DEF Proceed, TakeOver, Reclaim, Rendezvous, StopServing, Kill, KillConfirmed,
         OwnerStage, Holding
    <3> QED
      BY <3>1, <3>2, LockGoesOn
  <2>5. CASE Reclaimed(o) \/ Publish(o)
    <3>1. pc[o] \in Holding /\ UNCHANGED phase
      BY <2>5 DEF Reclaimed, Publish, Holding
    <3>2. CASE Leave(o)
      BY <3>1, <3>2, LockLeft
    <3>3. CASE ~ Leave(o)
      <4>1. UNCHANGED vmLock /\ \E step \in {"publish", "launch"} : Goto(o, step)
        BY <2>5, <3>3 DEF Reclaimed, Publish
      <4> QED
        BY <3>1, <4>1, LockGoesOn DEF OwnerStage, Holding
    <3> QED
      BY <3>2, <3>3
  <2>6. CASE Launch(o) \/ Launched(o) \/ Prove(o) \/ Down(o) \/ Ready(o)
    <3>1. pc[o] \in Holding /\ UNCHANGED <<vmLock, phase>>
      BY <2>6 DEF Launch, Launched, Prove, Down, Ready, Holding
    <3>2. \E step \in {"inflight", "down", "prove", "rendezvous", "exiting", "kill", "hold"} :
            Goto(o, step)
      BY <2>6 DEF Launch, Launched, Prove, Down, Ready
    <3> QED
      BY <3>1, <3>2, LockGoesOn DEF OwnerStage, Holding
  <2>7. CASE Watch(o)
    <3>1. pc[o] \in Holding /\ UNCHANGED <<vmLock, phase>>
      BY <2>7 DEF Watch, Holding
    <3>2. Goto(o, "down") \/ UNCHANGED pc
      BY <2>7 DEF Watch
    <3> QED
      BY <3>1, <3>2, LockGoesOn, LockStutter DEF OwnerStage, Holding
  <2> QED
    BY <1>6, <2>1, <2>2, <2>3, <2>4, <2>5, <2>6, <2>7 DEF OwnerStep
<1>7. ASSUME NEW o \in VmOwner,
             LaunchTakes(o) \/ LaunchFails(o) \/ Run(o) \/ RunEnds(o) \/ Quit(o) \/ CtrlC(o)
               \/ Crash(o)
      PROVE  LockInv'
  <2>1. CASE LaunchTakes(o) \/ LaunchFails(o)
    BY <2>1, LockStutter DEF LaunchTakes, LaunchFails, ownerVars
  <2>2. CASE Run(o) \/ Quit(o)
    BY <2>2, LockElsewhere DEF Run, Quit, OwnerStage, Holding
  <2>3. CASE RunEnds(o)
    BY <2>3, LockGoesOn DEF RunEnds, OwnerStage, Holding
  <2>4. CASE CtrlC(o) \/ Crash(o)
    <3>1. Die(o) /\ UNCHANGED phase
      BY <2>4 DEF CtrlC, Crash
    <3>2. PhaseFields' /\ o # Phase
      BY <3>1, ActorAssumption DEF LockInv, PhaseFields
    <3> QED
      BY <3>1, <3>2, LockAbandoned
  <2> QED
    BY <1>7, <2>1, <2>2, <2>3, <2>4
<1> QED
  BY <1>1, <1>2, <1>3, <1>4, <1>5, <1>6, <1>7 DEF WsbNext

\* An owner that takes processes away while it goes from one step to another.
LEMMA OwnerStrikes ==
  ASSUME LockInv, NEW a \in Actor, Strikes(a), NEW o \in VmOwner, pc[o] \in Holding,
         NEW step, Goto(o, step), UNCHANGED phase
  PROVE  vmLock = a
<1>1. a # Phase /\ a \in VmOwner
  BY DEF Strikes, Actor
<1>2. pc'[a] # pc[a]
  BY <1>1 DEF Strikes
<1>3. a = o
  BY <1>1, <1>2 DEF LockInv, Goto
<1> QED
  BY <1>3 DEF LockInv

\* Whoever terminates processes of the VM has the mutex.
LEMMA StrikeHolds ==
  ASSUME LockInv, [WsbNext]_wsbVars, NEW a \in Actor, Strikes(a)
  PROVE  vmLock = a
<1> USE DEF hostVars
<1>1. live' # live /\ live' \subseteq live /\ (UNCHANGED <<pc, phase>> => FALSE)
  BY DEF Strikes
<1>2. ~ UNCHANGED wsbVars
  BY <1>1 DEF wsbVars
<1>3. CASE ForeignLaunch \/ Appear \/ Close \/ \E s \in Sandbox : Provision(s)
  BY <1>1, <1>3 DEF ForeignLaunch, Boot, Appear, Close, Provision, ownerVars
<1>4. CASE \E s \in Sandbox : \E op \in {"start", "stop", "deprovision"} : Begin(op, s)
  BY <1>1, <1>4 DEF Begin
<1>5. CASE PhaseStep
  <2>1. CASE StartSandbox \/ AwaitReady \/ AwaitFails \/ AwaitTimeout \/ Halt \/ HaltKill
    BY <1>1, <2>1 DEF StartSandbox, AwaitReady, AwaitFails, AwaitTimeout, Halt, HaltKill
  <2>2. CASE StopRefused \/ NothingToReap \/ SendStop \/ DaemonGone \/ ForgetDaemon
    BY <1>1, <2>2 DEF StopRefused, NothingToReap, SendStop, DaemonGone, ForgetDaemon
  <2>3. CASE CleanupRefused \/ CleanupBegins \/ CleanupLocks \/ CleanupEnds
    BY <1>1, <2>3 DEF CleanupRefused, CleanupBegins, CleanupLocks, CleanupEnds
  <2>4. CASE CleanupKills
    <3>1. vmLock = Phase /\ UNCHANGED pc
      BY <2>4 DEF CleanupKills, LockInv
    <3> QED
      BY <3>1 DEF Strikes
  <2> QED
    BY <1>5, <2>1, <2>2, <2>3, <2>4 DEF PhaseStep
<1>6. CASE PhaseCrash
  BY <1>1, <1>6 DEF PhaseCrash
<1>7. ASSUME NEW o \in VmOwner, OwnerStep(o)
      PROVE  vmLock = a
  <2>1. CASE Reclaim(o) \/ Kill(o)
    BY <2>1, OwnerStrikes DEF Reclaim, Kill, Holding
  <2>2. CASE ReadSandbox(o) \/ AcquireVm(o) \/ VmBusy(o) \/ Yield(o) \/ Proceed(o) \/ TakeOver(o)
    BY <1>1, <2>2 DEF ReadSandbox, AcquireVm, VmBusy, Yield, Proceed, TakeOver
  <2>3. CASE Reclaimed(o) \/ Publish(o) \/ Launch(o) \/ Launched(o) \/ Prove(o) \/ Rendezvous(o)
    BY <1>1, <2>3 DEF Reclaimed, Publish, Launch, Launched, Prove, Rendezvous
  <2>4. CASE Ready(o) \/ Watch(o) \/ StopServing(o) \/ Down(o) \/ KillConfirmed(o) \/ Exit(o)
    BY <1>1, <2>4 DEF Ready, Watch, StopServing, Down, KillConfirmed, Exit
  <2> QED
    BY <1>7, <2>1, <2>2, <2>3, <2>4 DEF OwnerStep
<1>8. ASSUME NEW o \in VmOwner,
             LaunchTakes(o) \/ LaunchFails(o) \/ Run(o) \/ RunEnds(o) \/ Quit(o) \/ CtrlC(o)
               \/ Crash(o)
      PROVE  vmLock = a
  <2>1. CASE LaunchTakes(o) \/ LaunchFails(o) \/ Run(o) \/ RunEnds(o) \/ Quit(o) \/ Crash(o)
    BY <1>1, <2>1 DEF LaunchTakes, Boot, LaunchFails, Run, RunEnds, Quit, Crash
  <2>2. CASE CtrlC(o)
    BY <2>2, OwnerStrikes DEF CtrlC, Die, Armed, Holding
  <2> QED
    BY <1>8, <2>1, <2>2
<1> QED
  BY <1>2, <1>3, <1>4, <1>5, <1>6, <1>7, <1>8 DEF WsbNext

\* Nobody terminates the VM of an owner that still holds the slot (the mutex
\* Local\wxc-wsb-vm), whoever reclaims, tears down, is interrupted or cleans up.
THEOREM NoPeerStruck == WsbSpec => PeerSpared
<1>1. LockInv /\ [WsbNext]_wsbVars =>
        [\A a \in Actor : Strikes(a) /\ vmBy \in VmOwner \ {a} => vmLock # vmBy]_wsbVars
  BY StrikeHolds
<1> QED
  BY LockInit, LockStep, <1>1, PTL DEF WsbSpec, PeerSpared
=============================================================================
