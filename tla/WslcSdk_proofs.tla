---------------------------- MODULE WslcSdk_proofs ---------------------------
(***************************************************************************)
(* The session manager's last two layers, for any number of sessions,      *)
(* clients, containers and pulls: the SDK is not unloaded under a thread   *)
(* that calls into it (SdkInv), and a provision parked behind a boot finds *)
(* the session it waited for (ReplayInv).                                  *)
(***************************************************************************)
EXTENDS WslcHandles_proofs

\* Most leaves are set reasoning for Zenon; the others name SMT.
USE Zenon

USE DEF entryVars, warmVars, slotVars, threadVars, provVars, contVars, execVars,
        loopVars, clientVars, vars

-----------------------------------------------------------------------------
(* The SDK.                                                                *)

\* Nothing that would call into the SDK, and nothing whose drop would.
Inert ==
  /\ \A s \in Session : ~Owned(s) /\ rel[s] \in {"idle", "sent"}
  /\ \A t \in Token : pull[t].at # "running"
  /\ \A b \in Sandbox : run[b] # "running"

\* The phases after the boots have been waited for.
Late == {"drainPulls", "releaseAll", "drainReleases"}

SdkInv ==
  /\ sdk = "none" => Inert
  /\ pc \in Late =>
       \A s \in Session :
         /\ s \notin PendingSessions
         /\ ~abandon => boot[s] = "idle" /\ bootMsg[s] = "none"
  /\ pc = "drainReleases" => \A s \in Session : sess[s] # "drained"

\* While the worker serves, SdkInv comes down to its first part.
LEMMA ServingSdk ==
  ASSUME pc' \in Serving, sdk' = "none" => Inert' PROVE SdkInv'
<1>1. pc' \notin Late BY DEF Serving, Late
<1> QED BY <1>1 DEF SdkInv, Late

LEMMA InertKept ==
  ASSUME Inert, UNCHANGED <<sess, boot, bootMsg, rel, pull, run>> PROVE Inert'
BY DEF Inert, Owned

LEMMA BeginSessionInert ==
  ASSUME EntryTypes, Inert, NEW s \in Session, BeginSession(s), sdk' = "none",
         UNCHANGED <<pull, run>>
  PROVE  Inert'
<1>1. /\ sess' = [sess EXCEPT ![s] = "waiting"] /\ UNCHANGED threadVars
  BY DEF BeginSession, LeaseAndBoot
<1>2. sess'[s] = "waiting" /\ \A x \in Session \ {s} : sess'[x] = sess[x]
  BY <1>1 DEF EntryTypes
<1> QED BY <1>1, <1>2 DEF Inert, Owned

LEMMA BeginProvisionInert ==
  ASSUME EntryTypes, Inert, NEW req \in Request, BeginProvision(req), sdk' = "none",
         UNCHANGED run
  PROVE  Inert'
<1>1. CASE \/ ParkProvision(req) \/ ProvisionFromStore(req) \/ RefuseProvision(req)
  <2>1. UNCHANGED <<sess, boot, bootMsg, rel, pull>>
    BY <1>1 DEF ParkProvision, ProvisionFromStore, RefuseProvision
  <2> QED BY <2>1, InertKept
<1>2. CASE ProvisionByPull(req)
  <2>1. EnsureSession(req.names) \in Session /\ sess[EnsureSession(req.names)] = "ready"
    BY <1>2 DEF ProvisionByPull, IsReady, EnsureSession, Request, EntryTypes
  <2> QED BY <2>1 DEF Inert, Owned
<1>3. CASE BootImplicitSession(req)
  <2>1. UNCHANGED pull BY <1>3 DEF BootImplicitSession
  <2>2. CASE \E fresh \in Session : BeginSession(fresh) BY <2>1, <2>2, BeginSessionInert
  <2>3. CASE UNCHANGED entryVars /\ LeaseAndBootFails
    BY <2>1, <2>3, InertKept DEF LeaseAndBootFails
  <2> QED BY <1>3, <2>2, <2>3 DEF BootImplicitSession
<1> QED BY <1>1, <1>2, <1>3 DEF BeginProvision

LEMMA RequestsSdk ==
  ASSUME TypeOK, EntryTypes, BootInv, SdkInv, Requests
  PROVE  SdkInv'
<1>1. ASSUME NEW c \in Client, ProvisionSession(c) PROVE SdkInv'
  <2>1. pc' \in Serving /\ UNCHANGED <<pull, run>> BY <1>1 DEF ProvisionSession, Serving
  <2>2. CASE \E s \in Session : BeginSession(s)
    <3>1. sdk' = "none" => sdk = "none" BY <2>2 DEF BeginSession, LeaseAndBoot
    <3> QED BY <2>1, <2>2, <3>1, BeginSessionInert, ServingSdk DEF SdkInv
  <2>3. CASE UNCHANGED entryVars /\ LeaseAndBootFails
    BY <2>1, <2>3, InertKept, ServingSdk DEF LeaseAndBootFails, SdkInv
  <2> QED BY <1>1, <2>2, <2>3 DEF ProvisionSession
<1>2. ASSUME NEW c \in Client, NEW s \in Session, DeprovisionSession(c, s) PROVE SdkInv'
  <2>1. pc' \in Serving /\ sess[s] = "ready" /\ sdk' = sdk
    BY <1>2 DEF DeprovisionSession, Serving
  <2>2. sdk # "none" BY <2>1 DEF SdkInv, Inert, Owned
  <2> QED BY <2>1, <2>2, ServingSdk
<1>3. ASSUME NEW c \in Client, NEW names \in Session \cup {None}, Provision(c, names)
      PROVE  SdkInv'
  <2>1. [client |-> c, names |-> names] \in Request BY DEF Request
  <2>2. /\ pc' \in Serving /\ UNCHANGED execVars
        /\ BeginProvision([client |-> c, names |-> names])
    BY <1>3 DEF Provision, Serving
  <2>3. sdk' = "none" => sdk = "none"
    BY <2>2 DEF BeginProvision, ParkProvision, ProvisionFromStore, RefuseProvision,
                ProvisionByPull, BootImplicitSession, BeginSession, LeaseAndBoot,
                LeaseAndBootFails
  <2> QED BY <2>1, <2>2, <2>3, BeginProvisionInert, ServingSdk DEF SdkInv
<1>4. ASSUME NEW c \in Client, NEW b \in Sandbox, BeginExec(c, b) PROVE SdkInv'
  <2>1. pc' \in Serving /\ sdk' = "loaded" BY <1>4 DEF BeginExec, Serving
  <2> QED BY <2>1, ServingSdk
<1>5. ASSUME \/ \E w \in Work : Lifecycle(w)
             \/ \E b \in Sandbox : Retire(b)
      PROVE  SdkInv'
  <2>1. pc' \in Serving /\ UNCHANGED <<sess, boot, bootMsg, rel, pull, run, sdk>>
    BY <1>5 DEF Lifecycle, Retire, Serving
  <2> QED BY <2>1, InertKept, ServingSdk DEF SdkInv
<1>6. ASSUME Poll PROVE SdkInv'
  <2>1. /\ pc' \in Serving /\ UNCHANGED <<boot, bootMsg, rel, pull, run, sdk>>
        /\ sess' = [s \in Session |->
                     IF s \notin StuckBoots THEN sess[s]
                     ELSE IF lease[s] = None THEN "absent" ELSE "abandoned"]
    BY <1>6 DEF Poll, ReapStuckBoots, Serving
  <2>2. ASSUME Inert PROVE Inert'
    <3>1. ASSUME NEW s \in Session PROVE ~Owned(s)'
      <4>1. sess[s] \notin {"booting", "abandoned", "ready", "drained"}
        BY <2>2 DEF Inert, Owned
      <4>2. s \in StuckBoots => lease[s] = None BY <4>1 DEF StuckBoots, BootInv
      <4>3. sess'[s] \in {sess[s], "absent"} BY <2>1, <4>2
      <4> QED BY <2>1, <2>2, <4>1, <4>3 DEF Inert, Owned
    <3> QED BY <2>1, <2>2, <3>1 DEF Inert
  <2> QED BY <2>1, <2>2, ServingSdk DEF SdkInv
<1> QED BY <1>1, <1>2, <1>3, <1>4, <1>5, <1>6 DEF Requests

LEMMA ReportsSdk == ASSUME SdkInv, Reports PROVE SdkInv'
<1>1. ASSUME NEW s \in Session,
             SessionBooted(s) \/ SessionBootFailed(s) \/ SessionBootedAbandoned(s)
      PROVE  SdkInv'
  <2>1. pc' \in Serving /\ bootMsg[s] # "none" /\ sdk' = sdk
    BY <1>1 DEF SessionBooted, SessionBootFailed, SessionBootedAbandoned, Serving
  <2>2. sdk # "none" BY <2>1 DEF SdkInv, Inert, Owned
  <2> QED BY <2>1, <2>2, ServingSdk
<1>2. ASSUME \/ \E s \in Session : SessionReleased(s)
             \/ \E t \in Token : PullFinished(t) \/ PullExpired(t)
             \/ \E b \in Sandbox : ExecFinished(b)
      PROVE  SdkInv'
  <2>1. UNCHANGED <<sess, boot, bootMsg, rel, pull, run, sdk>>
    BY <1>2 DEF SessionReleased, PullFinished, PullExpired, RemoveProvision, ExecFinished,
                RetireExec
  <2>2. pc' \in Serving
    BY <1>2 DEF SessionReleased, PullFinished, PullExpired, ExecFinished, Serving
  <2> QED BY <2>1, <2>2, InertKept, ServingSdk DEF SdkInv
<1> QED BY <1>1, <1>2 DEF Reports

LEMMA RoundsSdk ==
  ASSUME TypeOK, EntryTypes, LoopTypes, LoopBusy, LiveInv, SdkInv, Rounds
  PROVE  SdkInv'
<1>1. ASSUME ReplayParked PROVE SdkInv'
  <2>1. Head(replay) \in Request BY SMT, <1>1 DEF ReplayParked, LoopBusy, LoopTypes
  <2>2. pc' \in Serving /\ UNCHANGED execVars /\ BeginProvision(Head(replay))
    BY <1>1 DEF ReplayParked, Serving
  <2>3. sdk' = "none" => sdk = "none"
    BY <2>2 DEF BeginProvision, ParkProvision, ProvisionFromStore, RefuseProvision,
                ProvisionByPull, BootImplicitSession, BeginSession, LeaseAndBoot,
                LeaseAndBootFails
  <2> QED BY <2>1, <2>2, <2>3, BeginProvisionInert, ServingSdk DEF SdkInv
<1>2. ASSUME RedoParked \/ DeferredBootsDone \/ ReapDone PROVE SdkInv'
  <2>1. pc' \in Serving /\ UNCHANGED <<sess, boot, bootMsg, rel, pull, run, sdk>>
    BY <1>2 DEF RedoParked, DeferredBootsDone, ReapDone, Serving
  <2> QED BY <2>1, InertKept, ServingSdk DEF SdkInv
<1>3. ASSUME NEW s \in Session, DeferredBoot(s) PROVE SdkInv'
  <2>1. pc' \in Serving /\ UNCHANGED <<pull, run>> BY <1>3 DEF DeferredBoot, Serving
  <2>2. CASE LeaseAndBoot(s) BY <2>1, <2>2, ServingSdk DEF LeaseAndBoot
  <2>3. CASE LeaseAndBootFails /\ FailSession(s)
    <3>1. /\ sess' = [sess EXCEPT ![s] = "absent"] /\ UNCHANGED threadVars
          /\ sdk' \in {sdk, "loaded"}
      BY <2>3 DEF LeaseAndBootFails, FailSession, RemovePending
    <3>2. sess'[s] = "absent" /\ \A x \in Session \ {s} : sess'[x] = sess[x]
      BY <3>1 DEF EntryTypes
    <3>3. Inert => Inert' BY <2>1, <3>1, <3>2 DEF Inert, Owned
    <3> QED BY <2>1, <3>1, <3>3, ServingSdk DEF SdkInv
  <2> QED BY <1>3, <2>2, <2>3 DEF DeferredBoot
<1>4. ASSUME NEW s \in Session, ReapIdleSession(s) PROVE SdkInv'
  <2>1. pc = "reap" /\ pc' \in Serving /\ s \in expired /\ sdk' = sdk
    BY <1>4 DEF ReapIdleSession, Serving
  <2>2. sess[s] = "ready" BY <2>1 DEF LiveInv, Backed
  <2>3. sdk # "none" BY <2>2 DEF SdkInv, Inert, Owned
  <2> QED BY <2>1, <2>3, ServingSdk
<1> QED BY <1>1, <1>2, <1>3, <1>4 DEF Rounds

LEMMA ThreadsSdk ==
  ASSUME TypeOK, ThreadTypes, ProvTypes, ExecTypes, SdkInv, Threads
  PROVE  SdkInv'
<1>1. ASSUME NEW s \in Session,
             \/ \E outcome \in {"up", "failed", "stuck"} : BootFinishes(s, outcome)
             \/ BootThreadExits(s)
      PROVE  SdkInv'
  <2>1. /\ boot[s] # "idle" /\ UNCHANGED <<sess, rel, pull, run, sdk, pc, abandon>>
    BY <1>1 DEF BootFinishes, BootThreadExits
  <2>2. CASE BootThreadExits(s)
    <3>1. boot' = [boot EXCEPT ![s] = "idle"] /\ bootMsg' = bootMsg
      BY <2>2 DEF BootThreadExits
    <3>2. boot'[s] = "idle" /\ \A x \in Session \ {s} : boot'[x] = boot[x]
      BY <3>1 DEF ThreadTypes
    <3>3. Inert => Inert' BY <2>1, <3>1, <3>2 DEF Inert, Owned
    <3> QED BY <2>1, <3>1, <3>2, <3>3 DEF SdkInv, PendingSessions
  <2>3. CASE \E outcome \in {"up", "failed", "stuck"} : BootFinishes(s, outcome)
    <3>1. boot[s] = "running" BY <2>3 DEF BootFinishes
    <3>2. sdk # "none" BY <3>1 DEF SdkInv, Inert, Owned
    <3>3. pc \in Late => abandon BY <2>1 DEF SdkInv
    <3> QED BY <2>1, <3>2, <3>3 DEF SdkInv, PendingSessions
  <2> QED BY <1>1, <2>2, <2>3
<1>2. ASSUME NEW s \in Session,
             \/ ReleaseStops(s) \/ ReleaseReturnsSlot(s) \/ ReleaseFails(s)
             \/ ReleaseReports(s) \/ ReleaseThreadExits(s)
      PROVE  SdkInv'
  <2>1. /\ UNCHANGED <<sess, boot, bootMsg, pull, run, sdk, pc, abandon>>
    BY <1>2 DEF ReleaseStops, ReleaseReturnsSlot, ReleaseFails, ReleaseReports,
                ReleaseThreadExits
  <2>2. CASE ReleaseThreadExits(s)
    <3>1. rel' = [rel EXCEPT ![s] = "idle"] BY <2>2 DEF ReleaseThreadExits
    <3>2. rel'[s] = "idle" /\ \A x \in Session \ {s} : rel'[x] = rel[x]
      BY <3>1 DEF ThreadTypes
    <3>3. Inert => Inert' BY <2>1, <3>1, <3>2 DEF Inert, Owned
    <3> QED BY <2>1, <3>3 DEF SdkInv, PendingSessions
  <2>3. CASE ~ReleaseThreadExits(s)
    <3>1. rel[s] \notin {"idle", "sent"}
      BY <1>2, <2>3 DEF ReleaseStops, ReleaseReturnsSlot, ReleaseFails, ReleaseReports
    <3>2. sdk # "none" BY <3>1 DEF SdkInv, Inert
    <3> QED BY <2>1, <3>2 DEF SdkInv, PendingSessions
  <2> QED BY <2>2, <2>3
<1>3. ASSUME \/ \E t \in Token : \E outcome \in {"ok", "failed"} : PullFinishes(t, outcome)
             \/ \E b \in Sandbox : \E report \in {"finished", "unconfirmed"} :
                  RunFinishes(b, report)
      PROVE  SdkInv'
  <2>1. UNCHANGED <<sess, boot, bootMsg, sdk, pc, abandon>>
    BY <1>3 DEF PullFinishes, RunFinishes
  <2>2. sdk # "none" BY <1>3 DEF PullFinishes, RunFinishes, SdkInv, Inert
  <2> QED BY <2>1, <2>2 DEF SdkInv, PendingSessions
<1>4. ASSUME NEW t \in Token, PullThreadExits(t) PROVE SdkInv'
  <2>1. /\ UNCHANGED <<sess, boot, bootMsg, rel, run, sdk, pc, abandon>>
        /\ pull' = [pull EXCEPT ![t] = NoPull]
    BY <1>4 DEF PullThreadExits
  <2>2. pull'[t].at # "running" /\ \A x \in Token \ {t} : pull'[x] = pull[x]
    BY SMT, <2>1 DEF ProvTypes, NoPull
  <2>3. Inert => Inert' BY <2>1, <2>2 DEF Inert, Owned
  <2> QED BY <2>1, <2>3 DEF SdkInv, PendingSessions
<1>5. ASSUME NEW b \in Sandbox, RunThreadExits(b) PROVE SdkInv'
  <2>1. UNCHANGED <<sess, boot, bootMsg, rel, pull, run, sdk, pc, abandon>>
    BY <1>5 DEF RunThreadExits
  <2> QED BY <2>1, InertKept DEF SdkInv, PendingSessions
<1> QED BY <1>1, <1>2, <1>3, <1>4, <1>5 DEF Threads

\* The worker stops or is unwound: only what becomes of the SDK is left.
LEMMA StoppedSdk ==
  ASSUME pc' \notin Late, sdk' = "none" => Inert' PROVE SdkInv'
BY DEF SdkInv, Late

LEMMA EndingSdk ==
  ASSUME TypeOK, EntryTypes, ThreadTypes, BootInv, RunInv, LiveInv, HoldInv, SdkInv, Ending
  PROVE  SdkInv'
<1>1. ASSUME \/ Shutdown \/ ExecsDrained \/ CollectDone \/ BootsDrained
             \/ \E b \in Sandbox : CollectExec(b)
      PROVE  SdkInv'
  <2>1. pc' \notin Late /\ UNCHANGED <<sess, boot, bootMsg, rel, pull, run, sdk>>
    BY <1>1 DEF Shutdown, ExecsDrained, CollectDone, BootsDrained, CollectExec, RetireExec, Late
  <2> QED BY <2>1, InertKept, StoppedSdk DEF SdkInv
<1>2. ASSUME SessionsDrained \/ AllReleasesStarted PROVE SdkInv'
  <2>1. /\ UNCHANGED <<sess, boot, bootMsg, rel, pull, run, sdk, abandon>> /\ pc \in Late
        /\ pc' = "drainReleases" => \A s \in Session : sess[s] # "drained"
    BY <1>2 DEF SessionsDrained, AllReleasesStarted, Late
  <2> QED BY <2>1, InertKept DEF SdkInv, PendingSessions
<1>3. ASSUME ExecDrainTimesOut PROVE SdkInv'
  <2>1. /\ pc' \notin Late /\ UNCHANGED <<boot, bootMsg, rel, pull, run>>
        /\ sess' = [s \in Session |-> "absent"] /\ (sdk' = "none" => sdk = "none")
    BY <1>3 DEF ExecDrainTimesOut, Late
  <2>2. \A s \in Session : sess'[s] = "absent" BY <2>1
  <2>3. Inert => Inert' BY <2>1, <2>2 DEF Inert, Owned
  <2> QED BY <2>1, <2>3, StoppedSdk DEF SdkInv
<1>4. ASSUME NEW s \in Session, CollectBoot(s) \/ CollectLateBoot(s) PROVE SdkInv'
  <2>1. pc' \notin Late /\ bootMsg[s] # "none" /\ sdk' = sdk
    BY <1>4 DEF CollectBoot, CollectLateBoot, ReleaseBootedDuringShutdown, Late
  <2>2. sdk # "none" BY <2>1 DEF SdkInv, Inert, Owned
  <2> QED BY <2>1, <2>2, StoppedSdk
<1>5. ASSUME BootDrainTimesOut \/ LateBootsDone PROVE SdkInv'
  <2>1. /\ pc' = "drainPulls" /\ UNCHANGED <<boot, bootMsg, rel, pull, run, sdk>>
        /\ sess' = [s \in Session |-> IF s \in PendingSessions THEN "absent" ELSE sess[s]]
    BY <1>5 DEF BootDrainTimesOut, LateBootsDone
  <2>2. \A s \in Session : sess'[s] = IF s \in PendingSessions THEN "absent" ELSE sess[s]
    BY <2>1
  <2>3. Inert => Inert' BY <2>1, <2>2 DEF Inert, Owned
  <2>4. \A s \in Session : s \notin PendingSessions' BY <2>2 DEF PendingSessions
  <2>5. ASSUME ~abandon', NEW s \in Session PROVE boot[s] = "idle" /\ bootMsg[s] = "none"
    <3>1. LateBootsDone BY <1>5, <2>5 DEF BootDrainTimesOut
    <3>2. pc = "collectBoots" /\ \A x \in PendingSessions : bootMsg[x] = "none"
      BY <3>1 DEF LateBootsDone
    <3>3. boot[s] = "idle" BY <3>2 DEF BootInv
    <3>4. bootMsg[s] # "none" => s \in PendingSessions
      BY <3>2 DEF LiveInv, Backed, Unfinished, PendingSessions
    <3> QED BY <3>2, <3>3, <3>4
  <2> QED BY <2>1, <2>3, <2>4, <2>5 DEF SdkInv
<1>6. ASSUME NEW s \in Session, SessionDrained(s) \/ ReleaseDuringShutdown(s) PROVE SdkInv'
  <2>1. /\ pc \in Late /\ pc' = pc /\ pc # "drainReleases" /\ UNCHANGED <<boot, bootMsg, sdk>>
        /\ sess[s] \in {"ready", "drained"} /\ abandon' \in {abandon, TRUE}
        /\ \E e \in {"drained", "absent"} : sess' = [sess EXCEPT ![s] = e]
    BY <1>6 DEF SessionDrained, ReleaseDuringShutdown, Late
  <2>2. sess'[s] \in {"drained", "absent"} /\ \A x \in Session \ {s} : sess'[x] = sess[x]
    BY <2>1 DEF EntryTypes
  <2>3. sdk # "none" BY <2>1 DEF SdkInv, Inert, Owned
  <2>4. \A x \in Session : x \notin PendingSessions' BY <2>1, <2>2 DEF SdkInv, PendingSessions
  <2> QED BY <2>1, <2>3, <2>4, MoreAbandoned DEF SdkInv
<1>7. ASSUME UnloadSdk PROVE SdkInv'
  <2>1. /\ pc = "drainReleases" /\ pc' = "stopped"
        /\ UNCHANGED <<sess, boot, bootMsg, rel, pull, run>>
        /\ sdk' = IF sdk = "none" THEN "none"
                  ELSE IF abandon \/ ReleasesInFlight # {} THEN "leaked" ELSE "none"
    BY <1>7 DEF UnloadSdk
  <2>2. ASSUME ~abandon, ReleasesInFlight = {} PROVE Inert
    <3>1. ASSUME NEW s \in Session PROVE ~Owned(s) /\ rel[s] = "idle"
      BY <2>1, <2>2 DEF SdkInv, HoldInv, Late, PendingSessions, Owned, ReleasesInFlight
    <3>2. \A t \in Token : pull[t].at # "running"
      <4>1. ASSUME NEW t \in Token, pull[t].at = "running" PROVE FALSE
        <5>1. pull[t].session \in Session BY <4>1, TypeParts, RunningPull
        <5>2. pc \in Teardown BY <2>1 DEF Teardown
        <5>3. sess[pull[t].session] = "ready" BY <2>2, <4>1, <5>2 DEF HoldInv
        <5> QED BY <2>1, <5>1, <5>3 DEF HoldInv
      <4> QED BY <4>1
    <3>3. \A b \in Sandbox : run[b] = "idle" BY <2>1 DEF RunInv, Drained, Teardown
    <3> QED BY <3>1, <3>2, <3>3 DEF Inert
  <2>3. pc' \notin Late BY <2>1 DEF Late
  <2>4. CASE sdk = "none" BY <2>1, <2>3, <2>4, InertKept, StoppedSdk DEF SdkInv
  <2>5. CASE ~abandon /\ ReleasesInFlight = {} BY <2>1, <2>2, <2>3, <2>5, InertKept, StoppedSdk
  <2>6. CASE sdk # "none" /\ (abandon \/ ReleasesInFlight # {})
    <3>1. sdk' = "leaked" BY <2>1, <2>6
    <3> QED BY <2>3, <3>1, StoppedSdk
  <2> QED BY <2>4, <2>5, <2>6
<1>8. ASSUME Unwind PROVE SdkInv'
  <2>1. /\ pc \in Serving /\ pc' \notin Late /\ UNCHANGED <<boot, bootMsg, rel, pull, run>>
        /\ sess' = [s \in Session |-> "absent"] /\ (Borrowed /\ sdk' = "none" => sdk = "none")
    BY <1>8 DEF Unwind, Late
  <2>2. \A s \in Session : sess'[s] = "absent" BY <2>1
  <2>3. Inert => Inert' BY <2>1, <2>2 DEF Inert, Owned
  <2>4. ASSUME ~Borrowed PROVE Inert'
    <3>1. ASSUME NEW s \in Session PROVE ~Owned(s)' /\ rel'[s] = "idle"
      <4>1. boot[s] = "idle" /\ rel[s] = "idle" /\ s \notin PendingSessions
        BY <2>4 DEF Borrowed, SessionsInFlight, ReleasesInFlight
      <4>2. bootMsg[s] = "none"
        BY <2>1, <4>1 DEF LiveInv, Backed, Unfinished, PendingSessions
      <4> QED BY <2>1, <2>2, <4>1, <4>2 DEF Owned
    <3>2. \A t \in Token : pull'[t].at # "running" BY <2>1, <2>4 DEF Borrowed
    <3>3. \A b \in Sandbox : run'[b] = "idle" BY <2>1, <2>4 DEF Borrowed, ExecsInFlight
    <3> QED BY <3>1, <3>2, <3>3 DEF Inert
  <2> QED BY <2>1, <2>3, <2>4, StoppedSdk DEF SdkInv
<1> QED BY <1>1, <1>2, <1>3, <1>4, <1>5, <1>6, <1>7, <1>8 DEF Ending

LEMMA SdkInvHolds == Spec => []SdkInv
<1>1. Init => SdkInv
  <2> SUFFICES ASSUME Init PROVE SdkInv OBVIOUS
  <2>1. /\ \A s \in Session : sess[s] = "absent" /\ boot[s] = "idle" /\ bootMsg[s] = "none"
                              /\ rel[s] = "idle"
        /\ \A t \in Token : pull[t].at # "running"
        /\ \A b \in Sandbox : run[b] = "idle"
        /\ pc = "serve"
    BY DEF Init, NoPull
  <2> QED BY <2>1 DEF SdkInv, Inert, Owned, Late
<1>2. TInv /\ SlotInv /\ RunInv /\ LiveInv /\ HoldInv /\ SdkInv /\ [Next]_vars => SdkInv'
  <2> SUFFICES ASSUME TInv, SlotInv, RunInv, LiveInv, HoldInv, SdkInv, [Next]_vars
               PROVE  SdkInv'
    OBVIOUS
  <2>0. /\ TypeOK /\ LoopBusy /\ BootInv /\ EntryTypes /\ ThreadTypes /\ ProvTypes /\ ExecTypes
        /\ LoopTypes
    BY TypeParts DEF TInv, SlotInv
  <2>1. CASE UNCHANGED vars BY <2>1, InertKept DEF SdkInv, PendingSessions
  <2>2. CASE Time
    <3>1. UNCHANGED <<sess, boot, bootMsg, rel, pull, run, sdk, pc, abandon>>
      BY <2>2 DEF Time, BootDeadlineElapses, ReleaseWaitElapses, GraceElapses, PullDeadlineElapses
    <3> QED BY <3>1, InertKept DEF SdkInv, PendingSessions
  <2> QED BY <2>0, <2>1, <2>2, RequestsSdk, ReportsSdk, RoundsSdk, ThreadsSdk, EndingSdk DEF Next
<1> QED BY <1>1, <1>2, TypeInvHolds, SlotInvHolds, RunInvHolds, LiveInvHolds, HoldInvHolds, PTL
        DEF Spec

\* The SDK is unloaded only when no thread can still call into it and no queued
\* report owns a handle (Worker::shutdown, Worker::abandon_if_borrowed).
THEOREM SdkIsLastToGo == Spec => []SdkOutlivesBorrowers
<1>1. SdkInv => SdkOutlivesBorrowers
  BY DEF SdkInv, Inert, Owned, SdkOutlivesBorrowers
<1> QED BY <1>1, SdkInvHolds, PTL
-----------------------------------------------------------------------------
(* Replays.                                                                *)

\* What is parked behind the boot of s will look for s again.
Parks(s) ==
  \A i \in DOMAIN parked[s] :
    sess[s] \in {"waiting", "booting"} /\ EnsureSession(parked[s][i].names) = s

ReplayInv ==
  /\ \A s \in Session : Parks(s)
  /\ pc \notin Serving => \A s \in Session : parked[s] = <<>>
  /\ pc # "replay" => replay = <<>>
  /\ ReplayFindsSession

LEMMA NothingIn == DOMAIN << >> = {}
BY SMT

LEMMA ParksKept ==
  ASSUME NEW s \in Session, Parks(s), parked'[s] = parked[s],
         sess[s] \in {"waiting", "booting"} =>
           sess'[s] \in {"waiting", "booting"} /\ (default = s => default' = s)
  PROVE  Parks(s)'
BY DEF Parks, EnsureSession

LEMMA NoneParks == ASSUME NEW s \in Session, parked'[s] = <<>> PROVE Parks(s)'
BY NothingIn DEF Parks

LEMMA ServingReplays ==
  ASSUME pc' \in Serving, replay' = <<>>, \A s \in Session : Parks(s)' PROVE ReplayInv'
BY NothingIn DEF ReplayInv, ReplayFindsSession

LEMMA EndReplays ==
  ASSUME replay' = <<>>, \A s \in Session : parked'[s] = <<>> PROVE ReplayInv'
BY NothingIn, NoneParks DEF ReplayInv, ReplayFindsSession

LEMMA ReplayUntouched ==
  ASSUME ReplayInv, UNCHANGED <<sess, parked, default, replay>>,
         pc' = pc \/ (pc \in Serving \ {"replay"} /\ pc' \in Serving \ {"replay"})
  PROVE  ReplayInv'
<1>1. \A s \in Session : Parks(s)' BY ParksKept DEF ReplayInv
<1>2. ReplayFindsSession' BY DEF ReplayInv, EnsureSession, ReplayFindsSession, IsReady
<1> QED BY <1>1, <1>2 DEF ReplayInv

\* The entry of s leaves the map, and takes the implicit session's id along.
LEMMA EntryLeavesReplays ==
  ASSUME EntryTypes, ReplayInv, pc' \in Serving, replay' = <<>>, NEW s \in Session,
         NEW e, sess' = [sess EXCEPT ![s] = e],
         default' = (IF default = s THEN None ELSE default),
         \/ parked' = [parked EXCEPT ![s] = <<>>]
         \/ parked' = parked /\ sess[s] = "ready"
  PROVE  ReplayInv'
<1>1. ASSUME NEW x \in Session \ {s} PROVE Parks(x)'
  <2>1. sess'[x] = sess[x] /\ parked'[x] = parked[x] BY DEF EntryTypes
  <2>2. default = x => default' = x OBVIOUS
  <2> QED BY <2>1, <2>2, ParksKept DEF ReplayInv
<1>2. CASE parked' = [parked EXCEPT ![s] = <<>>]
  <2>1. parked'[s] = <<>> BY <1>2 DEF EntryTypes
  <2> QED BY <1>1, <2>1, NoneParks, ServingReplays
<1>3. CASE parked' = parked /\ sess[s] = "ready"
  <2>1. Parks(s)' BY <1>3, ParksKept DEF ReplayInv
  <2> QED BY <1>1, <2>1, ServingReplays
<1> QED BY <1>2, <1>3

LEMMA BeginSessionReplays ==
  ASSUME EntryTypes, ReplayInv, pc \in Serving, pc # "replay", pc' \in Serving, replay' = replay,
         NEW s \in Session, BeginSession(s),
         \A x \in Session : x # s =>
           parked'[x] = parked[x] /\ (sess[x] \in {"waiting", "booting"} /\ default = x => default' = x),
         parked'[s] = parked[s] \/ Parks(s)'
  PROVE  ReplayInv'
<1>1. /\ sess[s] = "absent" /\ s # default
      /\ \A x \in Session \ {s} : sess'[x] = sess[x]
  BY DEF BeginSession, FreshSession, EntryTypes
<1>2. ASSUME NEW x \in Session PROVE Parks(x)'
  <2>1. CASE x = s BY <1>1, <2>1, ParksKept DEF ReplayInv
  <2>2. CASE x # s BY <1>1, <2>2, ParksKept DEF ReplayInv
  <2> QED BY <2>1, <2>2
<1>3. replay' = <<>> BY DEF ReplayInv
<1> QED BY <1>2, <1>3, ServingReplays

\* A provision parks behind the boot it looked for.
LEMMA ParkReplays ==
  ASSUME EntryTypes, ReplayInv, pc' \in Serving, replay' = <<>>,
         NEW req \in Request, NEW r \in Session, r = EnsureSession(req.names),
         sess[r] \in {"waiting", "booting"}, UNCHANGED <<sess, default>>,
         parked' = [parked EXCEPT ![r] = Append(parked[r], req)]
  PROVE  ReplayInv'
<1>1. /\ parked'[r] = Append(parked[r], req) /\ parked[r] \in Seq(Request)
      /\ \A x \in Session \ {r} : parked'[x] = parked[x]
  BY DEF EntryTypes
<1>2. \A i \in DOMAIN parked'[r] :
        parked'[r][i] = req \/ (i \in DOMAIN parked[r] /\ parked'[r][i] = parked[r][i])
  BY SMT, <1>1
<1>3. Parks(r) BY DEF ReplayInv
<1>4. Parks(r)'
  <2> SUFFICES ASSUME NEW i \in DOMAIN parked'[r]
               PROVE  /\ sess'[r] \in {"waiting", "booting"}
                      /\ EnsureSession(parked[r][i].names)' = r
    BY DEF Parks
  <2>1. CASE parked'[r][i] = req
    <3>1. (IF req.names # None THEN req.names ELSE default) = r BY DEF EnsureSession
    <3>2. (IF req.names # None THEN req.names ELSE default') = r BY <3>1
    <3> QED BY <2>1, <3>2 DEF EnsureSession
  <2>2. CASE i \in DOMAIN parked[r] /\ parked'[r][i] = parked[r][i]
    <3>1. EnsureSession(parked[r][i].names) = r BY <1>3, <2>2 DEF Parks
    <3> QED BY <2>2, <3>1 DEF EnsureSession
  <2> QED BY <1>2, <2>1, <2>2
<1>5. \A x \in Session \ {r} : Parks(x)' BY <1>1, ParksKept DEF ReplayInv
<1> QED BY <1>4, <1>5, ServingReplays

LEMMA BeginProvisionReplays ==
  ASSUME EntryTypes, ReplayInv, pc \in Serving, pc # "replay", pc' \in Serving, replay' = replay,
         NEW req \in Request, BeginProvision(req)
  PROVE  ReplayInv'
<1>0. replay' = <<>> BY DEF ReplayInv
<1>1. CASE ParkProvision(req)
  <2>1. PICK r : r = EnsureSession(req.names) OBVIOUS
  <2>2. /\ r # None /\ sess[r] \in {"waiting", "booting"} /\ UNCHANGED <<sess, default>>
        /\ parked' = [parked EXCEPT ![r] = Append(parked[r], req)]
    BY <1>1, <2>1 DEF ParkProvision, IsBooting
  <2>3. r \in Session BY <2>1, <2>2 DEF EnsureSession, Request, EntryTypes
  <2> QED BY <1>0, <2>1, <2>2, <2>3, ParkReplays
<1>2. CASE BootImplicitSession(req)
  <2>1. req.names = None /\ ~IsReady(default) /\ ~IsBooting(default)
    BY <1>2 DEF BootImplicitSession, EnsureSession
  <2>2. ASSUME NEW fresh \in Session, BeginSession(fresh), default' = fresh,
               parked' = [parked EXCEPT ![fresh] = <<req>>]
        PROVE  ReplayInv'
    <3>1. /\ parked'[fresh] = <<req>> /\ \A x \in Session \ {fresh} : parked'[x] = parked[x]
          /\ sess'[fresh] \in {"waiting", "booting"}
      BY <2>2 DEF EntryTypes, BeginSession
    <3>2. \A i \in DOMAIN <<req>> : <<req>>[i] = req BY SMT
    <3>3. Parks(fresh)' BY <2>1, <2>2, <3>1, <3>2 DEF Parks, EnsureSession
    <3>4. \A x \in Session : x # fresh =>
            parked'[x] = parked[x] /\ (sess[x] \in {"waiting", "booting"} /\ default = x => default' = x)
      BY <2>1, <3>1, NoneAssumption DEF IsBooting
    <3> QED BY <2>2, <3>3, <3>4, BeginSessionReplays
  <2>3. CASE UNCHANGED entryVars BY <1>0, <2>3, ParksKept, ServingReplays DEF ReplayInv
  <2> QED BY <1>2, <2>2, <2>3 DEF BootImplicitSession
<1>3. CASE ProvisionFromStore(req) \/ ProvisionByPull(req) \/ RefuseProvision(req)
  <2>1. UNCHANGED <<sess, parked, default>>
    BY <1>3 DEF ProvisionFromStore, ProvisionByPull, RefuseProvision
  <2> QED BY <1>0, <2>1, ParksKept, ServingReplays DEF ReplayInv
<1> QED BY <1>1, <1>2, <1>3 DEF BeginProvision

LEMMA RequestsReplays ==
  ASSUME TypeOK, EntryTypes, ReplayInv, Requests
  PROVE  ReplayInv'
<1>1. ASSUME NEW c \in Client, ProvisionSession(c) PROVE ReplayInv'
  <2>1. pc = "serve" /\ pc' = pc /\ replay' = replay BY <1>1 DEF ProvisionSession
  <2>2. ASSUME NEW s \in Session, BeginSession(s), UNCHANGED <<parked, default>> PROVE ReplayInv'
    BY <2>1, <2>2, BeginSessionReplays, ServingPhases
  <2>3. CASE UNCHANGED entryVars BY <2>1, <2>3, ReplayUntouched
  <2> QED BY <1>1, <2>2, <2>3 DEF ProvisionSession
<1>2. ASSUME NEW c \in Client, NEW s \in Session, DeprovisionSession(c, s) PROVE ReplayInv'
  <2>1. /\ pc = "serve" /\ pc' = pc /\ replay' = replay /\ sess[s] = "ready" /\ default # s
        /\ UNCHANGED <<parked, default>>
        /\ sess' = sess \/ sess' = [sess EXCEPT ![s] = "absent"]
    BY <1>2 DEF DeprovisionSession, ReleaseSessionEntry, ReleaseSessionEntryFails
  <2>2. replay' = <<>> BY <2>1 DEF ReplayInv
  <2>3. CASE sess' = sess BY <2>1, <2>3, ReplayUntouched
  <2>4. CASE sess' = [sess EXCEPT ![s] = "absent"]
    BY <2>1, <2>2, <2>4, EntryLeavesReplays, ServingPhases
  <2> QED BY <2>1, <2>3, <2>4
<1>3. ASSUME NEW c \in Client, NEW names \in Session \cup {None}, Provision(c, names)
      PROVE  ReplayInv'
  <2>1. [client |-> c, names |-> names] \in Request BY DEF Request
  <2>2. /\ pc = "serve" /\ pc' = pc /\ replay' = replay
        /\ BeginProvision([client |-> c, names |-> names])
    BY <1>3 DEF Provision
  <2> QED BY <2>1, <2>2, BeginProvisionReplays, ServingPhases
<1>4. ASSUME \/ \E c \in Client : \E b \in Sandbox : BeginExec(c, b)
             \/ \E w \in Work : Lifecycle(w)
             \/ \E b \in Sandbox : Retire(b)
      PROVE  ReplayInv'
  <2>1. UNCHANGED <<sess, parked, default, replay, pc>>
    BY <1>4 DEF BeginExec, Lifecycle, Retire
  <2> QED BY <2>1, ReplayUntouched
<1>5. ASSUME Poll PROVE ReplayInv'
  <2>1. /\ pc = "serve" /\ pc' = "reap" /\ replay' = replay
        /\ \A s \in Session : s \notin StuckBoots => sess'[s] = sess[s] /\ parked'[s] = parked[s]
        /\ \A s \in Session : s \in StuckBoots => parked'[s] = <<>>
        /\ default' = IF default \in StuckBoots THEN None ELSE default
    BY <1>5 DEF Poll, ReapStuckBoots
  <2>2. replay' = <<>> BY <2>1 DEF ReplayInv
  <2>3. ASSUME NEW s \in Session PROVE Parks(s)'
    <3>1. CASE s \in StuckBoots BY <2>1, <3>1, NoneParks
    <3>2. CASE s \notin StuckBoots
      <4>1. default = s => default' = s BY <2>1, <3>2
      <4> QED BY <2>1, <3>2, <4>1, ParksKept DEF ReplayInv
    <3> QED BY <3>1, <3>2
  <2> QED BY <2>1, <2>2, <2>3, ServingReplays, ServingPhases
<1> QED BY <1>1, <1>2, <1>3, <1>4, <1>5 DEF Requests

LEMMA ReportsReplays ==
  ASSUME TypeOK, EntryTypes, ReplayInv, Reports
  PROVE  ReplayInv'
<1>1. ASSUME NEW s \in Session, SessionBooted(s) PROVE ReplayInv'
  <2>1. /\ pc = "serve" /\ replay' = parked[s] /\ UNCHANGED default
        /\ sess' = [sess EXCEPT ![s] = "ready"] /\ parked' = [parked EXCEPT ![s] = <<>>]
        /\ pc' = IF parked[s] = <<>> THEN "serve" ELSE "replay"
    BY <1>1 DEF SessionBooted, RemovePending
  <2>2. /\ sess'[s] = "ready" /\ parked'[s] = <<>>
        /\ \A x \in Session \ {s} : sess'[x] = sess[x] /\ parked'[x] = parked[x]
    BY <2>1 DEF EntryTypes
  <2>3. ASSUME NEW x \in Session PROVE Parks(x)'
    <3>1. CASE x = s BY <2>2, <3>1, NoneParks
    <3>2. CASE x # s BY <2>1, <2>2, <3>2, ParksKept DEF ReplayInv
    <3> QED BY <3>1, <3>2
  <2>4. ReplayFindsSession'
    <3> SUFFICES ASSUME NEW i \in DOMAIN replay'
                 PROVE  IsReady(EnsureSession(replay[i].names))'
      BY DEF ReplayFindsSession
    <3>1. EnsureSession(parked[s][i].names) = s BY <2>1 DEF ReplayInv, Parks
    <3> QED BY <2>1, <2>2, <3>1, NoneAssumption DEF EnsureSession, IsReady
  <2>5. pc' \in Serving /\ (pc' # "replay" => replay' = <<>>) BY <2>1, ServingPhases
  <2> QED BY <2>3, <2>4, <2>5 DEF ReplayInv
<1>2. ASSUME NEW s \in Session, SessionBootFailed(s) PROVE ReplayInv'
  <2>1. /\ pc = "serve" /\ pc' = pc /\ replay' = replay
        /\ sess' = [sess EXCEPT ![s] = "absent"] /\ parked' = [parked EXCEPT ![s] = <<>>]
        /\ default' = IF default = s THEN None ELSE default
    BY <1>2 DEF SessionBootFailed, FailSession, RemovePending
  <2>2. replay' = <<>> BY <2>1 DEF ReplayInv
  <2> QED BY <2>1, <2>2, EntryLeavesReplays, ServingPhases
<1>3. ASSUME NEW s \in Session, SessionBootedAbandoned(s) PROVE ReplayInv'
  <2>1. /\ pc = "serve" /\ pc' = pc /\ replay' = replay /\ UNCHANGED default
        /\ sess' = [sess EXCEPT ![s] = "absent"] /\ parked' = [parked EXCEPT ![s] = <<>>]
    BY <1>3 DEF SessionBootedAbandoned, RemovePending
  <2>2. replay' = <<>> BY <2>1 DEF ReplayInv
  <2>3. /\ parked'[s] = <<>>
        /\ \A x \in Session \ {s} : sess'[x] = sess[x] /\ parked'[x] = parked[x]
    BY <2>1 DEF EntryTypes
  <2>4. ASSUME NEW x \in Session PROVE Parks(x)'
    <3>1. CASE x = s BY <2>3, <3>1, NoneParks
    <3>2. CASE x # s BY <2>1, <2>3, <3>2, ParksKept DEF ReplayInv
    <3> QED BY <3>1, <3>2
  <2> QED BY <2>1, <2>2, <2>4, ServingReplays, ServingPhases
<1>4. ASSUME \/ \E s \in Session : SessionReleased(s)
             \/ \E t \in Token : PullFinished(t) \/ PullExpired(t)
             \/ \E b \in Sandbox : ExecFinished(b)
      PROVE  ReplayInv'
  <2>1. /\ UNCHANGED <<sess, parked, default, replay>>
        /\ pc = "serve" /\ pc' \in {"serve", "defer", "redo"}
    BY <1>4 DEF SessionReleased, PullFinished, PullExpired, ExecFinished
  <2> QED BY <2>1, ReplayUntouched, ServingPhases
<1> QED BY <1>1, <1>2, <1>3, <1>4 DEF Reports

LEMMA RoundsReplays ==
  ASSUME TypeOK, EntryTypes, LoopTypes, LoopBusy, LiveInv, ReplayInv, Rounds
  PROVE  ReplayInv'
<1>1. ASSUME ReplayParked PROVE ReplayInv'
  <2>1. /\ pc = "replay" /\ replay' = Tail(replay) /\ BeginProvision(Head(replay))
        /\ pc' = IF Tail(replay) = <<>> THEN "serve" ELSE "replay"
    BY <1>1 DEF ReplayParked
  <2>2. /\ 1 \in DOMAIN replay /\ Head(replay) = replay[1]
        /\ \A i \in DOMAIN Tail(replay) : \E j \in DOMAIN replay : Tail(replay)[i] = replay[j]
    <3>1. replay \in Seq(Request) /\ replay # <<>> BY <2>1 DEF LoopTypes, LoopBusy
    <3>2. /\ 1 \in DOMAIN replay /\ Head(replay) = replay[1]
          /\ \A i \in DOMAIN Tail(replay) : i + 1 \in DOMAIN replay /\ Tail(replay)[i] = replay[i + 1]
      BY SMT, <3>1
    <3> QED BY <3>2
  <2>3. IsReady(EnsureSession(Head(replay).names)) BY <2>2 DEF ReplayInv, ReplayFindsSession
  <2>4. UNCHANGED <<sess, parked, default>>
    BY <2>1, <2>3 DEF BeginProvision, ParkProvision, BootImplicitSession, ProvisionFromStore,
                      ProvisionByPull, RefuseProvision, IsReady, IsBooting
  <2>5. \A s \in Session : Parks(s)' BY <2>4, ParksKept DEF ReplayInv
  <2>6. ReplayFindsSession'
    BY <2>1, <2>2, <2>4 DEF ReplayInv, ReplayFindsSession, IsReady, EnsureSession
  <2>7. pc' \in Serving /\ (pc' # "replay" => replay' = <<>>) BY <2>1, ServingPhases
  <2> QED BY <2>5, <2>6, <2>7 DEF ReplayInv
<1>2. ASSUME RedoParked \/ DeferredBootsDone \/ ReapDone PROVE ReplayInv'
  <2>1. /\ UNCHANGED <<sess, parked, default, replay>>
        /\ pc \in {"redo", "defer", "reap"} /\ pc' \in {"redo", "serve", "defer"}
    BY <1>2 DEF RedoParked, DeferredBootsDone, ReapDone
  <2> QED BY <2>1, ReplayUntouched, ServingPhases
<1>3. ASSUME NEW s \in Session, DeferredBoot(s) PROVE ReplayInv'
  <2>1. pc = "defer" /\ pc' = pc /\ replay' = replay BY <1>3 DEF DeferredBoot
  <2>2. replay' = <<>> BY <2>1 DEF ReplayInv
  <2>3. CASE sess' = [sess EXCEPT ![s] = "booting"] /\ UNCHANGED <<parked, default>>
    <3>1. sess'[s] = "booting" /\ \A x \in Session \ {s} : sess'[x] = sess[x]
      BY <2>3 DEF EntryTypes
    <3>2. \A x \in Session : Parks(x)' BY <2>3, <3>1, ParksKept DEF ReplayInv
    <3> QED BY <2>1, <2>2, <3>2, ServingReplays, ServingPhases
  <2>4. CASE FailSession(s)
    BY <2>1, <2>2, <2>4, EntryLeavesReplays, ServingPhases DEF FailSession, RemovePending
  <2> QED BY <1>3, <2>3, <2>4 DEF DeferredBoot
<1>4. ASSUME NEW s \in Session, ReapIdleSession(s) PROVE ReplayInv'
  <2>1. /\ pc = "reap" /\ pc' = pc /\ replay' = replay /\ s \in expired
        /\ UNCHANGED parked /\ default' = (IF default = s THEN None ELSE default)
        /\ sess' = sess \/ sess' = [sess EXCEPT ![s] = "absent"]
    BY <1>4 DEF ReapIdleSession, ReleaseSessionEntry, ReleaseSessionEntryFails
  <2>2. replay' = <<>> BY <2>1 DEF ReplayInv
  <2>3. sess[s] = "ready" BY <2>1 DEF LiveInv, Backed
  <2>4. \E e : sess' = [sess EXCEPT ![s] = e]
    <3>1. CASE sess' = sess
      <4>1. sess' = [sess EXCEPT ![s] = sess[s]] BY SMT, <3>1 DEF EntryTypes
      <4> QED BY <4>1
    <3> QED BY <2>1, <3>1
  <2> QED BY <2>1, <2>2, <2>3, <2>4, EntryLeavesReplays, ServingPhases
<1> QED BY <1>1, <1>2, <1>3, <1>4 DEF Rounds

LEMMA EndingReplays == ASSUME TypeOK, ReplayInv, Ending PROVE ReplayInv'
<1>1. ASSUME Shutdown PROVE ReplayInv'
  <2>1. pc = "serve" /\ replay' = replay /\ parked' = [s \in Session |-> <<>>]
    BY <1>1 DEF Shutdown
  <2>2. replay' = <<>> BY <2>1 DEF ReplayInv
  <2> QED BY <2>1, <2>2, EndReplays
<1>2. ASSUME Unwind PROVE ReplayInv'
  <2>1. replay' = <<>> /\ parked' = [s \in Session |-> <<>>] BY <1>2 DEF Unwind
  <2> QED BY <2>1, EndReplays
<1>3. ASSUME NEW s \in Session, CollectBoot(s) \/ CollectLateBoot(s) PROVE ReplayInv'
  <2>1. pc \in {"collect", "collectBoots"} /\ replay' = replay
    BY <1>3 DEF CollectBoot, CollectLateBoot, ReleaseBootedDuringShutdown
  <2>2. parked' = [parked EXCEPT ![s] = <<>>]
    BY <1>3 DEF CollectBoot, CollectLateBoot, ReleaseBootedDuringShutdown, RemovePending
  <2>3. replay' = <<>> /\ \A x \in Session : parked[x] = <<>>
    BY <2>1 DEF ReplayInv, Serving
  <2>4. \A x \in Session : parked'[x] = <<>> BY <2>2, <2>3, TypeParts DEF EntryTypes
  <2> QED BY <2>3, <2>4, EndReplays
<1>4. ASSUME \/ ExecsDrained \/ ExecDrainTimesOut \/ CollectDone \/ BootsDrained
             \/ BootDrainTimesOut \/ LateBootsDone \/ SessionsDrained \/ AllReleasesStarted
             \/ UnloadSdk
             \/ \E b \in Sandbox : CollectExec(b)
             \/ \E s \in Session : SessionDrained(s) \/ ReleaseDuringShutdown(s)
      PROVE  ReplayInv'
  <2>1. UNCHANGED <<parked, replay>>
    BY <1>4 DEF ExecsDrained, ExecDrainTimesOut, CollectDone, BootsDrained, BootDrainTimesOut,
                LateBootsDone, SessionsDrained, AllReleasesStarted, UnloadSdk, CollectExec,
                SessionDrained, ReleaseDuringShutdown
  <2>2. pc \in Teardown
    BY <1>4 DEF ExecsDrained, ExecDrainTimesOut, CollectDone, BootsDrained, BootDrainTimesOut,
                LateBootsDone, SessionsDrained, AllReleasesStarted, UnloadSdk, CollectExec,
                SessionDrained, ReleaseDuringShutdown, Teardown
  <2>3. replay' = <<>> /\ \A x \in Session : parked'[x] = <<>>
    BY <2>1, <2>2 DEF ReplayInv, Serving, Teardown
  <2> QED BY <2>3, EndReplays
<1> QED BY <1>1, <1>2, <1>3, <1>4 DEF Ending

LEMMA ReplayInvHolds == Spec => []ReplayInv
<1>1. Init => ReplayInv
  <2> SUFFICES ASSUME Init PROVE ReplayInv OBVIOUS
  <2>1. replay = <<>> /\ \A s \in Session : parked[s] = <<>> BY DEF Init
  <2> QED BY <2>1, NothingIn DEF ReplayInv, Parks, ReplayFindsSession
<1>2. TInv /\ LiveInv /\ ReplayInv /\ [Next]_vars => ReplayInv'
  <2> SUFFICES ASSUME TInv, LiveInv, ReplayInv, [Next]_vars PROVE ReplayInv' OBVIOUS
  <2>0. TypeOK /\ LoopBusy /\ EntryTypes /\ LoopTypes BY TypeParts DEF TInv
  <2>1. CASE UNCHANGED vars BY <2>1, ReplayUntouched
  <2>2. CASE Time
    <3>1. UNCHANGED <<sess, parked, default, replay, pc>>
      BY <2>2 DEF Time, BootDeadlineElapses, ReleaseWaitElapses, GraceElapses, PullDeadlineElapses
    <3> QED BY <3>1, ReplayUntouched
  <2>3. CASE Threads
    <3>1. UNCHANGED <<sess, parked, default, replay, pc>>
      BY <2>3 DEF Threads, BootFinishes, BootThreadExits, ReleaseStops, ReleaseReturnsSlot,
                  ReleaseFails, ReleaseReports, ReleaseThreadExits, PullFinishes,
                  PullThreadExits, RunFinishes, RunThreadExits
    <3> QED BY <3>1, ReplayUntouched
  <2> QED BY <2>0, <2>1, <2>2, <2>3, RequestsReplays, ReportsReplays, RoundsReplays, EndingReplays
          DEF Next
<1> QED BY <1>1, <1>2, TypeInvHolds, LiveInvHolds, PTL DEF Spec

\* A provision replayed after the boot it parked behind finds its session
\* installed (Worker::finish_session, Worker::ensure_session).
THEOREM ReplaysFindTheirSession == Spec => []ReplayFindsSession
<1>1. ReplayInv => ReplayFindsSession BY DEF ReplayInv
<1> QED BY <1>1, ReplayInvHolds, PTL
=============================================================================
