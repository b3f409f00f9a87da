-------------------------- MODULE WslcSlots_proofs ---------------------------
(***************************************************************************)
(* The session manager's types and store slots, for any number of          *)
(* sessions, clients and slots: every step keeps the shape of the state,   *)
(* two machines never share a store, no slot leaks, and the worker with    *)
(* all its threads implements the pool of module StoreSlots.               *)
(*                                                                         *)
(* What a handler may do with a slot depends on where the session's boot   *)
(* and release are, so the exclusion of slots (PoolInv) is not inductive   *)
(* on its own: BootInv ties the leases to the entries, the threads and the *)
(* reports that answer for them, and to the phases of the teardown.        *)
(***************************************************************************)
EXTENDS WslcWorker, TLAPS

\* Most leaves are set reasoning for Zenon; the others name SMT.
USE Zenon


(* The parts of TypeOK, as the operators of the specification change them. *)
EntryTypes ==
  /\ sess \in [Session -> EntryState]
  /\ reply \in [Session -> Client \cup {None}]
  /\ parked \in [Session -> Seq(Request)]
  /\ earlier \in [Session -> SUBSET Session]
  /\ age \in [Session -> {"young", "old"}]
  /\ empty \in [Session -> {"no", "recent", "past"}]
  /\ default \in Session \cup {None}

WarmTypes ==
  /\ began \in [Session -> {"none", "recent", "stuck"}]
  /\ returned \in Nat

SlotTypes ==
  /\ held \subseteq Slot /\ stray \subseteq Slot /\ warm \subseteq Slot
  /\ lease \in [Session -> Slot \cup {None}]
  /\ vm \in [Session -> Slot \cup {None}]

ThreadTypes ==
  /\ boot \in [Session -> {"idle", "running", "sent"}]
  /\ bootMsg \in [Session -> {"none", "up", "failed", "stuck"}]
  /\ rel \in [Session -> {"idle", "stopping", "stopped", "returned", "kept", "sent"}]
  /\ relMsg \in [Session -> {"none", "returned", "kept"}]

ProvTypes ==
  /\ prov \in [Token -> PendingProvision \cup {NoProv}]
  /\ pull \in [Token -> PullThread \cup {NoPull}]
  /\ pullMsg \in [Token -> {"none", "ok", "failed"}]
  /\ deadline \in [Token -> {"off", "armed", "fired"}]

ContTypes ==
  /\ cont \in [Sandbox -> ContainerEntry \cup {NoCont}]
  /\ handles \subseteq Sandbox

ExecTypes ==
  /\ exec \in [Sandbox -> InFlightExec \cup {NoExec}]
  /\ run \in [Sandbox -> {"idle", "running"}]
  /\ lingering \subseteq Sandbox
  /\ execMsg \in [Sandbox -> {"none", "finished", "unconfirmed"}]

LoopTypes ==
  /\ pc \in Serving \cup Teardown \cup {"stopped", "gone"}
  /\ expired \subseteq Session
  /\ replay \in Seq(Request) /\ redo \in Seq(Work)
  /\ abandon \in BOOLEAN

SdkClientTypes ==
  /\ sdk \in {"none", "loaded", "leaked"}
  /\ waiting \subseteq Client /\ dropped \subseteq Client

LEMMA TypeParts ==
  TypeOK <=> /\ EntryTypes /\ WarmTypes /\ SlotTypes /\ ThreadTypes /\ ProvTypes
             /\ ContTypes /\ ExecTypes /\ LoopTypes /\ SdkClientTypes
BY DEF TypeOK, EntryTypes, WarmTypes, SlotTypes, ThreadTypes, ProvTypes, ContTypes,
       ExecTypes, LoopTypes, SdkClientTypes

LEMMA TypePartsNext ==
  TypeOK' <=> /\ EntryTypes' /\ WarmTypes' /\ SlotTypes' /\ ThreadTypes' /\ ProvTypes'
              /\ ContTypes' /\ ExecTypes' /\ LoopTypes' /\ SdkClientTypes'
BY DEF TypeOK, EntryTypes, WarmTypes, SlotTypes, ThreadTypes, ProvTypes, ContTypes,
       ExecTypes, LoopTypes, SdkClientTypes

(* A handler's loop runs while there is something left to do, so its rounds  *)
(* always find a head.                                                       *)
LoopBusy == (pc = "replay" => replay # <<>>) /\ (pc = "redo" => redo # <<>>)

TInv == TypeOK /\ LoopBusy

(* A step that leaves a group of variables alone keeps that group's types.   *)
LEMMA SameTypes ==
  ASSUME TypeOK
  PROVE  /\ UNCHANGED entryVars => EntryTypes'
         /\ UNCHANGED warmVars => WarmTypes'
         /\ UNCHANGED slotVars => SlotTypes'
         /\ UNCHANGED threadVars => ThreadTypes'
         /\ UNCHANGED provVars => ProvTypes'
         /\ UNCHANGED contVars => ContTypes'
         /\ UNCHANGED execVars => ExecTypes'
         /\ UNCHANGED loopVars => LoopTypes' /\ (LoopBusy => LoopBusy')
         /\ UNCHANGED sdk /\ UNCHANGED clientVars => SdkClientTypes'
<1> USE TypeParts
<1>1. UNCHANGED entryVars => EntryTypes' BY DEF EntryTypes, entryVars
<1>2. UNCHANGED warmVars => WarmTypes' BY DEF WarmTypes, warmVars
<1>3. UNCHANGED slotVars => SlotTypes' BY DEF SlotTypes, slotVars
<1>4. UNCHANGED threadVars => ThreadTypes' BY DEF ThreadTypes, threadVars
<1>5. UNCHANGED provVars => ProvTypes' BY DEF ProvTypes, provVars
<1>6. UNCHANGED contVars => ContTypes' BY DEF ContTypes, contVars
<1>7. UNCHANGED execVars => ExecTypes' BY DEF ExecTypes, execVars
<1>8. UNCHANGED loopVars => LoopTypes' /\ (LoopBusy => LoopBusy')
  BY DEF LoopTypes, LoopBusy, loopVars
<1>9. UNCHANGED sdk /\ UNCHANGED clientVars => SdkClientTypes' BY DEF SdkClientTypes, clientVars
<1> QED BY <1>1, <1>2, <1>3, <1>4, <1>5, <1>6, <1>7, <1>8, <1>9
-----------------------------------------------------------------------------
(* Slots.                                                                  *)

LEMMA DropLeaseTypes ==
  ASSUME SlotTypes, NEW s \in Session, DropLease(s) PROVE SlotTypes'
BY DEF SlotTypes, DropLease

LEMMA ForgetLeaseTypes ==
  ASSUME SlotTypes, NEW s \in Session, ForgetLease(s) PROVE SlotTypes'
BY DEF SlotTypes, ForgetLease

LEMMA LeaseAndBootTypes ==
  ASSUME SlotTypes, ThreadTypes, returned \in Nat, NEW s \in Session, LeaseAndBoot(s)
  PROVE  SlotTypes' /\ ThreadTypes' /\ returned' \in Nat /\ sdk' = "loaded"
<1>1. SlotTypes'
  <2>1. PICK k \in Slot \ held :
          /\ held' = held \cup {k}
          /\ lease' = [lease EXCEPT ![s] = k]
          /\ vm' = [vm EXCEPT ![s] = k]
          /\ warm' = warm \cup {k}
    BY DEF LeaseAndBoot
  <2> QED BY <2>1 DEF SlotTypes, LeaseAndBoot
<1>2. ThreadTypes' /\ returned' \in Nat /\ sdk' = "loaded"
  BY SMT DEF ThreadTypes, LeaseAndBoot
<1> QED BY <1>1, <1>2

LEMMA LeaseAndBootFailsTypes ==
  ASSUME SlotTypes, ThreadTypes, returned \in Nat, SdkClientTypes, LeaseAndBootFails
  PROVE  /\ SlotTypes' /\ ThreadTypes' /\ returned' \in Nat
         /\ sdk' \in {"none", "loaded", "leaked"}
BY DEF SlotTypes, ThreadTypes, SdkClientTypes, LeaseAndBootFails, slotVars, threadVars

LEMMA BeginSessionTypes ==
  ASSUME TypeOK, NEW s \in Session, BeginSession(s)
  PROVE  /\ sess' \in [Session -> EntryState] /\ earlier' \in [Session -> SUBSET Session]
         /\ age' \in [Session -> {"young", "old"}] /\ empty' = empty
         /\ WarmTypes' /\ SlotTypes' /\ ThreadTypes'
         /\ sdk' \in {"none", "loaded", "leaked"}
<1> USE TypeParts
<1>1. /\ earlier' \in [Session -> SUBSET Session]
      /\ age' \in [Session -> {"young", "old"}] /\ empty' = empty /\ began' = began
  BY DEF BeginSession, EntryTypes, PendingSessions
<1>2. CASE ShouldWaitForARelease
  <2>1. /\ sess' = [sess EXCEPT ![s] = "waiting"]
        /\ UNCHANGED <<slotVars, threadVars, returned, sdk>>
    BY <1>2 DEF BeginSession
  <2>2. sess' \in [Session -> EntryState]
    BY <2>1 DEF EntryTypes, EntryState
  <2> QED BY <1>1, <2>1, <2>2, SameTypes DEF WarmTypes, SdkClientTypes
<1>3. CASE ~ShouldWaitForARelease
  <2>1. LeaseAndBoot(s) /\ sess' = [sess EXCEPT ![s] = "booting"]
    BY <1>3 DEF BeginSession
  <2>2. SlotTypes' /\ ThreadTypes' /\ returned' \in Nat /\ sdk' = "loaded"
    BY <2>1, LeaseAndBootTypes DEF WarmTypes
  <2> QED BY <1>1, <2>1, <2>2 DEF EntryTypes, EntryState, WarmTypes
<1> QED BY <1>2, <1>3
-----------------------------------------------------------------------------
(* Entries.                                                                *)

LEMMA RemovePendingTypes ==
  ASSUME EntryTypes, NEW s \in Session, NEW e \in EntryState, RemovePending(s, e)
  PROVE  /\ sess' \in [Session -> EntryState] /\ reply' \in [Session -> Client \cup {None}]
         /\ parked' \in [Session -> Seq(Request)]
         /\ earlier' \in [Session -> SUBSET Session]
         /\ age' \in [Session -> {"young", "old"}]
BY SMT DEF EntryTypes, RemovePending

LEMMA FailSessionTypes ==
  ASSUME EntryTypes, SdkClientTypes, NEW s \in Session, FailSession(s)
  PROVE  EntryTypes' /\ waiting' \subseteq Client /\ dropped' \subseteq Client
<1>1. RemovePending(s, "absent") /\ "absent" \in EntryState
  BY DEF FailSession, EntryState
<1> QED BY <1>1, RemovePendingTypes DEF EntryTypes, SdkClientTypes, FailSession

LEMMA ReleaseSessionEntryTypes ==
  ASSUME EntryTypes, WarmTypes, ThreadTypes, NEW s \in Session, NEW c \in Client \cup {None},
         ReleaseSessionEntry(s, c) \/ ReleaseSessionEntryFails(s)
  PROVE  EntryTypes' /\ WarmTypes' /\ ThreadTypes'
<1>1. CASE ReleaseSessionEntry(s, c)
  BY <1>1 DEF EntryTypes, EntryState, WarmTypes, ThreadTypes, ReleaseSessionEntry
<1>2. CASE ReleaseSessionEntryFails(s)
  BY <1>2 DEF EntryTypes, WarmTypes, ThreadTypes, ReleaseSessionEntryFails, entryVars, warmVars,
          threadVars
<1> QED BY <1>1, <1>2

LEMMA ReleaseBootedDuringShutdownTypes ==
  ASSUME TypeOK, NEW s \in Session, ReleaseBootedDuringShutdown(s) PROVE TypeOK'
<1> USE TypeParts DEF ReleaseBootedDuringShutdown
<1>1. EntryTypes'
  BY RemovePendingTypes DEF EntryTypes, EntryState
<1>2. SlotTypes'
  BY DropLeaseTypes, ForgetLeaseTypes DEF SlotTypes, slotVars
<1>3. ThreadTypes'
  BY DEF ThreadTypes
<1>4. LoopTypes'
  BY DEF LoopTypes
<1>5. WarmTypes' /\ ProvTypes' /\ ContTypes' /\ ExecTypes' /\ SdkClientTypes'
  BY SameTypes
<1> QED BY <1>1, <1>2, <1>3, <1>4, <1>5, TypePartsNext
-----------------------------------------------------------------------------
(* Containers and execs.                                                   *)

LEMMA ContainerFields ==
  ASSUME NEW e \in ContainerEntry
  PROVE  /\ [e EXCEPT !.started = TRUE] \in ContainerEntry
         /\ [e EXCEPT !.started = FALSE] \in ContainerEntry
         /\ [e EXCEPT !.quarantined = TRUE] \in ContainerEntry
         /\ [e EXCEPT !.retired = TRUE] \in ContainerEntry
BY DEF ContainerEntry

LEMMA CreateProvisionedContainerTypes ==
  ASSUME ContTypes, empty \in [Session -> {"no", "recent", "past"}],
         NEW s \in Session, CreateProvisionedContainer(s)
  PROVE  ContTypes' /\ empty' \in [Session -> {"no", "recent", "past"}]
<1>1. [NoCont EXCEPT !.session = s] \in ContainerEntry
  BY DEF NoCont, ContainerEntry
<1> QED BY SMT, <1>1 DEF ContTypes, CreateProvisionedContainer, TouchSession

LEMMA QuarantineTypes ==
  ASSUME ContTypes, NEW b \in Sandbox, Quarantine(b) PROVE ContTypes'
<1>1. CASE sdk = "loaded" /\ RemoveContainer(b)
  BY <1>1 DEF ContTypes, RemoveContainer
<1>2. CASE /\ cont' = IF cont[b] = NoCont THEN cont
                      ELSE [cont EXCEPT ![b].quarantined = TRUE]
           /\ UNCHANGED handles
  <2>1. CASE cont[b] = NoCont BY <1>2, <2>1 DEF ContTypes
  <2>2. CASE cont[b] # NoCont
    <3>1. [cont[b] EXCEPT !.quarantined = TRUE] \in ContainerEntry
      BY <2>2, ContainerFields DEF ContTypes
    <3> QED BY <3>1, <2>2, <1>2 DEF ContTypes
  <2> QED BY <2>1, <2>2
<1> QED BY <1>1, <1>2 DEF Quarantine

LEMMA RetireExecTypes ==
  ASSUME ContTypes, ExecTypes, NEW b \in Sandbox, RetireExec(b)
  PROVE  ContTypes' /\ ExecTypes'
<1>1. ExecTypes' BY DEF ExecTypes, RetireExec
<1>2. ContTypes' BY QuarantineTypes DEF ContTypes, RetireExec, contVars
<1> QED BY <1>1, <1>2

LEMMA DispatchTypes ==
  ASSUME ContTypes, SdkClientTypes, exec \in [Sandbox -> InFlightExec \cup {NoExec}],
         NEW w \in Work, Dispatch(w)
  PROVE  /\ ContTypes' /\ exec' \in [Sandbox -> InFlightExec \cup {NoExec}]
         /\ waiting' \subseteq Client /\ dropped' \subseteq Client
<1>0. w.sandbox \in Sandbox /\ w.client \in Client BY DEF Work
<1>1. CASE exec[w.sandbox] # NoExec
  <2>1. ParkWork(w) BY <1>1 DEF Dispatch
  <2>2. exec[w.sandbox] \in InFlightExec BY <1>0, <1>1
  <2>3. Append(exec[w.sandbox].parked, w) \in Seq(Work) BY SMT, <2>2 DEF InFlightExec
  <2>4. [exec[w.sandbox] EXCEPT !.parked = Append(@, w)] \in InFlightExec
    BY <2>2, <2>3 DEF InFlightExec
  <2>5. exec' = [exec EXCEPT ![w.sandbox] = [exec[w.sandbox] EXCEPT !.parked = Append(@, w)]]
    BY <2>1 DEF ParkWork
  <2>6. exec' \in [Sandbox -> InFlightExec \cup {NoExec}] BY <2>4, <2>5, <1>0
  <2> QED BY <2>1, <2>6, <1>0 DEF ParkWork, Kept, ContTypes, contVars, SdkClientTypes
<1>2. CASE exec[w.sandbox] = NoExec
  <2>1. RunWork(w) BY <1>2 DEF Dispatch
  <2>2. ASSUME Start(w.sandbox) PROVE ContTypes'
    <3>1. [cont[w.sandbox] EXCEPT !.started = TRUE] \in ContainerEntry
      BY <2>2, <1>0, ContainerFields DEF ContTypes, Start
    <3> QED BY <3>1, <2>2, <1>0 DEF ContTypes, Start
  <2>3. ASSUME Stop(w.sandbox) PROVE ContTypes'
    <3>1. [cont[w.sandbox] EXCEPT !.started = FALSE] \in ContainerEntry
      BY <2>3, <1>0, ContainerFields DEF ContTypes, Stop
    <3> QED BY <3>1, <2>3, <1>0 DEF ContTypes, Stop
  <2>4. ASSUME Deprovision(w.sandbox) PROVE ContTypes'
    BY <2>4, <1>0 DEF ContTypes, Deprovision, RemoveContainer
  <2>5. ASSUME UNCHANGED contVars PROVE ContTypes'
    BY <2>5 DEF ContTypes, contVars
  <2>6. ContTypes' BY <2>1, <2>2, <2>3, <2>4, <2>5 DEF RunWork
  <2> QED BY <2>1, <2>6, <1>0 DEF RunWork, Answered, SdkClientTypes
<1> QED BY <1>1, <1>2
-----------------------------------------------------------------------------
(* Provisions.                                                             *)

LEMMA BeginProvisionTypes ==
  ASSUME TypeOK, NEW req \in Request, BeginProvision(req)
  PROVE  /\ EntryTypes' /\ WarmTypes' /\ SlotTypes' /\ ThreadTypes' /\ ProvTypes'
         /\ ContTypes' /\ SdkClientTypes'
<1> DEFINE s == EnsureSession(req.names)
<1> USE TypeParts
<1>0. /\ req.client \in Client /\ req.names \in Session \cup {None}
      /\ IsReady(s) \/ IsBooting(s) => s \in Session
  BY DEF Request, EnsureSession, IsReady, IsBooting, EntryTypes
<1>1. CASE ParkProvision(req)
  <2>1. s \in Session /\ parked' = [parked EXCEPT ![s] = Append(@, req)]
    BY <1>0, <1>1 DEF ParkProvision
  <2>2. Append(parked[s], req) \in Seq(Request)
    BY SMT, <2>1 DEF EntryTypes
  <2>3. parked' \in [Session -> Seq(Request)]
    BY <2>1, <2>2 DEF EntryTypes
  <2>4. EntryTypes'
    BY <1>1, <2>3 DEF ParkProvision, EntryTypes
  <2>5. WarmTypes' /\ SlotTypes' /\ ThreadTypes' /\ ProvTypes' /\ ContTypes'
    BY <1>1, SameTypes DEF ParkProvision
  <2> QED BY <1>0, <1>1, <2>4, <2>5 DEF ParkProvision, Kept, SdkClientTypes
<1>2. CASE BootImplicitSession(req)
  <2>0. ProvTypes' /\ ContTypes'
    BY <1>2, SameTypes DEF BootImplicitSession
  <2>1. ASSUME NEW fresh \in Session, BeginSession(fresh), default' = fresh,
               parked' = [parked EXCEPT ![fresh] = <<req>>], UNCHANGED reply, Kept(req.client)
        PROVE  /\ EntryTypes' /\ WarmTypes' /\ SlotTypes' /\ ThreadTypes'
               /\ SdkClientTypes'
    <3>1. <<req>> \in Seq(Request) BY SMT
    <3>2. parked' \in [Session -> Seq(Request)] BY <2>1, <3>1 DEF EntryTypes
    <3> QED BY <2>1, <3>2, <1>0, BeginSessionTypes DEF EntryTypes, SdkClientTypes, Kept
  <2>2. ASSUME LeaseAndBootFails, Answered(req.client), UNCHANGED <<entryVars, began>>
        PROVE  /\ EntryTypes' /\ WarmTypes' /\ SlotTypes' /\ ThreadTypes'
               /\ SdkClientTypes'
    <3>1. EntryTypes' BY <2>2 DEF EntryTypes, entryVars
    <3> QED BY <2>2, <3>1, LeaseAndBootFailsTypes DEF WarmTypes, SdkClientTypes, Answered
  <2> QED BY <1>2, <2>0, <2>1, <2>2 DEF BootImplicitSession
<1>3. CASE ProvisionFromStore(req)
  <2>1. s \in Session BY <1>0, <1>3 DEF ProvisionFromStore
  <2>2. ContTypes' /\ empty' \in [Session -> {"no", "recent", "past"}]
    BY <1>3, <2>1, CreateProvisionedContainerTypes DEF ProvisionFromStore, EntryTypes
  <2>3. EntryTypes' BY <1>3, <2>2 DEF ProvisionFromStore, EntryTypes
  <2>4. WarmTypes' /\ SlotTypes' /\ ThreadTypes' /\ ProvTypes'
    BY <1>3, SameTypes DEF ProvisionFromStore
  <2> QED BY <1>3, <2>2, <2>3, <2>4 DEF ProvisionFromStore, Answered, SdkClientTypes
<1>4. CASE ProvisionByPull(req)
  <2>1. s \in Session BY <1>0, <1>4 DEF ProvisionByPull
  <2>2. PICK t \in Token :
          /\ pull' = [pull EXCEPT ![t] = [session |-> s, at |-> "running"]]
          /\ \/ /\ prov' = [prov EXCEPT ![t] = [client |-> req.client, session |-> s]]
                /\ deadline' = [deadline EXCEPT ![t] = "armed"]
                /\ TouchSession(s)
                /\ Kept(req.client)
             \/ /\ UNCHANGED <<prov, deadline, empty>>
                /\ Answered(req.client)
    BY <1>4 DEF ProvisionByPull
  <2>3. /\ [session |-> s, at |-> "running"] \in PullThread
        /\ [client |-> req.client, session |-> s] \in PendingProvision
    BY <2>1, <1>0 DEF PullThread, PendingProvision
  <2>4. ProvTypes' BY SMT, <1>4, <2>2, <2>3 DEF ProvisionByPull, ProvTypes
  <2>5. empty' \in [Session -> {"no", "recent", "past"}]
    BY <2>2 DEF TouchSession, EntryTypes
  <2>6. EntryTypes' BY <1>4, <2>5 DEF ProvisionByPull, EntryTypes
  <2>7. WarmTypes' /\ SlotTypes' /\ ThreadTypes' /\ ContTypes' /\ sdk' = sdk
    BY <1>4, SameTypes DEF ProvisionByPull
  <2>8. SdkClientTypes' BY <1>0, <2>2, <2>7 DEF Kept, Answered, SdkClientTypes
  <2> QED BY <2>4, <2>6, <2>7, <2>8
<1>5. CASE RefuseProvision(req)
  <2>1. EntryTypes' BY <1>5, SameTypes DEF RefuseProvision
  <2>2. WarmTypes' /\ SlotTypes' /\ ThreadTypes' /\ ProvTypes' /\ ContTypes'
    BY <1>5, SameTypes DEF RefuseProvision
  <2> QED BY <1>5, <2>1, <2>2 DEF RefuseProvision, Answered, SdkClientTypes
<1> QED BY <1>1, <1>2, <1>3, <1>4, <1>5 DEF BeginProvision
-----------------------------------------------------------------------------
(* The steps.                                                                *)

LEMMA RequestsStep == ASSUME TInv, Requests PROVE TInv'
<1> USE TypeParts DEF TInv
<1>1. ASSUME NEW c \in Client, ProvisionSession(c) PROVE TInv'
  <2>1. ProvTypes' /\ ContTypes' /\ ExecTypes' /\ LoopTypes' /\ LoopBusy'
    BY <1>1, SameTypes DEF ProvisionSession
  <2>2. ASSUME NEW s \in Session, BeginSession(s), reply' = [reply EXCEPT ![s] = c],
               Kept(c), UNCHANGED <<parked, default>>
        PROVE  EntryTypes' /\ WarmTypes' /\ SlotTypes' /\ ThreadTypes' /\ SdkClientTypes'
    BY <2>2, BeginSessionTypes DEF EntryTypes, SdkClientTypes, Kept
  <2>3. ASSUME LeaseAndBootFails, Answered(c), UNCHANGED <<entryVars, began>>
        PROVE  EntryTypes' /\ WarmTypes' /\ SlotTypes' /\ ThreadTypes' /\ SdkClientTypes'
    BY <2>3, LeaseAndBootFailsTypes, SameTypes DEF WarmTypes, SdkClientTypes, Answered
  <2> QED BY <1>1, <2>1, <2>2, <2>3, TypePartsNext DEF ProvisionSession
<1>2. ASSUME NEW c \in Client, NEW s \in Session, DeprovisionSession(c, s) PROVE TInv'
  <2>1. SlotTypes' /\ ProvTypes' /\ ContTypes' /\ ExecTypes' /\ LoopTypes' /\ LoopBusy'
    BY <1>2, SameTypes DEF DeprovisionSession
  <2>2. EntryTypes' /\ WarmTypes' /\ ThreadTypes'
    BY <1>2, ReleaseSessionEntryTypes, SameTypes DEF DeprovisionSession
  <2>3. SdkClientTypes'
    BY <1>2 DEF DeprovisionSession, Kept, SdkClientTypes
  <2> QED BY <2>1, <2>2, <2>3, TypePartsNext
<1>3. ASSUME NEW c \in Client, NEW names \in Session \cup {None}, Provision(c, names) PROVE TInv'
  <2>1. [client |-> c, names |-> names] \in Request BY DEF Request
  <2>2. ExecTypes' /\ LoopTypes' /\ LoopBusy'
    BY <1>3, SameTypes DEF Provision
  <2> QED BY <1>3, <2>1, <2>2, BeginProvisionTypes, TypePartsNext DEF Provision
<1>4. ASSUME NEW c \in Client, NEW b \in Sandbox, BeginExec(c, b) PROVE TInv'
  <2>1. cont[b].session \in Session
    BY <1>4 DEF BeginExec, ValidateExec, ContTypes, ContainerEntry
  <2>2. [client |-> c, session |-> cont[b].session, parked |-> <<>>] \in InFlightExec
    BY SMT, <2>1 DEF InFlightExec
  <2>3. ExecTypes' BY <1>4, <2>2 DEF BeginExec, ExecTypes
  <2>4. EntryTypes' BY <1>4 DEF BeginExec, TouchSession, EntryTypes
  <2>5. /\ WarmTypes' /\ SlotTypes' /\ ThreadTypes' /\ ProvTypes' /\ ContTypes' /\ LoopTypes'
        /\ LoopBusy' /\ SdkClientTypes'
    BY <1>4, SameTypes DEF BeginExec, Kept, SdkClientTypes
  <2> QED BY <2>3, <2>4, <2>5, TypePartsNext
<1>5. ASSUME NEW w \in Work, Lifecycle(w) PROVE TInv'
  <2>1. /\ EntryTypes' /\ WarmTypes' /\ SlotTypes' /\ ThreadTypes' /\ ProvTypes'
        /\ LoopTypes' /\ LoopBusy' /\ sdk' = sdk
    BY <1>5, SameTypes DEF Lifecycle
  <2>2. ContTypes' /\ exec' \in [Sandbox -> InFlightExec \cup {NoExec}]
        /\ waiting' \subseteq Client /\ dropped' \subseteq Client
    BY <1>5, DispatchTypes DEF Lifecycle, ExecTypes
  <2>3. ExecTypes' /\ SdkClientTypes'
    BY <1>5, <2>1, <2>2 DEF Lifecycle, ExecTypes, SdkClientTypes
  <2> QED BY <2>1, <2>2, <2>3, TypePartsNext
<1>6. ASSUME NEW b \in Sandbox, Retire(b) PROVE TInv'
  <2>1. [cont[b] EXCEPT !.retired = TRUE] \in ContainerEntry
    BY <1>6, ContainerFields DEF Retire, ContTypes
  <2>2. ContTypes' BY <1>6, <2>1 DEF Retire, ContTypes
  <2>3. /\ EntryTypes' /\ WarmTypes' /\ SlotTypes' /\ ThreadTypes' /\ ProvTypes' /\ ExecTypes'
        /\ LoopTypes' /\ LoopBusy' /\ SdkClientTypes'
    BY <1>6, SameTypes DEF Retire
  <2> QED BY <2>2, <2>3, TypePartsNext
<1>7. ASSUME Poll PROVE TInv'
  <2>1. EntryTypes' BY SMT, <1>7 DEF Poll, ReapStuckBoots, StuckBoots, EntryState,
       EntryTypes, entryVars
  <2>2. SdkClientTypes' BY <1>7 DEF Poll, ReapStuckBoots, SdkClientTypes
  <2>3. LoopTypes' /\ LoopBusy' BY <1>7 DEF Poll, Serving, LoopTypes, LoopBusy
  <2>4. /\ WarmTypes' /\ SlotTypes' /\ ThreadTypes' /\ ProvTypes' /\ ContTypes'
        /\ ExecTypes'
    BY <1>7, SameTypes DEF Poll
  <2> QED BY <2>1, <2>2, <2>3, <2>4, TypePartsNext
<1> QED BY <1>1, <1>2, <1>3, <1>4, <1>5, <1>6, <1>7 DEF Requests

LEMMA ReportsStep == ASSUME TInv, Reports PROVE TInv'
<1> USE TypeParts DEF TInv
<1>1. ASSUME NEW s \in Session, SessionBooted(s) PROVE TInv'
  <2>1. EntryTypes' BY SMT, <1>1 DEF SessionBooted, RemovePending, EntryState, EntryTypes
  <2>2. ThreadTypes' BY <1>1 DEF SessionBooted, ThreadTypes
  <2>3. LoopTypes' BY <1>1 DEF SessionBooted, EntryTypes, Serving, LoopTypes
  <2>4. LoopBusy' BY <1>1 DEF SessionBooted, LoopBusy
  <2>5. SdkClientTypes' BY <1>1 DEF SessionBooted, SdkClientTypes
  <2>6. /\ WarmTypes' /\ SlotTypes' /\ ProvTypes' /\ ContTypes' /\ ExecTypes'
    BY <1>1, SameTypes DEF SessionBooted
  <2> QED BY <2>1, <2>2, <2>3, <2>4, <2>5, <2>6, TypePartsNext
<1>2. ASSUME NEW s \in Session, SessionBootFailed(s) PROVE TInv'
  <2>1. SlotTypes' BY <1>2, ForgetLeaseTypes, DropLeaseTypes DEF SessionBootFailed
  <2>2. EntryTypes' /\ SdkClientTypes'
    BY <1>2, FailSessionTypes DEF SessionBootFailed, SdkClientTypes
  <2>3. /\ WarmTypes' /\ ThreadTypes' /\ ProvTypes' /\ ContTypes' /\ ExecTypes'
        /\ LoopTypes' /\ LoopBusy'
    BY <1>2, SameTypes DEF SessionBootFailed, ThreadTypes
  <2> QED BY <2>1, <2>2, <2>3, TypePartsNext
<1>3. ASSUME NEW s \in Session, SessionBootedAbandoned(s) PROVE TInv'
  <2>1. SlotTypes' BY <1>3, ForgetLeaseTypes DEF SessionBootedAbandoned, SlotTypes, slotVars
  <2>2. EntryTypes'
    BY <1>3, RemovePendingTypes DEF SessionBootedAbandoned, EntryTypes, EntryState
  <2>3. /\ WarmTypes' /\ ThreadTypes' /\ ProvTypes' /\ ContTypes' /\ ExecTypes'
        /\ LoopTypes' /\ LoopBusy' /\ SdkClientTypes'
    BY <1>3, SameTypes DEF SessionBootedAbandoned, ThreadTypes
  <2> QED BY <2>1, <2>2, <2>3, TypePartsNext
<1>4. ASSUME NEW s \in Session, SessionReleased(s) PROVE TInv'
  <2>1. WarmTypes' /\ ThreadTypes' BY SMT, <1>4 DEF SessionReleased, WarmTypes,
       ThreadTypes
  <2>2. LoopTypes' /\ LoopBusy' BY <1>4 DEF SessionReleased, Serving, LoopTypes,
       LoopBusy
  <2>3. /\ EntryTypes' /\ SlotTypes' /\ ProvTypes' /\ ContTypes' /\ ExecTypes'
        /\ SdkClientTypes'
    BY <1>4, SameTypes DEF SessionReleased
  <2> QED BY <2>1, <2>2, <2>3, TypePartsNext
<1>5. ASSUME NEW t \in Token, PullFinished(t) PROVE TInv'
  <2>1. ContTypes' /\ empty' \in [Session -> {"no", "recent", "past"}]
    <3>1. CASE prov[t] # NoProv /\ CreateProvisionedContainer(prov[t].session)
      <4>1. prov[t].session \in Session BY <3>1 DEF ProvTypes, PendingProvision
      <4> QED BY <3>1, <4>1, CreateProvisionedContainerTypes DEF EntryTypes
    <3>2. CASE UNCHANGED <<contVars, empty>>
      BY <3>2, SameTypes DEF EntryTypes
    <3> QED BY <1>5, <3>1, <3>2 DEF PullFinished
  <2>2. EntryTypes' BY <1>5, <2>1 DEF PullFinished, EntryTypes
  <2>3. ProvTypes' BY <1>5 DEF PullFinished, RemoveProvision, ProvTypes
  <2>4. /\ WarmTypes' /\ SlotTypes' /\ ThreadTypes' /\ ExecTypes' /\ LoopTypes' /\ LoopBusy'
        /\ SdkClientTypes'
    BY <1>5, SameTypes DEF PullFinished, SdkClientTypes
  <2> QED BY <2>1, <2>2, <2>3, <2>4, TypePartsNext
<1>6. ASSUME NEW t \in Token, PullExpired(t) PROVE TInv'
  <2>1. ProvTypes' BY <1>6 DEF PullExpired, RemoveProvision, ProvTypes
  <2>2. /\ EntryTypes' /\ WarmTypes' /\ SlotTypes' /\ ThreadTypes' /\ ContTypes'
        /\ ExecTypes' /\ LoopTypes' /\ LoopBusy' /\ SdkClientTypes'
    BY <1>6, SameTypes DEF PullExpired, SdkClientTypes
  <2> QED BY <2>1, <2>2, TypePartsNext
<1>7. ASSUME NEW b \in Sandbox, ExecFinished(b) PROVE TInv'
  <2>1. ContTypes' /\ ExecTypes' BY <1>7, RetireExecTypes DEF ExecFinished
  <2>2. exec[b].parked \in Seq(Work)
    <3>1. CASE exec[b] = NoExec BY SMT, <3>1 DEF NoExec
    <3>2. CASE exec[b] \in InFlightExec BY <3>2 DEF InFlightExec
    <3> QED BY <3>1, <3>2 DEF ExecTypes
  <2>3. LoopTypes' BY <1>7, <2>2 DEF ExecFinished, LoopTypes, Serving
  <2>4. LoopBusy' BY <1>7 DEF ExecFinished, LoopBusy
  <2>5. /\ EntryTypes' /\ WarmTypes' /\ SlotTypes' /\ ThreadTypes' /\ ProvTypes'
        /\ SdkClientTypes'
    BY <1>7, SameTypes DEF ExecFinished, SdkClientTypes
  <2> QED BY <2>1, <2>3, <2>4, <2>5, TypePartsNext
<1> QED BY <1>1, <1>2, <1>3, <1>4, <1>5, <1>6, <1>7 DEF Reports

LEMMA RoundsStep == ASSUME TInv, Rounds PROVE TInv'
<1> USE TypeParts DEF TInv
<1>1. ASSUME ReplayParked PROVE TInv'
  <2>1. Head(replay) \in Request /\ Tail(replay) \in Seq(Request)
    BY SMT, <1>1 DEF ReplayParked, LoopBusy, LoopTypes
  <2>2. LoopTypes' BY <1>1, <2>1 DEF ReplayParked, LoopTypes, Serving
  <2>3. ExecTypes' /\ LoopBusy' BY <1>1, SameTypes DEF ReplayParked, LoopBusy
  <2> QED BY <1>1, <2>1, <2>2, <2>3, BeginProvisionTypes, TypePartsNext DEF ReplayParked
<1>2. ASSUME RedoParked PROVE TInv'
  <2>1. Head(redo) \in Work /\ Tail(redo) \in Seq(Work)
    BY SMT, <1>2 DEF RedoParked, LoopBusy, LoopTypes
  <2>2. LoopTypes' BY <1>2, <2>1 DEF RedoParked, LoopTypes, Serving
  <2>3. /\ EntryTypes' /\ WarmTypes' /\ SlotTypes' /\ ThreadTypes' /\ ProvTypes'
        /\ LoopBusy' /\ sdk' = sdk
    BY <1>2, SameTypes DEF RedoParked, LoopBusy
  <2>4. ContTypes' /\ exec' \in [Sandbox -> InFlightExec \cup {NoExec}]
        /\ waiting' \subseteq Client /\ dropped' \subseteq Client
    BY <1>2, <2>1, DispatchTypes DEF RedoParked, ExecTypes
  <2>5. ExecTypes' /\ SdkClientTypes'
    BY <1>2, <2>3, <2>4 DEF RedoParked, ExecTypes, SdkClientTypes
  <2> QED BY <2>2, <2>3, <2>4, <2>5, TypePartsNext
<1>3. ASSUME NEW s \in Session, DeferredBoot(s) PROVE TInv'
  <2>1. ProvTypes' /\ ContTypes' /\ ExecTypes' /\ LoopTypes' /\ LoopBusy' /\ began' = began
    BY <1>3, SameTypes DEF DeferredBoot
  <2>2. ASSUME LeaseAndBoot(s), sess' = [sess EXCEPT ![s] = "booting"],
               UNCHANGED <<reply, parked, earlier, age, empty, default, clientVars>>
        PROVE  EntryTypes' /\ WarmTypes' /\ SlotTypes' /\ ThreadTypes' /\ SdkClientTypes'
    BY <2>1, <2>2, LeaseAndBootTypes DEF EntryTypes, EntryState, WarmTypes, SdkClientTypes,
       clientVars
  <2>3. ASSUME LeaseAndBootFails, FailSession(s)
        PROVE  EntryTypes' /\ WarmTypes' /\ SlotTypes' /\ ThreadTypes' /\ SdkClientTypes'
    BY <2>1, <2>3, LeaseAndBootFailsTypes, FailSessionTypes DEF WarmTypes, SdkClientTypes
  <2> QED BY <1>3, <2>1, <2>2, <2>3, TypePartsNext DEF DeferredBoot
<1>4. ASSUME NEW s \in Session, ReapIdleSession(s) PROVE TInv'
  <2>1. EntryTypes' /\ WarmTypes' /\ ThreadTypes'
    BY <1>4, ReleaseSessionEntryTypes, SameTypes DEF ReapIdleSession
  <2>2. /\ SlotTypes' /\ ProvTypes' /\ ContTypes' /\ ExecTypes' /\ LoopTypes' /\ LoopBusy'
        /\ SdkClientTypes'
    BY <1>4, SameTypes DEF ReapIdleSession, LoopTypes, LoopBusy
  <2> QED BY <2>1, <2>2, TypePartsNext
<1>5. ASSUME DeferredBootsDone PROVE TInv'
  <2>1. LoopTypes' /\ LoopBusy' BY <1>5 DEF DeferredBootsDone, Serving, LoopTypes,
       LoopBusy
  <2>2. /\ EntryTypes' /\ WarmTypes' /\ SlotTypes' /\ ThreadTypes' /\ ProvTypes'
        /\ ContTypes' /\ ExecTypes' /\ SdkClientTypes'
    BY <1>5, SameTypes DEF DeferredBootsDone
  <2> QED BY <2>1, <2>2, TypePartsNext
<1>6. ASSUME ReapDone PROVE TInv'
  <2>1. LoopTypes' /\ LoopBusy' BY <1>6 DEF ReapDone, Serving, LoopTypes, LoopBusy
  <2>2. /\ EntryTypes' /\ WarmTypes' /\ SlotTypes' /\ ThreadTypes' /\ ProvTypes'
        /\ ContTypes' /\ ExecTypes' /\ SdkClientTypes'
    BY <1>6, SameTypes DEF ReapDone
  <2> QED BY <2>1, <2>2, TypePartsNext
<1> QED BY <1>1, <1>2, <1>3, <1>4, <1>5, <1>6 DEF Rounds


LEMMA ThreadsStep == ASSUME TInv, Threads PROVE TInv'
<1> USE TypeParts DEF TInv
<1>1. ASSUME NEW s \in Session, NEW outcome \in {"up", "failed", "stuck"},
             BootFinishes(s, outcome) PROVE TInv'
  <2>1. SlotTypes' BY <1>1 DEF BootFinishes, SlotTypes
  <2>2. ThreadTypes' BY <1>1 DEF BootFinishes, ThreadTypes
  <2>3. /\ EntryTypes' /\ WarmTypes' /\ ProvTypes' /\ ContTypes' /\ ExecTypes'
        /\ LoopTypes' /\ LoopBusy' /\ SdkClientTypes'
    BY <1>1, SameTypes DEF BootFinishes
  <2> QED BY <2>1, <2>2, <2>3, TypePartsNext
<1>2. ASSUME NEW s \in Session, BootThreadExits(s) PROVE TInv'
  <2>1. ThreadTypes' BY <1>2 DEF BootThreadExits, ThreadTypes
  <2>2. /\ EntryTypes' /\ WarmTypes' /\ SlotTypes' /\ ProvTypes' /\ ContTypes'
        /\ ExecTypes' /\ LoopTypes' /\ LoopBusy' /\ SdkClientTypes'
    BY <1>2, SameTypes DEF BootThreadExits
  <2> QED BY <2>1, <2>2, TypePartsNext
<1>3. ASSUME NEW s \in Session, ReleaseStops(s) PROVE TInv'
  <2>1. SlotTypes' BY <1>3 DEF ReleaseStops, SlotTypes
  <2>2. ThreadTypes' BY <1>3 DEF ReleaseStops, ThreadTypes
  <2>3. /\ EntryTypes' /\ WarmTypes' /\ ProvTypes' /\ ContTypes' /\ ExecTypes'
        /\ LoopTypes' /\ LoopBusy' /\ SdkClientTypes'
    BY <1>3, SameTypes DEF ReleaseStops
  <2> QED BY <2>1, <2>2, <2>3, TypePartsNext
<1>4. ASSUME NEW s \in Session, ReleaseReturnsSlot(s) PROVE TInv'
  <2>1. SlotTypes' BY <1>4 DEF ReleaseReturnsSlot, DropLease, SlotTypes
  <2>2. ThreadTypes' BY <1>4 DEF ReleaseReturnsSlot, ThreadTypes
  <2>3. /\ EntryTypes' /\ WarmTypes' /\ ProvTypes' /\ ContTypes' /\ ExecTypes'
        /\ LoopTypes' /\ LoopBusy' /\ SdkClientTypes'
    BY <1>4, SameTypes DEF ReleaseReturnsSlot
  <2> QED BY <2>1, <2>2, <2>3, TypePartsNext
<1>5. ASSUME NEW s \in Session, ReleaseFails(s) PROVE TInv'
  <2>1. SlotTypes' BY <1>5 DEF ReleaseFails, ForgetLease, SlotTypes
  <2>2. ThreadTypes' BY <1>5 DEF ReleaseFails, ThreadTypes
  <2>3. /\ EntryTypes' /\ WarmTypes' /\ ProvTypes' /\ ContTypes' /\ ExecTypes'
        /\ LoopTypes' /\ LoopBusy' /\ SdkClientTypes'
    BY <1>5, SameTypes DEF ReleaseFails
  <2> QED BY <2>1, <2>2, <2>3, TypePartsNext
<1>6. ASSUME NEW s \in Session, ReleaseReports(s) PROVE TInv'
  <2>1. EntryTypes' BY <1>6 DEF ReleaseReports, EntryTypes
  <2>2. ThreadTypes' BY <1>6 DEF ReleaseReports, ThreadTypes
  <2>3. /\ WarmTypes' /\ SlotTypes' /\ ProvTypes' /\ ContTypes' /\ ExecTypes'
        /\ LoopTypes' /\ LoopBusy' /\ SdkClientTypes'
    BY <1>6, SameTypes DEF ReleaseReports, SdkClientTypes
  <2> QED BY <2>1, <2>2, <2>3, TypePartsNext
<1>7. ASSUME NEW s \in Session, ReleaseThreadExits(s) PROVE TInv'
  <2>1. ThreadTypes' BY <1>7 DEF ReleaseThreadExits, ThreadTypes
  <2>2. /\ EntryTypes' /\ WarmTypes' /\ SlotTypes' /\ ProvTypes' /\ ContTypes'
        /\ ExecTypes' /\ LoopTypes' /\ LoopBusy' /\ SdkClientTypes'
    BY <1>7, SameTypes DEF ReleaseThreadExits
  <2> QED BY <2>1, <2>2, TypePartsNext
<1>8. ASSUME NEW t \in Token, NEW outcome \in {"ok", "failed"}, PullFinishes(t, outcome)
      PROVE  TInv'
  <2>1. pull[t] \in PullThread BY SMT, <1>8 DEF PullFinishes, NoPull, ProvTypes
  <2>2. [pull[t] EXCEPT !.at = "sent"] \in PullThread BY <2>1 DEF PullThread
  <2>3. ProvTypes' BY <1>8, <2>2 DEF PullFinishes, ProvTypes
  <2>4. /\ EntryTypes' /\ WarmTypes' /\ SlotTypes' /\ ThreadTypes' /\ ContTypes'
        /\ ExecTypes' /\ LoopTypes' /\ LoopBusy' /\ SdkClientTypes'
    BY <1>8, SameTypes DEF PullFinishes
  <2> QED BY <2>3, <2>4, TypePartsNext
<1>9. ASSUME NEW t \in Token, PullThreadExits(t) PROVE TInv'
  <2>1. ProvTypes' BY <1>9 DEF PullThreadExits, ProvTypes
  <2>2. /\ EntryTypes' /\ WarmTypes' /\ SlotTypes' /\ ThreadTypes' /\ ContTypes'
        /\ ExecTypes' /\ LoopTypes' /\ LoopBusy' /\ SdkClientTypes'
    BY <1>9, SameTypes DEF PullThreadExits
  <2> QED BY <2>1, <2>2, TypePartsNext
<1>10. ASSUME NEW b \in Sandbox, NEW report \in {"finished", "unconfirmed"},
              RunFinishes(b, report) PROVE TInv'
  <2>1. ExecTypes' BY <1>10 DEF RunFinishes, ExecTypes
  <2>2. /\ EntryTypes' /\ WarmTypes' /\ SlotTypes' /\ ThreadTypes' /\ ProvTypes'
        /\ ContTypes' /\ LoopTypes' /\ LoopBusy' /\ SdkClientTypes'
    BY <1>10, SameTypes DEF RunFinishes
  <2> QED BY <2>1, <2>2, TypePartsNext
<1>11. ASSUME NEW b \in Sandbox, RunThreadExits(b) PROVE TInv'
  <2>1. ExecTypes' BY <1>11 DEF RunThreadExits, ExecTypes
  <2>2. /\ EntryTypes' /\ WarmTypes' /\ SlotTypes' /\ ThreadTypes' /\ ProvTypes'
        /\ ContTypes' /\ LoopTypes' /\ LoopBusy' /\ SdkClientTypes'
    BY <1>11, SameTypes DEF RunThreadExits
  <2> QED BY <2>1, <2>2, TypePartsNext
<1> QED BY <1>1, <1>2, <1>3, <1>4, <1>5, <1>6, <1>7, <1>8, <1>9, <1>10, <1>11 DEF Threads

LEMMA TimeStep == ASSUME TInv, Time PROVE TInv'
<1> USE TypeParts DEF TInv
<1>1. ASSUME NEW s \in Session, BootDeadlineElapses(s) PROVE TInv'
  <2>1. EntryTypes' BY <1>1 DEF BootDeadlineElapses, EntryTypes
  <2>2. /\ WarmTypes' /\ SlotTypes' /\ ThreadTypes' /\ ProvTypes' /\ ContTypes'
        /\ ExecTypes' /\ LoopTypes' /\ LoopBusy' /\ SdkClientTypes'
    BY <1>1, SameTypes DEF BootDeadlineElapses
  <2> QED BY <2>1, <2>2, TypePartsNext
<1>2. ASSUME NEW s \in Session, ReleaseWaitElapses(s) PROVE TInv'
  <2>1. WarmTypes' BY <1>2 DEF ReleaseWaitElapses, WarmTypes
  <2>2. /\ EntryTypes' /\ SlotTypes' /\ ThreadTypes' /\ ProvTypes' /\ ContTypes'
        /\ ExecTypes' /\ LoopTypes' /\ LoopBusy' /\ SdkClientTypes'
    BY <1>2, SameTypes DEF ReleaseWaitElapses
  <2> QED BY <2>1, <2>2, TypePartsNext
<1>3. ASSUME NEW s \in Session, GraceElapses(s) PROVE TInv'
  <2>1. EntryTypes' BY <1>3 DEF GraceElapses, EntryTypes
  <2>2. /\ WarmTypes' /\ SlotTypes' /\ ThreadTypes' /\ ProvTypes' /\ ContTypes'
        /\ ExecTypes' /\ LoopTypes' /\ LoopBusy' /\ SdkClientTypes'
    BY <1>3, SameTypes DEF GraceElapses
  <2> QED BY <2>1, <2>2, TypePartsNext
<1>4. ASSUME NEW t \in Token, PullDeadlineElapses(t) PROVE TInv'
  <2>1. ProvTypes' BY <1>4 DEF PullDeadlineElapses, ProvTypes
  <2>2. /\ EntryTypes' /\ WarmTypes' /\ SlotTypes' /\ ThreadTypes' /\ ContTypes'
        /\ ExecTypes' /\ LoopTypes' /\ LoopBusy' /\ SdkClientTypes'
    BY <1>4, SameTypes DEF PullDeadlineElapses
  <2> QED BY <2>1, <2>2, TypePartsNext
<1> QED BY <1>1, <1>2, <1>3, <1>4 DEF Time

LEMMA EndingStep == ASSUME TInv, Ending PROVE TInv'
<1> USE TypeParts DEF TInv
<1>1. ASSUME Shutdown PROVE TInv'
  <2>1. EntryTypes'
    <3>1. reply' \in [Session -> Client \cup {None}] BY <1>1 DEF Shutdown, EntryTypes
    <3>2. parked' \in [Session -> Seq(Request)]
      <4>1. <<>> \in Seq(Request) BY SMT
      <4> QED BY <1>1, <4>1 DEF Shutdown
    <3> QED BY <1>1, <3>1, <3>2 DEF Shutdown, EntryTypes
  <2>2. ProvTypes' BY <1>1 DEF Shutdown, ProvTypes
  <2>3. LoopTypes' /\ LoopBusy' BY <1>1 DEF Shutdown, Teardown, LoopTypes, LoopBusy
  <2>4. /\ WarmTypes' /\ SlotTypes' /\ ThreadTypes' /\ ContTypes' /\ ExecTypes'
        /\ SdkClientTypes'
    BY <1>1, SameTypes DEF Shutdown, SdkClientTypes
  <2> QED BY <2>1, <2>2, <2>3, <2>4, TypePartsNext
<1>2. ASSUME ExecsDrained PROVE TInv'
  <2>1. LoopTypes' /\ LoopBusy' BY <1>2 DEF ExecsDrained, Teardown, LoopTypes,
       LoopBusy
  <2>2. /\ EntryTypes' /\ WarmTypes' /\ SlotTypes' /\ ThreadTypes' /\ ProvTypes'
        /\ ContTypes' /\ ExecTypes' /\ SdkClientTypes'
    BY <1>2, SameTypes DEF ExecsDrained
  <2> QED BY <2>1, <2>2, TypePartsNext
<1>3. ASSUME ExecDrainTimesOut PROVE TInv'
  <2>1. EntryTypes' BY <1>3 DEF ExecDrainTimesOut, EntryState, EntryTypes
  <2>2. ContTypes' /\ ExecTypes' BY <1>3 DEF ExecDrainTimesOut, ContTypes, ExecTypes
  <2>3. LoopTypes' /\ LoopBusy' BY <1>3 DEF ExecDrainTimesOut, LoopTypes, LoopBusy
  <2>4. SdkClientTypes' BY <1>3 DEF ExecDrainTimesOut, SdkClientTypes
  <2>5. /\ WarmTypes' /\ SlotTypes' /\ ThreadTypes' /\ ProvTypes'
    BY <1>3, SameTypes DEF ExecDrainTimesOut
  <2> QED BY <2>1, <2>2, <2>3, <2>4, <2>5, TypePartsNext
<1>4. ASSUME NEW b \in Sandbox, CollectExec(b) PROVE TInv'
  <2>1. ContTypes' /\ ExecTypes' BY <1>4, RetireExecTypes DEF CollectExec
  <2>2. /\ EntryTypes' /\ WarmTypes' /\ SlotTypes' /\ ThreadTypes' /\ ProvTypes'
        /\ LoopTypes' /\ LoopBusy' /\ SdkClientTypes'
    BY <1>4, SameTypes DEF CollectExec, SdkClientTypes
  <2> QED BY <2>1, <2>2, TypePartsNext
<1>5. ASSUME NEW s \in Session, CollectBoot(s) PROVE TInv'
  BY <1>5, ReleaseBootedDuringShutdownTypes
       DEF CollectBoot, ReleaseBootedDuringShutdown, LoopBusy
<1>6. ASSUME CollectDone PROVE TInv'
  <2>1. ContTypes' /\ ExecTypes' BY <1>6 DEF CollectDone, ContTypes, ExecTypes
  <2>2. LoopTypes' /\ LoopBusy' BY <1>6 DEF CollectDone, Teardown, LoopTypes,
       LoopBusy
  <2>3. /\ EntryTypes' /\ WarmTypes' /\ SlotTypes' /\ ThreadTypes' /\ ProvTypes'
        /\ SdkClientTypes'
    BY <1>6, SameTypes DEF CollectDone, SdkClientTypes
  <2> QED BY <2>1, <2>2, <2>3, TypePartsNext
<1>7. ASSUME BootsDrained PROVE TInv'
  <2>1. LoopTypes' /\ LoopBusy' BY <1>7 DEF BootsDrained, Teardown, LoopTypes,
       LoopBusy
  <2>2. /\ EntryTypes' /\ WarmTypes' /\ SlotTypes' /\ ThreadTypes' /\ ProvTypes'
        /\ ContTypes' /\ ExecTypes' /\ SdkClientTypes'
    BY <1>7, SameTypes DEF BootsDrained
  <2> QED BY <2>1, <2>2, TypePartsNext
<1>8. ASSUME BootDrainTimesOut PROVE TInv'
  <2>1. EntryTypes' BY <1>8 DEF BootDrainTimesOut, EntryState, EntryTypes
  <2>2. LoopTypes' /\ LoopBusy' BY <1>8 DEF BootDrainTimesOut, Teardown, LoopTypes,
       LoopBusy
  <2>3. /\ WarmTypes' /\ SlotTypes' /\ ThreadTypes' /\ ProvTypes' /\ ContTypes'
        /\ ExecTypes' /\ SdkClientTypes'
    BY <1>8, SameTypes DEF BootDrainTimesOut
  <2> QED BY <2>1, <2>2, <2>3, TypePartsNext
<1>9. ASSUME NEW s \in Session, CollectLateBoot(s) PROVE TInv'
  BY <1>9, ReleaseBootedDuringShutdownTypes
       DEF CollectLateBoot, ReleaseBootedDuringShutdown, LoopBusy
<1>10. ASSUME LateBootsDone PROVE TInv'
  <2>1. EntryTypes' BY <1>10 DEF LateBootsDone, EntryState, EntryTypes
  <2>2. SlotTypes' BY <1>10 DEF LateBootsDone, SlotTypes
  <2>3. LoopTypes' /\ LoopBusy' BY <1>10 DEF LateBootsDone, Teardown, LoopTypes,
       LoopBusy
  <2>4. /\ WarmTypes' /\ ThreadTypes' /\ ProvTypes' /\ ContTypes' /\ ExecTypes'
        /\ SdkClientTypes'
    BY <1>10, SameTypes DEF LateBootsDone
  <2> QED BY <2>1, <2>2, <2>3, <2>4, TypePartsNext
<1>11. ASSUME NEW s \in Session, SessionDrained(s) PROVE TInv'
  <2>0. UNCHANGED <<reply, parked, earlier, age, empty, default>> BY <1>11 DEF SessionDrained
  <2>01. PICK st \in EntryState : sess' = [sess EXCEPT ![s] = st]
    BY <1>11 DEF SessionDrained, EntryState
  <2>1. EntryTypes' BY <2>0, <2>01 DEF EntryTypes
  <2>2. LoopTypes' BY <1>11 DEF SessionDrained, LoopTypes
  <2>3. /\ WarmTypes' /\ SlotTypes' /\ ThreadTypes' /\ ProvTypes' /\ ContTypes' /\ ExecTypes'
        /\ LoopBusy' /\ SdkClientTypes'
    BY <1>11, SameTypes DEF SessionDrained, LoopBusy
  <2> QED BY <2>1, <2>2, <2>3, TypePartsNext
<1>12. ASSUME SessionsDrained PROVE TInv'
  <2>1. LoopTypes' /\ LoopBusy' BY <1>12 DEF SessionsDrained, Teardown, LoopTypes,
       LoopBusy
  <2>2. /\ EntryTypes' /\ WarmTypes' /\ SlotTypes' /\ ThreadTypes' /\ ProvTypes'
        /\ ContTypes' /\ ExecTypes' /\ SdkClientTypes'
    BY <1>12, SameTypes DEF SessionsDrained
  <2> QED BY <2>1, <2>2, TypePartsNext
<1>13. ASSUME NEW s \in Session, ReleaseDuringShutdown(s) PROVE TInv'
  <2> USE DEF ReleaseDuringShutdown
  <2>1. EntryTypes' BY <1>13 DEF EntryTypes, EntryState
  <2>2. SlotTypes' BY <1>13, ForgetLeaseTypes DEF SlotTypes, slotVars
  <2>3. ThreadTypes' BY <1>13 DEF ThreadTypes
  <2>4. LoopTypes' BY <1>13 DEF LoopTypes
  <2>5. WarmTypes' /\ ProvTypes' /\ ContTypes' /\ ExecTypes' /\ LoopBusy' /\ SdkClientTypes'
    BY <1>13, SameTypes DEF LoopBusy
  <2> QED BY <2>1, <2>2, <2>3, <2>4, <2>5, TypePartsNext
<1>14. ASSUME AllReleasesStarted PROVE TInv'
  <2>1. LoopTypes' /\ LoopBusy' BY <1>14 DEF AllReleasesStarted, Teardown, LoopTypes,
       LoopBusy
  <2>2. /\ EntryTypes' /\ WarmTypes' /\ SlotTypes' /\ ThreadTypes' /\ ProvTypes'
        /\ ContTypes' /\ ExecTypes' /\ SdkClientTypes'
    BY <1>14, SameTypes DEF AllReleasesStarted
  <2> QED BY <2>1, <2>2, TypePartsNext
<1>15. ASSUME UnloadSdk PROVE TInv'
  <2>1. LoopTypes' /\ LoopBusy' BY <1>15 DEF UnloadSdk, LoopTypes, LoopBusy
  <2>2. SdkClientTypes' BY <1>15 DEF UnloadSdk, SdkClientTypes, clientVars
  <2>3. /\ EntryTypes' /\ WarmTypes' /\ SlotTypes' /\ ThreadTypes' /\ ProvTypes'
        /\ ContTypes' /\ ExecTypes'
    BY <1>15, SameTypes DEF UnloadSdk
  <2> QED BY <2>1, <2>2, <2>3, TypePartsNext
<1>16. ASSUME Unwind PROVE TInv'
  <2> USE DEF Unwind
  <2>1. EntryTypes'
    <3>1. sess' \in [Session -> EntryState] BY <1>16 DEF EntryState
    <3>2. reply' \in [Session -> Client \cup {None}] BY <1>16 DEF EntryTypes
    <3>3. parked' \in [Session -> Seq(Request)]
      <4>1. <<>> \in Seq(Request) BY SMT
      <4> QED BY <1>16, <4>1
    <3> QED BY <1>16, <3>1, <3>2, <3>3 DEF EntryTypes
  <2>2. SlotTypes' BY <1>16 DEF SlotTypes, slotVars
  <2>3. ProvTypes' BY <1>16 DEF ProvTypes
  <2>4. ContTypes' BY <1>16 DEF ContTypes
  <2>5. ExecTypes' /\ WarmTypes' /\ ThreadTypes' BY <1>16, SameTypes DEF ExecTypes
  <2>6. LoopTypes' /\ LoopBusy'
    <3>1. <<>> \in Seq(Request) /\ <<>> \in Seq(Work) BY SMT
    <3> QED BY <1>16, <3>1 DEF LoopTypes, LoopBusy
  <2>7. SdkClientTypes' BY <1>16 DEF SdkClientTypes, SendersOfReleases
  <2> QED BY <2>1, <2>2, <2>3, <2>4, <2>5, <2>6, <2>7, TypePartsNext
<1> QED BY <1>1, <1>2, <1>3, <1>4, <1>5, <1>6, <1>7, <1>8, <1>9, <1>10, <1>11, <1>12, <1>13,
           <1>14, <1>15, <1>16 DEF Ending

LEMMA TypeInvHolds == Spec => []TInv
<1>1. Init => TInv
  <2> SUFFICES ASSUME Init PROVE TInv OBVIOUS
  <2>1. <<>> \in Seq(Request) /\ <<>> \in Seq(Work) BY SMT
  <2> QED BY <2>1 DEF Init, TInv, TypeOK, LoopBusy, EntryState, Serving
<1>2. TInv /\ [Next]_vars => TInv'
  <2>1. ASSUME TInv, UNCHANGED vars PROVE TInv'
    BY <2>1, SameTypes, TypePartsNext DEF TInv, vars
  <2> QED BY <2>1, RequestsStep, ReportsStep, RoundsStep, ThreadsStep, TimeStep, EndingStep
          DEF Next
<1> QED BY <1>1, <1>2, PTL DEF Spec

\* Whatever the worker and its threads do, every map, report and counter of the
\* session manager keeps its shape.
THEOREM TypeCorrect == Spec => []TypeOK
  BY TypeInvHolds, PTL DEF TInv

-----------------------------------------------------------------------------
(* Store slots *)

USE DEF entryVars, warmVars, slotVars, threadVars, provVars, contVars, execVars,
        loopVars, clientVars, vars

\* Where an unfinished boot is still going to be collected.
Unfinished == Serving \cup {"drainExecs", "collect", "drainBoots", "collectBoots"}

PoolInv ==
  /\ \A s \in Session : lease[s] # None => lease[s] \in held /\ lease[s] \notin stray
  /\ \A s1, s2 \in Session : s1 # s2 /\ lease[s1] # None => lease[s1] # lease[s2]
  /\ stray \subseteq held
  /\ \A k \in held : k \in stray \/ \E s \in Session : lease[s] = k
  /\ \A s \in Session : vm[s] # None => vm[s] = lease[s]

BootInv ==
  /\ \A s \in Session : bootMsg[s] = "failed" \/ rel[s] = "stopped" => vm[s] = None
  /\ \A s \in Session : sess[s] = "waiting" =>
       lease[s] = None /\ boot[s] = "idle" /\ bootMsg[s] = "none" /\ rel[s] = "idle"
  /\ pc \in Unfinished => \A s \in Session : sess[s] \in {"booting", "abandoned"} =>
       boot[s] = "running" \/ bootMsg[s] # "none"
  /\ pc = "collectBoots" => \A s \in Session : boot[s] = "idle"
  /\ pc \in Serving => \A s \in Session : lease[s] # None =>
       sess[s] \in {"booting", "abandoned", "ready"} \/ rel[s] \in {"stopping", "stopped"}

\* What a step has to show of the pool.
PoolStep == PoolInv' /\ [Pool!Next]_(Pool!vars)

-----------------------------------------------------------------------------
(* The uses of the pool.                                                   *)

LEMMA PoolSame ==
  ASSUME PoolInv, UNCHANGED slotVars PROVE PoolStep
BY DEF PoolInv, PoolStep, Pool!vars

\* A boot or release thread closes the store it had open.
LEMMA PoolClosed ==
  ASSUME SlotTypes, PoolInv, NEW s \in Session, vm' = [vm EXCEPT ![s] = None],
         UNCHANGED <<held, lease, stray>>
  PROVE  PoolStep
BY SMT DEF SlotTypes, PoolInv, PoolStep, Pool!vars

LEMMA PoolLeased ==
  ASSUME SlotTypes, PoolInv, NEW s \in Session, lease[s] = None, LeaseAndBoot(s)
  PROVE  PoolStep
<1>1. PICK k \in Slot \ held :
        /\ \A j \in Slot \ held : k <= j
        /\ held' = held \cup {k}
        /\ lease' = [lease EXCEPT ![s] = k]
        /\ vm' = [vm EXCEPT ![s] = k]
  BY DEF LeaseAndBoot
<1>2. stray' = stray BY SMT DEF LeaseAndBoot
<1>3. k # None BY SMT, NoneAssumption DEF Slot
<1>4. PoolInv'
  <2>1. \A x \in Session \ {s} : lease'[x] = lease[x] /\ vm'[x] = vm[x]
    BY <1>1 DEF SlotTypes
  <2>2. lease'[s] = k /\ vm'[s] = k
    BY <1>1 DEF SlotTypes
  <2>3. \A x \in Session \ {s} : lease[x] # None => lease[x] # k
    BY <1>1 DEF PoolInv
  <2>4. ASSUME NEW j \in held' PROVE j \in stray' \/ \E x \in Session : lease'[x] = j
    <3>1. CASE j = k BY <3>1, <2>2
    <3>2. CASE j # k
      <4>1. j \in held BY <3>2, <1>1, <2>4
      <4>2. CASE j \in stray BY <4>2, <1>2
      <4>3. CASE j \notin stray
        <5>1. PICK x \in Session : lease[x] = j BY <4>1, <4>3 DEF PoolInv
        <5>2. x # s BY SMT, <5>1, <4>1, NoneAssumption DEF SlotTypes, Slot
        <5> QED BY <5>1, <5>2, <2>1
      <4> QED BY <4>2, <4>3
    <3> QED BY <3>1, <3>2
  <2>5. k \notin stray /\ stray' \subseteq held' BY <1>1, <1>2 DEF PoolInv
  <2>6. \A x \in Session : lease'[x] # None => lease'[x] \in held' /\ lease'[x] \notin stray'
    BY SMT, <1>1, <1>2, <2>1, <2>2, <2>5 DEF PoolInv
  <2>7. \A x \in Session : vm'[x] # None => vm'[x] = lease'[x]
    BY <2>1, <2>2 DEF PoolInv
  <2>8. \A x, y \in Session : x # y /\ lease'[x] # None => lease'[x] # lease'[y]
    BY SMT, <1>3, <2>1, <2>2, <2>3 DEF PoolInv
  <2> QED BY <2>4, <2>5, <2>6, <2>7, <2>8 DEF PoolInv
<1>5. Pool!Lease(s) BY <1>1 DEF Pool!Lease, Pool!Slot, Slot
<1> QED BY <1>4, <1>5 DEF PoolStep, Pool!Next

LEMMA PoolReturned ==
  ASSUME SlotTypes, PoolInv, NEW owners \in SUBSET Session,
         held' = held \ {lease[s] : s \in owners},
         lease' = [s \in Session |-> IF s \in owners THEN None ELSE lease[s]],
         \A s \in Session : vm'[s] # None => s \notin owners /\ vm'[s] = vm[s],
         stray' = stray
  PROVE  PoolStep
<1>1. PoolInv'
  <2>1. ASSUME NEW s \in Session, lease'[s] # None
        PROVE  s \notin owners /\ lease'[s] = lease[s] /\ lease[s] \in held /\ lease[s] \notin stray
    BY <2>1 DEF PoolInv
  <2>2. ASSUME NEW s \in Session, lease'[s] # None PROVE lease'[s] \in held'
    BY SMT, <2>1, <2>2 DEF PoolInv
  <2>3. stray' \subseteq held'
    BY SMT, NoneAssumption DEF PoolInv, SlotTypes, Slot
  <2>4. ASSUME NEW k \in held' PROVE k \in stray' \/ \E s \in Session : lease'[s] = k
    BY SMT, <2>4 DEF PoolInv
  <2> QED BY SMT, <2>1, <2>2, <2>3, <2>4 DEF PoolInv
<1>2. Pool!Return(owners) BY DEF Pool!Return
<1> QED BY <1>1, <1>2 DEF PoolStep, Pool!Next

LEMMA PoolDropped ==
  ASSUME SlotTypes, PoolInv, NEW s \in Session, vm[s] = None, DropLease(s)
  PROVE  PoolStep
<1>1. /\ held' = held \ {lease[x] : x \in {s}}
      /\ lease' = [x \in Session |-> IF x \in {s} THEN None ELSE lease[x]]
      /\ vm' = vm /\ stray' = stray
  BY DEF DropLease, SlotTypes
<1>2. \A x \in Session : vm'[x] # None => x \notin {s} /\ vm'[x] = vm[x]
  BY <1>1
<1> QED BY <1>1, <1>2, PoolReturned

LEMMA PoolForgotten ==
  ASSUME SlotTypes, PoolInv, NEW s \in Session, ForgetLease(s)
  PROVE  PoolStep
<1>1. Pool!Forget(s) BY DEF ForgetLease, Pool!Forget
<1>2. PoolInv'
  <2>1. /\ stray' = stray \cup ({lease[s]} \ {None})
        /\ lease' = [lease EXCEPT ![s] = None]
        /\ vm' = [vm EXCEPT ![s] = None] /\ held' = held
    BY DEF ForgetLease
  <2>2. \A x \in Session : lease'[x] # None =>
          x # s /\ lease'[x] = lease[x] /\ lease[x] # lease[s]
    BY <2>1 DEF PoolInv, SlotTypes
  <2>3. ASSUME NEW k \in held' PROVE k \in stray' \/ \E x \in Session : lease'[x] = k
    <3>1. CASE k = lease[s] /\ k # None BY <3>1, <2>1
    <3>2. CASE k # lease[s] BY <3>2, <2>1, <2>3 DEF PoolInv, SlotTypes
    <3>3. k # None BY SMT, <2>1, <2>3, NoneAssumption DEF SlotTypes, Slot
    <3> QED BY <3>1, <3>2, <3>3
  <2> QED BY SMT, <2>1, <2>2, <2>3 DEF PoolInv, SlotTypes
<1> QED BY <1>1, <1>2 DEF PoolStep, Pool!Next

-----------------------------------------------------------------------------
(* Steps that leave entries, boots and releases alone.                     *)

Same == UNCHANGED <<sess, boot, bootMsg, rel, held, lease, vm, stray, warm>>

\* The worker moves on, and not back into an earlier phase.
Onward ==
  /\ pc' \in Serving => pc \in Serving
  /\ pc' \in Unfinished => pc \in Unfinished
  /\ pc' = "collectBoots" => pc = "collectBoots"

LEMMA SameKeeps ==
  ASSUME PoolInv, BootInv, Same, Onward PROVE PoolStep /\ BootInv'
BY SMT, PoolSame DEF Same, Onward, BootInv

LEMMA WithinServing ==
  ASSUME pc \in Serving, pc' \in Serving PROVE Onward
BY SMT DEF Onward, Unfinished, Serving
-----------------------------------------------------------------------------
(* Entries, boots and releases.                                            *)

Shapes == sess \in [Session -> EntryState] /\ SlotTypes /\ ThreadTypes

LEMMA TypesGiveShapes == ASSUME TypeOK PROVE Shapes
BY SMT, TypeParts DEF Shapes, EntryTypes

LEMMA BeginSessionSlots ==
  ASSUME Shapes, PoolInv, BootInv, pc \in Serving, pc' \in Serving,
         NEW s \in Session, BeginSession(s)
  PROVE  PoolStep /\ BootInv'
<1>1. FreshSession(s) /\ lease[s] = None
  BY DEF BeginSession, FreshSession, BootInv
<1>2. CASE ShouldWaitForARelease
  <2>1. sess' = [sess EXCEPT ![s] = "waiting"] /\ UNCHANGED <<slotVars, threadVars>>
    BY <1>2 DEF BeginSession
  <2>2. BootInv'
    BY SMT, <1>1, <2>1 DEF Shapes, BootInv, FreshSession, Unfinished, Serving
  <2> QED BY SMT, <2>1, <2>2, PoolSame
<1>3. CASE ~ShouldWaitForARelease
  <2>1. LeaseAndBoot(s) /\ sess' = [sess EXCEPT ![s] = "booting"]
    BY <1>3 DEF BeginSession
  <2>2. PoolStep BY <1>1, <2>1, PoolLeased DEF Shapes
  <2>3. BootInv'
    <3>1. /\ boot' = [boot EXCEPT ![s] = "running"]
          /\ UNCHANGED <<bootMsg, rel, relMsg>>
          /\ \A x \in Session \ {s} : lease'[x] = lease[x] /\ vm'[x] = vm[x]
      BY SMT, <2>1 DEF LeaseAndBoot, Shapes, SlotTypes
    <3> QED BY SMT, <1>1, <2>1, <3>1 DEF Shapes, ThreadTypes, BootInv, FreshSession, Unfinished, Serving
  <2> QED BY SMT, <2>2, <2>3
<1> QED BY SMT, <1>2, <1>3

LEMMA ReleaseSessionEntrySlots ==
  ASSUME Shapes, PoolInv, BootInv, pc \in Serving, pc' \in Serving,
         NEW s \in Session, UNCHANGED slotVars, NEW c,
         ReleaseSessionEntry(s, c) \/ ReleaseSessionEntryFails(s)
  PROVE  PoolStep /\ BootInv'
<1>1. CASE ReleaseSessionEntry(s, c)
  <2>1. /\ sess' = [sess EXCEPT ![s] = "absent"]
        /\ rel' = [rel EXCEPT ![s] = "stopping"] /\ UNCHANGED <<boot, bootMsg>>
    BY <1>1 DEF ReleaseSessionEntry
  <2>2. BootInv'
    BY SMT, <2>1 DEF Shapes, ThreadTypes, BootInv, Unfinished, Serving
  <2> QED BY <2>2, PoolSame
<1>2. CASE ReleaseSessionEntryFails(s)
  BY <1>2, SameKeeps, WithinServing DEF ReleaseSessionEntryFails, Same
<1> QED BY <1>1, <1>2

LEMMA BeginProvisionSlots ==
  ASSUME Shapes, PoolInv, BootInv, pc \in Serving, pc' \in Serving,
         NEW req, BeginProvision(req)
  PROVE  PoolStep /\ BootInv'
<1>1. CASE BootImplicitSession(req)
  <2>1. CASE \E fresh \in Session : BeginSession(fresh)
    BY <2>1, BeginSessionSlots
  <2>2. CASE LeaseAndBootFails /\ UNCHANGED <<entryVars, began>>
    BY <2>2, SameKeeps, WithinServing DEF LeaseAndBootFails, Same
  <2> QED BY <1>1, <2>1, <2>2 DEF BootImplicitSession
<1>2. CASE ~BootImplicitSession(req)
  <2>1. Same
    BY <1>2 DEF BeginProvision, ParkProvision, ProvisionFromStore, ProvisionByPull,
                RefuseProvision, Same
  <2> QED BY <2>1, SameKeeps, WithinServing
<1> QED BY <1>1, <1>2

\* A boot's entry leaves the pending map and is not given back as pending.
LEMMA ReleaseBootedDuringShutdownSlots ==
  ASSUME Shapes, PoolInv, BootInv, pc \notin Serving, pc' = pc, NEW s \in Session,
         ReleaseBootedDuringShutdown(s)
  PROVE  PoolStep /\ BootInv'
<1>0. /\ bootMsg[s] # "none" /\ bootMsg' = [bootMsg EXCEPT ![s] = "none"]
      /\ sess' = [sess EXCEPT ![s] = "absent"] /\ boot' = boot
  BY DEF ReleaseBootedDuringShutdown, RemovePending
<1>1. CASE rel' = [rel EXCEPT ![s] = "stopping"] /\ UNCHANGED slotVars
  <2>1. BootInv' BY SMT, <1>0, <1>1 DEF Shapes, ThreadTypes, BootInv
  <2> QED BY <1>1, <2>1, PoolSame
<1>2. CASE ForgetLease(s) /\ UNCHANGED rel
  <2>1. BootInv' BY SMT, <1>0, <1>2 DEF ForgetLease, Shapes, SlotTypes, ThreadTypes, BootInv
  <2> QED BY <1>2, <2>1, PoolForgotten DEF Shapes
<1>3. CASE bootMsg[s] = "failed" /\ DropLease(s) /\ UNCHANGED rel
  <2>1. vm[s] = None BY <1>3 DEF BootInv
  <2>2. BootInv' BY SMT, <1>0, <1>3 DEF DropLease, Shapes, SlotTypes, ThreadTypes, BootInv
  <2> QED BY <1>3, <2>1, <2>2, PoolDropped DEF Shapes
<1> QED BY <1>1, <1>2, <1>3 DEF ReleaseBootedDuringShutdown
-----------------------------------------------------------------------------
(* The steps.                                                              *)

LEMMA RequestsSlots ==
  ASSUME TypeOK, PoolInv, BootInv, Requests PROVE PoolStep /\ BootInv'
<1> USE TypesGiveShapes
<1>1. ASSUME NEW c \in Client, ProvisionSession(c) PROVE PoolStep /\ BootInv'
  <2>1. pc \in Serving /\ pc' \in Serving BY <1>1 DEF ProvisionSession, Serving
  <2>2. CASE \E s \in Session : BeginSession(s) BY <2>1, <2>2, BeginSessionSlots
  <2>3. CASE LeaseAndBootFails /\ UNCHANGED <<entryVars, began>>
    BY <2>1, <2>3, SameKeeps, WithinServing DEF LeaseAndBootFails, Same
  <2> QED BY <1>1, <2>2, <2>3 DEF ProvisionSession
<1>2. ASSUME NEW c \in Client, NEW s \in Session, DeprovisionSession(c, s)
      PROVE  PoolStep /\ BootInv'
  <2>1. /\ pc \in Serving /\ pc' \in Serving /\ UNCHANGED slotVars
        /\ ReleaseSessionEntry(s, c) \/ ReleaseSessionEntryFails(s)
    BY <1>2 DEF DeprovisionSession, Serving
  <2> QED BY <2>1, ReleaseSessionEntrySlots
<1>3. ASSUME NEW c \in Client, NEW names \in Session \cup {None}, Provision(c, names)
      PROVE  PoolStep /\ BootInv'
  <2>1. /\ pc \in Serving /\ pc' \in Serving
        /\ BeginProvision([client |-> c, names |-> names])
    BY <1>3 DEF Provision, Serving
  <2> QED BY <2>1, BeginProvisionSlots
<1>4. ASSUME \/ \E c \in Client : \E b \in Sandbox : BeginExec(c, b)
             \/ \E w \in Work : Lifecycle(w)
             \/ \E b \in Sandbox : Retire(b)
      PROVE  PoolStep /\ BootInv'
  <2>1. Same /\ pc \in Serving /\ pc' \in Serving
    BY <1>4 DEF BeginExec, Lifecycle, Retire, Same, Serving
  <2> QED BY <2>1, SameKeeps, WithinServing
<1>5. ASSUME Poll PROVE PoolStep /\ BootInv'
  <2>1. /\ pc = "serve" /\ pc' = "reap" /\ UNCHANGED <<slotVars, threadVars>>
        /\ sess' = [s \in Session |->
                      IF s \notin StuckBoots THEN sess[s]
                      ELSE IF lease[s] = None THEN "absent" ELSE "abandoned"]
    BY <1>5 DEF Poll, ReapStuckBoots
  <2>2. BootInv'
    BY <2>1 DEF Shapes, ThreadTypes, BootInv, StuckBoots, Unfinished, Serving
  <2> QED BY <2>1, <2>2, PoolSame
<1> QED BY <1>1, <1>2, <1>3, <1>4, <1>5 DEF Requests

LEMMA ReportsSlots ==
  ASSUME TypeOK, PoolInv, BootInv, Reports PROVE PoolStep /\ BootInv'
<1> USE TypesGiveShapes
<1>1. ASSUME NEW s \in Session, SessionBooted(s) PROVE PoolStep /\ BootInv'
  <2>1. /\ pc = "serve" /\ pc' \in Serving /\ UNCHANGED slotVars
        /\ sess' = [sess EXCEPT ![s] = "ready"]
        /\ bootMsg' = [bootMsg EXCEPT ![s] = "none"] /\ UNCHANGED <<boot, rel>>
    BY <1>1 DEF SessionBooted, RemovePending, Serving
  <2>2. BootInv'
    <3>1. /\ sess'[s] = "ready" /\ bootMsg'[s] = "none"
          /\ \A x \in Session \ {s} : sess'[x] = sess[x] /\ bootMsg'[x] = bootMsg[x]
      BY <2>1 DEF Shapes, ThreadTypes
    <3>2. UNCHANGED <<vm, lease, boot, rel>> BY <2>1 DEF slotVars
    <3>3. pc \in Serving /\ pc \in Unfinished /\ pc' # "collectBoots"
      BY <2>1 DEF Serving, Unfinished
    <3>4. \A x \in Session : bootMsg'[x] = "failed" \/ rel'[x] = "stopped" => vm'[x] = None
      BY <3>1, <3>2 DEF BootInv
    <3>5. \A x \in Session : sess'[x] = "waiting" =>
            lease'[x] = None /\ boot'[x] = "idle" /\ bootMsg'[x] = "none" /\ rel'[x] = "idle"
      BY <3>1, <3>2 DEF BootInv
    <3>6. \A x \in Session : sess'[x] \in {"booting", "abandoned"} =>
            boot'[x] = "running" \/ bootMsg'[x] # "none"
      BY <3>1, <3>2, <3>3 DEF BootInv
    <3>7. \A x \in Session : lease'[x] # None =>
            sess'[x] \in {"booting", "abandoned", "ready"} \/ rel'[x] \in {"stopping", "stopped"}
      BY <3>1, <3>2, <3>3 DEF BootInv
    <3> QED BY <3>3, <3>4, <3>5, <3>6, <3>7 DEF BootInv
  <2> QED BY <2>1, <2>2, PoolSame
<1>2. ASSUME NEW s \in Session, SessionBootFailed(s) PROVE PoolStep /\ BootInv'
  <2>1. /\ pc = "serve" /\ pc' = pc /\ bootMsg' = [bootMsg EXCEPT ![s] = "none"]
        /\ sess' = [sess EXCEPT ![s] = "absent"] /\ UNCHANGED <<boot, rel>>
    BY <1>2 DEF SessionBootFailed, FailSession, RemovePending
  <2>2. CASE bootMsg[s] = "stuck" /\ ForgetLease(s)
    <3>1. BootInv'
      BY SMT, <2>1, <2>2 DEF ForgetLease, Shapes, SlotTypes, ThreadTypes, BootInv, Unfinished, Serving
    <3> QED BY <2>2, <3>1, PoolForgotten DEF Shapes
  <2>3. CASE bootMsg[s] = "failed" /\ DropLease(s)
    <3>1. vm[s] = None BY <2>3 DEF BootInv
    <3>2. BootInv'
      BY SMT, <2>1, <2>3 DEF DropLease, Shapes, SlotTypes, ThreadTypes, BootInv, Unfinished, Serving
    <3> QED BY <2>3, <3>1, <3>2, PoolDropped DEF Shapes
  <2> QED BY <1>2, <2>2, <2>3 DEF SessionBootFailed
<1>3. ASSUME NEW s \in Session, SessionBootedAbandoned(s) PROVE PoolStep /\ BootInv'
  <2>1. /\ pc = "serve" /\ pc' = pc /\ bootMsg' = [bootMsg EXCEPT ![s] = "none"]
        /\ sess' = [sess EXCEPT ![s] = "absent"] /\ boot' = boot
    BY <1>3 DEF SessionBootedAbandoned, RemovePending
  <2>2. CASE rel' = [rel EXCEPT ![s] = "stopping"] /\ UNCHANGED slotVars
    <3>1. BootInv' BY SMT, <2>1, <2>2 DEF Shapes, ThreadTypes, BootInv, Unfinished, Serving
    <3> QED BY <2>2, <3>1, PoolSame
  <2>3. CASE ForgetLease(s) /\ UNCHANGED rel
    <3>1. BootInv'
      BY SMT, <2>1, <2>3 DEF ForgetLease, Shapes, SlotTypes, ThreadTypes, BootInv, Unfinished, Serving
    <3> QED BY <2>3, <3>1, PoolForgotten DEF Shapes
  <2> QED BY <1>3, <2>2, <2>3 DEF SessionBootedAbandoned
<1>4. ASSUME \/ \E s \in Session : SessionReleased(s)
             \/ \E t \in Token : PullFinished(t) \/ PullExpired(t)
             \/ \E b \in Sandbox : ExecFinished(b)
      PROVE  PoolStep /\ BootInv'
  <2>1. Same /\ pc \in Serving /\ pc' \in Serving
    BY <1>4 DEF SessionReleased, PullFinished, PullExpired, ExecFinished, Same, Serving
  <2> QED BY <2>1, SameKeeps, WithinServing
<1> QED BY <1>1, <1>2, <1>3, <1>4 DEF Reports
LEMMA RoundsSlots ==
  ASSUME TypeOK, PoolInv, BootInv, Rounds PROVE PoolStep /\ BootInv'
<1> USE TypesGiveShapes
<1>1. ASSUME ReplayParked PROVE PoolStep /\ BootInv'
  <2>1. pc \in Serving /\ pc' \in Serving /\ BeginProvision(Head(replay))
    BY <1>1 DEF ReplayParked, Serving
  <2> QED BY <2>1, BeginProvisionSlots
<1>2. ASSUME RedoParked \/ DeferredBootsDone \/ ReapDone PROVE PoolStep /\ BootInv'
  <2>1. Same /\ pc \in Serving /\ pc' \in Serving
    BY <1>2 DEF RedoParked, DeferredBootsDone, ReapDone, Same, Serving
  <2> QED BY <2>1, SameKeeps, WithinServing
<1>3. ASSUME NEW s \in Session, DeferredBoot(s) PROVE PoolStep /\ BootInv'
  <2>1. pc = "defer" /\ pc' = pc /\ sess[s] = "waiting"
    BY <1>3 DEF DeferredBoot, NextDeferred
  <2>2. lease[s] = None /\ bootMsg[s] = "none" /\ rel[s] = "idle"
    BY <2>1 DEF BootInv
  <2>3. CASE LeaseAndBoot(s) /\ sess' = [sess EXCEPT ![s] = "booting"]
    <3>1. /\ boot' = [boot EXCEPT ![s] = "running"]
          /\ UNCHANGED <<bootMsg, rel, relMsg>>
          /\ \A x \in Session \ {s} : lease'[x] = lease[x] /\ vm'[x] = vm[x]
      BY <2>3 DEF LeaseAndBoot, Shapes, SlotTypes
    <3>2. BootInv'
      BY SMT, <2>1, <2>2, <2>3, <3>1 DEF Shapes, ThreadTypes, BootInv, Unfinished, Serving
    <3> QED BY <2>2, <2>3, <3>2, PoolLeased DEF Shapes
  <2>4. CASE LeaseAndBootFails /\ FailSession(s)
    <3>1. UNCHANGED <<slotVars, threadVars>> /\ sess' = [sess EXCEPT ![s] = "absent"]
      BY <2>4 DEF LeaseAndBootFails, FailSession, RemovePending
    <3>2. BootInv' BY <2>1, <2>2, <3>1 DEF Shapes, BootInv, Unfinished, Serving
    <3> QED BY <3>1, <3>2, PoolSame
  <2> QED BY <1>3, <2>3, <2>4 DEF DeferredBoot
<1>4. ASSUME NEW s \in Session, ReapIdleSession(s) PROVE PoolStep /\ BootInv'
  <2>1. /\ pc \in Serving /\ pc' \in Serving /\ UNCHANGED slotVars
        /\ ReleaseSessionEntry(s, None) \/ ReleaseSessionEntryFails(s)
    BY <1>4 DEF ReapIdleSession, Serving
  <2> QED BY <2>1, ReleaseSessionEntrySlots
<1> QED BY <1>1, <1>2, <1>3, <1>4 DEF Rounds

LEMMA ThreadsSlots ==
  ASSUME TypeOK, PoolInv, BootInv, Threads PROVE PoolStep /\ BootInv'
<1> USE TypesGiveShapes
<1>1. ASSUME NEW s \in Session, NEW outcome \in {"up", "failed", "stuck"},
             BootFinishes(s, outcome) PROVE PoolStep /\ BootInv'
  <2>1. /\ boot[s] = "running" /\ boot' = [boot EXCEPT ![s] = "sent"]
        /\ bootMsg' = [bootMsg EXCEPT ![s] = outcome]
        /\ vm' = IF outcome = "failed" THEN [vm EXCEPT ![s] = None] ELSE vm
        /\ UNCHANGED <<held, lease, stray, warm, rel, sess, pc>>
    BY <1>1 DEF BootFinishes
  <2>2. PoolStep
    <3>1. CASE outcome = "failed" BY <2>1, <3>1, PoolClosed DEF Shapes
    <3>2. CASE outcome # "failed" BY <2>1, <3>2, PoolSame
    <3> QED BY <3>1, <3>2
  <2>3. BootInv' BY SMT, <2>1 DEF Shapes, SlotTypes, ThreadTypes, BootInv
  <2> QED BY <2>2, <2>3
<1>2. ASSUME NEW s \in Session, BootThreadExits(s) PROVE PoolStep /\ BootInv'
  <2>1. /\ boot[s] = "sent" /\ boot' = [boot EXCEPT ![s] = "idle"]
        /\ UNCHANGED <<bootMsg, rel, slotVars, sess, pc>>
    BY <1>2 DEF BootThreadExits
  <2>2. BootInv' BY <2>1 DEF Shapes, ThreadTypes, BootInv
  <2> QED BY <2>1, <2>2, PoolSame
<1>3. ASSUME NEW s \in Session, ReleaseStops(s) PROVE PoolStep /\ BootInv'
  <2>1. /\ rel[s] = "stopping" /\ rel' = [rel EXCEPT ![s] = "stopped"]
        /\ vm' = [vm EXCEPT ![s] = None]
        /\ UNCHANGED <<held, lease, stray, warm, boot, bootMsg, sess, pc>>
    BY <1>3 DEF ReleaseStops
  <2>2. BootInv' BY SMT, <2>1 DEF Shapes, SlotTypes, ThreadTypes, BootInv
  <2> QED BY <2>1, <2>2, PoolClosed DEF Shapes
<1>4. ASSUME NEW s \in Session, ReleaseReturnsSlot(s) PROVE PoolStep /\ BootInv'
  <2>1. /\ rel[s] = "stopped" /\ rel' = [rel EXCEPT ![s] = "returned"] /\ DropLease(s)
        /\ UNCHANGED <<boot, bootMsg, sess, pc>>
    BY <1>4 DEF ReleaseReturnsSlot
  <2>2. vm[s] = None BY <2>1 DEF BootInv
  <2>3. BootInv' BY SMT, <2>1 DEF DropLease, Shapes, SlotTypes, ThreadTypes, BootInv
  <2> QED BY <2>1, <2>2, <2>3, PoolDropped DEF Shapes
<1>5. ASSUME NEW s \in Session, ReleaseFails(s) PROVE PoolStep /\ BootInv'
  <2>1. /\ rel[s] = "stopping" /\ rel' = [rel EXCEPT ![s] = "kept"] /\ ForgetLease(s)
        /\ UNCHANGED <<boot, bootMsg, sess, pc>>
    BY <1>5 DEF ReleaseFails
  <2>2. BootInv' BY SMT, <2>1 DEF ForgetLease, Shapes, SlotTypes, ThreadTypes, BootInv
  <2> QED BY <2>1, <2>2, PoolForgotten DEF Shapes
<1>6. ASSUME NEW s \in Session, ReleaseReports(s) \/ ReleaseThreadExits(s)
      PROVE  PoolStep /\ BootInv'
  <2>1. /\ rel[s] \in {"returned", "kept", "sent"}
        /\ \E r \in {"sent", "idle"} : rel' = [rel EXCEPT ![s] = r]
        /\ UNCHANGED <<boot, bootMsg, slotVars, sess, pc>>
    BY <1>6 DEF ReleaseReports, ReleaseThreadExits
  <2>2. BootInv' BY SMT, <2>1 DEF Shapes, ThreadTypes, BootInv
  <2> QED BY <2>1, <2>2, PoolSame
<1>7. ASSUME \/ \E t \in Token : \E outcome \in {"ok", "failed"} : PullFinishes(t, outcome)
             \/ \E t \in Token : PullThreadExits(t)
             \/ \E b \in Sandbox : \E report \in {"finished", "unconfirmed"} :
                  RunFinishes(b, report)
             \/ \E b \in Sandbox : RunThreadExits(b)
      PROVE  PoolStep /\ BootInv'
  <2>1. Same /\ pc' = pc
    BY <1>7 DEF PullFinishes, PullThreadExits, RunFinishes, RunThreadExits, Same
  <2> QED BY <2>1, SameKeeps DEF Onward
<1> QED BY <1>1, <1>2, <1>3, <1>4, <1>5, <1>6, <1>7 DEF Threads

LEMMA TimeSlots ==
  ASSUME PoolInv, BootInv, Time PROVE PoolStep /\ BootInv'
<1>1. Same /\ pc' = pc
  BY DEF Time, BootDeadlineElapses, ReleaseWaitElapses, GraceElapses, PullDeadlineElapses, Same
<1> QED BY <1>1, SameKeeps DEF Onward

LEMMA EndingSlots ==
  ASSUME TypeOK, PoolInv, BootInv, Ending PROVE PoolStep /\ BootInv'
<1> USE TypesGiveShapes
<1>1. ASSUME \/ Shutdown \/ ExecsDrained \/ CollectDone \/ SessionsDrained
             \/ AllReleasesStarted \/ UnloadSdk
             \/ \E b \in Sandbox : CollectExec(b)
      PROVE  PoolStep /\ BootInv'
  <2>1. Same
    BY <1>1 DEF Shutdown, ExecsDrained, CollectDone, SessionsDrained, AllReleasesStarted,
                UnloadSdk, CollectExec, Same
  <2>2. Onward
    BY <1>1 DEF Shutdown, ExecsDrained, CollectDone, SessionsDrained, AllReleasesStarted,
                UnloadSdk, CollectExec, Onward, Unfinished, Serving
  <2> QED BY <2>1, <2>2, SameKeeps
<1>2. ASSUME ExecDrainTimesOut PROVE PoolStep /\ BootInv'
  <2>1. /\ pc' = "stopped" /\ sess' = [s \in Session |-> "absent"]
        /\ UNCHANGED <<slotVars, threadVars>>
    BY <1>2 DEF ExecDrainTimesOut
  <2>2. BootInv' BY <2>1 DEF BootInv, Unfinished, Serving
  <2> QED BY <2>1, <2>2, PoolSame
<1>3. ASSUME NEW s \in Session, CollectBoot(s) \/ CollectLateBoot(s) PROVE PoolStep /\ BootInv'
  <2>1. pc \notin Serving /\ pc' = pc /\ ReleaseBootedDuringShutdown(s)
    BY <1>3 DEF CollectBoot, CollectLateBoot, ReleaseBootedDuringShutdown, Serving
  <2> QED BY <2>1, ReleaseBootedDuringShutdownSlots
<1>4. ASSUME BootsDrained PROVE PoolStep /\ BootInv'
  <2>1. pc = "drainBoots" /\ pc' = "collectBoots" /\ Same /\ \A s \in Session : boot[s] = "idle"
    BY <1>4 DEF BootsDrained, SessionsInFlight, Same
  <2>2. BootInv' BY <2>1 DEF Same, BootInv, Unfinished, Serving
  <2> QED BY <2>1, <2>2, PoolSame DEF Same
<1>5. ASSUME BootDrainTimesOut PROVE PoolStep /\ BootInv'
  <2>1. /\ pc' = "drainPulls" /\ UNCHANGED <<slotVars, threadVars>>
        /\ \A s \in Session : sess'[s] = "waiting" => sess[s] = "waiting"
    BY <1>5 DEF BootDrainTimesOut
  <2>2. BootInv' BY <2>1 DEF BootInv, Unfinished, Serving
  <2> QED BY <2>1, <2>2, PoolSame
<1>6. ASSUME LateBootsDone PROVE PoolStep /\ BootInv'
  <2>1. ASSUME NEW s \in PendingSessions PROVE lease[s] = None /\ vm[s] = None
    <3>1. pc = "collectBoots" /\ boot[s] = "idle" /\ bootMsg[s] = "none"
      BY <1>6, <2>1 DEF LateBootsDone, BootInv, PendingSessions
    <3>2. sess[s] = "waiting"
      BY <3>1, <2>1 DEF BootInv, Unfinished, PendingSessions
    <3> QED BY <3>2, <2>1 DEF BootInv, PoolInv, PendingSessions
  <2>2. /\ PendingSessions \in SUBSET Session /\ pc' = "drainPulls"
        /\ held' = held \ {lease[s] : s \in PendingSessions}
        /\ lease' = [s \in Session |-> IF s \in PendingSessions THEN None ELSE lease[s]]
        /\ UNCHANGED <<vm, stray, threadVars>>
        /\ \A s \in Session : sess'[s] = "waiting" => sess[s] = "waiting"
    BY <1>6 DEF LateBootsDone, PendingSessions
  <2>3. PoolStep BY <2>1, <2>2, PoolReturned DEF Shapes
  <2>4. BootInv' BY <2>1, <2>2 DEF BootInv, Unfinished, Serving
  <2> QED BY <2>3, <2>4
<1>7. ASSUME NEW s \in Session, SessionDrained(s) PROVE PoolStep /\ BootInv'
  <2>1. /\ pc = "drainPulls" /\ pc' = pc /\ UNCHANGED <<slotVars, threadVars>>
        /\ \A x \in Session : sess'[x] = "waiting" => sess[x] = "waiting"
    BY <1>7 DEF SessionDrained, Shapes
  <2>2. BootInv' BY <2>1 DEF BootInv, Unfinished, Serving
  <2> QED BY <2>1, <2>2, PoolSame
<1>8. ASSUME NEW s \in Session, ReleaseDuringShutdown(s) PROVE PoolStep /\ BootInv'
  <2>1. /\ pc = "releaseAll" /\ pc' = pc /\ sess' = [sess EXCEPT ![s] = "absent"]
        /\ UNCHANGED <<boot, bootMsg>>
    BY <1>8 DEF ReleaseDuringShutdown
  <2>2. CASE rel' = [rel EXCEPT ![s] = "stopping"] /\ UNCHANGED slotVars
    <3>1. BootInv' BY <2>1, <2>2 DEF Shapes, ThreadTypes, BootInv, Unfinished, Serving
    <3> QED BY <2>2, <3>1, PoolSame
  <2>3. CASE ForgetLease(s) /\ UNCHANGED rel
    <3>1. BootInv'
      BY <2>1, <2>3 DEF ForgetLease, Shapes, SlotTypes, ThreadTypes, BootInv, Unfinished, Serving
    <3> QED BY SMT, <2>3, <3>1, PoolForgotten DEF Shapes
  <2> QED BY <1>8, <2>2, <2>3 DEF ReleaseDuringShutdown
<1>9. ASSUME Unwind PROVE PoolStep /\ BootInv'
  <2>1. pc' = "gone" /\ sess' = [s \in Session |-> "absent"] /\ UNCHANGED threadVars
    BY <1>9 DEF Unwind
  <2>2. CASE Borrowed
    <3>1. UNCHANGED slotVars BY <1>9, <2>2 DEF Unwind
    <3>2. BootInv' BY <2>1, <3>1 DEF BootInv, Unfinished, Serving
    <3> QED BY <3>1, <3>2, PoolSame
  <2>3. CASE ~Borrowed
    <3>1. /\ held' = held \ {lease[s] : s \in Session}
          /\ lease' = [s \in Session |-> IF s \in Session THEN None ELSE lease[s]]
          /\ \A s \in Session : vm'[s] = None
          /\ stray' = stray
      BY <1>9, <2>3 DEF Unwind
    <3>2. PoolStep BY <3>1, PoolReturned DEF Shapes
    <3>3. BootInv' BY <2>1, <3>1 DEF BootInv, Unfinished, Serving
    <3> QED BY SMT, <3>2, <3>3
  <2> QED BY <2>2, <2>3
<1> QED BY <1>1, <1>2, <1>3, <1>4, <1>5, <1>6, <1>7, <1>8, <1>9 DEF Ending
-----------------------------------------------------------------------------
(* The theorems.                                                           *)

SlotInv == TypeOK /\ PoolInv /\ BootInv

LEMMA SlotInit == ASSUME Init PROVE PoolInv /\ BootInv
BY DEF Init, PoolInv, BootInv, Unfinished, Serving

LEMMA SlotStep == ASSUME TypeOK, PoolInv, BootInv, [Next]_vars PROVE PoolStep /\ BootInv'
<1>1. CASE UNCHANGED vars
  BY <1>1, SameKeeps DEF Same, Onward
<1> QED BY <1>1, RequestsSlots, ReportsSlots, RoundsSlots, ThreadsSlots, TimeSlots, EndingSlots
        DEF Next

LEMMA SlotInvHolds == Spec => []SlotInv
<1>1. Init => PoolInv /\ BootInv BY SlotInit
<1>2. TypeOK /\ PoolInv /\ BootInv /\ [Next]_vars => PoolInv' /\ BootInv'
  BY SlotStep DEF PoolStep
<1> QED BY <1>1, <1>2, TypeCorrect, PTL DEF Spec, SlotInv

\* Whatever boots, releases, panics and teardowns happen in whatever order, two
\* machines never have the same store open, and the slot of a machine that may
\* still be running is never free in the pool.
THEOREM SlotsExclusive == Spec => []SlotExclusive
<1>1. SlotInv => SlotExclusive
  BY DEF SlotInv, PoolInv, SlotExclusive
<1> QED BY <1>1, SlotInvHolds, PTL

\* No slot leaks: every held slot is a stray machine's or has an entry, a
\* thread or a queued report that answers for it.
THEOREM SlotsAreAccounted == Spec => []SlotsAccounted
<1>1. SlotInv => SlotsAccounted
  <2> SUFFICES ASSUME SlotInv PROVE SlotsAccounted OBVIOUS
  <2>1. SlotTypes BY TypeParts DEF SlotInv
  <2>2. held = stray \cup (Range(lease) \ {None})
    <3>1. Range(lease) = {lease[s] : s \in Session} BY <2>1 DEF SlotTypes, Range
    <3>2. ASSUME NEW k \in held PROVE k \in stray \cup (Range(lease) \ {None})
      <4>1. k # None BY SMT, <2>1, NoneAssumption DEF SlotTypes, Slot
      <4>2. CASE k \in stray BY <4>2
      <4>3. CASE \E s \in Session : lease[s] = k BY <3>1, <4>1, <4>3
      <4> QED BY <4>2, <4>3 DEF SlotInv, PoolInv
    <3>3. ASSUME NEW k \in stray \cup (Range(lease) \ {None}) PROVE k \in held
      BY SMT, <3>1 DEF SlotInv, PoolInv
    <3> QED BY <3>2, <3>3
  <2>3. ASSUME pc \in Serving, NEW s \in Session, lease[s] # None
        PROVE  \/ sess[s] \in {"booting", "abandoned"} /\ (boot[s] = "running" \/ bootMsg[s] # "none")
               \/ sess[s] = "ready"
               \/ rel[s] \in {"stopping", "stopped"}
    BY <2>3 DEF SlotInv, BootInv, Unfinished
  <2> QED BY <2>2, <2>3 DEF SlotsAccounted
<1> QED BY <1>1, SlotInvHolds, PTL

\* The worker, its threads and its teardown implement the store slot pool: what
\* module StoreSlots promises holds of the daemon's leases.
THEOREM ImplementsPool == Spec => PoolImplemented
<1>1. Init => Pool!Init
  BY DEF Init, Pool!Init
<1>2. SlotInv /\ [Next]_vars => [Pool!Next]_(Pool!vars)
  BY SlotStep DEF SlotInv, PoolStep
<1> QED BY <1>1, <1>2, SlotInvHolds, PTL DEF Spec, PoolImplemented, Pool!Spec
=============================================================================
