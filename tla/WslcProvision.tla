--------------------------- MODULE WslcProvision ----------------------------
(***************************************************************************)
(* Provisioning a container: finding or booting the session it goes to,    *)
(* parking behind a boot, pulling the image on a thread of its own against *)
(* a deadline, and creating the container once the image is in the store.  *)
(***************************************************************************)
EXTENDS WslcSessions

\* Worker::touch_session
TouchSession(s) == empty' = [empty EXCEPT ![s] = "no"]

\* Worker::create_provisioned_container, when every SDK call succeeds.
CreateProvisionedContainer(s) ==
  /\ \E b \in Sandbox :
       /\ FreshSandbox(b)
       /\ cont' = [cont EXCEPT ![b] = [NoCont EXCEPT !.session = s]]
       /\ handles' = handles \cup {b}
  /\ TouchSession(s)

\* Mutant: a second provision boots an implicit session of its own.
EnsureSession_IgnoresBoot(names) ==
  IF names # None THEN names
  ELSE IF IsReady(default) THEN default ELSE None

\* Worker::ensure_session: the session a request names, else the implicit one.
EnsureSession(names) == IF names # None THEN names ELSE default

\* The provision waits for the session's boot.
ParkProvision(req) ==
  LET s == EnsureSession(req.names) IN
  /\ IsBooting(s)
  /\ parked' = [parked EXCEPT ![s] = Append(@, req)]
  /\ Kept(req.client)
  /\ UNCHANGED <<sess, reply, earlier, age, empty, default, warmVars, slotVars,
                 threadVars, provVars, contVars, sdk>>

\* There is no implicit session: one is booted and the provision parks.
BootImplicitSession(req) ==
  LET s == EnsureSession(req.names) IN
  /\ req.names = None /\ ~IsReady(s) /\ ~IsBooting(s)
  /\ \/ \E fresh \in Session :
          /\ BeginSession(fresh)
          /\ parked' = [parked EXCEPT ![fresh] = <<req>>]
          /\ default' = fresh
          /\ UNCHANGED reply
          /\ Kept(req.client)
     \/ /\ ~ShouldWaitForARelease
        /\ LeaseAndBootFails
        /\ Answered(req.client)
        /\ UNCHANGED <<entryVars, began>>
  /\ UNCHANGED <<provVars, contVars>>

\* The image is in the store or imported from a tar: the container is created
\* at once.
ProvisionFromStore(req) ==
  LET s == EnsureSession(req.names) IN
  /\ IsReady(s)
  /\ CreateProvisionedContainer(s)
  /\ Answered(req.client)
  /\ UNCHANGED <<sess, reply, parked, earlier, age, default, warmVars, slotVars,
                 threadVars, provVars, sdk>>

\* The image is pulled. With its deadline armed the provision waits for the
\* pull; without, it is refused while the pull carries on.
ProvisionByPull(req) ==
  LET s == EnsureSession(req.names) IN
  /\ IsReady(s)
  /\ \E t \in Token :
       /\ FreshToken(t)
       /\ pull' = [pull EXCEPT ![t] = [session |-> s, at |-> "running"]]
       /\ \/ /\ prov' = [prov EXCEPT ![t] = [client |-> req.client, session |-> s]]
             /\ deadline' = [deadline EXCEPT ![t] = "armed"]
             /\ TouchSession(s)
             /\ Kept(req.client)
          \/ /\ UNCHANGED <<prov, deadline, empty>>
             /\ Answered(req.client)
  /\ UNCHANGED <<pullMsg, sess, reply, parked, earlier, age, default, warmVars,
                 slotVars, threadVars, contVars, sdk>>

\* The session is unknown, the image is refused, no pull thread starts, or the
\* container cannot be created: the client is told so and nothing else changes.
RefuseProvision(req) ==
  LET s == EnsureSession(req.names) IN
  /\ IsReady(s) \/ (req.names # None /\ ~IsBooting(s))
  /\ Answered(req.client)
  /\ UNCHANGED <<entryVars, warmVars, slotVars, threadVars, provVars, contVars, sdk>>

\* Worker::begin_provision
BeginProvision(req) ==
  \/ ParkProvision(req)
  \/ BootImplicitSession(req)
  \/ ProvisionFromStore(req)
  \/ ProvisionByPull(req)
  \/ RefuseProvision(req)

\* WorkerCommand::Provision. Any session may be named, the implicit one too:
\* nothing here relies on a client not knowing an id.
Provision(c, names) ==
  /\ pc = "serve" /\ c \notin waiting
  /\ BeginProvision([client |-> c, names |-> names])
  /\ UNCHANGED <<execVars, loopVars>>

\* One round of the replay at the end of Worker::finish_session.
ReplayParked ==
  /\ pc = "replay"
  /\ BeginProvision(Head(replay))
  /\ replay' = Tail(replay)
  /\ pc' = IF Tail(replay) = <<>> THEN "serve" ELSE "replay"
  /\ UNCHANGED <<execVars, expired, redo, abandon>>

-----------------------------------------------------------------------------
(* The pull thread and its deadline.                                       *)

PullFinishes(t, outcome) ==
  /\ pull[t].at = "running"
  /\ pull' = [pull EXCEPT ![t].at = "sent"]
  /\ pullMsg' = [pullMsg EXCEPT ![t] = outcome]
  /\ UNCHANGED <<prov, deadline>>
  /\ UNCHANGED <<entryVars, warmVars, slotVars, threadVars, contVars, execVars,
                 loopVars, sdk, clientVars>>

\* The session's own count is released once the report has been delivered.
PullThreadExits(t) ==
  /\ pull[t].at = "sent"
  /\ pull' = [pull EXCEPT ![t] = NoPull]
  /\ UNCHANGED <<prov, pullMsg, deadline>>
  /\ UNCHANGED <<entryVars, warmVars, slotVars, threadVars, contVars, execVars,
                 loopVars, sdk, clientVars>>

PullDeadlineElapses(t) ==
  /\ deadline[t] = "armed"
  /\ deadline' = [deadline EXCEPT ![t] = "fired"]
  /\ UNCHANGED <<prov, pull, pullMsg>>
  /\ UNCHANGED <<entryVars, warmVars, slotVars, threadVars, contVars, execVars,
                 loopVars, sdk, clientVars>>

\* The pending provision leaves the map, which retires an armed deadline.
RemoveProvision(t) ==
  /\ prov' = [prov EXCEPT ![t] = NoProv]
  /\ UNCHANGED pull

\* WorkerCommand::PullFinished from the pull thread. An unknown token lost the
\* race against its deadline.
PullFinished(t) ==
  /\ pc = "serve" /\ pullMsg[t] # "none"
  /\ pullMsg' = [pullMsg EXCEPT ![t] = "none"]
  /\ deadline' = [deadline EXCEPT ![t] = IF @ = "fired" THEN "fired" ELSE "off"]
  /\ RemoveProvision(t)
  /\ waiting' = waiting \ {prov[t].client}
  /\ \/ /\ prov[t] # NoProv /\ pullMsg[t] = "ok"
        /\ CreateProvisionedContainer(prov[t].session)
     \/ UNCHANGED <<contVars, empty>>
  /\ UNCHANGED <<sess, reply, parked, earlier, age, default, dropped>>
  /\ UNCHANGED <<warmVars, slotVars, threadVars, execVars, loopVars, sdk>>

\* WorkerCommand::PullFinished from the deadline thread.
PullExpired(t) ==
  /\ pc = "serve" /\ deadline[t] = "fired"
  /\ deadline' = [deadline EXCEPT ![t] = "off"]
  /\ RemoveProvision(t)
  /\ waiting' = waiting \ {prov[t].client}
  /\ UNCHANGED <<entryVars, dropped, pullMsg>>
  /\ UNCHANGED <<warmVars, slotVars, threadVars, contVars, execVars, loopVars, sdk>>
=============================================================================
