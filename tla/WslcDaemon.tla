------------------------------ MODULE WslcDaemon ------------------------------
(* The asynchronous side of the WSLc daemon: the accept loop, the task that  *)
(* serves each client (control_server.rs), the idle watchdog and the end of  *)
(* run (main.rs). All of it runs on one thread, so that a task is only       *)
(* interrupted where it awaits. The worker is another thread: here it is     *)
(* what its answers are to these tasks (WslcWorker has its steps).           *)
EXTENDS Naturals, FiniteSets

CONSTANTS Client,       \* phase processes, each with one connection at a time
          Sandbox,      \* sandbox ids
          MaxClients,   \* MAX_CONCURRENT_CLIENTS
          MaxLane,      \* CANCEL_LANE_SLOTS
          MaxAttempts,  \* UNDELIVERED_RELEASE_ATTEMPTS
          IdlePolls,    \* IDLE_TIMEOUT in units of IDLE_POLL, rounded up
          None

ASSUME BoundsAssumption == MaxClients \in Nat /\ MaxLane \in Nat /\ MaxAttempts \in Nat \ {0}
\* 300 s and 15 s, unless the environment says otherwise.
ASSUME IdlePollsAssumption == IdlePolls \in Nat /\ IdlePolls > 1
ASSUME NoneAssumption == None \notin Client \cup Sandbox
ASSUME FiniteAssumption == IsFiniteSet(Client) /\ IsFiniteSet(Sandbox)

VARIABLES
  server,    \* the accept loop: "listening", "recreating", "draining", "ended"
  accepted,  \* the client it holds while it recreates the pipe instance
  task,      \* a client's connection, from "queued" at the pipe to its task's
             \* "reading", "asked", "pulling", "answered", "minted", "undoing",
             \* "retiring"
  slot,      \* the permit of the task: "none", "general", "lane"
  want,      \* its request: "other", "provision", "deprovision"
  id,        \* the sandbox it deprovisions, or that was minted for it
  tries,     \* attempts to release what was minted
  gone,      \* clients that have closed their end
  cont,      \* the worker's containers: "absent", "live", "retired"
  known,     \* ids that were delivered
  worker,    \* "up" or "gone"
  watchdog,  \* "sleep", "asked", "counted", "ended"
  zero,      \* the count it was answered was zero
  fresh,     \* activity has advanced since last_activity
  idleFor,   \* idle_for, in polls
  draining, notified,
  exited     \* the process has ended

taskVars == <<task, slot, want, id, tries, gone>>
workerVars == <<cont, known, worker>>
watchVars == <<watchdog, zero, fresh, idleFor>>
vars == <<server, accepted, taskVars, workerVars, watchVars, draining, notified, exited>>

Serving == {"reading", "asked", "pulling", "answered", "minted", "undoing", "retiring"}

TypeOK ==
  /\ server \in {"listening", "recreating", "draining", "ended"}
  /\ accepted \in Client \cup {None}
  /\ task \in [Client -> {"none", "queued", "accepted"} \cup Serving]
  /\ slot \in [Client -> {"none", "general", "lane"}]
  /\ want \in [Client -> {"other", "provision", "deprovision"}]
  /\ id \in [Client -> Sandbox \cup {None}]
  /\ tries \in [Client -> 0 .. MaxAttempts]
  /\ gone \subseteq Client
  /\ cont \in [Sandbox -> {"absent", "live", "retired"}]
  /\ known \subseteq Sandbox
  /\ worker \in {"up", "gone"}
  /\ watchdog \in {"sleep", "asked", "counted", "ended"}
  /\ zero \in BOOLEAN /\ fresh \in BOOLEAN /\ idleFor \in 0 .. IdlePolls
  /\ draining \in BOOLEAN /\ notified \in BOOLEAN /\ exited \in BOOLEAN

\* The tasks of the JoinSet, which active_clients counts.
Active == {c \in Client : task[c] \in Serving}
Live == {b \in Sandbox : cont[b] = "live"}

Init ==
  /\ server = "listening" /\ accepted = None
  /\ task = [c \in Client |-> "none"] /\ slot = [c \in Client |-> "none"]
  /\ want = [c \in Client |-> "other"] /\ id = [c \in Client |-> None]
  /\ tries = [c \in Client |-> 0] /\ gone = {}
  /\ cont = [b \in Sandbox |-> "absent"] /\ known = {} /\ worker = "up"
  /\ watchdog = "sleep" /\ zero = FALSE /\ fresh = FALSE /\ idleFor = 0
  /\ draining = FALSE /\ notified = FALSE /\ exited = FALSE

-----------------------------------------------------------------------------
(* Clients.                                                                *)

\* One pipe instance listens at a time; the others that open it find it busy.
Open(c) ==
  /\ task[c] = "none" /\ server = "listening"
  /\ \A x \in Client : task[x] # "queued"
  /\ task' = [task EXCEPT ![c] = "queued"]
  /\ UNCHANGED <<server, accepted, slot, want, id, tries, gone, workerVars, watchVars,
                 draining, notified, exited>>

\* A client dies, or gives up on its reply, and its end of the pipe is closed.
Leave(c) ==
  /\ task[c] # "none" /\ c \notin gone
  /\ gone' = gone \cup {c}
  /\ UNCHANGED <<server, accepted, task, slot, want, id, tries, workerVars, watchVars,
                 draining, notified, exited>>

\* The connections of `cs` are closed, and their tasks are no more.
Close(cs) ==
  /\ task' = [c \in Client |-> IF c \in cs THEN "none" ELSE task[c]]
  /\ slot' = [c \in Client |-> IF c \in cs THEN "none" ELSE slot[c]]
  /\ want' = [c \in Client |-> IF c \in cs THEN "other" ELSE want[c]]
  /\ id' = [c \in Client |-> IF c \in cs THEN None ELSE id[c]]
  /\ tries' = [c \in Client |-> IF c \in cs THEN 0 ELSE tries[c]]
  /\ gone' = gone \ cs

-----------------------------------------------------------------------------
(* The accept loop.                                                        *)

\* server.connect() returns a client; recreating the instance awaits. The
\* select is biased, so a shutdown that was notified goes first.
Accept(c) ==
  /\ server = "listening" /\ ~notified /\ ~draining /\ task[c] = "queued"
  /\ server' = "recreating" /\ accepted' = c
  /\ task' = [task EXCEPT ![c] = "accepted"]
  /\ fresh' = TRUE
  /\ UNCHANGED <<slot, want, id, tries, gone, workerVars, watchdog, zero, idleFor,
                 draining, notified, exited>>

\* server.connect() fails, and with it the connection.
ConnectError(c) ==
  /\ server = "listening" /\ ~notified /\ task[c] = "queued"
  /\ server' = "recreating"
  /\ Close({c})
  /\ UNCHANGED <<accepted, workerVars, watchVars, draining, notified, exited>>

\* spawn_client_handler: a general permit, else one of the lane, else the
\* connection is dropped.
SpawnClientHandler(c) ==
  LET Has(s) == {x \in Client : slot[x] = s}
      Begin(s) == /\ task' = [task EXCEPT ![c] = "reading"]
                  /\ slot' = [slot EXCEPT ![c] = s]
                  /\ UNCHANGED <<want, id, tries, gone>>
  IN  \/ Cardinality(Has("general")) < MaxClients /\ Begin("general")
      \/ /\ Cardinality(Has("general")) >= MaxClients
         /\ Cardinality(Has("lane")) < MaxLane
         /\ Begin("lane")
      \/ /\ Cardinality(Has("general")) >= MaxClients
         /\ Cardinality(Has("lane")) >= MaxLane
         /\ Close({c})

\* create_secured_instance_retry returns: the client that was accepted is
\* served, and the loop goes on, or ends if there is no new instance.
Recreated ==
  /\ server = "recreating"
  /\ server' \in {"listening", "draining"}
  /\ IF accepted = None THEN UNCHANGED taskVars ELSE SpawnClientHandler(accepted)
  /\ accepted' = None
  /\ UNCHANGED <<workerVars, watchVars, draining, notified, exited>>

\* The loop ends: it was notified, or a client connects while it is draining.
\* A client at the pipe gets no further.
StopAccepting ==
  LET queued == {c \in Client : task[c] = "queued"}
  IN  /\ server = "listening" /\ (notified \/ (draining /\ queued # {}))
      /\ server' = "draining" /\ notified' = FALSE
      /\ Close(queued)
      /\ UNCHANGED <<accepted, workerVars, watchVars, draining, exited>>

\* The tasks have ended ...
Drained ==
  /\ server = "draining" /\ Active = {}
  /\ server' = "ended"
  /\ UNCHANGED <<accepted, taskVars, workerVars, watchVars, draining, notified, exited>>

\* ... or DRAIN_TIMEOUT passes and they are aborted.
DrainTimesOut ==
  /\ server = "draining" /\ Active # {}
  /\ server' = "ended"
  /\ Close(Active)
  /\ UNCHANGED <<accepted, workerVars, watchVars, draining, notified, exited>>

-----------------------------------------------------------------------------
(* handle_client.                                                          *)

\* The loop and the watchdog are not touched by the step of a task.
TaskOnly == UNCHANGED <<server, accepted, watchVars, draining, notified, exited>>

\* The first frame does not come in time, is malformed or is cut off.
FirstFrameFails(c) ==
  /\ task[c] = "reading"
  /\ Close({c})
  /\ UNCHANGED workerVars /\ TaskOnly

\* A request that is answered without the worker: a ping, a cancellation, an
\* exec without a permit left, and whatever the lane refuses.
AnswerAtOnce(c) ==
  /\ task[c] = "reading" /\ c \notin gone
  /\ task' = [task EXCEPT ![c] = "answered"]
  /\ UNCHANGED <<slot, want, id, tries, gone, workerVars>> /\ TaskOnly

\* A request the worker answers. The lane lets only stdin through, which waits
\* for its run as the requests of kind "other" do.
AskWorker(c, w, b) ==
  /\ task[c] = "reading" /\ c \notin gone
  /\ slot[c] = "lane" => w = "other"
  /\ w = "deprovision" <=> b # None
  /\ task' = [task EXCEPT ![c] = IF worker = "up" THEN "asked" ELSE "answered"]
  /\ want' = [want EXCEPT ![c] = w]
  /\ id' = [id EXCEPT ![c] = b]
  /\ UNCHANGED <<slot, tries, gone, workerVars>> /\ TaskOnly

\* A reply that mints no container is written, and whether it lands is all the
\* same. One with a session's id would be undone by the task before it ends:
\* sessions do not count for the watchdog, so that is only a later answer.
WriteReply(c) ==
  /\ task[c] = "answered"
  /\ Close({c})
  /\ UNCHANGED workerVars /\ TaskOnly

\* Mutant: a reply that did not land is not undone.
DeliverMintedReply_NoRelease(c) ==
  /\ task[c] = "minted"
  /\ Close({c})
  /\ known' = IF c \notin gone /\ cont[id[c]] = "live" THEN known \cup {id[c]} ELSE known
  /\ UNCHANGED <<cont, worker>> /\ TaskOnly

\* deliver_minted_reply: the id is delivered, or what it names is released.
DeliverMintedReply(c) ==
  /\ task[c] = "minted"
  /\ \/ /\ c \notin gone
        /\ known' = IF cont[id[c]] = "live" THEN known \cup {id[c]} ELSE known
        /\ Close({c})
     \/ /\ c \in gone
        /\ task' = [task EXCEPT ![c] = "undoing"]
        /\ tries' = [tries EXCEPT ![c] = 1]
        /\ UNCHANGED <<slot, want, id, gone, known>>
  /\ UNCHANGED <<cont, worker>> /\ TaskOnly

\* release_undelivered_sandbox: an attempt succeeds ...
UndoSucceeds(c) ==
  /\ task[c] = "undoing" /\ worker = "up"
  /\ cont' = [cont EXCEPT ![id[c]] = "absent"]
  /\ Close({c})
  /\ UNCHANGED <<known, worker>> /\ TaskOnly

\* ... or fails, and the last that fails retires the sandbox.
UndoFails(c) ==
  /\ task[c] = "undoing"
  /\ IF tries[c] < MaxAttempts
     THEN tries' = [tries EXCEPT ![c] = @ + 1] /\ UNCHANGED task
     ELSE task' = [task EXCEPT ![c] = "retiring"] /\ UNCHANGED tries
  /\ UNCHANGED <<slot, want, id, gone, workerVars>> /\ TaskOnly

\* SessionHandle::retire
RetireUndelivered(c) ==
  /\ task[c] = "retiring"
  /\ cont' = IF worker = "up" THEN [cont EXCEPT ![id[c]] = "retired"] ELSE cont
  /\ Close({c})
  /\ UNCHANGED <<known, worker>> /\ TaskOnly

-----------------------------------------------------------------------------
(* The worker, as the tasks see it.                                        *)

Answered(c) ==
  /\ task' = [task EXCEPT ![c] = "answered"]
  /\ UNCHANGED <<slot, want, id, tries, gone>> /\ TaskOnly

\* A provision has reached its pull, and counts from there on.
WorkerPulls(c) ==
  /\ worker = "up" /\ task[c] = "asked" /\ want[c] = "provision"
  /\ task' = [task EXCEPT ![c] = "pulling"]
  /\ UNCHANGED <<slot, want, id, tries, gone, workerVars>> /\ TaskOnly

\* A container is created and its id, which nothing names yet, sent.
WorkerMints(c, b) ==
  /\ worker = "up" /\ want[c] = "provision" /\ task[c] \in {"asked", "pulling"}
  /\ cont[b] = "absent" /\ \A x \in Client : id[x] # b
  /\ cont' = [cont EXCEPT ![b] = "live"]
  /\ id' = [id EXCEPT ![c] = b]
  /\ task' = [task EXCEPT ![c] = "minted"]
  /\ UNCHANGED <<slot, want, tries, gone, known, worker>> /\ TaskOnly

\* A container is deleted. Its id is not known any more: to ask for it again
\* is a request that is answered with an error.
WorkerDeprovisions(c) ==
  /\ worker = "up" /\ task[c] = "asked" /\ want[c] = "deprovision"
  /\ cont[id[c]] = "live"
  /\ cont' = [cont EXCEPT ![id[c]] = "absent"]
  /\ known' = known \ {id[c]}
  /\ UNCHANGED worker /\ Answered(c)

\* Every other answer.
WorkerAnswers(c) ==
  /\ worker = "up" /\ task[c] \in {"asked", "pulling"}
  /\ UNCHANGED workerVars /\ Answered(c)

\* The worker panics: its containers are lost, and so are the replies it owes.
WorkerPanics ==
  /\ worker = "up" /\ ~exited
  /\ worker' = "gone" /\ known' = {}
  /\ cont' = [b \in Sandbox |-> "absent"]
  /\ task' = [c \in Client |-> IF task[c] \in {"asked", "pulling"} THEN "answered" ELSE task[c]]
  /\ UNCHANGED <<slot, want, id, tries, gone>> /\ TaskOnly

\* Mutant: what was retired is counted with the rest.
LiveContainerCount_Retired ==
  Cardinality({b \in Sandbox : cont[b] # "absent"}) + Cardinality({c \in Client : task[c] = "pulling"})

\* live_container_count: what was retired does not count, what is being pulled does.
LiveContainerCount ==
  Cardinality(Live) + Cardinality({c \in Client : task[c] = "pulling"})

-----------------------------------------------------------------------------
(* idle_watchdog, and the end of run.                                      *)

Watching == UNCHANGED <<server, accepted, taskVars, workerVars, exited>>

\* Mutant: notify_waiters, which only wakes a loop that waits at this moment.
Signal_Waiters == draining' = TRUE /\ notified' = (server = "listening")

\* draining is set, and shutdown.notify_one leaves a permit.
Signal == draining' = TRUE /\ notified' = TRUE

\* The sleep ends and the count is asked for. Two polls are a second apart at
\* least, and to recreate an instance takes three quarters of one at most: the
\* client that was accepted before the last poll has a task by now.
Wake ==
  /\ watchdog = "sleep" /\ server # "ended" /\ (accepted = None \/ fresh)
  /\ watchdog' = "asked"
  /\ UNCHANGED <<zero, fresh, idleFor, draining, notified>> /\ Watching

\* The worker answers with its count ...
Counted ==
  /\ watchdog = "asked" /\ server # "ended" /\ worker = "up"
  /\ watchdog' = "counted"
  /\ zero' = (LiveContainerCount = 0)
  /\ UNCHANGED <<fresh, idleFor, draining, notified>> /\ Watching

\* ... or is gone.
NotCounted ==
  /\ watchdog = "asked" /\ server # "ended" /\ worker = "gone"
  /\ watchdog' = "ended"
  /\ Signal
  /\ UNCHANGED <<zero, fresh, idleFor>> /\ Watching

\* Mutant: the activity since the last poll is not looked at.
Idle_IgnoresActivity == zero /\ Active = {}

\* The three signals agree.
Idle == zero /\ Active = {} /\ ~fresh

\* What follows the count, with no await: the streak is counted or broken,
\* and once it is long enough the daemon drains.
Sample ==
  /\ watchdog = "counted" /\ server # "ended"
  /\ fresh' = FALSE
  /\ idleFor' = IF Idle THEN idleFor + 1 ELSE 0
  /\ IF idleFor' >= IdlePolls THEN watchdog' = "ended" /\ Signal
                              ELSE watchdog' = "sleep" /\ UNCHANGED <<draining, notified>>
  /\ UNCHANGED zero /\ Watching

\* The server task has ended: the watchdog is aborted, the session shut down,
\* and the process exits (the record and the lock are in WslcDiscovery).
Exit ==
  /\ server = "ended" /\ ~exited
  /\ exited' = TRUE /\ watchdog' = "ended"
  /\ cont' = [b \in Sandbox |-> "absent"] /\ known' = {}
  /\ UNCHANGED <<server, accepted, taskVars, worker, zero, fresh, idleFor, draining, notified>>

\* Nothing is left to do.
Exited == exited /\ UNCHANGED vars

Requests(c) ==
  \/ FirstFrameFails(c) \/ AnswerAtOnce(c)
  \/ \E w \in {"other", "provision"} : AskWorker(c, w, None)
  \/ \E b \in known : AskWorker(c, "deprovision", b)
Handler(c) ==
  WriteReply(c) \/ DeliverMintedReply(c) \/ UndoSucceeds(c) \/ UndoFails(c) \/ RetireUndelivered(c)
Worker(c) ==
  \/ WorkerPulls(c) \/ WorkerDeprovisions(c) \/ WorkerAnswers(c)
  \/ \E b \in Sandbox : WorkerMints(c, b)
Server == Recreated \/ StopAccepting \/ Drained \/ DrainTimesOut
Watchdog == Wake \/ Counted \/ NotCounted \/ Sample

Next ==
  \/ \E c \in Client :
       Open(c) \/ Leave(c) \/ Accept(c) \/ ConnectError(c) \/ Requests(c) \/ Handler(c) \/ Worker(c)
  \/ Server \/ Watchdog \/ WorkerPanics \/ Exit \/ Exited

Spec == Init /\ [][Next]_vars

\* The loop, the watchdog and the tasks go on, except where they wait for a
\* client or for the worker; the worker goes on to answer the watchdog, or
\* is gone, and its shutdown comes to an end.
Fairness ==
  /\ WF_vars(Server) /\ WF_vars(Watchdog) /\ WF_vars(Exit)
  /\ \A c \in Client : WF_vars(Handler(c))
LiveSpec == Spec /\ Fairness

-----------------------------------------------------------------------------
(* Properties.                                                             *)

\* When the watchdog has declared the daemon idle, there is no container that
\* a client could still act on, no request in flight and no client accepted,
\* although it has read the count, the tasks and the activity at different
\* times (idle_watchdog).
DrainedIdle ==
  draining /\ worker = "up" => Live = {} /\ Active = {} /\ accepted = None

\* A container that is counted, and so keeps the daemon alive, has an id that
\* was delivered or a task that will deliver it or undo it (deliver_minted_reply).
NoOrphan ==
  server # "ended" =>
    \A b \in Live : b \in known \/ \E c \in Client : id[c] = b /\ task[c] \in {"minted", "undoing", "retiring"}

\* Once it is draining the daemon exits, wherever the accept loop was when it
\* was told, and whatever its tasks wait for.
DaemonEnds == draining ~> exited

\* A daemon that nobody talks to any more, and none of whose sandboxes anybody
\* knows, exits; also when one that was never delivered cannot be deleted.
IdleDaemonExits ==
  <>[](known = {} /\ \A c \in Client : task[c] = "none") => <>exited
=============================================================================
