------------------------------ MODULE WslcExec ------------------------------
(* The execs of the WSLc daemon seen from their connections: the permits a  *)
(* connection is served under (spawn_client_handler), the registry through  *)
(* which a cancellation or a stdin connection finds its run (register_exec, *)
(* cancel_exec, take_exec_stdin), the capacity a run holds, and the client  *)
(* that starts, feeds and kills an exec (exec_piped).                       *)
EXTENDS Naturals, FiniteSets

CONSTANTS Exec,         \* execs, each with a run token of its own
          Feeds,        \* those that forward stdin
          ExecId,       \* the ids their callers give them
          Other,        \* connections of other clients
          Clients,      \* MAX_CONCURRENT_CLIENTS
          Lane,         \* CANCEL_LANE_SLOTS
          Execs,        \* MAX_CONCURRENT_EXECS
          None

\* Each exec has its own connection, the one of its terminator, the one on which
\* its own threads cancel it, and the one for its stdin.
Kind == {"exec", "kill", "cancel", "stdin"}
Conn == (Exec \X Kind) \cup Other

ASSUME FiniteAssumption == IsFiniteSet(Exec) /\ IsFiniteSet(Other)
ASSUME OtherAssumption == Other \cap (Exec \X Kind) = {}
ASSUME NoneAssumption == None \notin Exec
\* CANCEL_LANE_SLOTS is 2 * MAX_CONCURRENT_EXECS.
ASSUME LaneAssumption == Execs \in Nat /\ Lane \in Nat /\ Lane >= 2 * Execs

VARIABLES
  idOf,       \* exec_id
  link,       \* a connection and the task that serves it
  permit,     \* what the task is served under
  active,     \* active_execs: the exec registered under an id
  refs,       \* who holds the registration
  places,     \* who holds the exec's permit
  stdinSlot,  \* StdinSlot
  flag,       \* the cancellation flag
  run,        \* the run, as the worker knows it
  behind,     \* the run a lifecycle request is parked behind
  caller,     \* the client's exec thread
  wanted,     \* the terminator has been called
  failed      \* the stdin pump has failed

vars == <<idOf, link, permit, active, refs, places, stdinSlot, flag, run, behind, caller,
          wanted, failed>>
daemonVars == <<active, refs, places, stdinSlot, flag, run, behind>>
clientVars == <<idOf, caller, wanted, failed>>

InProgress == {"queued", "running"}
Done == {"over", "stuck"}

TypeOK ==
  /\ idOf \in [Exec -> ExecId]
  /\ link \in [Conn -> {"none", "accepted", "admit", "stream", "relay", "hold", "parked",
                        "refused", "closed"}]
  /\ permit \in [Conn -> {"none", "general", "lane"}]
  /\ active \in [ExecId -> Exec \cup {None}]
  /\ refs \in [Exec -> SUBSET {"task", "worker"}]
  /\ places \in [Exec -> SUBSET {"task", "run", "quarantine"}]
  /\ stdinSlot \in [Exec -> {"Waiting", "Claimed"}]
  /\ run \in [Exec -> {"none"} \cup InProgress \cup Done]
  /\ behind \in [Other -> Exec \cup {None}]
  /\ caller \in [Exec -> {"starting", "admitted", "replaying", "reading", "answered", "failed", "gone"}]
  /\ flag \in [Exec -> BOOLEAN] /\ wanted \in [Exec -> BOOLEAN] /\ failed \in [Exec -> BOOLEAN]

Init ==
  /\ idOf \in [Exec -> ExecId]
  /\ link = [c \in Conn |-> "none"] /\ permit = [c \in Conn |-> "none"]
  /\ active = [i \in ExecId |-> None]
  /\ refs = [e \in Exec |-> {}] /\ places = [e \in Exec |-> {}]
  /\ stdinSlot = [e \in Exec |-> "Waiting"] /\ flag = [e \in Exec |-> FALSE]
  /\ run = [e \in Exec |-> "none"] /\ behind = [o \in Other |-> None]
  /\ caller = [e \in Exec |-> "starting"]
  /\ wanted = [e \in Exec |-> FALSE] /\ failed = [e \in Exec |-> FALSE]

Using(p) == Cardinality({c \in Conn : permit[c] = p})
Admitted == {e \in Exec : places[e] # {}}

\* A task ends and gives its permit back.
Ends(c) ==
  /\ link' = [link EXCEPT ![c] = "closed"]
  /\ permit' = [permit EXCEPT ![c] = "none"]

\* The entry goes with the last holder of the registration.
DropRegistration(e, who) ==
  /\ refs' = [refs EXCEPT ![e] = @ \ {who}]
  /\ active' = IF refs[e] = {who} THEN [active EXCEPT ![idOf[e]] = None] ELSE active

\* Mutant: the run token is not compared.
Cancelled_ById(e, entries) == flag' = [f \in Exec |-> flag[f] \/ entries[idOf[e]] = f]

\* cancel_exec: the flag of the exec that is registered under this id and token.
Cancelled(e, entries) == flag' = [flag EXCEPT ![e] = @ \/ entries[idOf[e]] = e]

\* Mutant: the lane has room for one fewer.
Connects_ShortLane(c) ==
  /\ link[c] = "none"
  /\ LET p == IF Using("general") < Clients THEN "general"
              ELSE IF Using("lane") < Lane - 1 THEN "lane" ELSE "none"
     IN  /\ permit' = [permit EXCEPT ![c] = p]
         /\ link' = [link EXCEPT ![c] = IF p = "none" THEN "refused" ELSE "accepted"]

\* A client connects, and the accept loop takes the connection
\* (spawn_client_handler): beyond the general bound only the lane is left, and
\* beyond that the connection is dropped.
Connects(c) ==
  /\ link[c] = "none"
  /\ LET p == IF Using("general") < Clients THEN "general"
              ELSE IF Using("lane") < Lane THEN "lane" ELSE "none"
     IN  /\ permit' = [permit EXCEPT ![c] = p]
         /\ link' = [link EXCEPT ![c] = IF p = "none" THEN "refused" ELSE "accepted"]

-----------------------------------------------------------------------------
(* The tasks: handle_client.                                               *)

\* The lane serves nothing but cancellations and stdin.
Busy(c) ==
  /\ link[c] = "accepted" /\ permit[c] = "lane"
  /\ c \in Other \/ c \in Exec \X {"exec"}
  /\ Ends(c)
  /\ caller' = [e \in Exec |-> IF c = <<e, "exec">> /\ caller[e] = "starting" THEN "failed" ELSE caller[e]]
  /\ UNCHANGED <<daemonVars, idOf, wanted, failed>>

\* handle_exec: a place among the execs, then one in the registry, then the
\* request to the worker.
HandleExec(e) ==
  LET c == <<e, "exec">>
      ok == Cardinality(Admitted) < Execs /\ active[idOf[e]] = None
  IN  /\ link[c] = "accepted" /\ permit[c] = "general"
      /\ IF ok
         THEN /\ link' = [link EXCEPT ![c] = "admit"]
              /\ active' = [active EXCEPT ![idOf[e]] = e]
              /\ refs' = [refs EXCEPT ![e] = {"task", "worker"}]
              /\ places' = [places EXCEPT ![e] = {"task", "run"}]
              /\ run' = [run EXCEPT ![e] = "queued"]
              /\ UNCHANGED <<permit, caller>>
         ELSE /\ Ends(c)
              /\ caller' = [caller EXCEPT ![e] = IF @ = "starting" THEN "failed" ELSE @]
              /\ UNCHANGED <<active, refs, places, run>>
      /\ UNCHANGED <<stdinSlot, flag, behind, idOf, wanted, failed>>

\* The outcome is written and the task ends.
DeliverExec(e) ==
  LET c == <<e, "exec">>
  IN  /\ link[c] = "stream" /\ run[e] \in Done /\ caller[e] # "gone"
      /\ Ends(c)
      /\ DropRegistration(e, "task")
      /\ places' = [places EXCEPT ![e] = @ \ {"task"}]
      /\ UNCHANGED <<stdinSlot, flag, run, behind, clientVars>>

\* Mutant: the stream is dropped and the run left alone.
AbortExec_RunsOn(e) ==
  LET c == <<e, "exec">>
  IN  /\ link[c] = "stream" /\ caller[e] = "gone"
      /\ Ends(c)
      /\ DropRegistration(e, "task")
      /\ places' = [places EXCEPT ![e] = @ \ {"task"}]
      /\ UNCHANGED <<stdinSlot, flag, run, behind, clientVars>>

\* The client went first: the stream is dropped, then the run is cancelled.
AbortExec(e) ==
  LET c == <<e, "exec">>
  IN  /\ link[c] = "stream" /\ caller[e] = "gone"
      /\ Ends(c)
      /\ DropRegistration(e, "task")
      /\ Cancelled(e, active')
      /\ places' = [places EXCEPT ![e] = @ \ {"task"}]
      /\ UNCHANGED <<stdinSlot, run, behind, clientVars>>

CancelExec(c) ==
  /\ link[c] = "accepted"
  /\ \E e \in Exec : c \in {<<e, "kill">>, <<e, "cancel">>} /\ Cancelled(e, active)
  /\ Ends(c)
  /\ UNCHANGED <<active, refs, places, stdinSlot, run, behind, clientVars>>

\* take_exec_stdin: claimed at most once, while the run goes on.
ExecStdin(e) ==
  LET c == <<e, "stdin">>
      found == active[idOf[e]] = e
  IN  /\ link[c] = "accepted"
      /\ stdinSlot' = [stdinSlot EXCEPT ![e] = IF found THEN "Claimed" ELSE @]
      /\ IF found /\ stdinSlot[e] = "Waiting" /\ run[e] \in InProgress
         THEN link' = [link EXCEPT ![c] = "relay"] /\ UNCHANGED permit
         ELSE Ends(c)
      /\ UNCHANGED <<active, refs, places, flag, run, behind, clientVars>>

\* End-of-file, or the run is over.
RelayEnds(e) ==
  /\ link[<<e, "stdin">>] \in {"relay", "hold"}
  /\ run[e] \in InProgress => link[<<e, "stdin">>] = "relay"
  /\ Ends(<<e, "stdin">>)
  /\ UNCHANGED <<daemonVars, clientVars>>

\* The connection breaks: the run is cancelled, and the task waits for it.
RelayBreaks(e) ==
  /\ link[<<e, "stdin">>] = "relay" /\ (failed[e] \/ caller[e] = "gone")
  /\ link' = [link EXCEPT ![<<e, "stdin">>] = "hold"]
  /\ Cancelled(e, active)
  /\ UNCHANGED <<permit, active, refs, places, stdinSlot, run, behind, clientVars>>

\* The client ended before its request could be read.
RequestLost(c) ==
  /\ link[c] = "accepted" /\ c \in Exec \X Kind /\ caller[c[1]] = "gone"
  /\ Ends(c)
  /\ UNCHANGED <<daemonVars, clientVars>>

\* A lifecycle request parks behind a run, or is answered at once.
Lifecycle(o) ==
  /\ link[o] = "accepted" /\ permit[o] = "general"
  /\ \/ \E e \in Exec :
          /\ run[e] = "running" /\ behind' = [behind EXCEPT ![o] = e]
          /\ link' = [link EXCEPT ![o] = "parked"] /\ UNCHANGED permit
     \/ Ends(o) /\ UNCHANGED behind
  /\ UNCHANGED <<active, refs, places, stdinSlot, flag, run, clientVars>>

\* No first frame comes within FIRST_FRAME_TIMEOUT or LANE_FIRST_FRAME_TIMEOUT.
FrameTimeout(o) ==
  /\ link[o] = "accepted"
  /\ Ends(o)
  /\ UNCHANGED <<daemonVars, clientVars>>

Unparks(o) ==
  /\ link[o] = "parked" /\ run[behind[o]] # "running"
  /\ Ends(o)
  /\ behind' = [behind EXCEPT ![o] = None]
  /\ UNCHANGED <<active, refs, places, stdinSlot, flag, run, clientVars>>

-----------------------------------------------------------------------------
(* The worker.                                                             *)

\* begin_exec refuses the exec: the task answers and ends.
RefuseExec(e) ==
  /\ run[e] = "queued"
  /\ run' = [run EXCEPT ![e] = "over"]
  /\ refs' = [refs EXCEPT ![e] = {}] /\ active' = [active EXCEPT ![idOf[e]] = None]
  /\ places' = [places EXCEPT ![e] = {}]
  /\ Ends(<<e, "exec">>)
  /\ caller' = [caller EXCEPT ![e] = IF @ = "starting" THEN "failed" ELSE @]
  /\ UNCHANGED <<stdinSlot, flag, behind, idOf, wanted, failed>>

\* begin_exec admits it, and runs it unless it was cancelled by then or its
\* thread does not start.
BeginExec(e) ==
  /\ run[e] = "queued"
  /\ link' = [link EXCEPT ![<<e, "exec">>] = "stream"]
  /\ caller' = [caller EXCEPT ![e] = IF @ = "starting" THEN "admitted" ELSE @]
  /\ \/ /\ ~flag[e]
        /\ run' = [run EXCEPT ![e] = "running"] /\ UNCHANGED <<active, refs, places>>
     \/ /\ run' = [run EXCEPT ![e] = "over"]
        /\ DropRegistration(e, "worker") /\ places' = [places EXCEPT ![e] = @ \ {"run"}]
  /\ UNCHANGED <<permit, stdinSlot, flag, behind, idOf, wanted, failed>>

\* Mutant: an unconfirmed run gives its place back.
RetireExec_Frees(e) ==
  /\ run[e] = "running"
  /\ DropRegistration(e, "worker")
  /\ \E how \in Done : run' = [run EXCEPT ![e] = how]
  /\ places' = [places EXCEPT ![e] = @ \ {"run"}]
  /\ UNCHANGED <<link, permit, stdinSlot, flag, behind, clientVars>>

\* The run reports, confirmed or not, and is retired; an unconfirmed one goes on
\* counting with its container.
RetireExec(e) ==
  /\ run[e] = "running"
  /\ DropRegistration(e, "worker")
  /\ \/ run' = [run EXCEPT ![e] = "over"] /\ places' = [places EXCEPT ![e] = @ \ {"run"}]
     \/ run' = [run EXCEPT ![e] = "stuck"]
        /\ places' = [places EXCEPT ![e] = (@ \ {"run"}) \cup {"quarantine"}]
  /\ UNCHANGED <<link, permit, stdinSlot, flag, behind, clientVars>>

\* The quarantined container is deleted after all.
DeleteQuarantined(e) ==
  /\ run[e] = "stuck"
  /\ run' = [run EXCEPT ![e] = "over"]
  /\ places' = [places EXCEPT ![e] = @ \ {"quarantine"}]
  /\ UNCHANGED <<link, permit, active, refs, stdinSlot, flag, behind, clientVars>>

-----------------------------------------------------------------------------
(* The clients: exec_piped, start_stdin_pump.                              *)

AdmitExec(e) ==
  /\ caller[e] = "starting" /\ Connects(<<e, "exec">>)
  /\ UNCHANGED <<daemonVars, clientVars>>

\* The exec's connection was dropped before it was answered.
AdmitFails(e) ==
  /\ caller[e] = "starting" /\ link[<<e, "exec">>] = "refused"
  /\ caller' = [caller EXCEPT ![e] = "failed"]
  /\ UNCHANGED <<link, permit, daemonVars, idOf, wanted, failed>>

\* Mutant: it is not asked for again.
Relay_NoReplay(e) ==
  /\ caller[e] = "admitted"
  /\ caller' = [caller EXCEPT ![e] = "reading"]
  /\ UNCHANGED <<link, permit, daemonVars, idOf, wanted, failed>>

\* Once admitted: a kill that was asked for meanwhile is asked for again.
Relay(e) ==
  /\ caller[e] = "admitted"
  /\ IF wanted[e]
     THEN caller' = [caller EXCEPT ![e] = "replaying"] /\ Connects(<<e, "cancel">>)
     ELSE caller' = [caller EXCEPT ![e] = "reading"] /\ UNCHANGED <<link, permit>>
  /\ UNCHANGED <<daemonVars, idOf, wanted, failed>>

\* A replay that fails ends the thread, and closes the exec's connection.
Replayed(e) ==
  /\ caller[e] = "replaying" /\ link[<<e, "cancel">>] \in {"closed", "refused"}
  /\ caller' = [caller EXCEPT ![e] = IF link[<<e, "cancel">>] = "closed" THEN "reading" ELSE "gone"]
  /\ UNCHANGED <<link, permit, daemonVars, idOf, wanted, failed>>

\* read_to_completion: the outcome, and the end of the thread.
ReadOutcome(e) ==
  /\ caller[e] = "reading" /\ link[<<e, "exec">>] = "closed"
  /\ caller' = [caller EXCEPT ![e] = "answered"]
  /\ UNCHANGED <<link, permit, daemonVars, idOf, wanted, failed>>

AttachStdin(e) ==
  /\ e \in Feeds /\ caller[e] = "reading" /\ link[<<e, "cancel">>] = "none" /\ Connects(<<e, "stdin">>)
  /\ UNCHANGED <<daemonVars, clientVars>>

\* The pump's thread does not start, or it cannot connect, cannot read its input
\* or finds the run over: unless the outcome is known by then, it cancels the exec.
PumpFails(e) ==
  /\ e \in Feeds /\ caller[e] = "reading" /\ ~failed[e]
  /\ \/ link[<<e, "stdin">>] \in {"none", "relay", "refused"}
     \/ link[<<e, "stdin">>] = "closed" /\ run[e] \in Done
  /\ failed' = [failed EXCEPT ![e] = TRUE]
  /\ Connects(<<e, "cancel">>)
  /\ UNCHANGED <<daemonVars, idOf, caller, wanted>>

\* The terminator, which its caller has once: the flag first, then the request.
Terminate(e) ==
  /\ ~wanted[e]
  /\ wanted' = [wanted EXCEPT ![e] = TRUE]
  /\ UNCHANGED <<link, permit, daemonVars, idOf, caller, failed>>

SendKill(e) ==
  /\ wanted[e] /\ Connects(<<e, "kill">>)
  /\ UNCHANGED <<daemonVars, clientVars>>

\* The client's process ends.
ClientDies(e) ==
  /\ caller[e] \in {"starting", "admitted", "replaying", "reading"}
  /\ caller' = [caller EXCEPT ![e] = "gone"]
  /\ UNCHANGED <<link, permit, daemonVars, idOf, wanted, failed>>

OtherConnects(o) == Connects(o) /\ UNCHANGED <<daemonVars, clientVars>>

-----------------------------------------------------------------------------

Task(c) == Busy(c) \/ CancelExec(c) \/ RequestLost(c)
ExecTask(e) == HandleExec(e) \/ DeliverExec(e) \/ AbortExec(e) \/ ExecStdin(e)
ExecThread(e) == AdmitExec(e) \/ AdmitFails(e) \/ Relay(e) \/ Replayed(e) \/ ReadOutcome(e)
Worker(e) == RefuseExec(e) \/ BeginExec(e)

Next ==
  \/ \E c \in Conn : Task(c)
  \/ \E e \in Exec :
       \/ ExecTask(e) \/ RelayEnds(e) \/ RelayBreaks(e)
       \/ Worker(e) \/ RetireExec(e) \/ DeleteQuarantined(e)
       \/ ExecThread(e) \/ AttachStdin(e) \/ PumpFails(e)
       \/ Terminate(e) \/ SendKill(e) \/ ClientDies(e)
  \/ \E o \in Other : OtherConnects(o) \/ Lifecycle(o) \/ FrameTimeout(o) \/ Unparks(o)

\* The accept loop, the tasks, the worker and the exec threads of the clients
\* run. A run that is cancelled ends (InterruptedRunEnds of WslcRun), another
\* need not; nothing is assumed of the callers.
Fairness ==
  /\ \A c \in Conn : WF_vars(Task(c))
  /\ \A e \in Exec :
       /\ WF_vars(ExecTask(e)) /\ WF_vars(Worker(e))
       /\ WF_vars(flag[e] /\ RetireExec(e)) /\ WF_vars(ExecThread(e))

Spec == Init /\ [][Next]_vars /\ Fairness

-----------------------------------------------------------------------------

\* A run is cancelled only by its own client: the terminator, the stdin pump or
\* the end of its connection, never by a late request for an earlier exec that
\* had the same id (cancel_exec's comparison of the run token).
CancelledByItsOwn == \A e \in Exec : flag[e] => wanted[e] \/ failed[e] \/ caller[e] = "gone"

\* No more processes than MAX_CONCURRENT_EXECS may be running, whether or not
\* their clients are still there and their ends were confirmed (ExecSlotGuard is
\* shared by the task, the run and the quarantined container).
RunsBounded == Cardinality({e \in Exec : run[e] \in {"running", "stuck"}}) <= Execs

\* What may be in the lane beside one cancellation and one stdin connection of
\* each admitted exec.
Intruder(c) ==
  \/ c \in Other \/ c \in Exec \X {"exec", "cancel"}
  \/ places[c[1]] = {}

\* The terminator of an admitted exec is refused only when something else is in
\* the lane: CANCEL_LANE_SLOTS is "room for one of each per exec", however many
\* requests wait behind runs under general permits.
KillHasRoom ==
  [][\A e \in Exec :
       link[<<e, "kill">>] = "none" /\ link'[<<e, "kill">>] = "refused" /\ places[e] # {} =>
         \E c \in Conn : permit[c] = "lane" /\ Intruder(c)]_vars

\* A terminator that was answered takes effect, also when its request came
\* before the exec was registered (exec_piped asks again once it is admitted).
KillWorks ==
  \A e \in Exec : link[<<e, "kill">>] = "closed" /\ run[e] \in InProgress ~> run[e] \notin InProgress

\* The run of a client that is gone ends (deliver_exec).
AbandonedRunEnds ==
  \A e \in Exec : caller[e] = "gone" /\ run[e] \in InProgress ~> run[e] \notin InProgress
=============================================================================
