------------------------- MODULE WslcHandles_proofs --------------------------
(***************************************************************************)
(* What the session manager's threads borrow, for any number of sessions,  *)
(* clients, containers and pulls: a run belongs to one container and its   *)
(* entry, and a pull or run thread never outlives the machine or container *)
(* it was handed.                                                          *)
(*                                                                         *)
(* The argument goes in layers, each an invariant of its own that may use  *)
(* the ones before it: runs (RunInv), machines (LiveInv), and what holds a *)
(* session (HoldInv).                                                      *)
(***************************************************************************)
EXTENDS WslcSlots_proofs

\* Most leaves are set reasoning for Zenon; the others name SMT.
USE Zenon

USE DEF entryVars, warmVars, slotVars, threadVars, provVars, contVars, execVars,
        loopVars, clientVars, vars

-----------------------------------------------------------------------------
(* Runs.                                                                   *)

\* While the worker still collects the reports of runs.
Attended == Serving \cup {"drainExecs", "collect"}

\* Once the runs have been waited for.
Drained == Teardown \ {"drainExecs"}

RunInv ==
  /\ \A b \in Sandbox : cont[b].quarantined => exec[b] = NoExec /\ run[b] = "idle"
  /\ \A b \in Sandbox : cont[b] # NoCont \/ run[b] = "running" => b \in handles
  /\ pc \in Drained => \A b \in Sandbox : run[b] = "idle"
  /\ pc \in Attended => \A b \in Sandbox :
       /\ exec[b] # NoExec <=> (run[b] = "running" \/ execMsg[b] # "none")
       /\ ~(run[b] = "running" /\ execMsg[b] # "none")
       /\ exec[b] # NoExec => cont[b].session = exec[b].session

RunQuiet ==
  /\ UNCHANGED <<cont, handles, exec, run, execMsg>>
  /\ pc' \in Attended => pc \in Attended
  /\ pc' \in Drained => pc \in Drained

LEMMA RunQuietKeeps == ASSUME RunInv, RunQuiet PROVE RunInv'
BY DEF RunInv, RunQuiet

LEMMA ServingPhases ==
  /\ \A p \in Serving : p \in Attended /\ p \notin Drained /\ p \notin Teardown
  /\ "serve" \in Serving /\ "reap" \in Serving /\ "defer" \in Serving
  /\ "replay" \in Serving /\ "redo" \in Serving
BY DEF Attended, Drained, Serving, Teardown

LEMMA CreateRuns ==
  ASSUME ContTypes, ExecTypes, RunInv, pc \in Serving, pc' \in Serving,
         NEW s \in Session, CreateProvisionedContainer(s), UNCHANGED execVars
  PROVE  RunInv'
<1>1. PICK b \in Sandbox :
        /\ FreshSandbox(b)
        /\ cont' = [cont EXCEPT ![b] = [NoCont EXCEPT !.session = s]]
        /\ handles' = handles \cup {b}
  BY DEF CreateProvisionedContainer
<1>2. cont'[b].quarantined = FALSE /\ exec[b] = NoExec /\ run[b] = "idle" /\ execMsg[b] = "none"
  BY <1>1 DEF ContTypes, NoCont, FreshSandbox
<1>3. \A x \in Sandbox \ {b} : cont'[x] = cont[x]
  BY <1>1 DEF ContTypes
<1> QED BY <1>1, <1>2, <1>3, ServingPhases DEF RunInv

LEMMA BeginProvisionRuns ==
  ASSUME TypeOK, RunInv, pc \in Serving, pc' \in Serving, NEW req \in Request,
         BeginProvision(req), UNCHANGED execVars
  PROVE  RunInv'
<1>1. ContTypes /\ ExecTypes /\ EntryTypes BY TypeParts
<1>2. CASE ProvisionFromStore(req)
  <2>1. EnsureSession(req.names) \in Session
    BY <1>1, <1>2 DEF ProvisionFromStore, IsReady, EnsureSession, Request, EntryTypes
  <2> QED BY <1>1, <1>2, <2>1, CreateRuns DEF ProvisionFromStore
<1>3. CASE ~ProvisionFromStore(req)
  <2>1. UNCHANGED contVars
    BY <1>3 DEF BeginProvision, ParkProvision, BootImplicitSession, ProvisionByPull,
                RefuseProvision
  <2> QED BY <2>1, ServingPhases, RunQuietKeeps DEF RunQuiet
<1> QED BY <1>2, <1>3

\* Parking work behind a run leaves the run's entry in place.
LEMMA ParkedWork ==
  ASSUME ExecTypes, NEW w \in Work, exec[w.sandbox] # NoExec, ParkWork(w)
  PROVE  /\ exec'[w.sandbox] # NoExec /\ exec'[w.sandbox].session = exec[w.sandbox].session
         /\ \A x \in Sandbox \ {w.sandbox} : exec'[x] = exec[x]
<1>1. w.sandbox \in Sandbox BY DEF Work
<1>2. exec' = [exec EXCEPT ![w.sandbox].parked = Append(@, w)] BY DEF ParkWork
<1>3. exec[w.sandbox] \in InFlightExec BY <1>1 DEF ExecTypes
<1>4. exec'[w.sandbox].client \in Client /\ exec'[w.sandbox].session = exec[w.sandbox].session
  BY SMT, <1>1, <1>2, <1>3 DEF ExecTypes, InFlightExec
<1>5. exec'[w.sandbox] # NoExec BY SMT, <1>4, NoneAssumption DEF NoExec
<1>6. \A x \in Sandbox \ {w.sandbox} : exec'[x] = exec[x] BY <1>2 DEF ExecTypes
<1> QED BY <1>4, <1>5, <1>6

LEMMA DispatchRuns ==
  ASSUME ContTypes, ExecTypes, RunInv, pc \in Serving, pc' \in Serving,
         NEW w \in Work, Dispatch(w), UNCHANGED <<run, execMsg>>
  PROVE  RunInv'
<1>0. w.sandbox \in Sandbox BY DEF Work
<1>1. CASE exec[w.sandbox] # NoExec
  <2>1. UNCHANGED contVars /\ ParkWork(w) BY <1>1 DEF Dispatch, ParkWork
  <2>2. /\ exec'[w.sandbox] # NoExec /\ exec'[w.sandbox].session = exec[w.sandbox].session
        /\ \A x \in Sandbox \ {w.sandbox} : exec'[x] = exec[x]
    BY <1>1, <2>1, ParkedWork
  <2> QED BY <1>0, <1>1, <2>1, <2>2, ServingPhases DEF RunInv
<1>2. CASE exec[w.sandbox] = NoExec
  <2>1. RunWork(w) /\ exec' = exec BY <1>2 DEF Dispatch, RunWork
  <2>2. run[w.sandbox] = "idle"
    BY <1>0, <1>2, ServingPhases DEF RunInv, ExecTypes
  <2>3. \A x \in Sandbox \ {w.sandbox} : cont'[x] = cont[x] /\ (x \in handles => x \in handles')
    BY <2>1 DEF RunWork, Start, Stop, Deprovision, RemoveContainer, ContTypes
  <2>4. cont'[w.sandbox] # NoCont => w.sandbox \in handles'
    BY <1>0, <2>1 DEF RunWork, Start, Stop, Deprovision, RemoveContainer, ContTypes, RunInv
  <2> QED BY <1>0, <1>2, <2>1, <2>2, <2>3, <2>4, ServingPhases DEF RunInv
<1> QED BY <1>1, <1>2

LEMMA RetireRuns ==
  ASSUME ContTypes, ExecTypes, RunInv, pc \in Attended, NEW b \in Sandbox, RetireExec(b),
         pc' \in Attended, pc' \in Drained => pc \in Drained
  PROVE  RunInv'
<1>1. /\ execMsg' = [execMsg EXCEPT ![b] = "none"] /\ exec' = [exec EXCEPT ![b] = NoExec]
      /\ run' = run /\ run[b] = "idle"
  BY DEF RetireExec, RunInv, ExecTypes
<1>2. /\ \A x \in Sandbox \ {b} : cont'[x] = cont[x] /\ (x \in handles => x \in handles')
      /\ cont'[b] # NoCont => b \in handles'
  BY DEF RetireExec, Quarantine, RemoveContainer, ContTypes, RunInv
<1>3. \A x \in Sandbox \ {b} : exec'[x] = exec[x] /\ execMsg'[x] = execMsg[x]
  BY <1>1 DEF ExecTypes
<1>4. exec'[b] = NoExec /\ execMsg'[b] = "none" BY <1>1 DEF ExecTypes
<1>5. \A x \in Sandbox : cont'[x].quarantined => exec'[x] = NoExec /\ run'[x] = "idle"
  BY <1>1, <1>2, <1>3, <1>4 DEF RunInv
<1>6. \A x \in Sandbox : cont'[x] # NoCont \/ run'[x] = "running" => x \in handles'
  BY <1>1, <1>2 DEF RunInv
<1>7. ASSUME NEW x \in Sandbox
      PROVE  /\ exec'[x] # NoExec <=> (run'[x] = "running" \/ execMsg'[x] # "none")
             /\ ~(run'[x] = "running" /\ execMsg'[x] # "none")
             /\ exec'[x] # NoExec => cont'[x].session = exec'[x].session
  <2>1. CASE x = b BY <1>1, <1>4, <2>1
  <2>2. CASE x # b BY <1>1, <1>2, <1>3, <2>2 DEF RunInv
  <2> QED BY <2>1, <2>2
<1>8. pc' \in Drained => \A x \in Sandbox : run'[x] = "idle" BY <1>1 DEF RunInv
<1> QED BY <1>5, <1>6, <1>7, <1>8 DEF RunInv

LEMMA RequestsRuns ==
  ASSUME TypeOK, ContTypes, ExecTypes, RunInv, Requests
  PROVE  RunInv'
<1>1. ASSUME \/ \E c \in Client : ProvisionSession(c)
             \/ \E c \in Client : \E s \in Session : DeprovisionSession(c, s)
             \/ Poll
      PROVE  RunInv'
  <2>1. UNCHANGED <<contVars, execVars>> /\ pc \in Serving /\ pc' \in Serving
    BY <1>1, ServingPhases DEF ProvisionSession, DeprovisionSession, Poll
  <2> QED BY <2>1, ServingPhases, RunQuietKeeps DEF RunQuiet
<1>2. ASSUME NEW c \in Client, NEW names \in Session \cup {None}, Provision(c, names)
      PROVE  RunInv'
  <2>1. [client |-> c, names |-> names] \in Request BY DEF Request
  <2> QED BY <1>2, <2>1, BeginProvisionRuns, ServingPhases DEF Provision
<1>3. ASSUME NEW c \in Client, NEW b \in Sandbox, BeginExec(c, b) PROVE RunInv'
  <2>1. /\ pc \in Serving /\ pc' \in Serving /\ UNCHANGED <<contVars, execMsg>>
        /\ exec[b] = NoExec /\ cont[b] # NoCont /\ ~cont[b].quarantined
        /\ exec' = [exec EXCEPT ![b] = [client |-> c, session |-> cont[b].session, parked |-> <<>>]]
        /\ run' = [run EXCEPT ![b] = "running"]
    BY <1>3, ServingPhases DEF BeginExec, ValidateExec
  <2>2. exec'[b].client = c /\ exec'[b].session = cont[b].session /\ run'[b] = "running"
    BY <2>1 DEF ExecTypes
  <2>3. exec'[b] # NoExec BY SMT, <2>2, NoneAssumption DEF NoExec
  <2>4. \A x \in Sandbox \ {b} : exec'[x] = exec[x] /\ run'[x] = run[x]
    BY <2>1 DEF ExecTypes
  <2>5. b \in handles /\ execMsg[b] = "none" BY <2>1, ServingPhases DEF RunInv
  <2>6. ASSUME NEW x \in Sandbox
        PROVE  /\ cont[x].quarantined => exec'[x] = NoExec /\ run'[x] = "idle"
               /\ exec'[x] # NoExec <=> (run'[x] = "running" \/ execMsg[x] # "none")
               /\ ~(run'[x] = "running" /\ execMsg[x] # "none")
               /\ exec'[x] # NoExec => cont[x].session = exec'[x].session
    <3>1. CASE x = b BY <3>1, <2>1, <2>2, <2>3, <2>5
    <3>2. CASE x # b BY <3>2, <2>1, <2>4, ServingPhases DEF RunInv
    <3> QED BY <3>1, <3>2
  <2> QED BY <2>1, <2>4, <2>5, <2>6, ServingPhases DEF RunInv
<1>4. ASSUME NEW w \in Work, Lifecycle(w) PROVE RunInv'
  BY <1>4, DispatchRuns, ServingPhases DEF Lifecycle
<1>5. ASSUME NEW b \in Sandbox, Retire(b) PROVE RunInv'
  <2>1. /\ pc \in Serving /\ pc' \in Serving /\ UNCHANGED <<handles, execVars>>
        /\ cont[b] # NoCont /\ cont' = [cont EXCEPT ![b].retired = TRUE]
    BY <1>5, ServingPhases DEF Retire
  <2>2. cont'[b].quarantined = cont[b].quarantined /\ cont'[b].session = cont[b].session
    BY SMT, <2>1 DEF ContTypes, ContainerEntry
  <2>3. \A x \in Sandbox \ {b} : cont'[x] = cont[x] BY <2>1 DEF ContTypes
  <2> QED BY <2>1, <2>2, <2>3, ServingPhases DEF RunInv
<1> QED BY <1>1, <1>2, <1>3, <1>4, <1>5 DEF Requests

LEMMA ReportsRuns ==
  ASSUME TypeOK, ContTypes, ExecTypes, ProvTypes, RunInv, Reports
  PROVE  RunInv'
<1>1. ASSUME \/ \E s \in Session : \/ SessionBooted(s) \/ SessionBootFailed(s)
                                   \/ SessionBootedAbandoned(s) \/ SessionReleased(s)
             \/ \E t \in Token : PullExpired(t)
      PROVE  RunInv'
  <2>1. UNCHANGED <<contVars, execVars>> /\ pc \in Serving /\ pc' \in Serving
    BY <1>1, ServingPhases DEF SessionBooted, SessionBootFailed, SessionBootedAbandoned,
                               SessionReleased, PullExpired
  <2> QED BY <2>1, ServingPhases, RunQuietKeeps DEF RunQuiet
<1>2. ASSUME NEW t \in Token, PullFinished(t) PROVE RunInv'
  <2>1. pc \in Serving /\ pc' \in Serving /\ UNCHANGED execVars
    BY <1>2, ServingPhases DEF PullFinished
  <2>2. CASE prov[t] # NoProv /\ CreateProvisionedContainer(prov[t].session)
    <3>1. prov[t].session \in Session BY <2>2 DEF ProvTypes, PendingProvision
    <3> QED BY <2>1, <2>2, <3>1, CreateRuns
  <2>3. CASE UNCHANGED contVars
    BY <2>1, <2>3, ServingPhases, RunQuietKeeps DEF RunQuiet
  <2> QED BY <1>2, <2>2, <2>3 DEF PullFinished
<1>3. ASSUME NEW b \in Sandbox, ExecFinished(b) PROVE RunInv'
  BY <1>3, RetireRuns, ServingPhases DEF ExecFinished
<1> QED BY <1>1, <1>2, <1>3 DEF Reports

LEMMA RoundsRuns ==
  ASSUME TypeOK, ContTypes, ExecTypes, LoopTypes, LoopBusy, RunInv, Rounds
  PROVE  RunInv'
<1>1. ASSUME ReplayParked PROVE RunInv'
  <2>1. Head(replay) \in Request BY SMT, <1>1 DEF ReplayParked, LoopBusy, LoopTypes
  <2> QED BY <1>1, <2>1, BeginProvisionRuns, ServingPhases DEF ReplayParked
<1>2. ASSUME RedoParked PROVE RunInv'
  <2>1. Head(redo) \in Work BY SMT, <1>2 DEF RedoParked, LoopBusy, LoopTypes
  <2> QED BY <1>2, <2>1, DispatchRuns, ServingPhases DEF RedoParked
<1>3. ASSUME \/ \E s \in Session : DeferredBoot(s) \/ ReapIdleSession(s)
             \/ DeferredBootsDone \/ ReapDone
      PROVE  RunInv'
  <2>1. UNCHANGED <<contVars, execVars>> /\ pc \in Serving /\ pc' \in Serving
    BY <1>3, ServingPhases DEF DeferredBoot, ReapIdleSession, DeferredBootsDone, ReapDone
  <2> QED BY <2>1, ServingPhases, RunQuietKeeps DEF RunQuiet
<1> QED BY <1>1, <1>2, <1>3 DEF Rounds

LEMMA ThreadsRuns ==
  ASSUME TypeOK, ExecTypes, RunInv, Threads
  PROVE  RunInv'
<1>1. ASSUME NEW b \in Sandbox, NEW report \in {"finished", "unconfirmed"},
             RunFinishes(b, report)
      PROVE  RunInv'
  <2>1. /\ run[b] = "running" /\ run' = [run EXCEPT ![b] = "idle"] /\ report # "none"
        /\ execMsg' = [execMsg EXCEPT ![b] = report] /\ UNCHANGED <<exec, contVars, pc>>
    BY <1>1 DEF RunFinishes
  <2>2. \A x \in Sandbox \ {b} : run'[x] = run[x] /\ execMsg'[x] = execMsg[x]
    BY <2>1 DEF ExecTypes
  <2>3. run'[b] = "idle" /\ execMsg'[b] # "none" BY <2>1 DEF ExecTypes
  <2>4. \A x \in Sandbox : cont'[x].quarantined => exec'[x] = NoExec /\ run'[x] = "idle"
    BY <2>1, <2>2, <2>3 DEF RunInv
  <2>5. \A x \in Sandbox : cont'[x] # NoCont \/ run'[x] = "running" => x \in handles'
    BY <2>1, <2>2, <2>3 DEF RunInv
  <2>6. ASSUME pc \in Attended, NEW x \in Sandbox
        PROVE  /\ exec[x] # NoExec <=> (run'[x] = "running" \/ execMsg'[x] # "none")
               /\ ~(run'[x] = "running" /\ execMsg'[x] # "none")
    <3>1. CASE x = b BY <2>1, <2>3, <2>6, <3>1 DEF RunInv
    <3>2. CASE x # b BY <2>2, <2>6, <3>2 DEF RunInv
    <3> QED BY <3>1, <3>2
  <2>7. pc' \in Drained => \A x \in Sandbox : run'[x] = "idle" BY <2>1, <2>2, <2>3 DEF RunInv
  <2> QED BY <2>1, <2>4, <2>5, <2>6, <2>7 DEF RunInv
<1>2. ASSUME ~ \E b \in Sandbox : \E report \in {"finished", "unconfirmed"} :
                 RunFinishes(b, report)
      PROVE  RunInv'
  <2>1. UNCHANGED <<contVars, exec, run, execMsg, pc>>
    BY <1>2 DEF Threads, BootFinishes, BootThreadExits, ReleaseStops, ReleaseReturnsSlot,
                ReleaseFails, ReleaseReports, ReleaseThreadExits, PullFinishes,
                PullThreadExits, RunThreadExits
  <2> QED BY <2>1, RunQuietKeeps DEF RunQuiet
<1> QED BY <1>1, <1>2

LEMMA EndingRuns ==
  ASSUME TypeOK, ContTypes, ExecTypes, RunInv, Ending
  PROVE  RunInv'
<1>1. ASSUME \/ Shutdown
             \/ \E s \in Session : \/ CollectBoot(s) \/ CollectLateBoot(s)
                                   \/ SessionDrained(s) \/ ReleaseDuringShutdown(s)
             \/ BootsDrained \/ BootDrainTimesOut \/ LateBootsDone \/ SessionsDrained
             \/ AllReleasesStarted \/ UnloadSdk
      PROVE  RunInv'
  <2>1. UNCHANGED <<contVars, execVars>>
    BY <1>1 DEF Shutdown, CollectBoot, CollectLateBoot, ReleaseBootedDuringShutdown,
                SessionDrained, ReleaseDuringShutdown, BootsDrained, BootDrainTimesOut,
                LateBootsDone, SessionsDrained, AllReleasesStarted, UnloadSdk
  <2>2. \/ pc = "serve" /\ pc' = "drainExecs"
        \/ pc' = pc
        \/ /\ pc \in {"drainBoots", "collectBoots", "drainPulls", "releaseAll", "drainReleases"}
           /\ pc' \in {"collectBoots", "drainPulls", "releaseAll", "drainReleases", "stopped"}
    BY <1>1 DEF Shutdown, CollectBoot, CollectLateBoot, ReleaseBootedDuringShutdown,
                SessionDrained, ReleaseDuringShutdown, BootsDrained, BootDrainTimesOut,
                LateBootsDone, SessionsDrained, AllReleasesStarted, UnloadSdk
  <2>3. (pc' \in Attended => pc \in Attended) /\ (pc' \in Drained => pc \in Drained)
    BY <2>2 DEF Attended, Drained, Teardown, Serving
  <2> QED BY <2>1, <2>3, RunQuietKeeps DEF RunQuiet
<1>2. ASSUME ExecsDrained PROVE RunInv'
  <2>1. /\ UNCHANGED <<contVars, execVars>> /\ pc = "drainExecs"
        /\ \A b \in Sandbox : run[b] = "idle"
    BY <1>2 DEF ExecsDrained, ExecsInFlight
  <2> QED BY <2>1 DEF RunInv, Attended
<1>3. ASSUME ExecDrainTimesOut PROVE RunInv'
  <2>1. /\ cont' = [b \in Sandbox |-> NoCont] /\ pc' = "stopped"
        /\ exec' = [b \in Sandbox |-> NoExec] /\ UNCHANGED <<handles, run, execMsg>>
    BY <1>3 DEF ExecDrainTimesOut
  <2>2. \A b \in Sandbox : cont'[b] = NoCont /\ ~cont'[b].quarantined BY <2>1 DEF NoCont
  <2> QED BY <2>1, <2>2 DEF RunInv, Attended, Drained, Teardown, Serving
<1>4. ASSUME NEW b \in Sandbox, CollectExec(b) PROVE RunInv'
  BY <1>4, RetireRuns DEF CollectExec, Attended
<1>5. ASSUME CollectDone PROVE RunInv'
  <2>1. /\ cont' = [b \in Sandbox |-> NoCont] /\ pc = "collect" /\ pc' = "drainBoots"
        /\ UNCHANGED run
    BY <1>5 DEF CollectDone
  <2>2. \A b \in Sandbox : cont'[b] = NoCont /\ ~cont'[b].quarantined BY <2>1 DEF NoCont
  <2>3. \A b \in Sandbox : run'[b] = "idle" BY <2>1 DEF RunInv, Drained, Teardown
  <2> QED BY <2>1, <2>2, <2>3 DEF RunInv, Attended, Serving
<1>6. ASSUME Unwind PROVE RunInv'
  <2>1. cont' = [b \in Sandbox |-> NoCont] /\ pc' = "gone" /\ UNCHANGED run
    BY <1>6 DEF Unwind
  <2>2. \A b \in Sandbox : cont'[b] = NoCont /\ ~cont'[b].quarantined BY <2>1 DEF NoCont
  <2>3. \A b \in Sandbox : run[b] = "running" => b \in handles'
    BY <1>6 DEF Unwind, Borrowed, ExecsInFlight, RunInv
  <2> QED BY <2>1, <2>2, <2>3 DEF RunInv, Attended, Drained, Teardown, Serving
<1> QED BY <1>1, <1>2, <1>3, <1>4, <1>5, <1>6 DEF Ending

LEMMA RunStep == ASSUME TInv, RunInv, [Next]_vars PROVE RunInv'
<1>0. TypeOK /\ LoopBusy /\ ProvTypes /\ ContTypes /\ ExecTypes /\ LoopTypes BY TypeParts DEF TInv
<1>1. CASE UNCHANGED vars BY <1>1, RunQuietKeeps DEF RunQuiet
<1>2. CASE Time
  <2>1. UNCHANGED <<contVars, execVars, pc>>
    BY <1>2 DEF Time, BootDeadlineElapses, ReleaseWaitElapses, GraceElapses, PullDeadlineElapses
  <2> QED BY <2>1, RunQuietKeeps DEF RunQuiet
<1> QED BY <1>0, <1>1, <1>2, RequestsRuns, ReportsRuns, RoundsRuns, ThreadsRuns, EndingRuns
        DEF Next

LEMMA RunInvHolds == Spec => []RunInv
<1>1. Init => RunInv
  <2> SUFFICES ASSUME Init PROVE RunInv OBVIOUS
  <2>1. \A b \in Sandbox : /\ cont[b] = NoCont /\ ~cont[b].quarantined /\ exec[b] = NoExec
                           /\ run[b] = "idle" /\ execMsg[b] = "none"
    BY DEF Init, NoCont
  <2> QED BY <2>1 DEF Init, RunInv
<1>2. TInv /\ RunInv /\ [Next]_vars => RunInv' BY RunStep
<1> QED BY <1>1, <1>2, TypeInvHolds, PTL DEF Spec

\* A container has at most one run, whose entry, report and container agree, so
\* finish_exec never applies a report to another run; and a quarantined container
\* is never given another run, whatever starts, stops and reports come between.
THEOREM RunsAreExclusive == Spec => []OneRunPerContainer
<1>1. RunInv => OneRunPerContainer BY DEF RunInv, OneRunPerContainer, Attended
<1> QED BY <1>1, RunInvHolds, PTL

\* Up to the end of its budget, shutdown answers an exec's client with its own
\* run's report: the worker forgets an exec only together with that report.
THEOREM ResultsAreKept == Spec => ExecResultKept
<1>1. TInv /\ RunInv /\ [Next]_vars =>
        [\A b \in Sandbox :
           exec[b] # NoExec /\ exec'[b] = NoExec /\ pc \notin {"drainExecs"} /\ pc' # "gone"
           => execMsg[b] # "none" /\ execMsg'[b] = "none"]_vars
  <2> SUFFICES ASSUME TInv, RunInv, Next, NEW b \in Sandbox, exec[b] # NoExec,
                      exec'[b] = NoExec, pc # "drainExecs", pc' # "gone"
               PROVE  execMsg[b] # "none" /\ execMsg'[b] = "none"
    OBVIOUS
  <2>0. ExecTypes /\ LoopTypes /\ LoopBusy BY TypeParts DEF TInv
  <2>1. CASE \E x \in Sandbox : ExecFinished(x) \/ CollectExec(x)
    BY <2>0, <2>1 DEF ExecFinished, CollectExec, RetireExec, ExecTypes
  <2>2. CASE CollectDone
    BY <2>2 DEF CollectDone, RunInv, Attended, Drained, Teardown
  <2>3. ASSUME NEW w \in Work, Dispatch(w) PROVE FALSE
    <3>1. CASE exec[w.sandbox] = NoExec BY <2>3, <3>1 DEF Dispatch, RunWork
    <3>2. CASE exec[w.sandbox] # NoExec BY <2>0, <2>3, <3>2, ParkedWork DEF Dispatch
    <3> QED BY <3>1, <3>2
  <2>4. CASE (\E w \in Work : Lifecycle(w)) \/ RedoParked
    <3>1. RedoParked => Head(redo) \in Work
      BY SMT, <2>0 DEF RedoParked, LoopBusy, LoopTypes
    <3> QED BY <2>3, <2>4, <3>1 DEF Lifecycle, RedoParked
  <2>5. ASSUME NEW c \in Client, NEW x \in Sandbox, BeginExec(c, x) PROVE FALSE
    <3>1. exec[x] = NoExec /\ \A y \in Sandbox \ {x} : exec'[y] = exec[y]
      BY <2>0, <2>5 DEF BeginExec, ExecTypes
    <3> QED BY <3>1
  <2>6. CASE UNCHANGED exec BY <2>6
  <2>7. Requests => \/ \E w \in Work : Lifecycle(w)
                    \/ \E c \in Client : \E x \in Sandbox : BeginExec(c, x)
                    \/ UNCHANGED exec
    BY DEF Requests, ProvisionSession, DeprovisionSession, Provision, Retire, Poll
  <2>8. Reports \/ Rounds => \/ \E x \in Sandbox : ExecFinished(x)
                             \/ RedoParked \/ UNCHANGED exec
    BY DEF Reports, SessionBooted, SessionBootFailed, SessionBootedAbandoned, SessionReleased,
           PullFinished, PullExpired, Rounds, ReplayParked, DeferredBoot, ReapIdleSession,
           DeferredBootsDone, ReapDone
  <2>9. Threads \/ Time => UNCHANGED exec
    BY DEF Threads, BootFinishes, BootThreadExits, ReleaseStops, ReleaseReturnsSlot,
           ReleaseFails, ReleaseReports, ReleaseThreadExits, PullFinishes, PullThreadExits,
           RunFinishes, RunThreadExits, Time, BootDeadlineElapses, ReleaseWaitElapses,
           GraceElapses, PullDeadlineElapses
  <2>10. Ending => (\E x \in Sandbox : CollectExec(x)) \/ CollectDone \/ UNCHANGED exec
    BY DEF Ending, Shutdown, ExecsDrained, ExecDrainTimesOut, CollectBoot, CollectLateBoot,
           ReleaseBootedDuringShutdown, SessionDrained, ReleaseDuringShutdown, BootsDrained,
           BootDrainTimesOut, LateBootsDone, SessionsDrained, AllReleasesStarted, UnloadSdk,
           Unwind
  <2> QED BY <2>1, <2>2, <2>4, <2>5, <2>6, <2>7, <2>8, <2>9, <2>10 DEF Next
<1> QED BY <1>1, RunInvHolds, TypeInvHolds, PTL DEF Spec, ExecResultKept
-----------------------------------------------------------------------------
(* Machines.                                                               *)

\* A boot is going on or has not been reported, or the session is installed.
Owned(s) ==
  boot[s] = "running" \/ bootMsg[s] # "none" \/ sess[s] \in {"booting", "abandoned", "ready", "drained"}

\* An owned session has its slot and, unless its boot failed, its machine, and
\* nobody releases it; one that the reaper is about to release is installed.
Backed(s) ==
  /\ boot[s] = "running" => bootMsg[s] = "none"
  /\ sess[s] \in {"ready", "drained"} => boot[s] # "running" /\ bootMsg[s] = "none"
  /\ pc \in Unfinished =>
       (boot[s] = "running" \/ bootMsg[s] # "none" => sess[s] \in {"booting", "abandoned"})
  /\ Owned(s) => rel[s] = "idle" /\ lease[s] # None /\ (bootMsg[s] = "failed" \/ vm[s] # None)
  /\ pc = "reap" /\ s \in expired => sess[s] = "ready"

LiveInv == \A s \in Session : Backed(s)

\* What Backed(s) reads of s, and the phases it depends on.
SameMachine(s) ==
  /\ sess'[s] = sess[s] /\ boot'[s] = boot[s] /\ bootMsg'[s] = bootMsg[s]
  /\ rel'[s] = rel[s] /\ lease'[s] = lease[s] /\ vm'[s] = vm[s]

LivePhase ==
  /\ pc' \in Unfinished => pc \in Unfinished
  /\ pc' = "reap" => pc = "reap" /\ expired' \subseteq expired

LEMMA SameMachineKeeps ==
  ASSUME NEW s \in Session, Backed(s), SameMachine(s), LivePhase
  PROVE  Backed(s)'
BY DEF Backed, Owned, SameMachine, LivePhase

LEMMA LiveQuietKeeps ==
  ASSUME LiveInv, LivePhase, UNCHANGED <<sess, boot, bootMsg, rel, lease, vm>>
  PROVE  LiveInv'
BY SameMachineKeeps DEF LiveInv, SameMachine

\* A step that concerns one session.
LEMMA LiveElsewhere ==
  ASSUME LiveInv, LivePhase, NEW s \in Session, Backed(s)',
         \A x \in Session \ {s} : SameMachine(x)
  PROVE  LiveInv'
<1>1. ASSUME NEW x \in Session PROVE Backed(x)'
  BY SameMachineKeeps DEF LiveInv
<1> QED BY <1>1 DEF LiveInv

LEMMA LeaseAndBootEffect ==
  ASSUME SlotTypes, ThreadTypes, NEW s \in Session, LeaseAndBoot(s)
  PROVE  /\ lease'[s] # None /\ vm'[s] # None /\ boot'[s] = "running"
         /\ UNCHANGED <<bootMsg, rel>> /\ sdk' = "loaded"
         /\ \A x \in Session \ {s} :
              lease'[x] = lease[x] /\ vm'[x] = vm[x] /\ boot'[x] = boot[x]
<1>1. PICK k \in Slot : lease' = [lease EXCEPT ![s] = k] /\ vm' = [vm EXCEPT ![s] = k]
  BY DEF LeaseAndBoot
<1>2. k # None BY SMT, NoneAssumption DEF Slot
<1>3. boot' = [boot EXCEPT ![s] = "running"] /\ UNCHANGED <<bootMsg, rel>> /\ sdk' = "loaded"
  BY DEF LeaseAndBoot
<1>4. /\ lease'[s] = k /\ vm'[s] = k
      /\ \A x \in Session \ {s} : lease'[x] = lease[x] /\ vm'[x] = vm[x]
  BY <1>1 DEF SlotTypes
<1>5. boot'[s] = "running" /\ \A x \in Session \ {s} : boot'[x] = boot[x]
  BY <1>3 DEF ThreadTypes
<1> QED BY <1>2, <1>3, <1>4, <1>5

\* lease_and_boot for a session that nothing was going on for.
LEMMA BootStartsLive ==
  ASSUME EntryTypes, SlotTypes, ThreadTypes, LiveInv, LivePhase, pc' # "reap",
         NEW s \in Session, LeaseAndBoot(s), sess' = [sess EXCEPT ![s] = "booting"],
         bootMsg[s] = "none", rel[s] = "idle"
  PROVE  LiveInv'
<1>1. sess'[s] = "booting" /\ \A x \in Session \ {s} : sess'[x] = sess[x]
  BY DEF EntryTypes
<1>2. Backed(s)' BY <1>1, LeaseAndBootEffect DEF Backed, Owned
<1>3. \A x \in Session \ {s} : SameMachine(x) BY <1>1, LeaseAndBootEffect DEF SameMachine
<1> QED BY <1>2, <1>3, LiveElsewhere

\* Nothing is left to answer for: a boot's report was taken off the queue, or
\* its session leaves the map.
LEMMA DisownedLive ==
  ASSUME EntryTypes, LiveInv, LivePhase, NEW s \in Session,
         sess' = [sess EXCEPT ![s] = "absent"], boot'[s] # "running", bootMsg'[s] = "none",
         pc' = "reap" => s \notin expired',
         \A x \in Session \ {s} : /\ boot'[x] = boot[x] /\ bootMsg'[x] = bootMsg[x]
                                  /\ rel'[x] = rel[x] /\ lease'[x] = lease[x] /\ vm'[x] = vm[x]
  PROVE  LiveInv'
<1>1. sess'[s] = "absent" /\ \A x \in Session \ {s} : sess'[x] = sess[x]
  BY DEF EntryTypes
<1>2. Backed(s)' BY <1>1 DEF Backed, Owned
<1>3. \A x \in Session \ {s} : SameMachine(x) BY <1>1 DEF SameMachine
<1> QED BY <1>2, <1>3, LiveElsewhere

LEMMA BeginSessionLive ==
  ASSUME TypeOK, LiveInv, LivePhase, pc' # "reap", NEW s \in Session, BeginSession(s)
  PROVE  LiveInv'
<1>0. EntryTypes /\ SlotTypes /\ ThreadTypes BY TypeParts
<1>1. boot[s] = "idle" /\ bootMsg[s] = "none" /\ rel[s] = "idle"
  BY DEF BeginSession, FreshSession
<1>2. CASE ShouldWaitForARelease
  <2>1. sess' = [sess EXCEPT ![s] = "waiting"] /\ UNCHANGED <<slotVars, threadVars>>
    BY <1>2 DEF BeginSession
  <2>2. sess'[s] = "waiting" /\ \A x \in Session \ {s} : sess'[x] = sess[x]
    BY <1>0, <2>1 DEF EntryTypes
  <2>3. Backed(s)' BY <1>1, <2>1, <2>2 DEF Backed, Owned
  <2>4. \A x \in Session \ {s} : SameMachine(x) BY <2>1, <2>2 DEF SameMachine
  <2> QED BY <2>3, <2>4, LiveElsewhere
<1>3. CASE ~ShouldWaitForARelease
  BY <1>0, <1>1, <1>3, BootStartsLive DEF BeginSession
<1> QED BY <1>2, <1>3

LEMMA BeginProvisionLive ==
  ASSUME TypeOK, LiveInv, LivePhase, pc' # "reap", NEW req, BeginProvision(req)
  PROVE  LiveInv'
<1>1. CASE BootImplicitSession(req)
  <2>1. CASE \E fresh \in Session : BeginSession(fresh) BY <2>1, BeginSessionLive
  <2>2. CASE LeaseAndBootFails /\ UNCHANGED <<entryVars, began>>
    BY <2>2, LiveQuietKeeps DEF LeaseAndBootFails
  <2> QED BY <1>1, <2>1, <2>2 DEF BootImplicitSession
<1>2. CASE ~BootImplicitSession(req)
  <2>1. UNCHANGED <<sess, slotVars, threadVars>>
    BY <1>2 DEF BeginProvision, ParkProvision, ProvisionFromStore, ProvisionByPull,
                RefuseProvision
  <2> QED BY <2>1, LiveQuietKeeps
<1> QED BY <1>1, <1>2

LEMMA ReleaseSessionEntryLive ==
  ASSUME TypeOK, LiveInv, LivePhase, NEW s \in Session, NEW c, sess[s] = "ready",
         ReleaseSessionEntry(s, c) \/ ReleaseSessionEntryFails(s), UNCHANGED slotVars,
         pc' = "reap" => s \notin expired'
  PROVE  LiveInv'
<1>0. EntryTypes /\ ThreadTypes BY TypeParts
<1>1. CASE ReleaseSessionEntry(s, c)
  <2>1. /\ sess' = [sess EXCEPT ![s] = "absent"] /\ rel' = [rel EXCEPT ![s] = "stopping"]
        /\ UNCHANGED <<boot, bootMsg>>
    BY <1>1 DEF ReleaseSessionEntry
  <2>2. boot[s] # "running" /\ bootMsg[s] = "none" BY DEF LiveInv, Backed
  <2> QED BY <1>0, <2>1, <2>2, DisownedLive DEF ThreadTypes
<1>2. CASE ReleaseSessionEntryFails(s)
  BY <1>2, LiveQuietKeeps DEF ReleaseSessionEntryFails
<1> QED BY <1>1, <1>2

LEMMA RequestsLive == ASSUME TypeOK, BootInv, LiveInv, Requests PROVE LiveInv'
<1>1. ASSUME NEW c \in Client, ProvisionSession(c) PROVE LiveInv'
  <2>1. LivePhase /\ pc' # "reap" BY <1>1 DEF ProvisionSession, LivePhase
  <2>2. CASE \E s \in Session : BeginSession(s) BY <2>1, <2>2, BeginSessionLive
  <2>3. CASE LeaseAndBootFails /\ UNCHANGED <<entryVars, began>>
    BY <2>1, <2>3, LiveQuietKeeps DEF LeaseAndBootFails
  <2> QED BY <1>1, <2>2, <2>3 DEF ProvisionSession
<1>2. ASSUME NEW c \in Client, NEW s \in Session, DeprovisionSession(c, s) PROVE LiveInv'
  <2>1. /\ LivePhase /\ pc' # "reap" /\ sess[s] = "ready" /\ UNCHANGED slotVars
        /\ ReleaseSessionEntry(s, c) \/ ReleaseSessionEntryFails(s)
    BY <1>2 DEF DeprovisionSession, LivePhase
  <2> QED BY <2>1, ReleaseSessionEntryLive
<1>3. ASSUME NEW c \in Client, NEW names \in Session \cup {None}, Provision(c, names)
      PROVE  LiveInv'
  <2>1. LivePhase /\ pc' # "reap" /\ BeginProvision([client |-> c, names |-> names])
    BY <1>3 DEF Provision, LivePhase
  <2> QED BY <2>1, BeginProvisionLive
<1>4. ASSUME \/ \E c \in Client : \E b \in Sandbox : BeginExec(c, b)
             \/ \E w \in Work : Lifecycle(w)
             \/ \E b \in Sandbox : Retire(b)
      PROVE  LiveInv'
  <2>1. UNCHANGED <<sess, slotVars, threadVars, loopVars>>
    BY <1>4 DEF BeginExec, Lifecycle, Retire
  <2> QED BY <2>1, LiveQuietKeeps DEF LivePhase
<1>5. ASSUME Poll PROVE LiveInv'
  <2>1. /\ pc = "serve" /\ UNCHANGED <<slotVars, threadVars>>
        /\ expired' = {s \in Session : sess[s] = "ready" /\ ~SessionHold(s) /\ empty[s] = "past"}
        /\ sess' = [s \in Session |->
                      IF s \notin StuckBoots THEN sess[s]
                      ELSE IF lease[s] = None THEN "absent" ELSE "abandoned"]
    BY <1>5 DEF Poll, ReapStuckBoots
  <2>2. ASSUME NEW s \in Session PROVE Backed(s)'
    <3>1. Backed(s) BY DEF LiveInv
    <3>2. CASE s \notin StuckBoots
      BY <2>1, <3>1, <3>2 DEF Backed, Owned, Unfinished, Serving
    <3>3. CASE s \in StuckBoots /\ sess[s] = "booting"
      <4>1. lease[s] # None BY <3>1, <3>3 DEF Backed, Owned
      <4>2. sess'[s] = "abandoned" BY <2>1, <3>3, <4>1
      <4> QED BY <2>1, <3>1, <3>3, <4>2 DEF Backed, Owned, Unfinished, Serving
    <3>4. CASE s \in StuckBoots /\ sess[s] = "waiting"
      <4>1. boot[s] = "idle" /\ bootMsg[s] = "none" /\ lease[s] = None BY <3>4 DEF BootInv
      <4>2. sess'[s] = "absent" /\ s \notin expired' BY <2>1, <3>4, <4>1
      <4> QED BY <2>1, <4>1, <4>2 DEF Backed, Owned
    <3> QED BY <3>2, <3>3, <3>4 DEF StuckBoots
  <2> QED BY <2>2 DEF LiveInv
<1> QED BY <1>1, <1>2, <1>3, <1>4, <1>5 DEF Requests

LEMMA ReportsLive ==
  ASSUME TypeOK, EntryTypes, SlotTypes, ThreadTypes, LiveInv, Reports
  PROVE  LiveInv'
<1>1. ASSUME NEW s \in Session, SessionBooted(s) PROVE LiveInv'
  <2>1. /\ pc = "serve" /\ pc' \in {"serve", "replay"} /\ UNCHANGED <<slotVars, boot, rel>>
        /\ sess' = [sess EXCEPT ![s] = "ready"] /\ bootMsg[s] = "up"
        /\ bootMsg' = [bootMsg EXCEPT ![s] = "none"]
    BY <1>1 DEF SessionBooted, RemovePending
  <2>2. /\ sess'[s] = "ready" /\ bootMsg'[s] = "none"
        /\ \A x \in Session \ {s} : sess'[x] = sess[x] /\ bootMsg'[x] = bootMsg[x]
    BY <2>1 DEF EntryTypes, ThreadTypes
  <2>3. Backed(s)' BY <2>1, <2>2 DEF LiveInv, Backed, Owned
  <2>4. \A x \in Session \ {s} : SameMachine(x) BY <2>1, <2>2 DEF SameMachine
  <2>5. LivePhase BY <2>1 DEF LivePhase, Unfinished, Serving
  <2> QED BY <2>3, <2>4, <2>5, LiveElsewhere
<1>2. ASSUME NEW s \in Session, SessionBootFailed(s) \/ SessionBootedAbandoned(s) PROVE LiveInv'
  <2>1. /\ pc = "serve" /\ pc' = pc /\ bootMsg[s] # "none" /\ boot' = boot
        /\ bootMsg' = [bootMsg EXCEPT ![s] = "none"] /\ sess' = [sess EXCEPT ![s] = "absent"]
    BY <1>2 DEF SessionBootFailed, SessionBootedAbandoned, FailSession, RemovePending
  <2>2. \A x \in Session \ {s} : rel'[x] = rel[x] /\ lease'[x] = lease[x] /\ vm'[x] = vm[x]
    BY <1>2 DEF SessionBootFailed, SessionBootedAbandoned, ForgetLease, DropLease,
                      SlotTypes, ThreadTypes
  <2>3. boot[s] # "running" BY <2>1 DEF LiveInv, Backed
  <2> QED BY <2>1, <2>2, <2>3, DisownedLive DEF LivePhase, ThreadTypes
<1>3. ASSUME \/ \E s \in Session : SessionReleased(s)
             \/ \E t \in Token : PullFinished(t) \/ PullExpired(t)
             \/ \E b \in Sandbox : ExecFinished(b)
      PROVE  LiveInv'
  <2>1. /\ UNCHANGED <<sess, slotVars, boot, bootMsg, rel>>
        /\ pc = "serve" /\ pc' \in {"serve", "defer", "redo"}
    BY <1>3 DEF SessionReleased, PullFinished, PullExpired, ExecFinished
  <2> QED BY <2>1, LiveQuietKeeps DEF LivePhase, Unfinished, Serving
<1> QED BY <1>1, <1>2, <1>3 DEF Reports

LEMMA RoundsLive ==
  ASSUME TypeOK, EntryTypes, SlotTypes, ThreadTypes, BootInv, LiveInv, Rounds
  PROVE  LiveInv'
<1>1. ASSUME ReplayParked PROVE LiveInv'
  <2>1. LivePhase /\ pc' # "reap" /\ BeginProvision(Head(replay))
    BY <1>1 DEF ReplayParked, LivePhase, Unfinished, Serving
  <2> QED BY <2>1, BeginProvisionLive
<1>2. ASSUME RedoParked \/ DeferredBootsDone \/ ReapDone PROVE LiveInv'
  <2>1. /\ UNCHANGED <<sess, slotVars, threadVars>>
        /\ pc \in {"redo", "defer", "reap"} /\ pc' \in {"redo", "serve", "defer"}
    BY <1>2 DEF RedoParked, DeferredBootsDone, ReapDone
  <2> QED BY <2>1, LiveQuietKeeps DEF LivePhase, Unfinished, Serving
<1>3. ASSUME NEW s \in Session, DeferredBoot(s) PROVE LiveInv'
  <2>1. pc = "defer" /\ pc' = pc /\ sess[s] = "waiting" BY <1>3 DEF DeferredBoot, NextDeferred
  <2>2. boot[s] = "idle" /\ bootMsg[s] = "none" /\ rel[s] = "idle" BY <2>1 DEF BootInv
  <2>3. CASE LeaseAndBoot(s) /\ sess' = [sess EXCEPT ![s] = "booting"]
    BY <2>1, <2>2, <2>3, BootStartsLive DEF LivePhase
  <2>4. CASE LeaseAndBootFails /\ FailSession(s)
    BY <2>1, <2>2, <2>4, DisownedLive
       DEF LivePhase, LeaseAndBootFails, FailSession, RemovePending
  <2> QED BY <1>3, <2>3, <2>4 DEF DeferredBoot
<1>4. ASSUME NEW s \in Session, ReapIdleSession(s) PROVE LiveInv'
  <2>1. /\ pc = "reap" /\ pc' = pc /\ s \in expired /\ expired' = expired \ {s}
        /\ UNCHANGED slotVars
        /\ ReleaseSessionEntry(s, None) \/ ReleaseSessionEntryFails(s)
    BY <1>4 DEF ReapIdleSession
  <2>2. sess[s] = "ready" BY <2>1 DEF LiveInv, Backed
  <2> QED BY <2>1, <2>2, ReleaseSessionEntryLive DEF LivePhase
<1> QED BY <1>1, <1>2, <1>3, <1>4 DEF Rounds

\* A release thread touches its own session only.
LEMMA ReleaseElsewhere ==
  ASSUME SlotTypes, ThreadTypes, NEW s \in Session,
         \/ ReleaseStops(s) \/ ReleaseReturnsSlot(s) \/ ReleaseFails(s)
         \/ ReleaseReports(s) \/ ReleaseThreadExits(s)
  PROVE  \A x \in Session \ {s} : rel'[x] = rel[x] /\ lease'[x] = lease[x] /\ vm'[x] = vm[x]
<1>1. CASE ReleaseStops(s) BY <1>1 DEF ReleaseStops, SlotTypes, ThreadTypes
<1>2. CASE ReleaseReturnsSlot(s) BY <1>2 DEF ReleaseReturnsSlot, DropLease, SlotTypes, ThreadTypes
<1>3. CASE ReleaseFails(s) BY <1>3 DEF ReleaseFails, ForgetLease, SlotTypes, ThreadTypes
<1>4. CASE ReleaseReports(s) BY <1>4 DEF ReleaseReports, SlotTypes, ThreadTypes
<1>5. CASE ReleaseThreadExits(s) BY <1>5 DEF ReleaseThreadExits, SlotTypes, ThreadTypes
<1> QED BY <1>1, <1>2, <1>3, <1>4, <1>5

LEMMA ThreadsLive ==
  ASSUME TypeOK, SlotTypes, ThreadTypes, LiveInv, Threads
  PROVE  LiveInv'
<1>1. ASSUME NEW s \in Session, NEW outcome \in {"up", "failed", "stuck"},
             BootFinishes(s, outcome)
      PROVE  LiveInv'
  <2>1. /\ boot[s] = "running" /\ boot' = [boot EXCEPT ![s] = "sent"]
        /\ bootMsg' = [bootMsg EXCEPT ![s] = outcome]
        /\ vm' = IF outcome = "failed" THEN [vm EXCEPT ![s] = None] ELSE vm
        /\ UNCHANGED <<lease, rel, sess, pc, expired>>
    BY <1>1 DEF BootFinishes
  <2>2. /\ boot'[s] = "sent" /\ bootMsg'[s] = outcome /\ (outcome # "failed" => vm'[s] = vm[s])
        /\ \A x \in Session \ {s} : boot'[x] = boot[x] /\ bootMsg'[x] = bootMsg[x] /\ vm'[x] = vm[x]
    BY <2>1 DEF ThreadTypes, SlotTypes
  <2>3. Backed(s)' BY <2>1, <2>2 DEF LiveInv, Backed, Owned
  <2>4. \A x \in Session \ {s} : SameMachine(x) BY <2>1, <2>2 DEF SameMachine
  <2> QED BY <2>1, <2>3, <2>4, LiveElsewhere DEF LivePhase
<1>2. ASSUME NEW s \in Session, BootThreadExits(s) PROVE LiveInv'
  <2>1. /\ boot[s] = "sent" /\ boot' = [boot EXCEPT ![s] = "idle"]
        /\ UNCHANGED <<slotVars, bootMsg, rel, sess, pc, expired>>
    BY <1>2 DEF BootThreadExits
  <2>2. boot'[s] = "idle" /\ \A x \in Session \ {s} : boot'[x] = boot[x]
    BY <2>1 DEF ThreadTypes
  <2>3. Backed(s)' BY <2>1, <2>2 DEF LiveInv, Backed, Owned
  <2>4. \A x \in Session \ {s} : SameMachine(x) BY <2>1, <2>2 DEF SameMachine
  <2> QED BY <2>1, <2>3, <2>4, LiveElsewhere DEF LivePhase
<1>3. ASSUME NEW s \in Session,
             \/ ReleaseStops(s) \/ ReleaseReturnsSlot(s) \/ ReleaseFails(s)
             \/ ReleaseReports(s) \/ ReleaseThreadExits(s)
      PROVE  LiveInv'
  <2>1. rel[s] # "idle" /\ UNCHANGED <<boot, bootMsg, sess, pc, expired>>
    BY <1>3 DEF ReleaseStops, ReleaseReturnsSlot, ReleaseFails, ReleaseReports,
                ReleaseThreadExits
  <2>2. \A x \in Session \ {s} : rel'[x] = rel[x] /\ lease'[x] = lease[x] /\ vm'[x] = vm[x]
    BY <1>3, ReleaseElsewhere
  <2>3. Backed(s) /\ ~Owned(s) BY <2>1 DEF LiveInv, Backed
  <2>4. Backed(s)' BY <2>1, <2>3 DEF Backed, Owned
  <2>5. \A x \in Session \ {s} : SameMachine(x) BY <2>1, <2>2 DEF SameMachine
  <2> QED BY <2>1, <2>4, <2>5, LiveElsewhere DEF LivePhase
<1>4. ASSUME \/ \E t \in Token : \E outcome \in {"ok", "failed"} : PullFinishes(t, outcome)
             \/ \E t \in Token : PullThreadExits(t)
             \/ \E b \in Sandbox : \E report \in {"finished", "unconfirmed"} :
                  RunFinishes(b, report)
             \/ \E b \in Sandbox : RunThreadExits(b)
      PROVE  LiveInv'
  <2>1. UNCHANGED <<sess, slotVars, threadVars, loopVars>>
    BY <1>4 DEF PullFinishes, PullThreadExits, RunFinishes, RunThreadExits
  <2> QED BY <2>1, LiveQuietKeeps DEF LivePhase
<1> QED BY <1>1, <1>2, <1>3, <1>4 DEF Threads

\* Of the sessions, some leave the map and the others stay as they are.
LEMMA SessionsLeaveLive ==
  ASSUME LiveInv, pc' \notin Unfinished, UNCHANGED <<boot, bootMsg, rel, lease, vm>>,
         \A s \in Session : sess'[s] \in {sess[s], "absent"}
  PROVE  LiveInv'
<1>1. pc' # "reap" BY DEF Unfinished, Serving
<1>2. ASSUME NEW s \in Session PROVE Backed(s)' BY <1>1 DEF LiveInv, Backed, Owned
<1> QED BY <1>2 DEF LiveInv

LEMMA EndingLive ==
  ASSUME TypeOK, EntryTypes, SlotTypes, ThreadTypes, BootInv, LiveInv, Ending
  PROVE  LiveInv'
<1>1. ASSUME \/ Shutdown \/ ExecsDrained \/ CollectDone \/ BootsDrained \/ SessionsDrained
             \/ AllReleasesStarted \/ UnloadSdk
             \/ \E b \in Sandbox : CollectExec(b)
      PROVE  LiveInv'
  <2>1. UNCHANGED <<sess, slotVars, threadVars>>
    BY <1>1 DEF Shutdown, ExecsDrained, CollectDone, BootsDrained, SessionsDrained,
                AllReleasesStarted, UnloadSdk, CollectExec
  <2>2. LivePhase
    BY <1>1 DEF Shutdown, ExecsDrained, CollectDone, BootsDrained, SessionsDrained,
                AllReleasesStarted, UnloadSdk, CollectExec, LivePhase, Unfinished, Serving
  <2> QED BY <2>1, <2>2, LiveQuietKeeps
<1>2. ASSUME NEW s \in Session, CollectBoot(s) \/ CollectLateBoot(s) PROVE LiveInv'
  <2>1. ReleaseBootedDuringShutdown(s) /\ pc # "reap" BY <1>2 DEF CollectBoot, CollectLateBoot
  <2>2. /\ pc' = pc /\ bootMsg[s] # "none" /\ boot' = boot
        /\ bootMsg' = [bootMsg EXCEPT ![s] = "none"] /\ sess' = [sess EXCEPT ![s] = "absent"]
    BY <2>1 DEF ReleaseBootedDuringShutdown, RemovePending
  <2>3. \A x \in Session \ {s} : rel'[x] = rel[x] /\ lease'[x] = lease[x] /\ vm'[x] = vm[x]
    BY <2>1 DEF ReleaseBootedDuringShutdown, ForgetLease, DropLease, SlotTypes, ThreadTypes
  <2>4. boot[s] # "running" BY <2>2 DEF LiveInv, Backed
  <2> QED BY <2>1, <2>2, <2>3, <2>4, DisownedLive DEF LivePhase, ThreadTypes
<1>3. ASSUME \/ ExecDrainTimesOut \/ BootDrainTimesOut
             \/ Unwind /\ Borrowed
      PROVE  LiveInv'
  <2>1. /\ pc' \notin Unfinished /\ UNCHANGED <<slotVars, threadVars>>
        /\ \A s \in Session : sess'[s] \in {sess[s], "absent"}
    BY <1>3 DEF ExecDrainTimesOut, BootDrainTimesOut, Unwind, Unfinished, Serving
  <2> QED BY <2>1, SessionsLeaveLive
<1>4. ASSUME LateBootsDone PROVE LiveInv'
  <2>1. /\ pc = "collectBoots" /\ pc' = "drainPulls" /\ UNCHANGED <<vm, threadVars>>
        /\ sess' = [s \in Session |-> IF s \in PendingSessions THEN "absent" ELSE sess[s]]
        /\ lease' = [s \in Session |-> IF s \in PendingSessions THEN None ELSE lease[s]]
        /\ \A s \in PendingSessions : bootMsg[s] = "none"
    BY <1>4 DEF LateBootsDone
  <2>2. ASSUME NEW s \in Session PROVE Backed(s)'
    <3>1. boot[s] = "idle" BY <2>1 DEF BootInv
    <3>2. CASE s \in PendingSessions
      BY <2>1, <3>1, <3>2 DEF Backed, Owned, Unfinished, Serving
    <3>3. CASE s \notin PendingSessions
      BY <2>1, <3>1, <3>3 DEF LiveInv, Backed, Owned, Unfinished, Serving
    <3> QED BY <3>2, <3>3
  <2> QED BY <2>2 DEF LiveInv
<1>5. ASSUME NEW s \in Session, SessionDrained(s) PROVE LiveInv'
  <2>1. /\ pc = "drainPulls" /\ pc' = pc /\ sess[s] = "ready"
        /\ sess' \in {[sess EXCEPT ![s] = "drained"], [sess EXCEPT ![s] = "absent"]}
        /\ UNCHANGED <<slotVars, threadVars>>
    BY <1>5 DEF SessionDrained
  <2>2. /\ sess'[s] \in {"drained", "absent"} /\ \A x \in Session \ {s} : sess'[x] = sess[x]
    BY <2>1 DEF EntryTypes
  <2>3. Backed(s)' BY <2>1, <2>2 DEF LiveInv, Backed, Owned, Unfinished, Serving
  <2>4. \A x \in Session \ {s} : SameMachine(x) BY <2>1, <2>2 DEF SameMachine
  <2> QED BY <2>1, <2>3, <2>4, LiveElsewhere DEF LivePhase
<1>6. ASSUME NEW s \in Session, ReleaseDuringShutdown(s) PROVE LiveInv'
  <2>1. /\ pc = "releaseAll" /\ pc' = pc /\ sess[s] = "drained"
        /\ sess' = [sess EXCEPT ![s] = "absent"] /\ UNCHANGED <<boot, bootMsg>>
    BY <1>6 DEF ReleaseDuringShutdown
  <2>2. \A x \in Session \ {s} : rel'[x] = rel[x] /\ lease'[x] = lease[x] /\ vm'[x] = vm[x]
    BY <1>6 DEF ReleaseDuringShutdown, ForgetLease, SlotTypes, ThreadTypes
  <2>3. boot[s] # "running" /\ bootMsg[s] = "none" BY <2>1 DEF LiveInv, Backed
  <2> QED BY <2>1, <2>2, <2>3, DisownedLive DEF LivePhase
<1>7. ASSUME Unwind, ~Borrowed PROVE LiveInv'
  <2>1. /\ pc \in Serving /\ pc' = "gone" /\ UNCHANGED threadVars
        /\ sess' = [s \in Session |-> "absent"]
        /\ PendingSessions = {} /\ SessionsInFlight = {}
    BY <1>7 DEF Unwind, Borrowed
  <2>2. ASSUME NEW s \in Session PROVE Backed(s)'
    <3>1. boot[s] # "running" BY <2>1 DEF SessionsInFlight
    <3>2. bootMsg[s] = "none" BY <2>1 DEF LiveInv, Backed, Unfinished, PendingSessions
    <3> QED BY <2>1, <3>1, <3>2 DEF Backed, Owned
  <2> QED BY <2>2 DEF LiveInv
<1> QED BY <1>1, <1>2, <1>3, <1>4, <1>5, <1>6, <1>7 DEF Ending

LEMMA LiveInvHolds == Spec => []LiveInv
<1>1. Init => LiveInv
  <2> SUFFICES ASSUME Init, NEW s \in Session PROVE Backed(s) BY DEF LiveInv
  <2>1. boot[s] = "idle" /\ bootMsg[s] = "none" /\ sess[s] = "absent" /\ pc = "serve"
    BY DEF Init
  <2> QED BY <2>1 DEF Backed, Owned
<1>2. SlotInv /\ LiveInv /\ [Next]_vars => LiveInv'
  <2> SUFFICES ASSUME SlotInv, LiveInv, [Next]_vars PROVE LiveInv' OBVIOUS
  <2>0. TypeOK /\ BootInv /\ EntryTypes /\ SlotTypes /\ ThreadTypes BY TypeParts DEF SlotInv
  <2>1. CASE UNCHANGED vars BY <2>1, LiveQuietKeeps DEF LivePhase
  <2>2. CASE Time
    <3>1. UNCHANGED <<sess, slotVars, threadVars, loopVars>>
      BY <2>2 DEF Time, BootDeadlineElapses, ReleaseWaitElapses, GraceElapses, PullDeadlineElapses
    <3> QED BY <3>1, LiveQuietKeeps DEF LivePhase
  <2> QED BY <2>0, <2>1, <2>2, RequestsLive, ReportsLive, RoundsLive, ThreadsLive, EndingLive
          DEF Next
<1> QED BY <1>1, <1>2, SlotInvHolds, PTL DEF Spec
-----------------------------------------------------------------------------
(* What holds a session.                                                   *)

\* A machine that a pull thread may call into: nobody boots or releases it.
Pulled(s) ==
  /\ vm[s] # None /\ rel[s] = "idle" /\ boot[s] # "running" /\ bootMsg[s] = "none"
  /\ sess[s] \in {"ready", "absent"}

HoldInv ==
  /\ pc \in Serving => \A s \in Session : SessionHold(s) => sess[s] = "ready"
  /\ pc = "reap" => \A s \in Session : s \in expired => ~SessionHold(s)
  /\ \A t \in Token : pull[t].at = "running" => Pulled(pull[t].session)
  /\ pc \in Serving \cup Teardown /\ ~abandon =>
       \A t \in Token : pull[t].at = "running" => sess[pull[t].session] = "ready"
  /\ pc \in {"releaseAll", "drainReleases"} => \A s \in Session : sess[s] # "ready"

NoNewHolds == \A s \in Session : SessionHold(s)' => SessionHold(s)

LEMMA FewerHolds ==
  ASSUME \A b \in Sandbox : cont'[b].session \in {cont[b].session, None},
         \A b \in Sandbox : exec'[b].session \in {exec[b].session, None},
         \A t \in Token : prov'[t].session \in {prov[t].session, None},
         \A t \in Token : pull'[t].session \in {pull[t].session, None}
  PROVE  NoNewHolds
<1> SUFFICES ASSUME NEW s \in Session, SessionHold(s)' PROVE SessionHold(s) BY DEF NoNewHolds
<1>1. s # None BY NoneAssumption
<1>2. CASE \E b \in Sandbox : cont'[b].session = s BY <1>1, <1>2 DEF SessionHold
<1>3. CASE \E b \in Sandbox : exec'[b].session = s BY <1>1, <1>3 DEF SessionHold
<1>4. CASE \E t \in Token : prov'[t].session = s BY <1>1, <1>4 DEF SessionHold
<1>5. CASE \E t \in Token : pull'[t].session = s BY <1>1, <1>5 DEF SessionHold, PullsInFlight
<1> QED BY <1>2, <1>3, <1>4, <1>5 DEF SessionHold, PullsInFlight

LEMMA RunningPull ==
  ASSUME ProvTypes, NEW t \in Token, pull[t].at = "running"
  PROVE  pull[t].session \in Session /\ SessionHold(pull[t].session)
<1>1. pull[t] # NoPull BY SMT DEF NoPull
<1>2. pull[t].session \in Session BY <1>1 DEF ProvTypes, PullThread
<1> QED BY <1>2 DEF SessionHold, PullsInFlight

\* While the worker serves, HoldInv comes down to the holds.
LEMMA ServingHolds ==
  ASSUME TypeOK', LiveInv', pc' \in Serving,
         \A s \in Session : SessionHold(s)' => sess'[s] = "ready",
         pc' = "reap" => \A s \in Session : s \in expired' => ~SessionHold(s)'
  PROVE  HoldInv'
<1>1. ASSUME NEW t \in Token, pull'[t].at = "running"
      PROVE  Pulled(pull[t].session)' /\ sess'[pull'[t].session] = "ready"
  <2>1. pull'[t].session \in Session /\ SessionHold(pull[t].session)'
    <3>1. pull'[t] # NoPull BY SMT, <1>1 DEF NoPull
    <3>2. pull'[t].session \in Session BY <3>1, TypePartsNext DEF ProvTypes, PullThread
    <3> QED BY <3>2 DEF SessionHold, PullsInFlight
  <2>2. sess'[pull'[t].session] = "ready" BY <2>1
  <2>3. Backed(pull[t].session)' BY <2>1 DEF LiveInv
  <2> QED BY <2>2, <2>3 DEF Pulled, Backed, Owned
<1>2. pc' \notin {"releaseAll", "drainReleases"} BY DEF Serving
<1> QED BY <1>1, <1>2 DEF HoldInv

\* Nothing new holds a session, and the sessions that are held stay as they are.
LEMMA HoldsKept ==
  ASSUME TypeOK', LiveInv', HoldInv, NoNewHolds, pc \in Serving, pc' \in Serving,
         \A s \in Session : SessionHold(s) => sess'[s] = sess[s],
         pc' = "reap" => pc = "reap" /\ expired' \subseteq expired
  PROVE  HoldInv'
<1>1. \A s \in Session : SessionHold(s)' => sess'[s] = "ready"
  BY DEF NoNewHolds, HoldInv
<1>2. pc' = "reap" => \A s \in Session : s \in expired' => ~SessionHold(s)'
  BY DEF NoNewHolds, HoldInv
<1> QED BY <1>1, <1>2, ServingHolds

LEMMA HoldsUntouched ==
  ASSUME UNCHANGED <<prov, pull, cont, exec>> PROVE NoNewHolds
BY FewerHolds

\* A container or a pull is added to an installed session.
LEMMA HoldAdded ==
  ASSUME TypeOK', LiveInv', HoldInv, pc \in Serving, pc' \in Serving, pc' # "reap",
         UNCHANGED sess, NEW r \in Session, sess[r] = "ready",
         \A s \in Session : SessionHold(s)' => SessionHold(s) \/ s = r
  PROVE  HoldInv'
<1>1. \A s \in Session : SessionHold(s)' => sess'[s] = "ready" BY DEF HoldInv
<1> QED BY <1>1, ServingHolds

LEMMA CreateHolds ==
  ASSUME ContTypes, NEW r \in Session, CreateProvisionedContainer(r), UNCHANGED <<pull, exec>>,
         \A t \in Token : prov'[t].session \in {prov[t].session, None}
  PROVE  \A s \in Session : SessionHold(s)' => SessionHold(s) \/ s = r
<1>1. PICK b \in Sandbox : cont' = [cont EXCEPT ![b] = [NoCont EXCEPT !.session = r]]
  BY DEF CreateProvisionedContainer
<1>2. cont'[b].session = r /\ \A x \in Sandbox \ {b} : cont'[x] = cont[x]
  BY <1>1 DEF ContTypes, NoCont
<1> SUFFICES ASSUME NEW s \in Session, SessionHold(s)', s # r PROVE SessionHold(s) OBVIOUS
<1>3. CASE \E x \in Sandbox : cont'[x].session = s BY <1>2, <1>3 DEF SessionHold
<1>4. CASE \E t \in Token : prov'[t].session = s BY <1>4, NoneAssumption DEF SessionHold
<1> QED BY <1>3, <1>4 DEF SessionHold, PullsInFlight

LEMMA PullHolds ==
  ASSUME ProvTypes, NEW r \in Session, NEW t \in Token, UNCHANGED <<cont, exec>>,
         pull' = [pull EXCEPT ![t] = [session |-> r, at |-> "running"]],
         \A x \in Token : prov'[x].session \in {prov[x].session, r}
  PROVE  \A s \in Session : SessionHold(s)' => SessionHold(s) \/ s = r
<1>1. pull'[t].session = r /\ \A x \in Token \ {t} : pull'[x] = pull[x] BY DEF ProvTypes
<1> SUFFICES ASSUME NEW s \in Session, SessionHold(s)', s # r PROVE SessionHold(s) OBVIOUS
<1>2. CASE \E x \in Token : pull'[x].session = s BY <1>1, <1>2 DEF SessionHold, PullsInFlight
<1>3. CASE \E x \in Token : prov'[x].session = s BY <1>3 DEF SessionHold
<1> QED BY <1>2, <1>3 DEF SessionHold, PullsInFlight

LEMMA BeginSessionHolds ==
  ASSUME TypeOK, TypeOK', LiveInv', HoldInv, pc \in Serving, pc' \in Serving, pc' # "reap",
         NEW s \in Session, BeginSession(s), UNCHANGED <<prov, pull, cont, exec>>
  PROVE  HoldInv'
<1>1. ~SessionHold(s) BY DEF BeginSession, FreshSession
<1>2. \A x \in Session \ {s} : sess'[x] = sess[x]
  BY TypeParts DEF BeginSession, EntryTypes
<1> QED BY <1>1, <1>2, HoldsUntouched, HoldsKept

LEMMA BeginProvisionHolds ==
  ASSUME TypeOK, TypeOK', LiveInv', HoldInv, pc \in Serving, pc' \in Serving, pc' # "reap",
         NEW req \in Request, BeginProvision(req), UNCHANGED execVars
  PROVE  HoldInv'
<1> DEFINE r == EnsureSession(req.names)
<1>0. EntryTypes /\ ProvTypes /\ ContTypes BY TypeParts
<1>1. IsReady(r) => r \in Session /\ sess[r] = "ready"
  BY <1>0 DEF IsReady, EnsureSession, Request, EntryTypes
<1>2. CASE BootImplicitSession(req)
  <2>1. UNCHANGED <<prov, pull, cont, exec>> BY <1>2 DEF BootImplicitSession
  <2>2. CASE \E fresh \in Session : BeginSession(fresh) BY <2>1, <2>2, BeginSessionHolds
  <2>3. CASE UNCHANGED entryVars BY <2>1, <2>3, HoldsUntouched, HoldsKept
  <2> QED BY <1>2, <2>2, <2>3 DEF BootImplicitSession
<1>3. CASE ParkProvision(req) \/ RefuseProvision(req)
  <2>1. UNCHANGED <<sess, prov, pull, cont, exec>>
    BY <1>3 DEF ParkProvision, RefuseProvision
  <2> QED BY <2>1, HoldsUntouched, HoldsKept
<1>4. CASE ProvisionFromStore(req)
  <2>1. /\ IsReady(r) /\ CreateProvisionedContainer(r)
        /\ UNCHANGED <<sess, prov, pull, exec>>
    BY <1>4 DEF ProvisionFromStore
  <2>2. \A s \in Session : SessionHold(s)' => SessionHold(s) \/ s = r
    BY <1>0, <1>1, <2>1, CreateHolds
  <2> QED BY <1>1, <2>1, <2>2, HoldAdded
<1>5. CASE ProvisionByPull(req)
  <2>1. PICK t \in Token :
          /\ pull' = [pull EXCEPT ![t] = [session |-> r, at |-> "running"]]
          /\ \/ prov' = [prov EXCEPT ![t] = [client |-> req.client, session |-> r]]
             \/ UNCHANGED prov
    BY <1>5 DEF ProvisionByPull
  <2>2. IsReady(r) /\ UNCHANGED <<sess, cont, exec>> BY <1>5 DEF ProvisionByPull
  <2>3. \A x \in Token : prov'[x].session \in {prov[x].session, r}
    BY SMT, <1>0, <2>1 DEF ProvTypes
  <2>4. \A s \in Session : SessionHold(s)' => SessionHold(s) \/ s = r
    BY <1>0, <1>1, <2>1, <2>2, <2>3, PullHolds
  <2> QED BY <1>1, <2>2, <2>4, HoldAdded
<1> QED BY <1>2, <1>3, <1>4, <1>5 DEF BeginProvision

LEMMA DispatchHolds ==
  ASSUME ContTypes, ExecTypes, NEW w \in Work, Dispatch(w), UNCHANGED <<prov, pull>>
  PROVE  NoNewHolds
<1>1. CASE exec[w.sandbox] # NoExec
  <2>1. UNCHANGED cont /\ ParkWork(w) BY <1>1 DEF Dispatch, ParkWork
  <2>2. \A b \in Sandbox : exec'[b].session = exec[b].session
    BY <1>1, <2>1, ParkedWork
  <2> QED BY <2>1, <2>2, FewerHolds
<1>2. CASE exec[w.sandbox] = NoExec
  <2>1. RunWork(w) /\ exec' = exec BY <1>2 DEF Dispatch, RunWork
  <2>2. \A b \in Sandbox : cont'[b].session \in {cont[b].session, None}
    <3>1. CASE UNCHANGED cont BY <3>1
    <3>2. CASE Deprovision(w.sandbox)
      BY <3>2 DEF Deprovision, RemoveContainer, ContTypes, NoCont
    <3>3. CASE Start(w.sandbox) \/ Stop(w.sandbox)
      BY SMT, <3>3 DEF Start, Stop, ContTypes, ContainerEntry, NoCont, Work
    <3> QED BY <2>1, <3>1, <3>2, <3>3 DEF RunWork
  <2> QED BY <2>1, <2>2, FewerHolds
<1> QED BY <1>1, <1>2

LEMMA RetireExecHolds ==
  ASSUME ContTypes, ExecTypes, NEW b \in Sandbox, RetireExec(b), UNCHANGED <<prov, pull>>
  PROVE  NoNewHolds
<1>1. \A x \in Sandbox : exec'[x].session \in {exec[x].session, None}
  BY DEF RetireExec, ExecTypes, NoExec
<1>2. \A x \in Sandbox : cont'[x].session \in {cont[x].session, None}
  <2>1. CASE UNCHANGED cont BY <2>1
  <2>2. CASE RemoveContainer(b) BY <2>2 DEF RemoveContainer, ContTypes, NoCont
  <2>3. CASE cont[b] # NoCont /\ cont' = [cont EXCEPT ![b].quarantined = TRUE]
    BY SMT, <2>3 DEF ContTypes, ContainerEntry
  <2> QED BY <2>1, <2>2, <2>3 DEF RetireExec, Quarantine
<1> QED BY <1>1, <1>2, FewerHolds

LEMMA RequestsHold ==
  ASSUME TypeOK, EntryTypes, ContTypes, ExecTypes, TypeOK', LiveInv', HoldInv, Requests
  PROVE  HoldInv'
<1>1. ASSUME NEW c \in Client, ProvisionSession(c) PROVE HoldInv'
  <2>1. pc \in Serving /\ pc' \in Serving /\ pc' # "reap" /\ UNCHANGED <<prov, pull, cont, exec>>
    BY <1>1 DEF ProvisionSession, Serving
  <2>2. CASE \E s \in Session : BeginSession(s) BY <2>1, <2>2, BeginSessionHolds
  <2>3. CASE UNCHANGED entryVars BY <2>1, <2>3, HoldsUntouched, HoldsKept
  <2> QED BY <1>1, <2>2, <2>3 DEF ProvisionSession
<1>2. ASSUME NEW c \in Client, NEW s \in Session, DeprovisionSession(c, s) PROVE HoldInv'
  <2>1. /\ pc = "serve" /\ pc' = pc /\ ~SessionHold(s) /\ UNCHANGED <<prov, pull, cont, exec>>
        /\ sess' = sess \/ sess' = [sess EXCEPT ![s] = "absent"]
    BY <1>2 DEF DeprovisionSession, ReleaseSessionEntry, ReleaseSessionEntryFails
  <2>2. \A x \in Session \ {s} : sess'[x] = sess[x] BY <2>1 DEF EntryTypes
  <2>3. pc \in Serving /\ pc' \in Serving /\ pc' # "reap" BY <2>1 DEF Serving
  <2> QED BY <2>1, <2>2, <2>3, HoldsUntouched, HoldsKept
<1>3. ASSUME NEW c \in Client, NEW names \in Session \cup {None}, Provision(c, names)
      PROVE  HoldInv'
  <2>1. [client |-> c, names |-> names] \in Request BY DEF Request
  <2>2. /\ pc = "serve" /\ pc' = pc /\ UNCHANGED execVars
        /\ BeginProvision([client |-> c, names |-> names])
    BY <1>3 DEF Provision
  <2>3. pc \in Serving /\ pc' \in Serving /\ pc' # "reap" BY <2>2 DEF Serving
  <2> QED BY <2>1, <2>2, <2>3, BeginProvisionHolds
<1>4. ASSUME NEW c \in Client, NEW b \in Sandbox, BeginExec(c, b) PROVE HoldInv'
  <2>1. /\ pc = "serve" /\ pc' = pc /\ UNCHANGED <<sess, prov, pull, cont>> /\ cont[b] # NoCont
        /\ exec' = [exec EXCEPT ![b] = [client |-> c, session |-> cont[b].session,
                                        parked |-> <<>>]]
    BY <1>4 DEF BeginExec, ValidateExec
  <2>2. pc \in Serving /\ pc' \in Serving /\ pc' # "reap" BY <2>1 DEF Serving
  <2>3. exec'[b].session = cont[b].session /\ \A x \in Sandbox \ {b} : exec'[x] = exec[x]
    BY <2>1 DEF ExecTypes
  <2>4. NoNewHolds
    <3> SUFFICES ASSUME NEW s \in Session, SessionHold(s)' PROVE SessionHold(s)
      BY DEF NoNewHolds
    <3>1. CASE \E x \in Sandbox : exec'[x].session = s BY <2>3, <3>1 DEF SessionHold
    <3> QED BY <2>1, <3>1 DEF SessionHold, PullsInFlight
  <2> QED BY <2>1, <2>2, <2>4, HoldsKept
<1>5. ASSUME NEW w \in Work, Lifecycle(w) PROVE HoldInv'
  <2>1. /\ pc = "serve" /\ pc' = pc /\ UNCHANGED <<sess, prov, pull>> /\ Dispatch(w)
    BY <1>5 DEF Lifecycle
  <2>2. pc \in Serving /\ pc' \in Serving /\ pc' # "reap" BY <2>1 DEF Serving
  <2> QED BY <2>1, <2>2, DispatchHolds, HoldsKept
<1>6. ASSUME NEW b \in Sandbox, Retire(b) PROVE HoldInv'
  <2>1. /\ pc = "serve" /\ pc' = pc /\ UNCHANGED <<sess, prov, pull, exec>> /\ cont[b] # NoCont
        /\ cont' = [cont EXCEPT ![b].retired = TRUE]
    BY <1>6 DEF Retire
  <2>2. pc \in Serving /\ pc' \in Serving /\ pc' # "reap" BY <2>1 DEF Serving
  <2>3. \A x \in Sandbox : cont'[x].session = cont[x].session
    BY SMT, <2>1 DEF ContTypes, ContainerEntry
  <2> QED BY <2>1, <2>2, <2>3, FewerHolds, HoldsKept
<1>7. ASSUME Poll PROVE HoldInv'
  <2>1. /\ pc = "serve" /\ pc' = "reap" /\ UNCHANGED <<prov, pull, cont, exec>>
        /\ \A s \in Session : s \notin StuckBoots => sess'[s] = sess[s]
        /\ \A s \in Session : s \in expired' => ~SessionHold(s)
    BY <1>7 DEF Poll, ReapStuckBoots
  <2>2. pc \in Serving /\ pc' \in Serving BY <2>1 DEF Serving
  <2>3. \A s \in Session : SessionHold(s)' = SessionHold(s)
    BY <2>1 DEF SessionHold, PullsInFlight
  <2>4. \A s \in Session : SessionHold(s) => sess[s] = "ready" /\ s \notin StuckBoots
    BY <2>2 DEF HoldInv, StuckBoots
  <2> QED BY <2>1, <2>2, <2>3, <2>4, ServingHolds
<1> QED BY <1>1, <1>2, <1>3, <1>4, <1>5, <1>6, <1>7 DEF Requests

LEMMA ReportsHold ==
  ASSUME TypeOK, EntryTypes, ProvTypes, ContTypes, ExecTypes, TypeOK', LiveInv, LiveInv',
         HoldInv, Reports
  PROVE  HoldInv'
<1>1. ASSUME NEW s \in Session,
             SessionBooted(s) \/ SessionBootFailed(s) \/ SessionBootedAbandoned(s)
      PROVE  HoldInv'
  <2>1. /\ pc = "serve" /\ pc' \in {"serve", "replay"} /\ UNCHANGED <<prov, pull, cont, exec>>
        /\ bootMsg[s] # "none" /\ \E e \in {"ready", "absent"} : sess' = [sess EXCEPT ![s] = e]
    BY <1>1 DEF SessionBooted, SessionBootFailed, SessionBootedAbandoned, FailSession,
                RemovePending
  <2>2. pc \in Serving /\ pc' \in Serving /\ pc' # "reap" BY <2>1 DEF Serving
  <2>3. ~SessionHold(s) BY <2>1, <2>2 DEF LiveInv, Backed, HoldInv, Unfinished
  <2>4. \A x \in Session \ {s} : sess'[x] = sess[x] BY <2>1 DEF EntryTypes
  <2> QED BY <2>1, <2>2, <2>3, <2>4, HoldsUntouched, HoldsKept
<1>2. ASSUME NEW s \in Session, SessionReleased(s) PROVE HoldInv'
  <2>1. pc = "serve" /\ pc' = "defer" /\ UNCHANGED <<sess, prov, pull, cont, exec>>
    BY <1>2 DEF SessionReleased
  <2>2. pc \in Serving /\ pc' \in Serving /\ pc' # "reap" BY <2>1 DEF Serving
  <2> QED BY <2>1, <2>2, HoldsUntouched, HoldsKept
<1>3. ASSUME NEW t \in Token, PullFinished(t) \/ PullExpired(t) PROVE HoldInv'
  <2>1. /\ pc = "serve" /\ pc' = pc /\ UNCHANGED <<sess, pull, exec>>
        /\ prov' = [prov EXCEPT ![t] = NoProv]
        /\ \/ prov[t] # NoProv /\ CreateProvisionedContainer(prov[t].session)
           \/ UNCHANGED cont
    BY <1>3 DEF PullFinished, PullExpired, RemoveProvision
  <2>2. pc \in Serving /\ pc' \in Serving /\ pc' # "reap" BY <2>1 DEF Serving
  <2>3. \A x \in Token : prov'[x].session \in {prov[x].session, None}
    BY <2>1 DEF ProvTypes, NoProv
  <2>4. CASE UNCHANGED cont BY <2>1, <2>2, <2>3, <2>4, FewerHolds, HoldsKept
  <2>5. CASE prov[t] # NoProv /\ CreateProvisionedContainer(prov[t].session)
    <3>1. prov[t].session \in Session /\ SessionHold(prov[t].session)
      BY <2>5 DEF ProvTypes, PendingProvision, SessionHold
    <3>2. sess[prov[t].session] = "ready" BY <2>2, <3>1 DEF HoldInv
    <3>3. \A s \in Session : SessionHold(s)' => SessionHold(s) \/ s = prov[t].session
      BY <2>1, <2>3, <2>5, <3>1, CreateHolds
    <3> QED BY <2>1, <2>2, <3>1, <3>2, <3>3, HoldAdded
  <2> QED BY <2>1, <2>4, <2>5
<1>4. ASSUME NEW b \in Sandbox, ExecFinished(b) PROVE HoldInv'
  <2>1. /\ pc = "serve" /\ pc' \in {"serve", "redo"} /\ UNCHANGED <<sess, prov, pull>>
        /\ RetireExec(b)
    BY <1>4 DEF ExecFinished
  <2>2. pc \in Serving /\ pc' \in Serving /\ pc' # "reap" BY <2>1 DEF Serving
  <2> QED BY <2>1, <2>2, RetireExecHolds, HoldsKept
<1> QED BY <1>1, <1>2, <1>3, <1>4 DEF Reports

LEMMA RoundsHold ==
  ASSUME TypeOK, EntryTypes, ContTypes, ExecTypes, LoopTypes, LoopBusy, TypeOK', LiveInv',
         HoldInv, Rounds
  PROVE  HoldInv'
<1>1. ASSUME ReplayParked PROVE HoldInv'
  <2>1. Head(replay) \in Request BY SMT, <1>1 DEF ReplayParked, LoopBusy, LoopTypes
  <2>2. /\ pc = "replay" /\ pc' \in {"serve", "replay"} /\ UNCHANGED execVars
        /\ BeginProvision(Head(replay))
    BY <1>1 DEF ReplayParked
  <2>3. pc \in Serving /\ pc' \in Serving /\ pc' # "reap" BY <2>2 DEF Serving
  <2> QED BY <2>1, <2>2, <2>3, BeginProvisionHolds
<1>2. ASSUME RedoParked PROVE HoldInv'
  <2>1. Head(redo) \in Work BY SMT, <1>2 DEF RedoParked, LoopBusy, LoopTypes
  <2>2. /\ pc = "redo" /\ pc' \in {"serve", "redo"} /\ UNCHANGED <<sess, prov, pull>>
        /\ Dispatch(Head(redo))
    BY <1>2 DEF RedoParked
  <2>3. pc \in Serving /\ pc' \in Serving /\ pc' # "reap" BY <2>2 DEF Serving
  <2> QED BY <2>1, <2>2, <2>3, DispatchHolds, HoldsKept
<1>3. ASSUME NEW s \in Session, DeferredBoot(s) PROVE HoldInv'
  <2>1. /\ pc = "defer" /\ pc' = pc /\ UNCHANGED <<prov, pull, cont, exec>>
        /\ sess[s] = "waiting" /\ \E e \in {"booting", "absent"} : sess' = [sess EXCEPT ![s] = e]
    BY <1>3 DEF DeferredBoot, NextDeferred, FailSession, RemovePending
  <2>2. pc \in Serving /\ pc' \in Serving /\ pc' # "reap" BY <2>1 DEF Serving
  <2>3. ~SessionHold(s) BY <2>1, <2>2 DEF HoldInv
  <2>4. \A x \in Session \ {s} : sess'[x] = sess[x] BY <2>1 DEF EntryTypes
  <2> QED BY <2>1, <2>2, <2>3, <2>4, HoldsUntouched, HoldsKept
<1>4. ASSUME NEW s \in Session, ReapIdleSession(s) PROVE HoldInv'
  <2>1. /\ pc = "reap" /\ pc' = pc /\ UNCHANGED <<prov, pull, cont, exec>>
        /\ s \in expired /\ expired' = expired \ {s}
        /\ sess' = sess \/ sess' = [sess EXCEPT ![s] = "absent"]
    BY <1>4 DEF ReapIdleSession, ReleaseSessionEntry, ReleaseSessionEntryFails
  <2>2. pc \in Serving /\ pc' \in Serving /\ expired' \subseteq expired BY <2>1 DEF Serving
  <2>3. ~SessionHold(s) BY <2>1 DEF HoldInv
  <2>4. \A x \in Session \ {s} : sess'[x] = sess[x] BY <2>1 DEF EntryTypes
  <2> QED BY <2>1, <2>2, <2>3, <2>4, HoldsUntouched, HoldsKept
<1>5. ASSUME DeferredBootsDone \/ ReapDone PROVE HoldInv'
  <2>1. /\ pc \in {"defer", "reap"} /\ pc' \in {"serve", "defer"}
        /\ UNCHANGED <<sess, prov, pull, cont, exec>>
    BY <1>5 DEF DeferredBootsDone, ReapDone
  <2>2. pc \in Serving /\ pc' \in Serving /\ pc' # "reap" BY <2>1 DEF Serving
  <2> QED BY <2>1, <2>2, HoldsUntouched, HoldsKept
<1> QED BY <1>1, <1>2, <1>3, <1>4, <1>5 DEF Rounds

\* The pulls that still run did so before, on a machine left to them.
KeptPulls ==
  \A t \in Token : pull'[t].at = "running" => pull'[t] = pull[t] /\ Pulled(pull[t].session)'

LEMMA PullsKept ==
  ASSUME ProvTypes, HoldInv, UNCHANGED pull,
         \A s \in Session : Pulled(s) /\ PullsInFlight(s) # {} => Pulled(s)'
  PROVE  KeptPulls
<1> SUFFICES ASSUME NEW t \in Token, pull'[t].at = "running"
             PROVE  pull'[t] = pull[t] /\ Pulled(pull[t].session)'
  BY DEF KeptPulls
<1>1. pull[t].at = "running" /\ pull[t].session \in Session BY RunningPull
<1>2. Pulled(pull[t].session) BY <1>1 DEF HoldInv
<1>3. PullsInFlight(pull[t].session) # {} BY DEF PullsInFlight
<1> QED BY <1>1, <1>2, <1>3

LEMMA ThreadHolds ==
  ASSUME HoldInv, NoNewHolds, KeptPulls, UNCHANGED <<sess, pc, expired, abandon>>
  PROVE  HoldInv'
BY DEF HoldInv, NoNewHolds, KeptPulls

LEMMA ThreadsHold ==
  ASSUME TypeOK, SlotTypes, ThreadTypes, ProvTypes, HoldInv, Threads
  PROVE  HoldInv'
<1>1. ASSUME NEW s \in Session,
             \/ \E outcome \in {"up", "failed", "stuck"} : BootFinishes(s, outcome)
             \/ BootThreadExits(s)
             \/ ReleaseStops(s) \/ ReleaseReturnsSlot(s) \/ ReleaseFails(s)
             \/ ReleaseReports(s) \/ ReleaseThreadExits(s)
      PROVE  HoldInv'
  <2>1. UNCHANGED <<sess, pc, expired, abandon, prov, pull, cont, exec>>
    BY <1>1 DEF BootFinishes, BootThreadExits, ReleaseStops, ReleaseReturnsSlot, ReleaseFails,
                ReleaseReports, ReleaseThreadExits
  <2>2. \A x \in Session \ {s} : /\ boot'[x] = boot[x] /\ bootMsg'[x] = bootMsg[x]
                                 /\ rel'[x] = rel[x] /\ vm'[x] = vm[x]
    <3>1. CASE \E outcome \in {"up", "failed", "stuck"} : BootFinishes(s, outcome)
      <4>1. PICK outcome \in {"up", "failed", "stuck"} :
              /\ boot' = [boot EXCEPT ![s] = "sent"] /\ bootMsg' = [bootMsg EXCEPT ![s] = outcome]
              /\ vm' = (IF outcome = "failed" THEN [vm EXCEPT ![s] = None] ELSE vm)
              /\ rel' = rel
        BY <3>1 DEF BootFinishes
      <4> QED BY <4>1 DEF SlotTypes, ThreadTypes
    <3>2. CASE BootThreadExits(s) BY <3>2 DEF BootThreadExits, ThreadTypes
    <3>3. CASE \/ ReleaseStops(s) \/ ReleaseReturnsSlot(s) \/ ReleaseFails(s)
               \/ ReleaseReports(s) \/ ReleaseThreadExits(s)
      <4>1. UNCHANGED <<boot, bootMsg>>
        BY <3>3 DEF ReleaseStops, ReleaseReturnsSlot, ReleaseFails, ReleaseReports,
                    ReleaseThreadExits
      <4> QED BY <3>3, <4>1, ReleaseElsewhere
    <3> QED BY <1>1, <3>1, <3>2, <3>3
  <2>3. Pulled(s) => Pulled(s)'
    <3>1. CASE BootThreadExits(s)
      <4>1. boot' = [boot EXCEPT ![s] = "idle"] /\ UNCHANGED <<vm, rel, bootMsg>>
        BY <3>1 DEF BootThreadExits
      <4>2. boot'[s] = "idle" BY <4>1 DEF ThreadTypes
      <4> QED BY <2>1, <4>1, <4>2 DEF Pulled
    <3>2. CASE ~BootThreadExits(s)
      <4>1. boot[s] = "running" \/ rel[s] # "idle"
        BY <1>1, <3>2 DEF BootFinishes, ReleaseStops, ReleaseReturnsSlot, ReleaseFails,
                          ReleaseReports, ReleaseThreadExits
      <4> QED BY <4>1 DEF Pulled
    <3> QED BY <3>1, <3>2
  <2>4. \A x \in Session : Pulled(x) => Pulled(x)' BY <2>1, <2>2, <2>3 DEF Pulled
  <2>5. KeptPulls BY <2>1, <2>4, PullsKept
  <2> QED BY <2>1, <2>5, HoldsUntouched, ThreadHolds
<1>2. ASSUME NEW t \in Token,
             \/ \E outcome \in {"ok", "failed"} : PullFinishes(t, outcome)
             \/ PullThreadExits(t)
      PROVE  HoldInv'
  <2>1. /\ UNCHANGED <<sess, pc, expired, abandon, prov, cont, exec, slotVars, threadVars>>
        /\ pull' \in {[pull EXCEPT ![t].at = "sent"], [pull EXCEPT ![t] = NoPull]}
    BY <1>2 DEF PullFinishes, PullThreadExits
  <2>2. /\ pull'[t].at # "running" /\ pull'[t].session \in {pull[t].session, None}
        /\ \A x \in Token \ {t} : pull'[x] = pull[x]
    <3>1. CASE pull' = [pull EXCEPT ![t] = NoPull] BY SMT, <3>1 DEF ProvTypes, NoPull
    <3>2. CASE pull' = [pull EXCEPT ![t].at = "sent"]
      BY SMT, <3>2 DEF ProvTypes, NoPull, PullThread
    <3> QED BY <2>1, <3>1, <3>2
  <2>3. NoNewHolds BY <2>1, <2>2, FewerHolds
  <2>4. KeptPulls
    <3> SUFFICES ASSUME NEW x \in Token, pull'[x].at = "running"
                 PROVE  pull'[x] = pull[x] /\ Pulled(pull[x].session)'
      BY DEF KeptPulls
    <3>1. pull'[x] = pull[x] BY <2>2
    <3>2. Pulled(pull[x].session) BY <3>1 DEF HoldInv
    <3> QED BY <2>1, <3>1, <3>2 DEF Pulled
  <2> QED BY <2>1, <2>3, <2>4, ThreadHolds
<1>3. ASSUME NEW b \in Sandbox,
             \/ \E report \in {"finished", "unconfirmed"} : RunFinishes(b, report)
             \/ RunThreadExits(b)
      PROVE  HoldInv'
  <2>1. UNCHANGED <<sess, pc, expired, abandon, prov, pull, cont, exec, slotVars, threadVars>>
    BY <1>3 DEF RunFinishes, RunThreadExits
  <2>2. KeptPulls BY <2>1, PullsKept DEF Pulled
  <2> QED BY <2>1, <2>2, HoldsUntouched, ThreadHolds
<1> QED BY <1>1, <1>2, <1>3 DEF Threads

\* What the worker's end has to do for the pulls it has not waited for.
LEMMA EndHolds ==
  ASSUME HoldInv, KeptPulls, pc \in Serving \cup Teardown, pc' \notin Serving,
         pc' \in Teardown /\ ~abandon' =>
           ~abandon /\ \A t \in Token : pull'[t].at = "running" =>
                         sess'[pull[t].session] = sess[pull[t].session],
         pc' \in {"releaseAll", "drainReleases"} => \A s \in Session : sess'[s] # "ready"
  PROVE  HoldInv'
<1>1. pc' # "reap" BY DEF Serving
<1>2. ASSUME pc' \in Teardown, ~abandon', NEW t \in Token, pull'[t].at = "running"
      PROVE  sess'[pull'[t].session] = "ready"
  BY <1>2 DEF HoldInv, KeptPulls
<1> QED BY <1>1, <1>2 DEF HoldInv, KeptPulls

LEMMA MoreAbandoned == ASSUME abandon' \in {abandon, TRUE} PROVE ~abandon' => ~abandon
OBVIOUS

LEMMA EndingHold ==
  ASSUME TypeOK, EntryTypes, SlotTypes, ThreadTypes, ProvTypes, LiveInv, HoldInv, Ending
  PROVE  HoldInv'
<1>1. ASSUME \/ Shutdown \/ ExecsDrained \/ CollectDone \/ BootsDrained \/ SessionsDrained
             \/ AllReleasesStarted \/ UnloadSdk
             \/ \E b \in Sandbox : CollectExec(b)
      PROVE  HoldInv'
  <2>1. UNCHANGED <<sess, slotVars, threadVars, pull, abandon>>
    BY <1>1 DEF Shutdown, ExecsDrained, CollectDone, BootsDrained, SessionsDrained,
                AllReleasesStarted, UnloadSdk, CollectExec
  <2>2. pc \in Serving \cup Teardown /\ pc' \notin Serving
    BY <1>1 DEF Shutdown, ExecsDrained, CollectDone, BootsDrained, SessionsDrained,
                AllReleasesStarted, UnloadSdk, CollectExec, Serving, Teardown
  <2>3. pc' \in {"releaseAll", "drainReleases"} => \A s \in Session : sess[s] # "ready"
    BY <1>1 DEF Shutdown, ExecsDrained, CollectDone, BootsDrained, SessionsDrained,
                AllReleasesStarted, UnloadSdk, CollectExec, HoldInv
  <2>4. KeptPulls BY <2>1, PullsKept DEF Pulled
  <2> QED BY <2>1, <2>2, <2>3, <2>4, EndHolds
<1>2. ASSUME NEW s \in Session, CollectBoot(s) \/ CollectLateBoot(s) PROVE HoldInv'
  <2>1. /\ ReleaseBootedDuringShutdown(s) /\ pc' = pc /\ pc \in Serving \cup Teardown
        /\ pc' \notin Serving /\ pc' \notin {"releaseAll", "drainReleases"}
    BY <1>2 DEF CollectBoot, CollectLateBoot, ReleaseBootedDuringShutdown, Serving, Teardown
  <2>2. /\ UNCHANGED <<boot, pull>> /\ bootMsg[s] # "none" /\ abandon' \in {abandon, TRUE}
        /\ bootMsg' = [bootMsg EXCEPT ![s] = "none"] /\ sess' = [sess EXCEPT ![s] = "absent"]
    BY <2>1 DEF ReleaseBootedDuringShutdown, RemovePending
  <2>3. \A x \in Session \ {s} : rel'[x] = rel[x] /\ vm'[x] = vm[x]
    BY <2>1 DEF ReleaseBootedDuringShutdown, ForgetLease, DropLease, SlotTypes, ThreadTypes
  <2>4. \A x \in Session \ {s} : bootMsg'[x] = bootMsg[x] /\ sess'[x] = sess[x]
    BY <2>2 DEF EntryTypes, ThreadTypes
  <2>5. ~Pulled(s) BY <2>2 DEF Pulled
  <2>6. KeptPulls BY <2>2, <2>3, <2>4, <2>5, PullsKept DEF Pulled
  <2>7. ASSUME NEW t \in Token, pull'[t].at = "running"
        PROVE  sess'[pull[t].session] = sess[pull[t].session]
    <3>1. pull[t].at = "running" BY <2>2, <2>7
    <3>2. pull[t].session \in Session BY <3>1, RunningPull
    <3>3. Pulled(pull[t].session) BY <3>1 DEF HoldInv
    <3> QED BY <2>4, <2>5, <3>2, <3>3
  <2> QED BY <2>1, <2>2, <2>6, <2>7, MoreAbandoned, EndHolds
<1>3. ASSUME \/ ExecDrainTimesOut \/ BootDrainTimesOut \/ LateBootsDone
             \/ Unwind /\ Borrowed
      PROVE  HoldInv'
  <2>1. /\ pc \in Serving \cup Teardown /\ pc' \notin Serving
        /\ pc' \notin {"releaseAll", "drainReleases"}
        /\ UNCHANGED <<vm, threadVars, pull>>
        /\ \A s \in Session : sess'[s] \in {sess[s], "absent"}
        /\ \/ abandon' = TRUE \/ pc' \notin Teardown
           \/ /\ UNCHANGED abandon
              /\ \A s \in Session : sess[s] = "ready" => sess'[s] = sess[s]
    <3>1. CASE ExecDrainTimesOut BY <3>1 DEF ExecDrainTimesOut, Serving, Teardown
    <3>2. CASE BootDrainTimesOut BY <3>2 DEF BootDrainTimesOut, Serving, Teardown
    <3>3. CASE LateBootsDone BY <3>3 DEF LateBootsDone, PendingSessions, Serving, Teardown
    <3>4. CASE Unwind /\ Borrowed BY <3>4 DEF Unwind, Serving, Teardown
    <3> QED BY <1>3, <3>1, <3>2, <3>3, <3>4
  <2>2. KeptPulls BY <2>1, PullsKept DEF Pulled
  <2>3. ASSUME pc' \in Teardown, ~abandon' PROVE ~abandon BY <2>1, <2>3
  <2>4. ASSUME pc' \in Teardown, ~abandon', NEW t \in Token, pull'[t].at = "running"
        PROVE  sess'[pull[t].session] = sess[pull[t].session]
    <3>1. pull[t].at = "running" BY <2>1, <2>4
    <3>2. pull[t].session \in Session BY <3>1, RunningPull
    <3>3. sess[pull[t].session] = "ready" BY <2>1, <2>3, <2>4, <3>1 DEF HoldInv
    <3> QED BY <2>1, <2>4, <3>2, <3>3
  <2> QED BY <2>1, <2>2, <2>3, <2>4, EndHolds
<1>4. ASSUME NEW s \in Session, SessionDrained(s) PROVE HoldInv'
  <2>1. /\ pc = "drainPulls" /\ pc' = pc /\ sess[s] = "ready"
        /\ UNCHANGED <<slotVars, threadVars, pull>> /\ abandon' \in {abandon, TRUE}
        /\ \/ PullsInFlight(s) = {} /\ sess' = [sess EXCEPT ![s] = "drained"]
           \/ abandon' = TRUE /\ sess' = [sess EXCEPT ![s] = "absent"]
    BY <1>4 DEF SessionDrained
  <2>2. /\ pc \in Serving \cup Teardown /\ pc' \notin Serving
        /\ pc' \notin {"releaseAll", "drainReleases"}
    BY <2>1 DEF Serving, Teardown
  <2>3. /\ \A x \in Session \ {s} : sess'[x] = sess[x]
        /\ PullsInFlight(s) # {} => abandon' = TRUE /\ sess'[s] = "absent"
    BY <2>1 DEF EntryTypes
  <2>4. KeptPulls BY <2>1, <2>3, PullsKept DEF Pulled
  <2>5. ASSUME ~abandon', NEW t \in Token, pull'[t].at = "running"
        PROVE  sess'[pull[t].session] = sess[pull[t].session]
    <3>1. pull[t].at = "running" BY <2>1, <2>5
    <3>2. pull[t].session \in Session BY <3>1, RunningPull
    <3>3. PullsInFlight(s) = {} BY <2>3, <2>5
    <3>4. pull[t].session # s BY <3>3 DEF PullsInFlight
    <3> QED BY <2>3, <3>2, <3>4
  <2> QED BY <2>1, <2>2, <2>4, <2>5, MoreAbandoned, EndHolds
<1>5. ASSUME NEW s \in Session, ReleaseDuringShutdown(s) PROVE HoldInv'
  <2>1. /\ pc = "releaseAll" /\ pc' = pc /\ sess[s] = "drained"
        /\ UNCHANGED <<boot, bootMsg, pull>> /\ abandon' \in {abandon, TRUE}
        /\ sess' = [sess EXCEPT ![s] = "absent"]
    BY <1>5 DEF ReleaseDuringShutdown
  <2>2. pc \in Serving \cup Teardown /\ pc' \notin Serving BY <2>1 DEF Serving, Teardown
  <2>3. \A x \in Session \ {s} : rel'[x] = rel[x] /\ vm'[x] = vm[x]
    BY <1>5 DEF ReleaseDuringShutdown, ForgetLease, SlotTypes, ThreadTypes
  <2>4. sess'[s] = "absent" /\ \A x \in Session \ {s} : sess'[x] = sess[x]
    BY <2>1 DEF EntryTypes
  <2>5. ~Pulled(s) BY <2>1 DEF Pulled
  <2>6. KeptPulls BY <2>1, <2>3, <2>4, <2>5, PullsKept DEF Pulled
  <2>7. ASSUME NEW t \in Token, pull'[t].at = "running"
        PROVE  sess'[pull[t].session] = sess[pull[t].session]
    <3>1. pull[t].at = "running" BY <2>1, <2>7
    <3>2. pull[t].session \in Session BY <3>1, RunningPull
    <3>3. Pulled(pull[t].session) BY <3>1 DEF HoldInv
    <3> QED BY <2>4, <2>5, <3>2, <3>3
  <2>8. \A x \in Session : sess'[x] # "ready" BY <2>1, <2>4 DEF HoldInv
  <2> QED BY <2>1, <2>2, <2>6, <2>7, <2>8, MoreAbandoned, EndHolds
<1>6. ASSUME Unwind, ~Borrowed PROVE HoldInv'
  <2>1. pc \in Serving /\ pc' = "gone" /\ UNCHANGED pull BY <1>6 DEF Unwind
  <2>2. \A t \in Token : pull'[t].at # "running" BY <1>6, <2>1 DEF Borrowed
  <2>3. KeptPulls BY <2>2 DEF KeptPulls
  <2>4. pc' \notin Serving /\ pc' \notin Teardown /\ pc' \notin {"releaseAll", "drainReleases"}
    BY <2>1 DEF Serving, Teardown
  <2> QED BY <2>1, <2>3, <2>4, EndHolds
<1> QED BY <1>1, <1>2, <1>3, <1>4, <1>5, <1>6 DEF Ending

LEMMA HoldInvHolds == Spec => []HoldInv
<1>1. Init => HoldInv
  <2> SUFFICES ASSUME Init PROVE HoldInv OBVIOUS
  <2>1. /\ \A s \in Session : ~SessionHold(s)
        /\ \A t \in Token : pull[t].at # "running"
    BY NoneAssumption DEF Init, SessionHold, PullsInFlight, NoCont, NoProv, NoPull, NoExec
  <2>2. pc = "serve" BY DEF Init
  <2> QED BY <2>1, <2>2 DEF HoldInv
<1>2. TInv /\ TypeOK' /\ LiveInv /\ LiveInv' /\ HoldInv /\ [Next]_vars => HoldInv'
  <2> SUFFICES ASSUME TInv, TypeOK', LiveInv, LiveInv', HoldInv, [Next]_vars PROVE HoldInv'
    OBVIOUS
  <2>0. /\ TypeOK /\ LoopBusy /\ EntryTypes /\ SlotTypes /\ ThreadTypes /\ ProvTypes
        /\ ContTypes /\ ExecTypes /\ LoopTypes
    BY TypeParts DEF TInv
  <2>1. CASE UNCHANGED vars BY <2>1 DEF HoldInv, SessionHold, PullsInFlight, Pulled
  <2>2. CASE Time
    <3>1. UNCHANGED <<sess, pc, expired, abandon, prov, pull, cont, exec, slotVars, threadVars>>
      BY <2>2 DEF Time, BootDeadlineElapses, ReleaseWaitElapses, GraceElapses, PullDeadlineElapses
    <3>2. KeptPulls BY <2>0, <3>1, PullsKept DEF Pulled
    <3> QED BY <3>1, <3>2, HoldsUntouched, ThreadHolds
  <2> QED BY <2>0, <2>1, <2>2, RequestsHold, ReportsHold, RoundsHold, ThreadsHold, EndingHold
          DEF Next
<1>3. TInv => TypeOK BY DEF TInv
<1> QED BY <1>1, <1>2, <1>3, TypeInvHolds, LiveInvHolds, PTL DEF Spec

\* No thread outlives the machine or the container whose handle it was given,
\* and what uses a session finds it installed (Worker::session_hold and the
\* waits of Worker::shutdown).
THEOREM HandlesOutliveBorrowers == Spec => []BorrowedHandlesLive
<1>1. RunInv /\ HoldInv => BorrowedHandlesLive
  BY DEF RunInv, HoldInv, Pulled, BorrowedHandlesLive
<1> QED BY <1>1, RunInvHolds, HoldInvHolds, PTL
=============================================================================
