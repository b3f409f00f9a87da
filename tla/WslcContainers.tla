--------------------------- MODULE WslcContainers ---------------------------
(***************************************************************************)
(* Containers: their lifecycle commands, at most one exec at a time on a   *)
(* thread of its own, the work that parks behind a run, and the quarantine *)
(* of a container whose run could not be confirmed to have ended.          *)
(***************************************************************************)
EXTENDS WslcProvision

\* Worker::start, Worker::stop and Worker::deprovision when the SDK agrees.
Start(b) ==
  /\ cont[b] # NoCont /\ sdk = "loaded" /\ ~cont[b].quarantined
  /\ cont' = [cont EXCEPT ![b].started = TRUE]
  /\ UNCHANGED handles

Stop(b) ==
  /\ cont[b] # NoCont /\ sdk = "loaded"
  /\ cont' = [cont EXCEPT ![b].started = FALSE]
  /\ UNCHANGED handles

RemoveContainer(b) ==
  /\ cont' = [cont EXCEPT ![b] = NoCont]
  /\ handles' = handles \ {b}

Deprovision(b) == cont[b] # NoCont /\ RemoveContainer(b)

\* Worker::dispatch of lifecycle work on a container without an exec in
\* flight; whatever fails leaves the entry as it is.
RunWork(w) ==
  /\ \/ w.op = "start" /\ Start(w.sandbox)
     \/ w.op = "stop" /\ Stop(w.sandbox)
     \/ w.op = "deprovision" /\ Deprovision(w.sandbox)
     \/ UNCHANGED contVars
  /\ Answered(w.client)
  /\ UNCHANGED exec

\* ... and on one with an exec in flight.
ParkWork(w) ==
  /\ exec' = [exec EXCEPT ![w.sandbox].parked = Append(@, w)]
  /\ Kept(w.client)
  /\ UNCHANGED contVars

\* Worker::dispatch
Dispatch(w) ==
  IF exec[w.sandbox] # NoExec THEN ParkWork(w) ELSE RunWork(w)

\* WorkerCommand::Container for start, stop and deprovision.
Lifecycle(w) ==
  /\ pc = "serve" /\ w.client \notin waiting
  /\ Dispatch(w)
  /\ UNCHANGED <<run, lingering, execMsg>>
  /\ UNCHANGED <<entryVars, warmVars, slotVars, threadVars, provVars, loopVars, sdk>>

\* Mutant: an exec is admitted on a quarantined container.
ValidateExec_IgnoresQuarantine(b) == cont[b] # NoCont /\ cont[b].started

\* Worker::validate_exec
ValidateExec(b) == cont[b] # NoCont /\ ~cont[b].quarantined /\ cont[b].started

\* WorkerCommand::Container for an exec that is admitted and whose thread
\* starts: Worker::begin_exec. Every other outcome (busy, invalid, cancelled
\* before it ran, abandoned by its client, no thread) is answered on the spot.
BeginExec(c, b) ==
  /\ pc = "serve" /\ c \notin waiting
  /\ exec[b] = NoExec /\ ValidateExec(b) /\ sdk = "loaded"
  /\ exec' = [exec EXCEPT ![b] = [client |-> c, session |-> cont[b].session,
                                  parked |-> <<>>]]
  /\ run' = [run EXCEPT ![b] = "running"]
  /\ TouchSession(cont[b].session)
  /\ Kept(c)
  /\ UNCHANGED <<lingering, execMsg, sess, reply, parked, earlier, age, default>>
  /\ UNCHANGED <<warmVars, slotVars, threadVars, provVars, contVars, loopVars, sdk>>

\* The run thread queues its report, then releases the in-flight count.
RunFinishes(b, report) ==
  /\ run[b] = "running"
  /\ run' = [run EXCEPT ![b] = "idle"]
  /\ lingering' = lingering \cup {b}
  /\ execMsg' = [execMsg EXCEPT ![b] = report]
  /\ UNCHANGED exec
  /\ UNCHANGED <<entryVars, warmVars, slotVars, threadVars, provVars, contVars,
                 loopVars, sdk, clientVars>>

RunThreadExits(b) ==
  /\ b \in lingering
  /\ lingering' = lingering \ {b}
  /\ UNCHANGED <<exec, run, execMsg>>
  /\ UNCHANGED <<entryVars, warmVars, slotVars, threadVars, provVars, contVars,
                 loopVars, sdk, clientVars>>

\* Worker::quarantine: the container is deleted, else blocked.
Quarantine(b) ==
  \/ sdk = "loaded" /\ RemoveContainer(b)
  \/ /\ cont' = IF cont[b] = NoCont THEN cont
                ELSE [cont EXCEPT ![b].quarantined = TRUE]
     /\ UNCHANGED handles

\* Worker::retire_exec: the exec's client is answered; the caller gets the
\* parked work.
RetireExec(b) ==
  /\ execMsg[b] # "none"
  /\ execMsg' = [execMsg EXCEPT ![b] = "none"]
  /\ exec' = [exec EXCEPT ![b] = NoExec]
  /\ IF execMsg[b] = "unconfirmed" THEN Quarantine(b) ELSE UNCHANGED contVars
  /\ UNCHANGED <<run, lingering>>

\* WorkerCommand::ExecFinished: Worker::finish_exec, up to its loop ...
ExecFinished(b) ==
  /\ pc = "serve"
  /\ RetireExec(b)
  /\ waiting' = waiting \ {exec[b].client}
  /\ redo' = exec[b].parked
  /\ pc' = IF exec[b].parked = <<>> THEN "serve" ELSE "redo"
  /\ UNCHANGED <<expired, replay, abandon, dropped>>
  /\ UNCHANGED <<entryVars, warmVars, slotVars, threadVars, provVars, sdk>>

\* ... and one round of it.
RedoParked ==
  /\ pc = "redo"
  /\ Dispatch(Head(redo))
  /\ redo' = Tail(redo)
  /\ pc' = IF Tail(redo) = <<>> THEN "serve" ELSE "redo"
  /\ UNCHANGED <<run, lingering, execMsg, expired, replay, abandon>>
  /\ UNCHANGED <<entryVars, warmVars, slotVars, threadVars, provVars, sdk>>

\* WorkerCommand::Retire
Retire(b) ==
  /\ pc = "serve" /\ cont[b] # NoCont
  /\ cont' = [cont EXCEPT ![b].retired = TRUE]
  /\ UNCHANGED handles
  /\ UNCHANGED <<entryVars, warmVars, slotVars, threadVars, provVars, execVars,
                 loopVars, sdk, clientVars>>
=============================================================================
