--------------------------- MODULE WslcRunThread ---------------------------
(* The run thread of an exec, from the creation of the process to the       *)
(* report (exec_in_container, run_exec), and the worker that retires it.    *)
EXTENDS WslcRunState

\* What the run thread leaves alone unless it stops or attaches the writer.
NoStream == <<fixed, sinkVars, pipeVars>>

\* StdinStop::stop: the gate is marked, an idle writer is woken by an empty
\* chunk, and a write in progress is cancelled. It may give up on the write.
StopWriter ==
  IF writer \in {"none", "ended"}
  THEN UNCHANGED <<stopped, chunks>>
  ELSE /\ stopped' = TRUE
       /\ chunks' = IF Sending /\ Len(chunks) < InCapacity THEN Append(chunks, EOF) ELSE chunks

\* The thread has its result; dropping what it holds of stdin comes first.
Returns(r) == report' = r /\ pc' = "stop"

CreateProcess(ok) ==
  /\ pc = "create"
  /\ IF ok
     THEN /\ proc' = "alive" /\ pc' = IF forwards THEN "attach" ELSE "event"
          /\ UNCHANGED report
     ELSE Returns("Error") /\ UNCHANGED proc
  /\ UNCHANGED <<NoStream, callback, hasEvent, exitWait, confirmed, cancelled, done, held, inVars>>

\* Without the handle, or without a thread to write to it, the process is
\* killed: in the second case its stdin is closed by then.
AttachStdin(ok) ==
  /\ pc = "attach"
  /\ IF ok
     THEN writer' = "recv" /\ pc' = "event" /\ UNCHANGED <<stdin, chunks>>
     ELSE /\ pc' = "kill" /\ stdin' \in {"open", "unattached"} /\ chunks' = <<>>
          /\ UNCHANGED writer
  /\ UNCHANGED <<NoStream, procVars, hasEvent, exitWait, confirmed, report, cancelled, done, held,
                 relayVars, chunk, failure, fed, gateVars>>

KillWait ==
  /\ pc = "kill"
  /\ IF callback THEN Returns("Error") ELSE report' = Unconfirmed /\ pc' = "return"
  /\ UNCHANGED <<NoStream, procVars, hasEvent, exitWait, confirmed, cancelled, done, held, inVars>>

\* WslcGetProcessExitEvent fails, or gives an event, or a null one.
GetExitEvent(ok) ==
  /\ pc = "event"
  /\ IF ok
     THEN pc' = "wait" /\ hasEvent' \in BOOLEAN /\ UNCHANGED report
     ELSE report' = Unconfirmed /\ pc' = "return" /\ UNCHANGED hasEvent
  /\ UNCHANGED <<NoStream, procVars, exitWait, confirmed, cancelled, done, held, inVars>>

\* The head of wait_for_exit_event: a cancellation goes before a timeout.
WaitInterrupted(i) ==
  /\ pc = "wait"
  /\ \/ i = "Cancelled" /\ cancelled
     \/ i = "TimedOut" /\ ~cancelled /\ timed
  /\ exitWait' = i /\ pc' = "interrupt"
  /\ UNCHANGED <<NoStream, procVars, hasEvent, confirmed, report, cancelled, done, held, inVars>>

WaitOn ==
  /\ pc = "wait" /\ ~cancelled
  /\ pc' = "slice"
  /\ UNCHANGED <<NoStream, procVars, hasEvent, exitWait, confirmed, report, cancelled, done, held,
                 inVars>>

\* Mutant: the wait is not sliced, so that a cancellation is not looked at again.
WaitSlice_Whole ==
  /\ pc = "slice"
  /\ \/ hasEvent /\ proc = "ended" /\ exitWait' = "Signalled" /\ pc' = "confirm"
     \/ hasEvent /\ exitWait' = "Failed" /\ pc' = "confirm"
     \/ ~hasEvent /\ callback /\ exitWait' = "NoEvent" /\ pc' = "confirm"
  /\ UNCHANGED <<NoStream, procVars, hasEvent, confirmed, report, cancelled, done, held, inVars>>

\* One slice of the wait: on the event, or on the callback when there is none.
WaitSlice ==
  /\ pc = "slice"
  /\ \/ hasEvent /\ proc = "ended" /\ exitWait' = "Signalled" /\ pc' = "confirm"
     \/ hasEvent /\ exitWait' = "Failed" /\ pc' = "confirm"
     \/ ~hasEvent /\ callback /\ exitWait' = "NoEvent" /\ pc' = "confirm"
     \/ /\ IF hasEvent THEN proc # "ended" ELSE ~callback
        /\ pc' = "wait" /\ UNCHANGED exitWait
  /\ UNCHANGED <<NoStream, procVars, hasEvent, confirmed, report, cancelled, done, held, inVars>>

\* A process that reads forwarded stdin is not signalled, because the signal
\* would close its stdin; its writer is frozen instead. Another is killed, which
\* is a request that may fail.
Interrupt ==
  /\ pc = "interrupt"
  /\ pc' = "confirm"
  /\ frozen' = (frozen \/ (forwards /\ writer # "ended"))
  /\ UNCHANGED <<NoStream, procVars, hasEvent, exitWait, confirmed, report, cancelled, done, held,
                 relayVars, writerVars, stopped, chunks>>

\* A bounded wait for the exit callback, and a second one after an interruption.
Confirm(inTime) ==
  /\ pc \in {"confirm", "again"}
  /\ inTime => callback
  /\ ~inTime => ~callback
  /\ confirmed' = inTime
  /\ pc' = IF pc = "confirm" /\ ~inTime /\ exitWait \in Interrupted THEN "again" ELSE "code"
  /\ UNCHANGED <<NoStream, procVars, hasEvent, exitWait, report, cancelled, done, held, inVars>>

\* natural_exit_confirmed
NaturalExitConfirmed == exitWait = "Signalled" \/ (exitWait = "NoEvent" /\ confirmed)

\* classify_completion
ClassifyCompletion ==
  CASE NaturalExitConfirmed -> "Exited"
    [] ~NaturalExitConfirmed /\ exitWait \in Interrupted /\ confirmed -> exitWait
    [] OTHER -> Unconfirmed

\* WslcGetProcessExitCode, and the completion from positive evidence only. The
\* stdin of a process that may still run is not dropped.
GetExitCode(ok) ==
  /\ pc = "code"
  /\ IF ~ok /\ NaturalExitConfirmed
     THEN Returns("Error")
     ELSE /\ report' = ClassifyCompletion
          /\ pc' = IF ClassifyCompletion = Unconfirmed THEN "return" ELSE "stop"
  /\ hasEvent' = TRUE /\ exitWait' = "none"   \* of no more use
  /\ UNCHANGED <<NoStream, procVars, confirmed, cancelled, done, held, inVars>>

\* StdinHold::drop on the run thread.
DropStdin ==
  /\ pc = "stop"
  /\ pc' = "return"
  /\ StopWriter
  /\ UNCHANGED <<NoStream, procVars, hasEvent, exitWait, confirmed, report, cancelled, done, held,
                 relayVars, writerVars, frozen>>

\* run_exec: a confirmed end of a run whose stdin could not be written is an
\* error. Its return drops run_alive and its part of the sink.
RunReturns ==
  /\ pc = "return"
  /\ pc' = "over"
  /\ report' = IF failure /\ report \in {"Exited"} \cup Interrupted THEN "Error" ELSE report
  /\ UNCHANGED <<NoStream, procVars, hasEvent, exitWait, confirmed, cancelled, done, held, inVars>>

\* The worker retires the run (retire_exec, quarantine). Deleting the container
\* ends what runs in it; a container that cannot be deleted keeps the stdin.
Retire(deleted) ==
  /\ pc = "over" /\ InFlight
  /\ report # Unconfirmed => ~deleted
  /\ done' = IF report = Unconfirmed THEN "Error" ELSE report
  /\ proc' = IF deleted THEN "ended" ELSE proc
  /\ held' = (report = Unconfirmed /\ ~deleted)
  /\ IF deleted THEN StopWriter ELSE UNCHANGED <<stopped, chunks>>
  /\ UNCHANGED <<NoStream, callback, runVars, cancelled, relayVars, writerVars, frozen>>

\* A later deprovision or the shutdown deletes the quarantined container.
DeleteQuarantined ==
  /\ held
  /\ held' = FALSE /\ proc' = "ended"
  /\ StopWriter
  /\ UNCHANGED <<NoStream, callback, runVars, cancelled, done, relayVars, writerVars, frozen>>

\* The shutdown runs out of patience with the run and drops its entry.
LoseRun ==
  /\ InFlight
  /\ done' = "lost"
  /\ UNCHANGED <<NoStream, procVars, runVars, cancelled, held, inVars>>

-----------------------------------------------------------------------------
(* The process.                                                            *)

ProcessEnds ==
  /\ proc = "alive"
  /\ proc' = "ended"
  /\ UNCHANGED <<NoStream, callback, runVars, cancelled, done, held, inVars>>

\* exit_callback: the last of the process's callbacks.
ExitCallback ==
  /\ proc = "ended" /\ ~callback /\ inSink = {}
  /\ callback' = TRUE
  /\ UNCHANGED <<NoStream, proc, runVars, cancelled, done, held, inVars>>

RunThread ==
  \/ \E ok \in BOOLEAN : CreateProcess(ok) \/ AttachStdin(ok) \/ GetExitEvent(ok) \/ GetExitCode(ok)
  \/ \E i \in Interrupted : WaitInterrupted(i)
  \/ \E inTime \in BOOLEAN : Confirm(inTime)
  \/ KillWait \/ WaitOn \/ WaitSlice \/ Interrupt \/ DropStdin \/ RunReturns
  \/ \E deleted \in BOOLEAN : Retire(deleted)
=============================================================================
