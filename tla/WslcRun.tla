------------------------------ MODULE WslcRun ------------------------------
(* One exec of the WSLc daemon from admission to its terminal frame: the    *)
(* run thread, the process, live output and stdin together.                 *)
EXTENDS WslcRunThread, WslcRunOutput, WslcRunStdin

Next ==
  \/ RunThread \/ Handler \/ Relay \/ Writer
  \/ DeleteQuarantined \/ LoseRun \/ ProcessEnds \/ ExitCallback
  \/ \E s \in Stream : SinkChecks(s) \/ SinkSends(s)
  \/ ReadFrame \/ RequestCancel \/ ClientLeaves
  \/ Attach \/ SendStdin \/ BreakStdin

\* The daemon's threads and tasks run; time passes, so that a wait with a
\* timeout comes to it; a callback that has started returns. Nothing is assumed
\* of the process, which may never end, nor of the client, except that ReadFrame
\* is taken by one that is reading.
Fairness ==
  /\ WF_vars(RunThread) /\ SF_vars(WaitInterrupted("TimedOut"))
  /\ WF_vars(Handler) /\ WF_vars(ReadFrame)
  /\ WF_vars(Relay) /\ WF_vars(Writer)
  /\ WF_vars(\E s \in Stream : SinkSends(s))

Spec == Init /\ [][Next]_vars /\ Fairness
-----------------------------------------------------------------------------

\* What the client is given of a stream is a prefix of what the process wrote to
\* it, without a gap (enqueue_output: "a clean truncated prefix rather than a
\* gapped stream"), although two callback threads race on the latch. And a run
\* whose exit callback had come when it was classified and whose client is told
\* an exit code and of no truncation has delivered every chunk: output queued when
\* the run completed, or dropped by the sink, is never silently missing
\* (write_exec_result, terminal_frames).
WholeOutput ==
  /\ ~gapped
  /\ client = "Exited" /\ ~truncated /\ confirmed => lost = {} /\ queue = <<>>

\* A process that may still run sees its stdin closed only after the client's
\* whole input, or when it closed it itself, or when stdin could not be attached
\* at all: never because the connection broke, a write failed, or the exec was
\* cancelled, timed out or quarantined with input outstanding (relay_stdin,
\* StdinWriter, exec_in_container, quarantine). A daemon that gives up on its
\* runs is about to exit, and closes everything.
NoCutShortInput ==
  proc = "alive" /\ done # "lost" =>
    \/ stdin \in {"open", "reader_gone", "unattached"}
    \/ stdin = "complete" /\ fed = MaxIn

\* A run that was cancelled, or has a timeout, is retired, whatever its process
\* does (wait_for_exit_event, exec_in_container).
InterruptedRunEnds == cancelled \/ timed ~> ~InFlight

\* Once a run is retired, a client that goes on reading is given its outcome,
\* although a process that was not confirmed dead may produce for ever
\* (write_exec_result's biased select and its close). It is stated for execs
\* without stdin, which has no part in it.
ClientAnswered == ~forwards /\ ~InFlight ~> client # "reading"

\* After the run is over its stdin connection is let go, and the writer thread
\* of a confirmed run ends (run_alive, StdinStop::stop).
StdinReleased ==
  /\ pc = "over" /\ relay # "none" ~> relay = "ended"
  /\ pc = "over" /\ report # Unconfirmed ~> writer \in {"none", "ended"}
=============================================================================
