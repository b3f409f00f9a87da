----------------------------- MODULE MCWslcRun -----------------------------
(* One exec of the WSLc daemon (WslcRun) for TLC.                          *)
EXTENDS WslcRun

\* A bound: the process of an exec that forwards stdin is silent. Output and
\* stdin meet only in the run thread, which both kinds of exec exercise.
Silent == forwards => UNCHANGED sinkVars

\* A tighter one, for liveness: the connection of such an exec is at rest too,
\* so that its stdin and its run thread are looked at alone.
Quiet == forwards => UNCHANGED <<sinkVars, pipeVars>>

\* The fairness of WslcRun, where the bound lets the step happen.
EndsSpec ==
  /\ Init /\ [][Next /\ Quiet]_vars
  /\ WF_vars(RunThread) /\ SF_vars(WaitInterrupted("TimedOut"))
  /\ WF_vars(~forwards /\ Handler) /\ WF_vars(ReadFrame) /\ WF_vars(Relay) /\ WF_vars(Writer)
  /\ WF_vars(\E s \in Stream : SinkSends(s))
=============================================================================
