--------------------------- MODULE MCExecStreams ---------------------------
(* The streams of an exec for TLC: of the WSLc daemon (WslcRun), or of the   *)
(* daemon of Windows Sandbox (WsbExec).                                      *)
EXTENDS MCWslcRun, WsbExec

CONSTANTS e1, e2

VARIABLE backend

everything == <<backend, vars, execVars>>

Execs(who, sending) ==
  /\ {e \in Exec : task[e] = "none"} = who
  /\ {e \in Exec : peer[e].sent = 0} = sending

\* One exec with stdin, or two whose clients send none.
ExecCast == Execs({e1}, {e1}) \/ Execs({e1, e2}, {})

MCInit ==
  /\ backend \in {"wslc", "wsb"}
  /\ Init /\ (backend = "wsb" => ~forwards /\ ~timed)
  /\ ExecInit /\ IF backend = "wsb" THEN ExecCast ELSE Execs({}, {})

MCNext ==
  /\ UNCHANGED backend
  /\ \/ backend = "wslc" /\ Next /\ Silent /\ UNCHANGED execVars
     \/ backend = "wsb" /\ ExecNext /\ UNCHANGED vars

MCSpec == MCInit /\ [][MCNext]_everything
=============================================================================
