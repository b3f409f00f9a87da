----------------------------- MODULE MCWslcExec -----------------------------
(* The execs of the WSLc daemon (WslcExec) for TLC.                         *)
EXTENDS WslcExec

\* A bound: stdin connections and connections of other clients are seen beside
\* the execs that forward stdin, and the execs that do not only without them. Two
\* execs compete for an id, a place and the permits, and an exec with its stdin
\* competes with another client for the permits.
Apart ==
  \/ /\ \A c \in Other \cup (Exec \X {"stdin"}) : link[c] = "none"
     /\ \A e \in Exec : ~failed[e]
  \/ \A e \in Exec \ Feeds :
       /\ \A k \in Kind : link[<<e, k>>] = "none"
       /\ caller[e] = "starting" /\ ~wanted[e]

\* The fairness of WslcExec, where the bound lets the step happen.
MCSpec ==
  /\ Init /\ [][Next /\ Apart']_vars
  /\ \A c \in Conn : WF_vars(Task(c))
  /\ \A e \in Exec :
       /\ WF_vars(ExecTask(e)) /\ WF_vars(Worker(e))
       /\ WF_vars(flag[e] /\ RetireExec(e)) /\ WF_vars(ExecThread(e) /\ Apart')
=============================================================================
