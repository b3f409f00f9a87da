---------------------------- MODULE MCWslcWorker ----------------------------
(* Instances of WslcWorker for TLC.                                        *)
EXTENDS WslcWorker, TLC

\* Ids of one kind are interchangeable: nothing compares or orders them.
Symmetry ==
  Permutations(Session) \cup Permutations(Client) \cup
  Permutations(Sandbox) \cup Permutations(Token)
=============================================================================
