---------------------------- MODULE MCSaveServer ----------------------------
(* Two pages and one agent on one or two files. *)
EXTENDS SaveServer, TLC

SameAge == [f \in Files |-> 0]

Symmetry == Permutations(Pages) \cup Permutations(AgentEdits) \cup Permutations(Changes \ AgentEdits)
=============================================================================
