---------------------------- MODULE MCEditorSave ----------------------------
(* One or two pages and one agent on one deck. *)
EXTENDS EditorSave, TLC

SameAge == [f \in Files |-> 0]

Symmetry == Permutations(Pages) \cup Permutations(AgentEdits) \cup Permutations(Changes \ AgentEdits)
=============================================================================
