----------------------------- MODULE RequestLog -----------------------------
(***************************************************************************)
(* What the request store promises: the record of a file is changed by one *)
(* operation at a time, each a single step that either takes its whole     *)
(* effect or none.  A client that dies may leave its operation done or     *)
(* undone, never half done.                                                *)
(***************************************************************************)
EXTENDS RequestRules

CONSTANTS Clients, Broken

VARIABLES log,   \* the record
          asked  \* client -> idle, asked for an operation, or its outcome

logVars == <<log, asked>>

LogInit == asked = [c \in Clients |-> [at |-> "idle"]]

Alone(c) == \A d \in Clients \ {c} : asked'[d] = asked[d]

Ask(c) ==
  /\ asked[c].at = "idle"
  /\ asked'[c].at = "asked"
  /\ Alone(c)
  /\ UNCHANGED log

Answer(c, error) == asked'[c] = [at |-> "done", error |-> error] /\ Alone(c)

Take(c) ==
  /\ asked[c].at = "asked"
  /\ log # Broken
  /\ Error(log, asked[c].op) = None
  /\ log' = Updated(log, asked[c].op)
  /\ Answer(c, None)

Refuse(c) ==
  /\ asked[c].at = "asked"
  /\ log # Broken
  /\ Error(log, asked[c].op) # None
  /\ Answer(c, Error(log, asked[c].op))
  /\ UNCHANGED log

(* The operation is invalid in itself, or the storage failed. *)
Fail(c) ==
  /\ asked[c].at \in {"idle", "asked"}
  /\ \/ asked[c].at = "idle" /\ Answer(c, "invalid")
     \/ asked[c].at = "asked" /\ Answer(c, "storage")
  /\ UNCHANGED log

(* The answer arrives, or the client dies. *)
Leave(c) ==
  /\ asked'[c] = [at |-> "idle"]
  /\ Alone(c)
  /\ UNCHANGED log

LogNext == \E c \in Clients : Ask(c) \/ Take(c) \/ Refuse(c) \/ Fail(c) \/ Leave(c)

LogSpec == LogInit /\ [][LogNext]_logVars
=============================================================================
