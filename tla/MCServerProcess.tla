-------------------------- MODULE MCServerProcess --------------------------
(***************************************************************************)
(* One editor process as TLC explores it.  Its parts share the served file *)
(* only, so each is explored apart from the others: focus says whether a   *)
(* behaviour is about the update flag, starts and stops, the connections   *)
(* of one server, or what one request is answered.                         *)
(***************************************************************************)
EXTENDS ServerLifecycle, Connections, HttpRoutes, TLC

VARIABLE focus

processParts == <<processVars, connVars, httpVars>>

(* Every header flaw with every other, and every fault of a body with every end of the operation. *)
EveryRequest ==
  [method : {"GET"}, path : {"/health", "/", "/static/", "/content", "/export/pptx", "/export/docx", "/content-frame",
                             "/status", "/requests", "/elsewhere"},
   flaws : {f \in SUBSET Flaws : f = {} \/ \E a, b \in f : f = {a, b}}, type : {FALSE}, length : {"right"}, body : {"right"},
   file : {"none", "page"}, fate : {"right", "fails"}]
  \cup
  [method : {"POST", "OPTIONS"}, path : {"/content", "/arch-layout", "/requests", "/requests/delete", "/review/apply", "/elsewhere"},
   flaws : {{}} \cup {{f} : f \in Flaws}, type : BOOLEAN, length : {"right", "large", "huge", "not_digits"},
   body : {"right", "garbled", "not_an_object", "wrong_fields"}, file : {"none", "page", "template"},
   fate : {"right", "fails", "conflict", "invalid", "not_found", "vanishes"}]

MCInit ==
  /\ LifeInit /\ ConnInit
  /\ focus \in {"flag", "life", "connections", "request"}
  /\ IF focus = "request" THEN HttpInit ELSE request = NoReply /\ reply = NoReply

Flag ==
  \/ Tick /\ UNCHANGED lifeVars
  \/ \E p \in Procs : FlagStep(p) /\ UNCHANGED lifeVars
  \/ \E p \in Procs, f \in Files : Switch(p, f, TRUE)
  \/ \E p \in Procs : Exit(p)

MCNext ==
  /\ focus' = focus
  /\ \/ focus = "flag" /\ Flag /\ UNCHANGED <<connVars, httpVars>>
     \/ focus = "life" /\ (\E p \in Procs : LifeStep(p)) /\ UNCHANGED <<connVars, httpVars>>
     \/ focus = "connections" /\ ConnNext /\ UNCHANGED <<processVars, httpVars>>
     \/ focus = "request" /\ Serve /\ UNCHANGED <<processVars, connVars>>

MCSpec == MCInit /\ [][MCNext]_<<processParts, focus>>

(* The lifecycle reads nothing of the clock and the flags. *)
View == IF focus = "life" THEN <<focus, served, lifeVars>> ELSE <<focus, processParts>>

Symmetry == Permutations(Procs) \cup Permutations(Files) \cup Permutations(Conns)
=============================================================================
