-------------------------- MODULE ServerLifecycle --------------------------
(***************************************************************************)
(* Starting and stopping editor servers (http_server.py, mcp_server.py,    *)
(* cli.py): each process has at most one, on a port that was found free    *)
(* before the file is announced and bound only afterwards.                 *)
(***************************************************************************)
EXTENDS EditorState

CONSTANTS Ports,     \* candidate ports, as the numbers they are tried in
          OneAtATime \* BOOLEAN: a process runs its tool calls one after the other

ASSUME PortAssumption == Ports \subseteq Nat /\ OneAtATime \in BOOLEAN

VARIABLES bound,   \* port -> the process listening on it
          records, \* file -> its server record
          life,    \* process -> its server: port and pid as the state has them
          wrote    \* history: file -> who wrote its server record last, None after a failed write

lifeVars == <<bound, records, life, wrote>>
processVars == <<stateVars, lifeVars>>

Down == [at |-> "down", file |-> None, port |-> None, pid |-> None, tail |-> FALSE]

LifeInit ==
  /\ StateInit
  /\ bound = [q \in Ports |-> None]
  /\ records = [f \in Files |-> None]
  /\ life = [p \in Procs |-> Down]
  /\ wrote = [f \in Files |-> None]

(* save: the server record of the current file; a failed write leaves what was there. *)
Save(p, f, me, written) ==
  /\ records' = IF f # None /\ written THEN [records EXCEPT ![f] = [port |-> me.port, pid |-> me.pid]] ELSE records
  /\ wrote' = IF f = None THEN wrote ELSE [wrote EXCEPT ![f] = IF written THEN p ELSE None]

Free(q) == bound[q] = None

(* find_free_port: the first candidate that can be bound now. *)
FirstFree == CHOOSE q \in Ports : Free(q) /\ \A r \in Ports : Free(r) => q <= r

Ready(p) == OneAtATime => ~life[p].tail

(* An explicit port is taken as it is; without one and without a free port the start is refused. *)
StartServer(p, f, asked) ==
  /\ life[p].at = "down" /\ Ready(p)
  /\ asked = None => \E q \in Ports : Free(q)
  /\ life' = [life EXCEPT ![p].at = "starting", ![p].file = f, ![p].port = IF asked = None THEN FirstFree ELSE asked]
  /\ UNCHANGED <<stateVars, bound, records, wrote>>

Announce(p, written) ==
  LET me == [life[p] EXCEPT !.at = "binding", !.pid = p]
  IN  /\ life[p].at = "starting"
      /\ SetFile(p, me.file, written) /\ Save(p, me.file, me, written)
      /\ life' = [life EXCEPT ![p] = me]
      /\ UNCHANGED <<now, updates, memory, ends, latest, bound>>

(* Mutant: the address may be reused by a second listener. *)
BindTaken(p) ==
  /\ life[p].at = "binding"
  /\ bound' = [bound EXCEPT ![life[p].port] = p] /\ life' = [life EXCEPT ![p].at = "up"]
  /\ UNCHANGED <<stateVars, records, wrote>>

(* The port may be taken by now: the start fails, what it announced stays. *)
Bind(p) ==
  /\ life[p].at = "binding"
  /\ IF Free(life[p].port)
     THEN bound' = [bound EXCEPT ![life[p].port] = p] /\ life' = [life EXCEPT ![p].at = "up"]
     ELSE life' = [life EXCEPT ![p].at = "down"] /\ UNCHANGED bound
  /\ UNCHANGED <<stateVars, records, wrote>>

(* Mutant: the served file changes and nothing is saved. *)
SwitchUnsaved(p, f, written) ==
  /\ life[p].at \in {"down", "up"} /\ Ready(p)
  /\ SetFile(p, f, written)
  /\ UNCHANGED <<now, updates, memory, ends, latest, bound, records, wrote, life>>

(* open_file, or start_server while a server runs: only the file changes. *)
Switch(p, f, written) ==
  /\ life[p].at \in {"down", "up"} /\ Ready(p)
  /\ SetFile(p, f, written) /\ Save(p, f, life[p], written)
  /\ UNCHANGED <<now, updates, memory, ends, latest, bound, life>>

(* stop_http_server: the port is free under _server_lock, the record is written after it. *)
Stop(p) ==
  /\ life[p].at \in {"down", "up"} /\ Ready(p) /\ ~life[p].tail
  /\ bound' = [q \in Ports |-> IF bound[q] = p THEN None ELSE bound[q]]
  /\ life' = [life EXCEPT ![p].at = "down", ![p].tail = TRUE]
  /\ UNCHANGED <<stateVars, records, wrote>>

StopTail(p, written) ==
  LET me == [life[p] EXCEPT !.pid = None, !.tail = FALSE]
  IN  /\ life[p].tail
      /\ Save(p, served[p], me, written)
      /\ life' = [life EXCEPT ![p] = me]
      /\ UNCHANGED <<stateVars, bound>>

(* The process ends without stopping its server. *)
Exit(p) ==
  /\ Forget(p)
  /\ bound' = [q \in Ports |-> IF bound[q] = p THEN None ELSE bound[q]]
  /\ life' = [life EXCEPT ![p] = Down]
  /\ UNCHANGED <<records, wrote>>

LifeStep(p) ==
  \/ \E f \in Files, asked \in Ports \cup {None} : StartServer(p, f, asked)
  \/ Bind(p) \/ Stop(p) \/ Exit(p)
  \/ \E written \in BOOLEAN : Announce(p, written) \/ StopTail(p, written)
                              \/ \E f \in Files : Switch(p, f, written)

(* The flag is raised and dropped by tools, between the steps of a start as well. *)
ProcessNext ==
  \/ Tick /\ UNCHANGED lifeVars
  \/ \E p \in Procs : FlagStep(p) /\ UNCHANGED lifeVars
  \/ \E p \in Procs : LifeStep(p)

ProcessSpec == LifeInit /\ [][ProcessNext]_processVars

-----------------------------------------------------------------------------
(* A port is bound by the process whose server is up on it, and by nobody else. *)
ProcessTypeOK ==
  /\ now \in 0..MaxTime /\ last \in Targets /\ served \in [Procs -> Targets]
  /\ \A f \in Files : updates[f] \in 0..now \cup {None}
  /\ \A p \in Procs : (\A t \in Targets : memory[p][t] \in 0..now \cup {None}) /\ ExpiresIn(p) \in 1..Lifetime \cup {None}
  /\ \A q \in Ports : bound[q] # None => life[bound[q]].at = "up" /\ life[bound[q]].port = q
  /\ \A p \in Procs : life[p].at = "up" => bound[life[p].port] = p

(* While a process serves a file and its server is up, the file's server record names that     *)
(* server if that process was the last to write it: through open_file, stops and restarts on   *)
(* other ports, and failed starts (set_file, start_http_server, stop_http_server).              *)
RecordNamesServer ==
  \A p \in Procs : life[p].at = "up" /\ served[p] # None /\ wrote[served[p]] = p
     => records[served[p]] = [port |-> life[p].port, pid |-> p]
=============================================================================
