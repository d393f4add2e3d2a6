---------------------------- MODULE EditorState ----------------------------
(***************************************************************************)
(* The state of the editor's processes (state.py): the file each serves,   *)
(* and the update flag, a start time in a record of the target file that   *)
(* every process reads, with what one process could not write or remove    *)
(* kept in its own memory.  A flag expires by itself.                      *)
(***************************************************************************)
EXTENDS Naturals, FiniteSets

CONSTANTS Procs, Files,
          Lifetime, \* UPDATE_TTL_SECONDS
          MaxTime,  \* bound: the clock stops there
          None

ASSUME StateAssumption == Lifetime \in Nat \ {0} /\ MaxTime \in Nat /\ None \notin Files \cup Procs \cup Nat

VARIABLES now,     \* the clock; two updates never start or end at one instant
          updates, \* file -> the start time its update record holds
          last,    \* the file last.json names
          served,  \* process -> current_file
          memory,  \* process -> _memory_updates
          ends,    \* process -> _memory_ends
          latest   \* history: file -> the last start or end of its flag

stateVars == <<now, updates, last, served, memory, ends, latest>>

Targets == Files \cup {None}

Unmarked == [do |-> "none", by |-> None, time |-> 0, kept |-> FALSE]

StateInit ==
  /\ now = 0
  /\ updates = [f \in Files |-> None] /\ last = None
  /\ served = [p \in Procs |-> None]
  /\ memory = [p \in Procs |-> [t \in Targets |-> None]]
  /\ ends = [p \in Procs |-> [f \in Files |-> None]]
  /\ latest = [f \in Files |-> Unmarked]

Target(p) == IF served[p] # None THEN served[p] ELSE last

Mark(target, do, p, kept) ==
  latest' = IF target = None THEN latest
            ELSE [latest EXCEPT ![target] = [do |-> do, by |-> p, time |-> now + 1, kept |-> kept]]

Instant == now < MaxTime /\ now' = now + 1

(* written: whether the record could be written. *)
StartUpdate(p, written) ==
  LET target == Target(p)
      kept == target # None /\ written
  IN  /\ Instant
      /\ memory' = [memory EXCEPT ![p][target] = IF kept THEN None ELSE now + 1]
      /\ ends' = IF target = None THEN ends ELSE [ends EXCEPT ![p][target] = None]
      /\ updates' = IF kept THEN [updates EXCEPT ![target] = now + 1] ELSE updates
      /\ Mark(target, "start", p, kept)
      /\ UNCHANGED <<last, served>>

(* Mutant: a record that cannot be removed is left. *)
EndUpdateForgets(p, removed) ==
  LET target == Target(p)
  IN  /\ Instant
      /\ memory' = [memory EXCEPT ![p][target] = None]
      /\ updates' = IF target # None /\ removed THEN [updates EXCEPT ![target] = None] ELSE updates
      /\ Mark(target, "end", p, removed)
      /\ UNCHANGED <<last, served, ends>>

(* removed: whether the record could be removed. *)
EndUpdate(p, removed) ==
  LET target == Target(p)
  IN  /\ Instant
      /\ memory' = [memory EXCEPT ![p][target] = None]
      /\ updates' = IF target # None /\ removed THEN [updates EXCEPT ![target] = None] ELSE updates
      /\ ends' = IF target # None /\ ~removed THEN [ends EXCEPT ![p][target] = now + 1] ELSE ends
      /\ Mark(target, "end", p, removed)
      /\ UNCHANGED <<last, served>>

(* What p takes from the record: not a start it has ended itself. *)
RecordedStart(p, f) ==
  IF f = None \/ updates[f] = None \/ (ends[p][f] # None /\ updates[f] <= ends[p][f]) THEN None ELSE updates[f]

Later(s, t) == IF s = None THEN t ELSE IF t = None \/ t < s THEN s ELSE t

StartedAt(p) == Later(RecordedStart(p, Target(p)), memory[p][Target(p)])

(* update_in_progress and update_expires_in. *)
ExpiresIn(p) == IF StartedAt(p) = None \/ now - StartedAt(p) >= Lifetime THEN None ELSE Lifetime - (now - StartedAt(p))

Updating(p) == ExpiresIn(p) # None

SetFile(p, f, written) ==
  /\ served' = [served EXCEPT ![p] = f]
  /\ last' = IF written THEN f ELSE last

(* A process ends and another is started in its place: its memory is gone. *)
Forget(p) ==
  /\ served' = [served EXCEPT ![p] = None]
  /\ memory' = [memory EXCEPT ![p] = [t \in Targets |-> None]]
  /\ ends' = [ends EXCEPT ![p] = [f \in Files |-> None]]
  /\ latest' = [f \in Files |-> IF latest[f].by = p THEN Unmarked ELSE latest[f]]
  /\ UNCHANGED <<now, updates, last>>

Tick == Instant /\ UNCHANGED <<updates, last, served, memory, ends, latest>>

FlagStep(p) == \E kept \in BOOLEAN : StartUpdate(p, kept) \/ EndUpdate(p, kept)

-----------------------------------------------------------------------------
(* The flag means the same to every process: a start whose record was written is seen by all *)
(* that serve the file until it expires, whoever ended an earlier update and however; an end *)
(* is final for the process that called it even when the record could not be removed, and    *)
(* for every other one that holds no start of its own; and no flag outlives its lifetime.    *)
FlagAgrees ==
  \A p \in Procs : Target(p) # None =>
    LET mark == latest[Target(p)]
    IN  /\ mark.do = "start" /\ mark.kept => (Updating(p) <=> now - mark.time < Lifetime)
        /\ mark.do = "start" /\ ~mark.kept /\ mark.by = p => (Updating(p) <=> now - mark.time < Lifetime)
        /\ mark.do = "end" /\ (mark.kept \/ mark.by = p) /\ memory[p][Target(p)] = None => ~Updating(p)
=============================================================================
