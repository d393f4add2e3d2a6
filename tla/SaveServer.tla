----------------------------- MODULE SaveServer -----------------------------
(***************************************************************************)
(* The save endpoint of the editor server (http_server.py), the file it    *)
(* writes, and the writers that do not go through it.                      *)
(*                                                                         *)
(* Every browser page runs at most one POST /content at a time (its save   *)
(* chain), so a handler thread is named after its page.  The handler       *)
(* refuses a template before it takes save_lock; under the lock it stats   *)
(* the file, compares with base_mtime, replaces the file, stats it again   *)
(* and answers.  An agent (patch, restore, layout_file, POST /arch-layout) *)
(* reads the file and replaces it later, and never takes save_lock.        *)
(*                                                                         *)
(* A content is the set of changes it holds.  Every write of a file gets   *)
(* an mtime of its own.                                                    *)
(***************************************************************************)
EXTENDS Integers

CONSTANTS Pages,      \* browser pages open on this server
          Agents,     \* writers that do not take save_lock
          Files,      \* files the server may be told to serve
          Templates,  \* those of Files under a templates folder
          Changes,    \* the edits that can ever be made
          AgentEdits, \* those of Changes agents make; users make the others
          MaxWrites,  \* bound: no POST is sent once this many writes are done
          Born,       \* the age of each file at the start: its mtime is -Born[f]
          AgentsWait, \* TRUE: agents leave the file alone while save_lock is held
          None        \* no page, no file, no mtime

ASSUME NoneAssumption == None \notin Pages \cup Agents \cup Files \cup Int
ASSUME WriterAssumption == Pages \cap Agents = {} /\ Templates \subseteq Files /\ AgentEdits \subseteq Changes
ASSUME BornAssumption == Born \in [Files -> Nat]
ASSUME BoundAssumption == MaxWrites \in Nat /\ AgentsWait \in BOOLEAN

VARIABLES disk,     \* file -> [marks, mtime, by, ever]
          clock,    \* the mtime of the latest write
          made,     \* the changes made so far, by anyone
          current,  \* state.current_file
          lock,     \* holder of state.save_lock
          task,     \* page -> its POST /content, from the request to the answer
          draft     \* agent -> what it read and has not written back

serverVars == <<disk, clock, made, current, lock, task, draft>>

Stamp   == Int
Content == SUBSET Changes
Writers == Pages \cup Agents

Steps  == {"idle", "posted", "admitted", "checked", "written", "answered"}
Status == {0, 200, 403, 409, 500}

(* own: the mtime of the version this save left on disk.                     *)
(* touched: an agent wrote the file since this handler checked it.           *)
Task == [at: Steps, html: Content, base: Stamp \cup {None}, force: BOOLEAN,
         file: Files \cup {None}, status: Status, mtime: Stamp,
         own: Stamp, touched: BOOLEAN]

NoTask == [at |-> "idle", html |-> {}, base |-> None, force |-> FALSE,
           file |-> None, status |-> 0, mtime |-> 0,
           own |-> 0, touched |-> FALSE]

NoDraft == [file |-> None, marks |-> {}]

TypeOK ==
  /\ disk \in [Files -> [marks: Content, mtime: Stamp, by: Writers \cup {None},
                     ever: Content]]
  /\ clock \in Nat
  /\ made \in Content
  /\ current \in Files
  /\ lock \in Pages \cup {None}
  /\ task \in [Pages -> Task]
  /\ draft \in [Agents -> [file: Files \cup {None}, marks: Content]]

ServerInit ==
  /\ disk = [f \in Files |-> [marks |-> {}, mtime |-> -Born[f], by |-> None,
                             ever |-> {}]]
  /\ clock = 0
  /\ made = {}
  /\ current \in Files
  /\ lock = None
  /\ task = [p \in Pages |-> NoTask]
  /\ draft = [a \in Agents |-> NoDraft]

(* The handler of p answers, and its request is gone. *)
Answered(p, status, mtime) ==
  task' = [task EXCEPT ![p] = [NoTask EXCEPT !.at = "answered", !.status = status, !.mtime = mtime,
                                             !.own = task[p].own, !.touched = task[p].touched]]

(* ever: every change that was in the file at some time. *)
WriteFile(f, marks, by) ==
  /\ clock' = clock + 1
  /\ disk' = [disk EXCEPT ![f] = [marks |-> marks, mtime |-> clock + 1, by |-> by,
                                      ever |-> disk[f].ever \cup marks]]

(* The body of a save arrived and parsed. *)
Post(p, html, base, force) ==
  /\ task[p].at = "idle"
  /\ clock < MaxWrites
  /\ task' = [task EXCEPT ![p] = [NoTask EXCEPT !.at = "posted", !.html = html,
                                                !.base = base, !.force = force]]

(* refuse_template reads current_file before the lock is taken. *)
Admit(p) ==
  /\ task[p].at = "posted"
  /\ \/ current \in Templates /\ Answered(p, 403, 0)
     \/ current \notin Templates /\ task' = [task EXCEPT ![p].at = "admitted"]
  /\ UNCHANGED <<disk, clock, made, current, lock, draft>>

(* Mutant: base_mtime is lost on the way to check_conflict. *)
ConflictsLost(p, f) == FALSE

Conflicts(p, f) ==
  task[p].base # None /\ ~task[p].force /\ disk[f].mtime # task[p].base

(* Mutant: check_conflict runs without save_lock. *)
CheckUnlocked(p) ==
  /\ task[p].at = "admitted"
  /\ \/ /\ Conflicts(p, current)
        /\ Answered(p, 409, disk[current].mtime)
        /\ UNCHANGED lock
     \/ /\ ~Conflicts(p, current)
        /\ task' = [task EXCEPT ![p].at = "checked", ![p].file = current]
        /\ lock' = p
  /\ UNCHANGED <<disk, clock, made, current, draft>>

(* save_lock is taken, current_file is read again, check_conflict stats it. *)
Check(p) ==
  /\ task[p].at = "admitted"
  /\ lock = None
  /\ \/ /\ Conflicts(p, current)
        /\ Answered(p, 409, disk[current].mtime)
        /\ UNCHANGED lock
     \/ /\ ~Conflicts(p, current)
        /\ task' = [task EXCEPT ![p].at = "checked", ![p].file = current]
        /\ lock' = p
  /\ UNCHANGED <<disk, clock, made, current, draft>>

(* atomic_write leaves a file alone whose bytes are those of the save: the   *)
(* same changes, serialized by a page before.                                *)
SameBytes(p) ==
  LET file == disk[task[p].file] IN file.marks = task[p].html /\ file.by \in Pages

(* Mutant: the lock is released before the second stat. *)
ReplaceAndUnlock(p) ==
  /\ task[p].at = "checked"
  /\ \/ SameBytes(p) /\ UNCHANGED <<disk, clock>>
     \/ ~SameBytes(p) /\ WriteFile(task[p].file, task[p].html, p)
  /\ task' = [task EXCEPT ![p].at = "written", ![p].own = disk'[task[p].file].mtime]
  /\ lock' = None
  /\ UNCHANGED <<made, current, draft>>

Replace(p) ==
  /\ task[p].at = "checked"
  /\ \/ SameBytes(p) /\ UNCHANGED <<disk, clock>>
     \/ ~SameBytes(p) /\ WriteFile(task[p].file, task[p].html, p)
  /\ task' = [task EXCEPT ![p].at = "written", ![p].own = disk'[task[p].file].mtime]
  /\ UNCHANGED <<made, current, lock, draft>>

(* The write fails: nothing changes on disk and the answer is a 500. *)
ReplaceFails(p) ==
  /\ task[p].at = "checked"
  /\ Answered(p, 500, 0)
  /\ lock' = None
  /\ UNCHANGED <<disk, clock, made, current, draft>>

(* Mutant: write_save returns nothing. *)
StatNothing(p) ==
  /\ task[p].at = "written"
  /\ Answered(p, 200, None)
  /\ lock' = None
  /\ UNCHANGED <<disk, clock, made, current, draft>>

(* write_save returns the mtime a second stat reads; the lock is released. *)
Stat(p) ==
  /\ task[p].at = "written"
  /\ Answered(p, 200, disk[task[p].file].mtime)
  /\ lock' = None
  /\ UNCHANGED <<disk, clock, made, current, draft>>

(* open_file, or start_server on a running server: state.set_file. *)
OpenFile(f) ==
  /\ f # current
  /\ current' = f
  /\ UNCHANGED <<disk, clock, made, lock, task, draft>>

AgentRead(a, f) ==
  /\ draft[a].file = None
  /\ draft' = [draft EXCEPT ![a] = [file |-> f, marks |-> disk[f].marks]]
  /\ UNCHANGED <<disk, clock, made, current, lock, task>>

(* The agent puts back what it read, with a change of its own. *)
AgentWrite(a) ==
  /\ draft[a].file # None
  /\ AgentsWait => lock = None
  /\ \E c \in AgentEdits \ made :
       /\ made' = made \cup {c}
       /\ WriteFile(draft[a].file, draft[a].marks \cup {c}, a)
  /\ task' = [p \in Pages |->
       IF task[p].at \in {"checked", "written"} /\ task[p].file = draft[a].file
       THEN [task[p] EXCEPT !.touched = TRUE] ELSE task[p]]
  /\ draft' = [draft EXCEPT ![a] = NoDraft]
  /\ UNCHANGED <<current, lock>>

(* A patch that does not apply, or whose write fails, leaves the file alone. *)
AgentFails(a) ==
  /\ draft[a].file # None
  /\ draft' = [draft EXCEPT ![a] = NoDraft]
  /\ UNCHANGED <<disk, clock, made, current, lock, task>>

HandlerStep(p) == Admit(p) \/ Check(p) \/ Replace(p) \/ ReplaceFails(p) \/ Stat(p)

AgentStep(a) ==
  (\E f \in Files : AgentRead(a, f)) \/ AgentWrite(a) \/ AgentFails(a)

ServerStep ==
  \/ \E p \in Pages : HandlerStep(p)
  \/ \E a \in Agents : AgentStep(a)
  \/ \E f \in Files : OpenFile(f)

-----------------------------------------------------------------------------
(* The server on its own: a page may send any of the changes made so far,    *)
(* based on any mtime the file has had.                                      *)

Known == 0..clock \cup {-Born[f] : f \in Files}

Send(p) ==
  /\ \E html \in SUBSET made, base \in Known \cup {None}, force \in BOOLEAN :
       Post(p, html, base, force)
  /\ UNCHANGED <<disk, clock, made, current, lock, draft>>

(* The answer is delivered, or the request never arrived. *)
Receive(p) ==
  /\ task[p].at \in {"posted", "answered"}
  /\ task' = [task EXCEPT ![p] = NoTask]
  /\ UNCHANGED <<disk, clock, made, current, lock, draft>>

(* A user makes a change in a page. *)
NewChange(c) ==
  /\ c \in Changes \ (AgentEdits \cup made)
  /\ made' = made \cup {c}
  /\ UNCHANGED <<disk, clock, current, lock, task, draft>>

Next ==
  \/ ServerStep
  \/ \E p \in Pages : Send(p) \/ Receive(p)
  \/ \E c \in Changes : NewChange(c)

Spec == ServerInit /\ [][Next]_serverVars

-----------------------------------------------------------------------------

(* save_lock is held exactly by the handler between its check and its        *)
(* answer, so two handlers are never between check and write together.       *)
LockOwner == \A p \in Pages : lock = p <=> task[p].at \in {"checked", "written"}

(* What the check read is still true when the write happens: between         *)
(* check_conflict and the replace nobody but an agent can change the file.   *)
CheckStillHolds ==
  \A p \in Pages : (task[p].at = "checked" /\ ~task[p].touched) => ~Conflicts(p, task[p].file)

(* The mtime of a 200 answer is that of the version this very save left on   *)
(* disk, unless an agent wrote between the replace and the second stat: a    *)
(* page never takes another page's version for its own.                      *)
AnswerNamesItsVersion ==
  \A p \in Pages :
    (task[p].at = "answered" /\ task[p].status = 200 /\ ~task[p].touched)
      => task[p].mtime = task[p].own

(* A version is what a file holds and its mtime.  A save counts as done when *)
(* the replace is, though its answer is not made yet.                        *)
Versions == [f \in Files |-> [marks |-> disk[f].marks, mtime |-> disk[f].mtime]]

Call(p) ==
  CASE task[p].at = "idle" -> [at |-> "idle"]
    [] task[p].at \in {"posted", "admitted", "checked"} ->
         [at |-> "asked", html |-> task[p].html, base |-> task[p].base, force |-> task[p].force]
    [] task[p].at = "written"  -> [at |-> "done", status |-> 200, mtime |-> task[p].own]
    [] task[p].at = "answered" -> [at |-> "done", status |-> task[p].status, mtime |-> task[p].mtime]

Calls == [p \in Pages |-> Call(p)]

Register == INSTANCE SaveRegister WITH file <- Versions, call <- Calls

(* While agents keep away from a file that is being saved, a save with its   *)
(* check, its write and its two stats is one atomic compare-and-swap on the  *)
(* file's mtime: two pages saving from one version are never both accepted,  *)
(* and each answer tells the truth about the version it names.               *)
SavesAreAtomic == Register!RegisterSpec

(* README: "Templates under templates/ are never modified by a save". *)
TemplatesUntouched ==
  [][\A p \in Pages : (task[p].at = "checked" /\ task'[p].at = "written")
       => \A f \in Templates : disk'[f] = disk[f]]_serverVars
=============================================================================
