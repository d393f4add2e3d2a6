---------------------------- MODULE SaveRegister ----------------------------
(***************************************************************************)
(* What the save endpoint promises: each file is a register that a page    *)
(* changes by compare-and-swap on its mtime.  A save is one step: it       *)
(* replaces the version the page named (any version with Keep mine, or     *)
(* when the page names none) and answers with the mtime of what it left,   *)
(* or it changes nothing and answers with the mtime it found.              *)
(***************************************************************************)
EXTENDS Integers

CONSTANTS Pages, Files, None

VARIABLES file,  \* file -> [marks, mtime]
          call   \* page -> its save: idle, asked for, or done with an outcome

registerVars == <<file, call>>

RegisterInit == call = [p \in Pages |-> [at |-> "idle"]]

OthersWait(p) == \A q \in Pages \ {p} : call'[q] = call[q]

Ask(p) ==
  /\ call[p].at = "idle"
  /\ call'[p].at = "asked"
  /\ OthersWait(p)
  /\ UNCHANGED file

Reply(p, status, mtime) ==
  /\ call'[p] = [at |-> "done", status |-> status, mtime |-> mtime]
  /\ OthersWait(p)

Matches(p, f) == call[p].force \/ call[p].base = None \/ file[f].mtime = call[p].base

(* A version has an mtime no earlier version of the file had. *)
Newer(f, marks) ==
  /\ file'[f].marks = marks
  /\ file'[f].mtime > file[f].mtime
  /\ \A g \in Files \ {f} : file'[g] = file[g]

Save(p, f) ==
  /\ call[p].at = "asked"
  /\ Matches(p, f)
  /\ \/ file[f].marks = call[p].html /\ UNCHANGED file
     \/ Newer(f, call[p].html)
  /\ Reply(p, 200, file'[f].mtime)

Refuse(p, f) ==
  /\ call[p].at = "asked"
  /\ ~Matches(p, f)
  /\ Reply(p, 409, file[f].mtime)
  /\ UNCHANGED file

Fail(p) ==
  /\ call[p].at = "asked"
  /\ \E status \in {403, 500} : Reply(p, status, 0)
  /\ UNCHANGED file

(* The answer is delivered, or the request never arrived. *)
Done(p) ==
  /\ call'[p] = [at |-> "idle"]
  /\ OthersWait(p)
  /\ UNCHANGED file

(* Someone else writes the file. *)
Foreign(f) ==
  /\ Newer(f, file'[f].marks)
  /\ UNCHANGED call

RegisterNext ==
  \/ \E p \in Pages : Ask(p) \/ Fail(p) \/ Done(p)
  \/ \E p \in Pages, f \in Files : Save(p, f) \/ Refuse(p, f)
  \/ \E f \in Files : Foreign(f)

RegisterSpec == RegisterInit /\ [][RegisterNext]_registerVars
=============================================================================
