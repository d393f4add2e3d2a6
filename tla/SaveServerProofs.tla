-------------------------- MODULE SaveServerProofs --------------------------
(***************************************************************************)
(* Proofs about the save endpoint, for any number of pages, agents, files  *)
(* and changes: its invariants, and that it implements the register of     *)
(* SaveRegister as long as agents keep away from a file being saved.       *)
(***************************************************************************)
EXTENDS SaveServer, TLAPS

(* A handler that passed its check knows which file it writes. *)
FileKnown == \A p \in Pages : task[p].at \in {"checked", "written"} => task[p].file \in Files

(* Between the replace and the second stat, the file carries the mtime of    *)
(* the version this save left, unless an agent wrote.                        *)
OwnOnDisk ==
  \A p \in Pages :
    (task[p].at = "written" /\ ~task[p].touched) => task[p].own = disk[task[p].file].mtime

IInv == TypeOK /\ LockOwner /\ FileKnown /\ CheckStillHolds /\ OwnOnDisk /\ AnswerNamesItsVersion

-----------------------------------------------------------------------------

(* Two handlers are never between check and answer together. *)
LEMMA OneHolder ==
  ASSUME LockOwner, NEW p \in Pages, NEW q \in Pages,
         task[p].at \in {"checked", "written"}, task[q].at \in {"checked", "written"}
  PROVE  p = q
BY DEF LockOwner

(* The server starts in a state of the invariant. *)
LEMMA InitInv == ServerInit => IInv
<1> SUFFICES ASSUME ServerInit PROVE IInv
  OBVIOUS
<1> USE NoneAssumption, BornAssumption
<1>1. NoTask \in Task
  BY DEF NoTask, Task, Steps, Status, Stamp, Content
<1>2. \A f \in Files : -Born[f] \in Int
  OBVIOUS
<1>3. TypeOK
  BY <1>1, <1>2 DEF ServerInit, TypeOK, NoDraft, Content, Stamp, Writers
<1>4. LockOwner /\ FileKnown /\ CheckStillHolds /\ OwnOnDisk /\ AnswerNamesItsVersion
  BY DEF ServerInit, NoTask, LockOwner, FileKnown, CheckStillHolds, OwnOnDisk, AnswerNamesItsVersion
<1> QED BY <1>3, <1>4 DEF IInv

(* A request that is not in the handler's critical section owes nothing of   *)
(* FileKnown, CheckStillHolds and OwnOnDisk; one that was answered owes      *)
(* AnswerNamesItsVersion.                                                    *)
LEMMA AnsweredType ==
  ASSUME TypeOK, NEW p \in Pages, NEW status \in Status, NEW mtime \in Int,
         Answered(p, status, mtime)
  PROVE  /\ task' \in [Pages -> Task]
         /\ task'[p].at = "answered" /\ task'[p].status = status /\ task'[p].mtime = mtime
         /\ task'[p].own = task[p].own /\ task'[p].touched = task[p].touched
         /\ \A q \in Pages \ {p} : task'[q] = task[q]
<1> DEFINE answer == [NoTask EXCEPT !.at = "answered", !.status = status, !.mtime = mtime,
                                    !.own = task[p].own, !.touched = task[p].touched]
<1>1. answer \in Task
  <2>1. task[p].own \in Stamp /\ task[p].touched \in BOOLEAN
    BY DEF TypeOK, Task
  <2> QED BY <2>1 DEF NoTask, Task, Steps, Stamp, Content
<1>2. task \in [Pages -> Task] /\ task' = [task EXCEPT ![p] = answer]
  BY DEF TypeOK, Answered
<1>3. /\ answer.at = "answered" /\ answer.status = status /\ answer.mtime = mtime
      /\ answer.own = task[p].own /\ answer.touched = task[p].touched
  BY DEF NoTask
<1> HIDE DEF answer
<1> QED BY <1>1, <1>2, <1>3

(* A write gives the file an mtime and leaves the other files alone. *)
LEMMA WriteFileType ==
  ASSUME TypeOK, NEW f \in Files, NEW marks \in Content, NEW by \in Writers,
         WriteFile(f, marks, by)
  PROVE  /\ clock' \in Nat
         /\ disk' \in [Files -> [marks: Content, mtime: Stamp, by: Writers \cup {None},
                                 ever: Content]]
         /\ \A g \in Files \ {f} : disk'[g] = disk[g]
BY DEF WriteFile, TypeOK, Stamp, Content

LEMMA AdmitInv ==
  ASSUME IInv, NEW p \in Pages, Admit(p) PROVE IInv'
<1> USE DEF IInv
<1>1. CASE current \in Templates /\ Answered(p, 403, 0)
  <2>1. task' \in [Pages -> Task] /\ task'[p].at = "answered" /\ task'[p].status = 403
          /\ \A q \in Pages \ {p} : task'[q] = task[q]
    BY <1>1, AnsweredType DEF Status
  <2>2. TypeOK'
    BY <2>1 DEF Admit, TypeOK
  <2>3. LockOwner' /\ FileKnown' /\ AnswerNamesItsVersion'
    BY <2>1 DEF Admit, LockOwner, FileKnown, AnswerNamesItsVersion
  <2>4. CheckStillHolds' /\ OwnOnDisk'
    BY <2>1 DEF Admit, CheckStillHolds, Conflicts, OwnOnDisk
  <2> QED BY <2>2, <2>3, <2>4
<1>2. CASE current \notin Templates /\ task' = [task EXCEPT ![p].at = "admitted"]
  <2>1. task' \in [Pages -> Task] /\ task'[p].at = "admitted"
          /\ \A q \in Pages \ {p} : task'[q] = task[q]
    BY <1>2 DEF TypeOK, Task, Steps
  <2>2. TypeOK'
    BY <2>1 DEF Admit, TypeOK
  <2>3. LockOwner' /\ FileKnown' /\ AnswerNamesItsVersion'
    BY <2>1 DEF Admit, LockOwner, FileKnown, AnswerNamesItsVersion
  <2>4. CheckStillHolds' /\ OwnOnDisk'
    BY <2>1 DEF Admit, CheckStillHolds, Conflicts, OwnOnDisk
  <2> QED BY <2>2, <2>3, <2>4
<1> QED BY <1>1, <1>2 DEF Admit

LEMMA CheckInv ==
  ASSUME IInv, NEW p \in Pages, Check(p) PROVE IInv'
<1> USE DEF IInv
<1>1. CASE Conflicts(p, current) /\ Answered(p, 409, disk[current].mtime) /\ UNCHANGED lock
  <2>1. disk[current].mtime \in Int
    BY DEF TypeOK, Stamp
  <2>2. task' \in [Pages -> Task] /\ task'[p].at = "answered" /\ task'[p].status = 409
          /\ \A q \in Pages \ {p} : task'[q] = task[q]
    BY <1>1, <2>1, AnsweredType DEF Status
  <2>3. TypeOK'
    BY <1>1, <2>2 DEF Check, TypeOK
  <2> QED
    BY <1>1, <2>2, <2>3 DEF Check, LockOwner, FileKnown, CheckStillHolds, Conflicts, OwnOnDisk,
                            AnswerNamesItsVersion
<1>2. CASE /\ ~Conflicts(p, current) /\ lock' = p
           /\ task' = [task EXCEPT ![p].at = "checked", ![p].file = current]
  <2>1. /\ task' \in [Pages -> Task]
        /\ task'[p].at = "checked" /\ task'[p].file = current
        /\ task'[p].base = task[p].base /\ task'[p].force = task[p].force
        /\ \A q \in Pages \ {p} : task'[q] = task[q]
    <3> DEFINE next == [task[p] EXCEPT !.at = "checked", !.file = current]
    <3>1. task \in [Pages -> Task] /\ task[p] \in Task
      BY DEF TypeOK
    <3>2. next \in Task
      BY <3>1 DEF TypeOK, Task, Steps
    <3>3. task' = [task EXCEPT ![p] = next]
      BY <1>2, <3>1
    <3>4. next.at = "checked" /\ next.file = current
            /\ next.base = task[p].base /\ next.force = task[p].force
      BY <3>1 DEF Task
    <3> HIDE DEF next
    <3> QED BY <3>1, <3>2, <3>3, <3>4
  <2>2. TypeOK'
    BY <1>2, <2>1 DEF Check, TypeOK
  <2>3. LockOwner'
    (* Nobody held the lock, so no other handler is past its check. *)
    BY <1>2, <2>1, NoneAssumption DEF Check, LockOwner
  <2>4. FileKnown' /\ OwnOnDisk' /\ AnswerNamesItsVersion'
    BY <1>2, <2>1 DEF Check, TypeOK, FileKnown, OwnOnDisk, AnswerNamesItsVersion
  <2>5. CheckStillHolds'
    BY <1>2, <2>1 DEF Check, CheckStillHolds, Conflicts
  <2> QED BY <2>2, <2>3, <2>4, <2>5
<1> QED BY <1>1, <1>2 DEF Check

LEMMA ReplaceInv ==
  ASSUME IInv, NEW p \in Pages, Replace(p) PROVE IInv'
<1> USE DEF IInv
<1> DEFINE f == task[p].file
<1>1. p \in Writers /\ task[p].at = "checked" /\ f \in Files /\ task[p].html \in Content
  BY DEF Replace, FileKnown, TypeOK, Task, Writers
<1>2. /\ clock' \in Nat
      /\ disk' \in [Files -> [marks: Content, mtime: Stamp, by: Writers \cup {None},
                              ever: Content]]
      /\ \A g \in Files \ {f} : disk'[g] = disk[g]
  BY <1>1, WriteFileType DEF Replace, TypeOK
<1>3. /\ task' \in [Pages -> Task]
      /\ task'[p].at = "written" /\ task'[p].own = disk'[f].mtime /\ task'[p].file = f
      /\ \A q \in Pages \ {p} : task'[q] = task[q]
  <2> DEFINE own == disk'[f].mtime
             next == [task[p] EXCEPT !.at = "written", !.own = own]
  <2>1. task \in [Pages -> Task] /\ task[p] \in Task
    BY DEF TypeOK
  <2>2. own \in Stamp
    BY <1>1, <1>2
  <2>3. next \in Task /\ next.at = "written" /\ next.own = own /\ next.file = f
    <3> HIDE DEF own
    <3> QED BY <2>1, <2>2 DEF Task, Steps
  <2>4. task' = [task EXCEPT ![p] = next]
    BY <2>1 DEF Replace
  <2> HIDE DEF next
  <2> QED BY <2>1, <2>3, <2>4
<1>4. TypeOK'
  BY <1>2, <1>3 DEF Replace, TypeOK
<1>5. LockOwner' /\ FileKnown' /\ AnswerNamesItsVersion'
  <2>1. UNCHANGED lock
    BY DEF Replace
  <2>2. LockOwner'
    BY <1>1, <1>3, <2>1 DEF LockOwner
  <2>3. FileKnown' /\ AnswerNamesItsVersion'
    BY <1>1, <1>3 DEF FileKnown, AnswerNamesItsVersion
  <2> QED BY <2>2, <2>3
<1>6. \A q \in Pages \ {p} : task[q].at \notin {"checked", "written"}
  BY <1>1, OneHolder
<1>7. CheckStillHolds' /\ OwnOnDisk'
  BY <1>3, <1>6 DEF CheckStillHolds, OwnOnDisk
<1> QED BY <1>4, <1>5, <1>7

LEMMA ReplaceFailsInv ==
  ASSUME IInv, NEW p \in Pages, ReplaceFails(p) PROVE IInv'
<1> USE DEF IInv
<1>1. task' \in [Pages -> Task] /\ task'[p].at = "answered" /\ task'[p].status = 500
        /\ \A q \in Pages \ {p} : task'[q] = task[q]
  BY AnsweredType DEF ReplaceFails, Status
<1>2. TypeOK'
  BY <1>1 DEF ReplaceFails, TypeOK
<1>3. \A q \in Pages \ {p} : task[q].at \notin {"checked", "written"}
  BY OneHolder DEF ReplaceFails
<1>4. LockOwner'
  BY <1>1, <1>3, NoneAssumption DEF ReplaceFails, LockOwner
<1> QED
  BY <1>1, <1>2, <1>4 DEF ReplaceFails, FileKnown, CheckStillHolds, Conflicts, OwnOnDisk,
                          AnswerNamesItsVersion

LEMMA StatInv ==
  ASSUME IInv, NEW p \in Pages, Stat(p) PROVE IInv'
<1> USE DEF IInv
<1> DEFINE mtime == disk[task[p].file].mtime
<1>1. mtime \in Int
  BY DEF Stat, FileKnown, TypeOK, Stamp
<1>2. /\ task' \in [Pages -> Task]
      /\ task'[p].at = "answered" /\ task'[p].mtime = mtime
      /\ task'[p].own = task[p].own /\ task'[p].touched = task[p].touched
      /\ \A q \in Pages \ {p} : task'[q] = task[q]
  BY <1>1, AnsweredType DEF Stat, Status
<1>3. TypeOK'
  BY <1>2 DEF Stat, TypeOK
<1>4. \A q \in Pages \ {p} : task[q].at \notin {"checked", "written"}
  BY OneHolder DEF Stat
<1>5. LockOwner'
  BY <1>2, <1>4, NoneAssumption DEF Stat, LockOwner
<1>6. AnswerNamesItsVersion'
  BY <1>2 DEF Stat, OwnOnDisk, AnswerNamesItsVersion
<1> QED
  BY <1>2, <1>3, <1>5, <1>6 DEF Stat, FileKnown, CheckStillHolds, Conflicts, OwnOnDisk

LEMMA AgentWriteInv ==
  ASSUME IInv, NEW a \in Agents, AgentWrite(a) PROVE IInv'
<1> USE DEF IInv
<1> DEFINE f == draft[a].file
           hit(q) == task[q].at \in {"checked", "written"} /\ task[q].file = f
<1>1. PICK c \in AgentEdits \ made :
        made' = made \cup {c} /\ WriteFile(f, draft[a].marks \cup {c}, a)
  BY DEF AgentWrite
<1>2. f \in Files /\ draft[a].marks \cup {c} \in Content /\ a \in Writers
  BY WriterAssumption DEF AgentWrite, TypeOK, Content, Writers
<1>3. /\ clock' \in Nat
      /\ disk' \in [Files -> [marks: Content, mtime: Stamp, by: Writers \cup {None},
                              ever: Content]]
      /\ \A g \in Files \ {f} : disk'[g] = disk[g]
  BY <1>1, <1>2, WriteFileType
<1>4. \A q \in Pages :
        task'[q] = IF hit(q) THEN [task[q] EXCEPT !.touched = TRUE] ELSE task[q]
  BY DEF AgentWrite
<1>5. task' \in [Pages -> Task]
  <2>1. \A t \in Task : [t EXCEPT !.touched = TRUE] \in Task
    BY DEF Task
  <2>3. \A q \in Pages : task[q] \in Task
    BY DEF TypeOK
  <2>2. task' = [q \in Pages |-> IF hit(q) THEN [task[q] EXCEPT !.touched = TRUE] ELSE task[q]]
    BY DEF AgentWrite
  <2> QED BY <2>1, <2>3, <2>2
<1>6. \A q \in Pages :
        /\ task'[q].at = task[q].at /\ task'[q].file = task[q].file
        /\ task'[q].status = task[q].status /\ task'[q].mtime = task[q].mtime
        /\ task'[q].own = task[q].own /\ task'[q].base = task[q].base
        /\ task'[q].force = task[q].force
        /\ task'[q].touched = (task[q].touched \/ hit(q))
  <2> TAKE q \in Pages
  <2>1. task[q] \in Task
    BY DEF TypeOK
  <2>2. CASE hit(q)
    <3>1. task'[q] = [task[q] EXCEPT !.touched = TRUE]
      BY <1>4, <2>2
    <3> HIDE DEF hit
    <3> QED BY <2>1, <2>2, <3>1 DEF Task
  <2>3. CASE ~hit(q)
    <3>1. task'[q] = task[q]
      BY <1>4, <2>3
    <3>2. task[q].touched \in BOOLEAN
      BY <2>1 DEF Task
    <3> HIDE DEF hit
    <3> QED BY <2>3, <3>1, <3>2
  <2> QED BY <2>2, <2>3
<1>7. TypeOK'
  <2>1. made' \in Content
    BY <1>1, WriterAssumption DEF TypeOK, Content
  <2> QED BY <1>3, <1>5, <2>1 DEF AgentWrite, TypeOK, NoDraft, Content
<1>8. LockOwner' /\ FileKnown' /\ AnswerNamesItsVersion'
  BY <1>6 DEF AgentWrite, LockOwner, FileKnown, AnswerNamesItsVersion
<1>9. CheckStillHolds' /\ OwnOnDisk'
  <2>1. ASSUME NEW q \in Pages, task[q].at \in {"checked", "written"}, ~task'[q].touched
        PROVE  ~task[q].touched /\ disk'[task[q].file] = disk[task[q].file]
    BY <1>3, <1>6, <2>1 DEF FileKnown
  <2>2. CheckStillHolds'
    BY <1>6, <2>1 DEF CheckStillHolds, Conflicts
  <2>3. OwnOnDisk'
    BY <1>6, <2>1 DEF OwnOnDisk
  <2> QED BY <2>2, <2>3
<1> QED BY <1>7, <1>8, <1>9

(* Every other step leaves alone what the handlers in the critical section   *)
(* rely on.                                                                  *)
LEMMA OpenFileInv ==
  ASSUME IInv, NEW f \in Files, OpenFile(f) PROVE IInv'
BY DEF IInv, OpenFile, TypeOK, LockOwner, FileKnown, CheckStillHolds, Conflicts, OwnOnDisk,
       AnswerNamesItsVersion

LEMMA AgentReadInv ==
  ASSUME IInv, NEW a \in Agents, NEW f \in Files, AgentRead(a, f) PROVE IInv'
<1>1. TypeOK'
  BY DEF IInv, AgentRead, TypeOK, Content
<1> QED
  BY <1>1 DEF IInv, AgentRead, LockOwner, FileKnown, CheckStillHolds, Conflicts, OwnOnDisk,
              AnswerNamesItsVersion

LEMMA AgentFailsInv ==
  ASSUME IInv, NEW a \in Agents, AgentFails(a) PROVE IInv'
<1>1. TypeOK'
  BY DEF IInv, AgentFails, TypeOK, NoDraft, Content
<1> QED
  BY <1>1 DEF IInv, AgentFails, LockOwner, FileKnown, CheckStillHolds, Conflicts, OwnOnDisk,
              AnswerNamesItsVersion

LEMMA NewChangeInv ==
  ASSUME IInv, NEW c \in Changes, NewChange(c) PROVE IInv'
<1>1. TypeOK'
  BY DEF IInv, NewChange, TypeOK, Content
<1> QED
  BY <1>1 DEF IInv, NewChange, LockOwner, FileKnown, CheckStillHolds, Conflicts, OwnOnDisk,
              AnswerNamesItsVersion

LEMMA SendInv ==
  ASSUME IInv, NEW p \in Pages, Send(p) PROVE IInv'
<1> USE DEF IInv
<1>1. PICK html \in SUBSET made, base \in Known \cup {None}, force \in BOOLEAN :
        Post(p, html, base, force)
  BY DEF Send
<1> DEFINE post == [NoTask EXCEPT !.at = "posted", !.html = html, !.base = base, !.force = force]
<1>2. base \in Stamp \cup {None} /\ html \in Content
  BY BornAssumption DEF Known, Stamp, TypeOK, Content
<1>3. post \in Task /\ post.at = "posted"
  <2>1. /\ {} \in Content /\ 0 \in Stamp /\ 0 \in Status /\ {"idle", "posted"} \subseteq Steps
        /\ FALSE \in BOOLEAN /\ None \in Files \cup {None}
    BY DEF Content, Stamp, Status, Steps
  <2> QED BY <1>2, <2>1 DEF NoTask, Task
<1>4. task \in [Pages -> Task] /\ task' = [task EXCEPT ![p] = post] /\ task[p].at = "idle"
  BY <1>1 DEF Post, TypeOK
<1> HIDE DEF post
<1>5. task' \in [Pages -> Task] /\ task'[p].at = "posted"
        /\ \A q \in Pages \ {p} : task'[q] = task[q]
  BY <1>3, <1>4
<1>6. TypeOK'
  BY <1>5 DEF Send, TypeOK
<1> QED
  BY <1>4, <1>5, <1>6 DEF Send, LockOwner, FileKnown, CheckStillHolds, Conflicts, OwnOnDisk,
                          AnswerNamesItsVersion

LEMMA ReceiveInv ==
  ASSUME IInv, NEW p \in Pages, Receive(p) PROVE IInv'
<1> USE DEF IInv
<1>1. NoTask \in Task /\ NoTask.at = "idle"
  BY DEF NoTask, Task, Steps, Status, Stamp, Content
<1>2. task' \in [Pages -> Task] /\ task'[p].at = "idle"
        /\ \A q \in Pages \ {p} : task'[q] = task[q]
  BY <1>1 DEF Receive, TypeOK
<1>3. TypeOK'
  BY <1>2 DEF Receive, TypeOK
<1> QED
  BY <1>2, <1>3 DEF Receive, LockOwner, FileKnown, CheckStillHolds, Conflicts, OwnOnDisk,
                    AnswerNamesItsVersion

LEMMA NextInv == IInv /\ [Next]_serverVars => IInv'
<1> SUFFICES ASSUME IInv, [Next]_serverVars PROVE IInv'
  OBVIOUS
<1>1. ASSUME NEW p \in Pages, HandlerStep(p) PROVE IInv'
  BY <1>1, AdmitInv, CheckInv, ReplaceInv, ReplaceFailsInv, StatInv DEF HandlerStep
<1>2. ASSUME NEW a \in Agents, AgentStep(a) PROVE IInv'
  BY <1>2, AgentReadInv, AgentWriteInv, AgentFailsInv DEF AgentStep
<1>3. ASSUME NEW f \in Files, OpenFile(f) PROVE IInv'
  BY <1>3, OpenFileInv
<1>4. ASSUME NEW p \in Pages, Send(p) \/ Receive(p) PROVE IInv'
  BY <1>4, SendInv, ReceiveInv
<1>5. ASSUME NEW c \in Changes, NewChange(c) PROVE IInv'
  BY <1>5, NewChangeInv
<1>6. CASE UNCHANGED serverVars
  BY <1>6 DEF IInv, serverVars, TypeOK, LockOwner, FileKnown, CheckStillHolds, Conflicts,
              OwnOnDisk, AnswerNamesItsVersion
<1> QED BY <1>1, <1>2, <1>3, <1>4, <1>5, <1>6 DEF Next, ServerStep

-----------------------------------------------------------------------------

(* The invariant holds in every reachable state. *)
THEOREM Invariance == Spec => []IInv
BY InitInv, NextInv, PTL DEF Spec

(* Every state of the save endpoint is well typed. *)
THEOREM TypeCorrect == Spec => []TypeOK
<1>1. IInv => TypeOK
  BY DEF IInv
<1> QED BY <1>1, Invariance, PTL

(* save_lock belongs to the one handler between check and answer. *)
THEOREM LockExcludes == Spec => []LockOwner
<1>1. IInv => LockOwner
  BY DEF IInv
<1> QED BY <1>1, Invariance, PTL

(* What check_conflict read is still true at the write, agents apart. *)
THEOREM CheckHoldsAtWrite == Spec => []CheckStillHolds
<1>1. IInv => CheckStillHolds
  BY DEF IInv
<1> QED BY <1>1, Invariance, PTL

(* The mtime of a 200 answer is that of the version the save left. *)
THEOREM AnswersOwnVersion == Spec => []AnswerNamesItsVersion
<1>1. IInv => AnswerNamesItsVersion
  BY DEF IInv
<1> QED BY <1>1, Invariance, PTL

-----------------------------------------------------------------------------
(* No agent wrote between a check and the answer. *)
Untouched == \A p \in Pages : ~task[p].touched

(* No file is newer than the latest write, so the next one is newer than all. *)
MtimesPast == \A f \in Files : disk[f].mtime <= clock

RInv == IInv /\ Untouched /\ MtimesPast

-----------------------------------------------------------------------------

LEMMA RInitInv == ServerInit => RInv
<1> SUFFICES ASSUME ServerInit PROVE RInv
  OBVIOUS
<1>1. Untouched
  BY DEF ServerInit, NoTask, Untouched
<1>2. MtimesPast
  BY BornAssumption DEF ServerInit, MtimesPast
<1> QED BY <1>1, <1>2, InitInv DEF RInv

(* A step that writes gives its file the mtime clock + 1. *)
LEMMA WriteIsNewer ==
  ASSUME TypeOK, MtimesPast, NEW f \in Files, NEW marks \in Content, NEW by \in Writers,
         WriteFile(f, marks, by)
  PROVE  MtimesPast' /\ disk'[f].mtime > disk[f].mtime /\ disk'[f].marks = marks
<1>1. clock \in Nat /\ \A g \in Files : disk[g].mtime \in Int
  BY DEF TypeOK, Stamp
<1>2. disk'[f].mtime = clock + 1 /\ disk'[f].marks = marks /\ clock' = clock + 1
        /\ \A g \in Files \ {f} : disk'[g] = disk[g]
  BY DEF WriteFile, TypeOK
<1> QED BY <1>1, <1>2 DEF MtimesPast

(* An answer leaves the files alone and keeps what was noted of agents. *)
LEMMA AnswerStands ==
  ASSUME TypeOK, Untouched, MtimesPast, NEW p \in Pages, NEW status \in Status, NEW mtime \in Int,
         Answered(p, status, mtime), UNCHANGED <<disk, clock>>
  PROVE  Untouched' /\ MtimesPast'
<1>1. \A q \in Pages : task'[q].touched = task[q].touched
  BY AnsweredType
<1>2. Untouched'
  BY <1>1 DEF Untouched
<1>3. MtimesPast'
  BY DEF MtimesPast
<1> QED BY <1>2, <1>3

LEMMA RNextInv == ASSUME AgentsWait PROVE RInv /\ [Next]_serverVars => RInv'
<1> SUFFICES ASSUME RInv, [Next]_serverVars PROVE RInv'
  OBVIOUS
<1> USE DEF RInv
<1>1. IInv'
  BY NextInv
<1> SUFFICES Untouched' /\ MtimesPast'
  BY <1>1
<1> USE DEF IInv
<1>2. ASSUME NEW p \in Pages, Admit(p) PROVE Untouched' /\ MtimesPast'
  <2>1. UNCHANGED <<disk, clock>>
    BY <1>2 DEF Admit
  <2>2. CASE Answered(p, 403, 0)
    <3>1. 403 \in Status /\ 0 \in Int
      BY DEF Status
    <3> QED BY <2>1, <2>2, <3>1, AnswerStands
  <2>3. CASE task' = [task EXCEPT ![p].at = "admitted"]
    <3>1. \A q \in Pages : task'[q].touched = task[q].touched
      BY <2>3 DEF TypeOK, Task
    <3>2. Untouched'
      BY <3>1 DEF Untouched
    <3> QED BY <2>1, <3>2 DEF MtimesPast
  <2> QED BY <1>2, <2>2, <2>3 DEF Admit
<1>3. ASSUME NEW p \in Pages, Check(p) PROVE Untouched' /\ MtimesPast'
  <2>1. UNCHANGED <<disk, clock>>
    BY <1>3 DEF Check
  <2>2. CASE Answered(p, 409, disk[current].mtime)
    <3>1. 409 \in Status /\ disk[current].mtime \in Int
      BY DEF Status, TypeOK, Stamp
    <3> QED BY <2>1, <2>2, <3>1, AnswerStands
  <2>3. CASE task' = [task EXCEPT ![p].at = "checked", ![p].file = current]
    <3>1. \A q \in Pages : task'[q].touched = task[q].touched
      BY <2>3 DEF TypeOK, Task
    <3>2. Untouched'
      BY <3>1 DEF Untouched
    <3> QED BY <2>1, <3>2 DEF MtimesPast
  <2> QED BY <1>3, <2>2, <2>3 DEF Check
<1>4. ASSUME NEW p \in Pages, Replace(p) PROVE Untouched' /\ MtimesPast'
  <2>1. task[p].file \in Files /\ task[p].html \in Content /\ p \in Writers
    BY <1>4 DEF Replace, FileKnown, TypeOK, Task, Writers
  <2>2. MtimesPast'
    BY <1>4, <2>1, WriteIsNewer DEF Replace, MtimesPast
  <2>3. Untouched'
    BY <1>4 DEF Replace, TypeOK, Task, Untouched
  <2> QED BY <2>2, <2>3
<1>5. ASSUME NEW p \in Pages, ReplaceFails(p) PROVE Untouched' /\ MtimesPast'
  <2>1. 500 \in Status /\ 0 \in Int
    BY DEF Status
  <2> QED BY <1>5, <2>1, AnswerStands DEF ReplaceFails
<1>6. ASSUME NEW p \in Pages, Stat(p) PROVE Untouched' /\ MtimesPast'
  <2>1. 200 \in Status /\ disk[task[p].file].mtime \in Int
    BY <1>6 DEF Stat, Status, FileKnown, TypeOK, Stamp
  <2> QED BY <1>6, <2>1, AnswerStands DEF Stat
<1>7. ASSUME NEW a \in Agents, AgentWrite(a) PROVE Untouched' /\ MtimesPast'
  (* The lock is free, so no handler is past its check. *)
  <2>1. \A p \in Pages : task[p].at \notin {"checked", "written"}
    BY <1>7, NoneAssumption DEF AgentWrite, LockOwner
  <2>2. Untouched'
    BY <1>7, <2>1 DEF AgentWrite, Untouched
  <2>3. PICK c \in AgentEdits \ made : WriteFile(draft[a].file, draft[a].marks \cup {c}, a)
    BY <1>7 DEF AgentWrite
  <2>4. draft[a].file \in Files /\ draft[a].marks \cup {c} \in Content /\ a \in Writers
    BY <1>7, WriterAssumption DEF AgentWrite, TypeOK, Content, Writers
  <2> QED BY <2>2, <2>3, <2>4, WriteIsNewer
<1>8. ASSUME NEW f \in Files, OpenFile(f) PROVE UNCHANGED <<disk, clock, task>>
  BY <1>8 DEF OpenFile
<1>9. ASSUME NEW p \in Pages, Send(p) \/ Receive(p) PROVE Untouched' /\ MtimesPast'
  <2>1. \A q \in Pages : task'[q] = task[q] \/ ~task'[q].touched
    <3>1. CASE Send(p)
      <4>1. PICK html \in SUBSET made, base \in Known \cup {None}, force \in BOOLEAN :
              Post(p, html, base, force)
        BY <3>1 DEF Send
      <4> QED BY <4>1 DEF Post, NoTask, TypeOK
    <3>2. CASE Receive(p)
      BY <3>2 DEF Receive, NoTask, TypeOK
    <3> QED BY <1>9, <3>1, <3>2
  <2>2. UNCHANGED <<disk, clock>>
    BY <1>9 DEF Send, Receive
  <2> QED BY <2>1, <2>2 DEF Untouched, MtimesPast
<1>10. ASSUME NEW c \in Changes, NewChange(c) PROVE UNCHANGED <<disk, clock, task>>
  BY <1>10 DEF NewChange
<1>11. CASE UNCHANGED <<disk, clock, task>>
  <2>1. Untouched'
    BY <1>11 DEF Untouched
  <2>2. MtimesPast'
    BY <1>11 DEF MtimesPast
  <2> QED BY <2>1, <2>2
<1>12. CASE UNCHANGED serverVars
  BY <1>11, <1>12 DEF serverVars
<1>13. CASE Next
  <2>1. CASE \E p \in Pages : HandlerStep(p)
    BY <2>1, <1>2, <1>3, <1>4, <1>5, <1>6 DEF HandlerStep
  <2>2. CASE \E a \in Agents : AgentStep(a)
    <3>1. PICK a \in Agents : AgentStep(a)
      BY <2>2
    <3>2. CASE AgentWrite(a)
      BY <3>2, <1>7
    <3>3. CASE (\E f \in Files : AgentRead(a, f)) \/ AgentFails(a)
      <4>1. UNCHANGED <<disk, clock, task>>
        BY <3>3 DEF AgentRead, AgentFails
      <4> QED BY <4>1, <1>11
    <3> QED BY <3>1, <3>2, <3>3 DEF AgentStep
  <2> QED BY <1>13, <2>1, <2>2, <1>8, <1>9, <1>10, <1>11 DEF Next, ServerStep
<1> QED BY <1>12, <1>13

-----------------------------------------------------------------------------
(* The step simulation *)

(* A handler that stands still, stands still in the register. *)
LEMMA OthersStand ==
  ASSUME NEW p \in Pages, \A q \in Pages \ {p} : task'[q] = task[q]
  PROVE  Register!OthersWait(p)
<1>1. \A q \in Pages \ {p} : Call(q)' = Call(q)
  BY DEF Call
<1> QED BY <1>1 DEF Register!OthersWait, Calls

(* An answer in the code is a reply of the register. *)
LEMMA AnsweredReplies ==
  ASSUME TypeOK, NEW p \in Pages, NEW status \in Status, NEW mtime \in Int,
         Answered(p, status, mtime)
  PROVE  Register!Reply(p, status, mtime)
<1>1. /\ task'[p].at = "answered" /\ task'[p].status = status /\ task'[p].mtime = mtime
      /\ \A q \in Pages \ {p} : task'[q] = task[q]
  BY AnsweredType
<1>2. Calls'[p] = [at |-> "done", status |-> status, mtime |-> mtime]
  BY <1>1 DEF Calls, Call
<1> QED BY <1>1, <1>2, OthersStand DEF Register!Reply

(* The file a step leaves alone keeps its version. *)
LEMMA VersionsStand == UNCHANGED disk => UNCHANGED Versions
BY DEF Versions

LEMMA WriteIsNewerVersion ==
  ASSUME TypeOK, MtimesPast, NEW f \in Files, NEW marks \in Content, NEW by \in Writers,
         WriteFile(f, marks, by)
  PROVE  Register!Newer(f, marks)
<1>1. disk'[f].mtime > disk[f].mtime /\ disk'[f].marks = marks
  BY WriteIsNewer
<1>2. \A g \in Files \ {f} : disk'[g] = disk[g]
  BY WriteFileType
<1> QED BY <1>1, <1>2 DEF Register!Newer, Versions

LEMMA AdmitSimulates ==
  ASSUME RInv, NEW p \in Pages, Admit(p)
  PROVE  Register!Fail(p) \/ UNCHANGED <<Versions, Calls>>
<1> USE DEF RInv, IInv
<1>1. UNCHANGED Versions /\ task[p].at = "posted"
  BY VersionsStand DEF Admit
<1>2. Calls[p].at = "asked"
  BY <1>1 DEF Calls, Call
<1>3. CASE Answered(p, 403, 0)
  BY <1>1, <1>2, <1>3, AnsweredReplies DEF Status, Register!Fail
<1>4. CASE task' = [task EXCEPT ![p].at = "admitted"]
  <2>1. Call(p)' = Call(p)
    BY <1>1, <1>4 DEF TypeOK, Task, Call
  <2>2. \A q \in Pages \ {p} : Call(q)' = Call(q)
    BY <1>4 DEF TypeOK, Call
  <2> QED BY <1>1, <2>1, <2>2 DEF Calls
<1> QED BY <1>3, <1>4 DEF Admit

LEMMA CheckSimulates ==
  ASSUME RInv, NEW p \in Pages, Check(p)
  PROVE  (\E f \in Files : Register!Refuse(p, f)) \/ UNCHANGED <<Versions, Calls>>
<1> USE DEF RInv, IInv
<1>1. UNCHANGED Versions /\ task[p].at = "admitted" /\ current \in Files
  BY VersionsStand DEF Check, TypeOK
<1>2. Calls[p].at = "asked" /\ Calls[p].base = task[p].base /\ Calls[p].force = task[p].force
  BY <1>1 DEF Calls, Call
<1>3. CASE Conflicts(p, current) /\ Answered(p, 409, disk[current].mtime)
  <2>1. disk[current].mtime \in Int /\ Versions[current].mtime = disk[current].mtime
    BY <1>1 DEF TypeOK, Stamp, Versions
  <2>2. ~Register!Matches(p, current)
    BY <1>2, <1>3, <2>1 DEF Conflicts, Register!Matches
  <2>3. Register!Reply(p, 409, Versions[current].mtime)
    BY <1>3, <2>1, AnsweredReplies DEF Status
  <2> QED BY <1>1, <1>2, <2>2, <2>3 DEF Register!Refuse
<1>4. CASE task' = [task EXCEPT ![p].at = "checked", ![p].file = current]
  <2>1. Call(p)' = Call(p)
    BY <1>1, <1>4 DEF TypeOK, Task, Call
  <2>2. \A q \in Pages \ {p} : Call(q)' = Call(q)
    BY <1>4 DEF TypeOK, Call
  <2> QED BY <1>1, <2>1, <2>2 DEF Calls
<1> QED BY <1>3, <1>4 DEF Check

(* The replace is the point where a save takes effect: what the check read   *)
(* still holds, because nobody wrote since.                                  *)
LEMMA ReplaceSimulates ==
  ASSUME RInv, NEW p \in Pages, Replace(p)
  PROVE  \E f \in Files : Register!Save(p, f)
<1> USE DEF RInv, IInv
<1> DEFINE f == task[p].file
<1>1. task[p].at = "checked" /\ f \in Files /\ task[p].html \in Content /\ p \in Writers
  BY DEF Replace, FileKnown, TypeOK, Task, Writers
<1>2. Calls[p] = [at |-> "asked", html |-> task[p].html, base |-> task[p].base,
                  force |-> task[p].force]
  BY <1>1 DEF Calls, Call
<1>3. Versions[f].mtime = disk[f].mtime /\ Versions[f].marks = disk[f].marks
        /\ Versions'[f].mtime = disk'[f].mtime
  BY <1>1 DEF Versions
<1>4. Register!Matches(p, f)
  BY <1>1, <1>2, <1>3 DEF CheckStillHolds, Untouched, Conflicts, Register!Matches
<1>5. \/ Versions[f].marks = Calls[p].html /\ UNCHANGED Versions
      \/ Register!Newer(f, Calls[p].html)
  BY <1>1, <1>2, <1>3, VersionsStand, WriteIsNewerVersion DEF Replace, SameBytes
<1>6. Register!Reply(p, 200, Versions'[f].mtime)
  <2>1. task'[p].at = "written" /\ task'[p].own = disk'[f].mtime
          /\ \A q \in Pages \ {p} : task'[q] = task[q]
    BY DEF Replace, TypeOK, Task
  <2>2. Calls'[p] = [at |-> "done", status |-> 200, mtime |-> Versions'[f].mtime]
    BY <1>3, <2>1 DEF Calls, Call
  <2> QED BY <2>1, <2>2, OthersStand DEF Register!Reply
<1>7. Register!Save(p, f)
  BY <1>2, <1>4, <1>5, <1>6 DEF Register!Save
<1> QED BY <1>1, <1>7

LEMMA ReplaceFailsSimulates ==
  ASSUME RInv, NEW p \in Pages, ReplaceFails(p) PROVE Register!Fail(p)
<1>1. UNCHANGED Versions /\ Calls[p].at = "asked"
  BY VersionsStand DEF ReplaceFails, Calls, Call
<1>2. Register!Reply(p, 500, 0)
  BY AnsweredReplies DEF ReplaceFails, Status, RInv, IInv
<1> QED BY <1>1, <1>2 DEF Register!Fail

(* The second stat reads the version the save left: it is no news. *)
LEMMA StatSimulates ==
  ASSUME RInv, NEW p \in Pages, Stat(p) PROVE UNCHANGED <<Versions, Calls>>
<1> USE DEF RInv, IInv
<1>1. UNCHANGED Versions
  BY VersionsStand DEF Stat
<1>2. task[p].at = "written" /\ disk[task[p].file].mtime = task[p].own /\ task[p].own \in Int
  BY DEF Stat, OwnOnDisk, Untouched, TypeOK, Task, Stamp
<1>3. task'[p].at = "answered" /\ task'[p].status = 200 /\ task'[p].mtime = task[p].own
        /\ \A q \in Pages \ {p} : task'[q] = task[q]
  <2>1. Answered(p, 200, task[p].own)
    BY <1>2 DEF Stat
  <2>2. 200 \in Status
    BY DEF Status
  <2> QED BY <1>2, <2>1, <2>2, AnsweredType
<1>4. Call(p)' = Call(p)
  BY <1>2, <1>3 DEF Call
<1>5. \A q \in Pages \ {p} : Call(q)' = Call(q)
  BY <1>3 DEF Call
<1> QED BY <1>1, <1>4, <1>5 DEF Calls

LEMMA AgentWriteSimulates ==
  ASSUME AgentsWait, RInv, NEW a \in Agents, AgentWrite(a)
  PROVE  \E f \in Files : Register!Foreign(f)
<1> USE DEF RInv, IInv
<1> DEFINE f == draft[a].file
<1>1. PICK c \in AgentEdits \ made : WriteFile(f, draft[a].marks \cup {c}, a)
  BY DEF AgentWrite
<1>2. f \in Files /\ draft[a].marks \cup {c} \in Content /\ a \in Writers
  BY WriterAssumption DEF AgentWrite, TypeOK, Content, Writers
<1>3. Register!Newer(f, draft[a].marks \cup {c})
  BY <1>1, <1>2, WriteIsNewerVersion
<1>4. Register!Newer(f, Versions'[f].marks)
  BY <1>3 DEF Register!Newer
<1>5. UNCHANGED Calls
  <2>1. \A p \in Pages : task[p].at \notin {"checked", "written"}
    BY NoneAssumption DEF AgentWrite, LockOwner
  <2>2. \A p \in Pages : task'[p] = task[p]
    BY <2>1 DEF AgentWrite
  <2>3. \A p \in Pages : Call(p)' = Call(p)
    BY <2>2 DEF Call
  <2> QED BY <2>3 DEF Calls
<1> QED BY <1>2, <1>4, <1>5 DEF Register!Foreign

LEMMA SendSimulates ==
  ASSUME RInv, NEW p \in Pages, Send(p) PROVE Register!Ask(p)
<1> USE DEF RInv, IInv
<1>1. PICK html \in SUBSET made, base \in Known \cup {None}, force \in BOOLEAN :
        Post(p, html, base, force)
  BY DEF Send
<1>2. task[p].at = "idle" /\ task'[p].at = "posted" /\ \A q \in Pages \ {p} : task'[q] = task[q]
  BY <1>1 DEF Post, NoTask, TypeOK
<1>3. Calls[p].at = "idle" /\ Calls'[p].at = "asked" /\ UNCHANGED Versions
  BY <1>2, VersionsStand DEF Calls, Call, Send
<1> QED BY <1>2, <1>3, OthersStand DEF Register!Ask

LEMMA ReceiveSimulates ==
  ASSUME RInv, NEW p \in Pages, Receive(p) PROVE Register!Done(p)
<1>1. task'[p].at = "idle" /\ \A q \in Pages \ {p} : task'[q] = task[q]
  BY DEF Receive, NoTask, TypeOK, RInv, IInv
<1>2. Calls'[p] = [at |-> "idle"] /\ UNCHANGED Versions
  BY <1>1, VersionsStand DEF Calls, Call, Receive
<1> QED BY <1>1, <1>2, OthersStand DEF Register!Done

(* Steps that touch neither the files nor a request are invisible. *)
LEMMA RestSimulates == UNCHANGED <<disk, task>> => UNCHANGED <<Versions, Calls>>
BY DEF Versions, Calls, Call

LEMMA StepSimulates ==
  ASSUME AgentsWait, RInv, [Next]_serverVars
  PROVE  [Register!RegisterNext]_<<Versions, Calls>>
<1>1. ASSUME NEW p \in Pages, HandlerStep(p)
      PROVE  [Register!RegisterNext]_<<Versions, Calls>>
  BY <1>1, AdmitSimulates, CheckSimulates, ReplaceSimulates, ReplaceFailsSimulates, StatSimulates
  DEF HandlerStep, Register!RegisterNext
<1>2. ASSUME NEW a \in Agents, AgentStep(a)
      PROVE  [Register!RegisterNext]_<<Versions, Calls>>
  <2>1. CASE AgentWrite(a)
    BY <2>1, AgentWriteSimulates DEF Register!RegisterNext
  <2>2. CASE ~AgentWrite(a)
    BY <1>2, <2>2, RestSimulates DEF AgentStep, AgentRead, AgentFails
  <2> QED BY <2>1, <2>2
<1>3. ASSUME NEW f \in Files, OpenFile(f) PROVE UNCHANGED <<Versions, Calls>>
  BY <1>3, RestSimulates DEF OpenFile
<1>4. ASSUME NEW p \in Pages, Send(p) \/ Receive(p)
      PROVE  [Register!RegisterNext]_<<Versions, Calls>>
  BY <1>4, SendSimulates, ReceiveSimulates DEF Register!RegisterNext
<1>5. ASSUME NEW c \in Changes, NewChange(c) PROVE UNCHANGED <<Versions, Calls>>
  BY <1>5, RestSimulates DEF NewChange
<1>6. CASE UNCHANGED serverVars
  BY <1>6, RestSimulates DEF serverVars
<1> QED BY <1>1, <1>2, <1>3, <1>4, <1>5, <1>6 DEF Next, ServerStep

LEMMA InitSimulates == ServerInit => Register!RegisterInit
BY DEF ServerInit, NoTask, Register!RegisterInit, Calls, Call

(* A save is one atomic compare-and-swap as long as agents keep away from a  *)
(* file that is being saved: check_conflict, the replace and the two stats   *)
(* of write_save never show their seams.                                     *)
THEOREM SaveEndpointIsARegister == ASSUME AgentsWait PROVE Spec => SavesAreAtomic
<1>1. Spec => []RInv
  BY RInitInv, RNextInv, PTL DEF Spec
<1>2. RInv /\ [Next]_serverVars => [Register!RegisterNext]_Register!registerVars
  BY StepSimulates DEF Register!registerVars
<1> QED
  BY <1>1, <1>2, InitSimulates, PTL DEF Spec, SavesAreAtomic, Register!RegisterSpec
=============================================================================
