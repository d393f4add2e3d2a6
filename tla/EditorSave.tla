----------------------------- MODULE EditorSave -----------------------------
(***************************************************************************)
(* The editor page (static/editor.js, static/editor-save.js) on top of the *)
(* save endpoint of SaveServer: editing, the autosave timers, the chain of *)
(* saves, the status poll, the reload of the frame and the conflict        *)
(* notice.                                                                 *)
(*                                                                         *)
(* setTimeout, fetch and the frame's navigation complete asynchronously:   *)
(* each is an action of its own, so a keystroke, a poll or an agent's      *)
(* write may fall between any two of them.                                 *)
(***************************************************************************)
EXTENDS SaveServer, Sequences

CONSTANTS Polls,       \* status polls a page may have in flight together
          MaxQueue,    \* bound on the saves waiting in saveChain
          PromptLoads, \* TRUE: nothing happens while a frame is loading
          OneChoice,   \* TRUE: no Reload while a Keep mine is on its way
          LostAnswers, \* TRUE: a save may fail at network level
          Updates      \* TRUE: agents announce their updates

ASSUME PageAssumption == MaxQueue \in Nat /\ {PromptLoads, OneChoice, LostAnswers, Updates} \subseteq BOOLEAN

VARIABLES page,     \* page -> its bindings in editor.js, and its frame
          poll,     \* page -> poll -> one GET /status
          updating  \* the update flag GET /status reports

pageVars == <<page, poll, updating>>
vars     == <<serverVars, pageVars>>

(* shown is the version the frame's document comes from: the file version    *)
(* last loaded into it, or last written from it.  cloned: the running save   *)
(* took the document the frame still shows.  chosen: the user asked for the  *)
(* reload under way.                                                         *)
Page == [opened: BOOLEAN, loading: BOOLEAN, chosen: BOOLEAN,
         dom: Content, shown: Stamp \cup {None}, cloned: BOOLEAN,
         base: Stamp \cup {None}, last: Stamp \cup {None},
         pending: BOOLEAN, timer: BOOLEAN, orphan: BOOLEAN, queue: Seq(BOOLEAN),
         conflict: BOOLEAN, conflictMtime: Stamp \cup {None}, failed: BOOLEAN,
         wasUpdating: BOOLEAN]

Poll == [at: {"idle", "sent", "read"}, mtime: Stamp, upd: BOOLEAN,
         by: Writers \cup {None}, stale: BOOLEAN]

NewPage == [opened |-> FALSE, dom |-> {}, shown |-> None, loading |-> TRUE,
            chosen |-> FALSE, base |-> None, last |-> None,
            pending |-> FALSE, timer |-> FALSE, orphan |-> FALSE, queue |-> <<>>,
            cloned |-> FALSE, conflict |-> FALSE, conflictMtime |-> None,
            failed |-> FALSE, wasUpdating |-> FALSE]

NoPoll == [at |-> "idle", mtime |-> 0, upd |-> FALSE, by |-> None, stale |-> FALSE]

PageTypeOK ==
  /\ TypeOK
  /\ page \in [Pages -> Page]
  /\ poll \in [Pages -> [Polls -> Poll]]
  /\ updating \in BOOLEAN

Init ==
  /\ ServerInit
  /\ page = [p \in Pages |-> NewPage]
  /\ poll = [p \in Pages |-> [s \in Polls |-> NoPoll]]
  /\ updating = FALSE

Stored == UNION {disk[f].ever : f \in Files}

selfSaving(p) == task[p].at # "idle"

-----------------------------------------------------------------------------
(* Opening the page and loading its frame *)

(* init() awaits GET /status while the frame loads on its own; the page can  *)
(* be edited once both are there.                                            *)
ReadStatus(p) ==
  /\ ~page[p].opened
  /\ page' = [page EXCEPT ![p].opened = TRUE, ![p].base = disk[current].mtime,
                          ![p].last = disk[current].mtime]
  /\ UNCHANGED <<serverVars, poll, updating>>

(* init() goes on without a base when GET /status fails. *)
StatusUnreachable(p) ==
  /\ LostAnswers
  /\ ~page[p].opened
  /\ page' = [page EXCEPT ![p].opened = TRUE]
  /\ UNCHANGED <<serverVars, poll, updating>>

(* GET /content-frame is answered and the frame shows the new document.      *)
(* Until then contentDocument is the old one.                                *)
FrameLoads(p) ==
  /\ page[p].loading
  /\ page' = [page EXCEPT ![p].loading = FALSE, ![p].chosen = FALSE, ![p].cloned = FALSE,
                          ![p].dom = disk[current].marks, ![p].shown = disk[current].mtime]
  /\ UNCHANGED <<serverVars, poll, updating>>

Ready(p) == page[p].opened /\ page[p].shown # None

-----------------------------------------------------------------------------
(* Editing and the autosave timers *)

CanQueue(p) == Len(page[p].queue) < MaxQueue

(* Mutant: an edit sets no timer. *)
EditUntimed(p) ==
  /\ Ready(p)
  /\ \E c \in Changes :
       /\ NewChange(c)
       /\ page' = [page EXCEPT ![p].dom = @ \cup {c}, ![p].pending = TRUE]
  /\ UNCHANGED <<poll, updating>>

(* onEditableInput, scheduleSave: pending, and the timer is set anew. *)
Edit(p) ==
  /\ Ready(p)
  /\ \E c \in Changes :
       /\ NewChange(c)
       /\ page' = [page EXCEPT ![p].dom = @ \cup {c}, ![p].pending = TRUE, ![p].timer = TRUE]
  /\ UNCHANGED <<poll, updating>>

(* Inserting or deleting a slide or a block saves at once, and does not mark *)
(* the document pending.                                                     *)
StructuralEdit(p) ==
  /\ Ready(p)
  /\ CanQueue(p)
  /\ \E c \in Changes :
       /\ NewChange(c)
       /\ page' = [page EXCEPT ![p].dom = @ \cup {c}, ![p].queue = Append(@, FALSE)]
  /\ UNCHANGED <<poll, updating>>

(* Mutant: the event goes to saveContent as its options. *)
BlurWithEvent(p) ==
  /\ Ready(p)
  /\ CanQueue(p)
  /\ page' = [page EXCEPT ![p].timer = FALSE, ![p].queue = Append(@, None)]
  /\ UNCHANGED <<serverVars, poll, updating>>

(* onEditableBlur *)
Blur(p) ==
  /\ Ready(p)
  /\ CanQueue(p)
  /\ page' = [page EXCEPT ![p].timer = FALSE, ![p].queue = Append(@, FALSE)]
  /\ UNCHANGED <<serverVars, poll, updating>>

TimerFires(p) ==
  /\ page[p].timer
  /\ CanQueue(p)
  /\ page' = [page EXCEPT ![p].timer = FALSE, ![p].queue = Append(@, FALSE)]
  /\ UNCHANGED <<serverVars, poll, updating>>

(* A timer whose handle onSaveAccepted forgot can only fire. *)
OrphanFires(p) ==
  /\ page[p].orphan
  /\ CanQueue(p)
  /\ page' = [page EXCEPT ![p].orphan = FALSE, ![p].queue = Append(@, FALSE)]
  /\ UNCHANGED <<serverVars, poll, updating>>

-----------------------------------------------------------------------------
(* The save chain *)

(* runSave returns at once while a conflict waits for the user's choice. *)
SkipSave(p) ==
  /\ ~selfSaving(p)
  /\ page[p].queue # <<>> /\ ~Head(page[p].queue) /\ page[p].conflict
  /\ page' = [page EXCEPT ![p].queue = Tail(@)]
  /\ UNCHANGED <<serverVars, poll, updating>>

RunSave(p) ==
  /\ page[p].queue # <<>>
  /\ page[p].conflict => Head(page[p].queue)
  /\ Post(p, page[p].dom, page[p].base, Head(page[p].queue))
  /\ page' = [page EXCEPT ![p].queue = Tail(@), ![p].cloned = TRUE]
  /\ UNCHANGED <<disk, clock, made, current, lock, draft, poll, updating>>

(* Mutant: saveCount does not grow. *)
SaveDoneUncounted(p) ==
  /\ task' = [task EXCEPT ![p] = NoTask]
  /\ UNCHANGED <<disk, clock, made, current, lock, draft, poll, updating>>

(* finally: selfSaving is false again and saveCount grows, so a poll sent    *)
(* before is recognised.                                                     *)
SaveDone(p) ==
  /\ task' = [task EXCEPT ![p] = NoTask]
  /\ poll' = [poll EXCEPT ![p] = [s \in Polls |->
                IF poll[p][s].at = "idle" THEN NoPoll ELSE [poll[p][s] EXCEPT !.stale = TRUE]]]
  /\ UNCHANGED <<disk, clock, made, current, lock, draft, updating>>

(* Mutant: the page keeps its old base after a save. *)
onSaveAcceptedOldBase(p) ==
  /\ task[p].at = "answered" /\ task[p].status = 200
  /\ page' = [page EXCEPT ![p].last = task[p].mtime,
                          ![p].shown = IF page[p].cloned THEN task[p].own ELSE @,
                          ![p].conflict = FALSE, ![p].failed = FALSE, ![p].pending = FALSE,
                          ![p].orphan = @ \/ page[p].timer, ![p].timer = FALSE]
  /\ SaveDone(p)

onSaveAccepted(p) ==
  /\ task[p].at = "answered" /\ task[p].status = 200
  /\ page' = [page EXCEPT ![p].base = task[p].mtime, ![p].last = task[p].mtime,
                          ![p].shown = IF page[p].cloned THEN task[p].own ELSE @,
                          ![p].conflict = FALSE, ![p].failed = FALSE, ![p].pending = FALSE,
                          ![p].orphan = @ \/ page[p].timer, ![p].timer = FALSE]
  /\ SaveDone(p)

onSaveConflict(p) ==
  /\ task[p].at = "answered" /\ task[p].status = 409
  /\ page' = [page EXCEPT ![p].conflict = TRUE, ![p].conflictMtime = task[p].mtime,
                          ![p].failed = FALSE]
  /\ SaveDone(p)

showSaveError(p) ==
  /\ \/ task[p].at = "answered" /\ task[p].status \in {403, 500}
     \/ LostAnswers /\ task[p].at \in {"posted", "answered"}
  /\ page' = [page EXCEPT ![p].failed = TRUE]
  /\ SaveDone(p)

-----------------------------------------------------------------------------
(* The conflict notice *)

KeepMine(p) ==
  /\ page[p].conflict
  /\ CanQueue(p)
  /\ page' = [page EXCEPT ![p].queue = Append(@, TRUE)]
  /\ UNCHANGED <<serverVars, poll, updating>>

(* The notice, with both buttons, stays until a Keep mine is answered, and   *)
(* clearTimeout(saveTimer) does not reach an orphan.                         *)
reloadFromDisk(p) ==
  /\ page[p].conflict
  /\ OneChoice => ~selfSaving(p) /\ \A i \in DOMAIN page[p].queue : ~page[p].queue[i]
  /\ page' = [page EXCEPT ![p].timer = FALSE, ![p].base = page[p].conflictMtime,
                          ![p].last = page[p].conflictMtime, ![p].conflict = FALSE,
                          ![p].failed = FALSE, ![p].pending = FALSE,
                          ![p].loading = TRUE, ![p].chosen = TRUE]
  /\ UNCHANGED <<serverVars, poll, updating>>

-----------------------------------------------------------------------------
(* The status poll *)

SendPoll(p, s) ==
  /\ page[p].opened
  /\ poll[p][s].at = "idle"
  /\ poll' = [poll EXCEPT ![p][s] = [NoPoll EXCEPT !.at = "sent"]]
  /\ UNCHANGED <<serverVars, page, updating>>

AnswerPoll(p, s) ==
  /\ poll[p][s].at = "sent"
  /\ poll' = [poll EXCEPT ![p][s].at = "read", ![p][s].mtime = disk[current].mtime,
                          ![p][s].by = disk[current].by, ![p][s].upd = updating]
  /\ UNCHANGED <<serverVars, page, updating>>

(* A save ran while the poll was in flight: its answer is dropped. *)
DropPoll(p, s) ==
  /\ poll[p][s].at = "read"
  /\ selfSaving(p) \/ poll[p][s].stale
  /\ poll' = [poll EXCEPT ![p][s] = NoPoll]
  /\ UNCHANGED <<serverVars, page, updating>>

(* Mutant: the poll notes the mtime before it compares. *)
noExternalChange(p, mtime) == FALSE

externalChange(p, mtime) ==
  page[p].last # None /\ mtime # page[p].last /\ ~page[p].pending

(* Mutant: every poll moves the base, as before DEC-013. *)
pollStatusRebases(p, s) ==
  /\ poll[p][s].at = "read"
  /\ ~selfSaving(p) /\ ~poll[p][s].stale
  /\ LET mtime == poll[p][s].mtime
         noted == [page[p] EXCEPT !.base = mtime, !.last = mtime]
     IN  \/ /\ poll[p][s].upd
            /\ page' = [page EXCEPT ![p] = [noted EXCEPT !.wasUpdating = TRUE]]
         \/ /\ ~poll[p][s].upd
            /\ page[p].wasUpdating \/ externalChange(p, mtime)
            /\ page' = [page EXCEPT ![p] = [noted EXCEPT !.wasUpdating = FALSE,
                                              !.conflict = FALSE, !.loading = TRUE]]
         \/ /\ ~poll[p][s].upd
            /\ ~page[p].wasUpdating /\ ~externalChange(p, mtime)
            /\ page' = [page EXCEPT ![p] = noted]
  /\ poll' = [poll EXCEPT ![p][s] = NoPoll]
  /\ UNCHANGED <<serverVars, updating>>

(* The page takes the answer: it shows the overlay, or reloads the frame     *)
(* after an update or an external change, or only notes the mtime.           *)
pollStatus(p, s) ==
  /\ poll[p][s].at = "read"
  /\ ~selfSaving(p) /\ ~poll[p][s].stale
  /\ LET mtime == poll[p][s].mtime
         base  == IF page[p].base = None THEN mtime ELSE page[p].base
         noted == [page[p] EXCEPT !.base = base, !.last = mtime]
     IN  \/ /\ poll[p][s].upd
            /\ page' = [page EXCEPT ![p] = [noted EXCEPT !.wasUpdating = TRUE]]
         \/ /\ ~poll[p][s].upd
            /\ page[p].wasUpdating \/ externalChange(p, mtime)
            /\ page' = [page EXCEPT ![p] = [noted EXCEPT !.base = mtime, !.wasUpdating = FALSE,
                                              !.conflict = FALSE, !.loading = TRUE]]
         \/ /\ ~poll[p][s].upd
            /\ ~page[p].wasUpdating /\ ~externalChange(p, mtime)
            /\ page' = [page EXCEPT ![p] = noted]
  /\ poll' = [poll EXCEPT ![p][s] = NoPoll]
  /\ UNCHANGED <<serverVars, updating>>

(* update_start, and update_end or the expiry of the flag. *)
SetUpdating(flag) ==
  /\ Updates
  /\ updating # flag
  /\ updating' = flag
  /\ UNCHANGED <<serverVars, page, poll>>

-----------------------------------------------------------------------------

LoadStep(p) == ReadStatus(p) \/ StatusUnreachable(p) \/ FrameLoads(p)

UserStep(p) == Edit(p) \/ StructuralEdit(p) \/ Blur(p) \/ KeepMine(p) \/ reloadFromDisk(p)

PollStep(p, s) == SendPoll(p, s) \/ AnswerPoll(p, s) \/ DropPoll(p, s) \/ pollStatus(p, s)

BrowserStep(p) ==
  \/ TimerFires(p) \/ OrphanFires(p) \/ SkipSave(p) \/ RunSave(p)
  \/ onSaveAccepted(p) \/ onSaveConflict(p) \/ showSaveError(p)
  \/ \E s \in Polls : PollStep(p, s)

Settled == PromptLoads => \A p \in Pages : page[p].opened /\ ~page[p].loading

EditorNext ==
  \/ \E p \in Pages : LoadStep(p)
  \/ /\ Settled
     /\ \/ \E p \in Pages : UserStep(p) \/ BrowserStep(p)
        \/ \E flag \in BOOLEAN : SetUpdating(flag)
        \/ ServerStep /\ UNCHANGED pageVars

EditorSpec == Init /\ [][EditorNext]_vars

(* The browser runs its timers and delivers its answers, and the server runs *)
(* its handlers.  Users and agents owe nothing.                              *)
BrowserFairness(p) ==
  /\ WF_vars(LoadStep(p))
  /\ WF_vars(Settled /\ (TimerFires(p) \/ OrphanFires(p)))
  /\ WF_vars(Settled /\ (SkipSave(p) \/ RunSave(p)))
  /\ WF_vars(Settled /\ (onSaveAccepted(p) \/ onSaveConflict(p) \/ showSaveError(p)))
  /\ \A s \in Polls : WF_vars(Settled /\ PollStep(p, s))

FairEditorSpec ==
  /\ EditorSpec
  /\ \A p \in Pages :
       BrowserFairness(p) /\ WF_vars(Settled /\ HandlerStep(p) /\ UNCHANGED pageVars)

-----------------------------------------------------------------------------

(* FR-NEW-002: the base a page sends is the version it last loaded or wrote. *)
(* The direction that protects the agent's work: the base is never newer     *)
(* than the version the frame shows.                                         *)
BaseNotNewer ==
  \A p \in Pages : (Ready(p) /\ ~page[p].loading /\ page[p].base # None)
                     => page[p].base <= page[p].shown

(* A save without Keep mine never removes from the file a change the agent   *)
(* or another page made: whatever is on disk when the save replaces it was   *)
(* in the document the save was cloned from.                                 *)
NoSilentOverwrite ==
  [][\A p \in Pages :
       (task[p].at = "checked" /\ task'[p].at = "written" /\ ~task[p].force)
         => \A f \in Files : disk[f].marks \subseteq disk'[f].marks]_vars

(* What check_conflict compares stands for what it protects: a document of the version a file *)
(* has holds every change of the file, however frames load and saves end.                       *)
ShownIsHeld ==
  \A p \in Pages, f \in Files : page[p].shown = disk[f].mtime => disk[f].marks \subseteq page[p].dom

(* The save under way was cloned from the document the frame still shows, and names its version. *)
NamesItsVersion(p) == page[p].cloned /\ task[p].base # None /\ task[p].base = page[p].shown

(* An accepted save that names the version its document comes from removes no change from any   *)
(* file, unless Keep mine forced it or an agent wrote after its check: whatever agents, other    *)
(* pages, lost answers, reloads and open_file did since the document was loaded.                 *)
NamedVersionsAreKept ==
  [][\A p \in Pages :
       (task[p].at = "checked" /\ task'[p].at = "written" /\ ~task[p].force /\ ~task[p].touched
          /\ NamesItsVersion(p))
         => \A f \in Files : disk[f].marks \subseteq disk'[f].marks]_vars

(* "Never reload because of our own save: that would flash the iframe and    *)
(* lose the caret": a poll outside an update window never makes the page     *)
(* reload a version it wrote itself.                                         *)
OwnSaveNeverReloads ==
  [][\A p \in Pages, s \in Polls :
       (poll[p][s].at = "read" /\ poll'[p][s].at = "idle" /\ ~page[p].wasUpdating
          /\ page'[p].loading /\ ~page[p].loading)
         => poll[p][s].by # p]_vars

(* "A save never sends a base mtime that an earlier one is about to          *)
(* replace": a page is never refused because of a version it wrote itself.   *)
NoConflictWithSelf ==
  \A p \in Pages : (task[p].at = "admitted" /\ lock = None /\ Conflicts(p, current))
                     => disk[current].by # p

(* A change typed into the page reaches the disk, or the page says why not   *)
(* (a conflict to decide, a failed save), or a reload replaced the document. *)
EditsSettle ==
  \A p \in Pages, c \in Changes :
    (Ready(p) /\ c \in page[p].dom)
      ~> (c \in Stored \/ page[p].conflict \/ page[p].failed \/ c \notin page[p].dom)

(* Once everyone rests, the page shows the file, or tells the user it does   *)
(* not: a conflict or a failed save is on screen.                            *)
PageConverges ==
  \A p \in Pages :
    []<>(page[p].dom = disk[current].marks \/ page[p].conflict \/ page[p].failed \/ updating)

(* onSaveConflict: "keep the unsaved state and let the user choose".  A      *)
(* conflict ends with the user's Reload or with a save (Keep mine).          *)
ConflictEndsByChoice ==
  [][\A p \in Pages : (page[p].conflict /\ ~page'[p].conflict)
       => (task[p].at = "answered" \/ page'[p].chosen)]_vars
=============================================================================
