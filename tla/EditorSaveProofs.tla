-------------------------- MODULE EditorSaveProofs --------------------------
(***************************************************************************)
(* Proofs about the editor page on top of the save endpoint, for any       *)
(* number of pages, agents, files, changes and polls.                      *)
(***************************************************************************)
EXTENDS EditorSave, SaveServerProofs, SequenceTheorems

(* The page uses the endpoint as its specification allows: each mtime it holds has been one of a *)
(* file, and its documents hold changes that were made.                                          *)
ServerKnown ==
  /\ \A f \in Files : disk[f].mtime \in Known /\ disk[f].marks \subseteq made
  /\ \A a \in Agents : draft[a].marks \subseteq made
  /\ \A p \in Pages : /\ task[p].html \subseteq made
                      /\ task[p].at = "answered" /\ task[p].status \in {200, 409} => task[p].mtime \in Known

PageTypes == page \in [Pages -> Page] /\ poll \in [Pages -> [Polls -> Poll]] /\ updating \in BOOLEAN

PagesKnow ==
  \A p \in Pages :
    /\ page[p].dom \subseteq made /\ page[p].base \in Known \cup {None} /\ page[p].conflictMtime \in Known \cup {None}
    /\ \A s \in Polls : poll[p][s].at = "read" => poll[p][s].mtime \in Known

EInv == IInv /\ ServerKnown /\ PageTypes /\ PagesKnow

-----------------------------------------------------------------------------
(* What a page knows of a version it wrote itself: no answer lost, one file. *)

OneFile == \A f, g \in Files : f = g

Candid == ~LostAnswers /\ OneFile

OwnVersionKnown(p) ==
  disk[current].by = p =>
    \/ task[p].at = "written"
    \/ task[p].at = "answered" /\ task[p].status = 200 /\ task[p].mtime = disk[current].mtime
    \/ /\ task[p].at \in {"idle", "posted", "admitted", "checked", "answered"}
       /\ task[p].at = "answered" => task[p].status \notin {200, 409}
       /\ ~page[p].conflict /\ page[p].base = disk[current].mtime /\ page[p].last = disk[current].mtime
       /\ task[p].at \in {"posted", "admitted", "checked"} => task[p].base = disk[current].mtime

PollFresh(p, s) ==
  poll[p][s].at = "read" /\ ~poll[p][s].stale /\ task[p].at = "idle" /\ disk[current].by = p
    => poll[p][s].mtime = disk[current].mtime

OwnPollNoted(p, s) ==
  poll[p][s].at = "read" /\ ~poll[p][s].stale /\ task[p].at = "idle" /\ poll[p][s].by = p
    => page[p].last = poll[p][s].mtime /\ ~page[p].conflict

Knows(p) == OwnVersionKnown(p) /\ \A s \in Polls : PollFresh(p, s)

SInv == \A p \in Pages : Knows(p)

OnePoll == \A r, s \in Polls : r = s

Notes(p) == \A s \in Polls : OwnPollNoted(p, s) /\ (poll[p][s].at # "idle" => page[p].opened)

OInv == \A p \in Pages : Notes(p)

-----------------------------------------------------------------------------
(* What each action does to its page, and that pages stay well typed *)

OnlyPage(p) == page' \in [Pages -> Page] /\ \A q \in Pages \ {p} : page'[q] = page[q]

SameFrame(new, me)  == new.loading = me.loading /\ new.dom = me.dom /\ new.shown = me.shown
SameBase(new, me)   == new.opened = me.opened /\ new.base = me.base /\ new.last = me.last
SameNotice(new, me) == new.conflict = me.conflict /\ new.conflictMtime = me.conflictMtime

LEMMA PageBecomes ==
  ASSUME PageTypes, NEW p \in Pages, NEW new \in Page, page' = [page EXCEPT ![p] = new]
  PROVE  OnlyPage(p) /\ page'[p] = new
BY DEF PageTypes, OnlyPage

LEMMA EditorTypes ==
  ASSUME EInv, NEW p \in Pages
  PROVE  /\ PageTypes /\ TypeOK /\ page[p] \in Page /\ page \in [Pages -> Page] /\ task[p] \in Task
         /\ current \in Files /\ disk[current].mtime \in Stamp /\ disk[current].marks \in Content
         /\ disk[current].by \in Writers \cup {None}
BY DEF EInv, IInv, TypeOK, PageTypes

LEMMA ReadStatusPage ==
  ASSUME EInv, NEW p \in Pages, ReadStatus(p)
  PROVE  /\ OnlyPage(p) /\ page'[p].opened
         /\ page'[p].base = disk[current].mtime /\ page'[p].last = disk[current].mtime
         /\ SameFrame(page'[p], page[p]) /\ SameNotice(page'[p], page[p]) /\ page'[p].cloned = page[p].cloned
<1> DEFINE m == disk[current].mtime
           new == [page[p] EXCEPT !.opened = TRUE, !.base = m, !.last = m]
<1>1. PageTypes /\ page[p] \in Page /\ page \in [Pages -> Page] /\ m \in Stamp \cup {None} /\ TRUE \in BOOLEAN
  BY EditorTypes
<1>2. page' = [page EXCEPT ![p].opened = TRUE, ![p].base = m, ![p].last = m]
  BY DEF ReadStatus
<1> HIDE DEF m
<1>3. new \in Page
  BY <1>1, Zenon DEF Page
<1>4. /\ new.opened /\ new.base = m /\ new.last = m
      /\ SameFrame(new, page[p]) /\ SameNotice(new, page[p]) /\ new.cloned = page[p].cloned
  BY <1>1 DEF Page, SameFrame, SameNotice
<1>5. page' = [page EXCEPT ![p] = new]
  BY <1>1, <1>2
<1> HIDE DEF new
<1>6. OnlyPage(p) /\ page'[p] = new
  BY <1>1, <1>3, <1>5, PageBecomes
<1> QED BY <1>4, <1>6 DEF m

(* A step that changes nothing of the document, the base, the notice. *)
Quiet(p) ==
  /\ OnlyPage(p) /\ SameFrame(page'[p], page[p]) /\ SameBase(page'[p], page[p]) /\ SameNotice(page'[p], page[p])
  /\ page'[p].cloned = page[p].cloned

LEMMA BlurPage ==
  ASSUME EInv, NEW p \in Pages, Blur(p)
  PROVE  Quiet(p)
<1> DEFINE queue == Append(page[p].queue, FALSE)
           new == [page[p] EXCEPT !.timer = FALSE, !.queue = queue]
<1>1. PageTypes /\ page[p] \in Page /\ page \in [Pages -> Page] /\ TRUE \in BOOLEAN /\ FALSE \in BOOLEAN
  BY EditorTypes
<1>2. queue \in Seq(BOOLEAN)
  BY EditorTypes DEF Page
<1>3. page' = [page EXCEPT ![p].timer = FALSE, ![p].queue = queue]
  BY DEF Blur
<1> HIDE DEF queue
<1>4. new \in Page
  BY <1>1, <1>2, Zenon DEF Page
<1>5. SameFrame(new, page[p]) /\ SameBase(new, page[p]) /\ SameNotice(new, page[p]) /\ new.cloned = page[p].cloned
  BY <1>1 DEF Page, SameFrame, SameBase, SameNotice
<1>6. page' = [page EXCEPT ![p] = new]
  BY <1>1, <1>3
<1> HIDE DEF new
<1>7. OnlyPage(p) /\ page'[p] = new
  BY <1>1, <1>4, <1>6, PageBecomes
<1> QED BY <1>5, <1>7 DEF Quiet

LEMMA TimerPage ==
  ASSUME EInv, NEW p \in Pages, TimerFires(p)
  PROVE  Quiet(p)
<1> DEFINE queue == Append(page[p].queue, FALSE)
           new == [page[p] EXCEPT !.timer = FALSE, !.queue = queue]
<1>1. PageTypes /\ page[p] \in Page /\ page \in [Pages -> Page] /\ TRUE \in BOOLEAN /\ FALSE \in BOOLEAN
  BY EditorTypes
<1>2. queue \in Seq(BOOLEAN)
  BY EditorTypes DEF Page
<1>3. page' = [page EXCEPT ![p].timer = FALSE, ![p].queue = queue]
  BY DEF TimerFires
<1> HIDE DEF queue
<1>4. new \in Page
  BY <1>1, <1>2, Zenon DEF Page
<1>5. SameFrame(new, page[p]) /\ SameBase(new, page[p]) /\ SameNotice(new, page[p]) /\ new.cloned = page[p].cloned
  BY <1>1 DEF Page, SameFrame, SameBase, SameNotice
<1>6. page' = [page EXCEPT ![p] = new]
  BY <1>1, <1>3
<1> HIDE DEF new
<1>7. OnlyPage(p) /\ page'[p] = new
  BY <1>1, <1>4, <1>6, PageBecomes
<1> QED BY <1>5, <1>7 DEF Quiet

LEMMA OrphanPage ==
  ASSUME EInv, NEW p \in Pages, OrphanFires(p)
  PROVE  Quiet(p)
<1> DEFINE queue == Append(page[p].queue, FALSE)
           new == [page[p] EXCEPT !.orphan = FALSE, !.queue = queue]
<1>1. PageTypes /\ page[p] \in Page /\ page \in [Pages -> Page] /\ TRUE \in BOOLEAN /\ FALSE \in BOOLEAN
  BY EditorTypes
<1>2. queue \in Seq(BOOLEAN)
  BY EditorTypes DEF Page
<1>3. page' = [page EXCEPT ![p].orphan = FALSE, ![p].queue = queue]
  BY DEF OrphanFires
<1> HIDE DEF queue
<1>4. new \in Page
  BY <1>1, <1>2, Zenon DEF Page
<1>5. SameFrame(new, page[p]) /\ SameBase(new, page[p]) /\ SameNotice(new, page[p]) /\ new.cloned = page[p].cloned
  BY <1>1 DEF Page, SameFrame, SameBase, SameNotice
<1>6. page' = [page EXCEPT ![p] = new]
  BY <1>1, <1>3
<1> HIDE DEF new
<1>7. OnlyPage(p) /\ page'[p] = new
  BY <1>1, <1>4, <1>6, PageBecomes
<1> QED BY <1>5, <1>7 DEF Quiet

LEMMA SkipPage ==
  ASSUME EInv, NEW p \in Pages, SkipSave(p)
  PROVE  Quiet(p)
<1> DEFINE queue == Tail(page[p].queue)
           new == [page[p] EXCEPT !.queue = queue]
<1>1. PageTypes /\ page[p] \in Page /\ page \in [Pages -> Page] /\ TRUE \in BOOLEAN /\ FALSE \in BOOLEAN
  BY EditorTypes
<1>2. queue \in Seq(BOOLEAN)
  <2>1. page[p].queue \in Seq(BOOLEAN) /\ page[p].queue # << >>
    BY EditorTypes DEF Page, SkipSave
  <2> QED BY <2>1, HeadTailProperties
<1>3. page' = [page EXCEPT ![p].queue = queue]
  BY DEF SkipSave
<1> HIDE DEF queue
<1>4. new \in Page
  BY <1>1, <1>2, Zenon DEF Page
<1>5. SameFrame(new, page[p]) /\ SameBase(new, page[p]) /\ SameNotice(new, page[p]) /\ new.cloned = page[p].cloned
  BY <1>1 DEF Page, SameFrame, SameBase, SameNotice
<1>6. page' = [page EXCEPT ![p] = new]
  BY <1>1, <1>3
<1> HIDE DEF new
<1>7. OnlyPage(p) /\ page'[p] = new
  BY <1>1, <1>4, <1>6, PageBecomes
<1> QED BY <1>5, <1>7 DEF Quiet

LEMMA KeepMinePage ==
  ASSUME EInv, NEW p \in Pages, KeepMine(p)
  PROVE  Quiet(p)
<1> DEFINE queue == Append(page[p].queue, TRUE)
           new == [page[p] EXCEPT !.queue = queue]
<1>1. PageTypes /\ page[p] \in Page /\ page \in [Pages -> Page] /\ TRUE \in BOOLEAN /\ FALSE \in BOOLEAN
  BY EditorTypes
<1>2. queue \in Seq(BOOLEAN)
  BY EditorTypes DEF Page
<1>3. page' = [page EXCEPT ![p].queue = queue]
  BY DEF KeepMine
<1> HIDE DEF queue
<1>4. new \in Page
  BY <1>1, <1>2, Zenon DEF Page
<1>5. SameFrame(new, page[p]) /\ SameBase(new, page[p]) /\ SameNotice(new, page[p]) /\ new.cloned = page[p].cloned
  BY <1>1 DEF Page, SameFrame, SameBase, SameNotice
<1>6. page' = [page EXCEPT ![p] = new]
  BY <1>1, <1>3
<1> HIDE DEF new
<1>7. OnlyPage(p) /\ page'[p] = new
  BY <1>1, <1>4, <1>6, PageBecomes
<1> QED BY <1>5, <1>7 DEF Quiet

LEMMA SaveErrorPage ==
  ASSUME EInv, NEW p \in Pages, showSaveError(p)
  PROVE  Quiet(p)
<1> DEFINE new == [page[p] EXCEPT !.failed = TRUE]
<1>1. PageTypes /\ page[p] \in Page /\ page \in [Pages -> Page] /\ TRUE \in BOOLEAN /\ FALSE \in BOOLEAN
  BY EditorTypes
<1>2. TRUE
  OBVIOUS
<1>3. page' = [page EXCEPT ![p].failed = TRUE]
  BY DEF showSaveError
<1>4. new \in Page
  BY <1>1, <1>2, Zenon DEF Page
<1>5. SameFrame(new, page[p]) /\ SameBase(new, page[p]) /\ SameNotice(new, page[p]) /\ new.cloned = page[p].cloned
  BY <1>1 DEF Page, SameFrame, SameBase, SameNotice
<1>6. page' = [page EXCEPT ![p] = new]
  BY <1>1, <1>3
<1> HIDE DEF new
<1>7. OnlyPage(p) /\ page'[p] = new
  BY <1>1, <1>4, <1>6, PageBecomes
<1> QED BY <1>5, <1>7 DEF Quiet

LEMMA UnreachablePage ==
  ASSUME EInv, NEW p \in Pages, StatusUnreachable(p)
  PROVE  /\ OnlyPage(p) /\ page'[p].dom = page[p].dom /\ page'[p].base = page[p].base /\ SameNotice(page'[p], page[p])
         /\ page'[p].shown = page[p].shown /\ page'[p].cloned = page[p].cloned
<1> DEFINE new == [page[p] EXCEPT !.opened = TRUE]
<1>1. PageTypes /\ page[p] \in Page /\ page \in [Pages -> Page] /\ TRUE \in BOOLEAN /\ FALSE \in BOOLEAN
  BY EditorTypes
<1>2. TRUE
  OBVIOUS
<1>3. page' = [page EXCEPT ![p].opened = TRUE]
  BY DEF StatusUnreachable
<1>4. new \in Page
  BY <1>1, <1>2, Zenon DEF Page
<1>5. /\ new.dom = page[p].dom /\ new.base = page[p].base /\ SameNotice(new, page[p])
      /\ new.shown = page[p].shown /\ new.cloned = page[p].cloned
  BY <1>1 DEF Page, SameFrame, SameBase, SameNotice
<1>6. page' = [page EXCEPT ![p] = new]
  BY <1>1, <1>3
<1> HIDE DEF new
<1>7. OnlyPage(p) /\ page'[p] = new
  BY <1>1, <1>4, <1>6, PageBecomes
<1> QED BY <1>5, <1>7

LEMMA FrameLoadsPage ==
  ASSUME EInv, NEW p \in Pages, FrameLoads(p)
  PROVE  /\ OnlyPage(p) /\ ~page'[p].loading /\ ~page'[p].cloned
         /\ page'[p].dom = disk[current].marks /\ page'[p].shown = disk[current].mtime
         /\ SameBase(page'[p], page[p]) /\ SameNotice(page'[p], page[p])
<1> DEFINE marks == disk[current].marks
           m == disk[current].mtime
           new == [page[p] EXCEPT !.loading = FALSE, !.chosen = FALSE, !.cloned = FALSE, !.dom = marks, !.shown = m]
<1>1. PageTypes /\ page[p] \in Page /\ page \in [Pages -> Page] /\ TRUE \in BOOLEAN /\ FALSE \in BOOLEAN
  BY EditorTypes
<1>2. marks \in Content /\ m \in Stamp \cup {None}
  BY EditorTypes
<1>3. page' = [page EXCEPT ![p].loading = FALSE, ![p].chosen = FALSE, ![p].cloned = FALSE, ![p].dom = marks, ![p].shown = m]
  BY DEF FrameLoads
<1> HIDE DEF marks, m
<1>4. new \in Page
  BY <1>1, <1>2, Zenon DEF Page
<1>5. /\ ~new.loading /\ ~new.cloned /\ new.dom = marks /\ new.shown = m
      /\ SameBase(new, page[p]) /\ SameNotice(new, page[p])
  BY <1>1 DEF Page, SameFrame, SameBase, SameNotice
<1>6. page' = [page EXCEPT ![p] = new]
  BY <1>1, <1>3
<1> HIDE DEF new
<1>7. OnlyPage(p) /\ page'[p] = new
  BY <1>1, <1>4, <1>6, PageBecomes
<1> QED BY <1>5, <1>7 DEF marks, m

(* A save leaves the queue with the document of the frame. *)
LEMMA RunSavePage ==
  ASSUME EInv, NEW p \in Pages, RunSave(p)
  PROVE  /\ OnlyPage(p) /\ page'[p].cloned
         /\ SameFrame(page'[p], page[p]) /\ SameBase(page'[p], page[p]) /\ SameNotice(page'[p], page[p])
<1> DEFINE queue == Tail(page[p].queue)
           new == [page[p] EXCEPT !.queue = queue, !.cloned = TRUE]
<1>1. PageTypes /\ page[p] \in Page /\ page \in [Pages -> Page] /\ TRUE \in BOOLEAN /\ FALSE \in BOOLEAN
  BY EditorTypes
<1>2. queue \in Seq(BOOLEAN)
  <2>1. page[p].queue \in Seq(BOOLEAN) /\ page[p].queue # << >>
    BY EditorTypes DEF Page, RunSave
  <2> QED BY <2>1, HeadTailProperties
<1>3. page' = [page EXCEPT ![p].queue = queue, ![p].cloned = TRUE]
  BY DEF RunSave
<1> HIDE DEF queue
<1>4. new \in Page
  BY <1>1, <1>2, Zenon DEF Page
<1>5. /\ new.cloned /\ SameFrame(new, page[p]) /\ SameBase(new, page[p]) /\ SameNotice(new, page[p])
  BY <1>1 DEF Page, SameFrame, SameBase, SameNotice
<1>6. page' = [page EXCEPT ![p] = new]
  BY <1>1, <1>3
<1> HIDE DEF new
<1>7. OnlyPage(p) /\ page'[p] = new
  BY <1>1, <1>4, <1>6, PageBecomes
<1> QED BY <1>5, <1>7

LEMMA AcceptedPage ==
  ASSUME EInv, NEW p \in Pages, onSaveAccepted(p)
  PROVE  /\ OnlyPage(p) /\ page'[p].base = task[p].mtime /\ page'[p].last = task[p].mtime /\ ~page'[p].conflict
         /\ page'[p].shown = (IF page[p].cloned THEN task[p].own ELSE page[p].shown)
         /\ page'[p].opened = page[p].opened /\ page'[p].loading = page[p].loading /\ page'[p].dom = page[p].dom
         /\ page'[p].cloned = page[p].cloned /\ page'[p].conflictMtime = page[p].conflictMtime
<1> DEFINE m == task[p].mtime
           shown == IF page[p].cloned THEN task[p].own ELSE page[p].shown
           orphan == page[p].orphan \/ page[p].timer
           new == [page[p] EXCEPT !.base = m, !.last = m, !.shown = shown, !.conflict = FALSE, !.failed = FALSE,
             !.pending = FALSE, !.orphan = orphan, !.timer = FALSE]
<1>1. PageTypes /\ page[p] \in Page /\ page \in [Pages -> Page] /\ TRUE \in BOOLEAN /\ FALSE \in BOOLEAN
  BY EditorTypes
<1>2. m \in Stamp \cup {None} /\ shown \in Stamp \cup {None} /\ orphan \in BOOLEAN
  BY EditorTypes DEF Page, Task, Stamp
<1>3. page' = [page EXCEPT ![p].base = m, ![p].last = m, ![p].shown = shown, ![p].conflict = FALSE,
             ![p].failed = FALSE, ![p].pending = FALSE, ![p].orphan = orphan, ![p].timer = FALSE]
  BY DEF onSaveAccepted
<1> HIDE DEF m, shown, orphan
<1>4. new \in Page
  BY <1>1, <1>2, Zenon DEF Page
<1>5. /\ new.base = m /\ new.last = m /\ new.shown = shown /\ ~new.conflict
      /\ new.opened = page[p].opened /\ new.loading = page[p].loading /\ new.dom = page[p].dom
      /\ new.cloned = page[p].cloned /\ new.conflictMtime = page[p].conflictMtime
  BY <1>1 DEF Page, SameFrame, SameBase, SameNotice
<1>6. page' = [page EXCEPT ![p] = new]
  BY <1>1, <1>3
<1> HIDE DEF new
<1>7. OnlyPage(p) /\ page'[p] = new
  BY <1>1, <1>4, <1>6, PageBecomes
<1> QED BY <1>5, <1>7 DEF m, shown

LEMMA ConflictPage ==
  ASSUME EInv, NEW p \in Pages, onSaveConflict(p)
  PROVE  /\ OnlyPage(p) /\ page'[p].conflict /\ page'[p].conflictMtime = task[p].mtime
         /\ SameFrame(page'[p], page[p]) /\ SameBase(page'[p], page[p]) /\ page'[p].cloned = page[p].cloned
<1> DEFINE m == task[p].mtime
           new == [page[p] EXCEPT !.conflict = TRUE, !.conflictMtime = m, !.failed = FALSE]
<1>1. PageTypes /\ page[p] \in Page /\ page \in [Pages -> Page] /\ TRUE \in BOOLEAN /\ FALSE \in BOOLEAN
  BY EditorTypes
<1>2. m \in Stamp \cup {None}
  BY EditorTypes DEF Task, Stamp
<1>3. page' = [page EXCEPT ![p].conflict = TRUE, ![p].conflictMtime = m, ![p].failed = FALSE]
  BY DEF onSaveConflict
<1> HIDE DEF m
<1>4. new \in Page
  BY <1>1, <1>2, Zenon DEF Page
<1>5. /\ new.conflict /\ new.conflictMtime = m
      /\ SameFrame(new, page[p]) /\ SameBase(new, page[p]) /\ new.cloned = page[p].cloned
  BY <1>1 DEF Page, SameFrame, SameBase, SameNotice
<1>6. page' = [page EXCEPT ![p] = new]
  BY <1>1, <1>3
<1> HIDE DEF new
<1>7. OnlyPage(p) /\ page'[p] = new
  BY <1>1, <1>4, <1>6, PageBecomes
<1> QED BY <1>5, <1>7 DEF m

LEMMA ReloadPage ==
  ASSUME EInv, NEW p \in Pages, reloadFromDisk(p)
  PROVE  /\ OnlyPage(p) /\ page'[p].base = page[p].conflictMtime /\ page'[p].last = page[p].conflictMtime
         /\ ~page'[p].conflict /\ page'[p].loading /\ page'[p].opened = page[p].opened /\ page'[p].dom = page[p].dom
         /\ page'[p].shown = page[p].shown /\ page'[p].cloned = page[p].cloned
         /\ page'[p].conflictMtime = page[p].conflictMtime
<1> DEFINE m == page[p].conflictMtime
           new == [page[p] EXCEPT !.timer = FALSE, !.base = m, !.last = m, !.conflict = FALSE,
             !.failed = FALSE, !.pending = FALSE, !.loading = TRUE, !.chosen = TRUE]
<1>1. PageTypes /\ page[p] \in Page /\ page \in [Pages -> Page] /\ TRUE \in BOOLEAN /\ FALSE \in BOOLEAN
  BY EditorTypes
<1>2. m \in Stamp \cup {None}
  BY EditorTypes DEF Page
<1>3. page' = [page EXCEPT ![p].timer = FALSE, ![p].base = m, ![p].last = m, ![p].conflict = FALSE,
             ![p].failed = FALSE, ![p].pending = FALSE, ![p].loading = TRUE, ![p].chosen = TRUE]
  BY DEF reloadFromDisk
<1> HIDE DEF m
<1>4. new \in Page
  BY <1>1, <1>2, Zenon DEF Page
<1>5. /\ new.base = m /\ new.last = m /\ ~new.conflict /\ new.loading /\ new.opened = page[p].opened
      /\ new.dom = page[p].dom /\ new.shown = page[p].shown /\ new.cloned = page[p].cloned
      /\ new.conflictMtime = page[p].conflictMtime
  BY <1>1 DEF Page, SameFrame, SameBase, SameNotice
<1>6. page' = [page EXCEPT ![p] = new]
  BY <1>1, <1>3
<1> HIDE DEF new
<1>7. OnlyPage(p) /\ page'[p] = new
  BY <1>1, <1>4, <1>6, PageBecomes
<1> QED BY <1>5, <1>7 DEF m

(* A change made in the page is in its document. *)
Typed(p) ==
  /\ OnlyPage(p) /\ SameBase(page'[p], page[p]) /\ SameNotice(page'[p], page[p])
  /\ page'[p].loading = page[p].loading /\ page'[p].shown = page[p].shown /\ page'[p].cloned = page[p].cloned
  /\ \E c \in Changes : NewChange(c) /\ page'[p].dom = page[p].dom \cup {c}

LEMMA TypedPage ==
  ASSUME EInv, NEW p \in Pages, Edit(p) \/ StructuralEdit(p)
  PROVE  Typed(p)
<1>1. PageTypes /\ page[p] \in Page /\ page \in [Pages -> Page] /\ TRUE \in BOOLEAN
  BY EditorTypes
<1>2. PICK c \in Changes :
        /\ NewChange(c)
        /\ \/ page' = [page EXCEPT ![p].dom = page[p].dom \cup {c}, ![p].pending = TRUE, ![p].timer = TRUE]
           \/ page' = [page EXCEPT ![p].dom = page[p].dom \cup {c}, ![p].queue = Append(page[p].queue, FALSE)]
  BY <1>1 DEF Edit, StructuralEdit
<1> DEFINE dom == page[p].dom \cup {c}
           queue == Append(page[p].queue, FALSE)
           typed == [page[p] EXCEPT !.dom = dom, !.pending = TRUE, !.timer = TRUE]
           restructured == [page[p] EXCEPT !.dom = dom, !.queue = queue]
<1>3. dom \in Content /\ queue \in Seq(BOOLEAN)
  BY <1>1 DEF Page, Content
<1>4. page' = [page EXCEPT ![p] = typed] \/ page' = [page EXCEPT ![p] = restructured]
  <2>1. \/ page' = [page EXCEPT ![p].dom = dom, ![p].pending = TRUE, ![p].timer = TRUE]
        \/ page' = [page EXCEPT ![p].dom = dom, ![p].queue = queue]
    BY <1>2
  <2> HIDE DEF dom, queue
  <2> QED BY <1>1, <2>1
<1> HIDE DEF dom, queue
<1>5. typed \in Page /\ restructured \in Page
  BY <1>1, <1>3, Zenon DEF Page
<1>6. ASSUME NEW new \in {typed, restructured}
      PROVE  /\ SameBase(new, page[p]) /\ SameNotice(new, page[p]) /\ new.loading = page[p].loading
             /\ new.shown = page[p].shown /\ new.cloned = page[p].cloned /\ new.dom = dom
  BY <1>1, <1>6 DEF Page, SameBase, SameNotice
<1> HIDE DEF typed, restructured
<1>7. PICK new \in {typed, restructured} : page' = [page EXCEPT ![p] = new]
  BY <1>4
<1>8. OnlyPage(p) /\ page'[p] = new
  BY <1>1, <1>5, <1>7, PageBecomes
<1> QED BY <1>2, <1>6, <1>8 DEF Typed, dom

(* A poll is taken: the mtime is noted, and the frame may be loaded again. *)
LEMMA PollPage ==
  ASSUME EInv, NEW p \in Pages, NEW s \in Polls, pollStatus(p, s)
  PROVE  /\ OnlyPage(p) /\ page'[p].last = poll[p][s].mtime
         /\ page'[p].opened = page[p].opened /\ page'[p].dom = page[p].dom /\ page'[p].shown = page[p].shown
         /\ page'[p].cloned = page[p].cloned /\ page'[p].conflictMtime = page[p].conflictMtime
         /\ \/ /\ page'[p].base = (IF page[p].base = None THEN poll[p][s].mtime ELSE page[p].base)
               /\ page'[p].loading = page[p].loading /\ page'[p].conflict = page[p].conflict
            \/ /\ page[p].wasUpdating \/ externalChange(p, poll[p][s].mtime)
               /\ page'[p].base = poll[p][s].mtime /\ page'[p].loading /\ ~page'[p].conflict
<1> DEFINE m == poll[p][s].mtime
           b == IF page[p].base = None THEN m ELSE page[p].base
           noted == [page[p] EXCEPT !.base = b, !.last = m]
           shaded == [noted EXCEPT !.wasUpdating = TRUE]
           reloaded == [noted EXCEPT !.base = m, !.wasUpdating = FALSE, !.conflict = FALSE, !.loading = TRUE]
<1>1. /\ PageTypes /\ page[p] \in Page /\ page \in [Pages -> Page] /\ TRUE \in BOOLEAN /\ FALSE \in BOOLEAN
      /\ m \in Stamp \cup {None} /\ b \in Stamp \cup {None}
  <2>1. poll[p][s] \in Poll
    BY EditorTypes DEF PageTypes
  <2> QED BY <2>1, EditorTypes DEF Poll, Page
<1>2. \/ page' = [page EXCEPT ![p] = shaded]
      \/ page' = [page EXCEPT ![p] = noted]
      \/ page' = [page EXCEPT ![p] = reloaded] /\ (page[p].wasUpdating \/ externalChange(p, m))
  BY DEF pollStatus
<1> HIDE DEF m, b
<1>3. noted \in Page
  BY <1>1, Zenon DEF Page
<1>4. /\ noted.base = b /\ noted.last = m /\ noted.opened = page[p].opened
      /\ SameFrame(noted, page[p]) /\ SameNotice(noted, page[p]) /\ noted.cloned = page[p].cloned
  BY <1>1 DEF Page, SameFrame, SameNotice
<1> HIDE DEF noted
<1>5. shaded \in Page /\ reloaded \in Page
  <2>1. shaded \in Page
    BY <1>1, <1>3, Zenon DEF Page
  <2>2. reloaded \in Page
    BY <1>1, <1>3, Zenon DEF Page
  <2> QED BY <2>1, <2>2
<1>6. /\ SameBase(shaded, noted) /\ SameFrame(shaded, noted) /\ SameNotice(shaded, noted) /\ shaded.cloned = noted.cloned
      /\ reloaded.base = m /\ reloaded.loading /\ ~reloaded.conflict /\ reloaded.last = noted.last
      /\ reloaded.opened = noted.opened /\ reloaded.dom = noted.dom /\ reloaded.shown = noted.shown
      /\ reloaded.cloned = noted.cloned /\ reloaded.conflictMtime = noted.conflictMtime
  BY <1>3 DEF Page, SameBase, SameFrame, SameNotice
<1> HIDE DEF shaded, reloaded
<1>7. CASE page' = [page EXCEPT ![p] = noted]
  <2>1. OnlyPage(p) /\ page'[p] = noted
    BY <1>1, <1>3, <1>7, PageBecomes
  <2> QED BY <1>4, <2>1 DEF SameFrame, SameNotice, m, b
<1>8. CASE page' = [page EXCEPT ![p] = shaded]
  <2>1. OnlyPage(p) /\ page'[p] = shaded
    BY <1>1, <1>5, <1>8, PageBecomes
  <2> QED BY <1>4, <1>6, <2>1 DEF SameBase, SameFrame, SameNotice, m, b
<1>9. CASE page' = [page EXCEPT ![p] = reloaded] /\ (page[p].wasUpdating \/ externalChange(p, m))
  <2>1. OnlyPage(p) /\ page'[p] = reloaded
    BY <1>1, <1>5, <1>9, PageBecomes
  <2> QED BY <1>4, <1>6, <1>9, <2>1 DEF SameFrame, SameNotice, m, b
<1> QED BY <1>2, <1>7, <1>8, <1>9


-----------------------------------------------------------------------------
(* What each step of a handler or an agent does to the requests *)

OnlyTask(p) == task' \in [Pages -> Task] /\ \A q \in Pages \ {p} : task'[q] = task[q]

Asks(new, t) == new.html = t.html /\ new.base = t.base /\ new.force = t.force

Admits(p)  == task[p].at = "posted" /\ task'[p].at = "admitted" /\ Asks(task'[p], task[p]) /\ UNCHANGED <<disk, clock>>
Errs(p)    == /\ task[p].at \in {"posted", "checked"} /\ task'[p].at = "answered" /\ task'[p].status \in {403, 500}
              /\ task'[p].html = {} /\ UNCHANGED <<disk, clock>>
Refuses(p) == /\ task[p].at = "admitted" /\ Conflicts(p, current) /\ task'[p].at = "answered" /\ task'[p].status = 409
              /\ task'[p].mtime = disk[current].mtime /\ task'[p].html = {} /\ UNCHANGED <<disk, clock>>
Passes(p)  == /\ task[p].at = "admitted" /\ ~Conflicts(p, current) /\ task'[p].at = "checked"
              /\ Asks(task'[p], task[p]) /\ UNCHANGED <<disk, clock>>
Puts(p)    == /\ task[p].at = "checked" /\ task[p].file \in Files /\ task'[p].at = "written" /\ Asks(task'[p], task[p])
              /\ task'[p].own = disk'[task[p].file].mtime /\ task'[p].file = task[p].file
              /\ \/ SameBytes(p) /\ UNCHANGED <<disk, clock>>
                 \/ WriteFile(task[p].file, task[p].html, p)
Answers(p) == /\ task[p].at = "written" /\ task[p].file \in Files /\ task'[p].at = "answered" /\ task'[p].status = 200
              /\ task'[p].mtime = disk[task[p].file].mtime /\ task'[p].own = task[p].own /\ task'[p].html = {}
              /\ UNCHANGED <<disk, clock>>

LEMMA AnswerIsEmpty ==
  ASSUME TypeOK, NEW p \in Pages, NEW status \in Status, NEW mtime \in Int, Answered(p, status, mtime)
  PROVE  /\ OnlyTask(p) /\ task'[p].at = "answered" /\ task'[p].status = status /\ task'[p].mtime = mtime
         /\ task'[p].own = task[p].own /\ task'[p].html = {}
<1>1. /\ task' \in [Pages -> Task]
      /\ task'[p].at = "answered" /\ task'[p].status = status /\ task'[p].mtime = mtime
      /\ task'[p].own = task[p].own /\ task'[p].touched = task[p].touched
      /\ \A q \in Pages \ {p} : task'[q] = task[q]
  BY AnsweredType
<1>2. task'[p].html = {}
  BY DEF TypeOK, Answered, NoTask
<1> QED BY <1>1, <1>2 DEF OnlyTask

LEMMA HandlerTask ==
  ASSUME IInv, NEW p \in Pages, HandlerStep(p)
  PROVE  /\ OnlyTask(p) /\ UNCHANGED <<made, current, draft>>
         /\ Admits(p) \/ Errs(p) \/ Refuses(p) \/ Passes(p) \/ Puts(p) \/ Answers(p)
<1>1. TypeOK /\ task \in [Pages -> Task] /\ task[p] \in Task /\ current \in Files /\ disk[current].mtime \in Int
  BY DEF IInv, TypeOK, Stamp
<1>2. UNCHANGED <<made, current, draft>>
  BY DEF HandlerStep, Admit, Check, Replace, ReplaceFails, Stat
<1>3. task[p].at \in {"checked", "written"} => task[p].file \in Files
  BY DEF IInv, FileKnown
<1>4. CASE Admit(p)
  <2>1. CASE Answered(p, 403, 0)
    BY <1>1, <1>2, <1>4, <2>1, AnswerIsEmpty DEF Admit, Errs, Status
  <2>2. CASE task' = [task EXCEPT ![p].at = "admitted"]
    BY <1>1, <1>2, <1>4, <2>2 DEF Admit, Admits, Asks, OnlyTask, Task, Steps
  <2> QED BY <1>4, <2>1, <2>2 DEF Admit
<1>5. CASE Check(p)
  <2>1. CASE Conflicts(p, current) /\ Answered(p, 409, disk[current].mtime)
    BY <1>1, <1>2, <1>5, <2>1, AnswerIsEmpty DEF Check, Refuses, Status
  <2>2. CASE ~Conflicts(p, current) /\ task' = [task EXCEPT ![p].at = "checked", ![p].file = current]
    BY <1>1, <1>2, <1>5, <2>2 DEF Check, Passes, Asks, OnlyTask, Task, Steps
  <2> QED BY <1>5, <2>1, <2>2 DEF Check
<1>6. CASE Replace(p)
  <2> DEFINE own == disk'[task[p].file].mtime
  <2>1. own \in Int
    <3>1. SameBytes(p) /\ UNCHANGED <<disk, clock>> => own \in Int
      BY <1>1, <1>3, <1>6 DEF Replace, TypeOK, Stamp
    <3>2. WriteFile(task[p].file, task[p].html, p) => own \in Int
      BY <1>1, <1>3, <1>6 DEF Replace, WriteFile, TypeOK
    <3> QED BY <1>6, <3>1, <3>2 DEF Replace
  <2>2. task' = [task EXCEPT ![p].at = "written", ![p].own = own]
    BY <1>6 DEF Replace
  <2> HIDE DEF own
  <2>3. /\ OnlyTask(p) /\ task'[p].at = "written" /\ Asks(task'[p], task[p]) /\ task'[p].own = own
        /\ task'[p].file = task[p].file
    BY <1>1, <2>1, <2>2 DEF OnlyTask, Asks, Task, Steps, Stamp
  <2> QED BY <1>2, <1>3, <1>6, <2>3 DEF Replace, Puts, own
<1>7. CASE ReplaceFails(p)
  BY <1>1, <1>2, <1>7, AnswerIsEmpty DEF ReplaceFails, Errs, Status
<1>8. CASE Stat(p)
  <2>1. disk[task[p].file].mtime \in Int
    BY <1>1, <1>3, <1>8 DEF Stat, TypeOK, Stamp
  <2> QED BY <1>1, <1>2, <1>3, <1>8, <2>1, AnswerIsEmpty DEF Stat, Answers, Status
<1> QED BY <1>4, <1>5, <1>6, <1>7, <1>8 DEF HandlerStep

(* An agent's write marks requests under way, and changes nothing else of them. *)
SameTask(new, t) ==
  /\ new.at = t.at /\ Asks(new, t) /\ new.status = t.status /\ new.mtime = t.mtime /\ new.own = t.own
  /\ new.file = t.file

AgentPuts(a) ==
  /\ AgentsWait => lock = None
  /\ draft[a].file \in Files
  /\ \E c \in AgentEdits : made' = made \cup {c} /\ WriteFile(draft[a].file, draft[a].marks \cup {c}, a)
  /\ \A p \in Pages : SameTask(task'[p], task[p])

LEMMA AgentWriteTask ==
  ASSUME IInv, NEW a \in Agents, AgentWrite(a)
  PROVE  AgentPuts(a) /\ UNCHANGED <<current, lock>>
<1>1. task \in [Pages -> Task] /\ draft[a].file \in Files \cup {None}
  BY DEF IInv, TypeOK
<1>2. ASSUME NEW p \in Pages PROVE SameTask(task'[p], task[p])
  <2>1. task[p] \in Task
    BY <1>1
  <2>2. task'[p] = [task[p] EXCEPT !.touched = TRUE] \/ task'[p] = task[p]
    BY DEF AgentWrite
  <2> QED BY <2>1, <2>2 DEF SameTask, Asks, Task
<1> QED BY <1>1, <1>2 DEF AgentWrite, AgentPuts

LEMMA AgentTask ==
  ASSUME IInv, NEW a \in Agents, AgentStep(a)
  PROVE  /\ UNCHANGED current
         /\ UNCHANGED <<disk, clock, made, task>> \/ AgentPuts(a)
<1>1. CASE AgentWrite(a)
  BY <1>1, AgentWriteTask
<1>2. CASE AgentFails(a) \/ \E f \in Files : AgentRead(a, f)
  BY <1>2 DEF AgentFails, AgentRead
<1> QED BY <1>1, <1>2 DEF AgentStep

-----------------------------------------------------------------------------
(* The page uses the endpoint as its specification allows *)

LEMMA KnownGrows ==
  ASSUME clock \in Nat, clock' \in Nat, clock <= clock' PROVE Known \subseteq Known'
BY DEF Known

(* Requests under way are the same but for those of one page, and no file changes. *)
LEMMA OneTaskKnown ==
  ASSUME ServerKnown, NEW p \in Pages, UNCHANGED <<disk, clock, made, draft>>,
         \A q \in Pages \ {p} : task'[q] = task[q],
         task'[p].html \subseteq made,
         task'[p].at = "answered" /\ task'[p].status \in {200, 409} => task'[p].mtime \in Known
  PROVE  ServerKnown'
<1>1. Known' = Known
  BY DEF Known
<1> QED BY <1>1 DEF ServerKnown

LEMMA WriteKnown ==
  ASSUME IInv, ServerKnown, NEW f \in Files, NEW marks \in Content, NEW by \in Writers, WriteFile(f, marks, by),
         made \subseteq made', marks \subseteq made',
         \A a \in Agents : draft'[a].marks \subseteq made',
         \A p \in Pages : /\ task'[p].html \subseteq made'
                          /\ task'[p].at = "answered" => /\ task[p].at = "answered" /\ task'[p].status = task[p].status
                                                         /\ task'[p].mtime = task[p].mtime
  PROVE  ServerKnown'
<1>1. clock \in Nat /\ clock' = clock + 1 /\ disk \in [Files -> [marks: Content, mtime: Stamp, by: Writers \cup {None}, ever: Content]]
  BY DEF IInv, TypeOK, WriteFile
<1>2. Known \subseteq Known' /\ clock + 1 \in Known'
  <2>1. clock + 1 \in 0..clock'
    BY <1>1
  <2> QED BY <1>1, <2>1, KnownGrows DEF Known
<1>3. disk'[f].mtime = clock + 1 /\ disk'[f].marks = marks /\ \A g \in Files \ {f} : disk'[g] = disk[g]
  BY <1>1 DEF WriteFile
<1>4. \A g \in Files : disk'[g].mtime \in Known' /\ disk'[g].marks \subseteq made'
  BY <1>2, <1>3 DEF ServerKnown
<1> QED BY <1>2, <1>4 DEF ServerKnown

LEMMA ServerStepKnown == IInv /\ ServerKnown /\ [Next]_serverVars => ServerKnown'
<1> SUFFICES ASSUME IInv, ServerKnown, [Next]_serverVars PROVE ServerKnown'
  OBVIOUS
<1>1. /\ TypeOK /\ task \in [Pages -> Task] /\ current \in Files
      /\ \A f \in Files : disk[f].mtime \in Known /\ disk[f].marks \subseteq made
      /\ \A a \in Agents : draft[a].marks \subseteq made
      /\ \A q \in Pages : task[q].html \subseteq made
  BY DEF IInv, TypeOK, ServerKnown
<1>2. ASSUME NEW p \in Pages, HandlerStep(p) PROVE ServerKnown'
  <2>1. /\ OnlyTask(p) /\ UNCHANGED <<made, current, draft>>
        /\ Admits(p) \/ Errs(p) \/ Refuses(p) \/ Passes(p) \/ Puts(p) \/ Answers(p)
    BY <1>2, HandlerTask
  <2>2. CASE Puts(p) /\ WriteFile(task[p].file, task[p].html, p)
    <3>1. task[p].html \in Content /\ p \in Writers /\ task[p].file \in Files
      BY <1>1, <2>2 DEF Task, Writers, Puts
    <3>2. \A q \in Pages : task'[q].html = task[q].html /\ (task'[q].at = "answered" => task'[q] = task[q])
      BY <2>1, <2>2 DEF OnlyTask, Puts, Asks
    <3> QED BY <1>1, <2>1, <2>2, <3>1, <3>2, WriteKnown
  <2>3. CASE UNCHANGED <<disk, clock>>
    <3>1. task'[p].html \subseteq made
      BY <1>1, <2>1 DEF Admits, Errs, Refuses, Passes, Puts, Answers, Asks
    <3>2. task'[p].at = "answered" /\ task'[p].status \in {200, 409} => task'[p].mtime \in Known
      BY <1>1, <2>1 DEF Admits, Errs, Refuses, Passes, Puts, Answers
    <3> QED BY <2>1, <2>3, <3>1, <3>2, OneTaskKnown DEF OnlyTask
  <2> QED BY <2>1, <2>2, <2>3 DEF Admits, Errs, Refuses, Passes, Puts, Answers
<1>3. ASSUME NEW a \in Agents, AgentStep(a) PROVE ServerKnown'
  <2>1. CASE AgentWrite(a)
    <3>1. AgentPuts(a)
      BY <2>1, AgentWriteTask
    <3>2. PICK c \in AgentEdits : made' = made \cup {c} /\ WriteFile(draft[a].file, draft[a].marks \cup {c}, a)
      BY <3>1 DEF AgentPuts
    <3>3. draft[a].marks \cup {c} \in Content /\ a \in Writers /\ draft[a].file \in Files
      BY <1>1, <3>1, <3>2, WriterAssumption DEF TypeOK, Content, Writers, AgentPuts
    <3>4. draft' = [draft EXCEPT ![a] = NoDraft] /\ draft \in [Agents -> [file: Files \cup {None}, marks: Content]]
      BY <1>1, <2>1 DEF AgentWrite, TypeOK
    <3>5. \A b \in Agents : draft'[b].marks \subseteq made'
      BY <1>1, <3>2, <3>4 DEF NoDraft
    <3>6. \A q \in Pages : SameTask(task'[q], task[q])
      BY <3>1 DEF AgentPuts
    <3> HIDE DEF AgentPuts
    <3> QED BY <1>1, <3>2, <3>3, <3>5, <3>6, WriteKnown DEF SameTask, Asks
  <2>2. CASE AgentFails(a) \/ \E f \in Files : AgentRead(a, f)
    <3>1. UNCHANGED <<disk, clock, made, task>> /\ Known' = Known
      BY <2>2 DEF AgentFails, AgentRead, Known
    <3>2. \A b \in Agents : draft'[b].marks \subseteq made
      BY <1>1, <2>2 DEF AgentFails, AgentRead, NoDraft, TypeOK
    <3> QED BY <3>1, <3>2 DEF ServerKnown
  <2> QED BY <1>3, <2>1, <2>2 DEF AgentStep
<1>4. ASSUME NEW p \in Pages, Send(p) \/ Receive(p) PROVE ServerKnown'
  <2>1. /\ UNCHANGED <<disk, clock, made, draft>> /\ \A q \in Pages \ {p} : task'[q] = task[q]
        /\ task'[p].html \subseteq made /\ task'[p].at # "answered"
    <3>1. CASE Send(p)
      <4>1. PICK html \in SUBSET made, base \in Known \cup {None}, force \in BOOLEAN : Post(p, html, base, force)
        BY <3>1 DEF Send
      <4>2. task'[p].html = html /\ task'[p].at = "posted" /\ \A q \in Pages \ {p} : task'[q] = task[q]
        BY <1>1, <4>1 DEF Post, NoTask
      <4> QED BY <3>1, <4>2 DEF Send
    <3>2. CASE Receive(p)
      BY <1>1, <3>2 DEF Receive, NoTask
    <3> QED BY <1>4, <3>1, <3>2
  <2> QED BY <2>1, OneTaskKnown
<1>5. ASSUME NEW f \in Files, OpenFile(f) PROVE ServerKnown'
  BY <1>5 DEF OpenFile, ServerKnown, Known
<1>6. ASSUME NEW c \in Changes, NewChange(c) PROVE ServerKnown'
  <2>1. UNCHANGED <<disk, clock, task, draft>> /\ made \subseteq made' /\ Known' = Known
    BY <1>6 DEF NewChange, Known
  <2> QED BY <2>1 DEF ServerKnown
<1>7. CASE UNCHANGED serverVars
  BY <1>7 DEF serverVars, ServerKnown, Known
<1> QED BY <1>2, <1>3, <1>4, <1>5, <1>6, <1>7 DEF Next, ServerStep

LEMMA KnownNow ==
  IInv /\ [Next]_serverVars => made \subseteq made' /\ Known \subseteq Known'
<1> SUFFICES ASSUME IInv, [Next]_serverVars PROVE made \subseteq made' /\ Known \subseteq Known'
  OBVIOUS
<1>1. clock \in Nat /\ current \in Files
  BY DEF IInv, TypeOK
<1>2. ASSUME NEW p \in Pages, HandlerStep(p) PROVE made \subseteq made' /\ clock <= clock'
  <2>1. UNCHANGED made /\ (Admits(p) \/ Errs(p) \/ Refuses(p) \/ Passes(p) \/ Puts(p) \/ Answers(p))
    BY <1>2, HandlerTask
  <2> QED BY <1>1, <2>1 DEF Admits, Errs, Refuses, Passes, Puts, Answers, WriteFile
<1>3. ASSUME NEW a \in Agents, AgentStep(a) PROVE made \subseteq made' /\ clock <= clock'
  <2>1. UNCHANGED <<clock, made>> \/ AgentPuts(a)
    BY <1>3, AgentTask
  <2>2. CASE AgentPuts(a)
    <3>1. clock' = clock + 1 /\ made \subseteq made'
      BY <2>2 DEF AgentPuts, WriteFile
    <3> QED BY <1>1, <3>1
  <2> QED BY <1>1, <2>1, <2>2
<1>4. ASSUME NEW p \in Pages, Send(p) \/ Receive(p) PROVE made \subseteq made' /\ clock <= clock'
  BY <1>1, <1>4 DEF Send, Receive
<1>5. ASSUME NEW f \in Files, OpenFile(f) PROVE made \subseteq made' /\ clock <= clock'
  BY <1>1, <1>5 DEF OpenFile
<1>6. ASSUME NEW c \in Changes, NewChange(c) PROVE made \subseteq made' /\ clock <= clock'
  BY <1>1, <1>6 DEF NewChange
<1>7. ASSUME UNCHANGED serverVars PROVE made \subseteq made' /\ clock <= clock'
  BY <1>1, <1>7 DEF serverVars
<1>8. made \subseteq made' /\ clock <= clock'
  BY <1>2, <1>3, <1>4, <1>5, <1>6, <1>7 DEF Next, ServerStep
<1>9. IInv'
  BY NextInv
<1>10. clock' \in Nat
  BY <1>9 DEF IInv, TypeOK
<1> QED BY <1>1, <1>8, <1>10, KnownGrows

(* A step that sends a request sends what the page holds. *)
LEMMA RunSaveSends ==
  ASSUME EInv, NEW p \in Pages, RunSave(p)
  PROVE  Send(p)
<1>1. page[p].queue \in Seq(BOOLEAN) /\ page[p].queue # << >>
  BY EditorTypes DEF Page, RunSave
<1>2. Head(page[p].queue) \in BOOLEAN
  BY <1>1, HeadTailProperties
<1>3. page[p].dom \in SUBSET made /\ page[p].base \in Known \cup {None}
  BY DEF EInv, PagesKnow
<1>4. Post(p, page[p].dom, page[p].base, Head(page[p].queue)) /\ UNCHANGED <<disk, clock, made, current, lock, draft>>
  BY DEF RunSave
<1> HIDE DEF Post
<1> QED BY <1>2, <1>3, <1>4 DEF Send

(* The end of a save is the receipt of its answer, or its loss. *)
Ends(p) == onSaveAccepted(p) \/ onSaveConflict(p) \/ showSaveError(p)

LEMMA SaveDoneReceives ==
  ASSUME NEW p \in Pages, Ends(p)
  PROVE  Receive(p) /\ SaveDone(p)
BY DEF Ends, onSaveAccepted, onSaveConflict, showSaveError, SaveDone, Receive

(* Steps of the page alone. *)
Apart(p) ==
  \/ ReadStatus(p) \/ StatusUnreachable(p) \/ FrameLoads(p) \/ Blur(p) \/ KeepMine(p) \/ reloadFromDisk(p)
  \/ TimerFires(p) \/ OrphanFires(p) \/ SkipSave(p) \/ \E s \in Polls : PollStep(p, s)

LEMMA ApartFromServer ==
  ASSUME NEW p \in Pages, Apart(p)
  PROVE  UNCHANGED serverVars
<1>1. ASSUME NEW s \in Polls, PollStep(p, s) PROVE UNCHANGED serverVars
  BY <1>1 DEF PollStep, SendPoll, AnswerPoll, DropPoll, pollStatus
<1> QED
  BY <1>1 DEF Apart, ReadStatus, StatusUnreachable, FrameLoads, Blur, KeepMine, reloadFromDisk,
              TimerFires, OrphanFires, SkipSave

(* The steps of the whole, by what they touch. *)
LEMMA EditorSteps ==
  ASSUME [EditorNext]_vars
  PROVE  \/ \E p \in Pages : Apart(p) \/ Edit(p) \/ StructuralEdit(p) \/ RunSave(p) \/ Ends(p)
         \/ UNCHANGED serverVars /\ UNCHANGED <<page, poll>> /\ updating' \in BOOLEAN \cup {updating}
         \/ Settled /\ ServerStep /\ UNCHANGED pageVars
<1>1. CASE \E p \in Pages : LoadStep(p)
  BY <1>1 DEF LoadStep, Apart
<1>2. CASE \E p \in Pages : UserStep(p) \/ BrowserStep(p)
  BY <1>2 DEF UserStep, BrowserStep, Apart, Ends
<1>3. CASE \E flag \in BOOLEAN : SetUpdating(flag)
  BY <1>3 DEF SetUpdating
<1>4. CASE UNCHANGED vars
  BY <1>4 DEF vars, pageVars
<1> QED BY <1>1, <1>2, <1>3, <1>4 DEF EditorNext

LEMMA EditorStepIsServerStep == EInv /\ [EditorNext]_vars => [Next]_serverVars
<1> SUFFICES ASSUME EInv, [EditorNext]_vars PROVE [Next]_serverVars
  OBVIOUS
<1>1. ASSUME NEW p \in Pages, Apart(p) PROVE UNCHANGED serverVars
  BY <1>1, ApartFromServer
<1>2. ASSUME NEW p \in Pages, Edit(p) \/ StructuralEdit(p) PROVE Next
  BY <1>2 DEF Edit, StructuralEdit, Next
<1>3. ASSUME NEW p \in Pages, RunSave(p) PROVE Next
  BY <1>3, RunSaveSends DEF Next
<1>4. ASSUME NEW p \in Pages, Ends(p) PROVE Next
  BY <1>4, SaveDoneReceives DEF Next
<1> QED BY <1>1, <1>2, <1>3, <1>4, EditorSteps DEF Next

-----------------------------------------------------------------------------
(* What each step does to the polls *)

OnlyPoll(p, s) ==
  /\ poll' \in [Pages -> [Polls -> Poll]]
  /\ \A q \in Pages, r \in Polls : (q # p \/ r # s) => poll'[q][r] = poll[q][r]

LEMMA PollBecomes ==
  ASSUME PageTypes, NEW p \in Pages, NEW s \in Polls, NEW new \in Poll, poll' = [poll EXCEPT ![p][s] = new]
  PROVE  OnlyPoll(p, s) /\ poll'[p][s] = new
BY DEF PageTypes, OnlyPoll

LEMMA NoPollType == NoPoll \in Poll /\ NoPoll.at = "idle" /\ ~NoPoll.stale
BY DEF NoPoll, Poll, Stamp, Writers

LEMMA SendPollPoll ==
  ASSUME EInv, NEW p \in Pages, NEW s \in Polls, SendPoll(p, s)
  PROVE  OnlyPoll(p, s) /\ poll'[p][s].at = "sent"
<1> DEFINE new == [NoPoll EXCEPT !.at = "sent"]
<1>1. new \in Poll /\ new.at = "sent"
  BY NoPollType DEF Poll
<1>2. PageTypes /\ poll' = [poll EXCEPT ![p][s] = new]
  BY EditorTypes DEF SendPoll
<1> HIDE DEF new
<1> QED BY <1>1, <1>2, PollBecomes

LEMMA AnswerPollPoll ==
  ASSUME EInv, NEW p \in Pages, NEW s \in Polls, AnswerPoll(p, s)
  PROVE  /\ OnlyPoll(p, s) /\ poll'[p][s].at = "read"
         /\ poll'[p][s].mtime = disk[current].mtime /\ poll'[p][s].by = disk[current].by
<1> DEFINE m == disk[current].mtime
           by == disk[current].by
           new == [poll[p][s] EXCEPT !.at = "read", !.mtime = m, !.by = by, !.upd = updating]
<1>1. PageTypes /\ poll[p][s] \in Poll /\ m \in Stamp /\ by \in Writers \cup {None} /\ updating \in BOOLEAN
  BY EditorTypes DEF PageTypes
<1>2. poll \in [Pages -> [Polls -> Poll]]
  BY <1>1 DEF PageTypes
<1>3. poll' = [poll EXCEPT ![p][s].at = "read", ![p][s].mtime = m, ![p][s].by = by, ![p][s].upd = updating]
  BY DEF AnswerPoll
<1> HIDE DEF m, by
<1>4. new \in Poll /\ new.at = "read" /\ new.mtime = m /\ new.by = by
  BY <1>1 DEF Poll
<1>5. poll' = [poll EXCEPT ![p][s] = new]
  BY <1>2, <1>3
<1> HIDE DEF new
<1>6. OnlyPoll(p, s) /\ poll'[p][s] = new
  BY <1>1, <1>4, <1>5, PollBecomes
<1> QED BY <1>4, <1>6 DEF m, by

LEMMA PollTaken ==
  ASSUME EInv, NEW p \in Pages, NEW s \in Polls, DropPoll(p, s) \/ pollStatus(p, s)
  PROVE  OnlyPoll(p, s) /\ poll'[p][s].at = "idle"
<1>1. PageTypes /\ poll' = [poll EXCEPT ![p][s] = NoPoll]
  BY EditorTypes DEF DropPoll, pollStatus
<1> QED BY <1>1, PollBecomes, NoPollType

(* Polls under way when a save ends are stale. *)
PollsStale(p) ==
  /\ poll' \in [Pages -> [Polls -> Poll]]
  /\ \A q \in Pages \ {p} : poll'[q] = poll[q]
  /\ \A s \in Polls :
       /\ poll'[p][s].at = poll[p][s].at
       /\ poll[p][s].at # "idle" =>
            poll'[p][s].mtime = poll[p][s].mtime /\ poll'[p][s].stale /\ poll'[p][s].by = poll[p][s].by

LEMMA SaveDonePolls ==
  ASSUME EInv, NEW p \in Pages, Ends(p)
  PROVE  PollsStale(p)
<1> DEFINE new(s) == IF poll[p][s].at = "idle" THEN NoPoll ELSE [poll[p][s] EXCEPT !.stale = TRUE]
<1>1. poll \in [Pages -> [Polls -> Poll]] /\ poll' = [poll EXCEPT ![p] = [s \in Polls |-> new(s)]]
  BY SaveDoneReceives, EditorTypes DEF SaveDone, PageTypes
<1>2. ASSUME NEW s \in Polls
      PROVE  /\ new(s) \in Poll /\ new(s).at = poll[p][s].at
             /\ poll[p][s].at # "idle" => new(s).mtime = poll[p][s].mtime /\ new(s).stale /\ new(s).by = poll[p][s].by
  <2>1. poll[p][s] \in Poll
    BY <1>1
  <2> QED BY <2>1, NoPollType DEF Poll
<1> HIDE DEF new
<1> QED BY <1>1, <1>2 DEF PollsStale

-----------------------------------------------------------------------------
(* Pages stay well typed, and know only what the files have held *)

PageKeeps(p) ==
  /\ OnlyPage(p) /\ page'[p].dom \subseteq made'
  /\ page'[p].base \in Known' \cup {None} /\ page'[p].conflictMtime \in Known' \cup {None}

PollsKeep ==
  /\ poll' \in [Pages -> [Polls -> Poll]]
  /\ \A q \in Pages, s \in Polls : poll'[q][s].at = "read" => poll'[q][s].mtime \in Known'

Grows == made \subseteq made' /\ Known \subseteq Known'

LEMMA PagesKeep ==
  ASSUME EInv, Grows, NEW p \in Pages, PageKeeps(p), PollsKeep, UNCHANGED updating
  PROVE  PageTypes' /\ PagesKnow'
<1>1. PageTypes'
  BY DEF EInv, PageTypes, PageKeeps, PollsKeep, OnlyPage
<1>2. ASSUME NEW q \in Pages
      PROVE  /\ page'[q].dom \subseteq made'
             /\ page'[q].base \in Known' \cup {None} /\ page'[q].conflictMtime \in Known' \cup {None}
  BY <1>2 DEF EInv, PagesKnow, PageKeeps, OnlyPage, Grows
<1> QED BY <1>1, <1>2 DEF PagesKnow, PollsKeep

LEMMA PollsStand == EInv /\ Grows /\ UNCHANGED poll => PollsKeep
<1> SUFFICES ASSUME EInv, Grows, UNCHANGED poll PROVE PollsKeep
  OBVIOUS
<1> QED BY DEF EInv, PageTypes, PagesKnow, PollsKeep, Grows

LEMMA OnePollKept ==
  ASSUME EInv, Grows, NEW p \in Pages, NEW s \in Polls, OnlyPoll(p, s),
         poll'[p][s].at = "read" => poll'[p][s].mtime \in Known
  PROVE  PollsKeep
<1>1. ASSUME NEW q \in Pages, NEW r \in Polls, poll'[q][r].at = "read" PROVE poll'[q][r].mtime \in Known'
  <2>1. CASE q = p /\ r = s
    BY <1>1, <2>1 DEF Grows
  <2>2. CASE q # p \/ r # s
    BY <1>1, <2>2 DEF OnlyPoll, EInv, PagesKnow, Grows
  <2> QED BY <2>1, <2>2
<1> QED BY <1>1 DEF PollsKeep, OnlyPoll

LEMMA StalePollsKept ==
  ASSUME EInv, Grows, NEW p \in Pages, PollsStale(p)
  PROVE  PollsKeep
<1>1. ASSUME NEW q \in Pages, NEW r \in Polls, poll'[q][r].at = "read" PROVE poll'[q][r].mtime \in Known'
  <2>1. poll[q][r].at = "read" /\ poll'[q][r].mtime = poll[q][r].mtime
    <3>1. CASE q = p
      BY <1>1, <3>1 DEF PollsStale
    <3>2. CASE q # p
      <4>1. poll'[q] = poll[q]
        BY <3>2 DEF PollsStale
      <4> QED BY <1>1, <4>1
    <3> QED BY <3>1, <3>2
  <2> QED BY <2>1 DEF EInv, PagesKnow, Grows
<1> QED BY <1>1 DEF PollsKeep, PollsStale

LEMMA PageUnmoved ==
  ASSUME EInv, Grows, NEW p \in Pages, OnlyPage(p), page'[p].dom = page[p].dom, page'[p].base = page[p].base,
         page'[p].conflictMtime = page[p].conflictMtime
  PROVE  PageKeeps(p)
BY DEF EInv, PagesKnow, PageKeeps, Grows

LEMMA PollStepKeeps ==
  ASSUME EInv, Grows, NEW p \in Pages, NEW s \in Polls, PollStep(p, s)
  PROVE  PageTypes' /\ PagesKnow'
<1>1. UNCHANGED updating
  BY DEF PollStep, SendPoll, AnswerPoll, DropPoll, pollStatus
<1>2. disk[current].mtime \in Known
  BY EditorTypes DEF EInv, ServerKnown
<1>3. PollsKeep
  <2>1. CASE SendPoll(p, s)
    BY <2>1, SendPollPoll, OnePollKept
  <2>2. CASE AnswerPoll(p, s)
    BY <1>2, <2>2, AnswerPollPoll, OnePollKept
  <2>3. CASE DropPoll(p, s) \/ pollStatus(p, s)
    BY <2>3, PollTaken, OnePollKept
  <2> QED BY <2>1, <2>2, <2>3 DEF PollStep
<1>4. PageKeeps(p)
  <2>1. CASE pollStatus(p, s)
    <3>1. /\ OnlyPage(p) /\ page'[p].dom = page[p].dom /\ page'[p].conflictMtime = page[p].conflictMtime
          /\ page'[p].base \in {poll[p][s].mtime, page[p].base}
      BY <2>1, PollPage
    <3>2. poll[p][s].mtime \in Known
      BY <2>1 DEF pollStatus, EInv, PagesKnow
    <3> QED BY <3>1, <3>2 DEF PageKeeps, EInv, PagesKnow, Grows
  <2>2. CASE UNCHANGED page
    BY <2>2, EditorTypes, PageUnmoved DEF OnlyPage
  <2> QED BY <2>1, <2>2 DEF PollStep, SendPoll, AnswerPoll, DropPoll
<1> QED BY <1>1, <1>3, <1>4, PagesKeep

LEMMA ApartKeeps ==
  ASSUME EInv, Grows, NEW p \in Pages, Apart(p)
  PROVE  PageTypes' /\ PagesKnow'
<1>1. disk[current].mtime \in Known /\ disk[current].marks \subseteq made
  BY EditorTypes DEF EInv, ServerKnown
<1>2. CASE \E s \in Polls : PollStep(p, s)
  BY <1>2, PollStepKeeps
<1>3. CASE ~\E s \in Polls : PollStep(p, s)
  <2>1. UNCHANGED <<poll, updating>>
    BY <1>3 DEF Apart, ReadStatus, StatusUnreachable, FrameLoads, Blur, KeepMine, reloadFromDisk, TimerFires,
                OrphanFires, SkipSave
  <2>2. PageKeeps(p)
    <3>1. CASE ReadStatus(p)
      BY <1>1, <3>1, ReadStatusPage DEF PageKeeps, SameFrame, SameNotice, EInv, PagesKnow, Grows
    <3>2. CASE FrameLoads(p)
      BY <1>1, <3>2, FrameLoadsPage DEF PageKeeps, SameBase, SameNotice, EInv, PagesKnow, Grows
    <3>3. CASE reloadFromDisk(p)
      BY <3>3, ReloadPage DEF PageKeeps, EInv, PagesKnow, Grows
    <3>4. CASE StatusUnreachable(p)
      BY <3>4, UnreachablePage, PageUnmoved DEF SameNotice
    <3>5. CASE Blur(p) \/ KeepMine(p) \/ TimerFires(p) \/ OrphanFires(p) \/ SkipSave(p)
      <4>1. Quiet(p)
        BY <3>5, BlurPage, KeepMinePage, TimerPage, OrphanPage, SkipPage
      <4> QED BY <4>1, PageUnmoved DEF Quiet, SameFrame, SameBase, SameNotice
    <3> QED BY <1>3, <3>1, <3>2, <3>3, <3>4, <3>5 DEF Apart
  <2> QED BY <2>1, <2>2, PollsStand, PagesKeep
<1> QED BY <1>2, <1>3

LEMMA EndsKeep ==
  ASSUME EInv, Grows, NEW p \in Pages, Ends(p)
  PROVE  PageTypes' /\ PagesKnow'
<1>1. PollsKeep /\ UNCHANGED updating
  BY SaveDonePolls, StalePollsKept, SaveDoneReceives DEF SaveDone
<1>2. CASE onSaveAccepted(p)
  <2>1. task[p].mtime \in Known
    BY <1>2 DEF onSaveAccepted, EInv, ServerKnown
  <2>2. PageKeeps(p)
    BY <1>2, <2>1, AcceptedPage DEF PageKeeps, EInv, PagesKnow, Grows
  <2> QED BY <1>1, <2>2, PagesKeep
<1>3. CASE onSaveConflict(p)
  <2>1. task[p].mtime \in Known
    BY <1>3 DEF onSaveConflict, EInv, ServerKnown
  <2>2. PageKeeps(p)
    BY <1>3, <2>1, ConflictPage DEF PageKeeps, SameFrame, SameBase, EInv, PagesKnow, Grows
  <2> QED BY <1>1, <2>2, PagesKeep
<1>4. CASE showSaveError(p)
  BY <1>1, <1>4, SaveErrorPage, PageUnmoved, PagesKeep DEF Quiet, SameFrame, SameBase, SameNotice
<1> QED BY <1>2, <1>3, <1>4 DEF Ends

LEMMA TypedKeeps ==
  ASSUME EInv, Grows, NEW p \in Pages, Edit(p) \/ StructuralEdit(p)
  PROVE  PageTypes' /\ PagesKnow'
<1>1. UNCHANGED <<poll, updating>>
  BY DEF Edit, StructuralEdit
<1>2. Typed(p)
  BY TypedPage
<1>3. PICK c \in Changes : made' = made \cup {c} /\ page'[p].dom = page[p].dom \cup {c}
  BY <1>2 DEF Typed, NewChange
<1>4. PageKeeps(p)
  BY <1>2, <1>3 DEF Typed, SameBase, SameNotice, PageKeeps, EInv, PagesKnow, Grows
<1> QED BY <1>1, <1>4, PollsStand, PagesKeep

LEMMA RunSaveKeeps ==
  ASSUME EInv, Grows, NEW p \in Pages, RunSave(p)
  PROVE  PageTypes' /\ PagesKnow'
<1>1. UNCHANGED <<poll, updating>>
  BY DEF RunSave
<1>2. PageKeeps(p)
  BY RunSavePage, PageUnmoved DEF SameFrame, SameBase, SameNotice
<1> QED BY <1>1, <1>2, PollsStand, PagesKeep

LEMMA StandingKeeps ==
  ASSUME EInv, Grows, UNCHANGED <<page, poll>>, updating' \in BOOLEAN \cup {updating}
  PROVE  PageTypes' /\ PagesKnow'
BY DEF EInv, PageTypes, PagesKnow, Grows

LEMMA EditorInit == Init => EInv
<1> SUFFICES ASSUME Init PROVE EInv
  OBVIOUS
<1>1. IInv /\ ServerInit
  BY InitInv DEF Init
<1>2. clock = 0 /\ current \in Files
  BY <1>1 DEF ServerInit
<1>3. ServerKnown
  BY <1>1, BornAssumption DEF ServerInit, ServerKnown, Known, NoTask, NoDraft
<1>4. NewPage \in Page
  <2>1. << >> \in Seq(BOOLEAN) /\ {} \in Content /\ None \in Stamp \cup {None} /\ TRUE \in BOOLEAN /\ FALSE \in BOOLEAN
    BY DEF Content
  <2> QED BY <2>1, Zenon DEF NewPage, Page
<1>5. NewPage.dom = {} /\ NewPage.base = None /\ NewPage.conflictMtime = None
  BY DEF NewPage
<1>6. PageTypes
  BY <1>4, NoPollType DEF Init, PageTypes
<1>7. PagesKnow
  BY <1>5, NoPollType DEF Init, PagesKnow
<1> QED BY <1>1, <1>3, <1>6, <1>7 DEF EInv

LEMMA EditorNextInv == EInv /\ [EditorNext]_vars => EInv'
<1> SUFFICES ASSUME EInv, [EditorNext]_vars PROVE EInv'
  OBVIOUS
<1>1. [Next]_serverVars
  BY EditorStepIsServerStep
<1>2. IInv' /\ ServerKnown'
  BY <1>1, NextInv, ServerStepKnown DEF EInv
<1>3. Grows
  BY <1>1, KnownNow DEF EInv, Grows
<1>4. PageTypes' /\ PagesKnow'
  <2>1. ASSUME NEW p \in Pages, Apart(p) \/ Edit(p) \/ StructuralEdit(p) \/ RunSave(p) \/ Ends(p)
        PROVE  PageTypes' /\ PagesKnow'
    BY <1>3, <2>1, ApartKeeps, TypedKeeps, RunSaveKeeps, EndsKeep
  <2>2. CASE UNCHANGED <<page, poll>> /\ updating' \in BOOLEAN \cup {updating}
    BY <1>3, <2>2, StandingKeeps
  <2>3. CASE UNCHANGED pageVars
    BY <1>3, <2>3, StandingKeeps DEF pageVars
  <2> QED BY <2>1, <2>2, <2>3, EditorSteps
<1> QED BY <1>2, <1>4 DEF EInv

(* The invariant of the page and its server, for any number of pages. *)
THEOREM EditorInvariance == EditorSpec => []EInv
BY EditorInit, EditorNextInv, PTL DEF EditorSpec

(* The page uses the endpoint as SaveServer allows any page to: all that is proved of the endpoint holds of *)
(* the endpoint the editor page calls.                                                                     *)
THEOREM PagesUseTheEndpoint == EditorSpec => Spec
<1>1. Init => ServerInit
  BY DEF Init
<1> QED BY <1>1, EditorInit, EditorNextInv, EditorStepIsServerStep, PTL DEF EditorSpec, Spec

(* Every state of the page, its polls and its server is well typed. *)
THEOREM PageTypeCorrect == EditorSpec => []PageTypeOK
<1>1. EInv => PageTypeOK
  BY DEF EInv, IInv, PageTypes, PageTypeOK
<1> QED BY <1>1, EditorInvariance, PTL

-----------------------------------------------------------------------------
(* The documents of the pages and the versions of the files *)

(* A version belongs to one file; those no write made are empty. *)
VersionsApart ==
  /\ \A f \in Files : disk[f].mtime <= clock
  /\ \A f, g \in Files : f # g /\ disk[f].mtime = disk[g].mtime => disk[f].marks = {}

(* The document of a page, and the one its save was cloned from, hold the version they come from; so *)
(* does the document once the save it was cloned for is done.                                      *)
Asking(p) == task[p].at \in {"posted", "admitted", "checked"}
Saved(p)  == task[p].at = "written" \/ (task[p].at = "answered" /\ task[p].status = 200)

ShowsTheFiles(p) ==
  /\ page[p].shown # None => page[p].shown <= clock
  /\ \A f \in Files : page[p].shown = disk[f].mtime => disk[f].marks \subseteq page[p].dom

SendsWhatItShows(p) ==
  Asking(p) /\ page[p].cloned =>
    /\ task[p].html \subseteq page[p].dom
    /\ \A f \in Files : page[p].shown = disk[f].mtime => disk[f].marks \subseteq task[p].html

SavedWhatItShows(p) ==
  Saved(p) /\ page[p].cloned =>
    /\ task[p].own <= clock
    /\ \A f \in Files : task[p].own = disk[f].mtime => disk[f].marks \subseteq page[p].dom

Holds(p) == ShowsTheFiles(p) /\ SendsWhatItShows(p) /\ SavedWhatItShows(p)

HInv == \A p \in Pages : Holds(p)

HAll == EInv /\ VersionsApart /\ HInv

(* A step of one page that writes no file concerns no other page. *)
Mine(p) ==
  /\ UNCHANGED <<disk, current>>
  /\ \A q \in Pages \ {p} :
       page'[q] = page[q] /\ task'[q] = task[q] /\ \A s \in Polls : poll'[q][s] = poll[q][s]

LEMMA OthersHold ==
  ASSUME HInv, NEW p \in Pages, UNCHANGED <<disk, clock>>, Holds(p)',
         \A q \in Pages \ {p} : page'[q] = page[q] /\ task'[q] = task[q]
  PROVE  HInv'
<1>1. ASSUME NEW q \in Pages \ {p} PROVE Holds(q)'
  <2>1. Holds(q) /\ page'[q] = page[q] /\ task'[q] = task[q]
    BY DEF HInv
  <2>2. ShowsTheFiles(q)'
    BY <2>1 DEF Holds, ShowsTheFiles
  <2>3. SendsWhatItShows(q)'
    BY <2>1 DEF Holds, SendsWhatItShows, Asking
  <2>4. SavedWhatItShows(q)'
    BY <2>1 DEF Holds, SavedWhatItShows, Saved
  <2> QED BY <2>2, <2>3, <2>4 DEF Holds
<1> QED BY <1>1 DEF HInv

(* A step that touches neither the document nor the version it comes from. *)
Keeps(p) ==
  /\ OnlyPage(p) /\ page'[p].dom = page[p].dom /\ page'[p].shown = page[p].shown /\ page'[p].cloned = page[p].cloned

LEMMA KeepsHolds ==
  ASSUME HAll, NEW p \in Pages, Keeps(p), UNCHANGED <<disk, clock>>, UNCHANGED task
  PROVE  HInv'
<1>1. Holds(p) /\ HInv
  BY DEF HAll, HInv
<1>2. ShowsTheFiles(p)'
  BY <1>1 DEF Keeps, Holds, ShowsTheFiles
<1>3. SendsWhatItShows(p)'
  BY <1>1 DEF Keeps, Holds, SendsWhatItShows, Asking
<1>4. SavedWhatItShows(p)'
  BY <1>1 DEF Keeps, Holds, SavedWhatItShows, Saved
<1> QED BY <1>1, <1>2, <1>3, <1>4, OthersHold DEF Holds, Keeps, OnlyPage

LEMMA ApartHolds ==
  ASSUME HAll, NEW p \in Pages, Apart(p), ~FrameLoads(p)
  PROVE  HInv'
<1>1. EInv /\ UNCHANGED <<disk, clock>> /\ UNCHANGED task
  BY ApartFromServer DEF HAll, serverVars
<1>2. Keeps(p)
  <2>1. CASE ReadStatus(p)
    BY <1>1, <2>1, ReadStatusPage DEF Keeps, SameFrame
  <2>2. CASE StatusUnreachable(p)
    BY <1>1, <2>2, UnreachablePage DEF Keeps
  <2>3. CASE Blur(p) \/ KeepMine(p) \/ TimerFires(p) \/ OrphanFires(p) \/ SkipSave(p)
    <3>1. Quiet(p)
      BY <1>1, <2>3, BlurPage, KeepMinePage, TimerPage, OrphanPage, SkipPage
    <3> QED BY <3>1 DEF Quiet, Keeps, SameFrame
  <2>4. CASE reloadFromDisk(p)
    BY <1>1, <2>4, ReloadPage DEF Keeps
  <2>5. ASSUME NEW s \in Polls, PollStep(p, s) PROVE Keeps(p)
    <3>1. CASE pollStatus(p, s)
      BY <1>1, <3>1, PollPage DEF Keeps
    <3>2. CASE UNCHANGED page
      BY <1>1, <3>2, EditorTypes DEF Keeps, OnlyPage
    <3> QED BY <2>5, <3>1, <3>2 DEF PollStep, SendPoll, AnswerPoll, DropPoll
  <2> QED BY <2>1, <2>2, <2>3, <2>4, <2>5 DEF Apart
<1> QED BY <1>1, <1>2, KeepsHolds

(* A frame shows what its file holds; what the save under way was cloned from is gone. *)
LEMMA FrameLoadsHolds ==
  ASSUME HAll, NEW p \in Pages, FrameLoads(p)
  PROVE  HInv'
<1>1. EInv /\ HInv /\ current \in Files /\ UNCHANGED <<disk, clock>> /\ UNCHANGED task
  BY EditorTypes DEF HAll, FrameLoads, serverVars
<1>2. OnlyPage(p) /\ ~page'[p].cloned /\ page'[p].dom = disk[current].marks /\ page'[p].shown = disk[current].mtime
  BY <1>1, FrameLoadsPage
<1>3. ASSUME NEW f \in Files, page'[p].shown = disk[f].mtime PROVE disk[f].marks \subseteq page'[p].dom
  BY <1>1, <1>2, <1>3 DEF HAll, VersionsApart
<1>4. page'[p].shown <= clock
  BY <1>1, <1>2 DEF HAll, VersionsApart
<1>5. Holds(p)'
  BY <1>1, <1>2, <1>3, <1>4 DEF Holds, ShowsTheFiles, SendsWhatItShows, SavedWhatItShows
<1> QED BY <1>1, <1>2, <1>5, OthersHold DEF OnlyPage

(* An edit adds to the document. *)
LEMMA TypedHolds ==
  ASSUME HAll, NEW p \in Pages, Edit(p) \/ StructuralEdit(p)
  PROVE  HInv'
<1>1. Holds(p) /\ HInv /\ EInv
  BY DEF HAll, HInv
<1>2. Typed(p)
  BY <1>1, TypedPage
<1>3. UNCHANGED <<disk, clock>> /\ UNCHANGED task /\ page[p].dom \subseteq page'[p].dom /\ OnlyPage(p)
      /\ page'[p].shown = page[p].shown /\ page'[p].cloned = page[p].cloned
  BY <1>2 DEF Typed, NewChange
<1>4. ShowsTheFiles(p)'
  BY <1>1, <1>3 DEF Holds, ShowsTheFiles
<1>5. SendsWhatItShows(p)'
  BY <1>1, <1>3 DEF Holds, SendsWhatItShows, Asking
<1>6. SavedWhatItShows(p)'
  BY <1>1, <1>3 DEF Holds, SavedWhatItShows, Saved
<1> QED BY <1>1, <1>3, <1>4, <1>5, <1>6, OthersHold DEF Holds, OnlyPage

(* A save is cloned from the document. *)
LEMMA RunSaveHolds ==
  ASSUME HAll, NEW p \in Pages, RunSave(p)
  PROVE  HInv'
<1>1. Holds(p) /\ HInv /\ EInv
  BY DEF HAll, HInv
<1>2. OnlyPage(p) /\ page'[p].dom = page[p].dom /\ page'[p].shown = page[p].shown
  BY <1>1, RunSavePage DEF SameFrame
<1>3. UNCHANGED <<disk, clock>> /\ task'[p].at = "posted" /\ task'[p].html = page[p].dom
      /\ \A q \in Pages \ {p} : task'[q] = task[q]
  <2>1. task \in [Pages -> Task]
    BY <1>1, EditorTypes DEF TypeOK
  <2> QED BY <2>1 DEF RunSave, Post, NoTask
<1>4. ShowsTheFiles(p)' /\ SendsWhatItShows(p)'
  BY <1>1, <1>2, <1>3 DEF Holds, ShowsTheFiles, SendsWhatItShows
<1>5. SavedWhatItShows(p)'
  BY <1>3 DEF SavedWhatItShows, Saved
<1> QED BY <1>1, <1>2, <1>3, <1>4, <1>5, OthersHold DEF Holds, OnlyPage

(* An accepted save makes its version the one the document comes from. *)
LEMMA EndsHold ==
  ASSUME HAll, NEW p \in Pages, Ends(p)
  PROVE  HInv'
<1>1. Holds(p) /\ HInv /\ EInv
  BY DEF HAll, HInv
<1>2. UNCHANGED <<disk, clock>>
  BY SaveDoneReceives DEF SaveDone
<1>3. task'[p].at = "idle" /\ \A q \in Pages \ {p} : task'[q] = task[q]
  <2>1. task \in [Pages -> Task]
    BY <1>1, EditorTypes DEF TypeOK
  <2> QED BY <2>1, SaveDoneReceives DEF SaveDone, NoTask
<1>4. OnlyPage(p) /\ ShowsTheFiles(p)'
  <2>1. CASE onSaveAccepted(p)
    <3>1. /\ OnlyPage(p) /\ page'[p].dom = page[p].dom
          /\ page'[p].shown = (IF page[p].cloned THEN task[p].own ELSE page[p].shown)
      BY <1>1, <2>1, AcceptedPage
    <3>2. Saved(p)
      BY <2>1 DEF onSaveAccepted, Saved
    <3>3. CASE page[p].cloned
      BY <1>1, <1>2, <3>1, <3>2, <3>3 DEF Holds, SavedWhatItShows, ShowsTheFiles
    <3>4. CASE ~page[p].cloned
      BY <1>1, <1>2, <3>1, <3>4 DEF Holds, ShowsTheFiles
    <3> QED BY <3>1, <3>3, <3>4
  <2>2. CASE onSaveConflict(p) \/ showSaveError(p)
    <3>1. OnlyPage(p) /\ SameFrame(page'[p], page[p])
      BY <1>1, <2>2, ConflictPage, SaveErrorPage DEF Quiet
    <3> QED BY <1>1, <1>2, <3>1 DEF Holds, ShowsTheFiles, SameFrame
  <2> QED BY <2>1, <2>2 DEF Ends
<1>5. SendsWhatItShows(p)' /\ SavedWhatItShows(p)'
  BY <1>3 DEF SendsWhatItShows, SavedWhatItShows, Asking, Saved
<1> QED BY <1>1, <1>2, <1>3, <1>4, <1>5, OthersHold DEF Holds, OnlyPage

(* A new version is newer than all there were: no document comes from it but its own. *)
LEMMA VersionsGrow ==
  ASSUME EInv, VersionsApart, NEW f \in Files, NEW marks, NEW by, WriteFile(f, marks, by)
  PROVE  /\ VersionsApart' /\ clock' = clock + 1 /\ clock \in Nat
         /\ disk'[f].mtime = clock + 1 /\ disk'[f].marks = marks
         /\ \A g \in Files \ {f} : disk'[g] = disk[g]
         /\ \A g \in Files : disk[g].mtime \in Int /\ disk[g].mtime <= clock
<1>1. disk \in [Files -> [marks : Content, mtime : Int, by : Writers \cup {None}, ever : Content]] /\ clock \in Nat
  BY DEF EInv, IInv, TypeOK, Stamp
<1>2. \A g \in Files : disk[g].mtime \in Int /\ disk[g].mtime <= clock
  BY <1>1 DEF VersionsApart
<1>3. /\ clock' = clock + 1 /\ disk'[f].mtime = clock + 1 /\ disk'[f].marks = marks
      /\ \A g \in Files \ {f} : disk'[g] = disk[g]
  BY <1>1 DEF WriteFile
<1>4. VersionsApart'
  <2>1. \A g \in Files : disk'[g].mtime <= clock'
    BY <1>1, <1>2, <1>3
  <2>2. ASSUME NEW g \in Files, NEW h \in Files, g # h, disk'[g].mtime = disk'[h].mtime PROVE disk'[g].marks = {}
    <3>1. CASE g = f \/ h = f
      BY <1>1, <1>2, <1>3, <2>2, <3>1
    <3>2. CASE g # f /\ h # f
      BY <1>3, <2>2, <3>2 DEF VersionsApart
    <3> QED BY <3>1, <3>2
  <2> QED BY <2>1, <2>2 DEF VersionsApart
<1> QED BY <1>1, <1>2, <1>3, <1>4

LEMMA OlderHolds ==
  ASSUME HAll, NEW f \in Files, NEW marks, NEW by, WriteFile(f, marks, by), NEW q \in Pages,
         page'[q] = page[q], SameTask(task'[q], task[q])
  PROVE  Holds(q)'
<1>1. EInv /\ Holds(q) /\ VersionsApart
  BY DEF HAll, HInv
<1>2. /\ clock' = clock + 1 /\ clock \in Nat /\ disk'[f].mtime = clock + 1
      /\ \A g \in Files \ {f} : disk'[g] = disk[g]
  BY <1>1, VersionsGrow
<1>3. page[q].shown \in Int \cup {None} /\ task[q].own \in Int /\ None \notin Int
  BY <1>1, EditorTypes, NoneAssumption DEF Page, Task, Stamp
<1>4. page[q].shown # clock + 1
  BY <1>1, <1>2, <1>3 DEF Holds, ShowsTheFiles
<1>5. ShowsTheFiles(q)'
  <2>1. page'[q].shown # None => page'[q].shown <= clock'
    BY <1>1, <1>2, <1>3 DEF Holds, ShowsTheFiles
  <2>2. ASSUME NEW g \in Files, page'[q].shown = disk'[g].mtime PROVE disk'[g].marks \subseteq page'[q].dom
    BY <1>1, <1>2, <1>4, <2>2 DEF Holds, ShowsTheFiles
  <2> QED BY <2>1, <2>2 DEF ShowsTheFiles
<1>6. SendsWhatItShows(q)'
  <2>1. SUFFICES ASSUME Asking(q)', page'[q].cloned PROVE SendsWhatItShows(q)'
    BY DEF SendsWhatItShows
  <2>2. Asking(q) /\ page[q].cloned /\ task'[q].html = task[q].html
    BY <2>1 DEF Asking, SameTask, Asks
  <2>3. ASSUME NEW g \in Files, page'[q].shown = disk'[g].mtime PROVE disk'[g].marks \subseteq task'[q].html
    BY <1>1, <1>2, <1>4, <2>2, <2>3 DEF Holds, SendsWhatItShows
  <2> QED BY <1>1, <2>2, <2>3 DEF Holds, SendsWhatItShows
<1>7. SavedWhatItShows(q)'
  <2>1. SUFFICES ASSUME Saved(q)', page'[q].cloned PROVE SavedWhatItShows(q)'
    BY DEF SavedWhatItShows
  <2>2. Saved(q) /\ page[q].cloned /\ task'[q].own = task[q].own
    BY <2>1 DEF Saved, SameTask
  <2>3. task[q].own <= clock
    BY <1>1, <2>2 DEF Holds, SavedWhatItShows
  <2>4. task[q].own # clock + 1 /\ task'[q].own <= clock'
    BY <1>2, <1>3, <2>2, <2>3
  <2>5. ASSUME NEW g \in Files, task'[q].own = disk'[g].mtime PROVE disk'[g].marks \subseteq page'[q].dom
    BY <1>1, <1>2, <2>2, <2>4, <2>5 DEF Holds, SavedWhatItShows
  <2> QED BY <2>4, <2>5 DEF SavedWhatItShows
<1> QED BY <1>5, <1>6, <1>7 DEF Holds

LEMMA HandlerHolds ==
  ASSUME HAll, NEW p \in Pages, HandlerStep(p), UNCHANGED pageVars
  PROVE  HInv' /\ VersionsApart'
<1>1. Holds(p) /\ HInv /\ EInv /\ IInv /\ VersionsApart
  BY DEF HAll, HInv, EInv
<1>2. OnlyTask(p) /\ (Admits(p) \/ Errs(p) \/ Refuses(p) \/ Passes(p) \/ Puts(p) \/ Answers(p))
  BY <1>1, HandlerTask
<1>3. UNCHANGED page
  BY DEF pageVars
<1>4. CASE Puts(p) /\ WriteFile(task[p].file, task[p].html, p)
  <2> DEFINE f == task[p].file
             html == task[p].html
  <2>1. f \in Files /\ task[p].at = "checked" /\ task'[p].at = "written" /\ task'[p].own = disk'[f].mtime
    BY <1>4 DEF Puts
  <2>2. WriteFile(f, html, p)
    BY <1>4
  <2> HIDE DEF f, html
  <2>3. /\ VersionsApart' /\ clock' = clock + 1 /\ clock \in Nat /\ disk'[f].mtime = clock + 1 /\ disk'[f].marks = html
        /\ \A g \in Files \ {f} : disk'[g] = disk[g]
        /\ \A g \in Files : disk[g].mtime \in Int /\ disk[g].mtime <= clock
    BY <1>1, <2>1, <2>2, VersionsGrow
  <2>4. ASSUME NEW q \in Pages \ {p} PROVE Holds(q)'
    <3>1. page'[q] = page[q] /\ SameTask(task'[q], task[q])
      BY <1>2, <1>3 DEF OnlyTask, SameTask, Asks
    <3> QED BY <2>1, <2>2, <3>1, OlderHolds
  <2>5. Holds(p)'
    <3>1. page[p].shown \in Int \cup {None} /\ None \notin Int
      BY <1>1, EditorTypes, NoneAssumption DEF Page, Stamp
    <3>2. page[p].shown # clock + 1
      BY <1>1, <2>3, <3>1 DEF Holds, ShowsTheFiles
    <3>3. ShowsTheFiles(p)'
      <4>1. page'[p].shown # None => page'[p].shown <= clock'
        BY <1>1, <1>3, <2>3, <3>1 DEF Holds, ShowsTheFiles
      <4>2. ASSUME NEW g \in Files, page'[p].shown = disk'[g].mtime PROVE disk'[g].marks \subseteq page'[p].dom
        BY <1>1, <1>3, <2>3, <3>2, <4>2 DEF Holds, ShowsTheFiles
      <4> QED BY <4>1, <4>2 DEF ShowsTheFiles
    <3>4. SendsWhatItShows(p)'
      BY <2>1 DEF SendsWhatItShows, Asking
    <3>5. SavedWhatItShows(p)'
      <4>1. SUFFICES ASSUME page[p].cloned PROVE SavedWhatItShows(p)'
        BY <1>3 DEF SavedWhatItShows
      <4>2. html \subseteq page[p].dom
        BY <1>1, <2>1, <4>1 DEF Holds, SendsWhatItShows, Asking, html
      <4>3. task'[p].own = clock + 1 /\ task'[p].own <= clock'
        BY <2>1, <2>3
      <4>4. ASSUME NEW g \in Files, task'[p].own = disk'[g].mtime PROVE disk'[g].marks \subseteq page'[p].dom
        <5>1. CASE g = f
          BY <1>3, <2>3, <4>2, <5>1
        <5>2. CASE g # f
          BY <2>3, <4>3, <4>4, <5>2
        <5> QED BY <5>1, <5>2
      <4> QED BY <4>3, <4>4 DEF SavedWhatItShows
    <3> QED BY <3>3, <3>4, <3>5 DEF Holds
  <2> QED BY <2>3, <2>4, <2>5 DEF HInv
<1>5. CASE UNCHANGED <<disk, clock>>
  <2>1. VersionsApart' /\ ShowsTheFiles(p)'
    BY <1>1, <1>3, <1>5 DEF VersionsApart, Holds, ShowsTheFiles
  <2>2. SendsWhatItShows(p)'
    <3>1. Asking(p)' => Asking(p) /\ task'[p].html = task[p].html
      BY <1>2 DEF Asking, Asks, Admits, Errs, Refuses, Passes, Puts, Answers
    <3> QED BY <1>1, <1>3, <1>5, <3>1 DEF Holds, SendsWhatItShows
  <2>3. SavedWhatItShows(p)'
    <3>1. SUFFICES ASSUME Saved(p)', page[p].cloned PROVE SavedWhatItShows(p)'
      BY <1>3 DEF SavedWhatItShows
    <3>2. Puts(p) \/ Answers(p)
      BY <1>2, <3>1 DEF Saved, Admits, Errs, Refuses, Passes
    <3>3. CASE Answers(p)
      <4>1. Saved(p) /\ task'[p].own = task[p].own
        BY <3>3 DEF Answers, Saved
      <4> QED BY <1>1, <1>3, <1>5, <3>1, <4>1 DEF Holds, SavedWhatItShows
    <3>4. CASE Puts(p)
      <4> DEFINE f == task[p].file
      <4>1. f \in Files /\ task[p].at = "checked" /\ task'[p].own = disk[f].mtime
        BY <1>5, <3>4 DEF Puts
      <4>2. disk[f].marks \subseteq page[p].dom
        <5>1. task[p].html \subseteq page[p].dom
          BY <1>1, <3>1, <4>1 DEF Holds, SendsWhatItShows, Asking
        <5>2. CASE SameBytes(p)
          BY <5>1, <5>2 DEF SameBytes
        <5>3. CASE WriteFile(task[p].file, task[p].html, p)
          <6>1. clock' = clock + 1 /\ clock \in Nat
            BY <1>1, <4>1, <5>3, VersionsGrow
          <6> QED BY <1>5, <6>1
        <5> QED BY <3>4, <5>2, <5>3 DEF Puts
      <4> HIDE DEF f
      <4>3. ASSUME NEW g \in Files, task'[p].own = disk[g].mtime PROVE disk[g].marks \subseteq page[p].dom
        BY <1>1, <4>1, <4>2, <4>3 DEF VersionsApart
      <4>4. task'[p].own <= clock
        BY <1>1, <4>1 DEF VersionsApart
      <4> QED BY <1>3, <1>5, <4>3, <4>4 DEF SavedWhatItShows
    <3> QED BY <3>2, <3>3, <3>4
  <2>4. Holds(p)'
    BY <2>1, <2>2, <2>3 DEF Holds
  <2> QED BY <1>1, <1>2, <1>3, <1>5, <2>1, <2>4, OthersHold DEF OnlyTask
<1> QED BY <1>2, <1>4, <1>5 DEF Admits, Errs, Refuses, Passes, Puts, Answers

LEMMA AgentHolds ==
  ASSUME HAll, NEW a \in Agents, AgentStep(a), UNCHANGED pageVars
  PROVE  HInv' /\ VersionsApart'
<1>1. HInv /\ EInv /\ IInv /\ VersionsApart /\ UNCHANGED page
  BY DEF HAll, EInv, pageVars
<1>2. UNCHANGED <<disk, clock, made, task>> \/ AgentPuts(a)
  BY <1>1, AgentTask
<1>3. CASE AgentPuts(a)
  <2>1. PICK c \in AgentEdits : WriteFile(draft[a].file, draft[a].marks \cup {c}, a)
    BY <1>3 DEF AgentPuts
  <2> DEFINE f == draft[a].file
             marks == draft[a].marks \cup {c}
  <2>2. WriteFile(f, marks, a) /\ f \in Files /\ \A q \in Pages : SameTask(task'[q], task[q])
    BY <1>3, <2>1 DEF AgentPuts
  <2> HIDE DEF f, marks
  <2>3. VersionsApart'
    BY <1>1, <2>2, VersionsGrow
  <2>4. ASSUME NEW q \in Pages PROVE Holds(q)'
    <3>1. page'[q] = page[q] /\ SameTask(task'[q], task[q])
      BY <1>1, <2>2
    <3> QED BY <2>2, <3>1, OlderHolds
  <2> QED BY <2>3, <2>4 DEF HInv
<1>4. CASE UNCHANGED <<disk, clock, made, task>>
  BY <1>1, <1>4 DEF HInv, VersionsApart, Holds, ShowsTheFiles, SendsWhatItShows, SavedWhatItShows, Asking, Saved
<1> QED BY <1>2, <1>3, <1>4

LEMMA HoldsNextInv == HAll /\ [EditorNext]_vars => HAll'
<1> SUFFICES ASSUME HAll, [EditorNext]_vars PROVE HAll'
  OBVIOUS
<1>1. EInv /\ EInv'
  BY EditorNextInv DEF HAll
<1>2. ASSUME UNCHANGED <<disk, clock>> PROVE VersionsApart'
  BY <1>2 DEF HAll, VersionsApart
<1>3. ASSUME NEW p \in Pages, Apart(p) PROVE HInv' /\ VersionsApart'
  <2>1. UNCHANGED <<disk, clock>>
    BY <1>3, ApartFromServer DEF serverVars
  <2> QED BY <1>2, <1>3, <2>1, ApartHolds, FrameLoadsHolds
<1>4. ASSUME NEW p \in Pages, Edit(p) \/ StructuralEdit(p) PROVE HInv' /\ VersionsApart'
  <2>1. UNCHANGED <<disk, clock>>
    BY <1>4 DEF Edit, StructuralEdit, NewChange
  <2> QED BY <1>2, <1>4, <2>1, TypedHolds
<1>5. ASSUME NEW p \in Pages, RunSave(p) PROVE HInv' /\ VersionsApart'
  BY <1>2, <1>5, RunSaveHolds DEF RunSave
<1>6. ASSUME NEW p \in Pages, Ends(p) PROVE HInv' /\ VersionsApart'
  <2>1. UNCHANGED <<disk, clock>>
    BY <1>6, SaveDoneReceives DEF SaveDone
  <2> QED BY <1>2, <1>6, <2>1, EndsHold
<1>7. ASSUME UNCHANGED <<disk, clock, task, page>> PROVE HInv' /\ VersionsApart'
  BY <1>2, <1>7 DEF HAll, HInv, Holds, ShowsTheFiles, SendsWhatItShows, SavedWhatItShows, Asking, Saved
<1>8. ASSUME ServerStep, UNCHANGED pageVars PROVE HInv' /\ VersionsApart'
  <2>1. ASSUME NEW f \in Files, OpenFile(f) PROVE HInv' /\ VersionsApart'
    BY <1>7, <1>8, <2>1 DEF OpenFile, pageVars
  <2> QED BY <1>8, <2>1, HandlerHolds, AgentHolds DEF ServerStep
<1>9. HInv' /\ VersionsApart'
  BY <1>3, <1>4, <1>5, <1>6, <1>7, <1>8, EditorSteps DEF serverVars
<1> QED BY <1>1, <1>9 DEF HAll

LEMMA HoldsInit == Init => HAll
<1> SUFFICES ASSUME Init PROVE HAll
  OBVIOUS
<1>1. EInv
  BY EditorInit
<1>2. \A f \in Files : disk[f].marks = {} /\ disk[f].mtime = -Born[f] /\ clock = 0 /\ Born[f] \in Nat
  BY BornAssumption DEF Init, ServerInit
<1>3. VersionsApart
  BY <1>2 DEF VersionsApart
<1>4. ASSUME NEW p \in Pages PROVE Holds(p)
  <2>1. page[p] = NewPage /\ task[p] = NoTask
    BY DEF Init, ServerInit
  <2>2. page[p].shown = None /\ ~Asking(p) /\ ~Saved(p)
    BY <2>1 DEF NewPage, NoTask, Asking, Saved
  <2> QED BY <1>2, <2>2 DEF Holds, ShowsTheFiles, SendsWhatItShows, SavedWhatItShows
<1> QED BY <1>1, <1>3, <1>4 DEF HAll, HInv

(* However frames load, saves end, agents write and the server is told to serve another file, a document *)
(* that comes from the version a file has holds every change of the file: the mtime check_conflict       *)
(* compares stands for the content.                                                                      *)
THEOREM DocumentsHoldTheirVersion == EditorSpec => []ShownIsHeld
<1>1. HAll => ShownIsHeld
  BY DEF HAll, HInv, Holds, ShowsTheFiles, ShownIsHeld
<1> QED BY <1>1, HoldsInit, HoldsNextInv, PTL DEF EditorSpec

(* A save that nobody forced, checked against the version its document comes from, removes nothing. *)
LEMMA PutKeepsChanges ==
  ASSUME HAll, NEW p \in Pages, Puts(p), ~task[p].force, ~task[p].touched, NamesItsVersion(p), NEW f \in Files
  PROVE  disk[f].marks \subseteq disk'[f].marks
<1>1. EInv /\ IInv /\ Holds(p) /\ VersionsApart /\ task[p].at = "checked" /\ task[p].file \in Files
  BY DEF HAll, HInv, EInv, Puts
<1>2. ~Conflicts(p, task[p].file)
  BY <1>1 DEF IInv, CheckStillHolds
<1>3. disk[task[p].file].mtime = page[p].shown /\ page[p].cloned
  BY <1>2 DEF Conflicts, NamesItsVersion
<1>4. disk[task[p].file].marks \subseteq task[p].html
  BY <1>1, <1>3 DEF Holds, SendsWhatItShows, Asking
<1>5. CASE UNCHANGED disk
  BY <1>5
<1>6. CASE WriteFile(task[p].file, task[p].html, p)
  <2>1. disk'[task[p].file].marks = task[p].html /\ \A g \in Files \ {task[p].file} : disk'[g] = disk[g]
    BY <1>1, <1>6, VersionsGrow
  <2> QED BY <1>4, <2>1
<1> QED BY <1>5, <1>6 DEF Puts

LEMMA OnlyPutsWrite ==
  ASSUME EInv, [EditorNext]_vars, NEW p \in Pages, task[p].at = "checked", task'[p].at = "written"
  PROVE  Puts(p)
<1>1. IInv /\ task \in [Pages -> Task]
  BY DEF EInv, IInv, TypeOK
<1>2. ASSUME NEW q \in Pages, Apart(q) PROVE FALSE
  BY <1>2, ApartFromServer DEF serverVars
<1>3. ASSUME NEW q \in Pages, Edit(q) \/ StructuralEdit(q) PROVE FALSE
  BY <1>3 DEF Edit, StructuralEdit, NewChange
<1>4. ASSUME NEW q \in Pages, RunSave(q) PROVE FALSE
  BY <1>1, <1>4 DEF RunSave, Post, NoTask
<1>5. ASSUME NEW q \in Pages, Ends(q) PROVE FALSE
  BY <1>1, <1>5, SaveDoneReceives DEF SaveDone, NoTask
<1>6. ASSUME NEW q \in Pages, HandlerStep(q) PROVE Puts(p)
  <2>1. OnlyTask(q) /\ (Admits(q) \/ Errs(q) \/ Refuses(q) \/ Passes(q) \/ Puts(q) \/ Answers(q))
    BY <1>1, <1>6, HandlerTask
  <2>2. q = p
    BY <2>1 DEF OnlyTask
  <2> QED BY <2>1, <2>2 DEF Admits, Errs, Refuses, Passes, Answers
<1>7. ASSUME NEW a \in Agents, AgentStep(a) PROVE FALSE
  BY <1>1, <1>7, AgentTask DEF AgentPuts, SameTask
<1>8. ASSUME NEW f \in Files, OpenFile(f) PROVE FALSE
  BY <1>8 DEF OpenFile
<1>9. ASSUME UNCHANGED serverVars PROVE FALSE
  BY <1>9 DEF serverVars
<1> QED BY <1>2, <1>3, <1>4, <1>5, <1>6, <1>7, <1>8, <1>9, EditorSteps DEF ServerStep

(* The promise of check_conflict, for every behaviour of the page: an unforced save that names the version its *)
(* document comes from removes no change from any file, unless an agent wrote after its check.                 *)
THEOREM NamedVersionsKept == EditorSpec => NamedVersionsAreKept
<1> DEFINE Kept == \A p \in Pages :
             (task[p].at = "checked" /\ task'[p].at = "written" /\ ~task[p].force /\ ~task[p].touched
                /\ NamesItsVersion(p))
               => \A f \in Files : disk[f].marks \subseteq disk'[f].marks
<1>1. HAll /\ [EditorNext]_vars => Kept
  BY OnlyPutsWrite, PutKeepsChanges DEF HAll
<1>2. HAll /\ [EditorNext]_vars => [Kept]_vars
  BY <1>1
<1> HIDE DEF Kept
<1>3. EditorSpec => [][Kept]_vars
  BY <1>2, HoldsInit, HoldsNextInv, PTL DEF EditorSpec
<1> QED BY <1>3 DEF Kept, NamedVersionsAreKept

-----------------------------------------------------------------------------
(* A page and the versions it wrote itself *)

SAll == EInv /\ SInv

LEMMA OthersKnow ==
  ASSUME SInv, NEW p \in Pages, Mine(p), Knows(p)'
  PROVE  SInv'
<1>1. ASSUME NEW q \in Pages \ {p} PROVE Knows(q)'
  <2>1. Knows(q)
    BY DEF SInv
  <2>2. UNCHANGED <<disk, current>> /\ page'[q] = page[q] /\ task'[q] = task[q] /\ \A s \in Polls : poll'[q][s] = poll[q][s]
    BY DEF Mine
  <2> QED BY <2>1, <2>2 DEF Knows, OwnVersionKnown, PollFresh
<1> QED BY <1>1 DEF SInv

(* A page that still holds its own version as base, and saves and polls nothing, still knows it. *)
LEMMA SameBaseKnows ==
  ASSUME SAll, NEW p \in Pages, OnlyPage(p), UNCHANGED <<disk, current>>, UNCHANGED <<task, poll>>,
         SameBase(page'[p], page[p]), SameNotice(page'[p], page[p])
  PROVE  SInv'
<1>1. Knows(p) /\ SInv
  BY DEF SAll, SInv
<1>2. Mine(p)
  BY DEF Mine, OnlyPage
<1>3. OwnVersionKnown(p)'
  BY <1>1 DEF Knows, OwnVersionKnown, SameBase, SameNotice
<1>4. ASSUME NEW s \in Polls PROVE PollFresh(p, s)'
  BY <1>1 DEF Knows, PollFresh
<1> QED BY <1>1, <1>2, <1>3, <1>4, OthersKnow DEF Knows

LEMMA ReadStatusKnows ==
  ASSUME SAll, NEW p \in Pages, ReadStatus(p)
  PROVE  SInv'
<1>1. Knows(p) /\ SInv /\ EInv
  BY DEF SAll, SInv
<1>2. UNCHANGED <<disk, current>> /\ UNCHANGED <<task, poll>>
  BY DEF ReadStatus, serverVars
<1>3. /\ OnlyPage(p) /\ page'[p].base = disk[current].mtime /\ page'[p].last = disk[current].mtime
      /\ SameNotice(page'[p], page[p])
  BY <1>1, ReadStatusPage
<1>4. Mine(p)
  BY <1>2, <1>3 DEF Mine, OnlyPage
<1>5. OwnVersionKnown(p)'
  BY <1>1, <1>2, <1>3 DEF Knows, OwnVersionKnown, SameNotice
<1>6. ASSUME NEW s \in Polls PROVE PollFresh(p, s)'
  BY <1>1, <1>2 DEF Knows, PollFresh
<1> QED BY <1>1, <1>4, <1>5, <1>6, OthersKnow DEF Knows

LEMMA ReloadKnows ==
  ASSUME SAll, NEW p \in Pages, reloadFromDisk(p)
  PROVE  SInv'
<1>1. Knows(p) /\ SInv /\ EInv
  BY DEF SAll, SInv
<1>2. UNCHANGED <<disk, current>> /\ UNCHANGED <<task, poll>> /\ page[p].conflict
  BY DEF reloadFromDisk, serverVars
<1>3. Mine(p)
  BY <1>1, <1>2, ReloadPage DEF Mine, OnlyPage
<1>4. OwnVersionKnown(p)'
  BY <1>1, <1>2 DEF Knows, OwnVersionKnown
<1>5. ASSUME NEW s \in Polls PROVE PollFresh(p, s)'
  BY <1>1, <1>2 DEF Knows, PollFresh
<1> QED BY <1>1, <1>3, <1>4, <1>5, OthersKnow DEF Knows

LEMMA RunSaveKnows ==
  ASSUME SAll, NEW p \in Pages, RunSave(p)
  PROVE  SInv'
<1>1. Knows(p) /\ SInv /\ EInv
  BY DEF SAll, SInv
<1>2. UNCHANGED <<disk, current>> /\ UNCHANGED poll /\ task[p].at = "idle"
  BY DEF RunSave, Post
<1>3. OnlyPage(p) /\ SameBase(page'[p], page[p]) /\ SameNotice(page'[p], page[p])
  BY <1>1, RunSavePage
<1>4. task'[p].at = "posted" /\ task'[p].base = page[p].base /\ \A q \in Pages \ {p} : task'[q] = task[q]
  <2>1. task \in [Pages -> Task]
    BY <1>1, EditorTypes DEF TypeOK
  <2> QED BY <2>1 DEF RunSave, Post, NoTask
<1>5. Mine(p)
  BY <1>2, <1>3, <1>4 DEF Mine, OnlyPage
<1>6. OwnVersionKnown(p)'
  BY <1>1, <1>2, <1>3, <1>4 DEF Knows, OwnVersionKnown, SameBase, SameNotice
<1>7. ASSUME NEW s \in Polls PROVE PollFresh(p, s)'
  BY <1>4 DEF PollFresh
<1> QED BY <1>1, <1>5, <1>6, <1>7, OthersKnow DEF Knows

LEMMA EndsKnow ==
  ASSUME Candid, SAll, NEW p \in Pages, Ends(p)
  PROVE  SInv'
<1>1. Knows(p) /\ SInv /\ EInv
  BY DEF SAll, SInv
<1>2. UNCHANGED <<disk, current>> /\ PollsStale(p)
  BY <1>1, SaveDoneReceives, SaveDonePolls DEF SaveDone
<1>3. task'[p].at = "idle" /\ \A q \in Pages \ {p} : task'[q] = task[q]
  <2>1. task \in [Pages -> Task]
    BY <1>1, EditorTypes DEF TypeOK
  <2> QED BY <2>1, SaveDoneReceives DEF SaveDone, NoTask
<1>4. ASSUME NEW s \in Polls PROVE PollFresh(p, s)'
  BY <1>2 DEF PollFresh, PollsStale
<1>5. OnlyPage(p) /\ OwnVersionKnown(p)'
  <2>1. CASE onSaveAccepted(p)
    <3>1. task[p].at = "answered" /\ task[p].status = 200
      BY <2>1 DEF onSaveAccepted
    <3>2. OnlyPage(p) /\ page'[p].base = task[p].mtime /\ page'[p].last = task[p].mtime /\ ~page'[p].conflict
      BY <1>1, <2>1, AcceptedPage
    <3> QED BY <1>1, <1>2, <1>3, <3>1, <3>2 DEF Knows, OwnVersionKnown
  <2>2. CASE onSaveConflict(p)
    <3>1. task[p].at = "answered" /\ task[p].status = 409
      BY <2>2 DEF onSaveConflict
    <3>2. OnlyPage(p)
      BY <1>1, <2>2, ConflictPage
    <3> QED BY <1>1, <1>2, <1>3, <3>1, <3>2 DEF Knows, OwnVersionKnown
  <2>3. CASE showSaveError(p)
    <3>1. task[p].at = "answered" /\ task[p].status \in {403, 500}
      BY <2>3 DEF showSaveError, Candid
    <3>2. Quiet(p)
      BY <1>1, <2>3, SaveErrorPage
    <3> QED BY <1>1, <1>2, <1>3, <3>1, <3>2 DEF Knows, OwnVersionKnown, Quiet, SameBase, SameNotice
  <2> QED BY <2>1, <2>2, <2>3 DEF Ends
<1>6. Mine(p)
  BY <1>2, <1>3, <1>5 DEF Mine, OnlyPage, PollsStale
<1> QED BY <1>1, <1>4, <1>5, <1>6, OthersKnow DEF Knows

(* A poll that was answered since the page's last save names its own version by the mtime it has. *)
LEMMA PollKnows ==
  ASSUME SAll, NEW p \in Pages, NEW s \in Polls, PollStep(p, s)
  PROVE  SInv'
<1>1. Knows(p) /\ SInv /\ EInv
  BY DEF SAll, SInv
<1>2. UNCHANGED <<disk, current>> /\ UNCHANGED task
  BY DEF PollStep, SendPoll, AnswerPoll, DropPoll, pollStatus, serverVars
<1>3. OnlyPoll(p, s) /\ (poll'[p][s].at = "read" => poll'[p][s].mtime = disk[current].mtime)
  <2>1. CASE SendPoll(p, s)
    BY <1>1, <2>1, SendPollPoll
  <2>2. CASE AnswerPoll(p, s)
    BY <1>1, <2>2, AnswerPollPoll
  <2>3. CASE DropPoll(p, s) \/ pollStatus(p, s)
    BY <1>1, <2>3, PollTaken
  <2> QED BY <2>1, <2>2, <2>3 DEF PollStep
<1>4. ASSUME NEW r \in Polls PROVE PollFresh(p, r)'
  <2>1. CASE r = s
    BY <1>2, <1>3, <2>1 DEF PollFresh
  <2>2. CASE r # s
    <3>1. poll'[p][r] = poll[p][r]
      BY <1>3, <2>2 DEF OnlyPoll
    <3> QED BY <1>1, <1>2, <3>1 DEF Knows, PollFresh
  <2> QED BY <2>1, <2>2
<1>5. OnlyPage(p) /\ OwnVersionKnown(p)'
  <2>1. CASE pollStatus(p, s)
    <3>1. poll[p][s].at = "read" /\ ~poll[p][s].stale /\ task[p].at = "idle"
      BY <2>1 DEF pollStatus, selfSaving
    <3>2. /\ OnlyPage(p) /\ page'[p].last = poll[p][s].mtime
          /\ page'[p].base \in {page[p].base, poll[p][s].mtime}
          /\ ~page[p].conflict => ~page'[p].conflict
      BY <1>1, <2>1, PollPage
    <3>3. disk[current].by = p => poll[p][s].mtime = disk[current].mtime
      BY <1>1, <3>1 DEF Knows, PollFresh
    <3> QED BY <1>1, <1>2, <3>1, <3>2, <3>3 DEF Knows, OwnVersionKnown
  <2>2. CASE UNCHANGED page
    <3>1. OnlyPage(p)
      BY <1>1, <2>2, EditorTypes DEF OnlyPage
    <3> QED BY <1>1, <1>2, <2>2, <3>1 DEF Knows, OwnVersionKnown
  <2> QED BY <2>1, <2>2 DEF PollStep, SendPoll, AnswerPoll, DropPoll
<1>6. Mine(p)
  BY <1>2, <1>3, <1>5 DEF Mine, OnlyPage, OnlyPoll
<1> QED BY <1>1, <1>4, <1>5, <1>6, OthersKnow DEF Knows

LEMMA HandlerKnows ==
  ASSUME Candid, SAll, NEW p \in Pages, HandlerStep(p), UNCHANGED pageVars
  PROVE  SInv'
<1>1. Knows(p) /\ SInv /\ EInv /\ IInv /\ current \in Files
  BY EditorTypes DEF SAll, SInv, EInv
<1>2. /\ OnlyTask(p) /\ UNCHANGED current
      /\ Admits(p) \/ Errs(p) \/ Refuses(p) \/ Passes(p) \/ Puts(p) \/ Answers(p)
  BY <1>1, HandlerTask
<1>3. UNCHANGED <<page, poll>>
  BY DEF pageVars
<1>4. task'[p].at # "idle"
  BY <1>2 DEF Admits, Errs, Refuses, Passes, Puts, Answers
<1>5. ASSUME NEW s \in Polls PROVE PollFresh(p, s)'
  BY <1>4 DEF PollFresh
<1>6. CASE Puts(p) /\ WriteFile(task[p].file, task[p].html, p)
  <2>1. task[p].file = current
    BY <1>1, <1>6 DEF Puts, Candid, OneFile
  <2>2. disk'[current].by = p /\ task'[p].at = "written"
    BY <1>1, <1>6, <2>1 DEF Puts, WriteFile, IInv, TypeOK
  <2>3. OwnVersionKnown(p)'
    BY <2>2 DEF OwnVersionKnown
  <2>4. ASSUME NEW q \in Pages \ {p} PROVE Knows(q)'
    BY <1>2, <2>2 DEF Knows, OwnVersionKnown, PollFresh
  <2> QED BY <1>5, <2>3, <2>4 DEF SInv, Knows
<1>7. CASE UNCHANGED disk
  <2>1. Mine(p)
    BY <1>2, <1>3, <1>7 DEF Mine, OnlyTask
  <2>2. OwnVersionKnown(p)'
    <3>1. SUFFICES ASSUME disk[current].by = p PROVE OwnVersionKnown(p)'
      BY <1>2, <1>7 DEF OwnVersionKnown
    <3>2. CASE Admits(p) \/ Passes(p)
      BY <1>1, <1>2, <1>3, <1>7, <3>1, <3>2 DEF Admits, Passes, Asks, Knows, OwnVersionKnown
    <3>3. CASE Errs(p)
      BY <1>1, <1>2, <1>3, <1>7, <3>1, <3>3 DEF Errs, Knows, OwnVersionKnown
    <3>4. CASE Refuses(p)
      BY <1>1, <3>1, <3>4 DEF Refuses, Conflicts, Knows, OwnVersionKnown
    <3>5. CASE Puts(p)
      BY <3>5 DEF Puts, OwnVersionKnown
    <3>6. CASE Answers(p)
      <4>1. task[p].file = current
        BY <1>1, <3>6 DEF Answers, Candid, OneFile
      <4> QED BY <1>2, <1>7, <3>6, <4>1 DEF Answers, OwnVersionKnown
    <3> QED BY <1>2, <3>2, <3>3, <3>4, <3>5, <3>6
  <2> QED BY <1>1, <1>5, <2>1, <2>2, OthersKnow DEF Knows
<1> QED BY <1>2, <1>6, <1>7 DEF Admits, Errs, Refuses, Passes, Puts, Answers

LEMMA AgentKnows ==
  ASSUME Candid, SAll, NEW a \in Agents, AgentStep(a), UNCHANGED pageVars
  PROVE  SInv'
<1>1. SInv /\ EInv /\ IInv /\ current \in Files
  BY DEF SAll, SInv, EInv, IInv, TypeOK
<1>2. UNCHANGED current /\ (UNCHANGED <<disk, clock, made, task>> \/ AgentPuts(a))
  BY <1>1, AgentTask
<1>3. CASE AgentPuts(a)
  <2>1. draft[a].file = current
    BY <1>1, <1>3 DEF AgentPuts, Candid, OneFile
  <2>2. disk'[current].by = a
    BY <1>1, <1>3, <2>1 DEF AgentPuts, WriteFile, IInv, TypeOK
  <2> QED BY <1>2, <2>2, WriterAssumption DEF SInv, Knows, OwnVersionKnown, PollFresh
<1>4. CASE UNCHANGED <<disk, clock, made, task>>
  <2>1. UNCHANGED <<disk, current, page, poll, task>>
    BY <1>2, <1>4 DEF pageVars
  <2> QED BY <1>1, <2>1 DEF SInv, Knows, OwnVersionKnown, PollFresh
<1> QED BY <1>2, <1>3, <1>4

(* The steps of a page that keep its base, its notice, its request and its polls. *)
Plain(p) ==
  \/ FrameLoads(p) \/ Blur(p) \/ KeepMine(p) \/ TimerFires(p) \/ OrphanFires(p) \/ SkipSave(p)
  \/ Edit(p) \/ StructuralEdit(p)

LEMMA PlainStep ==
  ASSUME EInv, NEW p \in Pages, Plain(p)
  PROVE  /\ OnlyPage(p) /\ UNCHANGED <<disk, current>> /\ UNCHANGED <<task, poll>>
         /\ SameBase(page'[p], page[p]) /\ SameNotice(page'[p], page[p])
<1>1. CASE FrameLoads(p)
  BY <1>1, FrameLoadsPage DEF FrameLoads, serverVars
<1>2. CASE Edit(p) \/ StructuralEdit(p)
  <2>1. Typed(p)
    BY <1>2, TypedPage
  <2> QED BY <1>2, <2>1 DEF Typed, NewChange, Edit, StructuralEdit
<1>3. CASE Blur(p) \/ KeepMine(p) \/ TimerFires(p) \/ OrphanFires(p) \/ SkipSave(p)
  <2>1. Quiet(p)
    BY <1>3, BlurPage, KeepMinePage, TimerPage, OrphanPage, SkipPage
  <2> QED BY <1>3, <2>1 DEF Quiet, Blur, KeepMine, TimerFires, OrphanFires, SkipSave, serverVars
<1> QED BY <1>1, <1>2, <1>3 DEF Plain

(* The steps of the whole where no answer is lost and one file is served. *)
LEMMA CandidSteps ==
  ASSUME Candid, EInv, [EditorNext]_vars
  PROVE  \/ \E p \in Pages : ReadStatus(p) \/ Plain(p) \/ reloadFromDisk(p) \/ RunSave(p) \/ Ends(p)
         \/ \E p \in Pages, s \in Polls : PollStep(p, s)
         \/ \E p \in Pages : HandlerStep(p) /\ UNCHANGED pageVars
         \/ \E a \in Agents : AgentStep(a) /\ UNCHANGED pageVars
         \/ UNCHANGED <<disk, current, page, poll, task>>
<1>1. CASE \E p \in Pages : LoadStep(p)
  BY <1>1 DEF LoadStep, StatusUnreachable, Candid, Plain
<1>2. CASE \E p \in Pages : UserStep(p)
  BY <1>2 DEF UserStep, Plain
<1>3. CASE \E p \in Pages : BrowserStep(p)
  BY <1>3 DEF BrowserStep, Ends, Plain
<1>4. CASE \E flag \in BOOLEAN : SetUpdating(flag)
  BY <1>4 DEF SetUpdating, serverVars
<1>5. CASE UNCHANGED vars
  BY <1>5 DEF vars, pageVars, serverVars
<1>6. ASSUME NEW f \in Files, OpenFile(f) PROVE FALSE
  BY <1>6 DEF OpenFile, Candid, OneFile, EInv, IInv, TypeOK
<1>7. CASE ServerStep /\ UNCHANGED pageVars
  BY <1>6, <1>7 DEF ServerStep
<1> QED BY <1>1, <1>2, <1>3, <1>4, <1>5, <1>7 DEF EditorNext

LEMMA CandidNextInv == ASSUME Candid PROVE SAll /\ [EditorNext]_vars => SAll'
<1> SUFFICES ASSUME SAll, [EditorNext]_vars PROVE SAll'
  OBVIOUS
<1>1. EInv /\ EInv'
  BY EditorNextInv DEF SAll
<1>2. SInv'
  <2>1. ASSUME NEW p \in Pages, Plain(p) PROVE SInv'
    BY <1>1, <2>1, PlainStep, SameBaseKnows
  <2>2. ASSUME NEW p \in Pages, ReadStatus(p) \/ reloadFromDisk(p) \/ RunSave(p) \/ Ends(p) PROVE SInv'
    BY <2>2, ReadStatusKnows, ReloadKnows, RunSaveKnows, EndsKnow
  <2>3. ASSUME NEW p \in Pages, NEW s \in Polls, PollStep(p, s) PROVE SInv'
    BY <2>3, PollKnows
  <2>4. ASSUME NEW p \in Pages, HandlerStep(p) /\ UNCHANGED pageVars PROVE SInv'
    BY <2>4, HandlerKnows
  <2>5. ASSUME NEW a \in Agents, AgentStep(a) /\ UNCHANGED pageVars PROVE SInv'
    BY <2>5, AgentKnows
  <2>6. CASE UNCHANGED <<disk, current, page, poll, task>>
    BY <2>6 DEF SAll, SInv, Knows, OwnVersionKnown, PollFresh
  <2> QED BY <1>1, <2>1, <2>2, <2>3, <2>4, <2>5, <2>6, CandidSteps
<1> QED BY <1>1, <1>2 DEF SAll

LEMMA CandidInit == Init => SAll
<1> SUFFICES ASSUME Init PROVE SAll
  OBVIOUS
<1>1. EInv
  BY EditorInit
<1>2. ASSUME NEW p \in Pages PROVE Knows(p)
  <2>1. disk[current].by = None /\ \A s \in Polls : poll[p][s] = NoPoll
    BY DEF Init, ServerInit
  <2>2. p # None
    BY NoneAssumption
  <2> QED BY <2>1, <2>2 DEF Knows, OwnVersionKnown, PollFresh
<1> QED BY <1>1, <1>2 DEF SAll, SInv

(* saveChain: where no answer is lost, whatever agents do and however long frames take to load, a page is *)
(* never refused because of a version it wrote itself.                                                   *)
THEOREM NeverRefusedForItself ==
  ASSUME Candid PROVE EditorSpec => []NoConflictWithSelf
<1>1. SAll => NoConflictWithSelf
  BY DEF SAll, SInv, Knows, OwnVersionKnown, NoConflictWithSelf, Conflicts
<1> QED BY <1>1, CandidInit, CandidNextInv, PTL DEF EditorSpec

-----------------------------------------------------------------------------
(* A page that polls one at a time notes the version it wrote *)

OAll == SAll /\ OInv

LEMMA OthersNote ==
  ASSUME OInv, NEW p \in Pages, Notes(p)',
         \A q \in Pages \ {p} : page'[q] = page[q] /\ task'[q] = task[q] /\ \A s \in Polls : poll'[q][s] = poll[q][s]
  PROVE  OInv'
BY DEF OInv, Notes, OwnPollNoted

LEMMA PlainNotes ==
  ASSUME OAll, NEW p \in Pages, Plain(p)
  PROVE  OInv'
<1>1. OInv /\ Notes(p) /\ EInv
  BY DEF OAll, OInv, SAll
<1>2. /\ OnlyPage(p) /\ UNCHANGED <<task, poll>>
      /\ SameBase(page'[p], page[p]) /\ SameNotice(page'[p], page[p])
  BY <1>1, PlainStep
<1>3. Notes(p)'
  BY <1>1, <1>2 DEF Notes, OwnPollNoted, SameBase, SameNotice
<1> QED BY <1>1, <1>2, <1>3, OthersNote DEF OnlyPage

(* Before the page is opened it polls nothing; with a conflict on screen it owes nothing. *)
LEMMA OpenedNotes ==
  ASSUME OAll, NEW p \in Pages, ReadStatus(p) \/ reloadFromDisk(p)
  PROVE  OInv'
<1>1. OInv /\ Notes(p) /\ EInv
  BY DEF OAll, OInv, SAll
<1>2. UNCHANGED <<task, poll>> /\ (~page[p].opened \/ page[p].conflict)
  BY DEF ReadStatus, reloadFromDisk, serverVars
<1>3. OnlyPage(p) /\ (page[p].opened => page'[p].opened)
  BY <1>1, ReadStatusPage, ReloadPage
<1>4. Notes(p)'
  BY <1>1, <1>2, <1>3 DEF Notes, OwnPollNoted
<1> QED BY <1>1, <1>2, <1>3, <1>4, OthersNote DEF OnlyPage

LEMMA RunSaveNotes ==
  ASSUME OAll, NEW p \in Pages, RunSave(p)
  PROVE  OInv'
<1>1. OInv /\ Notes(p) /\ EInv
  BY DEF OAll, OInv, SAll
<1>2. UNCHANGED poll
  BY DEF RunSave
<1>3. OnlyPage(p) /\ SameBase(page'[p], page[p])
  BY <1>1, RunSavePage
<1>4. task'[p].at = "posted" /\ \A q \in Pages \ {p} : task'[q] = task[q]
  <2>1. task \in [Pages -> Task]
    BY <1>1, EditorTypes DEF TypeOK
  <2> QED BY <2>1 DEF RunSave, Post, NoTask
<1>5. Notes(p)'
  BY <1>1, <1>2, <1>3, <1>4 DEF Notes, OwnPollNoted, SameBase
<1> QED BY <1>1, <1>2, <1>3, <1>4, <1>5, OthersNote DEF OnlyPage

LEMMA EndsNote ==
  ASSUME OAll, NEW p \in Pages, Ends(p)
  PROVE  OInv'
<1>1. OInv /\ Notes(p) /\ EInv
  BY DEF OAll, OInv, SAll
<1>2. PollsStale(p)
  BY <1>1, SaveDonePolls
<1>3. \A q \in Pages \ {p} : task'[q] = task[q]
  <2>1. task \in [Pages -> Task]
    BY <1>1, EditorTypes DEF TypeOK
  <2> QED BY <2>1, SaveDoneReceives DEF SaveDone
<1>4. OnlyPage(p) /\ page'[p].opened = page[p].opened
  BY <1>1, AcceptedPage, ConflictPage, SaveErrorPage DEF Ends, Quiet, SameBase
<1>5. Notes(p)'
  BY <1>1, <1>2, <1>4 DEF Notes, OwnPollNoted, PollsStale
<1> QED BY <1>1, <1>2, <1>3, <1>4, <1>5, OthersNote DEF OnlyPage, PollsStale

LEMMA PollNotes ==
  ASSUME OnePoll, OAll, NEW p \in Pages, NEW s \in Polls, PollStep(p, s)
  PROVE  OInv'
<1>1. OInv /\ Notes(p) /\ EInv /\ Knows(p)
  BY DEF OAll, OInv, SAll, SInv
<1>2. UNCHANGED task
  BY DEF PollStep, SendPoll, AnswerPoll, DropPoll, pollStatus, serverVars
<1>3. \A r \in Polls : r = s
  BY DEF OnePoll
<1>4. OnlyPoll(p, s) /\ OnlyPage(p) /\ Notes(p)'
  <2>1. CASE SendPoll(p, s)
    <3>1. OnlyPoll(p, s) /\ poll'[p][s].at = "sent" /\ UNCHANGED page /\ page[p].opened
      BY <1>1, <2>1, SendPollPoll DEF SendPoll
    <3>2. OnlyPage(p)
      BY <1>1, <3>1, EditorTypes DEF OnlyPage
    <3> QED BY <1>3, <3>1, <3>2 DEF Notes, OwnPollNoted
  <2>2. CASE AnswerPoll(p, s)
    <3>1. /\ OnlyPoll(p, s) /\ UNCHANGED page /\ poll[p][s].at = "sent" /\ poll'[p][s].mtime = disk[current].mtime
          /\ poll'[p][s].by = disk[current].by
      BY <1>1, <2>2, AnswerPollPoll DEF AnswerPoll
    <3>2. OnlyPage(p)
      BY <1>1, <3>1, EditorTypes DEF OnlyPage
    <3>3. OwnPollNoted(p, s)'
      BY <1>1, <1>2, <3>1 DEF OwnPollNoted, Knows, OwnVersionKnown
    <3>4. page'[p].opened
      BY <1>1, <3>1 DEF Notes
    <3> QED BY <1>3, <3>1, <3>2, <3>3, <3>4 DEF Notes
  <2>3. CASE DropPoll(p, s) \/ pollStatus(p, s)
    <3>1. OnlyPoll(p, s) /\ poll'[p][s].at = "idle"
      BY <1>1, <2>3, PollTaken
    <3>2. OnlyPage(p)
      BY <1>1, <2>3, PollPage, EditorTypes DEF DropPoll, OnlyPage
    <3> QED BY <1>3, <3>1, <3>2 DEF Notes, OwnPollNoted
  <2> QED BY <2>1, <2>2, <2>3 DEF PollStep
<1> QED BY <1>1, <1>2, <1>4, OthersNote DEF OnlyPage, OnlyPoll

LEMMA HandlerNotes ==
  ASSUME OAll, NEW p \in Pages, HandlerStep(p), UNCHANGED pageVars
  PROVE  OInv'
<1>1. OInv /\ Notes(p) /\ IInv
  BY DEF OAll, OInv, SAll, EInv
<1>2. OnlyTask(p) /\ (Admits(p) \/ Errs(p) \/ Refuses(p) \/ Passes(p) \/ Puts(p) \/ Answers(p))
  BY <1>1, HandlerTask
<1>3. UNCHANGED <<page, poll>> /\ task'[p].at # "idle"
  BY <1>2 DEF pageVars, Admits, Errs, Refuses, Passes, Puts, Answers
<1>4. Notes(p)'
  BY <1>1, <1>3 DEF Notes, OwnPollNoted
<1> QED BY <1>1, <1>2, <1>3, <1>4, OthersNote DEF OnlyTask

LEMMA AgentNotes ==
  ASSUME OAll, NEW a \in Agents, AgentStep(a), UNCHANGED pageVars
  PROVE  OInv'
<1>1. OInv /\ IInv
  BY DEF OAll, SAll, EInv
<1>2. UNCHANGED <<page, poll>> /\ \A q \in Pages : task'[q].at = task[q].at
  BY <1>1, AgentTask DEF pageVars, AgentPuts, SameTask
<1> QED BY <1>1, <1>2 DEF OInv, Notes, OwnPollNoted

LEMMA NoteNextInv == ASSUME Candid, OnePoll PROVE OAll /\ [EditorNext]_vars => OAll'
<1> SUFFICES ASSUME OAll, [EditorNext]_vars PROVE OAll'
  OBVIOUS
<1>1. EInv /\ SAll'
  BY CandidNextInv DEF OAll, SAll
<1>2. OInv'
  <2>1. ASSUME NEW p \in Pages, ReadStatus(p) \/ Plain(p) \/ reloadFromDisk(p) \/ RunSave(p) \/ Ends(p) PROVE OInv'
    BY <2>1, OpenedNotes, PlainNotes, RunSaveNotes, EndsNote
  <2>2. ASSUME NEW p \in Pages, NEW s \in Polls, PollStep(p, s) PROVE OInv'
    BY <2>2, PollNotes
  <2>3. ASSUME NEW p \in Pages, HandlerStep(p) /\ UNCHANGED pageVars PROVE OInv'
    BY <2>3, HandlerNotes
  <2>4. ASSUME NEW a \in Agents, AgentStep(a) /\ UNCHANGED pageVars PROVE OInv'
    BY <2>4, AgentNotes
  <2>5. CASE UNCHANGED <<disk, current, page, poll, task>>
    BY <2>5 DEF OAll, OInv, Notes, OwnPollNoted
  <2> QED BY <1>1, <2>1, <2>2, <2>3, <2>4, <2>5, CandidSteps
<1> QED BY <1>1, <1>2 DEF OAll

LEMMA NoteInit == Init => OAll
<1> SUFFICES ASSUME Init PROVE OAll
  OBVIOUS
<1>1. SAll
  BY CandidInit
<1>2. \A p \in Pages, s \in Polls : poll[p][s] = NoPoll
  BY DEF Init
<1>3. OInv
  BY <1>2, NoPollType DEF OInv, Notes, OwnPollNoted
<1> QED BY <1>1, <1>3 DEF OAll

(* Only the page takes a poll that was answered. *)
LEMMA ReadPollIsTaken ==
  ASSUME Candid, EInv, [EditorNext]_vars, NEW p \in Pages, NEW s \in Polls,
         poll[p][s].at = "read", poll'[p][s].at = "idle", page[p] # page'[p]
  PROVE  pollStatus(p, s)
<1>1. ASSUME NEW q \in Pages, ReadStatus(q) \/ Plain(q) \/ reloadFromDisk(q) \/ RunSave(q) PROVE FALSE
  <2>1. UNCHANGED poll
    BY <1>1, PlainStep DEF ReadStatus, reloadFromDisk, RunSave
  <2> QED BY <2>1
<1>2. ASSUME NEW q \in Pages, Ends(q) PROVE FALSE
  <2>1. PollsStale(q)
    BY <1>2, SaveDonePolls
  <2>2. CASE q = p
    BY <2>1, <2>2 DEF PollsStale
  <2>3. CASE q # p
    <3>1. poll'[p] = poll[p]
      BY <2>1, <2>3 DEF PollsStale
    <3> QED BY <3>1
  <2> QED BY <2>2, <2>3
<1>3. ASSUME NEW q \in Pages, NEW r \in Polls, PollStep(q, r) PROVE pollStatus(p, s)
  <2>1. pollStatus(q, r)
    BY <1>3 DEF PollStep, SendPoll, AnswerPoll, DropPoll
  <2>2. OnlyPoll(q, r)
    BY <2>1, PollTaken
  <2>3. q = p /\ r = s
    BY <2>2 DEF OnlyPoll
  <2> QED BY <2>1, <2>3
<1>4. ASSUME UNCHANGED <<page, poll>> PROVE FALSE
  BY <1>4
<1> QED BY <1>1, <1>2, <1>3, <1>4, CandidSteps DEF pageVars

LEMMA OwnSaveNotReloaded ==
  ASSUME Candid, OnePoll, OAll, [EditorNext]_vars, NEW p \in Pages, NEW s \in Polls,
         poll[p][s].at = "read", poll'[p][s].at = "idle", ~page[p].wasUpdating, page'[p].loading, ~page[p].loading
  PROVE  poll[p][s].by # p
<1>1. EInv /\ Notes(p)
  BY DEF OAll, OInv, SAll
<1>2. pollStatus(p, s)
  BY <1>1, ReadPollIsTaken
<1>3. externalChange(p, poll[p][s].mtime)
  BY <1>1, <1>2, PollPage
<1>4. ~poll[p][s].stale /\ task[p].at = "idle"
  BY <1>2 DEF pollStatus, selfSaving
<1> QED BY <1>1, <1>3, <1>4 DEF externalChange, Notes, OwnPollNoted

(* "Never reload because of our own save", where no answer is lost and a page has one poll under way: outside *)
(* an update window, no poll makes the page reload a version it wrote itself.                                *)
THEOREM OwnSavesAreNotReloaded ==
  ASSUME Candid, OnePoll PROVE EditorSpec => OwnSaveNeverReloads
<1> DEFINE Calm == \A p \in Pages, s \in Polls :
             (poll[p][s].at = "read" /\ poll'[p][s].at = "idle" /\ ~page[p].wasUpdating
                /\ page'[p].loading /\ ~page[p].loading)
               => poll[p][s].by # p
<1>1. OAll /\ [EditorNext]_vars => Calm
  BY OwnSaveNotReloaded
<1>2. OAll /\ [EditorNext]_vars => [Calm]_vars
  BY <1>1
<1> HIDE DEF Calm
<1>3. EditorSpec => [][Calm]_vars
  BY <1>2, NoteInit, NoteNextInv, PTL DEF EditorSpec
<1> QED BY <1>3 DEF Calm, OwnSaveNeverReloads

=============================================================================
