--------------------------- MODULE RenderPictures ---------------------------
(***************************************************************************)
(* render_deck (render/): a session lists the slides of a file, has the    *)
(* browser open the file and show one of them by its position, writes the  *)
(* picture to a folder all sessions share and takes away the presentation's*)
(* other pictures.  The file may be edited between any two of these steps. *)
(***************************************************************************)
EXTENDS Naturals, Sequences, FiniteSets, SequencesExt

CONSTANTS Sessions,
          Stem,        \* file -> its name without folder and suffix
          Safe,        \* slide id -> the id as part of a file name
          SlideLists,  \* the slides a file may have: [id, key], key being which slide it is
          MaxRenders, MaxChanges, \* bounds: sessions begun, edits of a file
          Nothing

Sources == DOMAIN Stem
SlideIds == DOMAIN Safe

ASSUME RenderAssumption ==
  /\ MaxRenders \in Nat /\ MaxChanges \in Nat /\ Nothing \notin SlideIds \cup Sessions
  /\ \A list \in SlideLists : list \in Seq({list[i] : i \in DOMAIN list})

VARIABLES slides,   \* file -> its slides, what a browser opens now
          pictures, \* picture path -> <<file, slide>> it shows; a path without a picture is not in it
          session,  \* session -> its render in progress
          renders, changes

renderVars == <<slides, pictures, session, renders, changes>>

PicturePath(file, id) == <<Stem[file], Safe[id]>>

IdsOf(list) == [i \in DOMAIN list |-> list[i].id]

Resting == [at |-> "idle"]

SharesPictures(file) == {s \in Sessions : session[s].at \notin {"idle", "failed"} /\ Stem[session[s].file] = Stem[file]}

Becomes(s, record) == session' = [session EXCEPT ![s] = record]

Fails(s) == Becomes(s, [session[s] EXCEPT !.at = "failed"])

Without(path) == [p \in DOMAIN pictures \ {path} |-> pictures[p]]

-----------------------------------------------------------------------------
(* _presentation_slides: the ids the session goes by from here on.  The checks of options come   *)
(* first and are AgentTools'.                                                                     *)
Ask(s, file, slide, reportOnly) ==
  LET others == SharesPictures(file)
      asked == [at |-> "listed", file |-> file, slide |-> slide, only |-> reportOnly, ids |-> IdsOf(slides[file]), wanted |-> slides[file],
                shows |-> Nothing, path |-> Nothing, left |-> <<>>, stuck |-> {}, calm |-> \A t \in others : session[t].at = "answered"]
  IN  /\ session[s] = Resting /\ renders < MaxRenders /\ renders' = renders + 1
      /\ reportOnly => slide = Nothing
      /\ session' = [t \in Sessions |-> IF t = s THEN [asked EXCEPT !.at = IF slides[file] = <<>> THEN "failed" ELSE @]
                                        ELSE IF t \in others THEN [session[t] EXCEPT !.calm = FALSE] ELSE session[t]]
      /\ UNCHANGED <<slides, pictures, changes>>

Position(me) == IF me.slide = Nothing THEN 1 ELSE SelectInSeq(me.ids, LAMBDA id : id = me.slide)

(* _capture: an unknown id, no browser, or no slide at that position any more. *)
Shoot(s) ==
  LET me == session[s]
      at == Position(me)
  IN  /\ me.at = "listed" /\ ~me.only
      /\ \/ Fails(s)
         \/ /\ at # 0 /\ at \in DOMAIN slides[me.file]
            /\ Becomes(s, [me EXCEPT !.at = "shot", !.shows = <<me.file, slides[me.file][at].key>>,
                                     !.path = PicturePath(me.file, me.ids[at])])
      /\ UNCHANGED <<slides, pictures, renders, changes>>

(* write_picture is an atomic_write. *)
WritePicture(s) ==
  LET me == session[s]
  IN  /\ me.at = "shot"
      /\ \/ Fails(s) /\ UNCHANGED pictures
         \/ /\ pictures' = [p \in DOMAIN pictures \cup {me.path} |-> IF p = me.path THEN me.shows ELSE pictures[p]]
            /\ Becomes(s, [me EXCEPT !.at = "cleaning", !.left = me.ids])
      /\ UNCHANGED <<slides, renders, changes>>

(* Mutant: the picture just written is told from the others by the slide's id. *)
RemoveStaleById(s) ==
  LET me == session[s]
      path == PicturePath(me.file, Head(me.left))
  IN  /\ me.at = "cleaning" /\ me.left # <<>>
      /\ \/ pictures' = (IF Head(me.left) = me.ids[Position(me)] THEN pictures ELSE Without(path))
            /\ Becomes(s, [me EXCEPT !.left = Tail(@)])
         \/ path # me.path /\ path \in DOMAIN pictures /\ UNCHANGED pictures
            /\ Becomes(s, [me EXCEPT !.left = Tail(@), !.stuck = @ \cup {path}])
      /\ UNCHANGED <<slides, renders, changes>>

(* One id at a time; what cannot be unlinked stays and is logged. *)
RemoveStale(s) ==
  LET me == session[s]
      path == PicturePath(me.file, Head(me.left))
  IN  /\ me.at = "cleaning" /\ me.left # <<>>
      /\ \/ pictures' = (IF path = me.path THEN pictures ELSE Without(path))
            /\ Becomes(s, [me EXCEPT !.left = Tail(@)])
         \/ path # me.path /\ path \in DOMAIN pictures /\ UNCHANGED pictures
            /\ Becomes(s, [me EXCEPT !.left = Tail(@), !.stuck = @ \cup {path}])
      /\ UNCHANGED <<slides, renders, changes>>

AnswerRender(s) ==
  /\ session[s].at = "cleaning" /\ session[s].left = <<>>
  /\ Becomes(s, [session[s] EXCEPT !.at = "answered"])
  /\ UNCHANGED <<slides, pictures, renders, changes>>

(* _measure_all shows every listed position; one that is gone is a script error. *)
Measure(s) ==
  LET me == session[s]
  IN  /\ me.at = "listed" /\ me.only
      /\ \/ Fails(s)
         \/ Len(me.ids) <= Len(slides[me.file]) /\ Becomes(s, [me EXCEPT !.at = "answered"])
      /\ UNCHANGED <<slides, pictures, renders, changes>>

LeaveRender(s) ==
  /\ session[s].at \in {"answered", "failed"}
  /\ Becomes(s, Resting)
  /\ UNCHANGED <<slides, pictures, renders, changes>>

(* Anyone edits the file. *)
EditSlides(file, list) ==
  /\ changes < MaxChanges /\ changes' = changes + 1
  /\ slides' = [slides EXCEPT ![file] = list]
  /\ session' = [s \in Sessions |->
       IF session[s].at = "listed" /\ session[s].file = file THEN [session[s] EXCEPT !.calm = FALSE] ELSE session[s]]
  /\ UNCHANGED <<pictures, renders>>

RenderInit ==
  /\ slides \in [Sources -> SlideLists] /\ pictures = [p \in {} |-> Nothing]
  /\ session = [s \in Sessions |-> Resting] /\ renders = 0 /\ changes = 0

RenderNext ==
  \/ \E s \in Sessions, file \in Sources, slide \in SlideIds \cup {Nothing}, only \in BOOLEAN : Ask(s, file, slide, only)
  \/ \E s \in Sessions : Shoot(s) \/ WritePicture(s) \/ RemoveStale(s) \/ AnswerRender(s) \/ Measure(s) \/ LeaveRender(s)
  \/ \E file \in Sources, list \in SlideLists : EditSlides(file, list)

RenderSpec == RenderInit /\ [][RenderNext]_renderVars

-----------------------------------------------------------------------------
(* A session that nobody disturbed, neither by an edit before its browser opened the file nor by  *)
(* another session for a file of the same stem, answers with a picture that is there and shows    *)
(* the slide it was asked for, and the presentation's other pictures are gone but those that      *)
(* could not be removed: also when two ids make the same file name (remove_stale, picture_path).   *)
PictureShowsTheSlide ==
  \A s \in Sessions :
    LET me == session[s]
    IN  me.at = "answered" /\ ~me.only /\ me.calm =>
          /\ me.path \in DOMAIN pictures
          /\ pictures[me.path] = <<me.file, me.wanted[Position(me)].key>>
          /\ \A i \in DOMAIN me.ids : PicturePath(me.file, me.ids[i]) \in DOMAIN pictures
                                        => PicturePath(me.file, me.ids[i]) \in {me.path} \cup me.stuck
=============================================================================
