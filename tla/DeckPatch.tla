----------------------------- MODULE DeckPatch -----------------------------
(***************************************************************************)
(* The agent's view of a presentation: get_slide and outline read it,      *)
(* patch applies a list of operations to a working copy, all or none, and  *)
(* renumbers once.  A slide goes by the id it had before the patch.        *)
(***************************************************************************)
EXTENDS DeckText

CONSTANTS FirstDecks,  \* the files there may be to begin with
          Html,        \* the slides an agent may write
          Ids,         \* the ids it may name, known or not
          MaxOps, MaxSlides \* bounds: operations applied to a deck in all, slides of a deck

ASSUME PatchAssumption ==
  /\ \A d \in FirstDecks : IsDeck(d)
  /\ \A html \in Html : IsAtom(html) /\ html.slide
  /\ Absent \notin Ids
  /\ {MaxOps, MaxSlides} \subseteq Nat /\ MaxSlides <= Len(SlideNames)

VARIABLES deck, \* the file
          read, \* what the agent read last with get_slide: the slide's key and the text it got
          done, \* how many operations were applied, for the bound MaxOps
          lastPatch \* history: the last patch and its result

deckVars == <<deck, read, done, lastPatch>>

LargeUpTo(images, i) == {j \in 1..i : images[j][1] = "large"}

Large(images) == LargeUpTo(images, Len(images))

(* The reference that stands for image i: the how many-th large one it is. *)
Reference(images, i) == Cardinality(LargeUpTo(images, i))

(* Mutant: references count every image. *)
HideAll(images) == [i \in DOMAIN images |-> IF images[i][1] = "large" THEN <<"ref", i>> ELSE images[i]]

(* hide_images: the nth large image becomes data:ref:img-n. *)
Hide(images) ==
  [i \in DOMAIN images |->
     IF images[i][1] = "large" THEN <<"ref", Reference(images, i)>> ELSE images[i]]

(* _restore_images: a reference to none of the slide's large images fails the operation. *)
Restorable(images, current) ==
  \A i \in DOMAIN images : images[i][1] = "ref" => \E j \in Large(current) : Reference(current, j) = images[i][2]

PutBack(images, current) ==
  [i \in DOMAIN images |->
     IF images[i][1] = "ref" THEN current[CHOOSE j \in Large(current) : Reference(current, j) = images[i][2]] ELSE images[i]]

(* _check_slide_html: one closed element with data-type="slide" and a data-id. *)
IsSlideHtml(html) == html.whole /\ html.typed /\ html.id # Absent

HasReference(images) == \E i \in DOMAIN images : images[i][1] = "ref"

-----------------------------------------------------------------------------
(* The working copy: every atom with its slide's original id and whether an operation touched it. *)
Working(d) ==
  [atoms |-> [i \in Positions(d) |->
     [it |-> d.atoms[i], orig |-> IF IsSlide(d, i) THEN SlideId(d, i) ELSE Absent, slide |-> IsSlide(d, i), touched |-> FALSE]],
   structural |-> FALSE, ok |-> TRUE]

Failed(w) == [w EXCEPT !.ok = FALSE]

SlidesOf(w) == {p \in DOMAIN w.atoms : w.atoms[p].slide}

(* The how many-th slide of the working copy the atom at p is. *)
SlideNumber(w, p) == Cardinality({q \in SlidesOf(w) : q <= p})

Known(w, id) == \E p \in DOMAIN w.atoms : w.atoms[p].orig = id

First(positions) == CHOOSE p \in positions : \A q \in positions : p <= q

(* Mutant: ids are those the slides have after the operations so far. *)
RequireNow(w, id) ==
  LET named == {p \in SlidesOf(w) : SlideNames[SlideNumber(w, p)] = id}
  IN  IF named # {} THEN First(named) ELSE First({p \in DOMAIN w.atoms : w.atoms[p].orig = id})

Require(w, id) == First({p \in DOMAIN w.atoms : w.atoms[p].orig = id})

(* _place: after the anchor, or before the first slide without one. *)
Place(w, atom, anchored, after) ==
  [w EXCEPT !.atoms = InsertAt(@, IF anchored THEN Require(w, after) + 1 ELSE First(SlidesOf(w)), atom),
            !.structural = TRUE]

(* The content of the element matched: of a leaf its text, of the slide itself all it holds. *)
SetText(w, o) ==
  IF ~Known(w, o.id) \/ o.selector = "fails" THEN Failed(w)
  ELSE LET edited == IF o.selector = "leaf" THEN [w.atoms[Require(w, o.id)].it EXCEPT !.text = "new"]
                     ELSE [w.atoms[Require(w, o.id)].it EXCEPT !.text = "new", !.images = <<>>, !.eyebrow = Absent,
                                                               !.footer = Absent, !.page = Absent, !.facts = {}]
       IN  [w EXCEPT !.atoms[Require(w, o.id)].it = edited, !.atoms[Require(w, o.id)].touched = TRUE]

ReplaceSlide(w, o) ==
  IF ~Known(w, o.id) \/ ~IsSlideHtml(o.html) THEN Failed(w)
  ELSE LET current == w.atoms[Require(w, o.id)].it.images
       IN  IF ~Restorable(o.html.images, current) THEN Failed(w)
           ELSE [w EXCEPT !.atoms[Require(w, o.id)].it = [o.html EXCEPT !.images = PutBack(@, current)],
                          !.atoms[Require(w, o.id)].touched = TRUE, !.structural = TRUE]

InsertSlide(w, o) ==
  IF (o.after # "start" /\ ~Known(w, o.after)) \/ ~IsSlideHtml(o.html) \/ HasReference(o.html.images) THEN Failed(w)
  ELSE Place(w, [it |-> o.html, orig |-> Absent, slide |-> TRUE, touched |-> TRUE], o.after # "start", o.after)

DeleteSlide(w, o) ==
  IF ~Known(w, o.id) \/ Cardinality(SlidesOf(w)) = 1 THEN Failed(w)
  ELSE [w EXCEPT !.atoms = RemoveAt(@, Require(w, o.id)), !.structural = TRUE]

MoveSlide(w, o) ==
  IF ~Known(w, o.id) \/ (o.after # "start" /\ ~Known(w, o.after)) THEN Failed(w)
  ELSE LET position == Require(w, o.id)
           inPlace  == IF o.after = "start" THEN position = First(SlidesOf(w))
                       ELSE Require(w, o.after) = position
       IN  IF inPlace THEN w
           ELSE Place([w EXCEPT !.atoms = RemoveAt(@, position)], w.atoms[position], o.after # "start", o.after)

(* The first operation that fails stops the patch. *)
Apply(w, o) ==
  IF ~w.ok THEN w
  ELSE CASE o.op = "set_text" -> SetText(w, o)
         [] o.op = "replace_slide" -> ReplaceSlide(w, o)
         [] o.op = "insert_slide" -> InsertSlide(w, o)
         [] o.op = "delete_slide" -> DeleteSlide(w, o)
         [] o.op = "move_slide" -> MoveSlide(w, o)

Operations ==
  [op : {"set_text"}, id : Ids, selector : {"leaf", "root", "fails"}]
    \cup [op : {"replace_slide"}, id : Ids, html : Html \cup {r.text : r \in {x \in {read} : x.key # Absent}}]
    \cup [op : {"insert_slide"}, after : Ids \cup {"start"}, html : Html]
    \cup [op : {"delete_slide"}, id : Ids]
    \cup [op : {"move_slide"}, id : Ids, after : Ids \cup {"start"}]

Assembled(d, w) ==
  LET text == [d EXCEPT !.atoms = [i \in DOMAIN w.atoms |-> w.atoms[i].it]]
  IN  IF w.structural THEN Renumber(text) ELSE text

(* _touched_problems: lint of the assembled text, by the touched slides' final positions. *)
TouchedProblems(d, w) ==
  LET touched == {SlideNumber(w, p) : p \in {q \in SlidesOf(w) : w.atoms[q].touched}}
  IN  {p \in Lint(d) : p[1] \in touched}

Done(ops, w, d) ==
  [do |-> "patch", ops |-> ops, ok |-> w.ok, structural |-> w.structural,
   slides |-> Cardinality(SlidesOf(w)), problems |-> TouchedProblems(d, w)]

(* The working copy after all operations, one after the other. *)
Worked(d, ops) ==
  LET after[n \in 0..Len(ops)] ==
        IF n > 0 THEN Apply(after[n - 1], ops[n])
        ELSE IF SlideAtoms(d) = {} /\ ops # <<>> THEN Failed(Working(d)) ELSE Working(d)
  IN  after[Len(ops)]

(* apply_patch: validate all, assemble, write once; a failure or a dry run writes nothing. *)
Patch(ops, dryRun) ==
  LET w == Worked(deck, ops)
      text == Assembled(deck, w)
  IN  /\ Cardinality(SlidesOf(w)) <= MaxSlides
      /\ done' = done + Len(ops)
      /\ IF w.ok THEN deck' = (IF dryRun THEN deck ELSE text) /\ lastPatch' = [Done(ops, w, text) EXCEPT !.do = IF dryRun THEN "dry" ELSE @]
         ELSE UNCHANGED deck /\ lastPatch' = [Done(ops, w, deck) EXCEPT !.problems = {}]
      /\ UNCHANGED read

(* get_slide of a known id. *)
GetSlide(id) ==
  /\ \E i \in SlideAtoms(deck) : SlideId(deck, i) = id
  /\ LET slide == deck.atoms[First({i \in SlideAtoms(deck) : SlideId(deck, i) = id})]
     IN  read' = [key |-> slide.key, id |-> id, was |-> slide, text |-> [slide EXCEPT !.images = Hide(@)]]
  /\ UNCHANGED <<deck, done, lastPatch>>

NotRead == [key |-> Absent]

DeckInit == deck \in FirstDecks /\ read = NotRead /\ done = 0 /\ lastPatch = [do |-> "nothing"]

DeckNext ==
  \/ \E ops \in BoundedSeq(Operations, MaxOps - done) \ {<<>>}, dryRun \in BOOLEAN : Patch(ops, dryRun)
  \/ \E id \in Ids : GetSlide(id)

DeckSpec == DeckInit /\ [][DeckNext]_deckVars

-----------------------------------------------------------------------------
(* A step that patches the file, or would have but for an operation that failed. *)
Patched == done' # done /\ lastPatch'.do = "patch"

(* Every slide is marked data-type="slide", or none is. *)
Uniform(d) == \A i, j \in Positions(d) : d.atoms[i].slide /\ d.atoms[j].slide => d.atoms[i].typed = d.atoms[j].typed

(* A structural patch leaves a presentation that lint has no numbering problem with, whatever   *)
(* state it was in: renumber.py and lint.py agree without sharing code.  And the answer counts  *)
(* the slides the file then has, and reports every problem of a slide it wrote.                 *)
PatchLeavesItNumbered ==
  [][Patched /\ lastPatch'.ok /\ lastPatch'.structural /\ Uniform(deck') =>
       /\ \A p \in Lint(deck') : p[2] \notin {"L002", "L003", "L004", "L005"}
       /\ lastPatch'.slides = Count(deck')
       /\ \A o \in ToSet(lastPatch'.ops), n \in 1..Count(deck') :
            o.op = "insert_slide" /\ o.html.key \notin {deck.atoms[i].key : i \in Positions(deck)}
              /\ deck'.atoms[CHOOSE i \in SlideAtoms(deck') : Rank(deck', i) = n].key = o.html.key
              => {p \in Lint(deck') : p[1] = n} \subseteq lastPatch'.problems]_deckVars

(* The slides of a deck that an operation names, by the ids they have in it. *)
NamedIn(d, ops) ==
  {First({i \in SlideAtoms(d) : SlideId(d, i) = id}) :
     id \in {o.id : o \in {x \in ToSet(ops) : x.op # "insert_slide"}} \cap {SlideId(d, i) : i \in SlideAtoms(d)}}

Content(atom) == IF atom.slide THEN [key |-> atom.key, images |-> atom.images, text |-> atom.text, title |-> atom.title] ELSE [key |-> atom.key]

(* Every other atom, with how many of them come before it and itself. *)
Rest(d, keys) ==
  LET others == {i \in Positions(d) : d.atoms[i].key \notin keys}
  IN  {<<Cardinality({j \in others : j <= i}), Content(d.atoms[i])>> : i \in others}

DistinctIds(d) == \A i, j \in SlideAtoms(d) : SlideId(d, i) = SlideId(d, j) => i = j

(* A patch changes the slides its operations name, by the ids they had before it, and nothing    *)
(* else: all other text and slides keep their content and their order, through any mixture of    *)
(* inserts, moves and deletes (_require_slide, the working copy of apply_patch).                  *)
OnlyNamedSlidesChange ==
  [][Patched /\ DistinctIds(deck) =>
       LET named == {deck.atoms[i].key : i \in NamedIn(deck, lastPatch'.ops)}
                      \cup {o.html.key : o \in {x \in ToSet(lastPatch'.ops) : x.op \in {"insert_slide", "replace_slide"}}}
       IN  Rest(deck', named) = Rest(deck, named)]_deckVars

(* Writing back what get_slide gave succeeds and leaves the slide as it was, images included,     *)
(* however the deck was patched since, as long as the slide it replaces has the images read:      *)
(* hide_images and _restore_images count the same images.                                         *)
ReadBackKeepsTheSlide ==
  [][LET written == {o \in ToSet(IF Patched THEN lastPatch'.ops ELSE <<>>) : o.op = "replace_slide"}
     IN  \A o \in written :
           /\ Len(lastPatch'.ops) = 1 /\ read.key # Absent /\ o.html = read.text /\ IsSlideHtml(read.text)
           /\ \E i \in NamedIn(deck, lastPatch'.ops) : deck.atoms[i].images = read.was.images
           => lastPatch'.ok /\ \E i \in SlideAtoms(deck') : Content(deck'.atoms[i]) = Content(read.was)]_deckVars
=============================================================================
