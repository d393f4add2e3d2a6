------------------------------ MODULE DeckText ------------------------------
(***************************************************************************)
(* The text of a file as the deck services see it (deck/): pieces of raw   *)
(* text and slides in their order, the TOTAL and slideNames of its script, *)
(* what renumber.py makes of them and what lint.py says about them.        *)
(***************************************************************************)
EXTENDS Naturals, Sequences, FiniteSets, SequencesExt

CONSTANTS SlideNames, \* "slide-0", "slide-1", ...: as many as a deck may have slides
          Absent

ASSUME DeckAssumption == SlideNames \in Seq(STRING) /\ IsInjective(SlideNames)

(* An atom is raw text or a slide: key is which slide it is, counters are <<position, total>> or a *)
(* position, an image is <<"large" or "small", which>>, or a reference to a large one, facts are   *)
(* what the content rules look for, and whole whether the text is one closed element.             *)
Fields == {"slide", "key", "typed", "id", "title", "eyebrow", "footer", "page", "images", "text", "facts", "whole"}

IsAtom(atom) ==
  Fields \subseteq DOMAIN atom /\ {atom.slide, atom.typed} \subseteq BOOLEAN /\ atom.images \in Seq({"large", "small", "ref"} \X Nat)

Positions(d) == DOMAIN d.atoms

(* find_slides: the elements marked data-type="slide", or without any the article.slide ones.     *)
IsSlide(d, i) ==
  d.atoms[i].slide /\ (d.atoms[i].typed \/ \A j \in Positions(d) : d.atoms[j].slide => ~d.atoms[j].typed)

SlideAtoms(d) == {i \in Positions(d) : IsSlide(d, i)}

Count(d) == Cardinality(SlideAtoms(d))

Rank(d, i) == Cardinality({j \in SlideAtoms(d) : j <= i})

SlideId(d, i) == IF d.atoms[i].id = Absent THEN SlideNames[Rank(d, i)] ELSE d.atoms[i].id

IsCarbon(d) == d.charter = "carbon"

(* A file: atoms, and total and names, which are Absent without such a script. *)
IsDeck(d) ==
  /\ {"kind", "charter", "atoms", "total", "names"} \subseteq DOMAIN d
  /\ Len(d.atoms) \in Nat /\ DOMAIN d.atoms = 1..Len(d.atoms)
  /\ \A i \in Positions(d) : IsAtom(d.atoms[i])
  /\ Count(d) <= Len(SlideNames)

Numbered(counter, value) == IF counter = Absent THEN Absent ELSE value

(* _start_tag and _counter_edits: what is absent is not created, ids excepted. *)
RenumberSlide(slide, position, total, carbon) ==
  [slide EXCEPT !.id = SlideNames[position],
                !.eyebrow = Numbered(@, <<position, total>>),
                !.footer = IF carbon THEN Numbered(@, <<position, total>>) ELSE @,
                !.page = IF carbon THEN @ ELSE Numbered(@, position)]

TitleOf(slide) == IF slide.title = Absent THEN "Slide" ELSE slide.title

Titles(d) == [n \in 1..Count(d) |-> TitleOf(d.atoms[CHOOSE i \in SlideAtoms(d) : Rank(d, i) = n])]

(* Mutant: the counters of the first slide are taken for right. *)
RenumberAfterFirst(d) ==
  IF Count(d) = 0 THEN d
  ELSE [d EXCEPT !.atoms = [i \in Positions(d) |->
                   IF IsSlide(d, i) /\ Rank(d, i) > 1 THEN RenumberSlide(d.atoms[i], Rank(d, i), Count(d), IsCarbon(d)) ELSE d.atoms[i]],
                 !.total = Numbered(@, Count(d)),
                 !.names = Numbered(@, Titles(d))]

Renumber(d) ==
  IF Count(d) = 0 THEN d
  ELSE [d EXCEPT !.atoms = [i \in Positions(d) |->
                   IF IsSlide(d, i) THEN RenumberSlide(d.atoms[i], Rank(d, i), Count(d), IsCarbon(d)) ELSE d.atoms[i]],
                 !.total = Numbered(@, Count(d)),
                 !.names = Numbered(@, Titles(d))]

-----------------------------------------------------------------------------
(* The problems lint_deck lists, as <<position of the slide or 0 for the file, code>>. *)

FileProblems(d) ==
  {p \in {<<0, "L002">>} : d.total # Absent /\ d.total # Count(d)}
    \cup {p \in {<<0, "L003">>} : d.names # Absent /\ Len(d.names) # Count(d)}

(* A duplicate beats an id out of order; both are L004. *)
IdProblem(d, i) ==
  /\ d.atoms[i].id # Absent
  /\ \/ d.atoms[i].id # SlideNames[Rank(d, i)]
     \/ \E j \in SlideAtoms(d) : j < i /\ d.atoms[j].id = d.atoms[i].id

CounterProblem(d, i) ==
  LET slide == d.atoms[i]
      right == <<Rank(d, i), Count(d)>>
  IN  \/ slide.eyebrow # Absent /\ slide.eyebrow # right
      \/ IsCarbon(d) /\ slide.footer # Absent /\ slide.footer # right
      \/ ~IsCarbon(d) /\ slide.page # Absent /\ slide.page # Rank(d, i)

MissingAttribute(slide) == ~slide.typed \/ slide.id = Absent \/ slide.title = Absent

TemplateText(d, i) ==
  \/ "template text" \in d.atoms[i].facts
  \/ d.atoms[i].eyebrow = <<1, 1>> /\ "section eyebrow" \in d.atoms[i].facts /\ Count(d) # 1

(* The rules of charter_rules.py: L008 and L009 are the medical charter's. *)
CharterCodes(slide, charter) ==
  {code \in {"L007", "L008", "L009", "L011"} :
     \/ code = "L007" /\ "foreign class" \in slide.facts
     \/ code = "L008" /\ "child without width" \in slide.facts /\ charter = "medical"
     \/ code = "L009" /\ slide.images # <<>> /\ "no source line" \in slide.facts /\ charter = "medical"
     \/ code = "L011" /\ "colour off palette" \in slide.facts}

SlideCodes(d, i) ==
  {code \in {"L001", "L004", "L005", "L006"} :
     \/ code = "L001" /\ MissingAttribute(d.atoms[i])
     \/ code = "L004" /\ IdProblem(d, i)
     \/ code = "L005" /\ CounterProblem(d, i)
     \/ code = "L006" /\ TemplateText(d, i)}
  \cup CharterCodes(d.atoms[i], d.charter)

(* L010 is for every file; in a presentation by slide, and 0 outside every slide. *)
RemoteImages(d) ==
  {<<IF d.kind = "presentation" /\ IsSlide(d, i) THEN Rank(d, i) ELSE 0, "L010">> :
     i \in {j \in Positions(d) : "remote image" \in d.atoms[j].facts}}

Lint(d) ==
  RemoteImages(d)
    \cup IF d.kind # "presentation" THEN {}
         ELSE FileProblems(d) \cup UNION {{<<Rank(d, i), code>> : code \in SlideCodes(d, i)} : i \in SlideAtoms(d)}
=============================================================================
