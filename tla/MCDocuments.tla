---------------------------- MODULE MCDocuments ----------------------------
(***************************************************************************)
(* The work on documents as TLC explores it.  Its parts share files on     *)
(* disk only, so each is explored apart from the others: part says which   *)
(* one a behaviour is about.                                               *)
(***************************************************************************)
EXTENDS FileHistory, DeckPatch, ArchLayout, RenderPictures, AgentTools, ReferenceCache, TLC

CONSTANTS Parts, \* which parts to explore
          deck1, deck2, command

VARIABLE part

documentParts == <<vars, deckVars, archVars, renderVars, toolVars, cacheVars>>

-----------------------------------------------------------------------------
(* Decks *)
Slide(key, id, images) ==
  [slide |-> TRUE, key |-> key, typed |-> TRUE, id |-> id, title |-> "Title", eyebrow |-> <<1, 1>>, footer |-> <<1, 1>>,
   page |-> 1, images |-> images, text |-> "old", facts |-> {}, whole |-> TRUE]

Gap(key) == [Slide(key, Absent, <<>>) EXCEPT !.slide = FALSE]

First2 == [kind |-> "presentation", charter |-> "carbon", total |-> 9, names |-> <<"Title">>,
           atoms |-> <<Gap("head"), Slide("a", "slide-1", <<>>), Gap("between"),
                       Slide("b", "slide-0", << <<"small", 1>>, <<"large", 2>>, <<"large", 3>> >>), Gap("foot")>>]

Decks ==
  {First2,
   [First2 EXCEPT !.charter = "medical", !.atoms[2].id = Absent, !.atoms[2].eyebrow = Absent, !.atoms[2].facts = {"template text"}],
   [First2 EXCEPT !.charter = "ei", !.kind = "document", !.total = Absent, !.names = Absent, !.atoms[2].id = "slide-0"],
   [First2 EXCEPT !.atoms[2].typed = FALSE, !.atoms[4].typed = FALSE, !.atoms[2].title = Absent],
   [First2 EXCEPT !.atoms = <<Gap("head")>>]}

WrittenSlides ==
  {[Slide("new", "slide-7", <<>>) EXCEPT !.facts = {"section eyebrow", "foreign class"}],
   [Slide("new", "slide-0", << <<"ref", 2>> >>) EXCEPT !.text = "new"],
   [Slide("bad", Absent, <<>>) EXCEPT !.whole = FALSE]}

Names == <<"slide-0", "slide-1", "slide-2", "slide-3">>

-----------------------------------------------------------------------------
(* Diagrams: a column beside a spacer and a node, then the same nodes in other rows, or without columns. *)
Slot(kind, span, nodes) == [kind |-> kind, weight |-> span, nodes |-> nodes]
OneNode(id, span) == Slot("arch-node", span, << [id |-> id, weight |-> 1] >>)
Row(order, weight, slots) == [order |-> order, weight |-> weight, slots |-> slots]

Diagrams ==
  {[rows |-> << Row(0, 3, <<OneNode("a", 1)>>),
                Row(1, 37, <<Slot("arch-col", 1, << [id |-> "b", weight |-> 1], [id |-> "c", weight |-> 2] >>),
                            Slot("arch-spacer", 1, <<>>), OneNode("d", 2)>>) >>,
    lanes |-> {<<0, 0>>, <<0, 1>>}],
   [rows |-> << Row(2, 1, <<OneNode("c", 1), OneNode("b", 1)>>),
                Row(1, 1, <<Slot("arch-col", 3, << [id |-> "d", weight |-> 1], [id |-> "a", weight |-> 1] >>)>>) >>,
    lanes |-> {<<0, 1>>}],
   [rows |-> << Row(0, 1, <<OneNode("a", 1), OneNode("b", 1), OneNode("c", 1)>>), Row(1, 1, <<OneNode("d", 1)>>) >>, lanes |-> {}],
   [rows |-> <<>>, lanes |-> {}]}

Joined == {<<"a", "c">>, <<"c", "b">>, <<"b", "d">>, <<"c", "gone">>}

Dropped == {<<7050, 1230>>}

(* With the weights above rows begin and end at halves: 13.05 is written 13.1, and 86.95 is written 87.0. *)
Halves == 0..Full

-----------------------------------------------------------------------------
(* Renders: two files, and two ids that make one file name. *)
Stems == (deck1 :> "talk") @@ (deck2 :> "report")
FileNames == ("a/b" :> "a_b") @@ ("a_b" :> "a_b") @@ ("c" :> "c")
Shown3(id, key) == [id |-> id, key |-> key]
Lists ==
  {<<Shown3("a/b", 1), Shown3("a_b", 2), Shown3("c", 3)>>, <<Shown3("c", 3)>>, <<>>}

-----------------------------------------------------------------------------
(* Calls *)
Kinds == {"missing", "unnamed", "directory", "binary", "document", "deck", "template"}
Operations3 == {"outline", "get_slide", "lint", "new", "history", "restore", "requests", "complete", "templates"}
Call(ops, targets, inputs, options, fates) ==
  [op : ops, file : Kinds, target : targets, input : inputs, options : options, fate : fates]

EveryCall ==
  Call(Operations3, {"known", "unknown"}, {"good"}, {{}}, {"right", "fails", "problems"})
    \cup Call({"patch"}, {"known"}, {"good", "bad", "empty", "wrong type", "garbled"}, {{}, {"dry_run"}}, {"right", "fails"})
    \cup Call({"review"}, {"known"}, {"good", "bad", "wrong type", "garbled"}, {{}}, {"right", "fails"})
    \cup Call({"export"}, {"known", "unknown"}, {"good"}, {{}, {"docx"}}, {"right", "fails"})
    \cup Call({"render"}, {"none", "known", "unknown"}, {"good", "bad", "default"}, SUBSET {"scale", "report", "report_only"},
              {"right", "fails", "problems"})
    \cup Call({"layout"}, {"known"}, {"good"}, {{}}, {"right", "fails"})
    \cup Call({"skill"}, {"none", "known", "unknown"}, {"good"}, {{}, {"all"}}, {"right", "fails"})

-----------------------------------------------------------------------------
(* Two exports of the editor server's threads, and one of a process of its own. *)
Processes3 == [e \in Exports |-> IF e = command THEN "command" ELSE "server"]

(* Each part starts as it does when it is the one explored, else at one state. *)
MCInit ==
  /\ part \in Parts
  /\ CacheInit
  /\ Init /\ (part = "history" \/ file = Missing)
  /\ IF part = "deck" THEN DeckInit ELSE deck = Absent /\ read = NotRead /\ done = 0 /\ lastPatch = [do |-> "nothing"]
  /\ IF part = "layout" THEN ArchInit
     ELSE diagram = Unset /\ edges = <<>> /\ stored = <<>> /\ manual = {} /\ framed = <<>> /\ drawn = {} /\ edits = 0 /\ laid = FALSE
  /\ IF part = "render" THEN RenderInit
     ELSE slides = <<>> /\ pictures = <<>> /\ session = [s \in Sessions |-> Resting] /\ renders = 0 /\ changes = 0
  /\ IF part = "tools" THEN ToolInit ELSE call = NoAnswer /\ byTool = NoAnswer /\ byCommand = NoAnswer

PartNext ==
  \/ part = "history" /\ Next /\ UNCHANGED <<deckVars, archVars, renderVars, toolVars, cacheVars>>
  \/ part = "deck" /\ DeckNext /\ UNCHANGED <<vars, archVars, renderVars, toolVars, cacheVars>>
  \/ part = "layout" /\ ArchNext /\ UNCHANGED <<vars, deckVars, renderVars, toolVars, cacheVars>>
  \/ part = "render" /\ RenderNext /\ UNCHANGED <<vars, deckVars, archVars, toolVars, cacheVars>>
  \/ part = "tools" /\ CallBoth /\ UNCHANGED <<vars, deckVars, archVars, renderVars, cacheVars>>
  \/ part = "reference" /\ CacheNext /\ UNCHANGED <<vars, deckVars, archVars, renderVars, toolVars>>

MCNext == PartNext /\ part' = part

MCSpec == MCInit /\ [][MCNext]_<<documentParts, part>>

(* Nothing of the other parts, and the last patch is no part of a deck's state. *)
View ==
  CASE part = "history" -> <<part, vars>>
    [] part = "deck" -> <<part, deck, read, done>>
    [] part = "layout" -> <<part, archVars>>
    [] part = "render" -> <<part, renderVars>>
    [] part = "tools" -> <<part, toolVars>>
    [] part = "reference" -> <<part, cacheVars>>

Symmetry == Permutations(Writers) \cup Permutations(Contents)
=============================================================================
