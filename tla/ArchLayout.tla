----------------------------- MODULE ArchLayout -----------------------------
(***************************************************************************)
(* The layout of declarative architecture diagrams (arch_layout.py): rows  *)
(* of slots, a column stacking nodes in one slot, lanes around rows, edges *)
(* drawn by elements that carry the edge's id.  Authors write the topology,*)
(* people drag nodes, and layout_file runs again and again on the result.  *)
(* ArchRoutes says where a connector runs.                                 *)
(***************************************************************************)
EXTENDS ArchRoutes, FiniteSets, SequencesExt

CONSTANTS NodeIds,
          Topologies, \* what authors write: rows and lanes
          Ends,       \* the pairs of node ids an edge may join
          Drops,      \* where a dragged node may be dropped: data-x and data-y
          HalvesUp,   \* where a half is rounded up: in Python the nearest double decides
          MaxEdits,   \* bound: what authors and people change
          Unset

(* A column holds any number of nodes, a spacer none; weights are positive (_row_weight, _node_span). *)
Weight == Nat \ {0}
Slots == {s \in [kind : {"arch-node", "arch-col", "arch-spacer"}, weight : Weight, nodes : Seq([id : NodeIds, weight : Weight])] :
           s.kind = "arch-node" => Len(s.nodes) = 1}
Rows == [order : Int, weight : Weight, slots : Seq(Slots)]
Topology == [rows : Seq(Rows), lanes : SUBSET (Int \X Int)]
Boxes == [x : Int, y : Int, w : Int, h : Int]
Percents == {v \in 0..Full : v % 10 = 0} \* clampPct

ASSUME LayoutAssumption ==
  Topologies \subseteq Topology /\ Drops \subseteq Percents \X Percents /\ MaxEdits \in Nat /\ Unset \notin Boxes \cup Nat

VARIABLES diagram, \* the topology: rows and lanes
          edges,   \* the edges in document order: [key, from, to, id], id Unset before the first layout
          stored,  \* node -> data-x, data-y, data-width, data-height
          manual,  \* the nodes marked data-layout="manual"
          framed,  \* lane -> its box
          drawn,   \* what is drawn for edges: [of, key, course]
          edits, laid \* how many edits there were; history: nothing changed since the last layout

archVars == <<diagram, edges, stored, manual, framed, drawn, edits, laid>>

NestedGutter == 200
LanePadding == 300

(* The sum of the first n numbers, for each n. *)
Sums(numbers) ==
  LET sum[n \in 0..Len(numbers)] == IF n = 0 THEN 0 ELSE sum[n - 1] + numbers[n]
  IN  sum

(* Shares of whole by weight, with a gutter between two neighbours: <<start, size>> of each. *)
Distribute(weights, start, whole, gutter) ==
  LET available == Larger(0, whole - gutter * (Len(weights) - 1))
      total == Sums(weights)[Len(weights)]
      sizes == [i \in DOMAIN weights |-> (available * weights[i]) \div total]
      before == Sums(sizes)
  IN  [i \in DOMAIN weights |-> <<start + before[i - 1] + gutter * (i - 1), sizes[i]>>]

(* Rows go by data-row, those with the same one in document order. *)
RowsBefore(rows, i) ==
  {j \in DOMAIN rows : rows[j].order < rows[i].order \/ (rows[j].order = rows[i].order /\ j < i)}

RowAt(rows, r) == CHOOSE i \in DOMAIN rows : Cardinality(RowsBefore(rows, i)) = r - 1

RowsInOrder(rows) == [r \in DOMAIN rows |-> rows[RowAt(rows, r)]]

Weights(items) == [i \in DOMAIN items |-> items[i].weight]

Box(across, down) == [x |-> across[1], y |-> down[1], w |-> across[2], h |-> down[2]]

(* _resolve_row_slots, _compute_col_boxes: a node's box, and the column it is placed in, if any. *)
SlotPlaces(slot, frame, r) ==
  LET stack == Distribute(Weights(slot.nodes), frame.y, frame.h, NestedGutter)
  IN  CASE slot.kind = "arch-node" -> {[id |-> slot.nodes[1].id, row |-> r, box |-> frame, column |-> Unset]}
        [] slot.kind = "arch-col" -> {[id |-> slot.nodes[n].id, row |-> r, column |-> frame,
                                       box |-> Box(<<frame.x, frame.w>>, stack[n])] : n \in DOMAIN slot.nodes}
        [] slot.kind = "arch-spacer" -> {}

RowPlaces(row, r, down) ==
  LET across == Distribute(Weights(row.slots), 0, Full, ColGutter)
  IN  UNION {SlotPlaces(row.slots[s], Box(across[s], down), r) : s \in DOMAIN row.slots}

RowGeometry(d) == Distribute(Weights(RowsInOrder(d.rows)), 0, Full, RowGutter)

Places(d) == UNION {RowPlaces(RowsInOrder(d.rows)[r], r - 1, RowGeometry(d)[r]) : r \in DOMAIN d.rows}

(* Ids of nodes are distinct, as the engine wants them. *)
ASSUME IdAssumption == \A d \in Topologies : \A p, q \in Places(d) : p.id = q.id => p = q

(* A box inside a column is stored in hundredths of the column's own percents. *)
Percent(part, whole) == IF whole = 0 THEN 0 ELSE (part * Full) \div whole

(* Mutant: where the column begins is not taken off. *)
ToLocalUnshifted(box, column) ==
  [x |-> Percent(box.x, column.w), y |-> Percent(box.y, column.h),
   w |-> Percent(box.w, column.w), h |-> Percent(box.h, column.h)]

ToLocal(box, column) ==
  [x |-> Percent(box.x - column.x, column.w), y |-> Percent(box.y - column.y, column.h),
   w |-> Percent(box.w, column.w), h |-> Percent(box.h, column.h)]

FromLocal(box, column) ==
  [x |-> column.x + (box.x * column.w) \div Full, y |-> column.y + (box.y * column.h) \div Full,
   w |-> (box.w * column.w) \div Full, h |-> (box.h * column.h) \div Full]

(* round(v, ROUND_NDIGITS): what is written has one decimal. *)
Tenths(v) == 10 * ((v + (IF v \in HalvesUp THEN 5 ELSE 4)) \div 10)

Rounded(box) == [x |-> Tenths(box.x), y |-> Tenths(box.y), w |-> Tenths(box.w), h |-> Tenths(box.h)]

(* Where the browser shows a node: its column, as it was written, is the containing block of its nodes. *)
Shown(place, store) ==
  IF place.column = Unset THEN store[place.id] ELSE FromLocal(store[place.id], Rounded(place.column))

IsLocked(place) == place.id \in manual /\ stored[place.id] # Unset

(* _resolve_locked_box: read back in the column as it is computed. *)
Resolved(place) ==
  IF ~IsLocked(place) THEN place.box
  ELSE IF place.column = Unset THEN stored[place.id] ELSE FromLocal(stored[place.id], place.column)

(* _write_node_box: a node that was dragged is left as it is. *)
Written(place) ==
  IF place.id \in manual THEN stored[place.id]
  ELSE Rounded(IF place.column = Unset THEN place.box ELSE ToLocal(place.box, place.column))

Greatest(numbers) == CHOOSE n \in numbers : \A m \in numbers : n >= m

(* _layout_lane: lanes name rows by their position among the sorted rows, not by data-row. *)
Frame(lane, places, old) ==
  LET boxes == {Resolved(p) : p \in {q \in places : lane[1] <= q.row /\ q.row <= lane[2]}}
      left == Larger(0, Least({b.x : b \in boxes}) - LanePadding)
      top == Larger(0, Least({b.y : b \in boxes}) - LanePadding)
  IN  IF boxes = {} THEN old
      ELSE Rounded(Box(<<left, Smaller(Full, Greatest({b.x + b.w : b \in boxes}) + LanePadding) - left>>,
                       <<top, Smaller(Full, Greatest({b.y + b.h : b \in boxes}) + LanePadding) - top>>))

(* _ensure_edge_id: a count of its own in each run, which skips no id already given. *)
EdgesNamed ==
  [i \in DOMAIN edges |->
     IF edges[i].id # Unset THEN edges[i]
     ELSE [edges[i] EXCEPT !.id = Cardinality({j \in 1..(i - 1) : edges[j].id = Unset})]]

(* An edge of an unknown node is skipped, with what an earlier run drew for it. *)
Routable(edge, places) == {edge.from, edge.to} \subseteq {p.id : p \in places}

(* From the boxes as they are resolved, and around those of all other nodes. *)
CourseOf(edge) ==
  LET places == Places(diagram)
      from == CHOOSE p \in places : p.id = edge.from
      to == CHOOSE p \in places : p.id = edge.to
  IN  Route(Resolved(from), Resolved(to), from.row = to.row, RowGeometry(diagram)[from.row + 1],
            {Resolved(p) : p \in places \ {from, to}})

(* _clear_edge_decoration, _render_edge: edge by edge, what carries its id goes and its own is *)
(* drawn, so that of edges with one id the last one's stays.                                   *)
Drawn(named) ==
  LET routed == {i \in DOMAIN named : Routable(named[i], Places(diagram))}
      last == {i \in routed : \A j \in routed : named[j].id = named[i].id => j <= i}
  IN  {e \in drawn : \A i \in routed : e.of # named[i].id}
        \cup {[of |-> named[i].id, key |-> named[i].key, course |-> CourseOf(named[i])] : i \in last}

(* layout_file: a diagram without rows is a legacy one and not written. *)
Layout ==
  LET places == Places(diagram)
  IN  /\ diagram.rows # <<>> /\ ~laid
      /\ stored' = [id \in DOMAIN stored |->
                      IF \E p \in places : p.id = id THEN Written(CHOOSE p \in places : p.id = id) ELSE stored[id]]
      /\ framed' = [lane \in DOMAIN framed |-> IF lane \in diagram.lanes THEN Frame(lane, places, framed[lane]) ELSE Unset]
      /\ edges' = EdgesNamed
      /\ drawn' = Drawn(EdgesNamed)
      /\ laid' = TRUE
      /\ UNCHANGED <<diagram, manual, edits>>

Edited == edits < MaxEdits /\ edits' = edits + 1 /\ laid' = FALSE

(* An author writes an edge, with no id, anywhere among the others. *)
AuthorEdge(ends, at) ==
  /\ Edited
  /\ edges' = InsertAt(edges, at, [key |-> edits, from |-> ends[1], to |-> ends[2], id |-> Unset])
  /\ UNCHANGED <<diagram, stored, manual, framed, drawn>>

(* An author takes an edge out; what was drawn for it stays. *)
AuthorRemoves(at) ==
  /\ Edited
  /\ edges' = RemoveAt(edges, at)
  /\ UNCHANGED <<diagram, stored, manual, framed, drawn>>

AuthorTopology(d) ==
  /\ Edited /\ diagram' = d
  /\ UNCHANGED <<edges, stored, manual, framed, drawn>>

(* A drag in the editor moves the node, which keeps its size, and marks it manual. *)
Drag(id, at) ==
  /\ Edited /\ laid /\ stored[id] # Unset
  /\ stored' = [stored EXCEPT ![id].x = at[1], ![id].y = at[2]] /\ manual' = manual \cup {id}
  /\ UNCHANGED <<diagram, edges, framed, drawn>>

Lanes == UNION {d.lanes : d \in Topologies}

ArchInit ==
  /\ diagram \in Topologies /\ edges = <<>> /\ stored = [id \in NodeIds |-> Unset] /\ manual = {}
  /\ framed = [lane \in Lanes |-> Unset] /\ drawn = {} /\ edits = 0 /\ laid = FALSE

ArchNext ==
  \/ Layout
  \/ \E ends \in Ends, at \in 1..(Len(edges) + 1) : AuthorEdge(ends, at)
  \/ \E at \in DOMAIN edges : AuthorRemoves(at)
  \/ \E d \in Topologies : AuthorTopology(d)
  \/ \E id \in NodeIds, at \in Drops : Drag(id, at)

ArchSpec == ArchInit /\ [][ArchNext]_archVars

-----------------------------------------------------------------------------
Inside(inner, outer) ==
  outer.x <= inner.x /\ inner.x + inner.w <= outer.x + outer.w /\ outer.y <= inner.y /\ inner.y + inner.h <= outer.y + outer.h

(* What rounding adds at most: a tenth for each of the two written values an edge is the sum of, as *)
(* far as it is written, and another one in a column, which is written too.                          *)
DiagramSlack == 20
LaneSlack == 30

Grown(slack, box) == [box EXCEPT !.w = @ + slack, !.h = @ + slack]

(* After a layout no two nodes it placed overlap where the browser shows them, they are inside   *)
(* the diagram, and each lane holds the nodes of its rows, both but for what rounding to one      *)
(* decimal adds at the right and the bottom: through columns, spacers, rows that move and drags    *)
(* (_resolve_row_slots, _to_local, _write_node_box, _layout_lane).  Nodes have distinct ids.       *)
NodesApart ==
  laid =>
    LET placed == {p \in Places(diagram) : p.id \notin manual}
    IN  /\ \A p, q \in placed : p # q => ~Overlap(Shown(p, stored), Shown(q, stored))
        /\ \A p \in placed : Inside(Shown(p, stored), Grown(DiagramSlack, Box(<<0, Full>>, <<0, Full>>)))
        /\ \A lane \in diagram.lanes, p \in placed :
             lane[1] <= p.row /\ p.row <= lane[2] => Inside(Shown(p, stored), Grown(LaneSlack, framed[lane]))

(* After a layout every edge between two nodes of the diagram has its own arrow, exactly once,  *)
(* whatever was laid out before: what _ensure_edge_id promises of the ids it hands out.          *)
EveryEdgeIsDrawn ==
  laid => \A i \in DOMAIN edges :
            Routable(edges[i], Places(diagram)) => Cardinality({e \in drawn : e.key = edges[i].key}) = 1

EndPoints(segment) ==
  {<<segment.x, segment.y>>,
   IF segment.axis = "h" THEN <<segment.x + segment.length, segment.y>> ELSE <<segment.x, segment.y + segment.length>>}

OnBorder(point, box) ==
  /\ Inside(Box(<<point[1], 0>>, <<point[2], 0>>), box)
  /\ point[1] \in {box.x, Right(box)} \/ point[2] \in {box.y, Bottom(box)}

(* The pieces are joined from somewhere on source to the tip, which touches target.  The tip *)
(* may be beside the end by as much as the middles of two aligned boxes differ.              *)
Reaches(course, source, target) ==
  LET pieces == course.segments
  IN  /\ pieces # <<>>
      /\ \E point \in EndPoints(pieces[1]) : Inside(Box(<<point[1], 0>>, <<point[2], 0>>), source)
      /\ \A i \in 1..(Len(pieces) - 1) : EndPoints(pieces[i]) \cap EndPoints(pieces[i + 1]) # {}
      /\ \E point \in EndPoints(pieces[Len(pieces)]) : point[2] = course.y /\ Distance(point[1], course.x) < Tolerance
      /\ OnBorder(<<course.x, course.y>>, target)

(* Every connector that is drawn between two nodes and cuts through no other one runs from its   *)
(* source to its target in one piece, however it had to go around (_route_edge, _best_detour);   *)
(* and in a diagram of rows without columns none does cut through a node unless it skips a row.  *)
(* Not so in a diagram of one row, which has no room above or below it, nor once a person        *)
(* dragged nodes.                                                                                *)
ConnectorsReach ==
  laid /\ manual = {} =>
    \A i \in DOMAIN edges, e \in drawn :
      e.key = edges[i].key /\ edges[i].from # edges[i].to /\ Routable(edges[i], Places(diagram)) =>
        LET placed == Places(diagram)
            from == CHOOSE p \in placed : p.id = edges[i].from
            to == CHOOSE p \in placed : p.id = edges[i].to
            others == {p.box : p \in placed \ {from, to}}
        IN  /\ Reaches(e.course, from.box, to.box) \/ Crosses(e.course, others)
            /\ Len(diagram.rows) > 1 /\ (\A p \in placed : p.column = Unset) /\ Distance(from.row, to.row) <= 1
                 => ~Crosses(e.course, others)
=============================================================================
