------------------------ MODULE RequestRecordProofs -------------------------
(***************************************************************************)
(* Proofs about the request record and the panel that shows it, for any    *)
(* number of processes, fetches and suggestions, any limit on pending      *)
(* requests and any reviews; and that the store implements the log of      *)
(* RequestLog, whatever dies or fails on the way: every step of an         *)
(* operation is a step of the log or is invisible.                         *)
(***************************************************************************)
EXTENDS RequestPanel, FiniteSetTheorems, TLAPS

PendingIds(r) == {i \in Ids(r) : r.requests[i].status = "pending"}

(* A record as the rules need it: RecordOK without the bound on its numbers. *)
Lists == UNION {[S -> Request] : S \in SUBSET Nat}

Form == [nextId : Nat \ {0}, revision : Nat, requests : Lists, review : Marks \cup {None}]

Formed(r) == r \in Form /\ Ids(r) \subseteq 1..r.nextId - 1

Bound == MaxId + Cardinality(Clients) + 1

LEMMA BoundType == MaxId \in Nat /\ Cardinality(Clients) \in Nat /\ Bound \in Nat
BY ClientsAssumption, FS_CardinalityType DEF Bound

(* The requests of a record are a function from its ids. *)
LEMMA RequestsType ==
  ASSUME NEW r, r.requests \in Lists
  PROVE  r.requests \in [Ids(r) -> Request]
BY DEF Lists, Ids

LEMMA FormedIsOK ==
  ASSUME NEW r
  PROVE  RecordOK(r) <=> Formed(r) /\ r.nextId <= Bound
<1> USE BoundType
<1>1. ASSUME RecordOK(r) PROVE Formed(r) /\ r.nextId <= Bound
  <2>1. r \in Record /\ Ids(r) \subseteq 1..r.nextId - 1
    BY <1>1 DEF RecordOK
  <2>2. Numbers \subseteq Nat
    BY DEF Numbers
  <2>3. r.requests \in Lists
    BY <2>1, <2>2 DEF Record, Lists
  <2>4. r.nextId \in Nat \ {0} /\ r.nextId <= Bound
    BY <2>1 DEF Record, Numbers, Bound
  <2>5. r \in Form
    BY <2>1, <2>3, <2>4 DEF Record, Form
  <2> QED BY <2>1, <2>4, <2>5 DEF Formed
<1>2. ASSUME Formed(r), r.nextId <= Bound PROVE RecordOK(r)
  <2>1. r.nextId \in Numbers \cup {MaxId + Cardinality(Clients) + 1} /\ Ids(r) \subseteq Numbers
    BY <1>2 DEF Formed, Form, Numbers, Bound
  <2>2. r.requests \in UNION {[S -> Request] : S \in SUBSET Numbers}
    BY <1>2, <2>1, RequestsType DEF Formed, Form
  <2>3. r \in Record
    BY <1>2, <2>1, <2>2 DEF Formed, Form, Record
  <2> QED BY <1>2, <2>3 DEF RecordOK, Formed
<1> QED BY <1>1, <1>2

(* Only finitely many requests wait. *)
LEMMA PendingFinite ==
  ASSUME NEW r, Formed(r)
  PROVE  IsFiniteSet(PendingIds(r)) /\ Pending(r) = Cardinality(PendingIds(r)) /\ Pending(r) \in Nat
<1>1. IsFiniteSet(1..r.nextId - 1)
  BY FS_Interval DEF Formed, Form
<1>2. PendingIds(r) \in SUBSET (1..r.nextId - 1)
  BY DEF Formed, PendingIds
<1>3. IsFiniteSet(PendingIds(r))
  BY <1>1, <1>2, FS_Subset
<1> QED BY <1>3, FS_CardinalityType DEF Pending, PendingIds

(* What an operation makes of a well formed record: one id at most, the next, and no pending *)
(* request above the limit.                                                                    *)
Grown(r, q) ==
  /\ Formed(q)
  /\ q.nextId \in {r.nextId, r.nextId + 1}
  /\ q.revision = r.revision
  /\ \A i \in Ids(q) \ Ids(r) : i = r.nextId /\ q.nextId = r.nextId + 1
  /\ Pending(r) <= PendingMax => Pending(q) <= PendingMax

LEMMA AppendedGrows ==
  ASSUME NEW r, Formed(r), NEW from \in Suggestions \cup {None}, QueueError(r) = None
  PROVE  Grown(r, Appended(r, from)) /\ Appended(r, from).review = r.review
           /\ Appended(r, from) # r
<1> DEFINE q == Appended(r, from)
           new == [status |-> "pending", from |-> from]
<1>1. /\ q.nextId = r.nextId + 1 /\ q.revision = r.revision /\ q.review = r.review
      /\ q.requests = [i \in Ids(r) \cup {r.nextId} |-> IF i = r.nextId THEN new ELSE r.requests[i]]
  BY DEF Formed, Form, Appended
<1>2. Ids(q) = Ids(r) \cup {r.nextId}
  BY <1>1 DEF Ids
<1>3. new \in Request
  BY DEF Request
<1>4. q.requests \in Lists
  <2>1. q.requests \in [Ids(r) \cup {r.nextId} -> Request]
    BY <1>1, <1>3, RequestsType DEF Formed, Form
  <2>2. Ids(r) \cup {r.nextId} \in SUBSET Nat
    BY DEF Formed, Form
  <2> QED BY <2>1, <2>2 DEF Lists
<1>5. Ids(q) \subseteq 1..q.nextId - 1
  BY <1>1, <1>2 DEF Formed, Form
<1>6. Formed(q)
  <2> DEFINE list == [i \in Ids(r) \cup {r.nextId} |-> IF i = r.nextId THEN new ELSE r.requests[i]]
  <2>1. list \in Lists /\ r \in Form /\ r.nextId + 1 \in Nat \ {0}
    BY <1>1, <1>4 DEF Formed, Form
  <2>2. q = [r EXCEPT !.nextId = r.nextId + 1, !.requests = list]
    BY DEF Appended
  <2> HIDE DEF list
  <2>3. q \in Form
    BY <2>1, <2>2 DEF Form
  <2> QED BY <1>5, <2>3 DEF Formed
<1> HIDE DEF q
<1>7. Pending(r) < PendingMax
  <2>1. ~(Pending(r) >= PendingMax)
    BY RulesAssumption DEF QueueError, Errors
  <2> QED BY <2>1, PendingFinite, RulesAssumption
<1>8. PendingIds(q) = PendingIds(r) \cup {r.nextId}
  BY <1>1, <1>2 DEF PendingIds, Formed, Form
<1>9. Pending(q) <= Pending(r) + 1
  BY <1>6, <1>8, PendingFinite, FS_AddElement
<1>10. Pending(q) <= PendingMax
  BY <1>6, <1>7, <1>9, PendingFinite, RulesAssumption
<1>11. q # r
  BY <1>1 DEF Formed, Form
<1> QED BY <1>1, <1>2, <1>6, <1>10, <1>11 DEF Grown, q
LEMMA FewerPending ==
  ASSUME NEW r, NEW q, Formed(r), Formed(q), PendingIds(q) \subseteq PendingIds(r)
  PROVE  Pending(r) <= PendingMax => Pending(q) <= PendingMax
<1>1. Pending(q) <= Pending(r)
  BY PendingFinite, FS_Subset
<1> QED BY <1>1, PendingFinite, RulesAssumption

LEMMA FinishedGrows ==
  ASSUME NEW r, Formed(r), NEW op, op.id \in Ids(r), op.status \in {"done", "skipped"}
  PROVE  Grown(r, Finished(r, op)) /\ Finished(r, op).review = r.review
<1> DEFINE q == Finished(r, op)
           list == [r.requests EXCEPT ![op.id].status = op.status]
<1>1. r \in Form /\ r.requests \in [Ids(r) -> Request] /\ Ids(r) \in SUBSET Nat
  BY RequestsType DEF Formed, Form
<1>2. /\ list \in [Ids(r) -> Request] /\ list[op.id].status = op.status
      /\ \A i \in Ids(r) \ {op.id} : list[i] = r.requests[i]
  BY <1>1 DEF Request
<1>3. list \in Lists
  BY <1>1, <1>2 DEF Lists
<1>4. q = [r EXCEPT !.requests = list]
  BY <1>1 DEF Finished, Form
<1> HIDE DEF list, q
<1>5. q \in Form /\ q.requests = list /\ q.nextId = r.nextId /\ q.revision = r.revision
        /\ q.review = r.review
  BY <1>1, <1>3, <1>4 DEF Form
<1>6. Ids(q) = Ids(r)
  BY <1>2, <1>5 DEF Ids
<1>7. Formed(q)
  BY <1>5, <1>6 DEF Formed
<1>8. PendingIds(q) \subseteq PendingIds(r)
  <2> SUFFICES ASSUME NEW i \in PendingIds(q) PROVE i \in PendingIds(r)
    OBVIOUS
  <2>1. i \in Ids(r) /\ list[i].status = "pending"
    BY <1>5, <1>6 DEF PendingIds
  <2>2. i # op.id
    BY <1>2, <2>1
  <2> QED BY <1>2, <2>1, <2>2 DEF PendingIds
<1>9. Grown(r, q)
  BY <1>5, <1>6, <1>7, <1>8, FewerPending DEF Grown
<1> QED BY <1>5, <1>9 DEF q

LEMMA DeletedGrows ==
  ASSUME NEW r, Formed(r), NEW op
  PROVE  Grown(r, Deleted(r, op)) /\ Deleted(r, op).review = r.review
<1> DEFINE q == Deleted(r, op)
           list == [i \in Ids(r) \ {op.id} |-> r.requests[i]]
<1>1. r \in Form /\ r.requests \in [Ids(r) -> Request] /\ Ids(r) \in SUBSET Nat
  BY RequestsType DEF Formed, Form
<1>2. list \in [Ids(r) \ {op.id} -> Request] /\ Ids(r) \ {op.id} \in SUBSET Nat
  BY <1>1
<1>3. list \in Lists
  BY <1>2 DEF Lists
<1>4. q = [r EXCEPT !.requests = list]
  BY DEF Deleted
<1>5. q \in Form /\ q.requests = list /\ q.nextId = r.nextId /\ q.revision = r.revision
        /\ q.review = r.review
  <2> HIDE DEF list, q
  <2> QED BY <1>1, <1>3, <1>4 DEF Form
<1>6. Ids(q) = Ids(r) \ {op.id} /\ \A i \in Ids(q) : q.requests[i] = r.requests[i]
  BY <1>5 DEF Ids
<1> HIDE DEF list, q
<1>7. Formed(q)
  BY <1>5, <1>6 DEF Formed
<1>8. PendingIds(q) \subseteq PendingIds(r)
  BY <1>6 DEF PendingIds
<1>9. Grown(r, q)
  BY <1>5, <1>6, <1>7, <1>8, FewerPending DEF Grown
<1> QED BY <1>5, <1>9 DEF q

(* Only the review changes. *)
LEMMA RemarkedGrows ==
  ASSUME NEW r, Formed(r), NEW marks \in Marks \cup {None}
  PROVE  LET q == [r EXCEPT !.review = marks]
         IN  Grown(r, q) /\ q.review = marks /\ q.nextId = r.nextId /\ Ids(q) = Ids(r)
<1> DEFINE q == [r EXCEPT !.review = marks]
<1>1. q \in Form /\ q.requests = r.requests /\ q.nextId = r.nextId /\ q.revision = r.revision
        /\ q.review = marks
  BY DEF Formed, Form
<1> HIDE DEF q
<1>2. Ids(q) = Ids(r) /\ PendingIds(q) = PendingIds(r)
  BY <1>1 DEF Ids, PendingIds
<1>3. Grown(r, q)
  BY <1>1, <1>2, FewerPending DEF Grown, Formed
<1> QED BY <1>1, <1>2, <1>3 DEF q

LEMMA AppliedGrows ==
  ASSUME NEW r, Formed(r), NEW op, op.of \in Suggestions, ApplyError(r, op) = None
  PROVE  /\ Grown(r, Applied(r, op)) /\ Applied(r, op) # r
         /\ HasSuggestion(r, op.of) /\ ~r.review[op.of]
         /\ Applied(r, op).review = [r.review EXCEPT ![op.of] = TRUE]
         /\ r.review \in Marks
<1> DEFINE a == Appended(r, op.of)
           marks == [r.review EXCEPT ![op.of] = TRUE]
<1>1. HasSuggestion(r, op.of) /\ ~r.review[op.of] /\ QueueError(r) = None
  BY RulesAssumption DEF ApplyError, Errors
<1>2. Grown(r, a) /\ a.review = r.review
  BY <1>1, AppendedGrows
<1>3. r.review \in Marks /\ a \in Form /\ Formed(a)
  BY <1>1, <1>2 DEF Formed, Form, HasSuggestion, Grown
<1>4. PICK S \in SUBSET Suggestions : r.review \in [S -> BOOLEAN]
  BY <1>3 DEF Marks
<1>5. marks \in [S -> BOOLEAN]
  BY <1>1, <1>4 DEF HasSuggestion
<1>6. marks \in Marks
  BY <1>5 DEF Marks
<1>7. Applied(r, op) = [a EXCEPT !.review = marks]
  BY <1>2, <1>3 DEF Applied, Form
<1> HIDE DEF a, marks
<1> DEFINE q == [a EXCEPT !.review = marks]
<1>8. Grown(a, q) /\ q.review = marks /\ q.nextId = a.nextId /\ Ids(q) = Ids(a)
  BY <1>3, <1>6, RemarkedGrows
<1> HIDE DEF q
<1>9. Grown(r, q)
  BY <1>2, <1>3, <1>8 DEF Grown
<1>10. q # r
  <2>1. marks[op.of] # r.review[op.of]
    BY <1>1, <1>4 DEF HasSuggestion, marks
  <2> QED BY <1>8, <2>1
<1> QED BY <1>1, <1>3, <1>7, <1>8, <1>9, <1>10 DEF q, marks

(* What the calls of the store may ask for. *)
LEMMA OpKinds ==
  ASSUME NEW op \in Ops
  PROVE  /\ op.do \in {"queue", "complete", "delete", "review", "apply"}
         /\ op.do = "review" => op.of \subseteq Suggestions
         /\ op.do = "apply" => op.of \in Suggestions
<1>1. CASE op = QueueOp
  BY <1>1 DEF QueueOp
<1>2. CASE \E i \in 1..MaxId : op = DeleteOp(i)
  BY <1>2 DEF DeleteOp
<1>3. CASE \E s \in Suggestions : op = ApplyOp(s)
  BY <1>3 DEF ApplyOp
<1>4. CASE \E raw \in Reviews : op = ReviewOp(raw)
  <2>1. PICK raw \in Reviews : op = ReviewOp(raw)
    BY <1>4
  <2> DEFINE Raw == [id : Suggestions, sound : BOOLEAN]
  <2>2. raw \in Seq(Raw)
    BY ClientsAssumption
  <2> HIDE DEF Raw
  <2>3. \A i \in DOMAIN raw : raw[i] \in Raw
    BY <2>2
  <2>4. \A i \in DOMAIN raw : raw[i].id \in Suggestions
    BY <2>3 DEF Raw
  <2> QED BY <2>1, <2>4 DEF ReviewOp
<1>5. CASE \E i \in 1..MaxId, v \in Verdicts : op = CompleteOp(i, v.status, v.blank)
  BY <1>5 DEF CompleteOp
<1> QED BY <1>1, <1>2, <1>3, <1>4, <1>5 DEF Ops

(* What the change of an operation does to the review. *)
Remarked(r, q, op) ==
  /\ op.do = "review" => q.review = [s \in op.of |-> FALSE]
  /\ op.do = "apply" => /\ op.of \in Suggestions /\ HasSuggestion(r, op.of) /\ ~r.review[op.of]
                        /\ q.review = [r.review EXCEPT ![op.of] = TRUE]
  /\ op.do \notin {"review", "apply"} => q.review = r.review

LEMMA ChangeGrows ==
  ASSUME NEW r, Formed(r), NEW op \in Ops, Error(r, op) = None
  PROVE  Grown(r, Change(r, op)) /\ Remarked(r, Change(r, op), op)
<1> DEFINE q == Change(r, op)
<1>1. CASE op.do = "queue"
  <2>1. q = Appended(r, None) /\ QueueError(r) = None
    BY <1>1 DEF Change, Error
  <2>2. Grown(r, q) /\ q.review = r.review
    BY <2>1, AppendedGrows
  <2> QED BY <1>1, <2>2 DEF Remarked
<1>2. CASE op.do = "complete"
  <2>1. q = Finished(r, op) /\ CompleteError(r, op) = None
    BY <1>2 DEF Change, Error
  <2>2. op.id \in Ids(r) /\ op.status \in {"done", "skipped"}
    BY <2>1, RulesAssumption DEF CompleteError, Errors
  <2>3. Grown(r, q) /\ q.review = r.review
    BY <2>1, <2>2, FinishedGrows
  <2> QED BY <1>2, <2>3 DEF Remarked
<1>3. CASE op.do = "delete"
  <2>1. q = Deleted(r, op)
    BY <1>3 DEF Change
  <2>2. Grown(r, q) /\ q.review = r.review
    BY <2>1, DeletedGrows
  <2> QED BY <1>3, <2>2 DEF Remarked
<1>4. CASE op.do = "review"
  <2> DEFINE marks == [s \in op.of |-> FALSE]
  <2>1. q = [r EXCEPT !.review = marks]
    BY <1>4 DEF Change, Reviewed
  <2>2. marks \in Marks
    BY <1>4, OpKinds DEF Marks
  <2> HIDE DEF q, marks
  <2>3. Grown(r, q) /\ q.review = marks
    BY <2>1, <2>2, RemarkedGrows
  <2> QED BY <1>4, <2>3 DEF Remarked, q, marks
<1>5. CASE op.do = "apply"
  <2>1. q = Applied(r, op) /\ ApplyError(r, op) = None /\ op.of \in Suggestions
    BY <1>5, OpKinds DEF Change, Error
  <2> HIDE DEF q
  <2>2. /\ Grown(r, q) /\ HasSuggestion(r, op.of) /\ ~r.review[op.of]
        /\ q.review = [r.review EXCEPT ![op.of] = TRUE]
    BY <2>1, AppliedGrows
  <2> QED BY <1>5, <2>1, <2>2 DEF Remarked, q
<1> QED BY <1>1, <1>2, <1>3, <1>4, <1>5, OpKinds

(* The record q comes after r: no number of r means something else in q. *)
Succeeds(q, r) ==
  /\ q.nextId >= r.nextId
  /\ \A i \in Ids(q) \ Ids(r) : i >= r.nextId
  /\ q # r => q.revision > r.revision

Advanced(r, q, op) ==
  /\ Formed(q) /\ Succeeds(q, r) /\ Remarked(r, q, op)
  /\ q.nextId \in {r.nextId, r.nextId + 1}
  /\ Pending(r) <= PendingMax => Pending(q) <= PendingMax

(* update: what the store leaves when the operation is not refused. *)
LEMMA UpdatedGrows ==
  ASSUME NEW r, Formed(r), NEW op \in Ops, Error(r, op) = None
  PROVE  Advanced(r, Updated(r, op), op)
<1> DEFINE c == Change(r, op)
           q == Updated(r, op)
<1>1. Grown(r, c) /\ Remarked(r, c, op)
  BY ChangeGrows
<1>2. q = IF c = r THEN r ELSE [c EXCEPT !.revision = r.revision + 1]
  BY DEF Updated
<1> SUFFICES Advanced(r, q, op)
  OBVIOUS
<1> HIDE DEF c, q
<1>3. CASE c = r
  <2>1. q = r /\ r.nextId \in Nat
    BY <1>2, <1>3 DEF Formed, Form
  <2>2. Succeeds(q, r)
    BY <2>1 DEF Succeeds
  <2> QED BY <1>1, <1>3, <2>1, <2>2 DEF Advanced
<1>4. CASE c # r
  <2>1. c \in Form /\ r \in Form /\ r.revision \in Nat
    BY <1>1 DEF Grown, Formed, Form
  <2>2. q \in Form /\ q.nextId = c.nextId /\ q.requests = c.requests /\ q.review = c.review
          /\ q.revision = r.revision + 1
    BY <1>2, <1>4, <2>1 DEF Form
  <2>3. Ids(q) = Ids(c) /\ PendingIds(q) = PendingIds(c)
    BY <2>2 DEF Ids, PendingIds
  <2>4. Formed(q)
    BY <1>1, <2>2, <2>3 DEF Formed, Grown
  <2>5. Succeeds(q, r)
    BY <1>1, <2>1, <2>2, <2>3 DEF Succeeds, Grown, Form
  <2>6. Remarked(r, q, op)
    BY <1>1, <2>2 DEF Remarked
  <2>7. Pending(q) = Pending(c)
    BY <2>3, <2>4, <1>1, PendingFinite DEF Grown
  <2> QED BY <1>1, <2>2, <2>4, <2>5, <2>6, <2>7 DEF Grown, Advanced
<1> QED BY <1>3, <1>4

-----------------------------------------------------------------------------
(* The record and the operations on it *)

Steps == {"idle", "asked", "locked", "read", "written", "answered"}

Working == {"asked", "locked", "read", "written"}

Task == [at : Steps, op : Ops \cup {None}, copy : Form \cup {None}, error : Errors \cup {None}]

(* Those that may still take a number. *)
UnderWay == {c \in Clients : work[c].at \in {"asked", "locked", "read"}}

StoreType ==
  /\ work \in [Clients -> Task]
  /\ disk # Broken => Formed(disk)
  /\ applies \in [Suggestions -> Nat]

(* The flock has one owner. *)
OneHolds == \A c, d \in Clients : Holds(c) /\ Holds(d) => c = d

(* What was read under the lock is what is on disk; nothing read is kept beyond the lock. *)
CopyIsCurrent ==
  \A c \in Clients : IF work[c].at = "read" THEN work[c].copy = disk /\ disk # Broken
                                            ELSE work[c].copy = None

WorkNamesOp == \A c \in Clients : work[c].at \in Working => work[c].op \in Ops /\ work[c].error = None

(* Every operation under way has a number set aside for it. *)
NumbersSuffice == disk # Broken => disk.nextId + Cardinality(UnderWay) <= Bound

StoreInv ==
  /\ StoreType /\ OneHolds /\ CopyIsCurrent /\ WorkNamesOp /\ NumbersSuffice
  /\ PendingBounded /\ AppliedOnce

LEMMA UnderWayFinite == IsFiniteSet(UnderWay) /\ Cardinality(UnderWay) \in Nat
                          /\ Cardinality(UnderWay) <= Cardinality(Clients)
<1>1. UnderWay \in SUBSET Clients
  BY DEF UnderWay
<1> QED BY <1>1, ClientsAssumption, FS_Subset, FS_CardinalityType

(* A step of one client that leaves the record alone. *)
LEMMA WorkMoves ==
  ASSUME StoreInv, NEW c \in Clients, NEW me \in Task,
         work' = [work EXCEPT ![c] = me], UNCHANGED <<disk, applies>>,
         me.at \in {"locked", "read", "written"} => Holds(c) \/ \A d \in Clients : ~Holds(d),
         IF me.at = "read" THEN me.copy = disk /\ disk # Broken ELSE me.copy = None,
         me.at \in Working => me.op \in Ops /\ me.error = None,
         me.at \in {"asked", "locked", "read"} /\ c \notin UnderWay /\ disk # Broken => disk.nextId <= MaxId
  PROVE  StoreInv'
<1> USE DEF StoreInv
<1>1. work'[c] = me /\ \A d \in Clients \ {c} : work'[d] = work[d]
  BY DEF StoreType
<1>2. StoreType'
  BY DEF StoreType
<1>3. OneHolds'
  BY <1>1 DEF OneHolds, Holds
<1>4. CopyIsCurrent' /\ WorkNamesOp'
  BY <1>1 DEF CopyIsCurrent, WorkNamesOp
<1>5. NumbersSuffice'
  <2> SUFFICES ASSUME disk # Broken PROVE disk.nextId + Cardinality(UnderWay') <= Bound
    BY DEF NumbersSuffice
  <2>1. disk.nextId \in Nat /\ disk.nextId + Cardinality(UnderWay) <= Bound
    BY DEF NumbersSuffice, StoreType, Formed, Form
  <2>2. /\ UnderWay' \in SUBSET Clients /\ IsFiniteSet(UnderWay')
        /\ Cardinality(UnderWay') \in Nat /\ Cardinality(UnderWay') <= Cardinality(Clients)
    <3>1. UnderWay' \in SUBSET Clients
      BY DEF UnderWay
    <3> QED BY <3>1, ClientsAssumption, FS_Subset, FS_CardinalityType
  <2>3. CASE me.at \in {"asked", "locked", "read"} /\ c \notin UnderWay
    BY <2>1, <2>2, <2>3, BoundType DEF Bound
  <2>4. CASE me.at \notin {"asked", "locked", "read"} \/ c \in UnderWay
    <3>1. UnderWay' \subseteq UnderWay
      BY <1>1, <2>4 DEF UnderWay
    <3>2. Cardinality(UnderWay') <= Cardinality(UnderWay)
      BY <3>1, UnderWayFinite, FS_Subset
    <3> QED BY <2>1, <2>2, <3>2, UnderWayFinite, BoundType
  <2> QED BY <2>3, <2>4
<1>6. PendingBounded' /\ AppliedOnce'
  BY DEF PendingBounded, Pending, Ids, AppliedOnce, HasSuggestion
<1> QED BY <1>2, <1>3, <1>4, <1>5, <1>6

LEMMA CallInv ==
  ASSUME StoreInv, NEW c \in Clients, NEW op \in Ops, Call(c, op) PROVE StoreInv'
<1> DEFINE me == [work[c] EXCEPT !.at = "asked", !.op = op]
<1>1. work[c] \in Task /\ work[c].at = "idle" /\ work[c].copy = None /\ work[c].error = None
  BY DEF Call, Idle, StoreInv, StoreType
<1>2. /\ me \in Task /\ me.at = "asked" /\ me.op = op /\ me.copy = None /\ me.error = None
      /\ work' = [work EXCEPT ![c] = me]
  BY <1>1 DEF Call, Task, Steps
<1> HIDE DEF me
<1> QED BY <1>2, WorkMoves DEF Call, Unreadable

LEMMA AnswerInv ==
  ASSUME StoreInv, NEW c \in Clients, NEW error \in Errors \cup {None},
         Answer(c, error), UNCHANGED <<disk, applies>>
  PROVE  StoreInv'
<1> DEFINE me == [work[c] EXCEPT !.at = "answered", !.error = error, !.copy = None]
<1>1. work[c] \in Task /\ work \in [Clients -> Task]
  BY DEF StoreInv, StoreType
<1>2. /\ me \in Task /\ me.at = "answered" /\ me.copy = None
      /\ work' = [work EXCEPT ![c] = me]
  BY <1>1 DEF Answer, Task, Steps
<1> HIDE DEF me
<1> QED BY <1>2, WorkMoves DEF Working

LEMMA RefusedInv ==
  ASSUME StoreInv, NEW c \in Clients, Refused(c) PROVE StoreInv'
<1> DEFINE me == [work[c] EXCEPT !.at = "answered", !.error = "invalid"]
<1>1. work[c] \in Task /\ work[c].copy = None
  BY DEF Refused, Idle, StoreInv, StoreType
<1>2. /\ me \in Task /\ me.at = "answered" /\ me.copy = None
      /\ work' = [work EXCEPT ![c] = me]
  BY <1>1 DEF Refused, Task, Steps, Errors
<1> HIDE DEF me
<1> QED BY <1>2, WorkMoves DEF Refused, Working

LEMMA AcquireInv ==
  ASSUME StoreInv, NEW c \in Clients, Acquire(c) PROVE StoreInv'
<1> DEFINE me == [work[c] EXCEPT !.at = "locked"]
<1>1. /\ work[c] \in Task /\ work[c].at = "asked" /\ work[c].op \in Ops /\ work[c].error = None
      /\ work[c].copy = None /\ c \in UnderWay
  BY DEF Acquire, StoreInv, StoreType, WorkNamesOp, Working, CopyIsCurrent, UnderWay
<1>2. /\ me \in Task /\ me.at = "locked" /\ me.copy = None /\ me.op \in Ops /\ me.error = None
      /\ work' = [work EXCEPT ![c] = me]
  BY <1>1 DEF Acquire, Task, Steps
<1> HIDE DEF me
<1> QED BY <1>1, <1>2, WorkMoves DEF Acquire

LEMMA ReadRecordInv ==
  ASSUME StoreInv, NEW c \in Clients, ReadRecord(c) PROVE StoreInv'
<1>1. CASE Unreadable
  BY <1>1, AnswerInv DEF ReadRecord, Errors
<1>2. CASE ~Unreadable
  <2> DEFINE me == [work[c] EXCEPT !.at = "read", !.copy = disk]
  <2>1. /\ work[c] \in Task /\ work[c].at = "locked" /\ work[c].op \in Ops /\ work[c].error = None
        /\ c \in UnderWay /\ disk # Broken /\ disk \in Form
    BY <1>2 DEF ReadRecord, Unreadable, StoreInv, StoreType, WorkNamesOp, Working, UnderWay, Formed
  <2>2. /\ me \in Task /\ me.at = "read" /\ me.copy = disk /\ me.op \in Ops /\ me.error = None
        /\ work' = [work EXCEPT ![c] = me]
    BY <1>2, <2>1 DEF ReadRecord, Task, Steps
  <2>3. Holds(c)
    BY <2>1 DEF Holds
  <2> HIDE DEF me
  <2> QED BY <2>1, <2>2, <2>3, WorkMoves DEF ReadRecord
<1> QED BY <1>1, <1>2

(* An operation ends: its answer was taken or lost, or its process died. *)
LEMMA EndsInv ==
  ASSUME StoreInv, NEW c \in Clients, work' = [work EXCEPT ![c] = Idle], UNCHANGED <<disk, applies>>
  PROVE  StoreInv'
<1> DEFINE me == Idle
<1>1. me \in Task /\ me.at = "idle" /\ me.copy = None
  BY DEF Idle, Task, Steps
<1> HIDE DEF me
<1> QED BY <1>1, WorkMoves DEF Working, me

LEMMA ReleaseInv ==
  ASSUME StoreInv, NEW c \in Clients, Release(c) PROVE StoreInv'
BY AnswerInv DEF Release

LEMMA StorageFailsInv ==
  ASSUME StoreInv, NEW c \in Clients, StorageFails(c) PROVE StoreInv'
BY AnswerInv DEF StorageFails, Errors

(* The operations of the rules answer with an error of theirs. *)
LEMMA ErrorType ==
  ASSUME NEW r, NEW op \in Ops PROVE Error(r, op) \in Errors \cup {None}
<1>1. QueueError(r) \in Errors \cup {None}
  BY DEF QueueError, Errors
<1>2. ApplyError(r, op) \in Errors \cup {None}
  BY <1>1 DEF ApplyError, Errors
<1>3. CompleteError(r, op) \in Errors \cup {None}
  BY DEF CompleteError, Errors
<1> QED BY <1>1, <1>2, <1>3 DEF Error

(* The change is taken under the lock, on what is on disk: it is refused, or *)
(* what it leaves is a record that comes after it.                           *)
LEMMA WriteTakes ==
  ASSUME StoreInv, NEW c \in Clients, Write(c)
  PROVE  /\ disk # Broken /\ Formed(disk) /\ work[c].at = "read" /\ work[c].op \in Ops
         /\ \/ /\ Error(disk, work[c].op) # None /\ Answer(c, Error(disk, work[c].op))
               /\ UNCHANGED <<disk, applies>>
            \/ /\ Error(disk, work[c].op) = None
               /\ disk' = Updated(disk, work[c].op) /\ Advanced(disk, disk', work[c].op)
               /\ CountApplies(work[c].op)
               /\ work' = [work EXCEPT ![c].at = "written", ![c].copy = None]
<1> DEFINE op == work[c].op
<1>1. /\ work[c].at = "read" /\ work[c].copy = disk /\ disk # Broken /\ Formed(disk)
      /\ op \in Ops
  BY DEF Write, StoreInv, StoreType, CopyIsCurrent, WorkNamesOp, Working
<1> HIDE DEF op
<1>2. \/ Error(disk, op) # None /\ Answer(c, Error(disk, op)) /\ UNCHANGED <<disk, applies>>
      \/ /\ Error(disk, op) = None /\ disk' = Updated(disk, op) /\ CountApplies(op)
         /\ work' = [work EXCEPT ![c].at = "written", ![c].copy = None]
  BY <1>1 DEF Write, op
<1>3. Error(disk, op) = None => Advanced(disk, Updated(disk, op), op)
  BY <1>1, UpdatedGrows
<1> QED BY <1>1, <1>2, <1>3 DEF op

LEMMA WriteInv ==
  ASSUME StoreInv, NEW c \in Clients, Write(c) PROVE StoreInv'
<1> DEFINE op == work[c].op
<1>1. CASE Error(disk, op) # None /\ Answer(c, Error(disk, op)) /\ UNCHANGED <<disk, applies>>
  <2>1. Error(disk, op) \in Errors \cup {None}
    BY WriteTakes, ErrorType
  <2> QED BY <1>1, <2>1, AnswerInv
<1>2. CASE Error(disk, op) = None
  <2> DEFINE me == [work[c] EXCEPT !.at = "written", !.copy = None]
  <2>1. /\ disk # Broken /\ Formed(disk) /\ op \in Ops /\ work[c].at = "read"
        /\ Advanced(disk, disk', op) /\ CountApplies(op)
    BY <1>2, WriteTakes
  <2>2. /\ work' = [work EXCEPT ![c] = me] /\ work[c] \in Task /\ work \in [Clients -> Task]
        /\ work[c].error = None
    BY <1>2, <2>1, WriteTakes DEF StoreInv, StoreType, WorkNamesOp, Working
  <2>3. me \in Task /\ me.at = "written" /\ me.copy = None /\ me.op = op /\ me.error = None
    BY <2>2 DEF Task, Steps
  <2> HIDE DEF me, op
  <2>4. work'[c] = me /\ \A d \in Clients \ {c} : work'[d] = work[d]
    BY <2>2
  <2>5. Formed(disk') /\ Succeeds(disk', disk) /\ Remarked(disk, disk', op)
          /\ disk'.nextId \in {disk.nextId, disk.nextId + 1} /\ disk.nextId \in Nat
    BY <2>1 DEF Advanced, Formed, Form
  <2>6. StoreType'
    <3>1. work' \in [Clients -> Task]
      BY <2>2, <2>3
    <3>2. applies' \in [Suggestions -> Nat]
      BY <2>1 DEF CountApplies, StoreInv, StoreType
    <3> QED BY <2>5, <3>1, <3>2 DEF StoreType
  <2>7. OneHolds'
    <3>1. \A d \in Clients : Holds(d)' => Holds(d)
      BY <2>1, <2>3, <2>4 DEF Holds
    <3> QED BY <3>1 DEF OneHolds, StoreInv
  <2>8. CopyIsCurrent'
    <3>1. \A d \in Clients \ {c} : work[d].at # "read"
      BY <2>1 DEF StoreInv, OneHolds, Holds
    <3> QED BY <2>3, <2>4, <3>1 DEF StoreInv, CopyIsCurrent
  <2>9. WorkNamesOp'
    BY <2>1, <2>3, <2>4 DEF StoreInv, WorkNamesOp
  <2>10. NumbersSuffice'
    <3>1. UnderWay' = UnderWay \ {c} /\ c \in UnderWay
      BY <2>1, <2>3, <2>4 DEF UnderWay
    <3>2. Cardinality(UnderWay') = Cardinality(UnderWay) - 1
      BY <3>1, UnderWayFinite, FS_RemoveElement
    <3>3. disk.nextId + Cardinality(UnderWay) <= Bound
      BY <2>1 DEF StoreInv, NumbersSuffice
    <3> QED BY <2>5, <3>2, <3>3, UnderWayFinite, BoundType DEF NumbersSuffice
  <2>11. PendingBounded'
    BY <2>1 DEF Advanced, PendingBounded, StoreInv
  <2>12. AppliedOnce'
    <3> SUFFICES ASSUME NEW s \in Suggestions
                 PROVE  /\ applies'[s] <= 1
                        /\ HasSuggestion(disk', s) => (disk'.review[s] <=> applies'[s] = 1)
      BY DEF AppliedOnce
    <3>1. /\ applies[s] \in Nat /\ applies[s] <= 1
          /\ HasSuggestion(disk, s) => (disk.review[s] <=> applies[s] = 1)
      BY <2>1 DEF StoreInv, StoreType, AppliedOnce
    <3>2. applies'[s] = CASE op.do = "review" -> 0
                          [] op.do = "apply" /\ s = op.of -> applies[s] + 1
                          [] OTHER -> applies[s]
      BY <2>1 DEF CountApplies
    <3>3. CASE op.do = "review"
      BY <2>5, <3>2, <3>3 DEF Remarked, HasSuggestion
    <3>4. CASE op.do = "apply"
      <4>1. /\ HasSuggestion(disk, op.of) /\ ~disk.review[op.of]
            /\ disk'.review = [disk.review EXCEPT ![op.of] = TRUE]
        BY <2>5, <3>4 DEF Remarked
      <4>2. HasSuggestion(disk', s) => HasSuggestion(disk, s)
        BY <4>1 DEF HasSuggestion
      <4>3. CASE s = op.of
        BY <3>1, <3>2, <3>4, <4>1, <4>2, <4>3 DEF HasSuggestion
      <4>4. CASE s # op.of
        BY <3>1, <3>2, <3>4, <4>1, <4>2, <4>4 DEF HasSuggestion
      <4> QED BY <4>3, <4>4
    <3>5. CASE op.do \notin {"review", "apply"}
      BY <2>5, <3>1, <3>2, <3>5 DEF Remarked, HasSuggestion
    <3> QED BY <3>3, <3>4, <3>5
  <2> QED BY <2>6, <2>7, <2>8, <2>9, <2>10, <2>11, <2>12 DEF StoreInv
<1> QED BY <1>1, <1>2, WriteTakes

LEMMA DiskOK ==
  ASSUME StoreInv, disk # Broken PROVE RecordOK(disk)
<1>1. Formed(disk) /\ disk.nextId \in Nat /\ disk.nextId + Cardinality(UnderWay) <= Bound
  BY DEF StoreInv, StoreType, NumbersSuffice, Formed, Form
<1>2. disk.nextId <= Bound
  BY <1>1, UnderWayFinite, BoundType
<1> QED BY <1>1, <1>2, FormedIsOK

(* The record only ever goes on to one that comes after it, and never breaks. *)
DiskMoves ==
  \/ UNCHANGED disk
  \/ disk # Broken /\ Formed(disk) /\ disk' # Broken /\ Formed(disk') /\ Succeeds(disk', disk)

LEMMA WriteMoves ==
  ASSUME StoreInv, NEW c \in Clients, Write(c) PROVE DiskMoves
<1> DEFINE op == work[c].op
<1>1. CASE UNCHANGED disk
  BY <1>1 DEF DiskMoves
<1>2. CASE disk' = Updated(disk, op) /\ Advanced(disk, disk', op)
  <2>1. disk # Broken /\ Formed(disk) /\ c \in UnderWay /\ disk.nextId \in Nat
    BY WriteTakes DEF UnderWay, Formed, Form
  <2>2. Cardinality(UnderWay) >= 1
    BY <2>1, UnderWayFinite, FS_EmptySet
  <2>3. disk.nextId + 1 <= Bound
    BY <2>1, <2>2, UnderWayFinite, BoundType DEF StoreInv, NumbersSuffice
  <2>4. Formed(disk') /\ disk'.nextId <= Bound /\ Succeeds(disk', disk)
    BY <1>2, <2>1, <2>3, BoundType DEF Advanced
  <2>5. RecordOK(disk')
    BY <2>4, FormedIsOK
  <2>6. disk' # Broken
    BY <2>5, ClientsAssumption DEF RecordOK
  <2> QED BY <2>1, <2>4, <2>6 DEF DiskMoves
<1> QED BY <1>1, <1>2, WriteTakes

LEMMA StoreStepInv ==
  ASSUME StoreInv, NEW c \in Clients, StoreStep(c) PROVE StoreInv' /\ DiskMoves
<1>1. CASE Acquire(c)
  BY <1>1, AcquireInv DEF Acquire, DiskMoves
<1>2. CASE ReadRecord(c)
  BY <1>2, ReadRecordInv DEF ReadRecord, DiskMoves
<1>3. CASE Write(c)
  BY <1>3, WriteInv, WriteMoves
<1>4. CASE StorageFails(c)
  BY <1>4, StorageFailsInv DEF StorageFails, DiskMoves
<1>5. CASE Release(c)
  BY <1>5, ReleaseInv DEF Release, DiskMoves
<1> QED BY <1>1, <1>2, <1>3, <1>4, <1>5 DEF StoreStep

LEMMA AgentStepInv ==
  ASSUME StoreInv, NEW c \in Clients, AgentStep(c) PROVE StoreInv' /\ UNCHANGED disk
<1>1. ASSUME NEW raw \in Reviews, WriteReview(c, raw) PROVE StoreInv' /\ UNCHANGED disk
  <2>1. ~FaultyReview(raw) => ReviewOp(raw) \in Ops
    BY DEF Ops
  <2> QED BY <1>1, <2>1, CallInv, RefusedInv DEF WriteReview, Call, Refused
<1>2. ASSUME NEW i \in 1..MaxId, NEW v \in Verdicts, Complete(c, i, v.status, v.blank)
      PROVE  StoreInv' /\ UNCHANGED disk
  <2>1. CompleteOp(i, v.status, v.blank) \in Ops
    BY DEF Ops
  <2> QED BY <1>2, <2>1, CallInv DEF Complete, Call
<1>3. ASSUME AgentDone(c) \/ Crash(c) PROVE StoreInv' /\ UNCHANGED disk
  BY <1>3, EndsInv DEF AgentDone, Crash
<1> QED BY <1>1, <1>2, <1>3 DEF AgentStep, AgentActs

LEMMA StoreStands ==
  ASSUME StoreInv, UNCHANGED recordVars PROVE StoreInv'
BY DEF recordVars, StoreInv, StoreType, OneHolds, Holds, CopyIsCurrent, WorkNamesOp, NumbersSuffice,
       UnderWay, PendingBounded, Pending, Ids, AppliedOnce, HasSuggestion

-----------------------------------------------------------------------------
(* The panel: what it shows and what its fetches bring *)

Fetch == [newest : BOOLEAN, at : {"sent", "served"}, got : Form \cup {Broken, None}]

(* r is a record the file has held. *)
Seen(r) == disk # Broken /\ Formed(r) /\ r.nextId <= disk.nextId /\ r.revision <= disk.revision

FetchType == fetches \in [Slots -> Fetch \cup {None}]

AnswersSeen ==
  \A s \in InFlight : fetches[s].at = "served" /\ fetches[s].got # Broken => Seen(fetches[s].got)

ShownSeen == shown # None => Seen(shown)

(* Only the fetch sent last may be shown, and what it brings is no older than what is shown. *)
OneNewest == \A s, t \in InFlight : fetches[s].newest /\ fetches[t].newest => s = t

NewestNotOlder ==
  \A s \in InFlight :
    fetches[s].newest /\ fetches[s].at = "served" /\ fetches[s].got # Broken /\ shown # None
      => fetches[s].got.revision >= shown.revision

PanelInv == FetchType /\ AnswersSeen /\ ShownSeen /\ OneNewest /\ NewestNotOlder

LEMMA SeenStays ==
  ASSUME DiskMoves, NEW r, Seen(r) PROVE Seen(r)'
<1>1. CASE UNCHANGED disk
  BY <1>1 DEF Seen, Formed, Ids
<1>2. CASE ~UNCHANGED disk
  <2>1. /\ disk' # Broken /\ disk' \in Form /\ disk \in Form /\ r \in Form
        /\ disk'.nextId >= disk.nextId /\ disk'.revision > disk.revision
    BY <1>2 DEF DiskMoves, Succeeds, Seen, Formed
  <2>2. disk'.nextId >= r.nextId /\ disk'.revision >= r.revision
    BY <2>1 DEF Seen, Form
  <2> QED BY <2>1, <2>2 DEF Seen
<1> QED BY <1>1, <1>2

(* What the panel knows stays true while the record moves on. *)
LEMMA PanelStands ==
  ASSUME PanelInv, DiskMoves, UNCHANGED <<fetches, shown>> PROVE PanelInv'
<1>1. \A r : Seen(r) => Seen(r)'
  BY SeenStays
<1> QED BY <1>1 DEF PanelInv, FetchType, AnswersSeen, ShownSeen, OneNewest, NewestNotOlder, InFlight

(* A fetch that is sent overtakes the others; it has no answer yet. *)
LEMMA RefreshKeeps ==
  ASSUME PanelInv, requestsRefresh, UNCHANGED <<disk, shown>> PROVE PanelInv'
<1> DEFINE new == [newest |-> TRUE, at |-> "sent", got |-> None]
<1>1. PICK s \in Slots \ InFlight :
        fetches' = [r \in Slots |->
          IF r = s THEN new
          ELSE IF r \in InFlight THEN [fetches[r] EXCEPT !.newest = FALSE] ELSE None]
  BY DEF requestsRefresh
<1>2. new \in Fetch /\ new.at = "sent"
  BY DEF Fetch
<1>3. \A r \in InFlight : fetches[r] \in Fetch
  BY DEF PanelInv, FetchType, InFlight
<1>4. \A r \in InFlight : /\ fetches'[r] \in Fetch /\ ~fetches'[r].newest
                         /\ fetches'[r].at = fetches[r].at /\ fetches'[r].got = fetches[r].got
  <2> TAKE r \in InFlight
  <2>1. fetches'[r] = [fetches[r] EXCEPT !.newest = FALSE] /\ fetches[r] \in Fetch
    BY <1>1, <1>3 DEF InFlight
  <2> QED BY <2>1 DEF Fetch
<1>5. fetches'[s] = new /\ \A r \in Slots : r # s /\ r \notin InFlight => fetches'[r] = None
  BY <1>1
<1>6. InFlight' \subseteq InFlight \cup {s}
  BY <1>5 DEF InFlight
<1> HIDE DEF new
<1>7. FetchType'
  <2>1. \A r \in Slots : fetches'[r] \in Fetch \cup {None}
    BY <1>2, <1>4, <1>5
  <2>2. DOMAIN fetches' = Slots /\ fetches' = [r \in Slots |-> fetches'[r]]
    BY <1>1
  <2> QED BY <2>1, <2>2 DEF FetchType
<1>8. AnswersSeen' /\ ShownSeen'
  <2>1. \A r : Seen(r)' = Seen(r)
    BY DEF Seen, Formed, Ids
  <2> QED BY <1>2, <1>4, <1>5, <1>6, <2>1 DEF AnswersSeen, ShownSeen, PanelInv
<1>9. OneNewest' /\ NewestNotOlder'
  BY <1>2, <1>4, <1>5, <1>6 DEF OneNewest, NewestNotOlder
<1> QED BY <1>7, <1>8, <1>9 DEF PanelInv

(* A fetch that is over leaves its slot. *)
LEMMA FetchLeaves ==
  ASSUME PanelInv, NEW s \in Slots, fetches' = [fetches EXCEPT ![s] = None]
  PROVE  /\ FetchType' /\ InFlight' = InFlight \ {s}
         /\ \A r \in InFlight' : fetches'[r] = fetches[r]
BY DEF PanelInv, FetchType, InFlight

LEMMA FetchStepKeeps ==
  ASSUME StoreInv, PanelInv, NEW s \in Slots, FetchStep(s)
  PROVE  PanelInv' /\ UNCHANGED recordVars
<1> USE DEF PanelInv
<1>0. \A r : Seen(r) <=> Seen(r)'
  BY DEF FetchStep, ServeSnapshot, SnapshotArrives, FetchFails, recordVars, Seen, Formed, Ids
<1>1. CASE ServeSnapshot(s)
  <2>1. s \in InFlight /\ fetches[s] \in Fetch
    BY <1>1 DEF ServeSnapshot, InFlight, FetchType
  <2> DEFINE served == [fetches[s] EXCEPT !.at = "served", !.got = disk]
  <2>2. disk # Broken => Formed(disk) /\ Seen(disk) /\ disk \in Form
    BY DEF StoreInv, StoreType, Seen, Formed, Form
  <2>3. served \in Fetch /\ served.at = "served" /\ served.got = disk /\ served.newest = fetches[s].newest
    BY <2>1, <2>2 DEF Fetch
  <2>4. fetches' = [fetches EXCEPT ![s] = served]
    BY <1>1, <2>1 DEF ServeSnapshot, FetchType
  <2> HIDE DEF served
  <2>5. FetchType' /\ fetches'[s] = served /\ \A r \in Slots \ {s} : fetches'[r] = fetches[r]
    BY <2>3, <2>4 DEF FetchType
  <2>6. InFlight' \subseteq InFlight
    BY <2>1, <2>5 DEF InFlight
  <2>7. AnswersSeen' /\ ShownSeen'
    BY <1>0, <1>1, <2>2, <2>3, <2>5, <2>6 DEF AnswersSeen, ShownSeen, ServeSnapshot, recordVars, InFlight
  <2>8. OneNewest'
    BY <2>1, <2>3, <2>5, <2>6 DEF OneNewest, InFlight
  <2>9. NewestNotOlder'
    <3>1. disk # Broken /\ shown # None => disk.revision >= shown.revision
      BY <2>2 DEF ShownSeen, Seen, Formed, Form
    <3> QED BY <1>1, <2>3, <2>5, <2>6, <3>1 DEF NewestNotOlder, ServeSnapshot, InFlight
  <2> QED BY <1>1, <2>5, <2>7, <2>8, <2>9 DEF ServeSnapshot
<1>2. CASE SnapshotArrives(s)
  <2>1. /\ FetchType' /\ InFlight' = InFlight \ {s} /\ s \in InFlight
        /\ \A r \in InFlight' : fetches'[r] = fetches[r]
    BY <1>2, FetchLeaves DEF SnapshotArrives
  <2>2. CASE Renders(s)
    <3>1. /\ fetches[s].newest /\ fetches[s].at = "served" /\ fetches[s].got # Broken
          /\ shown' = fetches[s].got
      BY <1>2, <2>2 DEF SnapshotArrives, Renders
    <3>2. \A r \in InFlight' : ~fetches[r].newest
      BY <2>1, <3>1 DEF OneNewest
    <3>3. AnswersSeen' /\ ShownSeen'
      BY <1>0, <2>1, <3>1 DEF AnswersSeen, ShownSeen
    <3>4. OneNewest' /\ NewestNotOlder'
      BY <2>1, <3>2 DEF OneNewest, NewestNotOlder
    <3> QED BY <1>2, <2>1, <3>3, <3>4 DEF SnapshotArrives
  <2>3. CASE ~Renders(s)
    BY <1>0, <1>2, <2>1, <2>3 DEF SnapshotArrives, AnswersSeen, ShownSeen, OneNewest, NewestNotOlder
  <2> QED BY <2>2, <2>3
<1>3. CASE FetchFails(s)
  <2>1. /\ FetchType' /\ InFlight' = InFlight \ {s}
        /\ \A r \in InFlight' : fetches'[r] = fetches[r]
    BY <1>3, FetchLeaves DEF FetchFails
  <2> QED
    BY <1>0, <1>3, <2>1 DEF FetchFails, AnswersSeen, ShownSeen, OneNewest, NewestNotOlder
<1> QED BY <1>1, <1>2, <1>3 DEF FetchStep

(* The numbers of the list the buttons belong to are numbers of the record. *)
LEMMA ClickInv ==
  ASSUME StoreInv, PanelInv, NEW h \in Clients, Click(h) PROVE StoreInv' /\ UNCHANGED disk
<1>1. ASSUME NEW text \in Texts, Queue(h, text) PROVE StoreInv' /\ UNCHANGED disk
  <2>1. QueueOp \in Ops
    BY DEF Ops
  <2> QED BY <1>1, <2>1, CallInv, RefusedInv DEF Queue, Call, Refused
<1>2. ASSUME shown # None, NEW i \in Ids(shown), Delete(h, i) PROVE StoreInv' /\ UNCHANGED disk
  <2>1. disk # Broken /\ disk.nextId <= MaxId
    BY <1>2 DEF Delete, Call, Unreadable, PanelInv, ShownSeen, Seen
  <2>2. shown.nextId \in Nat /\ shown.nextId <= disk.nextId /\ i \in 1..shown.nextId - 1
          /\ disk.nextId \in Nat
    BY <1>2, <2>1 DEF PanelInv, ShownSeen, Seen, Formed, Form, StoreInv, StoreType
  <2>3. DeleteOp(i) \in Ops
    BY <2>1, <2>2, BoundType DEF Ops
  <2> QED BY <1>2, <2>3, CallInv DEF Delete, Call
<1>3. ASSUME shown # None, shown.review # None, NEW s \in DOMAIN shown.review, ApplySuggestion(h, s)
      PROVE  StoreInv' /\ UNCHANGED disk
  <2>1. shown.review \in Marks
    BY <1>3 DEF PanelInv, ShownSeen, Seen, Formed, Form
  <2>2. ApplyOp(s) \in Ops
    BY <2>1 DEF Marks, Ops
  <2> QED BY <1>3, <2>2, CallInv DEF ApplySuggestion, Call
<1> QED BY <1>1, <1>2, <1>3 DEF Click

(* Another page asks for what any list may show. *)
LEMMA TabStepInv ==
  ASSUME StoreInv, NEW c \in Clients, TabStep(c) PROVE StoreInv' /\ UNCHANGED disk
<1>1. ASSUME NEW text \in Texts, Queue(c, text) PROVE StoreInv' /\ UNCHANGED disk
  <2>1. QueueOp \in Ops
    BY DEF Ops
  <2> QED BY <1>1, <2>1, CallInv, RefusedInv DEF Queue, Call, Refused
<1>2. ASSUME NEW i \in 1..MaxId, Delete(c, i) PROVE StoreInv' /\ UNCHANGED disk
  <2>1. DeleteOp(i) \in Ops
    BY DEF Ops
  <2> QED BY <1>2, <2>1, CallInv DEF Delete, Call
<1>3. ASSUME NEW s \in Suggestions, ApplySuggestion(c, s) PROVE StoreInv' /\ UNCHANGED disk
  <2>1. ApplyOp(s) \in Ops
    BY DEF Ops
  <2> QED BY <1>3, <2>1, CallInv DEF ApplySuggestion, Call
<1>4. ASSUME AgentDone(c) \/ Crash(c) PROVE StoreInv' /\ UNCHANGED disk
  BY <1>4, EndsInv DEF AgentDone, Crash
<1> QED BY <1>1, <1>2, <1>3, <1>4 DEF TabStep, ClickElsewhere

LEMMA FinishKeeps ==
  ASSUME StoreInv, PanelInv, NEW h \in Clients, NEW error, Finish(h, error)
  PROVE  StoreInv' /\ PanelInv' /\ UNCHANGED disk
<1>1. StoreInv' /\ UNCHANGED <<disk, shown>>
  BY EndsInv DEF Finish
<1>2. PanelInv'
  BY <1>1, RefreshKeeps, PanelStands DEF Finish, DiskMoves
<1> QED BY <1>1, <1>2

LEMMA PollKeeps ==
  ASSUME PanelInv, SendPoll \/ ServePoll \/ PollArrives \/ PollFails
  PROVE  PanelInv' /\ UNCHANGED recordVars
<1>1. UNCHANGED recordVars /\ UNCHANGED <<disk, shown>>
  BY DEF SendPoll, ServePoll, PollArrives, PollFails, recordVars
<1>2. requestsRefresh \/ UNCHANGED fetches
  BY DEF SendPoll, ServePoll, PollArrives, PollFails
<1> QED BY <1>1, <1>2, RefreshKeeps, PanelStands DEF DiskMoves

-----------------------------------------------------------------------------
IInv == StoreInv /\ PanelInv

LEMMA EmptyRecordFormed ==
  Formed(EmptyRecord) /\ EmptyRecord.nextId = 1 /\ EmptyRecord.review = None /\ Pending(EmptyRecord) = 0
<1>1. DOMAIN << >> = {} /\ << >> \in [{} -> Request]
  BY SMT
<1>2. Ids(EmptyRecord) = {}
  BY <1>1 DEF Ids, EmptyRecord
<1>3. EmptyRecord \in Form
  BY <1>1 DEF EmptyRecord, Form, Lists
<1>4. Formed(EmptyRecord)
  BY <1>2, <1>3 DEF Formed
<1>5. PendingIds(EmptyRecord) = {}
  BY <1>2 DEF PendingIds
<1> QED BY <1>4, <1>5, PendingFinite, FS_EmptySet DEF EmptyRecord

LEMMA InitInv == PanelInit => IInv
<1> SUFFICES ASSUME PanelInit PROVE IInv
  OBVIOUS
<1>1. /\ disk \in {EmptyRecord, Broken} /\ work = [c \in Clients |-> Idle]
      /\ applies = [s \in Suggestions |-> 0]
      /\ fetches = [s \in Slots |-> None] /\ shown = None
  BY DEF PanelInit, RecordInit, NobodyWorks, NothingShown
<1>2. Idle \in Task /\ Idle.at = "idle" /\ Idle.copy = None
  BY DEF Idle, Task, Steps
<1>3. StoreType
  BY <1>1, <1>2, EmptyRecordFormed DEF StoreType
<1>4. OneHolds /\ CopyIsCurrent /\ WorkNamesOp
  BY <1>1, <1>2 DEF OneHolds, Holds, CopyIsCurrent, WorkNamesOp, Working
<1>5. NumbersSuffice
  <2>1. UnderWay = {}
    BY <1>1, <1>2 DEF UnderWay
  <2> QED BY <1>1, <2>1, EmptyRecordFormed, FS_EmptySet, BoundType DEF NumbersSuffice, Bound
<1>6. PendingBounded
  BY <1>1, EmptyRecordFormed, RulesAssumption DEF PendingBounded
<1>7. AppliedOnce
  BY <1>1, EmptyRecordFormed DEF AppliedOnce, HasSuggestion
<1>8. PanelInv
  BY <1>1 DEF PanelInv, FetchType, AnswersSeen, ShownSeen, OneNewest, NewestNotOlder, InFlight
<1> QED BY <1>3, <1>4, <1>5, <1>6, <1>7, <1>8 DEF IInv, StoreInv

LEMMA NextInv == IInv /\ [PanelNext]_allVars => IInv' /\ DiskMoves
<1> SUFFICES ASSUME StoreInv, PanelInv, [PanelNext]_allVars PROVE IInv' /\ DiskMoves
  BY DEF IInv
<1> USE PanelAssumption
<1>1. ASSUME NEW c \in Clients, StoreStep(c), UNCHANGED panelVars PROVE IInv' /\ DiskMoves
  BY <1>1, StoreStepInv, PanelStands DEF IInv, panelVars
<1>2. ASSUME NEW c \in Clients, AgentStep(c) PROVE IInv' /\ DiskMoves
  BY <1>2, AgentStepInv, PanelStands DEF IInv, DiskMoves, AgentStep, panelVars
<1>8. ASSUME NEW c \in Tabs, TabStep(c) PROVE IInv' /\ DiskMoves
  BY <1>8, TabStepInv, PanelStands DEF IInv, DiskMoves, TabStep, panelVars
<1>3. ASSUME NEW h \in Handlers, Click(h) PROVE IInv' /\ DiskMoves
  BY <1>3, ClickInv, PanelStands DEF IInv, DiskMoves, Click, panelVars
<1>4. ASSUME NEW h \in Handlers, Answered(h) \/ AnswerLost(h) PROVE IInv' /\ DiskMoves
  BY <1>4, FinishKeeps DEF IInv, DiskMoves, Answered, AnswerLost
<1>5. ASSUME NEW s \in Slots, FetchStep(s) PROVE IInv' /\ DiskMoves
  BY <1>5, FetchStepKeeps, StoreStands DEF IInv, DiskMoves, recordVars
<1>6. CASE SendPoll \/ ServePoll \/ PollArrives \/ PollFails
  BY <1>6, PollKeeps, StoreStands DEF IInv, DiskMoves, recordVars
<1>7. CASE UNCHANGED allVars
  <2>1. UNCHANGED recordVars /\ UNCHANGED <<disk, fetches, shown>>
    BY <1>7 DEF allVars, recordVars, panelVars
  <2> QED BY <2>1, StoreStands, PanelStands DEF IInv, DiskMoves
<1> QED BY <1>1, <1>2, <1>3, <1>4, <1>5, <1>6, <1>7, <1>8 DEF PanelNext

(* The invariant holds in every reachable state. *)
THEOREM Invariance == PanelSpec => []IInv
BY InitInv, NextInv, PTL DEF PanelSpec

(* Every state of the record and of the operations on it is well formed: no id of the list is  *)
(* one the record has still to give (Record and update of request_store.py).                    *)
THEOREM RecordTypeCorrect == PanelSpec => []RecordTypeOK
<1>1. IInv => RecordTypeOK
  <2> SUFFICES ASSUME StoreInv PROVE RecordTypeOK
    BY DEF IInv
  <2>1. disk # Broken => RecordOK(disk)
    BY DiskOK
  <2>2. ASSUME NEW c \in Clients, work[c].copy # None PROVE RecordOK(work[c].copy)
    BY <2>1, <2>2 DEF StoreInv, CopyIsCurrent
  <2>3. \A c \in Clients : /\ work[c].at \in Steps /\ work[c].error \in Errors \cup {None}
                          /\ work[c].op \in Ops \cup {None}
    BY DEF StoreInv, StoreType, Task
  <2> QED BY <2>1, <2>2, <2>3 DEF RecordTypeOK, Steps, StoreInv, StoreType
<1> QED BY <1>1, Invariance, PTL

(* At most one process is between taking the flock of a record and letting it go. *)
THEOREM LockExcludes == PanelSpec => []OneHolds
<1>1. IInv => OneHolds
  BY DEF IInv, StoreInv
<1> QED BY <1>1, Invariance, PTL

(* PENDING_MAX holds however queue and apply_suggestion of several processes interleave. *)
THEOREM PendingLimitHolds == PanelSpec => []PendingBounded
<1>1. IInv => PendingBounded
  BY DEF IInv, StoreInv
<1> QED BY <1>1, Invariance, PTL

(* A suggestion of one review is queued at most once, and marked exactly when it was. *)
THEOREM SuggestionsQueuedOnce == PanelSpec => []AppliedOnce
<1>1. IInv => AppliedOnce
  BY DEF IInv, StoreInv
<1> QED BY <1>1, Invariance, PTL

(* An id is never given again and a revision never stands for two records (nextId, revision). *)
THEOREM NumbersAreNeverReused == PanelSpec => NumbersOnlyGrow
<1>1. IInv /\ [PanelNext]_allVars
        => [disk # Broken => /\ disk' # Broken
                             /\ disk'.nextId >= disk.nextId
                             /\ \A i \in Ids(disk') \ Ids(disk) : i >= disk.nextId
                             /\ disk'.revision > disk.revision]_disk
  BY NextInv DEF DiskMoves, Succeeds
<1> QED BY <1>1, Invariance, PTL DEF PanelSpec, NumbersOnlyGrow

(* Only the newest fetch is rendered, and it never brings a list older than the one shown *)
(* (requestsRefresh, requestsTicket).                                                      *)
THEOREM ListNeverGoesBack == PanelSpec => ShownNeverOlder
<1>1. ASSUME IInv, [PanelNext]_allVars, shown' # shown, shown # None
      PROVE  shown'.revision >= shown.revision
  <2>1. PICK s \in Slots : SnapshotArrives(s) /\ Renders(s)
    <3>1. ~UNCHANGED panelVars /\ ~UNCHANGED <<held, shown>>
      BY <1>1 DEF panelVars
    <3> QED
      BY <1>1, <3>1 DEF PanelNext, allVars, AgentStep, TabStep, Click, Answered, AnswerLost, Finish, FetchStep,
                        ServeSnapshot, FetchFails, SendPoll, ServePoll, PollArrives, PollFails,
                        SnapshotArrives
  <2> QED BY <1>1, <2>1 DEF IInv, PanelInv, NewestNotOlder, SnapshotArrives, Renders
<1>2. IInv /\ [PanelNext]_allVars => [shown # None => shown'.revision >= shown.revision]_shown
  BY <1>1
<1> QED BY <1>2, Invariance, PTL DEF PanelSpec, ShownNeverOlder

-----------------------------------------------------------------------------
(* The log refuses and changes a record by the rules of the store. *)
LEMMA SameErrors == \A r, op : Log!Error(r, op) = Error(r, op)
<1>1. \A r : Log!QueueError(r) = QueueError(r)
  <2>1. \A r : Log!Pending(r) = Pending(r)
    BY Zenon DEF Log!Pending, Pending, Log!Ids, Ids, Log!Cardinality, Cardinality
  <2> QED BY <2>1 DEF Log!QueueError, QueueError
<1>2. \A r, op : Log!CompleteError(r, op) = CompleteError(r, op)
  BY DEF Log!CompleteError, CompleteError, Log!Ids, Ids
<1>3. \A r, op : Log!ApplyError(r, op) = ApplyError(r, op)
  BY <1>1 DEF Log!ApplyError, ApplyError, Log!HasSuggestion, HasSuggestion
<1> QED BY <1>1, <1>2, <1>3 DEF Log!Error, Error

LEMMA SameChanges == \A r, op : Log!Updated(r, op) = Updated(r, op)
<1>1. \A r, from : Log!Appended(r, from) = Appended(r, from)
  BY DEF Log!Appended, Appended, Log!Ids, Ids
<1>2. \A r, op : Log!Finished(r, op) = Finished(r, op)
  BY DEF Log!Finished, Finished
<1>3. \A r, op : Log!Deleted(r, op) = Deleted(r, op)
  BY DEF Log!Deleted, Deleted, Log!Ids, Ids
<1>4. \A r, op : Log!Reviewed(r, op) = Reviewed(r, op)
  BY DEF Log!Reviewed, Reviewed
<1>5. \A r, op : Log!Applied(r, op) = Applied(r, op)
  BY <1>1 DEF Log!Applied, Applied
<1>6. \A r, op : Log!Change(r, op) = Change(r, op)
  BY <1>1, <1>2, <1>3, <1>4, <1>5 DEF Log!Change, Change
<1> QED BY <1>6 DEF Log!Updated, Updated

-----------------------------------------------------------------------------
(* What the log sees of a client *)

Outcome(c) ==
  CASE work[c].at = "idle"                         -> [at |-> "idle"]
    [] work[c].at \in {"asked", "locked", "read"}  -> [at |-> "asked", op |-> work[c].op]
    [] OTHER                                       -> [at |-> "done", error |-> work[c].error]

LEMMA AskedIsOutcome ==
  /\ Asked = [c \in Clients |-> Outcome(c)]
  /\ Asked' = [c \in Clients |-> Outcome(c)']
BY DEF Asked, Outcome

LEMMA Outcomes ==
  ASSUME NEW c \in Clients
  PROVE  /\ work[c].at = "idle" => Asked[c] = [at |-> "idle"] /\ Asked[c].at = "idle"
         /\ work[c].at \in {"asked", "locked", "read"} =>
              /\ Asked[c] = [at |-> "asked", op |-> work[c].op]
              /\ Asked[c].at = "asked" /\ Asked[c].op = work[c].op
         /\ work[c].at \in {"written", "answered"} => Asked[c] = [at |-> "done", error |-> work[c].error]
BY DEF Asked

LEMMA NextOutcomes ==
  ASSUME NEW c \in Clients
  PROVE  /\ work'[c].at = "idle" => Asked'[c] = [at |-> "idle"]
         /\ work'[c].at \in {"asked", "locked", "read"} =>
              Asked'[c] = [at |-> "asked", op |-> work'[c].op] /\ Asked'[c].at = "asked"
         /\ work'[c].at \in {"written", "answered"} => Asked'[c] = [at |-> "done", error |-> work'[c].error]
BY DEF Asked

(* One client's work changes what the log sees of that client only. *)
LEMMA OthersStand ==
  ASSUME NEW c \in Clients, \A d \in Clients \ {c} : work'[d] = work[d]
  PROVE  Log!Alone(c) /\ (Asked'[c] = Asked[c] => UNCHANGED Asked)
<1>1. \A d \in Clients \ {c} : Asked'[d] = Asked[d]
  BY AskedIsOutcome DEF Outcome
<1>2. Asked'[c] = Asked[c] => \A d \in Clients : Outcome(d)' = Outcome(d)
  BY <1>1, AskedIsOutcome
<1> QED BY <1>1, <1>2, AskedIsOutcome DEF Log!Alone

LEMMA Logged ==
  ASSUME NEW c \in Clients, NEW error, work'[c].at \in {"written", "answered"}, work'[c].error = error,
         \A d \in Clients \ {c} : work'[d] = work[d]
  PROVE  Log!Answer(c, error)
<1>1. Asked'[c] = [at |-> "done", error |-> error]
  BY NextOutcomes
<1>2. Log!Alone(c)
  BY OthersStand
<1> QED BY <1>1, <1>2 DEF Log!Answer

LEMMA AnswerIsLogged ==
  ASSUME StoreInv, NEW c \in Clients, NEW error, Answer(c, error)
  PROVE  Log!Answer(c, error) /\ \A d \in Clients \ {c} : work'[d] = work[d]
<1>1. work'[c].at = "answered" /\ work'[c].error = error /\ \A d \in Clients \ {c} : work'[d] = work[d]
  BY DEF Answer, StoreInv, StoreType, Task
<1> QED BY <1>1, Logged

(* Two steps that show: the client asks; it has an answer to what it asked. *)
LEMMA CallSimulates ==
  ASSUME StoreInv, NEW c \in Clients, NEW op, Call(c, op) PROVE Log!Ask(c)
<1>1. /\ work[c].at = "idle" /\ work'[c].at = "asked" /\ UNCHANGED disk
      /\ \A d \in Clients \ {c} : work'[d] = work[d]
  BY DEF Call, Idle, StoreInv, StoreType, Task
<1>2. Asked[c].at = "idle"
  BY <1>1, Outcomes
<1>3. Asked'[c].at = "asked"
  BY <1>1, NextOutcomes
<1>4. Log!Alone(c)
  BY <1>1, OthersStand
<1> QED BY <1>1, <1>2, <1>3, <1>4 DEF Log!Ask

LEMMA RefusedSimulates ==
  ASSUME StoreInv, NEW c \in Clients, Refused(c) PROVE Log!Fail(c)
<1>1. /\ work[c].at = "idle" /\ work'[c].at = "answered" /\ work'[c].error = "invalid"
      /\ UNCHANGED disk /\ \A d \in Clients \ {c} : work'[d] = work[d]
  BY DEF Refused, Idle, StoreInv, StoreType, Task
<1>2. Asked[c].at = "idle"
  BY <1>1, Outcomes
<1>3. Log!Answer(c, "invalid")
  BY <1>1, Logged
<1> QED BY <1>1, <1>2, <1>3 DEF Log!Fail

(* Taking the lock, reading and releasing do not show. *)
LEMMA Unseen ==
  ASSUME NEW c \in Clients, work[c].at \in {"asked", "locked", "read"},
         work'[c].at \in {"asked", "locked", "read"}, work'[c].op = work[c].op,
         \A d \in Clients \ {c} : work'[d] = work[d]
  PROVE  UNCHANGED Asked
<1>1. Asked'[c] = Asked[c]
  BY Outcomes, NextOutcomes
<1> QED BY <1>1, OthersStand

LEMMA AcquireSimulates ==
  ASSUME StoreInv, NEW c \in Clients, Acquire(c) PROVE UNCHANGED <<disk, Asked>>
<1>1. /\ work[c].at = "asked" /\ work'[c].at = "locked" /\ work'[c].op = work[c].op
      /\ \A d \in Clients \ {c} : work'[d] = work[d]
  BY DEF Acquire, StoreInv, StoreType, Task
<1>2. UNCHANGED Asked
  BY <1>1, Unseen
<1> QED BY <1>2 DEF Acquire

LEMMA ReleaseSimulates ==
  ASSUME StoreInv, NEW c \in Clients, Release(c) PROVE UNCHANGED <<disk, Asked>>
<1>1. work[c].at = "written" /\ work[c].error = None
  BY DEF Release, StoreInv, WorkNamesOp, Working
<1>2. Log!Answer(c, None) /\ \A d \in Clients \ {c} : work'[d] = work[d]
  BY AnswerIsLogged DEF Release
<1>3. Asked[c] = [at |-> "done", error |-> None]
  BY <1>1, Outcomes
<1>4. Asked'[c] = Asked[c]
  BY <1>2, <1>3 DEF Log!Answer
<1>5. UNCHANGED Asked
  BY <1>2, <1>4, OthersStand
<1> QED BY <1>5 DEF Release

LEMMA FailSimulates ==
  ASSUME StoreInv, NEW c \in Clients, work[c].at \in {"asked", "locked", "read"},
         Answer(c, "storage"), UNCHANGED disk
  PROVE  Log!Fail(c)
<1>1. Log!Answer(c, "storage")
  BY AnswerIsLogged
<1>2. Asked[c].at = "asked"
  BY Outcomes
<1> QED BY <1>1, <1>2 DEF Log!Fail

LEMMA ReadRecordSimulates ==
  ASSUME StoreInv, NEW c \in Clients, ReadRecord(c) PROVE Log!Fail(c) \/ UNCHANGED <<disk, Asked>>
<1>1. CASE Unreadable
  BY <1>1, FailSimulates DEF ReadRecord
<1>2. CASE ~Unreadable
  <2>1. /\ work[c].at = "locked" /\ work'[c].at = "read" /\ work'[c].op = work[c].op
        /\ \A d \in Clients \ {c} : work'[d] = work[d]
    BY <1>2 DEF ReadRecord, StoreInv, StoreType, Task
  <2>2. UNCHANGED Asked
    BY <2>1, Unseen
  <2> QED BY <2>2 DEF ReadRecord
<1> QED BY <1>1, <1>2

(* The write is where the whole operation happens, or is refused. *)
LEMMA WriteSimulates ==
  ASSUME StoreInv, NEW c \in Clients, Write(c) PROVE Log!Take(c) \/ Log!Refuse(c)
<1> DEFINE op == work[c].op
<1>1. disk # Broken /\ work[c].at = "read"
  BY WriteTakes
<1>2. Asked[c].at = "asked" /\ Asked[c].op = op
  BY <1>1, Outcomes
<1>3. CASE Error(disk, op) # None /\ Answer(c, Error(disk, op)) /\ UNCHANGED disk
  <2>1. Log!Answer(c, Error(disk, op))
    BY <1>3, AnswerIsLogged
  <2> QED BY <1>1, <1>2, <1>3, <2>1, SameErrors DEF Log!Refuse
<1>4. CASE /\ Error(disk, op) = None /\ disk' = Updated(disk, op)
           /\ work' = [work EXCEPT ![c].at = "written", ![c].copy = None]
  <2>1. /\ work'[c].at = "written" /\ work'[c].error = None
        /\ \A d \in Clients \ {c} : work'[d] = work[d]
    BY <1>1, <1>4 DEF StoreInv, StoreType, Task, WorkNamesOp, Working
  <2>2. Log!Answer(c, None)
    BY <2>1, Logged
  <2> QED BY <1>1, <1>2, <1>4, <2>2, SameErrors, SameChanges DEF Log!Take
<1> QED BY <1>3, <1>4, WriteTakes

(* The answer arrives or is lost, or the process dies: the log's client leaves. *)
LEMMA EndSimulates ==
  ASSUME StoreInv, NEW c \in Clients, work' = [work EXCEPT ![c] = Idle], UNCHANGED disk
  PROVE  Log!Leave(c)
<1>1. work'[c].at = "idle" /\ \A d \in Clients \ {c} : work'[d] = work[d]
  BY DEF StoreInv, StoreType, Idle
<1>2. Asked'[c] = [at |-> "idle"] /\ Log!Alone(c)
  BY <1>1, NextOutcomes, OthersStand
<1> QED BY <1>2 DEF Log!Leave

LEMMA RestSimulates == UNCHANGED recordVars => UNCHANGED <<disk, Asked>>
BY DEF recordVars, Asked

LEMMA StepSimulates ==
  ASSUME IInv, [PanelNext]_allVars PROVE [Log!LogNext]_<<disk, Asked>>
<1> USE PanelAssumption DEF IInv
<1>1. ASSUME NEW c \in Clients, StoreStep(c) PROVE [Log!LogNext]_<<disk, Asked>>
  <2>1. CASE Acquire(c)
    BY <2>1, AcquireSimulates
  <2>2. CASE ReadRecord(c)
    BY <2>2, ReadRecordSimulates DEF Log!LogNext
  <2>3. CASE Write(c)
    BY <2>3, WriteSimulates DEF Log!LogNext
  <2>4. CASE StorageFails(c)
    BY <2>4, FailSimulates DEF StorageFails, Log!LogNext
  <2>5. CASE Release(c)
    BY <2>5, ReleaseSimulates
  <2> QED BY <1>1, <2>1, <2>2, <2>3, <2>4, <2>5 DEF StoreStep
<1>2. ASSUME NEW c \in Clients, NEW op, Call(c, op) \/ Refused(c)
      PROVE  [Log!LogNext]_<<disk, Asked>>
  BY <1>2, CallSimulates, RefusedSimulates DEF Log!LogNext
<1>3. ASSUME NEW c \in Clients, work' = [work EXCEPT ![c] = Idle], UNCHANGED disk
      PROVE  [Log!LogNext]_<<disk, Asked>>
  BY <1>3, EndSimulates DEF Log!LogNext
<1>4. ASSUME NEW c \in Clients, AgentStep(c) PROVE [Log!LogNext]_<<disk, Asked>>
  BY <1>2, <1>3, <1>4 DEF AgentStep, AgentActs, WriteReview, Complete, AgentDone, Crash
<1>a. ASSUME NEW c \in Clients, TabStep(c) PROVE [Log!LogNext]_<<disk, Asked>>
  BY <1>2, <1>3, <1>a DEF TabStep, ClickElsewhere, Queue, Delete, ApplySuggestion, AgentDone, Crash
<1>5. ASSUME NEW h \in Handlers, Click(h) PROVE [Log!LogNext]_<<disk, Asked>>
  BY <1>2, <1>5 DEF Click, Queue, Delete, ApplySuggestion
<1>6. ASSUME NEW h \in Handlers, Answered(h) \/ AnswerLost(h) PROVE [Log!LogNext]_<<disk, Asked>>
  BY <1>3, <1>6 DEF Answered, AnswerLost, Finish
<1>7. ASSUME NEW s \in Slots, FetchStep(s) PROVE UNCHANGED <<disk, Asked>>
  BY <1>7, FetchStepKeeps, RestSimulates
<1>8. CASE SendPoll \/ ServePoll \/ PollArrives \/ PollFails
  BY <1>8, PollKeeps, RestSimulates
<1>9. CASE UNCHANGED allVars
  BY <1>9, RestSimulates DEF allVars
<1> QED BY <1>1, <1>4, <1>a, <1>5, <1>6, <1>7, <1>8, <1>9 DEF PanelNext

LEMMA InitSimulates == PanelInit => Log!LogInit
BY DEF PanelInit, RecordInit, NobodyWorks, Idle, Log!LogInit, Asked

(* Every operation on a request record is one atomic step of the log, taken whole or not at  *)
(* all, whichever processes interleave, fail or die (RequestStore.update and its flock).      *)
THEOREM RecordIsALog == PanelSpec => RecordIsAtomic
<1>1. IInv /\ [PanelNext]_allVars => [Log!LogNext]_Log!logVars
  BY StepSimulates DEF Log!logVars
<1> QED
  BY <1>1, Invariance, InitSimulates, PTL DEF PanelSpec, RecordIsAtomic, Log!LogSpec
=============================================================================
