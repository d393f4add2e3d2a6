---------------------------- MODULE RequestRules ----------------------------
(***************************************************************************)
(* The rules of the request loop (request_service.py): what an operation   *)
(* does to the request record of a file, and when it is refused.           *)
(*                                                                         *)
(* The requests of a record are a function from ids to requests: ids grow, *)
(* so their order is the order of the list.  Of a request's texts only the *)
(* suggestion they come from is kept.                                      *)
(***************************************************************************)
EXTENDS Naturals, Sequences, FiniteSets

CONSTANTS Suggestions, \* ids a review may give its suggestions
          Long,        \* those whose title and change exceed INSTRUCTION_MAX
          PendingMax,  \* PENDING_MAX
          ReviewMax,   \* REVIEW_MAX
          None         \* no review, no suggestion, no error

(* A review is the applied mark of each of its suggestions. *)
Marks == UNION {[S -> BOOLEAN] : S \in SUBSET Suggestions}

Errors == {"invalid", "not_found", "conflict", "storage"}

ASSUME RulesAssumption ==
  /\ Long \subseteq Suggestions /\ None \notin Suggestions \cup Marks \cup Errors
  /\ PendingMax \in Nat /\ ReviewMax \in Nat

Request == [status: {"pending", "done", "skipped"}, from: Suggestions \cup {None}]

EmptyRecord == [nextId |-> 1, revision |-> 0, requests |-> << >>, review |-> None]

Ids(r) == DOMAIN r.requests

Pending(r) == Cardinality({i \in Ids(r) : r.requests[i].status = "pending"})

HasSuggestion(r, s) == r.review # None /\ s \in DOMAIN r.review

-----------------------------------------------------------------------------
(* The operations, and what they refuse before they touch the record *)

Texts == {"fine", "blank", "long"}

(* _check_review: too many, a faulty field, an id given twice. *)
FaultyReview(raw) ==
  \/ Len(raw) > ReviewMax
  \/ \E i \in DOMAIN raw : ~raw[i].sound
  \/ \E i, j \in DOMAIN raw : i # j /\ raw[i].id = raw[j].id

QueueOp       == [do |-> "queue"]
CompleteOp(i, status, blank) == [do |-> "complete", id |-> i, status |-> status, blank |-> blank]
DeleteOp(i)   == [do |-> "delete", id |-> i]
ReviewOp(raw) == [do |-> "review", of |-> {raw[i].id : i \in DOMAIN raw}]
ApplyOp(s)    == [do |-> "apply", of |-> s]

-----------------------------------------------------------------------------
(* What an operation does under the lock: the error it raises, or the record *)
(* it leaves.                                                                *)

QueueError(r) == IF Pending(r) >= PendingMax THEN "conflict" ELSE None

(* _finish: id, status, reason, already completed. *)
CompleteError(r, op) ==
  CASE op.id \notin Ids(r)                     -> "not_found"
    [] op.id \in Ids(r) /\ (op.status \notin {"done", "skipped"} \/ (op.status = "skipped" /\ op.blank))
                                               -> "invalid"
    [] OTHER -> IF r.requests[op.id].status # "pending" THEN "conflict" ELSE None

(* Mutant: an applied suggestion is not held to the pending limit. *)
ApplyErrorUnbounded(r, op) ==
  CASE ~HasSuggestion(r, op.of)                      -> "not_found"
    [] HasSuggestion(r, op.of) /\ r.review[op.of]    -> "conflict"
    [] OTHER                                         -> None

(* _apply: unknown, already applied, too long, pending limit. *)
ApplyError(r, op) ==
  CASE ~HasSuggestion(r, op.of)                      -> "not_found"
    [] HasSuggestion(r, op.of) /\ r.review[op.of]    -> "conflict"
    [] HasSuggestion(r, op.of) /\ ~r.review[op.of] /\ op.of \in Long -> "invalid"
    [] OTHER                                         -> QueueError(r)

Error(r, op) ==
  CASE op.do = "queue"    -> QueueError(r)
    [] op.do = "complete" -> CompleteError(r, op)
    [] op.do = "apply"    -> ApplyError(r, op)
    [] OTHER              -> None

Appended(r, from) ==
  [r EXCEPT !.nextId = r.nextId + 1,
            !.requests = [i \in Ids(r) \cup {r.nextId} |->
               IF i = r.nextId THEN [status |-> "pending", from |-> from] ELSE r.requests[i]]]

Finished(r, op) == [r EXCEPT !.requests[op.id].status = op.status]

(* Mutant: ids are counted from the requests left. *)
DeletedAndRenumbered(r, op) ==
  LET left == Ids(r) \ {op.id}
  IN  [r EXCEPT !.requests = [i \in left |-> r.requests[i]], !.nextId = Cardinality(left) + 1]

Deleted(r, op) == [r EXCEPT !.requests = [i \in Ids(r) \ {op.id} |-> r.requests[i]]]

Reviewed(r, op) == [r EXCEPT !.review = [s \in op.of |-> FALSE]]

(* Mutant: the request is queued and the suggestion is not marked. *)
AppliedUnmarked(r, op) == Appended(r, op.of)

Applied(r, op) == [Appended(r, op.of) EXCEPT !.review[op.of] = TRUE]

Change(r, op) ==
  CASE op.do = "queue"    -> Appended(r, None)
    [] op.do = "complete" -> Finished(r, op)
    [] op.do = "delete"   -> Deleted(r, op)
    [] op.do = "review"   -> Reviewed(r, op)
    [] op.do = "apply"    -> Applied(r, op)

(* Mutant: the revision moves with the ids only. *)
UpdatedUnrevised(r, op) ==
  LET changed == Change(r, op)
  IN  IF changed.nextId = r.nextId THEN changed ELSE [changed EXCEPT !.revision = r.revision + 1]

(* update: the revision grows when the serialized record differs. *)
Updated(r, op) ==
  LET changed == Change(r, op)
  IN  IF changed = r THEN r ELSE [changed EXCEPT !.revision = r.revision + 1]
=============================================================================
