---------------------------- MODULE RequestRecord ----------------------------
(***************************************************************************)
(* The request record of the served file (request_store.py), changed by    *)
(* the HTTP server and by agents in processes of their own, each under an  *)
(* exclusive flock of the record's lock file.  A lock goes with the        *)
(* descriptor, so it is held exactly while its owner is between acquiring  *)
(* it and closing it: a process that dies frees it.                        *)
(***************************************************************************)
EXTENDS RequestRules

CONSTANTS Clients, \* who changes the record
          Broken,  \* a record file that does not parse
          Reviews, \* reviews agents write, as given
          Verdicts, \* status and blank reason agents complete a request with
          MaxId, OpenRevisions \* bounds: operations begin on records of these revisions, up to this id

(* An operation gives one id at most, so those under way may pass the bound by one each. *)
Numbers == 1..MaxId + Cardinality(Clients)

Record == [nextId : Numbers \cup {MaxId + Cardinality(Clients) + 1}, revision : Nat,
           requests : UNION {[S -> Request] : S \in SUBSET Numbers}, review : Marks \cup {None}]

ASSUME ClientsAssumption ==
  /\ IsFiniteSet(Clients) /\ None \notin Clients
  /\ MaxId \in Nat /\ OpenRevisions \subseteq Nat
  /\ Reviews \subseteq Seq([id : Suggestions, sound : BOOLEAN])
  /\ Broken \notin Record

VARIABLES disk,    \* the record file; an absent one reads as the empty record
          work,    \* client -> its operation in progress
          applies  \* history: suggestion -> requests queued from it since its review

recordVars == <<disk, work, applies>>

(* A record of another version, or with any field of the wrong shape, is no record at all. *)
Unreadable == disk = Broken

Idle == [at |-> "idle", op |-> None, copy |-> None, error |-> None]

Ops ==
  {QueueOp} \cup {DeleteOp(i) : i \in 1..MaxId} \cup {ApplyOp(s) : s \in Suggestions}
  \cup {ReviewOp(raw) : raw \in {r \in Reviews : ~FaultyReview(r)}}
  \cup {CompleteOp(i, v.status, v.blank) : i \in 1..MaxId, v \in Verdicts}

NobodyWorks == work = [c \in Clients |-> Idle] /\ applies = [s \in Suggestions |-> 0]

RecordInit == disk \in {EmptyRecord, Broken} /\ NobodyWorks

Holds(c) == work[c].at \in {"locked", "read", "written"}

(* A call reaches the store, or is refused for what it says. *)
Call(c, op) ==
  /\ work[c] = Idle
  /\ ~Unreadable => disk.nextId <= MaxId /\ disk.revision \in OpenRevisions
  /\ work' = [work EXCEPT ![c] = [@ EXCEPT !.at = "asked", !.op = op]]
  /\ UNCHANGED <<disk, applies>>

Refused(c) ==
  /\ work[c] = Idle
  /\ work' = [work EXCEPT ![c] = [@ EXCEPT !.at = "answered", !.error = "invalid"]]
  /\ UNCHANGED <<disk, applies>>

Queue(c, text) == IF text \in {"blank", "long"} THEN Refused(c) ELSE Call(c, QueueOp)

WriteReview(c, raw) == IF FaultyReview(raw) THEN Refused(c) ELSE Call(c, ReviewOp(raw))

Complete(c, i, status, blank) == Call(c, CompleteOp(i, status, blank))

Delete(c, i) == Call(c, DeleteOp(i))

ApplySuggestion(c, s) == Call(c, ApplyOp(s))

(* Mutant: no flock. *)
AcquireUnlocked(c) ==
  /\ work[c].at = "asked"
  /\ work' = [work EXCEPT ![c].at = "locked"]
  /\ UNCHANGED <<disk, applies>>

Acquire(c) ==
  /\ work[c].at = "asked"
  /\ \A d \in Clients : ~Holds(d)
  /\ work' = [work EXCEPT ![c].at = "locked"]
  /\ UNCHANGED <<disk, applies>>

Answer(c, error) == work' = [work EXCEPT ![c].at = "answered", ![c].error = error, ![c].copy = None]

ReadRecord(c) ==
  /\ work[c].at = "locked"
  /\ IF Unreadable THEN Answer(c, "storage")
     ELSE work' = [work EXCEPT ![c].at = "read", ![c].copy = disk]
  /\ UNCHANGED <<disk, applies>>

CountApplies(op) ==
  applies' = [s \in Suggestions |->
    CASE op.do = "review"                -> 0
      [] op.do = "apply" /\ s = op.of    -> applies[s] + 1
      [] OTHER                           -> applies[s]]

(* The change refuses, leaves the record as it is, or is swapped in. *)
Write(c) ==
  /\ work[c].at = "read"
  /\ LET copy == work[c].copy  op == work[c].op
     IN  IF Error(copy, op) # None
         THEN Answer(c, Error(copy, op)) /\ UNCHANGED <<disk, applies>>
         ELSE /\ disk' = IF Updated(copy, op) = copy THEN disk ELSE Updated(copy, op)
              /\ CountApplies(op)
              /\ work' = [work EXCEPT ![c].at = "written", ![c].copy = None]

(* A directory that cannot be made, a lock or a write that fails. *)
StorageFails(c) ==
  /\ work[c].at \in {"asked", "locked", "read"}
  /\ Answer(c, "storage")
  /\ UNCHANGED <<disk, applies>>

Release(c) ==
  /\ work[c].at = "written"
  /\ Answer(c, None)
  /\ UNCHANGED <<disk, applies>>

(* The caller's process dies. *)
Crash(c) ==
  /\ work[c] # Idle
  /\ work' = [work EXCEPT ![c] = Idle]
  /\ UNCHANGED <<disk, applies>>

StoreStep(c) == Acquire(c) \/ ReadRecord(c) \/ Write(c) \/ StorageFails(c) \/ Release(c)

(* An agent reviews, completes and works the list through; its answer is all it waits for. *)
AgentActs(c) ==
  \/ \E raw \in Reviews : WriteReview(c, raw)
  \/ \E i \in 1..MaxId, v \in Verdicts : Complete(c, i, v.status, v.blank)

AgentDone(c) == work[c].at = "answered" /\ work' = [work EXCEPT ![c] = Idle] /\ UNCHANGED <<disk, applies>>

-----------------------------------------------------------------------------
RecordOK(r) == r \in Record /\ Ids(r) \subseteq 1..r.nextId - 1

(* Every state of the record and of the operations on it is well formed; in particular a record *)
(* never lists an id it has still to give.                                                      *)
RecordTypeOK ==
  /\ disk # Broken => RecordOK(disk)
  /\ \A c \in Clients : /\ work[c].at \in {"idle", "asked", "locked", "read", "written", "answered"}
                        /\ work[c].op \in Ops \cup {None}
                        /\ work[c].copy # None => RecordOK(work[c].copy)
                        /\ work[c].error \in Errors \cup {None}
  /\ applies \in [Suggestions -> Nat]

(* update and its flock make every operation of every process one step on the record, taken *)
(* whole or not at all, whatever dies in the middle.                                        *)
Asked == [c \in Clients |->
  CASE work[c].at = "idle"                         -> [at |-> "idle"]
    [] work[c].at \in {"asked", "locked", "read"}  -> [at |-> "asked", op |-> work[c].op]
    [] OTHER                                       -> [at |-> "done", error |-> work[c].error]]

Log == INSTANCE RequestLog WITH log <- disk, asked <- Asked

RecordIsAtomic == Log!LogSpec

(* An id is never given again, not even after its request was deleted, so an agent that       *)
(* completes a request it read earlier can only meet that request; and two different records  *)
(* of a file never carry one revision, by which alone the status poll tells that it changed.  *)
NumbersOnlyGrow ==
  [][disk # Broken => /\ disk' # Broken
                      /\ disk'.nextId >= disk.nextId
                      /\ \A i \in Ids(disk') \ Ids(disk) : i >= disk.nextId
                      /\ disk'.revision > disk.revision]_disk

(* The limit on pending requests holds however queue and apply_suggestion of several processes *)
(* interleave.                                                                                 *)
PendingBounded == disk # Broken => Pending(disk) <= PendingMax

(* A suggestion of one review is queued at most once, and is marked applied exactly when it was. *)
AppliedOnce ==
  disk # Broken =>
    \A s \in Suggestions : /\ applies[s] <= 1
                           /\ HasSuggestion(disk, s) => (disk.review[s] <=> applies[s] = 1)
=============================================================================
