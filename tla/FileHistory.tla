----------------------------- MODULE FileHistory -----------------------------
(***************************************************************************)
(* Writing an edited file (fileio.py) and keeping its versions             *)
(* (history.py): the server and agents write side by side, a process may   *)
(* die anywhere, and the clock that names the versions counts seconds.     *)
(* The file and the versions survive a dead writer, and so do its claims.  *)
(***************************************************************************)
EXTENDS Naturals, FiniteSets

CONSTANTS Writers, Contents, Reasons,
          Limit,       \* HISTORY_LIMIT
          MaxAttempts, \* _MAX_ATTEMPTS
          MaxSeconds,  \* bound: the clock stops there
          MaxBegun,    \* bound: writes begun in all
          Missing      \* no file, no reason, no staged version

VARIABLES file,     \* the content of the file
          versions, \* the kept versions: [id, reason, content, by]
          claims,   \* ids a .claim file stands for
          writer,   \* writer -> its atomic_write in progress
          second,   \* the clock
          begun     \* writes begun, for the bound MaxBegun

vars == <<file, versions, claims, writer, second, begun>>

Id == [second : 0..MaxSeconds, suffix : 1..MaxAttempts]

Version == [id : Id, reason : Reasons, content : Contents, by : Writers]

ASSUME HistoryAssumption ==
  /\ Limit \in Nat \ {0} /\ MaxAttempts \in Nat \ {0} /\ MaxSeconds \in Nat
  /\ "restore" \in Reasons /\ Missing \notin Contents \cup Reasons \cup Version \cup {"same", "failed", "written"}

Older(i, j) == i.second < j.second \/ (i.second = j.second /\ i.suffix < j.suffix)

Idle == [at |-> "idle", data |-> Missing, reason |-> Missing, existing |-> Missing,
         id |-> Missing, staged |-> Missing, doomed |-> {}, outcome |-> Missing, alone |-> TRUE]

Init ==
  /\ file \in Contents \cup {Missing}
  /\ versions = {} /\ claims = {}
  /\ writer = [w \in Writers |-> Idle]
  /\ second = 0 /\ begun = 0

Active == {w \in Writers : writer[w].at \notin {"idle", "ended"}}

Ended(me, outcome) == [me EXCEPT !.at = "ended", !.outcome = outcome, !.doomed = {}]

-----------------------------------------------------------------------------
(* _replace reads the file: equal bytes end the write. *)
Begin(w, data, reason) ==
  /\ writer[w] = Idle
  /\ begun < MaxBegun
  /\ begun' = begun + 1
  /\ LET me == [Idle EXCEPT !.data = data, !.reason = reason, !.existing = file, !.alone = Active = {}]
         others == [v \in Writers |-> IF writer[v] # Idle THEN [writer[v] EXCEPT !.alone = FALSE] ELSE writer[v]]
     IN  writer' = [others EXCEPT ![w] = IF file = data THEN Ended(me, "same") ELSE [me EXCEPT !.at = "read"]]
  /\ UNCHANGED <<file, versions, claims, second>>

(* A save, a patch, a layout; without a reason nothing is kept. *)
Write(w) == \E data \in Contents, reason \in (Reasons \ {"restore"}) \cup {Missing} : Begin(w, data, reason)

(* restore_version: any version listed, put back as one more write. *)
Restore(w) == \E v \in versions : file # Missing /\ Begin(w, v.content, "restore")

(* stage takes its id from the clock; what is not kept goes on to the replace. *)
Stage(w) ==
  /\ writer[w].at = "read"
  /\ writer' = [writer EXCEPT ![w] =
       IF @.reason = Missing \/ @.existing = Missing THEN [@ EXCEPT !.at = "staged"]
       ELSE [@ EXCEPT !.at = "staging", !.id = [second |-> second, suffix |-> 1]]]
  /\ UNCHANGED <<file, versions, claims, second, begun>>

(* The id is taken: the next suffix, or no free id at all. *)
NextId(me) ==
  IF me.id.suffix < MaxAttempts THEN [me EXCEPT !.at = "staging", !.id.suffix = @ + 1]
  ELSE Ended(me, "failed")

Claim(w) ==
  /\ writer[w].at = "staging"
  /\ IF writer[w].id \in claims
     THEN writer' = [writer EXCEPT ![w] = NextId(@)] /\ UNCHANGED claims
     ELSE claims' = claims \cup {writer[w].id} /\ writer' = [writer EXCEPT ![w].at = "claimed"]
  /\ UNCHANGED <<file, versions, second, begun>>

InUse(id) == \E v \in versions : v.id = id

(* Mutant: only a version kept for the same reason counts. *)
CheckIdOfReason(w) ==
  /\ writer[w].at = "claimed"
  /\ IF \E v \in versions : v.id = writer[w].id /\ v.reason = writer[w].reason
     THEN writer' = [writer EXCEPT ![w] = NextId(@)] /\ claims' = claims \ {writer[w].id}
     ELSE writer' = [writer EXCEPT ![w].at = "checked"] /\ UNCHANGED claims
  /\ UNCHANGED <<file, versions, second, begun>>

CheckId(w) ==
  /\ writer[w].at = "claimed"
  /\ IF InUse(writer[w].id)
     THEN writer' = [writer EXCEPT ![w] = NextId(@)] /\ claims' = claims \ {writer[w].id}
     ELSE writer' = [writer EXCEPT ![w].at = "checked"] /\ UNCHANGED claims
  /\ UNCHANGED <<file, versions, second, begun>>

(* The version appears whole, under a name that must not exist. *)
Link(w) ==
  /\ writer[w].at = "checked"
  /\ LET me == writer[w]
         version == [id |-> me.id, reason |-> me.reason, content |-> me.existing, by |-> w]
     IN  IF \E v \in versions : v.id = me.id /\ v.reason = me.reason
         THEN writer' = [writer EXCEPT ![w] = NextId(me)] /\ claims' = claims \ {me.id} /\ UNCHANGED versions
         ELSE /\ versions' = versions \cup {version}
              /\ writer' = [writer EXCEPT ![w].at = "linked", ![w].staged = version]
              /\ UNCHANGED claims
  /\ UNCHANGED <<file, second, begun>>

Unclaim(w) ==
  /\ writer[w].at = "linked"
  /\ claims' = claims \ {writer[w].id}
  /\ writer' = [writer EXCEPT ![w].at = "staged"]
  /\ UNCHANGED <<file, versions, second, begun>>

Replace(w) ==
  /\ writer[w].at = "staged"
  /\ file' = writer[w].data
  /\ writer' = [writer EXCEPT ![w].at = "replaced"]
  /\ UNCHANGED <<versions, claims, second, begun>>

(* A step before the replace, or the replace, fails; the claim goes in any case. *)
WriteFails(w) ==
  /\ writer[w].at \in {"read", "staging", "claimed", "checked", "staged"}
  /\ claims' = IF writer[w].at \in {"claimed", "checked"} THEN claims \ {writer[w].id} ELSE claims
  /\ writer' = [writer EXCEPT ![w].at = "failing"]
  /\ UNCHANGED <<file, versions, second, begun>>

SameName(u, v) == u.id = v.id /\ u.reason = v.reason

(* Mutant: the staged version of a failed write stays. *)
DiscardNothing(w) ==
  /\ writer[w].at = "failing"
  /\ writer' = [writer EXCEPT ![w] = Ended(@, "failed")]
  /\ UNCHANGED <<file, versions, claims, second, begun>>

Discard(w) ==
  /\ writer[w].at = "failing"
  /\ versions' = IF writer[w].staged = Missing THEN versions ELSE {v \in versions : ~SameName(v, writer[w].staged)}
  /\ writer' = [writer EXCEPT ![w] = Ended(@, "failed")]
  /\ UNCHANGED <<file, claims, second, begun>>

(* Mutant: the newest version is counted out. *)
BeyondLimitByOne == {v \in versions : Cardinality({u \in versions : Older(v.id, u.id)}) + 1 >= Limit}

BeyondLimit == {v \in versions : Cardinality({u \in versions : Older(v.id, u.id)}) >= Limit}

List(w) ==
  /\ writer[w].at = "replaced"
  /\ writer' = [writer EXCEPT ![w] =
       IF @.staged # Missing /\ BeyondLimit # {} THEN [@ EXCEPT !.at = "pruning", !.doomed = BeyondLimit]
       ELSE Ended(@, "written")]
  /\ UNCHANGED <<file, versions, claims, second, begun>>

PruneOne(w) ==
  /\ writer[w].at = "pruning"
  /\ \E d \in writer[w].doomed :
       /\ \A e \in writer[w].doomed : ~Older(d.id, e.id)
       /\ versions' = {v \in versions : ~SameName(v, d)}
       /\ writer' = [writer EXCEPT ![w] =
            IF @.doomed = {d} THEN Ended(@, "written") ELSE [@ EXCEPT !.doomed = writer[w].doomed \ {d}]]
  /\ UNCHANGED <<file, claims, second, begun>>

(* Mutant: a failure to prune is told as a failure to write. *)
PruneFailsTheWrite(w) ==
  /\ writer[w].at \in {"replaced", "pruning"}
  /\ writer' = [writer EXCEPT ![w] = Ended(@, "failed")]
  /\ UNCHANGED <<file, versions, claims, second, begun>>

PruneFails(w) ==
  /\ writer[w].at \in {"replaced", "pruning"}
  /\ writer' = [writer EXCEPT ![w] = Ended(@, "written")]
  /\ UNCHANGED <<file, versions, claims, second, begun>>

Return(w) ==
  /\ writer[w].at = "ended"
  /\ writer' = [writer EXCEPT ![w] = Idle]
  /\ UNCHANGED <<file, versions, claims, second, begun>>

(* The writer's process dies: nothing of it is cleaned up. *)
Crash(w) ==
  /\ writer[w] # Idle
  /\ writer' = [writer EXCEPT ![w] = Idle]
  /\ UNCHANGED <<file, versions, claims, second, begun>>

NextSecond ==
  /\ second < MaxSeconds
  /\ second' = second + 1
  /\ UNCHANGED <<file, versions, claims, writer, begun>>

WriterStep(w) ==
  \/ Write(w) \/ Restore(w) \/ Stage(w) \/ Claim(w) \/ CheckId(w) \/ Link(w) \/ Unclaim(w)
  \/ Replace(w) \/ WriteFails(w) \/ Discard(w) \/ List(w) \/ PruneOne(w) \/ PruneFails(w) \/ Return(w) \/ Crash(w)

Next == NextSecond \/ \E w \in Writers : WriterStep(w)

Spec == Init /\ [][Next]_vars

-----------------------------------------------------------------------------
(* Two writers that stage in one second, even for different reasons, end on different ids: *)
(* restore_version of an id means one content (_publish and its claim).                    *)
IdsUnique == \A u, v \in versions : u.id = v.id => u = v

(* A write that no other write overlapped has kept the content it replaced when it answers,  *)
(* and its prune did not take it back: what is gone from the file can be restored.  This     *)
(* holds as long as no version of that second has a higher suffix (a suffix that is free     *)
(* again is given again, and sorts as older than it is).                                     *)
InOrder(version) ==
  \A v \in versions : v.id.second = version.id.second => ~Older(version.id, v.id)

ReplacedIsKept ==
  \A w \in Writers :
    LET me == writer[w]
    IN  me.at = "ended" /\ me.outcome = "written" /\ me.alone /\ me.reason # Missing /\ me.existing # Missing
          => me.staged # Missing /\ (InOrder(me.staged) => me.staged \in versions)

(* A write that answers failure leaves no version behind (atomic_write: with the history *)
(* untouched), however far it had come.                                                  *)
FailureUndone ==
  \A w \in Writers : writer[w].outcome = "failed" /\ writer[w].staged # Missing => writer[w].staged \notin versions

(* The file only ever holds a whole content that some write answered for, or whose writer *)
(* died; a failed write left it alone.                                                    *)
Calls == [w \in Writers |->
  CASE writer[w].at = "idle"                     -> [at |-> "idle"]
    [] writer[w].at = "ended"                    -> [at |-> "done", outcome |-> writer[w].outcome]
    [] writer[w].at \in {"replaced", "pruning"}  -> [at |-> "put"]
    [] OTHER                                     -> [at |-> "writing", data |-> writer[w].data]]

File == INSTANCE AtomicFile WITH content <- file, calls <- Calls

WritesAreAtomic == File!FileSpec
=============================================================================
