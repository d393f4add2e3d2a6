-------------------------- MODULE DocumentsProofs ---------------------------
(***************************************************************************)
(* Proofs about the document on disk: its versions, for any number of      *)
(* writers, contents, attempts and seconds, with the refinement of         *)
(* AtomicFile; and the patches of a presentation, for any decks, slides,   *)
(* ids and lists of operations.                                            *)
(***************************************************************************)
EXTENDS FileHistory, DeckPatch, SequenceTheorems, WellFoundedInduction, FiniteSetTheorems, TLAPS

Places == {"idle", "read", "staging", "claimed", "checked", "linked", "staged", "replaced", "failing", "pruning", "ended"}

Writer == [at : Places, data : Contents \cup {Missing}, reason : Reasons \cup {Missing}, existing : Contents \cup {Missing},
           id : Id \cup {Missing}, staged : Version \cup {Missing}, doomed : SUBSET Version,
           outcome : {"same", "failed", "written", Missing}, alone : BOOLEAN]

(* A writer whose claim file stands for its id. *)
Owns(me) == me.at \in {"claimed", "checked", "linked"}

(* What has to hold of the write me of w, where vs are kept and cs are claimed. *)
WriteOK(w, me, vs, cs) ==
  /\ me \in Writer
  /\ me.at = "idle" => me = Idle
  /\ me.at \notin {"idle", "ended"} => me.data \in Contents
  /\ me.at \in {"staging", "claimed", "checked", "linked"} => me.id \in Id /\ me.reason \in Reasons /\ me.existing \in Contents
  /\ me.at \in {"idle", "read", "staging", "claimed", "checked"} => me.staged = Missing
  /\ me.staged # Missing => me.staged.by = w /\ me.staged.id = me.id
  /\ Owns(me) => me.id \in cs
  /\ me.at = "checked" => \A v \in vs : v.id # me.id
  /\ me.outcome # Missing => me.at = "ended"
  /\ me.outcome = "failed" /\ me.staged # Missing => me.staged \notin vs
  /\ me.at # "pruning" => me.doomed = {}

ClaimsApart ==
  \A v, w \in Writers : v # w /\ Owns(writer[v]) /\ Owns(writer[w]) => writer[v].id # writer[w].id

IInv ==
  /\ file \in Contents \cup {Missing}
  /\ versions \in SUBSET Version /\ IsFiniteSet(versions)
  /\ second \in 0..MaxSeconds
  /\ writer \in [Writers -> Writer]
  /\ \A w \in Writers : WriteOK(w, writer[w], versions, claims)
  /\ ClaimsApart
  /\ IdsUnique

-----------------------------------------------------------------------------

LEMMA IdleOK == Idle \in Writer /\ \A w, vs, cs : WriteOK(w, Idle, vs, cs)
<1>1. Idle \in Writer
  BY DEF Idle, Writer, Places
<1> QED BY <1>1 DEF Idle, WriteOK, Owns

LEMMA InitInv == Init => IInv
<1> SUFFICES ASSUME Init PROVE IInv
  OBVIOUS
<1>1. writer \in [Writers -> Writer] /\ \A w \in Writers : writer[w] = Idle
  BY IdleOK DEF Init
<1>2. ClaimsApart
  BY <1>1 DEF ClaimsApart, Owns, Idle
<1>3. IsFiniteSet({})
  BY FS_EmptySet
<1>4. second \in 0..MaxSeconds
  BY HistoryAssumption DEF Init
<1> QED BY <1>1, <1>2, <1>3, <1>4, IdleOK DEF Init, IInv, IdsUnique

LEMMA OneMoves ==
  ASSUME writer \in [Writers -> Writer], NEW w \in Writers, NEW me \in Writer, writer' = [writer EXCEPT ![w] = me]
  PROVE  writer' \in [Writers -> Writer] /\ writer'[w] = me /\ \A v \in Writers \ {w} : writer'[v] = writer[v]
OBVIOUS

(* A write moves without a new version; it gives up no claim but its own, and takes none that stands. *)
LEMMA WriteMoves ==
  ASSUME IInv, NEW w \in Writers, NEW me, writer' = [writer EXCEPT ![w] = me],
         WriteOK(w, me, versions', claims'),
         file' \in Contents \cup {Missing}, versions' \in SUBSET versions, second' \in 0..MaxSeconds,
         claims \subseteq claims' \/ (Owns(writer[w]) /\ ~Owns(me) /\ claims \ {writer[w].id} \subseteq claims'),
         Owns(me) => me.id \notin claims \/ (Owns(writer[w]) /\ me.id = writer[w].id)
  PROVE  IInv'
<1>1. /\ writer \in [Writers -> Writer] /\ me \in Writer /\ versions \in SUBSET Version /\ IsFiniteSet(versions)
      /\ ClaimsApart /\ IdsUnique
      /\ \A v \in Writers : WriteOK(v, writer[v], versions, claims)
  BY DEF IInv, WriteOK
<1>2. writer' \in [Writers -> Writer] /\ writer'[w] = me /\ \A v \in Writers \ {w} : writer'[v] = writer[v]
  BY <1>1, OneMoves
<1>3. ASSUME NEW v \in Writers \ {w} PROVE WriteOK(v, writer[v], versions', claims')
  <2>1. Owns(writer[v]) => writer[v].id \in claims'
    BY <1>1 DEF WriteOK, ClaimsApart
  <2> QED BY <1>1, <2>1 DEF WriteOK
<1>4. \A v \in Writers : WriteOK(v, writer'[v], versions', claims')
  BY <1>2, <1>3
<1>5. ClaimsApart'
  <2>1. \A v \in Writers \ {w} : Owns(writer[v]) /\ Owns(me) => writer[v].id # me.id
    BY <1>1 DEF ClaimsApart, WriteOK
  <2>2. \A u, v \in Writers : u # v /\ Owns(writer'[u]) /\ Owns(writer'[v]) => writer'[u].id # writer'[v].id
    BY <1>1, <1>2, <2>1 DEF ClaimsApart
  <2> QED BY <2>2 DEF ClaimsApart, Owns
<1>6. IdsUnique'
  BY <1>1 DEF IdsUnique
<1>7. IsFiniteSet(versions')
  BY <1>1, FS_Subset
<1> QED BY <1>1, <1>2, <1>4, <1>5, <1>6, <1>7 DEF IInv, WriteOK, Owns

LEMMA WriterTypes ==
  ASSUME IInv, NEW w \in Writers
  PROVE  /\ writer \in [Writers -> Writer] /\ writer[w] \in Writer /\ WriteOK(w, writer[w], versions, claims)
         /\ file \in Contents \cup {Missing} /\ second \in 0..MaxSeconds /\ versions \in SUBSET Version
BY DEF IInv

LEMMA EndedType ==
  ASSUME NEW me \in Writer, NEW outcome \in {"same", "failed", "written"}
  PROVE  /\ Ended(me, outcome) \in Writer /\ Ended(me, outcome).at = "ended" /\ Ended(me, outcome).outcome = outcome
         /\ Ended(me, outcome).doomed = {} /\ Ended(me, outcome).staged = me.staged /\ Ended(me, outcome).id = me.id
         /\ Ended(me, outcome).reason = me.reason /\ Ended(me, outcome).existing = me.existing
         /\ Ended(me, outcome).alone = me.alone
<1>1. "ended" \in Places /\ outcome \in {"same", "failed", "written", Missing} /\ {} \in SUBSET Version
  BY DEF Places
<1>2. Ended(me, outcome) \in Writer
  BY <1>1, Zenon DEF Ended, Writer
<1> QED BY <1>2 DEF Ended, Writer

LEMMA EndedOK ==
  ASSUME IInv, NEW w \in Writers, NEW outcome \in {"same", "failed", "written"}, NEW vs, NEW cs,
         outcome = "failed" /\ writer[w].staged # Missing => writer[w].staged \notin vs
  PROVE  WriteOK(w, Ended(writer[w], outcome), vs, cs) /\ ~Owns(Ended(writer[w], outcome))
<1> DEFINE me == Ended(writer[w], outcome)
<1>1. WriteOK(w, writer[w], versions, claims)
  BY WriterTypes
<1>2. /\ me \in Writer /\ me.at = "ended" /\ me.outcome = outcome /\ me.doomed = {}
      /\ me.staged = writer[w].staged /\ me.id = writer[w].id
  BY WriterTypes, EndedType
<1> HIDE DEF me
<1>3. WriteOK(w, me, vs, cs) /\ ~Owns(me)
  BY <1>1, <1>2 DEF WriteOK, Owns
<1> QED BY <1>3 DEF me

(* Whatever is kept or claimed, a writer may try the next id. *)
LEMMA NextIdOK ==
  ASSUME IInv, NEW w \in Writers, writer[w].at \in {"staging", "claimed", "checked"}, NEW vs, NEW cs
  PROVE  WriteOK(w, NextId(writer[w]), vs, cs) /\ ~Owns(NextId(writer[w]))
<1> DEFINE me == writer[w]
<1>1. WriteOK(w, me, versions, claims) /\ me \in Writer
  BY WriterTypes
<1>2. me.staged = Missing /\ me.id \in Id
  BY <1>1 DEF WriteOK
<1>3. CASE me.id.suffix < MaxAttempts
  <2> DEFINE id == [me.id EXCEPT !.suffix = @ + 1]
             next == [me EXCEPT !.at = "staging", !.id = id]
  <2>1. id \in Id
    BY <1>2, <1>3, HistoryAssumption DEF Id
  <2>2. NextId(me) = next
    BY <1>3 DEF NextId
  <2> HIDE DEF id
  <2>3. next \in Writer
    <3>1. "staging" \in Places /\ id \in Id \cup {Missing}
      BY <2>1 DEF Places
    <3> QED BY <1>1, <3>1, Zenon DEF Writer
  <2>4. /\ next.at = "staging" /\ next.id = id /\ next.data = me.data /\ next.reason = me.reason
        /\ next.existing = me.existing /\ next.staged = me.staged /\ next.doomed = me.doomed /\ next.outcome = me.outcome
    BY <1>1 DEF Writer
  <2> HIDE DEF next
  <2>5. WriteOK(w, next, vs, cs) /\ ~Owns(next)
    BY <1>1, <1>2, <2>1, <2>3, <2>4 DEF WriteOK, Owns
  <2> QED BY <2>2, <2>5
<1>4. CASE ~(me.id.suffix < MaxAttempts)
  <2>1. NextId(me) = Ended(me, "failed")
    BY <1>4 DEF NextId
  <2> QED BY <1>2, <2>1, EndedOK
<1> QED BY <1>3, <1>4

-----------------------------------------------------------------------------

(* A write that begins tells the writes under way that they are not alone. *)
LEMMA OthersOK ==
  ASSUME IInv, NEW v \in Writers, NEW vs, NEW cs, WriteOK(v, writer[v], vs, cs), writer[v] # Idle
  PROVE  LET other == [writer[v] EXCEPT !.alone = FALSE]
         IN  /\ other \in Writer /\ WriteOK(v, other, vs, cs) /\ ~other.alone
             /\ other.at = writer[v].at /\ other.id = writer[v].id /\ other.outcome = writer[v].outcome
             /\ other.reason = writer[v].reason /\ other.existing = writer[v].existing
             /\ other.staged = writer[v].staged /\ other.doomed = writer[v].doomed /\ other.data = writer[v].data
<1> DEFINE other == [writer[v] EXCEPT !.alone = FALSE]
<1>1. writer[v] \in Writer
  BY WriterTypes
<1>2. /\ other \in Writer /\ ~other.alone
      /\ other.at = writer[v].at /\ other.id = writer[v].id /\ other.outcome = writer[v].outcome
      /\ other.reason = writer[v].reason /\ other.existing = writer[v].existing
      /\ other.staged = writer[v].staged /\ other.doomed = writer[v].doomed /\ other.data = writer[v].data
  BY <1>1 DEF Writer
<1>3. writer[v].at # "idle"
  BY DEF WriteOK
<1> HIDE DEF other
<1>4. WriteOK(v, other, vs, cs)
  BY <1>2, <1>3 DEF WriteOK, Owns
<1> QED BY <1>2, <1>4 DEF other

(* The write of w at its start. *)
Started(data, reason) ==
  LET me == [Idle EXCEPT !.data = data, !.reason = reason, !.existing = file, !.alone = Active = {}]
  IN  IF file = data THEN Ended(me, "same") ELSE [me EXCEPT !.at = "read"]

LEMMA StartedType ==
  ASSUME IInv, NEW data \in Contents, NEW reason \in Reasons \cup {Missing}
  PROVE  LET me == Started(data, reason)
         IN  /\ me \in Writer /\ me.doomed = {} /\ me.staged = Missing /\ me.id = Missing
             /\ me.alone = (Active = {})
             /\ \/ me.at = "read" /\ me.data = data /\ me.outcome = Missing
                \/ me.at = "ended" /\ me.outcome = "same"
             /\ \A w, vs, cs : WriteOK(w, me, vs, cs)
<1> DEFINE asked == [Idle EXCEPT !.data = data, !.reason = reason, !.existing = file, !.alone = Active = {}]
           me == [asked EXCEPT !.at = "read"]
<1>1. file \in Contents \cup {Missing} /\ data \in Contents \cup {Missing} /\ (Active = {}) \in BOOLEAN /\ Idle \in Writer
  BY IdleOK DEF IInv
<1>2. asked \in Writer
  BY <1>1, Zenon DEF Writer
<1>3. /\ asked.data = data /\ asked.staged = Missing /\ asked.id = Missing /\ asked.doomed = {}
      /\ asked.outcome = Missing /\ asked.alone = (Active = {})
  BY DEF Idle
<1> HIDE DEF asked
<1>4. /\ me \in Writer /\ me.at = "read" /\ me.data = data /\ me.staged = Missing /\ me.id = Missing
      /\ me.doomed = {} /\ me.outcome = Missing /\ me.alone = (Active = {})
  BY <1>2, <1>3 DEF Writer, Places
<1> HIDE DEF me
<1>5. \A w, vs, cs : WriteOK(w, me, vs, cs)
  BY <1>4 DEF WriteOK, Owns
<1>6. /\ Ended(asked, "same") \in Writer /\ Ended(asked, "same").at = "ended" /\ Ended(asked, "same").outcome = "same"
      /\ Ended(asked, "same").doomed = {} /\ Ended(asked, "same").staged = Missing /\ Ended(asked, "same").id = Missing
      /\ Ended(asked, "same").alone = (Active = {})
  BY <1>2, <1>3, EndedType
<1>7. \A w, vs, cs : WriteOK(w, Ended(asked, "same"), vs, cs)
  BY <1>6 DEF WriteOK, Owns
<1>8. Started(data, reason) = IF file = data THEN Ended(asked, "same") ELSE me
  BY DEF Started, asked, me
<1>9. CASE file = data
  BY <1>6, <1>7, <1>8, <1>9
<1>10. CASE file # data
  BY <1>4, <1>5, <1>8, <1>10
<1> QED BY <1>9, <1>10

LEMMA BeginMoves ==
  ASSUME IInv, NEW w \in Writers, NEW data \in Contents, NEW reason \in Reasons \cup {Missing}, Begin(w, data, reason)
  PROVE  /\ writer' \in [Writers -> Writer] /\ writer'[w] = Started(data, reason)
         /\ \A v \in Writers \ {w} :
              writer'[v] = IF writer[v] # Idle THEN [writer[v] EXCEPT !.alone = FALSE] ELSE writer[v]
<1> DEFINE other(v) == IF writer[v] # Idle THEN [writer[v] EXCEPT !.alone = FALSE] ELSE writer[v]
           others == [v \in Writers |-> other(v)]
           me == Started(data, reason)
<1>1. me \in Writer
  BY StartedType
<1>2. \A v \in Writers : other(v) \in Writer
  BY OthersOK, WriterTypes
<1>3. writer' = [others EXCEPT ![w] = me]
  BY DEF Begin, Started
<1> HIDE DEF other, me
<1>4. /\ writer' \in [Writers -> Writer] /\ writer'[w] = me
      /\ \A v \in Writers \ {w} : writer'[v] = other(v)
  BY <1>1, <1>2, <1>3
<1> QED BY <1>4 DEF me, other

LEMMA BeginInv ==
  ASSUME IInv, NEW w \in Writers, NEW data \in Contents, NEW reason \in Reasons \cup {Missing}, Begin(w, data, reason)
  PROVE  IInv'
<1>1. UNCHANGED <<file, versions, claims, second>>
  BY DEF Begin
<1>2. /\ writer' \in [Writers -> Writer] /\ writer'[w] = Started(data, reason)
      /\ \A v \in Writers \ {w} :
           writer'[v] = IF writer[v] # Idle THEN [writer[v] EXCEPT !.alone = FALSE] ELSE writer[v]
  BY BeginMoves
<1>3. WriteOK(w, writer'[w], versions, claims) /\ ~Owns(writer'[w])
  BY <1>2, StartedType DEF Owns
<1>4. ASSUME NEW v \in Writers \ {w}
      PROVE  /\ WriteOK(v, writer'[v], versions, claims)
             /\ writer'[v].at = writer[v].at /\ writer'[v].id = writer[v].id
  <2>1. WriteOK(v, writer[v], versions, claims)
    BY WriterTypes
  <2>2. CASE writer[v] = Idle
    BY <1>2, <2>1, <2>2
  <2>3. CASE writer[v] # Idle
    <3> DEFINE other == [writer[v] EXCEPT !.alone = FALSE]
    <3>1. WriteOK(v, other, versions, claims) /\ other.at = writer[v].at /\ other.id = writer[v].id
      BY <2>1, <2>3, OthersOK
    <3>2. writer'[v] = other
      BY <1>2, <2>3
    <3> QED BY <3>1, <3>2
  <2> QED BY <2>2, <2>3
<1>5. \A v \in Writers : WriteOK(v, writer'[v], versions, claims)
  BY <1>3, <1>4
<1>6. ClaimsApart'
  BY <1>3, <1>4 DEF IInv, ClaimsApart, Owns
<1> QED BY <1>1, <1>2, <1>5, <1>6 DEF IInv, WriteOK, Owns, IdsUnique

LEMMA StageInv ==
  ASSUME IInv, NEW w \in Writers, Stage(w) PROVE IInv'
<1> DEFINE me == writer[w]
           passed == [me EXCEPT !.at = "staged"]
           id == [second |-> second, suffix |-> 1]
           staging == [me EXCEPT !.at = "staging", !.id = id]
<1>1. WriteOK(w, me, versions, claims) /\ me \in Writer /\ me.at = "read" /\ second \in 0..MaxSeconds
  BY WriterTypes DEF Stage
<1>2. id \in Id
  BY <1>1, HistoryAssumption DEF Id
<1>3. passed \in Writer /\ staging \in Writer
  <2>1. "staged" \in Places /\ "staging" \in Places /\ id \in Id \cup {Missing}
    BY <1>2 DEF Places
  <2> HIDE DEF id
  <2> QED BY <1>1, <2>1, Zenon DEF Writer
<1>4. /\ passed.at = "staged" /\ passed.data = me.data /\ passed.staged = me.staged /\ passed.id = me.id
      /\ passed.doomed = me.doomed /\ passed.outcome = me.outcome
      /\ staging.at = "staging" /\ staging.id = id /\ staging.data = me.data /\ staging.staged = me.staged
      /\ staging.doomed = me.doomed /\ staging.outcome = me.outcome /\ staging.reason = me.reason
      /\ staging.existing = me.existing
  BY <1>1 DEF Writer
<1>5. writer' = [writer EXCEPT ![w] = IF me.reason = Missing \/ me.existing = Missing THEN passed ELSE staging]
      /\ UNCHANGED <<file, versions, claims, second>>
  BY DEF Stage
<1> HIDE DEF passed, staging, id
<1>6. WriteOK(w, passed, versions, claims) /\ ~Owns(passed)
  BY <1>1, <1>3, <1>4 DEF WriteOK, Owns
<1>7. me.reason # Missing /\ me.existing # Missing => WriteOK(w, staging, versions, claims) /\ ~Owns(staging)
  <2>1. me.reason # Missing /\ me.existing # Missing => me.reason \in Reasons /\ me.existing \in Contents
    BY <1>1 DEF Writer
  <2> QED BY <1>1, <1>2, <1>3, <1>4, <2>1 DEF WriteOK, Owns
<1> QED BY <1>5, <1>6, <1>7, WriterTypes, WriteMoves

(* A write moves and its data stays: what it needs of the step. *)
LEMMA MovesTo ==
  ASSUME IInv, NEW w \in Writers, NEW at \in Places
  PROVE  LET me == [writer[w] EXCEPT !.at = at]
         IN  /\ me \in Writer /\ me.at = at /\ me.data = writer[w].data /\ me.reason = writer[w].reason
             /\ me.existing = writer[w].existing /\ me.id = writer[w].id /\ me.staged = writer[w].staged
             /\ me.doomed = writer[w].doomed /\ me.outcome = writer[w].outcome /\ me.alone = writer[w].alone
<1>1. writer[w] \in Writer
  BY WriterTypes
<1> QED BY <1>1 DEF Writer

LEMMA ClaimInv ==
  ASSUME IInv, NEW w \in Writers, Claim(w) PROVE IInv'
<1>1. /\ WriteOK(w, writer[w], versions, claims) /\ writer[w].at = "staging" /\ UNCHANGED <<file, versions, second>>
      /\ file \in Contents \cup {Missing} /\ second \in 0..MaxSeconds
  BY WriterTypes DEF Claim
<1>2. CASE writer' = [writer EXCEPT ![w] = NextId(@)] /\ UNCHANGED claims
  BY <1>1, <1>2, NextIdOK, WriteMoves
<1>3. CASE writer[w].id \notin claims /\ claims' = claims \cup {writer[w].id} /\ writer' = [writer EXCEPT ![w].at = "claimed"]
  <2> DEFINE me == [writer[w] EXCEPT !.at = "claimed"]
  <2>1. /\ me \in Writer /\ me.at = "claimed" /\ me.data = writer[w].data /\ me.reason = writer[w].reason
        /\ me.existing = writer[w].existing /\ me.id = writer[w].id /\ me.staged = writer[w].staged
        /\ me.doomed = writer[w].doomed /\ me.outcome = writer[w].outcome
    BY MovesTo DEF Places
  <2>2. writer' = [writer EXCEPT ![w] = me]
    BY <1>3
  <2> HIDE DEF me
  <2>3. WriteOK(w, me, versions, claims')
    BY <1>1, <1>3, <2>1 DEF WriteOK, Owns
  <2> QED BY <1>1, <1>3, <2>1, <2>2, <2>3, WriteMoves
<1> QED BY <1>2, <1>3 DEF Claim

LEMMA CheckIdInv ==
  ASSUME IInv, NEW w \in Writers, CheckId(w) PROVE IInv'
<1>1. /\ WriteOK(w, writer[w], versions, claims) /\ writer[w].at = "claimed" /\ UNCHANGED <<file, versions, second>>
      /\ file \in Contents \cup {Missing} /\ second \in 0..MaxSeconds /\ Owns(writer[w])
  BY WriterTypes DEF CheckId, Owns
<1>2. CASE writer' = [writer EXCEPT ![w] = NextId(@)] /\ claims' = claims \ {writer[w].id}
  BY <1>1, <1>2, NextIdOK, WriteMoves
<1>3. CASE ~InUse(writer[w].id) /\ UNCHANGED claims /\ writer' = [writer EXCEPT ![w].at = "checked"]
  <2> DEFINE me == [writer[w] EXCEPT !.at = "checked"]
  <2>1. /\ me \in Writer /\ me.at = "checked" /\ me.data = writer[w].data /\ me.reason = writer[w].reason
        /\ me.existing = writer[w].existing /\ me.id = writer[w].id /\ me.staged = writer[w].staged
        /\ me.doomed = writer[w].doomed /\ me.outcome = writer[w].outcome
    BY MovesTo DEF Places
  <2>2. writer' = [writer EXCEPT ![w] = me]
    BY <1>3
  <2> HIDE DEF me
  <2>3. WriteOK(w, me, versions, claims)
    BY <1>1, <1>3, <2>1 DEF WriteOK, Owns, InUse
  <2> QED BY <1>1, <1>3, <2>1, <2>2, <2>3, WriteMoves
<1> QED BY <1>2, <1>3 DEF CheckId

(* A version is linked under an id that no version and no other writer has. *)
LEMMA LinkInv ==
  ASSUME IInv, NEW w \in Writers, Link(w)
  PROVE  /\ IInv'
         /\ LET version == [id |-> writer[w].id, reason |-> writer[w].reason, content |-> writer[w].existing, by |-> w]
            IN  /\ version \in Version /\ version # Missing
                /\ versions' = versions \cup {version} /\ writer'[w] = [writer[w] EXCEPT !.at = "linked", !.staged = version]
<1> DEFINE version == [id |-> writer[w].id, reason |-> writer[w].reason, content |-> writer[w].existing, by |-> w]
           me == [writer[w] EXCEPT !.at = "linked", !.staged = version]
<1>1. /\ WriteOK(w, writer[w], versions, claims) /\ writer[w] \in Writer /\ writer[w].at = "checked"
      /\ UNCHANGED <<file, second>> /\ Owns(writer[w]) /\ writer \in [Writers -> Writer]
      /\ versions \in SUBSET Version /\ IsFiniteSet(versions) /\ IdsUnique /\ ClaimsApart
      /\ \A v \in Writers : WriteOK(v, writer[v], versions, claims)
  BY WriterTypes DEF Link, Owns, IInv
<1>2. \A v \in versions : v.id # writer[w].id
  BY <1>1 DEF WriteOK
<1>3. version \in Version /\ version.id = writer[w].id /\ version.by = w /\ version # Missing
  <2>1. version \in Version
    BY <1>1 DEF WriteOK, Version
  <2> QED BY <2>1, HistoryAssumption
<1>4. versions' = versions \cup {version} /\ writer' = [writer EXCEPT ![w].at = "linked", ![w].staged = version] /\ UNCHANGED claims
  BY <1>2 DEF Link
<1>5. writer' = [writer EXCEPT ![w] = me]
  BY <1>1, <1>4
<1> HIDE DEF version
<1>6. me \in Writer
  <2>1. "linked" \in Places /\ version \in Version \cup {Missing}
    BY <1>3 DEF Places
  <2> QED BY <1>1, <2>1, Zenon DEF Writer
<1>7. /\ me.at = "linked" /\ me.staged = version /\ me.data = writer[w].data /\ me.reason = writer[w].reason
      /\ me.existing = writer[w].existing /\ me.id = writer[w].id
      /\ me.doomed = writer[w].doomed /\ me.outcome = writer[w].outcome
  BY <1>1 DEF Writer
<1> HIDE DEF me
<1>8. writer' \in [Writers -> Writer] /\ writer'[w] = me /\ \A v \in Writers \ {w} : writer'[v] = writer[v]
  BY <1>1, <1>5, <1>6
<1>9. WriteOK(w, me, versions', claims')
  BY <1>1, <1>3, <1>4, <1>6, <1>7, HistoryAssumption DEF WriteOK, Owns
<1>10. ASSUME NEW v \in Writers \ {w} PROVE WriteOK(v, writer[v], versions', claims')
  <2>1. WriteOK(v, writer[v], versions, claims)
    BY <1>1
  <2>2. writer[v].at = "checked" => writer[v].id # version.id
    BY <1>1, <1>3 DEF ClaimsApart, Owns
  <2>3. writer[v].staged # Missing => writer[v].staged # version
    BY <1>3, <2>1 DEF WriteOK
  <2> QED BY <1>4, <2>1, <2>2, <2>3 DEF WriteOK
<1>11. \A v \in Writers : WriteOK(v, writer'[v], versions', claims')
  BY <1>8, <1>9, <1>10
<1>12. ClaimsApart'
  <2>1. \A u, v \in Writers : u # v /\ Owns(writer'[u]) /\ Owns(writer'[v]) => writer'[u].id # writer'[v].id
    BY <1>1, <1>7, <1>8 DEF ClaimsApart, Owns
  <2> QED BY <2>1 DEF ClaimsApart, Owns
<1>13. IdsUnique'
  BY <1>1, <1>2, <1>3, <1>4 DEF IdsUnique
<1>14. versions' \in SUBSET Version /\ IsFiniteSet(versions')
  BY <1>1, <1>3, <1>4, FS_AddElement
<1>15. file' \in Contents \cup {Missing} /\ second' \in 0..MaxSeconds
  BY <1>1, WriterTypes
<1>16. IInv'
  BY <1>8, <1>11, <1>12, <1>13, <1>14, <1>15 DEF IInv, WriteOK, Owns
<1> QED BY <1>3, <1>4, <1>8, <1>16 DEF version, me

LEMMA UnclaimInv ==
  ASSUME IInv, NEW w \in Writers, Unclaim(w) PROVE IInv'
<1> DEFINE me == [writer[w] EXCEPT !.at = "staged"]
<1>1. /\ WriteOK(w, writer[w], versions, claims) /\ writer[w].at = "linked" /\ UNCHANGED <<file, versions, second>>
      /\ file \in Contents \cup {Missing} /\ second \in 0..MaxSeconds /\ Owns(writer[w])
      /\ claims' = claims \ {writer[w].id}
  BY WriterTypes DEF Unclaim, Owns
<1>2. /\ me \in Writer /\ me.at = "staged" /\ me.data = writer[w].data /\ me.reason = writer[w].reason
      /\ me.existing = writer[w].existing /\ me.id = writer[w].id /\ me.staged = writer[w].staged
      /\ me.doomed = writer[w].doomed /\ me.outcome = writer[w].outcome
  BY MovesTo DEF Places
<1>3. writer' = [writer EXCEPT ![w] = me]
  BY DEF Unclaim
<1> HIDE DEF me
<1>4. WriteOK(w, me, versions, claims') /\ ~Owns(me)
  BY <1>1, <1>2 DEF WriteOK, Owns
<1> QED BY <1>1, <1>3, <1>4, WriteMoves

LEMMA ReplaceInv ==
  ASSUME IInv, NEW w \in Writers, Replace(w) PROVE IInv'
<1> DEFINE me == [writer[w] EXCEPT !.at = "replaced"]
<1>1. /\ WriteOK(w, writer[w], versions, claims) /\ writer[w].at = "staged" /\ UNCHANGED <<versions, claims, second>>
      /\ second \in 0..MaxSeconds /\ file' = writer[w].data
  BY WriterTypes DEF Replace
<1>2. /\ me \in Writer /\ me.at = "replaced" /\ me.data = writer[w].data /\ me.reason = writer[w].reason
      /\ me.existing = writer[w].existing /\ me.id = writer[w].id /\ me.staged = writer[w].staged
      /\ me.doomed = writer[w].doomed /\ me.outcome = writer[w].outcome
  BY MovesTo DEF Places
<1>3. writer' = [writer EXCEPT ![w] = me]
  BY DEF Replace
<1> HIDE DEF me
<1>4. WriteOK(w, me, versions, claims) /\ ~Owns(me) /\ file' \in Contents
  BY <1>1, <1>2 DEF WriteOK, Owns
<1> QED BY <1>1, <1>3, <1>4, WriteMoves

LEMMA WriteFailsInv ==
  ASSUME IInv, NEW w \in Writers, WriteFails(w) PROVE IInv'
<1> DEFINE me == [writer[w] EXCEPT !.at = "failing"]
<1>1. /\ WriteOK(w, writer[w], versions, claims) /\ UNCHANGED <<file, versions, second>>
      /\ file \in Contents \cup {Missing} /\ second \in 0..MaxSeconds
      /\ writer[w].at \in {"read", "staging", "claimed", "checked", "staged"}
      /\ claims' = IF writer[w].at \in {"claimed", "checked"} THEN claims \ {writer[w].id} ELSE claims
  BY WriterTypes DEF WriteFails
<1>2. /\ me \in Writer /\ me.at = "failing" /\ me.data = writer[w].data /\ me.reason = writer[w].reason
      /\ me.existing = writer[w].existing /\ me.id = writer[w].id /\ me.staged = writer[w].staged
      /\ me.doomed = writer[w].doomed /\ me.outcome = writer[w].outcome
  BY MovesTo DEF Places
<1>3. writer' = [writer EXCEPT ![w] = me]
  BY DEF WriteFails
<1> HIDE DEF me
<1>4. WriteOK(w, me, versions, claims') /\ ~Owns(me)
  BY <1>1, <1>2 DEF WriteOK, Owns
<1>5. claims \subseteq claims' \/ (Owns(writer[w]) /\ ~Owns(me) /\ claims \ {writer[w].id} \subseteq claims')
  BY <1>1, <1>4 DEF Owns
<1> QED BY <1>1, <1>3, <1>4, <1>5, WriteMoves

LEMMA DiscardInv ==
  ASSUME IInv, NEW w \in Writers, Discard(w) PROVE IInv'
<1> DEFINE me == Ended(writer[w], "failed")
<1>1. /\ UNCHANGED <<file, claims, second>> /\ file \in Contents \cup {Missing} /\ second \in 0..MaxSeconds
      /\ versions' = IF writer[w].staged = Missing THEN versions ELSE {v \in versions : ~SameName(v, writer[w].staged)}
  BY WriterTypes DEF Discard
<1>2. writer[w].staged # Missing => writer[w].staged \notin versions'
  BY <1>1 DEF SameName
<1>3. writer' = [writer EXCEPT ![w] = me]
  BY DEF Discard
<1>4. WriteOK(w, me, versions', claims') /\ ~Owns(me)
  BY <1>2, EndedOK
<1>5. versions' \in SUBSET versions
  BY <1>1
<1> HIDE DEF me
<1> QED BY <1>1, <1>3, <1>4, <1>5, WriteMoves

LEMMA ListInv ==
  ASSUME IInv, NEW w \in Writers, List(w) PROVE IInv'
<1> DEFINE pruning == [writer[w] EXCEPT !.at = "pruning", !.doomed = BeyondLimit]
           ended == Ended(writer[w], "written")
<1>1. /\ WriteOK(w, writer[w], versions, claims) /\ writer[w] \in Writer /\ writer[w].at = "replaced"
      /\ UNCHANGED <<file, versions, claims, second>>
      /\ file \in Contents \cup {Missing} /\ second \in 0..MaxSeconds /\ versions \in SUBSET Version
  BY WriterTypes DEF List
<1>2. pruning \in Writer
  <2>1. "pruning" \in Places /\ BeyondLimit \in SUBSET Version
    BY <1>1 DEF Places, BeyondLimit
  <2> QED BY <1>1, <2>1, Zenon DEF Writer
<1>3. /\ pruning.at = "pruning" /\ pruning.data = writer[w].data /\ pruning.reason = writer[w].reason
      /\ pruning.existing = writer[w].existing /\ pruning.id = writer[w].id /\ pruning.staged = writer[w].staged
      /\ pruning.outcome = writer[w].outcome
  BY <1>1 DEF Writer
<1>4. writer' = [writer EXCEPT ![w] = pruning] \/ writer' = [writer EXCEPT ![w] = ended]
  BY DEF List
<1>5. WriteOK(w, ended, versions, claims) /\ ~Owns(ended)
  BY EndedOK
<1> HIDE DEF pruning, ended
<1>6. WriteOK(w, pruning, versions, claims) /\ ~Owns(pruning)
  BY <1>1, <1>2, <1>3 DEF WriteOK, Owns
<1> QED BY <1>1, <1>4, <1>5, <1>6, WriteMoves

LEMMA PruneOneInv ==
  ASSUME IInv, NEW w \in Writers, PruneOne(w) PROVE IInv'
<1>1. /\ WriteOK(w, writer[w], versions, claims) /\ writer[w] \in Writer /\ writer[w].at = "pruning"
      /\ UNCHANGED <<file, claims, second>> /\ file \in Contents \cup {Missing} /\ second \in 0..MaxSeconds
  BY WriterTypes DEF PruneOne
<1>2. PICK d \in writer[w].doomed :
        /\ versions' = {v \in versions : ~SameName(v, d)}
        /\ writer' = [writer EXCEPT ![w] =
             IF writer[w].doomed = {d} THEN Ended(writer[w], "written")
             ELSE [writer[w] EXCEPT !.doomed = writer[w].doomed \ {d}]]
  BY DEF PruneOne
<1> DEFINE more == [writer[w] EXCEPT !.doomed = writer[w].doomed \ {d}]
           ended == Ended(writer[w], "written")
<1>3. /\ more \in Writer /\ more.at = "pruning" /\ more.data = writer[w].data /\ more.reason = writer[w].reason
      /\ more.existing = writer[w].existing /\ more.id = writer[w].id /\ more.staged = writer[w].staged
      /\ more.outcome = writer[w].outcome
  BY <1>1 DEF Writer
<1>4. writer' = [writer EXCEPT ![w] = more] \/ writer' = [writer EXCEPT ![w] = ended]
  <2>1. writer' = [writer EXCEPT ![w] = IF writer[w].doomed = {d} THEN ended ELSE more]
    BY <1>2
  <2> HIDE DEF more, ended
  <2> QED BY <2>1
<1>5. WriteOK(w, ended, versions', claims') /\ ~Owns(ended)
  BY EndedOK
<1>6. versions' \in SUBSET versions
  BY <1>2
<1> HIDE DEF more, ended
<1>7. WriteOK(w, more, versions', claims') /\ ~Owns(more)
  <2>1. ~Owns(more)
    BY <1>3 DEF Owns
  <2>2. /\ more.data \in Contents /\ more.outcome = Missing
        /\ more.staged # Missing => more.staged.by = w /\ more.staged.id = more.id
        /\ more.outcome = "failed" /\ more.staged # Missing => more.staged \notin versions'
    BY <1>1, <1>3, <1>6 DEF WriteOK
  <2> QED BY <1>3, <2>1, <2>2 DEF WriteOK
<1> QED BY <1>1, <1>4, <1>5, <1>6, <1>7, WriteMoves

LEMMA PruneFailsInv ==
  ASSUME IInv, NEW w \in Writers, PruneFails(w) PROVE IInv'
<1> DEFINE me == Ended(writer[w], "written")
<1>1. /\ UNCHANGED <<file, versions, claims, second>> /\ file \in Contents \cup {Missing} /\ second \in 0..MaxSeconds
      /\ writer' = [writer EXCEPT ![w] = me]
  BY WriterTypes DEF PruneFails
<1>2. WriteOK(w, me, versions, claims) /\ ~Owns(me)
  BY EndedOK
<1> HIDE DEF me
<1> QED BY <1>1, <1>2, WriteMoves

(* A writer that returns, or dies, is idle again; the claims of one that dies stay. *)
LEMMA RestInv ==
  ASSUME IInv, NEW w \in Writers, writer' = [writer EXCEPT ![w] = Idle], UNCHANGED <<file, versions, claims, second>>
  PROVE  IInv'
<1>1. file \in Contents \cup {Missing} /\ second \in 0..MaxSeconds
  BY WriterTypes
<1>2. WriteOK(w, Idle, versions, claims) /\ ~Owns(Idle)
  BY IdleOK DEF Idle, Owns
<1> QED BY <1>1, <1>2, WriteMoves

LEMMA WriterStepInv ==
  ASSUME IInv, NEW w \in Writers, WriterStep(w) PROVE IInv'
<1>1. CASE Write(w)
  BY <1>1, BeginInv DEF Write
<1>2. CASE Restore(w)
  <2>1. PICK v \in versions : Begin(w, v.content, "restore")
    BY <1>2 DEF Restore
  <2>2. v.content \in Contents /\ "restore" \in Reasons
    BY WriterTypes, HistoryAssumption DEF Version
  <2> QED BY <2>1, <2>2, BeginInv
<1>3. CASE Return(w) \/ Crash(w)
  BY <1>3, RestInv DEF Return, Crash
<1> QED
  BY <1>1, <1>2, <1>3, StageInv, ClaimInv, CheckIdInv, LinkInv, UnclaimInv, ReplaceInv, WriteFailsInv, DiscardInv,
     ListInv, PruneOneInv, PruneFailsInv DEF WriterStep

LEMMA NextInv == IInv /\ [Next]_vars => IInv'
<1> SUFFICES ASSUME IInv, [Next]_vars PROVE IInv'
  OBVIOUS
<1>1. CASE NextSecond
  <2>1. second' \in 0..MaxSeconds /\ UNCHANGED <<file, versions, claims, writer>>
    BY <1>1, HistoryAssumption DEF NextSecond, IInv
  <2> QED BY <2>1 DEF IInv, WriteOK, Owns, ClaimsApart, IdsUnique
<1>2. CASE UNCHANGED vars
  BY <1>2 DEF vars, IInv, WriteOK, Owns, ClaimsApart, IdsUnique
<1> QED BY <1>1, <1>2, WriterStepInv DEF Next

(* The inductive invariant of the writers: an id is claimed by one of them from its claim on, *)
(* checked against the kept versions under the claim, and given up after the version is there. *)
THEOREM Invariance == Spec => []IInv
<1> QED BY InitInv, NextInv, PTL DEF Spec

(* No two versions have one id, however many writers stage in one second and whichever of them *)
(* die with their claims (stage, _publish).                                                    *)
THEOREM IdsAreUnique == Spec => []IdsUnique
<1>1. IInv => IdsUnique
  BY DEF IInv
<1> QED BY <1>1, Invariance, PTL

(* A write that answers failure has left no version behind, whatever the other writers did *)
(* meanwhile (atomic_write, discard).                                                      *)
THEOREM FailuresAreUndone == Spec => []FailureUndone
<1>1. IInv => FailureUndone
  BY DEF IInv, WriteOK, FailureUndone
<1> QED BY <1>1, Invariance, PTL

-----------------------------------------------------------------------------
(* What a write that no other overlapped keeps *)

Finished(me) == me.at \in {"linked", "staged", "replaced", "pruning"} \/ me.outcome = "written"

(* The version me staged, or one that follows it in its second. *)
Follows(me, u) == u = me.staged \/ (u.id.second = me.staged.id.second /\ Older(me.staged.id, u.id))

(* A write that is done with its version has one; while it is alone no version is newer than its   *)
(* second, and the version, or one that follows it in that second, is kept and not to be pruned.   *)
KeepOK(me, vs) ==
  /\ Finished(me) /\ me.reason # Missing /\ me.existing # Missing => me.staged # Missing
  /\ me.alone /\ (me.at \in {"staging", "claimed", "checked", "linked"} \/ me.staged # Missing)
       => \A v \in vs : v.id.second <= me.id.second
  /\ me.alone /\ me.staged # Missing /\ Finished(me)
       => \E u \in vs : Follows(me, u) /\ \A d \in me.doomed : d.id # u.id

AloneIsAlone ==
  \A v, w \in Writers : v # w /\ writer[w].alone /\ writer[w].at # "idle" => writer[v].at \in {"idle", "ended"}

ClockIsAhead ==
  /\ \A v \in versions : v.id.second <= second
  /\ \A w \in Writers : writer[w].at \in {"staging", "claimed", "checked"} => writer[w].id.second <= second

KInv == AloneIsAlone /\ ClockIsAhead /\ \A w \in Writers : KeepOK(writer[w], versions)

LEMMA IdleKeeps == \A vs : KeepOK(Idle, vs)
  BY DEF Idle, KeepOK, Finished

LEMMA InitKeeps == Init => KInv
<1> SUFFICES ASSUME Init PROVE KInv
  OBVIOUS
<1>1. \A w \in Writers : writer[w] = Idle
  BY DEF Init
<1>2. AloneIsAlone /\ ClockIsAhead
  BY <1>1 DEF Init, AloneIsAlone, ClockIsAhead, Idle
<1> QED BY <1>1, <1>2, IdleKeeps DEF KInv

(* One write moves.  It was under way, so that nobody else is alone, or it ends and changes no version. *)
LEMMA KeepMoves ==
  ASSUME IInv, KInv, NEW w \in Writers, NEW me \in Writer, writer' = [writer EXCEPT ![w] = me],
         writer[w].at \notin {"idle", "ended"} \/ (me.at = "idle" /\ UNCHANGED versions),
         KeepOK(me, versions'), me.alone /\ me.at # "idle" => writer[w].alone,
         UNCHANGED second, \A v \in versions' : v.id.second <= second,
         me.at \in {"staging", "claimed", "checked"} => me.id.second <= second
  PROVE  KInv'
<1>1. writer' \in [Writers -> Writer] /\ writer'[w] = me /\ \A v \in Writers \ {w} : writer'[v] = writer[v]
  BY OneMoves DEF IInv
<1>2. ASSUME NEW v \in Writers \ {w} PROVE KeepOK(writer[v], versions')
  <2>1. KeepOK(writer[v], versions) /\ WriteOK(v, writer[v], versions, claims)
    BY DEF KInv, IInv
  <2>2. CASE UNCHANGED versions
    BY <2>1, <2>2
  <2>3. CASE writer[w].at \notin {"idle", "ended"}
    <3>1. ~writer[v].alone \/ writer[v] = Idle
      BY <2>1, <2>3 DEF KInv, AloneIsAlone, WriteOK
    <3>2. CASE ~writer[v].alone
      BY <2>1, <3>2 DEF KeepOK
    <3>3. CASE writer[v] = Idle
      BY <3>3, IdleKeeps
    <3> QED BY <3>1, <3>2, <3>3
  <2> QED BY <2>2, <2>3
<1>3. \A v \in Writers : KeepOK(writer'[v], versions')
  BY <1>1, <1>2
<1>4. AloneIsAlone'
  <2>1. \A u, v \in Writers : u # v /\ writer'[v].alone /\ writer'[v].at # "idle" => writer'[u].at \in {"idle", "ended"}
    BY <1>1 DEF KInv, AloneIsAlone
  <2> QED BY <2>1 DEF AloneIsAlone
<1>5. ClockIsAhead'
  BY <1>1 DEF KInv, ClockIsAhead
<1> QED BY <1>3, <1>4, <1>5 DEF KInv, KeepOK, Finished, Follows, Older

LEMMA KeepTypes ==
  ASSUME IInv, KInv, NEW w \in Writers
  PROVE  /\ WriteOK(w, writer[w], versions, claims) /\ KeepOK(writer[w], versions) /\ writer[w] \in Writer
         /\ \A v \in versions : v \in Version /\ v.id.second <= second
         /\ writer[w].at \in {"staging", "claimed", "checked"} => writer[w].id.second <= second
BY DEF IInv, KInv, ClockIsAhead

(* A write that ends keeps what it kept. *)
LEMMA EndedKeeps ==
  ASSUME IInv, KInv, NEW w \in Writers, NEW outcome \in {"failed", "written"}, NEW vs, vs \subseteq versions,
         outcome = "written" => vs = versions /\ Finished(writer[w])
  PROVE  LET me == Ended(writer[w], outcome)
         IN  me \in Writer /\ me.at = "ended" /\ me.alone = writer[w].alone /\ KeepOK(me, vs)
<1> DEFINE me == Ended(writer[w], outcome)
<1>1. writer[w] \in Writer /\ KeepOK(writer[w], versions)
  BY KeepTypes
<1>2. /\ me \in Writer /\ me.at = "ended" /\ me.outcome = outcome /\ me.doomed = {} /\ me.staged = writer[w].staged
      /\ me.id = writer[w].id /\ me.reason = writer[w].reason /\ me.existing = writer[w].existing
      /\ me.alone = writer[w].alone
  BY <1>1, EndedType
<1> HIDE DEF me
<1>3. KeepOK(me, vs)
  BY <1>1, <1>2 DEF KeepOK, Finished, Follows
<1> QED BY <1>2, <1>3 DEF me

LEMMA NextIdKeeps ==
  ASSUME IInv, KInv, NEW w \in Writers, writer[w].at \in {"staging", "claimed", "checked"}
  PROVE  LET me == NextId(writer[w])
         IN  /\ me \in Writer /\ me.at # "idle" /\ me.alone = writer[w].alone /\ KeepOK(me, versions)
             /\ me.at \in {"staging", "claimed", "checked"} => me.id.second <= second
<1> DEFINE me == writer[w]
           id == [me.id EXCEPT !.suffix = @ + 1]
           next == [me EXCEPT !.at = "staging", !.id = id]
<1>1. /\ WriteOK(w, me, versions, claims) /\ KeepOK(me, versions) /\ me \in Writer
      /\ me.id.second <= second
  BY KeepTypes
<1>2. me.staged = Missing /\ me.id \in Id /\ me.outcome = Missing
  BY <1>1 DEF WriteOK
<1>3. CASE me.id.suffix < MaxAttempts
  <2>1. NextId(me) = next
    BY <1>3 DEF NextId
  <2>2. next \in Writer
    BY <2>1, NextIdOK DEF WriteOK
  <2>3. id.second = me.id.second
    BY <1>2 DEF Id
  <2>4. /\ next.at = "staging" /\ next.id.second = me.id.second /\ next.staged = Missing /\ next.outcome = Missing
        /\ next.alone = me.alone
    BY <1>1, <1>2, <2>3 DEF Writer
  <2> HIDE DEF next
  <2>5. KeepOK(next, versions)
    BY <1>1, <1>2, <2>4, HistoryAssumption DEF KeepOK, Finished
  <2> QED BY <1>1, <2>1, <2>2, <2>4, <2>5
<1>4. CASE ~(me.id.suffix < MaxAttempts)
  <2>1. NextId(me) = Ended(me, "failed")
    BY <1>4 DEF NextId
  <2> QED BY <2>1, EndedKeeps
<1> QED BY <1>3, <1>4

(* A step after the first that changes nothing but where the writer is. *)
LEMMA MoveKeeps ==
  ASSUME IInv, KInv, NEW w \in Writers, NEW at \in Places \ {"idle", "linked"}, writer' = [writer EXCEPT ![w].at = at],
         writer[w].at \notin {"idle", "ended"}, UNCHANGED <<versions, second>>,
         at \in {"linked", "staged", "replaced", "pruning"} => Finished(writer[w]),
         at \in {"staging", "claimed", "checked"} => writer[w].at \in {"staging", "claimed", "checked"}
  PROVE  KInv'
<1> DEFINE me == [writer[w] EXCEPT !.at = at]
<1>1. /\ WriteOK(w, writer[w], versions, claims) /\ KeepOK(writer[w], versions)
      /\ \A v \in versions : v.id.second <= second
      /\ writer[w].at \in {"staging", "claimed", "checked"} => writer[w].id.second <= second
  BY KeepTypes
<1>2. /\ me \in Writer /\ me.at = at /\ me.reason = writer[w].reason
      /\ me.existing = writer[w].existing /\ me.id = writer[w].id /\ me.staged = writer[w].staged
      /\ me.doomed = writer[w].doomed /\ me.outcome = writer[w].outcome /\ me.alone = writer[w].alone
  BY MovesTo
<1>3. writer' = [writer EXCEPT ![w] = me]
  OBVIOUS
<1> HIDE DEF me
<1>4. KeepOK(me, versions)
  <2>1. Finished(me) => Finished(writer[w])
    BY <1>2 DEF Finished
  <2>2. me.at \in {"staging", "claimed", "checked", "linked"} \/ me.staged # Missing =>
          writer[w].at \in {"staging", "claimed", "checked", "linked"} \/ writer[w].staged # Missing
    BY <1>2
  <2> QED BY <1>1, <1>2, <2>1, <2>2 DEF KeepOK, Follows
<1> QED BY <1>1, <1>2, <1>3, <1>4, KeepMoves

(* Others that are under way when a write begins are not alone any more. *)
LEMMA BeginKeeps ==
  ASSUME IInv, KInv, NEW w \in Writers, NEW data \in Contents, NEW reason \in Reasons \cup {Missing}, Begin(w, data, reason)
  PROVE  KInv'
<1> DEFINE me == Started(data, reason)
<1>1. /\ me.staged = Missing /\ me.alone = (Active = {}) /\ me.at \in {"read", "ended"}
      /\ me.outcome \in {"same", Missing}
  <2>1. /\ me.staged = Missing /\ me.alone = (Active = {})
        /\ \/ me.at = "read" /\ me.data = data /\ me.outcome = Missing
           \/ me.at = "ended" /\ me.outcome = "same"
    BY StartedType
  <2> HIDE DEF me
  <2> QED BY <2>1
<1>2. writer'[w] = me /\ UNCHANGED <<versions, second>> /\ writer[w] = Idle
      /\ \A v \in Writers \ {w} :
           writer'[v] = IF writer[v] # Idle THEN [writer[v] EXCEPT !.alone = FALSE] ELSE writer[v]
  BY BeginMoves DEF Begin
<1> HIDE DEF me
<1>3. KeepOK(me, versions)
  BY <1>1, HistoryAssumption DEF KeepOK, Finished
<1>4. ASSUME NEW v \in Writers \ {w}
      PROVE  /\ KeepOK(writer'[v], versions) /\ writer'[v].at = writer[v].at /\ writer'[v].id = writer[v].id
             /\ writer'[v].alone => writer[v] = Idle
  <2>1. WriteOK(v, writer[v], versions, claims) /\ KeepOK(writer[v], versions)
    BY KeepTypes
  <2>2. CASE writer[v] = Idle
    BY <1>2, <2>1, <2>2
  <2>3. CASE writer[v] # Idle
    <3> DEFINE other == [writer[v] EXCEPT !.alone = FALSE]
    <3>1. /\ ~other.alone /\ other.at = writer[v].at /\ other.id = writer[v].id /\ other.outcome = writer[v].outcome
          /\ other.reason = writer[v].reason /\ other.existing = writer[v].existing /\ other.staged = writer[v].staged
      BY <2>1, <2>3, OthersOK
    <3>2. writer'[v] = other
      BY <1>2, <2>3
    <3> HIDE DEF other
    <3>3. KeepOK(other, versions)
      BY <2>1, <3>1 DEF KeepOK, Finished
    <3> QED BY <3>1, <3>2, <3>3
  <2> QED BY <2>2, <2>3
<1>5. \A v \in Writers : KeepOK(writer'[v], versions)
  BY <1>2, <1>3, <1>4
<1>6. AloneIsAlone'
  <2>1. ASSUME NEW u \in Writers, NEW v \in Writers, u # v, writer'[v].alone, writer'[v].at # "idle"
        PROVE  writer'[u].at \in {"idle", "ended"}
    <3>1. v = w
      BY <1>4, <2>1 DEF Idle
    <3>2. u \in Writers \ {w} /\ writer[u].at \in {"idle", "ended"}
      BY <1>1, <1>2, <2>1, <3>1 DEF Active
    <3> QED BY <1>4, <3>2
  <2> QED BY <2>1 DEF AloneIsAlone
<1>7. ClockIsAhead'
  <2>1. ASSUME NEW v \in Writers, writer'[v].at \in {"staging", "claimed", "checked"} PROVE writer'[v].id.second <= second
    <3>1. v # w
      BY <1>1, <1>2, <2>1
    <3> QED BY <1>4, <2>1, <3>1 DEF KInv, ClockIsAhead
  <2> QED BY <1>2, <2>1 DEF KInv, ClockIsAhead
<1> QED BY <1>2, <1>5, <1>6, <1>7 DEF KInv, KeepOK, Finished, Follows, Older

(* The clock is not behind any version when a write takes its id. *)
LEMMA StageKeeps ==
  ASSUME IInv, KInv, NEW w \in Writers, Stage(w) PROVE KInv'
<1> DEFINE me == writer[w]
           passed == [me EXCEPT !.at = "staged"]
           id == [second |-> second, suffix |-> 1]
           staging == [me EXCEPT !.at = "staging", !.id = id]
<1>1. /\ WriteOK(w, me, versions, claims) /\ me \in Writer /\ me.at = "read" /\ second \in 0..MaxSeconds
      /\ UNCHANGED <<versions, second>> /\ \A v \in versions : v.id.second <= second
      /\ writer' = [writer EXCEPT ![w] = IF me.reason = Missing \/ me.existing = Missing THEN passed ELSE staging]
  BY WriterTypes, KeepTypes DEF Stage
<1>2. passed \in Writer /\ staging \in Writer
  <2>1. "staged" \in Places /\ "staging" \in Places /\ id \in Id \cup {Missing}
    BY <1>1, HistoryAssumption DEF Places, Id
  <2> HIDE DEF id
  <2> QED BY <1>1, <2>1, Zenon DEF Writer
<1>3. /\ passed.at = "staged" /\ passed.staged = me.staged /\ passed.outcome = me.outcome
      /\ passed.reason = me.reason /\ passed.existing = me.existing /\ passed.alone = me.alone
      /\ staging.at = "staging" /\ staging.id.second = second /\ staging.staged = me.staged
      /\ staging.outcome = me.outcome /\ staging.alone = me.alone
  BY <1>1 DEF Writer
<1> HIDE DEF passed, staging, id
<1>4. CASE me.reason = Missing \/ me.existing = Missing
  <2>1. KeepOK(passed, versions)
    BY <1>1, <1>3, <1>4 DEF KeepOK, WriteOK
  <2>2. writer' = [writer EXCEPT ![w] = passed]
    BY <1>1, <1>4
  <2> QED BY <1>1, <1>2, <1>3, <2>1, <2>2, KeepMoves
<1>5. CASE ~(me.reason = Missing \/ me.existing = Missing)
  <2>1. KeepOK(staging, versions)
    BY <1>1, <1>3, HistoryAssumption DEF KeepOK, WriteOK, Finished
  <2>2. writer' = [writer EXCEPT ![w] = staging]
    BY <1>1, <1>5
  <2>3. staging.id.second <= second
    BY <1>1, <1>3
  <2> QED BY <1>1, <1>2, <1>3, <2>1, <2>2, <2>3, KeepMoves
<1> QED BY <1>4, <1>5

LEMMA NextIdMoves ==
  ASSUME IInv, KInv, NEW w \in Writers, writer[w].at \in {"staging", "claimed", "checked"},
         writer' = [writer EXCEPT ![w] = NextId(writer[w])], UNCHANGED <<versions, second>>
  PROVE  KInv'
<1> DEFINE me == NextId(writer[w])
<1>1. /\ me \in Writer /\ me.at # "idle" /\ me.alone = writer[w].alone /\ KeepOK(me, versions)
      /\ me.at \in {"staging", "claimed", "checked"} => me.id.second <= second
  BY NextIdKeeps
<1>2. \A v \in versions : v.id.second <= second
  BY KeepTypes
<1> HIDE DEF me
<1>3. writer' = [writer EXCEPT ![w] = me]
  BY DEF me
<1> QED BY <1>1, <1>2, <1>3, KeepMoves

LEMMA ClaimKeeps ==
  ASSUME IInv, KInv, NEW w \in Writers, Claim(w) \/ CheckId(w) PROVE KInv'
<1>1. writer[w].at \in {"staging", "claimed", "checked"} /\ UNCHANGED <<versions, second>>
  BY DEF Claim, CheckId
<1>2. CASE writer' = [writer EXCEPT ![w] = NextId(writer[w])]
  BY <1>1, <1>2, NextIdMoves
<1>3. CASE writer' = [writer EXCEPT ![w].at = "claimed"]
  BY <1>1, <1>3, MoveKeeps DEF Places
<1>4. CASE writer' = [writer EXCEPT ![w].at = "checked"]
  BY <1>1, <1>4, MoveKeeps DEF Places
<1> QED BY <1>2, <1>3, <1>4 DEF Claim, CheckId

LEMMA LinkKeeps ==
  ASSUME IInv, KInv, NEW w \in Writers, Link(w) PROVE KInv'
<1> DEFINE version == [id |-> writer[w].id, reason |-> writer[w].reason, content |-> writer[w].existing, by |-> w]
           me == [writer[w] EXCEPT !.at = "linked", !.staged = version]
<1>1. /\ WriteOK(w, writer[w], versions, claims) /\ KeepOK(writer[w], versions) /\ writer[w] \in Writer
      /\ writer[w].at = "checked" /\ writer[w].id.second <= second /\ UNCHANGED second
      /\ \A v \in versions : v \in Version /\ v.id.second <= second
  BY KeepTypes DEF Link
<1>2. \A v \in versions : v.id # writer[w].id
  BY <1>1 DEF WriteOK
<1>3. writer' = [writer EXCEPT ![w] = me] /\ versions' = versions \cup {version}
  BY <1>2 DEF Link
<1>4. version \in Version /\ version # Missing
  BY LinkInv
<1>5. version.id = writer[w].id
  OBVIOUS
<1> HIDE DEF version
<1>6. me \in Writer
  <2>1. "linked" \in Places /\ version \in Version \cup {Missing}
    BY <1>4 DEF Places
  <2> QED BY <1>1, <2>1, Zenon DEF Writer
<1>7. /\ me.at = "linked" /\ me.staged = version /\ me.id = writer[w].id /\ me.doomed = writer[w].doomed
      /\ me.alone = writer[w].alone
  BY <1>1 DEF Writer
<1> HIDE DEF me
<1>8. /\ me.doomed = {} /\ \A v \in versions' : v.id.second <= second
      /\ me.alone => \A v \in versions' : v.id.second <= me.id.second
  <2>1. writer[w].doomed = {} /\ writer[w].id \in Id
    BY <1>1 DEF WriteOK
  <2>2. writer[w].alone => \A v \in versions : v.id.second <= writer[w].id.second
    BY <1>1 DEF KeepOK
  <2>3. version.id.second <= writer[w].id.second
    BY <1>5, <2>1 DEF Id
  <2> QED BY <1>1, <1>3, <1>5, <1>7, <2>1, <2>2, <2>3
<1>9. KeepOK(me, versions')
  BY <1>3, <1>4, <1>7, <1>8 DEF KeepOK, Follows
<1> QED BY <1>1, <1>3, <1>6, <1>7, <1>8, <1>9, KeepMoves

LEMMA DiscardKeeps ==
  ASSUME IInv, KInv, NEW w \in Writers, Discard(w) PROVE KInv'
<1> DEFINE me == Ended(writer[w], "failed")
<1>1. /\ writer[w].at = "failing" /\ UNCHANGED second /\ versions' \subseteq versions /\ writer' = [writer EXCEPT ![w] = me]
  BY DEF Discard
<1>2. me \in Writer /\ me.at = "ended" /\ me.alone = writer[w].alone /\ KeepOK(me, versions')
  BY <1>1, EndedKeeps
<1>3. \A v \in versions' : v.id.second <= second
  BY <1>1, KeepTypes
<1> HIDE DEF me
<1> QED BY <1>1, <1>2, <1>3, KeepMoves

LEMMA WrittenKeeps ==
  ASSUME IInv, KInv, NEW w \in Writers, writer[w].at \in {"replaced", "pruning"},
         writer' = [writer EXCEPT ![w] = Ended(writer[w], "written")], UNCHANGED <<versions, second>>
  PROVE  KInv'
<1> DEFINE me == Ended(writer[w], "written")
<1>1. me \in Writer /\ me.at = "ended" /\ me.alone = writer[w].alone /\ KeepOK(me, versions)
  BY EndedKeeps DEF Finished
<1>2. \A v \in versions : v.id.second <= second
  BY KeepTypes
<1> HIDE DEF me
<1>3. writer' = [writer EXCEPT ![w] = me]
  BY DEF me
<1> QED BY <1>1, <1>2, <1>3, KeepMoves

(* A set of numbers has a least one. *)
LEMMA LeastNatural ==
  ASSUME NEW T \in SUBSET Nat, T # {}
  PROVE  \E m \in T : \A k \in T : m <= k
<1> DEFINE Below == {0..n : n \in T}
<1>1. IsWellFoundedOn(StrictSubsetOrdering(Nat), FiniteSubsetsOf(Nat))
  BY FS_StrictSubsetOrderingWellFounded
<1>2. Below \subseteq FiniteSubsetsOf(Nat)
  <2>1. ASSUME NEW n \in T PROVE 0..n \in FiniteSubsetsOf(Nat)
    <3>1. 0 \in Int /\ n \in Int
      OBVIOUS
    <3>2. IsFiniteSet(0..n)
      BY <3>1, FS_Interval
    <3> QED BY <3>2 DEF FiniteSubsetsOf
  <2> QED BY <2>1
<1>3. Below # {}
  OBVIOUS
<1> HIDE DEF Below
<1>4. PICK x \in Below : \A y \in Below : ~(<<y, x>> \in StrictSubsetOrdering(Nat))
  BY <1>1, <1>2, <1>3, WFMin
<1>5. PICK m \in T : x = 0..m
  BY DEF Below
<1>6. ASSUME NEW k \in T, k < m PROVE FALSE
  <2>1. 0..k \in Below /\ 0..k \subseteq 0..m /\ 0..k # 0..m /\ 0..m \subseteq Nat /\ 0..k \subseteq Nat
    BY <1>6 DEF Below
  <2> QED BY <1>4, <1>5, <2>1 DEF StrictSubsetOrdering
<1>7. \A k \in T : m <= k
  BY <1>6
<1> QED BY <1>7

(* Of the versions that follow one of the newest second, the last has none that is newer: it stays. *)
LEMMA LastStays ==
  ASSUME IInv, NEW me \in Writer, me.staged \in Version,
         \A v \in versions : v.id.second <= me.staged.id.second,
         \E u \in versions : Follows(me, u)
  PROVE  \E u \in versions : Follows(me, u) /\ \A d \in BeyondLimit : d.id # u.id
<1> DEFINE Left(v) == MaxAttempts - v.id.suffix
           left == {Left(v) : v \in {x \in versions : Follows(me, x)}}
<1>1. \A v \in versions : v.id \in Id /\ v.id.second \in Nat /\ v.id.suffix \in 1..MaxAttempts
  BY HistoryAssumption DEF IInv, Version, Id
<1>2. me.staged.id \in Id /\ me.staged.id.second \in Nat /\ me.staged.id.suffix \in 1..MaxAttempts
  BY HistoryAssumption DEF Version, Id
<1>3. left \in SUBSET Nat /\ left # {}
  BY <1>1, HistoryAssumption
<1>4. PICK n \in left : \A k \in left : n <= k
  <2> HIDE DEF left
  <2> QED BY <1>3, LeastNatural
<1>5. PICK u \in versions : Follows(me, u) /\ n = Left(u)
  BY <1>4
<1>6. \A v \in versions : Follows(me, v) => v.id.suffix <= u.id.suffix
  <2>1. ASSUME NEW v \in versions, Follows(me, v) PROVE v.id.suffix <= u.id.suffix
    <3>1. Left(v) \in left
      BY <2>1
    <3>2. Left(u) <= Left(v)
      BY <1>4, <1>5, <3>1
    <3> QED BY <1>1, <3>2, HistoryAssumption
  <2> QED BY <2>1
<1>7. {v \in versions : Older(u.id, v.id)} = {}
  <2>1. SUFFICES ASSUME NEW v \in versions, Older(u.id, v.id) PROVE FALSE
    OBVIOUS
  <2>2. u.id.second = me.staged.id.second /\ me.staged.id.suffix <= u.id.suffix
    BY <1>1, <1>2, <1>5 DEF Follows, Older
  <2>3. v.id.second = me.staged.id.second /\ u.id.suffix < v.id.suffix
    BY <1>1, <1>2, <2>1, <2>2 DEF Older
  <2>4. Follows(me, v)
    BY <1>1, <1>2, <2>2, <2>3 DEF Follows, Older
  <2> QED BY <1>1, <1>6, <2>3, <2>4
<1>8. u \notin BeyondLimit
  <2>1. Cardinality({v \in versions : Older(u.id, v.id)}) = 0
    BY <1>7, FS_EmptySet
  <2> QED BY <2>1, HistoryAssumption DEF BeyondLimit
<1>9. \A d \in BeyondLimit : d.id # u.id
  BY <1>8 DEF BeyondLimit, IInv, IdsUnique
<1> QED BY <1>5, <1>9

LEMMA ListKeeps ==
  ASSUME IInv, KInv, NEW w \in Writers, List(w) PROVE KInv'
<1> DEFINE me == [writer[w] EXCEPT !.at = "pruning", !.doomed = BeyondLimit]
<1>1. /\ WriteOK(w, writer[w], versions, claims) /\ KeepOK(writer[w], versions) /\ writer[w] \in Writer
      /\ writer[w].at = "replaced" /\ UNCHANGED <<versions, second>> /\ versions \in SUBSET Version
      /\ \A v \in versions : v.id.second <= second
  BY KeepTypes, WriterTypes DEF List
<1>2. CASE writer' = [writer EXCEPT ![w] = Ended(writer[w], "written")]
  BY <1>1, <1>2, WrittenKeeps
<1>3. CASE writer[w].staged # Missing /\ writer' = [writer EXCEPT ![w] = me]
  <2>1. me \in Writer
    <3>1. "pruning" \in Places /\ BeyondLimit \in SUBSET Version
      BY <1>1 DEF Places, BeyondLimit
    <3> QED BY <1>1, <3>1, Zenon DEF Writer
  <2>2. /\ me.at = "pruning" /\ me.staged = writer[w].staged /\ me.id = writer[w].id
        /\ me.doomed = BeyondLimit /\ me.alone = writer[w].alone
    BY <1>1 DEF Writer
  <2> HIDE DEF me
  <2>3. writer[w].alone => \E u \in versions : Follows(writer[w], u) /\ \A d \in BeyondLimit : d.id # u.id
    <3>1. SUFFICES ASSUME writer[w].alone PROVE \E u \in versions : Follows(writer[w], u) /\ \A d \in BeyondLimit : d.id # u.id
      OBVIOUS
    <3>2. writer[w].staged \in Version /\ writer[w].staged.id = writer[w].id
      BY <1>1, <1>3 DEF Writer, WriteOK
    <3>3. \A v \in versions : v.id.second <= writer[w].staged.id.second
      BY <1>1, <1>3, <3>1, <3>2 DEF KeepOK
    <3>4. \E u \in versions : Follows(writer[w], u)
      BY <1>1, <1>3, <3>1 DEF KeepOK, Finished
    <3> QED BY <1>1, <3>2, <3>3, <3>4, LastStays
  <2>4. KeepOK(me, versions)
    BY <1>1, <1>3, <2>2, <2>3 DEF KeepOK, Follows
  <2> QED BY <1>1, <1>3, <2>1, <2>2, <2>4, KeepMoves
<1> QED BY <1>2, <1>3 DEF List

LEMMA PruneOneKeeps ==
  ASSUME IInv, KInv, NEW w \in Writers, PruneOne(w) PROVE KInv'
<1>1. /\ WriteOK(w, writer[w], versions, claims) /\ KeepOK(writer[w], versions) /\ writer[w] \in Writer
      /\ writer[w].at = "pruning" /\ UNCHANGED second /\ \A v \in versions : v.id.second <= second
  BY KeepTypes DEF PruneOne
<1>2. PICK d \in writer[w].doomed :
        /\ versions' = {v \in versions : ~SameName(v, d)}
        /\ writer' = [writer EXCEPT ![w] =
             IF writer[w].doomed = {d} THEN Ended(writer[w], "written")
             ELSE [writer[w] EXCEPT !.doomed = writer[w].doomed \ {d}]]
  BY DEF PruneOne
<1> DEFINE more == [writer[w] EXCEPT !.doomed = writer[w].doomed \ {d}]
           ended == Ended(writer[w], "written")
<1>3. /\ more \in Writer /\ more.at = "pruning" /\ more.doomed \subseteq writer[w].doomed /\ more.reason = writer[w].reason
      /\ more.existing = writer[w].existing /\ more.id = writer[w].id /\ more.staged = writer[w].staged
      /\ more.alone = writer[w].alone
  BY <1>1 DEF Writer
<1>4. /\ ended \in Writer /\ ended.at = "ended" /\ ended.doomed \subseteq writer[w].doomed /\ ended.reason = writer[w].reason
      /\ ended.existing = writer[w].existing /\ ended.id = writer[w].id /\ ended.staged = writer[w].staged
      /\ ended.alone = writer[w].alone
  <2>1. /\ ended \in Writer /\ ended.at = "ended" /\ ended.doomed = {} /\ ended.reason = writer[w].reason
        /\ ended.existing = writer[w].existing /\ ended.id = writer[w].id /\ ended.staged = writer[w].staged
        /\ ended.alone = writer[w].alone
    BY <1>1, EndedType
  <2> HIDE DEF ended
  <2> QED BY <2>1
<1>5. PICK me \in {more, ended} : writer' = [writer EXCEPT ![w] = me]
  <2>1. writer' = [writer EXCEPT ![w] = IF writer[w].doomed = {d} THEN ended ELSE more]
    BY <1>2
  <2> HIDE DEF more, ended
  <2> QED BY <2>1
<1> HIDE DEF more, ended
<1>6. /\ me \in Writer /\ me.at \in {"pruning", "ended"} /\ me.doomed \subseteq writer[w].doomed /\ me.reason = writer[w].reason
      /\ me.existing = writer[w].existing /\ me.id = writer[w].id /\ me.staged = writer[w].staged
      /\ me.alone = writer[w].alone
  BY <1>3, <1>4, <1>5
<1>7. KeepOK(me, versions')
  <2>1. me.reason # Missing /\ me.existing # Missing => me.staged # Missing
    BY <1>1, <1>6 DEF KeepOK, Finished
  <2>2. me.alone /\ me.staged # Missing => \A v \in versions' : v.id.second <= me.id.second
    BY <1>1, <1>2, <1>6 DEF KeepOK
  <2>3. me.alone /\ me.staged # Missing => \E u \in versions' : Follows(me, u) /\ \A e \in me.doomed : e.id # u.id
    <3>1. SUFFICES ASSUME me.alone, me.staged # Missing
                   PROVE  \E u \in versions' : Follows(me, u) /\ \A e \in me.doomed : e.id # u.id
      OBVIOUS
    <3>2. PICK u \in versions : Follows(writer[w], u) /\ \A e \in writer[w].doomed : e.id # u.id
      BY <1>1, <1>6, <3>1 DEF KeepOK, Finished
    <3>3. u \in versions'
      BY <1>2, <3>2 DEF SameName
    <3> QED BY <1>6, <3>2, <3>3 DEF Follows
  <2> QED BY <1>6, <2>1, <2>2, <2>3 DEF KeepOK
<1>8. \A v \in versions' : v.id.second <= second
  BY <1>1, <1>2
<1> QED BY <1>1, <1>5, <1>6, <1>7, <1>8, KeepMoves

LEMMA WriterStepKeeps ==
  ASSUME IInv, KInv, NEW w \in Writers, WriterStep(w) PROVE KInv'
<1>1. CASE Write(w)
  BY <1>1, BeginKeeps DEF Write
<1>2. CASE Restore(w)
  <2>1. PICK v \in versions : Begin(w, v.content, "restore")
    BY <1>2 DEF Restore
  <2>2. v.content \in Contents /\ "restore" \in Reasons
    BY WriterTypes, HistoryAssumption DEF Version
  <2> QED BY <2>1, <2>2, BeginKeeps
<1>3. CASE Return(w) \/ Crash(w)
  <2>1. writer' = [writer EXCEPT ![w] = Idle] /\ UNCHANGED <<versions, second>>
    BY <1>3 DEF Return, Crash
  <2>2. Idle \in Writer /\ Idle.at = "idle" /\ KeepOK(Idle, versions) /\ \A v \in versions : v.id.second <= second
    BY IdleOK, IdleKeeps, KeepTypes DEF Idle
  <2> QED BY <2>1, <2>2, KeepMoves
<1>4. CASE Unclaim(w)
  <2>1. writer[w].at = "linked" /\ writer' = [writer EXCEPT ![w].at = "staged"] /\ UNCHANGED <<versions, second>>
    BY <1>4 DEF Unclaim
  <2> QED BY <2>1, MoveKeeps DEF Places, Finished
<1>5. CASE Replace(w)
  <2>1. writer[w].at = "staged" /\ writer' = [writer EXCEPT ![w].at = "replaced"] /\ UNCHANGED <<versions, second>>
    BY <1>5 DEF Replace
  <2> QED BY <2>1, MoveKeeps DEF Places, Finished
<1>6. CASE WriteFails(w)
  <2>1. /\ writer[w].at \notin {"idle", "ended"} /\ writer' = [writer EXCEPT ![w].at = "failing"]
        /\ UNCHANGED <<versions, second>>
    BY <1>6 DEF WriteFails
  <2> QED BY <2>1, MoveKeeps DEF Places
<1>7. CASE PruneFails(w)
  BY <1>7, WrittenKeeps DEF PruneFails
<1> QED
  BY <1>1, <1>2, <1>3, <1>4, <1>5, <1>6, <1>7, StageKeeps, ClaimKeeps, LinkKeeps, DiscardKeeps, ListKeeps,
     PruneOneKeeps DEF WriterStep

LEMMA NextKeeps == IInv /\ KInv /\ [Next]_vars => KInv'
<1> SUFFICES ASSUME IInv, KInv, [Next]_vars PROVE KInv'
  OBVIOUS
<1>1. CASE NextSecond
  <2>1. UNCHANGED <<versions, writer>> /\ second' = second + 1
    BY <1>1 DEF NextSecond
  <2>2. ClockIsAhead'
    <3>1. second \in Nat /\ \A v \in versions : v.id.second \in Nat
      BY HistoryAssumption DEF IInv, Version, Id
    <3>2. \A w \in Writers : writer[w].at \in {"staging", "claimed", "checked"} => writer[w].id.second \in Nat
      BY HistoryAssumption DEF IInv, WriteOK, Id
    <3> QED BY <2>1, <3>1, <3>2 DEF KInv, ClockIsAhead
  <2> QED BY <2>1, <2>2 DEF KInv, AloneIsAlone, KeepOK, Finished, Follows, Older
<1>2. CASE UNCHANGED vars
  BY <1>2 DEF vars, KInv, AloneIsAlone, ClockIsAhead, KeepOK, Finished, Follows, Older
<1> QED BY <1>1, <1>2, WriterStepKeeps DEF Next

(* A write that no other overlapped has kept what it replaced when it answers, unless its id was  *)
(* free again and sorts behind a later one: prune counts from the newest, and that is its own.    *)
THEOREM ReplacedContentIsKept == Spec => []ReplacedIsKept
<1>1. Init => IInv /\ KInv
  BY InitInv, InitKeeps
<1>2. IInv /\ KInv /\ [Next]_vars => (IInv /\ KInv)'
  BY NextInv, NextKeeps
<1>3. IInv /\ KInv => ReplacedIsKept
  <2>1. SUFFICES ASSUME IInv, KInv, NEW w \in Writers, writer[w].at = "ended", writer[w].outcome = "written", writer[w].alone,
                        writer[w].reason # Missing, writer[w].existing # Missing
                 PROVE  writer[w].staged # Missing /\ (InOrder(writer[w].staged) => writer[w].staged \in versions)
    BY DEF ReplacedIsKept
  <2>2. KeepOK(writer[w], versions)
    BY <2>1, KeepTypes
  <2>3. writer[w].staged # Missing
    BY <2>1, <2>2 DEF KeepOK, Finished
  <2>4. PICK u \in versions : Follows(writer[w], u)
    BY <2>1, <2>2, <2>3 DEF KeepOK, Finished
  <2> QED BY <2>3, <2>4 DEF Follows, InOrder
<1> QED BY <1>1, <1>2, <1>3, PTL DEF Spec

-----------------------------------------------------------------------------
(* A write is one call of the abstract file *)

CallOf(me) ==
  CASE me.at = "idle"                    -> [at |-> "idle"]
    [] me.at = "ended"                   -> [at |-> "done", outcome |-> me.outcome]
    [] me.at \in {"replaced", "pruning"} -> [at |-> "put"]
    [] OTHER                             -> [at |-> "writing", data |-> me.data]

Writing == {"read", "staging", "claimed", "checked", "linked", "staged", "failing"}

LEMMA CallsOfWriters == Calls = [w \in Writers |-> CallOf(writer[w])]
BY DEF Calls, CallOf

LEMMA CallCases ==
  ASSUME NEW me
  PROVE  /\ me.at = "idle" => CallOf(me) = [at |-> "idle"]
         /\ me.at = "ended" => CallOf(me) = [at |-> "done", outcome |-> me.outcome]
         /\ me.at \in {"replaced", "pruning"} => CallOf(me) = [at |-> "put"]
         /\ me.at \in Writing => CallOf(me) = [at |-> "writing", data |-> me.data]
BY DEF CallOf, Writing

LEMMA CallsMove ==
  ASSUME writer \in [Writers -> Writer], NEW w \in Writers, NEW me \in Writer, writer' = [writer EXCEPT ![w] = me]
  PROVE  /\ Calls[w] = CallOf(writer[w]) /\ Calls' = [Calls EXCEPT ![w] = CallOf(me)]
         /\ CallOf(me) = CallOf(writer[w]) => UNCHANGED Calls
<1>1. writer' \in [Writers -> Writer] /\ writer'[w] = me /\ \A v \in Writers \ {w} : writer'[v] = writer[v]
  BY OneMoves
<1>2. Calls' = [v \in Writers |-> CallOf(writer'[v])]
  BY CallsOfWriters DEF Calls, CallOf
<1>3. [v \in Writers |-> CallOf(writer'[v])] = [[v \in Writers |-> CallOf(writer[v])] EXCEPT ![w] = CallOf(me)]
  BY <1>1
<1>4. CallOf(me) = CallOf(writer[w]) => [v \in Writers |-> CallOf(writer'[v])] = [v \in Writers |-> CallOf(writer[v])]
  BY <1>1
<1> QED BY <1>2, <1>3, <1>4, CallsOfWriters

LEMMA BeginCalls ==
  ASSUME IInv, NEW w \in Writers, NEW data \in Contents, NEW reason \in Reasons \cup {Missing}, Begin(w, data, reason)
  PROVE  File!Begin(w, data) \/ File!PutSame(w)
<1> DEFINE me == Started(data, reason)
<1>1. (me.at = "read" /\ me.data = data) \/ (me.at = "ended" /\ me.outcome = "same")
  <2>1. \/ me.at = "read" /\ me.data = data /\ me.outcome = Missing
        \/ me.at = "ended" /\ me.outcome = "same"
    BY StartedType
  <2> HIDE DEF me
  <2> QED BY <2>1
<1>2. /\ writer'[w] = me /\ writer[w] = Idle /\ UNCHANGED file
      /\ \A v \in Writers \ {w} :
           writer'[v] = IF writer[v] # Idle THEN [writer[v] EXCEPT !.alone = FALSE] ELSE writer[v]
  BY BeginMoves DEF Begin
<1> HIDE DEF me
<1>3. ASSUME NEW v \in Writers \ {w} PROVE CallOf(writer'[v]) = CallOf(writer[v])
  <2>1. WriteOK(v, writer[v], versions, claims)
    BY WriterTypes
  <2>2. CASE writer[v] = Idle
    BY <1>2, <2>2
  <2>3. CASE writer[v] # Idle
    <3> DEFINE other == [writer[v] EXCEPT !.alone = FALSE]
    <3>1. other.at = writer[v].at /\ other.outcome = writer[v].outcome /\ other.data = writer[v].data
      BY <2>1, <2>3, OthersOK
    <3>2. writer'[v] = other
      BY <1>2, <2>3
    <3> HIDE DEF other
    <3> QED BY <3>1, <3>2 DEF CallOf
  <2> QED BY <2>2, <2>3
<1>4. Calls' = [v \in Writers |-> CallOf(writer'[v])]
  BY CallsOfWriters DEF Calls, CallOf
<1>5. Calls' = [Calls EXCEPT ![w] = CallOf(me)]
  <2>1. [v \in Writers |-> CallOf(writer'[v])] = [[v \in Writers |-> CallOf(writer[v])] EXCEPT ![w] = CallOf(me)]
    BY <1>2, <1>3
  <2> QED BY <1>4, <2>1, CallsOfWriters
<1>6. Calls[w].at = "idle"
  BY <1>2, CallsOfWriters, CallCases DEF Idle
<1>7. CallOf(me) = [at |-> "writing", data |-> data] \/ CallOf(me) = [at |-> "done", outcome |-> "same"]
  BY <1>1, CallCases DEF Writing
<1> QED BY <1>2, <1>5, <1>6, <1>7 DEF File!Begin, File!PutSame, File!Sets

(* A step of a write under way that leaves the file alone: the call goes on, fails, or has succeeded. *)
LEMMA CallGoesOn ==
  ASSUME IInv, NEW w \in Writers, NEW me \in Writer, writer' = [writer EXCEPT ![w] = me], UNCHANGED file,
         \/ writer[w].at \in Writing /\ me.at \in Writing /\ me.data = writer[w].data
         \/ writer[w].at \in Writing /\ me.at = "ended" /\ me.outcome = "failed"
         \/ writer[w].at \in {"replaced", "pruning"} /\ me.at \in {"replaced", "pruning"}
         \/ writer[w].at \in {"replaced", "pruning"} /\ me.at = "ended" /\ me.outcome = "written"
  PROVE  UNCHANGED <<file, Calls>> \/ File!Fail(w) \/ File!Succeed(w)
<1>1. /\ Calls[w] = CallOf(writer[w]) /\ Calls' = [Calls EXCEPT ![w] = CallOf(me)]
      /\ CallOf(me) = CallOf(writer[w]) => UNCHANGED Calls
  BY CallsMove, WriterTypes
<1>2. CASE CallOf(me) = CallOf(writer[w])
  BY <1>1, <1>2
<1>3. CASE writer[w].at \in Writing /\ me.at = "ended" /\ me.outcome = "failed"
  <2>1. Calls[w].at = "writing" /\ CallOf(me) = [at |-> "done", outcome |-> "failed"]
    BY <1>1, <1>3, CallCases
  <2>2. Calls' = [Calls EXCEPT ![w] = [at |-> "done", outcome |-> "failed"]]
    BY <1>1, <2>1
  <2> QED BY <2>1, <2>2 DEF File!Fail, File!Sets
<1>4. CASE writer[w].at \in {"replaced", "pruning"} /\ me.at = "ended" /\ me.outcome = "written"
  <2>1. Calls[w].at = "put" /\ CallOf(me) = [at |-> "done", outcome |-> "written"]
    BY <1>1, <1>4, CallCases
  <2>2. Calls' = [Calls EXCEPT ![w] = [at |-> "done", outcome |-> "written"]]
    BY <1>1, <2>1
  <2> QED BY <2>1, <2>2 DEF File!Succeed, File!Sets
<1>5. CASE writer[w].at \in Writing /\ me.at \in Writing /\ me.data = writer[w].data
  <2>1. CallOf(me) = [at |-> "writing", data |-> me.data] /\ CallOf(writer[w]) = [at |-> "writing", data |-> writer[w].data]
    BY <1>5, CallCases
  <2> QED BY <1>2, <1>5, <2>1
<1>6. CASE writer[w].at \in {"replaced", "pruning"} /\ me.at \in {"replaced", "pruning"}
  <2>1. CallOf(me) = [at |-> "put"] /\ CallOf(writer[w]) = [at |-> "put"]
    BY <1>6, CallCases
  <2> QED BY <1>2, <2>1
<1> QED BY <1>3, <1>4, <1>5, <1>6

LEMMA NextIdCalls ==
  ASSUME IInv, NEW w \in Writers, writer[w].at \in {"staging", "claimed", "checked"}
  PROVE  LET me == NextId(writer[w])
         IN  me \in Writer /\ (\/ me.at \in Writing /\ me.data = writer[w].data
                               \/ me.at = "ended" /\ me.outcome = "failed")
<1> DEFINE me == writer[w]
           id == [me.id EXCEPT !.suffix = @ + 1]
           next == [me EXCEPT !.at = "staging", !.id = id]
<1>1. me \in Writer /\ NextId(me) \in Writer
  BY WriterTypes, NextIdOK DEF WriteOK
<1>2. CASE me.id.suffix < MaxAttempts
  <2>1. NextId(me) = next
    BY <1>2 DEF NextId
  <2> HIDE DEF id
  <2>2. next.at = "staging" /\ next.data = me.data
    BY <1>1 DEF Writer
  <2> QED BY <1>1, <2>1, <2>2 DEF Writing
<1>3. CASE ~(me.id.suffix < MaxAttempts)
  <2>1. NextId(me) = Ended(me, "failed")
    BY <1>3 DEF NextId
  <2>2. Ended(me, "failed").at = "ended" /\ Ended(me, "failed").outcome = "failed"
    BY <1>1, EndedType
  <2> QED BY <1>1, <2>1, <2>2
<1> QED BY <1>2, <1>3

(* The steps up to the replace, and those after it. *)
LEMMA MoveCalls ==
  ASSUME IInv, NEW w \in Writers, NEW at \in Writing, writer[w].at \in Writing, writer' = [writer EXCEPT ![w].at = at],
         UNCHANGED file
  PROVE  UNCHANGED <<file, Calls>>
<1> DEFINE me == [writer[w] EXCEPT !.at = at]
<1>1. me \in Writer /\ me.at = at /\ me.data = writer[w].data
  <2>1. at \in Places
    BY DEF Writing, Places
  <2> QED BY <2>1, MovesTo
<1>2. writer' = [writer EXCEPT ![w] = me]
  OBVIOUS
<1> HIDE DEF me
<1>3. CallOf(me) = CallOf(writer[w])
  BY <1>1, CallCases
<1> QED BY <1>1, <1>2, <1>3, CallsMove, WriterTypes

LEMMA EndedCalls ==
  ASSUME IInv, NEW w \in Writers, NEW outcome \in {"failed", "written"},
         writer[w].at \in (IF outcome = "failed" THEN {"failing"} ELSE {"replaced", "pruning"}),
         writer' = [writer EXCEPT ![w] = Ended(writer[w], outcome)], UNCHANGED file
  PROVE  UNCHANGED <<file, Calls>> \/ File!Fail(w) \/ File!Succeed(w)
<1> DEFINE me == Ended(writer[w], outcome)
<1>1. me \in Writer /\ me.at = "ended" /\ me.outcome = outcome
  BY WriterTypes, EndedType
<1> HIDE DEF me
<1>2. writer' = [writer EXCEPT ![w] = me]
  BY DEF me
<1> QED BY <1>1, <1>2, CallGoesOn DEF Writing

LEMMA BeforeCalls ==
  ASSUME IInv, NEW w \in Writers, Stage(w) \/ Claim(w) \/ CheckId(w) \/ Link(w) \/ Unclaim(w) \/ WriteFails(w)
  PROVE  UNCHANGED <<file, Calls>> \/ File!Fail(w)
<1>1. writer[w].at \in Writing /\ UNCHANGED file
  BY DEF Stage, Claim, CheckId, Link, Unclaim, WriteFails, Writing
<1>2. CASE \E at \in Writing : writer' = [writer EXCEPT ![w].at = at]
  BY <1>1, <1>2, MoveCalls
<1>3. CASE writer[w].at \in {"staging", "claimed", "checked"} /\ writer' = [writer EXCEPT ![w] = NextId(writer[w])]
  <2> DEFINE me == NextId(writer[w])
  <2>1. me \in Writer /\ ((me.at \in Writing /\ me.data = writer[w].data) \/ (me.at = "ended" /\ me.outcome = "failed"))
    BY <1>3, NextIdCalls
  <2>2. writer' = [writer EXCEPT ![w] = me]
    BY <1>3
  <2> HIDE DEF me
  <2>3. UNCHANGED <<file, Calls>> \/ File!Fail(w) \/ File!Succeed(w)
    BY <1>1, <2>1, <2>2, CallGoesOn
  <2>4. ~File!Succeed(w)
    <3>1. Calls[w].at = "writing"
      BY <1>1, CallCases, CallsOfWriters
    <3> QED BY <3>1 DEF File!Succeed
  <2> QED BY <2>3, <2>4
<1>4. CASE Stage(w)
  <2> DEFINE id == [second |-> second, suffix |-> 1]
             me == [writer[w] EXCEPT !.at = "staging", !.id = id]
  <2>1. CASE writer' = [writer EXCEPT ![w].at = "staged"]
    BY <1>2, <2>1 DEF Writing
  <2>2. CASE writer' = [writer EXCEPT ![w] = me]
    <3>1. writer[w] \in Writer /\ "staging" \in Places /\ id \in Id \cup {Missing}
      BY WriterTypes, HistoryAssumption DEF Places, Id
    <3> HIDE DEF id
    <3>2. me \in Writer
      BY <3>1, Zenon DEF Writer
    <3>3. me.at = "staging" /\ me.data = writer[w].data
      BY <3>1 DEF Writer
    <3> HIDE DEF me
    <3>4. CallOf(me) = CallOf(writer[w])
      BY <1>1, <3>3, CallCases DEF Writing
    <3> QED BY <1>1, <2>2, <3>2, <3>4, CallsMove, WriterTypes
  <2> QED BY <1>4, <2>1, <2>2 DEF Stage
<1>5. CASE Link(w)
  <2> DEFINE version == [id |-> writer[w].id, reason |-> writer[w].reason, content |-> writer[w].existing, by |-> w]
             me == [writer[w] EXCEPT !.at = "linked", !.staged = version]
  <2>1. version \in Version /\ writer[w] \in Writer /\ writer[w].at = "checked"
    BY <1>5, LinkInv, WriterTypes DEF Link
  <2>2. writer' = [writer EXCEPT ![w] = me] \/ writer' = [writer EXCEPT ![w] = NextId(writer[w])]
    BY <1>5 DEF Link
  <2> HIDE DEF version
  <2>3. me \in Writer
    <3>1. "linked" \in Places /\ version \in Version \cup {Missing}
      BY <2>1 DEF Places
    <3> QED BY <2>1, <3>1, Zenon DEF Writer
  <2>4. me.at = "linked" /\ me.data = writer[w].data
    BY <2>1 DEF Writer
  <2> HIDE DEF me
  <2>5. CallOf(me) = CallOf(writer[w])
    BY <1>1, <2>4, CallCases DEF Writing
  <2>6. CASE writer' = [writer EXCEPT ![w] = me]
    BY <1>1, <2>3, <2>5, <2>6, CallsMove, WriterTypes
  <2> QED BY <1>3, <2>1, <2>2, <2>6
<1>6. CASE Claim(w) \/ CheckId(w)
  <2>1. writer[w].at \in {"staging", "claimed", "checked"}
    BY <1>6 DEF Claim, CheckId
  <2>2. CASE writer' = [writer EXCEPT ![w] = NextId(writer[w])]
    BY <1>3, <2>1, <2>2
  <2>3. CASE writer' = [writer EXCEPT ![w].at = "claimed"] \/ writer' = [writer EXCEPT ![w].at = "checked"]
    BY <1>2, <2>3 DEF Writing
  <2> QED BY <1>6, <2>2, <2>3 DEF Claim, CheckId
<1>7. CASE Unclaim(w) \/ WriteFails(w)
  <2>1. writer' = [writer EXCEPT ![w].at = "staged"] \/ writer' = [writer EXCEPT ![w].at = "failing"]
    BY <1>7 DEF Unclaim, WriteFails
  <2> QED BY <1>2, <2>1 DEF Writing
<1> QED BY <1>4, <1>5, <1>6, <1>7

LEMMA ReplaceCalls ==
  ASSUME IInv, NEW w \in Writers, Replace(w) PROVE File!Put(w)
<1> DEFINE me == [writer[w] EXCEPT !.at = "replaced"]
<1>1. me \in Writer /\ me.at = "replaced"
  BY MovesTo DEF Places
<1>2. writer' = [writer EXCEPT ![w] = me] /\ file' = writer[w].data /\ writer[w].at = "staged"
  BY DEF Replace
<1> HIDE DEF me
<1>3. Calls[w] = CallOf(writer[w]) /\ Calls' = [Calls EXCEPT ![w] = CallOf(me)]
  BY <1>1, <1>2, CallsMove, WriterTypes
<1>4. CallOf(me) = [at |-> "put"] /\ CallOf(writer[w]) = [at |-> "writing", data |-> writer[w].data]
  BY <1>1, <1>2, CallCases DEF Writing
<1>5. Calls' = [Calls EXCEPT ![w] = [at |-> "put"]]
  BY <1>3, <1>4
<1> QED BY <1>2, <1>3, <1>4, <1>5 DEF File!Put, File!Sets

LEMMA AfterCalls ==
  ASSUME IInv, NEW w \in Writers, List(w) \/ PruneOne(w) \/ PruneFails(w) \/ Discard(w)
  PROVE  UNCHANGED <<file, Calls>> \/ File!Fail(w) \/ File!Succeed(w)
<1>1. CASE Discard(w)
  BY <1>1, EndedCalls DEF Discard
<1>2. CASE List(w) \/ PruneOne(w) \/ PruneFails(w)
  <2>1. writer[w].at \in {"replaced", "pruning"} /\ writer[w] \in Writer /\ UNCHANGED file
    BY <1>2, WriterTypes DEF List, PruneOne, PruneFails
  <2>2. CASE writer' = [writer EXCEPT ![w] = Ended(writer[w], "written")]
    BY <2>1, <2>2, EndedCalls
  <2>3. ASSUME NEW doomed \in SUBSET Version, writer' = [writer EXCEPT ![w] = [writer[w] EXCEPT !.at = "pruning", !.doomed = doomed]]
        PROVE  UNCHANGED <<file, Calls>> \/ File!Fail(w) \/ File!Succeed(w)
    <3> DEFINE me == [writer[w] EXCEPT !.at = "pruning", !.doomed = doomed]
    <3>1. me \in Writer
      <4>1. "pruning" \in Places
        BY DEF Places
      <4> QED BY <2>1, <4>1, Zenon DEF Writer
    <3>2. me.at = "pruning"
      BY <2>1 DEF Writer
    <3>3. writer' = [writer EXCEPT ![w] = me]
      BY <2>3
    <3> HIDE DEF me
    <3> QED BY <2>1, <3>1, <3>2, <3>3, CallGoesOn
  <2>4. CASE List(w)
    <3>1. BeyondLimit \in SUBSET Version
      BY WriterTypes DEF BeyondLimit
    <3>2. \/ writer' = [writer EXCEPT ![w] = [writer[w] EXCEPT !.at = "pruning", !.doomed = BeyondLimit]]
          \/ writer' = [writer EXCEPT ![w] = Ended(writer[w], "written")]
      BY <2>4 DEF List
    <3> QED BY <2>2, <2>3, <3>1, <3>2
  <2>5. CASE PruneOne(w)
    <3>1. writer[w].at = "pruning" /\ writer[w].doomed \in SUBSET Version
      BY <2>1, <2>5 DEF PruneOne, Writer
    <3>2. PICK d \in writer[w].doomed :
            writer' = [writer EXCEPT ![w] =
              IF writer[w].doomed = {d} THEN Ended(writer[w], "written")
              ELSE [writer[w] EXCEPT !.doomed = writer[w].doomed \ {d}]]
      BY <2>5 DEF PruneOne
    <3> DEFINE fewer == writer[w].doomed \ {d}
    <3>3. fewer \in SUBSET Version
      BY <3>1
    <3>4. [writer[w] EXCEPT !.doomed = fewer] = [writer[w] EXCEPT !.at = "pruning", !.doomed = fewer]
      BY <2>1, <3>1 DEF Writer
    <3>5. CASE writer[w].doomed = {d}
      BY <2>2, <3>2, <3>5
    <3>6. CASE writer[w].doomed # {d}
      <4>1. writer' = [writer EXCEPT ![w] = [writer[w] EXCEPT !.at = "pruning", !.doomed = fewer]]
        BY <3>2, <3>4, <3>6
      <4> HIDE DEF fewer
      <4> QED BY <2>3, <3>3, <4>1
    <3> QED BY <3>5, <3>6
  <2> QED BY <1>2, <2>2, <2>4, <2>5 DEF PruneFails
<1> QED BY <1>1, <1>2

LEMMA StepCalls ==
  ASSUME IInv, NEW w \in Writers, WriterStep(w)
  PROVE  [File!FileNext]_<<file, Calls>>
<1>1. SUFFICES \/ UNCHANGED <<file, Calls>>
               \/ \E data \in Contents : File!Begin(w, data)
               \/ File!Put(w) \/ File!PutSame(w) \/ File!Succeed(w) \/ File!Fail(w) \/ File!Leave(w)
  BY <1>1 DEF File!FileNext
<1>2. CASE Write(w)
  BY <1>2, BeginCalls DEF Write
<1>3. CASE Restore(w)
  <2>1. PICK v \in versions : Begin(w, v.content, "restore")
    BY <1>3 DEF Restore
  <2>2. v.content \in Contents /\ "restore" \in Reasons
    BY WriterTypes, HistoryAssumption DEF Version
  <2> QED BY <2>1, <2>2, BeginCalls
<1>4. CASE Return(w) \/ Crash(w)
  <2>1. writer' = [writer EXCEPT ![w] = Idle] /\ UNCHANGED file
    BY <1>4 DEF Return, Crash
  <2>2. CallOf(Idle) = [at |-> "idle"] /\ Idle \in Writer
    BY CallCases, IdleOK DEF Idle
  <2>3. Calls' = [Calls EXCEPT ![w] = CallOf(Idle)]
    BY <2>1, <2>2, CallsMove, WriterTypes
  <2>4. Calls' = [Calls EXCEPT ![w] = [at |-> "idle"]]
    BY <2>2, <2>3
  <2> QED BY <2>1, <2>4 DEF File!Leave, File!Sets
<1> QED BY <1>2, <1>3, <1>4, BeforeCalls, ReplaceCalls, AfterCalls DEF WriterStep

(* Whatever a write does besides - ids, claims, versions, pruning - the file sees one call that puts *)
(* the whole content and says so, or leaves the file alone and says that (atomic_write).             *)
THEOREM WritesImplementTheFile == Spec => WritesAreAtomic
<1>1. Init => Calls = [w \in Writers |-> [at |-> "idle"]]
  BY DEF Init, Calls, Idle
<1>2. IInv /\ [Next]_vars => [File!FileNext]_<<file, Calls>>
  <2>1. SUFFICES ASSUME IInv, [Next]_vars PROVE [File!FileNext]_<<file, Calls>>
    OBVIOUS
  <2>2. CASE NextSecond \/ UNCHANGED vars
    BY <2>2 DEF NextSecond, vars, Calls
  <2> QED BY <2>1, <2>2, StepCalls DEF Next
<1> QED BY <1>1, <1>2, Invariance, PTL DEF Spec, WritesAreAtomic, File!FileSpec, File!fileVars

-----------------------------------------------------------------------------
(* Slides are counted from 1 on in the order of the file. *)
LEMMA Ranks ==
  ASSUME NEW d, IsDeck(d)
  PROVE  /\ Count(d) \in Nat
         /\ \A i \in SlideAtoms(d) : Rank(d, i) \in 1..Count(d)
         /\ \A i, j \in SlideAtoms(d) : j < i => Rank(d, j) < Rank(d, i)
<1> DEFINE Before(i) == {j \in SlideAtoms(d) : j <= i}
<1>1. IsFiniteSet(SlideAtoms(d)) /\ SlideAtoms(d) \subseteq Nat
  <2>1. SlideAtoms(d) \subseteq 1..Len(d.atoms) /\ Len(d.atoms) \in Nat
    BY DEF IsDeck, SlideAtoms, Positions
  <2>2. IsFiniteSet(1..Len(d.atoms))
    BY <2>1, FS_Interval
  <2> QED BY <2>1, <2>2, FS_Subset
<1>2. Count(d) \in Nat
  BY <1>1, FS_CardinalityType DEF Count
<1>3. \A i : IsFiniteSet(Before(i)) /\ Cardinality(Before(i)) <= Count(d) /\ Cardinality(Before(i)) \in Nat
  <2> TAKE i
  <2>1. Before(i) \in SUBSET SlideAtoms(d)
    OBVIOUS
  <2> QED BY <1>1, <2>1, FS_Subset, FS_CardinalityType DEF Count
<1>4. \A i \in SlideAtoms(d) : Rank(d, i) \in 1..Count(d)
  <2> TAKE i \in SlideAtoms(d)
  <2>1. i \in Before(i)
    BY <1>1
  <2>2. Cardinality(Before(i)) # 0
    BY <1>3, <2>1, FS_EmptySet
  <2> QED BY <1>2, <1>3, <2>2 DEF Rank
<1>5. \A i, j \in SlideAtoms(d) : j < i => Rank(d, j) < Rank(d, i)
  <2> SUFFICES ASSUME NEW i \in SlideAtoms(d), NEW j \in SlideAtoms(d), j < i PROVE Rank(d, j) < Rank(d, i)
    OBVIOUS
  <2>1. Before(j) \in SUBSET Before(i) /\ i \in Before(i) /\ i \notin Before(j)
    BY <1>1
  <2>2. Cardinality(Before(j)) <= Cardinality(Before(i)) /\ Cardinality(Before(i)) # Cardinality(Before(j))
    BY <1>3, <2>1, FS_Subset
  <2> QED BY <1>3, <2>2 DEF Rank
<1> QED BY <1>2, <1>4, <1>5

(* What renumbering makes of the pieces: the same pieces in the same order, the same of them slides. *)
LEMMA RenumberedPieces ==
  ASSUME NEW d, IsDeck(d), Count(d) # 0
  PROVE  LET r == Renumber(d)
         IN  /\ r.atoms = [i \in Positions(d) |->
                   IF IsSlide(d, i) THEN RenumberSlide(d.atoms[i], Rank(d, i), Count(d), IsCarbon(d)) ELSE d.atoms[i]]
             /\ r.total = Numbered(d.total, Count(d)) /\ r.names = Numbered(d.names, Titles(d))
             /\ r.kind = d.kind /\ r.charter = d.charter
BY DEF Renumber, IsDeck

LEMMA SameSlides ==
  ASSUME NEW d, IsDeck(d), Count(d) # 0
  PROVE  LET r == Renumber(d)
         IN  /\ Positions(r) = Positions(d) /\ SlideAtoms(r) = SlideAtoms(d) /\ Count(r) = Count(d)
             /\ \A i : Rank(r, i) = Rank(d, i)
             /\ IsCarbon(r) <=> IsCarbon(d)
<1> DEFINE r == Renumber(d)
<1>1. Positions(r) = Positions(d)
  BY RenumberedPieces DEF Positions
<1>2. \A i \in Positions(d) : r.atoms[i].slide = d.atoms[i].slide /\ r.atoms[i].typed = d.atoms[i].typed
  <2> SUFFICES ASSUME NEW i \in Positions(d) PROVE r.atoms[i].slide = d.atoms[i].slide /\ r.atoms[i].typed = d.atoms[i].typed
    OBVIOUS
  <2>1. CASE IsSlide(d, i)
    <3>1. r.atoms[i] = RenumberSlide(d.atoms[i], Rank(d, i), Count(d), IsCarbon(d))
      BY <2>1, RenumberedPieces
    <3>2. Fields \subseteq DOMAIN d.atoms[i]
      BY DEF IsDeck, IsAtom
    <3> HIDE DEF r
    <3> QED BY <3>1, <3>2 DEF RenumberSlide, Fields
  <2>2. CASE ~IsSlide(d, i)
    BY <2>2, RenumberedPieces
  <2> QED BY <2>1, <2>2
<1>3. IsCarbon(r) <=> IsCarbon(d)
  BY RenumberedPieces DEF IsCarbon
<1> HIDE DEF r
<1>4. SlideAtoms(r) = SlideAtoms(d)
  BY <1>1, <1>2 DEF SlideAtoms, IsSlide
<1>5. Count(r) = Count(d) /\ \A i : Rank(r, i) = Rank(d, i)
  BY <1>4 DEF Count, Rank
<1> QED BY <1>1, <1>3, <1>4, <1>5 DEF r

Numbering == {"L002", "L003", "L004", "L005"}

(* Lint finds nothing wrong with the numbering of a deck that was renumbered, whatever it was before: *)
(* renumber.py and lint.py agree without sharing code.                                                *)
THEOREM RenumberedIsClean ==
  ASSUME NEW d, IsDeck(d), Count(d) # 0
  PROVE  \A p \in Lint(Renumber(d)) : p[2] \notin Numbering
<1> DEFINE r == Renumber(d)
<1>1. /\ SlideAtoms(r) = SlideAtoms(d) /\ Count(r) = Count(d)
      /\ \A i : Rank(r, i) = Rank(d, i)
      /\ IsCarbon(r) <=> IsCarbon(d)
  BY SameSlides
<1>2. r.total = Numbered(d.total, Count(d)) /\ r.names = Numbered(d.names, Titles(d))
  BY RenumberedPieces
<1>3. Len(Titles(d)) = Count(d)
  BY Ranks DEF Titles
<1>4. ASSUME NEW i \in SlideAtoms(d)
      PROVE  /\ r.atoms[i].id = SlideNames[Rank(d, i)]
             /\ r.atoms[i].eyebrow \in {Absent, <<Rank(d, i), Count(d)>>}
             /\ IsCarbon(d) => r.atoms[i].footer \in {Absent, <<Rank(d, i), Count(d)>>}
             /\ ~IsCarbon(d) => r.atoms[i].page \in {Absent, Rank(d, i)}
  <2>1. i \in Positions(d) /\ IsSlide(d, i)
    BY DEF SlideAtoms
  <2>2. r.atoms[i] = RenumberSlide(d.atoms[i], Rank(d, i), Count(d), IsCarbon(d))
    BY <2>1, RenumberedPieces
  <2>3. Fields \subseteq DOMAIN d.atoms[i]
    BY <2>1 DEF IsDeck, IsAtom
  <2> HIDE DEF r
  <2> QED BY <2>2, <2>3 DEF RenumberSlide, Fields, Numbered
<1> HIDE DEF r
<1>5. FileProblems(r) = {}
  <2>1. r.total # Absent => r.total = Count(r)
    BY <1>1, <1>2 DEF Numbered
  <2>2. r.names # Absent => Len(r.names) = Count(r)
    BY <1>1, <1>2, <1>3 DEF Numbered
  <2> QED BY <2>1, <2>2 DEF FileProblems
<1>6. ASSUME NEW i \in SlideAtoms(d) PROVE ~IdProblem(r, i)
  <2>1. r.atoms[i].id = SlideNames[Rank(d, i)]
    BY <1>4
  <2>2. ASSUME NEW j \in SlideAtoms(d), j < i PROVE r.atoms[j].id # r.atoms[i].id
    <3>1. r.atoms[j].id = SlideNames[Rank(d, j)]
      BY <1>4
    <3>2. Rank(d, i) \in DOMAIN SlideNames /\ Rank(d, j) \in DOMAIN SlideNames
      BY Ranks, DeckAssumption DEF IsDeck, IsAtom
    <3>3. Rank(d, j) < Rank(d, i) /\ Rank(d, i) \in Nat /\ Rank(d, j) \in Nat
      BY <2>2, Ranks
    <3> QED BY <2>1, <3>1, <3>2, <3>3, DeckAssumption DEF IsInjective
  <2> QED BY <1>1, <2>1, <2>2 DEF IdProblem
<1>7. ASSUME NEW i \in SlideAtoms(d) PROVE ~CounterProblem(r, i)
  BY <1>1, <1>4 DEF CounterProblem
<1>8. ASSUME NEW i \in SlideAtoms(d) PROVE SlideCodes(r, i) \cap Numbering = {}
  BY <1>6, <1>7 DEF SlideCodes, CharterCodes, Numbering
<1>9. ASSUME NEW p \in RemoteImages(r) PROVE p[2] = "L010"
  <2> DEFINE place(i) == IF r.kind = "presentation" /\ IsSlide(r, i) THEN Rank(r, i) ELSE 0
  <2>1. \E i : p = <<place(i), "L010">>
    BY DEF RemoteImages
  <2> HIDE DEF place
  <2> QED BY <2>1
<1> SUFFICES ASSUME NEW p \in Lint(r) PROVE p[2] \notin Numbering
  BY DEF r
<1>10. \/ p \in RemoteImages(r)
       \/ \E i \in SlideAtoms(d) : \E code \in SlideCodes(r, i) : p = <<Rank(r, i), code>>
  BY <1>1, <1>5 DEF Lint
<1> QED BY <1>8, <1>9, <1>10 DEF Numbering

(* Renumbering changes ids and counters only: every piece stays where it is and keeps all else. *)
THEOREM RenumberKeepsTheRest ==
  ASSUME NEW d, IsDeck(d)
  PROVE  /\ Positions(Renumber(d)) = Positions(d)
         /\ \A i \in Positions(d) :
              /\ DOMAIN Renumber(d).atoms[i] = DOMAIN d.atoms[i]
              /\ \A f \in DOMAIN d.atoms[i] \ {"id", "eyebrow", "footer", "page"} : Renumber(d).atoms[i][f] = d.atoms[i][f]
<1>1. CASE Count(d) = 0
  BY <1>1 DEF Renumber
<1>2. CASE Count(d) # 0
  <2>1. Positions(Renumber(d)) = Positions(d)
    BY <1>2, SameSlides
  <2>2. ASSUME NEW i \in Positions(d)
        PROVE  /\ DOMAIN Renumber(d).atoms[i] = DOMAIN d.atoms[i]
               /\ \A f \in DOMAIN d.atoms[i] \ {"id", "eyebrow", "footer", "page"} : Renumber(d).atoms[i][f] = d.atoms[i][f]
    <3>1. CASE IsSlide(d, i)
      <4>1. Renumber(d).atoms[i] = RenumberSlide(d.atoms[i], Rank(d, i), Count(d), IsCarbon(d))
        BY <1>2, <3>1, RenumberedPieces
      <4>2. Fields \subseteq DOMAIN d.atoms[i]
        BY DEF IsDeck, IsAtom
      <4> QED BY <4>1, <4>2 DEF RenumberSlide
    <3>2. CASE ~IsSlide(d, i)
      <4>1. Renumber(d).atoms[i] = d.atoms[i]
        BY <1>2, <3>2, RenumberedPieces
      <4> QED BY <4>1
    <3> QED BY <3>1, <3>2
  <2> QED BY <2>1, <2>2
<1> QED BY <1>1, <1>2

-----------------------------------------------------------------------------
(* Lists and their parts *)

(* What holds of 0 and is passed on from each number to the next one holds up to k: else there *)
(* were a least number of which it does not.                                                   *)
LEMMA UpTo ==
  ASSUME NEW k \in Nat, NEW T, 0 \in T, \A n \in 1..k : n - 1 \in T => n \in T
  PROVE  0..k \subseteq T
<1> DEFINE Out == (0..k) \ T
<1>1. SUFFICES Out = {}
  OBVIOUS
<1>2. SUFFICES ASSUME Out # {} PROVE FALSE
  OBVIOUS
<1>3. Out \in SUBSET Nat
  OBVIOUS
<1>4. PICK m \in Out : \A n \in Out : m <= n
  BY <1>2, <1>3, LeastNatural
<1>5. m \in 1..k
  OBVIOUS
<1>6. m - 1 \in 0..k /\ ~(m <= m - 1)
  BY <1>5
<1>7. m - 1 \in T
  BY <1>4, <1>6
<1> QED BY <1>5, <1>7

IsList(s) == s \in Seq({s[i] : i \in 1..Len(s)})

(* A sequence of anything is one of its own elements. *)
LEMMA Listed ==
  ASSUME NEW S, NEW s \in Seq(S)
  PROVE  IsList(s) /\ Len(s) \in Nat /\ DOMAIN s = 1..Len(s)
<1> DEFINE T == {s[i] : i \in 1..Len(s)}
<1>1. Len(s) \in Nat /\ DOMAIN s = 1..Len(s) /\ s \in [1..Len(s) -> S]
  OBVIOUS
<1>2. \A i \in 1..Len(s) : s[i] \in T
  OBVIOUS
<1> HIDE DEF T
<1>3. s \in [1..Len(s) -> T]
  BY <1>1, <1>2
<1>4. s \in Seq(T)
  BY <1>1, <1>3
<1> QED BY <1>1, <1>4 DEF IsList, T

(* A function on 1..n is a sequence. *)
LEMMA FunctionIsList ==
  ASSUME NEW n \in Nat, NEW S, NEW f \in [1..n -> S]
  PROVE  f \in Seq(S) /\ Len(f) = n
OBVIOUS

(* An element written among others: the rest moves up. *)
LEMMA Inserted ==
  ASSUME NEW s, IsList(s), NEW at \in 1..(Len(s) + 1), NEW x, NEW t, t = InsertAt(s, at, x)
  PROVE  /\ IsList(t) /\ Len(t) = Len(s) + 1
         /\ t[at] = x
         /\ \A i \in 1..Len(s) : t[IF i < at THEN i ELSE i + 1] = s[i]
         /\ \A i \in 1..Len(t) : i = at \/ \E j \in 1..Len(s) : i = IF j < at THEN j ELSE j + 1
<1> DEFINE S == {s[i] : i \in 1..Len(s)} \cup {x}
           front == SubSeq(s, 1, at - 1)
           back == SubSeq(s, at, Len(s))
           n == Len(s)
<1>1. s \in Seq(S) /\ x \in S
  <2>1. Len(s) \in Nat /\ s \in [1..Len(s) -> {s[i] : i \in 1..Len(s)}]
    BY DEF IsList
  <2>2. s \in [1..Len(s) -> S]
    BY <2>1
  <2> QED BY <2>1, <2>2
<1> HIDE DEF S
<1>2. n \in Nat /\ at \in Int
  BY <1>1
<1>3. front \in Seq(S) /\ Len(front) = at - 1 /\ \A i \in 1..(at - 1) : front[i] = s[i]
  BY <1>1
<1>4. back \in Seq(S) /\ Len(back) = n - at + 1 /\ \A i \in 1..(n - at + 1) : back[i] = s[at + i - 1]
  BY <1>1
<1>5. t = (front \o <<x>>) \o back
  BY DEF InsertAt
<1> HIDE DEF front, back
<1> DEFINE head == front \o <<x>>
<1>6. head \in Seq(S) /\ Len(head) = at /\ head[at] = x /\ \A i \in 1..(at - 1) : head[i] = s[i]
  BY <1>1, <1>2, <1>3
<1> HIDE DEF head
<1>7. t = head \o back
  BY <1>5 DEF head
<1>8. t \in Seq(S) /\ Len(t) = n + 1
  <2>1. t \in Seq(S) /\ Len(t) = Len(head) + Len(back)
    <3>1. head \in Seq(S) /\ back \in Seq(S)
      BY <1>4, <1>6
    <3> QED BY <1>7, <3>1, ConcatProperties
  <2> HIDE DEF n
  <2>2. Len(head) = at /\ Len(back) = n - at + 1
    BY <1>4, <1>6
  <2>3. at + (n - at + 1) = n + 1
    BY <1>2
  <2> QED BY <2>1, <2>2, <2>3
<1>9. t[at] = x
  <2>1. at \in 1..at
    BY <1>2
  <2>2. t[at] = head[at]
    BY <1>4, <1>6, <1>7, <2>1
  <2> QED BY <1>6, <2>2
<1>10. ASSUME NEW i \in 1..n PROVE t[IF i < at THEN i ELSE i + 1] = s[i]
  <2>1. CASE i < at
    <3>1. i \in 1..at /\ i \in 1..(at - 1)
      BY <1>2, <2>1
    <3>2. t[i] = head[i]
      BY <1>4, <1>6, <1>7, <3>1
    <3> QED BY <1>6, <2>1, <3>1, <3>2
  <2>2. CASE i >= at
    <3>1. (i + 1) - at \in 1..(n - at + 1) /\ at + ((i + 1) - at) - 1 = i /\ i + 1 \in (at + 1)..(at + (n - at + 1)) /\ ~(i < at)
      BY <1>2, <2>2
    <3>2. t[i + 1] = back[(i + 1) - at]
      BY <1>4, <1>6, <1>7, <3>1
    <3>3. back[(i + 1) - at] = s[at + ((i + 1) - at) - 1]
      BY <1>4, <3>1
    <3> QED BY <3>1, <3>2, <3>3
  <2> QED BY <1>2, <2>1, <2>2
<1>11. ASSUME NEW i \in 1..(n + 1) PROVE i = at \/ \E j \in 1..n : i = IF j < at THEN j ELSE j + 1
  <2>1. CASE i < at
    <3>1. i \in 1..n
      BY <1>2, <2>1
    <3> QED BY <2>1, <3>1
  <2>2. CASE i > at
    <3>1. i - 1 \in 1..n /\ ~(i - 1 < at) /\ i = (i - 1) + 1
      BY <1>2, <2>2
    <3> QED BY <3>1
  <2> QED BY <1>2, <2>1, <2>2
<1> QED BY <1>8, <1>9, <1>10, <1>11, Listed

(* An element taken out: the rest moves down. *)
LEMMA Removed ==
  ASSUME NEW s, IsList(s), NEW at \in 1..Len(s), NEW t, t = RemoveAt(s, at)
  PROVE  /\ IsList(t) /\ Len(t) = Len(s) - 1
         /\ \A i \in 1..Len(t) : t[i] = s[IF i < at THEN i ELSE i + 1]
         /\ \A i \in 1..Len(s) : i = at \/ \E j \in 1..Len(t) : i = IF j < at THEN j ELSE j + 1
<1> DEFINE S == {s[i] : i \in 1..Len(s)}
           front == SubSeq(s, 1, at - 1)
           back == SubSeq(s, at + 1, Len(s))
           n == Len(s)
<1>1. s \in Seq(S)
  BY DEF IsList
<1> HIDE DEF S
<1>2. n \in Nat /\ at \in Int
  BY <1>1
<1>3. front \in Seq(S) /\ Len(front) = at - 1 /\ \A i \in 1..(at - 1) : front[i] = s[i]
  BY <1>1
<1>4. back \in Seq(S) /\ Len(back) = n - at /\ \A i \in 1..(n - at) : back[i] = s[at + i]
  BY <1>1
<1>5. t = front \o back
  BY DEF RemoveAt
<1> HIDE DEF front, back
<1>6. t \in Seq(S) /\ Len(t) = n - 1
  <2>1. t \in Seq(S) /\ Len(t) = Len(front) + Len(back)
    BY <1>3, <1>4, <1>5, ConcatProperties
  <2> HIDE DEF n
  <2>2. Len(front) = at - 1 /\ Len(back) = n - at
    BY <1>3, <1>4
  <2>3. (at - 1) + (n - at) = n - 1
    BY <1>2
  <2> QED BY <2>1, <2>2, <2>3
<1>7. ASSUME NEW i \in 1..(n - 1) PROVE t[i] = s[IF i < at THEN i ELSE i + 1]
  <2>1. CASE i < at
    BY <1>2, <1>3, <1>4, <1>5, <2>1
  <2>2. CASE i >= at
    <3>1. i - (at - 1) \in 1..(n - at) /\ t[i] = back[i - (at - 1)] /\ at + (i - (at - 1)) = i + 1
      BY <1>2, <1>3, <1>4, <1>5, <2>2
    <3>2. back[i - (at - 1)] = s[at + (i - (at - 1))]
      BY <1>4, <3>1
    <3> QED BY <1>2, <2>2, <3>1, <3>2
  <2> QED BY <1>2, <2>1, <2>2
<1>8. ASSUME NEW i \in 1..n PROVE i = at \/ \E j \in 1..(n - 1) : i = IF j < at THEN j ELSE j + 1
  <2>1. CASE i < at
    <3>1. i \in 1..(n - 1)
      BY <1>2, <2>1
    <3> QED BY <2>1, <3>1
  <2>2. CASE i > at
    <3>1. i - 1 \in 1..(n - 1) /\ ~(i - 1 < at) /\ i = (i - 1) + 1
      BY <1>2, <2>2
    <3> QED BY <3>1
  <2> QED BY <1>2, <2>1, <2>2
<1> QED BY <1>6, <1>7, <1>8, Listed

-----------------------------------------------------------------------------
(* What is left of a list without the pieces of some keys *)

Others(s, keys) == {i \in 1..Len(s) : s[i].it.key \notin keys}
RankIn(others, i) == Cardinality({j \in others : j <= i})
RestOf(s, keys) == {<<RankIn(Others(s, keys), i), Content(s[i].it)>> : i \in Others(s, keys)}

(* g takes the places O in s to the places P in t, in order, and the pieces there have the same content. *)
Carries(g, O, P, s, t) ==
  /\ g \in [O -> P]
  /\ \A i, j \in O : i < j => g[i] < g[j]
  /\ \A m \in P : \E i \in O : g[i] = m
  /\ \A i \in O : Content(t[g[i]].it) = Content(s[i].it)

(* Places that are taken to others in order keep their ranks. *)
LEMMA SameRanks ==
  ASSUME NEW O \in SUBSET Nat, IsFiniteSet(O), NEW P \in SUBSET Nat, NEW g \in [O -> P],
         \A i, j \in O : i < j => g[i] < g[j], \A m \in P : \E i \in O : g[i] = m, NEW k \in O
  PROVE  RankIn(O, k) = RankIn(P, g[k])
<1> DEFINE A == {i \in O : i <= k}
           B == {m \in P : m <= g[k]}
           f == [i \in A |-> g[i]]
<1>1. \A i, j \in O : i <= j <=> g[i] <= g[j]
  <2>1. ASSUME NEW i \in O, NEW j \in O PROVE i <= j <=> g[i] <= g[j]
    <3>1. i \in Nat /\ j \in Nat /\ g[i] \in Nat /\ g[j] \in Nat
      OBVIOUS
    <3>2. i < j => g[i] < g[j]
      OBVIOUS
    <3>3. j < i => g[j] < g[i]
      OBVIOUS
    <3>4. i = j => g[i] = g[j]
      OBVIOUS
    <3> QED BY <3>1, <3>2, <3>3, <3>4
  <2> QED BY <2>1
<1>2. \A i \in A : g[i] \in B
  BY <1>1
<1>3. f \in [A -> B]
  <2> HIDE DEF A, B
  <2> QED BY <1>2
<1>4. \A i, j \in A : f[i] = f[j] => i = j
  <2>1. ASSUME NEW i \in A, NEW j \in A, g[i] = g[j] PROVE i = j
    <3>1. g[i] \in Nat /\ i \in Nat /\ j \in Nat
      OBVIOUS
    <3>2. i <= j /\ j <= i
      BY <1>1, <2>1, <3>1
    <3> QED BY <3>1, <3>2
  <2> HIDE DEF A
  <2> QED BY <2>1
<1>5. \A m \in B : \E i \in A : f[i] = m
  <2>1. ASSUME NEW m \in B PROVE \E i \in A : g[i] = m
    <3>1. PICK i \in O : g[i] = m
      OBVIOUS
    <3>2. i \in A
      BY <1>1, <3>1
    <3> QED BY <3>1, <3>2
  <2> HIDE DEF A, B
  <2> QED BY <2>1
<1> HIDE DEF f, A, B
<1>6. f \in Bijection(A, B)
  BY <1>3, <1>4, <1>5 DEF Bijection, Injection, Surjection, IsInjective
<1>7. ExistsBijection(A, B)
  BY <1>6 DEF ExistsBijection
<1>8. IsFiniteSet(A)
  <2>1. A \in SUBSET O
    BY DEF A
  <2> QED BY <2>1, FS_Subset
<1>9. Cardinality(A) = Cardinality(B)
  BY <1>7, <1>8, FS_Bijection
<1> QED BY <1>9 DEF RankIn, A, B

(* So what is left of the two lists is the same. *)
LEMMA SameRest ==
  ASSUME NEW s, Len(s) \in Nat, NEW t, Len(t) \in Nat, NEW keys, NEW g, Carries(g, Others(s, keys), Others(t, keys), s, t)
  PROVE  RestOf(s, keys) = RestOf(t, keys)
<1> DEFINE O == Others(s, keys)
           P == Others(t, keys)
<1>1. O \in SUBSET Nat /\ P \in SUBSET Nat
  BY DEF Others
<1>2. IsFiniteSet(O)
  <2>1. IsFiniteSet(1..Len(s)) /\ O \in SUBSET (1..Len(s))
    BY FS_Interval DEF Others
  <2> QED BY <2>1, FS_Subset
<1> HIDE DEF O, P
<1>3. /\ g \in [O -> P]
      /\ \A i, j \in O : i < j => g[i] < g[j]
      /\ \A m \in P : \E i \in O : g[i] = m
      /\ \A i \in O : Content(t[g[i]].it) = Content(s[i].it)
  BY DEF Carries, O, P
<1>4. \A i \in O : RankIn(O, i) = RankIn(P, g[i])
  BY <1>1, <1>2, <1>3, SameRanks
<1>5. RestOf(s, keys) \subseteq RestOf(t, keys)
  <2>1. ASSUME NEW i \in O PROVE \E m \in P : <<RankIn(O, i), Content(s[i].it)>> = <<RankIn(P, m), Content(t[m].it)>>
    <3>1. g[i] \in P
      BY <1>3
    <3> QED BY <1>3, <1>4, <3>1
  <2> QED BY <2>1 DEF RestOf, O, P
<1>6. RestOf(t, keys) \subseteq RestOf(s, keys)
  <2>1. ASSUME NEW m \in P PROVE \E i \in O : <<RankIn(O, i), Content(s[i].it)>> = <<RankIn(P, m), Content(t[m].it)>>
    <3>1. PICK i \in O : g[i] = m
      BY <1>3
    <3> QED BY <1>3, <1>4, <3>1
  <2>2. ASSUME NEW x \in RestOf(t, keys) PROVE x \in RestOf(s, keys)
    <3>1. PICK m \in P : x = <<RankIn(P, m), Content(t[m].it)>>
      BY DEF RestOf, P
    <3>2. PICK i \in O : <<RankIn(O, i), Content(s[i].it)>> = <<RankIn(P, m), Content(t[m].it)>>
      BY <2>1
    <3> QED BY <3>1, <3>2 DEF RestOf, O
  <2> QED BY <2>2
<1> QED BY <1>5, <1>6

(* A piece of a key in keys, written into a list, is no part of the rest. *)
LEMMA InsertKeepsRest ==
  ASSUME NEW s, IsList(s), NEW at \in 1..(Len(s) + 1), NEW x, NEW keys, x.it.key \in keys, NEW t, t = InsertAt(s, at, x)
  PROVE  RestOf(t, keys) = RestOf(s, keys)
<1> DEFINE O == Others(s, keys)
           P == Others(t, keys)
           to(i) == IF i < at THEN i ELSE i + 1
           g == [i \in O |-> to(i)]
<1>1. Len(s) \in Nat /\ at \in Nat
  BY DEF IsList
<1>2. /\ IsList(t) /\ Len(t) = Len(s) + 1
      /\ t[at] = x
      /\ \A i \in 1..Len(s) : t[to(i)] = s[i]
      /\ \A i \in 1..Len(t) : i = at \/ \E j \in 1..Len(s) : i = to(j)
  BY Inserted
<1>3. ASSUME NEW i \in O PROVE to(i) \in P /\ t[to(i)] = s[i]
  <2>1. i \in 1..Len(s) /\ s[i].it.key \notin keys
    BY DEF Others
  <2>2. to(i) \in 1..Len(t) /\ t[to(i)] = s[i]
    BY <1>1, <1>2, <2>1
  <2> HIDE DEF to
  <2> QED BY <2>1, <2>2 DEF Others
<1>4. \A i, j \in O : i < j => to(i) < to(j)
  BY <1>1 DEF Others
<1>5. ASSUME NEW m \in P PROVE \E i \in O : to(i) = m
  <2>1. m \in 1..Len(t) /\ t[m].it.key \notin keys
    BY DEF Others
  <2>2. PICK i \in 1..Len(s) : m = to(i)
    <3>1. m # at
      BY <1>2, <2>1
    <3> HIDE DEF to
    <3> QED BY <1>2, <2>1, <3>1
  <2>3. t[m] = s[i]
    BY <1>2, <2>2
  <2>4. i \in O
    BY <2>1, <2>3 DEF Others
  <2> HIDE DEF to
  <2> QED BY <2>2, <2>4
<1> HIDE DEF to, O, P
<1>6. Carries(g, O, P, s, t)
  <2>1. g \in [O -> P]
    BY <1>3
  <2>2. \A i \in O : g[i] = to(i)
    OBVIOUS
  <2> HIDE DEF g
  <2> QED BY <1>3, <1>4, <1>5, <2>1, <2>2 DEF Carries
<1> HIDE DEF g
<1>7. Len(t) \in Nat
  BY <1>1, <1>2
<1> QED BY <1>1, <1>6, <1>7, SameRest DEF O, P

(* Nor is one that is taken out. *)
LEMMA RemoveKeepsRest ==
  ASSUME NEW s, IsList(s), NEW at \in 1..Len(s), NEW keys, s[at].it.key \in keys, NEW t, t = RemoveAt(s, at)
  PROVE  RestOf(t, keys) = RestOf(s, keys)
<1> DEFINE O == Others(t, keys)
           P == Others(s, keys)
           to(i) == IF i < at THEN i ELSE i + 1
           g == [i \in O |-> to(i)]
<1>1. Len(s) \in Nat /\ at \in Nat
  BY DEF IsList
<1>2. /\ IsList(t) /\ Len(t) = Len(s) - 1
      /\ \A i \in 1..Len(t) : t[i] = s[to(i)]
      /\ \A i \in 1..Len(s) : i = at \/ \E j \in 1..Len(t) : i = to(j)
  BY Removed
<1>3. ASSUME NEW i \in O PROVE to(i) \in P /\ s[to(i)] = t[i]
  <2>1. i \in 1..Len(t) /\ t[i].it.key \notin keys
    BY DEF Others
  <2>2. to(i) \in 1..Len(s) /\ s[to(i)] = t[i]
    BY <1>1, <1>2, <2>1
  <2> HIDE DEF to
  <2> QED BY <2>1, <2>2 DEF Others
<1>4. \A i, j \in O : i < j => to(i) < to(j)
  BY <1>1, <1>2 DEF Others
<1>5. ASSUME NEW m \in P PROVE \E i \in O : to(i) = m
  <2>1. m \in 1..Len(s) /\ s[m].it.key \notin keys
    BY DEF Others
  <2>2. PICK i \in 1..Len(t) : m = to(i)
    <3>1. m # at
      BY <2>1
    <3> HIDE DEF to
    <3> QED BY <1>2, <2>1, <3>1
  <2>3. s[m] = t[i]
    BY <1>2, <2>2
  <2>4. i \in O
    BY <2>1, <2>3 DEF Others
  <2> HIDE DEF to
  <2> QED BY <2>2, <2>4
<1> HIDE DEF to, O, P
<1>6. Carries(g, O, P, t, s)
  <2>1. g \in [O -> P]
    BY <1>3
  <2>2. \A i \in O : g[i] = to(i)
    OBVIOUS
  <2> HIDE DEF g
  <2> QED BY <1>3, <1>4, <1>5, <2>1, <2>2 DEF Carries
<1> HIDE DEF g
<1>7. Len(t) \in Nat
  BY <1>1, <1>2
<1> QED BY <1>1, <1>6, <1>7, SameRest DEF O, P

(* And pieces of keys in keys may change among themselves. *)
LEMMA ChangeKeepsRest ==
  ASSUME NEW s, Len(s) \in Nat, NEW t, Len(t) = Len(s), NEW keys,
         \A i \in 1..Len(s) :
           \/ Content(t[i].it) = Content(s[i].it) /\ t[i].it.key = s[i].it.key
           \/ s[i].it.key \in keys /\ t[i].it.key \in keys
  PROVE  RestOf(t, keys) = RestOf(s, keys)
<1> DEFINE O == Others(s, keys)
           g == [i \in O |-> i]
<1>1. Others(t, keys) = O
  BY DEF Others
<1>2. \A i \in O : Content(t[i].it) = Content(s[i].it)
  BY DEF Others
<1> HIDE DEF O
<1>3. Carries(g, O, O, s, t)
  BY <1>2 DEF Carries
<1> HIDE DEF g
<1> QED BY <1>1, <1>3, SameRest DEF O

-----------------------------------------------------------------------------
(* The working copy of a patch, operation by operation *)

Marked(d) == \E i \in Positions(d) : d.atoms[i].slide /\ d.atoms[i].typed
Plain(d) == \A i \in Positions(d) : ~HasReference(d.atoms[i].images)

(* What every piece of the working copy of d is, where named has the keys of what the patch names or writes: *)
(* a slide of a deck with marked ones is marked; a piece goes by the id of a slide that is named; a piece   *)
(* nobody touched is one of d; and no image is a reference.                                                  *)
Good(d, named, piece) ==
  /\ {"it", "orig", "slide", "touched"} \subseteq DOMAIN piece
  /\ piece.slide \in BOOLEAN /\ piece.touched \in BOOLEAN /\ IsAtom(piece.it)
  /\ piece.slide => piece.it.slide
  /\ piece.slide /\ Marked(d) => piece.it.typed
  /\ piece.it.slide /\ ~piece.slide => Marked(d) /\ ~piece.it.typed
  /\ piece.orig # Absent =>
       /\ piece.slide
       /\ piece.it.key \in named \/ \E i \in SlideAtoms(d) : SlideId(d, i) = piece.orig /\ d.atoms[i].key = piece.it.key
  /\ ~piece.touched => \E i \in Positions(d) : piece.it.key = d.atoms[i].key
  /\ Plain(d) => ~HasReference(piece.it.images)

Copy(d, named, s) ==
  /\ IsList(s)
  /\ \A i \in 1..Len(s) : Good(d, named, s[i])
  /\ \E i \in 1..Len(s) : s[i].slide
  /\ RestOf(s, named) = Rest(d, named)

WorkOK(d, named, w) ==
  {"atoms", "structural", "ok"} \subseteq DOMAIN w /\ w.ok \in BOOLEAN /\ (w.ok => Copy(d, named, w.atoms))

(* An operation as a patch may have it. *)
IsOp(o) ==
  /\ o.op \in {"set_text", "replace_slide", "insert_slide", "delete_slide", "move_slide"}
  /\ o.op # "insert_slide" => o.id # Absent
  /\ o.op \in {"replace_slide", "insert_slide"} => IsAtom(o.html) /\ o.html.slide
  /\ o.op \in {"insert_slide", "move_slide"} => (o.after # "start" => o.after # Absent)

(* named has the keys of the slides o names and of the one it writes. *)
Names(d, named, o) ==
  /\ o.op # "insert_slide" => \A i \in SlideAtoms(d) : SlideId(d, i) = o.id => d.atoms[i].key \in named
  /\ o.op \in {"replace_slide", "insert_slide"} => o.html.key \in named

(* The first of some positions. *)
LEMMA FirstOf ==
  ASSUME NEW T \in SUBSET Nat, T # {}
  PROVE  First(T) \in T /\ \A q \in T : First(T) <= q
<1>1. \E m \in T : \A k \in T : m <= k
  BY LeastNatural
<1> QED BY <1>1 DEF First

Found(w, at, id) == at \in 1..Len(w.atoms) /\ w.atoms[at].orig = id /\ w.atoms[at].slide

(* _require_slide finds a slide with the id it is asked for. *)
LEMMA Required ==
  ASSUME NEW d, NEW named, NEW w, Copy(d, named, w.atoms), NEW id, id # Absent, Known(w, id)
  PROVE  Found(w, Require(w, id), id)
<1> DEFINE T == {p \in DOMAIN w.atoms : w.atoms[p].orig = id}
<1>1. DOMAIN w.atoms = 1..Len(w.atoms) /\ Len(w.atoms) \in Nat
  BY DEF Copy, IsList
<1>2. T \in SUBSET Nat /\ T # {}
  BY <1>1 DEF Known
<1>3. First(T) \in T /\ \A q \in T : First(T) <= q
  <2> HIDE DEF T
  <2> QED BY <1>2, FirstOf
<1>4. Require(w, id) = First(T)
  BY DEF Require
<1>5. Require(w, id) \in 1..Len(w.atoms) /\ w.atoms[Require(w, id)].orig = id
  BY <1>1, <1>3, <1>4
<1>6. w.atoms[Require(w, id)].slide
  BY <1>5 DEF Copy, Good
<1> QED BY <1>5, <1>6 DEF Found

(* What is found by an id that o names has a key that is named. *)
LEMMA FoundIsNamed ==
  ASSUME NEW d, NEW named, NEW piece, Good(d, named, piece), NEW id, id # Absent, piece.orig = id,
         \A i \in SlideAtoms(d) : SlideId(d, i) = id => d.atoms[i].key \in named
  PROVE  piece.it.key \in named
BY DEF Good

(* A good piece of a named key is written in. *)
LEMMA InsertKeepsCopy ==
  ASSUME NEW d, NEW named, NEW s, Copy(d, named, s), NEW at \in 1..(Len(s) + 1),
         NEW x, Good(d, named, x), x.it.key \in named, NEW t, t = InsertAt(s, at, x)
  PROVE  Copy(d, named, t)
<1>1. IsList(s) /\ Len(s) \in Nat
  BY DEF Copy, IsList
<1> DEFINE to(i) == IF i < at THEN i ELSE i + 1
<1>2. /\ IsList(t) /\ Len(t) = Len(s) + 1
      /\ t[at] = x
      /\ \A i \in 1..Len(s) : t[to(i)] = s[i]
      /\ \A i \in 1..Len(t) : i = at \/ \E j \in 1..Len(s) : i = to(j)
  BY <1>1, Inserted
<1>3. \A i \in 1..Len(s) : to(i) \in 1..Len(t)
  BY <1>1, <1>2
<1> HIDE DEF to
<1>4. \A i \in 1..Len(t) : Good(d, named, t[i])
  BY <1>2 DEF Copy
<1>5. \E i \in 1..Len(t) : t[i].slide
  <2>1. PICK i \in 1..Len(s) : s[i].slide
    BY DEF Copy
  <2>2. t[to(i)] = s[i] /\ to(i) \in 1..Len(t)
    BY <1>2, <1>3
  <2> QED BY <2>1, <2>2
<1>6. RestOf(t, named) = Rest(d, named)
  <2>1. RestOf(t, named) = RestOf(s, named)
    BY <1>1, InsertKeepsRest
  <2> QED BY <2>1 DEF Copy
<1> QED BY <1>2, <1>4, <1>5, <1>6 DEF Copy

(* A piece of a named key is taken out, where another slide stays. *)
LEMMA RemoveKeepsCopy ==
  ASSUME NEW d, NEW named, NEW s, Copy(d, named, s), NEW at \in 1..Len(s), s[at].it.key \in named,
         \E i \in 1..Len(s) : i # at /\ s[i].slide, NEW t, t = RemoveAt(s, at)
  PROVE  /\ Copy(d, named, t)
         /\ Len(t) = Len(s) - 1
         /\ \A i \in 1..Len(s) : i = at \/ \E j \in 1..Len(t) : t[j] = s[i]
<1>1. IsList(s) /\ Len(s) \in Nat
  BY DEF Copy, IsList
<1> DEFINE to(i) == IF i < at THEN i ELSE i + 1
<1>2. /\ IsList(t) /\ Len(t) = Len(s) - 1
      /\ \A i \in 1..Len(t) : t[i] = s[to(i)]
      /\ \A i \in 1..Len(s) : i = at \/ \E j \in 1..Len(t) : i = to(j)
  BY <1>1, Removed, SMTT(60)
<1>3. \A i \in 1..Len(t) : to(i) \in 1..Len(s)
  BY <1>1, <1>2
<1> HIDE DEF to
<1>4. \A i \in 1..Len(t) : Good(d, named, t[i])
  BY <1>2, <1>3 DEF Copy
<1>5. \A i \in 1..Len(s) : i = at \/ \E j \in 1..Len(t) : t[j] = s[i]
  BY <1>2
<1>6. \E i \in 1..Len(t) : t[i].slide
  BY <1>5
<1>7. RestOf(t, named) = Rest(d, named)
  <2>1. RestOf(t, named) = RestOf(s, named)
    BY <1>1, RemoveKeepsRest
  <2> QED BY <2>1 DEF Copy
<1> QED BY <1>2, <1>4, <1>5, <1>6, <1>7 DEF Copy

(* A slide is edited in place. *)
LEMMA EditKeepsCopy ==
  ASSUME NEW d, NEW named, NEW s, Copy(d, named, s), NEW at \in 1..Len(s), s[at].it.key \in named, s[at].slide,
         NEW atom, IsAtom(atom), atom.slide, Marked(d) => atom.typed, atom.key \in named, Plain(d) => ~HasReference(atom.images),
         NEW t, t = [[s EXCEPT ![at].it = atom] EXCEPT ![at].touched = TRUE]
  PROVE  Copy(d, named, t)
<1> DEFINE x == [[s[at] EXCEPT !.it = atom] EXCEPT !.touched = TRUE]
<1>1. IsList(s) /\ Len(s) \in Nat /\ DOMAIN s = 1..Len(s) /\ s = [i \in 1..Len(s) |-> s[i]]
  BY DEF Copy, IsList
<1>2. Good(d, named, s[at])
  BY DEF Copy
<1>3. x.it = atom /\ x.touched = TRUE /\ x.slide = s[at].slide /\ x.orig = s[at].orig /\ DOMAIN x = DOMAIN s[at]
  BY <1>2 DEF Good
<1> HIDE DEF x
<1>4. Good(d, named, x)
  BY <1>2, <1>3 DEF Good
<1>5. t = [i \in 1..Len(s) |-> IF i = at THEN x ELSE s[i]]
  BY <1>1 DEF x
<1> DEFINE n == Len(s)
           all == {s[i] : i \in 1..n} \cup {x}
<1>6. n \in Nat /\ \A i \in 1..n : s[i] \in all /\ x \in all
  BY <1>1
<1> HIDE DEF n, all
<1>7. t \in [1..n -> all]
  BY <1>5, <1>6 DEF n
<1>8. t \in Seq(all) /\ Len(t) = n /\ t[at] = x /\ \A i \in 1..n : i # at => t[i] = s[i]
  <2>1. t \in Seq(all) /\ Len(t) = n
    BY <1>6, <1>7, FunctionIsList
  <2>2. t = [i \in 1..n |-> IF i = at THEN x ELSE s[i]] /\ at \in 1..n
    BY <1>5 DEF n
  <2>3. t[at] = x /\ \A i \in 1..n : i # at => t[i] = s[i]
    BY <2>2
  <2> QED BY <2>1, <2>3
<1>9. IsList(t)
  BY <1>8, Listed
<1>10. \A i \in 1..n : Good(d, named, t[i])
  BY <1>4, <1>8 DEF Copy, n
<1>11. \E i \in 1..n : t[i].slide
  BY <1>3, <1>8 DEF n
<1>12. RestOf(t, named) = Rest(d, named)
  <2>1. \A i \in 1..Len(s) : \/ Content(t[i].it) = Content(s[i].it) /\ t[i].it.key = s[i].it.key
                             \/ s[i].it.key \in named /\ t[i].it.key \in named
    BY <1>3, <1>8 DEF n
  <2>2. Len(s) \in Nat /\ Len(t) = Len(s)
    BY <1>1, <1>8 DEF n
  <2>3. RestOf(t, named) = RestOf(s, named)
    BY <2>1, <2>2, ChangeKeepsRest, Zenon
  <2> QED BY <2>3 DEF Copy
<1> QED BY <1>8, <1>9, <1>10, <1>11, <1>12 DEF Copy

(* An operation that fails leaves nothing to be kept. *)
LEMMA FailedIsOK ==
  ASSUME NEW d, NEW named, NEW w, WorkOK(d, named, w)
  PROVE  WorkOK(d, named, Failed(w)) /\ Failed(w).ok = FALSE
BY DEF WorkOK, Failed

(* _require_slide finds a slide with a named key, if anything goes by the id of the operation. *)
LEMMA RequiredIsNamed ==
  ASSUME NEW d, NEW named, NEW w, Copy(d, named, w.atoms), NEW o, IsOp(o), Names(d, named, o), o.op # "insert_slide", Known(w, o.id)
  PROVE  LET at == Require(w, o.id)
         IN  /\ at \in 1..Len(w.atoms) /\ w.atoms[at].slide
             /\ Good(d, named, w.atoms[at]) /\ w.atoms[at].it.key \in named
<1> DEFINE at == Require(w, o.id)
<1>1. o.id # Absent
  BY DEF IsOp
<1>2. at \in 1..Len(w.atoms) /\ w.atoms[at].orig = o.id /\ w.atoms[at].slide
  <2> DEFINE id == o.id
  <2>1. id # Absent /\ Known(w, id) /\ Copy(d, named, w.atoms)
    BY <1>1
  <2> HIDE DEF id
  <2>2. Found(w, Require(w, id), id)
    BY <2>1, Required
  <2> QED BY <2>2 DEF id, Found
<1> HIDE DEF at
<1>3. Good(d, named, w.atoms[at])
  BY <1>2 DEF Copy
<1>4. w.atoms[at].it.key \in named
  BY <1>1, <1>2, <1>3, FoundIsNamed DEF Names
<1> QED BY <1>2, <1>3, <1>4 DEF at

LEMMA SetTextKeeps ==
  ASSUME NEW d, NEW named, NEW w, WorkOK(d, named, w), w.ok, NEW o, IsOp(o), Names(d, named, o), o.op = "set_text"
  PROVE  WorkOK(d, named, SetText(w, o))
<1>1. CASE ~Known(w, o.id) \/ o.selector = "fails"
  BY <1>1, FailedIsOK DEF SetText
<1>2. CASE Known(w, o.id) /\ o.selector # "fails"
  <2> DEFINE at == Require(w, o.id)
             old == w.atoms[at].it
             leaf == [old EXCEPT !.text = "new"]
             root == [old EXCEPT !.text = "new", !.images = <<>>, !.eyebrow = Absent, !.footer = Absent, !.page = Absent, !.facts = {}]
             atom == IF o.selector = "leaf" THEN leaf ELSE root
             t == [[w.atoms EXCEPT ![at].it = atom] EXCEPT ![at].touched = TRUE]
  <2>1. /\ at \in 1..Len(w.atoms) /\ w.atoms[at].slide
        /\ Good(d, named, w.atoms[at]) /\ old.key \in named
    BY <1>2, RequiredIsNamed DEF WorkOK
  <2>2. SetText(w, o) = [w EXCEPT !.atoms = t]
    BY <1>2 DEF SetText, WorkOK
  <2> HIDE DEF at, old, t
  <2>3. IsAtom(old) /\ old.slide /\ (Marked(d) => old.typed) /\ (Plain(d) => ~HasReference(old.images))
    BY <2>1 DEF Good, old
  <2>4. IsAtom(leaf) /\ leaf.slide = old.slide /\ leaf.typed = old.typed /\ leaf.key = old.key /\ leaf.images = old.images
    BY <2>3 DEF IsAtom, Fields
  <2>5. IsAtom(root) /\ root.slide = old.slide /\ root.typed = old.typed /\ root.key = old.key /\ root.images = <<>>
    <3>1. Fields \subseteq DOMAIN old /\ old.slide \in BOOLEAN /\ old.typed \in BOOLEAN
      BY <2>3 DEF IsAtom
    <3>2. DOMAIN root = DOMAIN old
      OBVIOUS
    <3>3. root.slide = old.slide /\ root.typed = old.typed /\ root.key = old.key
      BY <3>1 DEF Fields
    <3>4. root.images = <<>>
      BY <3>1 DEF Fields
    <3> HIDE DEF root
    <3>5. <<>> \in Seq({"large", "small", "ref"} \X Nat)
      OBVIOUS
    <3> QED BY <3>1, <3>2, <3>3, <3>4, <3>5 DEF IsAtom
  <2> HIDE DEF leaf, root
  <2>6. /\ IsAtom(atom) /\ atom.slide /\ (Marked(d) => atom.typed) /\ atom.key \in named
        /\ Plain(d) => ~HasReference(atom.images)
    <3>1. ~HasReference(<<>>)
      BY DEF HasReference
    <3>2. CASE o.selector = "leaf"
      <4>1. atom = leaf
        BY <3>2
      <4> HIDE DEF atom
      <4> QED BY <2>1, <2>3, <2>4, <4>1
    <3>3. CASE o.selector # "leaf"
      <4>1. atom = root
        BY <3>3
      <4> HIDE DEF atom
      <4> QED BY <2>1, <2>3, <2>5, <3>1, <4>1
    <3> QED BY <3>2, <3>3
  <2> HIDE DEF atom
  <2>7. Copy(d, named, t)
    BY <2>1, <2>6, EditKeepsCopy DEF WorkOK, t, old
  <2>8. DOMAIN SetText(w, o) = DOMAIN w /\ SetText(w, o).atoms = t /\ SetText(w, o).ok = w.ok
    BY <2>2 DEF WorkOK
  <2> QED BY <2>7, <2>8 DEF WorkOK
<1> QED BY <1>1, <1>2

(* What _restore_images puts back are images of the slide, and no references. *)
LEMMA PutBackImages ==
  ASSUME NEW images \in Seq({"large", "small", "ref"} \X Nat), NEW current \in Seq({"large", "small", "ref"} \X Nat),
         Restorable(images, current)
  PROVE  PutBack(images, current) \in Seq({"large", "small", "ref"} \X Nat) /\ ~HasReference(PutBack(images, current))
<1> DEFINE Image == {"large", "small", "ref"} \X Nat
           found(i) == CHOOSE j \in Large(current) : Reference(current, j) = images[i][2]
           back(i) == IF images[i][1] = "ref" THEN current[found(i)] ELSE images[i]
<1>1. DOMAIN images = 1..Len(images) /\ Len(images) \in Nat /\ Len(current) \in Nat
  OBVIOUS
<1>2. ASSUME NEW i \in 1..Len(images) PROVE back(i) \in Image /\ back(i)[1] # "ref"
  <2>1. CASE images[i][1] = "ref"
    <3>1. found(i) \in Large(current)
      BY <1>1, <2>1 DEF Restorable
    <3> HIDE DEF found
    <3>2. found(i) \in 1..Len(current) /\ current[found(i)][1] = "large"
      BY <3>1 DEF Large, LargeUpTo
    <3> QED BY <2>1, <3>2
  <2>2. CASE images[i][1] # "ref"
    <3>1. images[i] \in Image
      OBVIOUS
    <3> QED BY <2>2, <3>1
  <2> QED BY <2>1, <2>2
<1> DEFINE b == PutBack(images, current)
<1>3. b = [i \in 1..Len(images) |-> back(i)]
  BY <1>1 DEF PutBack
<1> HIDE DEF b, back, Image
<1>4. b \in [1..Len(images) -> Image]
  BY <1>2, <1>3
<1>5. b \in Seq(Image) /\ Len(b) = Len(images)
  BY <1>1, <1>4, FunctionIsList
<1>6. DOMAIN b = 1..Len(images) /\ \A i \in 1..Len(images) : b[i][1] # "ref"
  BY <1>2, <1>3
<1>7. ~HasReference(b)
  BY <1>6 DEF HasReference
<1> QED BY <1>5, <1>7 DEF b, Image

LEMMA ReplaceSlideKeeps ==
  ASSUME NEW d, NEW named, NEW w, WorkOK(d, named, w), w.ok, NEW o, IsOp(o), Names(d, named, o), o.op = "replace_slide"
  PROVE  WorkOK(d, named, ReplaceSlide(w, o))
<1> DEFINE at == Require(w, o.id)
           current == w.atoms[at].it.images
<1>1. CASE ~Known(w, o.id) \/ ~IsSlideHtml(o.html)
  BY <1>1, FailedIsOK DEF ReplaceSlide
<1>2. CASE Known(w, o.id) /\ IsSlideHtml(o.html) /\ ~Restorable(o.html.images, current)
  BY <1>2, FailedIsOK DEF ReplaceSlide
<1>3. CASE Known(w, o.id) /\ IsSlideHtml(o.html) /\ Restorable(o.html.images, current)
  <2> DEFINE old == w.atoms[at].it
             images == PutBack(o.html.images, current)
             atom == [o.html EXCEPT !.images = images]
             t == [[w.atoms EXCEPT ![at].it = atom] EXCEPT ![at].touched = TRUE]
  <2>1. /\ at \in 1..Len(w.atoms) /\ w.atoms[at].slide
        /\ Good(d, named, w.atoms[at]) /\ old.key \in named
    BY <1>3, RequiredIsNamed DEF WorkOK
  <2>2. ReplaceSlide(w, o) = [[w EXCEPT !.atoms = t] EXCEPT !.structural = TRUE]
    BY <1>3 DEF ReplaceSlide, WorkOK
  <2>3. IsAtom(o.html) /\ o.html.slide /\ o.html.typed /\ o.html.key \in named
    BY <1>3 DEF IsOp, Names, IsSlideHtml
  <2>4. current \in Seq({"large", "small", "ref"} \X Nat) /\ o.html.images \in Seq({"large", "small", "ref"} \X Nat)
    BY <2>1, <2>3 DEF Good, IsAtom
  <2> HIDE DEF at, old, t, current
  <2>5. images \in Seq({"large", "small", "ref"} \X Nat) /\ ~HasReference(images)
    BY <1>3, <2>4, PutBackImages
  <2> HIDE DEF images
  <2>6. IsAtom(atom) /\ atom.slide /\ atom.typed /\ atom.key \in named /\ atom.images = images
    BY <2>3, <2>5 DEF IsAtom, Fields
  <2> HIDE DEF atom
  <2>7. Copy(d, named, t)
    BY <2>1, <2>5, <2>6, EditKeepsCopy DEF WorkOK, t, old
  <2>8. DOMAIN ReplaceSlide(w, o) = DOMAIN w /\ ReplaceSlide(w, o).atoms = t /\ ReplaceSlide(w, o).ok = w.ok
    BY <2>2 DEF WorkOK
  <2> QED BY <2>7, <2>8 DEF WorkOK
<1> QED BY <1>1, <1>2, <1>3

(* A list with a slide has a first one. *)
LEMMA FirstSlide ==
  ASSUME NEW d, NEW named, NEW w, Copy(d, named, w.atoms)
  PROVE  First(SlidesOf(w)) \in 1..Len(w.atoms) /\ w.atoms[First(SlidesOf(w))].slide
<1>1. DOMAIN w.atoms = 1..Len(w.atoms) /\ Len(w.atoms) \in Nat
  BY DEF Copy, IsList
<1> DEFINE T == SlidesOf(w)
<1>2. T = {p \in 1..Len(w.atoms) : w.atoms[p].slide}
  BY <1>1 DEF SlidesOf
<1>3. T \in SUBSET Nat /\ T # {}
  BY <1>1, <1>2 DEF Copy
<1> HIDE DEF T
<1>4. First(T) \in T
  BY <1>3, FirstOf
<1> QED BY <1>2, <1>4 DEF T

(* _place writes a good piece of a named key in. *)
LEMMA PlaceKeeps ==
  ASSUME NEW d, NEW named, NEW w, WorkOK(d, named, w), w.ok, NEW x, Good(d, named, x), x.it.key \in named,
         NEW anchored \in BOOLEAN, NEW after, anchored => after # Absent /\ Known(w, after)
  PROVE  WorkOK(d, named, Place(w, x, anchored, after))
<1> DEFINE at == IF anchored THEN Require(w, after) + 1 ELSE First(SlidesOf(w))
           t == InsertAt(w.atoms, at, x)
           v == Place(w, x, anchored, after)
<1>1. Copy(d, named, w.atoms) /\ {"atoms", "structural", "ok"} \subseteq DOMAIN w
  BY DEF WorkOK
<1>2. Len(w.atoms) \in Nat
  BY <1>1 DEF Copy, IsList
<1>3. at \in 1..(Len(w.atoms) + 1)
  <2>1. CASE anchored
    <3>1. Found(w, Require(w, after), after)
      BY <1>1, <2>1, Required
    <3> QED BY <1>2, <2>1, <3>1 DEF Found
  <2>2. CASE ~anchored
    <3>1. First(SlidesOf(w)) \in 1..Len(w.atoms)
      BY <1>1, FirstSlide
    <3> QED BY <1>2, <2>2, <3>1
  <2> QED BY <2>1, <2>2
<1>4. v = [[w EXCEPT !.atoms = t] EXCEPT !.structural = TRUE]
  BY <1>1 DEF Place
<1> HIDE DEF at, t, v
<1>5. Copy(d, named, t)
  BY <1>1, <1>3, InsertKeepsCopy DEF t
<1>6. DOMAIN v = DOMAIN w /\ v.atoms = t /\ v.ok = w.ok
  BY <1>1, <1>4
<1>7. WorkOK(d, named, v)
  BY <1>5, <1>6 DEF WorkOK
<1> QED BY <1>7 DEF v

LEMMA InsertSlideKeeps ==
  ASSUME NEW d, NEW named, NEW w, WorkOK(d, named, w), w.ok, NEW o, IsOp(o), Names(d, named, o), o.op = "insert_slide"
  PROVE  WorkOK(d, named, InsertSlide(w, o))
<1> DEFINE x == [it |-> o.html, orig |-> Absent, slide |-> TRUE, touched |-> TRUE]
           anchored == o.after # "start"
           after == o.after
           refused == (o.after # "start" /\ ~Known(w, o.after)) \/ ~IsSlideHtml(o.html) \/ HasReference(o.html.images)
<1>1. CASE refused
  BY <1>1, FailedIsOK DEF InsertSlide
<1>2. CASE ~refused
  <2>1. InsertSlide(w, o) = Place(w, x, anchored, after)
    BY <1>2 DEF InsertSlide
  <2>2. IsAtom(o.html) /\ o.html.slide /\ o.html.typed /\ o.html.key \in named /\ ~HasReference(o.html.images)
    BY <1>2 DEF IsOp, Names, IsSlideHtml
  <2>3. Good(d, named, x) /\ x.it.key \in named
    BY <2>2 DEF Good
  <2>4. anchored \in BOOLEAN /\ (anchored => after # Absent /\ Known(w, after))
    BY <1>2 DEF IsOp
  <2> HIDE DEF x, anchored, after
  <2>5. WorkOK(d, named, Place(w, x, anchored, after))
    BY <2>3, <2>4, PlaceKeeps
  <2> QED BY <2>1, <2>5
<1> QED BY <1>1, <1>2

LEMMA DeleteSlideKeeps ==
  ASSUME NEW d, NEW named, NEW w, WorkOK(d, named, w), w.ok, NEW o, IsOp(o), Names(d, named, o), o.op = "delete_slide"
  PROVE  WorkOK(d, named, DeleteSlide(w, o))
<1> DEFINE at == Require(w, o.id)
           t == RemoveAt(w.atoms, at)
           v == DeleteSlide(w, o)
<1>1. CASE ~Known(w, o.id) \/ Cardinality(SlidesOf(w)) = 1
  BY <1>1, FailedIsOK DEF DeleteSlide
<1>2. CASE Known(w, o.id) /\ Cardinality(SlidesOf(w)) # 1
  <2>1. Copy(d, named, w.atoms) /\ {"atoms", "structural", "ok"} \subseteq DOMAIN w
    BY DEF WorkOK
  <2>2. DOMAIN w.atoms = 1..Len(w.atoms)
    BY <2>1 DEF Copy, IsList
  <2>3. at \in 1..Len(w.atoms) /\ w.atoms[at].slide /\ w.atoms[at].it.key \in named
    BY <1>2, <2>1, RequiredIsNamed
  <2>4. v = [[w EXCEPT !.atoms = t] EXCEPT !.structural = TRUE]
    BY <1>2, <2>1 DEF DeleteSlide
  <2> HIDE DEF at, t, v
  <2>5. \E i \in 1..Len(w.atoms) : i # at /\ w.atoms[i].slide
    <3>1. at \in SlidesOf(w)
      BY <2>2, <2>3 DEF SlidesOf
    <3>2. SlidesOf(w) # {at}
      BY <1>2, FS_Singleton
    <3>3. PICK i \in SlidesOf(w) : i # at
      BY <3>1, <3>2
    <3> QED BY <2>2, <3>3 DEF SlidesOf
  <2>6. Copy(d, named, t)
    BY <2>1, <2>3, <2>5, RemoveKeepsCopy DEF t
  <2>7. DOMAIN v = DOMAIN w /\ v.atoms = t /\ v.ok = w.ok
    BY <2>1, <2>4
  <2>8. WorkOK(d, named, v)
    BY <2>6, <2>7 DEF WorkOK
  <2> QED BY <2>8 DEF v
<1> QED BY <1>1, <1>2

LEMMA MoveSlideKeeps ==
  ASSUME NEW d, NEW named, NEW w, WorkOK(d, named, w), w.ok, NEW o, IsOp(o), Names(d, named, o), o.op = "move_slide"
  PROVE  WorkOK(d, named, MoveSlide(w, o))
<1> DEFINE at == Require(w, o.id)
           anchored == o.after # "start"
           after == o.after
           inPlace == IF o.after = "start" THEN at = First(SlidesOf(w)) ELSE Require(w, o.after) = at
           refused == ~Known(w, o.id) \/ (o.after # "start" /\ ~Known(w, o.after))
           x == w.atoms[at]
           t == RemoveAt(w.atoms, at)
           v == [w EXCEPT !.atoms = t]
<1>1. CASE refused
  BY <1>1, FailedIsOK DEF MoveSlide
<1>2. CASE ~refused /\ inPlace
  <2>1. MoveSlide(w, o) = w
    BY <1>2 DEF MoveSlide
  <2> QED BY <2>1
<1>3. CASE ~refused /\ ~inPlace
  <2>1. Copy(d, named, w.atoms) /\ {"atoms", "structural", "ok"} \subseteq DOMAIN w
    BY DEF WorkOK
  <2>2. DOMAIN w.atoms = 1..Len(w.atoms)
    BY <2>1 DEF Copy, IsList
  <2>3. at \in 1..Len(w.atoms) /\ Good(d, named, x) /\ x.it.key \in named
    BY <1>3, <2>1, RequiredIsNamed
  <2>4. MoveSlide(w, o) = Place(v, x, anchored, after)
    BY <1>3, <2>1 DEF MoveSlide
  <2>5. anchored \in BOOLEAN /\ (anchored => after # Absent /\ Known(w, after))
    BY <1>3 DEF IsOp
  <2>6. PICK i \in 1..Len(w.atoms) : i # at /\ w.atoms[i].slide /\ (anchored => w.atoms[i].orig = after)
    <3>1. CASE anchored
      <4>1. Found(w, Require(w, after), after)
        BY <2>1, <2>5, <3>1, Required
      <4>2. Require(w, after) # at
        BY <1>3, <3>1
      <4> QED BY <4>1, <4>2 DEF Found
    <3>2. CASE ~anchored
      <4>1. First(SlidesOf(w)) \in 1..Len(w.atoms) /\ w.atoms[First(SlidesOf(w))].slide
        BY <2>1, FirstSlide
      <4>2. First(SlidesOf(w)) # at
        BY <1>3, <3>2
      <4> QED BY <3>2, <4>1, <4>2
    <3> QED BY <3>1, <3>2
  <2> HIDE DEF at, anchored, after, x
  <2>7. Copy(d, named, t) /\ (\A k \in 1..Len(w.atoms) : k = at \/ \E j \in 1..Len(t) : t[j] = w.atoms[k])
    <3>1. \E k \in 1..Len(w.atoms) : k # at /\ w.atoms[k].slide
      BY <2>6
    <3> QED BY <2>1, <2>3, <3>1, RemoveKeepsCopy DEF x
  <2>8. PICK j \in 1..Len(t) : t[j] = w.atoms[i]
    BY <2>6, <2>7
  <2> HIDE DEF t
  <2>9. DOMAIN v = DOMAIN w /\ v.atoms = t /\ v.ok = w.ok
    BY <2>1
  <2> HIDE DEF v
  <2>10. WorkOK(d, named, v) /\ v.ok
    BY <2>7, <2>9 DEF WorkOK
  <2>11. anchored => after # Absent /\ Known(v, after)
    <3>1. DOMAIN t = 1..Len(t)
      BY <2>7 DEF Copy, IsList
    <3>2. anchored => t[j].orig = after /\ j \in DOMAIN t
      BY <2>6, <2>8, <3>1
    <3> QED BY <2>5, <2>9, <3>2 DEF Known
  <2>12. WorkOK(d, named, Place(v, x, anchored, after))
    BY <2>3, <2>5, <2>10, <2>11, PlaceKeeps
  <2> QED BY <2>4, <2>12
<1> QED BY <1>1, <1>2, <1>3

(* Every operation keeps the working copy as it should be. *)
LEMMA ApplyKeeps ==
  ASSUME NEW d, NEW named, NEW w, WorkOK(d, named, w), NEW o, IsOp(o), Names(d, named, o)
  PROVE  WorkOK(d, named, Apply(w, o))
<1>1. CASE ~w.ok
  BY <1>1 DEF Apply
<1>2. CASE w.ok
  <2>1. CASE o.op = "set_text"
    <3>1. Apply(w, o) = SetText(w, o)
      BY <1>2, <2>1 DEF Apply
    <3> QED BY <1>2, <2>1, <3>1, SetTextKeeps
  <2>2. CASE o.op = "replace_slide"
    <3>1. Apply(w, o) = ReplaceSlide(w, o)
      BY <1>2, <2>2 DEF Apply
    <3> QED BY <1>2, <2>2, <3>1, ReplaceSlideKeeps
  <2>3. CASE o.op = "insert_slide"
    <3>1. Apply(w, o) = InsertSlide(w, o)
      BY <1>2, <2>3 DEF Apply
    <3> QED BY <1>2, <2>3, <3>1, InsertSlideKeeps
  <2>4. CASE o.op = "delete_slide"
    <3>1. Apply(w, o) = DeleteSlide(w, o)
      BY <1>2, <2>4 DEF Apply
    <3> QED BY <1>2, <2>4, <3>1, DeleteSlideKeeps
  <2>5. CASE o.op = "move_slide"
    <3>1. Apply(w, o) = MoveSlide(w, o)
      BY <1>2, <2>5 DEF Apply
    <3> QED BY <1>2, <2>5, <3>1, MoveSlideKeeps
  <2> QED BY <2>1, <2>2, <2>3, <2>4, <2>5 DEF IsOp
<1> QED BY <1>1, <1>2 DEF WorkOK

(* The working copy a patch begins with. *)
Start(d, ops) == IF SlideAtoms(d) = {} /\ ops # <<>> THEN Failed(Working(d)) ELSE Working(d)

LEMMA WorkingOK ==
  ASSUME NEW d, IsDeck(d), SlideAtoms(d) # {}, NEW named
  PROVE  WorkOK(d, named, Working(d))
<1> DEFINE piece(i) == [it |-> d.atoms[i], orig |-> IF IsSlide(d, i) THEN SlideId(d, i) ELSE Absent, slide |-> IsSlide(d, i), touched |-> FALSE]
           s == [i \in Positions(d) |-> piece(i)]
           n == Len(d.atoms)
<1>1. Working(d) = [atoms |-> s, structural |-> FALSE, ok |-> TRUE]
  BY DEF Working
<1>2. n \in Nat /\ Positions(d) = 1..n
  BY DEF IsDeck, Positions
<1>3. \A i \in Positions(d) : IsAtom(d.atoms[i])
  BY DEF IsDeck
<1>4. ASSUME NEW i \in Positions(d) PROVE Good(d, named, piece(i))
  <2> DEFINE p == piece(i)
             id == IF IsSlide(d, i) THEN SlideId(d, i) ELSE Absent
  <2>1. /\ p.it = d.atoms[i] /\ p.orig = id /\ p.slide = IsSlide(d, i) /\ p.touched = FALSE
        /\ {"it", "orig", "slide", "touched"} \subseteq DOMAIN p
    OBVIOUS
  <2> HIDE DEF p
  <2>2. IsAtom(p.it) /\ p.slide \in BOOLEAN
    BY <1>3, <2>1 DEF IsSlide, IsAtom
  <2>3. /\ p.slide => p.it.slide
        /\ p.slide /\ Marked(d) => p.it.typed
        /\ p.it.slide /\ ~p.slide => Marked(d) /\ ~p.it.typed
    BY <2>1 DEF IsSlide, Marked
  <2>4. p.orig # Absent => p.slide /\ i \in SlideAtoms(d) /\ SlideId(d, i) = p.orig
    BY <2>1 DEF SlideAtoms
  <2>5. Plain(d) => ~HasReference(p.it.images)
    BY <2>1 DEF Plain
  <2>6. Good(d, named, p)
    BY <2>1, <2>2, <2>3, <2>4, <2>5 DEF Good
  <2> QED BY <2>6 DEF p
<1>5. IsList(s) /\ Len(s) = n /\ DOMAIN s = 1..n
  <2> DEFINE T == {piece(i) : i \in 1..n}
  <2>1. s \in [1..n -> T]
    BY <1>2
  <2> HIDE DEF s, T, n
  <2>2. s \in Seq(T) /\ Len(s) = n
    BY <1>2, <2>1, FunctionIsList
  <2> QED BY <2>1, <2>2, Listed
<1>6. \A i \in 1..n : s[i] = piece(i) /\ s[i].it = d.atoms[i] /\ s[i].slide = IsSlide(d, i)
  BY <1>2
<1>7. \A i \in 1..n : Good(d, named, s[i])
  <2> HIDE DEF piece, s, n
  <2> QED BY <1>2, <1>4, <1>6
<1>8. \E i \in 1..n : s[i].slide
  <2>1. PICK i \in 1..n : IsSlide(d, i)
    BY <1>2 DEF SlideAtoms
  <2> HIDE DEF s, n, piece
  <2> QED BY <1>6, <2>1
<1>9. RestOf(s, named) = Rest(d, named)
  <2> DEFINE O == {i \in Positions(d) : d.atoms[i].key \notin named}
  <2>1. Others(s, named) = O /\ \A i \in O : s[i].it = d.atoms[i]
    <3> HIDE DEF s, n, piece
    <3> QED BY <1>2, <1>5, <1>6 DEF Others
  <2>2. Rest(d, named) = {<<RankIn(O, i), Content(d.atoms[i])>> : i \in O}
    BY DEF Rest, RankIn
  <2>3. RestOf(s, named) = {<<RankIn(O, i), Content(s[i].it)>> : i \in O}
    BY <2>1 DEF RestOf
  <2> HIDE DEF O, s
  <2> QED BY <2>1, <2>2, <2>3
<1>10. Copy(d, named, s)
  <2> HIDE DEF s, n
  <2> QED BY <1>5, <1>7, <1>8, <1>9 DEF Copy
<1> HIDE DEF s
<1> QED BY <1>1, <1>10 DEF WorkOK

(* f has the working copies after each of the first m operations. *)
Follow(f, d, ops, m) ==
  f = [n \in 0..m |-> f[n]] /\ f[0] = Start(d, ops) /\ \A n \in 1..m : f[n] = Apply(f[n - 1], ops[n])

(* The recursive function of Worked exists, and is what it says. *)
LEMMA WorkedFollows ==
  ASSUME NEW d, NEW ops, Len(ops) \in Nat
  PROVE  \E f : Follow(f, d, ops, Len(ops)) /\ Worked(d, ops) = f[Len(ops)]
<1> DEFINE k == Len(ops)
           Def(f) == [n \in 0..k |-> IF n > 0 THEN Apply(f[n - 1], ops[n])
                                     ELSE IF SlideAtoms(d) = {} /\ ops # <<>> THEN Failed(Working(d)) ELSE Working(d)]
           T == {m \in 0..k : \E f : Follow(f, d, ops, m)}
<1>1. 0 \in T
  <2> DEFINE f == [n \in 0..0 |-> Start(d, ops)]
  <2>1. f = [n \in 0..0 |-> f[n]] /\ f[0] = Start(d, ops)
    OBVIOUS
  <2> HIDE DEF f
  <2>2. Follow(f, d, ops, 0)
    BY <2>1 DEF Follow
  <2> QED BY <2>2
<1>2. ASSUME NEW m \in 1..k, m - 1 \in T PROVE m \in T
  <2>1. PICK f : Follow(f, d, ops, m - 1)
    BY <1>2
  <2> DEFINE g == [n \in 0..m |-> IF n = m THEN Apply(f[m - 1], ops[m]) ELSE f[n]]
  <2>2. g = [n \in 0..m |-> g[n]] /\ g[0] = f[0]
    OBVIOUS
  <2>3. g[m] = Apply(f[m - 1], ops[m]) /\ \A n \in 0..(m - 1) : g[n] = f[n]
    OBVIOUS
  <2> HIDE DEF g
  <2>4. ASSUME NEW n \in 1..m PROVE g[n] = Apply(g[n - 1], ops[n])
    <3>1. CASE n = m
      <4>1. m - 1 \in 0..(m - 1)
        OBVIOUS
      <4> QED BY <2>3, <3>1, <4>1
    <3>2. CASE n # m
      <4>1. n \in 1..(m - 1) /\ n - 1 \in 0..(m - 1) /\ n \in 0..(m - 1)
        BY <3>2
      <4>2. f[n] = Apply(f[n - 1], ops[n])
        BY <2>1, <4>1 DEF Follow
      <4> QED BY <2>3, <4>1, <4>2
    <3> QED BY <3>1, <3>2
  <2>5. Follow(g, d, ops, m)
    BY <2>1, <2>2, <2>4 DEF Follow
  <2> QED BY <2>5
<1> HIDE DEF T
<1>3. k \in T
  <2>1. k \in Nat
    OBVIOUS
  <2> HIDE DEF k
  <2>2. 0..k \subseteq T
    BY <1>1, <1>2, <2>1, UpTo
  <2> QED BY <2>1, <2>2
<1>4. PICK f : Follow(f, d, ops, k)
  BY <1>3 DEF T
<1>5. f = Def(f)
  <2> DEFINE g == Def(f)
  <2>1. g = [n \in 0..k |-> g[n]]
    OBVIOUS
  <2>2. ASSUME NEW n \in 0..k PROVE f[n] = g[n]
    <3>1. CASE n > 0
      <4>1. n \in 1..k
        BY <3>1
      <4>2. g[n] = Apply(f[n - 1], ops[n])
        BY <3>1
      <4> QED BY <1>4, <4>1, <4>2 DEF Follow
    <3>2. CASE ~(n > 0)
      <4>1. n = 0
        BY <3>2
      <4>2. g[0] = Start(d, ops)
        BY DEF Start
      <4> QED BY <1>4, <4>1, <4>2 DEF Follow
    <3> QED BY <3>1, <3>2
  <2> HIDE DEF g
  <2>3. f = [n \in 0..k |-> f[n]]
    BY <1>4 DEF Follow
  <2>4. f = g
    BY <2>1, <2>2, <2>3
  <2> QED BY <2>4 DEF g
<1> DEFINE after == CHOOSE f2 : f2 = Def(f2)
<1>6. Worked(d, ops) = after[k]
  BY DEF Worked
<1>7. after = Def(after)
  BY <1>5
<1> HIDE DEF after
<1>8. after = [n \in 0..k |-> after[n]]
  BY <1>7
<1>9. after[0] = Start(d, ops)
  BY <1>7 DEF Start
<1>10. ASSUME NEW n \in 1..k PROVE after[n] = Apply(after[n - 1], ops[n])
  <2>1. n \in 0..k /\ n > 0
    OBVIOUS
  <2> QED BY <1>7, <2>1
<1>11. Follow(after, d, ops, k)
  <2> HIDE DEF k
  <2> QED BY <1>8, <1>9, <1>10 DEF Follow
<1> QED BY <1>6, <1>11

(* So is what it leads to. *)
LEMMA WorkedOK ==
  ASSUME NEW d, IsDeck(d), NEW ops, Len(ops) \in Nat, ops # <<>>, NEW named,
         \A n \in 1..Len(ops) : IsOp(ops[n]) /\ Names(d, named, ops[n])
  PROVE  WorkOK(d, named, Worked(d, ops))
<1> DEFINE k == Len(ops)
<1>1. PICK f : Follow(f, d, ops, k) /\ Worked(d, ops) = f[k]
  BY WorkedFollows
<1>2. WorkOK(d, named, f[0])
  <2>1. CASE SlideAtoms(d) = {}
    <3>1. f[0] = Failed(Working(d))
      BY <1>1, <2>1 DEF Follow, Start
    <3>2. {"atoms", "structural", "ok"} \subseteq DOMAIN Failed(Working(d)) /\ Failed(Working(d)).ok = FALSE
      BY DEF Failed, Working
    <3> QED BY <3>1, <3>2 DEF WorkOK
  <2>2. CASE SlideAtoms(d) # {}
    <3>1. f[0] = Working(d)
      BY <1>1, <2>2 DEF Follow, Start
    <3> QED BY <2>2, <3>1, WorkingOK
  <2> QED BY <2>1, <2>2
<1> DEFINE T == {n \in 0..k : WorkOK(d, named, f[n])}
<1>3. 0 \in T
  BY <1>2
<1>4. ASSUME NEW n \in 1..k, n - 1 \in T PROVE n \in T
  <2>1. f[n] = Apply(f[n - 1], ops[n]) /\ WorkOK(d, named, f[n - 1])
    BY <1>1, <1>4 DEF Follow
  <2>2. WorkOK(d, named, f[n])
    BY <2>1, ApplyKeeps
  <2> QED BY <2>2
<1> HIDE DEF T
<1>5. k \in T
  <2>1. k \in Nat
    OBVIOUS
  <2> HIDE DEF k
  <2>2. 0..k \subseteq T
    BY <1>3, <1>4, <2>1, UpTo
  <2> QED BY <2>1, <2>2
<1> QED BY <1>1, <1>5 DEF T

-----------------------------------------------------------------------------
(* What a patch leaves *)

Text(d, w) == [d EXCEPT !.atoms = [i \in DOMAIN w.atoms |-> w.atoms[i].it]]

Holds(text, s) ==
  /\ {"kind", "charter", "atoms", "total", "names"} \subseteq DOMAIN text
  /\ Len(s) \in Nat /\ Len(text.atoms) = Len(s)
  /\ DOMAIN s = 1..Len(s) /\ DOMAIN text.atoms = 1..Len(s)
  /\ \A i \in 1..Len(s) : text.atoms[i] = s[i].it

(* The text has the pieces of the working copy. *)
LEMMA TextPieces ==
  ASSUME NEW d, IsDeck(d), NEW named, NEW w, Copy(d, named, w.atoms)
  PROVE  Holds(Text(d, w), w.atoms)
<1> DEFINE n == Len(w.atoms)
           a == [i \in DOMAIN w.atoms |-> w.atoms[i].it]
           T == {w.atoms[i].it : i \in 1..n}
<1>1. DOMAIN w.atoms = 1..n /\ n \in Nat
  BY DEF Copy, IsList
<1>2. DOMAIN Text(d, w) = DOMAIN d /\ Text(d, w).atoms = a
  BY DEF Text, IsDeck
<1>3. a \in [1..n -> T] /\ \A i \in 1..n : a[i] = w.atoms[i].it
  BY <1>1
<1> HIDE DEF a, T, n
<1>4. Len(a) = n /\ DOMAIN a = 1..n
  BY <1>1, <1>3, FunctionIsList
<1>5. {"kind", "charter", "atoms", "total", "names"} \subseteq DOMAIN Text(d, w)
  BY <1>2 DEF IsDeck
<1>6. \A i \in 1..n : Text(d, w).atoms[i] = w.atoms[i].it
  BY <1>2, <1>3
<1> QED BY <1>1, <1>2, <1>4, <1>5, <1>6 DEF n, Holds

(* Whatever is found as a slide in the text was one in the working copy, *)
(* and all of those are found where either all slides are marked or none. *)
LEMMA TextSlides ==
  ASSUME NEW d, IsDeck(d), NEW named, NEW w, Copy(d, named, w.atoms)
  PROVE  /\ SlideAtoms(Text(d, w)) \subseteq SlidesOf(w)
         /\ Uniform(Text(d, w)) => SlideAtoms(Text(d, w)) = SlidesOf(w)
<1> DEFINE text == Text(d, w)
           n == Len(w.atoms)
<1>1. DOMAIN w.atoms = 1..n /\ Positions(text) = 1..n /\ \A i \in 1..n : text.atoms[i] = w.atoms[i].it
  <2>1. Holds(Text(d, w), w.atoms)
    BY TextPieces
  <2> QED BY <2>1 DEF Positions, Holds
<1>2. \A i \in 1..n : Good(d, named, w.atoms[i])
  BY DEF Copy
<1>3. PICK k \in 1..n : w.atoms[k].slide
  BY DEF Copy
<1> HIDE DEF text, n
<1>4. ASSUME NEW i \in SlideAtoms(text) PROVE i \in SlidesOf(w)
  <2>1. i \in 1..n /\ IsSlide(text, i)
    BY <1>1, <1>4 DEF SlideAtoms
  <2>2. SUFFICES ASSUME ~w.atoms[i].slide PROVE FALSE
    BY <1>1, <2>1 DEF SlidesOf
  <2>3. Marked(d) /\ ~text.atoms[i].typed
    BY <1>1, <1>2, <2>1, <2>2 DEF Good, IsSlide
  <2>4. ~text.atoms[k].typed /\ text.atoms[k].slide
    BY <1>1, <1>2, <1>3, <2>1, <2>3 DEF Good, IsSlide
  <2> QED BY <1>1, <1>2, <1>3, <2>3, <2>4 DEF Good
<1>5. ASSUME Uniform(text), NEW i \in SlidesOf(w) PROVE i \in SlideAtoms(text)
  <2>1. i \in 1..n /\ w.atoms[i].slide
    BY <1>1 DEF SlidesOf
  <2>2. text.atoms[i].slide
    BY <1>1, <1>2, <2>1 DEF Good
  <2>3. text.atoms[i].typed \/ \A j \in Positions(text) : text.atoms[j].slide => ~text.atoms[j].typed
    BY <1>1, <1>5, <2>1, <2>2 DEF Uniform
  <2> QED BY <1>1, <2>1, <2>2, <2>3 DEF SlideAtoms, IsSlide
<1> QED BY <1>4, <1>5 DEF text

(* Outside what is named nothing has changed. *)
LEMMA TextRest ==
  ASSUME NEW d, IsDeck(d), NEW named, NEW w, Copy(d, named, w.atoms)
  PROVE  Rest(Text(d, w), named) = Rest(d, named)
<1> DEFINE text == Text(d, w)
           n == Len(w.atoms)
           O == Others(w.atoms, named)
<1>1. Positions(text) = 1..n /\ \A i \in 1..n : text.atoms[i] = w.atoms[i].it
  <2>1. Holds(Text(d, w), w.atoms)
    BY TextPieces
  <2> QED BY <2>1 DEF Positions, Holds
<1> HIDE DEF text
<1>2. {i \in Positions(text) : text.atoms[i].key \notin named} = O /\ \A i \in O : text.atoms[i] = w.atoms[i].it
  BY <1>1 DEF Others
<1> HIDE DEF O
<1>3. Rest(text, named) = {<<RankIn(O, i), Content(text.atoms[i])>> : i \in O}
  BY <1>2 DEF Rest, RankIn
<1>4. RestOf(w.atoms, named) = {<<RankIn(O, i), Content(w.atoms[i].it)>> : i \in O}
  BY DEF RestOf, O
<1>5. Rest(text, named) = RestOf(w.atoms, named)
  BY <1>2, <1>3, <1>4
<1> QED BY <1>5 DEF Copy, text

(* Slides of a working copy can be counted. *)
LEMMA CountedSlides ==
  ASSUME NEW d, NEW named, NEW w, Copy(d, named, w.atoms)
  PROVE  IsFiniteSet(SlidesOf(w)) /\ SlidesOf(w) \subseteq 1..Len(w.atoms) /\ SlidesOf(w) # {}
<1>1. DOMAIN w.atoms = 1..Len(w.atoms) /\ Len(w.atoms) \in Nat
  BY DEF Copy, IsList
<1>2. SlidesOf(w) \subseteq 1..Len(w.atoms) /\ SlidesOf(w) # {}
  BY <1>1 DEF SlidesOf, Copy
<1>3. IsFiniteSet(1..Len(w.atoms))
  BY <1>1, FS_Interval
<1> QED BY <1>2, <1>3, FS_Subset

(* The text is a file again. *)
LEMMA TextIsDeck ==
  ASSUME NEW d, IsDeck(d), NEW named, NEW w, Copy(d, named, w.atoms), Cardinality(SlidesOf(w)) <= Len(SlideNames)
  PROVE  IsDeck(Text(d, w)) /\ (Plain(d) => Plain(Text(d, w)))
<1> DEFINE text == Text(d, w)
           n == Len(w.atoms)
<1>1. /\ {"kind", "charter", "atoms", "total", "names"} \subseteq DOMAIN text
      /\ n \in Nat /\ Len(text.atoms) = n /\ DOMAIN text.atoms = 1..n
      /\ \A i \in 1..n : text.atoms[i] = w.atoms[i].it
  <2>1. Holds(Text(d, w), w.atoms)
    BY TextPieces
  <2> QED BY <2>1 DEF Holds
<1>2. \A i \in 1..n : IsAtom(w.atoms[i].it) /\ (Plain(d) => ~HasReference(w.atoms[i].it.images))
  BY DEF Copy, Good
<1>3. Count(text) <= Len(SlideNames)
  <2>1. SlideAtoms(text) \in SUBSET SlidesOf(w) /\ IsFiniteSet(SlidesOf(w))
    BY TextSlides, CountedSlides
  <2>2. Cardinality(SlideAtoms(text)) <= Cardinality(SlidesOf(w))
    BY <2>1, FS_Subset
  <2>3. Cardinality(SlidesOf(w)) \in Nat /\ Cardinality(SlideAtoms(text)) \in Nat /\ Len(SlideNames) \in Nat
    BY <2>1, FS_Subset, FS_CardinalityType, DeckAssumption
  <2> HIDE DEF text
  <2> QED BY <2>2, <2>3 DEF Count
<1> HIDE DEF text, n
<1>4. IsDeck(text)
  BY <1>1, <1>2, <1>3 DEF IsDeck, Positions
<1>5. Plain(d) => Plain(text)
  BY <1>1, <1>2 DEF Plain, Positions
<1> QED BY <1>4, <1>5 DEF text

(* Renumbering keeps files files, and what it does not write. *)
SameContent(r, d) ==
  /\ SlideAtoms(r) = SlideAtoms(d) /\ Count(r) = Count(d) /\ Positions(r) = Positions(d)
  /\ \A i \in Positions(d) : Content(r.atoms[i]) = Content(d.atoms[i]) /\ r.atoms[i].key = d.atoms[i].key

LEMMA RenumberKeepsDecks ==
  ASSUME NEW d, IsDeck(d)
  PROVE  /\ IsDeck(Renumber(d)) /\ (Plain(d) => Plain(Renumber(d)))
         /\ SameContent(Renumber(d), d)
<1>1. CASE Count(d) = 0
  BY <1>1 DEF Renumber, SameContent
<1>2. CASE Count(d) # 0
  <2> DEFINE r == Renumber(d)
             n == Len(d.atoms)
             T == {r.atoms[i] : i \in 1..n}
  <2>1. Positions(r) = Positions(d) /\ SlideAtoms(r) = SlideAtoms(d) /\ Count(r) = Count(d)
    BY <1>2, SameSlides
  <2>2. /\ \A i \in Positions(d) :
             /\ DOMAIN r.atoms[i] = DOMAIN d.atoms[i]
             /\ \A f \in DOMAIN d.atoms[i] \ {"id", "eyebrow", "footer", "page"} : r.atoms[i][f] = d.atoms[i][f]
    BY RenumberKeepsTheRest
  <2>3. n \in Nat /\ Positions(d) = 1..n
    BY DEF IsDeck, Positions
  <2>4. DOMAIN r = DOMAIN d
    BY <1>2 DEF Renumber
  <2>5. r.atoms = [i \in Positions(d) |-> r.atoms[i]]
    <3>1. r.atoms = [i \in Positions(d) |->
                   IF IsSlide(d, i) THEN RenumberSlide(d.atoms[i], Rank(d, i), Count(d), IsCarbon(d)) ELSE d.atoms[i]]
      BY <1>2, RenumberedPieces
    <3> HIDE DEF r
    <3> QED BY <3>1
  <2> HIDE DEF r
  <2>6. Len(r.atoms) = n
    <3>1. r.atoms \in [1..n -> T]
      BY <2>3, <2>5
    <3> HIDE DEF T, n
    <3> QED BY <2>3, <3>1, FunctionIsList
  <2>7. ASSUME NEW i \in Positions(d)
        PROVE  /\ IsAtom(r.atoms[i]) /\ Content(r.atoms[i]) = Content(d.atoms[i]) /\ r.atoms[i].key = d.atoms[i].key
               /\ r.atoms[i].images = d.atoms[i].images
    <3> DEFINE a == d.atoms[i]
               b == r.atoms[i]
    <3>1. IsAtom(a)
      BY DEF IsDeck
    <3>2. DOMAIN b = DOMAIN a /\ \A f \in DOMAIN a \ {"id", "eyebrow", "footer", "page"} : b[f] = a[f]
      BY <2>2
    <3> HIDE DEF a, b
    <3>3. b.slide = a.slide /\ b.typed = a.typed /\ b.key = a.key /\ b.images = a.images /\ b.text = a.text /\ b.title = a.title
      BY <3>1, <3>2 DEF IsAtom, Fields
    <3>4. IsAtom(b)
      BY <3>1, <3>2, <3>3 DEF IsAtom
    <3>5. Content(b) = Content(a)
      BY <3>3 DEF Content
    <3> QED BY <3>3, <3>4, <3>5 DEF a, b
  <2>8. IsDeck(r)
    <3>1. DOMAIN r.atoms = 1..n
      BY <2>1, <2>3 DEF Positions
    <3> QED BY <2>1, <2>3, <2>4, <2>6, <2>7, <3>1 DEF IsDeck
  <2>9. Plain(d) => Plain(r)
    BY <2>1, <2>7 DEF Plain
  <2>10. SameContent(r, d)
    BY <2>1, <2>7 DEF SameContent
  <2> QED BY <2>8, <2>9, <2>10 DEF r
<1> QED BY <1>1, <1>2

(* So what is left of a renumbered file is the same. *)
LEMMA RenumberKeepsRest ==
  ASSUME NEW d, IsDeck(d), NEW keys
  PROVE  Rest(Renumber(d), keys) = Rest(d, keys)
<1> DEFINE r == Renumber(d)
           O == {i \in Positions(d) : d.atoms[i].key \notin keys}
<1>1. /\ Positions(r) = Positions(d)
      /\ \A i \in Positions(d) : Content(r.atoms[i]) = Content(d.atoms[i]) /\ r.atoms[i].key = d.atoms[i].key
  BY RenumberKeepsDecks DEF SameContent
<1> HIDE DEF r
<1>2. {i \in Positions(r) : r.atoms[i].key \notin keys} = O /\ \A i \in O : Content(r.atoms[i]) = Content(d.atoms[i])
  BY <1>1
<1>3. Rest(r, keys) = {<<RankIn(O, i), Content(r.atoms[i])>> : i \in O}
  BY <1>2 DEF Rest, RankIn
<1>4. Rest(d, keys) = {<<RankIn(O, i), Content(d.atoms[i])>> : i \in O}
  BY DEF Rest, RankIn
<1> HIDE DEF O
<1> QED BY <1>2, <1>3, <1>4 DEF r

-----------------------------------------------------------------------------
(* A patch and a read keep the file a file *)

IsPatch(ops) == Len(ops) \in Nat /\ DOMAIN ops = 1..Len(ops) /\ ops # <<>> /\ \A n \in 1..Len(ops) : IsOp(ops[n])

NamesAll(d, named, ops) == \A n \in 1..Len(ops) : Names(d, named, ops[n])

(* What is written where all operations succeeded is a file, the same outside what they name. *)
LEMMA AssembledIsDeck ==
  ASSUME NEW d, IsDeck(d), NEW ops, IsPatch(ops), NEW named, NamesAll(d, named, ops),
         NEW w, w = Worked(d, ops), w.ok, Cardinality(SlidesOf(w)) <= MaxSlides
  PROVE  /\ Copy(d, named, w.atoms)
         /\ IsDeck(Text(d, w)) /\ IsDeck(Assembled(d, w))
         /\ Plain(d) => Plain(Assembled(d, w))
         /\ Rest(Assembled(d, w), named) = Rest(d, named)
<1>1. WorkOK(d, named, w)
  <2>1. \A n \in 1..Len(ops) : IsOp(ops[n]) /\ Names(d, named, ops[n])
    BY DEF IsPatch, NamesAll
  <2>2. Len(ops) \in Nat /\ ops # <<>>
    BY DEF IsPatch
  <2>3. WorkOK(d, named, Worked(d, ops))
    BY <2>1, <2>2, WorkedOK, Zenon
  <2> QED BY <2>3
<1>2. Copy(d, named, w.atoms)
  BY <1>1 DEF WorkOK
<1>3. Cardinality(SlidesOf(w)) <= Len(SlideNames)
  <2>1. IsFiniteSet(SlidesOf(w))
    BY <1>2, CountedSlides
  <2>2. Cardinality(SlidesOf(w)) \in Nat /\ MaxSlides \in Nat /\ MaxSlides <= Len(SlideNames) /\ Len(SlideNames) \in Nat
    BY <2>1, FS_CardinalityType, PatchAssumption, DeckAssumption
  <2> QED BY <2>2
<1> DEFINE text == Text(d, w)
<1>4. IsDeck(text) /\ (Plain(d) => Plain(text))
  BY <1>2, <1>3, TextIsDeck
<1>5. Rest(text, named) = Rest(d, named)
  BY <1>2, TextRest
<1>6. Assembled(d, w) = IF w.structural THEN Renumber(text) ELSE text
  BY DEF Assembled, Text
<1> HIDE DEF text
<1>7. IsDeck(Renumber(text)) /\ (Plain(text) => Plain(Renumber(text)))
  BY <1>4, RenumberKeepsDecks
<1>8. Rest(Renumber(text), named) = Rest(text, named)
  BY <1>4, RenumberKeepsRest
<1>9. IsDeck(Assembled(d, w)) /\ (Plain(d) => Plain(Assembled(d, w))) /\ Rest(Assembled(d, w), named) = Rest(d, named)
  BY <1>4, <1>5, <1>6, <1>7, <1>8
<1> QED BY <1>2, <1>4, <1>9 DEF text

(* The inductive invariant of the deck: it is a file, and what was read is one of its slides as *)
(* get_slide shows it.                                                                          *)
DeckInv ==
  /\ IsDeck(deck)
  /\ done \in 0..MaxOps
  /\ read.key # Absent => /\ IsAtom(read.was) /\ read.was.slide
                          /\ read.text = [read.was EXCEPT !.images = Hide(@)]

Images == Seq({"large", "small", "ref"} \X Nat)

(* References are numbers. *)
LEMMA References ==
  ASSUME NEW images \in Images, NEW i \in Nat
  PROVE  IsFiniteSet(LargeUpTo(images, i)) /\ Reference(images, i) \in Nat
<1>1. IsFiniteSet(1..i) /\ LargeUpTo(images, i) \subseteq 1..i
  BY FS_Interval DEF LargeUpTo
<1>2. IsFiniteSet(LargeUpTo(images, i))
  BY <1>1, FS_Subset
<1> QED BY <1>2, FS_CardinalityType DEF Reference

LEMMA HiddenImages ==
  ASSUME NEW images \in Images
  PROVE  /\ Hide(images) \in Images
         /\ DOMAIN Hide(images) = DOMAIN images /\ DOMAIN images = 1..Len(images) /\ Len(images) \in Nat
<1> DEFINE n == Len(images)
           T == {"large", "small", "ref"} \X Nat
           h(i) == IF images[i][1] = "large" THEN <<"ref", Reference(images, i)>> ELSE images[i]
           H == [i \in 1..n |-> h(i)]
<1>1. n \in Nat /\ DOMAIN images = 1..n /\ \A i \in 1..n : images[i] \in T
  BY DEF Images
<1>2. \A i \in 1..n : h(i) \in T
  BY <1>1, References
<1>3. Hide(images) = H
  BY <1>1 DEF Hide
<1> HIDE DEF T, n, h
<1>4. H \in [1..n -> T]
  BY <1>2
<1> HIDE DEF H
<1>5. H \in Seq(T) /\ DOMAIN H = 1..n
  BY <1>1, <1>4, FunctionIsList
<1> QED BY <1>1, <1>3, <1>5 DEF T, n, Images

Shown(atom) == [atom EXCEPT !.images = Hide(@)]

(* What get_slide gives is a slide. *)
LEMMA ReadIsAtom ==
  ASSUME NEW atom, IsAtom(atom), atom.slide
  PROVE  /\ IsAtom(Shown(atom)) /\ Shown(atom).slide
         /\ Shown(atom).images = Hide(atom.images) /\ Shown(atom).key = atom.key
         /\ Shown(atom).text = atom.text /\ Shown(atom).title = atom.title
<1> DEFINE h == Hide(atom.images)
           t == [atom EXCEPT !.images = h]
<1>1. atom.images \in Images
  BY DEF IsAtom, Images
<1>2. h \in Images
  BY <1>1, HiddenImages
<1> HIDE DEF h
<1>3. Fields \subseteq DOMAIN atom
  BY DEF IsAtom
<1>4. /\ DOMAIN t = DOMAIN atom /\ t.images = h /\ t.slide = atom.slide /\ t.typed = atom.typed /\ t.key = atom.key
      /\ t.text = atom.text /\ t.title = atom.title
  BY <1>3 DEF Fields
<1> HIDE DEF t
<1>5. IsAtom(t) /\ t.slide
  BY <1>2, <1>4 DEF IsAtom, Images
<1>6. Shown(atom) = t
  BY DEF Shown, t, h
<1> QED BY <1>4, <1>5, <1>6 DEF h

(* The operations of a patch are operations. *)
LEMMA OpsArePatch ==
  ASSUME DeckInv, NEW ops \in BoundedSeq(Operations, MaxOps - done) \ {<<>>}
  PROVE  IsPatch(ops) /\ Len(ops) \in 0..(MaxOps - done)
<1>1. \A o \in Operations : IsOp(o)
  <2>1. Absent \notin Ids /\ \A html \in Html : IsAtom(html) /\ html.slide
    BY PatchAssumption
  <2>2. \A html \in Html \cup {r.text : r \in {x \in {read} : x.key # Absent}} : IsAtom(html) /\ html.slide
    <3>1. read.key # Absent => IsAtom(read.text) /\ read.text.slide
      BY ReadIsAtom DEF DeckInv, Shown
    <3> QED BY <2>1, <3>1
  <2> SUFFICES ASSUME NEW o \in Operations PROVE IsOp(o)
    OBVIOUS
  <2>3. CASE o \in [op : {"set_text"}, id : Ids, selector : {"leaf", "root", "fails"}]
    BY <2>1, <2>3 DEF IsOp
  <2>4. CASE o \in [op : {"replace_slide"}, id : Ids, html : Html \cup {r.text : r \in {x \in {read} : x.key # Absent}}]
    BY <2>1, <2>2, <2>4 DEF IsOp
  <2>5. CASE o \in [op : {"insert_slide"}, after : Ids \cup {"start"}, html : Html]
    BY <2>1, <2>5 DEF IsOp
  <2>6. CASE o \in [op : {"delete_slide"}, id : Ids]
    BY <2>1, <2>6 DEF IsOp
  <2>7. CASE o \in [op : {"move_slide"}, id : Ids, after : Ids \cup {"start"}]
    BY <2>1, <2>7 DEF IsOp
  <2> QED BY <2>3, <2>4, <2>5, <2>6, <2>7 DEF Operations
<1>2. PICK m \in 0..(MaxOps - done) : ops \in [1..m -> Operations]
  BY DEF BoundedSeq, SeqOf
<1>3. m \in Nat
  OBVIOUS
<1>4. Len(ops) = m /\ DOMAIN ops = 1..m /\ \A n \in 1..m : ops[n] \in Operations
  <2>1. Len(ops) = m
    BY <1>2, <1>3, FunctionIsList
  <2> QED BY <1>2, <2>1
<1> QED BY <1>1, <1>2, <1>3, <1>4 DEF IsPatch

(* Every operation names what is in the deck or what it writes. *)
LEMMA AllAreNamed ==
  ASSUME NEW d, NEW ops, IsPatch(ops)
  PROVE  \E named : NamesAll(d, named, ops)
<1> DEFINE named == {d.atoms[i].key : i \in Positions(d)} \cup {ops[n].html.key : n \in 1..Len(ops)}
<1>1. NamesAll(d, named, ops)
  BY DEF NamesAll, Names, SlideAtoms
<1> QED BY <1>1

(* A patch keeps the file a file: what it writes is one. *)
LEMMA PatchKeeps ==
  ASSUME DeckInv, NEW ops \in BoundedSeq(Operations, MaxOps - done) \ {<<>>}, NEW dryRun \in BOOLEAN, Patch(ops, dryRun)
  PROVE  DeckInv'
<1> DEFINE w == Worked(deck, ops)
<1>1. IsPatch(ops) /\ Len(ops) \in 0..(MaxOps - done)
  BY OpsArePatch
<1>2. PICK named : NamesAll(deck, named, ops)
  BY <1>1, AllAreNamed
<1>3. IsDeck(deck')
  <2>1. CASE w.ok
    <3>1. deck' = deck \/ deck' = Assembled(deck, w)
      BY <2>1 DEF Patch
    <3>2. Cardinality(SlidesOf(w)) <= MaxSlides
      BY DEF Patch
    <3>3. IsDeck(deck)
      BY DEF DeckInv
    <3> HIDE DEF w
    <3>4. IsDeck(Assembled(deck, w))
      BY <1>1, <1>2, <2>1, <3>2, <3>3, AssembledIsDeck DEF w
    <3> QED BY <3>1, <3>3, <3>4
  <2>2. CASE ~w.ok
    BY <2>2 DEF Patch, DeckInv
  <2> QED BY <2>1, <2>2
<1>4. done' \in 0..MaxOps
  <2>1. done' = done + Len(ops) /\ done \in 0..MaxOps /\ MaxOps \in Nat
    BY PatchAssumption DEF Patch, DeckInv
  <2> QED BY <1>1, <2>1
<1>5. read' = read
  BY DEF Patch
<1> QED BY <1>3, <1>4, <1>5 DEF DeckInv

(* So does a read. *)
LEMMA GetSlideKeeps ==
  ASSUME DeckInv, NEW id \in Ids, GetSlide(id)
  PROVE  DeckInv' /\ \E i \in SlideAtoms(deck) : read'.was = deck.atoms[i] /\ read'.key = deck.atoms[i].key
<1> DEFINE T == {i \in SlideAtoms(deck) : SlideId(deck, i) = id}
           i == First(T)
           slide == deck.atoms[i]
<1>1. read' = [key |-> slide.key, id |-> id, was |-> slide, text |-> [slide EXCEPT !.images = Hide(@)]]
  BY DEF GetSlide
<1>2. T \in SUBSET Nat /\ T # {}
  BY DEF GetSlide, DeckInv, IsDeck, SlideAtoms, Positions
<1> HIDE DEF T
<1>3. i \in T
  BY <1>2, FirstOf
<1> HIDE DEF i
<1>4. i \in SlideAtoms(deck) /\ IsAtom(slide) /\ slide.slide
  BY <1>3 DEF T, DeckInv, IsDeck, SlideAtoms, IsSlide
<1> HIDE DEF slide
<1>5. /\ IsAtom(read'.was) /\ read'.was.slide
      /\ read'.text = [read'.was EXCEPT !.images = Hide(@)]
  BY <1>1, <1>4
<1>6. UNCHANGED <<deck, done>>
  BY DEF GetSlide
<1> QED BY <1>1, <1>4, <1>5, <1>6 DEF DeckInv, slide

(* The file stays one, with no more slides than there are names for them, and what was read *)
(* stays what get_slide makes of a slide.                                                     *)
THEOREM DeckIsKept == DeckSpec => []DeckInv
<1>1. DeckInit => DeckInv
  BY PatchAssumption DEF DeckInit, DeckInv, NotRead
<1>2. DeckInv /\ [DeckNext]_deckVars => DeckInv'
  <2> SUFFICES ASSUME DeckInv, [DeckNext]_deckVars PROVE DeckInv'
    OBVIOUS
  <2>1. CASE \E ops \in BoundedSeq(Operations, MaxOps - done) \ {<<>>}, dryRun \in BOOLEAN : Patch(ops, dryRun)
    BY <2>1, PatchKeeps
  <2>2. CASE \E id \in Ids : GetSlide(id)
    BY <2>2, GetSlideKeeps
  <2>3. CASE UNCHANGED deckVars
    BY <2>3 DEF deckVars, DeckInv
  <2> QED BY <2>1, <2>2, <2>3 DEF DeckNext
<1> QED BY <1>1, <1>2, PTL DEF DeckSpec

(* The keys of the slides the operations name and of those they write. *)
NamedKeys(d, ops) ==
  {d.atoms[i].key : i \in NamedIn(d, ops)}
    \cup {o.html.key : o \in {x \in ToSet(ops) : x.op \in {"insert_slide", "replace_slide"}}}

(* Where no two slides have the same id, the first with an id is the one. *)
LEMMA NamedByDistinctIds ==
  ASSUME NEW d, IsDeck(d), DistinctIds(d), NEW ops, IsPatch(ops)
  PROVE  NamesAll(d, NamedKeys(d, ops), ops)
<1> SUFFICES ASSUME NEW n \in 1..Len(ops) PROVE Names(d, NamedKeys(d, ops), ops[n])
  BY DEF NamesAll
<1> DEFINE o == ops[n]
<1>1. o \in ToSet(ops)
  BY DEF IsPatch, ToSet
<1> HIDE DEF o
<1>2. ASSUME o.op # "insert_slide", NEW i \in SlideAtoms(d), SlideId(d, i) = o.id
      PROVE  d.atoms[i].key \in NamedKeys(d, ops)
  <2> DEFINE T == {j \in SlideAtoms(d) : SlideId(d, j) = o.id}
  <2>1. T \in SUBSET Nat /\ i \in T
    BY <1>2 DEF IsDeck, SlideAtoms, Positions
  <2> HIDE DEF T
  <2>2. First(T) \in T
    BY <2>1, FirstOf
  <2>3. First(T) = i
    BY <1>2, <2>2 DEF T, DistinctIds
  <2>4. o.id \in {x.id : x \in {y \in ToSet(ops) : y.op # "insert_slide"}} \cap {SlideId(d, j) : j \in SlideAtoms(d)}
    BY <1>1, <1>2
  <2>5. First({j \in SlideAtoms(d) : SlideId(d, j) = o.id}) = i
    BY <2>3 DEF T
  <2>6. i \in NamedIn(d, ops)
    BY <2>4, <2>5 DEF NamedIn
  <2> QED BY <2>6 DEF NamedKeys
<1>3. o.op \in {"insert_slide", "replace_slide"} => o.html.key \in NamedKeys(d, ops)
  BY <1>1 DEF NamedKeys
<1> QED BY <1>2, <1>3 DEF Names, o

(* What a patch that is not a dry run does to the file, and what it answers. *)
LEMMA PatchCases ==
  ASSUME NEW ops, NEW dryRun \in BOOLEAN, Patch(ops, dryRun), lastPatch'.do = "patch", IsPatch(ops)
  PROVE  LET w == Worked(deck, ops)
         IN  /\ lastPatch'.ops = ops /\ lastPatch'.ok = w.ok /\ lastPatch'.structural = w.structural
             /\ lastPatch'.slides = Cardinality(SlidesOf(w))
             /\ Cardinality(SlidesOf(w)) <= MaxSlides
             /\ w.ok => deck' = Assembled(deck, w) /\ lastPatch'.problems = TouchedProblems(deck', w)
             /\ ~w.ok => deck' = deck
<1> DEFINE w == Worked(deck, ops)
           text == Assembled(deck, w)
<1>1. /\ Cardinality(SlidesOf(w)) <= MaxSlides
      /\ IF w.ok THEN deck' = (IF dryRun THEN deck ELSE text) /\ lastPatch' = [Done(ops, w, text) EXCEPT !.do = IF dryRun THEN "dry" ELSE @]
         ELSE UNCHANGED deck /\ lastPatch' = [Done(ops, w, deck) EXCEPT !.problems = {}]
  BY DEF Patch
<1> HIDE DEF w, text
<1>2. w.ok => ~dryRun
  BY <1>1 DEF Done
<1>3. lastPatch'.ops = ops /\ lastPatch'.ok = w.ok /\ lastPatch'.structural = w.structural /\ lastPatch'.slides = Cardinality(SlidesOf(w))
  BY <1>1 DEF Done
<1>4. w.ok => deck' = text /\ lastPatch'.problems = TouchedProblems(text, w)
  BY <1>1, <1>2 DEF Done
<1>5. ~w.ok => deck' = deck
  BY <1>1
<1> QED BY <1>1, <1>3, <1>4, <1>5 DEF w, text

(* A step that patches is one of Patch. *)
LEMMA PatchedByPatch ==
  ASSUME DeckInv, [DeckNext]_deckVars, Patched
  PROVE  \E ops \in BoundedSeq(Operations, MaxOps - done) \ {<<>>}, dryRun \in BOOLEAN : Patch(ops, dryRun)
<1>1. done' # done
  BY DEF Patched
<1>2. \A id \in Ids : GetSlide(id) => done' = done
  BY DEF GetSlide
<1> QED BY <1>1, <1>2 DEF DeckNext, deckVars

(* A patch changes the slides its operations name, by the ids they had before it, and nothing  *)
(* else, through any mixture of inserts, moves and deletes (_require_slide, apply_patch).       *)
THEOREM OthersAreKept == DeckSpec => OnlyNamedSlidesChange
<1>1. ASSUME DeckInv, [DeckNext]_deckVars, Patched, DistinctIds(deck)
      PROVE  Rest(deck', NamedKeys(deck, lastPatch'.ops)) = Rest(deck, NamedKeys(deck, lastPatch'.ops))
  <2>1. PICK ops \in BoundedSeq(Operations, MaxOps - done) \ {<<>>}, dryRun \in BOOLEAN : Patch(ops, dryRun)
    BY <1>1, PatchedByPatch
  <2>2. IsPatch(ops)
    BY <1>1, <2>1, OpsArePatch
  <2> DEFINE w == Worked(deck, ops)
             named == NamedKeys(deck, ops)
  <2>3. /\ lastPatch'.ops = ops /\ Cardinality(SlidesOf(w)) <= MaxSlides
        /\ w.ok => deck' = Assembled(deck, w)
        /\ ~w.ok => deck' = deck
    BY <1>1, <2>1, <2>2, PatchCases DEF Patched
  <2>4. IsDeck(deck) /\ NamesAll(deck, named, ops)
    BY <1>1, <2>2, NamedByDistinctIds DEF DeckInv
  <2> HIDE DEF w, named
  <2>5. w.ok => Rest(Assembled(deck, w), named) = Rest(deck, named)
    BY <2>2, <2>3, <2>4, AssembledIsDeck DEF w
  <2>6. Rest(deck', named) = Rest(deck, named)
    BY <2>3, <2>5
  <2> QED BY <2>3, <2>6 DEF named
<1>2. DeckInv /\ [DeckNext]_deckVars
        => [Patched /\ DistinctIds(deck) =>
              LET named == {deck.atoms[i].key : i \in NamedIn(deck, lastPatch'.ops)}
                             \cup {o.html.key : o \in {x \in ToSet(lastPatch'.ops) : x.op \in {"insert_slide", "replace_slide"}}}
              IN  Rest(deck', named) = Rest(deck, named)]_deckVars
  BY <1>1 DEF NamedKeys
<1> QED BY <1>2, DeckIsKept, PTL DEF DeckSpec, OnlyNamedSlidesChange

-----------------------------------------------------------------------------
(* What a structural patch leaves is numbered *)

(* For every number up to how many there are, there is a slide that has it. *)
LEMMA EveryRank ==
  ASSUME NEW d, IsDeck(d), NEW n \in 1..Count(d)
  PROVE  \E i \in SlideAtoms(d) : Rank(d, i) = n
<1> DEFINE S == SlideAtoms(d)
           T == 1..Count(d)
           f == [i \in S |-> Rank(d, i)]
<1>1. S \subseteq Nat /\ IsFiniteSet(S)
  <2>1. S \subseteq 1..Len(d.atoms) /\ Len(d.atoms) \in Nat
    BY DEF IsDeck, SlideAtoms, Positions
  <2>2. IsFiniteSet(1..Len(d.atoms))
    BY <2>1, FS_Interval
  <2> HIDE DEF S
  <2>3. IsFiniteSet(S)
    BY <2>1, <2>2, FS_Subset
  <2> QED BY <2>1, <2>3
<1>2. Count(d) \in Nat /\ Cardinality(S) = Count(d)
  BY Ranks DEF Count
<1>3. IsFiniteSet(T) /\ Cardinality(T) = Count(d)
  BY <1>2, FS_Interval
<1>4. f \in [S -> T]
  BY Ranks
<1>5. \A i, j \in S : f[i] = f[j] => i = j
  <2> SUFFICES ASSUME NEW i \in S, NEW j \in S, j < i PROVE f[i] # f[j]
    BY <1>1
  <2>1. Rank(d, j) < Rank(d, i) /\ Rank(d, i) \in Nat /\ Rank(d, j) \in Nat
    BY <1>2, Ranks
  <2> QED BY <2>1
<1>6. \A i \in S : f[i] = Rank(d, i)
  OBVIOUS
<1>7. n \in T
  OBVIOUS
<1> HIDE DEF S, T, f
<1>8. f \in Injection(S, T)
  BY <1>4, <1>5 DEF Injection, IsInjective
<1>9. f \in Surjection(S, T)
  BY <1>2, <1>3, <1>8, FS_Injection
<1>10. \E i \in S : f[i] = n
  BY <1>7, <1>9 DEF Surjection
<1> QED BY <1>6, <1>10 DEF S

(* Renumbering marks no slide and unmarks none. *)
LEMMA SameMarks ==
  ASSUME NEW d, IsDeck(d)
  PROVE  Uniform(Renumber(d)) <=> Uniform(d)
<1> DEFINE r == Renumber(d)
<1>1. /\ Positions(r) = Positions(d)
      /\ \A i \in Positions(d) : \A f \in DOMAIN d.atoms[i] \ {"id", "eyebrow", "footer", "page"} : r.atoms[i][f] = d.atoms[i][f]
  BY RenumberKeepsTheRest
<1> HIDE DEF r
<1>2. \A i \in Positions(d) : r.atoms[i].slide = d.atoms[i].slide /\ r.atoms[i].typed = d.atoms[i].typed
  <2> TAKE i \in Positions(d)
  <2>1. {"slide", "typed"} \subseteq DOMAIN d.atoms[i] \ {"id", "eyebrow", "footer", "page"}
    BY DEF IsDeck, IsAtom, Fields
  <2> QED BY <1>1, <2>1
<1> QED BY <1>1, <1>2 DEF Uniform, r

(* A patch that adds, removes or moves slides leaves a presentation that lint has no numbering    *)
(* problem with, whatever state it was in; the answer counts the slides the file then has, and    *)
(* reports every problem of a slide the patch wrote (renumber.py, lint.py, _touched_problems).    *)
THEOREM StructuralPatchNumbers == DeckSpec => PatchLeavesItNumbered
<1>1. ASSUME DeckInv, [DeckNext]_deckVars, Patched, lastPatch'.ok, lastPatch'.structural, Uniform(deck')
      PROVE  /\ \A p \in Lint(deck') : p[2] \notin Numbering
             /\ lastPatch'.slides = Count(deck')
             /\ \A n \in 1..Count(deck') :
                  LET i == CHOOSE i \in SlideAtoms(deck') : Rank(deck', i) = n
                  IN  deck'.atoms[i].key \notin {deck.atoms[j].key : j \in Positions(deck)}
                        => {p \in Lint(deck') : p[1] = n} \subseteq lastPatch'.problems
  <2>1. PICK ops \in BoundedSeq(Operations, MaxOps - done) \ {<<>>}, dryRun \in BOOLEAN : Patch(ops, dryRun)
    BY <1>1, PatchedByPatch
  <2>2. IsPatch(ops) /\ IsDeck(deck)
    BY <1>1, <2>1, OpsArePatch DEF DeckInv
  <2> DEFINE w == Worked(deck, ops)
             text == Text(deck, w)
             new == deck'
             problems == lastPatch'.problems
  <2>3. w.ok /\ w.structural /\ Cardinality(SlidesOf(w)) <= MaxSlides /\ lastPatch'.slides = Cardinality(SlidesOf(w))
        /\ new = Renumber(text) /\ problems = TouchedProblems(new, w)
    <3>1. /\ lastPatch'.ok = w.ok /\ lastPatch'.structural = w.structural
          /\ lastPatch'.slides = Cardinality(SlidesOf(w))
          /\ Cardinality(SlidesOf(w)) <= MaxSlides
          /\ w.ok => new = Assembled(deck, w) /\ problems = TouchedProblems(new, w)
      BY <1>1, <2>1, <2>2, PatchCases DEF Patched
    <3> QED BY <1>1, <3>1 DEF Assembled, Text
  <2>4. PICK named : NamesAll(deck, named, ops)
    BY <2>2, AllAreNamed
  <2>5. Copy(deck, named, w.atoms) /\ IsDeck(text)
    <3> HIDE DEF w
    <3> QED BY <2>2, <2>3, <2>4, AssembledIsDeck DEF w
  <2> HIDE DEF w
  <2>6. SlidesOf(w) # {} /\ IsFiniteSet(SlidesOf(w)) /\ (Uniform(text) => SlideAtoms(text) = SlidesOf(w))
    BY <2>2, <2>5, CountedSlides, TextSlides
  <2>7. /\ Len(w.atoms) \in Nat /\ DOMAIN w.atoms = 1..Len(w.atoms)
        /\ \A i \in 1..Len(w.atoms) : text.atoms[i] = w.atoms[i].it
    <3>1. Holds(text, w.atoms)
      BY <2>2, <2>5, TextPieces
    <3> QED BY <3>1 DEF Holds
  <2> HIDE DEF text
  <2>8. Uniform(text)
    BY <1>1, <2>3, <2>5, SameMarks
  <2>9. SlideAtoms(text) = SlidesOf(w) /\ Count(text) # 0
    <3>1. Cardinality(SlidesOf(w)) # 0
      BY <2>6, FS_EmptySet
    <3> QED BY <2>6, <2>8, <3>1 DEF Count
  <2>10. IsDeck(new) /\ SlideAtoms(new) = SlidesOf(w) /\ Count(new) = Cardinality(SlidesOf(w))
         /\ Positions(new) = Positions(text) /\ \A i \in Positions(text) : new.atoms[i].key = text.atoms[i].key
    <3>1. IsDeck(new) /\ SameContent(new, text)
      BY <2>3, <2>5, RenumberKeepsDecks
    <3> QED BY <2>9, <3>1 DEF SameContent, Count
  <2>11. \A p \in Lint(new) : p[2] \notin Numbering
    BY <2>3, <2>5, <2>9, RenumberedIsClean
  <2> HIDE DEF new, problems
  <2>12. ASSUME NEW n \in 1..Count(new)
         PROVE  LET i == CHOOSE i \in SlideAtoms(new) : Rank(new, i) = n
                IN  new.atoms[i].key \notin {deck.atoms[j].key : j \in Positions(deck)}
                        => {p \in Lint(new) : p[1] = n} \subseteq problems
    <3> DEFINE i == CHOOSE i \in SlideAtoms(new) : Rank(new, i) = n
    <3>1. i \in SlideAtoms(new) /\ Rank(new, i) = n
      BY <2>10, EveryRank
    <3> HIDE DEF i
    <3> SUFFICES ASSUME new.atoms[i].key \notin {deck.atoms[j].key : j \in Positions(deck)}
                 PROVE  {p \in Lint(new) : p[1] = n} \subseteq problems
      BY DEF i
    <3>2. i \in SlidesOf(w) /\ i \in 1..Len(w.atoms) /\ i \in Positions(text)
      BY <2>7, <2>9, <2>10, <3>1 DEF SlidesOf, SlideAtoms
    <3>3. new.atoms[i].key = w.atoms[i].it.key
      BY <2>7, <2>10, <3>2
    <3>4. Good(deck, named, w.atoms[i])
      BY <2>5, <3>2 DEF Copy
    <3>5. w.atoms[i].touched
      BY <3>3, <3>4 DEF Good
    <3>6. SlideNumber(w, i) = n
      BY <2>10, <3>1 DEF SlideNumber, Rank
    <3>7. n \in {SlideNumber(w, p) : p \in {q \in SlidesOf(w) : w.atoms[q].touched}}
      BY <3>2, <3>5, <3>6
    <3> QED BY <2>3, <3>7 DEF TouchedProblems
  <2> QED BY <2>3, <2>10, <2>11, <2>12 DEF new, problems
<1>2. DeckInv /\ [DeckNext]_deckVars
        => [Patched /\ lastPatch'.ok /\ lastPatch'.structural /\ Uniform(deck') =>
              /\ \A p \in Lint(deck') : p[2] \notin {"L002", "L003", "L004", "L005"}
              /\ lastPatch'.slides = Count(deck')
              /\ \A o \in ToSet(lastPatch'.ops), n \in 1..Count(deck') :
                   o.op = "insert_slide" /\ o.html.key \notin {deck.atoms[i].key : i \in Positions(deck)}
                     /\ deck'.atoms[CHOOSE i \in SlideAtoms(deck') : Rank(deck', i) = n].key = o.html.key
                     => {p \in Lint(deck') : p[1] = n} \subseteq lastPatch'.problems]_deckVars
  BY <1>1 DEF Numbering
<1> QED BY <1>2, DeckIsKept, PTL DEF DeckSpec, PatchLeavesItNumbered

-----------------------------------------------------------------------------
(* What was read is written back *)

(* A later large image has a greater reference. *)
LEMMA ReferencesGrow ==
  ASSUME NEW images \in Images, NEW i \in Large(images), NEW j \in Large(images), j < i
  PROVE  Reference(images, j) < Reference(images, i)
<1> DEFINE S == LargeUpTo(images, i)
           T == LargeUpTo(images, j)
<1>1. Len(images) \in Nat
  BY DEF Images
<1>2. i \in Nat /\ j \in Nat /\ i \in 1..i /\ images[i][1] = "large"
  BY <1>1 DEF Large, LargeUpTo
<1>3. T \in SUBSET S /\ i \in S /\ i \notin T
  BY <1>2 DEF LargeUpTo
<1>4. IsFiniteSet(S) /\ Cardinality(S) \in Nat /\ Cardinality(T) \in Nat
  BY <1>2, References DEF Reference
<1> HIDE DEF S, T
<1>5. Cardinality(T) <= Cardinality(S) /\ Cardinality(T) # Cardinality(S)
  BY <1>3, <1>4, FS_Subset
<1> QED BY <1>4, <1>5 DEF Reference, S, T

(* hide_images and _restore_images count the same images: what one hides the other puts back. *)
LEMMA HiddenArePutBack ==
  ASSUME NEW images \in Images, ~HasReference(images)
  PROVE  Restorable(Hide(images), images) /\ PutBack(Hide(images), images) = images
<1> DEFINE n == Len(images)
           h == Hide(images)
           ref(i) == Reference(images, i)
           found(i) == CHOOSE j \in Large(images) : ref(j) = h[i][2]
<1>1. n \in Nat /\ DOMAIN images = 1..n /\ DOMAIN h = 1..n /\ images = [i \in 1..n |-> images[i]]
  BY HiddenImages DEF Images
<1>2. ASSUME NEW i \in 1..n PROVE h[i] = IF images[i][1] = "large" THEN <<"ref", ref(i)>> ELSE images[i]
  BY <1>1 DEF Hide
<1>3. ASSUME NEW i \in 1..n PROVE images[i][1] # "ref"
  BY <1>1 DEF HasReference
<1> HIDE DEF h
<1>4. ASSUME NEW i \in 1..n, h[i][1] = "ref"
      PROVE  i \in Large(images) /\ h[i][2] = ref(i)
  <2>1. images[i][1] = "large"
    BY <1>2, <1>3, <1>4
  <2>2. h[i] = <<"ref", ref(i)>>
    BY <1>2, <2>1
  <2>3. i \in Large(images)
    BY <1>1, <2>1 DEF Large, LargeUpTo
  <2> HIDE DEF ref
  <2> QED BY <2>2, <2>3
<1>5. Restorable(h, images)
  BY <1>1, <1>4 DEF Restorable
<1>6. ASSUME NEW i \in Large(images), NEW j \in Large(images), ref(i) = ref(j) PROVE i = j
  <2>1. i \in Nat /\ j \in Nat /\ ref(i) \in Nat /\ ref(j) \in Nat
    <3>1. i \in Nat /\ j \in Nat
      BY <1>1 DEF Large, LargeUpTo
    <3> QED BY <3>1, References
  <2>2. ~(i < j)
    <3> SUFFICES ASSUME i < j PROVE FALSE
      OBVIOUS
    <3>1. ref(i) < ref(j)
      BY ReferencesGrow
    <3> HIDE DEF ref
    <3> QED BY <1>6, <2>1, <3>1
  <2>3. ~(j < i)
    <3> SUFFICES ASSUME j < i PROVE FALSE
      OBVIOUS
    <3>1. ref(j) < ref(i)
      BY ReferencesGrow
    <3> HIDE DEF ref
    <3> QED BY <1>6, <2>1, <3>1
  <2> QED BY <2>1, <2>2, <2>3
<1> HIDE DEF ref
<1>7. ASSUME NEW i \in 1..n PROVE (IF h[i][1] = "ref" THEN images[found(i)] ELSE h[i]) = images[i]
  <2>1. CASE h[i][1] = "ref"
    <3>1. i \in Large(images) /\ ref(i) = h[i][2]
      BY <1>4, <2>1
    <3>2. found(i) \in Large(images) /\ ref(found(i)) = h[i][2]
      BY <3>1
    <3> HIDE DEF found
    <3>3. found(i) = i
      BY <1>6, <3>1, <3>2
    <3> QED BY <2>1, <3>3
  <2>2. CASE h[i][1] # "ref"
    <3>1. images[i][1] # "large"
      <4> SUFFICES ASSUME images[i][1] = "large" PROVE FALSE
        OBVIOUS
      <4>1. h[i] = <<"ref", ref(i)>>
        BY <1>2
      <4> QED BY <2>2, <4>1
    <3> QED BY <1>2, <2>2, <3>1
  <2> QED BY <2>1, <2>2
<1>8. PutBack(h, images) = [i \in 1..n |-> IF h[i][1] = "ref" THEN images[found(i)] ELSE h[i]]
  BY <1>1 DEF PutBack, ref
<1> HIDE DEF found, n
<1>9. PutBack(h, images) = images
  BY <1>1, <1>7, <1>8
<1> QED BY <1>5, <1>9 DEF h

(* The slides of the files to begin with have no data:ref: images of their own. *)
NoReferences == \A d \in FirstDecks : Plain(d)

PlainInv == Plain(deck) /\ (read.key # Absent => ~HasReference(read.was.images))

(* No operation brings a reference into the file. *)
LEMMA PlainIsKept == NoReferences => (DeckSpec => []PlainInv)
<1> SUFFICES ASSUME NoReferences PROVE DeckSpec => []PlainInv
  OBVIOUS
<1>1. DeckInit => PlainInv
  BY DEF DeckInit, PlainInv, NotRead, NoReferences
<1>2. DeckInv /\ PlainInv /\ [DeckNext]_deckVars => PlainInv'
  <2> SUFFICES ASSUME DeckInv, PlainInv, [DeckNext]_deckVars PROVE PlainInv'
    OBVIOUS
  <2>1. ASSUME NEW ops \in BoundedSeq(Operations, MaxOps - done) \ {<<>>}, NEW dryRun \in BOOLEAN, Patch(ops, dryRun)
        PROVE  PlainInv'
    <3> DEFINE w == Worked(deck, ops)
    <3>1. IsPatch(ops)
      BY OpsArePatch
    <3>2. PICK named : NamesAll(deck, named, ops)
      BY <3>1, AllAreNamed
    <3>3. deck' = deck \/ (deck' = Assembled(deck, w) /\ w.ok)
      BY <2>1 DEF Patch
    <3>4. Cardinality(SlidesOf(w)) <= MaxSlides /\ read' = read
      BY <2>1 DEF Patch
    <3>5. IsDeck(deck)
      BY DEF DeckInv
    <3> HIDE DEF w
    <3>6. w.ok => (Plain(deck) => Plain(Assembled(deck, w)))
      BY <3>1, <3>2, <3>4, <3>5, AssembledIsDeck DEF w
    <3>7. Plain(deck')
      BY <3>3, <3>6 DEF PlainInv
    <3> QED BY <3>4, <3>7 DEF PlainInv
  <2>2. ASSUME NEW id \in Ids, GetSlide(id) PROVE PlainInv'
    <3>1. PICK i \in SlideAtoms(deck) : read'.was = deck.atoms[i]
      BY <2>2, GetSlideKeeps
    <3>2. deck' = deck
      BY <2>2 DEF GetSlide
    <3>3. ~HasReference(read'.was.images)
      BY <3>1 DEF PlainInv, Plain, SlideAtoms
    <3> QED BY <3>2, <3>3 DEF PlainInv
  <2>3. CASE UNCHANGED deckVars
    BY <2>3 DEF deckVars, PlainInv
  <2> QED BY <2>1, <2>2, <2>3 DEF DeckNext
<1> QED BY <1>1, <1>2, DeckIsKept, PTL DEF DeckSpec

(* The operation of a patch of one is applied to the file as it was. *)
LEMMA WorkedOnce ==
  ASSUME NEW d, SlideAtoms(d) # {}, NEW ops, Len(ops) = 1
  PROVE  Worked(d, ops) = Apply(Working(d), ops[1])
<1>1. PICK f : Follow(f, d, ops, 1) /\ Worked(d, ops) = f[1]
  <2>1. Len(ops) \in Nat
    OBVIOUS
  <2>2. \E f : Follow(f, d, ops, Len(ops)) /\ Worked(d, ops) = f[Len(ops)]
    BY <2>1, WorkedFollows
  <2> QED BY <2>2
<1>2. f[0] = Working(d)
  BY <1>1 DEF Follow, Start
<1>3. f[1] = Apply(f[1 - 1], ops[1])
  BY <1>1 DEF Follow
<1> QED BY <1>1, <1>2, <1>3

(* The slide of a working copy nobody changed that goes by an id is the first with it in the file. *)
LEMMA RequiredInWorking ==
  ASSUME NEW d, IsDeck(d), NEW id, id # Absent, NEW j \in SlideAtoms(d), SlideId(d, j) = id
  PROVE  LET i == First({k \in SlideAtoms(d) : SlideId(d, k) = id})
         IN  Known(Working(d), id) /\ Require(Working(d), id) = i /\ i \in SlideAtoms(d)
<1> DEFINE T == {k \in SlideAtoms(d) : SlideId(d, k) = id}
           w == Working(d)
           R == {p \in DOMAIN w.atoms : w.atoms[p].orig = id}
<1>1. DOMAIN w.atoms = Positions(d) /\ \A p \in Positions(d) : w.atoms[p].orig = IF IsSlide(d, p) THEN SlideId(d, p) ELSE Absent
  BY DEF Working
<1> HIDE DEF w
<1>2. R = T
  BY <1>1 DEF SlideAtoms
<1>3. j \in T /\ T \in SUBSET Nat
  BY DEF IsDeck, SlideAtoms, Positions
<1>4. Known(w, id)
  BY <1>2, <1>3 DEF Known
<1>5. Require(w, id) = First(R)
  BY DEF Require
<1> HIDE DEF R
<1>6. First(T) \in T
  <2> HIDE DEF T
  <2> QED BY <1>3, FirstOf
<1>7. First(T) \in SlideAtoms(d)
  BY <1>6
<1> QED BY <1>2, <1>4, <1>5, <1>7 DEF w

(* A replacement by what was read, of a slide that has the images read, leaves what was read. *)
LEMMA ReplacedByRead ==
  ASSUME NEW d, IsDeck(d), NEW o, o.op = "replace_slide", o.id # Absent, IsSlideHtml(o.html),
         NEW was, IsAtom(was), was.slide, ~HasReference(was.images), o.html = Shown(was),
         NEW i \in SlideAtoms(d), Known(Working(d), o.id), Require(Working(d), o.id) = i, d.atoms[i].images = was.images
  PROVE  LET w == Apply(Working(d), o)
         IN  w.ok /\ w.structural /\ w.atoms[i].it = [Shown(was) EXCEPT !.images = was.images] /\ i \in DOMAIN w.atoms
<1> DEFINE v == Working(d)
           w == Apply(v, o)
           new == [o.html EXCEPT !.images = was.images]
<1>1. i \in Positions(d) /\ DOMAIN v.atoms = Positions(d) /\ v.atoms[i].it = d.atoms[i] /\ v.ok
      /\ DOMAIN v.atoms[i] = {"it", "orig", "slide", "touched"} /\ DOMAIN v = {"atoms", "structural", "ok"}
  BY DEF Working, SlideAtoms
<1> HIDE DEF v
<1>2. o.html.images = Hide(was.images) /\ was.images \in Images
  BY ReadIsAtom DEF IsAtom, Images
<1>3. Restorable(Hide(was.images), was.images) /\ PutBack(Hide(was.images), was.images) = was.images
  BY <1>2, HiddenArePutBack
<1>4. w = [v EXCEPT !.atoms[i].it = new, !.atoms[i].touched = TRUE, !.structural = TRUE]
  <2>1. w = ReplaceSlide(v, o)
    BY <1>1 DEF Apply
  <2>2. Known(v, o.id) /\ Require(v, o.id) = i /\ v.atoms[i].it.images = was.images
    BY <1>1 DEF v
  <2> HIDE DEF w
  <2> QED BY <1>2, <1>3, <2>1, <2>2 DEF ReplaceSlide
<1> HIDE DEF w, new
<1>5. w.ok = v.ok /\ w.structural = TRUE /\ w.atoms[i].it = new /\ DOMAIN w.atoms = DOMAIN v.atoms
  BY <1>1, <1>4
<1>6. new = [Shown(was) EXCEPT !.images = was.images]
  BY DEF new
<1> QED BY <1>1, <1>5, <1>6 DEF w, v

(* Writing back what get_slide gave succeeds and leaves the slide as it was, images included,  *)
(* however the file was patched since, where the slide it replaces has the images read and the *)
(* files to begin with have no data:ref: images of their own.                                   *)
THEOREM ReadIsWrittenBack == NoReferences => (DeckSpec => ReadBackKeepsTheSlide)
<1> SUFFICES ASSUME NoReferences PROVE DeckSpec => ReadBackKeepsTheSlide
  OBVIOUS
<1>1. ASSUME DeckInv, PlainInv, [DeckNext]_deckVars, Patched,
             NEW o \in ToSet(lastPatch'.ops), o.op = "replace_slide", Len(lastPatch'.ops) = 1,
             read.key # Absent, o.html = read.text, IsSlideHtml(read.text),
             \E i \in NamedIn(deck, lastPatch'.ops) : deck.atoms[i].images = read.was.images
      PROVE  lastPatch'.ok /\ \E i \in SlideAtoms(deck') : Content(deck'.atoms[i]) = Content(read.was)
  <2>1. PICK ops \in BoundedSeq(Operations, MaxOps - done) \ {<<>>}, dryRun \in BOOLEAN : Patch(ops, dryRun)
    BY <1>1, PatchedByPatch
  <2>2. IsPatch(ops) /\ IsDeck(deck)
    BY <1>1, <2>1, OpsArePatch DEF DeckInv
  <2> DEFINE w == Worked(deck, ops)
             text == Text(deck, w)
             was == read.was
             new == deck'
  <2>3. lastPatch'.ops = ops /\ lastPatch'.ok = w.ok /\ Cardinality(SlidesOf(w)) <= MaxSlides
        /\ (w.ok => new = Assembled(deck, w))
    BY <1>1, <2>1, <2>2, PatchCases DEF Patched
  <2>4. Len(ops) = 1 /\ ToSet(ops) = {o} /\ ops[1] = o /\ IsOp(o)
    BY <1>1, <2>2, <2>3 DEF IsPatch, ToSet
  <2>5. o.id # Absent /\ IsAtom(was) /\ was.slide /\ ~HasReference(was.images) /\ o.html = Shown(was) /\ IsSlideHtml(o.html)
    BY <1>1, <2>4 DEF IsOp, DeckInv, PlainInv, Shown
  <2>6. PICK i \in NamedIn(deck, ops) : deck.atoms[i].images = was.images
    BY <1>1, <2>3
  <2>7. i = First({k \in SlideAtoms(deck) : SlideId(deck, k) = o.id}) /\ \E j \in SlideAtoms(deck) : SlideId(deck, j) = o.id
    BY <1>1, <2>4, <2>6 DEF NamedIn
  <2>8. i \in SlideAtoms(deck) /\ Known(Working(deck), o.id) /\ Require(Working(deck), o.id) = i
    BY <2>2, <2>5, <2>7, RequiredInWorking
  <2>9. w = Apply(Working(deck), o)
    BY <2>4, <2>8, WorkedOnce
  <2> HIDE DEF was
  <2>10. w.ok /\ w.structural /\ w.atoms[i].it = [Shown(was) EXCEPT !.images = was.images] /\ i \in DOMAIN w.atoms
    <3> HIDE DEF w
    <3> QED BY <1>1, <2>2, <2>5, <2>6, <2>8, <2>9, ReplacedByRead
  <2>11. PICK named : NamesAll(deck, named, ops)
    BY <2>2, AllAreNamed
  <2>12. Copy(deck, named, w.atoms) /\ IsDeck(text)
    <3> HIDE DEF w
    <3> QED BY <2>2, <2>3, <2>10, <2>11, AssembledIsDeck DEF w
  <2> HIDE DEF w
  <2>13. new = Renumber(text)
    BY <2>3, <2>10 DEF Assembled, Text
  <2>14. text.atoms[i] = w.atoms[i].it /\ i \in Positions(text)
    <3>1. Holds(text, w.atoms)
      BY <2>2, <2>12, TextPieces
    <3> QED BY <2>10, <3>1 DEF Holds, Positions
  <2> HIDE DEF text, new
  <2>15. Content(text.atoms[i]) = Content(was) /\ text.atoms[i].slide /\ text.atoms[i].typed
    <3> DEFINE a == Shown(was)
               b == [a EXCEPT !.images = was.images]
    <3>1. IsAtom(a) /\ a.slide /\ a.key = was.key /\ a.text = was.text /\ a.title = was.title /\ a.typed
      BY <2>5, ReadIsAtom DEF IsSlideHtml
    <3> HIDE DEF a
    <3>2. b.slide = a.slide /\ b.typed = a.typed /\ b.key = a.key /\ b.text = a.text /\ b.title = a.title /\ b.images = was.images
      BY <3>1 DEF IsAtom, Fields
    <3>3. text.atoms[i] = b
      BY <2>10, <2>14 DEF a
    <3> HIDE DEF b
    <3>4. Content(b) = Content(was)
      BY <2>5, <3>1, <3>2 DEF Content
    <3> QED BY <3>1, <3>2, <3>3, <3>4
  <2>16. i \in SlideAtoms(text)
    BY <2>14, <2>15 DEF SlideAtoms, IsSlide
  <2>17. SlideAtoms(new) = SlideAtoms(text) /\ Content(new.atoms[i]) = Content(text.atoms[i])
    <3>1. SameContent(new, text)
      BY <2>12, <2>13, RenumberKeepsDecks
    <3> QED BY <2>14, <3>1 DEF SameContent
  <2>18. i \in SlideAtoms(new) /\ Content(new.atoms[i]) = Content(was)
    BY <2>15, <2>16, <2>17
  <2> QED BY <2>3, <2>10, <2>18 DEF new, was
<1>2. DeckInv /\ PlainInv /\ [DeckNext]_deckVars
        => [LET written == {o \in ToSet(IF Patched THEN lastPatch'.ops ELSE <<>>) : o.op = "replace_slide"}
            IN  \A o \in written :
                  /\ Len(lastPatch'.ops) = 1 /\ read.key # Absent /\ o.html = read.text /\ IsSlideHtml(read.text)
                  /\ \E i \in NamedIn(deck, lastPatch'.ops) : deck.atoms[i].images = read.was.images
                  => lastPatch'.ok /\ \E i \in SlideAtoms(deck') : Content(deck'.atoms[i]) = Content(read.was)]_deckVars
  <2>1. ToSet(<<>>) = {}
    BY DEF ToSet
  <2> QED BY <1>1, <2>1
<1> QED BY <1>2, DeckIsKept, PlainIsKept, PTL DEF DeckSpec, ReadBackKeepsTheSlide
=============================================================================
