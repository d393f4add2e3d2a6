--------------------------- MODULE OutputsProofs ----------------------------
(***************************************************************************)
(* Proofs about the files the program makes besides the documents: the     *)
(* reference archive that exports share, for any number of exports and     *)
(* processes and archives of any number of pieces, and the pictures of     *)
(* slides, for any number of sessions and presentations.                   *)
(***************************************************************************)
EXTENDS ReferenceCache, RenderPictures, SequenceTheorems, TLAPS

Archive == [has : SUBSET Whole, by : SUBSET Exports]

Phases == {"asked", "building", "writing", "cached", "plain", "exported", "dead"}

CacheType ==
  /\ disk \in Seq(Archive)
  /\ staging \in [Processes -> 0..Len(disk)]
  /\ target \in 0..Len(disk)
  /\ export \in [Exports -> [at : Phases, writes : 0..Len(disk), next : 1..Pieces + 1, given : Archive]]

(* A staging path leads to an archive of its process that no other path leads to. *)
StagedApart ==
  /\ \A p, q \in Processes : p # q /\ staging[p] # 0 => staging[p] # staging[q]
  /\ \A p \in Processes : staging[p] # 0 =>
       /\ staging[p] # target
       /\ disk[staging[p]].by # {}
       /\ \A d \in disk[staging[p]].by : ProcessOf[d] = p

OpenedBy ==
  /\ \A n \in DOMAIN disk : \A d \in disk[n].by : export[d].writes # 0
  /\ \A e \in Exports : export[e].at = "writing" => export[e].writes # 0 /\ e \in disk[export[e].writes].by

(* No other export of its process has begun to build. *)
Lone(e) == \A d \in Exports : d # e /\ ProcessOf[d] = ProcessOf[e] => export[d].writes = 0

(* A thread that builds alone in its process has its archive as far as it wrote it. *)
LoneWriterHasIt ==
  \A e \in Exports : export[e].at = "writing" /\ Lone(e) =>
    /\ staging[ProcessOf[e]] = export[e].writes
    /\ disk[export[e].writes].has = 1..export[e].next - 1

(* One of those who opened the archive had another thread of its process build. *)
Crowded(archive) ==
  \E d1 \in archive.by, d2 \in Exports : d1 # d2 /\ ProcessOf[d1] = ProcessOf[d2] /\ export[d2].writes # 0

Sound(archive) == archive.has = Whole \/ Crowded(archive)

PublishedSound ==
  /\ target # 0 => Sound(disk[target])
  /\ \A e \in Exports : export[e].at = "cached" => target # 0
  /\ \A e \in Exports : export[e].at = "exported" => Sound(export[e].given)

IInv == CacheType /\ StagedApart /\ OpenedBy /\ LoneWriterHasIt /\ PublishedSound

-----------------------------------------------------------------------------

LEMMA CacheInitInv == CacheInit => IInv
<1> SUFFICES ASSUME CacheInit PROVE IInv
  OBVIOUS
<1>1. CacheType
  BY CacheAssumption DEF CacheInit, CacheType, Archive, Phases
<1>2. StagedApart /\ OpenedBy /\ LoneWriterHasIt /\ PublishedSound
  BY DEF CacheInit, StagedApart, OpenedBy, LoneWriterHasIt, PublishedSound
<1> QED BY <1>1, <1>2 DEF IInv

(* Whoever began to build stays one who did. *)
LEMMA CrowdStays ==
  ASSUME NEW archive, \A d \in Exports : export[d].writes # 0 => export'[d].writes # 0, Sound(archive)
  PROVE  Sound(archive)'
BY DEF Sound, Crowded

LEMMA ArchiveType ==
  ASSUME CacheType
  PROVE  /\ DOMAIN disk = 1..Len(disk) /\ Len(disk) \in Nat
         /\ \A n \in 1..Len(disk) : disk[n] \in Archive /\ disk[n].by \subseteq Exports /\ disk[n].has \subseteq Whole
<1>1. disk \in Seq(Archive)
  BY DEF CacheType
<1>2. \A n \in 1..Len(disk) : disk[n] \in Archive
  BY <1>1
<1>3. \A a \in Archive : a.by \subseteq Exports /\ a.has \subseteq Whole
  BY DEF Archive
<1> QED BY <1>1, <1>2, <1>3

(* What changes no archive and no path, and takes only an export that builds out of the build. *)
LEMMA MovesOn ==
  ASSUME IInv, NEW E \in SUBSET Exports, UNCHANGED <<disk, staging, target>>, export' \in [Exports -> [at : Phases, writes : 0..Len(disk), next : 1..Pieces + 1, given : Archive]],
         \A d \in Exports \ E : export'[d] = export[d],
         \A d \in E : /\ export'[d].at # "writing" /\ export'[d].writes = export[d].writes
                      /\ export'[d].at = "cached" => target # 0
                      /\ export'[d].at = "exported" => Sound(export'[d].given)
  PROVE  IInv'
<1>1. \A d \in Exports : export'[d].writes = export[d].writes
  OBVIOUS
<1>2. CacheType'
  BY DEF IInv, CacheType
<1>3. StagedApart' /\ OpenedBy'
  <2>1. StagedApart'
    BY DEF IInv, StagedApart
  <2>2. \A n \in DOMAIN disk : disk[n].by \subseteq Exports
    BY ArchiveType DEF IInv
  <2>3. \A d \in Exports : export'[d].at = "writing" => export[d].at = "writing"
    OBVIOUS
  <2> QED BY <1>1, <2>1, <2>2, <2>3 DEF IInv, OpenedBy
<1>4. LoneWriterHasIt'
  BY <1>1 DEF IInv, LoneWriterHasIt, Lone
<1>5. PublishedSound'
  <2>1. \A archive : Sound(archive) => Sound(archive)'
    BY <1>1, CrowdStays
  <2> QED BY <2>1 DEF IInv, PublishedSound
<1> QED BY <1>2, <1>3, <1>4, <1>5 DEF IInv

LEMMA OneMovesOn ==
  ASSUME IInv, NEW e \in Exports, UNCHANGED <<disk, staging, target>>,
         export' \in [Exports -> [at : Phases, writes : 0..Len(disk), next : 1..Pieces + 1, given : Archive]],
         \A d \in Exports \ {e} : export'[d] = export[d],
         export'[e].at # "writing", export'[e].writes = export[e].writes,
         export'[e].at = "cached" => target # 0,
         export'[e].at = "exported" => Sound(export'[e].given)
  PROVE  IInv'
<1> DEFINE E == {e}
<1>1. /\ \A d \in Exports \ E : export'[d] = export[d]
      /\ \A d \in E : /\ export'[d].at # "writing" /\ export'[d].writes = export[d].writes
                      /\ export'[d].at = "cached" => target # 0
                      /\ export'[d].at = "exported" => Sound(export'[d].given)
  OBVIOUS
<1>2. E \in SUBSET Exports
  OBVIOUS
<1> HIDE DEF E
<1> QED BY <1>1, <1>2, MovesOn

LEMMA LookUpInv == ASSUME IInv, NEW e \in Exports, LookUp(e) PROVE IInv'
<1> DEFINE at == IF target # 0 /\ disk[target].has # {} THEN "cached" ELSE "building"
<1>1. export' = [export EXCEPT ![e].at = at] /\ UNCHANGED <<disk, staging, target>>
  BY DEF LookUp, Goes
<1>2. export \in [Exports -> [at : Phases, writes : 0..Len(disk), next : 1..Pieces + 1, given : Archive]]
  BY DEF IInv, CacheType
<1>3. at \in Phases /\ at # "writing" /\ at # "exported" /\ (at = "cached" => target # 0)
  BY DEF Phases
<1> HIDE DEF at
<1>4. export' \in [Exports -> [at : Phases, writes : 0..Len(disk), next : 1..Pieces + 1, given : Archive]]
  BY <1>1, <1>2, <1>3
<1>5. export'[e].at = at /\ export'[e].writes = export[e].writes /\ \A d \in Exports \ {e} : export'[d] = export[d]
  BY <1>1, <1>2
<1> QED BY <1>1, <1>3, <1>4, <1>5, OneMovesOn

LEMMA BuildFailsInv == ASSUME IInv, NEW e \in Exports, BuildFails(e) PROVE IInv'
<1>1. export' = [export EXCEPT ![e].at = "plain"] /\ UNCHANGED <<disk, staging, target>>
  BY DEF BuildFails, Goes
<1>2. export \in [Exports -> [at : Phases, writes : 0..Len(disk), next : 1..Pieces + 1, given : Archive]]
  BY DEF IInv, CacheType
<1>3. "plain" \in Phases
  BY DEF Phases
<1>4. export' \in [Exports -> [at : Phases, writes : 0..Len(disk), next : 1..Pieces + 1, given : Archive]]
  BY <1>1, <1>2, <1>3
<1>5. export'[e].at = "plain" /\ export'[e].writes = export[e].writes /\ \A d \in Exports \ {e} : export'[d] = export[d]
  BY <1>1, <1>2
<1> QED BY <1>1, <1>4, <1>5, OneMovesOn

LEMMA RunPandocInv == ASSUME IInv, NEW e \in Exports, RunPandoc(e) PROVE IInv'
<1>1. /\ export[e].at = "cached" /\ UNCHANGED <<disk, staging, target>>
      /\ export' = [export EXCEPT ![e].at = "exported", ![e].given = disk[target]]
  BY DEF RunPandoc
<1>2. /\ export \in [Exports -> [at : Phases, writes : 0..Len(disk), next : 1..Pieces + 1, given : Archive]]
      /\ disk \in Seq(Archive) /\ target \in 0..Len(disk)
  BY DEF IInv, CacheType
<1>3. target # 0 /\ Sound(disk[target])
  BY <1>1 DEF IInv, PublishedSound
<1>4. disk[target] \in Archive /\ "exported" \in Phases
  BY <1>2, <1>3 DEF Phases
<1>5. export' \in [Exports -> [at : Phases, writes : 0..Len(disk), next : 1..Pieces + 1, given : Archive]]
  BY <1>1, <1>2, <1>4
<1>6. /\ export'[e].at = "exported" /\ export'[e].writes = export[e].writes /\ export'[e].given = disk[target]
      /\ \A d \in Exports \ {e} : export'[d] = export[d]
  BY <1>1, <1>2
<1> QED BY <1>1, <1>3, <1>5, <1>6, OneMovesOn

LEMMA DieInv == ASSUME IInv, NEW p \in Processes, Die(p) PROVE IInv'
<1> DEFINE E == {e \in Exports : ProcessOf[e] = p}
<1>1. /\ UNCHANGED <<disk, staging, target>>
      /\ export' = [e \in Exports |-> IF ProcessOf[e] = p THEN [export[e] EXCEPT !.at = "dead"] ELSE export[e]]
  BY DEF Die
<1>2. export \in [Exports -> [at : Phases, writes : 0..Len(disk), next : 1..Pieces + 1, given : Archive]]
  BY DEF IInv, CacheType
<1>3. "dead" \in Phases
  BY DEF Phases
<1>4. export' \in [Exports -> [at : Phases, writes : 0..Len(disk), next : 1..Pieces + 1, given : Archive]]
  BY <1>1, <1>2, <1>3
<1>5. /\ \A d \in Exports \ E : export'[d] = export[d]
      /\ \A d \in E : export'[d].at = "dead" /\ export'[d].writes = export[d].writes
  BY <1>1, <1>2
<1>6. E \in SUBSET Exports
  OBVIOUS
<1> HIDE DEF E
<1> QED BY <1>1, <1>4, <1>5, <1>6, MovesOn

LEMMA OpenInv == ASSUME IInv, NEW e \in Exports, Open(e) PROVE IInv'
<1> DEFINE p == ProcessOf[e]
           old == staging[p]
           number == IF old = 0 THEN Len(disk) + 1 ELSE old
           opened == [has |-> {}, by |-> IF old = 0 THEN {e} ELSE disk[old].by \cup {e}]
<1>1. /\ export[e].at = "building" /\ UNCHANGED target
      /\ disk' = IF old = 0 THEN Append(disk, [has |-> {}, by |-> {e}])
                 ELSE [disk EXCEPT ![old] = [has |-> {}, by |-> @.by \cup {e}]]
      /\ staging' = [staging EXCEPT ![p] = number]
      /\ export' = [export EXCEPT ![e].at = "writing", ![e].writes = number, ![e].next = 1]
  BY DEF Open, Staging
<1>2. CacheType
  BY DEF IInv
<1>3. p \in Processes /\ old \in 0..Len(disk) /\ Len(disk) \in Nat
  BY <1>2 DEF CacheType, Processes
<1>4. opened \in Archive
  <2>1. (IF old = 0 THEN {e} ELSE disk[old].by \cup {e}) \in SUBSET Exports /\ {} \in SUBSET Whole
    BY <1>2, <1>3, ArchiveType
  <2> QED BY <2>1 DEF Archive
<1>5. /\ disk' \in Seq(Archive) /\ Len(disk') = (IF old = 0 THEN Len(disk) + 1 ELSE Len(disk))
      /\ disk'[number] = opened /\ number \in 1..Len(disk')
      /\ \A n \in 1..Len(disk) : n # number => disk'[n] = disk[n]
  <2>1. CASE old = 0
    <3>1. disk' = Append(disk, opened)
      BY <1>1, <2>1
    <3> QED BY <1>2, <1>3, <1>4, <2>1, <3>1, AppendProperties DEF CacheType
  <2>2. CASE old # 0
    <3>1. disk' = [disk EXCEPT ![old] = opened]
      BY <1>1, <2>2
    <3>2. old \in 1..Len(disk) /\ disk \in Seq(Archive)
      BY <1>2, <1>3, <2>2 DEF CacheType
    <3> HIDE DEF opened
    <3>3. disk' \in Seq(Archive) /\ Len(disk') = Len(disk)
      BY <1>4, <3>1, <3>2, ExceptSeq
    <3>4. disk'[old] = opened /\ \A n \in 1..Len(disk) : n # old => disk'[n] = disk[n]
      BY <3>1, <3>2
    <3> QED BY <1>3, <2>2, <3>2, <3>3, <3>4
  <2> QED BY <2>1, <2>2
<1>6. /\ export' \in [Exports -> [at : Phases, writes : 0..Len(disk'), next : 1..Pieces + 1, given : Archive]]
      /\ export'[e].at = "writing" /\ export'[e].writes = number /\ export'[e].next = 1
      /\ \A d \in Exports \ {e} : export'[d] = export[d]
  <2>1. export \in [Exports -> [at : Phases, writes : 0..Len(disk), next : 1..Pieces + 1, given : Archive]]
    BY <1>2 DEF CacheType
  <2>2. 0..Len(disk) \subseteq 0..Len(disk')
    BY <1>3, <1>5
  <2>3. "writing" \in Phases /\ 1 \in 1..Pieces + 1 /\ number \in 0..Len(disk')
    BY CacheAssumption, <1>5 DEF Phases
  <2> HIDE DEF number
  <2> QED BY <1>1, <2>1, <2>2, <2>3
<1>7. /\ staging' \in [Processes -> 0..Len(disk')]
      /\ staging'[p] = number /\ \A q \in Processes : q # p => staging'[q] = staging[q]
  <2>1. 0..Len(disk) \subseteq 0..Len(disk') /\ number \in 0..Len(disk')
    BY <1>3, <1>5
  <2> HIDE DEF number
  <2> QED BY <1>1, <1>2, <1>3, <2>1 DEF CacheType
<1>8. number # 0 /\ number # target /\ \A q \in Processes : q # p => staging[q] # number
  BY <1>2, <1>3 DEF IInv, CacheType, StagedApart
<1>9. opened.has = {} /\ e \in opened.by /\ \A d \in opened.by : ProcessOf[d] = p /\ (d = e \/ export[d].writes # 0)
  BY <1>2, <1>3 DEF IInv, StagedApart, OpenedBy, CacheType
<1>10. \A d \in Exports : export[d].writes # 0 => export'[d].writes # 0
  BY <1>6, <1>8
<1>11. target' = target /\ target \in 0..Len(disk)
  BY <1>1, <1>2 DEF CacheType
<1>12. Len(disk) <= Len(disk') /\ (\A n \in 1..Len(disk') : n # number => n \in 1..Len(disk))
  BY <1>3, <1>5
<1> HIDE DEF number, opened, old
<1>13. CacheType'
  BY <1>3, <1>5, <1>6, <1>7, <1>11, <1>12 DEF CacheType
<1>14. StagedApart'
  <2>1. \A q \in Processes : q # p /\ staging[q] # 0 => staging[q] \in 1..Len(disk)
    BY <1>2 DEF CacheType
  <2>2. ASSUME NEW q \in Processes, staging'[q] # 0
        PROVE  /\ staging'[q] # target' /\ disk'[staging'[q]].by # {}
               /\ \A d \in disk'[staging'[q]].by : ProcessOf[d] = q
    <3>1. CASE q = p
      BY <1>5, <1>7, <1>8, <1>9, <1>11, <3>1
    <3>2. CASE q # p
      <4>1. staging'[q] = staging[q] /\ disk'[staging[q]] = disk[staging[q]]
        BY <1>5, <1>7, <1>8, <2>1, <2>2, <3>2
      <4> QED BY <1>11, <2>2, <4>1 DEF IInv, StagedApart
    <3> QED BY <3>1, <3>2
  <2>3. \A q, r \in Processes : q # r /\ staging'[q] # 0 => staging'[q] # staging'[r]
    BY <1>7, <1>8 DEF IInv, StagedApart
  <2> QED BY <2>2, <2>3 DEF StagedApart
<1>15. OpenedBy'
  <2>1. DOMAIN disk' = 1..Len(disk') /\ DOMAIN disk = 1..Len(disk)
    BY <1>2, <1>5 DEF CacheType
  <2>2. ASSUME NEW n \in 1..Len(disk'), NEW d \in disk'[n].by PROVE export'[d].writes # 0
    <3>1. CASE n = number
      BY <1>3, <1>5, <1>6, <1>8, <1>9, <1>10, <2>2, <3>1, <1>4 DEF Archive
    <3>2. CASE n # number
      <4>1. n \in 1..Len(disk) /\ disk'[n] = disk[n]
        BY <1>5, <1>12, <3>2
      <4>2. d \in Exports
        BY <1>2, <2>2, <4>1, ArchiveType
      <4> QED BY <1>10, <2>1, <2>2, <4>1, <4>2 DEF IInv, OpenedBy
    <3> QED BY <3>1, <3>2
  <2>3. ASSUME NEW d \in Exports, export'[d].at = "writing"
        PROVE  export'[d].writes # 0 /\ d \in disk'[export'[d].writes].by
    <3>1. CASE d = e
      BY <1>5, <1>6, <1>8, <1>9, <3>1
    <3>2. CASE d # e
      <4>1. export'[d] = export[d] /\ export[d].writes \in 1..Len(disk) /\ d \in disk[export[d].writes].by
        BY <1>2, <1>6, <2>3, <3>2 DEF IInv, OpenedBy, CacheType
      <4>2. CASE export[d].writes = number
        <5>1. old # 0 /\ number = old
          BY <1>3, <4>1, <4>2 DEF number
        <5>2. d \in opened.by
          BY <4>1, <4>2, <5>1 DEF opened
        <5> QED BY <1>5, <1>8, <4>1, <4>2, <5>2
      <4>3. CASE export[d].writes # number
        BY <1>5, <4>1, <4>3
      <4> QED BY <4>2, <4>3
    <3> QED BY <3>1, <3>2
  <2> QED BY <2>1, <2>2, <2>3 DEF OpenedBy
<1>16. LoneWriterHasIt'
  <2> SUFFICES ASSUME NEW d \in Exports, export'[d].at = "writing", Lone(d)'
               PROVE  /\ staging'[ProcessOf[d]] = export'[d].writes
                      /\ disk'[export'[d].writes].has = 1..export'[d].next - 1
    BY DEF LoneWriterHasIt
  <2>1. CASE d = e
    <3>1. 1..1 - 1 = {}
      OBVIOUS
    <3> QED BY <1>5, <1>6, <1>7, <1>9, <2>1, <3>1
  <2>2. CASE d # e
    <3>1. ProcessOf[d] # p /\ ProcessOf[d] \in Processes
      BY <1>6, <1>8, <2>2 DEF Lone, Processes
    <3>2. Lone(d)
      BY <1>6, <1>8, <1>10 DEF Lone
    <3>3. /\ export'[d] = export[d] /\ staging[ProcessOf[d]] = export[d].writes /\ export[d].writes # 0
          /\ disk[export[d].writes].has = 1..export[d].next - 1
      BY <1>6, <2>2, <3>2 DEF IInv, LoneWriterHasIt, OpenedBy
    <3>4. staging'[ProcessOf[d]] = staging[ProcessOf[d]] /\ export[d].writes # number /\ export[d].writes \in 1..Len(disk)
      BY <1>2, <1>7, <1>8, <3>1, <3>3 DEF CacheType
    <3> QED BY <1>5, <3>3, <3>4
  <2> QED BY <2>1, <2>2
<1>17. PublishedSound'
  <2>1. target # 0 => disk'[target] = disk[target]
    BY <1>5, <1>8, <1>11
  <2>2. \A archive : Sound(archive) => Sound(archive)'
    BY <1>10, CrowdStays
  <2> QED BY <1>6, <1>11, <2>1, <2>2 DEF IInv, PublishedSound
<1> QED BY <1>13, <1>14, <1>15, <1>16, <1>17 DEF IInv

LEMMA WritePieceInv == ASSUME IInv, NEW e \in Exports, WritePiece(e) PROVE IInv'
<1> DEFINE n == export[e].writes
           k == export[e].next
           fuller == [disk[n] EXCEPT !.has = @ \cup {k}]
<1>1. /\ export[e].at = "writing" /\ k <= Pieces /\ UNCHANGED <<staging, target>>
      /\ disk' = [disk EXCEPT ![n].has = @ \cup {k}]
      /\ export' = [export EXCEPT ![e].next = @ + 1]
  BY DEF WritePiece
<1>2. CacheType
  BY DEF IInv
<1>3. n \in 1..Len(disk) /\ k \in 1..Pieces /\ disk[n] \in Archive /\ e \in disk[n].by /\ disk \in Seq(Archive)
  BY <1>1, <1>2, CacheAssumption DEF IInv, CacheType, OpenedBy
<1>4. /\ fuller \in Archive /\ fuller.by = disk[n].by /\ fuller.has = disk[n].has \cup {k}
      /\ disk[n].has \subseteq Whole
  BY <1>3 DEF Archive, Whole
<1>5. disk' = [disk EXCEPT ![n] = fuller]
  BY <1>1, <1>3
<1> HIDE DEF fuller
<1>6. /\ disk' \in Seq(Archive) /\ Len(disk') = Len(disk) /\ DOMAIN disk' = DOMAIN disk /\ DOMAIN disk = 1..Len(disk)
      /\ disk'[n] = fuller /\ \A m \in 1..Len(disk) : m # n => disk'[m] = disk[m]
  BY <1>3, <1>4, <1>5, ExceptSeq
<1>7. \A m \in 1..Len(disk) : disk'[m].by = disk[m].by
  BY <1>4, <1>6
<1>8. /\ export' \in [Exports -> [at : Phases, writes : 0..Len(disk), next : 1..Pieces + 1, given : Archive]]
      /\ export'[e].next = k + 1
      /\ \A d \in Exports : d # e => export'[d] = export[d]
      /\ \A d \in Exports : export'[d].at = export[d].at /\ export'[d].writes = export[d].writes /\ export'[d].given = export[d].given
  <2>1. export \in [Exports -> [at : Phases, writes : 0..Len(disk), next : 1..Pieces + 1, given : Archive]]
    BY <1>2 DEF CacheType
  <2>2. k + 1 \in 1..Pieces + 1
    BY <1>3, CacheAssumption
  <2> QED BY <1>1, <2>1, <2>2
<1>9. CacheType'
  BY <1>1, <1>2, <1>6, <1>8 DEF CacheType
<1>10. \A p \in Processes : staging[p] # 0 => staging[p] \in 1..Len(disk)
  BY <1>2 DEF CacheType
<1>11. StagedApart'
  BY <1>1, <1>7, <1>10 DEF IInv, StagedApart
<1>12. OpenedBy'
  <2>1. \A m \in 1..Len(disk) : disk[m].by \subseteq Exports
    BY <1>2, ArchiveType
  <2>2. \A d \in Exports : export[d].at = "writing" => export[d].writes \in 1..Len(disk)
    BY <1>2 DEF IInv, OpenedBy, CacheType
  <2> QED BY <1>6, <1>7, <1>8, <2>1, <2>2 DEF IInv, OpenedBy
<1>13. LoneWriterHasIt'
  <2> SUFFICES ASSUME NEW d \in Exports, export'[d].at = "writing", Lone(d)'
               PROVE  /\ staging'[ProcessOf[d]] = export'[d].writes
                      /\ disk'[export'[d].writes].has = 1..export'[d].next - 1
    BY DEF LoneWriterHasIt
  <2>1. export[d].at = "writing" /\ Lone(d) /\ export'[d].writes = export[d].writes /\ staging' = staging
    BY <1>1, <1>8 DEF Lone
  <2>2. /\ staging[ProcessOf[d]] = export[d].writes /\ export[d].writes \in 1..Len(disk)
        /\ disk[export[d].writes].has = 1..export[d].next - 1
    BY <1>2, <2>1 DEF IInv, LoneWriterHasIt, OpenedBy, CacheType
  <2>3. CASE d = e
    <3>1. (1..k - 1) \cup {k} = 1..k + 1 - 1
      BY <1>3, CacheAssumption
    <3>2. disk'[n].has = (1..k - 1) \cup {k}
      BY <1>4, <1>6, <2>2, <2>3
    <3>3. export'[d].next = k + 1 /\ export[d].writes = n
      BY <1>8, <2>3
    <3>4. disk'[export'[d].writes].has = 1..export'[d].next - 1
      <4>1. export'[d].writes = n
        BY <2>1, <3>3
      <4>2. 1..export'[d].next - 1 = 1..k + 1 - 1
        <5>1. k \in Int
          BY <1>3, CacheAssumption
        <5> HIDE DEF k
        <5> QED BY <3>3, <5>1
      <4>3. disk'[n].has = 1..k + 1 - 1
        BY <3>1, <3>2, Zenon
      <4> HIDE DEF k, n
      <4> QED BY <4>1, <4>2, <4>3, Zenon
    <3> QED BY <2>1, <2>2, <3>4
  <2>4. CASE d # e /\ export[d].writes # n
    BY <1>6, <1>8, <2>1, <2>2, <2>4
  <2>5. CASE d # e /\ export[d].writes = n
    <3>1. ProcessOf[d] = ProcessOf[e] /\ export[e].writes # 0
      BY <1>1, <1>3, <2>2, <2>5 DEF IInv, StagedApart, Processes
    <3> QED BY <2>1, <2>5, <3>1 DEF Lone
  <2> QED BY <2>3, <2>4, <2>5
<1>14. PublishedSound'
  <2>1. \A archive : Sound(archive) => Sound(archive)'
    BY <1>8, CrowdStays
  <2>2. ASSUME target # 0 PROVE Sound(disk'[target])
    <3>1. target \in 1..Len(disk) /\ Sound(disk[target])
      BY <1>2, <2>2 DEF IInv, CacheType, PublishedSound
    <3>2. CASE target # n
      BY <1>6, <3>1, <3>2
    <3>3. CASE target = n
      <4>1. disk[n].has = Whole => fuller.has = Whole
        BY <1>3, <1>4 DEF Whole
      <4> QED BY <1>4, <1>6, <3>1, <3>3, <4>1 DEF Sound, Crowded
    <3> QED BY <3>2, <3>3
  <2>3. target # 0 => Sound(disk[target])'
    BY <1>1, <1>8, <2>2 DEF Sound, Crowded
  <2> QED BY <1>1, <1>8, <2>1, <2>3 DEF IInv, PublishedSound
<1> QED BY <1>9, <1>11, <1>12, <1>13, <1>14 DEF IInv

LEMMA PublishInv == ASSUME IInv, NEW e \in Exports, Publish(e) PROVE IInv'
<1> DEFINE p == ProcessOf[e]
           n == staging[p]
<1>1. CacheType /\ p \in Processes
  BY DEF IInv, Processes
<1>2. export \in [Exports -> [at : Phases, writes : 0..Len(disk), next : 1..Pieces + 1, given : Archive]]
  BY <1>1 DEF CacheType
<1>3. CASE n = 0
  <2>1. export' = [export EXCEPT ![e].at = "plain"] /\ UNCHANGED <<disk, staging, target>>
    BY <1>3 DEF Publish, Goes, Staging
  <2>2. "plain" \in Phases
    BY DEF Phases
  <2>3. export' \in [Exports -> [at : Phases, writes : 0..Len(disk), next : 1..Pieces + 1, given : Archive]]
    BY <1>2, <2>1, <2>2
  <2>4. export'[e].at = "plain" /\ export'[e].writes = export[e].writes /\ \A d \in Exports \ {e} : export'[d] = export[d]
    BY <1>2, <2>1
  <2> QED BY <2>1, <2>3, <2>4, OneMovesOn
<1>4. CASE n # 0
  <2>1. /\ export[e].at = "writing" /\ export[e].next > Pieces
        /\ target' = n /\ staging' = [staging EXCEPT ![p] = 0] /\ export' = [export EXCEPT ![e].at = "cached"]
        /\ UNCHANGED disk
    BY <1>4 DEF Publish, Goes, Staging
  <2>2. "cached" \in Phases
    BY DEF Phases
  <2>3. export' \in [Exports -> [at : Phases, writes : 0..Len(disk), next : 1..Pieces + 1, given : Archive]]
    BY <1>2, <2>1, <2>2
  <2>4. /\ export'[e].at = "cached" /\ \A d \in Exports \ {e} : export'[d] = export[d]
        /\ \A d \in Exports : export'[d].writes = export[d].writes
    BY <1>2, <2>1
  <2>5. /\ staging' \in [Processes -> 0..Len(disk)] /\ staging'[p] = 0
        /\ \A q \in Processes : q # p => staging'[q] = staging[q]
    BY <1>1, <2>1 DEF CacheType
  <2>6. CacheType'
    BY <1>1, <2>1, <2>3, <2>5 DEF CacheType
  <2>7. StagedApart'
    BY <1>1, <1>4, <2>1, <2>5 DEF IInv, StagedApart
  <2>8. OpenedBy'
    BY <2>1, <2>4 DEF IInv, OpenedBy
  <2>9. LoneWriterHasIt'
    <3> SUFFICES ASSUME NEW d \in Exports, export'[d].at = "writing", Lone(d)'
                 PROVE  /\ staging'[ProcessOf[d]] = export'[d].writes
                        /\ disk'[export'[d].writes].has = 1..export'[d].next - 1
      BY DEF LoneWriterHasIt
    <3>1. d # e /\ export'[d] = export[d] /\ Lone(d)
      BY <2>4 DEF Lone
    <3>2. export[e].writes # 0 /\ ProcessOf[d] \in Processes
      BY <2>1 DEF IInv, OpenedBy, Processes
    <3>3. ProcessOf[d] # p
      BY <3>1, <3>2 DEF Lone
    <3> QED BY <2>1, <2>5, <3>1, <3>2, <3>3 DEF IInv, LoneWriterHasIt
  <2>10. Sound(disk[n])
    <3>1. CASE Lone(e)
      <4>1. n = export[e].writes /\ disk[n].has = 1..export[e].next - 1
        BY <2>1, <3>1 DEF IInv, LoneWriterHasIt
      <4>2. 1..export[e].next - 1 = Whole
        BY <1>2, <2>1, CacheAssumption DEF Whole
      <4> QED BY <4>1, <4>2 DEF Sound
    <3>2. CASE ~Lone(e)
      <4>1. PICK d \in Exports : d # e /\ ProcessOf[d] = p /\ export[d].writes # 0
        BY <3>2 DEF Lone
      <4>2. PICK b \in disk[n].by : ProcessOf[b] = p
        BY <1>1, <1>4 DEF IInv, StagedApart
      <4>3. export[e].writes # 0
        BY <2>1 DEF IInv, OpenedBy
      <4> QED BY <4>1, <4>2, <4>3 DEF Sound, Crowded
    <3> QED BY <3>1, <3>2
  <2>11. PublishedSound'
    <3>1. \A archive : Sound(archive) => Sound(archive)'
      BY <2>4, CrowdStays
    <3>2. disk'[target'] = disk[n]
      BY <2>1
    <3>3. Sound(disk[target])'
      BY <2>4, <2>10, <3>2 DEF Sound, Crowded
    <3> QED BY <1>4, <2>1, <2>4, <3>1, <3>3 DEF IInv, PublishedSound
  <2> QED BY <2>6, <2>7, <2>8, <2>9, <2>11 DEF IInv
<1> QED BY <1>3, <1>4

LEMMA CacheNextInv == IInv /\ [CacheNext]_cacheVars => IInv'
<1> SUFFICES ASSUME IInv, [CacheNext]_cacheVars PROVE IInv'
  OBVIOUS
<1>1. CASE CacheNext
  BY <1>1, LookUpInv, OpenInv, WritePieceInv, PublishInv, BuildFailsInv, RunPandocInv, DieInv DEF CacheNext
<1>2. CASE UNCHANGED cacheVars
  BY <1>2 DEF cacheVars, IInv, CacheType, StagedApart, OpenedBy, LoneWriterHasIt, Lone, PublishedSound, Sound, Crowded
<1> QED BY <1>1, <1>2

(* The inductive invariant of the builds: a thread that builds alone in its process has its archive *)
(* as far as it wrote it, and what is published is whole or was shared.                             *)
THEOREM CacheInvariance == CacheSpec => []IInv
BY CacheInitInv, CacheNextInv, PTL DEF CacheSpec

(* A torn reference document is only ever given by a process in which two threads built at once: *)
(* processes do not clobber each other's archive, whichever fail or die (reference_docx_for).    *)
THEOREM ReferencesAreWhole == CacheSpec => []WholeReference
<1>1. IInv => WholeReference
  BY DEF IInv, PublishedSound, Sound, Crowded, WholeReference
<1> QED BY <1>1, CacheInvariance, PTL

-----------------------------------------------------------------------------
(* A session is at rest or has all of these. *)
Full(me) ==
  DOMAIN me = {"at", "file", "slide", "only", "ids", "wanted", "shows", "path", "left", "stuck", "calm"}

PathAt(me, i) == PicturePath(me.file, me.ids[i])

(* What any session is. *)
SessionType(me) ==
  /\ Full(me)
  /\ me.at \in {"listed", "shot", "cleaning", "answered", "failed"}
  /\ me.file \in Sources /\ me.only \in BOOLEAN /\ me.calm \in BOOLEAN
  /\ me.wanted \in SlideLists /\ me.ids = IdsOf(me.wanted)
  /\ me.at \in {"shot", "cleaning"} => ~me.only
  /\ me.at \in {"shot", "cleaning", "answered"} /\ ~me.only => me.path = PathAt(me, Position(me))
  /\ me.at \in {"cleaning", "answered"} /\ ~me.only => me.left \in Seq({me.ids[i] : i \in DOMAIN me.ids})
  /\ me.at = "answered" /\ ~me.only => me.left = <<>>

(* What one is that nobody disturbed: its picture is there, and what else is there of its slides *)
(* is still to go or could not be removed.                                                       *)
HasPicture(me, pics) ==
  /\ me.path \in DOMAIN pics /\ pics[me.path] = me.shows
  /\ \A i \in DOMAIN me.ids : PathAt(me, i) \in DOMAIN pics =>
       \/ PathAt(me, i) \in {me.path} \cup me.stuck
       \/ \E j \in DOMAIN me.left : me.left[j] = me.ids[i]

CalmOK(me, list, pics) ==
  /\ me.at = "listed" => list = me.wanted
  /\ me.at \in {"shot", "cleaning", "answered"} /\ ~me.only => me.shows = <<me.file, me.wanted[Position(me)].key>>
  /\ me.at \in {"cleaning", "answered"} /\ ~me.only => HasPicture(me, pics)

Rests(me) == me.at \in {"idle", "failed"}

SessionOK(me, sl, pics) ==
  me = Resting \/ (SessionType(me) /\ (me.calm /\ ~Rests(me) => CalmOK(me, sl[me.file], pics)))

(* A session is calm while every other one for its stem has answered. *)
CalmAlone ==
  \A s, t \in Sessions :
    s # t /\ ~Rests(session[s]) /\ ~Rests(session[t]) /\ session[s].calm /\ Stem[session[s].file] = Stem[session[t].file]
      => session[t].at = "answered"

RenderInv ==
  /\ slides \in [Sources -> SlideLists]
  /\ session = [s \in Sessions |-> session[s]]
  /\ \A s \in Sessions : SessionOK(session[s], slides, pictures)
  /\ CalmAlone

-----------------------------------------------------------------------------
(* Which slide is asked for depends on the name asked for and the slides listed. *)
LEMMA SamePosition ==
  ASSUME NEW me, NEW you, me.slide = you.slide, me.ids = you.ids
  PROVE  Position(me) = Position(you)
BY DEF Position, SelectInSeq

LEMMA SameFields ==
  ASSUME NEW me, NEW you, me.slide = you.slide, me.ids = you.ids, me.file = you.file
  PROVE  Position(me) = Position(you) /\ \A i : PathAt(me, i) = PathAt(you, i)
BY SamePosition DEF PathAt

LEMMA RenderInitInv == RenderInit => RenderInv
<1> SUFFICES ASSUME RenderInit PROVE RenderInv
  OBVIOUS
<1>1. slides \in [Sources -> SlideLists] /\ session = [s \in Sessions |-> Resting]
  BY DEF RenderInit
<1>2. \A s \in Sessions : session[s] = Resting /\ Rests(session[s])
  BY <1>1 DEF Resting, Rests
<1> QED BY <1>1, <1>2 DEF RenderInv, SessionOK, CalmAlone

(* One session goes on: it keeps its file, does not become calm, and the others find their       *)
(* pictures as they were.                                                                        *)
LEMMA OneGoesOn ==
  ASSUME RenderInv, NEW s \in Sessions, NEW new, session' = [session EXCEPT ![s] = new], UNCHANGED slides,
         SessionOK(new, slides, pictures'),
         ~Rests(new) => /\ session[s].at \in {"listed", "shot", "cleaning"}
                        /\ new.file = session[s].file /\ (new.calm => session[s].calm),
         \A t \in Sessions : t # s => SessionOK(session[t], slides, pictures')
  PROVE  RenderInv'
<1>1. /\ session' = [t \in Sessions |-> session'[t]] /\ session'[s] = new
      /\ \A t \in Sessions : t # s => session'[t] = session[t]
  BY DEF RenderInv
<1>2. \A t \in Sessions : SessionOK(session'[t], slides', pictures')
  BY <1>1
<1>3. CalmAlone'
  <2> SUFFICES ASSUME NEW u \in Sessions, NEW t \in Sessions, u # t, ~Rests(session'[u]), ~Rests(session'[t]),
                      session'[u].calm, Stem[session'[u].file] = Stem[session'[t].file]
               PROVE  session'[t].at = "answered"
    BY DEF CalmAlone, Rests
  <2>1. CASE u # s /\ t # s
    BY <1>1, <2>1 DEF RenderInv, CalmAlone
  <2>2. CASE u = s
    <3>1. session[u].calm /\ ~Rests(session[u]) /\ session[u].file = session'[u].file /\ session'[t] = session[t]
      BY <1>1, <2>2 DEF Rests
    <3> QED BY <2>2, <3>1 DEF RenderInv, CalmAlone
  <2>3. CASE t = s
    <3>1. ~Rests(session[t]) /\ session[t].file = session'[t].file /\ session'[u] = session[u] /\ session[t].at # "answered"
      BY <1>1, <2>3 DEF Rests
    <3> QED BY <2>3, <3>1 DEF RenderInv, CalmAlone
  <2> QED BY <2>1, <2>2, <2>3
<1>4. \A t \in Sessions : SessionOK(session[t], slides, pictures)'
  BY <1>2
<1> QED BY <1>1, <1>3, <1>4 DEF RenderInv

(* The fields of a session that goes on. *)
LEMMA Fields ==
  ASSUME NEW me, Full(me), NEW at
  PROVE  LET new == [me EXCEPT !.at = at]
         IN  /\ Full(new) /\ new.at = at /\ new.file = me.file /\ new.slide = me.slide /\ new.only = me.only
             /\ new.ids = me.ids /\ new.wanted = me.wanted /\ new.shows = me.shows /\ new.path = me.path
             /\ new.left = me.left /\ new.stuck = me.stuck /\ new.calm = me.calm
BY DEF Full

LEMMA FailsInv ==
  ASSUME RenderInv, NEW s \in Sessions, ~Rests(session[s]), Fails(s), UNCHANGED <<slides, pictures>>
  PROVE  RenderInv'
<1> DEFINE new == [session[s] EXCEPT !.at = "failed"]
<1>1. session' = [session EXCEPT ![s] = new]
  BY DEF Fails, Becomes
<1>2. SessionType(session[s])
  BY DEF RenderInv, SessionOK, Rests, Resting
<1>3. SessionType(new) /\ Rests(new)
  BY <1>2, Fields DEF SessionType, Rests
<1> HIDE DEF new
<1>4. SessionOK(new, slides, pictures')
  BY <1>3 DEF SessionOK
<1>5. \A t \in Sessions : SessionOK(session[t], slides, pictures')
  BY DEF RenderInv
<1> QED BY <1>1, <1>3, <1>4, <1>5, OneGoesOn

LEMMA LeaveInv == ASSUME RenderInv, NEW s \in Sessions, LeaveRender(s) PROVE RenderInv'
<1>1. session' = [session EXCEPT ![s] = Resting] /\ UNCHANGED <<slides, pictures>>
  BY DEF LeaveRender, Becomes
<1>2. SessionOK(Resting, slides, pictures') /\ Rests(Resting)
  BY DEF SessionOK, Rests, Resting
<1>3. \A t \in Sessions : SessionOK(session[t], slides, pictures')
  BY <1>1 DEF RenderInv
<1> QED BY <1>1, <1>2, <1>3, OneGoesOn

(* A session at work is a full one. *)
LEMMA AtWork ==
  ASSUME RenderInv, NEW s \in Sessions, session[s].at \notin {"idle", "failed"}
  PROVE  SessionType(session[s]) /\ (session[s].calm => CalmOK(session[s], slides[session[s].file], pictures))
BY DEF RenderInv, SessionOK, Rests, Resting

LEMMA ShootInv == ASSUME RenderInv, NEW s \in Sessions, Shoot(s) PROVE RenderInv'
<1> DEFINE me == session[s]
           at == Position(me)
           new == [me EXCEPT !.at = "shot", !.shows = <<me.file, slides[me.file][at].key>>,
                             !.path = PicturePath(me.file, me.ids[at])]
<1>1. me.at = "listed" /\ ~me.only /\ UNCHANGED <<slides, pictures>>
  BY DEF Shoot
<1>2. CASE Fails(s)
  BY <1>1, <1>2, FailsInv DEF Rests
<1>3. CASE session' = [session EXCEPT ![s] = new]
  <2>1. SessionType(me) /\ (me.calm => CalmOK(me, slides[me.file], pictures))
    BY <1>1, AtWork
  <2>2. /\ Full(new) /\ new.at = "shot" /\ new.file = me.file /\ new.slide = me.slide /\ new.only = me.only
        /\ new.ids = me.ids /\ new.wanted = me.wanted /\ new.shows = <<me.file, slides[me.file][at].key>>
        /\ new.path = PicturePath(me.file, me.ids[at]) /\ new.calm = me.calm
    <3>1. Full(me)
      BY <2>1 DEF SessionType
    <3> HIDE DEF at
    <3> QED BY <3>1 DEF Full
  <2>3. Position(new) = at /\ \A i : PathAt(new, i) = PathAt(me, i)
    BY <2>2, SameFields
  <2>4. SessionType(new)
    BY <1>1, <2>1, <2>2, <2>3 DEF SessionType, PathAt
  <2>5. ASSUME new.calm PROVE CalmOK(new, slides[new.file], pictures)
    <3>1. slides[me.file] = me.wanted
      BY <1>1, <2>1, <2>2, <2>5 DEF CalmOK
    <3> HIDE DEF new
    <3> QED BY <1>1, <2>2, <2>3, <3>1 DEF CalmOK
  <2> HIDE DEF new
  <2>6. SessionOK(new, slides, pictures')
    BY <1>1, <2>4, <2>5 DEF SessionOK
  <2>7. \A t \in Sessions : SessionOK(session[t], slides, pictures')
    BY <1>1 DEF RenderInv
  <2> QED BY <1>1, <1>3, <2>2, <2>6, <2>7, OneGoesOn
<1> QED BY <1>2, <1>3 DEF Shoot, Becomes

(* What one session does to its own pictures is not seen by a calm one, which has another stem. *)
LEMMA OthersKeepPictures ==
  ASSUME RenderInv, NEW s \in Sessions, session[s].at \in {"shot", "cleaning"}, NEW pics,
         \A p : p[1] # Stem[session[s].file] => (p \in DOMAIN pics <=> p \in DOMAIN pictures)
                                             /\ (p \in DOMAIN pictures => pics[p] = pictures[p])
  PROVE  \A t \in Sessions : t # s => SessionOK(session[t], slides, pics)
<1> SUFFICES ASSUME NEW t \in Sessions, t # s, SessionType(session[t]), session[t].calm, ~Rests(session[t])
             PROVE  CalmOK(session[t], slides[session[t].file], pics)
  BY DEF RenderInv, SessionOK
<1>1. CalmOK(session[t], slides[session[t].file], pictures)
  BY AtWork DEF Rests
<1>2. Stem[session[t].file] # Stem[session[s].file]
  BY DEF RenderInv, CalmAlone, Rests
<1>3. \A i : PathAt(session[t], i)[1] # Stem[session[s].file]
  BY <1>2 DEF PathAt, PicturePath
<1>4. ASSUME session[t].at \in {"cleaning", "answered"}, ~session[t].only PROVE HasPicture(session[t], pics)
  <2>1. HasPicture(session[t], pictures)
    BY <1>1, <1>4 DEF CalmOK
  <2>2. session[t].path = PathAt(session[t], Position(session[t]))
    BY <1>4 DEF SessionType
  <2>3. session[t].path \in DOMAIN pics /\ pics[session[t].path] = session[t].shows
    BY <1>3, <2>1, <2>2 DEF HasPicture
  <2>4. \A i : PathAt(session[t], i) \in DOMAIN pics => PathAt(session[t], i) \in DOMAIN pictures
    BY <1>3
  <2> QED BY <2>1, <2>3, <2>4 DEF HasPicture
<1> QED BY <1>1, <1>4 DEF CalmOK

LEMMA WritePictureInv == ASSUME RenderInv, NEW s \in Sessions, WritePicture(s) PROVE RenderInv'
<1> DEFINE me == session[s]
           new == [me EXCEPT !.at = "cleaning", !.left = me.ids]
<1>1. me.at = "shot" /\ UNCHANGED slides
  BY DEF WritePicture
<1>2. CASE Fails(s) /\ UNCHANGED pictures
  BY <1>1, <1>2, FailsInv DEF Rests
<1>3. CASE /\ pictures' = [p \in DOMAIN pictures \cup {me.path} |-> IF p = me.path THEN me.shows ELSE pictures[p]]
           /\ session' = [session EXCEPT ![s] = new]
  <2>1. SessionType(me) /\ (me.calm => CalmOK(me, slides[me.file], pictures))
    BY <1>1, AtWork
  <2>2. /\ Full(new) /\ new.at = "cleaning" /\ new.file = me.file /\ new.slide = me.slide /\ new.only = me.only
        /\ new.ids = me.ids /\ new.wanted = me.wanted /\ new.shows = me.shows
        /\ new.path = me.path /\ new.calm = me.calm /\ new.left = me.ids
    <3>1. Full(me)
      BY <2>1 DEF SessionType
    <3> QED BY <3>1 DEF Full
  <2> HIDE DEF new
  <2>3. Position(new) = Position(me) /\ \A i : PathAt(new, i) = PathAt(me, i)
    BY <2>2, SameFields
  <2>4. me.ids \in Seq({me.ids[i] : i \in DOMAIN me.ids})
    <3>1. me.wanted \in Seq({me.wanted[i] : i \in DOMAIN me.wanted}) /\ me.ids = [i \in DOMAIN me.wanted |-> me.wanted[i].id]
      BY <2>1, RenderAssumption DEF SessionType, IdsOf
    <3>2. DOMAIN me.wanted = 1..Len(me.wanted) /\ Len(me.wanted) \in Nat
      BY <3>1
    <3> DEFINE n == Len(me.wanted)
    <3>3. me.ids \in [1..n -> {me.ids[i] : i \in DOMAIN me.ids}] /\ n \in Nat
      BY <3>1, <3>2
    <3> HIDE DEF n
    <3> QED BY <3>3, SeqDef
  <2>5. SessionType(new)
    BY <1>1, <2>1, <2>2, <2>3, <2>4 DEF SessionType
  <2>6. ASSUME new.calm PROVE CalmOK(new, slides[new.file], pictures')
    <3>1. HasPicture(new, pictures')
      BY <1>3, <2>2 DEF HasPicture
    <3> QED BY <1>1, <2>1, <2>2, <2>3, <2>6, <3>1 DEF CalmOK, SessionType
  <2>7. SessionOK(new, slides, pictures')
    BY <2>5, <2>6 DEF SessionOK
  <2>8. me.path[1] = Stem[me.file]
    BY <1>1, <2>1 DEF SessionType, PathAt, PicturePath
  <2>9. \A p : p[1] # Stem[me.file] => (p \in DOMAIN pictures' <=> p \in DOMAIN pictures)
                                       /\ (p \in DOMAIN pictures => pictures'[p] = pictures[p])
    BY <1>3, <2>8
  <2>10. \A t \in Sessions : t # s => SessionOK(session[t], slides, pictures')
    BY <1>1, <2>9, OthersKeepPictures
  <2> QED BY <1>1, <1>3, <2>2, <2>7, <2>10, OneGoesOn
<1> QED BY <1>2, <1>3 DEF WritePicture, Becomes

LEMMA RemoveStaleInv == ASSUME RenderInv, NEW s \in Sessions, RemoveStale(s) PROVE RenderInv'
<1> DEFINE me == session[s]
           path == PicturePath(me.file, Head(me.left))
           S == {me.ids[i] : i \in DOMAIN me.ids}
<1>1. me.at = "cleaning" /\ me.left # <<>> /\ UNCHANGED slides
  BY DEF RemoveStale
<1>2. SessionType(me) /\ (me.calm => CalmOK(me, slides[me.file], pictures)) /\ me.left \in Seq(S) /\ ~me.only
  BY <1>1, AtWork DEF SessionType
<1>3. Tail(me.left) \in Seq(S) /\ Head(me.left) = me.left[1]
      /\ \A j \in DOMAIN me.left : j # 1 => \E k \in DOMAIN Tail(me.left) : Tail(me.left)[k] = me.left[j]
  <2>1. /\ Head(me.left) = me.left[1] /\ Tail(me.left) \in Seq(S) /\ Len(Tail(me.left)) = Len(me.left) - 1
        /\ \A k \in 1..Len(Tail(me.left)) : Tail(me.left)[k] = me.left[k + 1]
    <3> DEFINE l == me.left
    <3>1. l \in Seq(S) /\ l # <<>>
      BY <1>1, <1>2
    <3>2. Head(l) = l[1]
      OBVIOUS
    <3> HIDE DEF l, S
    <3>3. /\ Tail(l) \in Seq(S) /\ Len(Tail(l)) = Len(l) - 1
          /\ \A k \in 1..Len(Tail(l)) : Tail(l)[k] = l[k + 1]
      BY <3>1, HeadTailProperties
    <3> QED BY <3>2, <3>3 DEF l
  <2>2. DOMAIN me.left = 1..Len(me.left) /\ Len(me.left) \in Nat /\ DOMAIN Tail(me.left) = 1..Len(Tail(me.left))
    BY <1>2, <2>1
  <2>3. ASSUME NEW j \in DOMAIN me.left, j # 1 PROVE \E k \in DOMAIN Tail(me.left) : Tail(me.left)[k] = me.left[j]
    <3>1. j - 1 \in 1..Len(me.left) - 1 /\ j - 1 + 1 = j
      BY <2>2, <2>3
    <3> QED BY <2>1, <2>2, <3>1
  <2> QED BY <2>1, <2>3
<1>4. \A i : PathAt(me, i)[1] = Stem[me.file] /\ path[1] = Stem[me.file]
  BY DEF PathAt, PicturePath
<1>5. \A i \in DOMAIN me.ids : me.left[1] = me.ids[i] => PathAt(me, i) = path
  BY <1>3 DEF PathAt
<1> HIDE DEF path
<1>6. CASE /\ pictures' = (IF path = me.path THEN pictures ELSE Without(path))
           /\ session' = [session EXCEPT ![s] = [me EXCEPT !.left = Tail(@)]]
  <2> DEFINE new == [me EXCEPT !.left = Tail(me.left)]
  <2>1. session' = [session EXCEPT ![s] = new]
    BY <1>6
  <2>2. /\ Full(new) /\ new.at = "cleaning" /\ new.file = me.file /\ new.slide = me.slide /\ new.only = me.only
        /\ new.ids = me.ids /\ new.wanted = me.wanted /\ new.shows = me.shows
        /\ new.path = me.path /\ new.calm = me.calm /\ new.left = Tail(me.left) /\ new.stuck = me.stuck
    <3>1. Full(me)
      BY <1>2 DEF SessionType
    <3> QED BY <1>1, <3>1 DEF Full
  <2> HIDE DEF new
  <2>3. Position(new) = Position(me) /\ \A i : PathAt(new, i) = PathAt(me, i)
    BY <2>2, SameFields
  <2>4. SessionType(new)
    BY <1>1, <1>2, <1>3, <2>2, <2>3 DEF SessionType
  <2>5. \A p : p # path => (p \in DOMAIN pictures' <=> p \in DOMAIN pictures)
                            /\ (p \in DOMAIN pictures => pictures'[p] = pictures[p])
    BY <1>6 DEF Without
  <2>6. path # me.path => path \notin DOMAIN pictures'
    BY <1>6 DEF Without
  <2>7. path = me.path => pictures' = pictures
    BY <1>6
  <2>8. ASSUME new.calm PROVE CalmOK(new, slides[new.file], pictures')
    <3>1. CalmOK(me, slides[me.file], pictures) /\ HasPicture(me, pictures)
      BY <1>1, <1>2, <2>2, <2>8 DEF CalmOK
    <3>2. new.path \in DOMAIN pictures' /\ pictures'[new.path] = new.shows
      BY <2>2, <2>5, <2>7, <3>1 DEF HasPicture
    <3>3. ASSUME NEW i \in DOMAIN me.ids, PathAt(me, i) \in DOMAIN pictures', PathAt(me, i) \notin {me.path} \cup me.stuck
          PROVE  \E k \in DOMAIN Tail(me.left) : Tail(me.left)[k] = me.ids[i]
      <4>1. PathAt(me, i) # path
        BY <2>6, <3>3
      <4>2. PICK j \in DOMAIN me.left : me.left[j] = me.ids[i]
        BY <2>5, <3>1, <3>3, <4>1 DEF HasPicture
      <4>3. j # 1
        BY <1>5, <4>1, <4>2
      <4> QED BY <1>3, <4>2, <4>3
    <3>4. HasPicture(new, pictures')
      BY <2>2, <2>3, <3>2, <3>3 DEF HasPicture
    <3> QED BY <1>1, <2>2, <2>3, <3>1, <3>4 DEF CalmOK
  <2>9. SessionOK(new, slides, pictures')
    BY <2>4, <2>8 DEF SessionOK
  <2>10. \A p : p[1] # Stem[me.file] => (p \in DOMAIN pictures' <=> p \in DOMAIN pictures)
                                       /\ (p \in DOMAIN pictures => pictures'[p] = pictures[p])
    BY <1>4, <2>5
  <2>11. \A t \in Sessions : t # s => SessionOK(session[t], slides, pictures')
    BY <1>1, <2>10, OthersKeepPictures
  <2> QED BY <1>1, <2>1, <2>2, <2>9, <2>11, OneGoesOn
<1>7. CASE /\ path # me.path /\ path \in DOMAIN pictures /\ UNCHANGED pictures
           /\ session' = [session EXCEPT ![s] = [me EXCEPT !.left = Tail(@), !.stuck = @ \cup {path}]]
  <2> DEFINE new == [me EXCEPT !.left = Tail(me.left), !.stuck = me.stuck \cup {path}]
  <2>1. session' = [session EXCEPT ![s] = new]
    BY <1>7
  <2>2. /\ Full(new) /\ new.at = "cleaning" /\ new.file = me.file /\ new.slide = me.slide /\ new.only = me.only
        /\ new.ids = me.ids /\ new.wanted = me.wanted /\ new.shows = me.shows
        /\ new.path = me.path /\ new.calm = me.calm /\ new.left = Tail(me.left) /\ new.stuck = me.stuck \cup {path}
    <3>1. Full(me)
      BY <1>2 DEF SessionType
    <3> QED BY <1>1, <3>1 DEF Full
  <2> HIDE DEF new
  <2>3. Position(new) = Position(me) /\ \A i : PathAt(new, i) = PathAt(me, i)
    BY <2>2, SameFields
  <2>4. SessionType(new)
    BY <1>1, <1>2, <1>3, <2>2, <2>3 DEF SessionType
  <2>5. ASSUME new.calm PROVE CalmOK(new, slides[new.file], pictures')
    <3>1. CalmOK(me, slides[me.file], pictures) /\ HasPicture(me, pictures)
      BY <1>1, <1>2, <2>2, <2>5 DEF CalmOK
    <3>2. new.path \in DOMAIN pictures' /\ pictures'[new.path] = new.shows
      BY <1>7, <2>2, <3>1 DEF HasPicture
    <3>3. ASSUME NEW i \in DOMAIN me.ids, PathAt(me, i) \in DOMAIN pictures', PathAt(me, i) \notin {me.path} \cup me.stuck \cup {path}
          PROVE  \E k \in DOMAIN Tail(me.left) : Tail(me.left)[k] = me.ids[i]
      <4>1. PICK j \in DOMAIN me.left : me.left[j] = me.ids[i]
        BY <1>7, <3>1, <3>3 DEF HasPicture
      <4>2. j # 1
        BY <1>5, <3>3, <4>1
      <4> QED BY <1>3, <4>1, <4>2
    <3>4. HasPicture(new, pictures')
      BY <2>2, <2>3, <3>2, <3>3 DEF HasPicture
    <3> QED BY <1>1, <2>2, <2>3, <3>1, <3>4 DEF CalmOK
  <2>6. SessionOK(new, slides, pictures')
    BY <2>4, <2>5 DEF SessionOK
  <2>7. \A t \in Sessions : SessionOK(session[t], slides, pictures')
    BY <1>7 DEF RenderInv
  <2> QED BY <1>1, <2>1, <2>2, <2>6, <2>7, OneGoesOn
<1> QED BY <1>6, <1>7 DEF RemoveStale, Becomes, path

LEMMA AnswerRenderInv == ASSUME RenderInv, NEW s \in Sessions, AnswerRender(s) PROVE RenderInv'
<1> DEFINE me == session[s]
           new == [me EXCEPT !.at = "answered"]
<1>1. me.at = "cleaning" /\ me.left = <<>> /\ UNCHANGED <<slides, pictures>> /\ session' = [session EXCEPT ![s] = new]
  BY DEF AnswerRender, Becomes
<1>2. SessionType(me) /\ (me.calm => CalmOK(me, slides[me.file], pictures))
  BY <1>1, AtWork
<1>3. /\ Full(new) /\ new.at = "answered" /\ new.file = me.file /\ new.slide = me.slide /\ new.only = me.only
      /\ new.ids = me.ids /\ new.wanted = me.wanted /\ new.shows = me.shows /\ new.path = me.path
      /\ new.left = me.left /\ new.stuck = me.stuck /\ new.calm = me.calm
  BY <1>2, Fields DEF SessionType
<1> HIDE DEF new
<1>4. Position(new) = Position(me) /\ \A i : PathAt(new, i) = PathAt(me, i)
  BY <1>3, SameFields
<1>5. SessionType(new)
  BY <1>1, <1>2, <1>3, <1>4 DEF SessionType
<1>6. new.calm => CalmOK(new, slides[new.file], pictures)
  BY <1>1, <1>2, <1>3, <1>4 DEF CalmOK, HasPicture, SessionType
<1>7. SessionOK(new, slides, pictures')
  BY <1>1, <1>5, <1>6 DEF SessionOK
<1>8. \A t \in Sessions : SessionOK(session[t], slides, pictures')
  BY <1>1 DEF RenderInv
<1> QED BY <1>1, <1>3, <1>7, <1>8, OneGoesOn

LEMMA MeasureInv == ASSUME RenderInv, NEW s \in Sessions, Measure(s) PROVE RenderInv'
<1> DEFINE me == session[s]
           new == [me EXCEPT !.at = "answered"]
<1>1. me.at = "listed" /\ me.only /\ UNCHANGED <<slides, pictures>>
  BY DEF Measure
<1>2. CASE Fails(s)
  BY <1>1, <1>2, FailsInv DEF Rests
<1>3. CASE session' = [session EXCEPT ![s] = new]
  <2>1. SessionType(me)
    BY <1>1, AtWork
  <2>2. /\ Full(new) /\ new.at = "answered" /\ new.file = me.file /\ new.only = me.only
        /\ new.ids = me.ids /\ new.wanted = me.wanted /\ new.calm = me.calm
    BY <2>1, Fields DEF SessionType
  <2> HIDE DEF new
  <2>3. SessionType(new) /\ CalmOK(new, slides[new.file], pictures)
    BY <1>1, <2>1, <2>2 DEF SessionType, CalmOK
  <2>4. SessionOK(new, slides, pictures')
    BY <1>1, <2>3 DEF SessionOK
  <2>5. \A t \in Sessions : SessionOK(session[t], slides, pictures')
    BY <1>1 DEF RenderInv
  <2> QED BY <1>1, <1>3, <2>2, <2>4, <2>5, OneGoesOn
<1> QED BY <1>2, <1>3 DEF Measure, Becomes

(* A session that is no longer calm is as it was. *)
LEMMA Disturbed ==
  ASSUME NEW me, SessionType(me), NEW sl, NEW pics
  PROVE  LET new == [me EXCEPT !.calm = FALSE]
         IN  SessionOK(new, sl, pics) /\ new.at = me.at /\ new.file = me.file /\ ~new.calm
<1> DEFINE new == [me EXCEPT !.calm = FALSE]
<1>1. /\ Full(new) /\ new.at = me.at /\ new.file = me.file /\ new.slide = me.slide /\ new.only = me.only
      /\ new.ids = me.ids /\ new.wanted = me.wanted /\ new.path = me.path /\ new.left = me.left /\ new.calm = FALSE
  BY DEF SessionType, Full
<1> HIDE DEF new
<1>2. Position(new) = Position(me) /\ \A i : PathAt(new, i) = PathAt(me, i)
  BY <1>1, SameFields
<1>3. SessionType(new)
  BY <1>1, <1>2 DEF SessionType
<1>4. SessionOK(new, sl, pics)
  BY <1>1, <1>3 DEF SessionOK
<1> QED BY <1>1, <1>4 DEF new

LEMMA AskInv ==
  ASSUME RenderInv, NEW s \in Sessions, NEW file \in Sources, NEW slide \in SlideIds \cup {Nothing}, NEW only \in BOOLEAN,
         Ask(s, file, slide, only)
  PROVE  RenderInv'
<1> DEFINE others == SharesPictures(file)
           calm == \A t \in others : session[t].at = "answered"
           at == IF slides[file] = <<>> THEN "failed" ELSE "listed"
           asked == [at |-> "listed", file |-> file, slide |-> slide, only |-> only, ids |-> IdsOf(slides[file]), wanted |-> slides[file],
                     shows |-> Nothing, path |-> Nothing, left |-> <<>>, stuck |-> {}, calm |-> calm]
           new == [asked EXCEPT !.at = IF slides[file] = <<>> THEN "failed" ELSE @]
<1>1. /\ session[s] = Resting /\ UNCHANGED <<slides, pictures>>
      /\ session' = [t \in Sessions |-> IF t = s THEN new
                                        ELSE IF t \in others THEN [session[t] EXCEPT !.calm = FALSE] ELSE session[t]]
  BY DEF Ask
<1>2. calm \in BOOLEAN /\ at \in {"failed", "listed"} /\ slides[file] \in SlideLists
  BY DEF RenderInv
<1>3. others = {t \in Sessions : ~Rests(session[t]) /\ Stem[session[t].file] = Stem[file]}
  BY DEF SharesPictures, Rests
<1>4. calm => \A t \in others : session[t].at = "answered"
  OBVIOUS
<1> HIDE DEF calm, others
<1>5. /\ Full(new) /\ new.at = at /\ new.file = file /\ new.only = only /\ new.ids = IdsOf(slides[file])
      /\ new.wanted = slides[file] /\ new.calm = calm
  <2>1. /\ Full(asked) /\ asked.at = "listed" /\ asked.file = file /\ asked.only = only /\ asked.ids = IdsOf(slides[file])
        /\ asked.wanted = slides[file] /\ asked.calm = calm
    BY DEF Full
  <2> HIDE DEF asked
  <2> QED BY <2>1 DEF Full
<1> HIDE DEF asked, at
<1> HIDE DEF new
<1>6. SessionOK(new, slides, pictures)
  <2>1. SessionType(new)
    BY <1>2, <1>5 DEF SessionType
  <2>2. CalmOK(new, slides[new.file], pictures)
    BY <1>2, <1>5 DEF CalmOK
  <2> QED BY <2>1, <2>2 DEF SessionOK
<1>7. ASSUME NEW t \in Sessions, t # s
      PROVE  /\ SessionOK(session'[t], slides, pictures)
             /\ ~Rests(session'[t]) => /\ ~Rests(session[t]) /\ session'[t].at = session[t].at
                                       /\ session'[t].file = session[t].file
                                       /\ session'[t].calm => session[t].calm /\ t \notin others
  <2>1. CASE t \in others
    <3>1. SessionType(session[t])
      BY <1>3, <2>1, AtWork DEF Rests
    <3>2. session'[t] = [session[t] EXCEPT !.calm = FALSE]
      BY <1>1, <1>7, <2>1
    <3> QED BY <1>3, <2>1, <3>1, <3>2, Disturbed
  <2>2. CASE t \notin others
    BY <1>1, <1>7, <2>2 DEF RenderInv
  <2> QED BY <2>1, <2>2
<1>8. session'[s] = new /\ session' = [t \in Sessions |-> session'[t]]
  BY <1>1
<1>9. CalmAlone'
  <2> SUFFICES ASSUME NEW u \in Sessions, NEW t \in Sessions, u # t, ~Rests(session'[u]), ~Rests(session'[t]),
                      session'[u].calm, Stem[session'[u].file] = Stem[session'[t].file]
               PROVE  session'[t].at = "answered"
    BY DEF CalmAlone, Rests
  <2>1. CASE u # s /\ t # s
    BY <1>7, <2>1 DEF RenderInv, CalmAlone
  <2>2. CASE u = s
    <3>1. /\ calm /\ session'[u].file = file /\ session'[t].file = session[t].file
          /\ session'[t].at = session[t].at /\ ~Rests(session[t])
      BY <1>5, <1>7, <1>8, <2>2
    <3> QED BY <1>3, <1>4, <3>1
  <2>3. CASE t = s
    <3>1. session'[t].file = file /\ session'[u].file = session[u].file /\ u \notin others /\ ~Rests(session[u])
      BY <1>5, <1>7, <1>8, <2>3
    <3> QED BY <1>3, <3>1
  <2> QED BY <2>1, <2>2, <2>3
<1>10. \A t \in Sessions : SessionOK(session[t], slides, pictures)'
  BY <1>1, <1>6, <1>7, <1>8
<1>11. slides' \in [Sources -> SlideLists]
  BY <1>1 DEF RenderInv
<1> QED BY <1>8, <1>9, <1>10, <1>11 DEF RenderInv

LEMMA EditSlidesInv ==
  ASSUME RenderInv, NEW file \in Sources, NEW list \in SlideLists, EditSlides(file, list)
  PROVE  RenderInv'
<1>1. /\ slides' = [slides EXCEPT ![file] = list] /\ pictures' = pictures
      /\ session' = [s \in Sessions |->
           IF session[s].at = "listed" /\ session[s].file = file THEN [session[s] EXCEPT !.calm = FALSE] ELSE session[s]]
  BY DEF EditSlides
<1>2. slides' \in [Sources -> SlideLists] /\ \A f \in Sources : f # file => slides'[f] = slides[f]
  BY <1>1 DEF RenderInv
<1>3. session' = [s \in Sessions |-> session'[s]]
  BY <1>1
<1>4. ASSUME NEW s \in Sessions
      PROVE  /\ SessionOK(session'[s], slides', pictures')
             /\ session'[s].at = session[s].at
             /\ ~Rests(session[s]) => session'[s].file = session[s].file /\ (session'[s].calm => session[s].calm)
  <2>1. CASE session[s].at = "listed" /\ session[s].file = file
    <3>1. SessionType(session[s]) /\ session'[s] = [session[s] EXCEPT !.calm = FALSE]
      BY <1>1, <2>1, AtWork
    <3> QED BY <3>1, Disturbed
  <2>2. CASE ~(session[s].at = "listed" /\ session[s].file = file)
    <3>1. session'[s] = session[s]
      BY <1>1, <2>2
    <3>2. CASE session[s].at \in {"idle", "failed"}
      BY <1>1, <3>1, <3>2 DEF RenderInv, SessionOK, Rests
    <3>3. CASE session[s].at \notin {"idle", "failed"}
      <4>1. SessionType(session[s]) /\ (session[s].calm => CalmOK(session[s], slides[session[s].file], pictures))
        BY <3>3, AtWork
      <4>2. session[s].calm => CalmOK(session[s], slides'[session[s].file], pictures)
        BY <1>2, <2>2, <4>1 DEF CalmOK, SessionType
      <4> QED BY <1>1, <3>1, <4>1, <4>2 DEF SessionOK
    <3> QED BY <3>2, <3>3
  <2> QED BY <2>1, <2>2
<1>5. CalmAlone'
  BY <1>4 DEF RenderInv, CalmAlone, Rests
<1>6. \A s \in Sessions : SessionOK(session[s], slides, pictures)'
  BY <1>4
<1> QED BY <1>2, <1>3, <1>5, <1>6 DEF RenderInv

LEMMA RenderNextInv == RenderInv /\ [RenderNext]_renderVars => RenderInv'
<1> SUFFICES ASSUME RenderInv, [RenderNext]_renderVars PROVE RenderInv'
  OBVIOUS
<1>1. ASSUME NEW s \in Sessions, NEW file \in Sources, NEW slide \in SlideIds \cup {Nothing}, NEW only \in BOOLEAN,
             Ask(s, file, slide, only)
      PROVE  RenderInv'
  BY <1>1, AskInv
<1>2. ASSUME NEW s \in Sessions,
             Shoot(s) \/ WritePicture(s) \/ RemoveStale(s) \/ AnswerRender(s) \/ Measure(s) \/ LeaveRender(s)
      PROVE  RenderInv'
  BY <1>2, ShootInv, WritePictureInv, RemoveStaleInv, AnswerRenderInv, MeasureInv, LeaveInv
<1>3. ASSUME NEW file \in Sources, NEW list \in SlideLists, EditSlides(file, list) PROVE RenderInv'
  BY <1>3, EditSlidesInv
<1>4. CASE UNCHANGED renderVars
  <2>1. UNCHANGED <<slides, pictures, session>>
    BY <1>4 DEF renderVars
  <2> QED BY <2>1 DEF RenderInv, CalmAlone
<1> QED BY <1>1, <1>2, <1>3, <1>4 DEF RenderNext

(* The inductive invariant of the sessions: one that nobody disturbed is the only one at work on its *)
(* presentation's pictures, and the slide it shot is the one it listed.                              *)
THEOREM RenderInvariance == RenderSpec => []RenderInv
BY RenderInitInv, RenderNextInv, PTL DEF RenderSpec

(* An undisturbed session answers with a picture of the slide it was asked for, and without stale     *)
(* pictures of the presentation, for any names of slides, also when two make one path (remove_stale). *)
THEOREM PicturesShowTheirSlide == RenderSpec => []PictureShowsTheSlide
<1>1. ASSUME RenderInv, NEW s \in Sessions, session[s].at = "answered", ~session[s].only, session[s].calm
      PROVE  /\ session[s].path \in DOMAIN pictures
             /\ pictures[session[s].path] = <<session[s].file, session[s].wanted[Position(session[s])].key>>
             /\ \A i \in DOMAIN session[s].ids : PathAt(session[s], i) \in DOMAIN pictures
                                                   => PathAt(session[s], i) \in {session[s].path} \cup session[s].stuck
  <2>1. SessionType(session[s]) /\ CalmOK(session[s], slides[session[s].file], pictures)
    BY <1>1, AtWork
  <2>2. session[s].left = <<>> /\ DOMAIN <<>> = {}
    BY <1>1, <2>1 DEF SessionType
  <2> QED BY <1>1, <2>1, <2>2 DEF CalmOK, HasPicture
<1>2. RenderInv => PictureShowsTheSlide
  BY <1>1 DEF PictureShowsTheSlide, PathAt
<1> QED BY <1>2, RenderInvariance, PTL
=============================================================================
