------------------------- MODULE ServerProcessProofs -------------------------
(***************************************************************************)
(* Proofs about the processes of the editor, for any number of them, of    *)
(* files and of ports: their update flag first, then their servers; and    *)
(* about the connections of a server, for any number of them, any          *)
(* deadlines and answers of any length.                                    *)
(***************************************************************************)
EXTENDS ServerLifecycle, Connections, WellFoundedInduction, FiniteSetTheorems, TLAPS

Time == 0..now \cup {None}

StateType ==
  /\ now \in 0..MaxTime
  /\ last \in Targets /\ served \in [Procs -> Targets]
  /\ updates \in [Files -> Time]
  /\ memory \in [Procs -> [Targets -> Time]]
  /\ ends \in [Procs -> [Files -> Time]]
  /\ latest \in [Files -> [do : {"none", "start", "end"}, by : Procs \cup {None}, time : 0..now, kept : BOOLEAN]]

Before(t, time) == t = None \/ t < time

NotAfter(t, time) == t = None \/ t <= time

(* What the last start or end of a file's flag left, in the record and in the memories. *)
FlagOK(f) ==
  LET mark == latest[f]
  IN  /\ mark.do # "none" => mark.by \in Procs
      /\ mark.do = "start" /\ mark.kept =>
           /\ updates[f] = mark.time
           /\ \A q \in Procs : Before(ends[q][f], mark.time) /\ Before(memory[q][f], mark.time)
      /\ mark.do = "start" /\ ~mark.kept => memory[mark.by][f] = mark.time /\ NotAfter(updates[f], mark.time)
      /\ mark.do = "end" /\ mark.kept => updates[f] = None
      /\ mark.do = "end" /\ ~mark.kept => ends[mark.by][f] = mark.time /\ NotAfter(updates[f], mark.time)

FlagBasis == \A f \in Files : FlagOK(f)

FlagInv == StateType /\ FlagBasis

-----------------------------------------------------------------------------
(* The update flag *)

LEMMA FlagInit == StateInit => FlagInv
<1> SUFFICES ASSUME StateInit PROVE FlagInv
  OBVIOUS
<1>1. 0 \in 0..MaxTime /\ 0 \in 0..now /\ None \in Time /\ None \in Targets
  BY StateAssumption DEF StateInit, Time, Targets
<1>2. StateType
  BY <1>1 DEF StateInit, StateType, Unmarked
<1>3. FlagBasis
  BY DEF StateInit, FlagBasis, FlagOK, Unmarked
<1> QED BY <1>2, <1>3 DEF FlagInv

(* One entry of a table of tables changes. *)
LEMMA SetEntry ==
  ASSUME NEW A, NEW B, NEW V, NEW W, V \subseteq W, NEW m \in [A -> [B -> V]],
         NEW a \in A, NEW b \in B, NEW v \in W
  PROVE  /\ [m EXCEPT ![a][b] = v] \in [A -> [B -> W]]
         /\ \A x \in A, y \in B : [m EXCEPT ![a][b] = v][x][y] = IF x = a /\ y = b THEN v ELSE m[x][y]
OBVIOUS

LEMMA Grows ==
  ASSUME now \in Nat, now' = now + 1
  PROVE  Time \subseteq Time' /\ 0..now \subseteq 0..now' /\ now + 1 \in 0..now' /\ now + 1 \in Time' /\ None \in Time'
BY DEF Time

LEMMA TargetType == ASSUME StateType, NEW p \in Procs PROVE Target(p) \in Targets
BY DEF StateType, Target, Targets

(* A start or an end marks the flag of its target with an instant of its own. *)
LEMMA MarkType ==
  ASSUME StateType, now' = now + 1, now \in Nat, NEW target \in Targets, NEW do \in {"start", "end"}, NEW p \in Procs,
         NEW kept \in BOOLEAN, Mark(target, do, p, kept)
  PROVE  /\ latest' \in [Files -> [do : {"none", "start", "end"}, by : Procs \cup {None}, time : 0..now', kept : BOOLEAN]]
         /\ \A f \in Files \ {target} : latest'[f] = latest[f]
         /\ target # None => /\ latest'[target].do = do /\ latest'[target].by = p
                             /\ latest'[target].time = now + 1 /\ latest'[target].kept = kept
<1> DEFINE Marks(n) == [do : {"none", "start", "end"}, by : Procs \cup {None}, time : 0..n, kept : BOOLEAN]
           mark == [do |-> do, by |-> p, time |-> now + 1, kept |-> kept]
<1>1. latest \in [Files -> Marks(now)]
  BY DEF StateType
<1>2. Marks(now) \subseteq Marks(now')
  <2>1. 0..now \subseteq 0..now'
    BY Grows
  <2> QED BY <2>1
<1>3. mark \in Marks(now') /\ mark.do = do /\ mark.by = p /\ mark.time = now + 1 /\ mark.kept = kept
  BY Grows
<1>4. latest' = IF target = None THEN latest ELSE [latest EXCEPT ![target] = mark]
  BY DEF Mark
<1> HIDE DEF mark
<1>5. latest' \in [Files -> Marks(now')]
  <2> HIDE DEF Marks
  <2> QED BY <1>1, <1>2, <1>3, <1>4
<1>6. \A f \in Files \ {target} : latest'[f] = latest[f]
  BY <1>1, <1>4
<1>7. target # None => latest'[target] = mark
  BY <1>1, <1>4 DEF Targets
<1> QED BY <1>3, <1>5, <1>6, <1>7

LEMMA StartInv ==
  ASSUME FlagInv, NEW p \in Procs, NEW written \in BOOLEAN, StartUpdate(p, written) PROVE FlagInv'
<1> DEFINE target == Target(p)
           kept == target # None /\ written
<1>1. /\ StateType /\ now \in Nat /\ now' = now + 1 /\ now' \in 0..MaxTime
      /\ target \in Targets /\ kept \in BOOLEAN
  BY TargetType, StateAssumption DEF FlagInv, StateType, StartUpdate, Instant
<1>2. /\ memory' = [memory EXCEPT ![p][target] = IF kept THEN None ELSE now + 1]
      /\ ends' = IF target = None THEN ends ELSE [ends EXCEPT ![p][target] = None]
      /\ updates' = IF kept THEN [updates EXCEPT ![target] = now + 1] ELSE updates
      /\ Mark(target, "start", p, kept) /\ UNCHANGED <<last, served>>
  BY DEF StartUpdate
<1> HIDE DEF target, kept
<1>3. kept => target # None
  BY DEF kept
<1>4. /\ memory' \in [Procs -> [Targets -> Time']]
      /\ \A q \in Procs, t \in Targets : memory'[q][t] = IF q = p /\ t = target THEN (IF kept THEN None ELSE now + 1) ELSE memory[q][t]
  BY <1>1, <1>2, Grows, SetEntry DEF StateType
<1>5. /\ ends' \in [Procs -> [Files -> Time']]
      /\ \A q \in Procs, f \in Files : ends'[q][f] = IF q = p /\ f = target THEN None ELSE ends[q][f]
  <2>1. CASE target = None
    <3>1. target \notin Files
      BY <2>1, StateAssumption
    <3> QED BY <1>1, <1>2, <2>1, <3>1, Grows DEF StateType
  <2>2. CASE target # None
    <3>1. target \in Files
      BY <1>1, <2>2 DEF Targets
    <3> QED BY <1>1, <1>2, <2>2, <3>1, Grows, SetEntry DEF StateType
  <2> QED BY <2>1, <2>2
<1>6. /\ updates' \in [Files -> Time']
      /\ \A f \in Files : updates'[f] = IF kept /\ f = target THEN now + 1 ELSE updates[f]
  BY <1>1, <1>2, Grows DEF StateType
<1>7. /\ latest' \in [Files -> [do : {"none", "start", "end"}, by : Procs \cup {None}, time : 0..now', kept : BOOLEAN]]
      /\ \A f \in Files \ {target} : latest'[f] = latest[f]
      /\ target # None => /\ latest'[target].do = "start" /\ latest'[target].by = p
                          /\ latest'[target].time = now + 1 /\ latest'[target].kept = kept
  BY <1>1, <1>2, MarkType
<1>8. StateType'
  BY <1>1, <1>2, <1>4, <1>5, <1>6, <1>7 DEF StateType, Targets
<1>9. FlagBasis'
  <2> SUFFICES ASSUME NEW f \in Files PROVE FlagOK(f)'
    BY DEF FlagBasis
  <2>1. f \in Targets /\ f # None
    BY StateAssumption DEF Targets
  <2>2. CASE f = target
    <3>1. \A q \in Procs : ends[q][f] \in Time /\ memory[q][f] \in Time /\ updates[f] \in Time
      BY <1>1, <2>1 DEF StateType
    <3>2. /\ latest'[f].do = "start" /\ latest'[f].by = p
          /\ latest'[f].time = now + 1 /\ latest'[f].kept = kept
      BY <1>7, <2>1, <2>2
    <3>3. CASE kept
      <4>1. updates'[f] = now + 1 /\ memory'[p][f] = None /\ ends'[p][f] = None
        BY <1>4, <1>5, <1>6, <2>1, <2>2, <3>3
      <4>2. \A q \in Procs : Before(ends'[q][f], now + 1) /\ Before(memory'[q][f], now + 1)
        BY <1>1, <1>4, <1>5, <2>1, <2>2, <3>1, <3>3 DEF Before, Time
      <4> QED BY <3>2, <3>3, <4>1, <4>2 DEF FlagOK, Before
    <3>4. CASE ~kept
      <4>1. updates'[f] = updates[f] /\ memory'[p][f] = now + 1
        BY <1>4, <1>6, <2>1, <2>2, <3>4
      <4>2. NotAfter(updates'[f], now + 1)
        BY <1>1, <3>1, <4>1 DEF NotAfter, Time
      <4> QED BY <3>2, <3>4, <4>1, <4>2 DEF FlagOK, NotAfter
    <3> QED BY <3>3, <3>4
  <2>3. CASE f # target
    <3>1. \A q \in Procs : memory'[q][f] = memory[q][f] /\ ends'[q][f] = ends[q][f]
      BY <1>4, <1>5, <2>1, <2>3
    <3>2. updates'[f] = updates[f] /\ latest'[f] = latest[f]
      BY <1>6, <1>7, <2>3
    <3> QED BY <3>1, <3>2 DEF FlagInv, FlagBasis, FlagOK, Before, NotAfter
  <2> QED BY <2>2, <2>3
<1> QED BY <1>8, <1>9 DEF FlagInv

LEMMA EndInv ==
  ASSUME FlagInv, NEW p \in Procs, NEW removed \in BOOLEAN, EndUpdate(p, removed) PROVE FlagInv'
<1> DEFINE target == Target(p)
<1>1. /\ StateType /\ now \in Nat /\ now' = now + 1 /\ now' \in 0..MaxTime
      /\ target \in Targets
  BY TargetType, StateAssumption DEF FlagInv, StateType, EndUpdate, Instant
<1>2. /\ memory' = [memory EXCEPT ![p][target] = None]
      /\ updates' = IF target # None /\ removed THEN [updates EXCEPT ![target] = None] ELSE updates
      /\ ends' = IF target # None /\ ~removed THEN [ends EXCEPT ![p][target] = now + 1] ELSE ends
      /\ Mark(target, "end", p, removed) /\ UNCHANGED <<last, served>>
  BY DEF EndUpdate
<1> HIDE DEF target
<1>3. /\ memory' \in [Procs -> [Targets -> Time']]
      /\ \A q \in Procs, t \in Targets : memory'[q][t] = IF q = p /\ t = target THEN None ELSE memory[q][t]
  BY <1>1, <1>2, Grows, SetEntry DEF StateType
<1>4. /\ ends' \in [Procs -> [Files -> Time']]
      /\ \A q \in Procs, f \in Files :
           ends'[q][f] = IF ~removed /\ q = p /\ f = target THEN now + 1 ELSE ends[q][f]
  <2>1. CASE target = None \/ removed
    <3>1. target = None => target \notin Files
      BY StateAssumption
    <3> QED BY <1>1, <1>2, <2>1, <3>1, Grows DEF StateType
  <2>2. CASE target # None /\ ~removed
    <3>1. target \in Files
      BY <1>1, <2>2 DEF Targets
    <3> QED BY <1>1, <1>2, <2>2, <3>1, Grows, SetEntry DEF StateType
  <2> QED BY <2>1, <2>2
<1>5. /\ updates' \in [Files -> Time']
      /\ \A f \in Files : updates'[f] = IF removed /\ f = target THEN None ELSE updates[f]
  <2>1. target = None => target \notin Files
    BY StateAssumption
  <2> QED BY <1>1, <1>2, <2>1, Grows DEF StateType
<1>6. /\ latest' \in [Files -> [do : {"none", "start", "end"}, by : Procs \cup {None}, time : 0..now', kept : BOOLEAN]]
      /\ \A f \in Files \ {target} : latest'[f] = latest[f]
      /\ target # None => /\ latest'[target].do = "end" /\ latest'[target].by = p
                          /\ latest'[target].time = now + 1 /\ latest'[target].kept = removed
  BY <1>1, <1>2, MarkType
<1>7. StateType'
  BY <1>1, <1>2, <1>3, <1>4, <1>5, <1>6 DEF StateType, Targets
<1>8. FlagBasis'
  <2> SUFFICES ASSUME NEW f \in Files PROVE FlagOK(f)'
    BY DEF FlagBasis
  <2>1. f \in Targets /\ f # None
    BY StateAssumption DEF Targets
  <2>2. CASE f = target
    <3>1. updates[f] \in Time
      BY <1>1 DEF StateType
    <3>2. /\ latest'[f].do = "end" /\ latest'[f].by = p
          /\ latest'[f].time = now + 1 /\ latest'[f].kept = removed
      BY <1>6, <2>1, <2>2
    <3>3. removed => updates'[f] = None
      BY <1>5, <2>2
    <3>4. ~removed => ends'[p][f] = now + 1 /\ updates'[f] = updates[f]
      BY <1>4, <1>5, <2>2
    <3>5. NotAfter(updates[f], now + 1)
      BY <1>1, <3>1 DEF NotAfter, Time
    <3> QED BY <3>2, <3>3, <3>4, <3>5 DEF FlagOK, NotAfter
  <2>3. CASE f # target
    <3>1. \A q \in Procs : memory'[q][f] = memory[q][f] /\ ends'[q][f] = ends[q][f]
      BY <1>3, <1>4, <2>1, <2>3
    <3>2. updates'[f] = updates[f] /\ latest'[f] = latest[f]
      BY <1>5, <1>6, <2>3
    <3> QED BY <3>1, <3>2 DEF FlagInv, FlagBasis, FlagOK, Before, NotAfter
  <2> QED BY <2>2, <2>3
<1> QED BY <1>7, <1>8 DEF FlagInv

(* Nothing of the flag changes when only the clock moves or a file is served. *)
LEMMA RestInv ==
  ASSUME FlagInv, now' \in 0..MaxTime, now <= now', last' \in Targets, served' \in [Procs -> Targets],
         UNCHANGED <<updates, memory, ends, latest>>
  PROVE  FlagInv'
<1>1. StateType /\ now \in Nat /\ now' \in Nat
  BY StateAssumption DEF FlagInv, StateType
<1>2. Time \subseteq Time' /\ 0..now \subseteq 0..now'
  BY <1>1 DEF Time
<1>3. [do : {"none", "start", "end"}, by : Procs \cup {None}, time : 0..now, kept : BOOLEAN]
        \subseteq [do : {"none", "start", "end"}, by : Procs \cup {None}, time : 0..now', kept : BOOLEAN]
  BY <1>2
<1>4. [Targets -> Time] \subseteq [Targets -> Time'] /\ [Files -> Time] \subseteq [Files -> Time']
  BY <1>2
<1>5. StateType'
  BY <1>1, <1>2, <1>3, <1>4 DEF StateType, Targets
<1>6. FlagBasis'
  BY DEF FlagInv, FlagBasis, FlagOK, Before, NotAfter
<1> QED BY <1>5, <1>6 DEF FlagInv

LEMMA ForgetInv ==
  ASSUME FlagInv, NEW p \in Procs, Forget(p) PROVE FlagInv'
<1>1. /\ StateType /\ None \in Time /\ None \in Targets /\ 0 \in 0..now
      /\ UNCHANGED <<now, updates, last>>
  BY StateAssumption DEF FlagInv, StateType, Forget, Time, Targets
<1>2. /\ memory' \in [Procs -> [Targets -> Time]]
      /\ \A q \in Procs, t \in Targets : memory'[q][t] = IF q = p THEN None ELSE memory[q][t]
  <2>1. [t \in Targets |-> None] \in [Targets -> Time]
    BY <1>1
  <2> QED BY <1>1, <2>1 DEF StateType, Forget
<1>3. /\ ends' \in [Procs -> [Files -> Time]]
      /\ \A q \in Procs, f \in Files : ends'[q][f] = IF q = p THEN None ELSE ends[q][f]
  <2>1. [f \in Files |-> None] \in [Files -> Time]
    BY <1>1
  <2> QED BY <1>1, <2>1 DEF StateType, Forget
<1>4. Unmarked \in [do : {"none", "start", "end"}, by : Procs \cup {None}, time : 0..now, kept : BOOLEAN]
  BY <1>1 DEF Unmarked
<1>5. /\ latest' \in [Files -> [do : {"none", "start", "end"}, by : Procs \cup {None}, time : 0..now, kept : BOOLEAN]]
      /\ \A f \in Files : latest'[f] = IF latest[f].by = p THEN Unmarked ELSE latest[f]
  BY <1>1, <1>4 DEF StateType, Forget
<1>6. StateType'
  BY <1>1, <1>2, <1>3, <1>5 DEF StateType, Forget, Time, Targets
<1>7. FlagBasis'
  <2> SUFFICES ASSUME NEW f \in Files PROVE FlagOK(f)'
    BY DEF FlagBasis
  <2>1. CASE latest[f].by = p
    BY <1>5, <2>1 DEF FlagOK, Unmarked
  <2>2. CASE latest[f].by # p
    <3>1. latest'[f] = latest[f] /\ updates'[f] = updates[f] /\ f \in Targets
      BY <1>1, <1>5, <2>2 DEF Targets
    <3>2. \A q \in Procs \ {p} : memory'[q][f] = memory[q][f] /\ ends'[q][f] = ends[q][f]
      BY <1>2, <1>3, <3>1
    <3>3. memory'[p][f] = None /\ ends'[p][f] = None
      BY <1>2, <1>3, <3>1
    <3> QED BY <2>2, <3>1, <3>2, <3>3 DEF FlagInv, FlagBasis, FlagOK, Before, NotAfter
  <2> QED BY <2>1, <2>2
<1> QED BY <1>6, <1>7 DEF FlagInv

LEMMA SetFileInv ==
  ASSUME FlagInv, NEW p \in Procs, NEW f \in Targets, NEW written \in BOOLEAN, SetFile(p, f, written),
         UNCHANGED <<now, updates, memory, ends, latest>>
  PROVE  FlagInv'
<1>1. now \in Nat /\ now \in 0..MaxTime /\ last \in Targets /\ served \in [Procs -> Targets]
  BY StateAssumption DEF FlagInv, StateType
<1>2. last' \in Targets /\ served' \in [Procs -> Targets]
  BY <1>1 DEF SetFile
<1> QED BY <1>1, <1>2, RestInv

(* The flag a process sees is the one the last start or end left. *)
LEMMA FlagInvAgrees == FlagInv => FlagAgrees
<1> SUFFICES ASSUME FlagInv, NEW p \in Procs, Target(p) # None
             PROVE  LET mark == latest[Target(p)]
                    IN  /\ mark.do = "start" /\ mark.kept => (Updating(p) <=> now - mark.time < Lifetime)
                        /\ mark.do = "start" /\ ~mark.kept /\ mark.by = p => (Updating(p) <=> now - mark.time < Lifetime)
                        /\ mark.do = "end" /\ (mark.kept \/ mark.by = p) /\ memory[p][Target(p)] = None => ~Updating(p)
  BY DEF FlagAgrees
<1> DEFINE f == Target(p)
<1>1. f \in Files /\ f \in Targets /\ FlagOK(f)
  BY TargetType DEF FlagInv, FlagBasis, Targets
<1>2. /\ updates[f] \in Time /\ memory[p][f] \in Time /\ ends[p][f] \in Time
      /\ latest[f].time \in 0..now /\ now \in Nat /\ latest[f].kept \in BOOLEAN
  BY <1>1, StateAssumption DEF FlagInv, StateType
<1>3. None \notin Nat /\ Lifetime \in Nat /\ f # None
  BY StateAssumption
<1>4. StartedAt(p) = Later(RecordedStart(p, f), memory[p][f])
  BY DEF StartedAt
<1>5. \A time \in 0..now : StartedAt(p) = time => (Updating(p) <=> now - time < Lifetime)
  BY <1>2, <1>3 DEF Updating, ExpiresIn
<1>6. StartedAt(p) = None => ~Updating(p)
  BY DEF Updating, ExpiresIn
<1> HIDE DEF f
<1>7. CASE latest[f].do = "start" /\ latest[f].kept
  <2>1. updates[f] = latest[f].time /\ Before(ends[p][f], latest[f].time) /\ Before(memory[p][f], latest[f].time)
    BY <1>1, <1>7 DEF FlagOK
  <2>2. RecordedStart(p, f) = latest[f].time
    BY <1>2, <1>3, <2>1 DEF RecordedStart, Before, Time
  <2>3. StartedAt(p) = latest[f].time
    BY <1>2, <1>3, <1>4, <2>1, <2>2 DEF Later, Before, Time
  <2> QED BY <1>2, <1>5, <1>7, <2>3 DEF f
<1>8. CASE latest[f].do = "start" /\ ~latest[f].kept
  <2>1. latest[f].by = p => memory[p][f] = latest[f].time /\ NotAfter(updates[f], latest[f].time)
    BY <1>1, <1>8 DEF FlagOK
  <2>2. latest[f].by = p => NotAfter(RecordedStart(p, f), latest[f].time) /\ RecordedStart(p, f) \in Time
    BY <1>2, <2>1 DEF RecordedStart, NotAfter, Time
  <2>3. latest[f].by = p => StartedAt(p) = latest[f].time
    BY <1>2, <1>3, <1>4, <2>1, <2>2 DEF Later, NotAfter, Time
  <2> QED BY <1>2, <1>5, <1>8, <2>3 DEF f
<1>9. CASE latest[f].do = "end"
  <2>1. latest[f].kept => RecordedStart(p, f) = None
    BY <1>1, <1>9 DEF FlagOK, RecordedStart
  <2>2. ~latest[f].kept /\ latest[f].by = p => RecordedStart(p, f) = None
    BY <1>1, <1>2, <1>3, <1>9 DEF FlagOK, RecordedStart, NotAfter, Time
  <2>3. (latest[f].kept \/ latest[f].by = p) /\ memory[p][f] = None => StartedAt(p) = None
    BY <1>2, <1>4, <2>1, <2>2 DEF Later
  <2> QED BY <1>6, <1>9, <2>3 DEF f
<1>10. CASE latest[f].do \notin {"start", "end"}
  BY <1>10 DEF f
<1> QED BY <1>7, <1>8, <1>9, <1>10

-----------------------------------------------------------------------------
(* The servers *)

Life == [at : {"down", "starting", "binding", "up"}, file : Targets, port : Ports \cup {None},
         pid : Procs \cup {None}, tail : BOOLEAN]

LifeType ==
  /\ bound \in [Ports -> Procs \cup {None}]
  /\ records \in [Files -> [port : Ports \cup {None}, pid : Procs \cup {None}] \cup {None}]
  /\ life \in [Procs -> Life]
  /\ wrote \in [Files -> Procs \cup {None}]

PortsAgree ==
  /\ \A q \in Ports : bound[q] # None => life[bound[q]].at = "up" /\ life[bound[q]].port = q
  /\ \A p \in Procs : life[p].at = "up" => bound[life[p].port] = p
  /\ \A p \in Procs : life[p].at # "down" => life[p].port \in Ports

(* From its announcement on a server knows its process and its port, and the record of the file *)
(* it serves holds both, unless someone else wrote the record since.                             *)
RecordOK(p) ==
  /\ life[p].at \in {"binding", "up"} => life[p].pid = p
  /\ life[p].tail => life[p].at = "down"
  /\ life[p].at \in {"binding", "up"} /\ served[p] # None /\ wrote[served[p]] = p
       => records[served[p]] = [port |-> life[p].port, pid |-> p]

RecordsAgree == \A p \in Procs : RecordOK(p)

IInv == FlagInv /\ LifeType /\ PortsAgree /\ (OneAtATime => RecordsAgree)

LEMMA InitInv == LifeInit => IInv
<1> SUFFICES ASSUME LifeInit PROVE IInv
  OBVIOUS
<1>1. FlagInv
  BY FlagInit DEF LifeInit
<1>2. Down \in Life /\ Down.at = "down" /\ ~Down.tail
  BY DEF Down, Life, Targets
<1>3. LifeType
  BY <1>2 DEF LifeInit, LifeType
<1>4. PortsAgree /\ RecordsAgree
  BY <1>2 DEF LifeInit, PortsAgree, RecordsAgree, RecordOK
<1> QED BY <1>1, <1>3, <1>4 DEF IInv

LEMMA InvTypes ==
  ASSUME IInv
  PROVE  /\ FlagInv /\ LifeType /\ PortsAgree /\ (OneAtATime => RecordsAgree)
         /\ served \in [Procs -> Targets] /\ life \in [Procs -> Life] /\ \A p \in Procs : life[p] \in Life
BY DEF IInv, FlagInv, StateType, LifeType

LEMMA OneLife ==
  ASSUME life \in [Procs -> Life], NEW p \in Procs, NEW me \in Life, life' = [life EXCEPT ![p] = me]
  PROVE  life' \in [Procs -> Life] /\ life'[p] = me /\ \A q \in Procs \ {p} : life'[q] = life[q]
OBVIOUS

(* A process that is on no port moves between its start and its bind. *)
LEMMA PortsStand ==
  ASSUME IInv, NEW p \in Procs, NEW me \in Life, life' = [life EXCEPT ![p] = me], UNCHANGED bound,
         life[p].at = "up" \/ me.at = "up" => me.at = life[p].at /\ me.port = life[p].port,
         me.at # "down" => me.port \in Ports
  PROVE  PortsAgree'
<1>1. life' \in [Procs -> Life] /\ life'[p] = me /\ \A q \in Procs \ {p} : life'[q] = life[q]
  BY InvTypes, OneLife
<1>2. PortsAgree /\ bound \in [Ports -> Procs \cup {None}]
  BY DEF IInv, LifeType
<1> QED BY <1>1, <1>2 DEF PortsAgree

(* What a save leaves of the records. *)
LEMMA SaveType ==
  ASSUME LifeType, NEW p \in Procs, NEW f \in Targets, NEW me \in Life, NEW written \in BOOLEAN, Save(p, f, me, written)
  PROVE  /\ records' \in [Files -> [port : Ports \cup {None}, pid : Procs \cup {None}] \cup {None}]
         /\ wrote' \in [Files -> Procs \cup {None}]
<1>1. f # None => f \in Files
  BY DEF Targets
<1>2. [port |-> me.port, pid |-> me.pid] \in [port : Ports \cup {None}, pid : Procs \cup {None}]
  BY DEF Life
<1> QED BY <1>1, <1>2 DEF Save, LifeType

(* A save takes nothing from the record of another process but the claim to have written it. *)
LEMMA OthersRecordOK ==
  ASSUME LifeType, NEW p \in Procs, NEW f \in Targets, NEW me \in Life, NEW written \in BOOLEAN, Save(p, f, me, written),
         NEW q \in Procs \ {p}, served[q] \in Targets, RecordOK(q), life'[q] = life[q], served'[q] = served[q]
  PROVE  RecordOK(q)'
<1>1. served[q] # None => served[q] \in Files
  BY DEF Targets
<1>2. /\ \A g \in Files \ {f} : records'[g] = records[g] /\ wrote'[g] = wrote[g]
      /\ f # None => wrote'[f] \in {p, None}
  BY <1>1, StateAssumption DEF Save, LifeType, Targets
<1>3. CASE served[q] = f
  <2>1. f # None => wrote'[f] # q
    BY <1>2, StateAssumption
  <2> QED BY <1>3, <2>1 DEF RecordOK
<1>4. CASE served[q] # f
  <2>1. served[q] # None => records'[served[q]] = records[served[q]] /\ wrote'[served[q]] = wrote[served[q]]
    BY <1>1, <1>2, <1>4
  <2> QED BY <2>1 DEF RecordOK
<1> QED BY <1>3, <1>4

(* A port that can be bound now is found: there is a first one among those that are free. *)
LEMMA LeastNatural ==
  ASSUME NEW T \in SUBSET Nat, T # {}
  PROVE  \E m \in T : \A k \in T : m <= k
<1> DEFINE Below == {0..n : n \in T}
<1>1. IsWellFoundedOn(StrictSubsetOrdering(Nat), FiniteSubsetsOf(Nat))
  BY FS_StrictSubsetOrderingWellFounded
<1>2. Below \subseteq FiniteSubsetsOf(Nat)
  <2>1. ASSUME NEW n \in T PROVE 0..n \in FiniteSubsetsOf(Nat)
    <3>1. 0 \in Int /\ n \in Int
      OBVIOUS
    <3>2. IsFiniteSet(0..n)
      BY <3>1, FS_Interval
    <3> QED BY <3>2 DEF FiniteSubsetsOf
  <2> QED BY <2>1
<1>3. Below # {}
  OBVIOUS
<1> HIDE DEF Below
<1>4. PICK x \in Below : \A y \in Below : ~(<<y, x>> \in StrictSubsetOrdering(Nat))
  BY <1>1, <1>2, <1>3, WFMin
<1>5. PICK m \in T : x = 0..m
  BY DEF Below
<1>6. ASSUME NEW k \in T, k < m PROVE FALSE
  <2>1. 0..k \in Below /\ 0..k \subseteq 0..m /\ 0..k # 0..m /\ 0..m \subseteq Nat /\ 0..k \subseteq Nat
    BY <1>6 DEF Below
  <2> QED BY <1>4, <1>5, <2>1 DEF StrictSubsetOrdering
<1>7. \A k \in T : m <= k
  BY <1>6
<1> QED BY <1>7

LEMMA FirstFreeType ==
  ASSUME \E q \in Ports : Free(q) PROVE FirstFree \in Ports /\ Free(FirstFree)
<1> DEFINE free == {q \in Ports : Free(q)}
<1>1. free \in SUBSET Nat /\ free # {}
  BY PortAssumption
<1>2. PICK q \in free : \A r \in free : q <= r
  <2> HIDE DEF free
  <2> QED BY <1>1, LeastNatural
<1>3. \E q_1 \in Ports : Free(q_1) /\ \A r \in Ports : Free(r) => q_1 <= r
  BY <1>2
<1> QED BY <1>3 DEF FirstFree

LEMMA StartServerInv ==
  ASSUME IInv, NEW p \in Procs, NEW f \in Files, NEW asked \in Ports \cup {None}, StartServer(p, f, asked) PROVE IInv'
<1> DEFINE port == IF asked = None THEN FirstFree ELSE asked
           me == [life[p] EXCEPT !.at = "starting", !.file = f, !.port = port]
<1>1. port \in Ports
  BY FirstFreeType DEF StartServer
<1>2. /\ life[p].at = "down" /\ life[p] \in Life /\ life \in [Procs -> Life] /\ f \in Targets
      /\ life' = [life EXCEPT ![p] = me] /\ UNCHANGED <<stateVars, bound, records, wrote>>
      /\ OneAtATime => ~life[p].tail
  BY InvTypes DEF StartServer, Targets, Ready
<1> HIDE DEF port
<1>3. me \in Life
  <2>1. "starting" \in {"down", "starting", "binding", "up"} /\ port \in Ports \cup {None}
    BY <1>1
  <2> QED BY <1>2, <2>1, Zenon DEF Life
<1>4. me.at = "starting" /\ me.port = port /\ me.tail = life[p].tail
  BY <1>2 DEF Life
<1> HIDE DEF me
<1>5. life' \in [Procs -> Life] /\ life'[p] = me /\ \A q \in Procs \ {p} : life'[q] = life[q]
  BY <1>2, <1>3, OneLife
<1>6. PortsAgree'
  BY <1>1, <1>2, <1>3, <1>4, PortsStand
<1>7. LifeType'
  BY <1>2, <1>5, InvTypes DEF LifeType, Targets
<1>8. FlagInv'
  BY <1>2, InvTypes DEF stateVars, FlagInv, StateType, FlagBasis, FlagOK, Time, Before, NotAfter
<1>9. OneAtATime => RecordsAgree'
  BY <1>2, <1>4, <1>5, InvTypes DEF RecordsAgree, RecordOK, stateVars
<1> QED BY <1>6, <1>7, <1>8, <1>9 DEF IInv

(* A process that is announced, switched or stopped writes the record of the file it serves. *)
LEMMA SavedInv ==
  ASSUME IInv, FlagInv', NEW p \in Procs, NEW f \in Targets, NEW me \in Life, NEW written \in BOOLEAN,
         Save(p, f, me, written), life' = [life EXCEPT ![p] = me], UNCHANGED bound,
         life[p].at = "up" \/ me.at = "up" => me.at = life[p].at /\ me.port = life[p].port,
         me.at # "down" => me.port \in Ports,
         \A q \in Procs \ {p} : served'[q] = served[q],
         OneAtATime => /\ me.tail => me.at = "down"
                       /\ me.at \in {"binding", "up"} => me.pid = p /\ served'[p] = f
  PROVE  IInv'
<1>1. /\ LifeType /\ (OneAtATime => RecordsAgree) /\ life \in [Procs -> Life]
      /\ \A q \in Procs : served[q] \in Targets
  BY InvTypes
<1>2. life' \in [Procs -> Life] /\ life'[p] = me /\ \A q \in Procs \ {p} : life'[q] = life[q]
  BY <1>1, OneLife
<1>3. PortsAgree'
  BY PortsStand
<1>4. /\ records' \in [Files -> [port : Ports \cup {None}, pid : Procs \cup {None}] \cup {None}]
      /\ wrote' \in [Files -> Procs \cup {None}]
  BY <1>1, SaveType
<1>5. LifeType'
  BY <1>1, <1>2, <1>4 DEF LifeType, Targets, Life
<1>6. ASSUME OneAtATime, NEW q \in Procs \ {p} PROVE RecordOK(q)'
  BY <1>1, <1>2, <1>6, OthersRecordOK DEF RecordsAgree
<1>7. ASSUME OneAtATime PROVE RecordOK(p)'
  <2>1. ASSUME f # None, wrote'[f] = p PROVE records'[f] = [port |-> me.port, pid |-> me.pid]
    <3>1. f \in Files /\ p # None
      BY <2>1, StateAssumption DEF Targets
    <3>2. written
      BY <1>1, <2>1, <3>1 DEF Save, LifeType
    <3> QED BY <1>1, <2>1, <3>1, <3>2 DEF Save, LifeType
  <2> QED BY <1>2, <1>7, <2>1 DEF RecordOK
<1>8. (OneAtATime => RecordsAgree)'
  BY <1>6, <1>7 DEF RecordsAgree
<1> QED BY <1>3, <1>5, <1>8 DEF IInv

LEMMA AnnounceInv ==
  ASSUME IInv, NEW p \in Procs, NEW written \in BOOLEAN, Announce(p, written) PROVE IInv'
<1> DEFINE me == [life[p] EXCEPT !.at = "binding", !.pid = p]
<1>1. /\ life[p].at = "starting" /\ life[p] \in Life /\ life[p].port \in Ports
      /\ (OneAtATime => ~life[p].tail) /\ served \in [Procs -> Targets]
  BY InvTypes DEF Announce, PortsAgree, RecordsAgree, RecordOK
<1>2. me \in Life
  <2>1. "binding" \in {"down", "starting", "binding", "up"} /\ p \in Procs \cup {None}
    OBVIOUS
  <2> QED BY <1>1, <2>1, Zenon DEF Life
<1>3. me.at = "binding" /\ me.pid = p /\ me.port = life[p].port /\ me.tail = life[p].tail /\ me.file \in Targets
  BY <1>1, <1>2 DEF Life
<1>4. /\ SetFile(p, me.file, written) /\ Save(p, me.file, me, written) /\ life' = [life EXCEPT ![p] = me]
      /\ UNCHANGED <<now, updates, memory, ends, latest, bound>>
  BY DEF Announce
<1> HIDE DEF me
<1>5. served'[p] = me.file /\ \A q \in Procs \ {p} : served'[q] = served[q]
  BY <1>1, <1>4 DEF SetFile
<1>6. FlagInv'
  BY <1>3, <1>4, SetFileInv, InvTypes
<1> QED BY <1>1, <1>2, <1>3, <1>4, <1>5, <1>6, SavedInv

LEMMA SwitchInv ==
  ASSUME IInv, NEW p \in Procs, NEW f \in Files, NEW written \in BOOLEAN, Switch(p, f, written) PROVE IInv'
<1> DEFINE me == life[p]
<1>1. /\ me.at \in {"down", "up"} /\ me \in Life /\ f \in Targets /\ served \in [Procs -> Targets]
      /\ (OneAtATime => ~me.tail) /\ (me.at # "down" => me.port \in Ports)
      /\ (OneAtATime /\ me.at = "up" => me.pid = p)
  BY InvTypes DEF Switch, Ready, PortsAgree, RecordsAgree, RecordOK, Targets
<1>2. /\ SetFile(p, f, written) /\ Save(p, f, me, written)
      /\ UNCHANGED <<now, updates, memory, ends, latest, bound, life>>
  BY DEF Switch
<1>3. life' = [life EXCEPT ![p] = me]
  BY <1>2, InvTypes
<1> HIDE DEF me
<1>4. served'[p] = f /\ \A q \in Procs \ {p} : served'[q] = served[q]
  BY <1>1, <1>2 DEF SetFile
<1>5. FlagInv'
  BY <1>1, <1>2, SetFileInv, InvTypes
<1>6. life[p].at = "up" \/ me.at = "up" => me.at = life[p].at /\ me.port = life[p].port
  BY DEF me
<1>7. OneAtATime => /\ me.tail => me.at = "down"
                    /\ me.at \in {"binding", "up"} => me.pid = p /\ served'[p] = f
  BY <1>1, <1>4
<1>8. UNCHANGED bound /\ Save(p, f, me, written)
  BY <1>2
<1> QED BY <1>1, <1>3, <1>4, <1>5, <1>6, <1>7, <1>8, SavedInv

LEMMA StopTailInv ==
  ASSUME IInv, NEW p \in Procs, NEW written \in BOOLEAN, StopTail(p, written) PROVE IInv'
<1> DEFINE me == [life[p] EXCEPT !.pid = None, !.tail = FALSE]
<1>1. /\ life[p].tail /\ life[p] \in Life /\ (life[p].at # "down" => life[p].port \in Ports)
      /\ (OneAtATime => life[p].at = "down") /\ served[p] \in Targets
  BY InvTypes DEF StopTail, PortsAgree, RecordsAgree, RecordOK
<1>2. me \in Life
  <2>1. None \in Procs \cup {None} /\ FALSE \in BOOLEAN
    OBVIOUS
  <2> QED BY <1>1, <2>1, Zenon DEF Life
<1>3. me.at = life[p].at /\ me.port = life[p].port /\ ~me.tail
  BY <1>1 DEF Life
<1>4. Save(p, served[p], me, written) /\ life' = [life EXCEPT ![p] = me] /\ UNCHANGED <<stateVars, bound>>
  BY DEF StopTail
<1> HIDE DEF me
<1>5. UNCHANGED served /\ FlagInv'
  BY <1>4, InvTypes DEF stateVars, FlagInv, StateType, FlagBasis, FlagOK, Time, Before, NotAfter
<1> QED BY <1>1, <1>2, <1>3, <1>4, <1>5, SavedInv

(* A server gets the port it was announced with, or does not start. *)
LEMMA BindInv ==
  ASSUME IInv, NEW p \in Procs, Bind(p) PROVE IInv'
<1> DEFINE me(at) == [life[p] EXCEPT !.at = at]
<1>1. /\ life[p].at = "binding" /\ life[p] \in Life /\ life \in [Procs -> Life] /\ life[p].port \in Ports
      /\ LifeType /\ PortsAgree /\ (OneAtATime => RecordsAgree) /\ UNCHANGED <<stateVars, records, wrote>>
  BY InvTypes DEF Bind, PortsAgree
<1>2. \A at \in {"up", "down"} : /\ me(at) \in Life /\ me(at).at = at /\ me(at).port = life[p].port
                                /\ me(at).pid = life[p].pid /\ me(at).tail = life[p].tail
  BY <1>1 DEF Life
<1>3. PICK at \in {"up", "down"} :
        /\ life' = [life EXCEPT ![p] = me(at)]
        /\ IF at = "up" THEN Free(life[p].port) /\ bound' = [bound EXCEPT ![life[p].port] = p] ELSE UNCHANGED bound
  BY DEF Bind
<1> HIDE DEF me
<1>4. life' \in [Procs -> Life] /\ life'[p] = me(at) /\ \A q \in Procs \ {p} : life'[q] = life[q]
  BY <1>1, <1>2, <1>3, OneLife
<1>5. PortsAgree'
  <2>1. CASE at = "down"
    BY <1>1, <1>2, <1>3, <1>4, <2>1 DEF PortsAgree, LifeType
  <2>2. CASE at = "up"
    <3>1. /\ bound[life[p].port] = None
          /\ bound'[life[p].port] = p
          /\ \A q \in Ports \ {life[p].port} : bound'[q] = bound[q]
      BY <1>1, <1>3, <2>2 DEF Free, LifeType
    <3>2. \A q \in Procs \ {p} : life[q].at = "up" => life[q].port # life[p].port
      BY <1>1, <3>1, StateAssumption DEF PortsAgree
    <3> QED BY <1>1, <1>2, <1>4, <2>2, <3>1, <3>2 DEF PortsAgree, LifeType
  <2> QED BY <2>1, <2>2
<1>6. LifeType'
  BY <1>1, <1>3, <1>4 DEF LifeType, Targets, Life
<1>7. (OneAtATime => RecordsAgree)'
  BY <1>1, <1>2, <1>4 DEF RecordsAgree, RecordOK, stateVars
<1>8. FlagInv'
  BY <1>1, InvTypes DEF stateVars, FlagInv, StateType, FlagBasis, FlagOK, Time, Before, NotAfter
<1> QED BY <1>5, <1>6, <1>7, <1>8 DEF IInv

(* A process without a server holds no port. *)
LEMMA Released ==
  ASSUME IInv, NEW p \in Procs, NEW me \in Life, life' = [life EXCEPT ![p] = me], me.at = "down",
         bound' = [q \in Ports |-> IF bound[q] = p THEN None ELSE bound[q]]
  PROVE  /\ life' \in [Procs -> Life] /\ life'[p] = me /\ \A q \in Procs \ {p} : life'[q] = life[q]
         /\ bound' \in [Ports -> Procs \cup {None}] /\ PortsAgree'
<1>1. life' \in [Procs -> Life] /\ life'[p] = me /\ \A q \in Procs \ {p} : life'[q] = life[q]
  BY InvTypes, OneLife
<1>2. LifeType /\ PortsAgree
  BY InvTypes
<1>3. /\ bound' \in [Ports -> Procs \cup {None}]
      /\ \A q \in Ports : bound'[q] = IF bound[q] = p THEN None ELSE bound[q]
  BY <1>2 DEF LifeType
<1>4. PortsAgree'
  BY <1>1, <1>2, <1>3 DEF PortsAgree, LifeType
<1> QED BY <1>1, <1>3, <1>4

LEMMA StopInv ==
  ASSUME IInv, NEW p \in Procs, Stop(p) PROVE IInv'
<1> DEFINE me == [life[p] EXCEPT !.at = "down", !.tail = TRUE]
<1>1. /\ LifeType /\ (OneAtATime => RecordsAgree) /\ life[p] \in Life /\ life \in [Procs -> Life]
      /\ UNCHANGED <<stateVars, records, wrote>>
  BY InvTypes DEF Stop
<1>2. me \in Life
  <2>1. "down" \in {"down", "starting", "binding", "up"} /\ TRUE \in BOOLEAN
    OBVIOUS
  <2> QED BY <1>1, <2>1, Zenon DEF Life
<1>3. me.at = "down"
  BY <1>1 DEF Life
<1>4. /\ life' = [life EXCEPT ![p] = me]
      /\ bound' = [q \in Ports |-> IF bound[q] = p THEN None ELSE bound[q]]
  BY <1>1 DEF Stop
<1> HIDE DEF me
<1>5. /\ life' \in [Procs -> Life] /\ life'[p] = me /\ \A q \in Procs \ {p} : life'[q] = life[q]
      /\ bound' \in [Ports -> Procs \cup {None}] /\ PortsAgree'
  BY <1>2, <1>3, <1>4, Released
<1>6. LifeType'
  BY <1>1, <1>5 DEF LifeType, Targets, Life
<1>7. (OneAtATime => RecordsAgree)'
  BY <1>1, <1>3, <1>5 DEF RecordsAgree, RecordOK, stateVars
<1>8. FlagInv'
  BY <1>1, InvTypes DEF stateVars, FlagInv, StateType, FlagBasis, FlagOK, Time, Before, NotAfter
<1> QED BY <1>5, <1>6, <1>7, <1>8 DEF IInv

LEMMA ExitInv ==
  ASSUME IInv, NEW p \in Procs, Exit(p) PROVE IInv'
<1>1. /\ LifeType /\ (OneAtATime => RecordsAgree) /\ served \in [Procs -> Targets]
      /\ Forget(p) /\ UNCHANGED <<records, wrote>>
  BY InvTypes DEF Exit
<1>2. Down \in Life /\ Down.at = "down" /\ ~Down.tail
  BY DEF Down, Life, Targets
<1>3. /\ life' \in [Procs -> Life] /\ life'[p] = Down /\ \A q \in Procs \ {p} : life'[q] = life[q]
      /\ bound' \in [Ports -> Procs \cup {None}] /\ PortsAgree'
  BY <1>2, Released DEF Exit
<1>4. \A q \in Procs \ {p} : served'[q] = served[q]
  BY <1>1 DEF Forget
<1>5. LifeType'
  BY <1>1, <1>3 DEF LifeType, Targets, Life
<1>6. (OneAtATime => RecordsAgree)'
  BY <1>1, <1>2, <1>3, <1>4 DEF RecordsAgree, RecordOK
<1>7. FlagInv'
  BY <1>1, InvTypes, ForgetInv
<1> QED BY <1>3, <1>5, <1>6, <1>7 DEF IInv

(* The flag is none of the servers' business. *)
LEMMA FlagOnly ==
  ASSUME IInv, FlagInv', UNCHANGED <<served, lifeVars>> PROVE IInv'
BY DEF IInv, LifeType, PortsAgree, RecordsAgree, RecordOK, lifeVars, Targets, Life

LEMMA NextInv == IInv /\ [ProcessNext]_processVars => IInv'
<1> SUFFICES ASSUME IInv, [ProcessNext]_processVars PROVE IInv'
  OBVIOUS
<1>1. CASE Tick /\ UNCHANGED lifeVars
  <2>1. now' \in 0..MaxTime /\ now <= now' /\ last \in Targets /\ served \in [Procs -> Targets]
    BY <1>1, InvTypes, StateAssumption DEF FlagInv, StateType, Tick, Instant
  <2>2. FlagInv'
    BY <1>1, <2>1, InvTypes, RestInv DEF Tick
  <2> QED BY <1>1, <2>2, FlagOnly DEF Tick
<1>2. ASSUME NEW p \in Procs, FlagStep(p), UNCHANGED lifeVars PROVE IInv'
  <2>1. PICK kept \in BOOLEAN : StartUpdate(p, kept) \/ EndUpdate(p, kept)
    BY <1>2 DEF FlagStep
  <2>2. FlagInv'
    BY <2>1, InvTypes, StartInv, EndInv
  <2>3. UNCHANGED served
    BY <2>1 DEF StartUpdate, EndUpdate
  <2> QED BY <1>2, <2>2, <2>3, FlagOnly
<1>3. ASSUME NEW p \in Procs, LifeStep(p) PROVE IInv'
  BY <1>3, StartServerInv, AnnounceInv, BindInv, SwitchInv, StopInv, StopTailInv, ExitInv DEF LifeStep
<1>4. CASE UNCHANGED processVars
  <2>1. FlagInv'
    BY <1>4, InvTypes DEF processVars, stateVars, FlagInv, StateType, FlagBasis, FlagOK, Time, Before, NotAfter
  <2> QED BY <1>4, <2>1, FlagOnly DEF processVars, stateVars
<1> QED BY <1>1, <1>2, <1>3, <1>4 DEF ProcessNext

(* The inductive invariant of the processes: their flag, their ports and their records. *)
THEOREM Invariance == ProcessSpec => []IInv
<1> QED BY InitInv, NextInv, PTL DEF ProcessSpec

(* No two servers hold one port, and every server that is up holds the port its state names: the *)
(* port was looked for before the start and bound after it (find_free_port, start_http_server).   *)
THEOREM PortsAreExclusive == ProcessSpec => []ProcessTypeOK
<1>1. IInv => ProcessTypeOK
  <2> SUFFICES ASSUME IInv PROVE ProcessTypeOK
    OBVIOUS
  <2>1. StateType /\ PortsAgree
    BY DEF IInv, FlagInv
  <2>2. now \in Nat /\ Lifetime \in Nat /\ None \notin Nat
    BY <2>1, StateAssumption DEF StateType
  <2>3. ASSUME NEW p \in Procs PROVE ExpiresIn(p) \in 1..Lifetime \cup {None}
    <3>1. /\ memory[p][Target(p)] \in Time
          /\ Target(p) # None => updates[Target(p)] \in Time
      BY <2>1, TargetType DEF StateType, Targets
    <3>2. RecordedStart(p, Target(p)) \in Time
      BY <3>1 DEF RecordedStart, Time
    <3>3. StartedAt(p) \in Time
      BY <3>1, <3>2 DEF StartedAt, Later
    <3> QED BY <2>2, <3>3 DEF ExpiresIn, Time
  <2> QED BY <2>1, <2>3 DEF ProcessTypeOK, StateType, PortsAgree, Time
<1> QED BY <1>1, Invariance, PTL

(* The record of a file names the server of the process that wrote it last and still serves it, *)
(* as long as a process runs its tool calls one after the other.                                *)
THEOREM RecordsNameServers == ASSUME OneAtATime PROVE ProcessSpec => []RecordNamesServer
<1>1. IInv => RecordNamesServer
  BY DEF IInv, RecordsAgree, RecordOK, RecordNamesServer
<1> QED BY <1>1, Invariance, PTL

(* The update flag means the same to every process that serves the file, whoever raised or dropped *)
(* it, whatever could not be written or removed, and whichever processes ended since.               *)
THEOREM FlagsAgree == ProcessSpec => []FlagAgrees
<1>1. IInv => FlagAgrees
  BY FlagInvAgrees DEF IInv
<1> QED BY <1>1, Invariance, PTL

-----------------------------------------------------------------------------
(* Connections *)

Places == {"none", "accepted", "line", "headers", "body", "run", "answering", "ending", "finishing", "closed"}

Conn == [at : Places, got : BOOLEAN, left : Nat, age : Nat, shut : BOOLEAN, chunks : Int,
         began : BOOLEAN, ran : BOOLEAN, client : {"there", "gone", "late"}]

ConnType ==
  /\ conn \in [Conns -> Conn]
  /\ closing \in BOOLEAN /\ listening \in BOOLEAN

(* The registry knows a connection from its add to its remove, as busy from its begin_request *)
(* to its end_request.                                                                         *)
Registered(c) == conn[c].at \notin {"none", "accepted", "closed"}

RegistryAgrees ==
  /\ busy \in [{c \in Conns : Registered(c)} -> BOOLEAN]
  /\ \A c \in Conns : Registered(c) => (busy[c] <=> conn[c].began /\ conn[c].at # "finishing")

(* How far a connection has come. *)
Progress ==
  \A c \in Conns :
    /\ conn[c].at \in {"none", "accepted", "line", "headers"} => ~conn[c].began
    /\ conn[c].at \in {"body", "run"} => conn[c].began /\ ~conn[c].ran
    /\ conn[c].ran => conn[c].began
    /\ conn[c].at \in {"none", "accepted"} => ~conn[c].got /\ conn[c].age = 0
    /\ conn[c].at \in {"headers", "body"} => conn[c].got
    /\ conn[c].shut => closing

(* The wait under way ends inside the bound of its phase. *)
WaitInBounds ==
  \A c \in Conns :
    conn[c].at \in Receiving =>
      conn[c].age + conn[c].left <= IF conn[c].got THEN TotalSeconds ELSE WaitSeconds

ConnInv == ConnType /\ RegistryAgrees /\ Progress /\ WaitInBounds /\ StopIsClean /\ IdleIsShut

-----------------------------------------------------------------------------

LEMMA ConnInitInv == ConnInit => ConnInv
<1> SUFFICES ASSUME ConnInit PROVE ConnInv
  OBVIOUS
<1>1. Fresh \in Conn
  BY ConnectionAssumption DEF Fresh, Conn, Places
<1>2. \A c \in Conns : conn[c] = Fresh /\ conn[c].at = "none" /\ ~conn[c].began /\ ~conn[c].ran
                         /\ ~conn[c].got /\ conn[c].age = 0 /\ ~conn[c].shut
  BY DEF ConnInit, Fresh
<1>3. ConnType
  BY <1>1 DEF ConnInit, ConnType
<1>4. RegistryAgrees
  BY <1>2 DEF ConnInit, RegistryAgrees, Registered
<1>5. Progress /\ WaitInBounds /\ StopIsClean /\ IdleIsShut
  BY <1>2 DEF ConnInit, Progress, WaitInBounds, Receiving, StopIsClean, IdleIsShut
<1> QED BY <1>3, <1>4, <1>5 DEF ConnInv

(* _arm keeps both bounds of a connection whose first byte came. *)
LEMMA ArmType ==
  ASSUME NEW age \in Nat, age <= TotalSeconds
  PROVE  Arm(age) \in Nat /\ age + Arm(age) <= TotalSeconds
BY ConnectionAssumption DEF Arm, Shorter

(* What has to hold of one connection. *)
ConnOK(me) ==
  /\ me \in Conn
  /\ me.at \in {"none", "accepted", "line", "headers"} => ~me.began
  /\ me.at \in {"body", "run"} => me.began /\ ~me.ran
  /\ me.ran => me.began
  /\ me.at \in {"none", "accepted"} => ~me.got /\ me.age = 0
  /\ me.at \in {"headers", "body"} => me.got
  /\ me.at \in Receiving => me.age + me.left <= IF me.got THEN TotalSeconds ELSE WaitSeconds
  /\ me.at \in {"body", "run", "answering"} /\ me.began => ~me.shut
  /\ me.at \in {"ending", "finishing", "closed"} /\ me.client = "there" /\ me.chunks > 0 => ~me.ran
  /\ me.shut => closing
  /\ closing /\ me.at \in {"line", "headers"} => me.shut

LEMMA InvIsOK ==
  ConnType /\ Progress /\ WaitInBounds /\ StopIsClean /\ IdleIsShut
    <=> /\ conn \in [Conns -> Conn] /\ closing \in BOOLEAN /\ listening \in BOOLEAN
        /\ \A c \in Conns : ConnOK(conn[c])
BY DEF ConnType, Progress, WaitInBounds, StopIsClean, IdleIsShut, ConnOK

(* A connection moves inside the registry, without becoming busy or free. *)
LEMMA ConnMoves ==
  ASSUME ConnInv, NEW c \in Conns, NEW me, ConnOK(me), conn' = [conn EXCEPT ![c] = me], Keep,
         me.began = conn[c].began,
         Registered(c) <=> me.at \notin {"none", "accepted", "closed"},
         conn[c].at = "finishing" <=> me.at = "finishing"
  PROVE  ConnInv'
<1>1. conn \in [Conns -> Conn] /\ me \in Conn /\ \A d \in Conns : ConnOK(conn[d])
  BY InvIsOK DEF ConnInv, ConnOK
<1>2. /\ conn' \in [Conns -> Conn] /\ conn'[c] = me
      /\ \A d \in Conns \ {c} : conn'[d] = conn[d]
  BY <1>1
<1>3. \A d \in Conns : ConnOK(conn[d])'
  BY <1>1, <1>2 DEF ConnOK, Keep
<1>4. (ConnType /\ Progress /\ WaitInBounds /\ StopIsClean /\ IdleIsShut)'
  BY <1>2, <1>3 DEF ConnType, Progress, WaitInBounds, StopIsClean, IdleIsShut, ConnOK, Keep, ConnInv
<1>5. \A d \in Conns : Registered(d)' <=> Registered(d)
  BY <1>2 DEF Registered
<1>6. RegistryAgrees'
  BY <1>2, <1>5 DEF RegistryAgrees, Keep, ConnInv
<1> QED BY <1>4, <1>6 DEF ConnInv

-----------------------------------------------------------------------------
(* The steps of a connection that leave the registry alone *)

LEMMA ConnIsOK ==
  ASSUME ConnInv, NEW c \in Conns PROVE ConnOK(conn[c]) /\ conn[c] \in Conn /\ conn \in [Conns -> Conn]
BY InvIsOK DEF ConnInv, ConnOK

LEMMA AcceptInv ==
  ASSUME ConnInv, NEW c \in Conns, Accept(c) PROVE ConnInv'
<1> DEFINE me == [conn[c] EXCEPT !.at = "accepted"]
<1>1. ConnOK(conn[c]) /\ conn[c] \in Conn /\ conn[c].at = "none"
  BY ConnIsOK DEF Accept
<1>2. /\ me \in Conn /\ me.at = "accepted" /\ me.got = conn[c].got /\ me.age = conn[c].age
      /\ me.began = conn[c].began /\ me.ran = conn[c].ran /\ me.shut = conn[c].shut
  BY <1>1 DEF Conn, Places
<1>3. conn' = [conn EXCEPT ![c] = me] /\ Keep
  BY DEF Accept, Going
<1> HIDE DEF me
<1>4. ConnOK(me)
  BY <1>1, <1>2 DEF ConnOK, Receiving
<1> QED BY <1>1, <1>2, <1>3, <1>4, ConnMoves DEF Registered

(* A byte comes while a wait is under way: the next wait is armed inside the second bound. *)
LEMMA Armed ==
  ASSUME ConnInv, NEW c \in Conns, conn[c].at \in Receiving
  PROVE  LET age == IF conn[c].got THEN conn[c].age ELSE 0
         IN  age \in Nat /\ Arm(age) \in Nat /\ age + Arm(age) <= TotalSeconds
<1> DEFINE age == IF conn[c].got THEN conn[c].age ELSE 0
<1>1. age \in Nat /\ age <= TotalSeconds
  BY ConnIsOK, ConnectionAssumption DEF ConnOK, Conn
<1> QED BY <1>1, ArmType

LEMMA ReceiveInv ==
  ASSUME ConnInv, NEW c \in Conns, Receive(c) PROVE ConnInv'
<1> DEFINE age == IF conn[c].got THEN conn[c].age ELSE 0
           me == [conn[c] EXCEPT !.got = TRUE, !.age = age, !.left = Arm(age)]
<1>1. ConnOK(conn[c]) /\ conn[c] \in Conn /\ conn \in [Conns -> Conn] /\ conn[c].at \in Receiving
  BY ConnIsOK DEF Receive, Bytes
<1>2. age \in Nat /\ Arm(age) \in Nat /\ age + Arm(age) <= TotalSeconds
  BY <1>1, Armed
<1>3. conn' = [conn EXCEPT ![c] = me] /\ Keep
  BY <1>1 DEF Receive
<1> HIDE DEF age
<1>4. me \in Conn
  BY <1>1, <1>2, Zenon DEF Conn
<1>5. /\ me.at = conn[c].at /\ me.got /\ me.age = age /\ me.left = Arm(age)
      /\ me.began = conn[c].began /\ me.ran = conn[c].ran /\ me.shut = conn[c].shut
  BY <1>1, <1>2 DEF Conn
<1> HIDE DEF me
<1>6. ConnOK(me)
  BY <1>1, <1>2, <1>4, <1>5 DEF ConnOK, Receiving
<1> QED BY <1>1, <1>3, <1>5, <1>6, ConnMoves DEF Registered, Receiving

(* A connection goes to its end before its handler ran, or after its client left. *)
LEMMA EndingInv ==
  ASSUME ConnInv, NEW c \in Conns, conn[c].at \in Receiving \cup {"answering"},
         conn[c].ran => conn[c].shut \/ conn[c].client # "there",
         Going(c, "ending"), Keep
  PROVE  ConnInv'
<1> DEFINE me == [conn[c] EXCEPT !.at = "ending"]
<1>1. ConnOK(conn[c]) /\ conn[c] \in Conn
  BY ConnIsOK
<1>2. /\ me \in Conn /\ me.at = "ending" /\ me.client = conn[c].client
      /\ me.began = conn[c].began /\ me.ran = conn[c].ran /\ me.shut = conn[c].shut
  BY <1>1 DEF Conn, Places
<1>3. conn' = [conn EXCEPT ![c] = me]
  BY DEF Going
<1> HIDE DEF me
<1>4. ConnOK(me)
  BY <1>1, <1>2 DEF ConnOK, Receiving
<1> QED BY <1>1, <1>2, <1>3, <1>4, ConnMoves DEF Registered, Receiving

LEMMA AnsweringType ==
  ASSUME ConnInv, NEW c \in Conns
  PROVE  /\ Answering(c) \in Conn /\ Answering(c).at = "answering" /\ Answering(c).left = WaitSeconds
         /\ Answering(c).began = conn[c].began /\ Answering(c).ran = conn[c].ran
         /\ Answering(c).shut = conn[c].shut /\ Answering(c).client = conn[c].client
<1>1. conn[c] \in Conn /\ WaitSeconds \in Nat /\ "answering" \in Places
  BY ConnIsOK, ConnectionAssumption DEF Places
<1>2. Answering(c) \in Conn
  BY <1>1, Zenon DEF Answering, Conn
<1> QED BY <1>1, <1>2 DEF Answering, Conn

(* A connection is answered: its request ran, or was refused, or came too late. *)
LEMMA AnsweringInv ==
  ASSUME ConnInv, NEW c \in Conns, conn[c].at \in Receiving \cup {"run"}, NEW ran \in BOOLEAN,
         ran => conn[c].began,
         conn' = [conn EXCEPT ![c] = [Answering(c) EXCEPT !.ran = ran]], Keep
  PROVE  ConnInv'
<1> DEFINE me == [Answering(c) EXCEPT !.ran = ran]
<1>1. ConnOK(conn[c]) /\ conn[c] \in Conn /\ WaitSeconds \in Nat
  BY ConnIsOK, ConnectionAssumption
<1>2. /\ Answering(c) \in Conn /\ Answering(c).at = "answering"
      /\ Answering(c).began = conn[c].began /\ Answering(c).shut = conn[c].shut
  BY AnsweringType
<1>3. /\ me \in Conn /\ me.at = "answering" /\ me.began = conn[c].began /\ me.ran = ran
      /\ me.shut = conn[c].shut
  BY <1>2 DEF Conn
<1> HIDE DEF me
<1>4. conn[c].began => ~conn[c].shut
  (* Only a body or its handler has a request that began. *)
  BY <1>1 DEF ConnOK, Receiving
<1>5. ConnOK(me)
  BY <1>1, <1>3, <1>4 DEF ConnOK, Receiving
<1> QED BY <1>1, <1>3, <1>5, ConnMoves DEF me, Registered, Receiving

LEMMA ParseLineInv ==
  ASSUME ConnInv, NEW c \in Conns, ParseLine(c) PROVE ConnInv'
<1>1. ConnOK(conn[c]) /\ conn[c] \in Conn /\ conn \in [Conns -> Conn] /\ conn[c].at = "line" /\ Keep
  BY ConnIsOK DEF ParseLine
<1>2. ~conn[c].began /\ ~conn[c].ran
  BY <1>1 DEF ConnOK
<1>3. CASE Going(c, "ending")
  BY <1>1, <1>2, <1>3, EndingInv DEF Receiving
<1>4. CASE conn' = [conn EXCEPT ![c] = Answering(c)]
  <2>1. Answering(c) = [Answering(c) EXCEPT !.ran = FALSE]
    <3>1. Answering(c) \in Conn /\ Answering(c).ran = FALSE
      BY <1>1, <1>2, AnsweringType DEF Conn
    <3> QED BY <3>1 DEF Conn
  <2> QED BY <1>1, <1>4, <2>1, AnsweringInv DEF Receiving
<1>5. CASE closing /\ conn' = [conn EXCEPT ![c].at = "ending", ![c].got = TRUE]
  <2> DEFINE me == [conn[c] EXCEPT !.at = "ending", !.got = TRUE]
  <2>1. conn' = [conn EXCEPT ![c] = me]
    BY <1>1, <1>5
  <2>2. /\ me \in Conn /\ me.at = "ending" /\ me.began = conn[c].began /\ me.ran = conn[c].ran
        /\ me.shut = conn[c].shut
    BY <1>1 DEF Conn, Places
  <2> HIDE DEF me
  <2>3. ConnOK(me)
    BY <1>1, <1>2, <2>2 DEF ConnOK, Receiving
  <2> QED BY <1>1, <2>1, <2>2, <2>3, ConnMoves DEF Registered
<1>6. ASSUME NEW age, age = (IF conn[c].got THEN conn[c].age ELSE 0), ~closing,
             conn' = [conn EXCEPT ![c].at = "headers", ![c].got = TRUE, ![c].age = age, ![c].left = Arm(age)]
      PROVE  ConnInv'
  <2> DEFINE me == [conn[c] EXCEPT !.at = "headers", !.got = TRUE, !.age = age, !.left = Arm(age)]
  <2>1. conn' = [conn EXCEPT ![c] = me]
    BY <1>1, <1>6
  <2>2. age \in Nat /\ Arm(age) \in Nat /\ age + Arm(age) <= TotalSeconds
    BY <1>1, <1>6, Armed DEF Receiving
  <2>3. me \in Conn
    <3>1. "headers" \in Places
      BY DEF Places
    <3> QED BY <1>1, <2>2, <3>1, Zenon DEF Conn
  <2>4. /\ me.at = "headers" /\ me.got /\ me.age = age /\ me.left = Arm(age)
        /\ me.began = conn[c].began /\ me.ran = conn[c].ran /\ me.shut = conn[c].shut
    BY <1>1, <2>2 DEF Conn
  <2> HIDE DEF me
  <2>5. ConnOK(me)
    BY <1>1, <1>2, <1>6, <2>2, <2>3, <2>4 DEF ConnOK, Receiving
  <2> QED BY <1>1, <2>1, <2>4, <2>5, ConnMoves DEF Registered
<1> QED BY <1>3, <1>4, <1>5, <1>6 DEF ParseLine

LEMMA ReadBodyInv ==
  ASSUME ConnInv, NEW c \in Conns, ReadBody(c) PROVE ConnInv'
<1> DEFINE me == [conn[c] EXCEPT !.at = "run"]
<1>1. ConnOK(conn[c]) /\ conn[c] \in Conn /\ conn[c].at = "body"
  BY ConnIsOK DEF ReadBody
<1>2. /\ me \in Conn /\ me.at = "run"
      /\ me.began = conn[c].began /\ me.ran = conn[c].ran /\ me.shut = conn[c].shut
  BY <1>1 DEF Conn, Places
<1>3. conn' = [conn EXCEPT ![c] = me] /\ Keep
  BY DEF ReadBody, Going
<1> HIDE DEF me
<1>4. ConnOK(me)
  BY <1>1, <1>2 DEF ConnOK, Receiving
<1> QED BY <1>1, <1>2, <1>3, <1>4, ConnMoves DEF Registered

LEMMA RunInv ==
  ASSUME ConnInv, NEW c \in Conns, Run(c) PROVE ConnInv'
<1>1. conn[c].began
  BY ConnIsOK DEF Run, ConnOK
<1> QED BY <1>1, AnsweringInv DEF Run

LEMMA ExpireInv ==
  ASSUME ConnInv, NEW c \in Conns, Expire(c) PROVE ConnInv'
<1>1. ConnOK(conn[c]) /\ conn[c] \in Conn /\ conn \in [Conns -> Conn] /\ Keep
  BY ConnIsOK DEF Expire
<1>2. CASE conn[c].at \in Receiving /\ conn' = [conn EXCEPT ![c] = Answering(c)]
  <2>1. ~conn[c].ran
    BY <1>1, <1>2 DEF ConnOK, Receiving
  <2>2. Answering(c) = [Answering(c) EXCEPT !.ran = FALSE]
    <3>1. Answering(c) \in Conn /\ Answering(c).ran = FALSE
      BY <1>1, <2>1, AnsweringType DEF Conn
    <3> QED BY <3>1 DEF Conn
  <2> QED BY <1>1, <1>2, <2>2, AnsweringInv
<1>3. CASE conn[c].at = "line" /\ Going(c, "ending")
  BY <1>1, <1>3, EndingInv DEF ConnOK, Receiving
<1>4. CASE conn[c].at = "answering" /\ conn' = [conn EXCEPT ![c].at = "ending", ![c].client = "late"]
  <2> DEFINE me == [conn[c] EXCEPT !.at = "ending", !.client = "late"]
  <2>1. conn' = [conn EXCEPT ![c] = me]
    BY <1>1, <1>4
  <2>2. me \in Conn
    <3>1. "ending" \in Places /\ "late" \in {"there", "gone", "late"}
      BY DEF Places
    <3> QED BY <1>1, <3>1, Zenon DEF Conn
  <2>3. /\ me.at = "ending" /\ me.client = "late"
        /\ me.began = conn[c].began /\ me.ran = conn[c].ran /\ me.shut = conn[c].shut
    BY <1>1 DEF Conn
  <2> HIDE DEF me
  <2>4. ConnOK(me)
    BY <1>1, <1>4, <2>2, <2>3 DEF ConnOK, Receiving
  <2> QED BY <1>1, <1>4, <2>1, <2>3, <2>4, ConnMoves DEF Registered
<1> QED BY <1>2, <1>3, <1>4 DEF Expire

LEMMA SendInv ==
  ASSUME ConnInv, NEW c \in Conns, Send(c) PROVE ConnInv'
<1>1. /\ ConnOK(conn[c]) /\ conn[c] \in Conn /\ conn \in [Conns -> Conn] /\ Keep
      /\ conn[c].at = "answering"
  BY ConnIsOK DEF Send
<1>2. CASE (conn[c].shut \/ conn[c].client = "gone") /\ Going(c, "ending")
  BY <1>1, <1>2, EndingInv
<1>3. CASE ~conn[c].shut /\ conn' = [conn EXCEPT ![c].chunks = @ - 1, ![c].left = WaitSeconds,
                                ![c].at = IF conn[c].chunks = 1 THEN "ending" ELSE "answering"]
  <2> DEFINE at == IF conn[c].chunks = 1 THEN "ending" ELSE "answering"
             me == [conn[c] EXCEPT !.chunks = @ - 1, !.left = WaitSeconds, !.at = at]
  <2>1. conn' = [conn EXCEPT ![c] = me]
    BY <1>1, <1>3
  <2>2. at \in Places /\ conn[c].chunks - 1 \in Int /\ WaitSeconds \in Nat
    BY <1>1, ConnectionAssumption DEF Places, Conn
  <2>3. at = "answering" \/ (at = "ending" /\ conn[c].chunks = 1)
    OBVIOUS
  <2> HIDE DEF at
  <2>4. me \in Conn
    BY <1>1, <2>2, Zenon DEF Conn
  <2>5. /\ me.at = at /\ me.chunks = conn[c].chunks - 1
        /\ me.began = conn[c].began /\ me.ran = conn[c].ran /\ me.shut = conn[c].shut
    BY <1>1 DEF Conn
  <2> HIDE DEF me
  <2>6. ConnOK(me)
    BY <1>1, <1>3, <2>2, <2>3, <2>4, <2>5 DEF ConnOK, Receiving
  <2> QED BY <1>1, <1>3, <2>1, <2>3, <2>5, <2>6, ConnMoves DEF Registered
<1> QED BY <1>2, <1>3 DEF Send

LEMMA LeaveInv ==
  ASSUME ConnInv, NEW c \in Conns, Leave(c) PROVE ConnInv'
<1> DEFINE me == [conn[c] EXCEPT !.client = "gone"]
<1>1. /\ ConnOK(conn[c]) /\ conn[c] \in Conn /\ conn[c].at \in Receiving \cup {"answering"}
  BY ConnIsOK DEF Leave
<1>2. conn' = [conn EXCEPT ![c] = me] /\ Keep
  BY DEF Leave
<1>3. /\ me \in Conn /\ me.at = conn[c].at /\ me.got = conn[c].got /\ me.age = conn[c].age
      /\ me.left = conn[c].left
      /\ me.began = conn[c].began /\ me.ran = conn[c].ran /\ me.shut = conn[c].shut
  BY <1>1 DEF Conn
<1> HIDE DEF me
<1>4. ConnOK(me)
  BY <1>1, <1>3 DEF ConnOK, Receiving
<1> QED BY <1>1, <1>2, <1>3, <1>4, ConnMoves DEF Registered, Receiving

-----------------------------------------------------------------------------
(* The steps of a connection that change the registry *)

LEMMA AddInv ==
  ASSUME ConnInv, NEW c \in Conns, Add(c) PROVE ConnInv'
<1> DEFINE me == [conn[c] EXCEPT !.at = "line", !.left = WaitSeconds, !.shut = closing]
<1>1. /\ ConnOK(conn[c]) /\ conn[c] \in Conn /\ conn \in [Conns -> Conn] /\ conn[c].at = "accepted"
      /\ closing \in BOOLEAN /\ WaitSeconds \in Nat /\ UNCHANGED <<closing, listening>>
  BY ConnIsOK, ConnectionAssumption DEF Add, ConnInv, ConnType
<1>2. me \in Conn
  <2>1. "line" \in Places
    BY DEF Places
  <2> QED BY <1>1, <2>1, Zenon DEF Conn
<1>3. /\ me.at = "line" /\ me.left = WaitSeconds /\ me.shut = closing /\ me.got = conn[c].got
      /\ me.age = conn[c].age /\ me.began = conn[c].began /\ me.ran = conn[c].ran
  BY <1>1 DEF Conn
<1>4. conn' = [conn EXCEPT ![c] = me]
  BY <1>1 DEF Add
<1> HIDE DEF me
<1>5. ConnOK(me)
  BY <1>1, <1>2, <1>3 DEF ConnOK, Receiving
<1>6. conn' \in [Conns -> Conn] /\ conn'[c] = me /\ \A d \in Conns \ {c} : conn'[d] = conn[d]
  BY <1>1, <1>2, <1>4
<1>7. (ConnType /\ Progress /\ WaitInBounds /\ StopIsClean /\ IdleIsShut)'
  BY <1>1, <1>5, <1>6, ConnIsOK
  DEF ConnType, Progress, WaitInBounds, StopIsClean, IdleIsShut, ConnOK, ConnInv
<1>8. RegistryAgrees'
  <2>1. DOMAIN busy = {d \in Conns : Registered(d)} /\ c \notin DOMAIN busy
    BY <1>1 DEF ConnInv, RegistryAgrees, Registered
  <2>2. {d \in Conns : Registered(d)'} = DOMAIN busy \cup {c}
    BY <1>3, <1>6, <2>1 DEF Registered
  <2>3. busy' = [d \in DOMAIN busy \cup {c} |-> IF d = c THEN FALSE ELSE busy[d]]
    BY DEF Add
  <2>4. busy' \in [DOMAIN busy \cup {c} -> BOOLEAN]
    BY <2>1, <2>3 DEF ConnInv, RegistryAgrees
  <2>5. ~busy'[c] /\ ~me.began
    BY <1>1, <1>3, <2>3 DEF ConnOK
  <2>6. \A d \in DOMAIN busy : busy'[d] = busy[d] /\ d \in Conns /\ conn'[d] = conn[d]
    BY <1>6, <2>1, <2>3
  <2> QED BY <1>6, <2>1, <2>2, <2>4, <2>5, <2>6 DEF ConnInv, RegistryAgrees, Registered
<1> QED BY <1>7, <1>8 DEF ConnInv

(* One connection moves and the registry is not closed meanwhile: what holds of each still does. *)
LEMMA OneMoves ==
  ASSUME ConnInv, NEW c \in Conns, NEW me, ConnOK(me), conn' = [conn EXCEPT ![c] = me],
         UNCHANGED <<closing, listening>>
  PROVE  /\ (ConnType /\ Progress /\ WaitInBounds /\ StopIsClean /\ IdleIsShut)'
         /\ conn' \in [Conns -> Conn] /\ conn'[c] = me /\ \A d \in Conns \ {c} : conn'[d] = conn[d]
<1>1. conn \in [Conns -> Conn] /\ me \in Conn /\ \A d \in Conns : ConnOK(conn[d])
  BY InvIsOK DEF ConnInv, ConnOK
<1>2. conn' \in [Conns -> Conn] /\ conn'[c] = me /\ \A d \in Conns \ {c} : conn'[d] = conn[d]
  BY <1>1
<1>3. \A d \in Conns : ConnOK(conn[d])'
  BY <1>1, <1>2 DEF ConnOK
<1>4. (ConnType /\ Progress /\ WaitInBounds /\ StopIsClean /\ IdleIsShut)'
  BY <1>2, <1>3 DEF ConnType, Progress, WaitInBounds, StopIsClean, IdleIsShut, ConnOK, ConnInv
<1> QED BY <1>2, <1>4

LEMMA BeginRequestInv ==
  ASSUME ConnInv, NEW c \in Conns, BeginRequest(c) PROVE ConnInv'
<1>1. /\ ConnOK(conn[c]) /\ conn[c] \in Conn /\ conn \in [Conns -> Conn] /\ conn[c].at = "headers"
      /\ UNCHANGED <<closing, listening>>
  BY ConnIsOK DEF BeginRequest
<1>2. ~conn[c].ran /\ conn[c].got
  BY <1>1 DEF ConnOK
<1>3. CASE closing /\ Going(c, "ending") /\ UNCHANGED busy
  BY <1>1, <1>2, <1>3, EndingInv DEF Receiving, Keep
<1>4. ASSUME ~closing, NEW at \in {"body", "run"}, busy' = [busy EXCEPT ![c] = TRUE],
             conn' = [conn EXCEPT ![c].at = at, ![c].left = Arm(conn[c].age), ![c].began = TRUE]
      PROVE  ConnInv'
  <2> DEFINE me == [conn[c] EXCEPT !.at = at, !.left = Arm(conn[c].age), !.began = TRUE]
  <2>1. conn' = [conn EXCEPT ![c] = me]
    BY <1>1, <1>4
  <2>2. conn[c].age \in Nat /\ Arm(conn[c].age) \in Nat /\ conn[c].age + Arm(conn[c].age) <= TotalSeconds
    BY <1>1, <1>2, Armed DEF Receiving
  <2>3. me \in Conn
    <3>1. at \in Places /\ TRUE \in BOOLEAN
      BY DEF Places
    <3> QED BY <1>1, <2>2, <3>1, Zenon DEF Conn
  <2>4. /\ me.at = at /\ me.left = Arm(conn[c].age) /\ me.began /\ me.got = conn[c].got
        /\ me.age = conn[c].age /\ me.ran = conn[c].ran /\ me.shut = conn[c].shut
    BY <1>1 DEF Conn
  <2> HIDE DEF me
  <2>5. ConnOK(me)
    BY <1>1, <1>2, <1>4, <2>2, <2>3, <2>4 DEF ConnOK, Receiving
  <2>6. /\ (ConnType /\ Progress /\ WaitInBounds /\ StopIsClean /\ IdleIsShut)'
        /\ conn' \in [Conns -> Conn] /\ conn'[c] = me /\ \A d \in Conns \ {c} : conn'[d] = conn[d]
    BY <1>1, <2>1, <2>5, OneMoves
  <2>7. RegistryAgrees'
    <3>1. \A d \in Conns : Registered(d)' <=> Registered(d)
      BY <1>1, <2>4, <2>6 DEF Registered
    <3>2. c \in DOMAIN busy /\ busy \in [{d \in Conns : Registered(d)} -> BOOLEAN]
      BY <1>1 DEF ConnInv, RegistryAgrees, Registered
    <3>3. /\ busy' \in [{d \in Conns : Registered(d)} -> BOOLEAN] /\ busy'[c]
          /\ \A d \in Conns \ {c} : Registered(d) => busy'[d] = busy[d]
      BY <1>4, <3>2
    <3>4. {d \in Conns : Registered(d)'} = {d \in Conns : Registered(d)}
      BY <3>1
    <3> QED BY <2>4, <2>6, <3>1, <3>3, <3>4 DEF ConnInv, RegistryAgrees
  <2> QED BY <2>6, <2>7 DEF ConnInv
<1> QED BY <1>3, <1>4 DEF BeginRequest, Begun

LEMMA EndRequestInv ==
  ASSUME ConnInv, NEW c \in Conns, EndRequest(c) PROVE ConnInv'
<1> DEFINE me == [conn[c] EXCEPT !.at = "finishing", !.left = 0, !.age = 0, !.got = FALSE]
<1>1. /\ ConnOK(conn[c]) /\ conn[c] \in Conn /\ conn \in [Conns -> Conn] /\ conn[c].at = "ending"
      /\ UNCHANGED <<closing, listening>>
  BY ConnIsOK DEF EndRequest
<1>2. me \in Conn
  <2>1. "finishing" \in Places
    BY DEF Places
  <2> QED BY <1>1, <2>1, Zenon DEF Conn
<1>3. /\ me.at = "finishing" /\ me.client = conn[c].client /\ me.chunks = conn[c].chunks
      /\ me.began = conn[c].began /\ me.ran = conn[c].ran /\ me.shut = conn[c].shut
  BY <1>1 DEF Conn
<1>4. conn' = [conn EXCEPT ![c] = me]
  BY <1>1 DEF EndRequest
<1> HIDE DEF me
<1>5. ConnOK(me)
  BY <1>1, <1>2, <1>3 DEF ConnOK, Receiving
<1>6. /\ (ConnType /\ Progress /\ WaitInBounds /\ StopIsClean /\ IdleIsShut)'
      /\ conn' \in [Conns -> Conn] /\ conn'[c] = me /\ \A d \in Conns \ {c} : conn'[d] = conn[d]
  BY <1>1, <1>4, <1>5, OneMoves
<1>7. RegistryAgrees'
  <2>1. \A d \in Conns : Registered(d)' <=> Registered(d)
    BY <1>1, <1>3, <1>6 DEF Registered
  <2>2. c \in DOMAIN busy /\ busy \in [{d \in Conns : Registered(d)} -> BOOLEAN]
    BY <1>1 DEF ConnInv, RegistryAgrees, Registered
  <2>3. conn[c].began \in BOOLEAN /\ (busy[c] <=> conn[c].began)
    BY <1>1 DEF ConnInv, RegistryAgrees, Registered, Conn
  <2>4. /\ busy' \in [{d \in Conns : Registered(d)} -> BOOLEAN] /\ ~busy'[c]
        /\ \A d \in Conns \ {c} : Registered(d) => busy'[d] = busy[d]
    BY <2>2, <2>3 DEF EndRequest
  <2>5. {d \in Conns : Registered(d)'} = {d \in Conns : Registered(d)}
    BY <2>1
  <2> QED BY <1>3, <1>6, <2>1, <2>4, <2>5 DEF ConnInv, RegistryAgrees
<1> QED BY <1>6, <1>7 DEF ConnInv

LEMMA RemoveConnInv ==
  ASSUME ConnInv, NEW c \in Conns, RemoveConn(c) PROVE ConnInv'
<1> DEFINE me == [conn[c] EXCEPT !.at = "closed"]
<1>1. /\ ConnOK(conn[c]) /\ conn[c] \in Conn /\ conn \in [Conns -> Conn] /\ conn[c].at = "finishing"
      /\ UNCHANGED <<closing, listening>>
  BY ConnIsOK DEF RemoveConn
<1>2. /\ me \in Conn /\ me.at = "closed" /\ me.client = conn[c].client /\ me.chunks = conn[c].chunks
      /\ me.began = conn[c].began /\ me.ran = conn[c].ran /\ me.shut = conn[c].shut
  BY <1>1 DEF Conn, Places
<1>3. conn' = [conn EXCEPT ![c] = me]
  BY DEF RemoveConn, Going
<1> HIDE DEF me
<1>4. ConnOK(me)
  BY <1>1, <1>2 DEF ConnOK, Receiving
<1>5. /\ (ConnType /\ Progress /\ WaitInBounds /\ StopIsClean /\ IdleIsShut)'
      /\ conn' \in [Conns -> Conn] /\ conn'[c] = me /\ \A d \in Conns \ {c} : conn'[d] = conn[d]
  BY <1>1, <1>3, <1>4, OneMoves
<1>6. RegistryAgrees'
  <2>1. DOMAIN busy = {d \in Conns : Registered(d)}
    BY DEF ConnInv, RegistryAgrees
  <2>2. {d \in Conns : Registered(d)'} = DOMAIN busy \ {c}
    BY <1>2, <1>5, <2>1 DEF Registered
  <2>3. busy' = [d \in DOMAIN busy \ {c} |-> busy[d]]
    BY DEF RemoveConn
  <2>4. busy' \in [DOMAIN busy \ {c} -> BOOLEAN]
    BY <2>1, <2>3 DEF ConnInv, RegistryAgrees
  <2>5. \A d \in DOMAIN busy \ {c} : busy'[d] = busy[d] /\ d \in Conns /\ conn'[d] = conn[d]
    BY <1>5, <2>1, <2>3
  <2> QED BY <1>2, <1>5, <2>1, <2>2, <2>4, <2>5 DEF ConnInv, RegistryAgrees, Registered
<1> QED BY <1>5, <1>6 DEF ConnInv

-----------------------------------------------------------------------------
(* The steps of the whole server *)

(* Every connection moves, none of them in or out of the registry, nor to or from its end. *)
LEMMA AllMove ==
  ASSUME ConnInv, conn' \in [Conns -> Conn], closing' \in BOOLEAN, listening' \in BOOLEAN, UNCHANGED busy,
         \A c \in Conns : /\ ConnOK(conn[c])'
                          /\ conn'[c].at = conn[c].at /\ conn'[c].began = conn[c].began
  PROVE  ConnInv'
<1>1. (ConnType /\ Progress /\ WaitInBounds /\ StopIsClean /\ IdleIsShut)'
  BY DEF ConnType, Progress, WaitInBounds, StopIsClean, IdleIsShut, ConnOK
<1>2. \A c \in Conns : Registered(c)' <=> Registered(c)
  BY DEF Registered
<1>3. RegistryAgrees'
  BY <1>2 DEF RegistryAgrees, ConnInv
<1> QED BY <1>1, <1>3 DEF ConnInv

LEMMA StopListeningInv ==
  ASSUME ConnInv, StopListening PROVE ConnInv'
<1>1. \A c \in Conns : ConnOK(conn[c])'
  BY ConnIsOK DEF StopListening, ConnOK
<1> QED BY <1>1, AllMove DEF StopListening, ConnInv, ConnType

(* Whatever is known to the registry and not busy is shut: every connection that waits for its *)
(* request line or its headers, and none that has begun a request and not answered it.          *)
LEMMA CloseIdleInv ==
  ASSUME ConnInv, CloseIdle PROVE ConnInv'
<1>1. /\ conn \in [Conns -> Conn] /\ \A c \in Conns : ConnOK(conn[c])
      /\ closing' /\ UNCHANGED <<busy, listening>> /\ listening \in BOOLEAN
  BY InvIsOK DEF ConnInv, CloseIdle
<1>2. ASSUME NEW c \in Conns
      PROVE  /\ conn'[c] \in Conn /\ ConnOK(conn[c])'
             /\ conn'[c].at = conn[c].at /\ conn'[c].began = conn[c].began
  <2> DEFINE me == [conn[c] EXCEPT !.shut = TRUE]
  <2>1. ConnOK(conn[c]) /\ conn[c] \in Conn
    BY <1>1
  <2>2. /\ me \in Conn /\ me.shut
        /\ me.at = conn[c].at /\ me.got = conn[c].got /\ me.age = conn[c].age /\ me.left = conn[c].left
        /\ me.began = conn[c].began /\ me.ran = conn[c].ran /\ me.client = conn[c].client
        /\ me.chunks = conn[c].chunks
    BY <2>1 DEF Conn
  <2>3. c \in DOMAIN busy /\ ~busy[c] <=> Registered(c) /\ ~(conn[c].began /\ conn[c].at # "finishing")
    BY DEF ConnInv, RegistryAgrees
  <2>4. conn'[c] = IF c \in DOMAIN busy /\ ~busy[c] THEN me ELSE conn[c]
    BY DEF CloseIdle
  <2> HIDE DEF me
  <2>5. CASE c \in DOMAIN busy /\ ~busy[c]
    BY <1>1, <2>1, <2>2, <2>3, <2>4, <2>5 DEF ConnOK, Registered
  <2>6. CASE ~(c \in DOMAIN busy /\ ~busy[c])
    BY <1>1, <2>1, <2>3, <2>4, <2>6 DEF ConnOK, Registered
  <2> QED BY <2>5, <2>6
<1>3. conn' \in [Conns -> Conn]
  <2>1. conn' = [c \in Conns |-> conn'[c]]
    BY DEF CloseIdle
  <2> QED BY <1>2, <2>1
<1> QED BY <1>1, <1>2, <1>3, AllMove

(* A second takes one from what is left of every wait and adds one to its age. *)
LEMMA SecondInv ==
  ASSUME ConnInv, Second PROVE ConnInv'
<1>1. /\ conn \in [Conns -> Conn] /\ \A c \in Conns : ConnOK(conn[c])
      /\ closing \in BOOLEAN /\ listening \in BOOLEAN /\ Keep
  BY InvIsOK DEF ConnInv, Second
<1>2. ASSUME NEW c \in Conns
      PROVE  /\ conn'[c] \in Conn /\ ConnOK(conn[c])'
             /\ conn'[c].at = conn[c].at /\ conn'[c].began = conn[c].began
  <2> DEFINE age == Shorter(conn[c].age + 1, TotalSeconds + 1)
             waits == [conn[c] EXCEPT !.left = @ - 1, !.age = age]
             sends == [conn[c] EXCEPT !.left = @ - 1]
  <2>1. ConnOK(conn[c]) /\ conn[c] \in Conn /\ WaitSeconds \in Nat /\ TotalSeconds \in Nat
    BY <1>1, ConnectionAssumption
  <2>2. age \in Nat /\ age <= conn[c].age + 1
    BY <2>1 DEF Shorter, Conn
  <2>3. conn'[c] = IF conn[c].at \in Receiving THEN waits
                   ELSE IF conn[c].at = "answering" THEN sends ELSE conn[c]
    BY DEF Second
  <2>4. conn[c].at \in Receiving \cup {"answering"} => conn[c].left > 0
    BY DEF Second
  <2>5. CASE conn[c].at \in Receiving
    <3>1. conn[c].left - 1 \in Nat
      BY <2>1, <2>4, <2>5 DEF Conn
    <3> HIDE DEF age
    <3>2. waits \in Conn
      BY <2>1, <2>2, <3>1, Zenon DEF Conn
    <3>3. /\ waits.at = conn[c].at /\ waits.got = conn[c].got /\ waits.age = age
          /\ waits.left = conn[c].left - 1 /\ waits.shut = conn[c].shut
          /\ waits.began = conn[c].began /\ waits.ran = conn[c].ran
      BY <2>1 DEF Conn
    <3>4. conn'[c] = waits
      BY <2>3, <2>5
    <3>5. waits.age + waits.left <= conn[c].age + conn[c].left
      BY <2>1, <2>2, <3>1, <3>3 DEF Conn
    <3> HIDE DEF waits
    <3> QED BY <1>1, <2>1, <2>2, <2>5, <3>1, <3>2, <3>3, <3>4, <3>5 DEF ConnOK, Receiving, Keep, Conn
  <2>6. CASE conn[c].at = "answering"
    <3>1. conn[c].left - 1 \in Nat
      BY <2>1, <2>4, <2>6 DEF Conn
    <3>2. sends \in Conn
      BY <2>1, <3>1, Zenon DEF Conn
    <3>3. /\ sends.at = conn[c].at /\ sends.shut = conn[c].shut
          /\ sends.began = conn[c].began /\ sends.ran = conn[c].ran
      BY <2>1 DEF Conn
    <3>4. conn'[c] = sends
      BY <2>3, <2>6 DEF Receiving
    <3> HIDE DEF sends
    <3> QED BY <1>1, <2>1, <2>6, <3>2, <3>3, <3>4 DEF ConnOK, Receiving, Keep
  <2>7. CASE conn[c].at \notin Receiving \cup {"answering"}
    BY <1>1, <2>1, <2>3, <2>7 DEF ConnOK, Keep
  <2> QED BY <2>5, <2>6, <2>7
<1>3. conn' \in [Conns -> Conn]
  <2>1. conn' = [c \in Conns |-> conn'[c]]
    BY DEF Second
  <2> QED BY <1>2, <2>1
<1> QED BY <1>1, <1>2, <1>3, AllMove DEF Keep

-----------------------------------------------------------------------------

LEMMA ConnNextInv == ConnInv /\ [ConnNext]_connVars => ConnInv'
<1> SUFFICES ASSUME ConnInv, [ConnNext]_connVars PROVE ConnInv'
  OBVIOUS
<1>1. CASE StopListening
  BY <1>1, StopListeningInv
<1>2. CASE CloseIdle
  BY <1>2, CloseIdleInv
<1>3. CASE Second
  BY <1>3, SecondInv
<1>4. ASSUME NEW c \in Conns, ConnStep(c) PROVE ConnInv'
  BY <1>4, AcceptInv, AddInv, ReceiveInv, ParseLineInv, BeginRequestInv, ReadBodyInv, RunInv, ExpireInv,
     SendInv, EndRequestInv, RemoveConnInv, LeaveInv DEF ConnStep
<1>5. CASE UNCHANGED connVars
  <2>1. conn' \in [Conns -> Conn] /\ \A c \in Conns : ConnOK(conn[c])'
    BY <1>5, ConnIsOK, InvIsOK DEF connVars, ConnOK, ConnInv
  <2> QED BY <1>5, <2>1, AllMove DEF connVars, ConnInv, ConnType
<1> QED BY <1>1, <1>2, <1>3, <1>4, <1>5 DEF ConnNext

(* The inductive invariant of the connections: the registry says of each what the thread does, *)
(* and every wait ends inside the bound of its phase.                                           *)
THEOREM ConnectionsHold == ConnSpec => []ConnInv
<1> QED BY ConnInitInv, ConnNextInv, PTL DEF ConnSpec

(* A stop neither cuts a request that began nor loses one that ran, whatever the client does and *)
(* however a connection is caught between its add and its begin_request (close_idle).             *)
THEOREM StopCutsNothing == ConnSpec => []StopIsClean
<1>1. ConnInv => StopIsClean
  BY DEF ConnInv
<1> QED BY <1>1, ConnectionsHold, PTL

(* Once a stop has closed the registry nothing waits for a request any more, connections that were *)
(* accepted before the stop and registered after it included (add).                                *)
THEOREM NothingIdleSurvives == ConnSpec => []IdleIsShut
<1>1. ConnInv => IdleIsShut
  BY DEF ConnInv
<1> QED BY <1>1, ConnectionsHold, PTL

(* No client keeps a thread receiving for longer than WAIT_SECONDS before its first byte and *)
(* TOTAL_SECONDS after it, for any values of the two bounds (_arm).                           *)
THEOREM ReceivingEnds == ConnSpec => []ReceivingIsBounded
<1>1. ConnInv => ReceivingIsBounded
  <2>1. ConnInv => \A c \in Conns : conn[c] \in Conn
    BY ConnIsOK
  <2> QED BY <2>1, ConnectionAssumption DEF ConnInv, WaitInBounds, ReceivingIsBounded, Conn, Receiving
<1> QED BY <1>1, ConnectionsHold, PTL

=============================================================================
