--------------------------- MODULE ReferenceCache ---------------------------
(***************************************************************************)
(* The reference document a DOCX export gives pandoc (reference_docx.py):  *)
(* made once per charter, staged beside its place and moved there.  The    *)
(* editor server exports in threads of one process, commands in their own. *)
(***************************************************************************)
EXTENDS Naturals, Sequences, FiniteSets

CONSTANTS Exports,   \* the exports, which all use one charter
          ProcessOf, \* export -> its process
          Pieces,    \* what an archive is written in
          MaxFiles   \* bound: archives begun

ASSUME CacheAssumption == Pieces \in Nat \ {0} /\ MaxFiles \in Nat

VARIABLES disk,    \* the archives: the pieces each has, and (history) the exports that opened it;
                   \* a path names one by its number, 0 none
          staging, \* process -> the archive at its staging path
          target,  \* the archive at the cached path
          export   \* export -> where it is, the archive it writes, and what pandoc was given

cacheVars == <<disk, staging, target, export>>

Processes == {ProcessOf[e] : e \in Exports}

Whole == 1..Pieces

(* Mutant: one staging name for all processes. *)
StagingShared(e) == CHOOSE p \in Processes : TRUE

(* The staging name holds the process id. *)
Staging(e) == ProcessOf[e]

Goes(e, at) == export' = [export EXCEPT ![e].at = at]

(* A cached file that is not empty is taken as it is. *)
LookUp(e) ==
  /\ export[e].at = "asked"
  /\ Goes(e, IF target # 0 /\ disk[target].has # {} THEN "cached" ELSE "building")
  /\ UNCHANGED <<disk, staging, target>>

(* _copy_zip opens for writing: what is at the path is emptied, not replaced. *)
Open(e) ==
  /\ export[e].at = "building"
  /\ LET old == staging[Staging(e)]
         number == IF old = 0 THEN Len(disk) + 1 ELSE old
     IN  /\ number <= MaxFiles
         /\ disk' = IF old = 0 THEN Append(disk, [has |-> {}, by |-> {e}])
                    ELSE [disk EXCEPT ![old] = [has |-> {}, by |-> @.by \cup {e}]]
         /\ staging' = [staging EXCEPT ![Staging(e)] = number]
         /\ export' = [export EXCEPT ![e].at = "writing", ![e].writes = number, ![e].next = 1]
  /\ UNCHANGED target

WritePiece(e) ==
  /\ export[e].at = "writing" /\ export[e].next <= Pieces
  /\ disk' = [disk EXCEPT ![export[e].writes].has = @ \cup {export[e].next}]
  /\ export' = [export EXCEPT ![e].next = @ + 1]
  /\ UNCHANGED <<staging, target>>

(* The move takes what is at the path by now; nothing there is a failure. *)
Publish(e) ==
  /\ export[e].at = "writing" /\ export[e].next > Pieces
  /\ IF staging[Staging(e)] = 0 THEN Goes(e, "plain") /\ UNCHANGED <<staging, target>>
     ELSE /\ target' = staging[Staging(e)] /\ staging' = [staging EXCEPT ![Staging(e)] = 0]
          /\ Goes(e, "cached")
  /\ UNCHANGED disk

(* Whatever fails, the export goes on without a reference; the staged file stays. *)
BuildFails(e) ==
  /\ export[e].at \in {"building", "writing"}
  /\ Goes(e, "plain")
  /\ UNCHANGED <<disk, staging, target>>

RunPandoc(e) ==
  /\ export[e].at = "cached"
  /\ export' = [export EXCEPT ![e].at = "exported", ![e].given = disk[target]]
  /\ UNCHANGED <<disk, staging, target>>

(* A process dies with all its exports; its files stay. *)
Die(p) ==
  /\ export' = [e \in Exports |-> IF ProcessOf[e] = p THEN [export[e] EXCEPT !.at = "dead"] ELSE export[e]]
  /\ UNCHANGED <<disk, staging, target>>

CacheInit ==
  /\ disk = <<>> /\ staging = [p \in Processes |-> 0] /\ target = 0
  /\ export = [e \in Exports |-> [at |-> "asked", writes |-> 0, next |-> 1, given |-> [has |-> {}, by |-> {}]]]

CacheNext ==
  \/ \E e \in Exports : LookUp(e) \/ Open(e) \/ WritePiece(e) \/ Publish(e) \/ BuildFails(e) \/ RunPandoc(e)
  \/ \E p \in Processes : Die(p)

CacheSpec == CacheInit /\ [][CacheNext]_cacheVars

-----------------------------------------------------------------------------
(* What an export takes from the cache is a whole archive, whichever processes build it at the    *)
(* same time, fail or die: "two concurrent exports must not clobber each other's partially        *)
(* written archive" (reference_docx_for).  Except when two threads of one process built, as the    *)
(* editor server's do: they share the name, also with a third one that is given the torn archive.  *)
WholeReference ==
  \A e \in Exports :
    LET given == export[e].given
    IN  export[e].at = "exported" /\ given.has # Whole =>
          \E d1 \in given.by, d2 \in Exports :
            d1 # d2 /\ ProcessOf[d1] = ProcessOf[d2] /\ export[d2].writes # 0
=============================================================================
