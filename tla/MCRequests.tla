----------------------------- MODULE MCRequests -----------------------------
(***************************************************************************)
(* A record as earlier sessions left it, explored in two parts that share  *)
(* it: one page whose list follows the record, beside an agent; and two    *)
(* other pages that queue, apply and delete together, beside the agent.    *)
(***************************************************************************)
EXTENDS RequestPanel, TLC

CONSTANTS s1, s2

VARIABLE part

Raw(s) == [id |-> s, sound |-> TRUE]

SmallReviews == {<<Raw(s1)>>, <<Raw(s1), Raw(s1)>>}

SmallVerdicts == {[status |-> "done", blank |-> TRUE], [status |-> "skipped", blank |-> TRUE]}

(* A request was queued, done and deleted, and the file reviewed. *)
Ready == [nextId |-> 2, revision |-> 4, requests |-> << >>, review |-> (s1 :> FALSE)]

(* One was queued and done, another queued, and the file reviewed. *)
Busy == [nextId |-> 3, revision |-> 4,
         requests |-> << [status |-> "done", from |-> None], [status |-> "pending", from |-> None] >>,
         review |-> (s1 :> FALSE)]

(* Operations begin on records of these revisions: in the second part on those two changes leave too. *)
Opens == [panel |-> {0, 4}, tabs |-> {4, 5}]

MCInit ==
  /\ NobodyWorks /\ NothingShown
  /\ \/ part = "panel" /\ disk \in {EmptyRecord, Ready, Busy, Broken}
     \/ part = "tabs" /\ disk = Ready

Begins(c) == work[c] = Idle /\ work'[c].at = "asked"

RefusedNow(c) == work[c] = Idle /\ work'[c].at = "answered"

MCNext ==
  /\ PanelNext
  /\ part' = part
  /\ disk # Broken => \A c \in Clients : Begins(c) => disk.revision \in Opens[part]
  /\ CASE part = "panel" -> \A c \in Tabs : work'[c] = Idle
       [] part = "tabs"  -> /\ panelVars' = panelVars
                            /\ \A c \in Clients : c \in Handlers \/ RefusedNow(c) => work'[c] = Idle

MCVars == <<allVars, part>>

MCSpec == MCInit /\ [][MCNext]_MCVars /\ Fairness
=============================================================================
