---------------------------- MODULE RequestPanel ----------------------------
(***************************************************************************)
(* The request panel of an editor page (static/editor-requests.js) over    *)
(* the request record of the served file.  The page's own operations run   *)
(* in handlers of the HTTP server; the list is refetched after them and    *)
(* when the status poll tells another revision.  Fetches run side by side  *)
(* and their answers come in any order.  Other pages of the file act on    *)
(* lists of their own, as old as they happen to be.                        *)
(*                                                                         *)
(* A ticket is only ever compared with the newest one, so a fetch carries  *)
(* whether its ticket is the newest instead of a growing number.           *)
(***************************************************************************)
EXTENDS RequestRecord

CONSTANTS Handlers, \* the clients that are the server's handlers of the page
          Tabs,     \* those that are its handlers of the file's other pages
          Slots     \* bound: fetches in flight at once

ASSUME PanelAssumption ==
  Handlers \subseteq Clients /\ Tabs \subseteq Clients \ Handlers /\ Slots = 1..Cardinality(Slots)

VARIABLES fetches, \* requestsRefresh in flight: slot -> its ticket and the server's answer
          held,    \* requestsHeld: the revision of the list
          shown,   \* the snapshot the list shows
          poll     \* the status poll, and the revision it was answered

panelVars == <<fetches, held, shown, poll>>
allVars == <<recordVars, panelVars>>

NothingShown == fetches = [s \in Slots |-> None] /\ held = None /\ shown = None /\ poll = [at |-> "idle"]

PanelInit == RecordInit /\ NothingShown

InFlight == {s \in Slots : fetches[s] # None}

requestsRefresh ==
  \E s \in Slots \ InFlight :
    /\ \A r \in Slots \ InFlight : s <= r
    /\ fetches' = [r \in Slots |->
         IF r = s THEN [newest |-> TRUE, at |-> "sent", got |-> None]
         ELSE IF r \in InFlight THEN [fetches[r] EXCEPT !.newest = FALSE] ELSE None]

(* The buttons of the panel *)
Click(h) ==
  /\ \/ \E text \in Texts : Queue(h, text)
     \/ shown # None /\ \E i \in Ids(shown) : Delete(h, i)
     \/ shown # None /\ shown.review # None
        /\ \E s \in DOMAIN shown.review : ~shown.review[s] /\ ApplySuggestion(h, s)
  /\ UNCHANGED panelVars

(* Another page's buttons: its list may show any record the file ever had. *)
ClickElsewhere(c) ==
  \/ \E text \in Texts : Queue(c, text)
  \/ \E i \in 1..MaxId : Delete(c, i)
  \/ \E s \in Suggestions : ApplySuggestion(c, s)

(* After an accepted queue or delete, and after any apply, the list is refetched. *)
Refetches(op, error) == op # None /\ (error = None \/ op.do = "apply")

Finish(h, error) ==
  /\ work' = [work EXCEPT ![h] = Idle]
  /\ IF Refetches(work[h].op, error) THEN requestsRefresh ELSE UNCHANGED fetches
  /\ UNCHANGED <<disk, applies, held, shown, poll>>

Answered(h) == work[h].at = "answered" /\ Finish(h, work[h].error)

(* The server dies or the answer is lost: the page sees a failure. *)
AnswerLost(h) == work[h] # Idle /\ Finish(h, "lost")

ServeSnapshot(s) ==
  /\ s \in InFlight /\ fetches[s].at = "sent"
  /\ fetches' = [fetches EXCEPT ![s].at = "served", ![s].got = disk]
  /\ UNCHANGED <<recordVars, held, shown, poll>>

(* Mutant: whatever arrives is rendered. *)
RendersAny(s) == fetches[s].got # Broken

Renders(s) == fetches[s].newest /\ fetches[s].got # Broken

SnapshotArrives(s) ==
  /\ s \in InFlight /\ fetches[s].at = "served"
  /\ IF Renders(s) THEN shown' = fetches[s].got /\ held' = shown'.revision ELSE UNCHANGED <<held, shown>>
  /\ fetches' = [fetches EXCEPT ![s] = None]
  /\ UNCHANGED <<recordVars, poll>>

FetchFails(s) ==
  /\ s \in InFlight
  /\ fetches' = [fetches EXCEPT ![s] = None]
  /\ UNCHANGED <<recordVars, held, shown, poll>>

SendPoll == poll.at = "idle" /\ poll' = [at |-> "sent"] /\ UNCHANGED <<recordVars, fetches, held, shown>>

(* revision: 0 for an unreadable record. *)
ServePoll ==
  /\ poll.at = "sent"
  /\ poll' = [at |-> "answered", revision |-> IF disk = Broken THEN 0 ELSE disk.revision]
  /\ UNCHANGED <<recordVars, fetches, held, shown>>

(* Mutant: revision 0 is taken for no revision. *)
RevisionIfAny(revision) == InFlight = {} /\ revision \notin {0, held}

requestsOnStatus(revision) == InFlight = {} /\ revision # held

PollArrives ==
  /\ poll.at = "answered"
  /\ IF requestsOnStatus(poll.revision) THEN requestsRefresh ELSE UNCHANGED fetches
  /\ poll' = [at |-> "idle"]
  /\ UNCHANGED <<recordVars, held, shown>>

PollFails == poll.at # "idle" /\ poll' = [at |-> "idle"] /\ UNCHANGED <<recordVars, fetches, held, shown>>

FetchStep(s) == ServeSnapshot(s) \/ SnapshotArrives(s) \/ FetchFails(s)

(* A caller whose answer changes nothing here beyond its own operation. *)
AgentStep(c) == (AgentActs(c) \/ AgentDone(c) \/ Crash(c)) /\ UNCHANGED panelVars

TabStep(c) == (ClickElsewhere(c) \/ AgentDone(c) \/ Crash(c)) /\ UNCHANGED panelVars

PanelNext ==
  \/ \E c \in Clients : StoreStep(c) /\ UNCHANGED panelVars
  \/ \E c \in Clients \ (Handlers \cup Tabs) : AgentStep(c)
  \/ \E c \in Tabs : TabStep(c)
  \/ \E h \in Handlers : Click(h) \/ Answered(h) \/ AnswerLost(h)
  \/ \E s \in Slots : FetchStep(s)
  \/ SendPoll \/ ServePoll \/ PollArrives \/ PollFails

PanelSpec == PanelInit /\ [][PanelNext]_allVars

(* The poll runs every two seconds; a fetch ends; and a fetch or a poll that is tried for ever *)
(* is not lost every time.                                                                     *)
Fairness ==
  /\ \A s \in Slots : WF_allVars(FetchStep(s))
  /\ SF_allVars(\E s \in Slots : ServeSnapshot(s) /\ fetches[s].newest)
  /\ SF_allVars(\E s \in Slots : SnapshotArrives(s) /\ Renders(s))
  /\ WF_allVars(SendPoll) /\ SF_allVars(ServePoll) /\ SF_allVars(PollArrives)

FairPanelSpec == PanelSpec /\ Fairness

-----------------------------------------------------------------------------
(* An answer that was overtaken never puts an older list back, whatever order the fetches *)
(* after the page's own operations and after the polls are answered in.                    *)
ShownNeverOlder == [][shown # None => shown'.revision >= shown.revision]_shown

(* Once the record is left alone the list comes to show it, after lost answers, failed polls *)
(* and polls dropped while a fetch was in flight.                                            *)
PanelConverges == <>[][FALSE]_disk => <>[](disk = Broken \/ shown = disk)
=============================================================================
