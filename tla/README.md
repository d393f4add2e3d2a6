# mcp-htmleditor in TLA+

This directory holds the formal model of mcp-htmleditor: what the program promises about the
file a user and an agent edit together, the models of the code that is to keep those promises,
the TLC runs that check them on small instances, and the TLAPS proofs that hold for every
instance. Source paths are relative to `src/src/mcp_htmleditor/`.

Status: the save pipeline (browser page, HTTP save endpoint, file, agents), the request record
and its panel, the versions of a file, the update flag with the server's lifecycle, its
connections and routes, the agents' tools, renders, the shared reference document, deck patches
and the layout of diagrams are modelled, checked by TLC and proved for every instance: of the
properties of the passing runs only five have no theorem: the three about liveness, and the two
about pages that hold only with the switches of section 2 (`BaseNotNewer`, `NoSilentOverwrite`).

## 1. The system

A user opens one HTML file in a browser page served by a local server. An agent changes the
same file from another process. Both write the whole file.

| component | code | state | operations | talks to |
|---|---|---|---|---|
| save endpoint | `http_server.py` | `save_lock`; one handler thread per request | `POST /content`: refuse template, lock, stat, compare, write, stat, answer | file writes, served file |
| file writes | `fileio.py` | the file, a temporary file, a staged version | `atomic_write` | history |
| served file, update flag | `state.py` | `current_file`, records under the state directory, two in-memory maps | `set_file`, `start_update`, `end_update`, expiry | endpoint, MCP tools |
| editor page | `static/editor.js`, `editor-save.js` | base and last mtime, pending mark, timer, save chain, conflict, the frame's document | typing, blur, autosave, poll, reload, Keep mine, Reload | endpoint, `/status`, `/content-frame` |
| agent writers | `deck/patch.py`, `history.py`, `arch_layout.py` | what was read and not yet written | `apply_patch`, `restore_version`, `layout_file` | file writes, update flag |
| history | `history.py` | version files, claim files, temporary files | stage, claim, publish, discard, prune, restore | file writes |
| request record | `request_store.py`, `request_service.py` | `record.json` (ids, requests, review, revision), `record.lock` | queue, complete, delete, write review, apply | panel, agent |
| request panel | `static/editor-requests.js` | held revision, fetch tickets, list shown | refresh, status, delete, queue | record over HTTP |
| undo | `static/editor-undo.js` | two bounded stacks, restore guard | snapshot, undo, redo, reset on load | page saves |
| deck algebra | `deck/patch.py`, `renumber.py`, `scan.py`, `read.py` | none: functions on a document | insert, replace, delete, move, renumber | agent writers |
| lifecycle | `http_server.py`, `mcp_server.py`, `cli.py` | server, port, pid, state records | start, stop, port choice | served file |
| connections | `http_connections.py`, `http_deadline.py` | registry of busy and idle sockets, deadlines | accept, busy, idle, close at stop | lifecycle |
| arch layout | `arch_layout.py`, `static/editor-drag.js` | attributes and decorations in the diagram itself | layout, drag | agent writers |
| render | `render/` | pictures in a shared folder | picture of a slide, report, removal of stale pictures | file |
| export | `export/` | a cached reference document | pptx, docx | file |
| request gate and routes | `http_server.py` | none | origin, host, headers, body, dispatch | every other server part |
| tools and commands | `mcp_server.py`, `cli.py`, `deck/tools.py` | none | one operation each, on both surfaces | all of the above |
| lint, templates, config, skills, logging | the rest | none that outlives a call | conversions and lookups | |

What is hard, and what makes each part correct:

* **Saves and conflicts.** Several pages and agents write one file; the only defence is an
  mtime compared under a lock the agents do not take. Correct: a save replaces exactly the
  version its page knows, and an answer names the version it left.
* **The page.** Timers, fetches, polls and the frame's navigation finish in any order, each
  reading state that another changes. Correct: no silent loss of somebody else's change, no
  reload or conflict caused by the page's own save, and a page that ends up showing the file
  or saying that it does not.
* **History.** Two processes stage, publish and prune in one directory; ids have a resolution
  of a second and suffixes are reused; a crash can fall between any two system calls. Correct:
  a version is never replaced or shown half written, and what a write replaced can be found.
* **Requests.** Processes and threads exchange a record by read, change and swap, readers take
  no lock, the panel refetches when a revision differs. Correct: no request or id is lost or
  given twice, and the panel comes to show the record of the file it is about.
* **Update flag.** It is in a record, or in memory when the record cannot be written, and it
  expires. Correct: a flag ends, and never outlives its update because of a failure.
* **Lifecycle, connections.** Stop while requests run, a port probed and then lost, a client
  that sends a byte now and then. Correct: a stop cuts no request, an answered error changed
  nothing, what a process announces names its server.
* **Documents.** Patches name slides by the ids of the file as it was; diagrams are laid out on
  top of earlier layouts and drags; pictures and the reference document are shared by
  processes. Correct: nothing is changed but what was named, and what is found again by an id
  is the thing that had it.

`PROJECT.json` lists these hazards at their lines, with the properties that cover them.

## 2. Modules

| module | what it is |
|---|---|
| `SaveServer` | the save endpoint, the file and its other writers; the safety properties of a save |
| `SaveRegister` | the abstract endpoint: a compare-and-swap register per file |
| `EditorSave` | the editor page on top of `SaveServer` (it EXTENDS it and drives its actions) |
| `SaveServerProofs` | theorems about `SaveServer`, and its refinement of `SaveRegister` |
| `EditorSaveProofs` | the page keeps to `SaveServer`'s specification; what a save overwrites and what is reloaded |
| `RequestRecordProofs` | theorems about the record and its panel, and the refinement of `RequestLog` |
| `ServerProcessProofs` | theorems about records, flags and ports, and about sockets at a stop |
| `ArchLayoutProofs` | theorems about the places of nodes in a diagram and the courses of its connectors |
| `DocumentsProofs` | theorems about versions and the refinement of `AtomicFile`; theorems about renumbering and patches |
| `OutputsProofs` | theorems about the shared reference document and the pictures of slides |
| `AnswersProofs` | theorems about what requests over HTTP and calls of agents are answered |
| `RequestRules` | what each operation does to the record of requests, and what it refuses |
| `RequestLog` | the abstract record: each operation is one step or a refusal |
| `RequestRecord` | the record file, its lock and its clients (EXTENDS `RequestRules`, refines `RequestLog`) |
| `RequestPanel` | the page's list over the record (EXTENDS `RequestRecord`) |
| `EditorState` | served file, update records, the maps kept in memory, the clock |
| `ServerLifecycle` | start, bind, open, stop and exit (EXTENDS `EditorState`) |
| `Connections` | the threads and sockets of one server, its registry and its deadlines |
| `Checks` | checks made in order, the first refusal counting (used by `HttpRoutes` and `AgentTools`) |
| `HttpRoutes` | what one request is answered and whether it changed anything |
| `AtomicFile` | the abstract file: a write puts its content whole, or nothing |
| `FileHistory` | `atomic_write`, versions, claims, prune and restore (refines `AtomicFile`) |
| `DeckText`, `DeckPatch` | a presentation as the deck services see it: numbering, lint, patches |
| `ArchRoutes`, `ArchLayout` | where a connector runs; diagrams over layouts, drags and edits |
| `RenderPictures` | sessions that take pictures of slides |
| `ReferenceCache` | the reference document several exports build at once |
| `AgentTools` | every tool of an agent beside its command |
| `MC*` | instances for TLC |

### SaveServer

A file's content is the set of changes it holds; `mtime` comes from a clock that grows with
every write (so equal mtimes mean the same version, which SPEC-0009 14.3 assumes of the file
system too). `by` and `ever` are history variables for the properties.

A page has at most one `POST /content` under way, so the handler threads are named after their
pages and `task[p]` is the request and the point its handler has reached:

    idle -Post-> posted -Admit-> admitted -Check-> checked -Replace-> written -Stat-> answered

| action | code |
|---|---|
| `Admit` | `refuse_template`: reads `current_file` with no lock, 403 or go on |
| `Check` | takes `save_lock`, reads `current_file` again, `check_conflict` (first stat), 409 or go on |
| `Replace`, `ReplaceFails` | `atomic_write`: equal bytes are left alone, a failure changes nothing and is a 500 |
| `Stat` | the second stat in `write_save`, the 200, the end of the `with` block |
| `OpenFile` | `state.set_file` from another thread, at any time |
| `AgentRead`, `AgentWrite`, `AgentFails` | `apply_patch`, `restore_version`, `layout_file`: read, compute, write or give up, without `save_lock` |

`SameBytes` needs the file to have been written by a page: an agent's bytes with the same
changes are serialized differently. `Send`, `Receive` and `NewChange` close the module: they
let a page send any subset of the changes made, with any mtime a file has had, or none.

### SaveRegister

`file[f]` is a version (content and mtime), `call[p]` is idle, asked or done. A save is ONE
step: `Save` (compare, write a newer version, answer with its mtime), `Refuse` (409 with the
mtime found) or `Fail` (nothing changed). `Foreign` is anybody else's write. `SavesAreAtomic`
is this specification under the mapping of `SaveServer`: the save happens at `Replace`, its
outcome is known from then on, and `Stat` must not contradict it.

### EditorSave

| state | code |
|---|---|
| `base`, `last` | `baseMtime`, `lastMtime` |
| `pending`, `timer`, `orphan` | `hasPendingChanges`; `saveTimer`; a timer whose handle `onSaveAccepted` set to null while it was still running |
| `queue` | saves chained on `saveChain` and not started; TRUE is Keep mine (`force`) |
| `conflict`, `conflictMtime`, `failed` | the notices |
| `dom`, `shown`, `loading` | the frame's document, the version it comes from, a navigation under way |
| `poll`, `stale` | one `GET /status` in flight, and whether `saveCount` grew since it was sent |
| `wasUpdating`, `updating` | the overlay of the page; the flag in `/status` |

Each asynchronous completion is an action: `ReadStatus` (the await in `init`), `FrameLoads`,
`TimerFires`, `RunSave` (clones the document and posts it), the answers (`onSaveAccepted`,
`onSaveConflict`, `showSaveError`), `SendPoll`, `AnswerPoll`, `DropPoll`, `pollStatus`.
`pollStatus` is the whole handler: overlay, reload, or only the new `lastMtime`.
`StructuralEdit` is an inserted or deleted slide or block: it saves at once and sets no mark.

Switches narrow a run to the question it asks; each is a constant, so a run says what it
assumes:

| constant | when set | why it exists |
|---|---|---|
| `AgentsWait` TRUE | agents do not write while `save_lock` is held | an agent between replace and second stat makes the page adopt a version it never saw (section 6), which breaks `BaseNotNewer`, `NoSilentOverwrite` and `PageConverges`; runs `self` and `settle` have it FALSE |
| `PromptLoads` TRUE | nothing happens while a frame loads | two requests that nothing ties together read document and base; run `base_race` shows what happens without it |
| `OneChoice` TRUE | no Reload while a Keep mine is on its way | the notice keeps both buttons until the answer; both chosen, the page shows one version and has the base of another |
| `LostAnswers` TRUE | a status read or a save may fail at network level | the loss of an answer after the write makes the page conflict with itself |
| `Updates` TRUE | the update flag may be raised and dropped | a reload at the end of an update leaves the pending mark set |

### RequestRecord and RequestPanel

The requests of a record are a function from ids to requests, for ids only grow. A client is a
handler thread of the server or an agent's process, and `update` is

    idle -Call-> asked -Acquire-> locked -ReadRecord-> read -Write-> written -Release-> answered

`Acquire` waits for the `flock`; as the lock goes with the descriptor, `Crash` (the process
ends) frees it wherever it was. `StorageFails` is any OSError before the swap. A broken record
is an initial state: it refuses everything and stays. `RequestLog` does the same in one step,
and `RecordIsAtomic` is the refinement.

The panel refetches after its own operations and when the polled revision is not the held one.
`Tabs` are the handlers of the file's other pages: each button of theirs acts on a list as old
as it happens to be (`ClickElsewhere`), which the record alone has to bear; `Handlers` are those
of the page whose list is modelled. Only the newest ticket renders; a ticket is only compared
with the newest, so a fetch carries whether it is (`newest`) instead of a number that grows.
Answers get lost and come in any order.

### EditorState and ServerLifecycle

A flag is a start time: in the file's record, or, when that cannot be written, in the
process's memory; `memory` and `ends` are `_memory_updates` and `_memory_ends`. Whether a
record can be written is a choice of each step. `latest` is a history variable: the last start
or end of a file's flag and who made it.

`StartServer` probes a port, `Announce` writes the record and the served file, `Bind` may find
the port taken. `Stop` frees the port under `_server_lock`; the record is written after it
(`StopTail`). `OneAtATime` says that one process does not run two tool calls at once, as an
agent that waits for its answers does.

### Connections and HttpRoutes

A connection is accepted, registered, receives its request line, headers and body, runs,
answers in chunks, ends and is removed. `Arm` is `_arm`: a wait ends after `WaitSeconds`, all
of the receiving after `TotalSeconds` from the first byte. `StopListening` and `CloseIdle`
are the two halves of a stop. Seconds are steps, which cannot pass a wait that is over.

`HttpRoutes` is a function from requests to answers: each route makes its checks in the order of
the code, written `check ?? check ?? ...`, and the first that fails gives the status. A request
is described by what is wrong with it.

### FileHistory

    read -Stage-> staging -Claim-> claimed -CheckId-> checked -Link-> linked -Unclaim-> staged
         -Replace-> replaced -List-> pruning -PruneOne-> ended

Every system call is a step. The clock counts seconds, an id is a second and a suffix, and a
claim left by a dead process stays. `WriteFails` leads to `Discard`. A prune goes by name
through the list it made: of the versions beyond the limit it removes the newest first, as the
code does, and it may fail. `AtomicFile` is the file alone.

### DeckText and DeckPatch

A file is a sequence of atoms, raw text or slides; a slide has its id, counters, images and
text, and for lint a set of facts. `Patch` is `apply_patch`: the operations go to a working copy
whose slides keep their original ids, the first that fails ends it, a structural patch is
renumbered. `DeckNext` takes any sequence of operations, also those that write back the slide
read last by `GetSlide`. `Worked` is the working copy after each operation in turn, a recursive
function of their number; `Reference` counts the large images up to one, which is what a
`data:ref:img-N` stands for on both sides of `hide_images` and `_restore_images`.

### ArchRoutes and ArchLayout

Positions are computed in hundredths of a per cent, what is left of a hundredth dropped, and
written with one decimal (`Rounded`), as `_write_node_box` and `_layout_lane` do. Where a half
goes depends on the nearest double in Python: `HalvesUp` is the set of halves that go up, any
set in the proofs. `Layout` is `layout_file` on one diagram: rows, slots, columns and lanes get
boxes, the box of a column being the one the browser has, rounded too; a node dragged by hand
keeps its own; edges get ids, are routed around the other nodes, from the boxes as computed,
and drawn. `Drag` is the editor's: it writes `data-x` and `data-y` with one decimal and keeps
the size. The rounding of drawn segments (`_segment_style`) is left out. Authors add and
remove edges and nodes between layouts. `Route` tries the routes of `_route_edge` in its
order: straight, elbow, detours, side exits, side detours. It was compared with the Python
function on 1500 random diagrams, with equal results.

### RenderPictures, ReferenceCache, AgentTools

A session lists the slides of a file, and the browser opens the file later; a picture's name is
made of the presentation's stem and the slide's id, and is shared by files of one stem and by
ids that differ in characters a file name cannot have. The reference document is written in
pieces under a staging name and moved to its place; `disk` tells archives apart, so that a name
that is emptied and reused is seen. `AgentTools` gives each operation its checks in their order,
once as the tool makes them and once as the command does.

## 3. Runs

| run | instance | checks | shows |
|---|---|---|---|
| `server` | 2 pages, an agent, a deck and a template, one user change and one agent change, saves sent until 2 writes are done; `AgentsWait` | `TypeOK` `LockOwner` `CheckStillHolds` `AnswerNamesItsVersion` `SavesAreAtomic` | check, write and both stats together are one compare-and-swap; of two pages that save one version one is refused |
| `trust` | one page, one agent, a user change and an agent change, all user actions and updates | `PageTypeOK` `BaseNotNewer` `NoSilentOverwrite` | the base never runs ahead of the frame, so no save silently removes the agent's change |
| `self` | the same, agents at any time, Reload and Keep mine together, saves sent until 2 writes are done | `NoConflictWithSelf` `OwnSaveNeverReloads` | the save chain and `saveCount` do their work: no conflict with, and no reload of, the page's own write |
| `settle` | lost answers and failed status reads, agents at any time, no polls | `EditsSettle` `NamedVersionsAreKept` | a typed change reaches the disk or the page says why not; a save that names the version its document comes from replaces nothing it does not hold, unless forced or an agent wrote after its check |
| `converge` | polls, no updates | `PageConverges` | the page comes to show the file or a notice |
| `requests` | a page and an agent on a record that is new, in use or broken; two tabs and an agent on one that is in use; one suggestion, one pending request at most, 2 fetches in flight; 306,367 states | `RecordTypeOK` `PendingBounded` `AppliedOnce` `RecordIsAtomic` `NumbersOnlyGrow` `ShownNeverOlder` `PanelConverges` | every operation is one atomic change under crashes and failing storage; no number is given twice; the panel comes to show the record |
| `process` | 2 processes, 2 files, 2 ports; flags over 3 seconds with a lifetime of 2; 2 connections around a stop; some 49,000 kinds of request; some 478,600 states | `ProcessTypeOK` `RecordNamesServer` `FlagAgrees` `StopIsClean` `IdleIsShut` `ReceivingIsBounded` `ForeignChangesNothing` `ErrorsChangeNothing` | what is announced, flagged, shut and refused agrees with what is |
| `documents` | the parts below one at a time; 1,127,648 states | `IdsUnique` `ReplacedIsKept` `FailureUndone` `WritesAreAtomic`, `PatchLeavesItNumbered` `OnlyNamedSlidesChange` `ReadBackKeepsTheSlide`, `NodesApart` `ConnectorsReach`, `PictureShowsTheSlide`, `SurfacesAgree`, `WholeReference` | versions, patches, diagrams, pictures, tools and the reference document |
| `template` | a page, a deck and a template | violated: `TemplatesUntouched` | `open_file` between the template check and the lock |
| `base_race` | `PromptLoads` FALSE | violated: `BaseNotNewer` | the frame is served, the agent writes, the status is read |
| `conflict_choice` | as `trust` | violated: `ConflictEndsByChoice` | a structural edit's conflict is reloaded away by the next poll |
| `arch_ids` | the diagrams of `documents` | violated: `EveryEdgeIsDrawn` | an edge added before a second layout takes the id of another |

`MCServerProcess` and `MCDocuments` explore several components in one run. They share nothing
but files, so a constant-valued variable (`focus`, `part`) says which one a behaviour is about
and the others rest; `View` leaves the resting ones out of the fingerprint, and history that
only an action property reads. The parts of `documents`: two writers, one second more, a limit
of one version and 3 writes; decks of up to 3 slides with 2 operations in all, patched at once
or one by one; four topologies over 4 nodes with 3 edits; 2 sessions on 2 files with 2 renders
and an edit; every call of every tool; 4 exports, three of them in one process.

**Bounds.** Two pages are enough for the lock: the properties of `SaveServer` speak of one or
two handlers, and they are proved for any number. One user change and one agent change already
give every order of "edit, save, foreign write, poll, reload", and a second agent change was
checked for `trust` (6.6 million states) and `converge` (1.0 million) without a difference.
`MaxWrites` stops new saves; 8 is never reached in `trust`, `settle` and `converge`, where a
save of unchanged content does not write. It is reached in `server` and `self`, where it only
cuts off longer histories of the same kind (in `self`, Keep mine and Reload in alternation
write for ever). `MaxQueue` 1 allows a save in flight and one waiting: a further one would
post the same document. One poll at a time is what `setInterval` with answers faster than the
interval gives.

In `requests`, one pending request at most makes the limit bite at the second one. The records
it begins with are an absent one, one with a review only, one with a request done, one pending
and a review, and a broken one. `part` tells two questions apart. In `panel`, a page and an agent
begin operations on those records, their calls overlap, and so two changes follow each other in
either order with every loss around them and the list beside them. In `tabs` the list rests, and
two other pages and an agent begin operations also on what a first change left (`Opens`): both
tabs pass or miss the limit together, apply one suggestion twice, and apply again what was
applied and deleted. An `apply_suggestion` that does not mark the suggestion, and an update
without the lock, are found there to break `AppliedOnce`. As the list rests, `PanelConverges` and
`ShownNeverOlder` ask nothing of `tabs`.
In `process`, two files and two processes give every pair of "who began, who ended, who reads";
3 seconds pass the lifetime of 2. Two connections are enough for a property that speaks of one,
as they share only the registry. In `documents`, the limit of one version and the second second
are what make prunes and reused suffixes happen. Layouts are not counted by `MaxEdits`: 3 edits
give an edge and its successor and a change of topology or a drag between them; the finding
needs two.

**Fairness.** `FairEditorSpec` assumes that the browser runs its timers, delivers answers and
loads frames, and that the server runs its handlers; users and agents owe nothing. The save
chain is one queue, so weak fairness of "its next step" is what the event loop gives. A handler
waits for `save_lock` only while another one holds it, and each of these runs has one page, so
weak fairness suffices. `FairPanelSpec`, whose fairness the `requests` run takes, assumes that
the status poll is sent every two seconds (weak), that a fetch under way ends (weak), and that a
fetch or poll tried for ever is not lost every time (strong, on the newest fetch being served
and rendered and on the poll being answered). Nothing is assumed of users, agents and the store.

**Deadlock** is checked in the runs of the save pipeline. The other runs end where their
bounds or a single answer end (`CHECK_DEADLOCK FALSE`).

## 4. Proofs

Each theorem holds for every value of the constants that satisfies the named assumptions of
its module. TLC evaluates these in every run, and checked every inductive invariant below on
an instance before it was proved. A theorem that needs more of the constants has it as a
hypothesis; each hypothesis is satisfied by a run of section 3, named with it.

### Save endpoint (`SaveServerProofs`)

For any sets of pages, agents, files and changes, any bound and any age of the files, from the
four named assumptions of `SaveServer`: `None` is none of the other values, pages are not
agents, templates are files and agents' changes are changes, ages are natural numbers,
`AgentsWait` is a Boolean.

* `TypeCorrect`, `LockExcludes`, `CheckHoldsAtWrite`, `AnswersOwnVersion`: the four
  invariants, with agents that write at any time. Neither of the last two is inductive alone:
  `AnswerNamesItsVersion` speaks of the answer, and its reason lies before the second stat.
  The inductive invariant `IInv` adds `FileKnown` (a handler past its check knows its file)
  and `OwnOnDisk` (between replace and second stat the file carries the mtime this save left,
  unless an agent wrote). `LockOwner` is what makes both survive the other handlers: a second
  handler past its check would be a second holder (`OneHolder`).
* `SaveEndpointIsARegister`: under `AgentsWait`, `Spec => SavesAreAtomic`. `RInv` adds
  `Untouched` (no agent wrote since the check) and `MtimesPast` (no file is newer than the
  clock, so a write is newer than every version). Then every action maps to a register step or
  a stutter, one lemma per action: `Admit` to `Fail` or a stutter, `Check` to `Refuse` or a
  stutter, `Replace` to `Save`, `ReplaceFails` to `Fail`, `Stat` to a stutter, `AgentWrite` to
  `Foreign`.

### Editor page (`EditorSaveProofs`)

* `PagesUseTheEndpoint`: `EditorSpec => Spec`. Every action of the page is a step of
  `SaveServer` or leaves its variables alone: what a page posts is a set of changes made and an
  mtime a file has had. So the theorems above hold under the page. `EInv` is the invariant
  for it: the server's `IInv`, `ServerKnown` and `PagesKnow` (every mtime held on either side
  has been a file's), and the page's types (`PageTypeCorrect`).
* `DocumentsHoldTheirVersion`: `EditorSpec => []ShownIsHeld`, with no hypothesis on the
  constants: agents at any time, lost answers, slow frames, several pages and files. A document
  whose version a file has holds every change of the file, so the mtime `check_conflict`
  compares stands for what it is to protect.
* `NamedVersionsKept`: `EditorSpec => NamedVersionsAreKept`, with no hypothesis either. It says
  of each single save when it is safe: it is not forced, no agent wrote between its check and
  its replace, and its base is the version its document comes from and the document is still
  the one it was cloned from. That such a save removes no change from any file holds whatever
  happened before it. That the base always is that version is what the code does not guarantee
  (`base_race` and section 6), and no theorem claims it.
  The invariant has, beside `EInv`, that no version shown is newer than the clock or another
  file's than the one that has it, and that what a save carries is what its document held.
* `NeverRefusedForItself`: with `Candid` (no lost answers, one file; run `self`), agents
  writing at any time: a page is never refused because of its own write. `SInv` adds
  `OwnVersionKnown`: what the page wrote last on disk is its base, or is on its way to it.
* `OwnSavesAreNotReloaded`: with `Candid` and one poll at a time (`OnePoll`; run `self`), a
  poll never reloads the page because of its own save. `OInv` adds `OwnPollNoted`: a poll that
  saw the page's version and is not `stale` finds it in `last`. With two polls in flight it is
  false: an older answer that names the page's own version, taken after a newer one, reloads.

### Requests (`RequestRecordProofs`)

From `RulesAssumption` and `ClientsAssumption`. The inductive invariant rests on one fact: the
copy a client read under the lock equals the record until it writes.

* `RecordTypeCorrect`; `LockExcludes`: two clients never hold the lock; `PendingLimitHolds`:
  never more pending requests than the limit (counted, so it uses the library's facts about
  cardinality); `SuggestionsQueuedOnce`; `NumbersAreNeverReused`: no step lowers the next id or the
  revision or changes which request an id names; `ListNeverGoesBack`: what the panel
  shows is never replaced by an older list.
* `RecordIsALog`: `Spec => RecordIsAtomic`, one lemma per action; the operation happens at
  `WriteRecord`, or at the read that refuses it, and a crash before it is no operation.

### Lifecycle and connections (`ServerProcessProofs`)

From `StateAssumption` and `PortAssumption`.

* `PortsAreExclusive`: types, and no port bound by two servers. `RecordsNameServers`: a
  record names a server that has its port, given `OneAtATime` (run `process`). `FlagsAgree`:
  every reader sees the flag of the latest start or end, whether it reached the record or the
  memory. The invariant is `FlagInv`, `LifeType`, `PortsAgree` and `OneAtATime =>
  RecordsAgree`.
* `StopCutsNothing`, `NothingIdleSurvives`, `ReceivingEnds`: the three invariants of the
  connections, from `ConnType`, `RegistryAgrees` (the registry knows a socket from its add to
  its remove, as busy from its `begin_request` on), `Progress` (what a connection has done by
  each phase), `WaitInBounds` (a wait under way ends inside the bound of its phase),
  `StopIsClean` and `IdleIsShut`.

### Versions (`DocumentsProofs`)

From `HistoryAssumption`. The inductive invariant is `WriteOK` for each writer (what its name,
claim, staged version and temporary file are at each point), `ClaimsApart` (two writers never
own one claim) and `IdsUnique`.

* `IdsAreUnique`; `FailuresAreUndone`: a write that fails leaves the file and no version of
  its own; `WritesImplementTheFile`: `Spec => WritesAreAtomic`.
* `ReplacedContentIsKept` needs `KInv` as well: `AloneIsAlone` (a writer marked alone has no other
  under way beside it), `ClockIsAhead` (no version is of a later second) and `KeepOK` (once a
  lone write is past its version, that version or one that follows it in its second is kept
  and on no list to be pruned).

### Numbering and patches (`DocumentsProofs`)

From `DeckAssumption` and `PatchAssumption` (the files to begin with are `IsDeck`, what an agent
writes is a slide, no id is `Absent`, no deck has more slides than names). `IsDeck` is a sequence
of pieces that have the fields of a slide.

* `RenumberedIsClean`: `Lint(Renumber(d))` has no L002, L003, L004 or L005 for a deck with a slide,
  whatever its ids, counters, total and names were. It rests on `Ranks` (slides count from 1
  on without a gap, by cardinalities) and `SameSlides` (renumbering changes neither which pieces
  are slides nor their ranks).
* `RenumberKeepsTheRest`: every piece stays in its place with all but its id and counters.
* `DeckIsKept`: the invariant `DeckInv`. That a patch keeps it is an induction over its
  operations (`WorkedOK`): each one keeps the working copy a `Copy` (`ApplyKeeps`, with a lemma
  for each kind of operation). The invariant of the copy is `Good` for each piece (a slide of a
  deck of marked slides is marked; a piece goes by the id of a slide that is named, or has the
  key it had; an untouched piece is one of the file; no image becomes a reference) and that the
  pieces outside the named ones have their content and their order (`RestOf`). Inserting,
  removing and changing named pieces keeps `RestOf`, as a bijection that keeps the order keeps
  every rank (`SameRest`).
* `OthersAreKept`, `StructuralPatchNumbers` follow from it for any list of operations: the first
  as distinct ids make the keys the property takes those of every slide an operation can find
  (`NamedByDistinctIds`), the second with `RenumberedIsClean` and `EveryRank` (each number up to
  the count is the rank of a slide).
* `ReadIsWrittenBack` needs `NoReferences`: no file to begin with has a `data:ref:` image of its
  own. `documents` satisfies it, and `PlainInv` keeps it, as an operation that would bring one in
  fails or has it replaced. Without it the theorem is false: of a reference and a large image
  `hide_images` makes two references to the same image. `HiddenArePutBack` says that
  `PutBack(Hide(images), images) = images`, since references grow along the large images.

### Diagrams (`ArchLayoutProofs`)

From `LayoutAssumption` and `IdAssumption` (a diagram's nodes have distinct ids), for any
topologies, drags, edges and number of layouts.

* `LayoutKeepsNodesApart`: `AllVisible => (ArchSpec => []NodesApart)`. Sums of shares are
  monotone and end with the whole up to what rounding loses, so rows, slots and the nodes of a
  column follow one another with a gutter between; and what a layout writes, with one decimal and in
  per cent of its column, and the browser shows in the column as that was written, is off its
  computed box by less than half a gutter, however halves are rounded (`HalvesUp` is any set), and
  beyond its lane and the diagram by no more than `LaneSlack` and `DiagramSlack`. These are what
  rounding adds, so that the theorem says nothing clips but for that. `ArchTypeOK` is the
  invariant.
* `LayoutKeepsConnectors`: `AllVisible /\ AllTall => (ArchSpec => []ConnectorsReach)`. Every
  course `_route_edge` may take is shown to fit (`Fits`): to lead from the source to the target,
  or to cut through a third node. Lines, elbows, ways out of a side and detours by a rail in a
  gap lead to the target. A rail held back at the edge of the diagram may run at the height of
  the target and miss its arrow, but then a node of the row is in its way. Between neighbouring
  rows without columns one of the routes is clear, as nothing stands in the gap between them.
  The invariant is `KeysInv`: no two edges have one key, and what is drawn for an edge carries
  its id.

`AllVisible` says that each node of each topology has some width and height, `AllTall` that it is
higher than a hundredth of the diagram. The topologies of `documents` satisfy both (TLC evaluates
them). They exclude what the code does not handle: with more than 17 rows the gutters take up
the whole height, and a node no higher than the clearance of a rail is missed by it.

### Pictures and the reference document (`OutputsProofs`)

From `CacheAssumption` (at least one piece) and `RenderAssumption` (`Nothing` is no slide id and
no session, the lists of slides are sequences, the bounds are numbers).

* `ReferencesAreWhole`: `CacheSpec => []WholeReference`, for any exports and processes and archives
  of any number of pieces. `StagedApart` says that a staging path leads to an archive of its
  own process that no other path and not the cache leads to; `OpenedBy` that who opened an
  archive has begun to build; `LoneWriterHasIt` that a thread which builds alone in its process
  finds at the staging path its own archive, with the pieces it wrote; `PublishedSound` that
  what is published is whole or was opened by a process with two builders. The attempt to prove
  an earlier form, which excused only torn archives that two threads of one process had both
  opened, failed at `Publish`: a third thread may publish the archive another one has just
  emptied. With three exports in one process TLC finds it too, which is why `documents` has
  four.
* `PicturesShowTheirSlide`: `RenderSpec => []PictureShowsTheSlide`, for any files, ids and edits,
  also of two slides whose ids make one file name. A session nobody disturbed (`calm`) is the
  only one at work on the pictures of its stem (`CalmAlone`), and `SessionOK` ties what it
  listed to what the browser sees up to the shot, what it shot to the file at its path, and the
  pictures left to those it still has to remove or could not.

### Answers (`AnswersProofs`)

From `HttpAssumption` and `CallAssumption`, which give the methods, flaws, files and operations
that are told apart. The state is one step, so the proofs are about the functions: what passes
checks in order passes each of them (`PassBoth`), what changed something passed them all
(`ChangePassed`), and checks made twice refuse no more than once (`CheckedTwice`).

* `ForeignRequestsChangeNothing`, `ErrorsChangedNothing`: for any set of requests, whatever their
  paths, lengths, bodies and ends.
* `ToolsAndCommandsAgree`: for any set of calls. Where click lets a call through, the command's
  answer is the tool's but for the flag (`CommandAgrees`); where click refuses, so does the tool
  (`ClickedRefused`); a default scale that is spelled out is the one difference
  (`RenderSpelledOut`).

### Checked by TLC only

* Liveness (`EditsSettle`, `PageConverges`, `PanelConverges`) and ENABLED: out of the prover's
  reach.
* `BaseNotNewer` and `NoSilentOverwrite`. They hold in `trust` with the switches of section 2 as
  given there, and without them the code breaks them (`base_race`, section 6). They are
  checked to find what else could break them; a theorem with the switches as hypotheses would
  assume what the code does not give. What is proved instead is `NamedVersionsKept`.
* `NoConflictWithSelf` and `OwnSaveNeverReloads` are proved under the hypotheses their theorems
  state, which are the values the run gives them.

Induction over data goes by least counterexamples: a set of numbers has a least one
(`LeastNatural`, from `WFMin` of the library), so what holds of 0 and is passed on holds up to
any number (`UpTo`). Recursive functions are shown to exist the same way (`Recursion`,
`WorkedFollows`).

## 5. Findings

1. `template`: the template check at `http_server.py:578` and the write at line 580 read
   `state.current_file` separately; `open_file` of a template in between lets the save
   overwrite it, against `README.md:142-143` of the repository.
2. `base_race`: the base comes from `/status`, the document from `/content-frame`, with
   nothing between them; an agent's write there is then overwritten by the next save with no
   conflict, against SPEC-0009 `spec.md:133` ("the version of the file the page last loaded,
   or last wrote itself").
3. `conflict_choice`: after a structural edit's 409 nothing is pending, so the next poll
   reloads and clears the notice, against `editor-save.js:69` ("keep the unsaved state and let
   the user choose").
4. `arch_ids`: `_ensure_edge_id` numbers edges without an id from `edge-0` in each run, and an
   edge that already has that id loses its decorations to the newcomer, against its docstring
   `arch_layout.py:868-870` ("always found and replaced by the same key").

## 6. Observed while modelling

Seen in TLC traces and not kept as runs; the switches above exclude some of them.

* The second stat (`http_server.py:796`) may read an agent's mtime; the page takes it for its
  own version, never reloads, and the next save replaces the agent's work without a conflict.
* When the first `GET /status` fails, the page has no base; the first poll gives it the mtime
  of that moment, which may be newer than the document in the frame.
* `open_file` called again between the answer to a poll and the frame's load can leave the
  page on a file that is no longer served, with a later save going to the other one.
* A reload at the end of an update happens even with pending edits (documented in SPEC-0002
  `design.md:20`, an exception to FR-008) and leaves `hasPendingChanges` set, after which no
  external change reloads the page until a save is accepted.
* `onSaveAccepted` clears the mark of what was typed while the save was in flight, and forgets
  the handle of its timer; the timer still fires, so the change is saved unless a poll reloads
  first.
* A structural edit whose save fails is unsaved and not marked so.
* A save whose answer is lost after the write makes the page's next save conflict with it.
* `AnswerPoll` takes mtime and flag in one read; the handler reads them one after the other.

Request panel and record:

* After `open_file` a record with an equal revision is never fetched, so the panel keeps the
  requests of another file, against the comment at `editor-requests.js:230-233`; Delete then
  removes a request of the file now served. The model's page serves one file.

History and writes:

* After a prune or a discard a lower suffix of the same second is free again. The next version
  takes it, sorts as the oldest of that second and may be pruned at once, against
  `README.md:134` of the repository ("oldest dropped first"). `ReplacedIsKept` therefore asks
  only while no version of that second has a higher suffix.
* Prune and discard remove by name, which may by then be another writer's version.
* A save between an agent's read and write is lost from the file and kept in the history only,
  and one between the staging and the replace of the agent's write not even there; nobody is told.
  `ReplacedIsKept` speaks of writes that no other overlapped.
* A save is answered 500 although it was written when the file vanishes before the second stat.

Lifecycle and update flag:

* `end_update` clears the flag of the file served now, not of the file the update began on, and a
  patch that ends clears the flag of an update the agent had begun itself. `FlagAgrees` follows
  both: it says that record and memories agree on what the calls did, not that it was wanted.
* A bind that fails, and a process that exits without a stop, leave a record of a server that
  does not exist.

Decks:

* A `data-type="slide"` slide inserted into a deck of bare `article.slide` elements becomes the
  only slide found (`Uniform` in `PatchLeavesItNumbered`).
* Renumbering searches the raw text of an eyebrow, lint its text: a counter split by markup
  keeps its L005.
* With duplicate ids the first slide is the one addressed.
* A slide that has a literal `data:ref:img-N` image is not written back as it was read: the
  reference becomes the slide's Nth large image (`NoReferences`).

Diagrams:

* In a diagram of one row, an edge over a node in between finds no clear route and falls back
  to a line at 99 % through the nodes, with the arrow at the top of the target and not joined
  to the line. `ConnectorsReach` leaves such diagrams out.
* What is written is rounded value by value: rows of weights 3 and 37 give a second one of 13.1 and
  87.0, which ends at 100.1, and a lane that ends at 100.0 below a node that ends at 100.1, though
  the docstring of `_layout_lane` (`arch_layout.py:1018-1019`) says that a lane is "incapable of clipping
  a node it is supposed to contain". `NodesApart` allows what rounding adds.
* With more than 17 rows the gutters take up the whole height: nodes get no height and rows run
  beyond the diagram (`AllVisible`). A node less than 1 % high is missed by the check of a route
  for obstacles (`AllTall`).
* The line at 99 % may lie inside its target: in a last row of two columns with a node between
  them, for an edge from a lower node of the first one.
* Where boxes are aligned only within the tolerance, the arrow is up to 0.05 % beside the end of
  its line.
* A detour may begin inside its source's box or run over its source or target, which are no
  obstacles; a side exit may enter a wide target from inside.
* An edge whose boxes touch after a drag has no segments and gets `display:none`, which later
  layouts never clear from its first segment.
* Decorations of edges that were removed, or whose node is gone, stay.
* Nodes without `data-id` stacked in one column all get the last one's box; the warning of an
  engine bug also speaks of dragged nodes; `data-rows` of a lane counts positions of the sorted
  rows; a layout writes templates and keeps no version.

Render, export, tools:

* The slides are listed before the browser loads the file: an edit in between gives the picture
  of another slide. Presentations of one stem overwrite and remove each other's pictures.
  Pictures of deleted slides are never removed. `PictureShowsTheSlide` is about undisturbed
  sessions.
* Two `GET /export/docx` in threads of one server share the staging name, which holds the
  process id only: a torn reference document can be published, or the second move fails,
  against the comment at `reference_docx.py:358-359`. A third thread that never shared the name
  may be given the torn archive as well. `WholeReference` allows exactly these cases.
* A directory given as FILE is a usage error of the command and an unhandled one of the tool;
  `--scale 0.5 --report-only` is refused by the command and accepted by the tool.

## 7. Plan

| order | what | from |
|---|---|---|
| 1 | `SavesAreAtomic` without `AgentsWait` | a register whose foreign writes may fall between a save and its answer |
| 2 | the hazards without a property: a mark cleared by an older save, the file switched between a poll and its load | a hypothesis for each, and what is lost without it |

## 8. Not modelled

* Undo and redo (`editor-undo.js`): what the stacks hold depends on which `load` events a browser
  fires for `document.write` and on whether `document.open` ends a navigation. The code reports
  what one browser does; a model would only return the assumption it makes.
* What an export writes (`pptx_*`, `docx_header_footer.py`, the styles of
  `reference_docx.py`), what a save cleans from the posted HTML, and parsing: pure conversions.
* Labels and badges of connectors; what a render measures; the content rules of lint beyond
  which slide they speak of; `arch_checks.py`.
* The precedence of settings, the text of skills and its audit, logging and tracing: lookups
  and text.
* The layout of the page, focus, the toolbar, titles and the connection notice, and what an
  edit does to the document (`editor-edit.js`, `editor-blocks.js`, `editor-format.js`): an
  element of a set.

Assumed of the environment: hard links work (the fallback of `_publish` without them is left
out), a claim can be removed by the writer that made it, node ids are present and distinct, and
an agent waits for its answers (`OneAtATime`).
