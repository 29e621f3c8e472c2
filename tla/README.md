# Verification of himark's shared documents

himark is an editor whose files may live on another machine: an *agent host*
(`backend/agent-host`) mirrors files as document channels, any number of
clients edit them at once, and coding agents rewrite the files underneath. The
part of the program where a mistake loses somebody's text without a trace is
the road an edit takes from a keystroke to the disk and to the other screens.
This project models that road in TLA+, with the wire under it and the chats and
terminals that share it, checks it with TLC and proves its central protocol with TLAPS.

All source paths below are relative to `src/`.

## Inventory

| Component | State it keeps | Operations | What makes it correct |
|---|---|---|---|
| **Rebase log**: `frontend/rebase/src/lib.rs` | committed state and its version, a speculation (own edits not echoed), a queue of edits being rebased | `local`, `remote`, `ack`, `step` | the speculation is one chain on the committed state; no edit is lost, doubled or reordered |
| **Sync loop**: `frontend/rebase/src/driver.rs` | the log, what is heard, the offer owed and the offer outstanding, the saves waiting | one arm per message: edit, took, flush, action, rebase step | offers keep what was typed; saves wait for their edits; all come to rest |
| **Document-channel client**: `frontend/ahp-docsync` | a life per location: connecting, live, drained; the seam's counts | connect, adopt, seam, offer, save, drain, give up | the seam's number is right; an offer never takes typing away; one life per location |
| **Edit values**: `frontend/documents/src/sync.rs`, `editor/src/edit_log.rs` | edit logs with identities | carry an edit from one log to another | the bridge starts at the deepest common entry |
| **Wire client**: `frontend/ahp-wire/src/wire.rs` | connection, feeds by channel, last sequence seen, the reconnect token, seats and orphans of terminals | dispatch, ask, poll, subscribe, reconnect, attach | order, no gap, no duplicate across connections; one dial at a time, nobody waits for ever |
| **Host document**: `backend/agent-host/src/documents.rs` | text, version | open, dispatch | the lineage gate: nothing misapplies |
| **Host mirror**: `backend/agent-host/src/server.rs` 3657-4063, 1130-1636 | documents, mirrors, disk texts, subscriber rows, watches, replay | open, subscribe, unsubscribe, dispatch, reload, store, close, reconnect | a subscriber's document lives; mirror, disk and language servers agree |
| **Disk diff and merge**: `backend/agent-host/src/documents/reload.rs` | none | `hunks`, `merged`, `spans` | rebuilds the target; nobody's lines dropped, none come back |
| **Wire positions**: `protocol/ahp-ext-types/src/text.rs` | none | spans to positions and back | what one side sends the other places |
| **Sessions, chats, turns**: `server.rs` 2130-2760, `claude.rs`, `codex.rs` | the chat's active turn and queue; agent processes with the turns they hold | start, queue, drain, cancel, answer, fail, wake, change flags, dispose | answers land on their turn; nothing queued is lost; processes serve the chat; turns end |
| **Terminals**: `server.rs`, `wire.rs`, `frontend/terminals` | PTYs, their viewers, the seats and the panes | open, say, resize, hang up, attach again, dispose | a grid is what was said; no PTY is forgotten |
| Language and search servers: `lsp.rs`, `fsp.rs` | pools of processes | ensure, feed, ask | their copy is the mirror |
| **Documents without a host**: `frontend/documents` | open documents: revision, baseline, saved revision, watch, refetch serial, save token | save, watch, refetch, diff, land, hand over to the host and back | a clean document is the disk's text; neither side's lines are lost |
| Operations and text: `frontend/operation`, `text`, `rope` | none | compose, invert, transform | the algebra's laws |
| Channel clients, UI, scripting, apps, vendored code | - | - | not in scope, see `PROJECT.json` |

How they interact. A keystroke changes the editor's own text at once; the *seam*
sends the edit to the location's *sync loop* over a queue. The loop speculates,
mints an id and dispatches, chained on the edit before, without waiting. The
host applies a dispatch whose `base` is the current version and broadcasts it;
any other it discards without an answer. The loop hears the broadcast: an own
echo is an ack, a foreign action puts the speculation into the rebase queue, one
entry a turn is carried across and dispatched again under its id. When it is at
rest the loop *offers* its state to the editor, which takes it only if it holds
every edit the seam has sent. A store goes from the loop, once settled, to the host, which
writes the file; a poll watcher per mirror reads the file when others write it.

A document has one *life* of its channel at a time; while there is none, the client itself
watches and refetches the file, and when one is adopted it hands that over to the host. All channels share one
connection: the host numbers what it says, a pump per channel lands it in a feed, and a connection that
follows a dead one asks from the last number landed. Chats and terminals are channels as well; behind
a chat is an agent process that outlives a turn, behind a terminal a PTY that outlives a connection.

What is hard: every dispatch is a task of its own on the client and the host's requests
run concurrently; host handlers read files before, and write them between, updates of
the state; connections die under dispatches; names are used again for carried
edits; two actors (reader and loop) change the editor with a queue each way; a process answers turns
without naming them; a save, a refetch and a change of who reloads a document overlap.
`PROJECT.json` lists these hazards by line.

## Modules

| Module | Models | State and actions |
|---|---|---|
| `RebaseLog` | rebase log and `SyncEdit` carrying | a log is a record; `Local`, `Remote`, `Ack`, `Step` return the log and what is dispatched |
| `DocSync` | host document, loops and the wire between them | `text`, `version`, `feed[c]`, `wire[c]`, `log[c]`; `LocalEdit`, `HearApplied`, `RebaseStep`, `DocumentDispatch`, `ReloadMirror`, `SubscribeDocument`, `ConnectionDies` |
| `OrderedEdits` | the abstract document: one history, to which each client's edits are added as typed; a client learns its oldest pending edit as its own, and withdraws a run of them | `Join`, `Edit`, `Commit`, `HostCommit`, `Learn`, `Withdraw` |
| `EditorSync` | editor, seam, offers and saves around the loop | extends `DocSync`; each arm of `driver::run` and each main-thread command is an action |
| `EditorSyncProofs` | theorems of `EditorSync` | - |
| `DocSyncInv` | the inductive invariant `IInv` | predicates of values |
| `DocSyncProofs` | theorems of `DocSync`, with its refinement of `OrderedEdits` | - |
| `MirrorHost` | host mirror of one file with several clients and an agent | what is inside one `update` is one action: `OpenRead`/`OpenInsert`/`WatchMirror`, `StoreRead`/`StoreWrite`/`StoreRecord`, `WatchFires`/`ReloadMirror`, `SubscribeDocument`, `Unsubscribe`, `CloseConnection`, `Reconnect`, `FeedServers` |
| `MirrorHostProofs` | theorems of `MirrorHost` | - |
| `Reload` | the diff and the merge, and the texts they meet | pure operators; a small machine of edits, writes, reloads and stores produces the texts |
| `ReloadProofs` | theorems of `Reload` | - |
| `WireFeed` | the host's numbering and kept envelopes, rows, taps, pumps, feeds and the cursor over connections that die | `Publish`, `HostSubscribe`, `HostReplays`, `HostSnapshots`, `Pump`, `Dial`, `AskReconnect`, `ReplayLands`, `Activate`, `Subscribe`, ...; one action per lock or await |
| `Redial` | `ensure_active`: asks and polls that meet a dead connection | where each caller is (`look`, `lock`, `dial`, `parked`, ...), the token, the bell, the dead connections |
| `ChannelLife` | `SyncClients`, `DocumentChannels` and a life's task for one location opened again and again | `Perform*` for each posted command, one action per step of a life, a save on its worker |
| `ChannelLifeProofs` | theorems of `ChannelLife` | - |
| `ChatTurns` | one chat: dispatches, the drain, the pumps of the agents, Claude and Codex processes | lanes (connections, drainer, pumps) with a place each; a step is what happens under one lock |
| `ChatTurnsProofs` | theorems of `ChatTurns` | - |
| `Terminals` | terminals of one client: host entries, requests, seats, orphans, panes | `CreateTerminal`, `PtySays`, `DisposeTerminal`, `Attach`, `PumpTerminal`, `TerminalOpen`, `HangUp`, `CloseLink`, ... |
| `ConnectionProofs` | theorems of `Redial` and `Terminals`: what the wire client keeps over connections that die | - |
| `DocumentLanes` | one document and its file: save lane, watch lane, refetch lane, `host_synced` | `PressSave`/`StoreWrites`/`StoreLands`, `HostArms`/`Watched`/`WatchFires`/`FileChanged`, `FetchReads`/`Refetched`/`RefetchDiffed`, `GoLive`, `FallBack` |
| `DocumentLanesProofs` | theorem of `DocumentLanes` | - |
| `MC*` | instances for TLC | - |

How they compose. `EditorSync` extends `DocSync` and `DocSync` implements `OrderedEdits`. `DocSync` assumes of
its `feed` what `WireFeed` shows (each once, in order, no gap without a named cause); `EditorSync` starts where
`ChannelLife`'s adoption ends; `DocumentLanes` is the document while `ChannelLife` has no life for it, and
uses the merge that `Reload` relates to sets; `WireFeed` and `Terminals` take from `Redial` that a dead connection is
followed by one other that takes over its feeds. Those links are arguments, not checked refinements.

### Abstractions

* **Texts in `RebaseLog`, `DocSync`, `EditorSync`** are the sequences of edit ids
  that made them. An operation made on one text and applied to another is
  *detected*: each dispatch carries the text it addresses (`before`), a history variable the host's gate does not
  read. Positions inside a text are not modelled. That a carried edit may vanish because its
  place was deleted is the constant `Shadows`: pairs (foreign action, edit) that
  collapse. Of a deletion in a deletion in a third the third leaves nothing, so `EditorSync` takes
  `Shadows` to be transitive (`CollapseAssumption`).
* **Texts in `MirrorHost`** are sets of movable lines. `Reload!MergesSlots` checks
  that on such texts `merged` is the set merge used there.
* **Lines in `Reload`** are values; a missing line feed at the end of the file is
  left out, so the prefix test of `merged` is on whole lines.
* **`WireFeed`** numbers a channel's actions and says nothing of what they hold; **`Terminals`** numbers output
  chunks and geometries; **`ChatTurns`** has turns, messages and processes by number. The SDK's router, the
  chat's reducer and the processes are outside the repository and modelled as the code's comments use them.
* **`DocumentLanes`**: texts are sets of movable lines; a task has a flag for "the revision (serial) I was given is
  still the present one", which is all that revisions and serials are compared for. While the channel lives,
  `mirror` is the host's text: a keystroke reaches it in one step (`EditorSync` has the road), a change on disk in
  another, `HostReloads`. What is shown and the mirror differ by the edits that adoption took off the screen
  (`AdoptSnapshot`, modelled in `GoLive`; the run `editor_early` shows it step by step): the host makes them again
  and the screen has them with the next foreign action.
* **`ChannelLife`** has no texts and no dying connection; a request may fail.
* **History variables that name causes**: `lost`, `raced`, `causes`, `missed` and `races` record that a named thing
  happened (the disk was written while nobody watched; a process died with a prompt half sent). Properties
  exclude them by name, see below.
* **One step for several**: in `ChatTurns` the drain is one lane, though each drain is a task of its own (`server.rs` 2710), and
  `DrainQueue` makes the updates of 2683-2707 and 2761-2776 at once; after a failed start of a held Codex turn `ApplyEnd` goes on
  to the next held one, where `codex.rs` 967-971 returns (this happens only in runs that met a race already, which the properties excuse by name). In
  `MirrorHost`, `WatchFires` takes the poll's look at the file and the read that follows it (`server.rs` 3756-3802) for one: a write
  between the two is read at once, and its own firing then reads what is known.
* Queues are unbounded sequences. The channels of 64 and 8 in the program are
  drained by tasks that never wait.
* `feed[c]` is FIFO (outbox, connection and pump are); `wire[c]` keeps its order
  if `Ordered`.
* The mutants (`LineageKnown`, `AckKeepsVersion`, ...) are forms a plausible bug would
  give a definition; each property is known to fail under one of them.

## Runs

A run checks several parts in one property where they belong together (`EditorInv`, `MirrorInv`, ...); the
parts have names and comments of their own in the modules, and the names below are those.

Passing:

| Run | Instance | Shows |
|---|---|---|
| `docsync` | 2 clients, 2 edits each, 2 reloads, 1 death, in order, fair | types and the inductive invariant `IInv`; nothing misapplies; clients hold a prefix of the host's history; echoes are recognised; edits survive; `DocSync` implements `OrderedEdits` (and so commits as typed); if no connection died nothing strands and all converge |
| `editor` | 1 client, 3 edits (1 before adoption), 2 reloads, 1 death, 1 save, fair | the seam's count; offers keep typing and never go back; saves cover what was typed, and land; editors converge |
| `mirror` | 2 clients, 2 opens, 1 write, 1 store, 1 lost connection, no edit | subscribers hold their document, over opens that cross, closes and a dying connection |
| `mirror_disk` | 1 client, 1 open, 2 edits, 2 writes, 2 stores, fair | reloads keep edits; the mirror follows the disk and catches up; the lane keeps the mirror |
| `reload` | files of up to 3 lines of 2 kinds, 4 edits, `CellCap` 9 | the diff rebuilds and is a longest common subsequence; merges drop and move nothing; the set merge of `MirrorHost` |
| `wire` | 2 channels (one `Ext`, one subscribed from the start), ring of 1, 2 actions, 1 subscribe, 2 events, fair | each action once and in order; no gap without a named cause; readers catch up |
| `redial` | 2 askers, 2 pollers (1 on the runtime), 2 asks, 2 links, 2 outages, fair | one dials; feeds are carried; every ask ends; every poll comes back |
| `channel_life` | 3 opens, 1 save, 1 fault, 1 visit of another client, fair | one life; the table, route and flag agree; rows have their lives; saves end; what is opened is served and what is closed is given back |
| `turns` | 2 connections, Claude or Codex, 2 starts, 2 processes, 1 event, fair | answers land on their turn; the queue is kept; an agent works on the active turn; processes serve the chat; turns end |
| `terminals` | 1 terminal, 1 chunk, 2 geometries, 2 deaths, fair | grids, exits and geometry are true; every PTY is owned; panes catch up and disposed ones end |
| `lanes` | 1 line of the user, 1 of the agent, 1 edit, 1 write, 1 save, 1 fault, fair | a clean document is the disk's text; neither side's lines are lost, on the screen or, while the channel lives, at the host; a live document is not watched here; the reload loop converges |

Violated:

| Run | Says | What happens |
|---|---|---|
| `editor_early` | the first offer brings the merged state | edits made before adoption leave the screen |

### Further divergences

TLC finds these violated as well; each states what a document or a comment says and the code does not do. The
ones with a configuration of their own run with `tlc -config <cfg> <MC module>`; for the others put the property in
place of the one of the configuration named.

| Property | Configuration | Says | What happens |
|---|---|---|---|
| `DocSync!NothingMisapplies` | `MCDocSyncUnordered.cfg` | order is only thrift (`docs/ahp/ahp-ext.md` 82-87) | with each dispatch a task (`wire.rs` 1844), one that is overtaken may pass the gate on the wrong text: ids are used again after a rebase |
| `DocSync!NothingStrands` | `MCDocSyncDeath.cfg` | a reconnect rebases the unconfirmed tail | a dispatch abandoned with its connection (`wire.rs` 389) is never made again |
| `EditorSync!EditorCatchesUp` | `MCEditorSyncLostOffer.cfg` | an offer lost to a keystroke is made again (`driver.rs` 70) | two offers with one `seen_local` are confused |
| `EditorSync!BridgesFromTheDeepest` | `MCEditorSyncEarly.cfg` with `MaxLocal = 2` | the common base is the deepest shared entry (`docs/editor/rebase.md` 104-106) | the scan of `common_base` walks past it for logs like `<<y, f>>` and `<<f, g>>` |
| `MirrorHost!NoWriteIsMissed` | `MCMirrorHostWindow.cfg` | a change on disk is expressed as an operation | not between the seeding read (`server.rs` 3680) and the watcher |
| `MirrorHost!OwnWriteIsNotForeign` | `MCMirrorHostOwnWrite.cfg` | the host does not read its own write back | it does between write and record (`server.rs` 3968) |
| `MirrorHost!LastOneDisposes` | `MCMirrorHost.cfg` | disposed when the last subscriber disconnects (`docs/ahp/ahp-documents.md` 402-405) | `close_connection` drops rows only |
| `MirrorHost!WatchGoesWithDocument` | `MCMirrorHost.cfg` | the watch goes with the document (same) | not when the document goes before the watch is entered |
| `MirrorHost!StrandedComesBack` | `MCMirrorHost.cfg`, `SPECIFICATION FairSpec`, no symmetry | a client whose channel is missing opens it again (`ahp-documents.md` 340-345) | its feed is dropped and its life waits for ever |
| `Reload!DeletedStaysDeleted` | `MCReloadOverlap.cfg` | a messy overlap is ours then theirs | the position goes back and deleted lines return (`reload.rs` 225; the walk of `documents/src/watch.rs` is the same) |
| `WireFeed!MissedTailIsReplayed` | `MCWireFeedCursor.cfg` | a reconnect answers the missed tail when the ring covers the gap (`docs/ahp/agent-host.md` 150-153) | one cursor serves all pumps; a quick one moves it past what a slow one has to land |
| `WireFeed!ReplayRepeatsNothing` | `MCWireFeedBehind.cfg` | no reconnect asks again for what was seen (`wire.rs` 1799-1804) | a subscribe's snapshot does not move the cursor, and what it holds is replayed |
| `WireFeed!SubscribeMayBeRepeated` | `MCWireFeedBehind.cfg` | a subscribe may be made once more (`wire.rs` 427-432) | the feed was carried and holds what the second snapshot has |
| `ChatTurns!OneLiveTurn` | `MCChatTurnsOneLive.cfg` | one live turn a chat (`agent-host.md` 267-277) | the check and the start are two steps; two connections pass |
| `ChatTurns!FreshFlagsNextTurn` | `MCChatTurnsFlags.cfg` | the next turn respawns under fresh flags (`agent-host.md` 279-284) | a cancelled turn's result is dropped before the retirement |
| `ChatTurns!PromptsNeverFold` | `MCChatTurnsFolds.cfg` | a prompt is never written while another is live, or the two fold into one turn (`claude.rs` 244-249) | of two cancelled turns only the front one is interrupted (335-342); a third prompt folds into the second, and its result pops the wrong turn |
| `Terminals!OpenKeepsItsSeat` | `MCTerminalsSeat.cfg` | a seat is on record from the first ask (`wire.rs` 2446-2448) | a reconnect that lands mid-open takes it away |
| `Terminals!ResizeIsNeverLost` | `MCTerminalsSeat.cfg` | a resize that cannot be sent is told by the reconnect (`wire.rs` 2517-2519) | not after the seats were read and before the connection is active |
| `Terminals!NextLinkRetires` | `MCTerminalsSeat.cfg` | the next connection retires the PTY of a pane closed in an outage (`wire.rs` 2548-2551) | the orphans are taken from their list first (`wire.rs` 985); if the connection fails while it disposes of them, nobody does |
| `Terminals!DeadPumpsAreSilent` | `MCTerminalsSeat.cfg` | what feeds a pane stops with its connection (`wire.rs` 617-625) | a terminal's pump goes on until the socket closes |
| `ChannelLife!SaveNeverSlipsUnder` | `MCChannelLife.cfg` | a save cannot slip under a channel being adopted (`ahp-docsync/src/lib.rs` 327-331) | a document that waits behind a drain has no route |
| `ChannelLife!MissingIsOpenedAgain` | `MCChannelLife.cfg` | a missing channel is opened again (`ahp-documents.md` 340-345) | the client watches the file for good |
| `DocumentLanes!NothingLandsTwice` | `MCDocumentLanesTwice.cfg` | one buffer is not fed from two reload pipelines (`ahp-documents.md` 456-462) | a refetch that lands while the channel connects is in the log that adoption replays on the host's text |
| `DocumentLanes!NewestSaveStays` | `MCDocumentLanesSave.cfg` | the newest save subsumes the older (`docs/ahp/files.md` 97-100) | the older save's write may be last; the watch reverts the clean buffer to it |

### Bounds, and why they are enough

* Two clients are the fewest between which speculation, discard and echo cross.
  Two edits make a chain, whose second link depends on the first; two reloads
  let a foreign action land in the middle of a rebase.
* `Shadows` has one edit that a reload swallows and one that another client's does, so
  chains lose their head and their tail.
* `editor` has a third edit so that one can be made before adoption, one be on its
  way and one overtake an offer. Deadlock checking is off in every run but those of
  `Reload`: people may stop typing.
* Two opens let a document be disposed and opened again while a connection of its
  past is still about.
* `reload`: four edits on up to three lines reach every case of the merge,
  the overlap with a further hunk included (`MCReloadOverlap.cfg` finds it at four).
* `mirror` uses the symmetry of the clients (a safety run); `mirror_disk`, which has a
  liveness property, uses none. The two split what one instance would make too large.
* `wire`: a ring of one is the smallest that covers a gap and the soonest to be left; two events are a death and
  something during its reconnect (a second death, a restart, a page, a disposal).
* `redial`: two of each kind, one poller on the runtime's only worker, are the fewest for one caller to dial
  while one waits for the token, one for the bell and one must not wait; two links are a connection and its successor,
  and outages say when dialing fails.
* `channel_life`: three opens are a life, one that waits behind its drain, and one more close in between.
* `turns`: two starts from two connections race for a chat; the second process is the one that replaces
  or doubles the first; each event (cancel, death, flags, wake-up, disposal, ...) meets both starts.
* `terminals`: two deaths let a second reconnect meet what the first left; two terminals would share nothing but the
  reconnect's loops over them.
* `lanes`: one edit, write, save and fault with a fetch of its own for each change of mode make up to four fetches;
  its safety was explored once with two writes (18.2 million states) and holds there, too.
* `CellCap` 9 lets a middle of 3 by 3 lines through and stops one of 3 by 4. Two slots are as many
  movable lines as `MCMirrorHost` has.

### What the passing runs leave out

The violated runs show where the code goes wrong; the passing ones say what holds
elsewhere, and exclude those places by name:

* `docsync`, the proofs: `Ordered`. Dispatches of one client normally reach the
  connection in order, but nothing in the code promises it.
* The liveness properties of `docsync` and `editor` say nothing once a connection has died
  (`NothingStrands`). `EditorsConverge` says nothing after a second foreign action, when the
  editor may stay behind (`EditorCatchesUp`), or after an early edit, when it does (`editor_early`).
  `EditorKeepsTyping` speaks of edits made after adoption.
* `ReloadKeepsEdits`, `MirrorFollowsDisk`, `MirrorCatchesUp`: the history variables
  `raced` (a store overlapped a reload, a store or an open) and `missed` (the disk was
  written while a mirror was being opened) exclude what `OwnWriteIsNotForeign` and
  `NoWriteIsMissed` show.
* `NoSilentGap` and `StreamCatchesUp` exclude a channel whose `lost` names a cause: the cursor had overtaken the action, it was
  too old or had left the ring, the host restarted, or the snapshot was behind or stale.
* `turns`: each property names the members of `raced` that excuse it, next to it; `TurnsEnd` speaks of turns that met no race at all.
  `behind` is the race of `PromptsNeverFold`: a prompt written while a cancelled turn had not been interrupted.
  The drain that removes a message which was cancelled after it was read is `unqueued`. So the races that two hazards are about,
  an orphaned turn and a spawn that a disposal or a twin overtakes, are excused, and the properties say what holds around them.
* `terminals`: the same with `causes`; the liveness speaks of terminals whose `causes` is empty.
* `lanes`: `BothSidesShown` and `LanesCatchUp` exclude a save that crossed a refetch (`crossed`: what the refetch read lands after the save's write or before its answer),
  something older that came last (`older`: a superseded save, a snapshot, a baseline, an answer from before or from a past life of the channel), early edits that were still off the screen when they were typed again or
  when the channel ended (`early`) and a write that nobody told of (`missed`:
  before the watch's number has landed, after a failed subscribe or fetch). `CleanIsTheDisk` excludes `crossed` and `missed` only.
* `redial` and `channel_life` exclude nothing.

### Fairness

Weak fairness of what the host does with a line it has read, of each arm of a
loop that has something to do, of commands posted to the main thread, of the
watcher's poll, the feeder thread and a client's redial. All are threads or
tasks that never wait on one another. No fairness of typing, saving, opening, closing,
or of anything on the disk. In `wire`, `terminals` and `lanes` the host's and the client's own steps are weakly fair; deaths, faults,
subscribes, openings and the agent's writes are not. In `turns` each lane, each pump and each process is: a process may be slow, but
one that is alive answers or dies. `redial` has strong fairness of taking the token, a mutex of the standard
library that promises no order: what is assumed is that no waiter is passed over for ever, and a reconnect holds it
for a dial or a look. Whether a host comes up is nobody's promise (`PollsComeBack` says `<>[]hostUp`).
In `channel_life` a life goes on but for faults and for hearing an action that may never come. In the loop, `HearEdit`, `HearTook` and `HearFlush` share one
condition because they share one queue.

## Proofs

Proved, for every value of the constants (sets of clients, callers and terminals of any size, every `Shadows`, all bounds):

| Theorem | Statement |
|---|---|
| `TypeCorrect` | `Spec => []TypeOK` |
| `InvariantHolds` | `Ordered => (Spec => []IInv)` |
| `AcceptsOnlyWhatFits` | `Ordered => (Spec => []NothingMisapplies)` |
| `ClientsShareTheHistory` | `Ordered => (Spec => []StableIsServerHistory)` |
| `EchoesAreRecognised` | `Ordered => (Spec => []EchoIsRecognised)` |
| `ImplementsOneHistory` | `Ordered => (Spec => SharesOneHistory)`, the refinement of `OrderedEdits` |
| `NothingTypedIsLost` | `Ordered => (Spec => []TypedSurvives)` |
| `EditorIsSafe` | `Ordered => (EditorSpec => []EditorInv)` |
| `TypingIsKept` | `Ordered => (EditorSpec => []TypingSurvives)` |
| `MirrorIsSafe` | `Spec => []MirrorInv` |
| `ServersFollowTheMirror` | `Spec => []LaneKeepsTheMirror` |
| `BothSidesAreKept` | `Spec => []MirrorHoldsBothSides` |
| `TerminalsAreSafe` | `TermSpec => []TermInv` |
| `GridsAreTrue` | `TermSpec => []GridIsWhatWasSaid` |
| `PtysAreOwned` | `TermSpec => []EveryPtyIsOwned` |
| `RedialIsSafe` | `RedialSpec => []RedialInv` |
| `LanesAreSafe` | `LanesSpec => []LanesInv` |
| `ProcessesAlwaysServe` | `TurnsSpec => []ProcessesServeTheChat` |
| `OnTheActiveTurn` | `TurnsSpec => []WorksOnTheActiveTurn` |
| `QueuesAreKept` | `TurnsSpec => []QueueIsKept` |
| `ChannelIsSafe` | `ChannelSpec => []ChannelInv` |
| `RowsAreHeld` | `ChannelSpec => []RowsHaveTheirLives` |
| `DiffIsAlwaysRight` | `Spec => []DiffIsRight` (`Reload`) |
| `SharedAlwaysLandsOnce` | `Spec => []SharedLandsOnce` |
| `MergeNeverLoses` | `Spec => []MergeLosesNothing` |
| `ReloadReachesItsTarget` | `Spec => [][ReloadMirror => current' = IF current = base THEN disk ELSE Merge]_vars` |

Assumptions: the four named ones of `DocSync` (the host is no client, bounds are naturals,
ids are in `Uid`, `Ordered` is Boolean) and those of `RebaseLog`. `Ordered` is a
hypothesis and not an assumption since the theorem is false without it (`MCDocSyncUnordered.cfg`). `Redial` assumes that `"nobody"` is no caller and that there is a connection to begin with, `ChannelLife` that its bounds are naturals.

`NothingMisapplies` is not inductive: that an accepted dispatch addresses the
host's text follows only from what the dispatches still under way were built on.
The strengthening `IInv` says, for each client: the feed completes the committed
state to the host's text, own echoes before foreign actions (`FeedOK`); the speculation is a chain
on the committed state (`LogOK`); what is pending is the client's own, named once and not committed
(`PendingOK`); echoes answer the head of the speculation (`EchoOK`). The heart is `SentOK`: a
dispatch under way either addresses a text that still extends the host's, and then it is a
speculation entry at that very place, or its base can never be the current
version again *while the dispatch is under way in order*; `ChainOK` hands that from
a dispatch to the one chained on it. Acceptance is then `AcceptedIsCurrent`. Each action has a `...Keeps`
lemma that shows it preserves `IInv`, resting on lemmas about one client's values (`MirrorEchoes`,
`MirrorPushes`, `MirrorAcks`, `MirrorRebases`, `MirrorHears`).

`RedialInv` is inductive as it stands, once its parts are together: that no attempt leaves the feeds behind
(`FeedsAreCarried`) rests on there being no connection exactly while somebody dials, and that on whoever
has the token being the only one between taking it and giving it back (`OneDials`).

That there is one life at a time (`OneLife`) is not inductive: whether a fresh life may begin is decided by a
posted word of the one before, read long after it was written. `ChannelInv` adds what makes it so: the entry is
the last life's and every earlier one is over (`EntryHasTheLife`); what lives have posted is the entry's life's,
one offer or one giving up and then the last word (`WordsInOrder`); and what is posted tells how far that life
is (`EntryKnowsItsLife`), so that `drained` is performed only when its life is over, an offer meets an entry
that still connects or drains, and a life that still connects has been told nothing. With one life at a time the rows follow: whoever
holds the host's row is the one life that is not over (`RowsNow`).

`ImplementsOneHistory` is a step simulation under `IInv`. A rebase, an echo and an unsubscription are stutters or
`Learn`; the host's accepting a dispatch is `Commit` of the oldest edit pending, which is where `EchoOK` and the order
of names in `PendingOK` are needed; what a rebase drops because a foreign action swallowed it is `Withdraw` of a
contiguous run. The abstract state is computed from the logs, so that every conjunct of an abstract action becomes a
lemma about the values of one log. `NothingTypedIsLost` is the same bookkeeping read the other way: an edit that nothing
shadows is in no dropped run.

`EditorIsSafe` and `TypingIsKept` are one induction on top of `IInv`: every step of `EditorSync` is a step of `DocSync`
or a stutter of it (`EditorIsDocSync`), so `IInv` comes for free. That the screen keeps what was typed is not inductive: an offer is a state
of the loop's past. The invariant follows an edit down the road. What was typed is what the loop has minted and what is still in the queue
(`EditsAreCounted`, with `SeamCountsWhatItSent`); the loop shows or queues all it has minted (`LoopKeepsTyping`, for which
each operation of `RebaseLog` has a lemma that it keeps what the log held, `LocalKeepsAll` to `RemoteKeepsAll`); an offer
therefore shows all it has seen (`OffersKeepTyping`); and one that fits has seen all there is on the screen. For saves the marker covers the edits in
front of it (`FlushesFollowTheirEdits`), which the loop has minted when it hears the marker, and which the host has once the log
is settled. To *keep* an edit is to hold it or something that leaves nothing of it (`Kept`); that this goes from text to text (`KeptOn`)
is what `CollapseAssumption` is for.

`MirrorHost` has three theorems and three arguments. `MirrorIsSafe` is nearly inductive; what it needs is that the
channels in use were minted (`ChannelsWereMinted`). `LaneKeepsTheMirror` speaks of the copy after *all* queued items, so
the invariant is about the copy before each one: each item of the lane fits the copy that the ones before it leave, and
the last leaves the mirror. `MirrorHoldsBothSides` follows from `SidesInv`, which says where each side's line may be
while a task carries it: one store writes at a time and alone (`StoresAreAlone`), the clients' line is in the mirror or
under way to it (`ClientSide`), the agent's on disk and in the mirror once the reload that read it has landed
(`AgentSide`), and a reload under way read a disk that is not older than what it replaces (`WatcherSide`); each with the
named races as its exceptions. TLC checked each part on the instance of `mirror_disk` before it was proved.

`TermInv` says of a terminal what the other two rest on. A terminal is created once (`CreatedOnce`) and attached to a
connection at most once (`AttachedOnce`), so that the stream of a connection is empty when a pane is attached to it;
from there what the stream holds continues the grid (`StreamContinues`), which makes the grid true. Geometries only
grow (`NoneIsNewer`), hence the newest is the seat's, and it is the PTY's or asked for on the connection there is
(`SeatIsTold`). `ConnectionProofs` first shows what each action does to each terminal, then one frame lemma for each
part of the invariant, so that an action has a proof of its own only for the parts it disturbs.

`LanesInv` is about a document at rest; the work is in saying what is true of one that is not. A clean document shows
its baseline, and a merge under way was made from today's text (`MergesAreOfToday`); the baseline is the disk's text
unless the document is `Behind`, which lists all that may still tell it of a newer one (`KnowsTheDisk`): an answer, a
watch to be entered, a file event, a refetch queued or under way. Without a race, what the user typed is on the screen, or in the host's mirror while
the channel lives, and reaches the disk by saves only (`UserSide`), and the agent's lines on the screen come with the baseline (`AgentSide`). While this was made
inductive, TLC found a race that no cause named: a save whose answer comes back after the channel had a life in between
puts the baseline of its own time in place of the newer one. It is `older` now. While the channel lives the screen may be behind the mirror by what adoption undid; that the channel ends
before a foreign action has brought it back is `early`, so that afterwards the screen alone has the lines.

`ChatTurns` has three theorems, each over `TurnsTypeOK`. `ProcessesAlwaysServe`: a process is the chat's from its spawning,
is given up only with its input shut, and what changes the flags marks the chat in the same step. `OnTheActiveTurn` needs that turns can be told
apart (`TurnsAreKnownApart`): an id is minted once, by a start, a drain or a wake-up (`IdsAreMinted`), a message that waits has not been
drained (`UndrainedWait`), and a turn is in one place from its dispatch to its end (`TurnsHaveOnePlace`). Then the turn that a pump ends
is held by nobody, so clearing the active turn takes it from no process; what a process holds is the active turn or about to be marked
(`LiveTurnIsActive`), and so is what a lane is about to push (`StartedIsActive`). `QueuesAreKept`: that the queue is empty when
all is quiet says nothing of a state that is not. As long as nobody cancelled, nothing is marked or interrupted and every answer is a
completion or an error (`NothingIsCancelled`); then an end is still to come (`EndIsToCome`), a completion drains the queue, an error
purges it, and until the purge is done each waiting message is in its list (`QueueIsLookedAt`). What a step of a process that
nothing was cancelled of may leave is one relation, `GoesOn`, proved once for each step, and the chat's part uses that alone.

The theorems of `Reload` are about the pure functions of `reload.rs`, for texts of any length. Their only use of `Spec` is that the texts
stay sequences of lines. Each function is a recursion over *places* (a cell of the table, a pair of hunks and a position) that looks at places of lower *rank*
only, so `ReloadProofs` begins with two lemmas over ranked places: such a recursion has a solution (`RecursionExists`; a recursive function in
TLA+ is a CHOOSE and has to be shown to exist), and what holds at a place if it holds at all below holds everywhere (`RankInduction`). The table is then the
length of a longest common subsequence of what is left (`WalkKeeps`, `TableBounds`), and taking the common prefix and suffix away first costs nothing, since pairs in order leave room
for no more (`MatchRoom`, `KeptFacts`). What lies between two lines kept is a span of either text, so the hunks applied from the last on rebuild the new text (`SpineRebuilds`).
The merge goes along a path of hunks. If one side has none, or both have the same, the path is the other's and the merge is that side's text
(`PathIsApplied`, `MergeOfOne`). In general every hunk is in the step that takes it (`ComingFacts`, `MergeHolds`), and what no hunk touches is copied before the next one,
also when the position went back (`EmbedsAcross`). That a deleted line stays deleted is not among the theorems, for it is false (`DeletedStaysDeleted`).

The queue and the turns are filtered by a recursive function (`Only`, the `retain` of the code). The induction theorems of the library
cannot be instantiated by these provers, so what `Only` returns is proved by a least counterexample: were it wrong at some position
there would be a first one (`Least`), which the step before it refutes (`OnlyExists`, `OnlyPicks`).

Assumptions of these: `SavesAssumption` and `CollapseAssumption` (`EditorSync`), `LinesAssumption` and `LimitsAssumption` (`MirrorHost`), that of `Reload` (bounds are naturals), `TerminalAssumption` (there is a
geometry, bounds are naturals), `LanesAssumption` (no line is both the user's and the agent's, bounds are naturals), `TurnsAssumption` (the providers are Claude and Codex, bounds are naturals).

Only model-checked: that what others did is never taken back from the screen (`EditorNeverGoesBack`); that answers land on their turn
(`AnswersLandOnTheirTurn`, a relation between a process's lines, its runs and what it has said); that the merge is the set merge of `MirrorHost` (`MergesSlots`); the invariants of `WireFeed`; all liveness
(fairness and `ENABLED` are beyond the prover).

## Not modelled

* **Language and search servers** (`lsp.rs`, `fsp.rs`): what they are told is `MirrorHost`'s lane; their pools and answers are not modelled.
* **Wire positions, operations and text** (`ahp-ext-types/src/text.rs`, `frontend/operation`, `text`, `rope`): in these models
  an operation has an identity and no position. The laws they rest on (compose, invert, transform) are pure and have property tests.
* **Editor, UI, shell, scripting**: single-threaded views over the state above.
* **Catalogs, transcripts, tool approvals, search leases**: state of their own beside the turns.
* In the modelled parts: reads and writes of the host that fail (`MirrorHost`), several revisions in one change (`EditorSync`), the trimming of what a
  terminal retains, save-as and `file.reload` (`DocumentLanes`), and connections that die under a life (`ChannelLife`).

`PROJECT.json` lists every component with what is left out of it.

## Plan

Done: all modules above; the proofs of `DocSync`, its refinement of `OrderedEdits`, `EditorSync`, `MirrorHost`, `Terminals`, `Redial`,
`ChannelLife`, `DocumentLanes`, `Reload` and most of `ChatTurns`. Next, in this order:

1. The remaining invariants: `WireInv` and `NoSilentGap`, then `AnswersLandOnTheirTurn`.
2. `EditorNeverGoesBack`, from the order of the offers on their way.
3. The checked refinement of `DocSync`'s `feed` by `WireFeed`.
4. `TextPositions` (line and character against bytes, CRLF) and `OperationAlgebra`, pure; a failing read in a reload.

## Running

    tlc -config MCDocSync.cfg MCDocSync       # and so for each run of PROJECT.json
    tlapm DocSyncProofs.tla                   # eight minutes
    tlapm EditorSyncProofs.tla                # five minutes
    tlapm MirrorHostProofs.tla                # four minutes
    tlapm ConnectionProofs.tla                # six minutes
    tlapm ReloadProofs.tla                    # six minutes
    tlapm ChannelLifeProofs.tla               # two minutes
    tlapm DocumentLanesProofs.tla             # a minute
    tlapm ChatTurnsProofs.tla                 # eight minutes
