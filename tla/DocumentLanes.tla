--------------------------- MODULE DocumentLanes ---------------------------
(***************************************************************************)
(* An open document and its file (frontend/documents): the save lane, the  *)
(* watch lane and the refetch lane, and who reloads the document while its *)
(* channel connects, lives and has died.                                   *)
(*                                                                         *)
(* Without a live channel the client does it: a watcher at the host tells  *)
(* it of a change, it fetches the file, has a worker diff the text against *)
(* the baseline, and lands the merge if the buffer has not moved, else     *)
(* diffs again.  A fetch is good while no later one was launched.  Every   *)
(* request is a task of its own, and answers come in any order.            *)
(*                                                                         *)
(* Data abstraction.  Revisions and serials only grow and are compared with *)
(* the present one, so a task has a flag for "still the present one".  A   *)
(* text is the set of its movable lines, as in MirrorHost; the three-way merge of frontend/documents/src/watch.rs is   *)
(* the same walk as the host's (Reload, MergesSlots).  While the channel   *)
(* lives, the host has what is typed at once (EditorSync) and keeps its    *)
(* mirror with the disk (MirrorHost): what is shown and the mirror differ  *)
(* by the edits of the connecting that AdoptSnapshot took off the screen.  *)
(* Connections do not die (WireFeed).                                      *)
(***************************************************************************)
EXTENDS Naturals, FiniteSets

CONSTANTS
  ClientLine,   \* lines the user writes
  AgentLine,    \* lines the agent writes
  MaxEdits,     \* bound: edits
  MaxWrites,    \* bound: writes of the agent
  MaxSaves,     \* bound: saves
  MaxFaults     \* bound: requests that fail

ASSUME LanesAssumption ==
  /\ ClientLine \cap AgentLine = {}
  /\ {MaxEdits, MaxWrites, MaxSaves, MaxFaults} \subseteq Nat

VARIABLES
  disk,       \* the file
  mode,       \* "connecting", "live" (host_synced), "two" (no channel, for good)
  buffer,     \* the open document's row: text, baseline, is the revision the saved one
  mirror,     \* the host's text of it while the channel lives
  slot,       \* its watch, the request for one, and by_watch's riders
  watchers,   \* watchers[w]: the host's watcher and its way to the client
  changed,    \* FileChanged on their way to the main thread
  fetches,    \* refetches under way
  stores,     \* saves under way
  budget,     \* edits, writes, saves and faults so far
  typed,      \* history: the client lines as the user last made them
  replayed,   \* history: what refetches changed while the channel connects; of it,
              \* what the channel brought again
  missed,     \* history: has the disk changed without anybody telling the client?
  races       \* history: a save crossed a refetch; something older came last; early
              \* edits were off the screen when they were typed again or the channel ended

row       == <<disk, mode, buffer, mirror, slot>>
history   == <<typed, replayed, missed, races>>
lanesVars == <<row, watchers, changed, fetches, stores, budget, history>>

Text     == SUBSET (ClientLine \cup AgentLine)
Watcher  == 1..2
Races    == {"crossed", "older", "early"}
Live     == mode = "live"

LanesTypeOK ==
  /\ disk \in Text /\ mode \in {"connecting", "live", "two"}
  /\ buffer \in [text : Text, base : Text, saved : BOOLEAN]
  /\ mirror \in Text
  /\ slot \in [watch : Watcher \cup {0}, requested : BOOLEAN, riders : SUBSET Watcher]
  /\ watchers \in [Watcher -> [pc : {"none", "asked", "armed", "held", "gone"}, due : BOOLEAN]]
  /\ changed \subseteq Watcher
  /\ \A f \in fetches :
       f \in [current : BOOLEAN, pc : {"asked", "read", "diffed"}, got : Text, target : Text,
              fresh : BOOLEAN, old : BOOLEAN]
  /\ \A s \in stores :
       s \in [n : 1..MaxSaves, pc : {"asked", "written"}, text : Text, fresh : BOOLEAN, cancelled : BOOLEAN]
  /\ budget \in [edits : 0..MaxEdits, writes : 0..MaxWrites, saves : 0..MaxSaves, faults : 0..MaxFaults]
  /\ typed \subseteq ClientLine /\ replayed \in Text
  /\ missed \in BOOLEAN /\ races \subseteq Races

NoWatcher == [pc |-> "none", due |-> FALSE]

LanesInit ==
  /\ disk = {} /\ mode = "connecting"
  /\ buffer = [text |-> {}, base |-> {}, saved |-> TRUE] /\ mirror = {}
  /\ slot = [watch |-> 0, requested |-> FALSE, riders |-> {}]
  /\ watchers = [w \in Watcher |-> NoWatcher]
  /\ changed = {} /\ fetches = {} /\ stores = {}
  /\ budget = [edits |-> 0, writes |-> 0, saves |-> 0, faults |-> 0]
  /\ typed = {} /\ replayed = {} /\ missed = FALSE /\ races = {}

Flip(lines, line) == IF line \in lines THEN lines \ {line} ELSE lines \cup {line}

\* The three-way merge of a baseline's two descendants, on lines.
Merged(from, ours, theirs) == (ours \cap theirs) \cup (ours \ from) \cup (theirs \ from)

Spent(what) == budget' = [budget EXCEPT ![what] = @ + 1]

-----------------------------------------------------------------------------
\* The file.  Every watcher that looks will see that it was written; a write
\* that no watcher will tell of, with the channel not live, is missed.

Tells(w) == watchers[w].pc = "held" /\ w \in slot.riders

Written(text) ==
  /\ disk' = text
  /\ watchers' = [w \in Watcher |->
       IF watchers[w].pc \in {"armed", "held"} THEN [watchers[w] EXCEPT !.due = TRUE] ELSE watchers[w]]
  /\ missed' = (missed \/ (~Live /\ ~ \E w \in Watcher : watchers[w].pc = "armed" \/ Tells(w)))

AgentWrites(line) ==
  /\ budget.writes < MaxWrites
  /\ Spent("writes")
  /\ Written(Flip(disk, line))
  /\ UNCHANGED <<mode, buffer, mirror, slot, changed, fetches, stores, typed, replayed, races>>

\* The buffer's next revision: no task under way has the present one any more.
Moves(row2) ==
  /\ buffer' = [row2 EXCEPT !.saved = FALSE]
  /\ fetches' = {[f EXCEPT !.fresh = FALSE] : f \in fetches}
  /\ stores' = {[s EXCEPT !.fresh = FALSE] : s \in stores}

\* A slice lands that makes this text of the buffer: no landing if it is an identity.
Shows(text) ==
  \/ Moves([buffer EXCEPT !.text = text])
  \/ text = buffer.text /\ UNCHANGED <<buffer, fetches, stores>>

\* The host keeps a live document with the disk.  Its edit comes as a shared one, and
\* what lands with it is all the host has that is not shown (driver.rs: Slice).
HostReloads ==
  LET text == (mirror \ AgentLine) \cup (disk \cap AgentLine) IN
  /\ Live /\ text # mirror
  /\ mirror' = text
  /\ Shows(text)
  /\ UNCHANGED <<disk, mode, slot, watchers, changed, budget, history>>

Happened(race, when) == races' = IF when THEN races \cup {race} ELSE races

\* A keystroke changes what is shown.  By the channel the host makes the same edit: a
\* line that it has off the screen it has twice then.
Type(line) ==
  /\ budget.edits < MaxEdits
  /\ Spent("edits")
  /\ Moves([buffer EXCEPT !.text = Flip(@, line)])
  /\ typed' = (typed \ {line}) \cup (buffer'.text \cap {line})
  /\ mirror' = IF Live THEN (mirror \ {line}) \cup (buffer'.text \cap {line}) ELSE mirror
  /\ Happened("early", Live /\ line \in mirror \ buffer.text)
  /\ UNCHANGED <<disk, mode, slot, watchers, changed, replayed, missed>>

-----------------------------------------------------------------------------
\* The save lane.  A newer save cancels the older: its answer is not delivered,
\* but its request may have been sent.

PressSave ==
  /\ budget.saves < MaxSaves
  /\ Spent("saves")
  /\ stores' = {[s EXCEPT !.cancelled = TRUE] : s \in stores} \cup
       {[n |-> budget.saves + 1, pc |-> "asked", text |-> buffer.text, fresh |-> TRUE, cancelled |-> FALSE]}
  /\ Happened("older", \E s \in stores : s.pc = "written")
  /\ UNCHANGED <<row, watchers, changed, fetches, typed, replayed, missed>>

\* What is stored is not what the landing will take for stored, or is without an
\* agent's line that the buffer has heard of since.
Older(s) == IF Live THEN s.text # mirror ELSE s.text \cap AgentLine # buffer.text \cap AgentLine

\* The request reaches the disk: the text of the snapshot, or by the channel the
\* mirror's.  A save waits out the connecting (ChannelLife).
StoreWrites(s) ==
  /\ s.pc = "asked" /\ mode # "connecting"
  /\ Written(IF Live THEN mirror ELSE s.text)
  /\ stores' = (stores \ {s}) \cup {[s EXCEPT !.pc = "written"]}
  /\ fetches' = {[f EXCEPT !.old = f.pc # "asked"] : f \in fetches}
  /\ Happened("older", s.cancelled \/ Older(s))
  /\ UNCHANGED <<mode, buffer, mirror, slot, changed, budget, typed, replayed>>

\* The landing: the snapshot is what the disk has, its revision what is saved.  It
\* may come after the channel's life in which the host had reloaded the document.
Stored(s) == [buffer EXCEPT !.saved = s.fresh, !.base = s.text]

StoreLands(s) ==
  /\ s.pc = "written"
  /\ stores' = stores \ {s}
  /\ buffer' = IF s.cancelled THEN buffer ELSE Stored(s)
  /\ Happened("older", ~s.cancelled /\ ~Live /\ Older(s))
  /\ UNCHANGED <<disk, mode, mirror, slot, watchers, changed, fetches, budget, typed, replayed, missed>>

\* A cancelled save that was not sent yet, or a write that fails.
StoreEnds(s) ==
  /\ s.pc = "asked"
  /\ \/ s.cancelled /\ UNCHANGED budget
     \/ budget.faults < MaxFaults /\ Spent("faults")
  /\ stores' = stores \ {s}
  /\ UNCHANGED <<row, watchers, changed, fetches, history>>

-----------------------------------------------------------------------------
\* The watch lane.

\* The sweep asks for a watch where there is none, none is asked for, and the
\* host does not watch.
Unwatched(s) == s.watch = 0 /\ ~s.requested

Subscribes(s) ==
  IF Unwatched(s) /\ \E w \in Watcher : watchers[w].pc = "none"
  THEN LET w == CHOOSE v \in Watcher : watchers[v].pc = "none" /\ \A u \in 1..(v - 1) : watchers[u].pc # "none"
       IN  /\ slot' = [s EXCEPT !.requested = TRUE]
           /\ watchers' = [watchers EXCEPT ![w].pc = "asked"]
  ELSE slot' = s /\ UNCHANGED watchers

Sweep ==
  /\ ~Live /\ Unwatched(slot)
  /\ Subscribes(slot)
  /\ UNCHANGED <<disk, mode, buffer, mirror, changed, fetches, stores, budget, history>>

WatcherStep(w, from, to) ==
  /\ watchers[w].pc = from
  /\ watchers' = [watchers EXCEPT ![w].pc = to]

\* The host's poll watcher looks from now on.
HostArms(w) ==
  /\ WatcherStep(w, "asked", "armed")
  /\ UNCHANGED <<row, changed, fetches, stores, budget, history>>

\* The slot takes the answer's watch, or none (0).  Another that it had is let go of,
\* unheard, and nobody cancels it at the host.
Holds(w) ==
  /\ slot' = [slot EXCEPT !.watch = w, !.riders = (@ \ {slot.watch}) \cup ({w} \ {0})]
  /\ missed' = (missed \/ \E old \in {slot.watch} \ {0} : old \in changed \/ watchers[old].due)

\* The channel may have gone live while the subscribe was in flight: the watch is
\* surplus.
Watched(w) ==
  /\ watchers[w].pc = "armed"
  /\ IF Live
     THEN watchers' = [watchers EXCEPT ![w] = [pc |-> "gone", due |-> FALSE]] /\ UNCHANGED <<slot, missed>>
     ELSE watchers' = [watchers EXCEPT ![w].pc = "held"] /\ Holds(w)
  /\ UNCHANGED <<disk, mode, buffer, mirror, changed, fetches, stores, budget, typed, replayed, races>>

\* The answer is no watch.  The request is not made again.
SubscribeFails(w) ==
  /\ budget.faults < MaxFaults
  /\ Spent("faults")
  /\ WatcherStep(w, "asked", "gone")
  /\ IF Live THEN UNCHANGED <<slot, missed>> ELSE Holds(0)
  /\ UNCHANGED <<disk, mode, buffer, mirror, changed, fetches, stores, typed, replayed, races>>

\* The poll sees the write.  Before the answer with the watch's number has landed
\* nobody is told.
WatchFires(w) ==
  /\ watchers[w].pc \in {"armed", "held"} /\ watchers[w].due
  /\ watchers' = [watchers EXCEPT ![w].due = FALSE]
  /\ changed' = IF watchers[w].pc = "armed" THEN changed ELSE changed \cup {w}
  /\ missed' = (missed \/ (~Live /\ watchers[w].pc = "armed"))
  /\ UNCHANGED <<row, fetches, stores, budget, typed, replayed, races>>

-----------------------------------------------------------------------------
\* The refetch lane.

\* stamp_refetch: the fetches under way are no longer the last launched.
Launched ==
  fetches' = {[f EXCEPT !.current = FALSE] : f \in fetches} \cup
    {[current |-> TRUE, pc |-> "asked", got |-> {}, target |-> {}, fresh |-> FALSE, old |-> FALSE]}

\* FileChanged reaches the documents that ride the watch, but for the live ones.
FileChanged(w) ==
  /\ w \in changed
  /\ changed' = changed \ {w}
  /\ IF w \in slot.riders /\ ~Live
     THEN Launched
     ELSE UNCHANGED fetches
  /\ UNCHANGED <<row, watchers, stores, budget, history>>

\* Mutant of Valid: whatever was fetched lands.
AlwaysValid(f) == TRUE

\* Both landings present the serial: the last launched wins.
Valid(f) == f.current

FetchReads(f) ==
  /\ f.pc = "asked"
  /\ fetches' = (fetches \ {f}) \cup {[f EXCEPT !.pc = "read", !.got = disk]}
  /\ missed' = (missed /\ ~f.current)
  /\ UNCHANGED <<row, watchers, changed, stores, budget, typed, replayed, races>>

\* Gone or unreadable: the buffer stays as it is.
FetchFails(f) ==
  /\ f.pc = "asked"
  /\ budget.faults < MaxFaults
  /\ Spent("faults")
  /\ fetches' = fetches \ {f}
  /\ missed' = (missed \/ f.current)
  /\ UNCHANGED <<row, watchers, changed, stores, typed, replayed, races>>

\* A worker is given the baseline, the buffer and the fetched text.
Diffed(f) == [f EXCEPT !.pc = "diffed", !.fresh = TRUE, !.target = Merged(buffer.base, buffer.text, f.got)]

\* Between a save's write and its landing the baseline is not what the disk has.
Crosses(f) ==
  \E s \in stores : s.pc = "written" /\ (f.got # s.text \/ Merged(buffer.base, buffer.text, f.got) # buffer.text)

Refetched(f) ==
  /\ f.pc = "read"
  /\ fetches' = (fetches \ {f}) \cup (IF Valid(f) THEN {Diffed(f)} ELSE {})
  /\ Happened("crossed", Valid(f) /\ Crosses(f))
  /\ UNCHANGED <<row, watchers, changed, stores, budget, typed, replayed, missed>>

\* The merge becomes the buffer and the fetched text the baseline; a buffer that
\* is the disk's text now is saved.
Rebased(f) ==
  [text |-> f.target, base |-> f.got, saved |-> f.target = f.got \/ (buffer.saved /\ f.target = buffer.text)]

\* Mutant of Retried: a landing that raced an edit is dropped.
RetriedNever(f) == {}

\* A landing that raced an edit is diffed again.
Retried(f) == {Diffed(f)}

Lands(f) == ~Live /\ Valid(f) /\ f.fresh

Apart(one, other) == (one \ other) \cup (other \ one)

RefetchDiffed(f) ==
  LET rest  == fetches \ {f}
      moves == Lands(f) /\ f.target # buffer.text
  IN
  /\ f.pc = "diffed"
  /\ fetches' = IF moves THEN {[g EXCEPT !.fresh = FALSE] : g \in rest}
                ELSE rest \cup (IF ~Live /\ Valid(f) /\ ~Lands(f) THEN Retried(f) ELSE {})
  /\ stores' = IF moves THEN {[s EXCEPT !.fresh = FALSE] : s \in stores} ELSE stores
  /\ buffer' = IF Lands(f) THEN Rebased(f) ELSE buffer
  /\ replayed' = IF mode = "connecting" THEN replayed \cup Apart(buffer'.text, buffer.text) ELSE replayed
  /\ Happened("crossed", ~Live /\ Valid(f) /\ (Crosses(f) \/ (Lands(f) /\ f.old)))
  /\ UNCHANGED <<disk, mode, mirror, slot, watchers, changed, budget, typed, missed>>

-----------------------------------------------------------------------------
\* Who reloads.

\* The text of the document when it was opened.
AtOpen == {}

\* AdoptSnapshot: the host is the authority from here on.  If its text is another than
\* the opened one, the slice from what is shown to it takes off the screen all that the
\* log holds since.  That goes to the host, which makes it again on its text: refetched
\* lines that this text has, too.
GoLive ==
  /\ mode = "connecting"
  /\ mode' = "live"
  /\ mirror' = Merged(AtOpen, buffer.text, disk)
  /\ IF disk = AtOpen THEN UNCHANGED <<buffer, fetches, stores>> ELSE Shows(disk)
  /\ slot' = [slot EXCEPT !.watch = 0, !.requested = FALSE]
  /\ watchers' = IF slot.watch = 0 THEN watchers
                 ELSE [watchers EXCEPT ![slot.watch] = [pc |-> "gone", due |-> FALSE]]
  /\ replayed' = replayed \cap buffer.text \cap disk
  /\ Happened("older", replayed # {})
  /\ UNCHANGED <<disk, changed, budget, typed, missed>>

\* GiveUp and the end of a life: the client watches, and fetches once.
FallBack ==
  /\ mode \in {"connecting", "live"}
  /\ mode' = "two"
  /\ mirror' = {}
  /\ Launched
  /\ Subscribes(IF Live THEN [slot EXCEPT !.requested = FALSE] ELSE slot)
  /\ races' = races \cup
       (IF Live /\ (buffer.base # disk \/ buffer.base \cap AgentLine # buffer.text \cap AgentLine)
        THEN {"older"} ELSE {}) \cup
       (IF Live /\ buffer.text # mirror THEN {"early"} ELSE {})
  /\ replayed' = {}
  /\ UNCHANGED <<disk, buffer, changed, stores, budget, typed, missed>>

-----------------------------------------------------------------------------
LaneTurn ==
  \/ Sweep
  \/ \E w \in Watcher : HostArms(w) \/ Watched(w) \/ WatchFires(w) \/ FileChanged(w)
  \/ \E f \in fetches : FetchReads(f) \/ Refetched(f) \/ RefetchDiffed(f)
  \/ \E s \in stores : StoreWrites(s) \/ StoreLands(s)

Fault ==
  \/ \E w \in Watcher : SubscribeFails(w)
  \/ \E f \in fetches : FetchFails(f)
  \/ \E s \in stores : StoreEnds(s)

LanesNext ==
  \/ LaneTurn \/ Fault
  \/ \E line \in AgentLine : AgentWrites(line)
  \/ \E line \in ClientLine : Type(line)
  \/ PressSave \/ HostReloads \/ GoLive \/ FallBack

LanesSpec == LanesInit /\ [][LanesNext]_lanesVars

\* Everything goes on by itself but people, the agent, faults and the channel.
FairLanesSpec ==
  /\ LanesSpec
  /\ WF_lanesVars(Sweep) /\ WF_lanesVars(HostReloads)
  /\ \A w \in Watcher :
       /\ WF_lanesVars(HostArms(w)) /\ WF_lanesVars(Watched(w))
       /\ WF_lanesVars(WatchFires(w)) /\ WF_lanesVars(FileChanged(w))
  /\ WF_lanesVars(\E f \in fetches : FetchReads(f) \/ Refetched(f) \/ RefetchDiffed(f))
  /\ WF_lanesVars(\E s \in stores : StoreWrites(s) \/ StoreLands(s))

-----------------------------------------------------------------------------
AtRest ==
  /\ mode = "two" /\ stores = {} /\ fetches = {} /\ changed = {}
  /\ \A w \in Watcher : watchers[w].pc \notin {"asked", "armed"} /\ ~(watchers[w].due /\ Tells(w))
  /\ ~missed

\* The dot is honest: a document at rest that says it is saved is the disk's text,
\* whatever raced but a save with a refetch (lib.rs 489-492, watch.rs 405-450).
CleanIsTheDisk == AtRest /\ "crossed" \notin races /\ buffer.saved => buffer.text = disk

\* Neither side is lost: at rest the document shows what the user typed and what
\* the agent wrote, unless a save and a refetch raced in one of the ways named in
\* `races` (docs/editor/documents.md 54-61).
BothSidesShown ==
  AtRest /\ races = {} => buffer.text = typed \cup (disk \cap AgentLine)

\* A live document is the host's to watch: whatever subscribe or event is in flight
\* when the channel goes live, the client keeps no watch of its own (lib.rs 312-315).
HostWatchesAlone == Live => slot.watch = 0

\* The fetch launched last and the saves whose landing is to come.
Awaited      == {f \in fetches : f.current}
WrittenSaves == {s \in stores : s.pc = "written"}

\* Nothing is launched twice: the serials and the save token say which is the last.
LastLaunchedCounts ==
  /\ \A f, g \in Awaited : f = g
  /\ \A s, t \in stores : ~s.cancelled /\ ~t.cancelled => s = t
  /\ \A s \in stores : s.fresh => s.text = buffer.text

\* No save is written before the channel is settled.
SavesWaitForTheChannel ==
  mode = "connecting" => disk \subseteq AgentLine /\ WrittenSaves = {}

\* The disk may hold what the client has not read: it is told, is being told, or
\* has been told and asks; or nobody tells it.
Behind ==
  \/ missed
  \/ \E w \in Watcher : watchers[w].due /\ (watchers[w].pc = "armed" \/ Tells(w))
  \/ changed \cap slot.riders # {}
  \/ \E f \in Awaited : f.pc = "asked"

\* A merge that will land is one with the baseline of today, and changes nothing
\* while a save is between its write and its landing.
MergesAreOfToday ==
  \A f \in Awaited : f.pc = "diffed" /\ f.fresh /\ ~f.old =>
    /\ f.target = Merged(buffer.base, buffer.text, f.got)
    /\ \A s \in WrittenSaves : s.text = f.got /\ f.target = buffer.text

\* A client that is not behind has read the disk's text, and has it for its
\* baseline when that has landed.
KnowsTheDisk ==
  mode = "two" /\ ~Behind =>
    /\ \A f \in Awaited : f.got = disk
    /\ Awaited = {} => buffer.base = disk /\ \A s \in WrittenSaves : s.text = disk

\* While no save crosses a refetch, the baseline is what the buffer is compared with.
BaselineIsKept ==
  "crossed" \notin races =>
    (buffer.saved => buffer.text = buffer.base) /\ MergesAreOfToday /\ KnowsTheDisk

\* The user's lines: the buffer has them, or the mirror while the channel lives (what
\* AdoptSnapshot took off the screen is at the host), and only saves carry them to the disk.
UserSide ==
  /\ (IF Live THEN mirror ELSE buffer.text) \cap ClientLine = typed
  /\ \A s \in WrittenSaves : ~s.cancelled /\ s.text \cap ClientLine = disk \cap ClientLine
  /\ WrittenSaves = {} => buffer.base \cap ClientLine = disk \cap ClientLine
  /\ \A f \in Awaited : f.pc # "asked" /\ ~f.old => f.got \cap ClientLine = disk \cap ClientLine

\* The agent's lines: without a channel they come with the baseline.
AgentSide == ~Live => buffer.text \cap AgentLine = buffer.base \cap AgentLine

\* What a document at rest owes to each side, the host's share, and what they rest on.
LanesInv ==
  /\ LanesTypeOK /\ HostWatchesAlone /\ CleanIsTheDisk /\ BothSidesShown
  /\ LastLaunchedCounts /\ SavesWaitForTheChannel /\ BaselineIsKept
  /\ races = {} => UserSide /\ AgentSide

\* The reload loop converges, it does not give up (lib.rs 1184-1192): what the
\* agent wrote is shown in the end, if it was told and no race had a part in it.
LanesCatchUp ==
  <>[](mode = "two" /\ ~missed /\ races = {})
    => <>[](buffer.text \cap AgentLine = disk \cap AgentLine)

\* docs/ahp/ahp-documents.md 456-462: a client that holds the document channel must
\* not reload the resource by itself, for one buffer fed from two reload pipelines
\* applies the same change twice.  While the channel connects it does.
NothingLandsTwice == Live => replayed = {}

\* docs/ahp/files.md 97-100: a lane exists only where the newest launch subsumes the
\* older's landing.  So without an agent the document stays what the user typed.  But
\* the older save's write may be the last, and the watch takes it for the agent's.
NewestSaveStays == AtRest /\ budget.writes = 0 => buffer.text = typed
=============================================================================
