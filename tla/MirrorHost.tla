----------------------------- MODULE MirrorHost -----------------------------
(***************************************************************************)
(* The host's mirror of one file (backend/agent-host): opened by several   *)
(* clients, edited by them, rewritten on disk by an agent, reloaded by a   *)
(* poll watcher and stored back.  Every request is served by a task of its *)
(* own and every watcher has its thread; what stands inside one `update`   *)
(* of the host's state is one action, what stands outside is another.      *)
(*                                                                         *)
(* Data abstraction.  A text is the set of its movable lines, each of      *)
(* which is there or not, between lines that never change.  On such texts  *)
(* the line merge of documents/reload.rs is the merge of sets below (see   *)
(* Reload, MergesSlots).  Clients write some of the lines and the agent    *)
(* the others, so that nobody's edit conflicts with anybody's.             *)
(***************************************************************************)
EXTENDS Naturals, Sequences, FiniteSets

CONSTANTS
  Client,       \* clients, each on a connection of its own
  ClientLine,   \* lines the clients write
  AgentLine,    \* lines the agent writes
  MaxOpens,     \* bound: documents minted
  MaxEdits,     \* bound: dispatches of all clients
  MaxWrites,    \* bound: writes of the agent
  MaxStores,    \* bound: stores of all clients
  MaxCloses     \* bound: connections closed

ASSUME LinesAssumption == ClientLine \cap AgentLine = {}
ASSUME LimitsAssumption ==
  /\ MaxOpens \in Nat /\ MaxEdits \in Nat /\ MaxWrites \in Nat
  /\ MaxStores \in Nat /\ MaxCloses \in Nat

VARIABLES
  disk,         \* the file
  mirror,       \* the channel of the living document, 0 when there is none
  text,         \* its text
  base,         \* the disk text last reconciled with it
  opened,       \* channels minted
  subscribers,  \* subscribers[ch]: the subscriber rows of the channel
  watches,      \* channels with a watcher
  polled,       \* polled[ch]: the disk text that watcher saw last
  reload,       \* reload[ch]: the disk text its thread has read, if any
  conn,         \* conn[c]: where the life of c's document stands
  store,        \* store[c]: c's store request, if any
  lane,         \* the feed toward the language servers
  served,       \* the servers' copy of the file, if open there
  used,         \* what of the bounds has been used
  typed,        \* history: the client lines as the clients last made them
  raced,        \* history: has a store overlapped a reload, store or open?
  missed        \* history: was the disk written while a mirror was opening?

document  == <<mirror, text, base, opened>>
watching  == <<watches, polled, reload>>
feeding   == <<lane, served>>
history   == <<typed, raced, missed>>
vars      == <<disk, document, subscribers, watching, conn, store, feeding, used, history>>

Channel  == 1..MaxOpens
Text     == SUBSET (ClientLine \cup AgentLine)
Optional(values) == {{}} \cup {{v} : v \in values}

\* A life: the request it waits for, the channel it holds and, while the host
\* opens the file for it, the text read.
Phase  == {"idle", "reading", "arming", "opened", "subscribed", "refused", "lost", "stranded"}
Life(phase, channel, read) == [phase |-> phase, channel |-> channel, read |-> read]
Lives  == [phase : Phase, channel : 0..MaxOpens, read : Text]
Idle   == Life("idle", 0, {})
Item   == [kind : {"open"}, after : Text] \cup [kind : {"change"}, before : Text, after : Text]
            \cup [kind : {"save", "close"}]
Request == [phase : {"read", "written"}, channel : Channel, text : Text]
Use     == [edits : 0..MaxEdits, writes : 0..MaxWrites, stores : 0..MaxStores,
            closes : 0..MaxCloses, reloads : Nat]

TypeOK ==
  /\ disk \in Text /\ text \in Text /\ base \in Text
  /\ mirror \in {0, opened} /\ opened \in 0..MaxOpens
  /\ subscribers \in [Channel -> SUBSET Client]
  /\ watches \subseteq Channel
  /\ polled \in [Channel -> Text]
  /\ reload \in [Channel -> Optional(Text)]
  /\ conn \in [Client -> Lives]
  /\ store \in [Client -> Optional(Request)]
  /\ lane \in Seq(Item)
  /\ served \in Optional(Text)
  /\ used \in Use
  /\ typed \subseteq ClientLine
  /\ raced \in BOOLEAN /\ missed \in BOOLEAN

Init ==
  /\ disk = {}
  /\ mirror = 0 /\ text = {} /\ base = {} /\ opened = 0
  /\ subscribers = [ch \in Channel |-> {}]
  /\ watches = {}
  /\ polled = [ch \in Channel |-> {}]
  /\ reload = [ch \in Channel |-> {}]
  /\ conn = [c \in Client |-> Idle]
  /\ store = [c \in Client |-> {}]
  /\ lane = <<>> /\ served = {}
  /\ used = [edits |-> 0, writes |-> 0, stores |-> 0, closes |-> 0, reloads |-> 0]
  /\ typed = {} /\ raced = FALSE /\ missed = FALSE

Storing     == \E c \in Client : store[c] # {}
Reloading   == \E ch \in Channel : reload[ch] # {}
Opening     == \E c \in Client : conn[c].phase \in {"reading", "arming"}

Flip(lines, line) == IF line \in lines THEN lines \ {line} ELSE lines \cup {line}

\* Mutant of Merged: the disk wins.
MergedTheirs(from, ours, theirs) == theirs

\* The three-way merge: what either side did to `from` is done.
Merged(from, ours, theirs) ==
  (ours \cap theirs) \cup (ours \ from) \cup (theirs \ from)

-----------------------------------------------------------------------------
\* Opening: the file is read before the state is taken, the watcher is armed
\* after it is given back.

OpenRead(c) ==
  /\ conn[c].phase = "idle"
  /\ mirror # 0 \/ opened < MaxOpens
  /\ conn' = [conn EXCEPT ![c] = Life("reading", 0, disk)]
  /\ raced' = (raced \/ Storing)
  /\ UNCHANGED <<disk, document, subscribers, watching, store, feeding, used, typed, missed>>

Minted(c) ==
  /\ opened < MaxOpens
  /\ opened' = opened + 1
  /\ mirror' = opened'
  /\ text' = conn[c].read
  /\ base' = conn[c].read
  /\ typed' = conn[c].read \cap ClientLine
  /\ lane' = Append(lane, [kind |-> "open", after |-> conn[c].read])
  /\ conn' = [conn EXCEPT ![c] = Life("arming", mirror', {})]

\* Mutant of OpenInsert: whether the file is mirrored already is not asked
\* again inside the state.
OpenInsertBlind(c) ==
  /\ conn[c].phase = "reading"
  /\ Minted(c)
  /\ UNCHANGED <<disk, subscribers, watching, store, served, used, raced, missed>>

OpenInsert(c) ==
  /\ conn[c].phase = "reading"
  /\ IF mirror # 0
     THEN /\ conn' = [conn EXCEPT ![c] = Life("opened", mirror, {})]
          /\ UNCHANGED <<document, lane, typed>>
     ELSE Minted(c)
  /\ UNCHANGED <<disk, subscribers, watching, store, served, used, raced, missed>>

WatchMirror(c) ==
  /\ conn[c].phase = "arming"
  /\ LET ch == conn[c].channel
     IN  /\ watches' = watches \cup {ch}
         /\ polled' = [polled EXCEPT ![ch] = disk]
         /\ conn' = [conn EXCEPT ![c] = Life("opened", ch, {})]
  /\ UNCHANGED <<disk, document, subscribers, reload, store, feeding, used, history>>

-----------------------------------------------------------------------------
\* The client's end of it.

SubscribeDocument(c) ==
  /\ conn[c].phase = "opened"
  /\ LET ch == conn[c].channel
     IN  IF mirror = ch
         THEN /\ subscribers' = [subscribers EXCEPT ![ch] = @ \cup {c}]
              /\ conn' = [conn EXCEPT ![c] = Life("subscribed", ch, {})]
         ELSE /\ conn' = [conn EXCEPT ![c] = Life("refused", ch, {})]
              /\ UNCHANGED subscribers
  /\ UNCHANGED <<disk, document, watching, store, feeding, used, history>>

\* The reader closes the document, or the connection dies, while the answer to
\* the open is on its way: the life ends and unsubscribes nothing.
Abandon(c) ==
  /\ conn[c].phase = "opened"
  /\ conn' = [conn EXCEPT ![c] = Idle]
  /\ UNCHANGED <<disk, document, subscribers, watching, store, feeding, used, history>>

\* Mutant of Disposed: the mirror goes, the servers keep it open.
DisposedSilently ==
  /\ mirror' = 0 /\ text' = {} /\ base' = {}
  /\ UNCHANGED <<opened, lane>>

Disposed ==
  /\ mirror' = 0 /\ text' = {} /\ base' = {}
  /\ lane' = Append(lane, [kind |-> "close"])
  /\ UNCHANGED opened

Unsubscribe(c) ==
  /\ conn[c].phase \in {"subscribed", "refused", "stranded"}
  /\ LET ch == conn[c].channel
     IN  /\ subscribers' = [subscribers EXCEPT ![ch] = @ \ {c}]
         /\ watches' = IF subscribers'[ch] = {} THEN watches \ {ch} ELSE watches
         /\ IF subscribers'[ch] = {} /\ mirror = ch
            THEN Disposed
            ELSE UNCHANGED <<document, lane>>
  /\ conn' = [conn EXCEPT ![c] = Idle]
  /\ UNCHANGED <<disk, polled, reload, store, served, used, history>>

CloseConnection(c) ==
  /\ used.closes < MaxCloses
  /\ conn[c].phase = "subscribed"
  /\ used' = [used EXCEPT !.closes = @ + 1]
  /\ subscribers' = [ch \in Channel |-> subscribers[ch] \ {c}]
  /\ conn' = [conn EXCEPT ![c].phase = "lost"]
  /\ UNCHANGED <<disk, document, watching, store, feeding, history>>

\* The next connection asks for its channels again.  A channel the host calls
\* missing loses its feed, and the life waits for one.
Reconnect(c) ==
  /\ conn[c].phase = "lost"
  /\ LET ch == conn[c].channel
     IN  IF mirror = ch
         THEN /\ subscribers' = [subscribers EXCEPT ![ch] = @ \cup {c}]
              /\ conn' = [conn EXCEPT ![c].phase = "subscribed"]
         ELSE /\ conn' = [conn EXCEPT ![c].phase = "stranded"]
              /\ UNCHANGED subscribers
  /\ UNCHANGED <<disk, document, watching, store, feeding, used, history>>

Changed(after) ==
  /\ text' = after
  /\ lane' = Append(lane, [kind |-> "change", before |-> text, after |-> after])

\* A dispatch that passes the lineage gate (DocSync has those that do not).
DocumentDispatch(c, line) ==
  /\ used.edits < MaxEdits
  /\ conn[c].phase = "subscribed" /\ conn[c].channel = mirror
  /\ used' = [used EXCEPT !.edits = @ + 1]
  /\ Changed(Flip(text, line))
  /\ typed' = Flip(typed, line)
  /\ UNCHANGED <<disk, mirror, base, opened, subscribers, watching, conn, store, served, raced, missed>>

-----------------------------------------------------------------------------
\* The disk.

AgentWrites(line) ==
  /\ used.writes < MaxWrites
  /\ used' = [used EXCEPT !.writes = @ + 1]
  /\ disk' = Flip(disk, line)
  /\ missed' = (missed \/ Opening)
  /\ UNCHANGED <<document, subscribers, watching, conn, store, feeding, typed, raced>>

\* The watcher sees other content than last time; its thread reads the file.
WatchFires(ch) ==
  /\ ch \in watches
  /\ reload[ch] = {}
  /\ polled[ch] # disk
  /\ polled' = [polled EXCEPT ![ch] = disk]
  /\ reload' = [reload EXCEPT ![ch] = {disk}]
  /\ raced' = (raced \/ Storing)
  /\ UNCHANGED <<disk, document, subscribers, watches, conn, store, feeding, used, typed, missed>>

\* Mutant of Reconciled: what the disk held is not remembered.
ReconciledForgets(fetched, target) ==
  /\ base' = base
  /\ IF target = text
     THEN UNCHANGED <<text, lane, used>>
     ELSE Changed(target) /\ used' = [used EXCEPT !.reloads = @ + 1]

Reconciled(fetched, target) ==
  /\ base' = fetched
  /\ IF target = text
     THEN UNCHANGED <<text, lane, used>>
     ELSE Changed(target) /\ used' = [used EXCEPT !.reloads = @ + 1]

ReloadMirror(ch) ==
  /\ reload[ch] # {}
  /\ reload' = [reload EXCEPT ![ch] = {}]
  /\ \E fetched \in reload[ch] :
       IF mirror # ch \/ fetched = base
       THEN UNCHANGED <<text, base, lane, used>>
       ELSE Reconciled(fetched, IF text = base THEN fetched ELSE Merged(base, text, fetched))
  /\ UNCHANGED <<disk, mirror, opened, subscribers, watches, polled, conn, store, served, history>>

\* A store: the text is taken, written, and recorded as reconciled.
StoreRead(c) ==
  /\ used.stores < MaxStores
  /\ store[c] = {}
  /\ conn[c].phase = "subscribed" /\ conn[c].channel = mirror
  /\ used' = [used EXCEPT !.stores = @ + 1]
  /\ store' = [store EXCEPT ![c] = {[phase |-> "read", channel |-> mirror, text |-> text]}]
  /\ raced' = (raced \/ Storing \/ Reloading \/ Opening)
  /\ UNCHANGED <<disk, document, subscribers, watching, conn, feeding, typed, missed>>

StoreWrite(c) ==
  \E request \in store[c] :
    /\ request.phase = "read"
    /\ \/ /\ disk' = request.text
          /\ store' = [store EXCEPT ![c] = {[request EXCEPT !.phase = "written"]}]
          /\ missed' = (missed \/ Opening)
       \/ /\ store' = [store EXCEPT ![c] = {}]      \* the write fails
          /\ UNCHANGED <<disk, missed>>
    /\ UNCHANGED <<document, subscribers, watching, conn, feeding, used, typed, raced>>

StoreRecord(c) ==
  \E request \in store[c] :
    /\ request.phase = "written"
    /\ store' = [store EXCEPT ![c] = {}]
    /\ IF mirror = request.channel
       THEN base' = request.text /\ lane' = Append(lane, [kind |-> "save"])
       ELSE UNCHANGED <<base, lane>>
    /\ UNCHANGED <<disk, mirror, text, opened, subscribers, watching, conn, served, used, history>>

-----------------------------------------------------------------------------
\* The feeder thread: one item after another reaches the servers.
After(copy, item) ==
  CASE item.kind \in {"open", "change"} -> {item.after}
    [] item.kind = "save"               -> copy
    [] item.kind = "close"              -> {}

FeedServers ==
  /\ lane # <<>>
  /\ lane' = Tail(lane)
  /\ served' = After(served, Head(lane))
  /\ UNCHANGED <<disk, document, subscribers, watching, conn, store, used, history>>

Next ==
  \/ \E c \in Client :
       \/ OpenRead(c) \/ OpenInsert(c) \/ WatchMirror(c)
       \/ SubscribeDocument(c) \/ Abandon(c) \/ Unsubscribe(c)
       \/ CloseConnection(c) \/ Reconnect(c)
       \/ \E line \in ClientLine : DocumentDispatch(c, line)
       \/ StoreRead(c) \/ StoreWrite(c) \/ StoreRecord(c)
  \/ \E line \in AgentLine : AgentWrites(line)
  \/ \E ch \in Channel : WatchFires(ch) \/ ReloadMirror(ch)
  \/ FeedServers

\* The host finishes what it was asked, its watchers poll, and a client that
\* lost its connection dials again.  Nobody has to open, edit, store or close.
Fairness ==
  /\ \A c \in Client : /\ WF_vars(OpenInsert(c)) /\ WF_vars(WatchMirror(c))
                       /\ WF_vars(Reconnect(c))
                       /\ WF_vars(StoreWrite(c)) /\ WF_vars(StoreRecord(c))
  /\ \A ch \in Channel : WF_vars(WatchFires(ch)) /\ WF_vars(ReloadMirror(ch))
  /\ WF_vars(FeedServers)

Spec     == Init /\ [][Next]_vars
FairSpec == Spec /\ Fairness

-----------------------------------------------------------------------------
\* Properties.

\* A subscriber's document is there: it lives as long as it has subscribers
\* (ahp-documents.md 4.4), whoever else opens, closes, loses its connection or
\* comes back (Host::open_document, subscribe_document, unsubscribe).
SubscribersHoldTheirDocument ==
  \A ch \in Channel : subscribers[ch] # {} => mirror = ch

Held == {"arming", "opened", "subscribed", "refused", "lost", "stranded"}

\* Channels are minted in order and never twice: whatever speaks of one, a
\* life, a store, a watcher or a reload, speaks of one that was, and the life
\* that mints it is the only one to arm its watcher, once
\* (Host::open_document, watch_mirror).
ChannelsWereMinted ==
  /\ \A c \in Client : conn[c].phase \in Held => conn[c].channel \in 1..opened
  /\ \A c \in Client : \A request \in store[c] : request.channel <= opened
  /\ \A ch \in watches : ch <= opened
  /\ \A ch \in Channel : reload[ch] # {} => ch <= opened
  /\ \A c, d \in Client :
       conn[c].phase = "arming" /\ conn[d].phase = "arming" /\ c # d
       => conn[c].channel # conn[d].channel
  /\ \A c \in Client : conn[c].phase = "arming" =>
       conn[c].channel \notin watches /\ reload[conn[c].channel] = {}

\* The types, the names and the life of the document.
MirrorInv == TypeOK /\ ChannelsWereMinted /\ SubscribersHoldTheirDocument

\* What the servers, that begin with `start`, have when they come to the i-th of
\* the items: what the last one before it that is no save left them with.
CopyBefore(items, start, i, copy) ==
  \E j \in 0..(i - 1) :
    /\ \A k \in (j + 1)..(i - 1) : items[k].kind = "save"
    /\ IF j = 0 THEN copy = start ELSE items[j].kind # "save" /\ copy = After({}, items[j])

\* The i-th item is told to servers that it fits.
Fits(items, start, i) ==
  CASE items[i].kind = "open"              -> CopyBefore(items, start, i, {})
    [] items[i].kind = "change"            -> CopyBefore(items, start, i, {items[i].before})
    [] items[i].kind \in {"save", "close"} -> ~CopyBefore(items, start, i, {})

\* What is on the lane brings the servers' copy to the mirror's text, each
\* change made to the text it was computed on: opens, changes of clients and
\* of the host, and closes reach the servers in the order of the state
\* (the ORDER LAW at DocumentFeed).
LaneKeepsTheMirror ==
  /\ \A i \in 1..Len(lane) : Fits(lane, served, i)
  /\ CopyBefore(lane, served, Len(lane) + 1, IF mirror = 0 THEN {} ELSE {text})

\* The host's reloads leave the clients' lines as the clients made them,
\* stored or not, as long as no store overlaps a reload, another store or an
\* open (reload_mirror's three-way merge, store_document's record).
ReloadKeepsEdits ==
  mirror # 0 /\ ~raced => text \cap ClientLine = typed

\* Nothing is under way between the disk and the mirror.
DiskAtRest ==
  /\ ~Storing /\ ~Reloading /\ ~Opening
  /\ mirror \in watches /\ polled[mirror] = disk

\* What the agent wrote is in the mirror, and what it took away is not, once
\* the watcher has seen the file; outside the two windows.
MirrorFollowsDisk ==
  DiskAtRest /\ ~raced /\ ~missed => text \cap AgentLine = disk \cap AgentLine

\* At rest the mirror has both sides: the clients' lines and the agent's.
MirrorHoldsBothSides == ReloadKeepsEdits /\ MirrorFollowsDisk

\* A store has the file and the mirror for itself.
StoresAreAlone ==
  /\ Storing => ~Reloading /\ ~Opening
  /\ \A c, d \in Client : store[c] # {} /\ store[d] # {} => c = d
  /\ \A c \in Client : \A request \in store[c] : mirror \in {0, request.channel}

\* Nobody but a client changes a client's line: the file, what was reconciled,
\* and what is read from the file have the same ones.
ClientSide ==
  /\ mirror # 0 => text \cap ClientLine = typed
  /\ mirror # 0 /\ (\A c \in Client : \A request \in store[c] : request.phase = "read")
     => disk \cap ClientLine = base \cap ClientLine
  /\ \A c \in Client : \A request \in store[c] :
       request.phase = "written" => disk \cap ClientLine = request.text \cap ClientLine
  /\ mirror # 0 => \A fetched \in reload[mirror] : fetched \cap ClientLine = base \cap ClientLine
  /\ \A c \in Client : conn[c].phase = "reading" => conn[c].read \cap ClientLine = disk \cap ClientLine

\* The mirror has the agent's lines as last reconciled ...
AgentSide ==
  /\ mirror # 0 => text \cap AgentLine = base \cap AgentLine
  /\ \A c \in Client : \A request \in store[c] :
       mirror = request.channel => request.text \cap AgentLine = text \cap AgentLine

\* ... and those are the ones the watcher saw last, or has yet to bring.
WatcherSide ==
  /\ \A c \in Client : conn[c].phase = "reading" => conn[c].read = disk
  /\ \A c \in Client : conn[c].phase = "arming" /\ conn[c].channel = mirror
       => disk \cap AgentLine = base \cap AgentLine
  /\ mirror \in watches =>
       IF reload[mirror] = {}
       THEN polled[mirror] \cap AgentLine = base \cap AgentLine
       ELSE reload[mirror] = {polled[mirror]}

\* The inductive invariant behind MirrorHoldsBothSides.
SidesInv ==
  /\ MirrorInv
  /\ ~raced => StoresAreAlone /\ ClientSide /\ AgentSide
  /\ ~raced /\ ~missed => WatcherSide

\* And the watcher does see it.
MirrorCatchesUp ==
  <>[](mirror = 0 \/ raced \/ missed \/ text \cap AgentLine = disk \cap AgentLine)

\* If a mirrored file changes on disk, the host expresses the difference as an
\* operation (ahp-documents.md 3.1 and 4.3): opening makes it the authority.
NoWriteIsMissed ==
  DiskAtRest => text \cap AgentLine = disk \cap AgentLine

\* The host's own write is not read back as a foreign change
\* (store_document's comment; ahp-documents.md 3.2).
OwnWriteIsNotForeign == used.writes = 0 => used.reloads = 0

\* When the last subscriber unsubscribes or disconnects, the document is
\* disposed (ahp-documents.md 4.4).
LastOneDisposes ==
  [][\A ch \in Channel : subscribers[ch] # {} /\ subscribers'[ch] = {} => mirror' # ch]_vars

\* The watch on the file goes with the document (ahp-documents.md 4.4): nobody
\* holds or awaits the channel, so nobody will take the watch away.
WatchGoesWithDocument ==
  \A ch \in watches : mirror = ch \/ \E c \in Client : conn[c].channel = ch

\* A client whose channel is missing after a reconnect opens the document
\* again (ahp-documents.md 4.1).
StrandedComesBack ==
  \A c \in Client : (conn[c].phase = "stranded") ~> (conn[c].phase # "stranded")
=============================================================================
