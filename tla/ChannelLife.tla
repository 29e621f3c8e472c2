---------------------------- MODULE ChannelLife ----------------------------
(***************************************************************************)
(* The lives of a document's channel (frontend/ahp-docsync/src/lib.rs):    *)
(* one location that is opened and closed again and again, the life that   *)
(* holds its subscription, the table entry that says so, the route by      *)
(* which a save finds the channel, and the host's row for this client.     *)
(*                                                                         *)
(* Two actors share the work.  The main thread owns the documents and the  *)
(* table and performs posted commands in order.  A life is a task: it      *)
(* opens, subscribes, waits to be adopted, polls, and whatever road ends   *)
(* it, it unsubscribes and posts `Drained` last.  Saves run on a worker.   *)
(*                                                                         *)
(* Data abstraction.  Texts are left out: what is said in the channel is   *)
(* DocSync and EditorSync.  No connection dies here (WireFeed, MirrorHost);*)
(* a request may fail.  The host's document and its disposal with the last *)
(* row are one number and one set of rows.                                 *)
(***************************************************************************)
EXTENDS Naturals, Sequences, FiniteSets

CONSTANTS
  MaxOpens,    \* bound: times the document is opened
  MaxSaves,    \* bound: saves
  MaxFaults,   \* bound: requests that fail and loops that break
  MaxOthers    \* bound: times another client comes

ASSUME ChannelAssumption == {MaxOpens, MaxSaves, MaxFaults, MaxOthers} \subseteq Nat

VARIABLES
  doc,         \* the registered document, by the count of opens; 0 when closed
  synced,      \* its host_synced flag
  modified,    \* has it edits that no store has landed for?
  entry,       \* the location's entry of SyncClients
  posted,      \* commands on their way to the main thread
  lives,       \* the lives there have been
  route,       \* the save route: of which life, and has it its handle?
  save,        \* the save under way
  host,        \* the host's document of the file and its rows
  budget,      \* opens, saves, faults and visits of the other client so far
  gaveUp       \* history: the document that fell back to watching the file

channelVars == <<doc, synced, modified, entry, posted, lives, route, save, host, budget, gaveUp>>

Me    == "me"
Other == "other"

NoEntry  == [kind |-> "none", life |-> 0, reopen |-> FALSE]
NoRoute  == [life |-> 0, ready |-> FALSE]
NoSave   == [pc |-> "idle", life |-> 0, channel |-> 0, covers |-> FALSE]
NewLife  == [pc |-> "opening", stop |-> FALSE, channel |-> 0, seed |-> "none"]
Over     == [pc |-> "over", stop |-> FALSE, channel |-> 0, seed |-> "none"]

Command  == [kind : {"ensure", "adopt", "give-up", "drained"}, life : Nat]
Note(kind, l) == [kind |-> kind, life |-> l]

\* The places where a life's subscription exists, or may.
Holding  == {"subscribing", "adopting", "running", "broken"}
Alive(l) == lives[l].pc # "over"

Life(minted) ==
  [pc : Holding \cup {"opening", "parting", "over"}, stop : BOOLEAN, channel : 0..minted,
   seed : {"none", "sent", "dropped"}]
Entry        == [kind : {"none", "connecting", "live", "draining"}, life : Nat, reopen : BOOLEAN]
Saving(minted) ==
  [pc : {"idle", "asked", "waiting", "flushing", "storing", "writing"}, life : Nat,
   channel : 0..minted, covers : BOOLEAN]
HostFile     == [alive : Nat, minted : Nat, rows : SUBSET {Me, Other}]

ChannelTypeOK ==
  /\ doc \in 0..MaxOpens /\ gaveUp \in 0..MaxOpens
  /\ synced \in BOOLEAN /\ modified \in BOOLEAN
  /\ entry \in Entry /\ (entry.reopen => entry.kind = "draining")
  /\ posted \in Seq(Command)
  /\ lives \in Seq(Life(host.minted))
  /\ route \in [life : Nat, ready : BOOLEAN]
  /\ save \in Saving(host.minted)
  /\ host \in HostFile /\ host.alive \in {0, host.minted} /\ (host.alive = 0 => host.rows = {})
  /\ budget \in [opens : 0..MaxOpens, saves : 0..MaxSaves, faults : 0..MaxFaults, others : 0..MaxOthers]

ChannelInit ==
  /\ doc = 0 /\ synced = FALSE /\ modified = FALSE /\ gaveUp = 0
  /\ entry = NoEntry /\ posted = <<>> /\ lives = <<>>
  /\ route = NoRoute /\ save = NoSave
  /\ host = [alive |-> 0, minted |-> 0, rows |-> {}]
  /\ budget = [opens |-> 0, saves |-> 0, faults |-> 0, others |-> 0]

-----------------------------------------------------------------------------
\* The host: a document is minted for the file or found, and goes with its
\* last row.

Opened(h)         == IF h.alive = 0 THEN [h EXCEPT !.alive = h.minted + 1, !.minted = @ + 1] ELSE h
Rowed(h, who)     == [h EXCEPT !.rows = @ \cup {who}]
Unrowed(h, who, ch) ==
  IF h.alive # ch \/ who \notin h.rows THEN h
  ELSE [h EXCEPT !.rows = @ \ {who}, !.alive = IF h.rows = {who} THEN 0 ELSE @]

OtherComes ==
  /\ Other \notin host.rows /\ budget.others < MaxOthers
  /\ host' = Rowed(Opened(host), Other)
  /\ budget' = [budget EXCEPT !.others = @ + 1]
  /\ UNCHANGED <<doc, synced, modified, entry, posted, lives, route, save, gaveUp>>

OtherLeaves ==
  /\ Other \in host.rows
  /\ host' = Unrowed(host, Other, host.alive)
  /\ UNCHANGED <<doc, synced, modified, entry, posted, lives, route, save, budget, gaveUp>>

-----------------------------------------------------------------------------
\* The table of the lives.

\* `stop`: the life of the entry is told; one that drains was told before.
Told(ls) == IF entry.kind \in {"connecting", "live"} THEN [ls EXCEPT ![entry.life].stop = TRUE] ELSE ls

\* `detach`: the one exit door; a reopen queued behind the drain goes too.
Detached(e) == IF e.kind = "none" THEN e ELSE [e EXCEPT !.kind = "draining", !.reopen = FALSE]

\* `connect`: a fresh life, a fresh route that saves wait on.
Connected ==
  /\ lives' = Append(lives, NewLife)
  /\ entry' = [kind |-> "connecting", life |-> Len(lives'), reopen |-> FALSE]
  /\ route' = [life |-> Len(lives'), ready |-> FALSE]

-----------------------------------------------------------------------------
\* The user.

\* `register` runs the hook, which posts an EnsureSync.
OpenDocument ==
  /\ doc = 0 /\ budget.opens < MaxOpens
  /\ budget' = [budget EXCEPT !.opens = @ + 1]
  /\ doc' = budget'.opens
  /\ synced' = FALSE /\ modified' = FALSE
  /\ posted' = Append(posted, Note("ensure", 0))
  /\ UNCHANGED <<entry, lives, route, save, host, gaveUp>>

\* A document with unsaved edits is not released.  The hook `closing` detaches
\* the life and forgets the route.
CloseDocument ==
  /\ doc # 0 /\ ~modified
  /\ doc' = 0 /\ synced' = FALSE
  /\ lives' = Told(lives)
  /\ entry' = Detached(entry)
  /\ route' = NoRoute
  /\ gaveUp' = 0
  /\ UNCHANGED <<modified, posted, save, host, budget>>

Type ==
  /\ doc # 0
  /\ modified' = TRUE
  /\ save' = [save EXCEPT !.covers = FALSE]
  /\ UNCHANGED <<doc, synced, entry, posted, lives, route, host, budget, gaveUp>>

PressSave ==
  /\ doc # 0 /\ save.pc = "idle" /\ budget.saves < MaxSaves
  /\ save' = [NoSave EXCEPT !.pc = "asked", !.covers = TRUE]
  /\ budget' = [budget EXCEPT !.saves = @ + 1]
  /\ UNCHANGED <<doc, synced, modified, entry, posted, lives, route, host, gaveUp>>

-----------------------------------------------------------------------------
\* The posted commands.

Due(kind) == posted # <<>> /\ Head(posted).kind = kind

\* Mutant of Ensured: a draining entry is no reason to wait.
EnsuredBeside ==
  IF entry.kind \in {"connecting", "live"} THEN UNCHANGED <<entry, lives, route>>
  ELSE Connected

Ensured ==
  CASE entry.kind = "draining" ->
         entry' = [entry EXCEPT !.reopen = TRUE] /\ UNCHANGED <<lives, route>>
    [] entry.kind = "none" -> Connected
    [] OTHER -> UNCHANGED <<entry, lives, route>>

PerformEnsure ==
  /\ Due("ensure")
  /\ posted' = Tail(posted)
  /\ Ensured
  /\ UNCHANGED <<doc, synced, modified, save, host, budget, gaveUp>>

\* AdoptSnapshot: what the life offers is taken by the entry that is still
\* connecting, for the document that is there now; without one the life goes.
PerformAdopt ==
  LET l == Head(posted).life IN
  /\ Due("adopt")
  /\ posted' = Tail(posted)
  /\ \/ /\ entry.kind = "connecting" /\ doc # 0
        /\ entry' = [entry EXCEPT !.kind = "live"]
        /\ route' = [route EXCEPT !.ready = route.life # 0]
        /\ synced' = TRUE
        /\ lives' = [lives EXCEPT ![l].seed = "sent"]
     \/ /\ entry.kind = "connecting" /\ doc = 0
        /\ entry' = Detached(entry)
        /\ route' = NoRoute
        /\ lives' = [Told(lives) EXCEPT ![l].seed = "dropped"]
        /\ UNCHANGED synced
     \/ /\ entry.kind # "connecting"
        /\ lives' = [lives EXCEPT ![l].seed = "dropped"]
        /\ UNCHANGED <<entry, route, synced>>
  /\ UNCHANGED <<doc, modified, save, host, budget, gaveUp>>

\* GiveUp: the document, if there is one, watches the file itself from now on.
PerformGiveUp ==
  /\ Due("give-up")
  /\ posted' = Tail(posted)
  /\ \/ /\ entry.kind = "connecting"
        /\ lives' = Told(lives) /\ entry' = Detached(entry)
        /\ gaveUp' = doc
     \/ /\ entry.kind # "connecting"
        /\ UNCHANGED <<lives, entry, gaveUp>>
  /\ route' = NoRoute
  /\ synced' = FALSE
  /\ UNCHANGED <<doc, modified, save, host, budget>>

\* Mutant of Drained: the reopen that waited is retired with the entry.
DrainedAlone ==
  /\ entry' = NoEntry /\ route' = NoRoute
  /\ synced' = (synced /\ entry.kind # "live")
  /\ gaveUp' = IF entry.kind = "live" THEN doc ELSE gaveUp
  /\ UNCHANGED lives

\* Retire the entry: a reopen that waited connects now; the document of a life
\* that ended by itself watches the file.
Drained ==
  \/ /\ entry.kind = "draining" /\ entry.reopen
     /\ Connected
     /\ UNCHANGED <<synced, gaveUp>>
  \/ /\ ~ (entry.kind = "draining" /\ entry.reopen)
     /\ entry' = NoEntry /\ route' = NoRoute
     /\ synced' = (synced /\ entry.kind # "live")
     /\ gaveUp' = IF entry.kind = "live" THEN doc ELSE gaveUp
     /\ UNCHANGED lives

PerformDrained ==
  /\ Due("drained")
  /\ posted' = Tail(posted)
  /\ Drained
  /\ UNCHANGED <<doc, modified, save, host, budget>>

-----------------------------------------------------------------------------
\* A life.  `stop` is looked for first wherever the life waits, but a request
\* to subscribe is waited out.

Posts(kind, l) == posted' = Append(posted, Note(kind, l))
LifeKeeps == UNCHANGED <<doc, synced, modified, entry, route, save, gaveUp>>

\* Stopped before the subscribe was sent: nothing to release, though the open
\* may still reach the host and mint a document that nobody holds.
OpenStopped(l) ==
  /\ lives[l].pc = "opening" /\ lives[l].stop
  /\ lives' = [lives EXCEPT ![l] = Over]
  /\ host' \in {host, Opened(host)}
  /\ Posts("drained", l)
  /\ LifeKeeps /\ UNCHANGED budget

OpenAnswered(l) ==
  /\ lives[l].pc = "opening" /\ ~lives[l].stop
  /\ host' = Opened(host)
  /\ lives' = [lives EXCEPT ![l].pc = "subscribing", ![l].channel = host'.alive]
  /\ LifeKeeps /\ UNCHANGED <<posted, budget>>

OpenFails(l) ==
  /\ lives[l].pc = "opening" /\ ~lives[l].stop
  /\ budget.faults < MaxFaults
  /\ budget' = [budget EXCEPT !.faults = @ + 1]
  /\ lives' = [lives EXCEPT ![l].pc = "parting"]
  /\ Posts("give-up", l)
  /\ LifeKeeps /\ UNCHANGED host

\* Mutant of Parted: a life that was stopped while it subscribed goes without
\* giving its subscription back.
PartedUnsaid(l) ==
  /\ host' = IF lives[l].pc = "subscribing" THEN Rowed(host, Me) ELSE Unrowed(host, Me, lives[l].channel)
  /\ lives' = [lives EXCEPT ![l] = Over]
  /\ Posts("drained", l)

\* The subscription is given back, then the last word.
Parted(l) ==
  /\ host' = Unrowed(host, Me, lives[l].channel)
  /\ lives' = [lives EXCEPT ![l] = Over]
  /\ Posts("drained", l)

\* The host answers a subscribe to a document it has.  A life that was stopped
\* meanwhile goes back at once, another offers its snapshot.
SubscribeAnswered(l) ==
  /\ lives[l].pc = "subscribing" /\ host.alive = lives[l].channel
  /\ \/ /\ lives[l].stop
        /\ Parted(l)
     \/ /\ ~lives[l].stop
        /\ host' = Rowed(host, Me)
        /\ lives' = [lives EXCEPT ![l].pc = "adopting"]
        /\ Posts("adopt", l)
  /\ LifeKeeps /\ UNCHANGED budget

\* The document is gone, or the request fails: the life gives up.
SubscribeFails(l) ==
  /\ lives[l].pc = "subscribing"
  /\ \/ host.alive # lives[l].channel /\ UNCHANGED budget
     \/ /\ budget.faults < MaxFaults
        /\ budget' = [budget EXCEPT !.faults = @ + 1]
  /\ host' = Unrowed(host, Me, lives[l].channel)
  /\ lives' = [lives EXCEPT ![l].pc = "parting"]
  /\ Posts("give-up", l)
  /\ LifeKeeps

LastWord(l) ==
  /\ lives[l].pc = "parting"
  /\ lives' = [lives EXCEPT ![l] = Over]
  /\ Posts("drained", l)
  /\ LifeKeeps /\ UNCHANGED <<host, budget>>

\* Adopted, the life runs the loop of the log and polls.
Adopted(l) ==
  /\ lives[l].pc = "adopting" /\ ~lives[l].stop /\ lives[l].seed = "sent"
  /\ lives' = [lives EXCEPT ![l].pc = "running"]
  /\ LifeKeeps /\ UNCHANGED <<posted, host, budget>>

Stopped(l) ==
  /\ lives[l].pc \in {"adopting", "running", "broken"}
  /\ lives[l].stop \/ (lives[l].pc = "adopting" /\ lives[l].seed = "dropped")
  /\ Parted(l)
  /\ LifeKeeps /\ UNCHANGED budget

\* The loop of the log ends by itself.  The life hears of it when it hands on
\* the next action.
LoopBreaks(l) ==
  /\ lives[l].pc = "running"
  /\ budget.faults < MaxFaults
  /\ budget' = [budget EXCEPT !.faults = @ + 1]
  /\ lives' = [lives EXCEPT ![l].pc = "broken"]
  /\ LifeKeeps /\ UNCHANGED <<posted, host>>

HearsOfTheBreak(l) ==
  /\ lives[l].pc = "broken" /\ ~lives[l].stop
  /\ Parted(l)
  /\ LifeKeeps /\ UNCHANGED budget

-----------------------------------------------------------------------------
\* A save on its worker.

SaveStep(s) ==
  /\ save' = s
  /\ UNCHANGED <<doc, synced, modified, entry, posted, lives, route, host, budget, gaveUp>>

\* `store_handle`: no route, and the file is written directly.
AsksTheRoute ==
  /\ save.pc = "asked"
  /\ SaveStep([save EXCEPT !.pc = IF route.life = 0 THEN "writing" ELSE "waiting", !.life = route.life])

\* The route gets its handle, or is dropped: forgotten or replaced by another.
RouteIsReady ==
  /\ save.pc = "waiting" /\ route = [life |-> save.life, ready |-> TRUE]
  /\ SaveStep([save EXCEPT !.pc = "flushing", !.channel = lives[save.life].channel])

\* Mutant of RouteIsDropped: the wait goes on.
RouteIsDroppedNot == FALSE /\ UNCHANGED channelVars

RouteIsDropped ==
  /\ save.pc = "waiting" /\ route.life # save.life
  /\ SaveStep([save EXCEPT !.pc = "writing", !.life = 0])

\* The save has ended; landed, it covers what was typed before it.
SaveEnds(landed) ==
  /\ save' = NoSave
  /\ modified' = (modified /\ ~(landed /\ save.covers))
  /\ UNCHANGED <<doc, synced, entry, posted, lives, route, host, budget, gaveUp>>

\* The loop answers a flush when it has settled, and drops it when it ends.
FlushAnswered ==
  /\ save.pc = "flushing" /\ lives[save.life].pc = "running"
  /\ SaveStep([save EXCEPT !.pc = "storing", !.life = 0])

FlushDropped ==
  /\ save.pc = "flushing" /\ lives[save.life].pc \in {"broken", "over"}
  /\ SaveEnds(FALSE)

StoreAnswered ==
  /\ save.pc = "storing"
  /\ SaveEnds(host.alive = save.channel)

WriteAnswered ==
  /\ save.pc = "writing"
  /\ SaveEnds(TRUE)

-----------------------------------------------------------------------------

Perform   == PerformEnsure \/ PerformAdopt \/ PerformGiveUp \/ PerformDrained
LifeStep(l) ==
  \/ OpenStopped(l) \/ OpenAnswered(l) \/ OpenFails(l)
  \/ SubscribeAnswered(l) \/ SubscribeFails(l) \/ LastWord(l)
  \/ Adopted(l) \/ Stopped(l) \/ LoopBreaks(l) \/ HearsOfTheBreak(l)
SaveGoes  == AsksTheRoute \/ RouteIsReady \/ RouteIsDropped \/ FlushAnswered \/ FlushDropped
               \/ StoreAnswered \/ WriteAnswered

ChannelNext ==
  \/ OpenDocument \/ CloseDocument \/ Type \/ PressSave
  \/ Perform \/ SaveGoes
  \/ \E l \in DOMAIN lives : LifeStep(l)
  \/ OtherComes \/ OtherLeaves

ChannelSpec == ChannelInit /\ [][ChannelNext]_channelVars

\* What a life does without being asked: everything but breaking, failing, and
\* hearing the action that may never come.
LifeMust(l) ==
  /\ l \in DOMAIN lives
  /\ OpenStopped(l) \/ OpenAnswered(l) \/ SubscribeAnswered(l) \/ SubscribeFails(l) \/ LastWord(l)
       \/ Adopted(l) \/ Stopped(l)

FairChannelSpec ==
  /\ ChannelSpec
  /\ WF_channelVars(Perform) /\ WF_channelVars(SaveGoes)
  /\ \A l \in 1..MaxOpens : WF_channelVars(LifeMust(l))

-----------------------------------------------------------------------------

\* One life per location: a life begins only when the one before has given its
\* subscription back and said so (lib.rs 375-377: "callers guarantee no other
\* life exists").
OneLife ==
  \A k, l \in DOMAIN lives : Alive(k) /\ Alive(l) => k = l

\* A subscription dies with the life that made it (lib.rs 469-472): the host has
\* a row of this client only for a life that holds its channel.
RowHasItsLife ==
  Me \in host.rows =>
    \E l \in DOMAIN lives : lives[l].pc \in Holding /\ lives[l].channel = host.alive

\* A life that nobody has stopped keeps its row and its document: no life's end
\* takes away what another life holds.
LiveHoldsItsRow ==
  \A l \in DOMAIN lives :
    lives[l].pc \in {"adopting", "running", "broken"} =>
      Me \in host.rows /\ host.alive = lives[l].channel

\* One authority reloads a document (docs/ahp/ahp-documents.md 456-462): it is
\* left to the host exactly while the entry of its location is live.
OneAuthority ==
  synced <=> entry.kind = "live" /\ doc # 0

\* A save route is the one of the entry: it waits while that connects, is ready
\* while that is live, and is gone once it drains.  A save that waits on it is
\* answered, and one that finds it ready reaches the channel of this document.
RouteFollowsTheEntry ==
  route = IF entry.kind \in {"connecting", "live"}
          THEN [life |-> entry.life, ready |-> entry.kind = "live"] ELSE NoRoute

\* An open document is never forgotten in a drain: it is ensured, connecting,
\* live, waits behind the drain, or has given the channel up.
OpenIsRemembered ==
  doc # 0 =>
    \/ gaveUp = doc
    \/ entry.kind \in {"connecting", "live"} \/ entry.reopen
    \/ \E i \in DOMAIN posted : posted[i].kind = "ensure"

\* The entry is the last life's, and every other is over: what makes OneLife
\* inductive.
EntryHasTheLife ==
  /\ entry.life = IF entry.kind = "none" THEN 0 ELSE Len(lives)
  /\ entry.kind # "none" => lives # <<>>
  /\ \A l \in DOMAIN lives : l # entry.life => ~Alive(l)

\* What lives have posted comes from the entry's, and in order: one offer of a
\* snapshot or one giving up, then the last word.
WordsInOrder ==
  /\ \A i \in DOMAIN posted : posted[i].kind # "ensure" => entry.kind # "none" /\ posted[i].life = entry.life
  /\ \A i, j \in DOMAIN posted :
       i < j /\ posted[i].kind # "ensure" /\ posted[j].kind # "ensure" =>
         posted[i].kind \in {"adopt", "give-up"} /\ posted[j].kind = "drained"

\* The entry knows its life: what is posted tells how far the life is, and a
\* life that still connects has been told nothing and will say something.
Said(kind) == \E i \in DOMAIN posted : posted[i].kind = kind
EntryKnowsItsLife ==
  entry.kind # "none" =>
    LET life == lives[entry.life] IN
    /\ Said("drained") <=> life.pc = "over"
    /\ Said("adopt") => life.pc \in {"adopting", "over"} /\ life.seed = "none" /\ entry.kind # "live"
    /\ Said("give-up") => life.pc \in {"parting", "over"} /\ entry.kind # "live"
    /\ life.pc \in {"opening", "subscribing"} => life.seed = "none" /\ entry.kind # "live"
    /\ life.pc = "parting" => entry.kind # "live"
    /\ life.pc \in Holding => life.channel # 0
    /\ entry.kind = "connecting" =>
         ~life.stop /\ (life.pc \in {"opening", "subscribing"} \/ Said("adopt") \/ Said("give-up"))
    /\ entry.kind = "live" => ~life.stop /\ doc # 0

\* The types, and the table of the main thread: one life, and what the flag of
\* the document, the route and the entry say of each other.  With what makes them
\* so it is an inductive invariant (ChannelLifeProofs).
ChannelInv ==
  /\ ChannelTypeOK /\ OneLife /\ OneAuthority /\ RouteFollowsTheEntry /\ OpenIsRemembered
  /\ EntryHasTheLife /\ WordsInOrder /\ EntryKnowsItsLife

\* The host's row and the life that made it: neither is there without the other.
RowsHaveTheirLives == RowHasItsLife /\ LiveHoldsItsRow

\* Every save ends: it is not left waiting for a route that nobody readies.
SavesEnd == (save.pc # "idle") ~> (save.pc = "idle")

\* A closed document's channel is given back: no entry, no row.
ClosedIsReleased == (doc = 0) ~> (doc # 0 \/ (entry.kind = "none" /\ Me \notin host.rows))

\* An open document comes to run on its channel, unless it gives it up.  (Whether a
\* loop that broke is noticed depends on what others say.)
OpenIsServed ==
  \A n \in 1..MaxOpens :
    (doc = n) ~> (doc # n \/ gaveUp = n \/ (synced /\ lives[entry.life].pc \in {"running", "broken"}))

\* What is opened is served and what is closed is given back.
OpensAndCloses == OpenIsServed /\ ClosedIsReleased

\* lib.rs 327-331: "Waits out the connecting window so a save cannot slip UNDER a
\* channel being adopted."  It can: a document that waits behind a drain, or whose
\* EnsureSync is still posted, has no route.
SaveNeverSlipsUnder ==
  ~ (save.pc = "writing" /\ doc # 0 /\ entry.kind = "connecting" /\ lives[entry.life].pc = "adopting")

\* docs/ahp/ahp-documents.md 340-345: a client whose channel is missing opens it
\* again.  One whose document went between open and subscribe falls back to
\* watching the file for good.
MissingIsOpenedAgain == gaveUp = 0 \/ budget.faults > 0
=============================================================================
