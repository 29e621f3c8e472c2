------------------------------ MODULE WireFeed ------------------------------
(***************************************************************************)
(* How the actions of the host's channels reach a client's feeds across    *)
(* connections that die (frontend/ahp-wire/src/wire.rs and the host's      *)
(* apply, subscribe and reconnect).  The host numbers every action, sends  *)
(* it to the channel's rows and keeps the last Depth of them.  The client  *)
(* has one tap per subscription and connection, a pump from each tap to    *)
(* the channel's feed, and one cursor for all: the highest number landed.  *)
(* A connection that comes up after a dead one asks for what it missed.    *)
(*                                                                         *)
(* Data abstraction.  The n-th action of a channel is the number n; what a *)
(* reader has seen is the number of actions in the snapshot it adopted and *)
(* the numbers its feed has given it since.  The SDK's router and its taps *)
(* are outside the repository: they keep order and close with the client.  *)
(* A tap holds what is on the socket for it too: when its pump or the      *)
(* waiting request gets to run is open in any case.                        *)
(***************************************************************************)
EXTENDS Naturals, Sequences, FiniteSets, SequencesExt

CONSTANTS
  Chan,          \* channels
  Ext,           \* those whose pump starts before the subscribe is answered
  Standing,      \* channels with a subscriber from the start
  Depth,         \* envelopes the host keeps (REPLAY_DEPTH)
  MaxActions,    \* bound: actions published, of all channels
  MaxSubs,       \* bound: subscriptions of one channel
  MaxEvents      \* bound: connections that die or do not come up, restarts of the
                 \* host, subscriptions dropped, channels disposed and pages, all
                 \* together

ASSUME WireAssumption ==
  /\ Ext \subseteq Chan /\ Standing \subseteq Chan
  /\ Depth \in Nat \ {0}
  /\ {MaxActions, MaxSubs, MaxEvents} \subseteq Nat

VARIABLES
  serverSeq,   \* the host's counter
  replay,      \* the envelopes it keeps
  rows,        \* rows[ch]: connections subscribed to the channel
  known,       \* channels that exist
  count,       \* count[ch]: actions of the channel so far
  request,     \* request[k][ch]: the subscribe the host has of connection k
  reconnect,   \* reconnect[k]: the reconnect it has of connection k
  conns,       \* connections made
  dead,        \* those declared dead
  active,      \* the connection in use, 0 while another is being made
  resuming,    \* the connection being made, the one before, and how far it is
  feeds,       \* feeds[k]: channels that have a feed on k
  taps,        \* taps[k][ch]: the taps of the channel on k, with what was sent
  lastSeen,    \* the cursor
  feed,        \* feed[ch]: what has landed in the channel's feed
  sub,         \* sub[ch]: where the channel's subscriber stands
  spent,       \* what of the bounds has been used
  stamp,       \* history: stamp[ch][n]: the host's number of the n-th action
  lost         \* history: lost[ch]: why an action may have gone missing

counts   == <<serverSeq, replay, known, count>>
asked    == <<request, reconnect>>
link     == <<conns, dead, active, resuming>>
reader   == <<feeds, lastSeen, feed, sub>>
wireVars == <<counts, rows, asked, link, taps, reader, spent, stamp, lost>>

Conn     == 1..(MaxEvents + 1)
Reason   == {"overtaken", "tooOld", "moved", "restarted", "behind", "stale"}
Envelope == [ch : Chan, seq : Nat, n : Nat]
Tap      == [queue : Seq(Envelope), pumped : BOOLEAN]
NoRequest   == [stage |-> "none", n |-> 0]
NoReconnect == [stage |-> "none", from |-> 0, chans |-> {}, actions |-> <<>>, missing |-> {}]
NotResuming == [conn |-> 0, previous |-> 0, stage |-> "none"]
NoSub       == [phase |-> "none", conn |-> 0, tries |-> 0]
Fresh(pumped) == [queue |-> <<>>, pumped |-> pumped]
EmptyFeed   == [base |-> 0, got |-> <<>>, landed |-> 0]

WireTypeOK ==
  /\ serverSeq \in 0..(MaxActions + MaxEvents)
  /\ replay \in Seq(Envelope) /\ Len(replay) <= Depth
  /\ rows \in [Chan -> SUBSET Conn]
  /\ known \subseteq Chan
  /\ count \in [Chan -> 0..MaxActions]
  /\ request \in [Conn -> [Chan -> [stage : {"none", "asked", "subscribed", "refused"}, n : 0..MaxActions]]]
  /\ \A k \in Conn : reconnect[k].stage \in {"none", "asked", "covered", "tooOld", "ready"}
  /\ conns \in Conn /\ dead \subseteq 1..conns
  /\ active \in 0..conns
  /\ resuming.conn \in {0, conns} /\ resuming.stage \in {"none", "dialed", "asked", "replayed"}
  /\ (active = 0) = (resuming.conn # 0)
  /\ feeds \in [Conn -> SUBSET Chan]
  /\ \A k \in Conn, ch \in Chan : taps[k][ch] \in Seq(Tap)
  /\ lastSeen \in Nat
  /\ \A ch \in Chan : sub[ch].phase \in {"none", "asking", "again", "live", "failed"}
  /\ lost \in [Chan -> SUBSET Reason]

WireInit ==
  /\ serverSeq = 0 /\ replay = <<>>
  /\ rows = [ch \in Chan |-> IF ch \in Standing THEN {1} ELSE {}]
  /\ known = Chan
  /\ count = [ch \in Chan |-> 0]
  /\ request = [k \in Conn |-> [ch \in Chan |-> NoRequest]]
  /\ reconnect = [k \in Conn |-> NoReconnect]
  /\ conns = 1 /\ dead = {} /\ active = 1
  /\ resuming = NotResuming
  /\ feeds = [k \in Conn |-> IF k = 1 THEN Standing ELSE {}]
  /\ taps = [k \in Conn |-> [ch \in Chan |-> IF k = 1 /\ ch \in Standing THEN <<Fresh(TRUE)>> ELSE <<>>]]
  /\ lastSeen = 0
  /\ feed = [ch \in Chan |-> EmptyFeed]
  /\ sub = [ch \in Chan |-> IF ch \in Standing THEN [phase |-> "live", conn |-> 1, tries |-> 1] ELSE NoSub]
  /\ spent = [subs |-> [ch \in Chan |-> 0], events |-> 0]
  /\ stamp = [ch \in Chan |-> <<>>]
  /\ lost = [ch \in Chan |-> {}]

Largest(m, n) == IF m > n THEN m ELSE n
Published     == FoldFunction(LAMBDA m, n : m + n, 0, count)
LastOf(f)     == IF f.got = <<>> THEN f.base ELSE Last(f.got)
Live(k)       == k # 0 /\ k \notin dead
Event         == spent.events < MaxEvents /\ spent' = [spent EXCEPT !.events = @ + 1]

-----------------------------------------------------------------------------
\* The host.

\* What a client that has given a connection up would be sent is read by
\* nobody, so a dead connection has no rows here: when close_connection drops
\* them cannot be seen.
Broadcast(ch, envelope) ==
  taps' = [k \in Conn |-> IF k \notin rows[ch] THEN taps[k]
             ELSE [taps[k] EXCEPT ![ch] = [i \in DOMAIN @ |-> [@[i] EXCEPT !.queue = Append(@, envelope)]]]]

\* REPLAY_DEPTH envelopes are kept.
Kept(ring, envelope) ==
  IF Len(ring) = Depth THEN Append(Tail(ring), envelope) ELSE Append(ring, envelope)

\* An action is numbered, sent to the rows and kept, all in one update.
Publish(ch) ==
  /\ ch \in known
  /\ Published < MaxActions
  /\ serverSeq' = serverSeq + 1
  /\ count' = [count EXCEPT ![ch] = @ + 1]
  /\ LET envelope == [ch |-> ch, seq |-> serverSeq', n |-> count'[ch]]
     IN  Broadcast(ch, envelope) /\ replay' = Kept(replay, envelope)
  /\ stamp' = [stamp EXCEPT ![ch] = Append(@, serverSeq')]
  /\ UNCHANGED <<known, rows, asked, link, reader, spent, lost>>

\* A page of turns is numbered and sent, but not kept.
PublishUnfolded(ch) ==
  /\ ch \in known
  /\ Event
  /\ serverSeq' = serverSeq + 1
  /\ Broadcast(ch, [ch |-> ch, seq |-> serverSeq', n |-> 0])
  /\ UNCHANGED <<replay, known, count, rows, asked, link, reader, stamp, lost>>

\* The row is made and the snapshot taken in one update.
HostSubscribe(k, ch) ==
  /\ request[k][ch].stage = "asked" /\ Live(k)
  /\ IF ch \in known
     THEN /\ rows' = [rows EXCEPT ![ch] = @ \cup {k}]
          /\ request' = [request EXCEPT ![k][ch] = [stage |-> "subscribed", n |-> count[ch]]]
     ELSE /\ request' = [request EXCEPT ![k][ch] = [stage |-> "refused", n |-> 0]]
          /\ UNCHANGED rows
  /\ UNCHANGED <<counts, reconnect, link, taps, reader, spent, stamp, lost>>

\* Does the ring reach back to the cursor?
Covered(from) ==
  IF replay = <<>> THEN serverSeq <= from ELSE Head(replay).seq <= from + 1

\* Looked up on a snapshot of the state, before the update that follows.
HostChecksReconnect(k) ==
  /\ reconnect[k].stage = "asked" /\ Live(k)
  /\ reconnect' = [reconnect EXCEPT ![k].stage = IF Covered(reconnect[k].from) THEN "covered" ELSE "tooOld"]
  /\ UNCHANGED <<counts, rows, request, link, taps, reader, spent, stamp, lost>>

Missed(ch) == LastOf(feed[ch]) + 1 .. count[ch]
Because(chans, reason) ==
  lost' = [ch \in Chan |-> IF ch \in chans /\ sub[ch].phase = "live" THEN lost[ch] \cup {reason} ELSE lost[ch]]

\* Mutant of TailOf: the envelope at the cursor is skipped too.
TailPast(from, chans) == SelectSeq(replay, LAMBDA e : e.seq > from + 1 /\ e.ch \in chans)

\* The missed tail.
TailOf(from, chans) == SelectSeq(replay, LAMBDA e : e.seq > from /\ e.ch \in chans)

Rejoin(k) ==
  rows' = [ch \in Chan |-> IF ch \in reconnect[k].chans \cap known THEN rows[ch] \cup {k} ELSE rows[ch]]

\* One update: the known channels get their rows back and the tail is read.
\* History: what the check counted on may have left the ring since.
HostReplays(k) ==
  /\ reconnect[k].stage = "covered" /\ Live(k)
  /\ Rejoin(k)
  /\ reconnect' = [reconnect EXCEPT ![k].stage = "ready",
                     ![k].actions = TailOf(reconnect[k].from, reconnect[k].chans),
                     ![k].missing = reconnect[k].chans \ known]
  /\ Because({ch \in reconnect[k].chans : \E n \in Missed(ch) :
                /\ stamp[ch][n] > reconnect[k].from
                /\ \A i \in DOMAIN replay : replay[i].ch # ch \/ replay[i].n # n}, "moved")
  /\ UNCHANGED <<counts, request, link, taps, reader, spent, stamp>>

\* Too old a cursor: the rows come back, the client ignores the snapshots.
HostSnapshots(k) ==
  /\ reconnect[k].stage = "tooOld" /\ Live(k)
  /\ Rejoin(k)
  /\ reconnect' = [reconnect EXCEPT ![k].stage = "ready"]
  /\ Because({ch \in reconnect[k].chans : Missed(ch) # {}}, "tooOld")
  /\ UNCHANGED <<counts, request, link, taps, reader, spent, stamp>>

\* A channel is disposed.
Dispose(ch) ==
  /\ ch \in known
  /\ Event
  /\ known' = known \ {ch}
  /\ rows' = [rows EXCEPT ![ch] = {}]
  /\ UNCHANGED <<serverSeq, replay, count, asked, link, taps, reader, stamp, lost>>

\* The host comes back with its channels, and counts from zero again.
HostRestarts ==
  /\ Event
  /\ serverSeq' = 0 /\ replay' = <<>>
  /\ rows' = [ch \in Chan |-> {}]
  /\ request' = [k \in Conn |-> [ch \in Chan |-> NoRequest]]
  /\ reconnect' = [k \in Conn |-> NoReconnect]
  /\ dead' = 1..conns
  /\ stamp' = [ch \in Chan |-> [n \in DOMAIN stamp[ch] |-> 0]]
  /\ Because(Chan, "restarted")
  /\ UNCHANGED <<known, count, conns, active, resuming, taps, reader>>

-----------------------------------------------------------------------------
\* The client.

\* Mutant of Landed: a number at or below the mark lands again.
LandedAgain(f, e) ==
  [f EXCEPT !.landed = e.seq, !.got = IF e.n = 0 THEN @ ELSE Append(@, e.n)]

\* An envelope comes to a feed, which folds the copies of one.
Landed(f, e) ==
  IF e.seq <= f.landed THEN f
  ELSE [f EXCEPT !.landed = e.seq, !.got = IF e.n = 0 THEN @ ELSE Append(@, e.n)]

\* Mutant of Pumping: a pump starts with its tap.
PumpingAtOnce(k, tap) == Live(k) /\ tap.queue # <<>>

\* A pump ends with the trust in its connection.
Pumping(k, tap) == Live(k) /\ tap.pumped /\ tap.queue # <<>>

\* The cursor and the mark move under the feed's lock.
Pump(k, ch) ==
  \E i \in DOMAIN taps[k][ch] :
    /\ Pumping(k, taps[k][ch][i])
    /\ LET e == Head(taps[k][ch][i].queue) IN
         /\ lastSeen' = Largest(lastSeen, e.seq)
         /\ feed' = [feed EXCEPT ![ch] = Landed(@, e)]
    /\ taps' = [taps EXCEPT ![k][ch][i].queue = Tail(@)]
    /\ UNCHANGED <<counts, rows, asked, link, feeds, sub, spent, stamp, lost>>

Unrowed(k) == rows' = [ch \in Chan |-> rows[ch] \ {k}]

\* A keepalive is not answered, or the transport fails.
ConnectionDies ==
  /\ Live(active)
  /\ Event
  /\ dead' = dead \cup {active}
  /\ Unrowed(active)
  /\ UNCHANGED <<counts, asked, conns, active, resuming, taps, reader, stamp, lost>>

CarriedFeed(f) == [f EXCEPT !.landed = 0]

\* A cursor ahead of the host's count means that the host was restarted.
FollowHost == IF serverSeq < lastSeen THEN serverSeq ELSE lastSeen

\* The next ask finds the connection dead: dial, initialize, carry the feeds.
Dial ==
  /\ active \in dead
  /\ conns' = conns + 1
  /\ active' = 0
  /\ resuming' = [conn |-> conns', previous |-> active,
                  stage |-> IF feeds[active] = {} THEN "replayed" ELSE "dialed"]
  /\ feeds' = [feeds EXCEPT ![conns'] = feeds[active]]
  /\ feed' = [ch \in Chan |-> IF ch \in feeds[active] THEN CarriedFeed(feed[ch]) ELSE feed[ch]]
  /\ lastSeen' = FollowHost
  /\ UNCHANGED <<counts, rows, asked, dead, taps, sub, spent, stamp, lost>>

Pumped(queues) == [i \in DOMAIN queues |-> [queues[i] EXCEPT !.pumped = TRUE]]

\* History: the cursor may be past an action a slower pump has still to land,
\* or not yet past one that came with a snapshot.
CursorIsWrong(k) ==
  lost' = [ch \in Chan |->
    IF ch \notin feeds[k] \/ sub[ch].phase # "live" THEN lost[ch]
    ELSE lost[ch] \cup {r \in {"overtaken"} : \E n \in Missed(ch) : stamp[ch][n] <= lastSeen}
                  \cup {r \in {"behind"} : \E n \in 1..feed[ch].base : stamp[ch][n] > lastSeen}]

\* The taps are attached before the request is made, and pumped later.
AskReconnect ==
  /\ resuming.stage = "dialed" /\ Live(resuming.conn)
  /\ LET k == resuming.conn IN
       /\ taps' = [taps EXCEPT ![k] = [ch \in Chan |-> IF ch \in feeds[k] THEN <<Fresh(FALSE)>> ELSE <<>>]]
       /\ reconnect' = [reconnect EXCEPT ![k] =
                          [NoReconnect EXCEPT !.stage = "asked", !.from = lastSeen, !.chans = feeds[k]]]
       /\ CursorIsWrong(k)
  /\ resuming' = [resuming EXCEPT !.stage = "asked"]
  /\ UNCHANGED <<counts, rows, request, conns, dead, active, reader, spent, stamp>>

\* What the replay says of one channel lands in its feed.
Replayed(f, ch, actions) == FoldLeft(Landed, f, SelectSeq(actions, LAMBDA e : e.ch = ch))

\* The replay lands, channels that are gone lose their feed, the pumps start.
ReplayLands ==
  /\ resuming.stage = "asked" /\ Live(resuming.conn)
  /\ LET k == resuming.conn  answer == reconnect[k] IN
       /\ answer.stage = "ready"
       /\ feed' = [ch \in Chan |-> IF ch \in feeds[k] THEN Replayed(feed[ch], ch, answer.actions) ELSE feed[ch]]
       /\ lastSeen' = FoldLeft(LAMBDA seen, e : Largest(seen, e.seq), lastSeen, answer.actions)
       /\ feeds' = [feeds EXCEPT ![k] = @ \ answer.missing]
       /\ reconnect' = [reconnect EXCEPT ![k] = NoReconnect]
       /\ taps' = [taps EXCEPT ![k] = [ch \in Chan |-> Pumped(@[ch])]]
  /\ resuming' = [resuming EXCEPT !.stage = "replayed"]
  /\ UNCHANGED <<counts, rows, request, conns, dead, active, sub, spent, stamp, lost>>

\* Only now is the connection one that an ask may find.
Activate ==
  /\ resuming.stage = "replayed" /\ Live(resuming.conn)
  /\ active' = resuming.conn
  /\ resuming' = NotResuming
  /\ UNCHANGED <<counts, rows, asked, conns, dead, taps, reader, spent, stamp, lost>>

\* The resume times out or its connection dies: the one before is put back,
\* dead as it is, for the next ask to replace.
ResumeFails ==
  /\ resuming.conn # 0
  /\ \/ resuming.conn \in dead /\ UNCHANGED spent
     \/ Live(resuming.conn) /\ Event
  /\ dead' = dead \cup {resuming.conn}
  /\ Unrowed(resuming.conn)
  /\ active' = resuming.previous
  /\ resuming' = NotResuming
  /\ UNCHANGED <<counts, asked, conns, taps, reader, stamp, lost>>

\* The tap of a subscribe comes before its request; a document's pump too.
Attach(ch) ==
  /\ Live(active)
  /\ taps' = [taps EXCEPT ![active][ch] = Append(@, Fresh(ch \in Ext))]
  /\ feeds' = [feeds EXCEPT ![active] = IF ch \in Ext THEN @ \cup {ch} ELSE @]
  /\ feed' = [feed EXCEPT ![ch] = IF ch \in Ext \ feeds[active] THEN EmptyFeed ELSE @]
  /\ request' = [request EXCEPT ![active][ch] = [stage |-> "asked", n |-> 0]]
  /\ UNCHANGED <<counts, rows, reconnect, link, lastSeen, stamp, lost>>

Subscribe(ch) ==
  /\ sub[ch].phase = "none" /\ spent.subs[ch] < MaxSubs
  /\ Attach(ch)
  /\ sub' = [sub EXCEPT ![ch] = [phase |-> "asking", conn |-> active, tries |-> 1]]
  /\ spent' = [spent EXCEPT !.subs[ch] = @ + 1]

\* It died under a reconnect and is made once more.
SubscribeAgain(ch) ==
  /\ sub[ch].phase = "again"
  /\ Attach(ch)
  /\ sub' = [sub EXCEPT ![ch] = [phase |-> "asking", conn |-> active, tries |-> 2]]
  /\ UNCHANGED spent

Phased(ch, phase) == sub' = [sub EXCEPT ![ch].phase = phase]

SubscribeDies(ch) ==
  /\ sub[ch].phase = "asking" /\ sub[ch].conn \in dead
  /\ \/ sub[ch].tries = 1 /\ Phased(ch, "again")
     \/ Phased(ch, "failed")
  /\ UNCHANGED <<counts, rows, asked, link, taps, feeds, lastSeen, feed, spent, stamp, lost>>

\* No connection came up in time to ask again.
SubscribeTimesOut(ch) ==
  /\ sub[ch].phase = "again" /\ ~Live(active)
  /\ Phased(ch, "failed")
  /\ UNCHANGED <<counts, rows, asked, link, taps, feeds, lastSeen, feed, spent, stamp, lost>>

\* Copies that reach the reader behind the snapshot that holds them.
Stale(k, ch, n) ==
  \/ ch \in feeds[k] /\ \E m \in Range(feed[ch].got) : m <= n
  \/ \E i \in DOMAIN taps[k][ch] : \E e \in Range(taps[k][ch][i].queue) : e.n \in 1..n

\* The reader adopts the snapshot.  The feed is the channel's own if it has one.
SubscribeAnswered(ch) ==
  LET k == sub[ch].conn  answer == request[k][ch] IN
  /\ sub[ch].phase = "asking" /\ Live(k)
  /\ \/ /\ answer.stage = "refused"
        /\ Phased(ch, "failed")
        /\ UNCHANGED <<feeds, taps, feed, lost>>
     \/ /\ answer.stage = "subscribed"
        /\ Phased(ch, "live")
        /\ feeds' = [feeds EXCEPT ![k] = @ \cup {ch}]
        /\ feed' = [feed EXCEPT ![ch] = [(IF ch \in feeds[k] THEN @ ELSE EmptyFeed) EXCEPT !.base = answer.n]]
        /\ taps' = [taps EXCEPT ![k][ch] = Pumped(@)]
        /\ lost' = [lost EXCEPT ![ch] = IF Stale(k, ch, answer.n) THEN {"stale"} ELSE {}]
  /\ request' = [request EXCEPT ![k][ch] = NoRequest]
  /\ UNCHANGED <<counts, rows, reconnect, link, lastSeen, spent, stamp>>

\* On a live connection feed, taps and row go; on a dead one the feed; while
\* another connection is being made, nothing.  The host reads the notification
\* before anything the client asks for later.
Released(ch) ==
  IF Live(active)
  THEN /\ feeds' = [feeds EXCEPT ![active] = @ \ {ch}]
       /\ taps' = [taps EXCEPT ![active][ch] = <<>>]
       /\ rows' = [rows EXCEPT ![ch] = @ \ {active}]
  ELSE /\ feeds' = IF active = 0 THEN feeds ELSE [feeds EXCEPT ![active] = @ \ {ch}]
       /\ UNCHANGED <<taps, rows>>

Unsubscribe(ch) ==
  /\ sub[ch].phase = "live"
  /\ Event
  /\ sub' = [sub EXCEPT ![ch] = NoSub]
  /\ Released(ch)
  /\ UNCHANGED <<counts, asked, link, lastSeen, feed, stamp, lost>>

\* A subscriber that failed lets go of whatever it may hold.
SubscribeFailed(ch) ==
  /\ sub[ch].phase = "failed"
  /\ sub' = [sub EXCEPT ![ch] = NoSub]
  /\ Released(ch)
  /\ UNCHANGED <<counts, asked, link, lastSeen, feed, spent, stamp, lost>>

-----------------------------------------------------------------------------
HostNext ==
  \E k \in Conn :
    \/ \E ch \in Chan : HostSubscribe(k, ch)
    \/ HostChecksReconnect(k) \/ HostReplays(k) \/ HostSnapshots(k)

ClientNext ==
  \/ \E k \in Conn, ch \in Chan : Pump(k, ch)
  \/ Dial \/ AskReconnect \/ ReplayLands \/ Activate \/ (resuming.conn \in dead /\ ResumeFails)
  \/ \E ch \in Chan :
       SubscribeAgain(ch) \/ SubscribeDies(ch) \/ SubscribeAnswered(ch) \/ SubscribeFailed(ch)

Surroundings ==
  \/ \E ch \in Chan :
       \/ Publish(ch) \/ PublishUnfolded(ch) \/ Dispose(ch)
       \/ Subscribe(ch) \/ SubscribeTimesOut(ch) \/ Unsubscribe(ch)
  \/ HostRestarts \/ ConnectionDies \/ ResumeFails

WireNext == HostNext \/ ClientNext \/ Surroundings

WireSpec     == WireInit /\ [][WireNext]_wireVars
FairWireSpec == WireSpec /\ WF_wireVars(HostNext) /\ WF_wireVars(ClientNext)

-----------------------------------------------------------------------------
Reading(ch) == sub[ch].phase = "live" /\ lost[ch] \cap {"stale", "behind"} = {}
Count(f)    == {f.base} \cup Range(f.got)

\* No action reaches a reader twice or out of order, over any number of
\* connections (Feed::push_live, push_replayed, carried).
EachOnceInOrder ==
  \A ch \in Chan : Reading(ch) =>
    LET f == feed[ch] IN \A i \in DOMAIN f.got : f.got[i] > (IF i = 1 THEN f.base ELSE f.got[i - 1])

\* The types, and the order of what is read.
WireInv == WireTypeOK /\ EachOnceInOrder

\* A reader misses no action unless a cause that is named made it: the cursor
\* had overtaken it, it was too old or left the ring, or the host restarted.
NoSilentGap ==
  \A ch \in Chan : Reading(ch) /\ lost[ch] = {} =>
    Count(feed[ch]) = feed[ch].base .. LastOf(feed[ch])

\* A reader whose actions are not lost for a named cause has them all in the
\* end, whatever became of its connections.
InTouch(ch) == sub[ch].phase = "live" /\ lost[ch] = {} /\ ch \in known
StreamCatchesUp ==
  \A ch \in Chan : InTouch(ch) ~> (~InTouch(ch) \/ LastOf(feed[ch]) = count[ch])

\* docs/ahp/agent-host.md 150-153: a reconnect answers the missed action tail
\* when the ring still covers the gap.  Not what happens: one cursor serves
\* all the pumps, and a quick one moves it past what a slow one has to land.
MissedTailIsReplayed ==
  \A ch \in Chan : Reading(ch) /\ lost[ch] \cap {"tooOld", "moved", "restarted"} = {} =>
    Count(feed[ch]) = feed[ch].base .. LastOf(feed[ch])

\* wire.rs 1799-1804: no reconnect asks again for what was seen, since the pump
\* moves the cursor.  Not what happens: the snapshot of a subscribe does not
\* move it, and what the snapshot holds is replayed behind it.
ReplayRepeatsNothing ==
  \A ch \in Chan : sub[ch].phase = "live" /\ "stale" \notin lost[ch] =>
    \A n \in Range(feed[ch].got) : n > feed[ch].base

\* wire.rs 427-429: a subscribe may be made once more, the host answers it the
\* same.  Not so the feed: it was carried, and holds what the snapshot has.
SubscribeMayBeRepeated ==
  \A ch \in Chan : sub[ch].phase = "live" /\ "behind" \notin lost[ch] =>
    \A n \in Range(feed[ch].got) : n > feed[ch].base
=============================================================================
