------------------------ MODULE DocumentLanesProofs ------------------------
(***************************************************************************)
(* The lanes of an open document are safe: a document at rest that says it *)
(* is saved is the disk's text, and it shows what the user typed and what  *)
(* the agent wrote.  For any lines and any number of edits, writes, saves  *)
(* and faults.                                                             *)
(***************************************************************************)
EXTENDS DocumentLanes, TLAPS

-----------------------------------------------------------------------------
\* The types of what the steps make.

Fetch == [current : BOOLEAN, pc : {"asked", "read", "diffed"}, got : Text, target : Text,
          fresh : BOOLEAN, old : BOOLEAN]
Store == [n : 1..MaxSaves, pc : {"asked", "written"}, text : Text, fresh : BOOLEAN, cancelled : BOOLEAN]
Watch == [pc : {"none", "asked", "armed", "held", "gone"}, due : BOOLEAN]
Row   == [text : Text, base : Text, saved : BOOLEAN]
Slot  == [watch : Watcher \cup {0}, requested : BOOLEAN, riders : SUBSET Watcher]

Budget == [edits : 0..MaxEdits, writes : 0..MaxWrites, saves : 0..MaxSaves, faults : 0..MaxFaults]

\* What LanesTypeOK says, in these records.
LanesTyped ==
  /\ disk \in Text /\ mode \in {"connecting", "live", "two"}
  /\ buffer \in Row /\ mirror \in Text /\ slot \in Slot
  /\ watchers \in [Watcher -> Watch] /\ changed \subseteq Watcher
  /\ fetches \subseteq Fetch /\ stores \subseteq Store
  /\ budget \in Budget
  /\ typed \subseteq ClientLine /\ replayed \in Text
  /\ missed \in BOOLEAN /\ races \subseteq Races

LEMMA LaneTypes == LanesTypeOK <=> LanesTyped
BY DEF LanesTypeOK, LanesTyped, Fetch, Store, Watch, Row, Slot, Budget

LEMMA LaneTypesNext == LanesTypeOK' <=> LanesTyped'
BY LaneTypes, PTL

\* A merge of texts is a text.
LEMMA MergedType ==
  ASSUME NEW from \in Text, NEW ours \in Text, NEW theirs \in Text
  PROVE  Merged(from, ours, theirs) \in Text
BY DEF Merged, Text

\* A merge with the side that moved: what the other side did is taken.
LEMMA MergeOfOne ==
  ASSUME NEW from, NEW theirs
  PROVE  Merged(from, from, theirs) = theirs
BY DEF Merged

\* A merge keeps on some lines what a side has that alone has moved there.
LEMMA MergeOnLines ==
  ASSUME NEW lines, NEW from, NEW ours, NEW theirs
  PROVE  /\ from \cap lines = theirs \cap lines => Merged(from, ours, theirs) \cap lines = ours \cap lines
         /\ from \cap lines = ours \cap lines => Merged(from, ours, theirs) \cap lines = theirs \cap lines
         /\ Merged(theirs, ours, theirs) = ours
BY DEF Merged

\* What the budget has after something is spent of it.
LEMMA SpentType ==
  ASSUME LanesTypeOK, NEW what \in {"edits", "writes", "saves", "faults"}, Spent(what),
         budget[what] < CASE what = "edits" -> MaxEdits [] what = "writes" -> MaxWrites
                          [] what = "saves" -> MaxSaves [] OTHER -> MaxFaults
  PROVE  budget' \in Budget
BY LanesAssumption DEF LanesTypeOK, Spent, Budget

-----------------------------------------------------------------------------
LEMMA LanesStart == ASSUME LanesInit PROVE LanesInv
<1>1. LanesTypeOK
  <2>1. buffer \in Row /\ slot \in Slot /\ disk \in Text /\ mirror \in Text /\ replayed \in Text
    BY DEF LanesInit, Row, Slot, Text
  <2>2. watchers \in [Watcher -> Watch]
    BY DEF LanesInit, NoWatcher, Watch
  <2>3. budget \in Budget
    BY LanesAssumption DEF LanesInit, Budget
  <2> QED
    BY <2>1, <2>2, <2>3, LaneTypes DEF LanesInit, LanesTyped
<1>2. HostWatchesAlone /\ CleanIsTheDisk /\ BothSidesShown
  BY DEF LanesInit, HostWatchesAlone, CleanIsTheDisk, BothSidesShown, AtRest, Live
<1>3. LastLaunchedCounts /\ SavesWaitForTheChannel /\ BaselineIsKept
  BY DEF LanesInit, LastLaunchedCounts, SavesWaitForTheChannel, BaselineIsKept, Awaited, WrittenSaves,
         MergesAreOfToday, KnowsTheDisk
<1>4. UserSide /\ AgentSide
  BY DEF LanesInit, UserSide, AgentSide, Awaited, WrittenSaves
<1> QED
  BY <1>1, <1>2, <1>3, <1>4 DEF LanesInv

\* The two properties of a document at rest follow from the rest.
Strength ==
  /\ LanesTypeOK /\ HostWatchesAlone
  /\ LastLaunchedCounts /\ SavesWaitForTheChannel /\ BaselineIsKept
  /\ races = {} => UserSide /\ AgentSide

LEMMA RestIsOwed == Strength => LanesInv
<1> SUFFICES ASSUME Strength PROVE CleanIsTheDisk /\ BothSidesShown
  BY DEF Strength, LanesInv
<1>1. AtRest => mode = "two" /\ ~Behind /\ Awaited = {} /\ WrittenSaves = {}
  BY DEF AtRest, Behind, Awaited, WrittenSaves
<1>2. ASSUME AtRest, "crossed" \notin races PROVE buffer.base = disk
  BY <1>1, <1>2 DEF Strength, BaselineIsKept, KnowsTheDisk
<1>3. CleanIsTheDisk
  BY <1>2 DEF CleanIsTheDisk, Strength, BaselineIsKept
<1>4. ASSUME AtRest, races = {} PROVE buffer.text = typed \cup (disk \cap AgentLine)
  <2>1. buffer.text \cap ClientLine = typed /\ buffer.text \cap AgentLine = disk \cap AgentLine
    BY <1>1, <1>2, <1>4 DEF Strength, UserSide, AgentSide, Live
  <2>2. buffer.text \subseteq ClientLine \cup AgentLine
    BY DEF Strength, LanesTypeOK, Text
  <2> QED
    BY <2>1, <2>2
<1> QED
  BY <1>3, <1>4 DEF BothSidesShown

LEMMA RestIsOwedNext == Strength' => LanesInv'
BY RestIsOwed, PTL

-----------------------------------------------------------------------------
\* The watch lane: it changes what the client is told, and nothing else.

LEMMA WatchersKeep ==
  ASSUME LanesInv, LanesTypeOK', HostWatchesAlone',
         UNCHANGED <<disk, mode, buffer, mirror, fetches, stores, typed, races>>,
         mode = "two" /\ ~Behind' => ~Behind
  PROVE  LanesInv'
<1>1. LastLaunchedCounts' /\ SavesWaitForTheChannel'
  BY DEF LanesInv, LastLaunchedCounts, SavesWaitForTheChannel, Awaited, WrittenSaves
<1>2. Awaited' = Awaited /\ WrittenSaves' = WrittenSaves
  BY DEF Awaited, WrittenSaves
<1>3. KnowsTheDisk => KnowsTheDisk'
  BY <1>2 DEF KnowsTheDisk
<1>4. MergesAreOfToday => MergesAreOfToday'
  BY <1>2 DEF MergesAreOfToday
<1>5. BaselineIsKept'
  BY <1>3, <1>4 DEF LanesInv, BaselineIsKept
<1>6. UserSide /\ AgentSide => UserSide' /\ AgentSide'
  BY <1>2 DEF UserSide, AgentSide, Live
<1> QED
  BY <1>1, <1>5, <1>6, RestIsOwedNext DEF LanesInv, Strength

\* A watcher that is subscribed for is one that there was not.
LEMMA SubscribesType ==
  ASSUME LanesTypeOK, NEW s \in Slot, Subscribes(s)
  PROVE  /\ slot' \in Slot /\ slot'.watch = s.watch /\ slot'.riders = s.riders
         /\ watchers' \in [Watcher -> Watch]
         /\ \A w \in Watcher : /\ watchers'[w].due = watchers[w].due
                               /\ watchers[w].pc \in {"armed", "held"} => watchers'[w] = watchers[w]
<1>1. watchers \in [Watcher -> Watch]
  BY LaneTypes DEF LanesTyped
<1>2. CASE Unwatched(s) /\ \E w \in Watcher : watchers[w].pc = "none"
  <2> DEFINE First(v) == watchers[v].pc = "none" /\ \A u \in 1..(v - 1) : watchers[u].pc # "none"
  <2>1. \E v \in Watcher : First(v)
    BY <1>2 DEF Watcher
  <2>2. PICK w \in Watcher : First(w) /\ slot' = [s EXCEPT !.requested = TRUE]
                             /\ watchers' = [watchers EXCEPT ![w].pc = "asked"]
    BY <1>2, <2>1 DEF Subscribes
  <2>3. slot' \in Slot /\ slot'.watch = s.watch /\ slot'.riders = s.riders
    BY <2>2 DEF Slot
  <2>4. watchers' \in [Watcher -> Watch]
    BY <1>1, <2>2 DEF Watch
  <2>5. \A v \in Watcher : v # w => watchers'[v] = watchers[v]
    BY <1>1, <2>2
  <2>6. watchers'[w].due = watchers[w].due /\ watchers[w].pc = "none"
    BY <1>1, <2>2 DEF Watch
  <2> QED
    BY <2>3, <2>4, <2>5, <2>6
<1>3. CASE ~(Unwatched(s) /\ \E w \in Watcher : watchers[w].pc = "none")
  BY <1>1, <1>3 DEF Subscribes
<1> QED
  BY <1>2, <1>3

\* Who is behind stays so while what tells it stays.
LEMMA BehindStays ==
  ASSUME UNCHANGED <<changed, fetches>>, slot'.riders = slot.riders, missed => missed',
         \A w \in Watcher : watchers[w].due /\ watchers[w].pc \in {"armed", "held"}
                          => watchers'[w].due /\ watchers'[w].pc = watchers[w].pc
  PROVE  Behind => Behind'
<1>1. Awaited' = Awaited
  BY DEF Awaited
<1>2. ASSUME NEW w \in Watcher, watchers[w].due, watchers[w].pc = "armed" \/ Tells(w)
      PROVE  watchers'[w].due /\ (watchers'[w].pc = "armed" \/ Tells(w)')
  BY <1>2 DEF Tells
<1> QED
  BY <1>1, <1>2 DEF Behind

LEMMA SweepKeeps == ASSUME LanesInv, Sweep PROVE LanesInv'
<1>1. LanesTypeOK /\ LanesTyped
  BY LaneTypes DEF LanesInv
<1>2. /\ slot' \in Slot /\ slot'.watch = slot.watch /\ slot'.riders = slot.riders
      /\ watchers' \in [Watcher -> Watch]
      /\ \A w \in Watcher : /\ watchers'[w].due = watchers[w].due
                            /\ watchers[w].pc \in {"armed", "held"} => watchers'[w] = watchers[w]
  BY <1>1, SubscribesType DEF Sweep, LanesTyped
<1>3. LanesTypeOK'
  BY <1>1, <1>2, LaneTypesNext DEF Sweep, history, LanesTyped
<1>4. HostWatchesAlone'
  BY <1>2 DEF Sweep, HostWatchesAlone, LanesInv, Live
<1>5. \A w \in Watcher : watchers[w].due /\ watchers[w].pc \in {"armed", "held"}
                      => watchers'[w].due /\ watchers'[w].pc = watchers[w].pc
  BY <1>2
<1>6. missed' = missed
  BY DEF Sweep, history
<1>7. Behind => Behind'
  BY <1>2, <1>5, <1>6, BehindStays DEF Sweep
<1> QED
  BY <1>3, <1>4, <1>7, WatchersKeep DEF Sweep, history

\* One watcher takes a step.
LEMMA WatcherMoves ==
  ASSUME LanesTyped, NEW w \in Watcher, NEW r \in Watch, watchers' = [watchers EXCEPT ![w] = r]
  PROVE  watchers' \in [Watcher -> Watch] /\ watchers'[w] = r /\ \A v \in Watcher : v # w => watchers'[v] = watchers[v]
BY DEF LanesTyped

LEMMA HostArmsKeeps == ASSUME LanesInv, NEW w \in Watcher, HostArms(w) PROVE LanesInv'
<1>1. LanesTypeOK /\ LanesTyped
  BY LaneTypes DEF LanesInv
<1> DEFINE r == [watchers[w] EXCEPT !.pc = "armed"]
<1>2. r \in Watch /\ r.pc = "armed" /\ r.due = watchers[w].due
  BY <1>1 DEF LanesTyped, Watch
<1>3. watchers' = [watchers EXCEPT ![w] = r]
  BY <1>1 DEF HostArms, WatcherStep, LanesTyped
<1>4. watchers' \in [Watcher -> Watch] /\ watchers'[w] = r /\ \A v \in Watcher : v # w => watchers'[v] = watchers[v]
  BY <1>1, <1>2, <1>3, WatcherMoves
<1>5. LanesTypeOK'
  BY <1>1, <1>4, LaneTypesNext DEF HostArms, row, history, LanesTyped
<1>6. HostWatchesAlone'
  BY DEF HostArms, row, HostWatchesAlone, LanesInv, Live
<1>7. Behind => Behind'
  BY <1>2, <1>4, BehindStays DEF HostArms, WatcherStep, row, history
<1> QED
  BY <1>5, <1>6, <1>7, WatchersKeep DEF HostArms, row, history

\* The slot's new watch; what the old one had to tell is missed.
LEMMA HoldsType ==
  ASSUME LanesTyped, NEW w \in Watcher \cup {0}, Holds(w)
  PROVE  /\ slot' \in Slot /\ missed' \in BOOLEAN /\ (missed => missed')
         /\ w # 0 => w \in slot'.riders
         /\ \A v \in Watcher : v \in slot.riders =>
              v \in slot'.riders \/ (v \notin changed /\ ~watchers[v].due) \/ missed'
<1>1. slot.riders \subseteq Watcher /\ slot.watch \in Watcher \cup {0} /\ slot.requested \in BOOLEAN
  BY DEF LanesTyped, Slot
<1>2. slot' = [slot EXCEPT !.watch = w, !.riders = (slot.riders \ {slot.watch}) \cup ({w} \ {0})]
  BY DEF Holds
<1>3. slot'.riders = (slot.riders \ {slot.watch}) \cup ({w} \ {0})
  BY <1>2 DEF LanesTyped, Slot
<1>4. slot' \in Slot
  BY <1>1, <1>2 DEF LanesTyped, Slot
<1>5. 0 \notin Watcher
  BY DEF Watcher
<1>6. ASSUME slot.watch # 0, slot.watch \in changed \/ watchers[slot.watch].due PROVE missed'
  BY <1>6 DEF Holds
<1>7. missed' \in BOOLEAN /\ (missed => missed')
  BY DEF Holds, LanesTyped
<1> QED
  BY <1>3, <1>4, <1>5, <1>6, <1>7

LEMMA WatchedKeeps == ASSUME LanesInv, NEW w \in Watcher, Watched(w) PROVE LanesInv'
<1>1. LanesTypeOK /\ LanesTyped
  BY LaneTypes DEF LanesInv
<1>2. CASE Live
  <2> DEFINE r == [pc |-> "gone", due |-> FALSE]
  <2>1. r \in Watch
    BY DEF Watch
  <2>2. watchers' \in [Watcher -> Watch]
    BY <1>1, <1>2, <2>1, WatcherMoves DEF Watched
  <2>3. LanesTypeOK'
    BY <1>1, <1>2, <2>2, LaneTypesNext DEF Watched, LanesTyped
  <2>4. HostWatchesAlone'
    BY <1>2 DEF Watched, HostWatchesAlone, LanesInv, Live
  <2> QED
    BY <1>2, <2>3, <2>4, WatchersKeep DEF Watched, Live
<1>3. CASE ~Live
  <2> DEFINE r == [watchers[w] EXCEPT !.pc = "held"]
  <2>1. r \in Watch /\ r.pc = "held" /\ r.due = watchers[w].due
    BY <1>1 DEF LanesTyped, Watch
  <2>2. watchers' = [watchers EXCEPT ![w] = r] /\ Holds(w)
    BY <1>1, <1>3 DEF Watched, LanesTyped
  <2>3. watchers' \in [Watcher -> Watch] /\ watchers'[w] = r /\ \A v \in Watcher : v # w => watchers'[v] = watchers[v]
    BY <1>1, <2>1, <2>2, WatcherMoves
  <2>4. /\ slot' \in Slot /\ missed' \in BOOLEAN /\ (missed => missed')
        /\ w # 0 => w \in slot'.riders
        /\ \A v \in Watcher : v \in slot.riders =>
             v \in slot'.riders \/ (v \notin changed /\ ~watchers[v].due) \/ missed'
    BY <1>1, <2>2, HoldsType
  <2>5. LanesTypeOK'
    BY <1>1, <2>3, <2>4, LaneTypesNext DEF Watched, LanesTyped
  <2>6. HostWatchesAlone'
    BY <1>3 DEF Watched, HostWatchesAlone, Live
  <2>7. ASSUME Behind PROVE Behind'
    <3>1. w # 0 /\ changed' = changed /\ changed \subseteq Watcher
      BY <1>1 DEF Watched, LanesTyped, Watcher
    <3>2. Awaited' = Awaited
      BY DEF Watched, Awaited
    <3>3. CASE missed'
      BY <3>3 DEF Behind
    <3>4. CASE ~missed'
      <4>1. \A v \in Watcher : v \in slot.riders /\ (v \in changed \/ watchers[v].due) => v \in slot'.riders
        BY <2>4, <3>4
      <4>2. ASSUME NEW v \in Watcher, watchers[v].due, watchers[v].pc = "armed" \/ Tells(v)
            PROVE  watchers'[v].due /\ (watchers'[v].pc = "armed" \/ Tells(v)')
        <5>1. CASE v = w
          BY <2>1, <2>3, <2>4, <3>1, <4>2, <5>1 DEF Tells
        <5>2. CASE v # w
          BY <2>3, <4>1, <4>2, <5>2 DEF Tells
        <5> QED
          BY <5>1, <5>2
      <4>3. changed \cap slot.riders # {} => changed' \cap slot'.riders # {}
        BY <3>1, <4>1
      <4>4. ~missed
        BY <2>4, <3>4
      <4> QED
        BY <2>7, <3>2, <4>2, <4>3, <4>4 DEF Behind
    <3> QED
      BY <3>3, <3>4
  <2> QED
    BY <2>5, <2>6, <2>7, WatchersKeep DEF Watched
<1> QED
  BY <1>2, <1>3

LEMMA SubscribeFailsKeeps == ASSUME LanesInv, NEW w \in Watcher, SubscribeFails(w) PROVE LanesInv'
<1>1. LanesTypeOK /\ LanesTyped
  BY LaneTypes DEF LanesInv
<1>2. budget' \in Budget
  BY <1>1, SpentType DEF SubscribeFails
<1> DEFINE r == [watchers[w] EXCEPT !.pc = "gone"]
<1>3. r \in Watch
  BY <1>1 DEF LanesTyped, Watch
<1>4. watchers' = [watchers EXCEPT ![w] = r] /\ watchers[w].pc = "asked"
  BY <1>1 DEF SubscribeFails, WatcherStep, LanesTyped
<1>5. watchers' \in [Watcher -> Watch] /\ watchers'[w] = r /\ \A v \in Watcher : v # w => watchers'[v] = watchers[v]
  BY <1>1, <1>3, <1>4, WatcherMoves
<1>6. CASE Live
  <2>1. LanesTypeOK'
    BY <1>1, <1>2, <1>5, <1>6, LaneTypesNext DEF SubscribeFails, LanesTyped
  <2>2. HostWatchesAlone'
    BY <1>6 DEF SubscribeFails, HostWatchesAlone, LanesInv, Live
  <2> QED
    BY <1>6, <2>1, <2>2, WatchersKeep DEF SubscribeFails, Live
<1>7. CASE ~Live
  <2>1. Holds(0)
    BY <1>7 DEF SubscribeFails
  <2>2. /\ slot' \in Slot /\ missed' \in BOOLEAN /\ (missed => missed')
        /\ \A v \in Watcher : v \in slot.riders =>
             v \in slot'.riders \/ (v \notin changed /\ ~watchers[v].due) \/ missed'
    BY <1>1, <2>1, HoldsType
  <2>3. LanesTypeOK'
    BY <1>1, <1>2, <1>5, <2>2, LaneTypesNext DEF SubscribeFails, LanesTyped
  <2>4. HostWatchesAlone'
    BY <1>7 DEF SubscribeFails, HostWatchesAlone, Live
  <2>5. ASSUME Behind PROVE Behind'
    <3>1. changed' = changed /\ changed \subseteq Watcher /\ Awaited' = Awaited
      BY <1>1 DEF SubscribeFails, LanesTyped, Awaited
    <3>2. CASE missed'
      BY <3>2 DEF Behind
    <3>3. CASE ~missed'
      <4>1. \A v \in Watcher : v \in slot.riders /\ (v \in changed \/ watchers[v].due) => v \in slot'.riders
        BY <2>2, <3>3
      <4>2. ASSUME NEW v \in Watcher, watchers[v].due, watchers[v].pc = "armed" \/ Tells(v)
            PROVE  watchers'[v].due /\ (watchers'[v].pc = "armed" \/ Tells(v)')
        <5>1. v # w
          BY <1>4, <4>2 DEF Tells
        <5> QED
          BY <1>5, <4>1, <4>2, <5>1 DEF Tells
      <4>3. changed \cap slot.riders # {} => changed' \cap slot'.riders # {}
        BY <3>1, <4>1
      <4>4. ~missed
        BY <2>2, <3>3
      <4> QED
        BY <2>5, <3>1, <4>2, <4>3, <4>4 DEF Behind
    <3> QED
      BY <3>2, <3>3
  <2> QED
    BY <2>3, <2>4, <2>5, WatchersKeep DEF SubscribeFails
<1> QED
  BY <1>6, <1>7

LEMMA WatchFiresKeeps == ASSUME LanesInv, NEW w \in Watcher, WatchFires(w) PROVE LanesInv'
<1>1. LanesTypeOK /\ LanesTyped
  BY LaneTypes DEF LanesInv
<1> DEFINE r == [watchers[w] EXCEPT !.due = FALSE]
<1>2. r \in Watch /\ r.pc = watchers[w].pc
  BY <1>1 DEF LanesTyped, Watch
<1>3. watchers' = [watchers EXCEPT ![w] = r]
  BY <1>1 DEF WatchFires, LanesTyped
<1>4. watchers' \in [Watcher -> Watch] /\ watchers'[w] = r /\ \A v \in Watcher : v # w => watchers'[v] = watchers[v]
  BY <1>1, <1>2, <1>3, WatcherMoves
<1>5. changed' \subseteq Watcher /\ changed \subseteq changed' /\ missed' \in BOOLEAN /\ (missed => missed')
  BY <1>1 DEF WatchFires, LanesTyped
<1>6. LanesTypeOK'
  BY <1>1, <1>4, <1>5, LaneTypesNext DEF WatchFires, row, LanesTyped
<1>7. HostWatchesAlone'
  BY DEF WatchFires, row, HostWatchesAlone, LanesInv, Live
<1>8. ASSUME Behind, mode = "two" PROVE Behind'
  <2>1. slot' = slot /\ Awaited' = Awaited
    BY DEF WatchFires, row, Awaited
  <2>2. changed \cap slot.riders # {} => changed' \cap slot'.riders # {}
    BY <1>5, <2>1
  <2>3. ASSUME NEW v \in Watcher, watchers[v].due, watchers[v].pc = "armed" \/ Tells(v)
        PROVE  Behind'
    <3>1. CASE v # w
      <4>1. watchers'[v].due /\ (watchers'[v].pc = "armed" \/ Tells(v)')
        BY <1>4, <2>1, <2>3, <3>1 DEF Tells
      <4> QED
        BY <4>1 DEF Behind
    <3>2. CASE v = w /\ watchers[w].pc = "armed"
      <4>1. missed'
        BY <1>8, <3>2 DEF WatchFires, Live
      <4> QED
        BY <4>1 DEF Behind
    <3>3. CASE v = w /\ watchers[w].pc # "armed"
      <4>1. w \in changed' \cap slot'.riders
        BY <2>1, <2>3, <3>3 DEF WatchFires, Tells
      <4> QED
        BY <4>1 DEF Behind
    <3> QED
      BY <3>1, <3>2, <3>3
  <2>4. missed => Behind'
    BY <1>5 DEF Behind
  <2>5. (\E f \in Awaited : f.pc = "asked") => Behind'
    BY <2>1 DEF Behind
  <2>6. changed \cap slot.riders # {} => Behind'
    BY <2>2 DEF Behind
  <2> QED
    BY <1>8, <2>3, <2>4, <2>5, <2>6 DEF Behind
<1> QED
  BY <1>6, <1>7, <1>8, WatchersKeep DEF WatchFires, row

-----------------------------------------------------------------------------
\* The disk: a write is heard of, or missed.

LEMMA WriteIsHeardOf ==
  ASSUME LanesTyped, NEW text \in Text, Written(text), UNCHANGED <<mode, slot>>
  PROVE  /\ disk' = text /\ watchers' \in [Watcher -> Watch] /\ missed' \in BOOLEAN
         /\ mode = "two" => Behind'
<1>1. watchers' = [w \in Watcher |->
         IF watchers[w].pc \in {"armed", "held"} THEN [watchers[w] EXCEPT !.due = TRUE] ELSE watchers[w]]
  BY DEF Written
<1>2. \A w \in Watcher : [watchers[w] EXCEPT !.due = TRUE] \in Watch /\ watchers[w] \in Watch
  BY DEF LanesTyped, Watch
<1>3. watchers' \in [Watcher -> Watch]
  BY <1>1, <1>2
<1>4. ASSUME mode = "two" PROVE Behind'
  <2>1. CASE \E w \in Watcher : watchers[w].pc = "armed" \/ Tells(w)
    <3>1. PICK w \in Watcher : watchers[w].pc = "armed" \/ Tells(w)
      BY <2>1
    <3>2. watchers'[w] = [watchers[w] EXCEPT !.due = TRUE]
      BY <1>1, <3>1 DEF Tells
    <3>3. watchers'[w].due /\ watchers'[w].pc = watchers[w].pc
      BY <3>2 DEF LanesTyped, Watch
    <3>4. watchers'[w].pc = "armed" \/ Tells(w)'
      BY <3>1, <3>3 DEF Tells
    <3> QED
      BY <3>3, <3>4 DEF Behind
  <2>2. CASE ~ \E w \in Watcher : watchers[w].pc = "armed" \/ Tells(w)
    <3>1. missed'
      BY <1>4, <2>2 DEF Written, Live
    <3> QED
      BY <3>1 DEF Behind
  <2> QED
    BY <2>1, <2>2
<1> QED
  BY <1>3, <1>4 DEF Written, LanesTyped

LEMMA AgentWritesKeeps == ASSUME LanesInv, NEW line \in AgentLine, AgentWrites(line) PROVE LanesInv'
<1>1. LanesTypeOK /\ LanesTyped
  BY LaneTypes DEF LanesInv
<1>2. budget' \in Budget
  BY <1>1, SpentType DEF AgentWrites
<1>3. Flip(disk, line) \in Text
  BY <1>1 DEF Flip, LanesTyped, Text
<1>4. /\ disk' = Flip(disk, line) /\ watchers' \in [Watcher -> Watch] /\ missed' \in BOOLEAN
      /\ mode = "two" => Behind'
  BY <1>1, <1>3, WriteIsHeardOf DEF AgentWrites
<1>5. disk' \cap ClientLine = disk \cap ClientLine /\ (disk \subseteq AgentLine => disk' \subseteq AgentLine)
  BY <1>4, LanesAssumption DEF Flip
<1>6. LanesTypeOK'
  BY <1>1, <1>2, <1>3, <1>4, LaneTypesNext DEF AgentWrites, LanesTyped
<1>7. Awaited' = Awaited /\ WrittenSaves' = WrittenSaves
  BY DEF Awaited, WrittenSaves, AgentWrites
<1>8. HostWatchesAlone' /\ LastLaunchedCounts' /\ SavesWaitForTheChannel'
  BY <1>5, <1>7 DEF AgentWrites, LanesInv, HostWatchesAlone, Live, LastLaunchedCounts, SavesWaitForTheChannel
<1>9. BaselineIsKept'
  BY <1>4, <1>7 DEF AgentWrites, LanesInv, BaselineIsKept, MergesAreOfToday, KnowsTheDisk
<1>10. races' = {} => UserSide' /\ AgentSide'
  BY <1>5, <1>7 DEF AgentWrites, LanesInv, UserSide, AgentSide, Live
<1> QED
  BY <1>6, <1>8, <1>9, <1>10, RestIsOwedNext DEF Strength

-----------------------------------------------------------------------------
\* The buffer moves: the tasks under way stay what they are, but stale.

Stale(tasks) == {[x EXCEPT !.fresh = FALSE] : x \in tasks}

LEMMA StaleFetches ==
  ASSUME NEW S \in SUBSET Fetch
  PROVE  /\ Stale(S) \subseteq Fetch
         /\ \A g \in Stale(S) : \E f \in S :
              /\ g = [f EXCEPT !.fresh = FALSE] /\ ~g.fresh
              /\ g.current = f.current /\ g.pc = f.pc /\ g.got = f.got /\ g.old = f.old
         /\ \A f \in S : \E g \in Stale(S) :
              g.current = f.current /\ g.pc = f.pc /\ g.got = f.got /\ g.old = f.old
<1>1. \A f \in S : LET g == [f EXCEPT !.fresh = FALSE] IN
        /\ g \in Fetch /\ ~g.fresh
        /\ g.current = f.current /\ g.pc = f.pc /\ g.got = f.got /\ g.old = f.old
  BY DEF Fetch
<1> QED
  BY <1>1 DEF Stale

LEMMA StaleStores ==
  ASSUME NEW S \in SUBSET Store
  PROVE  /\ Stale(S) \subseteq Store
         /\ \A t \in Stale(S) : \E s \in S :
              /\ t = [s EXCEPT !.fresh = FALSE] /\ ~t.fresh
              /\ t.pc = s.pc /\ t.text = s.text /\ t.cancelled = s.cancelled
         /\ \A s \in S : \E t \in Stale(S) : t.pc = s.pc /\ t.text = s.text /\ t.cancelled = s.cancelled
<1>1. \A s \in S : LET t == [s EXCEPT !.fresh = FALSE] IN
        t \in Store /\ ~t.fresh /\ t.pc = s.pc /\ t.text = s.text /\ t.cancelled = s.cancelled
  BY DEF Store
<1> QED
  BY <1>1 DEF Stale

LEMMA MovesTasks ==
  ASSUME LanesInv, NEW r \in Row, Moves(r)
  PROVE  /\ buffer' \in Row /\ buffer'.text = r.text /\ buffer'.base = r.base /\ ~buffer'.saved
         /\ fetches' \subseteq Fetch /\ stores' \subseteq Store
         /\ \A g \in Awaited' : ~g.fresh /\ \E f \in Awaited : g.pc = f.pc /\ g.got = f.got /\ g.old = f.old
         /\ \A f \in Awaited : \E g \in Awaited' : g.pc = f.pc
         /\ \A t \in WrittenSaves' : \E s \in WrittenSaves : t.text = s.text /\ t.cancelled = s.cancelled
         /\ WrittenSaves' = {} => WrittenSaves = {}
         /\ LastLaunchedCounts' /\ MergesAreOfToday'
<1>1. LanesTyped
  BY LaneTypes DEF LanesInv
<1>2. buffer' \in Row /\ buffer'.text = r.text /\ buffer'.base = r.base /\ ~buffer'.saved
  BY DEF Moves, Row
<1>3. fetches' = Stale(fetches) /\ stores' = Stale(stores) /\ fetches \subseteq Fetch /\ stores \subseteq Store
  BY <1>1 DEF Moves, Stale, LanesTyped
<1>4. /\ fetches' \subseteq Fetch
      /\ \A g \in fetches' : \E f \in fetches :
           /\ g = [f EXCEPT !.fresh = FALSE] /\ ~g.fresh
           /\ g.current = f.current /\ g.pc = f.pc /\ g.got = f.got /\ g.old = f.old
      /\ \A f \in fetches : \E g \in fetches' :
           g.current = f.current /\ g.pc = f.pc /\ g.got = f.got /\ g.old = f.old
  BY <1>3, StaleFetches
<1>5. /\ stores' \subseteq Store
      /\ \A t \in stores' : \E s \in stores :
           /\ t = [s EXCEPT !.fresh = FALSE] /\ ~t.fresh
           /\ t.pc = s.pc /\ t.text = s.text /\ t.cancelled = s.cancelled
      /\ \A s \in stores : \E t \in stores' : t.pc = s.pc /\ t.text = s.text /\ t.cancelled = s.cancelled
  BY <1>3, StaleStores
<1>6. \A g \in Awaited' : \E f \in Awaited :
        g = [f EXCEPT !.fresh = FALSE] /\ ~g.fresh /\ g.pc = f.pc /\ g.got = f.got /\ g.old = f.old
  BY <1>4 DEF Awaited
<1>7. \A f \in Awaited : \E g \in Awaited' : g.pc = f.pc
  BY <1>4 DEF Awaited
<1>8. /\ \A t \in WrittenSaves' : \E s \in WrittenSaves : t.text = s.text /\ t.cancelled = s.cancelled
      /\ WrittenSaves' = {} => WrittenSaves = {}
  BY <1>5 DEF WrittenSaves
<1>9. LastLaunchedCounts'
  <2>1. ASSUME NEW f \in Awaited', NEW g \in Awaited' PROVE f = g
    <3>1. PICK f0 \in Awaited : f = [f0 EXCEPT !.fresh = FALSE]
      BY <1>6, <2>1
    <3>2. PICK g0 \in Awaited : g = [g0 EXCEPT !.fresh = FALSE]
      BY <1>6, <2>1
    <3>3. f0 = g0
      BY DEF LanesInv, LastLaunchedCounts
    <3> QED
      BY <3>1, <3>2, <3>3
  <2>2. ASSUME NEW s \in stores', NEW t \in stores', ~s.cancelled, ~t.cancelled PROVE s = t
    <3>1. PICK s0 \in stores : s = [s0 EXCEPT !.fresh = FALSE] /\ s.cancelled = s0.cancelled
      BY <1>5, <2>2
    <3>2. PICK t0 \in stores : t = [t0 EXCEPT !.fresh = FALSE] /\ t.cancelled = t0.cancelled
      BY <1>5, <2>2
    <3>3. ~s0.cancelled /\ ~t0.cancelled
      BY <2>2, <3>1, <3>2
    <3>4. s0 = t0
      BY <3>3 DEF LanesInv, LastLaunchedCounts
    <3> QED
      BY <3>1, <3>2, <3>4
  <2> QED
    BY <1>5, <2>1, <2>2 DEF LastLaunchedCounts
<1>10. MergesAreOfToday'
  BY <1>6 DEF MergesAreOfToday
<1> QED
  BY <1>2, <1>4, <1>5, <1>6, <1>7, <1>8, <1>9, <1>10

\* What is shown changes, or is what it was: the tasks under way are what they were.
LEMMA ShowsTasks ==
  ASSUME LanesInv, NEW text \in Text, Shows(text)
  PROVE  /\ buffer' \in Row /\ buffer'.text = text /\ buffer'.base = buffer.base
         /\ fetches' \subseteq Fetch /\ stores' \subseteq Store
         /\ \A g \in Awaited' : \E f \in Awaited : g.pc = f.pc /\ g.got = f.got /\ g.old = f.old
         /\ \A t \in WrittenSaves' : \E s \in WrittenSaves : t.text = s.text /\ t.cancelled = s.cancelled
         /\ WrittenSaves' = {} => WrittenSaves = {}
         /\ LastLaunchedCounts'
         /\ "crossed" \notin races => (buffer'.saved => buffer'.text = buffer'.base) /\ MergesAreOfToday'
<1>1. LanesTyped
  BY LaneTypes DEF LanesInv
<1>2. CASE Moves([buffer EXCEPT !.text = text])
  <2> DEFINE r == [buffer EXCEPT !.text = text]
  <2>1. r \in Row /\ r.text = text /\ r.base = buffer.base
    BY <1>1 DEF LanesTyped, Row
  <2>2. Moves(r)
    BY <1>2
  <2> HIDE DEF r
  <2> QED
    BY <2>1, <2>2, MovesTasks
<1>3. CASE text = buffer.text /\ UNCHANGED <<buffer, fetches, stores>>
  <2>1. Awaited' = Awaited /\ WrittenSaves' = WrittenSaves
    BY <1>3 DEF Awaited, WrittenSaves
  <2>2. LastLaunchedCounts'
    BY <1>3, <2>1 DEF LanesInv, LastLaunchedCounts
  <2>3. "crossed" \notin races => (buffer'.saved => buffer'.text = buffer'.base) /\ MergesAreOfToday'
    BY <1>3, <2>1 DEF LanesInv, BaselineIsKept, MergesAreOfToday
  <2> QED
    BY <1>1, <1>3, <2>1, <2>2, <2>3 DEF LanesTyped
<1> QED
  BY <1>2, <1>3 DEF Shows

LEMMA HostReloadsKeeps == ASSUME LanesInv, HostReloads PROVE LanesInv'
<1>1. LanesTypeOK /\ LanesTyped
  BY LaneTypes DEF LanesInv
<1> DEFINE text == (mirror \ AgentLine) \cup (disk \cap AgentLine)
<1>2. text \in Text /\ mirror' = text
  BY <1>1 DEF HostReloads, LanesTyped, Text
<1>3. Shows(text) /\ Live
  BY DEF HostReloads
<1>4. text \cap ClientLine = mirror \cap ClientLine
  BY LanesAssumption
<1> HIDE DEF text
<1>5. /\ buffer' \in Row /\ buffer'.text = text /\ buffer'.base = buffer.base
      /\ fetches' \subseteq Fetch /\ stores' \subseteq Store
      /\ \A g \in Awaited' : \E f \in Awaited : g.pc = f.pc /\ g.got = f.got /\ g.old = f.old
      /\ \A t \in WrittenSaves' : \E s \in WrittenSaves : t.text = s.text /\ t.cancelled = s.cancelled
      /\ WrittenSaves' = {} => WrittenSaves = {}
      /\ LastLaunchedCounts'
      /\ "crossed" \notin races => (buffer'.saved => buffer'.text = buffer'.base) /\ MergesAreOfToday'
  BY <1>2, <1>3, ShowsTasks
<1>6. LanesTypeOK'
  BY <1>1, <1>2, <1>5, LaneTypesNext DEF HostReloads, history, LanesTyped
<1>7. HostWatchesAlone' /\ SavesWaitForTheChannel'
  BY <1>3 DEF HostReloads, LanesInv, HostWatchesAlone, Live, SavesWaitForTheChannel
<1>8. BaselineIsKept'
  BY <1>3, <1>5 DEF HostReloads, history, BaselineIsKept, KnowsTheDisk, Live
<1>9. races' = {} => UserSide' /\ AgentSide'
  BY <1>2, <1>3, <1>4, <1>5 DEF HostReloads, history, LanesInv, UserSide, AgentSide, Live
<1> QED
  BY <1>5, <1>6, <1>7, <1>8, <1>9, RestIsOwedNext DEF Strength

LEMMA HappenedType ==
  ASSUME LanesTyped, NEW race \in Races, NEW when, Happened(race, when)
  PROVE  /\ races' \subseteq Races /\ races \subseteq races'
         /\ race \notin races' => ~when
         /\ races' = {} => ~when /\ races = {}
BY DEF Happened, LanesTyped

LEMMA TypeKeeps == ASSUME LanesInv, NEW line \in ClientLine, Type(line) PROVE LanesInv'
<1>1. LanesTypeOK /\ LanesTyped
  BY LaneTypes DEF LanesInv
<1> DEFINE r == [buffer EXCEPT !.text = Flip(buffer.text, line)]
<1>2. r \in Row /\ r.text = Flip(buffer.text, line) /\ r.base = buffer.base
  BY <1>1 DEF LanesTyped, Row, Text, Flip
<1>3. Moves(r)
  BY <1>1 DEF Type, LanesTyped, Row
<1> HIDE DEF r
<1>4. /\ buffer' \in Row /\ buffer'.text = r.text /\ buffer'.base = r.base /\ ~buffer'.saved
      /\ fetches' \subseteq Fetch /\ stores' \subseteq Store
      /\ \A g \in Awaited' : ~g.fresh /\ \E f \in Awaited : g.pc = f.pc /\ g.got = f.got /\ g.old = f.old
      /\ \A f \in Awaited : \E g \in Awaited' : g.pc = f.pc
      /\ \A t \in WrittenSaves' : \E s \in WrittenSaves : t.text = s.text /\ t.cancelled = s.cancelled
      /\ WrittenSaves' = {} => WrittenSaves = {}
      /\ LastLaunchedCounts' /\ MergesAreOfToday'
  BY <1>2, <1>3, MovesTasks
<1>5. budget' \in Budget
  BY <1>1, SpentType DEF Type
<1>6. typed' = (typed \ {line}) \cup (buffer'.text \cap {line}) /\ typed' \subseteq ClientLine
  BY <1>1 DEF Type, LanesTyped
<1>7. /\ races' \subseteq Races /\ races \subseteq races'
      /\ races' = {} => ~(Live /\ line \in mirror \ buffer.text) /\ races = {}
  BY <1>1, HappenedType DEF Type, Races
<1>8. mirror' = (IF Live THEN (mirror \ {line}) \cup (buffer'.text \cap {line}) ELSE mirror) /\ mirror' \in Text
  BY <1>1 DEF Type, LanesTyped, Text
<1>9. LanesTypeOK'
  BY <1>1, <1>4, <1>5, <1>6, <1>7, <1>8, LaneTypesNext DEF Type, Happened, LanesTyped
<1>10. HostWatchesAlone'
  BY DEF Type, LanesInv, HostWatchesAlone, Live
<1>11. SavesWaitForTheChannel'
  BY <1>4 DEF Type, LanesInv, SavesWaitForTheChannel
<1>12. Behind => Behind'
  BY <1>4 DEF Type, Behind, Tells
<1>13. KnowsTheDisk => KnowsTheDisk'
  BY <1>2, <1>4, <1>12 DEF Type, KnowsTheDisk
<1>14. BaselineIsKept'
  BY <1>4, <1>7, <1>13 DEF Type, Happened, LanesInv, BaselineIsKept
<1>15. /\ buffer'.text \cap AgentLine = buffer.text \cap AgentLine
       /\ buffer.text \cap ClientLine = typed => buffer'.text \cap ClientLine = typed'
       /\ Live /\ mirror \cap ClientLine = typed => mirror' \cap ClientLine = typed'
  BY <1>1, <1>2, <1>4, <1>6, <1>8, LanesAssumption DEF Flip, LanesTyped
<1>16. races' = {} => UserSide' /\ AgentSide'
  <2>1. ASSUME races' = {} PROVE (IF Live THEN mirror ELSE buffer.text)' \cap ClientLine = typed'
    BY <1>7, <1>15, <2>1 DEF Type, Happened, LanesInv, UserSide, Live
  <2> QED
    BY <1>2, <1>4, <1>7, <1>15, <2>1 DEF Type, Happened, LanesInv, UserSide, AgentSide, Live
<1> QED
  BY <1>4, <1>9, <1>10, <1>11, <1>14, <1>16, RestIsOwedNext DEF Strength

LEMMA GoLiveKeeps == ASSUME LanesInv, GoLive PROVE LanesInv'
<1>1. LanesTypeOK /\ LanesTyped
  BY LaneTypes DEF LanesInv
<1>2. PICK text \in Text : Shows(text)
  <2>1. CASE disk = AtOpen
    BY <1>1, <2>1 DEF GoLive, Shows, LanesTyped, Row
  <2>2. CASE disk # AtOpen
    BY <1>1, <2>2 DEF GoLive, LanesTyped
  <2> QED
    BY <2>1, <2>2
<1>3. mirror' = buffer.text \cup disk /\ mirror' \in Text
  BY <1>1 DEF GoLive, Merged, AtOpen, LanesTyped, Row, Text
<1>4. /\ buffer' \in Row /\ buffer'.text = text /\ buffer'.base = buffer.base
      /\ fetches' \subseteq Fetch /\ stores' \subseteq Store
      /\ \A g \in Awaited' : \E f \in Awaited : g.pc = f.pc /\ g.got = f.got /\ g.old = f.old
      /\ \A t \in WrittenSaves' : \E s \in WrittenSaves : t.text = s.text /\ t.cancelled = s.cancelled
      /\ WrittenSaves' = {} => WrittenSaves = {}
      /\ LastLaunchedCounts'
      /\ "crossed" \notin races => (buffer'.saved => buffer'.text = buffer'.base) /\ MergesAreOfToday'
  BY <1>2, ShowsTasks
<1>5. slot' \in Slot /\ slot'.watch = 0
  BY <1>1 DEF GoLive, LanesTyped, Slot
<1>6. watchers' \in [Watcher -> Watch]
  BY <1>1 DEF GoLive, LanesTyped, Slot, Watch
<1>7. races' \subseteq Races /\ replayed' \in Text /\ races \subseteq races'
  BY <1>1 DEF GoLive, Happened, LanesTyped, Races, Text
<1>8. LanesTypeOK'
  BY <1>1, <1>3, <1>4, <1>5, <1>6, <1>7, LaneTypesNext DEF GoLive, LanesTyped
<1>9. HostWatchesAlone' /\ SavesWaitForTheChannel'
  BY <1>5 DEF GoLive, HostWatchesAlone, SavesWaitForTheChannel
<1>10. BaselineIsKept'
  BY <1>4, <1>7 DEF GoLive, BaselineIsKept, KnowsTheDisk
<1>11. mode = "connecting" /\ disk \subseteq AgentLine
  BY DEF GoLive, LanesInv, SavesWaitForTheChannel
<1>12. mirror' \cap ClientLine = buffer.text \cap ClientLine
  BY <1>3, <1>11, LanesAssumption
<1>13. races' = {} => UserSide' /\ AgentSide'
  BY <1>4, <1>7, <1>11, <1>12 DEF GoLive, LanesInv, UserSide, AgentSide, Live
<1> QED
  BY <1>4, <1>8, <1>9, <1>10, <1>13, RestIsOwedNext DEF Strength

-----------------------------------------------------------------------------
\* The save lane.

\* A save that ends without landing: the rest is as it was.
LEMMA SavesEndKeeps ==
  ASSUME LanesInv, NEW s \in stores, s.pc = "asked", stores' = stores \ {s}, budget' \in Budget,
         UNCHANGED <<row, watchers, changed, fetches, history>>
  PROVE  LanesInv'
<1>1. LanesTypeOK /\ LanesTyped
  BY LaneTypes DEF LanesInv
<1>2. LanesTypeOK'
  BY <1>1, LaneTypesNext DEF row, history, LanesTyped
<1>3. Awaited' = Awaited /\ WrittenSaves' = WrittenSaves
  BY DEF Awaited, WrittenSaves
<1>4. HostWatchesAlone' /\ LastLaunchedCounts' /\ SavesWaitForTheChannel'
  BY <1>3 DEF row, history, LanesInv, HostWatchesAlone, Live, LastLaunchedCounts, SavesWaitForTheChannel
<1>5. Behind => Behind'
  BY BehindStays DEF row, history
<1>6. KnowsTheDisk => KnowsTheDisk'
  BY <1>3, <1>5 DEF row, KnowsTheDisk
<1>7. BaselineIsKept'
  BY <1>3, <1>6 DEF row, history, LanesInv, BaselineIsKept, MergesAreOfToday
<1>8. races' = {} => UserSide' /\ AgentSide'
  BY <1>3 DEF row, history, LanesInv, UserSide, AgentSide, Live
<1> QED
  BY <1>2, <1>4, <1>7, <1>8, RestIsOwedNext DEF Strength

LEMMA StoreEndsKeeps == ASSUME LanesInv, NEW s \in stores, StoreEnds(s) PROVE LanesInv'
<1>1. LanesTypeOK /\ LanesTyped
  BY LaneTypes DEF LanesInv
<1>2. budget' \in Budget
  <2>1. CASE UNCHANGED budget
    BY <1>1, <2>1 DEF LanesTyped
  <2>2. CASE budget.faults < MaxFaults /\ Spent("faults")
    BY <1>1, <2>2, SpentType
  <2> QED
    BY <2>1, <2>2 DEF StoreEnds
<1> QED
  BY <1>2, SavesEndKeeps DEF StoreEnds

\* A new save makes the others superseded.
Superseded(tasks) == {[s EXCEPT !.cancelled = TRUE] : s \in tasks}

LEMMA SupersededStores ==
  ASSUME NEW S \in SUBSET Store
  PROVE  /\ Superseded(S) \subseteq Store
         /\ \A t \in Superseded(S) : t.cancelled /\ \E s \in S : t.pc = s.pc /\ t.text = s.text /\ t.fresh = s.fresh
         /\ \A s \in S : \E t \in Superseded(S) : t.pc = s.pc
<1>1. \A s \in S : LET t == [s EXCEPT !.cancelled = TRUE] IN
        t \in Store /\ t.cancelled /\ t.pc = s.pc /\ t.text = s.text /\ t.fresh = s.fresh
  BY DEF Store
<1> QED
  BY <1>1 DEF Superseded

LEMMA PressSaveKeeps == ASSUME LanesInv, PressSave PROVE LanesInv'
<1>1. LanesTypeOK /\ LanesTyped
  BY LaneTypes DEF LanesInv
<1>2. budget' \in Budget
  BY <1>1, SpentType DEF PressSave
<1> DEFINE new == [n |-> budget.saves + 1, pc |-> "asked", text |-> buffer.text, fresh |-> TRUE, cancelled |-> FALSE]
<1>3. new \in Store /\ new.pc = "asked" /\ new.text = buffer.text
  BY <1>1, LanesAssumption DEF PressSave, LanesTyped, Store, Row, Budget
<1>4. stores' = Superseded(stores) \cup {new} /\ stores \subseteq Store
  BY <1>1 DEF PressSave, Superseded, LanesTyped
<1>5. /\ Superseded(stores) \subseteq Store
      /\ \A t \in Superseded(stores) : t.cancelled /\ \E s \in stores : t.pc = s.pc /\ t.text = s.text /\ t.fresh = s.fresh
      /\ \A s \in stores : \E t \in Superseded(stores) : t.pc = s.pc
  BY <1>4, SupersededStores
<1> HIDE DEF new
<1>6. races' \subseteq Races /\ races \subseteq races' /\ (races' = {} => WrittenSaves = {} /\ races = {})
  BY <1>1, HappenedType DEF PressSave, Races, WrittenSaves
<1>7. LanesTypeOK'
  BY <1>1, <1>2, <1>3, <1>4, <1>5, <1>6, LaneTypesNext DEF PressSave, row, LanesTyped
<1>8. Awaited' = Awaited
  BY DEF Awaited, PressSave
<1>9. /\ \A t \in WrittenSaves' : \E s \in WrittenSaves : t.text = s.text
      /\ WrittenSaves' = {} => WrittenSaves = {}
      /\ WrittenSaves = {} => WrittenSaves' = {}
  BY <1>3, <1>4, <1>5 DEF WrittenSaves
<1>10. LastLaunchedCounts'
  BY <1>3, <1>4, <1>5, <1>8 DEF PressSave, row, LanesInv, LastLaunchedCounts
<1>11. HostWatchesAlone' /\ SavesWaitForTheChannel'
  BY <1>9 DEF PressSave, row, LanesInv, HostWatchesAlone, Live, SavesWaitForTheChannel
<1>12. Behind => Behind'
  BY BehindStays DEF PressSave, row
<1>13. KnowsTheDisk => KnowsTheDisk'
  BY <1>8, <1>9, <1>12 DEF PressSave, row, KnowsTheDisk
<1>14. MergesAreOfToday => MergesAreOfToday'
  BY <1>8, <1>9 DEF PressSave, row, MergesAreOfToday
<1>15. BaselineIsKept'
  BY <1>6, <1>13, <1>14 DEF PressSave, row, LanesInv, BaselineIsKept
<1>16. races' = {} => UserSide' /\ AgentSide'
  BY <1>6, <1>8, <1>9 DEF PressSave, row, LanesInv, UserSide, AgentSide, Live
<1> QED
  BY <1>7, <1>10, <1>11, <1>15, <1>16, RestIsOwedNext DEF Strength

\* A write to the disk makes what has been read of it old.
Outdated(tasks) == {[f EXCEPT !.old = f.pc # "asked"] : f \in tasks}

LEMMA OutdatedFetches ==
  ASSUME NEW S \in SUBSET Fetch
  PROVE  /\ Outdated(S) \subseteq Fetch
         /\ \A g \in Outdated(S) : \E f \in S :
              /\ g = [f EXCEPT !.old = f.pc # "asked"] /\ (g.pc # "asked" => g.old)
              /\ g.current = f.current /\ g.pc = f.pc
<1>1. \A f \in S : LET g == [f EXCEPT !.old = f.pc # "asked"] IN
        g \in Fetch /\ (g.pc # "asked" => g.old) /\ g.current = f.current /\ g.pc = f.pc
  BY DEF Fetch
<1> QED
  BY <1>1 DEF Outdated

LEMMA StoreWritesKeeps == ASSUME LanesInv, NEW s \in stores, StoreWrites(s) PROVE LanesInv'
<1>1. LanesTypeOK /\ LanesTyped
  BY LaneTypes DEF LanesInv
<1> DEFINE text == IF Live THEN mirror ELSE s.text
           done == [s EXCEPT !.pc = "written"]
<1>2. done \in Store /\ done.pc = "written" /\ done.text = s.text /\ done.cancelled = s.cancelled /\ done.fresh = s.fresh
  BY <1>1 DEF LanesTyped, Store
<1>3. text \in Text
  BY <1>1 DEF LanesTyped, Store, Row
<1>4. /\ disk' = text /\ watchers' \in [Watcher -> Watch] /\ missed' \in BOOLEAN
      /\ mode = "two" => Behind'
  BY <1>1, <1>3, WriteIsHeardOf DEF StoreWrites
<1>5. stores' = (stores \ {s}) \cup {done} /\ s.pc = "asked"
  BY DEF StoreWrites
<1>6. fetches' = Outdated(fetches) /\ fetches \subseteq Fetch
  BY <1>1 DEF StoreWrites, Outdated, LanesTyped
<1>7. /\ fetches' \subseteq Fetch
      /\ \A g \in fetches' : \E f \in fetches :
           /\ g = [f EXCEPT !.old = f.pc # "asked"] /\ (g.pc # "asked" => g.old)
           /\ g.current = f.current /\ g.pc = f.pc
  BY <1>6, OutdatedFetches
<1>8. races' \subseteq Races /\ races \subseteq races' /\ (races' = {} => ~s.cancelled /\ ~Older(s) /\ races = {})
  BY <1>1, HappenedType DEF StoreWrites, Races
<1> HIDE DEF done
<1>9. LanesTypeOK'
  BY <1>1, <1>2, <1>3, <1>4, <1>5, <1>7, <1>8, LaneTypesNext DEF StoreWrites, LanesTyped
<1>10. \A g \in Awaited' : \E f \in Awaited : g = [f EXCEPT !.old = f.pc # "asked"] /\ (g.pc # "asked" => g.old)
  BY <1>7 DEF Awaited
<1>11. LastLaunchedCounts'
  <2>1. ASSUME NEW f \in Awaited', NEW g \in Awaited' PROVE f = g
    <3>1. PICK f0 \in Awaited : f = [f0 EXCEPT !.old = f0.pc # "asked"]
      BY <1>10, <2>1
    <3>2. PICK g0 \in Awaited : g = [g0 EXCEPT !.old = g0.pc # "asked"]
      BY <1>10, <2>1
    <3>3. f0 = g0
      BY DEF LanesInv, LastLaunchedCounts
    <3> QED
      BY <3>1, <3>2, <3>3
  <2>2. \A t, u \in stores' : ~t.cancelled /\ ~u.cancelled => t = u
    BY <1>2, <1>5 DEF LanesInv, LastLaunchedCounts
  <2>3. \A t \in stores' : t.fresh => t.text = buffer'.text
    BY <1>2, <1>5 DEF StoreWrites, LanesInv, LastLaunchedCounts
  <2> QED
    BY <2>1, <2>2, <2>3 DEF LastLaunchedCounts
<1>12. HostWatchesAlone' /\ SavesWaitForTheChannel'
  BY DEF StoreWrites, LanesInv, HostWatchesAlone, Live, SavesWaitForTheChannel
<1>13. BaselineIsKept'
  <2>1. MergesAreOfToday'
    BY <1>10 DEF MergesAreOfToday
  <2>2. KnowsTheDisk'
    BY <1>4 DEF StoreWrites, KnowsTheDisk
  <2> QED
    BY <1>8, <2>1, <2>2 DEF StoreWrites, LanesInv, BaselineIsKept
<1>14. ASSUME races' = {} PROVE UserSide' /\ AgentSide'
  <2>1. ~s.cancelled /\ ~Older(s) /\ UserSide /\ AgentSide
    BY <1>8, <1>14 DEF LanesInv
  <2>2. WrittenSaves = {}
    BY <1>5, <2>1 DEF LanesInv, LastLaunchedCounts, UserSide, WrittenSaves
  <2>3. WrittenSaves' = {done}
    BY <1>2, <1>5, <2>2 DEF WrittenSaves
  <2>4. disk' = s.text
    BY <1>4, <2>1 DEF Older
  <2>5. \A t \in WrittenSaves' : ~t.cancelled /\ t.text \cap ClientLine = disk' \cap ClientLine
    BY <1>2, <2>1, <2>3, <2>4
  <2>6. UserSide'
    BY <1>10, <2>1, <2>3, <2>5 DEF StoreWrites, UserSide, Live
  <2> QED
    BY <2>1, <2>6 DEF StoreWrites, AgentSide, Live
<1> QED
  BY <1>9, <1>11, <1>12, <1>13, <1>14, RestIsOwedNext DEF Strength

LEMMA StoreLandsKeeps == ASSUME LanesInv, NEW s \in stores, StoreLands(s) PROVE LanesInv'
<1>1. LanesTypeOK /\ LanesTyped
  BY LaneTypes DEF LanesInv
<1>2. stores' = stores \ {s} /\ s \in WrittenSaves /\ WrittenSaves' = WrittenSaves \ {s} /\ Awaited' = Awaited
  BY DEF StoreLands, WrittenSaves, Awaited
<1>3. races' \subseteq Races /\ races \subseteq races' /\ (races' = {} => (s.cancelled \/ Live \/ ~Older(s)) /\ races = {})
  BY <1>1, HappenedType DEF StoreLands, Races
<1>4. /\ buffer' \in Row /\ buffer'.text = buffer.text
      /\ s.cancelled => buffer' = buffer
      /\ ~s.cancelled => buffer'.base = s.text /\ buffer'.saved = s.fresh
  BY <1>1 DEF StoreLands, Stored, LanesTyped, Row, Store
<1>5. LanesTypeOK'
  BY <1>1, <1>2, <1>3, <1>4, LaneTypesNext DEF StoreLands, LanesTyped
<1>6. LastLaunchedCounts' /\ HostWatchesAlone' /\ SavesWaitForTheChannel'
  BY <1>2, <1>4 DEF StoreLands, LanesInv, LastLaunchedCounts, HostWatchesAlone, Live, SavesWaitForTheChannel
<1>7. Behind => Behind'
  BY BehindStays DEF StoreLands
<1>8. ASSUME "crossed" \notin races' PROVE BaselineIsKept'
  <2>1. (buffer.saved => buffer.text = buffer.base) /\ MergesAreOfToday /\ KnowsTheDisk
    BY <1>3, <1>8 DEF LanesInv, BaselineIsKept
  <2>2. buffer'.saved => buffer'.text = buffer'.base
    BY <1>2, <1>4, <2>1 DEF LanesInv, LastLaunchedCounts
  <2>3. MergesAreOfToday'
    <3>1. SUFFICES ASSUME NEW f \in Awaited, f.pc = "diffed", f.fresh, ~f.old
                   PROVE  /\ f.target = Merged(buffer'.base, buffer.text, f.got)
                          /\ \A t \in WrittenSaves' : t.text = f.got /\ f.target = buffer.text
      BY <1>2, <1>4 DEF MergesAreOfToday
    <3>2. /\ f.target = Merged(buffer.base, buffer.text, f.got)
          /\ \A t \in WrittenSaves : t.text = f.got /\ f.target = buffer.text
      BY <2>1, <3>1 DEF MergesAreOfToday
    <3>3. Merged(f.got, buffer.text, f.got) = buffer.text
      BY MergeOnLines
    <3> QED
      BY <1>2, <1>4, <3>2, <3>3
  <2>4. KnowsTheDisk'
    BY <1>2, <1>4, <1>7, <2>1 DEF StoreLands, KnowsTheDisk
  <2> QED
    BY <2>2, <2>3, <2>4 DEF BaselineIsKept
<1>9. ASSUME races' = {} PROVE UserSide' /\ AgentSide'
  <2>1. UserSide /\ AgentSide /\ (Live \/ s.cancelled \/ ~Older(s))
    BY <1>3, <1>9 DEF LanesInv
  <2>2. ~s.cancelled /\ s.text \cap ClientLine = disk \cap ClientLine
    BY <1>2, <2>1 DEF UserSide
  <2>3. WrittenSaves' = {}
    BY <1>2, <2>1, <2>2 DEF LanesInv, LastLaunchedCounts, UserSide, WrittenSaves
  <2>4. UserSide'
    BY <1>2, <1>4, <2>1, <2>2, <2>3 DEF StoreLands, UserSide, Live
  <2>5. AgentSide'
    BY <1>4, <2>1, <2>2 DEF StoreLands, AgentSide, Live, Older
  <2> QED
    BY <2>4, <2>5
<1>10. BaselineIsKept'
  BY <1>8 DEF BaselineIsKept
<1> QED
  BY <1>5, <1>6, <1>9, <1>10, RestIsOwedNext DEF Strength

-----------------------------------------------------------------------------
\* The refetch lane.  A launch is the only fetch that counts, and its reader is
\* behind until it has read.

Asked == [current |-> TRUE, pc |-> "asked", got |-> {}, target |-> {}, fresh |-> FALSE, old |-> FALSE]

LEMMA LaunchIsAwaited ==
  ASSUME LanesTyped, Launched
  PROVE  fetches' \subseteq Fetch /\ Awaited' = {Asked} /\ Asked.pc = "asked" /\ Behind'
<1>1. Asked \in Fetch /\ Asked.current /\ Asked.pc = "asked"
  BY DEF Asked, Fetch, Text
<1>2. fetches' = {[f EXCEPT !.current = FALSE] : f \in fetches} \cup {Asked}
  BY DEF Launched, Asked
<1>3. \A f \in fetches : [f EXCEPT !.current = FALSE] \in Fetch /\ ~[f EXCEPT !.current = FALSE].current
  BY DEF LanesTyped, Fetch
<1>4. fetches' \subseteq Fetch /\ Awaited' = {Asked}
  BY <1>1, <1>2, <1>3 DEF Awaited
<1> QED
  BY <1>1, <1>4 DEF Behind

\* With a fetch launched, what the others had read counts no more.
LEMMA LaunchKeeps ==
  ASSUME LanesInv, Launched, LanesTypeOK', HostWatchesAlone', SavesWaitForTheChannel', AgentSide' \/ races' # {},
         UNCHANGED <<disk, buffer, stores, typed>>, races \subseteq races',
         races' = {} => (IF Live THEN mirror ELSE buffer.text)' = IF Live THEN mirror ELSE buffer.text
  PROVE  LanesInv'
<1>1. Awaited' = {Asked} /\ Asked.pc = "asked" /\ Behind'
  BY LaneTypes, LaunchIsAwaited DEF LanesInv
<1>2. WrittenSaves' = WrittenSaves
  BY DEF WrittenSaves
<1>3. LastLaunchedCounts'
  BY <1>1 DEF LanesInv, LastLaunchedCounts
<1>4. BaselineIsKept'
  BY <1>1 DEF LanesInv, BaselineIsKept, MergesAreOfToday, KnowsTheDisk
<1>5. races' = {} => UserSide'
  BY <1>1, <1>2 DEF LanesInv, UserSide
<1> QED
  BY <1>3, <1>4, <1>5, RestIsOwedNext DEF Strength

LEMMA FileChangedKeeps == ASSUME LanesInv, NEW w \in Watcher, FileChanged(w) PROVE LanesInv'
<1>1. LanesTypeOK /\ LanesTyped
  BY LaneTypes DEF LanesInv
<1>2. HostWatchesAlone' /\ SavesWaitForTheChannel' /\ (AgentSide => AgentSide')
  BY DEF FileChanged, row, LanesInv, HostWatchesAlone, Live, SavesWaitForTheChannel, WrittenSaves, AgentSide
<1>3. CASE w \in slot.riders /\ ~Live
  <2>1. Launched
    BY <1>3 DEF FileChanged
  <2>2. LanesTypeOK'
    BY <1>1, <2>1, LaunchIsAwaited, LaneTypesNext DEF FileChanged, row, history, LanesTyped
  <2>3. AgentSide' \/ races' # {}
    BY <1>2 DEF FileChanged, history, LanesInv
  <2> QED
    BY <1>2, <2>1, <2>2, <2>3, LaunchKeeps DEF FileChanged, row, history, Live
<1>4. CASE ~(w \in slot.riders /\ ~Live)
  <2>1. fetches' = fetches
    BY <1>4 DEF FileChanged
  <2>2. LanesTypeOK'
    BY <1>1, <2>1, LaneTypesNext DEF FileChanged, row, history, LanesTyped
  <2>3. ASSUME mode = "two", Behind PROVE Behind'
    <3>1. Awaited' = Awaited
      BY <2>1 DEF Awaited
    <3>2. changed \cap slot.riders # {} => changed' \cap slot'.riders # {}
      BY <1>4, <2>3 DEF FileChanged, row, Live
    <3> QED
      BY <2>3, <3>1, <3>2 DEF FileChanged, row, history, Behind, Tells
  <2> QED
    BY <1>2, <2>1, <2>2, <2>3, WatchersKeep DEF FileChanged, row, history
<1> QED
  BY <1>3, <1>4

LEMMA FallBackKeeps == ASSUME LanesInv, FallBack PROVE LanesInv'
<1>1. LanesTypeOK /\ LanesTyped
  BY LaneTypes DEF LanesInv
<1> DEFINE s == IF Live THEN [slot EXCEPT !.requested = FALSE] ELSE slot
<1>2. s \in Slot
  BY <1>1 DEF LanesTyped, Slot
<1>3. slot' \in Slot /\ watchers' \in [Watcher -> Watch]
  BY <1>1, <1>2, SubscribesType DEF FallBack
<1>4. /\ races' \subseteq Races /\ races \subseteq races'
      /\ races' = {} => ~(Live /\ (buffer.base # disk \/ buffer.base \cap AgentLine # buffer.text \cap AgentLine)) /\ races = {}
      /\ races' = {} => ~(Live /\ buffer.text # mirror)
  BY <1>1 DEF FallBack, LanesTyped, Races
<1>5. replayed' \in Text /\ mirror' \in Text
  BY DEF FallBack, Text
<1>6. LanesTypeOK'
  BY <1>1, <1>3, <1>4, <1>5, LaunchIsAwaited, LaneTypesNext DEF FallBack, LanesTyped
<1>7. HostWatchesAlone' /\ SavesWaitForTheChannel'
  BY DEF FallBack, HostWatchesAlone, Live, SavesWaitForTheChannel
<1>8. AgentSide' \/ races' # {}
  BY <1>4 DEF FallBack, LanesInv, AgentSide
<1>9. races' = {} => (IF Live THEN mirror ELSE buffer.text)' = IF Live THEN mirror ELSE buffer.text
  BY <1>4 DEF FallBack, Live
<1> QED
  BY <1>4, <1>6, <1>7, <1>8, <1>9, LaunchKeeps DEF FallBack

LEMMA FetchReadsKeeps == ASSUME LanesInv, NEW f \in fetches, FetchReads(f) PROVE LanesInv'
<1>1. LanesTypeOK /\ LanesTyped
  BY LaneTypes DEF LanesInv
<1> DEFINE g == [f EXCEPT !.pc = "read", !.got = disk]
<1>2. g \in Fetch /\ g.pc = "read" /\ g.got = disk /\ g.current = f.current
  BY <1>1 DEF LanesTyped, Fetch
<1>3. fetches' = (fetches \ {f}) \cup {g}
  BY DEF FetchReads
<1>4. missed' = (missed /\ ~f.current) /\ missed' \in BOOLEAN
  BY DEF FetchReads
<1> HIDE DEF g
<1>5. LanesTypeOK'
  BY <1>1, <1>2, <1>3, <1>4, LaneTypesNext DEF FetchReads, row, LanesTyped
<1>6. WrittenSaves' = WrittenSaves
  BY DEF FetchReads, WrittenSaves
<1>7. HostWatchesAlone' /\ SavesWaitForTheChannel' /\ (AgentSide => AgentSide')
  BY <1>6 DEF FetchReads, row, LanesInv, HostWatchesAlone, Live, SavesWaitForTheChannel, AgentSide
<1>8. CASE f.current
  <2>1. Awaited' = {g}
    BY <1>2, <1>3, <1>8 DEF Awaited, LanesInv, LastLaunchedCounts
  <2>2. LastLaunchedCounts'
    BY <2>1 DEF FetchReads, row, LanesInv, LastLaunchedCounts
  <2>3. MergesAreOfToday' /\ KnowsTheDisk'
    BY <1>2, <2>1 DEF FetchReads, row, MergesAreOfToday, KnowsTheDisk
  <2>4. BaselineIsKept'
    BY <2>3 DEF FetchReads, row, LanesInv, BaselineIsKept
  <2>5. UserSide => UserSide'
    BY <1>2, <1>6, <2>1 DEF FetchReads, row, UserSide, Live
  <2> QED
    BY <1>5, <1>7, <2>2, <2>4, <2>5, RestIsOwedNext DEF FetchReads, LanesInv, Strength
<1>9. CASE ~f.current
  <2>1. Awaited' = Awaited
    BY <1>2, <1>3, <1>9 DEF Awaited
  <2>2. LastLaunchedCounts'
    BY <2>1 DEF FetchReads, row, LanesInv, LastLaunchedCounts
  <2>3. Behind => Behind'
    BY <1>4, <1>9, <2>1 DEF FetchReads, row, Behind, Tells
  <2>4. (MergesAreOfToday => MergesAreOfToday') /\ (KnowsTheDisk => KnowsTheDisk')
    BY <1>6, <2>1, <2>3 DEF FetchReads, row, MergesAreOfToday, KnowsTheDisk
  <2>5. BaselineIsKept'
    BY <2>4 DEF FetchReads, row, LanesInv, BaselineIsKept
  <2>6. UserSide => UserSide'
    BY <1>6, <2>1 DEF FetchReads, row, UserSide, Live
  <2> QED
    BY <1>5, <1>7, <2>2, <2>5, <2>6, RestIsOwedNext DEF FetchReads, LanesInv, Strength
<1> QED
  BY <1>8, <1>9

\* A fetch that is dropped: the reader is behind if it counted.
LEMMA FetchDroppedKeeps ==
  ASSUME LanesInv, NEW f \in fetches, fetches' = fetches \ {f}, LanesTypeOK',
         UNCHANGED <<disk, mode, buffer, mirror, slot, watchers, changed, stores, typed>>, races \subseteq races',
         missed => missed', f.current => Live \/ missed'
  PROVE  LanesInv'
<1>1. Awaited' = Awaited \ {f} /\ WrittenSaves' = WrittenSaves
  BY DEF Awaited, WrittenSaves
<1>2. HostWatchesAlone' /\ SavesWaitForTheChannel' /\ LastLaunchedCounts' /\ (AgentSide => AgentSide')
  BY <1>1 DEF LanesInv, HostWatchesAlone, Live, SavesWaitForTheChannel, LastLaunchedCounts, AgentSide
<1>3. MergesAreOfToday => MergesAreOfToday'
  BY <1>1 DEF MergesAreOfToday
<1>4. KnowsTheDisk => KnowsTheDisk'
  <2>1. CASE f.current
    <3>1. CASE Live
      BY <3>1 DEF KnowsTheDisk, Live
    <3>2. CASE missed'
      BY <3>2 DEF KnowsTheDisk, Behind
    <3> QED
      BY <2>1, <3>1, <3>2
  <2>2. CASE ~f.current
    <3>1. Awaited' = Awaited
      BY <1>1, <2>2 DEF Awaited
    <3>2. Behind => Behind'
      BY <3>1 DEF Behind, Tells
    <3> QED
      BY <1>1, <3>1, <3>2 DEF KnowsTheDisk
  <2> QED
    BY <2>1, <2>2
<1>5. BaselineIsKept'
  BY <1>3, <1>4 DEF LanesInv, BaselineIsKept
<1>6. UserSide => UserSide'
  BY <1>1 DEF UserSide, Live
<1>7. races' = {} => UserSide' /\ AgentSide'
  BY <1>2, <1>6 DEF LanesInv
<1> QED
  BY <1>2, <1>5, <1>7, RestIsOwedNext DEF Strength

LEMMA FetchFailsKeeps == ASSUME LanesInv, NEW f \in fetches, FetchFails(f) PROVE LanesInv'
<1>1. LanesTypeOK /\ LanesTyped
  BY LaneTypes DEF LanesInv
<1>2. budget' \in Budget
  BY <1>1, SpentType DEF FetchFails
<1>3. missed' = (missed \/ f.current) /\ f.current \in BOOLEAN
  BY <1>1 DEF FetchFails, LanesTyped, Fetch
<1>4. LanesTypeOK'
  BY <1>1, <1>2, <1>3, LaneTypesNext DEF FetchFails, row, LanesTyped
<1>5. (missed => missed') /\ (f.current => missed')
  BY <1>3
<1> QED
  BY <1>4, <1>5, FetchDroppedKeeps DEF FetchFails, row

\* A diff of what was fetched with the buffer of now.
LEMMA DiffedType ==
  ASSUME LanesTyped, NEW f \in fetches
  PROVE  /\ Diffed(f) \in Fetch /\ Diffed(f).pc = "diffed" /\ Diffed(f).current = f.current
         /\ Diffed(f).got = f.got /\ Diffed(f).old = f.old
         /\ Diffed(f).target = Merged(buffer.base, buffer.text, f.got)
<1>1. f \in Fetch /\ buffer.base \in Text /\ buffer.text \in Text /\ f.got \in Text
  BY DEF LanesTyped, Fetch, Row
<1>2. Merged(buffer.base, buffer.text, f.got) \in Text
  BY <1>1, MergedType
<1> QED
  BY <1>1, <1>2 DEF Diffed, Fetch

\* The awaited fetch is diffed, for the first time or again: the save between its
\* write and its landing has not crossed it.
LEMMA DiffKeeps ==
  ASSUME LanesInv, NEW f \in Awaited, f.pc # "asked", fetches' = (fetches \ {f}) \cup {Diffed(f)},
         LanesTypeOK', UNCHANGED <<disk, mode, buffer, mirror, slot, watchers, changed, stores, typed, missed>>,
         races \subseteq races', "crossed" \notin races' => ~Crosses(f)
  PROVE  LanesInv'
<1>1. LanesTyped /\ f \in fetches /\ f.current
  BY LaneTypes DEF LanesInv, Awaited
<1> DEFINE g == Diffed(f)
<1>2. /\ g.pc = "diffed" /\ g.current = f.current /\ g.got = f.got /\ g.old = f.old
      /\ g.target = Merged(buffer.base, buffer.text, f.got)
  BY <1>1, DiffedType
<1> HIDE DEF g
<1>3. Awaited = {f}
  BY DEF LanesInv, LastLaunchedCounts
<1>4. Awaited' = {g}
  BY <1>1, <1>2, <1>3 DEF Awaited, g
<1>5. WrittenSaves' = WrittenSaves
  BY DEF WrittenSaves
<1>6. HostWatchesAlone' /\ SavesWaitForTheChannel' /\ LastLaunchedCounts' /\ (AgentSide => AgentSide')
  BY <1>4, <1>5 DEF LanesInv, HostWatchesAlone, Live, SavesWaitForTheChannel, LastLaunchedCounts, AgentSide
<1>7. ASSUME "crossed" \notin races' PROVE MergesAreOfToday'
  <2>1. \A s \in WrittenSaves : s.text = f.got /\ Merged(buffer.base, buffer.text, f.got) = buffer.text
    BY <1>7 DEF Crosses, WrittenSaves
  <2> QED
    BY <1>2, <1>4, <1>5, <2>1 DEF MergesAreOfToday
<1>8. Behind => Behind'
  BY <1>3 DEF Behind, Tells
<1>9. KnowsTheDisk => KnowsTheDisk'
  BY <1>2, <1>3, <1>4, <1>8 DEF KnowsTheDisk
<1>10. BaselineIsKept'
  BY <1>7, <1>9 DEF LanesInv, BaselineIsKept
<1>11. UserSide => UserSide'
  BY <1>2, <1>3, <1>4, <1>5 DEF UserSide, Live
<1>12. races' = {} => UserSide' /\ AgentSide'
  BY <1>6, <1>11 DEF LanesInv
<1> QED
  BY <1>6, <1>10, <1>12, RestIsOwedNext DEF Strength

LEMMA RefetchedKeeps == ASSUME LanesInv, NEW f \in fetches, Refetched(f) PROVE LanesInv'
<1>1. LanesTypeOK /\ LanesTyped
  BY LaneTypes DEF LanesInv
<1>2. /\ races' \subseteq Races /\ races \subseteq races'
      /\ "crossed" \notin races' => ~(Valid(f) /\ Crosses(f))
  BY <1>1, HappenedType DEF Refetched, Races
<1>3. CASE f.current
  <2>1. fetches' = (fetches \ {f}) \cup {Diffed(f)} /\ f \in Awaited
    BY <1>3 DEF Refetched, Valid, Awaited
  <2>2. Diffed(f) \in Fetch
    BY <1>1, DiffedType
  <2>3. LanesTypeOK'
    BY <1>1, <1>2, <2>1, <2>2, LaneTypesNext DEF Refetched, row, LanesTyped
  <2>4. "crossed" \notin races' => ~Crosses(f)
    BY <1>2, <1>3 DEF Valid
  <2> QED
    BY <1>2, <2>1, <2>3, <2>4, DiffKeeps DEF Refetched, row
<1>4. CASE ~f.current
  <2>1. fetches' = fetches \ {f}
    BY <1>4 DEF Refetched, Valid
  <2>2. LanesTypeOK'
    BY <1>1, <1>2, <2>1, LaneTypesNext DEF Refetched, row, LanesTyped
  <2> QED
    BY <1>2, <1>4, <2>1, <2>2, FetchDroppedKeeps DEF Refetched, row
<1> QED
  BY <1>3, <1>4

\* The merge lands: the fetched text is the baseline from here on.
LEMMA RefetchLandsKeeps ==
  ASSUME LanesInv, NEW f \in fetches, RefetchDiffed(f), Lands(f)
  PROVE  LanesInv'
<1>1. LanesTypeOK /\ LanesTyped
  BY LaneTypes DEF LanesInv
<1> DEFINE rest  == fetches \ {f}
           moves == f.target # buffer.text
<1>2. f.current /\ f.fresh /\ ~Live /\ f.pc = "diffed" /\ f \in Fetch /\ f.got \in Text /\ f.target \in Text
  BY <1>1 DEF RefetchDiffed, Lands, Valid, LanesTyped, Fetch
<1>3. Awaited = {f} /\ \A g \in rest : ~g.current
  BY <1>2 DEF Awaited, LanesInv, LastLaunchedCounts
<1>4. /\ buffer' \in Row /\ buffer'.text = f.target /\ buffer'.base = f.got
      /\ buffer'.saved = (f.target = f.got \/ (buffer.saved /\ f.target = buffer.text))
  BY <1>1, <1>2 DEF RefetchDiffed, Rebased, LanesTyped, Row
<1>5. fetches' = (IF moves THEN Stale(rest) ELSE rest) /\ stores' = (IF moves THEN Stale(stores) ELSE stores)
  BY <1>2 DEF RefetchDiffed, Lands, Stale
<1>6. fetches' \subseteq Fetch /\ Awaited' = {}
  <2>1. rest \subseteq Fetch
    BY <1>1 DEF LanesTyped
  <2>2. /\ Stale(rest) \subseteq Fetch
        /\ \A g \in Stale(rest) : \E h \in rest : g.current = h.current
    BY <2>1, StaleFetches
  <2> QED
    BY <1>3, <1>5, <2>1, <2>2 DEF Awaited
<1>7. /\ stores' \subseteq Store
      /\ \A t \in stores' : \E s \in stores :
           /\ t = (IF moves THEN [s EXCEPT !.fresh = FALSE] ELSE s)
           /\ t.pc = s.pc /\ t.text = s.text /\ t.cancelled = s.cancelled
           /\ t.fresh => ~moves /\ s.fresh
      /\ \A s \in stores : \E t \in stores' : t.pc = s.pc
  <2>1. stores \in SUBSET Store
    BY <1>1 DEF LanesTyped
  <2>2. CASE moves
    BY <1>5, <2>1, <2>2, StaleStores
  <2>3. CASE ~moves
    BY <1>5, <2>1, <2>3
  <2> QED
    BY <2>2, <2>3
<1>8. /\ races' \subseteq Races /\ races \subseteq races'
      /\ "crossed" \notin races' => ~Crosses(f) /\ ~f.old /\ "crossed" \notin races
      /\ races' = {} => races = {}
  BY <1>1, <1>2, HappenedType DEF RefetchDiffed, Lands, Valid, Races
<1>9. replayed' \in Text
  BY <1>1, <1>4 DEF RefetchDiffed, Apart, Text, LanesTyped, Row
<1>10. LanesTypeOK'
  BY <1>1, <1>4, <1>6, <1>7, <1>8, <1>9, LaneTypesNext DEF RefetchDiffed, LanesTyped
<1>11. /\ \A t \in WrittenSaves' : \E s \in WrittenSaves : t.text = s.text /\ t.cancelled = s.cancelled
       /\ WrittenSaves' = {} => WrittenSaves = {}
       /\ WrittenSaves = {} => WrittenSaves' = {}
  BY <1>7 DEF WrittenSaves
<1>12. LastLaunchedCounts'
  <2>1. ASSUME NEW t \in stores', NEW u \in stores', ~t.cancelled, ~u.cancelled PROVE t = u
    <3>1. PICK s \in stores : t = (IF moves THEN [s EXCEPT !.fresh = FALSE] ELSE s) /\ t.cancelled = s.cancelled
      BY <1>7, <2>1
    <3>2. PICK v \in stores : u = (IF moves THEN [v EXCEPT !.fresh = FALSE] ELSE v) /\ u.cancelled = v.cancelled
      BY <1>7, <2>1
    <3>3. ~s.cancelled /\ ~v.cancelled
      BY <2>1, <3>1, <3>2
    <3>4. s = v
      BY <3>3 DEF LanesInv, LastLaunchedCounts
    <3> QED
      BY <3>1, <3>2, <3>4
  <2>2. ASSUME NEW t \in stores', t.fresh PROVE t.text = buffer'.text
    <3>1. PICK s \in stores : t.text = s.text /\ (t.fresh => ~moves /\ s.fresh)
      BY <1>7, <2>2
    <3>2. s.fresh /\ ~moves
      BY <2>2, <3>1
    <3> QED
      BY <1>4, <3>1, <3>2 DEF LanesInv, LastLaunchedCounts
  <2> QED
    BY <1>6, <2>1, <2>2 DEF LastLaunchedCounts
<1>13. HostWatchesAlone' /\ SavesWaitForTheChannel'
  BY <1>11 DEF RefetchDiffed, LanesInv, HostWatchesAlone, Live, SavesWaitForTheChannel
<1>14. ASSUME "crossed" \notin races'
       PROVE  /\ BaselineIsKept'
              /\ f.target = Merged(buffer.base, buffer.text, f.got)
              /\ \A s \in WrittenSaves : s.text = f.got /\ f.target = buffer.text
  <2>1. (buffer.saved => buffer.text = buffer.base) /\ MergesAreOfToday /\ KnowsTheDisk /\ ~f.old
    BY <1>8, <1>14 DEF LanesInv, BaselineIsKept
  <2>2. /\ f.target = Merged(buffer.base, buffer.text, f.got)
        /\ \A s \in WrittenSaves : s.text = f.got /\ f.target = buffer.text
    BY <1>2, <1>3, <2>1 DEF MergesAreOfToday
  <2>3. buffer'.saved => buffer'.text = buffer'.base
    BY <1>4, <2>1, <2>2, MergeOfOne
  <2>4. MergesAreOfToday'
    BY <1>6 DEF MergesAreOfToday
  <2>5. Behind => Behind'
    BY <1>2, <1>3 DEF RefetchDiffed, Behind, Tells
  <2>6. KnowsTheDisk'
    BY <1>3, <1>4, <1>6, <1>11, <2>1, <2>2, <2>5 DEF RefetchDiffed, KnowsTheDisk
  <2> QED
    BY <2>2, <2>3, <2>4, <2>6 DEF BaselineIsKept
<1>15. ASSUME races' = {} PROVE UserSide' /\ AgentSide'
  <2>1. UserSide /\ AgentSide /\ ~f.old
    BY <1>8, <1>15 DEF LanesInv
  <2>2. /\ f.target = Merged(buffer.base, buffer.text, f.got)
        /\ \A s \in WrittenSaves : s.text = f.got /\ f.target = buffer.text
    BY <1>14, <1>15
  <2>3. f.got \cap ClientLine = disk \cap ClientLine
    BY <1>2, <1>3, <2>1 DEF UserSide
  <2>4. f.target \cap ClientLine = buffer.text \cap ClientLine
    <3>1. CASE WrittenSaves = {}
      <4>1. buffer.base \cap ClientLine = f.got \cap ClientLine
        BY <2>1, <2>3, <3>1 DEF UserSide
      <4> QED
        BY <2>2, <4>1, MergeOnLines
    <3>2. CASE WrittenSaves # {}
      BY <2>2, <3>2
    <3> QED
      BY <3>1, <3>2
  <2>5. f.target \cap AgentLine = f.got \cap AgentLine
    <3>1. buffer.base \cap AgentLine = buffer.text \cap AgentLine
      BY <1>2, <2>1 DEF AgentSide
    <3> QED
      BY <2>2, <3>1, MergeOnLines
  <2>6. UserSide'
    BY <1>4, <1>6, <1>11, <2>1, <2>3, <2>4 DEF RefetchDiffed, UserSide, Live
  <2>7. AgentSide'
    BY <1>4, <2>5 DEF AgentSide
  <2> QED
    BY <2>6, <2>7
<1>16. BaselineIsKept'
  BY <1>14 DEF BaselineIsKept
<1> QED
  BY <1>10, <1>12, <1>13, <1>15, <1>16, RestIsOwedNext DEF Strength

LEMMA RefetchDiffedKeeps == ASSUME LanesInv, NEW f \in fetches, RefetchDiffed(f) PROVE LanesInv'
<1>1. LanesTypeOK /\ LanesTyped
  BY LaneTypes DEF LanesInv
<1>2. CASE Lands(f)
  BY <1>2, RefetchLandsKeeps
<1>3. CASE ~Lands(f)
  <2>1. UNCHANGED <<buffer, stores>>
    BY <1>3 DEF RefetchDiffed
  <2>2. fetches' = (fetches \ {f}) \cup (IF ~Live /\ Valid(f) THEN {Diffed(f)} ELSE {})
    BY <1>3 DEF RefetchDiffed, Retried
  <2>3. /\ races' \subseteq Races /\ races \subseteq races'
        /\ "crossed" \notin races' => ~(~Live /\ Valid(f) /\ Crosses(f))
    BY <1>1, HappenedType DEF RefetchDiffed, Races
  <2>4. replayed' \in Text
    BY <1>1, <2>1 DEF RefetchDiffed, Apart, Text, LanesTyped, Row
  <2>5. LanesTypeOK'
    BY <1>1, <2>1, <2>2, <2>3, <2>4, DiffedType, LaneTypesNext DEF RefetchDiffed, LanesTyped
  <2>6. CASE ~Live /\ f.current
    <3>1. fetches' = (fetches \ {f}) \cup {Diffed(f)} /\ f \in Awaited /\ f.pc # "asked"
      BY <2>2, <2>6 DEF RefetchDiffed, Valid, Awaited
    <3>2. "crossed" \notin races' => ~Crosses(f)
      BY <2>3, <2>6 DEF Valid
    <3> QED
      BY <2>1, <2>3, <2>5, <3>1, <3>2, DiffKeeps DEF RefetchDiffed
  <2>7. CASE ~(~Live /\ f.current)
    <3>1. fetches' = fetches \ {f} /\ (f.current => Live)
      BY <2>2, <2>7 DEF Valid
    <3> QED
      BY <2>1, <2>3, <2>5, <3>1, FetchDroppedKeeps DEF RefetchDiffed
  <2> QED
    BY <2>6, <2>7
<1> QED
  BY <1>2, <1>3

-----------------------------------------------------------------------------
LEMMA LanesKeep == ASSUME LanesInv, [LanesNext]_lanesVars PROVE LanesInv'
<1>1. CASE LaneTurn
  BY <1>1, SweepKeeps, HostArmsKeeps, WatchedKeeps, WatchFiresKeeps, FileChangedKeeps, FetchReadsKeeps,
     RefetchedKeeps, RefetchDiffedKeeps, StoreWritesKeeps, StoreLandsKeeps DEF LaneTurn
<1>2. CASE Fault
  BY <1>2, SubscribeFailsKeeps, FetchFailsKeeps, StoreEndsKeeps DEF Fault
<1>3. CASE \E line \in AgentLine : AgentWrites(line)
  BY <1>3, AgentWritesKeeps
<1>4. CASE \E line \in ClientLine : Type(line)
  BY <1>4, TypeKeeps
<1>5. CASE PressSave \/ HostReloads \/ GoLive \/ FallBack
  BY <1>5, PressSaveKeeps, HostReloadsKeeps, GoLiveKeeps, FallBackKeeps
<1>6. CASE UNCHANGED lanesVars
  <2>1. UNCHANGED <<disk, mode, buffer, mirror, slot, watchers, changed, fetches, stores, budget, typed, replayed, missed, races>>
    BY <1>6 DEF lanesVars, row, history
  <2>2. LanesTypeOK'
    BY <2>1, LaneTypes, LaneTypesNext DEF LanesInv, LanesTyped
  <2>3. HostWatchesAlone'
    BY <2>1 DEF LanesInv, HostWatchesAlone, Live
  <2>4. Behind => Behind'
    BY <2>1, BehindStays
  <2> QED
    BY <2>1, <2>2, <2>3, <2>4, WatchersKeep
<1> QED
  BY <1>1, <1>2, <1>3, <1>4, <1>5, <1>6 DEF LanesNext

\* A document at rest that says it is saved is the disk's text, it shows what the user
\* typed and what the agent wrote, and a live one is not watched by the client; with
\* all that they rest on (frontend/documents).
THEOREM LanesAreSafe == LanesSpec => []LanesInv
<1>1. LanesInit => LanesInv
  BY LanesStart
<1>2. LanesInv /\ [LanesNext]_lanesVars => LanesInv'
  BY LanesKeep
<1> QED
  BY <1>1, <1>2, PTL DEF LanesSpec
=============================================================================
