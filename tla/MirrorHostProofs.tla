-------------------------- MODULE MirrorHostProofs --------------------------
(***************************************************************************)
(* For any clients, lines and bounds: a subscriber's document lives, what  *)
(* is on the lane brings the language servers' copy to the mirror's text,  *)
(* and, where no store races with a reload, a store or an open, reloads    *)
(* keep what the clients typed and bring what the agent wrote.             *)
(***************************************************************************)
EXTENDS MirrorHost, TLAPS

\* Where each variable of TypeOK is.
LEMMA Types ==
  ASSUME TypeOK
  PROVE  /\ disk \in Text /\ text \in Text /\ base \in Text
         /\ mirror \in {0, opened} /\ opened \in 0..MaxOpens /\ MaxOpens \in Nat
         /\ subscribers \in [Channel -> SUBSET Client]
         /\ watches \subseteq Channel
         /\ polled \in [Channel -> Text]
         /\ reload \in [Channel -> Optional(Text)]
         /\ conn \in [Client -> Lives]
         /\ store \in [Client -> Optional(Request)]
         /\ lane \in Seq(Item) /\ served \in Optional(Text)
         /\ used \in Use /\ typed \subseteq ClientLine
         /\ raced \in BOOLEAN /\ missed \in BOOLEAN
BY LimitsAssumption DEF TypeOK

LEMMA LifeFields ==
  ASSUME NEW phase \in Phase, NEW ch \in 0..MaxOpens, NEW read \in Text
  PROVE  /\ Life(phase, ch, read) \in Lives
         /\ Life(phase, ch, read).phase = phase
         /\ Life(phase, ch, read).channel = ch
         /\ Life(phase, ch, read).read = read
BY DEF Life, Lives

LEMMA LivesHave ==
  ASSUME NEW l \in Lives
  PROVE  /\ l.phase \in Phase /\ l.channel \in 0..MaxOpens /\ l.read \in Text
         /\ \A phase \in Phase :
              /\ [l EXCEPT !.phase = phase] \in Lives
              /\ [l EXCEPT !.phase = phase].phase = phase
              /\ [l EXCEPT !.phase = phase].channel = l.channel
              /\ [l EXCEPT !.phase = phase].read = l.read
BY DEF Lives

LEMMA RequestsHave ==
  ASSUME NEW r \in Request
  PROVE  /\ r.phase \in {"read", "written"} /\ r.channel \in Channel /\ r.text \in Text
         /\ \A phase \in {"read", "written"} :
              /\ [r EXCEPT !.phase = phase] \in Request
              /\ [r EXCEPT !.phase = phase].phase = phase
              /\ [r EXCEPT !.phase = phase].channel = r.channel
              /\ [r EXCEPT !.phase = phase].text = r.text
BY DEF Request

LEMMA RequestFields ==
  ASSUME NEW ch \in Channel, NEW lines \in Text
  PROVE  LET r == [phase |-> "read", channel |-> ch, text |-> lines]
         IN  r \in Request /\ r.phase = "read" /\ r.channel = ch /\ r.text = lines
BY DEF Request

LEMMA ItemsAre ==
  ASSUME NEW one \in Text, NEW two \in Text
  PROVE  /\ [kind |-> "open", after |-> one] \in Item
         /\ [kind |-> "change", before |-> one, after |-> two] \in Item
         /\ [kind |-> "save"] \in Item
         /\ [kind |-> "close"] \in Item
BY DEF Item

LEMMA UseGrows ==
  ASSUME used \in Use
  PROVE  /\ used.edits < MaxEdits => [used EXCEPT !.edits = @ + 1] \in Use
         /\ used.writes < MaxWrites => [used EXCEPT !.writes = @ + 1] \in Use
         /\ used.stores < MaxStores => [used EXCEPT !.stores = @ + 1] \in Use
         /\ used.closes < MaxCloses => [used EXCEPT !.closes = @ + 1] \in Use
         /\ [used EXCEPT !.reloads = @ + 1] \in Use
<1>0. /\ used.edits \in 0..MaxEdits /\ used.writes \in 0..MaxWrites
      /\ used.stores \in 0..MaxStores /\ used.closes \in 0..MaxCloses
      /\ used.reloads \in Nat
  BY DEF Use
<1>1. /\ used.edits < MaxEdits => used.edits + 1 \in 0..MaxEdits
      /\ used.writes < MaxWrites => used.writes + 1 \in 0..MaxWrites
      /\ used.stores < MaxStores => used.stores + 1 \in 0..MaxStores
      /\ used.closes < MaxCloses => used.closes + 1 \in 0..MaxCloses
      /\ used.reloads + 1 \in Nat
  BY <1>0, LimitsAssumption
<1>2. /\ \A n \in 0..MaxEdits : [used EXCEPT !.edits = n] \in Use
      /\ \A n \in 0..MaxWrites : [used EXCEPT !.writes = n] \in Use
      /\ \A n \in 0..MaxStores : [used EXCEPT !.stores = n] \in Use
      /\ \A n \in 0..MaxCloses : [used EXCEPT !.closes = n] \in Use
      /\ \A n \in Nat : [used EXCEPT !.reloads = n] \in Use
  BY DEF Use
<1> QED
  BY <1>1, <1>2

\* What is done to a text leaves a text.
LEMMA TextsAre ==
  /\ {} \in Text
  /\ \A one, two, three \in Text : Merged(one, two, three) \in Text
  /\ \A one \in Text : \A line \in ClientLine \cup AgentLine : Flip(one, line) \in Text
  /\ \A lines \in SUBSET ClientLine : \A line \in ClientLine : Flip(lines, line) \subseteq ClientLine
BY DEF Text, Merged, Flip

-----------------------------------------------------------------------------
\* Every action keeps the types.

LEMMA LaneGrows ==
  ASSUME TypeOK, NEW item \in Item, lane' = Append(lane, item)
  PROVE  lane' \in Seq(Item)
BY Types

LEMMA ConnTyped ==
  ASSUME TypeOK, NEW c \in Client, NEW l \in Lives, conn' = [conn EXCEPT ![c] = l]
  PROVE  /\ conn' \in [Client -> Lives] /\ conn'[c] = l
         /\ \A d \in Client : d # c => conn'[d] = conn[d]
BY Types

LEMMA StoreTyped ==
  ASSUME TypeOK, NEW c \in Client, NEW o \in Optional(Request), store' = [store EXCEPT ![c] = o]
  PROVE  /\ store' \in [Client -> Optional(Request)] /\ store'[c] = o
         /\ \A d \in Client : d # c => store'[d] = store[d]
BY Types

LEMMA Optionals ==
  ASSUME NEW S
  PROVE  /\ {} \in Optional(S)
         /\ \A v \in S : {v} \in Optional(S)
         /\ \A o \in Optional(S) : \A v \in o : v \in S /\ o = {v}
BY DEF Optional

LEMMA OpenReadTypes == ASSUME TypeOK, NEW c \in Client, OpenRead(c) PROVE TypeOK'
<1>1. Life("reading", 0, disk) \in Lives
  BY Types, LifeFields DEF Phase
<1>2. conn' \in [Client -> Lives]
  BY <1>1, ConnTyped DEF OpenRead
<1>3. raced' \in BOOLEAN
  BY Types DEF OpenRead, Storing
<1> QED
  BY <1>2, <1>3 DEF OpenRead, TypeOK, document, watching, feeding

LEMMA MintedTypes ==
  ASSUME TypeOK, NEW c \in Client, conn[c].phase = "reading", mirror = 0, Minted(c)
  PROVE  /\ conn' \in [Client -> Lives] /\ conn'[c] = Life("arming", opened + 1, {})
         /\ mirror' = opened + 1 /\ opened' = opened + 1 /\ opened' \in 0..MaxOpens
         /\ text' = conn[c].read /\ base' = conn[c].read /\ conn[c].read \in Text
         /\ typed' = conn[c].read \cap ClientLine
         /\ lane' \in Seq(Item)
<1>1. opened + 1 \in 0..MaxOpens
  BY Types DEF Minted
<1>2. conn[c].read \in Text
  BY Types, LivesHave
<1>3. Life("arming", opened + 1, {}) \in Lives
  BY <1>1, TextsAre, LifeFields DEF Phase
<1>4. lane' \in Seq(Item)
  BY <1>2, ItemsAre, LaneGrows DEF Minted
<1>5. conn' = [conn EXCEPT ![c] = Life("arming", opened + 1, {})]
  BY DEF Minted
<1> QED
  BY <1>1, <1>2, <1>3, <1>4, <1>5, ConnTyped DEF Minted

LEMMA OpenInsertTypes == ASSUME TypeOK, NEW c \in Client, OpenInsert(c) PROVE TypeOK'
<1>1. CASE mirror # 0
  <2>1. Life("opened", mirror, {}) \in Lives
    BY <1>1, Types, TextsAre, LifeFields DEF Phase
  <2>2. conn' \in [Client -> Lives]
    BY <1>1, <2>1, ConnTyped DEF OpenInsert
  <2> QED
    BY <1>1, <2>2 DEF OpenInsert, TypeOK, document, watching
<1>2. CASE mirror = 0
  <2>1. conn[c].phase = "reading" /\ Minted(c)
    BY <1>2 DEF OpenInsert
  <2>2. typed' \subseteq ClientLine
    BY <2>1, <1>2, MintedTypes
  <2> QED
    BY <1>2, <2>1, <2>2, MintedTypes DEF OpenInsert, TypeOK, watching
<1> QED
  BY <1>1, <1>2

LEMMA WatchMirrorTypes == ASSUME TypeOK, ChannelsWereMinted, NEW c \in Client, WatchMirror(c) PROVE TypeOK'
<1> DEFINE ch == conn[c].channel
<1>1. ch \in Channel
  BY Types DEF WatchMirror, ChannelsWereMinted, Held, Channel
<1>2. Life("opened", ch, {}) \in Lives
  BY <1>1, Types, TextsAre, LifeFields DEF Phase, Channel
<1>3. conn' \in [Client -> Lives]
  BY <1>2, ConnTyped DEF WatchMirror
<1>4. polled' \in [Channel -> Text] /\ watches' \subseteq Channel
  BY <1>1, Types DEF WatchMirror
<1> QED
  BY <1>3, <1>4 DEF WatchMirror, TypeOK, document, feeding, history

LEMMA SubscribeTypes == ASSUME TypeOK, NEW c \in Client, SubscribeDocument(c) PROVE TypeOK'
<1> DEFINE ch == conn[c].channel
<1>0. ch \in 0..MaxOpens
  BY Types, LivesHave
<1>1. Life("subscribed", ch, {}) \in Lives /\ Life("refused", ch, {}) \in Lives
  BY <1>0, TextsAre, LifeFields DEF Phase
<1>2. conn' \in [Client -> Lives]
  BY <1>1, ConnTyped DEF SubscribeDocument
<1>3. subscribers' \in [Channel -> SUBSET Client]
  BY Types DEF SubscribeDocument
<1> QED
  BY <1>2, <1>3 DEF SubscribeDocument, TypeOK, document, watching, feeding, history

LEMMA IdleIsALife ==
  /\ Idle \in Lives /\ Idle.phase = "idle" /\ Idle.channel = 0 /\ Idle.read = {}
  /\ Idle.phase \notin Held /\ Idle.phase # "arming"
<1>1. Idle \in Lives /\ Idle.phase = "idle" /\ Idle.channel = 0 /\ Idle.read = {}
  BY LifeFields, TextsAre, LimitsAssumption DEF Idle, Phase
<1> QED
  BY <1>1 DEF Held

LEMMA AbandonTypes == ASSUME TypeOK, NEW c \in Client, Abandon(c) PROVE TypeOK'
<1>1. conn' \in [Client -> Lives]
  BY IdleIsALife, ConnTyped DEF Abandon
<1> QED
  BY <1>1 DEF Abandon, TypeOK, document, watching, feeding, history

LEMMA UnsubscribeTypes == ASSUME TypeOK, NEW c \in Client, Unsubscribe(c) PROVE TypeOK'
<1>1. conn' \in [Client -> Lives]
  BY IdleIsALife, ConnTyped DEF Unsubscribe
<1>2. subscribers' \in [Channel -> SUBSET Client]
  BY Types DEF Unsubscribe
<1>3. watches' \subseteq Channel
  BY Types DEF Unsubscribe
<1>4. CASE Disposed
  <2>1. lane' \in Seq(Item)
    BY <1>4, TextsAre, ItemsAre, LaneGrows DEF Disposed
  <2>2. text' \in Text /\ base' \in Text /\ mirror' \in {0, opened'} /\ opened' \in 0..MaxOpens
    BY <1>4, Types, TextsAre DEF Disposed
  <2> QED
    BY <1>1, <1>2, <1>3, <2>1, <2>2 DEF Unsubscribe, TypeOK, history
<1>5. CASE UNCHANGED <<document, lane>>
  BY <1>1, <1>2, <1>3, <1>5 DEF Unsubscribe, TypeOK, document, history
<1> QED
  BY <1>4, <1>5 DEF Unsubscribe

LEMMA CloseConnectionTypes == ASSUME TypeOK, NEW c \in Client, CloseConnection(c) PROVE TypeOK'
<1>0. conn[c] \in Lives /\ "lost" \in Phase
  BY Types DEF Phase
<1>1. [conn[c] EXCEPT !.phase = "lost"] \in Lives
  BY <1>0, LivesHave
<1>2. conn' \in [Client -> Lives]
  BY <1>1, ConnTyped DEF CloseConnection
<1>3. subscribers' \in [Channel -> SUBSET Client]
  BY Types DEF CloseConnection
<1>4. used' \in Use
  BY UseGrows, Types DEF CloseConnection
<1> QED
  BY <1>2, <1>3, <1>4 DEF CloseConnection, TypeOK, document, watching, feeding, history

LEMMA ReconnectTypes == ASSUME TypeOK, NEW c \in Client, Reconnect(c) PROVE TypeOK'
<1>1. \A phase \in Phase : [conn[c] EXCEPT !.phase = phase] \in Lives
  BY Types, LivesHave
<1>2. conn' \in [Client -> Lives]
  BY <1>1, ConnTyped DEF Reconnect, Phase
<1>3. subscribers' \in [Channel -> SUBSET Client]
  BY Types DEF Reconnect
<1> QED
  BY <1>2, <1>3 DEF Reconnect, TypeOK, document, watching, feeding, history

LEMMA ChangedTypes ==
  ASSUME TypeOK, NEW after \in Text, Changed(after)
  PROVE  text' \in Text /\ lane' \in Seq(Item)
BY Types, ItemsAre, LaneGrows DEF Changed

LEMMA DispatchTypes ==
  ASSUME TypeOK, NEW c \in Client, NEW line \in ClientLine, DocumentDispatch(c, line) PROVE TypeOK'
<1>1. text' \in Text /\ lane' \in Seq(Item)
  BY Types, TextsAre, ChangedTypes DEF DocumentDispatch
<1>2. typed' \subseteq ClientLine
  BY Types, TextsAre DEF DocumentDispatch
<1>3. used' \in Use
  BY UseGrows, Types DEF DocumentDispatch
<1> QED
  BY <1>1, <1>2, <1>3 DEF DocumentDispatch, TypeOK, watching

LEMMA AgentWritesTypes == ASSUME TypeOK, NEW line \in AgentLine, AgentWrites(line) PROVE TypeOK'
<1>1. disk' \in Text
  BY Types, TextsAre DEF AgentWrites
<1>2. used' \in Use
  BY UseGrows, Types DEF AgentWrites
<1>3. missed' \in BOOLEAN
  BY Types DEF AgentWrites, Opening
<1> QED
  BY <1>1, <1>2, <1>3 DEF AgentWrites, TypeOK, document, watching, feeding

LEMMA WatchFiresTypes == ASSUME TypeOK, NEW ch \in Channel, WatchFires(ch) PROVE TypeOK'
<1>1. polled' \in [Channel -> Text] /\ reload' \in [Channel -> Optional(Text)]
  BY Types, Optionals DEF WatchFires
<1>2. raced' \in BOOLEAN
  BY Types DEF WatchFires, Storing
<1> QED
  BY <1>1, <1>2 DEF WatchFires, TypeOK, document, feeding

LEMMA ReloadTypes == ASSUME TypeOK, NEW ch \in Channel, ReloadMirror(ch) PROVE TypeOK'
<1>1. reload' \in [Channel -> Optional(Text)]
  BY Types, Optionals DEF ReloadMirror
<1>2. PICK fetched \in reload[ch] :
        IF mirror # ch \/ fetched = base
        THEN UNCHANGED <<text, base, lane, used>>
        ELSE Reconciled(fetched, IF text = base THEN fetched ELSE Merged(base, text, fetched))
  BY DEF ReloadMirror
<1>3. fetched \in Text
  BY Types, Optionals
<1> DEFINE target == IF text = base THEN fetched ELSE Merged(base, text, fetched)
<1>4. target \in Text
  BY <1>3, Types, TextsAre
<1>5. CASE UNCHANGED <<text, base, lane, used>>
  BY <1>1, <1>5 DEF ReloadMirror, TypeOK, history
<1>6. CASE Reconciled(fetched, target)
  <2> HIDE DEF target
  <2>1. base' \in Text
    BY <1>3, <1>6 DEF Reconciled
  <2>2. text' \in Text /\ lane' \in Seq(Item) /\ used' \in Use
    BY <1>4, <1>6, Types, UseGrows, ChangedTypes DEF Reconciled
  <2> QED
    BY <1>1, <2>1, <2>2 DEF ReloadMirror, TypeOK, history
<1> QED
  BY <1>2, <1>5, <1>6

LEMMA StoreReadTypes == ASSUME TypeOK, ChannelsWereMinted, NEW c \in Client, StoreRead(c) PROVE TypeOK'
<1>1. mirror \in Channel
  BY Types DEF StoreRead, ChannelsWereMinted, Held, Channel
<1>2. [phase |-> "read", channel |-> mirror, text |-> text] \in Request
  BY <1>1, Types, RequestFields
<1>3. store' \in [Client -> Optional(Request)]
  <2> DEFINE r == [phase |-> "read", channel |-> mirror, text |-> text]
  <2>1. r \in Request /\ store' = [store EXCEPT ![c] = {r}]
    BY <1>2 DEF StoreRead
  <2> HIDE DEF r
  <2>2. {r} \in Optional(Request)
    BY <2>1, Optionals
  <2> QED
    BY <2>1, <2>2, StoreTyped
<1>4. used' \in Use
  BY UseGrows, Types DEF StoreRead
<1>5. raced' \in BOOLEAN
  BY Types DEF StoreRead, Storing, Reloading, Opening
<1> QED
  BY <1>3, <1>4, <1>5 DEF StoreRead, TypeOK, document, watching, feeding

LEMMA StoreWriteTypes == ASSUME TypeOK, NEW c \in Client, StoreWrite(c) PROVE TypeOK'
<1>1. PICK request \in store[c] :
        /\ request.phase = "read"
        /\ \/ /\ disk' = request.text
              /\ store' = [store EXCEPT ![c] = {[request EXCEPT !.phase = "written"]}]
              /\ missed' = (missed \/ Opening)
           \/ /\ store' = [store EXCEPT ![c] = {}]
              /\ UNCHANGED <<disk, missed>>
        /\ UNCHANGED <<document, subscribers, watching, conn, feeding, used, typed, raced>>
  BY DEF StoreWrite
<1>2. request \in Request
  BY Types, Optionals
<1>3. {[request EXCEPT !.phase = "written"]} \in Optional(Request) /\ {} \in Optional(Request)
  BY <1>2, RequestsHave, Optionals
<1>4. store' \in [Client -> Optional(Request)]
  BY <1>1, <1>3, StoreTyped
<1>5. disk' \in Text
  <2>1. request.text \in Text
    BY <1>2, RequestsHave
  <2> QED
    BY <1>1, <2>1, Types
<1>6. missed' \in BOOLEAN
  BY <1>1, Types DEF Opening
<1> QED
  BY <1>1, <1>4, <1>5, <1>6 DEF TypeOK, document, watching, feeding

LEMMA StoreRecordTypes == ASSUME TypeOK, NEW c \in Client, StoreRecord(c) PROVE TypeOK'
<1>1. PICK request \in store[c] :
        /\ store' = [store EXCEPT ![c] = {}]
        /\ IF mirror = request.channel
           THEN base' = request.text /\ lane' = Append(lane, [kind |-> "save"])
           ELSE UNCHANGED <<base, lane>>
        /\ UNCHANGED <<disk, mirror, text, opened, subscribers, watching, conn, served, used, history>>
  BY DEF StoreRecord
<1>2. request \in Request
  BY Types, Optionals
<1>3. store' \in [Client -> Optional(Request)]
  BY <1>1, Optionals, StoreTyped
<1>4. base' \in Text
  <2>1. request.text \in Text
    BY <1>2, RequestsHave
  <2> QED
    BY <1>1, <2>1, Types
<1>5. lane' \in Seq(Item)
  BY <1>1, Types, TextsAre, ItemsAre, LaneGrows
<1> QED
  BY <1>1, <1>3, <1>4, <1>5 DEF TypeOK, watching, history

LEMMA ItemsHave ==
  ASSUME NEW item \in Item
  PROVE  /\ item.kind \in {"open", "change", "save", "close"}
         /\ item.kind \in {"open", "change"} => item.after \in Text
BY DEF Item

LEMMA FeedTypes == ASSUME TypeOK, FeedServers PROVE TypeOK'
<1>1. Head(lane) \in Item /\ lane' \in Seq(Item)
  BY Types DEF FeedServers
<1>2. served' \in Optional(Text)
  <2>1. served' = After(served, Head(lane))
    BY DEF FeedServers
  <2>2. CASE Head(lane).kind \in {"open", "change"}
    BY <1>1, <2>1, <2>2, ItemsHave, Optionals DEF After
  <2>3. CASE Head(lane).kind = "save"
    BY <2>1, <2>3, Types DEF After
  <2>4. CASE Head(lane).kind = "close"
    BY <2>1, <2>4, Optionals DEF After
  <2> QED
    BY <1>1, <2>2, <2>3, <2>4, ItemsHave
<1> QED
  BY <1>1, <1>2 DEF FeedServers, TypeOK, document, watching, history

-----------------------------------------------------------------------------
\* Names of channels, and the life of the document.

\* What of ChannelsWereMinted a step that mints nothing has to leave as it was.
LEMMA NothingMinted ==
  ASSUME TypeOK, ChannelsWereMinted, opened' = opened,
         \A c \in Client :
           \/ conn'[c] = conn[c]
           \/ conn'[c].phase # "arming" /\ (conn'[c].phase \in Held => conn'[c].channel \in 1..opened),
         \A c \in Client : \A r \in store'[c] : r.channel <= opened,
         \A ch \in watches' :
           \/ ch \in watches
           \/ ch <= opened /\ \A c \in Client : conn'[c].phase = "arming" => conn'[c].channel # ch,
         \A ch \in Channel : reload'[ch] # {} => reload[ch] # {} \/ ch \in watches
  PROVE  ChannelsWereMinted'
<1>1. \A c \in Client : conn'[c].phase \in Held => conn'[c].channel \in 1..opened'
  BY DEF ChannelsWereMinted
<1>2. \A c \in Client : \A r \in store'[c] : r.channel <= opened'
  OBVIOUS
<1>3. \A ch \in watches' : ch <= opened'
  BY DEF ChannelsWereMinted
<1>4. \A ch \in Channel : reload'[ch] # {} => ch <= opened'
  BY DEF ChannelsWereMinted
<1>5. \A c \in Client : conn'[c].phase = "arming" => conn'[c] = conn[c]
  OBVIOUS
<1>6. \A c, d \in Client :
        conn'[c].phase = "arming" /\ conn'[d].phase = "arming" /\ c # d
        => conn'[c].channel # conn'[d].channel
  BY <1>5 DEF ChannelsWereMinted
<1>7. \A c \in Client : conn'[c].phase = "arming" => conn'[c].channel \in Channel
  BY <1>1, Types DEF Held, Channel
<1>8. \A c \in Client : conn'[c].phase = "arming" =>
        conn'[c].channel \notin watches' /\ reload'[conn'[c].channel] = {}
  BY <1>5, <1>7 DEF ChannelsWereMinted
<1> QED
  BY <1>1, <1>2, <1>3, <1>4, <1>6, <1>8 DEF ChannelsWereMinted

\* A life that holds a channel holds one of Channel.
LEMMA HeldIsAChannel ==
  ASSUME TypeOK, ChannelsWereMinted, NEW c \in Client, conn[c].phase \in Held
  PROVE  conn[c].channel \in 1..opened /\ conn[c].channel \in Channel
BY Types DEF ChannelsWereMinted, Channel

\* Subscribers of the mirror come and go, and it stays as long as it has some.
LEMMA MirrorStays ==
  ASSUME TypeOK, SubscribersHoldTheirDocument, mirror' = mirror,
         \A ch \in Channel : subscribers'[ch] # {} => subscribers[ch] # {} \/ mirror = ch
  PROVE  SubscribersHoldTheirDocument'
BY DEF SubscribersHoldTheirDocument

LEMMA OpenReadKeeps == ASSUME MirrorInv, NEW c \in Client, OpenRead(c) PROVE MirrorInv'
<1>1. conn'[c] = Life("reading", 0, disk) /\ \A d \in Client : d # c => conn'[d] = conn[d]
  BY Types DEF MirrorInv, OpenRead
<1>2. conn'[c].phase = "reading"
  BY <1>1, Types, LifeFields DEF MirrorInv, Phase
<1>3. ChannelsWereMinted'
  <2>1. /\ opened' = opened /\ store' = store /\ watches' = watches /\ reload' = reload
    BY DEF OpenRead, document, watching
  <2> QED
    BY <1>1, <1>2, <2>1, NothingMinted DEF MirrorInv, ChannelsWereMinted, Held
<1>4. SubscribersHoldTheirDocument'
  BY MirrorStays DEF MirrorInv, OpenRead, document
<1> QED
  BY <1>3, <1>4, OpenReadTypes DEF MirrorInv

LEMMA OpenInsertKeeps == ASSUME MirrorInv, NEW c \in Client, OpenInsert(c) PROVE MirrorInv'
<1>0. TypeOK /\ ChannelsWereMinted /\ SubscribersHoldTheirDocument /\ TypeOK'
  BY OpenInsertTypes DEF MirrorInv
<1>1. /\ store' = store /\ watches' = watches /\ reload' = reload /\ subscribers' = subscribers
  BY DEF OpenInsert, watching
<1>2. CASE mirror # 0
  <2>1. mirror \in 1..opened
    BY <1>0, <1>2, Types
  <2>2. conn'[c] = Life("opened", mirror, {}) /\ \A d \in Client : d # c => conn'[d] = conn[d]
    BY <1>0, <1>2, Types DEF OpenInsert
  <2>3. conn'[c].phase = "opened" /\ conn'[c].channel = mirror
    BY <1>0, <2>1, <2>2, Types, TextsAre, LifeFields DEF Phase
  <2>4. opened' = opened /\ mirror' = mirror
    BY <1>2 DEF OpenInsert, document
  <2>5. ChannelsWereMinted'
    BY <1>0, <1>1, <2>1, <2>2, <2>3, <2>4, NothingMinted DEF ChannelsWereMinted
  <2> QED
    BY <1>0, <1>1, <2>4, <2>5, MirrorStays DEF MirrorInv
<1>3. CASE mirror = 0
  <2>0. conn[c].phase = "reading" /\ Minted(c)
    BY <1>3 DEF OpenInsert
  <2>1. opened' = opened + 1 /\ opened' \in Channel /\ opened \in Nat
    BY <1>0, <1>3, <2>0, MintedTypes, Types DEF Channel
  <2>2. conn'[c] = Life("arming", opened', {}) /\ \A d \in Client : d # c => conn'[d] = conn[d]
    BY <1>0, <1>3, <2>0, <2>1, MintedTypes, Types DEF Minted
  <2>3. conn'[c].phase = "arming" /\ conn'[c].channel = opened'
    BY <2>1, <2>2, TextsAre, LifeFields DEF Phase, Channel
  <2>4. \A d \in Client : d # c /\ conn'[d].phase \in Held => conn'[d].channel \in 1..opened
    BY <1>0, <2>2 DEF ChannelsWereMinted
  <2>5. /\ opened' \notin watches /\ reload[opened'] = {}
    BY <1>0, <2>1 DEF ChannelsWereMinted
  <2>6. ChannelsWereMinted'
    <3>1. \A d \in Client : conn'[d].phase \in Held => conn'[d].channel \in 1..opened'
      BY <2>1, <2>3, <2>4
    <3>2. \A d \in Client : \A r \in store'[d] : r.channel <= opened'
      <4>1. \A d \in Client : \A r \in store[d] : r.channel \in Nat /\ r.channel <= opened
        <5>1. \A d \in Client : \A r \in store[d] : r \in Request
          BY <1>0, Types, Optionals
        <5>2. \A r \in Request : r.channel \in Channel
          BY DEF Request
        <5>3. \A ch \in Channel : ch \in Nat
          BY DEF Channel
        <5> QED
          BY <1>0, <5>1, <5>2, <5>3 DEF ChannelsWereMinted
      <4> QED
        BY <4>1, <1>1, <2>1
    <3>3. \A ch \in watches' : ch <= opened'
      BY <1>0, <1>1, <2>1, Types DEF ChannelsWereMinted, Channel
    <3>4. \A ch \in Channel : reload'[ch] # {} => ch <= opened'
      BY <1>0, <1>1, <2>1 DEF ChannelsWereMinted, Channel
    <3>5. \A d, e \in Client :
            conn'[d].phase = "arming" /\ conn'[e].phase = "arming" /\ d # e
            => conn'[d].channel # conn'[e].channel
      <4>1. \A d \in Client : d # c /\ conn'[d].phase = "arming" => conn'[d].channel # opened'
        BY <2>1, <2>4 DEF Held
      <4> QED
        BY <1>0, <4>1, <2>2, <2>3 DEF ChannelsWereMinted
    <3>6. \A d \in Client : conn'[d].phase = "arming" =>
            conn'[d].channel \notin watches' /\ reload'[conn'[d].channel] = {}
      BY <1>0, <1>1, <2>2, <2>3, <2>5 DEF ChannelsWereMinted
    <3> QED
      BY <3>1, <3>2, <3>3, <3>4, <3>5, <3>6 DEF ChannelsWereMinted
  <2>7. SubscribersHoldTheirDocument'
    BY <1>0, <1>1, <1>3 DEF SubscribersHoldTheirDocument, Channel
  <2> QED
    BY <1>0, <2>6, <2>7 DEF MirrorInv
<1> QED
  BY <1>2, <1>3

LEMMA WatchMirrorKeeps == ASSUME MirrorInv, NEW c \in Client, WatchMirror(c) PROVE MirrorInv'
<1> DEFINE ch == conn[c].channel
<1>0. TypeOK /\ ChannelsWereMinted /\ SubscribersHoldTheirDocument /\ TypeOK'
  BY WatchMirrorTypes DEF MirrorInv
<1>1. ch \in 1..opened /\ ch \in Channel
  BY <1>0, HeldIsAChannel DEF WatchMirror, Held
<1>2. conn'[c] = Life("opened", ch, {}) /\ \A d \in Client : d # c => conn'[d] = conn[d]
  BY <1>0, Types DEF WatchMirror
<1>3. conn'[c].phase = "opened" /\ conn'[c].channel = ch
  BY <1>1, <1>2, TextsAre, LifeFields DEF Phase, Channel
<1>4. \A d \in Client : conn'[d].phase = "arming" => conn'[d].channel # ch
  BY <1>0, <1>2, <1>3 DEF WatchMirror, ChannelsWereMinted
<1>5. /\ opened' = opened /\ store' = store /\ watches' = watches \cup {ch} /\ reload' = reload
  BY DEF WatchMirror, document
<1>6. ChannelsWereMinted'
  <2>1. \A d \in Client : conn'[d] = conn[d] \/
          (conn'[d].phase # "arming" /\ (conn'[d].phase \in Held => conn'[d].channel \in 1..opened))
    BY <1>1, <1>2, <1>3
  <2>2. \A k \in watches' : k \in watches \/
          (k <= opened /\ \A d \in Client : conn'[d].phase = "arming" => conn'[d].channel # k)
    BY <1>1, <1>4, <1>5
  <2>3. \A d \in Client : \A r \in store'[d] : r.channel <= opened
    BY <1>0, <1>5 DEF ChannelsWereMinted
  <2> QED
    BY <1>0, <1>5, <2>1, <2>2, <2>3, NothingMinted
<1>7. SubscribersHoldTheirDocument'
  BY <1>0, MirrorStays DEF WatchMirror, document
<1> QED
  BY <1>0, <1>6, <1>7 DEF MirrorInv

\* A life that goes on under the channel it holds, or is over, mints nothing.
LEMMA LivesGoOn ==
  ASSUME TypeOK, ChannelsWereMinted, NEW c \in Client, NEW l, conn[c].phase \in Held,
         conn' = [conn EXCEPT ![c] = l], l.phase # "arming",
         l.phase \in Held => l.channel = conn[c].channel,
         watches' \subseteq watches, UNCHANGED <<opened, store, reload>>
  PROVE  ChannelsWereMinted'
<1>1. conn'[c] = l /\ \A d \in Client : d # c => conn'[d] = conn[d]
  BY Types
<1>2. \A d \in Client : conn'[d] = conn[d] \/
        (conn'[d].phase # "arming" /\ (conn'[d].phase \in Held => conn'[d].channel \in 1..opened))
  BY <1>1, HeldIsAChannel
<1>3. \A d \in Client : \A r \in store'[d] : r.channel <= opened
  BY DEF ChannelsWereMinted
<1> QED
  BY <1>2, <1>3, NothingMinted

LEMMA SubscribeKeeps == ASSUME MirrorInv, NEW c \in Client, SubscribeDocument(c) PROVE MirrorInv'
<1> DEFINE ch == conn[c].channel
<1>0. TypeOK /\ ChannelsWereMinted /\ SubscribersHoldTheirDocument /\ TypeOK'
  BY SubscribeTypes DEF MirrorInv
<1>1. conn[c].phase \in Held
  BY DEF SubscribeDocument, Held
<1>2. ch \in 1..opened /\ ch \in Channel /\ ch \in 0..MaxOpens
  BY <1>0, <1>1, HeldIsAChannel, Types DEF Channel
<1>3. \A phase \in {"subscribed", "refused"} :
        Life(phase, ch, {}).phase = phase /\ Life(phase, ch, {}).channel = ch
  BY <1>2, TextsAre, LifeFields DEF Phase
<1>4. UNCHANGED <<opened, store, reload, watches, mirror>>
  BY DEF SubscribeDocument, document, watching
<1>5. ChannelsWereMinted'
  BY <1>0, <1>1, <1>3, <1>4, LivesGoOn DEF SubscribeDocument
<1>6. SubscribersHoldTheirDocument'
  <2>1. \A k \in Channel : subscribers'[k] # {} => subscribers[k] # {} \/ mirror = k
    BY <1>0, <1>2, Types DEF SubscribeDocument
  <2> QED
    BY <1>0, <1>4, <2>1, MirrorStays
<1> QED
  BY <1>0, <1>5, <1>6 DEF MirrorInv

LEMMA AbandonKeeps == ASSUME MirrorInv, NEW c \in Client, Abandon(c) PROVE MirrorInv'
<1>0. TypeOK /\ ChannelsWereMinted /\ SubscribersHoldTheirDocument /\ TypeOK'
  BY AbandonTypes DEF MirrorInv
<1>1. ChannelsWereMinted'
  <2>1. conn[c].phase \in Held /\ conn' = [conn EXCEPT ![c] = Idle] /\ watches' = watches
        /\ UNCHANGED <<opened, store, reload>>
    BY DEF Abandon, Held, document, watching
  <2> QED
    BY <1>0, <2>1, IdleIsALife, LivesGoOn
<1>2. SubscribersHoldTheirDocument'
  BY <1>0, MirrorStays DEF Abandon, document
<1> QED
  BY <1>0, <1>1, <1>2 DEF MirrorInv

LEMMA UnsubscribeKeeps == ASSUME MirrorInv, NEW c \in Client, Unsubscribe(c) PROVE MirrorInv'
<1> DEFINE ch == conn[c].channel
<1>0. TypeOK /\ ChannelsWereMinted /\ SubscribersHoldTheirDocument /\ TypeOK'
  BY UnsubscribeTypes DEF MirrorInv
<1>1. conn[c].phase \in Held
  BY DEF Unsubscribe, Held
<1>2. ch \in Channel
  BY <1>0, <1>1, HeldIsAChannel
<1>3. ChannelsWereMinted'
  <2>1. conn' = [conn EXCEPT ![c] = Idle] /\ watches' \subseteq watches
        /\ UNCHANGED <<opened, store, reload>>
    BY DEF Unsubscribe, document, Disposed
  <2> QED
    BY <1>0, <1>1, <2>1, IdleIsALife, LivesGoOn
<1>4. \A k \in Channel : subscribers'[k] \subseteq subscribers[k]
  BY <1>0, Types DEF Unsubscribe
<1>5. SubscribersHoldTheirDocument'
  <2>1. CASE subscribers'[ch] = {} /\ mirror = ch
    BY <1>0, <1>4, <2>1 DEF SubscribersHoldTheirDocument
  <2>2. CASE mirror' = mirror
    BY <1>0, <1>4, <2>2, MirrorStays
  <2> QED
    BY <2>1, <2>2 DEF Unsubscribe, document
<1> QED
  BY <1>0, <1>3, <1>5 DEF MirrorInv

LEMMA CloseConnectionKeeps == ASSUME MirrorInv, NEW c \in Client, CloseConnection(c) PROVE MirrorInv'
<1>0. TypeOK /\ ChannelsWereMinted /\ SubscribersHoldTheirDocument /\ TypeOK'
  BY CloseConnectionTypes DEF MirrorInv
<1>1. conn[c].phase \in Held /\ conn' = [conn EXCEPT ![c] = [conn[c] EXCEPT !.phase = "lost"]]
      /\ UNCHANGED <<opened, store, reload, watches, mirror>>
  BY DEF CloseConnection, Held, document, watching
<1>2. conn[c] \in Lives /\ "lost" \in Phase
  BY <1>0, Types DEF Phase
<1>3. [conn[c] EXCEPT !.phase = "lost"].phase = "lost"
      /\ [conn[c] EXCEPT !.phase = "lost"].channel = conn[c].channel
  BY <1>2, LivesHave
<1>4. ChannelsWereMinted'
  BY <1>0, <1>1, <1>3, LivesGoOn
<1>5. SubscribersHoldTheirDocument'
  <2>1. \A k \in Channel : subscribers'[k] # {} => subscribers[k] # {}
    BY DEF CloseConnection
  <2> QED
    BY <1>0, <1>1, <2>1, MirrorStays
<1> QED
  BY <1>0, <1>4, <1>5 DEF MirrorInv

LEMMA ReconnectKeeps == ASSUME MirrorInv, NEW c \in Client, Reconnect(c) PROVE MirrorInv'
<1> DEFINE ch == conn[c].channel
<1>0. TypeOK /\ ChannelsWereMinted /\ SubscribersHoldTheirDocument /\ TypeOK'
  BY ReconnectTypes DEF MirrorInv
<1>1. conn[c].phase \in Held /\ UNCHANGED <<opened, store, reload, watches, mirror>>
  BY DEF Reconnect, Held, document, watching
<1>2. PICK phase \in {"subscribed", "stranded"} : conn' = [conn EXCEPT ![c] = [conn[c] EXCEPT !.phase = phase]]
  BY DEF Reconnect
<1>3. conn[c] \in Lives /\ phase \in Phase
  BY <1>0, Types DEF Phase
<1>4. [conn[c] EXCEPT !.phase = phase].phase = phase
      /\ [conn[c] EXCEPT !.phase = phase].channel = conn[c].channel
  BY <1>3, LivesHave
<1>5. ChannelsWereMinted'
  BY <1>0, <1>1, <1>2, <1>4, LivesGoOn
<1>6. SubscribersHoldTheirDocument'
  <2>1. ch \in Channel
    BY <1>0, <1>1, HeldIsAChannel
  <2>2. \A k \in Channel : subscribers'[k] # {} => subscribers[k] # {} \/ mirror = k
    BY <1>0, <2>1, Types DEF Reconnect
  <2> QED
    BY <1>0, <1>1, <2>2, MirrorStays
<1> QED
  BY <1>0, <1>5, <1>6 DEF MirrorInv

\* A step that touches no life, row, watcher or mirror.
LEMMA LivesStay ==
  ASSUME MirrorInv, TypeOK', UNCHANGED <<opened, mirror, conn, watches, subscribers>>,
         \A c \in Client : \A r \in store'[c] : r.channel <= opened,
         \A ch \in Channel : reload'[ch] # {} => reload[ch] # {} \/ ch \in watches
  PROVE  MirrorInv'
<1>1. ChannelsWereMinted'
  BY NothingMinted DEF MirrorInv
<1>2. SubscribersHoldTheirDocument'
  BY MirrorStays DEF MirrorInv
<1> QED
  BY <1>1, <1>2 DEF MirrorInv

LEMMA StoresStay ==
  ASSUME MirrorInv, TypeOK', UNCHANGED <<opened, mirror, conn, watches, subscribers, store, reload>>
  PROVE  MirrorInv'
<1>1. \A c \in Client : \A r \in store'[c] : r.channel <= opened
  BY DEF MirrorInv, ChannelsWereMinted
<1> QED
  BY <1>1, LivesStay

LEMMA DispatchKeeps ==
  ASSUME MirrorInv, NEW c \in Client, NEW line \in ClientLine, DocumentDispatch(c, line) PROVE MirrorInv'
<1>1. TypeOK'
  BY DispatchTypes DEF MirrorInv
<1> QED
  BY <1>1, StoresStay DEF DocumentDispatch, watching

LEMMA AgentWritesKeeps == ASSUME MirrorInv, NEW line \in AgentLine, AgentWrites(line) PROVE MirrorInv'
<1>1. TypeOK'
  BY AgentWritesTypes DEF MirrorInv
<1> QED
  BY <1>1, StoresStay DEF AgentWrites, watching, document

LEMMA FeedKeeps == ASSUME MirrorInv, FeedServers PROVE MirrorInv'
<1>1. TypeOK'
  BY FeedTypes DEF MirrorInv
<1> QED
  BY <1>1, StoresStay DEF FeedServers, watching, document

LEMMA WatchFiresKeeps == ASSUME MirrorInv, NEW ch \in Channel, WatchFires(ch) PROVE MirrorInv'
<1>1. TypeOK' /\ TypeOK
  BY WatchFiresTypes DEF MirrorInv
<1>2. UNCHANGED <<opened, mirror, conn, watches, subscribers, store>>
  BY DEF WatchFires, document
<1>3. \A k \in Channel : reload'[k] # {} => reload[k] # {} \/ k \in watches
  BY <1>1, Types DEF WatchFires
<1>4. \A c \in Client : \A r \in store'[c] : r.channel <= opened
  BY <1>2 DEF MirrorInv, ChannelsWereMinted
<1> QED
  BY <1>1, <1>2, <1>3, <1>4, LivesStay

LEMMA ReloadKeeps == ASSUME MirrorInv, NEW ch \in Channel, ReloadMirror(ch) PROVE MirrorInv'
<1>1. TypeOK' /\ TypeOK
  BY ReloadTypes DEF MirrorInv
<1>2. UNCHANGED <<opened, mirror, conn, watches, subscribers, store>>
  BY DEF ReloadMirror, document
<1>3. \A k \in Channel : reload'[k] # {} => reload[k] # {} \/ k \in watches
  BY <1>1, Types DEF ReloadMirror
<1>4. \A c \in Client : \A r \in store'[c] : r.channel <= opened
  BY <1>2 DEF MirrorInv, ChannelsWereMinted
<1> QED
  BY <1>1, <1>2, <1>3, <1>4, LivesStay

LEMMA StoreReadKeeps == ASSUME MirrorInv, NEW c \in Client, StoreRead(c) PROVE MirrorInv'
<1>1. TypeOK /\ TypeOK' /\ ChannelsWereMinted
  BY StoreReadTypes DEF MirrorInv
<1>2. UNCHANGED <<opened, mirror, conn, watches, subscribers, reload>>
  BY DEF StoreRead, document, watching
<1>3. mirror \in Channel /\ mirror <= opened
  BY <1>1, HeldIsAChannel, Types DEF StoreRead, Held
<1> DEFINE r == [phase |-> "read", channel |-> mirror, text |-> text]
<1>4. r.channel = mirror /\ store' = [store EXCEPT ![c] = {r}]
  BY DEF StoreRead
<1> HIDE DEF r
<1>5. \A d \in Client : \A q \in store'[d] : q.channel <= opened
  BY <1>1, <1>3, <1>4, Types DEF ChannelsWereMinted
<1> QED
  BY <1>1, <1>2, <1>5, LivesStay

LEMMA StoreWriteKeeps == ASSUME MirrorInv, NEW c \in Client, StoreWrite(c) PROVE MirrorInv'
<1>1. TypeOK /\ TypeOK' /\ ChannelsWereMinted
  BY StoreWriteTypes DEF MirrorInv
<1>2. UNCHANGED <<opened, mirror, conn, watches, subscribers, reload>>
  BY DEF StoreWrite, document, watching
<1>3. PICK request \in store[c] :
        store' = [store EXCEPT ![c] = {[request EXCEPT !.phase = "written"]}] \/ store' = [store EXCEPT ![c] = {}]
  BY DEF StoreWrite
<1>4. request \in Request
  BY <1>1, Types, Optionals
<1> DEFINE r == [request EXCEPT !.phase = "written"]
<1>5. r.channel = request.channel
  BY <1>4, RequestsHave
<1> HIDE DEF r
<1>6. store' = [store EXCEPT ![c] = {r}] \/ store' = [store EXCEPT ![c] = {}]
  BY <1>3 DEF r
<1>7. \A d \in Client : \A q \in store'[d] : q.channel <= opened
  BY <1>1, <1>5, <1>6, Types DEF ChannelsWereMinted
<1> QED
  BY <1>1, <1>2, <1>7, LivesStay

LEMMA StoreRecordKeeps == ASSUME MirrorInv, NEW c \in Client, StoreRecord(c) PROVE MirrorInv'
<1>1. TypeOK /\ TypeOK' /\ ChannelsWereMinted
  BY StoreRecordTypes DEF MirrorInv
<1>2. UNCHANGED <<opened, mirror, conn, watches, subscribers, reload>>
  BY DEF StoreRecord, document, watching
<1>3. store' = [store EXCEPT ![c] = {}]
  BY DEF StoreRecord
<1>4. \A d \in Client : \A q \in store'[d] : q.channel <= opened
  BY <1>1, <1>3, Types DEF ChannelsWereMinted
<1> QED
  BY <1>1, <1>2, <1>4, LivesStay

-----------------------------------------------------------------------------

LEMMA MirrorStarts == Init => MirrorInv
<1> SUFFICES ASSUME Init PROVE MirrorInv
  OBVIOUS
<1>1. TypeOK
  <2>1. used \in Use
    BY LimitsAssumption DEF Init, Use
  <2>2. conn \in [Client -> Lives]
    BY IdleIsALife DEF Init
  <2>3. /\ disk \in Text /\ text \in Text /\ base \in Text /\ typed \subseteq ClientLine
        /\ watches \subseteq Channel
    BY TextsAre DEF Init
  <2>7. mirror \in {0, opened} /\ opened \in 0..MaxOpens
    BY LimitsAssumption DEF Init
  <2>8. raced \in BOOLEAN /\ missed \in BOOLEAN
    BY DEF Init
  <2>4. subscribers \in [Channel -> SUBSET Client] /\ polled \in [Channel -> Text]
    BY TextsAre DEF Init
  <2>5. reload \in [Channel -> Optional(Text)] /\ store \in [Client -> Optional(Request)]
    BY Optionals DEF Init
  <2>6. lane \in Seq(Item) /\ served \in Optional(Text)
    BY Optionals DEF Init
  <2> QED
    BY <2>1, <2>2, <2>3, <2>4, <2>5, <2>6, <2>7, <2>8 DEF TypeOK
<1>2. ChannelsWereMinted
  BY IdleIsALife DEF Init, ChannelsWereMinted, Held
<1>3. SubscribersHoldTheirDocument
  BY DEF Init, SubscribersHoldTheirDocument
<1> QED
  BY <1>1, <1>2, <1>3 DEF MirrorInv

LEMMA MirrorStep == MirrorInv /\ [Next]_vars => MirrorInv'
<1> SUFFICES ASSUME MirrorInv, [Next]_vars PROVE MirrorInv'
  OBVIOUS
<1>1. ASSUME NEW c \in Client, OpenRead(c) PROVE MirrorInv'
  BY <1>1, OpenReadKeeps
<1>2. ASSUME NEW c \in Client, OpenInsert(c) PROVE MirrorInv'
  BY <1>2, OpenInsertKeeps
<1>3. ASSUME NEW c \in Client, WatchMirror(c) PROVE MirrorInv'
  BY <1>3, WatchMirrorKeeps
<1>4. ASSUME NEW c \in Client, SubscribeDocument(c) PROVE MirrorInv'
  BY <1>4, SubscribeKeeps
<1>5. ASSUME NEW c \in Client, Abandon(c) PROVE MirrorInv'
  BY <1>5, AbandonKeeps
<1>6. ASSUME NEW c \in Client, Unsubscribe(c) PROVE MirrorInv'
  BY <1>6, UnsubscribeKeeps
<1>7. ASSUME NEW c \in Client, CloseConnection(c) PROVE MirrorInv'
  BY <1>7, CloseConnectionKeeps
<1>8. ASSUME NEW c \in Client, Reconnect(c) PROVE MirrorInv'
  BY <1>8, ReconnectKeeps
<1>9. ASSUME NEW c \in Client, NEW line \in ClientLine, DocumentDispatch(c, line) PROVE MirrorInv'
  BY <1>9, DispatchKeeps
<1>10. ASSUME NEW c \in Client, StoreRead(c) PROVE MirrorInv'
  BY <1>10, StoreReadKeeps
<1>11. ASSUME NEW c \in Client, StoreWrite(c) PROVE MirrorInv'
  BY <1>11, StoreWriteKeeps
<1>12. ASSUME NEW c \in Client, StoreRecord(c) PROVE MirrorInv'
  BY <1>12, StoreRecordKeeps
<1>13. ASSUME NEW line \in AgentLine, AgentWrites(line) PROVE MirrorInv'
  BY <1>13, AgentWritesKeeps
<1>14. ASSUME NEW ch \in Channel, WatchFires(ch) PROVE MirrorInv'
  BY <1>14, WatchFiresKeeps
<1>15. ASSUME NEW ch \in Channel, ReloadMirror(ch) PROVE MirrorInv'
  BY <1>15, ReloadKeeps
<1>16. ASSUME FeedServers PROVE MirrorInv'
  BY <1>16, FeedKeeps
<1>17. ASSUME UNCHANGED vars PROVE MirrorInv'
  <2>1. TypeOK'
    BY <1>17 DEF vars, document, watching, feeding, history, MirrorInv, TypeOK
  <2> QED
    BY <1>17, <2>1, StoresStay DEF vars, document, watching
<1> QED
  BY <1>1, <1>2, <1>3, <1>4, <1>5, <1>6, <1>7, <1>8, <1>9, <1>10, <1>11, <1>12, <1>13,
     <1>14, <1>15, <1>16, <1>17 DEF Next

\* However clients open, close, lose their connections and come back, a
\* document with a subscriber is there (Host::open_document, unsubscribe).
THEOREM MirrorIsSafe == Spec => []MirrorInv
<1> QED
  BY MirrorStarts, MirrorStep, PTL DEF Spec

-----------------------------------------------------------------------------
\* The lane.

LEMMA OneCopyBefore ==
  ASSUME NEW items \in Seq(Item), NEW start, NEW i \in 1..(Len(items) + 1), NEW one, NEW two,
         CopyBefore(items, start, i, one), CopyBefore(items, start, i, two)
  PROVE  one = two
<1>1. PICK j \in 0..(i - 1) :
        /\ \A k \in (j + 1)..(i - 1) : items[k].kind = "save"
        /\ IF j = 0 THEN one = start ELSE items[j].kind # "save" /\ one = After({}, items[j])
  BY DEF CopyBefore
<1>2. PICK m \in 0..(i - 1) :
        /\ \A k \in (m + 1)..(i - 1) : items[k].kind = "save"
        /\ IF m = 0 THEN two = start ELSE items[m].kind # "save" /\ two = After({}, items[m])
  BY DEF CopyBefore
<1>3. ~(j < m)
  BY <1>1, <1>2
<1>4. ~(m < j)
  BY <1>1, <1>2
<1>5. j = m
  BY <1>3, <1>4
<1> QED
  BY <1>1, <1>2, <1>5

\* What an appended item finds.
LEMMA CopyBeforeAppended ==
  ASSUME NEW items \in Seq(Item), NEW item \in Item, NEW start,
         NEW i \in 1..(Len(items) + 1), NEW copy
  PROVE  CopyBefore(Append(items, item), start, i, copy) <=> CopyBefore(items, start, i, copy)
<1> DEFINE longer == Append(items, item)
<1>1. \A k \in 1..(i - 1) : longer[k] = items[k]
  OBVIOUS
<1> HIDE DEF longer
<1>2. \A j \in 0..(i - 1) :
        (\A k \in (j + 1)..(i - 1) : longer[k].kind = "save")
        <=> (\A k \in (j + 1)..(i - 1) : items[k].kind = "save")
  BY <1>1
<1>3. \A j \in 0..(i - 1) : j # 0 => longer[j] = items[j]
  BY <1>1
<1>4. CopyBefore(longer, start, i, copy) <=> CopyBefore(items, start, i, copy)
  BY <1>2, <1>3 DEF CopyBefore
<1> QED
  BY <1>4 DEF longer

\* What an appended item leaves.
LEMMA CopyAfterAppended ==
  ASSUME NEW items \in Seq(Item), NEW item \in Item, NEW start, NEW copy,
         IF item.kind = "save" THEN CopyBefore(items, start, Len(items) + 1, copy)
         ELSE copy = After({}, item)
  PROVE  CopyBefore(Append(items, item), start, Len(items) + 2, copy)
<1> DEFINE longer == Append(items, item)
           n == Len(items)
<1>1. n \in Nat /\ (\A k \in 1..n : longer[k] = items[k]) /\ longer[n + 1] = item
  OBVIOUS
<1> HIDE DEF longer, n
<1>2. CASE item.kind # "save"
  <2>1. n + 1 \in 0..(n + 1) /\ n + 1 # 0 /\ \A k \in (n + 2)..(n + 1) : longer[k].kind = "save"
    BY <1>1
  <2>2. longer[n + 1].kind # "save" /\ copy = After({}, longer[n + 1])
    BY <1>1, <1>2
  <2>3. \E j \in 0..(n + 2 - 1) :
          /\ \A k \in (j + 1)..(n + 2 - 1) : longer[k].kind = "save"
          /\ IF j = 0 THEN copy = start ELSE longer[j].kind # "save" /\ copy = After({}, longer[j])
    BY <1>1, <2>1, <2>2
  <2> QED
    BY <2>3 DEF CopyBefore, longer, n
<1>3. CASE item.kind = "save"
  <2>1. PICK j \in 0..(n + 1 - 1) :
          /\ \A k \in (j + 1)..(n + 1 - 1) : items[k].kind = "save"
          /\ IF j = 0 THEN copy = start ELSE items[j].kind # "save" /\ copy = After({}, items[j])
    BY <1>3 DEF CopyBefore, n
  <2>2. j \in 0..(n + 2 - 1)
    BY <1>1, <2>1
  <2>3. ASSUME NEW k \in (j + 1)..(n + 2 - 1) PROVE longer[k].kind = "save"
    <3>1. CASE k \in (j + 1)..n
      BY <1>1, <2>1, <3>1
    <3>2. CASE k = n + 1
      BY <1>1, <1>3, <3>2
    <3> QED
      BY <1>1, <2>1, <3>1, <3>2
  <2>4. IF j = 0 THEN copy = start ELSE longer[j].kind # "save" /\ copy = After({}, longer[j])
    BY <1>1, <2>1
  <2> QED
    BY <2>2, <2>3, <2>4 DEF CopyBefore, longer, n
<1> QED
  BY <1>2, <1>3

\* The feeder takes the first item.
LEMMA CopyBeforeTail ==
  ASSUME NEW items \in Seq(Item), items # <<>>, NEW start, NEW i \in 1..Len(items), NEW copy
  PROVE  CopyBefore(Tail(items), After(start, Head(items)), i, copy)
         <=> CopyBefore(items, start, i + 1, copy)
<1> DEFINE rest == Tail(items)
           next == After(start, Head(items))
           n == Len(items)
<1>1. n \in Nat /\ n > 0 /\ \A k \in 1..(n - 1) : rest[k] = items[k + 1]
  OBVIOUS
<1>2. /\ items[1].kind # "save" => next = After({}, items[1])
      /\ items[1].kind = "save" => next = start
  <2>1. items[1] \in Item /\ Head(items) = items[1]
    OBVIOUS
  <2> QED
    BY <2>1, ItemsHave DEF After
<1> HIDE DEF rest, next
<1>3. ASSUME CopyBefore(rest, next, i, copy) PROVE CopyBefore(items, start, i + 1, copy)
  <2>1. PICK j \in 0..(i - 1) :
          /\ \A k \in (j + 1)..(i - 1) : rest[k].kind = "save"
          /\ IF j = 0 THEN copy = next ELSE rest[j].kind # "save" /\ copy = After({}, rest[j])
    BY <1>3 DEF CopyBefore
  <2>2. ASSUME NEW k \in (j + 2)..i PROVE items[k].kind = "save"
    <3>1. k - 1 \in (j + 1)..(i - 1) /\ k - 1 \in 1..(n - 1) /\ k - 1 + 1 = k
      BY <2>1
    <3>2. rest[k - 1] = items[k]
      BY <1>1, <3>1
    <3> QED
      BY <2>1, <3>1, <3>2
  <2>3. CASE j # 0
    <3>1. j \in 1..(n - 1) /\ rest[j] = items[j + 1] /\ j + 1 \in 0..i /\ j + 1 # 0
      BY <1>1, <2>1, <2>3
    <3> QED
      BY <2>1, <2>2, <2>3, <3>1 DEF CopyBefore
  <2>4. CASE j = 0 /\ items[1].kind # "save"
    <3>1. 1 \in 0..i /\ copy = After({}, items[1]) /\ \A k \in (1 + 1)..i : items[k].kind = "save"
      BY <1>2, <2>1, <2>2, <2>4
    <3> QED
      BY <2>4, <3>1 DEF CopyBefore
  <2>5. CASE j = 0 /\ items[1].kind = "save"
    <3>1. copy = start /\ \A k \in (0 + 1)..i : items[k].kind = "save"
      BY <1>2, <2>1, <2>2, <2>5
    <3>2. 0 \in 0..i
      OBVIOUS
    <3> QED
      BY <3>1, <3>2 DEF CopyBefore
  <2> QED
    BY <2>3, <2>4, <2>5
<1>4. ASSUME CopyBefore(items, start, i + 1, copy) PROVE CopyBefore(rest, next, i, copy)
  <2>1. PICK j \in 0..(i + 1 - 1) :
          /\ \A k \in (j + 1)..(i + 1 - 1) : items[k].kind = "save"
          /\ IF j = 0 THEN copy = start ELSE items[j].kind # "save" /\ copy = After({}, items[j])
    BY <1>4 DEF CopyBefore
  <2>2. ASSUME NEW k \in j..(i - 1), k # 0 PROVE rest[k].kind = "save"
    <3>1. k \in 1..(n - 1) /\ k + 1 \in (j + 1)..(i + 1 - 1)
      BY <2>1, <2>2
    <3> QED
      BY <1>1, <2>1, <3>1
  <2>3. CASE j \in {0, 1}
    <3>1. copy = next
      BY <1>2, <2>1, <2>3
    <3>2. 0 \in 0..(i - 1) /\ \A k \in (0 + 1)..(i - 1) : rest[k].kind = "save"
      BY <2>2, <2>3
    <3> QED
      BY <3>1, <3>2 DEF CopyBefore
  <2>4. CASE j > 1
    <3>1. j - 1 \in 0..(i - 1) /\ j - 1 # 0 /\ j - 1 \in 1..(n - 1) /\ j - 1 + 1 = j
      BY <2>1, <2>4
    <3>2. rest[j - 1] = items[j]
      BY <1>1, <3>1
    <3>3. \A k \in (j - 1 + 1)..(i - 1) : rest[k].kind = "save"
      BY <2>1, <2>2, <2>4
    <3> QED
      BY <2>1, <2>4, <3>1, <3>2, <3>3 DEF CopyBefore
  <2> QED
    BY <2>1, <2>3, <2>4
<1> QED
  BY <1>3, <1>4 DEF rest, next

\* What an item asks of the servers' copy.
Suits(item, copy) ==
  CASE item.kind = "open"              -> copy = {}
    [] item.kind = "change"            -> copy = {item.before}
    [] item.kind \in {"save", "close"} -> copy # {}

\* Items fit by what the servers have when they come to them, and by that only.
LEMMA FitsAlike ==
  ASSUME NEW items, NEW start, NEW i, NEW others, NEW other, NEW j,
         items[i] \in Item, others[j] = items[i],
         \A copy : CopyBefore(others, other, j, copy) <=> CopyBefore(items, start, i, copy)
  PROVE  Fits(others, other, j) <=> Fits(items, start, i)
<1>1. CASE items[i].kind = "open"
  BY <1>1 DEF Fits
<1>2. CASE items[i].kind = "change"
  BY <1>2 DEF Fits
<1>3. CASE items[i].kind \in {"save", "close"}
  BY <1>3 DEF Fits
<1> QED
  BY <1>1, <1>2, <1>3, ItemsHave

LEMMA FitsWhatItSuits ==
  ASSUME NEW items, NEW start, NEW i, items[i] \in Item, NEW copy, Suits(items[i], copy),
         CopyBefore(items, start, i, copy),
         \A other : CopyBefore(items, start, i, other) => other = copy
  PROVE  Fits(items, start, i)
<1>1. CASE items[i].kind = "open"
  BY <1>1 DEF Fits, Suits
<1>2. CASE items[i].kind = "change"
  BY <1>2 DEF Fits, Suits
<1>3. CASE items[i].kind \in {"save", "close"}
  BY <1>3 DEF Fits, Suits
<1> QED
  BY <1>1, <1>2, <1>3, ItemsHave

\* An item that suits the mirror there is, and leaves the one there will be.
LEMMA LaneTakes ==
  ASSUME TypeOK, LaneKeepsTheMirror, NEW item \in Item, lane' = Append(lane, item), served' = served,
         Suits(item, IF mirror = 0 THEN {} ELSE {text}),
         IF item.kind = "save" THEN mirror' = mirror /\ text' = text
         ELSE After({}, item) = (IF mirror' = 0 THEN {} ELSE {text'})
  PROVE  LaneKeepsTheMirror'
<1> DEFINE n == Len(lane)
           now == IF mirror = 0 THEN {} ELSE {text}
           then == IF mirror' = 0 THEN {} ELSE {text'}
<1>0. lane \in Seq(Item) /\ n \in Nat /\ n + 1 \in 1..(n + 1)
  BY Types
<1>1. Len(lane') = n + 1 /\ (\A i \in 1..n : lane'[i] = lane[i]) /\ lane'[n + 1] = item
  BY <1>0
<1>2. CopyBefore(lane, served, n + 1, now)
  BY DEF LaneKeepsTheMirror
<1>3. \A i \in 1..(n + 1) : \A copy :
        CopyBefore(lane', served', i, copy) <=> CopyBefore(lane, served, i, copy)
  BY <1>0, CopyBeforeAppended
<1>4. CopyBefore(lane', served', n + 2, then)
  <2>1. IF item.kind = "save" THEN CopyBefore(lane, served, n + 1, then) ELSE then = After({}, item)
    BY <1>2
  <2> QED
    BY <1>0, <2>1, CopyAfterAppended
<1>5. CopyBefore(lane', served', Len(lane') + 1, then)
  BY <1>0, <1>1, <1>4
<1>6. \A copy : CopyBefore(lane, served, n + 1, copy) => copy = now
  BY <1>0, <1>2, OneCopyBefore
<1>7. ASSUME NEW i \in 1..n PROVE Fits(lane', served', i)
  <2>1. i \in 1..(n + 1) /\ lane[i] \in Item /\ lane'[i] = lane[i]
    BY <1>0, <1>1
  <2>2. Fits(lane, served, i)
    BY DEF LaneKeepsTheMirror
  <2> QED
    BY <1>3, <2>1, <2>2, FitsAlike
<1>8. Fits(lane', served', n + 1)
  <2>1. lane'[n + 1] \in Item /\ Suits(lane'[n + 1], now)
    BY <1>1
  <2>2. CopyBefore(lane', served', n + 1, now)
    BY <1>0, <1>2, <1>3
  <2>3. \A copy : CopyBefore(lane', served', n + 1, copy) => copy = now
    BY <1>0, <1>3, <1>6
  <2> QED
    BY <2>1, <2>2, <2>3, FitsWhatItSuits
<1> HIDE DEF n, now, then
<1>9. \A i \in 1..(n + 1) : Fits(lane', served', i)
  BY <1>0, <1>7, <1>8
<1> QED
  BY <1>1, <1>5, <1>9 DEF LaneKeepsTheMirror, then

\* A step that says nothing to the servers.
LEMMA LaneStays ==
  ASSUME LaneKeepsTheMirror, UNCHANGED <<lane, served, mirror, text>>
  PROVE  LaneKeepsTheMirror'
BY DEF LaneKeepsTheMirror

LEMMA LaneFeeds == ASSUME TypeOK, LaneKeepsTheMirror, FeedServers PROVE LaneKeepsTheMirror'
<1> DEFINE n == Len(lane)
<1>1. lane \in Seq(Item) /\ lane # <<>> /\ lane' = Tail(lane) /\ served' = After(served, Head(lane))
      /\ mirror' = mirror /\ text' = text
  BY Types DEF FeedServers, document
<1>2. n \in Nat /\ n > 0 /\ Len(lane') = n - 1 /\ \A i \in 1..(n - 1) : lane'[i] = lane[i + 1]
  BY <1>1
<1>3. \A i \in 1..n : \A copy :
        CopyBefore(lane', served', i, copy) <=> CopyBefore(lane, served, i + 1, copy)
  BY <1>1, CopyBeforeTail
<1>4. CopyBefore(lane', served', Len(lane') + 1, IF mirror' = 0 THEN {} ELSE {text'})
  <2>1. Len(lane') + 1 = n /\ n \in 1..n
    BY <1>2
  <2> QED
    BY <1>1, <1>3, <2>1 DEF LaneKeepsTheMirror
<1>5. ASSUME NEW i \in 1..(n - 1) PROVE Fits(lane', served', i)
  <2>1. i + 1 \in 1..n /\ i \in 1..n /\ lane'[i] = lane[i + 1] /\ lane[i + 1] \in Item
    BY <1>1, <1>2
  <2>2. Fits(lane, served, i + 1)
    BY <2>1 DEF LaneKeepsTheMirror
  <2> QED
    BY <1>3, <2>1, <2>2, FitsAlike
<1> QED
  BY <1>2, <1>4, <1>5 DEF LaneKeepsTheMirror

\* A change of the mirror's text is told with the text it was made to.
LEMMA LaneChanges ==
  ASSUME TypeOK, LaneKeepsTheMirror, NEW after \in Text, Changed(after),
         mirror # 0, mirror' = mirror, served' = served
  PROVE  LaneKeepsTheMirror'
<1> DEFINE item == [kind |-> "change", before |-> text, after |-> after]
<1>1. item \in Item /\ item.kind = "change" /\ item.before = text /\ item.after = after
  BY Types, ItemsAre
<1>2. lane' = Append(lane, item) /\ text' = after
  BY DEF Changed
<1> HIDE DEF item
<1>3. Suits(item, IF mirror = 0 THEN {} ELSE {text})
  BY <1>1 DEF Suits
<1>4. After({}, item) = {after}
  BY <1>1 DEF After
<1> QED
  BY <1>1, <1>2, <1>3, <1>4, LaneTakes

LEMMA LaneOpens ==
  ASSUME MirrorInv, LaneKeepsTheMirror, NEW c \in Client, OpenInsert(c) PROVE LaneKeepsTheMirror'
<1>1. CASE mirror # 0
  BY <1>1, LaneStays DEF OpenInsert, document
<1>2. CASE mirror = 0
  <2> DEFINE read == conn[c].read
             item == [kind |-> "open", after |-> read]
  <2>1. TypeOK /\ Minted(c) /\ conn[c].phase = "reading" /\ served' = served
    BY <1>2 DEF OpenInsert, MirrorInv
  <2>2. mirror' = opened + 1 /\ opened \in Nat /\ text' = read /\ read \in Text
    BY <1>2, <2>1, MintedTypes, Types
  <2>3. item \in Item /\ item.kind = "open" /\ item.after = read
    BY <2>2, ItemsAre
  <2>4. lane' = Append(lane, item)
    BY <2>1 DEF Minted
  <2> HIDE DEF item, read
  <2>5. Suits(item, IF mirror = 0 THEN {} ELSE {text})
    BY <1>2, <2>3 DEF Suits
  <2>6. After({}, item) = {read}
    BY <2>3 DEF After
  <2>7. mirror' # 0
    BY <2>2
  <2> QED
    BY <2>1, <2>2, <2>3, <2>4, <2>5, <2>6, <2>7, LaneTakes
<1> QED
  BY <1>1, <1>2

LEMMA LaneCloses ==
  ASSUME MirrorInv, LaneKeepsTheMirror, NEW c \in Client, Unsubscribe(c) PROVE LaneKeepsTheMirror'
<1>1. CASE UNCHANGED <<document, lane>>
  BY <1>1, LaneStays DEF Unsubscribe, document
<1>2. CASE Disposed /\ mirror = conn[c].channel
  <2> DEFINE item == [kind |-> "close"]
  <2>1. mirror # 0 /\ TypeOK
    BY <1>2, HeldIsAChannel DEF Unsubscribe, Held, MirrorInv, Channel
  <2>2. item \in Item /\ item.kind = "close"
    BY TextsAre, ItemsAre
  <2>3. lane' = Append(lane, item) /\ mirror' = 0 /\ served' = served
    BY <1>2 DEF Disposed, Unsubscribe
  <2> HIDE DEF item
  <2>4. Suits(item, IF mirror = 0 THEN {} ELSE {text})
    BY <2>1, <2>2 DEF Suits
  <2>5. After({}, item) = {}
    BY <2>2 DEF After
  <2> QED
    BY <2>1, <2>2, <2>3, <2>4, <2>5, LaneTakes
<1> QED
  BY <1>1, <1>2 DEF Unsubscribe

LEMMA LaneDispatches ==
  ASSUME MirrorInv, LaneKeepsTheMirror, NEW c \in Client, NEW line \in ClientLine, DocumentDispatch(c, line)
  PROVE  LaneKeepsTheMirror'
<1>1. mirror # 0 /\ TypeOK
  BY HeldIsAChannel DEF DocumentDispatch, Held, MirrorInv, Channel
<1>2. Flip(text, line) \in Text
  BY <1>1, Types, TextsAre
<1> QED
  BY <1>1, <1>2, LaneChanges DEF DocumentDispatch

LEMMA LaneReloads ==
  ASSUME MirrorInv, LaneKeepsTheMirror, NEW ch \in Channel, ReloadMirror(ch) PROVE LaneKeepsTheMirror'
<1>1. TypeOK /\ mirror' = mirror /\ served' = served
  BY DEF ReloadMirror, MirrorInv
<1>2. PICK fetched \in reload[ch] :
        IF mirror # ch \/ fetched = base
        THEN UNCHANGED <<text, base, lane, used>>
        ELSE Reconciled(fetched, IF text = base THEN fetched ELSE Merged(base, text, fetched))
  BY DEF ReloadMirror
<1> DEFINE target == IF text = base THEN fetched ELSE Merged(base, text, fetched)
<1>3. fetched \in Text
  BY <1>1, Types, Optionals
<1>4. target \in Text
  BY <1>1, <1>3, Types, TextsAre
<1>5. CASE UNCHANGED <<text, lane>>
  BY <1>1, <1>5, LaneStays
<1>6. CASE mirror = ch /\ Reconciled(fetched, target)
  <2> HIDE DEF target
  <2>1. mirror # 0
    BY <1>6 DEF Channel
  <2>2. UNCHANGED <<text, lane>> \/ Changed(target)
    BY <1>6 DEF Reconciled
  <2> QED
    BY <1>1, <1>4, <1>5, <2>1, <2>2, LaneChanges
<1> QED
  BY <1>2, <1>5, <1>6

LEMMA LaneRecords ==
  ASSUME MirrorInv, LaneKeepsTheMirror, NEW c \in Client, StoreRecord(c) PROVE LaneKeepsTheMirror'
<1> DEFINE item == [kind |-> "save"]
<1>1. PICK request \in store[c] :
        IF mirror = request.channel
        THEN base' = request.text /\ lane' = Append(lane, item)
        ELSE UNCHANGED <<base, lane>>
  BY DEF StoreRecord
<1>2. TypeOK /\ mirror' = mirror /\ served' = served /\ text' = text
  BY DEF StoreRecord, MirrorInv
<1>3. CASE lane' = lane
  BY <1>2, <1>3, LaneStays
<1>4. CASE mirror = request.channel /\ lane' = Append(lane, item)
  <2>1. item \in Item /\ item.kind = "save"
    BY TextsAre, ItemsAre
  <2>2. mirror # 0
    <3>1. request \in Request
      BY <1>2, Types, Optionals
    <3>2. request.channel \in Channel
      BY <3>1, RequestsHave
    <3> QED
      BY <1>4, <3>2 DEF Channel
  <2> HIDE DEF item
  <2>3. Suits(item, IF mirror = 0 THEN {} ELSE {text})
    BY <2>1, <2>2 DEF Suits
  <2> QED
    BY <1>2, <1>4, <2>1, <2>3, LaneTakes
<1> QED
  BY <1>1, <1>3, <1>4

\* No other step speaks to the servers or touches the mirror's text.
LEMMA LaneStep == MirrorInv /\ LaneKeepsTheMirror /\ [Next]_vars => LaneKeepsTheMirror'
<1> SUFFICES ASSUME MirrorInv, LaneKeepsTheMirror, [Next]_vars PROVE LaneKeepsTheMirror'
  OBVIOUS
<1>1. ASSUME NEW c \in Client,
             \/ OpenRead(c) \/ WatchMirror(c) \/ SubscribeDocument(c) \/ Abandon(c)
             \/ CloseConnection(c) \/ Reconnect(c) \/ StoreRead(c) \/ StoreWrite(c)
      PROVE  LaneKeepsTheMirror'
  <2>1. UNCHANGED <<lane, served, mirror, text>>
    BY <1>1 DEF OpenRead, WatchMirror, SubscribeDocument, Abandon, CloseConnection, Reconnect,
                StoreRead, StoreWrite, document, feeding
  <2> QED
    BY <2>1, LaneStays
<1>2. ASSUME \/ UNCHANGED vars
             \/ \E line \in AgentLine : AgentWrites(line)
             \/ \E ch \in Channel : WatchFires(ch)
      PROVE  LaneKeepsTheMirror'
  <2>1. UNCHANGED <<lane, served, mirror, text>>
    BY <1>2 DEF AgentWrites, WatchFires, vars, document, feeding
  <2> QED
    BY <2>1, LaneStays
<1>3. ASSUME NEW c \in Client, OpenInsert(c) PROVE LaneKeepsTheMirror'
  BY <1>3, LaneOpens
<1>4. ASSUME NEW c \in Client, Unsubscribe(c) PROVE LaneKeepsTheMirror'
  BY <1>4, LaneCloses
<1>5. ASSUME NEW c \in Client, NEW line \in ClientLine, DocumentDispatch(c, line) PROVE LaneKeepsTheMirror'
  BY <1>5, LaneDispatches
<1>6. ASSUME NEW ch \in Channel, ReloadMirror(ch) PROVE LaneKeepsTheMirror'
  BY <1>6, LaneReloads
<1>7. ASSUME NEW c \in Client, StoreRecord(c) PROVE LaneKeepsTheMirror'
  BY <1>7, LaneRecords
<1>8. ASSUME FeedServers PROVE LaneKeepsTheMirror'
  BY <1>8, LaneFeeds DEF MirrorInv
<1> QED
  BY <1>1, <1>2, <1>3, <1>4, <1>5, <1>6, <1>7, <1>8 DEF Next

\* The language servers are told the mirror's life and text in order: whatever
\* opens, edits, reloads, stores and closes interleave, each item fits the copy
\* it meets and the last one leaves the mirror's text (apply_document_feed).
THEOREM ServersFollowTheMirror == Spec => []LaneKeepsTheMirror
<1>1. Init => LaneKeepsTheMirror
  BY DEF Init, LaneKeepsTheMirror, CopyBefore
<1> QED
  BY <1>1, LaneStep, MirrorIsSafe, PTL DEF Spec

-----------------------------------------------------------------------------
\* Both sides of the mirror.

\* Lines of the one side are left alone by what the other side does.
LEMMA LinesOfTwoSides ==
  /\ \A lines : \A line \in AgentLine :
       Flip(lines, line) \cap ClientLine = lines \cap ClientLine
  /\ \A lines : \A line \in ClientLine :
       /\ Flip(lines, line) \cap AgentLine = lines \cap AgentLine
       /\ Flip(lines, line) \cap ClientLine = Flip(lines \cap ClientLine, line)
BY LinesAssumption DEF Flip

LEMMA MergeOfOneSide ==
  ASSUME NEW from, NEW ours, NEW theirs
  PROVE  /\ theirs \cap ClientLine = from \cap ClientLine
            => Merged(from, ours, theirs) \cap ClientLine = ours \cap ClientLine
         /\ ours \cap AgentLine = from \cap AgentLine
            => Merged(from, ours, theirs) \cap AgentLine = theirs \cap AgentLine
<1>1. ASSUME theirs \cap ClientLine = from \cap ClientLine
      PROVE  Merged(from, ours, theirs) \cap ClientLine = ours \cap ClientLine
  BY <1>1 DEF Merged
<1>2. ASSUME ours \cap AgentLine = from \cap AgentLine
      PROVE  Merged(from, ours, theirs) \cap AgentLine = theirs \cap AgentLine
  BY <1>2 DEF Merged
<1> QED
  BY <1>1, <1>2

\* A request under way is the only one of its client.
LEMMA RequestOf ==
  ASSUME TypeOK, NEW c \in Client, NEW request \in store[c]
  PROVE  store[c] = {request} /\ request \in Request /\ request.channel \in Channel
<1>1. store[c] = {request} /\ request \in Request
  BY Types, Optionals
<1> QED
  BY <1>1, RequestsHave

LEMMA MirrorIsAChannel == ASSUME TypeOK, mirror # 0 PROVE mirror \in Channel
BY Types DEF Channel

\* A step between a client and the rows leaves both sides as they are.
LEMMA SidesStay ==
  ASSUME SidesInv, MirrorInv', UNCHANGED <<disk, mirror, text, base, polled, reload, store, typed>>,
         raced' = raced, missed' = missed, watches' \subseteq watches,
         \A c \in Client : conn'[c] = conn[c] \/ conn'[c].phase \notin {"reading", "arming"}
  PROVE  SidesInv'
<1>1. ASSUME ~raced' PROVE StoresAreAlone' /\ ClientSide' /\ AgentSide'
  <2>1. StoresAreAlone /\ ClientSide /\ AgentSide
    BY <1>1 DEF SidesInv
  <2>2. StoresAreAlone'
    <3>1. Storing' = Storing /\ Reloading' = Reloading /\ (Opening' => Opening)
      BY DEF Storing, Reloading, Opening
    <3> QED
      BY <2>1, <3>1 DEF StoresAreAlone
  <2>3. ClientSide'
    BY <2>1 DEF ClientSide
  <2>4. AgentSide'
    BY <2>1 DEF AgentSide
  <2> QED
    BY <2>2, <2>3, <2>4
<1>2. ASSUME ~raced' /\ ~missed' PROVE WatcherSide'
  <2>1. WatcherSide
    BY <1>2 DEF SidesInv
  <2> QED
    BY <2>1 DEF WatcherSide
<1> QED
  BY <1>1, <1>2 DEF SidesInv

LEMMA SubscribeSides == ASSUME SidesInv, NEW c \in Client, SubscribeDocument(c) PROVE SidesInv'
<1>1. MirrorInv' /\ MirrorInv /\ TypeOK
  BY SubscribeKeeps DEF SidesInv, MirrorInv
<1>2. \A phase \in {"subscribed", "refused"} : Life(phase, conn[c].channel, {}).phase = phase
  BY DEF Life
<1>3. \A d \in Client : conn'[d] = conn[d] \/ conn'[d].phase \notin {"reading", "arming"}
  BY <1>1, <1>2, Types DEF SubscribeDocument
<1> QED
  BY <1>1, <1>3, SidesStay DEF SubscribeDocument, document, watching, history

LEMMA AbandonSides == ASSUME SidesInv, NEW c \in Client, Abandon(c) PROVE SidesInv'
<1>1. MirrorInv' /\ MirrorInv /\ TypeOK
  BY AbandonKeeps DEF SidesInv, MirrorInv
<1>2. \A d \in Client : conn'[d] = conn[d] \/ conn'[d].phase \notin {"reading", "arming"}
  BY <1>1, IdleIsALife, Types DEF Abandon
<1> QED
  BY <1>1, <1>2, SidesStay DEF Abandon, document, watching, history

LEMMA CloseConnectionSides == ASSUME SidesInv, NEW c \in Client, CloseConnection(c) PROVE SidesInv'
<1>1. MirrorInv' /\ MirrorInv /\ TypeOK
  BY CloseConnectionKeeps DEF SidesInv, MirrorInv
<1>2. conn' = [conn EXCEPT ![c] = [conn[c] EXCEPT !.phase = "lost"]]
  BY DEF CloseConnection
<1>3. [conn[c] EXCEPT !.phase = "lost"].phase = "lost"
  BY <1>1, Types, LivesHave DEF Phase
<1>4. \A d \in Client : conn'[d] = conn[d] \/ conn'[d].phase \notin {"reading", "arming"}
  BY <1>1, <1>2, <1>3, Types
<1> QED
  BY <1>1, <1>4, SidesStay DEF CloseConnection, document, watching, history

LEMMA ReconnectSides == ASSUME SidesInv, NEW c \in Client, Reconnect(c) PROVE SidesInv'
<1>1. MirrorInv' /\ MirrorInv /\ TypeOK
  BY ReconnectKeeps DEF SidesInv, MirrorInv
<1>2. PICK phase \in {"subscribed", "stranded"} : conn' = [conn EXCEPT ![c] = [conn[c] EXCEPT !.phase = phase]]
  BY DEF Reconnect
<1>3. conn[c] \in Lives /\ phase \in Phase
  BY <1>1, Types DEF Phase
<1>4. [conn[c] EXCEPT !.phase = phase].phase = phase
  BY <1>3, LivesHave
<1>5. \A d \in Client : conn'[d] = conn[d] \/ conn'[d].phase \notin {"reading", "arming"}
  BY <1>1, <1>2, <1>4, Types
<1> QED
  BY <1>1, <1>5, SidesStay DEF Reconnect, document, watching, history

LEMMA FeedSides == ASSUME SidesInv, FeedServers PROVE SidesInv'
<1>1. MirrorInv'
  BY FeedKeeps DEF SidesInv
<1> QED
  BY <1>1, SidesStay DEF FeedServers, document, watching, history

\* A mirror that goes takes its sides with it.
LEMMA UnsubscribeSides == ASSUME SidesInv, NEW c \in Client, Unsubscribe(c) PROVE SidesInv'
<1>1. MirrorInv' /\ MirrorInv /\ TypeOK
  BY UnsubscribeKeeps DEF SidesInv, MirrorInv
<1>2. /\ UNCHANGED <<disk, polled, reload, store, typed, raced, missed>> /\ watches' \subseteq watches
  BY DEF Unsubscribe, history
<1>3. \A d \in Client : conn'[d] = conn[d] \/ conn'[d].phase \notin {"reading", "arming"}
  BY <1>1, IdleIsALife, Types DEF Unsubscribe
<1>4. CASE UNCHANGED document
  BY <1>1, <1>2, <1>3, <1>4, SidesStay DEF document
<1>5. CASE Disposed
  <2>1. mirror' = 0
    BY <1>5 DEF Disposed
  <2>2. ASSUME ~raced' PROVE StoresAreAlone' /\ ClientSide' /\ AgentSide'
    <3>1. StoresAreAlone /\ ClientSide
      BY <1>2, <2>2 DEF SidesInv
    <3>2. Storing' = Storing /\ Reloading' = Reloading /\ (Opening' => Opening)
      BY <1>2, <1>3 DEF Storing, Reloading, Opening
    <3>3. StoresAreAlone'
      BY <1>2, <2>1, <3>1, <3>2 DEF StoresAreAlone
    <3>4. ClientSide'
      BY <1>2, <1>3, <2>1, <3>1 DEF ClientSide
    <3>5. AgentSide'
      <4>1. \A d \in Client : \A r \in store[d] : r.channel # 0
        BY <1>1, RequestOf DEF Channel
      <4> QED
        BY <1>2, <2>1, <4>1 DEF AgentSide
    <3> QED
      BY <3>3, <3>4, <3>5
  <2>3. ASSUME ~raced' /\ ~missed' PROVE WatcherSide'
    <3>1. WatcherSide
      BY <1>2, <2>3 DEF SidesInv
    <3>2. 0 \notin watches'
      BY <1>1, <1>2, Types DEF Channel
    <3>3. \A d \in Client : conn[d].phase = "arming" => conn[d].channel # 0
      BY <1>1, HeldIsAChannel DEF MirrorInv, Held, Channel
    <3> QED
      BY <1>2, <1>3, <2>1, <3>1, <3>2, <3>3 DEF WatcherSide
  <2> QED
    BY <1>1, <2>2, <2>3 DEF SidesInv
<1> QED
  BY <1>4, <1>5 DEF Unsubscribe

LEMMA OpenReadSides == ASSUME SidesInv, NEW c \in Client, OpenRead(c) PROVE SidesInv'
<1>1. MirrorInv' /\ MirrorInv /\ TypeOK
  BY OpenReadKeeps DEF SidesInv, MirrorInv
<1>2. UNCHANGED <<disk, mirror, text, base, polled, watches, reload, store, typed, missed>>
  BY DEF OpenRead, document, watching
<1>3. raced' = (raced \/ Storing)
  BY DEF OpenRead
<1>4. conn'[c] = Life("reading", 0, disk) /\ \A d \in Client : d # c => conn'[d] = conn[d]
  BY <1>1, Types DEF OpenRead
<1>5. conn'[c].phase = "reading" /\ conn'[c].read = disk
  BY <1>4 DEF Life
<1>6. ASSUME ~raced' PROVE StoresAreAlone' /\ ClientSide' /\ AgentSide'
  <2>1. ~raced /\ ~Storing
    BY <1>3, <1>6
  <2>2. StoresAreAlone /\ ClientSide /\ AgentSide
    BY <2>1 DEF SidesInv
  <2>3. ~Storing'
    BY <1>2, <2>1 DEF Storing
  <2>4. StoresAreAlone'
    BY <1>2, <2>2, <2>3 DEF StoresAreAlone
  <2>5. ClientSide'
    BY <1>2, <1>4, <1>5, <2>2 DEF ClientSide
  <2>6. AgentSide'
    BY <1>2, <2>2 DEF AgentSide
  <2> QED
    BY <2>4, <2>5, <2>6
<1>7. ASSUME ~raced' /\ ~missed' PROVE WatcherSide'
  <2>1. ~raced /\ ~missed
    BY <1>2, <1>3, <1>7
  <2>2. WatcherSide
    BY <2>1 DEF SidesInv
  <2> QED
    BY <1>2, <1>4, <1>5, <2>2 DEF WatcherSide
<1> QED
  BY <1>1, <1>6, <1>7 DEF SidesInv

LEMMA OpenInsertSides == ASSUME SidesInv, NEW c \in Client, OpenInsert(c) PROVE SidesInv'
<1>1. MirrorInv' /\ MirrorInv /\ TypeOK
  BY OpenInsertKeeps DEF SidesInv, MirrorInv
<1>2. UNCHANGED <<disk, polled, watches, reload, store, raced, missed>>
  BY DEF OpenInsert, watching
<1>3. CASE mirror # 0
  <2>1. Life("opened", mirror, {}).phase = "opened"
    BY DEF Life
  <2>2. \A d \in Client : conn'[d] = conn[d] \/ conn'[d].phase \notin {"reading", "arming"}
    BY <1>1, <1>3, <2>1, Types DEF OpenInsert
  <2> QED
    BY <1>1, <1>2, <1>3, <2>2, SidesStay DEF OpenInsert, document
<1>4. CASE mirror = 0
  <2> DEFINE read == conn[c].read
  <2>1. conn[c].phase = "reading" /\ Minted(c)
    BY <1>4 DEF OpenInsert
  <2>2. /\ mirror' = opened + 1 /\ opened \in Nat /\ opened + 1 \in Channel
        /\ text' = read /\ base' = read /\ typed' = read \cap ClientLine
    BY <1>1, <1>4, <2>1, MintedTypes, Types DEF Channel
  <2>3. conn'[c] = Life("arming", opened + 1, {}) /\ \A d \in Client : d # c => conn'[d] = conn[d]
    BY <1>1, <1>4, <2>1, MintedTypes, Types DEF Minted
  <2>4. conn'[c].phase = "arming"
    BY <2>3 DEF Life
  <2>5. reload[opened + 1] = {} /\ opened + 1 \notin watches
    BY <1>1, <2>2 DEF MirrorInv, ChannelsWereMinted
  <2>6. Opening
    BY <2>1 DEF Opening
  <2>7. ASSUME ~raced' PROVE StoresAreAlone' /\ ClientSide' /\ AgentSide'
    <3>1. StoresAreAlone /\ ClientSide /\ AgentSide
      BY <1>2, <2>7 DEF SidesInv
    <3>2. ~Storing /\ \A d \in Client : store[d] = {}
      BY <2>6, <3>1 DEF StoresAreAlone, Storing
    <3>3. StoresAreAlone'
      BY <1>2, <3>2 DEF StoresAreAlone, Storing
    <3>4. ClientSide'
      <4>1. read \cap ClientLine = disk \cap ClientLine
        BY <2>1, <3>1 DEF ClientSide
      <4> QED
        BY <1>2, <2>2, <2>3, <2>4, <2>5, <3>1, <3>2, <4>1 DEF ClientSide
    <3>5. AgentSide'
      BY <1>2, <2>2, <3>2 DEF AgentSide
    <3> QED
      BY <3>3, <3>4, <3>5
  <2>8. ASSUME ~raced' /\ ~missed' PROVE WatcherSide'
    <3>1. WatcherSide
      BY <1>2, <2>8 DEF SidesInv
    <3>2. read = disk
      BY <2>1, <3>1 DEF WatcherSide
    <3> QED
      BY <1>2, <2>2, <2>3, <2>4, <2>5, <3>1, <3>2 DEF WatcherSide
  <2> QED
    BY <1>1, <2>7, <2>8 DEF SidesInv
<1> QED
  BY <1>3, <1>4

LEMMA WatchMirrorSides == ASSUME SidesInv, NEW c \in Client, WatchMirror(c) PROVE SidesInv'
<1> DEFINE ch == conn[c].channel
<1>1. MirrorInv' /\ MirrorInv /\ TypeOK /\ ChannelsWereMinted
  BY WatchMirrorKeeps DEF SidesInv, MirrorInv
<1>2. /\ UNCHANGED <<disk, mirror, text, base, reload, store, typed, raced, missed>>
      /\ watches' = watches \cup {ch} /\ conn[c].phase = "arming"
  BY DEF WatchMirror, document, history
<1>3. ch \in Channel
  BY <1>1, <1>2, HeldIsAChannel DEF Held
<1>4. polled'[ch] = disk /\ \A k \in Channel : k # ch => polled'[k] = polled[k]
  BY <1>1, <1>3, Types DEF WatchMirror
<1>5. conn'[c] = Life("opened", ch, {}) /\ \A d \in Client : d # c => conn'[d] = conn[d]
  BY <1>1, Types DEF WatchMirror
<1>6. conn'[c].phase = "opened"
  BY <1>5 DEF Life
<1>7. ASSUME ~raced' PROVE StoresAreAlone' /\ ClientSide' /\ AgentSide'
  <2>1. StoresAreAlone /\ ClientSide /\ AgentSide
    BY <1>2, <1>7 DEF SidesInv
  <2>2. Storing' = Storing /\ Reloading' = Reloading /\ (Opening' => Opening)
    BY <1>2, <1>5, <1>6 DEF Storing, Reloading, Opening
  <2>3. StoresAreAlone'
    BY <1>2, <2>1, <2>2 DEF StoresAreAlone
  <2>4. ClientSide'
    BY <1>2, <1>5, <1>6, <2>1 DEF ClientSide
  <2>5. AgentSide'
    BY <1>2, <2>1 DEF AgentSide
  <2> QED
    BY <2>3, <2>4, <2>5
<1>8. ASSUME ~raced' /\ ~missed' PROVE WatcherSide'
  <2>1. WatcherSide
    BY <1>2, <1>8 DEF SidesInv
  <2>2. reload[ch] = {}
    BY <1>1, <1>2 DEF ChannelsWereMinted
  <2>3. mirror' \in watches' =>
          IF reload'[mirror'] = {}
          THEN polled'[mirror'] \cap AgentLine = base' \cap AgentLine
          ELSE reload'[mirror'] = {polled'[mirror']}
    <3>1. CASE mirror = ch
      BY <1>2, <1>4, <2>1, <2>2, <3>1 DEF WatcherSide
    <3>2. CASE mirror # ch /\ mirror \in watches
      <4>1. mirror \in Channel
        BY <1>1, <3>2, Types
      <4> QED
        BY <1>2, <1>4, <2>1, <3>2, <4>1 DEF WatcherSide
    <3> QED
      BY <1>2, <3>1, <3>2
  <2> QED
    BY <1>2, <1>5, <1>6, <2>1, <2>3 DEF WatcherSide
<1> QED
  BY <1>1, <1>7, <1>8 DEF SidesInv

LEMMA DispatchSides ==
  ASSUME SidesInv, NEW c \in Client, NEW line \in ClientLine, DocumentDispatch(c, line) PROVE SidesInv'
<1>1. MirrorInv' /\ MirrorInv /\ TypeOK
  BY DispatchKeeps DEF SidesInv, MirrorInv
<1>2. UNCHANGED <<disk, mirror, base, polled, watches, reload, store, conn, raced, missed>>
  BY DEF DocumentDispatch, watching
<1>3. text' = Flip(text, line) /\ typed' = Flip(typed, line)
  BY DEF DocumentDispatch, Changed
<1>4. text' \cap AgentLine = text \cap AgentLine /\ text' \cap ClientLine = Flip(text \cap ClientLine, line)
  BY <1>3, LinesOfTwoSides
<1>5. ASSUME ~raced' PROVE StoresAreAlone' /\ ClientSide' /\ AgentSide'
  <2>1. StoresAreAlone /\ ClientSide /\ AgentSide
    BY <1>2, <1>5 DEF SidesInv
  <2>2. StoresAreAlone'
    BY <1>2, <2>1 DEF StoresAreAlone, Storing, Reloading, Opening
  <2>3. ClientSide'
    <3>1. mirror # 0 => text' \cap ClientLine = typed'
      BY <1>3, <1>4, <2>1 DEF ClientSide
    <3> QED
      BY <1>2, <2>1, <3>1 DEF ClientSide
  <2>4. AgentSide'
    BY <1>2, <1>4, <2>1 DEF AgentSide
  <2> QED
    BY <2>2, <2>3, <2>4
<1>6. ASSUME ~raced' /\ ~missed' PROVE WatcherSide'
  <2>1. WatcherSide
    BY <1>2, <1>6 DEF SidesInv
  <2> QED
    BY <1>2, <2>1 DEF WatcherSide
<1> QED
  BY <1>1, <1>5, <1>6 DEF SidesInv

LEMMA AgentWritesSides == ASSUME SidesInv, NEW line \in AgentLine, AgentWrites(line) PROVE SidesInv'
<1>1. MirrorInv' /\ MirrorInv /\ TypeOK
  BY AgentWritesKeeps DEF SidesInv, MirrorInv
<1>2. UNCHANGED <<mirror, text, base, polled, watches, reload, store, conn, typed, raced>>
  BY DEF AgentWrites, document, watching
<1>3. disk' \cap ClientLine = disk \cap ClientLine
  BY LinesOfTwoSides DEF AgentWrites
<1>4. ASSUME ~raced' PROVE StoresAreAlone' /\ ClientSide' /\ AgentSide'
  <2>1. StoresAreAlone /\ ClientSide /\ AgentSide
    BY <1>2, <1>4 DEF SidesInv
  <2>2. StoresAreAlone'
    BY <1>2, <2>1 DEF StoresAreAlone, Storing, Reloading, Opening
  <2>3. ClientSide'
    BY <1>2, <1>3, <2>1 DEF ClientSide
  <2>4. AgentSide'
    BY <1>2, <2>1 DEF AgentSide
  <2> QED
    BY <2>2, <2>3, <2>4
<1>5. ASSUME ~raced' /\ ~missed' PROVE WatcherSide'
  <2>1. missed' = (missed \/ Opening)
    BY DEF AgentWrites
  <2>2. ~missed /\ ~Opening
    BY <1>5, <2>1
  <2>3. WatcherSide
    BY <1>2, <1>5, <2>2 DEF SidesInv
  <2>4. \A d \in Client : conn[d].phase \notin {"reading", "arming"}
    BY <2>2 DEF Opening
  <2> QED
    BY <1>2, <2>3, <2>4 DEF WatcherSide
<1> QED
  BY <1>1, <1>4, <1>5 DEF SidesInv

LEMMA WatchFiresSides == ASSUME SidesInv, NEW ch \in Channel, WatchFires(ch) PROVE SidesInv'
<1>1. MirrorInv' /\ MirrorInv /\ TypeOK
  BY WatchFiresKeeps DEF SidesInv, MirrorInv
<1>2. UNCHANGED <<disk, mirror, text, base, watches, store, conn, typed, missed>>
  BY DEF WatchFires, document
<1>3. /\ polled'[ch] = disk /\ \A k \in Channel : k # ch => polled'[k] = polled[k]
      /\ reload'[ch] = {disk} /\ \A k \in Channel : k # ch => reload'[k] = reload[k]
  BY <1>1, Types DEF WatchFires
<1>4. raced' = (raced \/ Storing)
  BY DEF WatchFires
<1>5. ASSUME ~raced' PROVE StoresAreAlone' /\ ClientSide' /\ AgentSide'
  <2>1. ~raced /\ ~Storing
    BY <1>4, <1>5
  <2>2. StoresAreAlone /\ ClientSide /\ AgentSide
    BY <2>1 DEF SidesInv
  <2>3. \A d \in Client : store[d] = {}
    BY <2>1 DEF Storing
  <2>4. StoresAreAlone'
    BY <1>2, <2>3 DEF StoresAreAlone, Storing
  <2>5. ClientSide'
    <3>1. mirror # 0 => disk \cap ClientLine = base \cap ClientLine
      BY <2>2, <2>3 DEF ClientSide
    <3>2. mirror # 0 => \A fetched \in reload'[mirror] : fetched \cap ClientLine = base \cap ClientLine
      <4>1. CASE mirror = ch
        BY <1>3, <3>1, <4>1
      <4>2. CASE mirror # ch /\ mirror # 0
        BY <1>1, <1>3, <2>2, <4>2, MirrorIsAChannel DEF ClientSide
      <4> QED
        BY <4>1, <4>2
    <3> QED
      BY <1>2, <2>2, <2>3, <3>1, <3>2 DEF ClientSide
  <2>6. AgentSide'
    BY <1>2, <2>2 DEF AgentSide
  <2> QED
    BY <2>4, <2>5, <2>6
<1>6. ASSUME ~raced' /\ ~missed' PROVE WatcherSide'
  <2>1. ~raced /\ ~missed
    BY <1>2, <1>4, <1>6
  <2>2. WatcherSide
    BY <2>1 DEF SidesInv
  <2>3. mirror \in watches =>
          IF reload'[mirror] = {}
          THEN polled'[mirror] \cap AgentLine = base \cap AgentLine
          ELSE reload'[mirror] = {polled'[mirror]}
    <3>1. CASE mirror = ch
      BY <1>3, <3>1
    <3>2. CASE mirror # ch /\ mirror \in watches
      <4>1. mirror \in Channel
        BY <1>1, <3>2, Types
      <4> QED
        BY <1>3, <2>2, <3>2, <4>1 DEF WatcherSide
    <3> QED
      BY <3>1, <3>2
  <2> QED
    BY <1>2, <2>2, <2>3 DEF WatcherSide
<1> QED
  BY <1>1, <1>5, <1>6 DEF SidesInv

\* What a reload makes of the mirror it is for.
LEMMA Reconciling ==
  ASSUME TypeOK, NEW ch \in Channel, ReloadMirror(ch), mirror = ch
  PROVE  \E fetched \in reload[ch] :
           /\ base' = fetched
           /\ \/ text' = text /\ fetched = base
              \/ text' = fetched /\ text = base
              \/ text' = Merged(base, text, fetched)
BY DEF ReloadMirror, Reconciled, Changed

LEMMA ReloadSides == ASSUME SidesInv, NEW ch \in Channel, ReloadMirror(ch) PROVE SidesInv'
<1>1. MirrorInv' /\ MirrorInv /\ TypeOK
  BY ReloadKeeps DEF SidesInv, MirrorInv
<1>2. UNCHANGED <<disk, mirror, polled, watches, store, conn, typed, raced, missed>>
  BY DEF ReloadMirror, history
<1>3. reload'[ch] = {} /\ reload[ch] # {} /\ \A k \in Channel : k # ch => reload'[k] = reload[k]
  BY <1>1, Types DEF ReloadMirror
<1>4. CASE mirror # ch
  <2>1. text' = text /\ base' = base
    BY <1>4 DEF ReloadMirror
  <2>2. ASSUME ~raced' PROVE StoresAreAlone' /\ ClientSide' /\ AgentSide'
    <3>1. StoresAreAlone /\ ClientSide /\ AgentSide
      BY <1>2, <2>2 DEF SidesInv
    <3>2. Reloading' => Reloading
      BY <1>3 DEF Reloading
    <3>3. StoresAreAlone'
      BY <1>2, <3>1, <3>2 DEF StoresAreAlone, Storing, Opening
    <3>4. ClientSide'
      BY <1>1, <1>2, <1>3, <1>4, <2>1, <3>1, MirrorIsAChannel DEF ClientSide
    <3>5. AgentSide'
      BY <1>2, <2>1, <3>1 DEF AgentSide
    <3> QED
      BY <3>3, <3>4, <3>5
  <2>3. ASSUME ~raced' /\ ~missed' PROVE WatcherSide'
    <3>1. WatcherSide
      BY <1>2, <2>3 DEF SidesInv
    <3>2. mirror \in watches => mirror \in Channel
      BY <1>1, Types
    <3> QED
      BY <1>2, <1>3, <1>4, <2>1, <3>1, <3>2 DEF WatcherSide
  <2> QED
    BY <1>1, <2>2, <2>3 DEF SidesInv
<1>5. CASE mirror = ch
  <2>1. PICK fetched \in reload[ch] :
          /\ base' = fetched
          /\ \/ text' = text /\ fetched = base
             \/ text' = fetched /\ text = base
             \/ text' = Merged(base, text, fetched)
    BY <1>1, <1>5, Reconciling
  <2>2. mirror # 0 /\ Reloading
    BY <1>3, <1>5 DEF Channel, Reloading
  <2>3. ASSUME ~raced' PROVE StoresAreAlone' /\ ClientSide' /\ AgentSide'
    <3>1. StoresAreAlone /\ ClientSide /\ AgentSide
      BY <1>2, <2>3 DEF SidesInv
    <3>2. ~Storing /\ \A d \in Client : store[d] = {}
      BY <2>2, <3>1 DEF StoresAreAlone, Storing
    <3>3. StoresAreAlone'
      BY <1>2, <3>2 DEF StoresAreAlone, Storing
    <3>4. /\ fetched \cap ClientLine = base \cap ClientLine
          /\ text \cap ClientLine = typed /\ disk \cap ClientLine = base \cap ClientLine
      BY <1>5, <2>2, <3>1, <3>2 DEF ClientSide
    <3>5. text' \cap ClientLine = typed
      BY <2>1, <3>4, MergeOfOneSide
    <3>6. ClientSide'
      BY <1>2, <1>3, <1>5, <2>1, <3>1, <3>2, <3>4, <3>5 DEF ClientSide
    <3>7. text' \cap AgentLine = fetched \cap AgentLine
      <4>1. text \cap AgentLine = base \cap AgentLine
        BY <2>2, <3>1 DEF AgentSide
      <4> QED
        BY <2>1, <4>1, MergeOfOneSide
    <3>8. AgentSide'
      BY <1>2, <2>1, <3>2, <3>7 DEF AgentSide
    <3> QED
      BY <3>3, <3>6, <3>8
  <2>4. ASSUME ~raced' /\ ~missed' PROVE WatcherSide'
    <3>1. WatcherSide
      BY <1>2, <2>4 DEF SidesInv
    <3>2. ch \in watches => fetched = polled[ch]
      BY <1>3, <1>5, <2>1, <3>1 DEF WatcherSide
    <3>3. \A d \in Client : ~(conn[d].phase = "arming" /\ conn[d].channel = mirror)
      BY <1>1, <1>3, <1>5 DEF MirrorInv, ChannelsWereMinted
    <3> QED
      BY <1>2, <1>3, <1>5, <2>1, <3>1, <3>2, <3>3 DEF WatcherSide
  <2> QED
    BY <1>1, <2>3, <2>4 DEF SidesInv
<1> QED
  BY <1>4, <1>5

LEMMA StoreReadSides == ASSUME SidesInv, NEW c \in Client, StoreRead(c) PROVE SidesInv'
<1>1. MirrorInv' /\ MirrorInv /\ TypeOK
  BY StoreReadKeeps DEF SidesInv, MirrorInv
<1>2. UNCHANGED <<disk, mirror, text, base, polled, watches, reload, conn, typed, missed>>
  BY DEF StoreRead, document, watching
<1>3. raced' = (raced \/ Storing \/ Reloading \/ Opening)
  BY DEF StoreRead
<1> DEFINE r == [phase |-> "read", channel |-> mirror, text |-> text]
<1>4. r.phase = "read" /\ r.channel = mirror /\ r.text = text
  OBVIOUS
<1>5. store' = [store EXCEPT ![c] = {r}]
  BY DEF StoreRead
<1> HIDE DEF r
<1>6. store'[c] = {r} /\ \A d \in Client : d # c => store'[d] = store[d]
  BY <1>1, <1>5, Types
<1>7. ASSUME ~raced' PROVE StoresAreAlone' /\ ClientSide' /\ AgentSide'
  <2>1. ~raced /\ ~Storing /\ ~Reloading /\ ~Opening
    BY <1>3, <1>7
  <2>2. StoresAreAlone /\ ClientSide /\ AgentSide
    BY <2>1 DEF SidesInv
  <2>3. \A d \in Client : store[d] = {}
    BY <2>1 DEF Storing
  <2>4. ~Reloading' /\ ~Opening'
    BY <1>2, <2>1 DEF Reloading, Opening
  <2>5. StoresAreAlone'
    BY <1>2, <1>4, <1>6, <2>3, <2>4 DEF StoresAreAlone
  <2>6. ClientSide'
    BY <1>2, <1>4, <1>6, <2>2, <2>3 DEF ClientSide
  <2>7. AgentSide'
    BY <1>2, <1>4, <1>6, <2>2, <2>3 DEF AgentSide
  <2> QED
    BY <2>5, <2>6, <2>7
<1>8. ASSUME ~raced' /\ ~missed' PROVE WatcherSide'
  <2>1. ~raced /\ ~missed
    BY <1>2, <1>3, <1>8
  <2>2. WatcherSide
    BY <2>1 DEF SidesInv
  <2> QED
    BY <1>2, <2>2 DEF WatcherSide
<1> QED
  BY <1>1, <1>7, <1>8 DEF SidesInv

\* While a store is under way and alone, nothing is reloaded or opened.
LEMMA AloneWith ==
  ASSUME TypeOK, StoresAreAlone, NEW c \in Client, NEW request \in store[c]
  PROVE  /\ Storing /\ ~Reloading /\ ~Opening
         /\ \A d \in Client : d # c => store[d] = {}
         /\ \A d \in Client : conn[d].phase \notin {"reading", "arming"}
         /\ mirror # 0 => reload[mirror] = {} /\ mirror = request.channel
<1>1. Storing
  BY DEF Storing
<1>2. ~Reloading /\ ~Opening
  BY <1>1 DEF StoresAreAlone
<1>3. \A d \in Client : d # c => store[d] = {}
  BY DEF StoresAreAlone
<1>4. \A d \in Client : conn[d].phase \notin {"reading", "arming"}
  BY <1>2 DEF Opening
<1>5. mirror # 0 => reload[mirror] = {} /\ mirror = request.channel
  BY <1>2, MirrorIsAChannel DEF Reloading, StoresAreAlone
<1> QED
  BY <1>1, <1>2, <1>3, <1>4, <1>5

LEMMA StoreWriteSides == ASSUME SidesInv, NEW c \in Client, StoreWrite(c) PROVE SidesInv'
<1>1. MirrorInv' /\ MirrorInv /\ TypeOK
  BY StoreWriteKeeps DEF SidesInv, MirrorInv
<1>2. UNCHANGED <<mirror, text, base, polled, watches, reload, conn, typed, raced>>
  BY DEF StoreWrite, document, watching
<1>3. PICK request \in store[c] :
        /\ request.phase = "read"
        /\ \/ /\ disk' = request.text
              /\ store' = [store EXCEPT ![c] = {[request EXCEPT !.phase = "written"]}]
              /\ missed' = (missed \/ Opening)
           \/ /\ store' = [store EXCEPT ![c] = {}]
              /\ UNCHANGED <<disk, missed>>
  BY DEF StoreWrite
<1>4. store[c] = {request} /\ request \in Request
  BY <1>1, RequestOf
<1> DEFINE r == [request EXCEPT !.phase = "written"]
<1>5. r.phase = "written" /\ r.channel = request.channel /\ r.text = request.text
  BY <1>4, RequestsHave
<1> HIDE DEF r
<1>6. \/ disk' = request.text /\ store'[c] = {r}
      \/ disk' = disk /\ store'[c] = {}
  BY <1>1, <1>3, Types DEF r
<1>7. \A d \in Client : d # c => store'[d] = store[d]
  BY <1>1, <1>3, Types
<1>8. ASSUME ~raced' PROVE StoresAreAlone' /\ ClientSide' /\ AgentSide'
  <2>1. StoresAreAlone /\ ClientSide /\ AgentSide
    BY <1>2, <1>8 DEF SidesInv
  <2>2. /\ ~Reloading /\ ~Opening
        /\ \A d \in Client : d # c => store'[d] = {}
        /\ \A d \in Client : conn[d].phase \notin {"reading", "arming"}
        /\ mirror # 0 => reload[mirror] = {} /\ mirror = request.channel
    BY <1>1, <1>7, <2>1, AloneWith
  <2>3. ~Reloading' /\ ~Opening'
    BY <1>2, <2>2 DEF Reloading, Opening
  <2>4. StoresAreAlone'
    BY <1>2, <1>5, <1>6, <2>1, <2>2, <2>3 DEF StoresAreAlone
  <2>5. ClientSide'
    <3>1. mirror # 0 => disk \cap ClientLine = base \cap ClientLine
      <4>1. \A d \in Client : \A q \in store[d] : q.phase = "read"
        BY <1>3, <1>4, <1>7, <2>2
      <4> QED
        BY <2>1, <4>1 DEF ClientSide
    <3>2. CASE disk' = request.text /\ store'[c] = {r}
      BY <1>2, <1>5, <2>1, <2>2, <3>2 DEF ClientSide
    <3>3. CASE disk' = disk /\ store'[c] = {}
      BY <1>2, <2>1, <2>2, <3>1, <3>3 DEF ClientSide
    <3> QED
      BY <1>6, <3>2, <3>3
  <2>6. AgentSide'
    BY <1>2, <1>4, <1>5, <1>6, <2>1, <2>2 DEF AgentSide
  <2> QED
    BY <2>4, <2>5, <2>6
<1>9. ASSUME ~raced' /\ ~missed' PROVE WatcherSide'
  <2>1. ~raced /\ ~missed
    <3>1. missed' = missed \/ missed' = (missed \/ Opening)
      BY <1>3
    <3>2. ~raced
      BY <1>2, <1>9
    <3>3. CASE missed' = missed
      BY <1>9, <3>2, <3>3
    <3>4. CASE missed' = (missed \/ Opening)
      BY <1>9, <3>2, <3>4
    <3> QED
      BY <3>1, <3>3, <3>4
  <2>2. WatcherSide /\ StoresAreAlone
    BY <2>1 DEF SidesInv
  <2>3. \A d \in Client : conn[d].phase \notin {"reading", "arming"}
    BY <1>1, <2>2, AloneWith
  <2> QED
    BY <1>2, <2>2, <2>3 DEF WatcherSide
<1> QED
  BY <1>1, <1>8, <1>9 DEF SidesInv

LEMMA StoreRecordSides == ASSUME SidesInv, NEW c \in Client, StoreRecord(c) PROVE SidesInv'
<1>1. MirrorInv' /\ MirrorInv /\ TypeOK
  BY StoreRecordKeeps DEF SidesInv, MirrorInv
<1>2. UNCHANGED <<disk, mirror, text, polled, watches, reload, conn, typed, raced, missed>>
  BY DEF StoreRecord, watching, history
<1>3. PICK request \in store[c] :
        /\ request.phase = "written"
        /\ store' = [store EXCEPT ![c] = {}]
        /\ IF mirror = request.channel THEN base' = request.text ELSE base' = base
  BY DEF StoreRecord
<1>4. store'[c] = {} /\ \A d \in Client : d # c => store'[d] = store[d]
  BY <1>1, <1>3, Types
<1>5. ASSUME ~raced' PROVE StoresAreAlone' /\ ClientSide' /\ AgentSide'
  <2>1. StoresAreAlone /\ ClientSide /\ AgentSide
    BY <1>2, <1>5 DEF SidesInv
  <2>2. /\ \A d \in Client : store'[d] = {}
        /\ \A d \in Client : conn[d].phase \notin {"reading", "arming"}
        /\ mirror # 0 => reload[mirror] = {} /\ mirror = request.channel
    BY <1>1, <1>4, <2>1, AloneWith
  <2>3. StoresAreAlone'
    BY <2>2 DEF StoresAreAlone, Storing
  <2>4. ClientSide'
    <3>1. disk \cap ClientLine = request.text \cap ClientLine
      BY <1>3, <2>1 DEF ClientSide
    <3>2. mirror # 0 => base' = request.text
      BY <1>3, <2>2
    <3> QED
      BY <1>2, <2>1, <2>2, <3>1, <3>2 DEF ClientSide
  <2>5. AgentSide'
    BY <1>2, <1>3, <2>1, <2>2 DEF AgentSide
  <2> QED
    BY <2>3, <2>4, <2>5
<1>6. ASSUME ~raced' /\ ~missed' PROVE WatcherSide'
  <2>1. StoresAreAlone /\ AgentSide /\ WatcherSide
    BY <1>2, <1>6 DEF SidesInv
  <2>2. /\ \A d \in Client : conn[d].phase \notin {"reading", "arming"}
        /\ mirror # 0 => reload[mirror] = {} /\ mirror = request.channel
    BY <1>1, <2>1, AloneWith
  <2>3. mirror \in watches => polled[mirror] \cap AgentLine = base' \cap AgentLine /\ reload[mirror] = {}
    <3> SUFFICES ASSUME mirror \in watches
                 PROVE  polled[mirror] \cap AgentLine = base' \cap AgentLine /\ reload[mirror] = {}
      OBVIOUS
    <3>1. mirror # 0
      BY <1>1, Types DEF Channel
    <3>2. polled[mirror] \cap AgentLine = base \cap AgentLine
      BY <2>1, <2>2, <3>1 DEF WatcherSide
    <3>3. base \cap AgentLine = text \cap AgentLine /\ request.text \cap AgentLine = text \cap AgentLine
      BY <2>1, <2>2, <3>1 DEF AgentSide
    <3> QED
      BY <1>3, <2>2, <3>1, <3>2, <3>3
  <2> QED
    BY <1>2, <2>2, <2>3 DEF WatcherSide
<1> QED
  BY <1>1, <1>5, <1>6 DEF SidesInv

LEMMA SidesStart == Init => SidesInv
<1> SUFFICES ASSUME Init PROVE SidesInv
  OBVIOUS
<1>1. MirrorInv
  BY MirrorStarts
<1>2. \A c \in Client : conn[c].phase = "idle" /\ store[c] = {}
  BY IdleIsALife DEF Init
<1>3. StoresAreAlone
  BY <1>2 DEF StoresAreAlone, Storing
<1>4. ClientSide
  BY <1>2 DEF Init, ClientSide
<1>5. AgentSide
  BY <1>2 DEF Init, AgentSide
<1>6. WatcherSide
  BY <1>2 DEF Init, WatcherSide
<1> QED
  BY <1>1, <1>3, <1>4, <1>5, <1>6 DEF SidesInv

LEMMA SidesStep == SidesInv /\ [Next]_vars => SidesInv'
<1> SUFFICES ASSUME SidesInv, [Next]_vars PROVE SidesInv'
  OBVIOUS
<1>1. ASSUME NEW c \in Client, OpenRead(c) PROVE SidesInv'
  BY <1>1, OpenReadSides
<1>2. ASSUME NEW c \in Client, OpenInsert(c) PROVE SidesInv'
  BY <1>2, OpenInsertSides
<1>3. ASSUME NEW c \in Client, WatchMirror(c) PROVE SidesInv'
  BY <1>3, WatchMirrorSides
<1>4. ASSUME NEW c \in Client, SubscribeDocument(c) PROVE SidesInv'
  BY <1>4, SubscribeSides
<1>5. ASSUME NEW c \in Client, Abandon(c) PROVE SidesInv'
  BY <1>5, AbandonSides
<1>6. ASSUME NEW c \in Client, Unsubscribe(c) PROVE SidesInv'
  BY <1>6, UnsubscribeSides
<1>7. ASSUME NEW c \in Client, CloseConnection(c) PROVE SidesInv'
  BY <1>7, CloseConnectionSides
<1>8. ASSUME NEW c \in Client, Reconnect(c) PROVE SidesInv'
  BY <1>8, ReconnectSides
<1>9. ASSUME NEW c \in Client, NEW line \in ClientLine, DocumentDispatch(c, line) PROVE SidesInv'
  BY <1>9, DispatchSides
<1>10. ASSUME NEW c \in Client, StoreRead(c) PROVE SidesInv'
  BY <1>10, StoreReadSides
<1>11. ASSUME NEW c \in Client, StoreWrite(c) PROVE SidesInv'
  BY <1>11, StoreWriteSides
<1>12. ASSUME NEW c \in Client, StoreRecord(c) PROVE SidesInv'
  BY <1>12, StoreRecordSides
<1>13. ASSUME NEW line \in AgentLine, AgentWrites(line) PROVE SidesInv'
  BY <1>13, AgentWritesSides
<1>14. ASSUME NEW ch \in Channel, WatchFires(ch) PROVE SidesInv'
  BY <1>14, WatchFiresSides
<1>15. ASSUME NEW ch \in Channel, ReloadMirror(ch) PROVE SidesInv'
  BY <1>15, ReloadSides
<1>16. ASSUME FeedServers PROVE SidesInv'
  BY <1>16, FeedSides
<1>17. ASSUME UNCHANGED vars PROVE SidesInv'
  <2>1. MirrorInv'
    BY <1>17, MirrorStep DEF SidesInv
  <2> QED
    BY <1>17, <2>1, SidesStay DEF vars, document, watching, history
<1> QED
  BY <1>1, <1>2, <1>3, <1>4, <1>5, <1>6, <1>7, <1>8, <1>9, <1>10, <1>11, <1>12, <1>13,
     <1>14, <1>15, <1>16, <1>17 DEF Next

\* Whoever edits, writes, reloads and stores: where no store overlapped a
\* reload, a store or an open, the mirror has the clients' lines as the clients
\* made them, and at rest the agent's as they are on disk, unless the disk was
\* written while a mirror was being opened (reload_mirror, store_document).
THEOREM BothSidesAreKept == Spec => []MirrorHoldsBothSides
<1>1. SidesInv => MirrorHoldsBothSides
  <2> SUFFICES ASSUME SidesInv PROVE MirrorHoldsBothSides
    OBVIOUS
  <2>1. ReloadKeepsEdits
    BY DEF SidesInv, ClientSide, ReloadKeepsEdits
  <2>2. ASSUME DiskAtRest, ~raced, ~missed PROVE text \cap AgentLine = disk \cap AgentLine
    <3>1. AgentSide /\ WatcherSide /\ TypeOK
      BY <2>2 DEF SidesInv, MirrorInv
    <3>2. mirror \in watches /\ mirror \in Channel /\ mirror # 0 /\ polled[mirror] = disk /\ ~Reloading
      BY <2>2, <3>1, Types DEF DiskAtRest, Channel
    <3>3. reload[mirror] = {}
      BY <3>2 DEF Reloading
    <3> QED
      BY <3>1, <3>2, <3>3 DEF AgentSide, WatcherSide
  <2>3. MirrorFollowsDisk
    BY <2>2 DEF MirrorFollowsDisk
  <2> QED
    BY <2>1, <2>3 DEF MirrorHoldsBothSides
<1> QED
  BY <1>1, SidesStart, SidesStep, PTL DEF Spec
=============================================================================
