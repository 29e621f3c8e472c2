------------------------------- MODULE DocSync -------------------------------
(***************************************************************************)
(* documents@1: one mirrored document, shared by speculating clients.      *)
(*                                                                         *)
(* The host orders (backend/agent-host): a dispatch whose `base` names the *)
(* current version applies and is broadcast, any other is discarded in     *)
(* silence.  The clients transform (frontend/rebase): each runs a          *)
(* RebaseLog, dispatches its edits without waiting, chained on one         *)
(* another, and on a foreign action carries its tail across and dispatches *)
(* it afresh under the same names.                                         *)
(*                                                                         *)
(* feed[c] is everything between the host's broadcast and the client's     *)
(* loop (outbox, connection, pump, action channel); it is a FIFO           *)
(* throughout.  wire[c] is everything between the loop and the host: one   *)
(* task per dispatch (WireHost::dispatch_document), so whether the         *)
(* dispatches keep their order is a constant.                              *)
(***************************************************************************)
EXTENDS RebaseLog, FiniteSets

CONSTANTS
  Client,      \* the subscribing clients
  Host,        \* the author of the host's own actions (disk reloads)
  MaxLocal,    \* bound: edits one client makes
  MaxReload,   \* bound: reloads of the mirror
  MaxDeaths,   \* bound: connections that die under their dispatches
  Ordered      \* do the dispatches of one client reach the host in order?

ASSUME AuthorsAssumption == Host \notin Client
ASSUME BoundsAssumption  == MaxLocal \in Nat /\ MaxReload \in Nat /\ MaxDeaths \in Nat
ASSUME UidAssumption     == \A x \in Client \cup {Host}, n \in 0..MaxLocal + MaxReload : <<x, n>> \in Uid
ASSUME OrderedAssumption == Ordered \in BOOLEAN

VARIABLES
  text,         \* the document's text at the host
  version,      \* and its version
  subscribers,  \* the clients with a subscriber row
  feed,         \* feed[c]: actions on their way to c
  wire,         \* wire[c]: dispatches on their way from c
  log,          \* log[c]: the RebaseLog of c's loop
  minted,       \* minted[c]: edits c has made
  reloads,      \* actions the host has minted
  deaths        \* connections that have died

host   == <<text, version, subscribers>>
vars   == <<text, version, subscribers, feed, wire, log, minted, reloads, deaths>>

Author(id) == id[1]
Origin     == <<Host, 0>>     \* the version a document is opened at
Applied    == [id : Uid, base : Uid]

TypeOK ==
  /\ text \in Seq(Uid)
  /\ version \in Uid
  /\ subscribers \subseteq Client
  /\ feed \in [Client -> Seq(Applied)]
  /\ wire \in [Client -> Seq(Dispatch)]
  /\ log \in [Client -> Log]
  /\ minted \in [Client -> 0..MaxLocal]
  /\ reloads \in 0..MaxReload
  /\ deaths \in 0..MaxDeaths

Init ==
  /\ text = <<>>
  /\ version = Origin
  /\ subscribers = {}
  /\ feed = [c \in Client |-> <<>>]
  /\ wire = [c \in Client |-> <<>>]
  /\ log = [c \in Client |-> NewLog(<<>>, Origin)]
  /\ minted = [c \in Client |-> 0]
  /\ reloads = 0
  /\ deaths = 0

-----------------------------------------------------------------------------
\* The host.

\* Apply an action at the current version and tell every subscriber, itself
\* included, inside one state swap.
Apply(id) ==
  /\ text' = Append(text, id)
  /\ version' = id
  /\ feed' = [c \in Client |->
                IF c \in subscribers THEN Append(feed[c], [id |-> id, base |-> version])
                                     ELSE feed[c]]

\* The snapshot and the subscriber row are taken together; the loop starts
\* from the snapshot and hears what follows it.
SubscribeDocument(c) ==
  /\ c \notin subscribers
  /\ subscribers' = subscribers \cup {c}
  /\ log' = [log EXCEPT ![c] = NewLog(text, version)]
  /\ UNCHANGED <<text, version, feed, wire, minted, reloads, deaths>>

\* Mutant of Lineage: any version the document ever had will do.
LineageKnown(dispatch) == dispatch.base \in {version, Origin} \cup Range(text)

Lineage(dispatch) == dispatch.base = version

\* Which of the dispatches under way may reach the host next.
Arriving(c) == IF Ordered THEN DOMAIN wire[c] \cap {1} ELSE DOMAIN wire[c]

DocumentDispatch(c) ==
  \E i \in Arriving(c) :
    /\ wire' = [wire EXCEPT ![c] = RemoveAt(@, i)]
    /\ IF Lineage(wire[c][i]) THEN Apply(wire[c][i].id)
                              ELSE UNCHANGED <<text, version, feed>>
    /\ UNCHANGED <<subscribers, log, minted, reloads, deaths>>

\* The file changed under the mirror: the host's own action.
ReloadMirror ==
  /\ reloads < MaxReload
  /\ reloads' = reloads + 1
  /\ Apply(<<Host, reloads'>>)
  /\ UNCHANGED <<subscribers, wire, log, minted, deaths>>

-----------------------------------------------------------------------------
\* A client's loop.

Perform(c, result) ==
  /\ log' = [log EXCEPT ![c] = result.log]
  /\ wire' = [wire EXCEPT ![c] = @ \o result.sent]

LocalEdit(c) ==
  /\ c \in subscribers
  /\ minted[c] < MaxLocal
  /\ minted' = [minted EXCEPT ![c] = @ + 1]
  /\ Perform(c, Local(log[c], <<c, minted[c] + 1>>))
  /\ UNCHANGED <<host, feed, reloads, deaths>>

HearApplied(c) ==
  /\ feed[c] # <<>>
  /\ feed' = [feed EXCEPT ![c] = Tail(@)]
  /\ log' = [log EXCEPT ![c] = LET id == Head(feed[c]).id
                               IN  IF IsAck(@, id) THEN Ack(@) ELSE Remote(@, id)]
  /\ UNCHANGED <<host, wire, minted, reloads, deaths>>

RebaseStep(c) ==
  /\ IsRebasing(log[c])
  /\ Perform(c, Step(log[c]))
  /\ UNCHANGED <<host, feed, minted, reloads, deaths>>

\* The connection dies: every ask on it is abandoned, dispatches among them.
\* The feed is replayed on the next connection and loses nothing.
ConnectionDies(c) ==
  /\ deaths < MaxDeaths
  /\ wire[c] # <<>>
  /\ deaths' = deaths + 1
  /\ wire' = [wire EXCEPT ![c] = <<>>]
  /\ UNCHANGED <<host, feed, log, minted, reloads>>

Next ==
  \/ ReloadMirror
  \/ \E c \in Client :
       \/ SubscribeDocument(c)
       \/ DocumentDispatch(c)
       \/ LocalEdit(c)
       \/ HearApplied(c)
       \/ RebaseStep(c)
       \/ ConnectionDies(c)

\* The host serves every line it reads, and a loop never stops on its own.
\* Nobody has to type, and nothing has to change on disk.
Fairness ==
  \A c \in Client : /\ WF_vars(DocumentDispatch(c))
                    /\ WF_vars(HearApplied(c))
                    /\ WF_vars(RebaseStep(c))

Spec     == Init /\ [][Next]_vars
FairSpec == Spec /\ Fairness

-----------------------------------------------------------------------------
\* Properties.

Ids(actions) == [i \in DOMAIN actions |-> actions[i].id]

\* A dispatch the host accepts is applied to exactly the text its positions
\* address.  The gate compares names only, and a name outlives the text it
\* named: a client dispatches a carried edit under the name it had before.
\* (Document::dispatch; ahp-documents.md 3.3, "nothing misapplies".)
NothingMisapplies ==
  \A c \in Client : \A i \in Arriving(c) :
    Lineage(wire[c][i]) => wire[c][i].before = text

\* What a client has folded in, followed by what is on its way to it, is the
\* text of the host, action for action and with no gap: each action names
\* the version it follows.  (ahp-documents.md 4.2, delivery rules; the loop
\* confirms its own echo from its own speculation, never from the wire.)
StableIsServerHistory ==
  \A c \in subscribers :
    /\ text = log[c].committed \o Ids(feed[c])
    /\ \A i \in DOMAIN feed[c] :
         feed[c][i].base = IF i = 1 THEN log[c].version ELSE feed[c][i - 1].id
    /\ version = IF feed[c] = <<>> THEN log[c].version ELSE Last(feed[c]).id

\* An edit of the client's own never comes back to it as somebody else's: its
\* echo finds it at the head of the speculation.  Taken for a foreign action
\* it would be applied a second time (RebaseLog::ack, driver::run).
EchoIsRecognised ==
  \A c \in Client : feed[c] # <<>> /\ Author(Head(feed[c]).id) = c
                     => IsAck(log[c], Head(feed[c]).id)

\* An edit that nothing can shadow is never lost by the log: it is in the
\* text or still pending.  (rebase.md 1, "text somebody typed always
\* survives"; RebaseLog::step drops only what collapses.)
TypedSurvives ==
  \A c \in subscribers : \A n \in 1..minted[c] :
    \/ \E x \in Uid : <<x, <<c, n>>>> \in Shadows
    \/ <<c, n>> \in Range(text) \cup Range(Pending(log[c]))

\* Once nothing is under way to or from a client, nothing of its is left
\* pending: every dispatch was either applied or superseded by an action
\* the client has heard.  (ahp-documents.md 3.3, outcome detection: no
\* timeouts, no negative acknowledgements.)
NothingStrands ==
  \A c \in subscribers :
    wire[c] = <<>> /\ feed[c] = <<>> /\ ~IsRebasing(log[c]) => IsSettled(log[c])

\* What all of it amounts to: the abstract document of OrderedEdits.
Abstract == INSTANCE OrderedEdits WITH
  history <- text,
  members <- subscribers,
  seen    <- [c \in Client |-> Len(log[c].committed)],
  pending <- [c \in Client |-> Pending(log[c])]

\* Versions, discards, carrying and echoes implement one total order in which
\* every client's edits stand once and as typed.
SharesOneHistory == Abstract!Spec

\* The loop converges: in the end every client shows the text of the host
\* and owes it nothing, unless a connection died under its dispatches.
Converges ==
  <>[](deaths > 0 \/ \A c \in subscribers : IsSettled(log[c]) /\ Display(log[c]) = text)
=============================================================================
