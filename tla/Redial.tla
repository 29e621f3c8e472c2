------------------------------- MODULE Redial -------------------------------
(***************************************************************************)
(* Who dials when the connection is down: the asks and polls of a client   *)
(* meet in ensure_active (frontend/ahp-wire/src/wire.rs).                  *)
(*                                                                         *)
(* One reconnect runs at a time, under a token.  Who waits for the token   *)
(* takes what the attempt brought, its failure too.  The dial and its      *)
(* deadline are driven by the runtime, which has one worker: a task on it  *)
(* that waited for the token would stop the very dial it waits for.  A     *)
(* poll that has no connection waits for the bell of the next one or for a *)
(* while; one that is parked on a connection is woken by its death.        *)
(*                                                                         *)
(* Data abstraction.  Connections are numbered.  Of the feeds, only which  *)
(* connection has them is kept: a new one takes those of the one before.   *)
(***************************************************************************)
EXTENDS Naturals, FiniteSets

CONSTANTS
  Asker,        \* lanes that ask once at a time
  Poller,       \* lanes that poll for ever
  OnRuntime,    \* those of them that run on the runtime's worker
  MaxAsks,      \* bound: asks made
  MaxLinks,     \* bound: connections made
  MaxOutages    \* bound: times the host goes down

ASSUME RedialAssumption ==
  /\ Asker \cap Poller = {} /\ OnRuntime \subseteq Asker \cup Poller
  /\ "nobody" \notin Asker \cup Poller
  /\ {MaxAsks, MaxOutages} \subseteq Nat /\ MaxLinks \in Nat \ {0}

VARIABLES
  hostUp,      \* is the host there to be dialed?
  made,        \* connections made
  current,     \* WireState.active: 0 when there is none
  gone,        \* connections whose `dead` is set
  deaf,        \* connections that the host no longer answers on
  token,       \* who holds `reconnecting`
  lastFailed,  \* attempts.failed: did the last attempt that finished fail?
  caller,      \* caller[c]: where it is
  feedsOn,     \* the connection that has the feeds
  budget       \* asks and outages made

redialVars == <<hostUp, made, current, gone, deaf, token, lastFailed, caller, feedsOn, budget>>

Caller == Asker \cup Poller
Nobody == "nobody"
AtRest == [pc |-> "rest", link |-> 0, waited |-> FALSE]

Places == {"rest", "look", "count", "lock", "held", "dial", "ring", "work", "enrol", "parked", "bell", "backoff"}
CallerState(links) == [pc : Places, link : 0..links, waited : BOOLEAN]

RedialTypeOK ==
  /\ hostUp \in BOOLEAN /\ lastFailed \in BOOLEAN
  /\ made \in 1..MaxLinks /\ current \in 0..made /\ feedsOn \in 1..made
  /\ gone \subseteq 1..made /\ deaf \subseteq 1..made
  /\ token \in Caller \cup {Nobody}
  /\ caller \in [Caller -> CallerState(made)]

\* Who has the token is between taking it and giving it back, and nobody else
\* is; there is no connection exactly while it dials.
OneDials ==
  /\ \A c \in Caller : caller[c].pc \in {"held", "dial", "ring"} <=> token = c
  /\ current = 0 <=> \E c \in Caller : caller[c].pc = "dial"

RedialInit ==
  /\ hostUp = TRUE /\ made = 1 /\ current = 1 /\ gone = {} /\ deaf = {}
  /\ token = Nobody
  /\ lastFailed = FALSE
  /\ caller = [c \in Caller |-> AtRest]
  /\ feedsOn = 1
  /\ budget = [asks |-> 0, outages |-> 0]

Lives(k) == k # 0 /\ k \notin gone
To(c, pc) == caller' = [caller EXCEPT ![c].pc = pc]

-----------------------------------------------------------------------------
\* ensure_active

\* An ask is made; a poll is armed again as soon as it is answered.
Ask(c) ==
  /\ caller[c].pc = "rest"
  /\ c \in Asker => budget.asks < MaxAsks
  /\ budget' = IF c \in Asker THEN [budget EXCEPT !.asks = @ + 1] ELSE budget
  /\ To(c, "look")
  /\ UNCHANGED <<hostUp, made, current, gone, deaf, token, lastFailed, feedsOn>>

\* Mutant of Refused: the worker waits like everybody.
RefusedNever(c) == FALSE

\* The runtime's worker may neither dial nor wait.
Refused(c) == c \in OnRuntime

Found(c, k) == caller' = [caller EXCEPT ![c] = [AtRest EXCEPT !.pc = IF c \in Asker THEN "work" ELSE "enrol", !.link = k]]
Fails(c)    == caller' = [caller EXCEPT ![c] = [AtRest EXCEPT !.pc = IF c \in Asker THEN "rest" ELSE "bell"]]

Look(c) ==
  /\ caller[c].pc = "look"
  /\ IF Lives(current) THEN Found(c, current)
     ELSE IF Refused(c) THEN Fails(c)
     ELSE To(c, "count")
  /\ UNCHANGED <<hostUp, made, current, gone, deaf, token, lastFailed, feedsOn, budget>>

\* How many attempts have finished is read before the token is waited for: what
\* is kept of it is whether one has finished since.
CountAttempts(c) ==
  /\ caller[c].pc = "count"
  /\ To(c, "lock")
  /\ UNCHANGED <<hostUp, made, current, gone, deaf, token, lastFailed, feedsOn, budget>>

Free == token = Nobody

TakeToken(c) ==
  /\ caller[c].pc = "lock" /\ Free
  /\ token' = c
  /\ To(c, "held")
  /\ UNCHANGED <<hostUp, made, current, gone, deaf, lastFailed, feedsOn, budget>>

\* Mutant of WaitedOut: an attempt that finished before counts as well.
WaitedOutEarlier(c) == lastFailed

\* An attempt that failed has finished while the token was waited for.
WaitedOut(c) == lastFailed /\ caller[c].waited

UseToken(c) ==
  /\ caller[c].pc = "held"
  /\ IF Lives(current) THEN Found(c, current) /\ token' = Nobody /\ UNCHANGED current
     ELSE IF WaitedOut(c) THEN Fails(c) /\ token' = Nobody /\ UNCHANGED current
     ELSE /\ caller' = [caller EXCEPT ![c].pc = "dial", ![c].link = current]
          /\ current' = 0
          /\ UNCHANGED token
  /\ UNCHANGED <<hostUp, made, gone, deaf, lastFailed, feedsOn, budget>>

\* Is the runtime's worker there to drive a dial?
Driven == \A c \in OnRuntime : caller[c].pc \notin {"lock", "held", "dial", "ring"}

\* An attempt has finished, which d may have waited for.
Waits(d) == IF caller[d].pc = "lock" THEN [caller[d] EXCEPT !.waited = TRUE] ELSE caller[d]

\* The connection is the active one, with the feeds of the one before.
DialLands(c) ==
  /\ caller[c].pc = "dial" /\ hostUp /\ Driven /\ made < MaxLinks
  /\ made' = made + 1
  /\ current' = made'
  /\ feedsOn' = IF caller[c].link = feedsOn THEN made' ELSE feedsOn
  /\ lastFailed' = FALSE
  /\ caller' = [d \in Caller |-> IF d = c THEN [caller[d] EXCEPT !.pc = "ring", !.link = made'] ELSE Waits(d)]
  /\ UNCHANGED <<hostUp, gone, deaf, token, budget>>

\* Polls that wait for the bell are armed again; the token is given back.
RingConnected(c) ==
  /\ caller[c].pc = "ring"
  /\ caller' = [d \in Caller |->
       IF d = c THEN [AtRest EXCEPT !.pc = IF c \in Asker THEN "work" ELSE "enrol", !.link = caller[c].link]
       ELSE IF caller[d].pc = "backoff" THEN AtRest ELSE caller[d]]
  /\ token' = Nobody
  /\ UNCHANGED <<hostUp, made, current, gone, deaf, lastFailed, feedsOn, budget>>

\* Mutant of PutBack: what was taken out to be replaced is dropped.
PutBackNone(previous) == current

PutBack(previous) == previous

\* The host is not there, or does not answer before the deadline.
DialFails(c) ==
  /\ caller[c].pc = "dial" /\ ~hostUp /\ Driven
  /\ current' = PutBack(caller[c].link)
  /\ lastFailed' = TRUE
  /\ caller' = [d \in Caller |->
       IF d = c THEN [AtRest EXCEPT !.pc = IF c \in Asker THEN "rest" ELSE "bell"]
       ELSE Waits(d)]
  /\ token' = Nobody
  /\ UNCHANGED <<hostUp, made, gone, deaf, feedsOn, budget>>

-----------------------------------------------------------------------------
\* What is done with a connection: run_ask, poll_channel, poll_unconnected.

\* The host answers, or the connection dies under the ask.
AskEnds(c) ==
  /\ caller[c].pc = "work"
  /\ caller[c].link \in gone \/ (hostUp /\ caller[c].link \notin deaf)
  /\ caller' = [caller EXCEPT ![c] = AtRest]
  /\ UNCHANGED <<hostUp, made, current, gone, deaf, token, lastFailed, feedsOn, budget>>

\* The poll listens for the death first and then looks at the flag.
Parks(c) == caller[c].link \notin gone

Enrol(c) ==
  /\ caller[c].pc = "enrol"
  /\ caller' = [caller EXCEPT ![c] = IF Parks(c) THEN [@ EXCEPT !.pc = "parked"] ELSE AtRest]
  /\ UNCHANGED <<hostUp, made, current, gone, deaf, token, lastFailed, feedsOn, budget>>

\* A poll with no connection is first polled, and listens for the bell from then.
Listen(c) ==
  /\ caller[c].pc = "bell"
  /\ To(c, "backoff")
  /\ UNCHANGED <<hostUp, made, current, gone, deaf, token, lastFailed, feedsOn, budget>>

BackoffEnds(c) == caller[c].pc = "backoff"

Backoff(c) ==
  /\ BackoffEnds(c)
  /\ caller' = [caller EXCEPT ![c] = AtRest]
  /\ UNCHANGED <<hostUp, made, current, gone, deaf, token, lastFailed, feedsOn, budget>>

\* A connection's death is noted, and those that are parked on it woken: by the
\* keepalive at once, by the death watch if the transport failed.
Dies(k) ==
  /\ gone' = gone \cup {k}
  /\ caller' = [c \in Caller |-> IF caller[c].pc = "parked" /\ caller[c].link = k THEN AtRest ELSE caller[c]]

TransportFails ==
  /\ Lives(current) /\ current < MaxLinks
  /\ Dies(current)
  /\ UNCHANGED <<hostUp, made, current, deaf, token, lastFailed, feedsOn, budget>>

\* A ping is not answered.
KeepaliveGivesUp ==
  /\ Lives(current) /\ (current \in deaf \/ ~hostUp)
  /\ Dies(current)
  /\ UNCHANGED <<hostUp, made, current, deaf, token, lastFailed, feedsOn, budget>>

HostGoesDeaf ==
  /\ Lives(current) /\ current \notin deaf /\ current < MaxLinks
  /\ deaf' = deaf \cup {current}
  /\ UNCHANGED <<hostUp, made, current, gone, token, lastFailed, caller, feedsOn, budget>>

\* The host goes down, with it every connection to it, and comes up again.
HostGoesDown ==
  /\ hostUp /\ budget.outages < MaxOutages /\ made < MaxLinks
  /\ hostUp' = FALSE
  /\ deaf' = 1..made
  /\ budget' = [budget EXCEPT !.outages = @ + 1]
  /\ UNCHANGED <<made, current, gone, token, lastFailed, caller, feedsOn>>

HostComesUp ==
  /\ ~hostUp
  /\ hostUp' = TRUE
  /\ UNCHANGED <<made, current, gone, deaf, token, lastFailed, caller, feedsOn, budget>>

-----------------------------------------------------------------------------
CallerTurn(c) ==
  \/ Look(c) \/ CountAttempts(c) \/ UseToken(c) \/ DialLands(c) \/ DialFails(c) \/ RingConnected(c)
  \/ AskEnds(c) \/ Enrol(c) \/ Listen(c) \/ Backoff(c)

RedialNext ==
  \/ \E c \in Caller : Ask(c) \/ CallerTurn(c) \/ TakeToken(c)
  \/ KeepaliveGivesUp \/ TransportFails \/ HostGoesDeaf \/ HostGoesDown \/ HostComesUp

RedialSpec     == RedialInit /\ [][RedialNext]_redialVars
FairRedialSpec ==
  /\ RedialSpec
  /\ \A c \in Caller : WF_redialVars(CallerTurn(c)) /\ SF_redialVars(TakeToken(c))
  /\ \A c \in Poller : WF_redialVars(Ask(c))
  /\ WF_redialVars(KeepaliveGivesUp)

-----------------------------------------------------------------------------
\* The feeds are on the connection there is, or on the one that is being
\* replaced: no attempt, however it ends, leaves them behind
\* (wire.rs, ensure_active and connect_fresh).
FeedsAreCarried ==
  IF current # 0 THEN feedsOn = current
  ELSE \E c \in Caller : caller[c].pc = "dial" /\ caller[c].link = feedsOn

\* The types, the token that one caller has while it dials, and the feeds: an
\* inductive invariant (ConnectionProofs).
RedialInv == RedialTypeOK /\ OneDials /\ FeedsAreCarried

\* Every ask ends: the thing it waits for, be it the token, the dial or the
\* answer, never waits for it (the deadlock of 2026-10-05, wire.rs 505-516).
AsksEnd == \A c \in Asker : caller[c].pc # "rest" ~> caller[c].pc = "rest"

\* When the host is there to stay, every poll that may dial is in the end parked
\* on a connection that lives, and those of the runtime with it.
Hears(c) == caller[c].pc = "parked" /\ Lives(caller[c].link)
PollsComeBack == <>[]hostUp => \A c \in Poller : []<>Hears(c)
=============================================================================
