--------------------------- MODULE ConnectionProofs ---------------------------
(***************************************************************************)
(* Proofs about what the wire client keeps over connections that die: who  *)
(* dials (Redial), and the terminals that are attached again (Terminals).  *)
(***************************************************************************)
EXTENDS Redial, Terminals, SequenceTheorems, TLAPS

-----------------------------------------------------------------------------
(***************************************************************************)
(* Redial.  RedialInv is inductive: for any callers, on the runtime or     *)
(* not, and any number of connections and outages, one caller at most      *)
(* dials, there is no connection exactly while it does, and the feeds are  *)
(* never left on a connection that is neither the one there is nor the one *)
(* being replaced.                                                         *)
(***************************************************************************)

\* What a step may do to the callers without touching the token: those that
\* move are outside of the token's places before and after.
LEMMA PlacesKept ==
  ASSUME RedialInv, NEW c \in Caller, NEW r \in CallerState(made),
         caller' = [caller EXCEPT ![c] = r],
         caller[c].pc \notin {"held", "dial", "ring"}, r.pc \notin {"held", "dial", "ring"},
         UNCHANGED <<hostUp, made, current, gone, deaf, token, lastFailed, feedsOn>>
  PROVE  RedialInv'
<1>1. \A d \in Caller : d # c => caller'[d] = caller[d]
  BY DEF RedialInv, RedialTypeOK
<1>2. caller'[c] = r
  BY DEF RedialInv, RedialTypeOK
<1>3. RedialTypeOK'
  BY DEF RedialInv, RedialTypeOK
<1>4. OneDials'
  BY <1>1, <1>2 DEF RedialInv, OneDials
<1>5. FeedsAreCarried'
  BY <1>1, <1>2 DEF RedialInv, FeedsAreCarried
<1> QED
  BY <1>3, <1>4, <1>5 DEF RedialInv

\* The records that callers are given are records of a caller.
LEMMA RecordsOfCallers ==
  ASSUME RedialInv, NEW c \in Caller
  PROVE  /\ AtRest \in CallerState(made)
         /\ \A pc \in Places :
              /\ [caller[c] EXCEPT !.pc = pc] \in CallerState(made)
              /\ [caller[c] EXCEPT !.pc = pc].pc = pc
              /\ [AtRest EXCEPT !.pc = pc] \in CallerState(made)
              /\ [AtRest EXCEPT !.pc = pc].pc = pc
              /\ \A k \in 0..made :
                   /\ [AtRest EXCEPT !.pc = pc, !.link = k] \in CallerState(made)
                   /\ [AtRest EXCEPT !.pc = pc, !.link = k].pc = pc
<1>1. caller[c] \in CallerState(made)
  BY DEF RedialInv, RedialTypeOK
<1>2. 0 \in 0..made
  BY DEF RedialInv, RedialTypeOK
<1> QED
  BY <1>1, <1>2 DEF AtRest, Places, CallerState

\* The numbers alone.
LEMMA NumbersOfLinks ==
  ASSUME RedialTypeOK
  PROVE  /\ made \in Nat /\ made >= 1 /\ made <= MaxLinks /\ MaxLinks \in Nat
         /\ current \in 0..made /\ feedsOn \in 1..made
BY RedialAssumption DEF RedialTypeOK

\* The connections that are there now are there after one more was made.
LEMMA StatesGrow == ASSUME NEW n \in Nat PROVE CallerState(n) \subseteq CallerState(n + 1)
BY DEF CallerState

\* A caller at rest, and one that leaves for somewhere with a connection.
LEMMA NewStates ==
  ASSUME NEW n \in Nat, NEW k \in 0..n, NEW pc \in Places
  PROVE  /\ [AtRest EXCEPT !.pc = pc] \in CallerState(n) /\ [AtRest EXCEPT !.pc = pc].pc = pc
         /\ [AtRest EXCEPT !.pc = pc, !.link = k] \in CallerState(n)
         /\ [AtRest EXCEPT !.pc = pc, !.link = k].pc = pc
<1>1. AtRest \in CallerState(n)
  BY DEF AtRest, CallerState, Places
<1> QED
  BY <1>1 DEF CallerState

\* At the start one connection has the feeds.
LEMMA RedialStarts == ASSUME RedialInit PROVE RedialInv
<1>a. AtRest \in CallerState(1)
  BY DEF AtRest, Places, CallerState
<1>b. caller \in [Caller -> CallerState(made)]
  BY <1>a DEF RedialInit
<1>1. RedialTypeOK
  <2>1. made = 1 /\ current = 1 /\ feedsOn = 1 /\ MaxLinks \in Nat /\ MaxLinks >= 1
    BY RedialAssumption DEF RedialInit
  <2>2. made \in 1..MaxLinks /\ current \in 0..made /\ feedsOn \in 1..made
    BY <2>1
  <2>3. /\ hostUp \in BOOLEAN /\ lastFailed \in BOOLEAN /\ gone = {} /\ deaf = {}
        /\ token \in Caller \cup {Nobody}
    BY DEF RedialInit
  <2> QED
    BY <1>b, <2>2, <2>3 DEF RedialTypeOK
<1>2. OneDials
  BY RedialAssumption DEF RedialInit, OneDials, AtRest, Nobody, Caller
<1>3. FeedsAreCarried
  BY DEF RedialInit, FeedsAreCarried
<1> QED
  BY <1>1, <1>2, <1>3 DEF RedialInv

\* The steps before the token and after the connection.
LEMMA StepsOutsideKeep ==
  ASSUME RedialInv, NEW c \in Caller,
         Ask(c) \/ Look(c) \/ CountAttempts(c) \/ AskEnds(c) \/ Enrol(c) \/ Listen(c) \/ Backoff(c)
  PROVE  RedialInv'
<1> USE RecordsOfCallers
<1>k. {"rest", "look", "count", "lock", "work", "enrol", "parked", "bell", "backoff"} \subseteq Places
  BY DEF Places
<1>c. current \in 0..made
  BY DEF RedialInv, RedialTypeOK
<1>r. AtRest.pc = "rest"
  BY DEF AtRest
<1>1. CASE Ask(c)
  <2>1. caller' = [caller EXCEPT ![c] = [caller[c] EXCEPT !.pc = "look"]]
    BY <1>1 DEF Ask, To
  <2> QED
    BY <1>1, <1>k, <2>1, PlacesKept DEF Ask
<1>2. CASE Look(c)
  <2>1. CASE Found(c, current)
    BY <1>2, <2>1, <1>k, <1>c, PlacesKept DEF Look, Found
  <2>2. CASE Fails(c)
    BY <1>2, <2>2, <1>k, PlacesKept DEF Look, Fails
  <2>3. CASE To(c, "count")
    <3>1. caller' = [caller EXCEPT ![c] = [caller[c] EXCEPT !.pc = "count"]]
      BY <2>3 DEF To
    <3> QED
      BY <1>2, <3>1, <1>k, PlacesKept DEF Look
  <2> QED
    BY <1>2, <2>1, <2>2, <2>3 DEF Look
<1>3. CASE CountAttempts(c)
  <2>1. caller' = [caller EXCEPT ![c] = [caller[c] EXCEPT !.pc = "lock"]]
    BY <1>3 DEF CountAttempts, To
  <2> QED
    BY <1>3, <1>k, <2>1, PlacesKept DEF CountAttempts
<1>4. CASE AskEnds(c)
  BY <1>4, <1>k, <1>r, PlacesKept DEF AskEnds
<1>5. CASE Enrol(c)
  BY <1>5, <1>k, <1>r, PlacesKept DEF Enrol
<1>6. CASE Listen(c)
  <2>1. caller' = [caller EXCEPT ![c] = [caller[c] EXCEPT !.pc = "backoff"]]
    BY <1>6 DEF Listen, To
  <2> QED
    BY <1>6, <1>k, <2>1, PlacesKept DEF Listen
<1>7. CASE Backoff(c)
  BY <1>7, <1>k, <1>r, PlacesKept DEF Backoff, BackoffEnds
<1> QED
  BY <1>1, <1>2, <1>3, <1>4, <1>5, <1>6, <1>7

\* The token is taken by one caller at a time.
LEMMA TakeTokenKeeps == ASSUME RedialInv, NEW c \in Caller, TakeToken(c) PROVE RedialInv'
<1> DEFINE r == [caller[c] EXCEPT !.pc = "held"]
<1>1. r \in CallerState(made) /\ r.pc = "held"
  BY RecordsOfCallers DEF Places
<1>2. caller' = [caller EXCEPT ![c] = r]
  BY DEF TakeToken, To
<1> HIDE DEF r
<1>3. caller'[c] = r /\ \A d \in Caller : d # c => caller'[d] = caller[d]
  BY <1>2 DEF RedialInv, RedialTypeOK
<1>4. \A d \in Caller : caller[d].pc \notin {"held", "dial", "ring"}
  BY RedialAssumption DEF RedialInv, OneDials, TakeToken, Free, Nobody, Caller
<1>5. RedialTypeOK'
  BY <1>1, <1>2 DEF RedialInv, RedialTypeOK, TakeToken
<1>6. OneDials'
  BY <1>1, <1>3, <1>4 DEF RedialInv, OneDials, TakeToken
<1>7. FeedsAreCarried'
  BY <1>4 DEF RedialInv, OneDials, FeedsAreCarried, TakeToken
<1> QED
  BY <1>5, <1>6, <1>7 DEF RedialInv

\* A caller gives the token back and leaves the connection there is.
LEMMA TokenGivenBack ==
  ASSUME RedialInv, NEW c \in Caller, NEW r \in CallerState(made),
         r.pc \notin {"held", "dial", "ring"},
         caller[c].pc \in {"held", "ring"},
         caller' \in [Caller -> CallerState(made)],
         caller'[c] = r,
         \A d \in Caller : d # c => \/ caller'[d] = caller[d]
                                   \/ (caller[d].pc = "backoff" /\ caller'[d].pc = "rest"),
         token' = Nobody, UNCHANGED <<hostUp, made, current, gone, deaf, lastFailed, feedsOn>>
  PROVE  RedialInv'
<1>1. \A d \in Caller : d # c => caller[d].pc \notin {"held", "dial", "ring"}
  BY DEF RedialInv, OneDials
<1>2. \A d \in Caller : caller'[d].pc \notin {"held", "dial", "ring"}
  BY <1>1
<1>3. \A d \in Caller : caller[d].pc # "dial"
  BY <1>1
<1>4. current # 0
  BY <1>3 DEF RedialInv, OneDials
<1>5. RedialTypeOK'
  BY DEF RedialInv, RedialTypeOK
<1>6. OneDials'
  BY <1>2, <1>4, RedialAssumption DEF OneDials, Nobody, Caller
<1>7. FeedsAreCarried'
  BY <1>4 DEF RedialInv, FeedsAreCarried
<1> QED
  BY <1>5, <1>6, <1>7 DEF RedialInv

\* The holder finds a connection, shares a failure, or takes the connection out
\* to replace it.
LEMMA UseTokenKeeps == ASSUME RedialInv, NEW c \in Caller, UseToken(c) PROVE RedialInv'
<1> DEFINE record == CallerState(made)
<1>t. caller \in [Caller -> record] /\ current \in 0..made /\ made \in Nat
  BY NumbersOfLinks DEF RedialInv, RedialTypeOK
<1>h. caller[c].pc = "held"
  BY DEF UseToken
<1>1. CASE Found(c, current) /\ token' = Nobody /\ UNCHANGED current
  <2> DEFINE r == [AtRest EXCEPT !.pc = IF c \in Asker THEN "work" ELSE "enrol", !.link = current]
  <2>1. r \in record /\ r.pc \in {"work", "enrol"}
    BY <1>t DEF AtRest, CallerState, Places
  <2>2. caller' = [caller EXCEPT ![c] = r]
    BY <1>1 DEF Found
  <2> HIDE DEF r
  <2>3. caller' \in [Caller -> record] /\ caller'[c] = r /\ \A d \in Caller : d # c => caller'[d] = caller[d]
    BY <1>t, <2>1, <2>2
  <2> QED
    BY <1>1, <1>h, <2>1, <2>3, TokenGivenBack DEF UseToken
<1>2. CASE Fails(c) /\ token' = Nobody /\ UNCHANGED current
  <2> DEFINE r == [AtRest EXCEPT !.pc = IF c \in Asker THEN "rest" ELSE "bell"]
  <2>1. r \in record /\ r.pc \in {"rest", "bell"}
    <3>1. 0 \in 0..made /\ {"rest", "bell"} \subseteq Places
      BY <1>t DEF Places
    <3> QED
      BY <1>t, <3>1, NewStates
  <2>2. caller' = [caller EXCEPT ![c] = r]
    BY <1>2 DEF Fails
  <2> HIDE DEF r
  <2>3. caller' \in [Caller -> record] /\ caller'[c] = r /\ \A d \in Caller : d # c => caller'[d] = caller[d]
    BY <1>t, <2>1, <2>2
  <2> QED
    BY <1>2, <1>h, <2>1, <2>3, TokenGivenBack DEF UseToken
<1>3. CASE /\ caller' = [caller EXCEPT ![c].pc = "dial", ![c].link = current]
           /\ current' = 0
           /\ UNCHANGED token
  <2> DEFINE r == [caller[c] EXCEPT !.pc = "dial", !.link = current]
  <2>1. r \in record /\ r.pc = "dial" /\ r.link = current
    BY <1>t, <1>h DEF CallerState, Places
  <2>2. caller' = [caller EXCEPT ![c] = r]
    BY <1>3, <1>t
  <2> HIDE DEF r
  <2>3. caller' \in [Caller -> record] /\ caller'[c] = r /\ \A d \in Caller : d # c => caller'[d] = caller[d]
    BY <1>t, <2>1, <2>2
  <2>4. \A d \in Caller : caller[d].pc # "dial"
    BY <1>h DEF RedialInv, OneDials
  <2>5. feedsOn = current
    BY <2>4 DEF RedialInv, OneDials, FeedsAreCarried
  <2>6. RedialTypeOK'
    BY <1>3, <2>3 DEF RedialInv, RedialTypeOK, UseToken
  <2>7. OneDials'
    BY <1>3, <1>h, <2>1, <2>3 DEF RedialInv, OneDials, UseToken
  <2>8. FeedsAreCarried'
    BY <1>3, <2>1, <2>3, <2>5 DEF FeedsAreCarried, UseToken
  <2> QED
    BY <2>6, <2>7, <2>8 DEF RedialInv
<1> QED
  BY <1>1, <1>2, <1>3 DEF UseToken

\* The caller that dials is the one the feeds wait with.
LEMMA DialerHasTheFeeds ==
  ASSUME RedialInv, NEW c \in Caller, caller[c].pc = "dial"
  PROVE  /\ token = c /\ current = 0 /\ caller[c].link = feedsOn
         /\ \A d \in Caller : d # c => caller[d].pc \notin {"held", "dial", "ring"}
<1>1. token = c /\ current = 0 /\ \A d \in Caller : d # c => caller[d].pc \notin {"held", "dial", "ring"}
  BY DEF RedialInv, OneDials
<1>2. PICK d \in Caller : caller[d].pc = "dial" /\ caller[d].link = feedsOn
  BY <1>1 DEF RedialInv, FeedsAreCarried
<1> QED
  BY <1>1, <1>2

\* The new connection has the feeds.
LEMMA DialLandsKeeps == ASSUME RedialInv, NEW c \in Caller, DialLands(c) PROVE RedialInv'
<1>n. made \in Nat /\ made >= 1 /\ MaxLinks \in Nat
  BY NumbersOfLinks DEF RedialInv
<1>1. made' = made + 1 /\ made < MaxLinks /\ current' = made'
  BY DEF DialLands
<1>2. token = c /\ caller[c].link = feedsOn
      /\ \A d \in Caller : d # c => caller[d].pc \notin {"held", "dial", "ring"}
  BY DialerHasTheFeeds DEF DialLands
<1>3. feedsOn' = made'
  BY <1>2 DEF DialLands
<1>4. \A d \in Caller : caller[d] \in CallerState(made')
  <2>1. \A d \in Caller : caller[d] \in CallerState(made)
    BY DEF RedialInv, RedialTypeOK
  <2> QED
    BY <1>n, <1>1, <2>1, StatesGrow
<1> DEFINE r == [caller[c] EXCEPT !.pc = "ring", !.link = made']
<1>5. r \in CallerState(made') /\ r.pc = "ring"
  <2>1. caller[c] \in CallerState(made') /\ made' \in 0..made' /\ "ring" \in Places
    BY <1>n, <1>1, <1>4 DEF Places
  <2> QED
    BY <2>1 DEF CallerState
<1>6. \A d \in Caller : Waits(d) \in CallerState(made') /\ Waits(d).pc = caller[d].pc
  BY <1>4 DEF Waits, CallerState
<1>7. caller' = [d \in Caller |-> IF d = c THEN r ELSE Waits(d)]
  BY DEF DialLands
<1> HIDE DEF r
<1>8. /\ caller' \in [Caller -> CallerState(made')] /\ caller'[c] = r
      /\ \A d \in Caller : d # c => caller'[d].pc = caller[d].pc
  BY <1>5, <1>6, <1>7
<1>9. RedialTypeOK'
  <2>1. UNCHANGED <<hostUp, gone, deaf, token>> /\ lastFailed' = FALSE
    BY DEF DialLands
  <2>2. /\ hostUp \in BOOLEAN /\ token \in Caller \cup {Nobody}
        /\ gone \subseteq 1..made /\ deaf \subseteq 1..made
    BY DEF RedialInv, RedialTypeOK
  <2> QED
    <3>1. made' \in 1..MaxLinks /\ current' \in 0..made' /\ feedsOn' \in 1..made'
      BY <1>n, <1>1, <1>3
    <3>2. gone' \subseteq 1..made' /\ deaf' \subseteq 1..made'
      BY <1>n, <1>1, <2>1, <2>2
    <3> QED
      BY <1>8, <2>1, <2>2, <3>1, <3>2 DEF RedialTypeOK
<1>10. OneDials'
  <2>1. current' # 0
    BY <1>n, <1>1
  <2>2. token' = token
    BY DEF DialLands
  <2> QED
    BY <1>2, <1>5, <1>8, <2>1, <2>2 DEF OneDials
<1>11. FeedsAreCarried'
  BY <1>n, <1>1, <1>3 DEF FeedsAreCarried
<1> QED
  BY <1>9, <1>10, <1>11 DEF RedialInv

\* The bell is rung and the token given back.
LEMMA RingConnectedKeeps == ASSUME RedialInv, NEW c \in Caller, RingConnected(c) PROVE RedialInv'
<1> DEFINE record == CallerState(made)
           r      == [AtRest EXCEPT !.pc = IF c \in Asker THEN "work" ELSE "enrol", !.link = caller[c].link]
<1>m. feedsOn \in 1..made /\ made \in Nat
  BY NumbersOfLinks DEF RedialInv
<1>1. caller \in [Caller -> record]
  BY DEF RedialInv, RedialTypeOK
<1>2. r \in record /\ r.pc \in {"work", "enrol"}
  BY <1>1, <1>m DEF AtRest, CallerState, Places
<1>3. AtRest \in record /\ AtRest.pc = "rest"
  BY RecordsOfCallers DEF AtRest
<1>4. caller' = [d \in Caller |-> IF d = c THEN r ELSE IF caller[d].pc = "backoff" THEN AtRest ELSE caller[d]]
  BY DEF RingConnected
<1> HIDE DEF r
<1>5. caller' \in [Caller -> record] /\ caller'[c] = r
  BY <1>1, <1>2, <1>3, <1>4
<1>6. \A d \in Caller : d # c => \/ caller'[d] = caller[d]
                                 \/ (caller[d].pc = "backoff" /\ caller'[d].pc = "rest")
  BY <1>3, <1>4
<1> QED
  BY <1>2, <1>5, <1>6, TokenGivenBack DEF RingConnected

\* What was taken out to be replaced is put back.
LEMMA DialFailsKeeps == ASSUME RedialInv, NEW c \in Caller, DialFails(c) PROVE RedialInv'
<1> DEFINE record == CallerState(made)
           r      == [AtRest EXCEPT !.pc = IF c \in Asker THEN "rest" ELSE "bell"]
<1>m. feedsOn \in 1..made /\ made \in Nat
  BY NumbersOfLinks DEF RedialInv
<1>1. caller \in [Caller -> record]
  BY DEF RedialInv, RedialTypeOK
<1>2. caller[c].link = feedsOn /\ \A d \in Caller : d # c => caller[d].pc \notin {"held", "dial", "ring"}
  BY DialerHasTheFeeds DEF DialFails
<1>3. r \in record /\ r.pc \in {"rest", "bell"}
  <2>1. 0 \in 0..made /\ {"rest", "bell"} \subseteq Places
    BY <1>m DEF Places
  <2> QED
    BY <1>m, <2>1, NewStates
<1>4. \A d \in Caller : Waits(d) \in record /\ Waits(d).pc = caller[d].pc
  BY <1>1 DEF Waits, CallerState
<1>5. caller' = [d \in Caller |-> IF d = c THEN r ELSE Waits(d)]
  BY DEF DialFails
<1> HIDE DEF r
<1>6. caller' \in [Caller -> record] /\ \A d \in Caller : caller'[d].pc \notin {"held", "dial", "ring"}
  BY <1>2, <1>3, <1>4, <1>5
<1>7. current' = feedsOn /\ lastFailed' = TRUE /\ token' = Nobody /\ UNCHANGED <<hostUp, made, gone, deaf, feedsOn>>
  BY <1>2 DEF DialFails, PutBack
<1>8. RedialTypeOK'
  BY <1>6, <1>7, <1>m DEF RedialInv, RedialTypeOK
<1>9. OneDials'
  BY <1>6, <1>7, <1>m, RedialAssumption DEF OneDials, Nobody, Caller
<1>10. FeedsAreCarried'
  BY <1>7, <1>m DEF FeedsAreCarried
<1> QED
  BY <1>8, <1>9, <1>10 DEF RedialInv

\* A connection dies: it wakes those that are parked on it and moves no feed.
LEMMA DeathsKeep ==
  ASSUME RedialInv, Dies(current), current # 0,
         UNCHANGED <<hostUp, made, current, deaf, token, lastFailed, feedsOn>>
  PROVE  RedialInv'
<1> DEFINE record == CallerState(made)
<1>m. feedsOn \in 1..made /\ made \in Nat
  BY NumbersOfLinks DEF RedialInv
<1>1. caller \in [Caller -> record] /\ current \in 1..made
  BY DEF RedialInv, RedialTypeOK
<1>2. AtRest \in record /\ AtRest.pc = "rest"
  BY <1>1, <1>m DEF AtRest, CallerState, Places
<1>3. caller' \in [Caller -> record]
  BY <1>1, <1>2 DEF Dies
<1>4. \A c \in Caller : \/ caller'[c] = caller[c]
                         \/ (caller[c].pc = "parked" /\ caller'[c].pc = "rest")
  BY <1>1, <1>2 DEF Dies
<1>5. RedialTypeOK'
  BY <1>1, <1>3 DEF RedialInv, RedialTypeOK, Dies
<1>6. OneDials'
  BY <1>4 DEF RedialInv, OneDials
<1>7. FeedsAreCarried'
  BY DEF RedialInv, FeedsAreCarried
<1> QED
  BY <1>5, <1>6, <1>7 DEF RedialInv

\* The host is heard from no more, or goes, or comes.
LEMMA HostStepsKeep ==
  ASSUME RedialInv, HostGoesDeaf \/ HostGoesDown \/ HostComesUp PROVE RedialInv'
<1>m. feedsOn \in 1..made /\ made \in Nat
  BY NumbersOfLinks DEF RedialInv
<1>1. RedialTypeOK'
  <2>1. UNCHANGED <<made, current, gone, token, lastFailed, caller, feedsOn>> /\ hostUp' \in BOOLEAN
    BY DEF RedialInv, RedialTypeOK, HostGoesDeaf, HostGoesDown, HostComesUp
  <2>2. current # 0 => current \in 1..made
    BY <1>m, NumbersOfLinks DEF RedialInv
  <2>3. deaf' \subseteq 1..made
    BY <2>2 DEF RedialInv, RedialTypeOK, HostGoesDeaf, HostGoesDown, HostComesUp, Lives
  <2> QED
    BY <2>1, <2>3 DEF RedialInv, RedialTypeOK
<1>2. OneDials'
  BY DEF RedialInv, OneDials, HostGoesDeaf, HostGoesDown, HostComesUp
<1>3. FeedsAreCarried'
  BY DEF RedialInv, FeedsAreCarried, HostGoesDeaf, HostGoesDown, HostComesUp
<1> QED
  BY <1>1, <1>2, <1>3 DEF RedialInv

\* Every step keeps the invariant.
LEMMA RedialKeeps == ASSUME RedialInv, [RedialNext]_redialVars PROVE RedialInv'
<1>1. ASSUME NEW c \in Caller, Ask(c) \/ CallerTurn(c) \/ TakeToken(c) PROVE RedialInv'
  BY <1>1, StepsOutsideKeep, UseTokenKeeps, DialLandsKeeps, DialFailsKeeps, RingConnectedKeeps, TakeTokenKeeps
     DEF CallerTurn
<1>2. CASE KeepaliveGivesUp \/ TransportFails
  BY <1>2, DeathsKeep DEF KeepaliveGivesUp, TransportFails, Lives
<1>3. CASE HostGoesDeaf \/ HostGoesDown \/ HostComesUp
  BY <1>3, HostStepsKeep
<1>4. CASE UNCHANGED redialVars
  BY <1>4 DEF redialVars, RedialInv, RedialTypeOK, OneDials, FeedsAreCarried
<1> QED
  BY <1>1, <1>2, <1>3, <1>4 DEF RedialNext

\* One caller at most dials at a time, and however its attempt ends the feeds are
\* with the connection there is then (wire.rs, ensure_active and connect_fresh).
THEOREM RedialIsSafe == RedialSpec => []RedialInv
<1>1. RedialInit => RedialInv
  BY RedialStarts
<1>2. RedialInv /\ [RedialNext]_redialVars => RedialInv'
  BY RedialKeeps
<1> QED
  BY <1>1, <1>2, PTL DEF RedialSpec

-----------------------------------------------------------------------------
(***************************************************************************)
(* Terminals, for any number of terminals, connections, chunks and         *)
(* geometries.                                                             *)
(*                                                                         *)
(* First what each action does to each terminal (the lemmas Effect: they   *)
(* carry the types), then an inductive invariant, what a step has to leave *)
(* alone for each of its parts to stay, and that every action keeps it     *)
(* (the lemmas Keeps).                                                     *)
(***************************************************************************)

Phase  == {"none", "running", "exited", "disposed"}
Stage  == {"no", "wait", "create", "shown", "failed"}
Answer == {"none", "created", "refused"}

LEMMA Fields ==
  ASSUME TermTypeOK
  PROVE  /\ pty \in [Terminal -> PtyState] /\ viewers \in [Terminal -> SUBSET Link]
         /\ requests \subseteq Requested /\ taps \in [Link -> [Terminal -> Seq(0..MaxChunks)]]
         /\ links \in LinkState /\ resume \in Resuming
         /\ seats \in [Terminal -> 0..MaxSizes] /\ orphans \subseteq Terminal
         /\ pane \in [Terminal -> PaneState] /\ opening \in [Terminal -> OpenState]
         /\ hanging \in [Terminal -> {"no", "up", "down", "done"}] /\ causes \subseteq Why
         /\ MaxChunks \in Nat /\ MaxSizes \in Nat \ {0} /\ MaxDeaths \in Nat
BY TerminalAssumption DEF TermTypeOK

\* What the records have, and what an update leaves of them.
LEMMA PtyFields ==
  ASSUME NEW p \in PtyState
  PROVE  /\ p.phase \in Phase /\ p.chunks \in 0..MaxChunks /\ p.size \in 0..MaxSizes
         /\ \A x \in Phase : LET q == [p EXCEPT !.phase = x] IN
              q \in PtyState /\ q.phase = x /\ q.chunks = p.chunks /\ q.size = p.size
         /\ \A x \in 0..MaxChunks : LET q == [p EXCEPT !.chunks = x] IN
              q \in PtyState /\ q.phase = p.phase /\ q.chunks = x /\ q.size = p.size
         /\ \A x \in 0..MaxSizes : LET q == [p EXCEPT !.size = x] IN
              q \in PtyState /\ q.phase = p.phase /\ q.chunks = p.chunks /\ q.size = x
BY DEF PtyState, Phase

LEMMA PaneFields ==
  ASSUME NEW p \in PaneState
  PROVE  p.grid \in Seq(1..MaxChunks) /\ p.exited \in BOOLEAN /\ p.link \in MaybeLink
BY DEF PaneState

LEMMA GridSet ==
  ASSUME NEW p \in PaneState, NEW x \in Seq(1..MaxChunks)
  PROVE  LET q == [p EXCEPT !.grid = x] IN
           q \in PaneState /\ q.grid = x /\ q.exited = p.exited /\ q.link = p.link
BY DEF PaneState

LEMMA ExitSet ==
  ASSUME NEW p \in PaneState, NEW x \in BOOLEAN
  PROVE  LET q == [p EXCEPT !.exited = x] IN
           q \in PaneState /\ q.grid = p.grid /\ q.exited = x /\ q.link = p.link
BY DEF PaneState

LEMMA OpenFields ==
  ASSUME NEW p \in OpenState
  PROVE  p.pc \in Stage /\ p.link \in MaybeLink /\ p.answer \in Answer
BY DEF OpenState, Stage, Answer

LEMMA AnswerSet ==
  ASSUME NEW p \in OpenState, NEW x \in Answer
  PROVE  LET q == [p EXCEPT !.answer = x] IN
           q \in OpenState /\ q.pc = p.pc /\ q.link = p.link
BY DEF OpenState, Stage, Answer

LEMMA StageSet ==
  ASSUME NEW p \in OpenState, NEW x \in Stage
  PROVE  LET q == [p EXCEPT !.pc = x] IN
           q \in OpenState /\ q.pc = x /\ q.link = p.link
BY DEF OpenState, Stage, Answer

LEMMA LinkFields ==
  ASSUME NEW p \in LinkState
  PROVE  p.made \in Link /\ p.active \in MaybeLink /\ p.dead \in SUBSET Link /\ p.closed \in SUBSET Link
BY DEF LinkState

LEMMA DeadSet ==
  ASSUME NEW p \in LinkState, NEW x \in SUBSET Link
  PROVE  LET q == [p EXCEPT !.dead = x] IN
           q \in LinkState /\ q.made = p.made /\ q.active = p.active /\ q.dead = x /\ q.closed = p.closed
BY DEF LinkState

LEMMA ActiveSet ==
  ASSUME NEW p \in LinkState, NEW x \in MaybeLink
  PROVE  LET q == [p EXCEPT !.active = x] IN
           q \in LinkState /\ q.made = p.made /\ q.active = x /\ q.dead = p.dead /\ q.closed = p.closed
BY DEF LinkState

LEMMA ClosedSet ==
  ASSUME NEW p \in LinkState, NEW x \in SUBSET Link
  PROVE  LET q == [p EXCEPT !.closed = x] IN
           q \in LinkState /\ q.made = p.made /\ q.active = p.active /\ q.dead = p.dead /\ q.closed = x
BY DEF LinkState

LEMMA ResumeFields ==
  ASSUME NEW p \in Resuming
  PROVE  /\ p.link \in MaybeLink /\ p.previous \in MaybeLink
         /\ p.pc \in {"none", "dialed", "attach", "orphans"} /\ p.todo \subseteq Terminal
         /\ p.told \in [Terminal -> 0..MaxSizes] /\ p.disposing \subseteq Terminal
BY DEF Resuming

LEMMA RequestFields ==
  ASSUME NEW kind \in {"create", "dispose", "resize"}, NEW k \in Link, NEW t \in Terminal,
         NEW size \in 0..MaxSizes
  PROVE  LET q == Request(kind, k, t, size) IN
           q \in Requested /\ q.kind = kind /\ q.link = k /\ q.t = t /\ q.size = size
BY DEF Request, Requested

LEMMA RequestsHave ==
  ASSUME TermTypeOK, NEW r \in requests
  PROVE  r.kind \in {"create", "dispose", "resize"} /\ r.link \in Link /\ r.t \in Terminal
         /\ r.size \in 0..MaxSizes
BY DEF TermTypeOK, Requested

LEMMA AMaybe == NoLink \in MaybeLink /\ \A k \in Link : k \in MaybeLink
BY DEF MaybeLink

\* A connection that is alive is one.
LEMMA AliveIsALink == ASSUME NEW k \in MaybeLink, Alive(k) PROVE k \in Link /\ k # NoLink
BY DEF Alive, NoLink, MaybeLink

LEMMA NotResumedFields ==
  /\ NotResumed \in Resuming
  /\ NotResumed.link = NoLink /\ NotResumed.previous = NoLink /\ NotResumed.pc = "none"
  /\ NotResumed.todo = {} /\ NotResumed.told = [u \in Terminal |-> NoSeat] /\ NotResumed.disposing = {}
BY TerminalAssumption DEF NotResumed, Resuming, NoLink, MaybeLink, NoSeat

\* The grid of a PTY's copy.
LEMMA GridOfChunks ==
  ASSUME NEW n \in 0..MaxChunks
  PROVE  [i \in 1..n |-> i] \in Seq(1..MaxChunks)
<1>1. n \in Nat /\ \A i \in 1..n : i \in 1..MaxChunks
  BY TerminalAssumption
<1> QED
  BY <1>1

LEMMA CreateTerminalEffect ==
  ASSUME TermTypeOK, NEW r \in requests, CreateTerminal(r)
  PROVE  /\ TermTypeOK'
         /\ UNCHANGED <<viewers, taps, links, resume, seats, orphans, pane, hanging>>
         /\ \A u \in Terminal : u # r.t => pty'[u] = pty[u]
         /\ pty[r.t].phase \in {"none", "disposed"} => pty'[r.t].phase = "running"
            /\ pty'[r.t].chunks = 0 /\ pty'[r.t].size = r.size
         /\ pty[r.t].phase \notin {"none", "disposed"} => pty'[r.t] = pty[r.t]
         /\ \A u \in Terminal : opening'[u].pc = opening[u].pc /\ opening'[u].link = opening[u].link
         /\ causes \subseteq causes' /\ causes' \subseteq Why
         /\ hanging[r.t] = "done" => "late" \in causes'
         /\ requests' = requests \ {r}
<1>0. UNCHANGED <<viewers, taps, links, resume, seats, orphans, pane, hanging>>
  BY DEF CreateTerminal, clientVars
<1>1. /\ pty' \in [Terminal -> PtyState]
      /\ \A u \in Terminal : u # r.t => pty'[u] = pty[u]
      /\ pty[r.t].phase \in {"none", "disposed"} => pty'[r.t].phase = "running" /\ pty'[r.t].chunks = 0
         /\ pty'[r.t].size = r.size
      /\ pty[r.t].phase \notin {"none", "disposed"} => pty'[r.t] = pty[r.t]
  <2>1. pty \in [Terminal -> PtyState] /\ r.t \in Terminal /\ r.size \in 0..MaxSizes /\ 0 \in 0..MaxChunks
    BY Fields, RequestsHave
  <2>2. CASE pty[r.t].phase \in {"none", "disposed"}
    <3>1. pty' = [pty EXCEPT ![r.t] = [phase |-> "running", chunks |-> 0, size |-> r.size]]
      BY <2>2 DEF CreateTerminal
    <3>2. [phase |-> "running", chunks |-> 0, size |-> r.size] \in PtyState
      BY <2>1 DEF PtyState
    <3> QED
      BY <2>1, <2>2, <3>1, <3>2
  <2>3. CASE pty[r.t].phase \notin {"none", "disposed"}
    BY <2>1, <2>3 DEF CreateTerminal
  <2> QED
    BY <2>2, <2>3
<1>2. /\ opening' \in [Terminal -> OpenState]
      /\ \A u \in Terminal : opening'[u].pc = opening[u].pc /\ opening'[u].link = opening[u].link
  <2>1. opening \in [Terminal -> OpenState] /\ r.t \in Terminal
    BY Fields, RequestsHave
  <2>2. PICK x \in Answer : opening' = [opening EXCEPT ![r.t] = [opening[r.t] EXCEPT !.answer = x]]
    BY <2>1, OpenFields DEF CreateTerminal, Answer
  <2>3. /\ [opening[r.t] EXCEPT !.answer = x] \in OpenState
        /\ [opening[r.t] EXCEPT !.answer = x].pc = opening[r.t].pc
           /\ [opening[r.t] EXCEPT !.answer = x].link = opening[r.t].link
    BY <2>1, <2>2, AnswerSet
  <2> QED
    BY <2>1, <2>2, <2>3
<1>3. /\ causes \subseteq causes' /\ causes' \subseteq Why
      /\ hanging[r.t] = "done" => "late" \in causes'
  BY Fields DEF CreateTerminal, Because, Why
<1>4. requests' = requests \ {r}
  BY Fields DEF CreateTerminal
<1>t. TermTypeOK'
  BY Fields, <1>0, <1>1, <1>2, <1>3, <1>4 DEF TermTypeOK
<1> QED
  BY <1>0, <1>1, <1>2, <1>3, <1>4, <1>t

LEMMA DisposeTerminalEffect ==
  ASSUME TermTypeOK, NEW r \in requests, DisposeTerminal(r)
  PROVE  /\ TermTypeOK'
         /\ UNCHANGED <<taps, links, resume, seats, orphans, pane, opening, hanging, causes>>
         /\ \A u \in Terminal : u # r.t => pty'[u] = pty[u]
         /\ pty'[r.t].phase = IF pty[r.t].phase = "none" THEN "none" ELSE "disposed"
         /\ pty'[r.t].chunks = pty[r.t].chunks /\ pty'[r.t].size = pty[r.t].size
         /\ \A u \in Terminal : u # r.t => viewers'[u] = viewers[u]
         /\ viewers'[r.t] = {}
         /\ requests' = requests \ {r}
<1>0. UNCHANGED <<taps, links, resume, seats, orphans, pane, opening, hanging, causes>>
  BY DEF DisposeTerminal, clientVars, paneVars
<1>1. /\ pty' \in [Terminal -> PtyState]
      /\ \A u \in Terminal : u # r.t => pty'[u] = pty[u]
      /\ pty'[r.t].phase = IF pty[r.t].phase = "none" THEN "none" ELSE "disposed"
      /\ pty'[r.t].chunks = pty[r.t].chunks /\ pty'[r.t].size = pty[r.t].size
  <2>1. pty \in [Terminal -> PtyState] /\ r.t \in Terminal
    BY Fields, RequestsHave
  <2>2. PICK x \in Phase : /\ x = (IF pty[r.t].phase = "none" THEN "none" ELSE "disposed")
                          /\ pty' = [pty EXCEPT ![r.t] = [pty[r.t] EXCEPT !.phase = x]]
    BY DEF DisposeTerminal, Phase
  <2> QED
    BY <2>1, <2>2, PtyFields
<1>2. /\ viewers' \in [Terminal -> SUBSET Link]
      /\ \A u \in Terminal : u # r.t => viewers'[u] = viewers[u]
      /\ viewers'[r.t] = {}
  BY Fields, RequestsHave DEF DisposeTerminal
<1>3. requests' = requests \ {r}
  BY Fields DEF DisposeTerminal
<1>t. TermTypeOK'
  BY Fields, <1>0, <1>1, <1>2, <1>3 DEF TermTypeOK
<1> QED
  BY <1>0, <1>1, <1>2, <1>3, <1>t

LEMMA ResizeTerminalEffect ==
  ASSUME TermTypeOK, NEW r \in requests, ResizeTerminal(r)
  PROVE  /\ TermTypeOK'
         /\ UNCHANGED <<viewers, taps, links, resume, seats, orphans, pane, opening, hanging>>
         /\ \A u \in Terminal : u # r.t => pty'[u] = pty[u]
         /\ pty'[r.t].size = IF pty[r.t].phase \in {"running", "exited"} THEN r.size ELSE pty[r.t].size
         /\ pty'[r.t].chunks = pty[r.t].chunks /\ pty'[r.t].phase = pty[r.t].phase
         /\ causes \subseteq causes' /\ causes' \subseteq Why
         /\ r.size < pty[r.t].size => "overtaken" \in causes'
         /\ requests' = requests \ {r}
<1>0. UNCHANGED <<viewers, taps, links, resume, seats, orphans, pane, opening, hanging>>
  BY DEF ResizeTerminal, clientVars, paneVars
<1>1. /\ pty' \in [Terminal -> PtyState]
      /\ \A u \in Terminal : u # r.t => pty'[u] = pty[u]
      /\ pty'[r.t].size = IF pty[r.t].phase \in {"running", "exited"} THEN r.size ELSE pty[r.t].size
      /\ pty'[r.t].chunks = pty[r.t].chunks /\ pty'[r.t].phase = pty[r.t].phase
  <2>1. pty \in [Terminal -> PtyState] /\ r.t \in Terminal /\ r.size \in 0..MaxSizes
    BY Fields, RequestsHave
  <2>2. PICK x \in 0..MaxSizes :
          /\ x = (IF pty[r.t].phase \in {"running", "exited"} THEN r.size ELSE pty[r.t].size)
          /\ pty' = [pty EXCEPT ![r.t] = [pty[r.t] EXCEPT !.size = x]]
    BY <2>1, PtyFields DEF ResizeTerminal
  <2> QED
    BY <2>1, <2>2, PtyFields
<1>2. /\ causes \subseteq causes' /\ causes' \subseteq Why
      /\ r.size < pty[r.t].size => "overtaken" \in causes'
  BY Fields DEF ResizeTerminal, Because, Why
<1>3. requests' = requests \ {r}
  BY Fields DEF ResizeTerminal
<1>t. TermTypeOK'
  BY Fields, <1>0, <1>1, <1>2, <1>3 DEF TermTypeOK
<1> QED
  BY <1>0, <1>1, <1>2, <1>3, <1>t

LEMMA PtySaysEffect ==
  ASSUME TermTypeOK, NEW t \in Terminal, PtySays(t)
  PROVE  /\ TermTypeOK'
         /\ UNCHANGED <<viewers, requests, links, resume, seats, orphans, pane, opening, hanging, causes>>
         /\ \A u \in Terminal : u # t => pty'[u] = pty[u]
         /\ pty'[t].phase = pty[t].phase /\ pty'[t].size = pty[t].size /\ pty'[t].chunks = pty[t].chunks + 1
         /\ \A k \in Link : \A u \in Terminal : u # t => taps'[k][u] = taps[k][u]
         /\ \A k \in Link : taps'[k][t] = IF k \in viewers[t] THEN Append(taps[k][t],
            pty[t].chunks + 1) ELSE taps[k][t]
<1>0. UNCHANGED <<viewers, requests, links, resume, seats, orphans, pane, opening, hanging, causes>>
  BY DEF PtySays, clientVars, paneVars
<1>1. /\ pty' \in [Terminal -> PtyState]
      /\ \A u \in Terminal : u # t => pty'[u] = pty[u]
      /\ pty'[t].phase = pty[t].phase /\ pty'[t].size = pty[t].size /\ pty'[t].chunks = pty[t].chunks + 1
  <2>1. pty \in [Terminal -> PtyState]
    BY Fields
  <2>2. pty[t].chunks \in 0..MaxChunks /\ pty[t].chunks < MaxChunks
    BY <2>1, PtyFields DEF PtySays
  <2>3. pty[t].chunks + 1 \in 0..MaxChunks
    BY <2>2, TerminalAssumption
  <2>4. pty' = [pty EXCEPT ![t] = [pty[t] EXCEPT !.chunks = pty[t].chunks + 1]]
    BY DEF PtySays
  <2> QED
    BY <2>1, <2>3, <2>4, PtyFields
<1>2. /\ taps' \in [Link -> [Terminal -> Seq(0..MaxChunks)]]
      /\ \A k \in Link : \A u \in Terminal : u # t => taps'[k][u] = taps[k][u]
      /\ \A k \in Link : taps'[k][t] = IF k \in viewers[t] THEN Append(taps[k][t],
         pty[t].chunks + 1) ELSE taps[k][t]
  <2>1. pty' = [pty EXCEPT ![t].chunks = @ + 1] /\ pty \in [Terminal -> PtyState]
    BY Fields DEF PtySays
  <2>2. pty'[t].chunks = pty[t].chunks + 1 /\ pty'[t].chunks \in 0..MaxChunks
    BY <1>1, <2>1, PtyFields
  <2>3. taps' = [k \in Link |-> IF k \in viewers[t] THEN [taps[k] EXCEPT ![t] = Append(@,
        pty[t].chunks + 1)] ELSE taps[k]]
    BY <2>2 DEF PtySays, Tells
  <2>4. \A k \in Link : Append(taps[k][t], pty[t].chunks + 1) \in Seq(0..MaxChunks)
    BY <2>2, Fields
  <2> QED
    BY <2>3, <2>4, Fields
<1>t. TermTypeOK'
  BY Fields, <1>0, <1>1, <1>2 DEF TermTypeOK
<1> QED
  BY <1>0, <1>1, <1>2, <1>t

LEMMA PtyExitsEffect ==
  ASSUME TermTypeOK, NEW t \in Terminal, PtyExits(t)
  PROVE  /\ TermTypeOK'
         /\ UNCHANGED <<viewers, requests, links, resume, seats, orphans, pane, opening, hanging, causes>>
         /\ \A u \in Terminal : u # t => pty'[u] = pty[u]
         /\ pty'[t].phase = "exited" /\ pty'[t].size = pty[t].size /\ pty'[t].chunks = pty[t].chunks
         /\ \A k \in Link : \A u \in Terminal : u # t => taps'[k][u] = taps[k][u]
         /\ \A k \in Link : taps'[k][t] = IF k \in viewers[t] THEN Append(taps[k][t], Exit) ELSE taps[k][t]
<1>0. UNCHANGED <<viewers, requests, links, resume, seats, orphans, pane, opening, hanging, causes>>
  BY DEF PtyExits, clientVars, paneVars
<1>1. /\ pty' \in [Terminal -> PtyState]
      /\ \A u \in Terminal : u # t => pty'[u] = pty[u]
      /\ pty'[t].phase = "exited" /\ pty'[t].size = pty[t].size /\ pty'[t].chunks = pty[t].chunks
  <2>1. pty \in [Terminal -> PtyState] /\ "exited" \in Phase
    BY Fields DEF Phase
  <2>2. pty' = [pty EXCEPT ![t] = [pty[t] EXCEPT !.phase = "exited"]]
    BY DEF PtyExits
  <2> QED
    BY <2>1, <2>2, PtyFields
<1>2. /\ taps' \in [Link -> [Terminal -> Seq(0..MaxChunks)]]
      /\ \A k \in Link : \A u \in Terminal : u # t => taps'[k][u] = taps[k][u]
      /\ \A k \in Link : taps'[k][t] = IF k \in viewers[t] THEN Append(taps[k][t], Exit) ELSE taps[k][t]
  BY Fields DEF PtyExits, Tells, Exit
<1>t. TermTypeOK'
  BY Fields, <1>0, <1>1, <1>2 DEF TermTypeOK
<1> QED
  BY <1>0, <1>1, <1>2, <1>t

LEMMA CloseLinkEffect ==
  ASSUME TermTypeOK, NEW k \in Link, CloseLink(k)
  PROVE  /\ TermTypeOK'
         /\ UNCHANGED <<pty, resume, seats, orphans, pane, opening, hanging>>
         /\ links'.made = links.made /\ links'.active = links.active /\ links'.dead = links.dead
            /\ links'.closed = links.closed \cup {k}
         /\ \A u \in Terminal : viewers'[u] = viewers[u] \ {k}
         /\ requests' = {r \in requests : r.link # k}
         /\ \A l \in Link : l # k => taps'[l] = taps[l]
         /\ \A u \in Terminal : taps'[k][u] = <<>>
         /\ causes \subseteq causes' /\ causes' \subseteq Why
         /\ (\E r \in requests : r.link = k /\ r.kind = "dispose") => "dropped" \in causes'
<1>0. UNCHANGED <<pty, resume, seats, orphans, pane, opening, hanging>>
  BY DEF CloseLink, clientVars, paneVars
<1>1. /\ links' \in LinkState
      /\ links'.made = links.made /\ links'.active = links.active /\ links'.dead = links.dead
         /\ links'.closed = links.closed \cup {k}
  <2>1. links \in LinkState
    BY Fields
  <2>2. links.closed \cup {k} \in SUBSET Link
    BY <2>1, LinkFields
  <2>3. links' = [links EXCEPT !.closed = links.closed \cup {k}]
    BY DEF CloseLink
  <2> QED
    BY <2>1, <2>2, <2>3, ClosedSet
<1>2. /\ viewers' \in [Terminal -> SUBSET Link]
      /\ \A u \in Terminal : viewers'[u] = viewers[u] \ {k}
  BY Fields DEF CloseLink
<1>3. requests' = {r \in requests : r.link # k}
  BY Fields DEF CloseLink
<1>4. /\ taps' \in [Link -> [Terminal -> Seq(0..MaxChunks)]]
      /\ \A l \in Link : l # k => taps'[l] = taps[l]
      /\ \A u \in Terminal : taps'[k][u] = <<>>
  BY Fields DEF CloseLink
<1>5. /\ causes \subseteq causes' /\ causes' \subseteq Why
      /\ (\E r \in requests : r.link = k /\ r.kind = "dispose") => "dropped" \in causes'
  BY Fields DEF CloseLink, Because, Why
<1>t. TermTypeOK'
  BY Fields, <1>0, <1>1, <1>2, <1>3, <1>4, <1>5 DEF TermTypeOK
<1> QED
  BY <1>0, <1>1, <1>2, <1>3, <1>4, <1>5, <1>t

LEMMA PumpTerminalEffect ==
  ASSUME TermTypeOK, NEW k \in Link, NEW t \in Terminal, PumpTerminal(k, t)
  PROVE  /\ TermTypeOK'
         /\ UNCHANGED <<pty, viewers, requests, links, resume, seats, orphans, opening, hanging>>
         /\ \A l \in Link : \A u \in Terminal : l # k \/ u # t => taps'[l][u] = taps[l][u]
         /\ taps'[k][t] = Tail(taps[k][t])
         /\ \A u \in Terminal : u # t => pane'[u] = pane[u]
         /\ pane'[t].link = pane[t].link
         /\ Head(taps[k][t]) = Exit => pane'[t].exited = TRUE /\ pane'[t].grid = pane[t].grid
         /\ Head(taps[k][t]) # Exit => pane'[t].exited = pane[t].exited
            /\ pane'[t].grid = Append(pane[t].grid, Head(taps[k][t]))
         /\ causes \subseteq causes' /\ causes' \subseteq Why
         /\ pane[t].link # k => "stale" \in causes'
<1>0. UNCHANGED <<pty, viewers, requests, links, resume, seats, orphans, opening, hanging>>
  BY DEF PumpTerminal, hostVars, clientVars
<1>1. /\ taps' \in [Link -> [Terminal -> Seq(0..MaxChunks)]]
      /\ \A l \in Link : \A u \in Terminal : l # k \/ u # t => taps'[l][u] = taps[l][u]
      /\ taps'[k][t] = Tail(taps[k][t])
  <2>1. taps[k][t] \in Seq(0..MaxChunks) /\ taps[k][t] # <<>>
    BY Fields DEF PumpTerminal
  <2>2. Tail(taps[k][t]) \in Seq(0..MaxChunks)
    BY <2>1, HeadTailProperties
  <2>3. taps' = [taps EXCEPT ![k] = [taps[k] EXCEPT ![t] = Tail(taps[k][t])]]
    BY DEF PumpTerminal
  <2> QED
    BY <2>2, <2>3, Fields
<1>2. /\ pane' \in [Terminal -> PaneState]
      /\ \A u \in Terminal : u # t => pane'[u] = pane[u]
      /\ pane'[t].link = pane[t].link
      /\ Head(taps[k][t]) = Exit => pane'[t].exited = TRUE /\ pane'[t].grid = pane[t].grid
      /\ Head(taps[k][t]) # Exit => pane'[t].exited = pane[t].exited
         /\ pane'[t].grid = Append(pane[t].grid, Head(taps[k][t]))
  <2>1. pane \in [Terminal -> PaneState] /\ taps[k][t] \in Seq(0..MaxChunks) /\ taps[k][t] # <<>>
    BY Fields DEF PumpTerminal
  <2>2. Head(taps[k][t]) \in 0..MaxChunks /\ MaxChunks \in Nat
    BY <2>1, TerminalAssumption
  <2>3. CASE Head(taps[k][t]) = Exit
    <3>1. pane' = [pane EXCEPT ![t] = [pane[t] EXCEPT !.exited = TRUE]]
      BY <2>3 DEF PumpTerminal
    <3> QED
      BY <2>1, <2>3, <3>1, ExitSet
  <2>4. CASE Head(taps[k][t]) # Exit
    <3>1. pane' = [pane EXCEPT ![t] = [pane[t] EXCEPT !.grid = Append(pane[t].grid, Head(taps[k][t]))]]
      BY <2>4 DEF PumpTerminal
    <3>2. Head(taps[k][t]) \in 1..MaxChunks
      BY <2>2, <2>4 DEF Exit
    <3>3. Append(pane[t].grid, Head(taps[k][t])) \in Seq(1..MaxChunks)
      BY <2>1, <3>2, PaneFields
    <3> QED
      BY <2>1, <2>4, <3>1, <3>3, GridSet
  <2> QED
    BY <2>3, <2>4
<1>3. /\ causes \subseteq causes' /\ causes' \subseteq Why
      /\ pane[t].link # k => "stale" \in causes'
  BY Fields DEF PumpTerminal, Exit, Because, Why
<1>t. TermTypeOK'
  BY Fields, <1>0, <1>1, <1>2, <1>3 DEF TermTypeOK
<1> QED
  BY <1>0, <1>1, <1>2, <1>3, <1>t

LEMMA TerminalOpenEffect ==
  ASSUME TermTypeOK, NEW t \in Terminal, TerminalOpen(t)
  PROVE  /\ TermTypeOK'
         /\ UNCHANGED <<pty, viewers, requests, taps, links, resume, orphans, pane, hanging, causes>>
         /\ \A u \in Terminal : u # t => seats'[u] = seats[u]
         /\ seats'[t] = 1
         /\ \A u \in Terminal : u # t => opening'[u] = opening[u]
         /\ opening'[t].pc = "wait" /\ opening'[t].link = opening[t].link
<1>0. UNCHANGED <<pty, viewers, requests, taps, links, resume, orphans, pane, hanging, causes>>
  BY DEF TerminalOpen, hostVars
<1>1. /\ seats' \in [Terminal -> 0..MaxSizes]
      /\ \A u \in Terminal : u # t => seats'[u] = seats[u]
      /\ seats'[t] = 1
  BY Fields DEF TerminalOpen
<1>2. /\ opening' \in [Terminal -> OpenState]
      /\ \A u \in Terminal : u # t => opening'[u] = opening[u]
      /\ opening'[t].pc = "wait" /\ opening'[t].link = opening[t].link
  <2>1. opening \in [Terminal -> OpenState] /\ "wait" \in Stage
    BY Fields DEF Stage
  <2>2. opening' = [opening EXCEPT ![t] = [opening[t] EXCEPT !.pc = "wait"]]
    BY DEF TerminalOpen
  <2>3. /\ [opening[t] EXCEPT !.pc = "wait"] \in OpenState
        /\ [opening[t] EXCEPT !.pc = "wait"].pc = "wait"
           /\ [opening[t] EXCEPT !.pc = "wait"].link = opening[t].link
    BY <2>1, <2>2, StageSet
  <2> QED
    BY <2>1, <2>2, <2>3
<1>t. TermTypeOK'
  BY Fields, <1>0, <1>1, <1>2 DEF TermTypeOK
<1> QED
  BY <1>0, <1>1, <1>2, <1>t

LEMMA OpenCreatesEffect ==
  ASSUME TermTypeOK, NEW t \in Terminal, OpenCreates(t)
  PROVE  /\ TermTypeOK'
         /\ UNCHANGED <<pty, viewers, taps, links, resume, seats, orphans, pane, hanging, causes>>
         /\ \A u \in Terminal : u # t => opening'[u] = opening[u]
         /\ opening'[t].pc = "create" /\ opening'[t].link = links.active
         /\ \E q \in Requested : requests' = requests \cup {q} /\ q.kind = "create" /\ q.t = t
            /\ q.link = links.active /\ q.size = 1
<1>0. UNCHANGED <<pty, viewers, taps, links, resume, seats, orphans, pane, hanging, causes>>
  BY DEF OpenCreates, hostVars, clientVars
<1>1. /\ opening' \in [Terminal -> OpenState]
      /\ \A u \in Terminal : u # t => opening'[u] = opening[u]
      /\ opening'[t].pc = "create" /\ opening'[t].link = links.active
  <2>1. opening \in [Terminal -> OpenState] /\ links.active \in Link
    BY Fields, LinkFields, AliveIsALink DEF OpenCreates, Up
  <2>2. [pc |-> "create", link |-> links.active, answer |-> "none"] \in OpenState
    BY <2>1, AMaybe DEF OpenState
  <2> QED
    BY <2>1, <2>2 DEF OpenCreates
<1>2. /\ requests' \subseteq Requested
      /\ \E q \in Requested : requests' = requests \cup {q} /\ q.kind = "create" /\ q.t = t
         /\ q.link = links.active /\ q.size = 1
  <2>1. links.active \in Link /\ 1 \in 0..MaxSizes /\ requests \subseteq Requested
    BY Fields, LinkFields, AliveIsALink DEF OpenCreates, Up
  <2> QED
    BY <2>1, RequestFields DEF OpenCreates
<1>t. TermTypeOK'
  BY Fields, <1>0, <1>1, <1>2 DEF TermTypeOK
<1> QED
  BY <1>0, <1>1, <1>2, <1>t

LEMMA OpenAttachesEffect ==
  ASSUME TermTypeOK, NEW t \in Terminal, OpenAttaches(t)
  PROVE  /\ TermTypeOK'
         /\ UNCHANGED <<pty, requests, taps, links, resume, seats, orphans, hanging, causes>>
         /\ \A u \in Terminal : u # t => viewers'[u] = viewers[u]
         /\ \A u \in Terminal : u # t => pane'[u] = pane[u]
         /\ hanging[t] = "done" => UNCHANGED <<viewers, pane>>
         /\ hanging[t] # "done" => viewers'[t] = viewers[t] \cup {opening[t].link}
         /\ hanging[t] # "done" => pane'[t].link = opening[t].link
            /\ pane'[t].grid = [n \in 1..pty[t].chunks |-> n]
         /\ hanging[t] # "done" => pane'[t].exited = (pane[t].exited \/ pty[t].phase = "exited")
         /\ \A u \in Terminal : u # t => opening'[u] = opening[u]
         /\ opening'[t].pc = "shown" /\ opening'[t].link = opening[t].link
<1>0. UNCHANGED <<pty, requests, taps, links, resume, seats, orphans, hanging, causes>>
  BY DEF OpenAttaches, clientVars
<1>1. /\ viewers' \in [Terminal -> SUBSET Link]
      /\ \A u \in Terminal : u # t => viewers'[u] = viewers[u]
      /\ hanging[t] = "done" => UNCHANGED <<viewers, pane>>
      /\ hanging[t] # "done" => viewers'[t] = viewers[t] \cup {opening[t].link}
  <2>1. opening[t].link \in Link
    BY Fields, OpenFields, AliveIsALink DEF OpenAttaches
  <2> QED
    BY <2>1, Fields DEF OpenAttaches, Attach
<1>2. /\ pane' \in [Terminal -> PaneState]
      /\ \A u \in Terminal : u # t => pane'[u] = pane[u]
      /\ hanging[t] # "done" => pane'[t].link = opening[t].link
         /\ pane'[t].grid = [n \in 1..pty[t].chunks |-> n]
      /\ hanging[t] # "done" => pane'[t].exited = (pane[t].exited \/ pty[t].phase = "exited")
  <2>1. opening[t].link \in Link /\ pane \in [Terminal -> PaneState] /\ pty[t] \in PtyState
    BY Fields, OpenFields, AliveIsALink DEF OpenAttaches
  <2>2. [n \in 1..pty[t].chunks |-> n] \in Seq(1..MaxChunks)
    BY <2>1, PtyFields, GridOfChunks
  <2>3. CASE hanging[t] = "done"
    BY <2>1, <2>3, Fields DEF OpenAttaches, Attach
  <2>4. CASE hanging[t] # "done"
    <3>1. pane' = [pane EXCEPT ![t] = Shown(pane[t], t, opening[t].link)]
      BY <2>4 DEF OpenAttaches, Attach
    <3>2. /\ Shown(pane[t], t, opening[t].link) \in PaneState
          /\ Shown(pane[t], t, opening[t].link).link = opening[t].link
          /\ Shown(pane[t], t, opening[t].link).grid = [n \in 1..pty[t].chunks |-> n]
          /\ Shown(pane[t], t, opening[t].link).exited = (pane[t].exited \/ pty[t].phase = "exited")
      BY <2>1, <2>2, AMaybe DEF Shown, PaneState
    <3> QED
      BY <2>1, <2>4, <3>1, <3>2
  <2> QED
    BY <2>3, <2>4
<1>3. /\ opening' \in [Terminal -> OpenState]
      /\ \A u \in Terminal : u # t => opening'[u] = opening[u]
      /\ opening'[t].pc = "shown" /\ opening'[t].link = opening[t].link
  <2>1. opening \in [Terminal -> OpenState] /\ "shown" \in Stage
    BY Fields DEF Stage
  <2>2. opening' = [opening EXCEPT ![t] = [opening[t] EXCEPT !.pc = "shown"]]
    BY DEF OpenAttaches
  <2>3. /\ [opening[t] EXCEPT !.pc = "shown"] \in OpenState
        /\ [opening[t] EXCEPT !.pc = "shown"].pc = "shown"
           /\ [opening[t] EXCEPT !.pc = "shown"].link = opening[t].link
    BY <2>1, <2>2, StageSet
  <2> QED
    BY <2>1, <2>2, <2>3
<1>t. TermTypeOK'
  BY Fields, <1>0, <1>1, <1>2, <1>3 DEF TermTypeOK
<1> QED
  BY <1>0, <1>1, <1>2, <1>3, <1>t

LEMMA OpenFailsEffect ==
  ASSUME TermTypeOK, NEW t \in Terminal, OpenFails(t)
  PROVE  /\ TermTypeOK'
         /\ UNCHANGED <<pty, viewers, requests, taps, links, resume, orphans, pane, hanging, causes>>
         /\ \A u \in Terminal : u # t => seats'[u] = seats[u]
         /\ seats'[t] = NoSeat
         /\ \A u \in Terminal : u # t => opening'[u] = opening[u]
         /\ opening'[t].pc = "failed" /\ opening'[t].link = NoLink
<1>0. UNCHANGED <<pty, viewers, requests, taps, links, resume, orphans, pane, hanging, causes>>
  BY DEF OpenFails, hostVars
<1>1. /\ seats' \in [Terminal -> 0..MaxSizes]
      /\ \A u \in Terminal : u # t => seats'[u] = seats[u]
      /\ seats'[t] = NoSeat
  BY Fields DEF OpenFails, NoSeat
<1>2. /\ opening' \in [Terminal -> OpenState]
      /\ \A u \in Terminal : u # t => opening'[u] = opening[u]
      /\ opening'[t].pc = "failed" /\ opening'[t].link = NoLink
  <2>1. opening \in [Terminal -> OpenState] /\ "failed" \in Stage /\ 0 = NoLink
    BY Fields DEF Stage, NoLink
  <2>o. opening[t] \in OpenState
    BY <2>1
  <2>2. opening' = [opening EXCEPT ![t] = [opening[t] EXCEPT !.pc = "failed", !.link = NoLink]]
    BY <2>1 DEF OpenFails
  <2>3. /\ [opening[t] EXCEPT !.pc = "failed", !.link = NoLink] \in OpenState
        /\ [opening[t] EXCEPT !.pc = "failed", !.link = NoLink].pc = "failed"
           /\ [opening[t] EXCEPT !.pc = "failed", !.link = NoLink].link = NoLink
    BY <2>1, <2>2, <2>o, AMaybe DEF OpenState, Stage
  <2> QED
    BY <2>1, <2>2, <2>3
<1>t. TermTypeOK'
  BY Fields, <1>0, <1>1, <1>2 DEF TermTypeOK
<1> QED
  BY <1>0, <1>1, <1>2, <1>t

LEMMA TerminalResizeEffect ==
  ASSUME TermTypeOK, NEW t \in Terminal, TerminalResize(t)
  PROVE  /\ TermTypeOK'
         /\ UNCHANGED <<pty, viewers, taps, links, resume, orphans, pane, opening, hanging>>
         /\ \A u \in Terminal : u # t => seats'[u] = seats[u]
         /\ seats'[t] = seats[t] + 1
         /\ Up => \E q \in Requested : requests' = requests \cup {q} /\ q.kind = "resize" /\ q.t = t
            /\ q.link = links.active /\ q.size = seats[t] + 1
         /\ ~Up => requests' = requests
         /\ causes \subseteq causes' /\ causes' \subseteq Why
         /\ resume.pc \in {"attach", "orphans"} => "window" \in causes'
<1>0. UNCHANGED <<pty, viewers, taps, links, resume, orphans, pane, opening, hanging>>
  BY DEF TerminalResize, hostVars, paneVars
<1>1. /\ seats' \in [Terminal -> 0..MaxSizes]
      /\ \A u \in Terminal : u # t => seats'[u] = seats[u]
      /\ seats'[t] = seats[t] + 1
  BY Fields DEF TerminalResize
<1>2. /\ requests' \subseteq Requested
      /\ Up => \E q \in Requested : requests' = requests \cup {q} /\ q.kind = "resize" /\ q.t = t
         /\ q.link = links.active /\ q.size = seats[t] + 1
      /\ ~Up => requests' = requests
  <2>1. requests \subseteq Requested /\ links.active \in MaybeLink
    BY Fields, LinkFields
  <2>2. seats'[t] \in 0..MaxSizes
    BY <1>1
  <2>3. CASE Up
    <3>1. links.active \in Link
      BY <2>1, <2>3, AliveIsALink DEF Up
    <3>2. requests' = requests \cup {Request("resize", links.active, t, seats[t] + 1)}
      BY <1>1, <2>3 DEF TerminalResize
    <3> QED
      BY <1>1, <2>1, <2>2, <2>3, <3>1, <3>2, RequestFields
  <2>4. CASE ~Up
    BY <2>1, <2>4 DEF TerminalResize
  <2> QED
    BY <2>3, <2>4
<1>3. /\ causes \subseteq causes' /\ causes' \subseteq Why
      /\ resume.pc \in {"attach", "orphans"} => "window" \in causes'
  BY Fields DEF TerminalResize, Because, Why, Link, NoLink
<1>t. TermTypeOK'
  BY Fields, <1>0, <1>1, <1>2, <1>3 DEF TermTypeOK
<1> QED
  BY <1>0, <1>1, <1>2, <1>3, <1>t

LEMMA HangUpEffect ==
  ASSUME TermTypeOK, NEW t \in Terminal, HangUp(t)
  PROVE  /\ TermTypeOK'
         /\ UNCHANGED <<pty, viewers, requests, taps, links, resume, seats, orphans, pane, opening, causes>>
         /\ \A u \in Terminal : u # t => hanging'[u] = hanging[u]
         /\ hanging'[t] \in {"up", "down"}
<1>0. UNCHANGED <<pty, viewers, requests, taps, links, resume, seats, orphans, pane, opening, causes>>
  BY DEF HangUp, hostVars, clientVars
<1>1. /\ hanging' \in [Terminal -> {"no", "up", "down", "done"}]
      /\ \A u \in Terminal : u # t => hanging'[u] = hanging[u]
      /\ hanging'[t] \in {"up", "down"}
  BY Fields DEF HangUp
<1>t. TermTypeOK'
  BY Fields, <1>0, <1>1 DEF TermTypeOK
<1> QED
  BY <1>0, <1>1, <1>t

LEMMA TerminalDisposeEffect ==
  ASSUME TermTypeOK, NEW t \in Terminal, TerminalDispose(t)
  PROVE  /\ TermTypeOK'
         /\ UNCHANGED <<pty, links, resume>>
         /\ \A u \in Terminal : u # t => hanging'[u] = hanging[u]
         /\ hanging'[t] = "done"
         /\ \A u \in Terminal : u # t => seats'[u] = seats[u]
         /\ seats'[t] = NoSeat
         /\ orphans \subseteq orphans' /\ orphans' \subseteq Terminal
         /\ hanging[t] = "down" => t \in orphans'
         /\ hanging[t] = "up" /\ Up => \E q \in Requested : requests' = requests \cup {q}
            /\ q.kind = "dispose" /\ q.t = t
         /\ ~(hanging[t] = "up" /\ Up) => requests' = requests
         /\ \A u \in Terminal : u # t => viewers'[u] = viewers[u]
         /\ viewers'[t] = {}
         /\ \A k \in Link : \A u \in Terminal : u # t => taps'[k][u] = taps[k][u]
         /\ \A k \in Link : taps'[k][t] = <<>>
         /\ \A u \in Terminal : u # t => pane'[u] = pane[u]
         /\ pane'[t].grid = <<>> /\ pane'[t].exited = FALSE /\ pane'[t].link = NoLink
         /\ \A u \in Terminal : u # t => opening'[u] = opening[u]
         /\ opening'[t].pc = opening[t].pc /\ opening'[t].link = NoLink
         /\ causes \subseteq causes' /\ causes' \subseteq Why
         /\ hanging[t] = "up" /\ ~Up => "dropped" \in causes'
<1>0. UNCHANGED <<pty, links, resume>>
  BY DEF TerminalDispose
<1>1. /\ hanging' \in [Terminal -> {"no", "up", "down", "done"}]
      /\ \A u \in Terminal : u # t => hanging'[u] = hanging[u]
      /\ hanging'[t] = "done"
  BY Fields DEF TerminalDispose, Orphaned, Blank, NoSeat
<1>2. /\ seats' \in [Terminal -> 0..MaxSizes]
      /\ \A u \in Terminal : u # t => seats'[u] = seats[u]
      /\ seats'[t] = NoSeat
  BY Fields DEF TerminalDispose, Orphaned, Blank, NoSeat
<1>3. /\ orphans \subseteq orphans' /\ orphans' \subseteq Terminal
      /\ hanging[t] = "down" => t \in orphans'
  BY Fields DEF TerminalDispose, Orphaned, Blank, NoSeat
<1>4. /\ requests' \subseteq Requested
      /\ hanging[t] = "up" /\ Up => \E q \in Requested : requests' = requests \cup {q}
         /\ q.kind = "dispose" /\ q.t = t
      /\ ~(hanging[t] = "up" /\ Up) => requests' = requests
  <2>1. requests \subseteq Requested /\ links.active \in MaybeLink /\ 0 \in 0..MaxSizes
    BY Fields, LinkFields
  <2>2. CASE hanging[t] = "up" /\ Up
    BY <2>1, <2>2, AliveIsALink, RequestFields DEF TerminalDispose, Up
  <2>3. CASE ~(hanging[t] = "up" /\ Up)
    BY <2>1, <2>3 DEF TerminalDispose
  <2> QED
    BY <2>2, <2>3
<1>5. /\ viewers' \in [Terminal -> SUBSET Link]
      /\ \A u \in Terminal : u # t => viewers'[u] = viewers[u]
      /\ viewers'[t] = {}
  BY Fields DEF TerminalDispose, Orphaned, Blank, NoSeat
<1>6. /\ taps' \in [Link -> [Terminal -> Seq(0..MaxChunks)]]
      /\ \A k \in Link : \A u \in Terminal : u # t => taps'[k][u] = taps[k][u]
      /\ \A k \in Link : taps'[k][t] = <<>>
  BY Fields DEF TerminalDispose, Orphaned, Blank, NoSeat
<1>7. /\ pane' \in [Terminal -> PaneState]
      /\ \A u \in Terminal : u # t => pane'[u] = pane[u]
      /\ pane'[t].grid = <<>> /\ pane'[t].exited = FALSE /\ pane'[t].link = NoLink
  <2>1. Blank \in PaneState /\ Blank.grid = <<>> /\ Blank.exited = FALSE /\ Blank.link = NoLink
    BY AMaybe DEF Blank, PaneState, NoLink
  <2> QED
    BY <2>1, Fields DEF TerminalDispose
<1>8. /\ opening' \in [Terminal -> OpenState]
      /\ \A u \in Terminal : u # t => opening'[u] = opening[u]
      /\ opening'[t].pc = opening[t].pc /\ opening'[t].link = NoLink
  <2>1. opening \in [Terminal -> OpenState] /\ "none" \in Answer /\ 0 = NoLink
    BY Fields DEF Answer, NoLink
  <2>o. opening[t] \in OpenState
    BY <2>1, OpenFields
  <2>p. opening[t].pc \in Stage
    BY <2>1, OpenFields
  <2>2. opening' = [opening EXCEPT ![t] = [opening[t] EXCEPT !.link = NoLink, !.answer = "none"]]
    BY <2>1 DEF TerminalDispose
  <2>3. /\ [opening[t] EXCEPT !.link = NoLink, !.answer = "none"] \in OpenState
        /\ [opening[t] EXCEPT !.link = NoLink, !.answer = "none"].pc = opening[t].pc
           /\ [opening[t] EXCEPT !.link = NoLink, !.answer = "none"].link = NoLink
    BY <2>o, AMaybe DEF OpenState
  <2> QED
    BY <2>1, <2>2, <2>3
<1>9. /\ causes \subseteq causes' /\ causes' \subseteq Why
      /\ hanging[t] = "up" /\ ~Up => "dropped" \in causes'
  BY Fields DEF TerminalDispose, Orphaned, Blank, NoSeat, Because, Why
<1>t. TermTypeOK'
  BY Fields, <1>0, <1>1, <1>2, <1>3, <1>4, <1>5, <1>6, <1>7, <1>8, <1>9 DEF TermTypeOK
<1> QED
  BY <1>0, <1>1, <1>2, <1>3, <1>4, <1>5, <1>6, <1>7, <1>8, <1>9, <1>t

LEMMA LinkDiesEffect ==
  ASSUME TermTypeOK, LinksInOrder, LinkDies
  PROVE  /\ TermTypeOK'
         /\ UNCHANGED <<pty, viewers, requests, taps, resume, seats, orphans, pane, opening, hanging,
            causes>>
         /\ links'.made = links.made /\ links'.active = links.active
            /\ links'.dead = links.dead \cup {links.active} /\ links'.closed = links.closed
<1>0. UNCHANGED <<pty, viewers, requests, taps, resume, seats, orphans, pane, opening, hanging, causes>>
  BY DEF LinkDies, hostVars, clientVars, paneVars
<1>1. /\ links' \in LinkState
      /\ links'.made = links.made /\ links'.active = links.active
         /\ links'.dead = links.dead \cup {links.active} /\ links'.closed = links.closed
  <2>1. links \in LinkState /\ links.dead \cup {links.active} \in SUBSET Link
    BY Fields, LinkFields, AliveIsALink DEF LinkDies, Up
  <2>2. links' = [links EXCEPT !.dead = links.dead \cup {links.active}]
    BY DEF LinkDies
  <2> QED
    BY <2>1, <2>2, DeadSet
<1>t. TermTypeOK'
  BY Fields, <1>0, <1>1 DEF TermTypeOK
<1> QED
  BY <1>0, <1>1, <1>t

LEMMA RedialEffect ==
  ASSUME TermTypeOK, LinksInOrder, Redial
  PROVE  /\ TermTypeOK'
         /\ UNCHANGED <<pty, viewers, requests, taps, seats, orphans, pane, opening, hanging, causes>>
         /\ links'.made = links.made + 1 /\ links'.active = NoLink /\ links'.dead = links.dead
            /\ links'.closed = links.closed
         /\ resume'.link = links.made + 1 /\ resume'.previous = links.active /\ resume'.pc = "dialed"
            /\ resume'.todo = {} /\ resume'.told = [u \in Terminal |-> NoSeat] /\ resume'.disposing = {}
<1>0. UNCHANGED <<pty, viewers, requests, taps, seats, orphans, pane, opening, hanging, causes>>
  BY DEF Redial, hostVars, clientVars, paneVars
<1>1. /\ links' \in LinkState
      /\ links'.made = links.made + 1 /\ links'.active = NoLink /\ links'.dead = links.dead
         /\ links'.closed = links.closed
  <2>1. links \in LinkState /\ links.made + 1 \in Link /\ NoLink \in MaybeLink
    <3>1. links.made \in Link /\ links.made < MaxDeaths + 1 /\ MaxDeaths \in Nat
      BY Fields, LinkFields DEF Redial
    <3>2. links.made + 1 \in Link
      BY <3>1 DEF Link
    <3> QED
      BY <3>2, Fields, AMaybe
  <2>2. links' = [links EXCEPT !.made = links.made + 1, !.active = NoLink]
    BY DEF Redial, NoLink
  <2> QED
    BY <2>1, <2>2 DEF LinkState
<1>2. /\ resume' \in Resuming
      /\ resume'.link = links.made + 1 /\ resume'.previous = links.active /\ resume'.pc = "dialed"
         /\ resume'.todo = {} /\ resume'.told = [u \in Terminal |-> NoSeat] /\ resume'.disposing = {}
  <2>1. links.made + 1 \in Link /\ links.active \in MaybeLink
    BY <1>1, Fields, LinkFields
  <2>2. resume' = [NotResumed EXCEPT !.link = links.made + 1, !.previous = links.active, !.pc = "dialed"]
    BY DEF Redial
  <2> QED
    BY <2>1, <2>2, NotResumedFields, AMaybe DEF Resuming
<1>t. TermTypeOK'
  BY Fields, <1>0, <1>1, <1>2 DEF TermTypeOK
<1> QED
  BY <1>0, <1>1, <1>2, <1>t

LEMMA ResumeSeatsEffect ==
  ASSUME TermTypeOK, LinksInOrder, ResumeSeats
  PROVE  /\ TermTypeOK'
         /\ UNCHANGED <<pty, viewers, requests, taps, links, seats, orphans, pane, opening, hanging,
            causes>>
         /\ resume'.link = resume.link /\ resume'.previous = resume.previous /\ resume'.pc = "attach"
            /\ resume'.todo = {u \in Terminal : seats[u] # NoSeat} /\ resume'.told = seats
               /\ resume'.disposing = resume.disposing
<1>0. UNCHANGED <<pty, viewers, requests, taps, links, seats, orphans, pane, opening, hanging, causes>>
  BY DEF ResumeSeats, hostVars, clientVars, paneVars
<1>1. /\ resume' \in Resuming
      /\ resume'.link = resume.link /\ resume'.previous = resume.previous /\ resume'.pc = "attach"
         /\ resume'.todo = {u \in Terminal : seats[u] # NoSeat} /\ resume'.told = seats
            /\ resume'.disposing = resume.disposing
  BY Fields DEF ResumeSeats, Seated, NoSeat, Resuming, Link, NoLink
<1>t. TermTypeOK'
  BY Fields, <1>0, <1>1 DEF TermTypeOK
<1> QED
  BY <1>0, <1>1, <1>t

LEMMA ResumeAttachesEffect ==
  ASSUME TermTypeOK, LinksInOrder, NEW t \in Terminal, ResumeAttaches(t)
  PROVE  /\ TermTypeOK'
         /\ UNCHANGED <<pty, taps, links, seats, orphans, opening, hanging>>
         /\ \A u \in Terminal : u # t => viewers'[u] = viewers[u]
         /\ \A u \in Terminal : u # t => pane'[u] = pane[u]
         /\ hanging[t] = "done" => UNCHANGED <<viewers, pane>>
         /\ hanging[t] # "done" => viewers'[t] = viewers[t] \cup {resume.link}
         /\ hanging[t] # "done" => pane'[t].link = resume.link
            /\ pane'[t].grid = [n \in 1..pty[t].chunks |-> n]
         /\ hanging[t] # "done" => pane'[t].exited = (pane[t].exited \/ pty[t].phase = "exited")
         /\ \E q \in Requested : requests' = requests \cup {q} /\ q.kind = "resize" /\ q.t = t
            /\ q.link = resume.link /\ q.size = resume.told[t]
         /\ resume'.link = resume.link /\ resume'.previous = resume.previous /\ resume'.pc = resume.pc
            /\ resume'.todo = resume.todo \ {t} /\ resume'.told = resume.told
               /\ resume'.disposing = resume.disposing
         /\ causes \subseteq causes' /\ causes' \subseteq Why
<1>0. UNCHANGED <<pty, taps, links, seats, orphans, opening, hanging>>
  BY DEF ResumeAttaches, clientVars
<1>1. /\ viewers' \in [Terminal -> SUBSET Link]
      /\ \A u \in Terminal : u # t => viewers'[u] = viewers[u]
      /\ hanging[t] = "done" => UNCHANGED <<viewers, pane>>
      /\ hanging[t] # "done" => viewers'[t] = viewers[t] \cup {resume.link}
  <2>1. resume.link \in Link
    BY Fields, ResumeFields, AliveIsALink DEF ResumeAttaches
  <2> QED
    BY <2>1, Fields DEF ResumeAttaches, Attach
<1>2. /\ pane' \in [Terminal -> PaneState]
      /\ \A u \in Terminal : u # t => pane'[u] = pane[u]
      /\ hanging[t] # "done" => pane'[t].link = resume.link
         /\ pane'[t].grid = [n \in 1..pty[t].chunks |-> n]
      /\ hanging[t] # "done" => pane'[t].exited = (pane[t].exited \/ pty[t].phase = "exited")
  <2>1. resume.link \in Link /\ pane \in [Terminal -> PaneState] /\ pty[t] \in PtyState
    BY Fields, ResumeFields, AliveIsALink DEF ResumeAttaches
  <2>2. [n \in 1..pty[t].chunks |-> n] \in Seq(1..MaxChunks)
    BY <2>1, PtyFields, GridOfChunks
  <2>3. CASE hanging[t] = "done"
    BY <2>1, <2>3, Fields DEF ResumeAttaches, Attach
  <2>4. CASE hanging[t] # "done"
    <3>1. pane' = [pane EXCEPT ![t] = Shown(pane[t], t, resume.link)]
      BY <2>4 DEF ResumeAttaches, Attach
    <3>2. /\ Shown(pane[t], t, resume.link) \in PaneState
          /\ Shown(pane[t], t, resume.link).link = resume.link
          /\ Shown(pane[t], t, resume.link).grid = [n \in 1..pty[t].chunks |-> n]
          /\ Shown(pane[t], t, resume.link).exited = (pane[t].exited \/ pty[t].phase = "exited")
      BY <2>1, <2>2, AMaybe DEF Shown, PaneState
    <3> QED
      BY <2>1, <2>4, <3>1, <3>2
  <2> QED
    BY <2>3, <2>4
<1>3. /\ requests' \subseteq Requested
      /\ \E q \in Requested : requests' = requests \cup {q} /\ q.kind = "resize" /\ q.t = t
         /\ q.link = resume.link /\ q.size = resume.told[t]
  <2>1. resume.link \in Link /\ resume.told[t] \in 0..MaxSizes /\ requests \subseteq Requested
    BY Fields, ResumeFields, AliveIsALink DEF ResumeAttaches
  <2> QED
    BY <2>1, RequestFields DEF ResumeAttaches
<1>4. /\ resume' \in Resuming
      /\ resume'.link = resume.link /\ resume'.previous = resume.previous /\ resume'.pc = resume.pc
         /\ resume'.todo = resume.todo \ {t} /\ resume'.told = resume.told
            /\ resume'.disposing = resume.disposing
  BY Fields DEF ResumeAttaches, Resuming, Link, NoLink
<1>5. causes \subseteq causes' /\ causes' \subseteq Why
  BY Fields DEF ResumeAttaches, Because, Why
<1>t. TermTypeOK'
  BY Fields, <1>0, <1>1, <1>2, <1>3, <1>4, <1>5 DEF TermTypeOK
<1> QED
  BY <1>0, <1>1, <1>2, <1>3, <1>4, <1>5, <1>t

LEMMA ResumeRetiresEffect ==
  ASSUME TermTypeOK, LinksInOrder, NEW t \in Terminal, ResumeRetires(t)
  PROVE  /\ TermTypeOK'
         /\ UNCHANGED <<pty, viewers, requests, taps, links, orphans, opening, hanging>>
         /\ \A u \in Terminal : u # t => pane'[u] = pane[u]
         /\ pane'[t].exited = (hanging[t] # "done") /\ pane'[t].grid = pane[t].grid
            /\ pane'[t].link = pane[t].link
         /\ \A u \in Terminal : u # t => seats'[u] = seats[u]
         /\ seats'[t] = NoSeat
         /\ resume'.link = resume.link /\ resume'.previous = resume.previous /\ resume'.pc = resume.pc
            /\ resume'.todo = resume.todo \ {t} /\ resume'.told = resume.told
               /\ resume'.disposing = resume.disposing
         /\ causes \subseteq causes' /\ causes' \subseteq Why
         /\ pty[t].phase # "disposed" => Excused({"misread", "unseated"})'
<1>0. UNCHANGED <<pty, viewers, requests, taps, links, orphans, opening, hanging>>
  BY DEF ResumeRetires, hostVars
<1>1. /\ pane' \in [Terminal -> PaneState]
      /\ \A u \in Terminal : u # t => pane'[u] = pane[u]
      /\ pane'[t].exited = (hanging[t] # "done") /\ pane'[t].grid = pane[t].grid
         /\ pane'[t].link = pane[t].link
  BY Fields DEF ResumeRetires, NoSeat, PaneState
<1>2. /\ seats' \in [Terminal -> 0..MaxSizes]
      /\ \A u \in Terminal : u # t => seats'[u] = seats[u]
      /\ seats'[t] = NoSeat
  BY Fields DEF ResumeRetires, NoSeat
<1>3. /\ resume' \in Resuming
      /\ resume'.link = resume.link /\ resume'.previous = resume.previous /\ resume'.pc = resume.pc
         /\ resume'.todo = resume.todo \ {t} /\ resume'.told = resume.told
            /\ resume'.disposing = resume.disposing
  BY Fields DEF ResumeRetires, NoSeat, Resuming, Link, NoLink
<1>4. /\ causes \subseteq causes' /\ causes' \subseteq Why
      /\ pty[t].phase # "disposed" => Excused({"misread", "unseated"})'
  BY Fields DEF ResumeRetires, NoSeat, Because, Why, Excused
<1>t. TermTypeOK'
  BY Fields, <1>0, <1>1, <1>2, <1>3, <1>4 DEF TermTypeOK
<1> QED
  BY <1>0, <1>1, <1>2, <1>3, <1>4, <1>t

LEMMA ResumeDrainsEffect ==
  ASSUME TermTypeOK, LinksInOrder, ResumeDrains
  PROVE  /\ TermTypeOK'
         /\ UNCHANGED <<pty, viewers, requests, taps, links, seats, pane, opening, hanging, causes>>
         /\ orphans' = {}
         /\ resume'.link = resume.link /\ resume'.previous = resume.previous /\ resume'.pc = "orphans"
            /\ resume'.todo = resume.todo /\ resume'.told = resume.told /\ resume'.disposing = orphans
<1>0. UNCHANGED <<pty, viewers, requests, taps, links, seats, pane, opening, hanging, causes>>
  BY DEF ResumeDrains, hostVars, paneVars
<1>1. orphans' = {}
  BY Fields DEF ResumeDrains
<1>2. /\ resume' \in Resuming
      /\ resume'.link = resume.link /\ resume'.previous = resume.previous /\ resume'.pc = "orphans"
         /\ resume'.todo = resume.todo /\ resume'.told = resume.told /\ resume'.disposing = orphans
  BY Fields DEF ResumeDrains, Resuming, Link, NoLink
<1>t. TermTypeOK'
  BY Fields, <1>0, <1>1, <1>2 DEF TermTypeOK
<1> QED
  BY <1>0, <1>1, <1>2, <1>t

LEMMA ResumeDisposesEffect ==
  ASSUME TermTypeOK, LinksInOrder, NEW t \in Terminal, ResumeDisposes(t)
  PROVE  /\ TermTypeOK'
         /\ UNCHANGED <<pty, viewers, taps, links, seats, orphans, pane, opening, hanging>>
         /\ resume'.link = resume.link /\ resume'.previous = resume.previous /\ resume'.pc = resume.pc
            /\ resume'.todo = resume.todo /\ resume'.told = resume.told
               /\ resume'.disposing = resume.disposing \ {t}
         /\ Alive(resume.link) => \E q \in Requested : requests' = requests \cup {q}
            /\ q.kind = "dispose" /\ q.t = t
         /\ ~Alive(resume.link) => requests' = requests
         /\ causes \subseteq causes' /\ causes' \subseteq Why
         /\ ~Alive(resume.link) => "drained" \in causes'
<1>0. UNCHANGED <<pty, viewers, taps, links, seats, orphans, pane, opening, hanging>>
  BY DEF ResumeDisposes, hostVars, clientVars, paneVars
<1>1. /\ resume' \in Resuming
      /\ resume'.link = resume.link /\ resume'.previous = resume.previous /\ resume'.pc = resume.pc
         /\ resume'.todo = resume.todo /\ resume'.told = resume.told
            /\ resume'.disposing = resume.disposing \ {t}
  BY Fields DEF ResumeDisposes, Resuming, Link, NoLink
<1>2. /\ requests' \subseteq Requested
      /\ Alive(resume.link) => \E q \in Requested : requests' = requests \cup {q} /\ q.kind = "dispose"
         /\ q.t = t
      /\ ~Alive(resume.link) => requests' = requests
  <2>1. resume.link \in MaybeLink /\ 0 \in 0..MaxSizes /\ requests \subseteq Requested
    BY Fields, ResumeFields
  <2>2. CASE Alive(resume.link)
    BY <2>1, <2>2, AliveIsALink, RequestFields DEF ResumeDisposes
  <2>3. CASE ~Alive(resume.link)
    BY <2>1, <2>3 DEF ResumeDisposes
  <2> QED
    BY <2>2, <2>3
<1>3. /\ causes \subseteq causes' /\ causes' \subseteq Why
      /\ ~Alive(resume.link) => "drained" \in causes'
  BY Fields DEF ResumeDisposes, Because, Why, Link, NoLink
<1>t. TermTypeOK'
  BY Fields, <1>0, <1>1, <1>2, <1>3 DEF TermTypeOK
<1> QED
  BY <1>0, <1>1, <1>2, <1>3, <1>t

LEMMA ActivateEffect ==
  ASSUME TermTypeOK, LinksInOrder, Activate
  PROVE  /\ TermTypeOK'
         /\ UNCHANGED <<pty, viewers, requests, taps, seats, orphans, pane, opening, hanging>>
         /\ links'.made = links.made /\ links'.active = resume.link /\ links'.dead = links.dead
            /\ links'.closed = links.closed
         /\ resume'.link = NoLink /\ resume'.previous = NoLink /\ resume'.pc = "none"
            /\ resume'.todo = {} /\ resume'.told = [u \in Terminal |-> NoSeat] /\ resume'.disposing = {}
         /\ causes \subseteq causes' /\ causes' \subseteq Why
<1>0. UNCHANGED <<pty, viewers, requests, taps, seats, orphans, pane, opening, hanging>>
  BY DEF Activate, hostVars, clientVars, paneVars
<1>1. /\ links' \in LinkState
      /\ links'.made = links.made /\ links'.active = resume.link /\ links'.dead = links.dead
         /\ links'.closed = links.closed
  <2>1. links \in LinkState /\ resume.link \in MaybeLink
    BY Fields, ResumeFields
  <2> QED
    BY <2>1, ActiveSet DEF Activate
<1>2. /\ resume' \in Resuming
      /\ resume'.link = NoLink /\ resume'.previous = NoLink /\ resume'.pc = "none" /\ resume'.todo = {}
         /\ resume'.told = [u \in Terminal |-> NoSeat] /\ resume'.disposing = {}
  BY NotResumedFields DEF Activate
<1>3. causes \subseteq causes' /\ causes' \subseteq Why
  BY Fields DEF Activate, NotResumed, Because, Why
<1>t. TermTypeOK'
  BY Fields, <1>0, <1>1, <1>2, <1>3 DEF TermTypeOK
<1> QED
  BY <1>0, <1>1, <1>2, <1>3, <1>t

LEMMA ResumingLinkDiesEffect ==
  ASSUME TermTypeOK, LinksInOrder, ResumingLinkDies
  PROVE  /\ TermTypeOK'
         /\ UNCHANGED <<pty, viewers, requests, taps, resume, seats, orphans, pane, opening, hanging,
            causes>>
         /\ links'.made = links.made /\ links'.active = links.active
            /\ links'.dead = links.dead \cup {resume.link} /\ links'.closed = links.closed
<1>0. UNCHANGED <<pty, viewers, requests, taps, resume, seats, orphans, pane, opening, hanging, causes>>
  BY DEF ResumingLinkDies, hostVars, clientVars, paneVars
<1>1. /\ links' \in LinkState
      /\ links'.made = links.made /\ links'.active = links.active
         /\ links'.dead = links.dead \cup {resume.link} /\ links'.closed = links.closed
  <2>1. links \in LinkState /\ links.dead \cup {resume.link} \in SUBSET Link
    BY Fields, LinkFields, ResumeFields, AliveIsALink DEF ResumingLinkDies
  <2>2. links' = [links EXCEPT !.dead = links.dead \cup {resume.link}]
    BY DEF ResumingLinkDies
  <2> QED
    BY <2>1, <2>2, DeadSet
<1>t. TermTypeOK'
  BY Fields, <1>0, <1>1 DEF TermTypeOK
<1> QED
  BY <1>0, <1>1, <1>t

LEMMA ResumeTimesOutEffect ==
  ASSUME TermTypeOK, LinksInOrder, ResumeTimesOut
  PROVE  /\ TermTypeOK'
         /\ UNCHANGED <<pty, viewers, requests, taps, seats, orphans, pane, opening, hanging>>
         /\ links'.made = links.made /\ links'.active = resume.previous
            /\ links'.dead = links.dead \cup {resume.link} /\ links'.closed = links.closed
         /\ resume'.link = NoLink /\ resume'.previous = NoLink /\ resume'.pc = "none"
            /\ resume'.todo = {} /\ resume'.told = [u \in Terminal |-> NoSeat] /\ resume'.disposing = {}
         /\ causes \subseteq causes' /\ causes' \subseteq Why
         /\ resume.disposing # {} => "drained" \in causes'
<1>0. UNCHANGED <<pty, viewers, requests, taps, seats, orphans, pane, opening, hanging>>
  BY DEF ResumeTimesOut, hostVars, clientVars, paneVars
<1>1. /\ links' \in LinkState
      /\ links'.made = links.made /\ links'.active = resume.previous
         /\ links'.dead = links.dead \cup {resume.link} /\ links'.closed = links.closed
  <2>1. /\ links \in LinkState /\ links.dead \cup {resume.link} \in SUBSET Link
        /\ resume.previous \in MaybeLink
    BY Fields, LinkFields, ResumeFields DEF ResumeTimesOut, NoLink, MaybeLink
  <2>2. links' = [links EXCEPT !.dead = links.dead \cup {resume.link}, !.active = resume.previous]
    BY DEF ResumeTimesOut
  <2> QED
    BY <2>1, <2>2 DEF LinkState
<1>2. /\ resume' \in Resuming
      /\ resume'.link = NoLink /\ resume'.previous = NoLink /\ resume'.pc = "none" /\ resume'.todo = {}
         /\ resume'.told = [u \in Terminal |-> NoSeat] /\ resume'.disposing = {}
  BY NotResumedFields DEF ResumeTimesOut
<1>3. /\ causes \subseteq causes' /\ causes' \subseteq Why
      /\ resume.disposing # {} => "drained" \in causes'
  BY Fields DEF ResumeTimesOut, NotResumed, Because, Why, Link, NoLink
<1>t. TermTypeOK'
  BY Fields, <1>0, <1>1, <1>2, <1>3 DEF TermTypeOK
<1> QED
  BY <1>0, <1>1, <1>2, <1>3, <1>t

-----------------------------------------------------------------------------
\* What is shown to hold of each terminal ...
Right(t) ==
  /\ ShowsWhatWasSaid(t) /\ IsOwned(t) /\ ExitIsTrue(t)
  /\ CreatedOnce(t) /\ AttachedOnce(t) /\ StreamContinues(t) /\ NoneIsNewer(t) /\ SeatIsTold(t)

IInv == TermTypeOK /\ LinksInOrder /\ \A t \in Terminal : Right(t)

LEMMA ExcusesStay == ASSUME causes \subseteq causes', NEW why, Excused(why) PROVE Excused(why)'
BY DEF Excused

\* ... and what a step has to leave alone, for each part of it to stay.
LEMMA ShowsStays ==
  ASSUME NEW t \in Terminal, ShowsWhatWasSaid(t), causes \subseteq causes', pane'[t].grid = pane[t].grid
  PROVE  ShowsWhatWasSaid(t)'
BY ExcusesStay DEF ShowsWhatWasSaid

LEMMA OwnedStays ==
  ASSUME NEW t \in Terminal, IsOwned(t), causes \subseteq causes',
         pty'[t].phase = "running" => pty[t].phase = "running", hanging'[t] = "done" => hanging[t] = "done",
         t \in orphans => t \in orphans' \cup resume'.disposing,
         t \in resume.disposing => t \in resume'.disposing \/ Excused({"drained"})',
         \A r \in requests : r.kind = "dispose" /\ r.t = t => r \in requests' \/ Excused({"dropped"})'
  PROVE  IsOwned(t)'
<1>1. Excused({"dropped", "drained", "late"}) => Excused({"dropped", "drained", "late"})'
  BY ExcusesStay
<1>2. Excused({"drained"})' \/ Excused({"dropped"})' => Excused({"dropped", "drained", "late"})'
  BY DEF Excused
<1> QED
  BY <1>1, <1>2 DEF IsOwned

LEMMA ExitStays ==
  ASSUME NEW t \in Terminal, ExitIsTrue(t), causes \subseteq causes',
         pane'[t].exited => pane[t].exited, Gone(t) => Gone(t)',
         \A k \in Link : taps'[k][t] \in {taps[k][t], <<>>}
  PROVE  ExitIsTrue(t)'
<1>1. Excused({"misread", "unseated"}) => Excused({"misread", "unseated"})'
  BY ExcusesStay
<1>2. DOMAIN <<>> = {}
  OBVIOUS
<1>3. \A k \in Link : \A i \in DOMAIN taps'[k][t] : taps'[k][t][i] = Exit => Gone(t)'
  BY <1>2 DEF ExitIsTrue
<1>4. pane'[t].exited => Gone(t)' \/ Excused({"misread", "unseated"})'
  BY <1>1 DEF ExitIsTrue
<1> QED
  BY <1>3, <1>4 DEF ExitIsTrue

LEMMA CreatedStays ==
  ASSUME NEW t \in Terminal, CreatedOnce(t),
         opening'[t].pc \in {"no", "wait"} => opening[t].pc \in {"no", "wait"},
         pty[t].phase = "none" => pty'[t].phase = "none",
         \A r \in requests' : r.kind = "create" /\ r.t = t => r \in requests
  PROVE  CreatedOnce(t)'
BY DEF CreatedOnce

LEMMA AttachedStays ==
  ASSUME NEW t \in Terminal, AttachedOnce(t),
         pty'[t].phase = "none" => pty[t].phase = "none",
         opening'[t].pc = "shown" => opening[t].pc = "shown",
         opening'[t].pc = "create" /\ Alive(opening[t].link)' => opening[t].pc = "create"
           /\ Alive(opening[t].link),
         hanging'[t] # "no" => opening'[t].pc \in {"shown", "failed"},
         hanging'[t] = "done" => hanging[t] = "done",
         resume'.pc = "dialed" \/ (resume'.pc = "attach" /\ t \in resume'.todo)
           => /\ resume.pc = "dialed" \/ (resume.pc = "attach" /\ t \in resume.todo)
              /\ resume'.link = resume.link /\ resume.link \in Link,
         links'.made = links.made,
         \A k \in Link : NewTo(t, k) => NewTo(t, k)'
  PROVE  AttachedOnce(t)'
<1>1. pty'[t].phase = "none" => opening'[t].pc # "shown" /\ \A k \in Link : NewTo(t, k)'
  BY DEF AttachedOnce
<1>2. opening'[t].pc = "create" /\ Alive(opening[t].link)' => \A k \in Link : NewTo(t, k)'
  BY DEF AttachedOnce
<1>3. hanging'[t] = "done" => \A k \in Link : NewTo(t, k)'
  BY DEF AttachedOnce
<1>4. resume'.pc = "dialed" \/ (resume'.pc = "attach" /\ t \in resume'.todo) => NewTo(t, resume.link)'
  BY DEF AttachedOnce
<1>5. \A k \in Link : k > links'.made => NewTo(t, k)'
  BY DEF AttachedOnce
<1> QED
  BY <1>1, <1>2, <1>3, <1>4, <1>5 DEF AttachedOnce, Alive, NewTo

LEMMA StreamStays ==
  ASSUME NEW t \in Terminal, StreamContinues(t), causes \subseteq causes',
         pane'[t].link = pane[t].link, pane'[t].grid = pane[t].grid,
         pty'[t].phase = "running" => pty[t].phase = "running", pty'[t].chunks = pty[t].chunks,
         NEW k, k = pane[t].link,
         \/ k = NoLink
         \/ taps'[k][t] = taps[k][t] /\ viewers'[t] \subseteq viewers[t]
         \/ taps'[k][t] = <<>> /\ k \notin viewers'[t]
  PROVE  StreamContinues(t)'
<1>1. Excused({"stale"}) => Excused({"stale"})'
  BY ExcusesStay
<1>2. CASE k = NoLink
  BY <1>2 DEF StreamContinues
<1>3. CASE taps'[k][t] = taps[k][t] /\ viewers'[t] \subseteq viewers[t]
  BY <1>1, <1>3 DEF StreamContinues
<1>4. CASE taps'[k][t] = <<>> /\ k \notin viewers'[t]
  BY <1>4 DEF StreamContinues
<1> QED
  BY <1>2, <1>3, <1>4

LEMMA NewestStays ==
  ASSUME NEW t \in Terminal, NoneIsNewer(t), seats[t] \in Nat, resume.told[t] \in Nat,
         seats'[t] \in {seats[t], NoSeat}, resume'.told[t] \in {resume.told[t], NoSeat},
         t \in resume'.todo => t \in resume.todo /\ resume'.told[t] = resume.told[t],
         opening'[t].pc = "no" => opening[t].pc = "no",
         opening'[t].pc # "shown" => opening[t].pc # "shown",
         Knows(t)' => Knows(t) /\ pty'[t].size = pty[t].size,
         \A r \in requests' : r.t = t /\ r.kind = "resize" => r \in requests
  PROVE  NoneIsNewer(t)'
<1>1. NoSeat <= 1 /\ \A n \in Nat : NoSeat <= n
  BY DEF NoSeat
<1>2. \A r \in requests' : r.t = t /\ r.kind = "resize" =>
        (opening'[t].pc # "shown" => r.size = 1) /\ (seats'[t] # NoSeat => r.size <= seats'[t])
  BY DEF NoneIsNewer
<1>3. seats'[t] # NoSeat => resume'.told[t] <= seats'[t]
  BY <1>1 DEF NoneIsNewer
<1>4. opening'[t].pc # "shown" => seats'[t] <= 1 /\ resume'.told[t] <= 1 /\ (Knows(t)' => pty'[t].size = 1)
  BY <1>1 DEF NoneIsNewer
<1> QED
  BY <1>2, <1>3, <1>4 DEF NoneIsNewer

LEMMA SeatStays ==
  ASSUME NEW t \in Terminal, SeatIsTold(t), causes \subseteq causes',
         opening'[t].pc = "shown" => opening[t].pc = "shown",
         Knows(t)' => Knows(t) /\ pty'[t].size = pty[t].size, seats'[t] \in {seats[t], NoSeat},
         Up' => Up /\ links'.active = links.active,
         resume'.pc \in {"attach", "orphans"} /\ Alive(resume.link)' =>
           /\ resume.pc \in {"attach", "orphans"} /\ Alive(resume.link)
           /\ resume'.link = resume.link /\ resume'.told[t] = resume.told[t]
           /\ t \in resume.todo => t \in resume'.todo,
         \A r \in requests : r.t = t /\ r.kind = "resize" /\ Alive(r.link)' => r \in requests'
  PROVE  SeatIsTold(t)'
<1>1. Excused({"window", "overtaken"}) => Excused({"window", "overtaken"})'
  BY ExcusesStay
<1>2. ASSUME Knows(t)', seats'[t] # NoSeat, NEW k, Alive(k)', Told(t, k) PROVE Told(t, k)'
  BY <1>2 DEF Told
<1>3. Up' => Alive(links.active)'
  BY DEF Up
<1> QED
  BY <1>1, <1>2, <1>3 DEF SeatIsTold

\* A terminal that an action leaves alone.
LEMMA Untouched ==
  ASSUME TermTypeOK, LinksInOrder, NEW u \in Terminal, Right(u), UNCHANGED links,
         pty'[u] = pty[u], viewers'[u] = viewers[u], \A k \in Link : taps'[k][u] = taps[k][u],
         seats'[u] = seats[u], pane'[u] = pane[u], hanging'[u] = hanging[u],
         opening'[u].pc = opening[u].pc, opening'[u].link = opening[u].link,
         resume'.link = resume.link, resume'.pc = resume.pc, resume'.told = resume.told,
         u \in resume'.todo <=> u \in resume.todo, u \in resume.disposing => u \in resume'.disposing,
         u \in orphans => u \in orphans', causes \subseteq causes',
         \A r : r.t = u => (r \in requests' <=> r \in requests)
  PROVE  Right(u)'
<1>l. \A k \in MaybeLink : k # NoLink => k \in Link
  BY DEF MaybeLink
<1>p. pane[u].link \in MaybeLink /\ (resume.pc # "none" => resume.link \in Link)
  BY Fields, PaneFields, ResumeFields, <1>l DEF LinksInOrder
<1>n. seats[u] \in Nat /\ resume.told[u] \in Nat
  BY Fields, ResumeFields
<1>k. /\ \A k : Alive(k)' <=> Alive(k)
      /\ Up' <=> Up
      /\ Knows(u)' <=> Knows(u)
      /\ Gone(u)' <=> Gone(u)
      /\ \A k \in Link : NewTo(u, k) => NewTo(u, k)'
  BY DEF Alive, Up, Knows, Gone, NewTo
<1>r. /\ ShowsWhatWasSaid(u) /\ IsOwned(u) /\ ExitIsTrue(u)
      /\ CreatedOnce(u) /\ AttachedOnce(u) /\ StreamContinues(u) /\ NoneIsNewer(u) /\ SeatIsTold(u)
  BY DEF Right
<1>1. ShowsWhatWasSaid(u)' /\ IsOwned(u)'
  BY <1>r, ShowsStays, OwnedStays
<1>2. ExitIsTrue(u)' /\ CreatedOnce(u)'
  BY <1>r, <1>k, ExitStays, CreatedStays
<1>3. AttachedOnce(u)'
  <2>1. hanging[u] # "no" => opening[u].pc \in {"shown", "failed"}
    BY <1>r DEF AttachedOnce
  <2> QED
    BY <1>r, <1>k, <1>p, <2>1, AttachedStays
<1>4. StreamContinues(u)'
  BY <1>r, <1>l, <1>p, StreamStays
<1>5. NoneIsNewer(u)'
  BY <1>r, <1>k, <1>n, NewestStays
<1>6. SeatIsTold(u)'
  BY <1>r, <1>k, SeatStays
<1> QED
  BY <1>1, <1>2, <1>3, <1>4, <1>5, <1>6 DEF Right

-----------------------------------------------------------------------------
LEMMA Appended ==
  ASSUME NEW s \in Seq(0..MaxChunks), NEW x \in 0..MaxChunks
  PROVE  /\ Len(Append(s, x)) = Len(s) + 1 /\ Len(s) \in Nat
         /\ \A i \in DOMAIN Append(s, x) : \/ i \in DOMAIN s /\ Append(s, x)[i] = s[i]
                                           \/ i = Len(s) + 1 /\ Append(s, x)[i] = x
<1>1. Append(s, x) \in Seq(0..MaxChunks) /\ Len(Append(s, x)) = Len(s) + 1 /\ Len(s) \in Nat
  BY AppendProperties
<1>2. DOMAIN Append(s, x) = 1..(Len(s) + 1) /\ DOMAIN s = 1..Len(s)
  BY <1>1
<1>3. (\A i \in 1..Len(s) : Append(s, x)[i] = s[i]) /\ Append(s, x)[Len(s) + 1] = x
  BY AppendProperties
<1> QED
  BY <1>1, <1>2, <1>3

LEMMA Tailed ==
  ASSUME NEW s \in Seq(0..MaxChunks), s # <<>>
  PROVE  /\ Tail(s) \in Seq(0..MaxChunks) /\ Len(s) \in Nat /\ Len(s) = Len(Tail(s)) + 1
         /\ 1 \in DOMAIN s /\ Head(s) = s[1]
         /\ \A i \in DOMAIN Tail(s) : i \in Nat /\ i + 1 \in DOMAIN s /\ Tail(s)[i] = s[i + 1]
<1>1. /\ Tail(s) \in Seq(0..MaxChunks) /\ Len(Tail(s)) = Len(s) - 1 /\ Len(s) \in Nat
      /\ \A i \in 1..Len(Tail(s)) : Tail(s)[i] = s[i + 1]
  BY HeadTailProperties
<1>2. Len(s) # 0
  BY EmptySeq
<1>3. DOMAIN Tail(s) = 1..Len(Tail(s)) /\ DOMAIN s = 1..Len(s)
  BY <1>1
<1>4. Head(s) = s[1]
  OBVIOUS
<1> QED
  BY <1>1, <1>2, <1>3, <1>4

LEMMA Sums ==
  ASSUME NEW a \in Nat, NEW b \in Nat, NEW c \in Nat
  PROVE  /\ a + b = c => c + 1 = a + (b + 1) /\ a + 1 + b = c + 1
         /\ a + (b + 1) = a + 1 + b /\ a + 1 # Exit
         /\ b + 1 = c + 1 => b = c
BY DEF Exit

LEMMA Before ==
  ASSUME IInv, NEW t \in Terminal
  PROVE  /\ TermTypeOK /\ LinksInOrder /\ \A u \in Terminal : Right(u)
         /\ ShowsWhatWasSaid(t) /\ IsOwned(t) /\ ExitIsTrue(t)
         /\ CreatedOnce(t) /\ AttachedOnce(t) /\ StreamContinues(t) /\ NoneIsNewer(t) /\ SeatIsTold(t)
         /\ seats[t] \in Nat /\ resume.told[t] \in Nat
         /\ pane[t].link # NoLink => pane[t].link \in Link
         /\ resume.pc # "none" => resume.link \in Link
         /\ hanging[t] # "no" => opening[t].pc \in {"shown", "failed"}
<1>1. TermTypeOK /\ LinksInOrder /\ \A u \in Terminal : Right(u)
  BY DEF IInv
<1>2. pane[t].link \in MaybeLink /\ resume.link \in MaybeLink /\ seats[t] \in Nat /\ resume.told[t] \in Nat
  BY <1>1, Fields, PaneFields, ResumeFields
<1>3. /\ pane[t].link # NoLink => pane[t].link \in Link
      /\ resume.pc # "none" => resume.link \in Link
  BY <1>1, <1>2 DEF LinksInOrder, MaybeLink
<1>4. ShowsWhatWasSaid(t) /\ IsOwned(t) /\ ExitIsTrue(t) /\ CreatedOnce(t) /\ AttachedOnce(t)
      /\ StreamContinues(t) /\ NoneIsNewer(t) /\ SeatIsTold(t)
  BY <1>1 DEF Right
<1>5. hanging[t] # "no" => opening[t].pc \in {"shown", "failed"}
  BY <1>4 DEF AttachedOnce
<1> QED
  BY <1>1, <1>2, <1>3, <1>4, <1>5

LEMMA CreateTerminalKeeps ==
  ASSUME IInv, NEW r \in requests, NEW t, t = r.t, CreateTerminal(r)
  PROVE  IInv'
<1>i. TermTypeOK /\ LinksInOrder /\ \A u \in Terminal : Right(u)
  BY DEF IInv
<1>t. t \in Terminal
  BY <1>i, RequestsHave
<1>f. LinksInOrder'
  BY <1>i, CreateTerminalEffect DEF LinksInOrder
<1>u. ASSUME NEW u \in Terminal, u # t PROVE Right(u)'
  BY <1>i, <1>u, CreateTerminalEffect, Untouched
<1>r. Right(t)'
  <2>a. /\ pty[t].phase = "none" /\ r.size = 1 /\ opening[t].pc \notin {"no", "wait"}
        /\ \A q \in requests : q.kind = "create" /\ q.t = t => q = r
    BY <1>i, <1>t, Before DEF CreatedOnce, CreateTerminal
  <2>b. opening[t].pc # "shown" /\ \A k \in Link : NewTo(t, k)
    BY <1>i, <1>t, <2>a, Before DEF AttachedOnce
  <2>c. /\ pty'[t].phase = "running" /\ pty'[t].chunks = 0 /\ pty'[t].size = 1
        /\ opening'[t].pc = opening[t].pc /\ requests' = requests \ {r}
    BY <1>i, <1>t, <2>a, CreateTerminalEffect
  <2>1. ShowsWhatWasSaid(t)'
    BY <1>i, <1>t, Before, CreateTerminalEffect, ShowsStays
  <2>2. IsOwned(t)'
    BY <1>i, <1>t, <2>c, CreateTerminalEffect DEF IsOwned, Excused
  <2>3. ExitIsTrue(t)'
    BY <1>i, <1>t, <2>a, Before, CreateTerminalEffect, ExitStays DEF Gone
  <2>4. CreatedOnce(t)'
    BY <2>a, <2>c DEF CreatedOnce
  <2>5. AttachedOnce(t)'
    BY <1>i, <1>t, <2>a, <2>b, <2>c, Before, CreateTerminalEffect, AttachedStays DEF Alive, NewTo
  <2>6. StreamContinues(t)'
    <3>1. pane' = pane /\ taps' = taps /\ viewers' = viewers
      BY <1>i, CreateTerminalEffect
    <3>2. pane[t].link # NoLink => NewTo(t, pane[t].link)
      BY <1>i, <1>t, <2>b, Before
    <3>3. DOMAIN <<>> = {}
      OBVIOUS
    <3> QED
      BY <3>1, <3>2, <3>3 DEF StreamContinues, NewTo
  <2>7. NoneIsNewer(t)'
    BY <1>i, <1>t, <2>a, <2>c, Before, CreateTerminalEffect DEF NoneIsNewer
  <2>8. SeatIsTold(t)'
    BY <2>b, <2>c DEF SeatIsTold
  <2> QED
    BY <2>1, <2>2, <2>3, <2>4, <2>5, <2>6, <2>7, <2>8 DEF Right
<1> QED
  BY <1>i, <1>f, <1>r, <1>u, CreateTerminalEffect DEF IInv

LEMMA DisposeTerminalKeeps ==
  ASSUME IInv, NEW r \in requests, NEW t, t = r.t, DisposeTerminal(r)
  PROVE  IInv'
<1>i. TermTypeOK /\ LinksInOrder /\ \A u \in Terminal : Right(u)
  BY DEF IInv
<1>t. t \in Terminal
  BY <1>i, RequestsHave
<1>f. LinksInOrder'
  BY <1>i, DisposeTerminalEffect DEF LinksInOrder
<1>u. ASSUME NEW u \in Terminal, u # t PROVE Right(u)'
  BY <1>i, <1>u, DisposeTerminalEffect, Untouched
<1>r. Right(t)'
  <2>a. pty'[t].phase \in {"none", "disposed"}
    BY <1>i, <1>t, DisposeTerminalEffect
  <2>b. \A q \in requests : q.kind = "resize" => q \in requests'
    BY <1>i, <1>t, DisposeTerminalEffect DEF DisposeTerminal
  <2>1. ShowsWhatWasSaid(t)'
    BY <1>i, <1>t, Before, DisposeTerminalEffect, ShowsStays
  <2>2. IsOwned(t)'
    BY <2>a DEF IsOwned
  <2>3. ExitIsTrue(t)'
    BY <1>i, <1>t, Before, DisposeTerminalEffect, ExitStays DEF Gone
  <2>4. CreatedOnce(t)'
    BY <1>i, <1>t, Before, DisposeTerminalEffect, CreatedStays
  <2>5. AttachedOnce(t)'
    BY <1>i, <1>t, Before, DisposeTerminalEffect, AttachedStays DEF Alive, NewTo
  <2>6. StreamContinues(t)'
    BY <1>i, <1>t, Before, DisposeTerminalEffect, StreamStays
  <2>7. NoneIsNewer(t)'
    BY <1>i, <1>t, Before, DisposeTerminalEffect, NewestStays DEF Knows
  <2>8. SeatIsTold(t)'
    BY <2>a DEF SeatIsTold, Knows
  <2> QED
    BY <2>1, <2>2, <2>3, <2>4, <2>5, <2>6, <2>7, <2>8 DEF Right
<1> QED
  BY <1>i, <1>f, <1>r, <1>u, DisposeTerminalEffect DEF IInv

LEMMA ResizeTerminalKeeps ==
  ASSUME IInv, NEW r \in requests, NEW t, t = r.t, ResizeTerminal(r)
  PROVE  IInv'
<1>i. TermTypeOK /\ LinksInOrder /\ \A u \in Terminal : Right(u)
  BY DEF IInv
<1>t. t \in Terminal
  BY <1>i, RequestsHave
<1>f. LinksInOrder'
  BY <1>i, ResizeTerminalEffect DEF LinksInOrder
<1>u. ASSUME NEW u \in Terminal, u # t PROVE Right(u)'
  BY <1>i, <1>u, ResizeTerminalEffect, Untouched
<1>r. Right(t)'
  <2>a. r.kind = "resize" /\ r.t = t /\ r.size \in Nat /\ pty[t].size \in Nat
        /\ pty \in [Terminal -> PtyState]
    BY <1>i, <1>t, RequestsHave, Fields, PtyFields DEF ResizeTerminal
  <2>b. /\ requests' = requests \ {r} /\ (Knows(t)' <=> Knows(t)) /\ (Knows(t) => pty'[t].size = r.size)
        /\ causes \subseteq causes' /\ (r.size < pty[t].size => Excused({"window", "overtaken"})')
    BY <1>i, <1>t, <2>a, ResizeTerminalEffect DEF Knows, Excused
  <2>c. NoneIsNewer(t) /\ SeatIsTold(t) /\ seats[t] \in Nat
    BY <1>i, <1>t, Before
  <2>d. UNCHANGED <<seats, opening, resume, links>>
    BY <1>i, ResizeTerminalEffect
  <2>1. ShowsWhatWasSaid(t)'
    BY <1>i, <1>t, Before, ResizeTerminalEffect, ShowsStays
  <2>2. IsOwned(t)'
    BY <1>i, <1>t, <2>a, <2>b, Before, ResizeTerminalEffect, OwnedStays
  <2>3. ExitIsTrue(t)'
    BY <1>i, <1>t, Before, ResizeTerminalEffect, ExitStays DEF Gone
  <2>4. CreatedOnce(t)'
    BY <1>i, <1>t, Before, ResizeTerminalEffect, CreatedStays
  <2>5. AttachedOnce(t)'
    BY <1>i, <1>t, Before, ResizeTerminalEffect, AttachedStays DEF Alive, NewTo
  <2>6. StreamContinues(t)'
    BY <1>i, <1>t, Before, ResizeTerminalEffect, StreamStays
  <2>7. NoneIsNewer(t)'
    BY <2>a, <2>b, <2>c, <2>d DEF NoneIsNewer
  <2>8. SeatIsTold(t)'
    <3>1. ASSUME NEW k, Told(t, k), Knows(t), seats[t] # NoSeat, ~Excused({"window", "overtaken"})'
          PROVE  Told(t, k)'
      <4>1. pty[t].size <= r.size /\ r.size <= seats[t]
        BY <2>a, <2>b, <2>c, <3>1 DEF NoneIsNewer
      <4>2. CASE pty[t].size = seats[t]
        BY <2>a, <2>b, <2>c, <2>d, <3>1, <4>1, <4>2 DEF Told
      <4>3. CASE \E q \in requests : q.kind = "resize" /\ q.t = t /\ q.link = k /\ q.size = seats[t]
        BY <2>a, <2>b, <2>d, <3>1, <4>3 DEF Told
      <4> QED
        BY <3>1, <4>2, <4>3 DEF Told
    <3>2. Excused({"window", "overtaken"}) => Excused({"window", "overtaken"})'
      BY <2>b, ExcusesStay
    <3> QED
      BY <2>b, <2>c, <2>d, <3>1, <3>2 DEF SeatIsTold, Up, Alive
  <2> QED
    BY <2>1, <2>2, <2>3, <2>4, <2>5, <2>6, <2>7, <2>8 DEF Right
<1> QED
  BY <1>i, <1>f, <1>r, <1>u, ResizeTerminalEffect DEF IInv

LEMMA PtySaysKeeps ==
  ASSUME IInv, NEW t \in Terminal, PtySays(t)
  PROVE  IInv'
<1>i. TermTypeOK /\ LinksInOrder /\ \A u \in Terminal : Right(u)
  BY DEF IInv
<1>f. LinksInOrder'
  BY <1>i, PtySaysEffect DEF LinksInOrder
<1>u. ASSUME NEW u \in Terminal, u # t PROVE Right(u)'
  BY <1>i, <1>u, PtySaysEffect, Untouched
<1>r. Right(t)'
  <2>a. /\ pty[t].phase = "running" /\ pty'[t].phase = "running" /\ pty'[t].chunks = pty[t].chunks + 1
        /\ pty[t].chunks \in Nat /\ pty[t].chunks + 1 \in 0..MaxChunks /\ hanging[t] # "done" /\ ~Gone(t)
    <3>1. pty[t].chunks \in 0..MaxChunks /\ MaxChunks \in Nat
      BY <1>i, Fields, PtyFields
    <3>2. pty[t].phase = "running" /\ pty[t].chunks < MaxChunks /\ hanging[t] # "done"
      BY DEF PtySays
    <3>3. pty[t].chunks \in Nat /\ pty[t].chunks + 1 \in 0..MaxChunks
      BY <3>1, <3>2
    <3> QED
      BY <1>i, <3>2, <3>3, PtySaysEffect DEF Gone
  <2>b. \A k \in Link : taps[k][t] \in Seq(0..MaxChunks)
    BY <1>i, Fields
  <2>c. \A k \in Link : \A i \in DOMAIN taps[k][t] : taps[k][t][i] # Exit
    BY <1>i, <2>a, Before DEF ExitIsTrue
  <2>1. ShowsWhatWasSaid(t)'
    BY <1>i, Before, PtySaysEffect, ShowsStays
  <2>2. IsOwned(t)'
    BY <1>i, Before, PtySaysEffect, OwnedStays
  <2>3. ExitIsTrue(t)'
    <3>1. ASSUME NEW k \in Link, NEW i \in DOMAIN taps'[k][t] PROVE taps'[k][t][i] # Exit
      <4>1. CASE k \in viewers[t]
        <5>1. taps'[k][t] = Append(taps[k][t], pty[t].chunks + 1)
          BY <1>i, <4>1, PtySaysEffect
        <5>2. (i \in DOMAIN taps[k][t]
              /\ taps'[k][t][i] = taps[k][t][i]) \/ taps'[k][t][i] = pty[t].chunks + 1
          BY <2>a, <2>b, <3>1, <5>1, Appended
        <5> QED
          BY <2>a, <2>c, <5>2 DEF Exit
      <4>2. CASE k \notin viewers[t]
        BY <1>i, <2>c, <3>1, <4>2, PtySaysEffect
      <4> QED
        BY <4>1, <4>2
    <3>2. pane'[t].exited => Excused({"misread", "unseated"})'
      BY <1>i, <2>a, Before, PtySaysEffect DEF ExitIsTrue, Excused
    <3> QED
      BY <3>1, <3>2 DEF ExitIsTrue
  <2>4. CreatedOnce(t)'
    BY <1>i, Before, PtySaysEffect, CreatedStays
  <2>5. AttachedOnce(t)'
    BY <1>i, Before, PtySaysEffect, AttachedStays DEF Alive, NewTo
  <2>6. StreamContinues(t)'
    <3>1. pane'[t] = pane[t] /\ viewers' = viewers /\ causes' = causes
      BY <1>i, PtySaysEffect
    <3>2. pane[t].grid \in Seq(1..MaxChunks)
      BY <1>i, Fields, PaneFields
    <3> SUFFICES ASSUME NEW k, k = pane[t].link, k # NoLink, ~Excused({"stale"})
                 PROVE  /\ \A i \in DOMAIN taps'[k][t] :
                             taps'[k][t][i] = Len(pane[t].grid) + i \/ (taps'[k][t][i] = Exit
                               /\ i = Len(taps'[k][t]))
                        /\ k \in viewers[t] => Len(pane[t].grid) + Len(taps'[k][t]) = pty'[t].chunks
      BY <3>1 DEF StreamContinues, Excused
    <3>3. k \in Link
      BY <1>i, Before
    <3>4. /\ \A i \in DOMAIN taps[k][t] : taps[k][t][i] = Len(pane[t].grid) + i
          /\ k \in viewers[t] => Len(pane[t].grid) + Len(taps[k][t]) = pty[t].chunks
      BY <1>i, <2>a, <2>c, <3>3, Before DEF StreamContinues
    <3>5. CASE k \in viewers[t]
      <4>1. taps'[k][t] = Append(taps[k][t], pty[t].chunks + 1)
        BY <1>i, <3>3, <3>5, PtySaysEffect
      <4>0. PICK n \in Nat, m \in Nat : Len(pane[t].grid) = n /\ Len(taps[k][t]) = m
        BY <2>b, <3>2, <3>3
      <4>2. Len(taps'[k][t]) = m + 1
        BY <2>b, <3>3, <4>0, <4>1
      <4>3. \A i \in DOMAIN taps'[k][t] :
              \/ i \in DOMAIN taps[k][t] /\ taps'[k][t][i] = taps[k][t][i]
              \/ i = Len(taps[k][t]) + 1 /\ taps'[k][t][i] = pty[t].chunks + 1
        BY <2>a, <2>b, <3>3, <4>1, Appended
      <4>4. pty[t].chunks = n + m
        BY <3>4, <3>5, <4>0
      <4>5. pty[t].chunks + 1 = n + (m + 1)
        BY <2>a, <4>0, <4>4
      <4>6. \A i \in DOMAIN taps'[k][t] : taps'[k][t][i] = n + i
        BY <3>4, <4>0, <4>3, <4>5
      <4> QED
        BY <2>a, <4>0, <4>2, <4>5, <4>6
    <3>6. CASE k \notin viewers[t]
      <4>1. taps'[k][t] = taps[k][t]
        BY <1>i, <3>3, <3>6, PtySaysEffect
      <4> QED
        BY <3>4, <3>6, <4>1
    <3> QED
      BY <3>5, <3>6
  <2>7. NoneIsNewer(t)'
    BY <1>i, Before, PtySaysEffect, NewestStays DEF Knows
  <2>8. SeatIsTold(t)'
    BY <1>i, Before, PtySaysEffect, SeatStays DEF Alive, Up, Knows
  <2> QED
    BY <2>1, <2>2, <2>3, <2>4, <2>5, <2>6, <2>7, <2>8 DEF Right
<1> QED
  BY <1>i, <1>f, <1>r, <1>u, PtySaysEffect DEF IInv

LEMMA PtyExitsKeeps ==
  ASSUME IInv, NEW t \in Terminal, PtyExits(t)
  PROVE  IInv'
<1>i. TermTypeOK /\ LinksInOrder /\ \A u \in Terminal : Right(u)
  BY DEF IInv
<1>f. LinksInOrder'
  BY <1>i, PtyExitsEffect DEF LinksInOrder
<1>u. ASSUME NEW u \in Terminal, u # t PROVE Right(u)'
  BY <1>i, <1>u, PtyExitsEffect, Untouched
<1>r. Right(t)'
  <2>a. pty[t].phase = "running" /\ pty'[t].phase = "exited" /\ ~Gone(t) /\ Gone(t)'
    BY <1>i, PtyExitsEffect DEF PtyExits, Gone
  <2>b. \A k \in Link : taps[k][t] \in Seq(0..MaxChunks)
    BY <1>i, Fields
  <2>c. \A k \in Link : \A i \in DOMAIN taps[k][t] : taps[k][t][i] # Exit
    BY <1>i, <2>a, Before DEF ExitIsTrue
  <2>e. Exit \in 0..MaxChunks
    BY TerminalAssumption DEF Exit
  <2>d. pty'[t].size = pty[t].size /\ Knows(t) /\ Knows(t)'
    BY <1>i, <2>a, PtyExitsEffect DEF Knows
  <2>1. ShowsWhatWasSaid(t)'
    BY <1>i, Before, PtyExitsEffect, ShowsStays
  <2>2. IsOwned(t)'
    BY <1>i, Before, PtyExitsEffect, OwnedStays
  <2>3. ExitIsTrue(t)'
    BY <2>a DEF ExitIsTrue
  <2>4. CreatedOnce(t)'
    BY <1>i, <2>a, Before, PtyExitsEffect, CreatedStays
  <2>5. AttachedOnce(t)'
    BY <1>i, <2>a, Before, PtyExitsEffect, AttachedStays DEF Alive, NewTo
  <2>6. StreamContinues(t)'
    <3>1. pane'[t] = pane[t] /\ causes' = causes
      BY <1>i, PtyExitsEffect
    <3> SUFFICES ASSUME NEW k, k = pane[t].link, k # NoLink, ~Excused({"stale"})
                 PROVE  \A i \in DOMAIN taps'[k][t] :
                          taps'[k][t][i] = Len(pane[t].grid) + i \/ (taps'[k][t][i] = Exit
                            /\ i = Len(taps'[k][t]))
      BY <2>a, <3>1 DEF StreamContinues, Excused
    <3>3. k \in Link
      BY <1>i, Before
    <3>4. \A i \in DOMAIN taps[k][t] : taps[k][t][i] = Len(pane[t].grid) + i
      BY <1>i, <2>a, <2>c, <3>3, Before DEF StreamContinues
    <3>5. CASE k \in viewers[t]
      <4>1. taps'[k][t] = Append(taps[k][t], Exit)
        BY <1>i, <3>3, <3>5, PtyExitsEffect
      <4>2. Len(taps'[k][t]) = Len(taps[k][t]) + 1
        BY <2>b, <3>3, <4>1
      <4>3. \A i \in DOMAIN taps'[k][t] :
              \/ i \in DOMAIN taps[k][t] /\ taps'[k][t][i] = taps[k][t][i]
              \/ i = Len(taps[k][t]) + 1 /\ taps'[k][t][i] = Exit
        BY <2>b, <2>e, <3>3, <4>1, Appended
      <4> QED
        BY <3>4, <4>2, <4>3
    <3>6. CASE k \notin viewers[t]
      <4>1. taps'[k][t] = taps[k][t]
        BY <1>i, <3>3, <3>6, PtyExitsEffect
      <4> QED
        BY <3>4, <4>1
    <3> QED
      BY <3>5, <3>6
  <2>7. NoneIsNewer(t)'
    BY <1>i, <2>d, Before, PtyExitsEffect, NewestStays
  <2>8. SeatIsTold(t)'
    BY <1>i, <2>d, Before, PtyExitsEffect, SeatStays DEF Alive, Up
  <2> QED
    BY <2>1, <2>2, <2>3, <2>4, <2>5, <2>6, <2>7, <2>8 DEF Right
<1> QED
  BY <1>i, <1>f, <1>r, <1>u, PtyExitsEffect DEF IInv

LEMMA CloseLinkKeeps ==
  ASSUME IInv, NEW k \in Link, CloseLink(k)
  PROVE  IInv'
<1>i. TermTypeOK /\ LinksInOrder /\ \A u \in Terminal : Right(u)
  BY DEF IInv
<1>f. LinksInOrder'
  <2>1. /\ links'.made = links.made /\ links'.active = links.active /\ links'.dead = links.dead
        /\ links'.closed = links.closed \cup {k} /\ UNCHANGED <<resume, opening>> /\ k \in links.dead
    BY <1>i, CloseLinkEffect DEF CloseLink
  <2> QED
    BY <1>i, <2>1 DEF LinksInOrder
<1>r. ASSUME NEW t \in Terminal PROVE Right(t)'
  <2>a. /\ links'.active = links.active /\ links'.dead = links.dead /\ links'.made = links.made
           /\ k \in links.dead
        /\ UNCHANGED <<pty, resume, seats, orphans, pane, opening, hanging>> /\ causes \subseteq causes'
    BY <1>i, CloseLinkEffect DEF CloseLink
  <2>b. \A r \in requests : r \in requests' \/ (r.link \in links'.dead
        /\ (r.kind = "dispose" => Excused({"dropped"})'))
    BY <1>i, <2>a, CloseLinkEffect DEF Excused
  <2>c. /\ \A l : Alive(l)' <=> Alive(l)
        /\ Up' <=> Up
        /\ \A l \in Link : NewTo(t, l) => NewTo(t, l)'
    BY <1>i, <2>a, CloseLinkEffect DEF Alive, Up, NewTo
  <2>1. ShowsWhatWasSaid(t)'
    BY <1>i, Before, CloseLinkEffect, ShowsStays
  <2>2. IsOwned(t)'
    BY <1>i, <2>a, <2>b, Before, OwnedStays
  <2>3. ExitIsTrue(t)'
    BY <1>i, Before, CloseLinkEffect, ExitStays DEF Gone
  <2>4. CreatedOnce(t)'
    BY <1>i, Before, CloseLinkEffect, CreatedStays
  <2>5. AttachedOnce(t)'
    BY <1>i, <2>a, <2>c, Before, AttachedStays DEF Alive
  <2>6. StreamContinues(t)'
    BY <1>i, Before, CloseLinkEffect, StreamStays
  <2>7. NoneIsNewer(t)'
    BY <1>i, Before, CloseLinkEffect, NewestStays DEF Knows
  <2>8. SeatIsTold(t)'
    <3>1. \A r \in requests : Alive(r.link)' => r \in requests'
      BY <2>b DEF Alive
    <3> QED
      BY <1>i, <2>a, <2>c, <3>1, Before, SeatStays DEF Alive, Knows
  <2> QED
    BY <2>1, <2>2, <2>3, <2>4, <2>5, <2>6, <2>7, <2>8 DEF Right
<1> QED
  BY <1>i, <1>f, <1>r, CloseLinkEffect DEF IInv

LEMMA PumpTerminalKeeps ==
  ASSUME IInv, NEW k \in Link, NEW t \in Terminal, PumpTerminal(k, t)
  PROVE  IInv'
<1>i. TermTypeOK /\ LinksInOrder /\ \A u \in Terminal : Right(u)
  BY DEF IInv
<1>f. LinksInOrder'
  <2>1. UNCHANGED <<links, resume, opening>>
    BY <1>i, PumpTerminalEffect
  <2> QED
    BY <1>i, <2>1 DEF LinksInOrder
<1>u. ASSUME NEW u \in Terminal, u # t PROVE Right(u)'
  <2>0. \A l \in Link : \A v \in Terminal : l # k \/ v # t => taps'[l][v] = taps[l][v]
    BY <1>i, PumpTerminalEffect
  <2>1. \A l \in Link : taps'[l][u] = taps[l][u]
    BY <1>u, <2>0, Zenon
  <2>2. /\ UNCHANGED <<pty, viewers, requests, links, resume, seats, orphans, opening, hanging>>
        /\ pane'[u] = pane[u] /\ causes \subseteq causes'
    BY <1>i, <1>u, PumpTerminalEffect
  <2> QED
    BY <1>i, <1>u, <2>1, <2>2, Untouched
<1>r. Right(t)'
  <2>a. /\ taps[k][t] \in Seq(0..MaxChunks) /\ taps[k][t] # <<>> /\ pane[t].grid \in Seq(1..MaxChunks)
    BY <1>i, Fields, PaneFields DEF PumpTerminal
  <2>b. /\ Len(taps[k][t]) \in Nat /\ Len(taps[k][t]) = Len(Tail(taps[k][t])) + 1
        /\ 1 \in DOMAIN taps[k][t] /\ Head(taps[k][t]) = taps[k][t][1]
        /\ \A i \in DOMAIN Tail(taps[k][t]) :
             i \in Nat /\ i + 1 \in DOMAIN taps[k][t] /\ Tail(taps[k][t])[i] = taps[k][t][i + 1]
    BY <2>a, Tailed
  <2>n. PICK n \in Nat : Len(pane[t].grid) = n
    BY <2>a
  <2>c. /\ UNCHANGED <<pty, viewers, links, resume, opening, hanging>>
        /\ taps'[k][t] = Tail(taps[k][t]) /\ \A l \in Link : l # k => taps'[l][t] = taps[l][t]
        /\ pane'[t].link = pane[t].link /\ causes \subseteq causes'
           /\ (pane[t].link # k => Excused({"stale"})')
    BY <1>i, PumpTerminalEffect DEF Excused
  <2>d. \/ taps[k][t][1] = Exit /\ pane'[t].exited = TRUE /\ pane'[t].grid = pane[t].grid
        \/ taps[k][t][1] # Exit /\ pane'[t].exited = pane[t].exited
          /\ pane'[t].grid = Append(pane[t].grid, taps[k][t][1])
    <3>1. \/ Head(taps[k][t]) = Exit /\ pane'[t].exited = TRUE /\ pane'[t].grid = pane[t].grid
          \/ /\ Head(taps[k][t]) # Exit /\ pane'[t].exited = pane[t].exited
             /\ pane'[t].grid = Append(pane[t].grid, Head(taps[k][t]))
      BY <1>i, PumpTerminalEffect
    <3>2. Head(taps[k][t]) = taps[k][t][1]
      BY <2>b
    <3> QED
      BY <3>1, <3>2
  <2>e. Excused({"stale"}) => Excused({"stale"})'
    BY <2>c, ExcusesStay
  <2>g. ~Excused({"stale"})' =>
           /\ k = pane[t].link /\ k # NoLink
           /\ \A i \in DOMAIN taps[k][t] :
                taps[k][t][i] = n + i \/ (taps[k][t][i] = Exit /\ i = Len(taps[k][t]))
           /\ pty[t].phase = "running" /\ k \in viewers[t] => n + Len(taps[k][t]) = pty[t].chunks
           /\ \A i \in DOMAIN pane[t].grid : pane[t].grid[i] = i
    <3>1. k # NoLink
      BY DEF Link, NoLink
    <3> QED
      BY <1>i, <2>c, <2>e, <2>n, <3>1, Before DEF StreamContinues, ShowsWhatWasSaid
  <2>h. \A i \in DOMAIN taps[k][t] : taps[k][t][i] = Exit => Gone(t)
    BY <1>i, Before DEF ExitIsTrue
  <2>1. ShowsWhatWasSaid(t)'
    <3> SUFFICES ASSUME ~Excused({"stale"})' PROVE \A i \in DOMAIN pane'[t].grid : pane'[t].grid[i] = i
      BY DEF ShowsWhatWasSaid
    <3>1. CASE taps[k][t][1] = Exit
      BY <2>d, <2>g, <3>1
    <3>2. CASE taps[k][t][1] # Exit
      <4>1. pane'[t].grid = Append(pane[t].grid, n + 1)
        BY <2>b, <2>d, <2>g, <3>2
      <4> QED
        BY <2>a, <2>n, <2>g, <4>1
    <3> QED
      BY <3>1, <3>2
  <2>2. IsOwned(t)'
    BY <1>i, Before, PumpTerminalEffect, OwnedStays
  <2>3. ExitIsTrue(t)'
    <3>1. pane'[t].exited => pane[t].exited \/ Gone(t)
      BY <2>b, <2>d, <2>h
    <3>2. pane'[t].exited => Gone(t)' \/ Excused({"misread", "unseated"})'
      BY <1>i, <2>c, <3>1, Before, ExcusesStay DEF ExitIsTrue, Gone
    <3>3. ASSUME NEW l \in Link, NEW i \in DOMAIN taps'[l][t], taps'[l][t][i] = Exit PROVE Gone(t)'
      <4>1. CASE l = k
        BY <2>b, <2>c, <2>h, <3>3, <4>1 DEF Gone
      <4>2. CASE l # k
        BY <1>i, <2>c, <3>3, <4>2, Before DEF ExitIsTrue, Gone
      <4> QED
        BY <4>1, <4>2
    <3> QED
      BY <3>2, <3>3 DEF ExitIsTrue
  <2>4. CreatedOnce(t)'
    BY <1>i, Before, PumpTerminalEffect, CreatedStays
  <2>5. AttachedOnce(t)'
    <3>1. \A l \in Link : NewTo(t, l) => NewTo(t, l)'
      BY <2>a, <2>c DEF NewTo
    <3> QED
      BY <1>i, <2>c, <3>1, Before, AttachedStays DEF Alive
  <2>6. StreamContinues(t)'
    <3> SUFFICES ASSUME ~Excused({"stale"})'
                 PROVE  /\ \A i \in DOMAIN taps'[k][t] :
                             taps'[k][t][i] = Len(pane'[t].grid) + i \/ (taps'[k][t][i] = Exit
                               /\ i = Len(taps'[k][t]))
                        /\ pty[t].phase = "running"
                           /\ k \in viewers[t] => Len(pane'[t].grid) + Len(taps'[k][t]) = pty[t].chunks
      BY <2>c, <2>g DEF StreamContinues
    <3>1. CASE taps[k][t][1] = Exit
      <4>1. Gone(t) /\ pty[t].phase # "running"
        BY <2>b, <2>h, <3>1 DEF Gone
      <4>2. 1 = Len(taps[k][t])
        BY <2>b, <2>g, <2>n, <3>1, Sums
      <4>3. DOMAIN Tail(taps[k][t]) = {}
        BY <2>a, <2>b, <4>2, Tailed
      <4> QED
        BY <2>c, <4>1, <4>3
    <3>2. CASE taps[k][t][1] # Exit
      <4>1. pane'[t].grid = Append(pane[t].grid, taps[k][t][1])
        BY <2>d, <3>2
      <4>2. Len(pane'[t].grid) = n + 1
        BY <2>a, <2>n, <4>1
      <4>3. ASSUME NEW i \in DOMAIN Tail(taps[k][t])
            PROVE  \/ Tail(taps[k][t])[i] = n + 1 + i
                   \/ Tail(taps[k][t])[i] = Exit /\ i = Len(Tail(taps[k][t]))
        <5>1. i \in Nat /\ i + 1 \in DOMAIN taps[k][t] /\ Tail(taps[k][t])[i] = taps[k][t][i + 1]
          BY <2>b, <4>3
        <5>2. \/ taps[k][t][i + 1] = n + (i + 1)
              \/ taps[k][t][i + 1] = Exit /\ i + 1 = Len(taps[k][t])
          BY <2>g, <5>1
        <5>3. Len(Tail(taps[k][t])) \in Nat
          BY <2>a, Tailed
        <5>4. n + (i + 1) = n + 1 + i
          BY <2>b, <2>n, <5>1, <5>3, Sums
        <5>5. i + 1 = Len(taps[k][t]) => i = Len(Tail(taps[k][t]))
          BY <2>b, <2>n, <5>1, <5>3, Sums
        <5> QED
          BY <5>1, <5>2, <5>4, <5>5, Zenon
      <4>4. Len(Tail(taps[k][t])) \in Nat
        BY <2>a, Tailed
      <4>5. n + Len(taps[k][t]) = n + 1 + Len(Tail(taps[k][t]))
        <5>1. PICK m \in Nat : Len(Tail(taps[k][t])) = m
          BY <4>4
        <5>2. Len(taps[k][t]) = m + 1
          BY <2>b, <5>1
        <5>3. n + (m + 1) = n + 1 + m
          BY Sums
        <5> QED
          BY <5>1, <5>2, <5>3, Zenon
      <4> QED
        BY <2>c, <2>g, <4>2, <4>3, <4>5
    <3> QED
      BY <3>1, <3>2
  <2>7. NoneIsNewer(t)'
    BY <1>i, Before, PumpTerminalEffect, NewestStays DEF Knows
  <2>8. SeatIsTold(t)'
    BY <1>i, Before, PumpTerminalEffect, SeatStays DEF Alive, Up, Knows
  <2> QED
    BY <2>1, <2>2, <2>3, <2>4, <2>5, <2>6, <2>7, <2>8 DEF Right
<1> QED
  BY <1>i, <1>f, <1>r, <1>u, PumpTerminalEffect DEF IInv

LEMMA TerminalOpenKeeps ==
  ASSUME IInv, NEW t \in Terminal, TerminalOpen(t)
  PROVE  IInv'
<1>i. TermTypeOK /\ LinksInOrder /\ \A u \in Terminal : Right(u)
  BY DEF IInv
<1>f. LinksInOrder'
  BY <1>i, TerminalOpenEffect DEF LinksInOrder
<1>u. ASSUME NEW u \in Terminal, u # t PROVE Right(u)'
  BY <1>i, <1>u, TerminalOpenEffect, Untouched
<1>r. Right(t)'
  <2>a. /\ opening[t].pc = "no" /\ opening'[t].pc = "wait" /\ hanging[t] = "no" /\ seats'[t] = 1
        /\ UNCHANGED <<pty, viewers, requests, taps, links, resume, hanging>>
           /\ opening'[t].link = opening[t].link
    BY <1>i, TerminalOpenEffect DEF TerminalOpen
  <2>1. ShowsWhatWasSaid(t)'
    BY <1>i, Before, TerminalOpenEffect, ShowsStays
  <2>2. IsOwned(t)'
    BY <1>i, Before, TerminalOpenEffect, OwnedStays
  <2>3. ExitIsTrue(t)'
    BY <1>i, Before, TerminalOpenEffect, ExitStays DEF Gone
  <2>4. CreatedOnce(t)'
    BY <1>i, <2>a, Before, CreatedStays
  <2>5. AttachedOnce(t)'
    BY <1>i, <2>a, Before, AttachedStays DEF Alive, NewTo
  <2>6. StreamContinues(t)'
    BY <1>i, Before, TerminalOpenEffect, StreamStays
  <2>7. NoneIsNewer(t)'
    <3>1. NoneIsNewer(t) /\ resume.told[t] = NoSeat
      BY <1>i, <2>a, Before DEF NoneIsNewer
    <3> QED
      BY <2>a, <3>1 DEF NoneIsNewer, Knows, NoSeat
  <2>8. SeatIsTold(t)'
    BY <2>a DEF SeatIsTold
  <2> QED
    BY <2>1, <2>2, <2>3, <2>4, <2>5, <2>6, <2>7, <2>8 DEF Right
<1> QED
  BY <1>i, <1>f, <1>r, <1>u, TerminalOpenEffect DEF IInv

LEMMA OpenCreatesKeeps ==
  ASSUME IInv, NEW t \in Terminal, OpenCreates(t)
  PROVE  IInv'
<1>i. TermTypeOK /\ LinksInOrder /\ \A u \in Terminal : Right(u)
  BY DEF IInv
<1>f. LinksInOrder'
  BY <1>i, OpenCreatesEffect DEF LinksInOrder
<1>u. ASSUME NEW u \in Terminal, u # t PROVE Right(u)'
  BY <1>i, <1>u, OpenCreatesEffect, Untouched
<1>r. Right(t)'
  <2>a. /\ opening[t].pc = "wait" /\ opening'[t].pc = "create"
        /\ UNCHANGED <<pty, viewers, taps, links, resume, seats, orphans, pane, hanging, causes>>
    BY <1>i, OpenCreatesEffect DEF OpenCreates
  <2>b. PICK q : requests' = requests \cup {q} /\ q.kind = "create" /\ q.t = t /\ q.size = 1
    BY <1>i, OpenCreatesEffect
  <2>c. pty[t].phase = "none" /\ hanging[t] = "no" /\ ~\E r \in requests : r.kind = "create" /\ r.t = t
    <3>1. hanging[t] \in {"no", "up", "down", "done"}
      BY <1>i, Fields
    <3> QED
      BY <1>i, <2>a, <3>1, Before DEF CreatedOnce
  <2>1. ShowsWhatWasSaid(t)'
    BY <1>i, Before, OpenCreatesEffect, ShowsStays
  <2>2. IsOwned(t)'
    BY <1>i, Before, OpenCreatesEffect, OwnedStays
  <2>3. ExitIsTrue(t)'
    BY <1>i, Before, OpenCreatesEffect, ExitStays DEF Gone
  <2>4. CreatedOnce(t)'
    BY <2>a, <2>b, <2>c DEF CreatedOnce
  <2>5. AttachedOnce(t)'
    <3>1. \A k \in Link : NewTo(t, k)'
      BY <1>i, <2>a, <2>c, Before DEF AttachedOnce, NewTo
    <3>2. resume.pc \in {"dialed", "attach"} => resume.link \in Link
      BY <1>i, Before
    <3> QED
      BY <2>a, <2>c, <3>1, <3>2 DEF AttachedOnce, NewTo
  <2>6. StreamContinues(t)'
    BY <1>i, Before, OpenCreatesEffect, StreamStays
  <2>7. NoneIsNewer(t)'
    BY <1>i, <2>a, <2>b, Before, NewestStays DEF Knows
  <2>8. SeatIsTold(t)'
    BY <1>i, Before, OpenCreatesEffect, SeatStays DEF Alive, Up, Knows
  <2> QED
    BY <2>1, <2>2, <2>3, <2>4, <2>5, <2>6, <2>7, <2>8 DEF Right
<1> QED
  BY <1>i, <1>f, <1>r, <1>u, OpenCreatesEffect DEF IInv

LEMMA OpenAttachesKeeps ==
  ASSUME IInv, NEW t \in Terminal, OpenAttaches(t)
  PROVE  IInv'
<1>i. TermTypeOK /\ LinksInOrder /\ \A u \in Terminal : Right(u)
  BY DEF IInv
<1>f. LinksInOrder'
  <2>1. /\ UNCHANGED <<links, resume>> /\ \A u \in Terminal : opening'[u].link = opening[u].link
    BY <1>i, OpenAttachesEffect
  <2> QED
    BY <1>i, <2>1 DEF LinksInOrder
<1>u. ASSUME NEW u \in Terminal, u # t PROVE Right(u)'
  BY <1>i, <1>u, OpenAttachesEffect, Untouched
<1>r. Right(t)'
  <2>a. /\ opening[t].pc = "create" /\ opening'[t].pc = "shown" /\ opening'[t].link = opening[t].link
        /\ Alive(opening[t].link) /\ Knows(t)
           /\ UNCHANGED <<pty, requests, taps, links, resume, seats, hanging, causes>>
    BY <1>i, OpenAttachesEffect DEF OpenAttaches
  <2>b. hanging[t] = "no" /\ opening[t].link = links.active /\ resume.link = NoLink /\ resume.pc = "none"
    <3>1. hanging[t] \in {"no", "up", "down", "done"}
      BY <1>i, Fields
    <3>2. opening[t].link = links.active /\ links.active # NoLink
      BY <1>i, <2>a DEF LinksInOrder, Alive, NoLink
    <3> QED
      BY <1>i, <2>a, <3>1, <3>2, Before DEF LinksInOrder
  <2>c. /\ viewers'[t] = viewers[t] \cup {links.active} /\ pane'[t].link = links.active
        /\ pane'[t].grid = [n \in 1..pty[t].chunks |-> n]
           /\ (pane'[t].exited => pane[t].exited \/ pty[t].phase = "exited")
    BY <1>i, <2>b, OpenAttachesEffect
  <2>d. \A k \in Link : NewTo(t, k) /\ (k # links.active => NewTo(t, k)')
    BY <1>i, <2>a, <2>c, Before DEF AttachedOnce, NewTo
  <2>e. links.active \in Link /\ links.active <= links.made /\ pty[t].chunks \in Nat
    BY <1>i, <2>a, <2>b, Fields, OpenFields, LinkFields, PtyFields, AliveIsALink DEF LinksInOrder
  <2>1. ShowsWhatWasSaid(t)'
    BY <2>c DEF ShowsWhatWasSaid
  <2>2. IsOwned(t)'
    BY <1>i, Before, OpenAttachesEffect, OwnedStays
  <2>3. ExitIsTrue(t)'
    BY <1>i, <2>a, <2>c, Before DEF ExitIsTrue, Gone, Excused
  <2>4. CreatedOnce(t)'
    BY <1>i, Before, OpenAttachesEffect, CreatedStays
  <2>5. AttachedOnce(t)'
    <3>1. \A k \in Link : k > links.made => k # links.active
      BY <2>e, LinkFields, Fields, <1>i DEF Link
    <3> QED
      BY <2>a, <2>b, <2>d, <3>1 DEF AttachedOnce, Knows, NewTo
  <2>6. StreamContinues(t)'
    <3>1. taps'[links.active][t] = <<>> /\ Len(pane'[t].grid) = pty[t].chunks
      BY <2>a, <2>c, <2>d, <2>e DEF NewTo
    <3> QED
      BY <2>a, <2>c, <2>e, <3>1 DEF StreamContinues
  <2>7. NoneIsNewer(t)'
    BY <1>i, <2>a, Before, NewestStays DEF Knows
  <2>8. SeatIsTold(t)'
    <3>1. seats[t] \in Nat /\ seats[t] <= 1 /\ pty[t].size = 1
      BY <1>i, <2>a, Before DEF NoneIsNewer
    <3>2. seats[t] # NoSeat => pty[t].size = seats[t]
      BY <3>1 DEF NoSeat
    <3> QED
      BY <2>a, <2>b, <3>2 DEF SeatIsTold, Told
  <2> QED
    BY <2>1, <2>2, <2>3, <2>4, <2>5, <2>6, <2>7, <2>8 DEF Right
<1> QED
  BY <1>i, <1>f, <1>r, <1>u, OpenAttachesEffect DEF IInv

LEMMA OpenFailsKeeps ==
  ASSUME IInv, NEW t \in Terminal, OpenFails(t)
  PROVE  IInv'
<1>i. TermTypeOK /\ LinksInOrder /\ \A u \in Terminal : Right(u)
  BY DEF IInv
<1>f. LinksInOrder'
  BY <1>i, OpenFailsEffect DEF LinksInOrder
<1>u. ASSUME NEW u \in Terminal, u # t PROVE Right(u)'
  BY <1>i, <1>u, OpenFailsEffect, Untouched
<1>r. Right(t)'
  <2>a. /\ opening[t].pc \in {"create", "wait"} /\ opening'[t].pc = "failed" /\ seats'[t] = NoSeat
        /\ UNCHANGED <<pty, viewers, requests, taps, links, resume, orphans, pane, hanging, causes>>
    BY <1>i, OpenFailsEffect DEF OpenFails
  <2>1. ShowsWhatWasSaid(t)'
    BY <1>i, Before, OpenFailsEffect, ShowsStays
  <2>2. IsOwned(t)'
    BY <1>i, Before, OpenFailsEffect, OwnedStays
  <2>3. ExitIsTrue(t)'
    BY <1>i, Before, OpenFailsEffect, ExitStays DEF Gone
  <2>4. CreatedOnce(t)'
    BY <1>i, Before, OpenFailsEffect, CreatedStays
  <2>5. AttachedOnce(t)'
    BY <1>i, Before, OpenFailsEffect, AttachedStays DEF Alive, NewTo
  <2>6. StreamContinues(t)'
    BY <1>i, Before, OpenFailsEffect, StreamStays
  <2>7. NoneIsNewer(t)'
    BY <1>i, <2>a, Before, NewestStays DEF Knows
  <2>8. SeatIsTold(t)'
    BY <1>i, Before, OpenFailsEffect, SeatStays DEF Alive, Up, Knows
  <2> QED
    BY <2>1, <2>2, <2>3, <2>4, <2>5, <2>6, <2>7, <2>8 DEF Right
<1> QED
  BY <1>i, <1>f, <1>r, <1>u, OpenFailsEffect DEF IInv

LEMMA TerminalResizeKeeps ==
  ASSUME IInv, NEW t \in Terminal, TerminalResize(t)
  PROVE  IInv'
<1>i. TermTypeOK /\ LinksInOrder /\ \A u \in Terminal : Right(u)
  BY DEF IInv
<1>f. LinksInOrder'
  BY <1>i, TerminalResizeEffect DEF LinksInOrder
<1>u. ASSUME NEW u \in Terminal, u # t PROVE Right(u)'
  BY <1>i, <1>u, TerminalResizeEffect, Untouched
<1>r. Right(t)'
  <2>a. /\ opening[t].pc = "shown" /\ seats'[t] = seats[t] + 1 /\ seats[t] \in Nat \ {0}
        /\ UNCHANGED <<pty, viewers, taps, links, resume, orphans, pane, opening, hanging>>
    <3>1. opening[t].pc = "shown" /\ seats[t] \in 1..(MaxSizes - 1)
      BY DEF TerminalResize
    <3>2. /\ seats'[t] = seats[t] + 1
          /\ UNCHANGED <<pty, viewers, taps, links, resume, orphans, pane, opening, hanging>>
      BY <1>i, TerminalResizeEffect
    <3>3. seats[t] \in Nat \ {0}
      BY <1>i, <3>1, Fields
    <3> QED
      BY <3>1, <3>2, <3>3
  <2>b. \A q \in requests' : q \notin requests => q.kind = "resize" /\ q.t = t /\ q.size = seats'[t]
    BY <1>i, <2>a, TerminalResizeEffect
  <2>c. Up => \E q \in requests' : q.kind = "resize" /\ q.t = t /\ q.link = links.active
        /\ q.size = seats'[t]
    BY <1>i, <2>a, TerminalResizeEffect
  <2>d. resume.pc \in {"attach", "orphans"} => Excused({"window", "overtaken"})'
    BY <1>i, TerminalResizeEffect DEF Excused
  <2>1. ShowsWhatWasSaid(t)'
    BY <1>i, Before, TerminalResizeEffect, ShowsStays
  <2>2. IsOwned(t)'
    BY <1>i, Before, TerminalResizeEffect, OwnedStays
  <2>3. ExitIsTrue(t)'
    BY <1>i, Before, TerminalResizeEffect, ExitStays DEF Gone
  <2>4. CreatedOnce(t)'
    BY <1>i, Before, TerminalResizeEffect, CreatedStays
  <2>5. AttachedOnce(t)'
    BY <1>i, Before, TerminalResizeEffect, AttachedStays DEF Alive, NewTo
  <2>6. StreamContinues(t)'
    BY <1>i, Before, TerminalResizeEffect, StreamStays
  <2>7. NoneIsNewer(t)'
    <3>1. NoneIsNewer(t) /\ resume.told[t] \in Nat
      BY <1>i, Before
    <3>2. seats[t] # NoSeat /\ seats'[t] # NoSeat
      BY <2>a DEF NoSeat
    <3>3. resume'.told[t] <= seats'[t]
      BY <2>a, <3>1, <3>2 DEF NoneIsNewer
    <3>4. ASSUME NEW q \in requests', q.t = t, q.kind = "resize" PROVE q.size <= seats'[t]
      <4>1. CASE q \in requests
        <5>1. q.size <= seats[t] /\ q.size \in Nat
          BY <1>i, <3>1, <3>2, <3>4, <4>1, RequestsHave DEF NoneIsNewer
        <5> QED
          BY <2>a, <5>1
      <4>2. CASE q \notin requests
        BY <2>a, <2>b, <4>2
      <4> QED
        BY <4>1, <4>2
    <3> QED
      BY <2>a, <3>1, <3>3, <3>4 DEF NoneIsNewer
  <2>8. SeatIsTold(t)'
    BY <2>a, <2>c, <2>d DEF SeatIsTold, Told, Up, Alive
  <2> QED
    BY <2>1, <2>2, <2>3, <2>4, <2>5, <2>6, <2>7, <2>8 DEF Right
<1> QED
  BY <1>i, <1>f, <1>r, <1>u, TerminalResizeEffect DEF IInv

LEMMA HangUpKeeps ==
  ASSUME IInv, NEW t \in Terminal, HangUp(t)
  PROVE  IInv'
<1>i. TermTypeOK /\ LinksInOrder /\ \A u \in Terminal : Right(u)
  BY DEF IInv
<1>f. LinksInOrder'
  BY <1>i, HangUpEffect DEF LinksInOrder
<1>u. ASSUME NEW u \in Terminal, u # t PROVE Right(u)'
  BY <1>i, <1>u, HangUpEffect, Untouched
<1>r. Right(t)'
  <2>1. ShowsWhatWasSaid(t)'
    BY <1>i, Before, HangUpEffect, ShowsStays
  <2>2. IsOwned(t)'
    BY <1>i, Before, HangUpEffect, OwnedStays
  <2>3. ExitIsTrue(t)'
    BY <1>i, Before, HangUpEffect, ExitStays DEF Gone
  <2>4. CreatedOnce(t)'
    BY <1>i, Before, HangUpEffect, CreatedStays
  <2>5. AttachedOnce(t)'
    <3>1. opening[t].pc \in {"shown", "failed"} /\ hanging'[t] \in {"up", "down"}
      BY <1>i, HangUpEffect DEF HangUp
    <3>2. UNCHANGED <<pty, viewers, taps, links, resume, opening>>
      BY <1>i, HangUpEffect
    <3> QED
      BY <1>i, <3>1, <3>2, Before, AttachedStays DEF Alive, NewTo
  <2>6. StreamContinues(t)'
    BY <1>i, Before, HangUpEffect, StreamStays
  <2>7. NoneIsNewer(t)'
    BY <1>i, Before, HangUpEffect, NewestStays DEF Knows
  <2>8. SeatIsTold(t)'
    BY <1>i, Before, HangUpEffect, SeatStays DEF Alive, Up, Knows
  <2> QED
    BY <2>1, <2>2, <2>3, <2>4, <2>5, <2>6, <2>7, <2>8 DEF Right
<1> QED
  BY <1>i, <1>f, <1>r, <1>u, HangUpEffect DEF IInv

LEMMA TerminalDisposeKeeps ==
  ASSUME IInv, NEW t \in Terminal, TerminalDispose(t)
  PROVE  IInv'
<1>i. TermTypeOK /\ LinksInOrder /\ \A u \in Terminal : Right(u)
  BY DEF IInv
<1>f. LinksInOrder'
  <2>1. /\ UNCHANGED <<links, resume>> /\ \A u \in Terminal : opening'[u].link \in {opening[u].link, NoLink}
    BY <1>i, TerminalDisposeEffect
  <2> QED
    BY <1>i, <2>1 DEF LinksInOrder
<1>u. ASSUME NEW u \in Terminal, u # t PROVE Right(u)'
  <2>1. UNCHANGED <<pty, links, resume>> /\ orphans \subseteq orphans' /\ causes \subseteq causes'
    BY <1>i, TerminalDisposeEffect
  <2>2. \A v \in Terminal : v # t => hanging'[v] = hanging[v]
    BY <1>i, TerminalDisposeEffect
  <2>3. \A v \in Terminal : v # t => seats'[v] = seats[v]
    BY <1>i, TerminalDisposeEffect
  <2>4. \A v \in Terminal : v # t => viewers'[v] = viewers[v]
    BY <1>i, TerminalDisposeEffect
  <2>7. \A k \in Link : \A v \in Terminal : v # t => taps'[k][v] = taps[k][v]
    BY <1>i, TerminalDisposeEffect
  <2>8. \A v \in Terminal : v # t => pane'[v] = pane[v]
    BY <1>i, TerminalDisposeEffect
  <2>9. \A v \in Terminal : v # t => opening'[v] = opening[v]
    BY <1>i, TerminalDisposeEffect
  <2>10. /\ hanging'[u] = hanging[u] /\ seats'[u] = seats[u] /\ viewers'[u] = viewers[u]
         /\ \A k \in Link : taps'[k][u] = taps[k][u]
    BY <1>u, <2>2, <2>3, <2>4, <2>7, Zenon
  <2>11. pane'[u] = pane[u] /\ opening'[u] = opening[u]
    BY <1>u, <2>8, <2>9, Zenon
  <2>5. requests' = requests \/ \E q \in Requested : requests' = requests \cup {q} /\ q.kind = "dispose"
        /\ q.t = t
    BY <1>i, TerminalDisposeEffect
  <2>6. \A r : r.t = u => (r \in requests' <=> r \in requests)
    BY <1>u, <2>5
  <2> QED
    BY <1>i, <1>u, <2>1, <2>6, <2>10, <2>11, Untouched
<1>r. Right(t)'
  <2>a. /\ hanging[t] \in {"up", "down"} /\ hanging'[t] = "done" /\ seats'[t] = NoSeat
        /\ UNCHANGED <<pty, links, resume>>  /\ opening'[t].pc = opening[t].pc /\ opening'[t].link = NoLink
    BY <1>i, TerminalDisposeEffect DEF TerminalDispose
  <2>b. /\ viewers'[t] = {} /\ pane'[t].grid = <<>> /\ pane'[t].exited = FALSE /\ pane'[t].link = NoLink
        /\ \A k \in Link : taps'[k][t] = <<>>
    BY <1>i, TerminalDisposeEffect
  <2>c. causes \subseteq causes' /\ orphans \subseteq orphans'
    BY <1>i, TerminalDisposeEffect
  <2>d. \A q \in requests' : q \in requests \/ q.kind = "dispose"
    <3>1. requests' = requests \/ \E q \in Requested : requests' = requests \cup {q} /\ q.kind = "dispose"
      BY <1>i, TerminalDisposeEffect
    <3> QED
      BY <3>1
  <2>e. \A r \in requests : r \in requests'
    BY <1>i, TerminalDisposeEffect
  <2>g. \A k \in Link : NewTo(t, k)'
    BY <2>b DEF NewTo
  <2>1. ShowsWhatWasSaid(t)'
    BY <2>b DEF ShowsWhatWasSaid
  <2>2. IsOwned(t)'
    <3>1. CASE hanging[t] = "down"
      BY <1>i, <3>1, TerminalDisposeEffect DEF IsOwned
    <3>2. CASE hanging[t] = "up" /\ Up
      <4>1. \E q \in requests' : q.kind = "dispose" /\ q.t = t
        <5>1. \E q \in Requested : requests' = requests \cup {q} /\ q.kind = "dispose" /\ q.t = t
          BY <1>i, <3>2, TerminalDisposeEffect
        <5> QED
          BY <5>1
      <4> QED
        BY <4>1 DEF IsOwned
    <3>3. CASE hanging[t] = "up" /\ ~Up
      BY <1>i, <3>3, TerminalDisposeEffect DEF IsOwned, Excused
    <3> QED
      BY <2>a, <3>1, <3>2, <3>3
  <2>3. ExitIsTrue(t)'
    BY <1>i, <2>a, <2>b, <2>c, Before, ExitStays DEF Gone
  <2>4. CreatedOnce(t)'
    BY <1>i, <2>a, <2>d, Before, CreatedStays
  <2>5. AttachedOnce(t)'
    <3>1. resume.pc \in {"dialed", "attach"} => resume.link \in Link
      BY <1>i, Before
    <3>2. opening[t].pc \in {"shown", "failed"} /\ (pty[t].phase = "none" => opening[t].pc # "shown")
      BY <1>i, <2>a, Before DEF AttachedOnce
    <3> QED
      BY <2>a, <2>g, <3>1, <3>2 DEF AttachedOnce, NewTo
  <2>6. StreamContinues(t)'
    BY <2>b DEF StreamContinues
  <2>7. NoneIsNewer(t)'
    BY <1>i, <2>a, <2>d, Before, NewestStays DEF Knows
  <2>8. SeatIsTold(t)'
    BY <2>a DEF SeatIsTold
  <2> QED
    BY <2>1, <2>2, <2>3, <2>4, <2>5, <2>6, <2>7, <2>8 DEF Right
<1> QED
  BY <1>i, <1>f, <1>r, <1>u, TerminalDisposeEffect DEF IInv

LEMMA LinkDiesKeeps ==
  ASSUME IInv, LinkDies
  PROVE  IInv'
<1>i. TermTypeOK /\ LinksInOrder /\ \A u \in Terminal : Right(u)
  BY DEF IInv
<1>f. LinksInOrder'
  <2>1. /\ links'.made = links.made /\ links'.active = links.active /\ links'.closed = links.closed
        /\ links'.dead = links.dead \cup {links.active} /\ UNCHANGED <<resume, opening>>
    BY <1>i, LinkDiesEffect
  <2>2. links.active \in 1..links.made
    <3>1. links.active \in Link /\ links.active <= links.made /\ links.made \in Link
      BY <1>i, Fields, LinkFields, AliveIsALink DEF LinkDies, Up, LinksInOrder
    <3> QED
      BY <3>1 DEF Link
  <2> QED
    BY <1>i, <2>1, <2>2 DEF LinksInOrder
<1>r. ASSUME NEW t \in Terminal PROVE Right(t)'
  <2>a. /\ links'.made = links.made /\ links'.active = links.active
           /\ links'.dead = links.dead \cup {links.active}
        /\ UNCHANGED <<pty, viewers, requests, taps, resume, seats, orphans, pane, opening, hanging,
           causes>>
    BY <1>i, LinkDiesEffect
  <2>b. \A l : Alive(l)' => Alive(l)
    BY <2>a DEF Alive
  <2>c. ~Up'
    BY <2>a DEF Up, Alive
  <2>1. ShowsWhatWasSaid(t)'
    BY <1>i, Before, LinkDiesEffect, ShowsStays
  <2>2. IsOwned(t)'
    BY <1>i, Before, LinkDiesEffect, OwnedStays
  <2>3. ExitIsTrue(t)'
    BY <1>i, Before, LinkDiesEffect, ExitStays DEF Gone
  <2>4. CreatedOnce(t)'
    BY <1>i, Before, LinkDiesEffect, CreatedStays
  <2>5. AttachedOnce(t)'
    BY <1>i, <2>a, <2>b, Before, AttachedStays DEF NewTo, Alive
  <2>6. StreamContinues(t)'
    BY <1>i, Before, LinkDiesEffect, StreamStays
  <2>7. NoneIsNewer(t)'
    BY <1>i, Before, LinkDiesEffect, NewestStays DEF Knows
  <2>8. SeatIsTold(t)'
    BY <1>i, <2>a, <2>b, <2>c, Before, SeatStays DEF Alive, Knows
  <2> QED
    BY <2>1, <2>2, <2>3, <2>4, <2>5, <2>6, <2>7, <2>8 DEF Right
<1> QED
  BY <1>i, <1>f, <1>r, LinkDiesEffect DEF IInv

LEMMA DialKeeps ==
  ASSUME IInv, Redial
  PROVE  IInv'
<1>i. TermTypeOK /\ LinksInOrder /\ \A u \in Terminal : Right(u)
  BY DEF IInv
<1>f. LinksInOrder'
  <2>1. /\ links'.made = links.made + 1 /\ links'.active = NoLink /\ links'.closed = links.closed
        /\ links'.dead = links.dead /\ UNCHANGED opening
        /\ resume'.link = links.made + 1 /\ resume'.previous = links.active /\ resume'.pc = "dialed"
        /\ resume'.todo = {} /\ resume'.disposing = {} /\ links.active \in links.dead
    BY <1>i, RedialEffect DEF Redial
  <2>2. links.made \in Nat /\ links.made + 1 # NoLink /\ NoLink <= links.made + 1
    BY <1>i, Fields, LinkFields DEF Link, NoLink
  <2>3. links.dead \subseteq 1..(links.made + 1) /\ links.made + 1 <= links.made + 1
    BY <1>i, <2>2 DEF LinksInOrder
  <2> QED
    BY <1>i, <2>1, <2>2, <2>3 DEF LinksInOrder
<1>r. ASSUME NEW t \in Terminal PROVE Right(t)'
  <2>a. /\ links'.made = links.made + 1 /\ links'.active = NoLink /\ links'.dead = links.dead
        /\ resume'.pc = "dialed" /\ resume'.link = links.made + 1 /\ resume'.disposing = {}
        /\ UNCHANGED <<pty, viewers, requests, taps, seats, orphans, pane, opening, hanging, causes>>
    BY <1>i, RedialEffect
  <2>b. links.made \in Nat /\ links.made + 1 \in Link
    BY <1>i, <2>a, Fields, LinkFields, RedialEffect DEF Link, Redial
  <2>c. resume.disposing = {}
    <3>1. links.active # NoLink
      BY <1>i DEF Redial, LinksInOrder, NoLink
    <3> QED
      BY <1>i, <3>1 DEF LinksInOrder
  <2>d. AttachedOnce(t)
    BY <1>i, Before
  <2>1. ShowsWhatWasSaid(t)'
    BY <1>i, Before, RedialEffect, ShowsStays
  <2>2. IsOwned(t)'
    BY <1>i, <2>a, <2>c, Before, OwnedStays
  <2>3. ExitIsTrue(t)'
    BY <1>i, Before, RedialEffect, ExitStays DEF Gone
  <2>4. CreatedOnce(t)'
    BY <1>i, Before, RedialEffect, CreatedStays
  <2>5. AttachedOnce(t)'
    <3>1. \A k \in Link : NewTo(t, k) => NewTo(t, k)'
      BY <2>a DEF NewTo
    <3>2. \A k \in Link : k > links'.made => k > links.made
      BY <2>a, <2>b DEF Link
    <3>3. NewTo(t, resume.link)'
      <4>1. links.made + 1 > links.made
        BY <2>b
      <4>2. NewTo(t, links.made + 1)
        BY <2>b, <2>d, <4>1 DEF AttachedOnce
      <4> QED
        BY <2>a, <4>2 DEF NewTo
    <3>4. Alive(opening[t].link)' => Alive(opening[t].link)
      BY <2>a DEF Alive
    <3> QED
      BY <2>a, <2>d, <3>1, <3>2, <3>3, <3>4 DEF AttachedOnce
  <2>6. StreamContinues(t)'
    BY <1>i, Before, RedialEffect, StreamStays
  <2>7. NoneIsNewer(t)'
    BY <1>i, Before, RedialEffect, NewestStays DEF Knows
  <2>8. SeatIsTold(t)'
    BY <2>a DEF SeatIsTold, Up, Alive, NoLink
  <2> QED
    BY <2>1, <2>2, <2>3, <2>4, <2>5, <2>6, <2>7, <2>8 DEF Right
<1> QED
  BY <1>i, <1>f, <1>r, RedialEffect DEF IInv

LEMMA ResumeSeatsKeeps ==
  ASSUME IInv, ResumeSeats
  PROVE  IInv'
<1>i. TermTypeOK /\ LinksInOrder /\ \A u \in Terminal : Right(u)
  BY DEF IInv
<1>f. LinksInOrder'
  <2>1. /\ UNCHANGED <<links, opening>> /\ resume'.link = resume.link /\ resume'.previous = resume.previous
        /\ resume.pc = "dialed" /\ resume'.pc = "attach" /\ resume'.disposing = resume.disposing
    BY <1>i, ResumeSeatsEffect DEF ResumeSeats
  <2> QED
    BY <1>i, <2>1 DEF LinksInOrder
<1>r. ASSUME NEW t \in Terminal PROVE Right(t)'
  <2>a. /\ resume.pc = "dialed" /\ resume'.pc = "attach" /\ resume'.link = resume.link
           /\ resume'.told = seats
        /\ resume'.todo = {u \in Terminal : seats[u] # NoSeat}
        /\ UNCHANGED <<pty, viewers, requests, taps, links, seats, orphans, pane, opening, hanging, causes>>
    BY <1>i, ResumeSeatsEffect DEF ResumeSeats
  <2>1. ShowsWhatWasSaid(t)'
    BY <1>i, Before, ResumeSeatsEffect, ShowsStays
  <2>2. IsOwned(t)'
    BY <1>i, Before, ResumeSeatsEffect, OwnedStays
  <2>3. ExitIsTrue(t)'
    BY <1>i, Before, ResumeSeatsEffect, ExitStays DEF Gone
  <2>4. CreatedOnce(t)'
    BY <1>i, Before, ResumeSeatsEffect, CreatedStays
  <2>5. AttachedOnce(t)'
    BY <1>i, <2>a, Before, AttachedStays DEF NewTo, Alive
  <2>6. StreamContinues(t)'
    BY <1>i, Before, ResumeSeatsEffect, StreamStays
  <2>7. NoneIsNewer(t)'
    <3>1. NoneIsNewer(t) /\ seats[t] <= seats[t]
      BY <1>i, Before
    <3> QED
      BY <2>a, <3>1 DEF NoneIsNewer, Knows
  <2>8. SeatIsTold(t)'
    <3>1. SeatIsTold(t)
      BY <1>i, Before
    <3> QED
      BY <2>a, <3>1 DEF SeatIsTold, Told, Up, Alive, Knows, Excused
  <2> QED
    BY <2>1, <2>2, <2>3, <2>4, <2>5, <2>6, <2>7, <2>8 DEF Right
<1> QED
  BY <1>i, <1>f, <1>r, ResumeSeatsEffect DEF IInv

LEMMA ResumeAttachesKeeps ==
  ASSUME IInv, NEW t \in Terminal, ResumeAttaches(t)
  PROVE  IInv'
<1>i. TermTypeOK /\ LinksInOrder /\ \A u \in Terminal : Right(u)
  BY DEF IInv
<1>f. LinksInOrder'
  <2>1. /\ UNCHANGED <<links, opening>> /\ resume'.link = resume.link /\ resume'.previous = resume.previous
        /\ resume'.pc = resume.pc /\ resume'.todo \subseteq resume.todo
           /\ resume'.disposing = resume.disposing
    BY <1>i, ResumeAttachesEffect
  <2> QED
    BY <1>i, <2>1 DEF LinksInOrder
<1>u. ASSUME NEW u \in Terminal, u # t PROVE Right(u)'
  <2>0. /\ \A v \in Terminal : v # t => viewers'[v] = viewers[v]
        /\ \A v \in Terminal : v # t => pane'[v] = pane[v]
    BY <1>i, ResumeAttachesEffect
  <2>1. viewers'[u] = viewers[u] /\ pane'[u] = pane[u]
    BY <1>u, <2>0, Zenon
  <2>2. /\ UNCHANGED <<pty, taps, links, seats, orphans, opening, hanging>> /\ causes \subseteq causes'
        /\ resume'.link = resume.link /\ resume'.pc = resume.pc /\ resume'.todo = resume.todo \ {t}
        /\ resume'.told = resume.told /\ resume'.disposing = resume.disposing
    BY <1>i, ResumeAttachesEffect
  <2>3. \E q \in Requested : requests' = requests \cup {q} /\ q.t = t
    BY <1>i, ResumeAttachesEffect
  <2>4. \A r : r.t = u => (r \in requests' <=> r \in requests)
    BY <1>u, <2>3
  <2> QED
    BY <1>i, <1>u, <2>1, <2>2, <2>4, Untouched
<1>r. Right(t)'
  <2>a. /\ resume.pc = "attach" /\ t \in resume.todo /\ Alive(resume.link) /\ Knows(t)
        /\ UNCHANGED <<pty, taps, links, seats, orphans, opening, hanging>> /\ causes \subseteq causes'
        /\ resume'.link = resume.link /\ resume'.pc = resume.pc /\ resume'.told = resume.told
        /\ resume'.todo = resume.todo \ {t} /\ resume'.disposing = resume.disposing
    BY <1>i, ResumeAttachesEffect DEF ResumeAttaches
  <2>b. resume.link \in Link /\ resume.link # NoLink /\ links.active = NoLink
        /\ resume.link <= links.made /\ ~Up
    BY <1>i, <2>a, Before DEF LinksInOrder, Up, Alive, NoLink
  <2>c. PICK q \in Requested : /\ requests' = requests \cup {q} /\ q.kind = "resize" /\ q.t = t
                               /\ q.link = resume.link /\ q.size = resume.told[t]
    <3>1. \E q \in Requested : requests' = requests \cup {q} /\ q.kind = "resize" /\ q.t = t
          /\ q.link = resume.link /\ q.size = resume.told[t]
      BY <1>i, ResumeAttachesEffect
    <3> QED
      BY <3>1, Zenon
  <2>d. ~(opening[t].pc = "create" /\ Alive(opening[t].link))
    BY <1>i, <2>b DEF LinksInOrder, Alive, NoLink
  <2>e. NewTo(t, resume.link) /\ pty[t].chunks \in Nat /\ pty[t].phase # "none"
    BY <1>i, <2>a, Before, Fields, PtyFields DEF AttachedOnce, Knows
  <2>g. hanging[t] # "done" => /\ viewers'[t] = viewers[t] \cup {resume.link} /\ pane'[t].link = resume.link
                               /\ pane'[t].grid = [n \in 1..pty[t].chunks |-> n]
                               /\ (pane'[t].exited => pane[t].exited \/ pty[t].phase = "exited")
    BY <1>i, ResumeAttachesEffect
  <2>h. hanging[t] = "done" => viewers' = viewers /\ pane' = pane
    BY <1>i, ResumeAttachesEffect
  <2>j. NoneIsNewer(t) /\ SeatIsTold(t) /\ AttachedOnce(t)
    BY <1>i, Before
  <2>1. ShowsWhatWasSaid(t)'
    <3>1. CASE hanging[t] = "done"
      BY <1>i, <2>a, <2>h, <3>1, Before, ShowsStays
    <3>2. CASE hanging[t] # "done"
      BY <2>g, <3>2 DEF ShowsWhatWasSaid
    <3> QED
      BY <3>1, <3>2
  <2>2. IsOwned(t)'
    BY <1>i, <2>a, <2>c, Before, OwnedStays
  <2>3. ExitIsTrue(t)'
    <3>1. pane'[t].exited => pane[t].exited \/ Gone(t)
      BY <2>g, <2>h DEF Gone
    <3>2. Excused({"misread", "unseated"}) => Excused({"misread", "unseated"})'
      BY <2>a, ExcusesStay
    <3>3. ExitIsTrue(t)
      BY <1>i, Before
    <3> QED
      BY <2>a, <3>1, <3>2, <3>3 DEF ExitIsTrue, Gone
  <2>4. CreatedOnce(t)'
    BY <1>i, <2>a, <2>c, Before, CreatedStays
  <2>5. AttachedOnce(t)'
    <3>1. hanging[t] = "done" => \A k \in Link : NewTo(t, k)'
      BY <2>a, <2>h, <2>j DEF AttachedOnce, NewTo
    <3>2. \A k \in Link : k # resume.link => (NewTo(t, k) => NewTo(t, k)')
      BY <2>a, <2>g, <2>h DEF NewTo
    <3>3. \A k \in Link : k > links.made => k # resume.link
      <4>1. links.made \in Link
        BY <1>i, Fields, LinkFields
      <4> QED
        BY <2>b, <4>1 DEF Link
    <3>4. \A k \in Link : k > links.made => NewTo(t, k)'
      BY <2>j, <3>2, <3>3 DEF AttachedOnce
    <3>5. ~(opening[t].pc = "create" /\ Alive(opening[t].link))'
      BY <2>a, <2>d DEF Alive
    <3> QED
      BY <2>a, <2>e, <2>j, <3>1, <3>4, <3>5 DEF AttachedOnce
  <2>6. StreamContinues(t)'
    <3>1. CASE hanging[t] = "done"
      BY <1>i, <2>a, <2>h, <3>1, Before, StreamStays
    <3>2. CASE hanging[t] # "done"
      <4>1. taps'[resume.link][t] = <<>> /\ Len(pane'[t].grid) = pty[t].chunks
        BY <2>a, <2>e, <2>g, <3>2 DEF NewTo
      <4> QED
        BY <2>a, <2>g, <3>2, <4>1 DEF StreamContinues
    <3> QED
      BY <3>1, <3>2
  <2>7. NoneIsNewer(t)'
    <3>1. resume.told[t] \in Nat /\ resume.told[t] # NoSeat
      BY <1>i, <2>a, <2>j, Before DEF NoneIsNewer
    <3>2. (opening[t].pc # "shown" => q.size = 1) /\ (seats[t] # NoSeat => q.size <= seats[t])
      BY <2>c, <2>j, <3>1 DEF NoneIsNewer, NoSeat
    <3> QED
      BY <2>a, <2>c, <2>j, <3>2 DEF NoneIsNewer, Knows
  <2>8. SeatIsTold(t)'
    <3>1. Excused({"window", "overtaken"}) => Excused({"window", "overtaken"})'
      BY <2>a, ExcusesStay
    <3>2. Told(t, resume.link) => Told(t, resume.link)'
      BY <2>a, <2>c DEF Told
    <3>3. resume.told[t] = seats[t] => Told(t, resume.link)'
      BY <2>a, <2>c DEF Told
    <3>4. ~Up'
      BY <2>a, <2>b DEF Up, Alive
    <3>5. Knows(t)' <=> Knows(t)
      BY <2>a DEF Knows
    <3> QED
      BY <2>a, <2>j, <3>1, <3>2, <3>3, <3>4, <3>5 DEF SeatIsTold
  <2> QED
    BY <2>1, <2>2, <2>3, <2>4, <2>5, <2>6, <2>7, <2>8 DEF Right
<1> QED
  BY <1>i, <1>f, <1>r, <1>u, ResumeAttachesEffect DEF IInv

LEMMA ResumeRetiresKeeps ==
  ASSUME IInv, NEW t \in Terminal, ResumeRetires(t)
  PROVE  IInv'
<1>i. TermTypeOK /\ LinksInOrder /\ \A u \in Terminal : Right(u)
  BY DEF IInv
<1>f. LinksInOrder'
  BY <1>i, ResumeRetiresEffect DEF LinksInOrder
<1>u. ASSUME NEW u \in Terminal, u # t PROVE Right(u)'
  BY <1>i, <1>u, ResumeRetiresEffect, Untouched
<1>r. Right(t)'
  <2>a. /\ UNCHANGED <<pty, viewers, requests, taps, links, orphans, opening, hanging>>
           /\ causes \subseteq causes'
        /\ seats'[t] = NoSeat /\ pane'[t].grid = pane[t].grid /\ pane'[t].link = pane[t].link
        /\ resume'.link = resume.link /\ resume'.pc = resume.pc /\ resume'.todo = resume.todo \ {t}
        /\ (pty[t].phase # "disposed" => Excused({"misread", "unseated"})')
    BY <1>i, ResumeRetiresEffect
  <2>1. ShowsWhatWasSaid(t)'
    BY <1>i, Before, ResumeRetiresEffect, ShowsStays
  <2>2. IsOwned(t)'
    BY <1>i, Before, ResumeRetiresEffect, OwnedStays
  <2>3. ExitIsTrue(t)'
    <3>1. ExitIsTrue(t)
      BY <1>i, Before
    <3> QED
      BY <2>a, <3>1 DEF ExitIsTrue, Gone
  <2>4. CreatedOnce(t)'
    BY <1>i, Before, ResumeRetiresEffect, CreatedStays
  <2>5. AttachedOnce(t)'
    BY <1>i, <2>a, Before, AttachedStays DEF NewTo, Alive
  <2>6. StreamContinues(t)'
    BY <1>i, Before, ResumeRetiresEffect, StreamStays
  <2>7. NoneIsNewer(t)'
    BY <1>i, Before, ResumeRetiresEffect, NewestStays DEF Knows
  <2>8. SeatIsTold(t)'
    BY <2>a DEF SeatIsTold
  <2> QED
    BY <2>1, <2>2, <2>3, <2>4, <2>5, <2>6, <2>7, <2>8 DEF Right
<1> QED
  BY <1>i, <1>f, <1>r, <1>u, ResumeRetiresEffect DEF IInv

LEMMA ResumeDrainsKeeps ==
  ASSUME IInv, ResumeDrains
  PROVE  IInv'
<1>i. TermTypeOK /\ LinksInOrder /\ \A u \in Terminal : Right(u)
  BY DEF IInv
<1>f. LinksInOrder'
  <2>1. /\ UNCHANGED <<links, opening>> /\ resume'.link = resume.link /\ resume'.previous = resume.previous
        /\ resume.pc = "attach" /\ resume'.pc = "orphans" /\ resume'.todo = {}
    BY <1>i, ResumeDrainsEffect DEF ResumeDrains
  <2> QED
    BY <1>i, <2>1 DEF LinksInOrder
<1>r. ASSUME NEW t \in Terminal PROVE Right(t)'
  <2>a. /\ resume.pc = "attach" /\ resume'.pc = "orphans" /\ resume'.link = resume.link
           /\ resume'.told = resume.told
        /\ resume'.todo = resume.todo /\ resume'.disposing = orphans /\ resume.disposing = {}
        /\ UNCHANGED <<pty, viewers, requests, taps, links, seats, pane, opening, hanging, causes>>
    BY <1>i, ResumeDrainsEffect DEF ResumeDrains, LinksInOrder
  <2>1. ShowsWhatWasSaid(t)'
    BY <1>i, Before, ResumeDrainsEffect, ShowsStays
  <2>2. IsOwned(t)'
    BY <1>i, <2>a, Before, OwnedStays
  <2>3. ExitIsTrue(t)'
    BY <1>i, Before, ResumeDrainsEffect, ExitStays DEF Gone
  <2>4. CreatedOnce(t)'
    BY <1>i, Before, ResumeDrainsEffect, CreatedStays
  <2>5. AttachedOnce(t)'
    BY <1>i, <2>a, Before, AttachedStays DEF NewTo, Alive
  <2>6. StreamContinues(t)'
    BY <1>i, Before, ResumeDrainsEffect, StreamStays
  <2>7. NoneIsNewer(t)'
    BY <1>i, Before, ResumeDrainsEffect, NewestStays DEF Knows
  <2>8. SeatIsTold(t)'
    BY <1>i, <2>a, Before, SeatStays DEF Up, Alive, Knows
  <2> QED
    BY <2>1, <2>2, <2>3, <2>4, <2>5, <2>6, <2>7, <2>8 DEF Right
<1> QED
  BY <1>i, <1>f, <1>r, ResumeDrainsEffect DEF IInv

LEMMA ResumeDisposesKeeps ==
  ASSUME IInv, NEW t \in Terminal, ResumeDisposes(t)
  PROVE  IInv'
<1>i. TermTypeOK /\ LinksInOrder /\ \A u \in Terminal : Right(u)
  BY DEF IInv
<1>f. LinksInOrder'
  BY <1>i, ResumeDisposesEffect DEF LinksInOrder
<1>u. ASSUME NEW u \in Terminal, u # t PROVE Right(u)'
  BY <1>i, <1>u, ResumeDisposesEffect, Untouched
<1>r. Right(t)'
  <2>a. /\ UNCHANGED <<pty, viewers, taps, links, seats, orphans, pane, opening, hanging>>
           /\ causes \subseteq causes'
        /\ resume'.link = resume.link /\ resume'.pc = resume.pc /\ resume'.todo = resume.todo
           /\ resume'.told = resume.told
    BY <1>i, ResumeDisposesEffect
  <2>b. (\E q \in requests' : q.kind = "dispose" /\ q.t = t) \/ Excused({"dropped", "drained", "late"})'
    <3>1. \/ \E q \in Requested : requests' = requests \cup {q} /\ q.kind = "dispose" /\ q.t = t
          \/ "drained" \in causes'
      BY <1>i, ResumeDisposesEffect
    <3> QED
      BY <3>1 DEF Excused
  <2>1. ShowsWhatWasSaid(t)'
    BY <1>i, Before, ResumeDisposesEffect, ShowsStays
  <2>2. IsOwned(t)'
    BY <2>b DEF IsOwned
  <2>3. ExitIsTrue(t)'
    BY <1>i, Before, ResumeDisposesEffect, ExitStays DEF Gone
  <2>4. CreatedOnce(t)'
    BY <1>i, Before, ResumeDisposesEffect, CreatedStays
  <2>5. AttachedOnce(t)'
    BY <1>i, <2>a, Before, AttachedStays DEF NewTo, Alive
  <2>6. StreamContinues(t)'
    BY <1>i, Before, ResumeDisposesEffect, StreamStays
  <2>7. NoneIsNewer(t)'
    BY <1>i, Before, ResumeDisposesEffect, NewestStays DEF Knows
  <2>8. SeatIsTold(t)'
    BY <1>i, Before, ResumeDisposesEffect, SeatStays DEF Alive, Up, Knows
  <2> QED
    BY <2>1, <2>2, <2>3, <2>4, <2>5, <2>6, <2>7, <2>8 DEF Right
<1> QED
  BY <1>i, <1>f, <1>r, <1>u, ResumeDisposesEffect DEF IInv

LEMMA ActivateKeeps ==
  ASSUME IInv, Activate
  PROVE  IInv'
<1>i. TermTypeOK /\ LinksInOrder /\ \A u \in Terminal : Right(u)
  BY DEF IInv
<1>f. LinksInOrder'
  <2>1. /\ links'.made = links.made /\ links'.active = resume.link /\ links'.dead = links.dead
        /\ links'.closed = links.closed /\ UNCHANGED opening /\ resume.pc = "orphans"
        /\ resume'.link = NoLink /\ resume'.pc = "none" /\ resume'.todo = {} /\ resume'.disposing = {}
    BY <1>i, ActivateEffect DEF Activate
  <2>2. NoLink <= links.made /\ resume.link <= links.made /\ resume.link # NoLink /\ links.active = NoLink
    BY <1>i, <2>1, Fields, LinkFields DEF LinksInOrder, Link, NoLink
  <2> QED
    BY <1>i, <2>1, <2>2 DEF LinksInOrder
<1>r. ASSUME NEW t \in Terminal PROVE Right(t)'
  <2>a. /\ links'.made = links.made /\ links'.active = resume.link /\ links'.dead = links.dead
        /\ resume'.pc = "none" /\ resume.pc = "orphans" /\ resume.disposing = {} /\ resume.todo = {}
        /\ UNCHANGED <<pty, viewers, requests, taps, seats, orphans, pane, opening, hanging>>
           /\ causes \subseteq causes'
    BY <1>i, ActivateEffect DEF Activate, LinksInOrder
  <2>1. ShowsWhatWasSaid(t)'
    BY <1>i, Before, ActivateEffect, ShowsStays
  <2>2. IsOwned(t)'
    BY <1>i, <2>a, Before, OwnedStays
  <2>3. ExitIsTrue(t)'
    BY <1>i, Before, ActivateEffect, ExitStays DEF Gone
  <2>4. CreatedOnce(t)'
    BY <1>i, Before, ActivateEffect, CreatedStays
  <2>5. AttachedOnce(t)'
    BY <1>i, <2>a, Before, AttachedStays DEF NewTo, Alive
  <2>6. StreamContinues(t)'
    BY <1>i, Before, ActivateEffect, StreamStays
  <2>7. NoneIsNewer(t)'
    BY <1>i, Before, ActivateEffect, NewestStays DEF Knows
  <2>8. SeatIsTold(t)'
    <3>1. Excused({"window", "overtaken"}) => Excused({"window", "overtaken"})'
      BY <2>a, ExcusesStay
    <3>2. Told(t, resume.link) => Told(t, links.active)'
      BY <2>a DEF Told
    <3>3. Up' => Alive(resume.link)
      BY <2>a DEF Up, Alive
    <3>4. (Knows(t)' <=> Knows(t)) /\ SeatIsTold(t)
      BY <1>i, <2>a, Before DEF Knows
    <3> QED
      BY <2>a, <3>1, <3>2, <3>3, <3>4 DEF SeatIsTold
  <2> QED
    BY <2>1, <2>2, <2>3, <2>4, <2>5, <2>6, <2>7, <2>8 DEF Right
<1> QED
  BY <1>i, <1>f, <1>r, ActivateEffect DEF IInv

LEMMA ResumingLinkDiesKeeps ==
  ASSUME IInv, ResumingLinkDies
  PROVE  IInv'
<1>i. TermTypeOK /\ LinksInOrder /\ \A u \in Terminal : Right(u)
  BY DEF IInv
<1>f. LinksInOrder'
  <2>1. /\ links'.made = links.made /\ links'.active = links.active /\ links'.closed = links.closed
        /\ links'.dead = links.dead \cup {resume.link} /\ UNCHANGED <<resume, opening>>
    BY <1>i, ResumingLinkDiesEffect
  <2>2. resume.link \in 1..links.made
    <3>1. resume.link \in Link /\ resume.link <= links.made /\ links.made \in Link
      BY <1>i, Fields, LinkFields, ResumeFields, AliveIsALink DEF ResumingLinkDies, LinksInOrder
    <3> QED
      BY <3>1 DEF Link
  <2> QED
    BY <1>i, <2>1, <2>2 DEF LinksInOrder
<1>r. ASSUME NEW t \in Terminal PROVE Right(t)'
  <2>a. /\ links'.made = links.made /\ links'.active = links.active
           /\ links'.dead = links.dead \cup {resume.link}
        /\ UNCHANGED <<pty, viewers, requests, taps, resume, seats, orphans, pane, opening, hanging,
           causes>>
    BY <1>i, ResumingLinkDiesEffect
  <2>b. (\A l : Alive(l)' => Alive(l)) /\ (Up' => Up)
    BY <2>a DEF Alive, Up
  <2>1. ShowsWhatWasSaid(t)'
    BY <1>i, Before, ResumingLinkDiesEffect, ShowsStays
  <2>2. IsOwned(t)'
    BY <1>i, Before, ResumingLinkDiesEffect, OwnedStays
  <2>3. ExitIsTrue(t)'
    BY <1>i, Before, ResumingLinkDiesEffect, ExitStays DEF Gone
  <2>4. CreatedOnce(t)'
    BY <1>i, Before, ResumingLinkDiesEffect, CreatedStays
  <2>5. AttachedOnce(t)'
    BY <1>i, <2>a, <2>b, Before, AttachedStays DEF NewTo, Alive
  <2>6. StreamContinues(t)'
    BY <1>i, Before, ResumingLinkDiesEffect, StreamStays
  <2>7. NoneIsNewer(t)'
    BY <1>i, Before, ResumingLinkDiesEffect, NewestStays DEF Knows
  <2>8. SeatIsTold(t)'
    BY <1>i, <2>a, <2>b, Before, SeatStays DEF Alive, Knows
  <2> QED
    BY <2>1, <2>2, <2>3, <2>4, <2>5, <2>6, <2>7, <2>8 DEF Right
<1> QED
  BY <1>i, <1>f, <1>r, ResumingLinkDiesEffect DEF IInv

LEMMA ResumeTimesOutKeeps ==
  ASSUME IInv, ResumeTimesOut
  PROVE  IInv'
<1>i. TermTypeOK /\ LinksInOrder /\ \A u \in Terminal : Right(u)
  BY DEF IInv
<1>f. LinksInOrder'
  <2>1. /\ links'.made = links.made /\ links'.active = resume.previous
           /\ links'.dead = links.dead \cup {resume.link}
        /\ links'.closed = links.closed /\ UNCHANGED opening /\ resume.link # NoLink
        /\ resume'.link = NoLink /\ resume'.pc = "none" /\ resume'.todo = {} /\ resume'.disposing = {}
    BY <1>i, ResumeTimesOutEffect DEF ResumeTimesOut, NoLink
  <2>2. resume.link \in 1..links.made
    <3>1. resume.link \in Link /\ resume.link <= links.made /\ links.made \in Link
      BY <1>i, <2>1, Fields, LinkFields, ResumeFields DEF LinksInOrder, MaybeLink
    <3> QED
      BY <3>1 DEF Link
  <2>3. resume.previous \in links.dead /\ links.active = NoLink /\ links.dead \subseteq 1..links.made
    BY <1>i, <2>1 DEF LinksInOrder
  <2>4. resume.previous # NoLink /\ resume.previous <= links.made /\ NoLink <= links.made
    <3>1. links.made \in Nat
      BY <1>i, Fields, LinkFields DEF Link
    <3> QED
      BY <2>2, <2>3, <3>1 DEF NoLink
  <2> QED
    BY <1>i, <2>1, <2>2, <2>3, <2>4 DEF LinksInOrder
<1>r. ASSUME NEW t \in Terminal PROVE Right(t)'
  <2>a. /\ links'.made = links.made /\ links'.active = resume.previous
           /\ links'.dead = links.dead \cup {resume.link}
        /\ resume'.pc = "none" /\ resume.previous \in links.dead
        /\ (resume.disposing # {} => Excused({"drained"})')
        /\ UNCHANGED <<pty, viewers, requests, taps, seats, orphans, pane, opening, hanging>>
           /\ causes \subseteq causes'
    BY <1>i, ResumeTimesOutEffect DEF ResumeTimesOut, LinksInOrder, NoLink, Excused
  <2>b. (\A l : Alive(l)' => Alive(l)) /\ ~Up'
    BY <2>a DEF Alive, Up
  <2>1. ShowsWhatWasSaid(t)'
    BY <1>i, Before, ResumeTimesOutEffect, ShowsStays
  <2>2. IsOwned(t)'
    BY <1>i, <2>a, Before, OwnedStays
  <2>3. ExitIsTrue(t)'
    BY <1>i, Before, ResumeTimesOutEffect, ExitStays DEF Gone
  <2>4. CreatedOnce(t)'
    BY <1>i, Before, ResumeTimesOutEffect, CreatedStays
  <2>5. AttachedOnce(t)'
    BY <1>i, <2>a, <2>b, Before, AttachedStays DEF NewTo, Alive
  <2>6. StreamContinues(t)'
    BY <1>i, Before, ResumeTimesOutEffect, StreamStays
  <2>7. NoneIsNewer(t)'
    BY <1>i, Before, ResumeTimesOutEffect, NewestStays DEF Knows
  <2>8. SeatIsTold(t)'
    BY <2>a, <2>b DEF SeatIsTold
  <2> QED
    BY <2>1, <2>2, <2>3, <2>4, <2>5, <2>6, <2>7, <2>8 DEF Right
<1> QED
  BY <1>i, <1>f, <1>r, ResumeTimesOutEffect DEF IInv

-----------------------------------------------------------------------------
LEMMA InitIsRight == TermInit => IInv
<1> SUFFICES ASSUME TermInit PROVE IInv
  OBVIOUS
<1>1. /\ pty = [t \in Terminal |-> [phase |-> "none", chunks |-> 0, size |-> 0]]
      /\ viewers = [t \in Terminal |-> {}] /\ requests = {}
      /\ taps = [k \in Link |-> [t \in Terminal |-> <<>>]]
      /\ links = [made |-> 1, active |-> 1, dead |-> {}, closed |-> {}]
      /\ resume = NotResumed /\ seats = [t \in Terminal |-> NoSeat] /\ orphans = {}
      /\ pane = [t \in Terminal |-> Blank] /\ opening = [t \in Terminal |-> NotOpening]
      /\ hanging = [t \in Terminal |-> "no"] /\ causes = {}
  BY DEF TermInit
<1>2. 1 \in Link /\ 1 # NoLink /\ 1 \in 1..1 /\ NoLink <= 1
  BY TerminalAssumption DEF Link, NoLink
<1>3. TermTypeOK
  <2>1. [phase |-> "none", chunks |-> 0, size |-> 0] \in PtyState
    BY TerminalAssumption DEF PtyState
  <2>2. [made |-> 1, active |-> 1, dead |-> {}, closed |-> {}] \in LinkState
    BY <1>2, AMaybe DEF LinkState
  <2>3. Blank \in PaneState
    BY AMaybe DEF Blank, PaneState, NoLink
  <2>4. NotOpening \in OpenState
    BY AMaybe DEF NotOpening, OpenState, NoLink
  <2>5. NoSeat \in 0..MaxSizes /\ <<>> \in Seq(0..MaxChunks)
    BY TerminalAssumption DEF NoSeat
  <2> QED
    BY <1>1, <2>1, <2>2, <2>3, <2>4, <2>5, NotResumedFields DEF TermTypeOK
<1>4. LinksInOrder
  <2>1. \A t \in Terminal : opening[t].link = NoLink
    BY <1>1 DEF NotOpening, NoLink
  <2>2. links.active = 1 /\ links.made = 1 /\ links.dead = {} /\ links.closed = {}
    BY <1>1
  <2> QED
    BY <1>1, <1>2, <2>1, <2>2, NotResumedFields DEF LinksInOrder
<1>5. ASSUME NEW t \in Terminal PROVE Right(t)
  <2>1. /\ pty[t].phase = "none" /\ viewers[t] = {} /\ \A k \in Link : taps[k][t] = <<>>
        /\ seats[t] = NoSeat /\ resume.told[t] = NoSeat /\ resume.pc = "none" /\ resume.todo = {}
    BY <1>1, NotResumedFields
  <2>2. /\ pane[t].grid = <<>> /\ pane[t].exited = FALSE /\ pane[t].link = NoLink
        /\ opening[t].pc = "no" /\ hanging[t] = "no"
    BY <1>1 DEF Blank, NotOpening, NoLink
  <2>3. ShowsWhatWasSaid(t) /\ IsOwned(t) /\ ExitIsTrue(t)
    BY <2>1, <2>2 DEF ShowsWhatWasSaid, IsOwned, ExitIsTrue
  <2>4. CreatedOnce(t)
    BY <1>1, <2>1, <2>2 DEF CreatedOnce
  <2>5. AttachedOnce(t)
    BY <2>1, <2>2 DEF AttachedOnce, NewTo
  <2>6. StreamContinues(t)
    BY <2>2 DEF StreamContinues
  <2>7. NoneIsNewer(t)
    BY <1>1, <2>1, <2>2 DEF NoneIsNewer, NoSeat, Knows
  <2>8. SeatIsTold(t)
    BY <2>2 DEF SeatIsTold
  <2> QED
    BY <2>3, <2>4, <2>5, <2>6, <2>7, <2>8 DEF Right
<1> QED
  BY <1>3, <1>4, <1>5 DEF IInv

\* Nothing of it depends on more than the variables.
LEMMA StutterKeeps == IInv /\ UNCHANGED termVars => IInv'
<1> SUFFICES ASSUME IInv, UNCHANGED termVars PROVE IInv'
  OBVIOUS
<1>1. UNCHANGED <<pty, viewers, requests, taps, links, resume, seats, orphans, pane, opening, hanging,
      causes>>
  BY DEF termVars, hostVars, clientVars, paneVars
<1>2. TermTypeOK' /\ LinksInOrder'
  BY <1>1 DEF IInv, TermTypeOK, LinksInOrder
<1>3. TermTypeOK /\ LinksInOrder /\ \A u \in Terminal : Right(u)
  BY DEF IInv
<1>4. ASSUME NEW u \in Terminal PROVE Right(u)'
  BY <1>1, <1>3, <1>4, Untouched
<1> QED
  BY <1>2, <1>4 DEF IInv

LEMMA NextKeeps == IInv /\ TermNext => IInv'
<1> SUFFICES ASSUME IInv, TermNext PROVE IInv'
  OBVIOUS
<1>1. CASE HostTurn
  <2>1. PICK r \in requests : CreateTerminal(r) \/ DisposeTerminal(r) \/ ResizeTerminal(r)
    BY <1>1 DEF HostTurn
  <2> QED
    BY <2>1, CreateTerminalKeeps, DisposeTerminalKeeps, ResizeTerminalKeeps
<1>2. CASE OpenTurn
  BY <1>2, OpenCreatesKeeps, OpenAttachesKeeps, OpenFailsKeeps DEF OpenTurn
<1>3. CASE ResumeTurn
  BY <1>3, DialKeeps, ResumeSeatsKeeps, ResumeDrainsKeeps, ActivateKeeps, ResumeAttachesKeeps,
     ResumeRetiresKeeps, ResumeDisposesKeeps DEF ResumeTurn
<1>4. CASE PumpTurn
  BY <1>4, PumpTerminalKeeps DEF PumpTurn
<1>5. CASE \E t \in Terminal : \/ PtySays(t) \/ PtyExits(t) \/ TerminalOpen(t)
                              \/ TerminalResize(t) \/ HangUp(t) \/ TerminalDispose(t)
  BY <1>5, PtySaysKeeps, PtyExitsKeeps, TerminalOpenKeeps, TerminalResizeKeeps, HangUpKeeps,
     TerminalDisposeKeeps
<1>6. CASE \E k \in Link : CloseLink(k)
  BY <1>6, CloseLinkKeeps
<1>7. CASE LinkDies \/ ResumingLinkDies \/ ResumeTimesOut
  BY <1>7, LinkDiesKeeps, ResumingLinkDiesKeeps, ResumeTimesOutKeeps
<1> QED
  BY <1>1, <1>2, <1>3, <1>4, <1>5, <1>6, <1>7 DEF TermNext

LEMMA Invariance == TermSpec => []IInv
<1>1. TermInit => IInv
  BY InitIsRight
<1>2. IInv /\ [TermNext]_termVars => IInv'
  BY NextKeeps, StutterKeeps
<1> QED
  BY <1>1, <1>2, PTL DEF TermSpec

\* What is settled has been told: nothing is under way that could tell it.
LEMMA SettledIsTold ==
  ASSUME NEW t \in Terminal, SeatIsTold(t)
  PROVE  GeometryIsTold(t)
BY DEF GeometryIsTold, Settled, SeatIsTold, Told, Knows

\* Over any number of connections, terminals and geometries: types; an exit shown
\* is the truth; a settled pane and its PTY agree on the geometry; a terminal is
\* created once and attached to a connection once (server.rs, wire.rs resume).
THEOREM TerminalsAreSafe == TermSpec => []TermInv
<1>1. IInv => TermInv
  BY SettledIsTold DEF IInv, TermInv, Right
<1> QED
  BY <1>1, Invariance, PTL

\* A pane shows the chunks the PTY said, from the first, each once and in order,
\* however often it was attached; unless a pump of the past spoke up.
THEOREM GridsAreTrue == TermSpec => []GridIsWhatWasSaid
<1>1. IInv => GridIsWhatWasSaid
  BY DEF IInv, GridIsWhatWasSaid, Right
<1> QED
  BY <1>1, Invariance, PTL

\* A PTY whose pane is gone does not run on with nobody to end it, unless its
\* disposal was lost on the way or came before it was made.
THEOREM PtysAreOwned == TermSpec => []EveryPtyIsOwned
<1>1. IInv => EveryPtyIsOwned
  BY DEF IInv, EveryPtyIsOwned, Right
<1> QED
  BY <1>1, Invariance, PTL
=============================================================================
