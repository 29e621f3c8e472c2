------------------------- MODULE ChannelLifeProofs -------------------------
(***************************************************************************)
(* ChannelInv is inductive: however often a document is opened and closed, *)
(* and whatever its channel's lives, faults, saves and other clients do,   *)
(* one life at a time holds the channel, and the entry, the route, the     *)
(* document's flag and what is posted agree on which.                      *)
(***************************************************************************)
EXTENDS ChannelLife, SequenceTheorems, TLAPS

Words == {"adopt", "give-up", "drained"}

\* What is posted, by the types.
LEMMA PostedTypes ==
  ASSUME ChannelTypeOK
  PROVE  /\ posted \in Seq(Command) /\ Len(posted) \in Nat /\ DOMAIN posted = 1..Len(posted)
         /\ \A i \in DOMAIN posted :
              /\ posted[i] \in Command
              /\ posted[i].kind \in {"ensure"} \cup Words /\ posted[i].life \in Nat
<1>1. posted \in Seq(Command)
  BY DEF ChannelTypeOK
<1>2. Len(posted) \in Nat /\ DOMAIN posted = 1..Len(posted) /\ \A i \in DOMAIN posted : posted[i] \in Command
  BY <1>1
<1>3. \A c \in Command : c.kind \in {"ensure"} \cup Words /\ c.life \in Nat
  BY DEF Command, Words
<1> QED
  BY <1>1, <1>2, <1>3

\* A command goes to the end of the queue.
LEMMA Posting ==
  ASSUME ChannelTypeOK, NEW kind \in {"ensure"} \cup Words, NEW l \in Nat, posted' = Append(posted, Note(kind, l))
  PROVE  /\ posted' \in Seq(Command)
         /\ Len(posted') = Len(posted) + 1 /\ DOMAIN posted' = 1..Len(posted) + 1
         /\ \A i \in DOMAIN posted : i \in DOMAIN posted' /\ posted'[i] = posted[i]
         /\ posted'[Len(posted) + 1] = Note(kind, l)
         /\ \A i \in DOMAIN posted' : i \in DOMAIN posted \/ i = Len(posted) + 1
         /\ \A k \in {"ensure"} \cup Words : Said(k)' <=> Said(k) \/ k = kind
<1>1. Note(kind, l) \in Command /\ Note(kind, l).kind = kind
  BY DEF Note, Command, Words
<1>2. posted \in Seq(Command) /\ Len(posted) \in Nat /\ DOMAIN posted = 1..Len(posted)
  BY PostedTypes
<1>3. /\ posted' \in Seq(Command)
      /\ Len(posted') = Len(posted) + 1 /\ DOMAIN posted' = 1..Len(posted) + 1
      /\ \A i \in DOMAIN posted : i \in DOMAIN posted' /\ posted'[i] = posted[i]
      /\ posted'[Len(posted) + 1] = Note(kind, l)
      /\ \A i \in DOMAIN posted' : i \in DOMAIN posted \/ i = Len(posted) + 1
  BY <1>1, <1>2
<1>4. Len(posted) + 1 \in DOMAIN posted'
  BY <1>2, <1>3
<1>5. ASSUME NEW k \in {"ensure"} \cup Words
      PROVE  Said(k)' <=> Said(k) \/ k = kind
  BY <1>1, <1>3, <1>4 DEF Said
<1> QED
  BY <1>3, <1>5

\* The first command is taken.
LEMMA Taking ==
  ASSUME ChannelTypeOK, posted # <<>>, posted' = Tail(posted)
  PROVE  /\ posted' \in Seq(Command)
         /\ 1 \in DOMAIN posted /\ Head(posted) = posted[1]
         /\ \A i \in DOMAIN posted' : i \in Nat /\ i >= 1 /\ i + 1 \in DOMAIN posted /\ posted'[i] = posted[i + 1]
         /\ \A i \in DOMAIN posted : i = 1 \/ (i - 1 \in DOMAIN posted' /\ posted'[i - 1] = posted[i])
         /\ \A k \in {"ensure"} \cup Words : Said(k)' => Said(k)
         /\ \A k \in {"ensure"} \cup Words : Said(k) => Said(k)' \/ k = Head(posted).kind
<1>1. posted \in Seq(Command) /\ Len(posted) \in Nat /\ DOMAIN posted = 1..Len(posted)
  BY PostedTypes
<1>2. Len(posted) >= 1
  BY <1>1
<1>3. /\ posted' \in Seq(Command) /\ Len(posted') = Len(posted) - 1 /\ DOMAIN posted' = 1..Len(posted) - 1
      /\ \A i \in 1..Len(posted) - 1 : posted'[i] = posted[i + 1]
  BY <1>1, <1>2
<1>4. 1 \in DOMAIN posted /\ Head(posted) = posted[1]
  BY <1>1, <1>2
<1>5. \A i \in DOMAIN posted' : i \in Nat /\ i >= 1 /\ i + 1 \in DOMAIN posted /\ posted'[i] = posted[i + 1]
  BY <1>1, <1>3
<1>6. \A i \in DOMAIN posted : i = 1 \/ (i - 1 \in DOMAIN posted' /\ posted'[i - 1] = posted[i])
  BY <1>1, <1>3
<1>7. \A k \in {"ensure"} \cup Words : Said(k)' => Said(k)
  BY <1>5 DEF Said
<1>8. \A k \in {"ensure"} \cup Words : Said(k) => Said(k)' \/ k = Head(posted).kind
  BY <1>4, <1>6 DEF Said
<1> QED
  BY <1>3, <1>4, <1>5, <1>6, <1>7, <1>8

\* A word of the entry's life keeps the order, if nothing was said that may not
\* come before it.
LEMMA WordPosted ==
  ASSUME ChannelInv, NEW kind \in Words, posted' = Append(posted, Note(kind, entry.life)), entry' = entry,
         entry.kind # "none", ~Said("drained"),
         kind = "drained" \/ (~Said("adopt") /\ ~Said("give-up"))
  PROVE  WordsInOrder' /\ \A k \in Words : Said(k)' <=> Said(k) \/ k = kind
<1>t. ChannelTypeOK /\ WordsInOrder
  BY DEF ChannelInv
<1>l. entry.life \in Nat
  BY <1>t DEF ChannelTypeOK, Entry
<1>p. /\ Len(posted) \in Nat /\ DOMAIN posted = 1..Len(posted)
      /\ \A i \in DOMAIN posted : posted[i].kind \in {"ensure"} \cup Words
  BY <1>t, PostedTypes
<1>n. Note(kind, entry.life).kind = kind /\ Note(kind, entry.life).life = entry.life
  BY DEF Note
<1>1. /\ DOMAIN posted' = 1..Len(posted) + 1
      /\ \A i \in DOMAIN posted : i \in DOMAIN posted' /\ posted'[i] = posted[i]
      /\ posted'[Len(posted) + 1] = Note(kind, entry.life)
      /\ \A i \in DOMAIN posted' : i \in DOMAIN posted \/ i = Len(posted) + 1
      /\ \A k \in Words : Said(k)' <=> Said(k) \/ k = kind
  BY <1>t, <1>l, Posting
<1>2. \A i \in DOMAIN posted : posted[i].kind # "ensure" => posted[i].kind \in {"adopt", "give-up"} /\ kind = "drained"
  BY <1>p DEF Said, Words
<1>3. \A i \in DOMAIN posted' : posted'[i].kind # "ensure" => entry'.kind # "none" /\ posted'[i].life = entry'.life
  BY <1>t, <1>1, <1>n DEF WordsInOrder
<1>4. ASSUME NEW i \in DOMAIN posted', NEW j \in DOMAIN posted', i < j,
             posted'[i].kind # "ensure", posted'[j].kind # "ensure"
      PROVE  posted'[i].kind \in {"adopt", "give-up"} /\ posted'[j].kind = "drained"
  <2>1. i \in DOMAIN posted
    BY <1>4, <1>1, <1>p
  <2>2. CASE j \in DOMAIN posted
    BY <1>4, <2>1, <2>2, <1>1, <1>t DEF WordsInOrder
  <2>3. CASE j = Len(posted) + 1
    BY <1>4, <2>1, <2>3, <1>1, <1>2, <1>n
  <2> QED
    BY <2>2, <2>3, <1>1
<1>5. WordsInOrder'
  BY <1>3, <1>4 DEF WordsInOrder
<1> QED
  BY <1>1, <1>5

\* The queue without its first command is in order, and its first word was the
\* last of its kind.
LEMMA WordTaken ==
  ASSUME ChannelInv, posted # <<>>, posted' = Tail(posted),
         (entry'.life = entry.life /\ entry'.kind # "none") \/ Head(posted).kind = "drained"
  PROVE  /\ WordsInOrder'
         /\ Head(posted).kind \in Words => entry.kind # "none" /\ Head(posted).life = entry.life
         /\ Head(posted).kind \in {"adopt", "give-up"} => ~Said("adopt")' /\ ~Said("give-up")'
         /\ Head(posted).kind = "drained" => \A k \in Words : ~Said(k)'
         /\ Head(posted).kind \in {"adopt", "give-up"} => (Said("drained")' <=> Said("drained"))
         /\ Head(posted).kind = "ensure" => \A k \in Words : Said(k)' <=> Said(k)
<1>t. ChannelTypeOK /\ WordsInOrder
  BY DEF ChannelInv
<1>p. \A i \in DOMAIN posted : posted[i].kind \in {"ensure"} \cup Words
  BY <1>t, PostedTypes
<1>1. /\ 1 \in DOMAIN posted /\ Head(posted) = posted[1]
      /\ \A i \in DOMAIN posted' : i \in Nat /\ i >= 1 /\ i + 1 \in DOMAIN posted /\ posted'[i] = posted[i + 1]
      /\ \A k \in {"ensure"} \cup Words : Said(k)' => Said(k)
      /\ \A k \in {"ensure"} \cup Words : Said(k) => Said(k)' \/ k = Head(posted).kind
  BY <1>t, Taking
<1>2. Head(posted).kind \in Words => entry.kind # "none" /\ Head(posted).life = entry.life
  BY <1>1, <1>t DEF WordsInOrder, Words
<1>3. \A i \in DOMAIN posted' : posted'[i].kind \in {"ensure"} \cup Words
  BY <1>1, <1>p
<1>4. Head(posted).kind \in Words =>
        \A i \in DOMAIN posted' : posted'[i].kind # "ensure" =>
          posted'[i].kind = "drained" /\ Head(posted).kind \in {"adopt", "give-up"}
  BY <1>1, <1>t DEF WordsInOrder, Words
<1>5. WordsInOrder'
  <2>1. \A i \in DOMAIN posted' : posted'[i].kind # "ensure" => entry'.kind # "none" /\ posted'[i].life = entry'.life
    BY <1>1, <1>4, <1>t DEF WordsInOrder, Words
  <2>2. \A i, j \in DOMAIN posted' :
          i < j /\ posted'[i].kind # "ensure" /\ posted'[j].kind # "ensure" =>
            posted'[i].kind \in {"adopt", "give-up"} /\ posted'[j].kind = "drained"
    BY <1>1, <1>t DEF WordsInOrder
  <2> QED
    BY <2>1, <2>2 DEF WordsInOrder
<1>6. Head(posted).kind \in {"adopt", "give-up"} => ~Said("adopt")' /\ ~Said("give-up")'
  BY <1>4 DEF Said, Words
<1>7. Head(posted).kind = "drained" => \A k \in Words : ~Said(k)'
  BY <1>4 DEF Said, Words
<1>8. Head(posted).kind \in {"adopt", "give-up"} => (Said("drained")' <=> Said("drained"))
  BY <1>1 DEF Words
<1>9. Head(posted).kind = "ensure" => \A k \in Words : Said(k)' <=> Said(k)
  BY <1>1 DEF Words
<1> QED
  BY <1>2, <1>5, <1>6, <1>7, <1>8, <1>9

-----------------------------------------------------------------------------
\* The parts one at a time, as the steps below use them.
LEMMA ChannelTypes ==
  ASSUME ChannelTypeOK
  PROVE  /\ doc \in Nat /\ gaveUp \in Nat /\ synced \in BOOLEAN /\ modified \in BOOLEAN
         /\ entry.kind \in {"none", "connecting", "live", "draining"} /\ entry.life \in Nat /\ entry.reopen \in BOOLEAN
         /\ entry = [kind |-> entry.kind, life |-> entry.life, reopen |-> entry.reopen]
         /\ lives \in Seq(Life(host.minted)) /\ Len(lives) \in Nat /\ DOMAIN lives = 1..Len(lives)
         /\ \A l \in DOMAIN lives : lives[l] \in Life(host.minted)
<1>1. entry \in Entry /\ lives \in Seq(Life(host.minted)) /\ doc \in 0..MaxOpens /\ gaveUp \in 0..MaxOpens
      /\ synced \in BOOLEAN /\ modified \in BOOLEAN
  BY DEF ChannelTypeOK
<1>2. doc \in Nat /\ gaveUp \in Nat
  BY <1>1, ChannelAssumption
<1>3. /\ entry.kind \in {"none", "connecting", "live", "draining"} /\ entry.life \in Nat /\ entry.reopen \in BOOLEAN
      /\ entry = [kind |-> entry.kind, life |-> entry.life, reopen |-> entry.reopen]
  BY <1>1 DEF Entry
<1>4. Len(lives) \in Nat /\ DOMAIN lives = 1..Len(lives) /\ \A l \in DOMAIN lives : lives[l] \in Life(host.minted)
  BY <1>1
<1> QED
  BY <1>1, <1>2, <1>3, <1>4

\* A life that is not over is the entry's, and the last.
LEMMA TheLifeIsTheEntrys ==
  ASSUME ChannelInv, NEW l \in DOMAIN lives, Alive(l)
  PROVE  l = entry.life /\ entry.kind # "none" /\ l = Len(lives) /\ ~Said("drained")
<1>t. ChannelTypeOK /\ EntryHasTheLife /\ EntryKnowsItsLife
  BY DEF ChannelInv
<1>1. l = entry.life
  BY <1>t DEF EntryHasTheLife
<1>2. l \in Nat \ {0}
  BY <1>t, ChannelTypes
<1>3. entry.kind # "none" /\ l = Len(lives)
  BY <1>t, <1>1, <1>2 DEF EntryHasTheLife
<1>4. ~Said("drained")
  BY <1>t, <1>1, <1>3 DEF EntryKnowsItsLife, Alive
<1> QED
  BY <1>1, <1>3, <1>4

\* The life of an entry is one of the lives.
LEMMA EntrysLife ==
  ASSUME ChannelInv, entry.kind # "none"
  PROVE  entry.life \in DOMAIN lives /\ entry.life = Len(lives)
<1>t. ChannelTypeOK /\ EntryHasTheLife
  BY DEF ChannelInv
<1>1. lives # <<>> /\ entry.life = Len(lives)
  BY <1>t DEF EntryHasTheLife
<1>2. lives \in Seq(Life(host.minted)) /\ DOMAIN lives = 1..Len(lives)
  BY <1>t, ChannelTypes
<1>3. Len(lives) \in Nat \ {0}
  BY <1>1, <1>2, EmptySeq
<1> QED
  BY <1>1, <1>2, <1>3

\* What is a life while few documents were minted is one later.
LEMMA LivesLater ==
  ASSUME NEW m \in Nat, NEW n \in Nat, m <= n
  PROVE  Life(m) \subseteq Life(n) /\ Saving(m) \subseteq Saving(n)
<1>1. 0..m \subseteq 0..n
  OBVIOUS
<1> QED
  BY <1>1 DEF Life, Saving

\* The host after a step: it is of its type, and forgets no number.
HostGoesOn ==
  /\ host' \in HostFile /\ host'.alive \in {0, host'.minted} /\ (host'.alive = 0 => host'.rows = {})
  /\ host'.minted >= host.minted

\* One of the lives moves.
LEMMA OneMoves ==
  ASSUME ChannelTypeOK, HostGoesOn, NEW l \in DOMAIN lives, NEW r \in Life(host'.minted), lives' = [lives EXCEPT ![l] = r]
  PROVE  /\ lives' \in Seq(Life(host'.minted)) /\ DOMAIN lives' = DOMAIN lives /\ Len(lives') = Len(lives)
         /\ lives'[l] = r /\ \A k \in DOMAIN lives : k # l => lives'[k] = lives[k]
         /\ lives' # <<>>
<1>1. host.minted \in Nat /\ host'.minted \in Nat /\ host.minted <= host'.minted
  BY DEF ChannelTypeOK, HostGoesOn, HostFile
<1>2. lives \in Seq(Life(host.minted)) /\ DOMAIN lives = 1..Len(lives)
  BY ChannelTypes
<1>3. Life(host.minted) \subseteq Life(host'.minted)
  BY <1>1, LivesLater
<1>4. lives \in Seq(Life(host'.minted))
  BY <1>2, <1>3
<1>5. lives' \in Seq(Life(host'.minted)) /\ Len(lives') = Len(lives)
  BY <1>2, <1>4
<1>6. DOMAIN lives' = DOMAIN lives /\ lives'[l] = r /\ \A k \in DOMAIN lives : k # l => lives'[k] = lives[k]
  BY <1>2
<1>7. lives' # <<>>
  BY <1>6
<1> QED
  BY <1>5, <1>6, <1>7

-----------------------------------------------------------------------------
\* The host.
HostOK(h) == h \in HostFile /\ h.alive \in {0, h.minted} /\ (h.alive = 0 => h.rows = {})

LEMMA HostOpens ==
  ASSUME NEW h, HostOK(h)
  PROVE  /\ HostOK(Opened(h)) /\ Opened(h).minted >= h.minted /\ h.minted \in Nat
         /\ Opened(h).alive # 0 /\ Opened(h).alive \in 0..Opened(h).minted
         /\ Opened(h).rows = h.rows /\ (h.alive # 0 => Opened(h) = h)
<1>1. CASE h.alive # 0
  BY <1>1 DEF HostOK, HostFile, Opened
<1>2. CASE h.alive = 0
  <2>1. h.minted \in Nat /\ h.rows = {}
    BY <1>2 DEF HostOK, HostFile
  <2>2. Opened(h).alive = h.minted + 1 /\ Opened(h).minted = h.minted + 1 /\ Opened(h).rows = h.rows
    BY <1>2 DEF HostOK, HostFile, Opened
  <2>3. Opened(h) \in HostFile
    <3>1. h \in HostFile /\ h.minted + 1 \in Nat
      BY <2>1 DEF HostOK
    <3>2. ASSUME NEW n \in Nat
          PROVE  [h EXCEPT !.alive = n, !.minted = n] \in HostFile
      BY <3>1 DEF HostFile
    <3>3. Opened(h) = [h EXCEPT !.alive = h.minted + 1, !.minted = h.minted + 1]
      BY <1>2 DEF Opened
    <3> QED
      BY <3>1, <3>2, <3>3
  <2> QED
    BY <1>2, <2>1, <2>2, <2>3 DEF HostOK
<1> QED
  BY <1>1, <1>2

LEMMA HostRows ==
  ASSUME NEW h, HostOK(h), NEW who \in {Me, Other}, h.alive # 0
  PROVE  HostOK(Rowed(h, who)) /\ Rowed(h, who).minted = h.minted /\ Rowed(h, who).alive = h.alive
         /\ Rowed(h, who).rows = h.rows \cup {who}
<1>1. Rowed(h, who).minted = h.minted /\ Rowed(h, who).alive = h.alive /\ Rowed(h, who).rows = h.rows \cup {who}
  BY DEF HostOK, HostFile, Rowed
<1>2. Rowed(h, who) \in HostFile
  BY DEF HostOK, HostFile, Rowed
<1> QED
  BY <1>1, <1>2 DEF HostOK

LEMMA HostUnrows ==
  ASSUME NEW h, HostOK(h), NEW who \in {Me, Other}, NEW ch
  PROVE  /\ HostOK(Unrowed(h, who, ch)) /\ Unrowed(h, who, ch).minted = h.minted
         /\ h.alive = ch => Unrowed(h, who, ch).rows = h.rows \ {who}
         /\ h.alive # ch => Unrowed(h, who, ch) = h
         /\ \A other \in h.rows : other # who => other \in Unrowed(h, who, ch).rows /\ Unrowed(h, who, ch).alive = h.alive
         /\ Unrowed(h, who, ch).rows \subseteq h.rows /\ Unrowed(h, who, ch).alive \in {0, h.alive}
<1>1. CASE h.alive # ch \/ who \notin h.rows
  BY <1>1 DEF HostOK, HostFile, Unrowed
<1>2. CASE h.alive = ch /\ who \in h.rows
  <2>1. /\ Unrowed(h, who, ch).minted = h.minted
        /\ Unrowed(h, who, ch).rows = h.rows \ {who}
        /\ Unrowed(h, who, ch).alive = IF h.rows = {who} THEN 0 ELSE h.alive
    BY <1>2 DEF HostOK, HostFile, Unrowed
  <2>2. Unrowed(h, who, ch) \in HostFile
    BY <1>2 DEF HostOK, HostFile, Unrowed
  <2>3. h.minted \in Nat /\ h.alive \in {0, h.minted} /\ h.alive # 0
    BY <1>2 DEF HostOK, HostFile
  <2> QED
    BY <1>2, <2>1, <2>2, <2>3 DEF HostOK
<1> QED
  BY <1>1, <1>2

-----------------------------------------------------------------------------
\* The steps of a life.

Budgets == [opens : 0..MaxOpens, saves : 0..MaxSaves, faults : 0..MaxFaults, others : 0..MaxOthers]

\* The parts that no step of a life touches as long as it keeps to its own state.
Table == ChannelTypeOK /\ OneLife /\ OneAuthority /\ RouteFollowsTheEntry /\ OpenIsRemembered /\ EntryHasTheLife

LEMMA LifeMoves ==
  ASSUME ChannelInv, HostGoesOn, NEW l \in DOMAIN lives, Alive(l),
         NEW r \in Life(host'.minted), lives' = [lives EXCEPT ![l] = r],
         LifeKeeps, budget' \in Budgets,
         posted' \in Seq(Command),
         \A i \in DOMAIN posted : i \in DOMAIN posted' /\ posted'[i] = posted[i]
  PROVE  Table' /\ l = entry.life /\ entry.kind # "none" /\ lives'[entry'.life] = r /\ entry' = entry
<1>t. ChannelTypeOK /\ OneAuthority /\ RouteFollowsTheEntry /\ OpenIsRemembered /\ EntryHasTheLife
  BY DEF ChannelInv
<1>k. /\ doc' = doc /\ synced' = synced /\ modified' = modified /\ entry' = entry /\ route' = route
      /\ save' = save /\ gaveUp' = gaveUp
  BY DEF LifeKeeps
<1>e. l = entry.life /\ entry.kind # "none"
  BY TheLifeIsTheEntrys
<1>1. /\ lives' \in Seq(Life(host'.minted)) /\ DOMAIN lives' = DOMAIN lives /\ Len(lives') = Len(lives)
      /\ lives'[l] = r /\ \A k \in DOMAIN lives : k # l => lives'[k] = lives[k]
      /\ lives' # <<>>
  BY <1>t, OneMoves
<1>2. ChannelTypeOK'
  <2>1. host.minted \in Nat /\ host'.minted \in Nat /\ host.minted <= host'.minted
    BY <1>t DEF HostGoesOn, ChannelTypeOK, HostFile
  <2>2. save' \in Saving(host'.minted)
    BY <2>1, <1>t, <1>k, LivesLater DEF ChannelTypeOK
  <2> QED
    BY <2>2, <1>t, <1>k, <1>1 DEF HostGoesOn, ChannelTypeOK, Budgets
<1>3. \A k \in DOMAIN lives' : Alive(k)' => k = l
  BY <1>t, <1>1, <1>e DEF EntryHasTheLife, Alive
<1>4. OneLife'
  BY <1>3 DEF OneLife
<1>5. OneAuthority' /\ RouteFollowsTheEntry'
  BY <1>t, <1>k DEF OneAuthority, RouteFollowsTheEntry
<1>6. OpenIsRemembered'
  BY <1>t, <1>k DEF OpenIsRemembered
<1>7. EntryHasTheLife'
  BY <1>t, <1>k, <1>1, <1>3, <1>e DEF EntryHasTheLife
<1> QED
  BY <1>2, <1>4, <1>5, <1>6, <1>7, <1>e, <1>k, <1>1 DEF Table

\* A life that moves on in silence.
LEMMA LifeMovesSilently ==
  ASSUME ChannelInv, HostGoesOn, NEW l \in DOMAIN lives, Alive(l),
         NEW r \in Life(host'.minted), lives' = [lives EXCEPT ![l] = r],
         LifeKeeps, budget' \in Budgets, posted' = posted,
         r.stop = lives[l].stop, r.pc # "over", r.pc \in Holding => r.channel # 0,
         \/ r.pc \in {"running", "broken"} /\ ~Said("adopt") /\ ~Said("give-up") /\ entry.kind # "connecting"
         \/ lives[l].pc = "opening" /\ r.pc = "subscribing" /\ r.seed = lives[l].seed
  PROVE  ChannelInv'
<1>t. ChannelTypeOK /\ WordsInOrder /\ EntryKnowsItsLife
  BY DEF ChannelInv
<1>p. posted \in Seq(Command)
  BY <1>t, PostedTypes
<1>1. Table' /\ l = entry.life /\ entry.kind # "none" /\ lives'[entry'.life] = r /\ entry' = entry
  BY <1>p, LifeMoves
<1>2. WordsInOrder' /\ \A k \in Words : Said(k)' <=> Said(k)
  BY <1>1, <1>t DEF WordsInOrder, Said
<1>3. doc' = doc /\ ~Said("drained")
  BY TheLifeIsTheEntrys DEF LifeKeeps
<1>4. EntryKnowsItsLife'
  BY <1>1, <1>2, <1>3, <1>t DEF EntryKnowsItsLife, Words, Holding
<1> QED
  BY <1>1, <1>2, <1>4 DEF ChannelInv, Table

\* A life that says something: the entry hears it in order.
LEMMA LifeMovesAndSays ==
  ASSUME ChannelInv, HostGoesOn, NEW l \in DOMAIN lives, Alive(l),
         NEW r \in Life(host'.minted), lives' = [lives EXCEPT ![l] = r],
         LifeKeeps, budget' \in Budgets, NEW kind \in Words, Posts(kind, l),
         r.stop => lives[l].stop, r.pc \in Holding => r.channel # 0,
         \/ kind = "drained" /\ r = Over /\ (lives[l].pc \in {"opening", "subscribing"} => lives[l].stop)
         \/ kind = "give-up" /\ r.pc = "parting" /\ lives[l].pc \in {"opening", "subscribing"}
         \/ kind = "adopt" /\ r.pc = "adopting" /\ r.seed = lives[l].seed /\ lives[l].pc = "subscribing"
  PROVE  ChannelInv'
<1>t. ChannelTypeOK /\ WordsInOrder /\ EntryKnowsItsLife
  BY DEF ChannelInv
<1>e. l = entry.life /\ entry.kind # "none" /\ ~Said("drained")
  BY TheLifeIsTheEntrys
<1>k. entry' = entry /\ doc' = doc /\ posted' = Append(posted, Note(kind, entry.life))
  BY <1>e DEF LifeKeeps, Posts
<1>p. /\ posted' \in Seq(Command)
      /\ \A i \in DOMAIN posted : i \in DOMAIN posted' /\ posted'[i] = posted[i]
  BY <1>t, <1>k, <1>e, ChannelTypes, Posting
<1>1. Table' /\ lives'[entry'.life] = r
  BY <1>p, LifeMoves
<1>2. kind = "drained" \/ (~Said("adopt") /\ ~Said("give-up"))
  BY <1>t, <1>e DEF EntryKnowsItsLife
<1>3. WordsInOrder' /\ \A k \in Words : Said(k)' <=> Said(k) \/ k = kind
  BY <1>e, <1>k, <1>2, WordPosted
<1>4. Over.pc = "over" /\ ~Over.stop /\ Over.seed = "none"
  BY DEF Over
<1>5. lives[entry.life].pc # "over"
  BY <1>e DEF Alive
<1>6. EntryKnowsItsLife'
  <2>1. CASE kind = "drained"
    BY <2>1, <1>1, <1>3, <1>4, <1>5, <1>e, <1>k, <1>t DEF EntryKnowsItsLife, Words, Holding
  <2>2. CASE kind = "give-up"
    BY <2>2, <1>1, <1>2, <1>3, <1>5, <1>e, <1>k, <1>t DEF EntryKnowsItsLife, Words, Holding
  <2>3. CASE kind = "adopt"
    BY <2>3, <1>1, <1>2, <1>3, <1>5, <1>e, <1>k, <1>t DEF EntryKnowsItsLife, Words, Holding
  <2> QED
    BY <2>1, <2>2, <2>3 DEF Words
<1> QED
  BY <1>1, <1>3, <1>6 DEF ChannelInv, Table

\* The host's part of a life's steps.
LEMMA HostStays ==
  ASSUME ChannelTypeOK
  PROVE  /\ HostOK(host) /\ host.minted \in Nat /\ host.alive \in 0..host.minted
         /\ \A h : HostOK(h) /\ h.minted >= host.minted /\ host' = h => HostGoesOn /\ host'.minted \in Nat
BY DEF ChannelTypeOK, HostOK, HostFile, HostGoesOn

\* What a life may become: another place, with what it knows.
LEMMA LifeBecomes ==
  ASSUME ChannelTypeOK, HostGoesOn, NEW l \in DOMAIN lives
  PROVE  /\ lives[l] \in Life(host'.minted) /\ Over \in Life(host'.minted) /\ ~Over.stop /\ Over.pc = "over"
         /\ \A pc \in Holding \cup {"parting"} :
              /\ [lives[l] EXCEPT !.pc = pc] \in Life(host'.minted)
              /\ [lives[l] EXCEPT !.pc = pc].pc = pc
              /\ [lives[l] EXCEPT !.pc = pc].stop = lives[l].stop
              /\ [lives[l] EXCEPT !.pc = pc].seed = lives[l].seed
              /\ [lives[l] EXCEPT !.pc = pc].channel = lives[l].channel
<1>1. host.minted \in Nat /\ host'.minted \in Nat /\ host.minted <= host'.minted
  BY DEF HostGoesOn, ChannelTypeOK, HostFile
<1>2. lives[l] \in Life(host'.minted)
  BY <1>1, ChannelTypes, LivesLater
<1>3. Over \in Life(host'.minted) /\ ~Over.stop /\ Over.pc = "over"
  BY <1>1 DEF Life, Over
<1>4. ASSUME NEW pc \in Holding \cup {"parting"}
      PROVE  /\ [lives[l] EXCEPT !.pc = pc] \in Life(host'.minted)
             /\ [lives[l] EXCEPT !.pc = pc].pc = pc
             /\ [lives[l] EXCEPT !.pc = pc].stop = lives[l].stop
             /\ [lives[l] EXCEPT !.pc = pc].seed = lives[l].seed
             /\ [lives[l] EXCEPT !.pc = pc].channel = lives[l].channel
  BY <1>2 DEF Life
<1> QED
  BY <1>2, <1>3, <1>4

\* A fault is counted.
LEMMA Faulted ==
  ASSUME ChannelTypeOK
  PROVE  /\ budget \in Budgets
         /\ budget.faults < MaxFaults => [budget EXCEPT !.faults = @ + 1] \in Budgets
<1>1. budget \in Budgets /\ MaxFaults \in Nat
  BY ChannelAssumption DEF ChannelTypeOK, Budgets
<1>2. budget.faults \in 0..MaxFaults
  BY <1>1 DEF Budgets
<1>3. budget.faults < MaxFaults => budget.faults + 1 \in 0..MaxFaults
  BY <1>1, <1>2
<1>4. \A n \in 0..MaxFaults : [budget EXCEPT !.faults = n] \in Budgets
  BY <1>1 DEF Budgets
<1> QED
  BY <1>1, <1>3, <1>4

\* A place where the life is, that is in a set of which the theorem speaks.
LEMMA EntryKnows ==
  ASSUME ChannelInv, NEW l \in DOMAIN lives, Alive(l)
  PROVE  /\ lives[l].pc \in Holding => lives[l].channel # 0
         /\ lives[l].pc \in {"running", "broken"} => ~Said("adopt") /\ ~Said("give-up") /\ entry.kind # "connecting"
         /\ lives[l].pc = "adopting" /\ lives[l].seed = "sent" =>
              ~Said("adopt") /\ ~Said("give-up") /\ entry.kind # "connecting"
<1>1. l = entry.life /\ entry.kind # "none"
  BY TheLifeIsTheEntrys
<1>2. EntryKnowsItsLife
  BY DEF ChannelInv
<1> QED
  BY <1>1, <1>2 DEF EntryKnowsItsLife

LEMMA OpenStoppedKeeps ==
  ASSUME ChannelInv, NEW l \in DOMAIN lives, OpenStopped(l)
  PROVE  ChannelInv'
<1>t. ChannelTypeOK
  BY DEF ChannelInv
<1>1. /\ lives[l].pc = "opening" /\ lives[l].stop /\ lives' = [lives EXCEPT ![l] = Over]
      /\ host' \in {host, Opened(host)} /\ Posts("drained", l) /\ LifeKeeps /\ budget' = budget
  BY DEF OpenStopped
<1>2. HostGoesOn
  BY <1>t, <1>1, HostStays, HostOpens
<1>3. Over \in Life(host'.minted) /\ ~Over.stop /\ Over.pc \notin Holding
  BY <1>t, <1>2, LifeBecomes DEF Holding
<1>4. budget' \in Budgets
  BY <1>t, <1>1, Faulted
<1> QED
  BY <1>1, <1>2, <1>3, <1>4, LifeMovesAndSays DEF Alive, Words

LEMMA OpenAnsweredKeeps ==
  ASSUME ChannelInv, NEW l \in DOMAIN lives, OpenAnswered(l)
  PROVE  ChannelInv'
<1> DEFINE r == [lives[l] EXCEPT !.pc = "subscribing", !.channel = host'.alive]
<1>t. ChannelTypeOK
  BY DEF ChannelInv
<1>1. /\ lives[l].pc = "opening" /\ host' = Opened(host)
      /\ LifeKeeps /\ posted' = posted /\ budget' = budget
  BY DEF OpenAnswered
<1>2. lives' = [lives EXCEPT ![l] = r]
  BY DEF OpenAnswered
<1>3. HostGoesOn /\ host'.alive # 0 /\ host'.alive \in 0..host'.minted
  BY <1>t, <1>1, HostStays, HostOpens
<1>4. lives[l] \in Life(host'.minted)
  BY <1>t, <1>3, LifeBecomes
<1>5. r \in Life(host'.minted) /\ r.pc = "subscribing" /\ r.stop = lives[l].stop /\ r.seed = lives[l].seed
      /\ r.channel # 0
  BY <1>3, <1>4 DEF Life, Holding
<1>6. budget' \in Budgets
  BY <1>t, <1>1, Faulted
<1> QED
  BY <1>1, <1>2, <1>3, <1>5, <1>6, LifeMovesSilently DEF Alive

LEMMA OpenFailsKeeps ==
  ASSUME ChannelInv, NEW l \in DOMAIN lives, OpenFails(l)
  PROVE  ChannelInv'
<1> DEFINE r == [lives[l] EXCEPT !.pc = "parting"]
<1>t. ChannelTypeOK
  BY DEF ChannelInv
<1>1. lives[l].pc = "opening" /\ host' = host /\ LifeKeeps /\ Posts("give-up", l) /\ lives' = [lives EXCEPT ![l] = r]
  BY DEF OpenFails
<1>2. HostGoesOn
  BY <1>t, <1>1, HostStays
<1>3. r \in Life(host'.minted) /\ r.pc = "parting" /\ r.stop = lives[l].stop /\ r.pc \notin Holding
  BY <1>t, <1>2, LifeBecomes DEF Holding
<1>4. budget' \in Budgets
  BY <1>t, Faulted DEF OpenFails
<1> QED
  BY <1>1, <1>2, <1>3, <1>4, LifeMovesAndSays DEF Alive, Words

LEMMA PartedKeeps ==
  ASSUME ChannelInv, NEW l \in DOMAIN lives, Alive(l), Parted(l), LifeKeeps, budget' = budget,
         lives[l].pc \in {"opening", "subscribing"} => lives[l].stop
  PROVE  ChannelInv'
<1>t. ChannelTypeOK
  BY DEF ChannelInv
<1>1. lives' = [lives EXCEPT ![l] = Over] /\ host' = Unrowed(host, Me, lives[l].channel) /\ Posts("drained", l)
  BY DEF Parted
<1>2. HostGoesOn
  BY <1>t, <1>1, HostStays, HostUnrows
<1>3. Over \in Life(host'.minted) /\ ~Over.stop /\ Over.pc \notin Holding
  BY <1>t, <1>2, LifeBecomes DEF Holding
<1>4. budget' \in Budgets
  BY <1>t, Faulted
<1> QED
  BY <1>1, <1>2, <1>3, <1>4, LifeMovesAndSays DEF Words

LEMMA SubscribeAnsweredKeeps ==
  ASSUME ChannelInv, NEW l \in DOMAIN lives, SubscribeAnswered(l)
  PROVE  ChannelInv'
<1> DEFINE r == [lives[l] EXCEPT !.pc = "adopting"]
<1>t. ChannelTypeOK
  BY DEF ChannelInv
<1>1. lives[l].pc = "subscribing" /\ host.alive = lives[l].channel /\ LifeKeeps /\ budget' = budget /\ Alive(l)
  BY DEF SubscribeAnswered, Alive
<1>2. CASE lives[l].stop /\ Parted(l)
  BY <1>1, <1>2, PartedKeeps
<1>3. CASE host' = Rowed(host, Me) /\ lives' = [lives EXCEPT ![l] = r] /\ Posts("adopt", l)
  <2>1. lives[l].channel # 0
    BY <1>1, EntryKnows DEF Holding
  <2>2. HostGoesOn
    BY <1>t, <1>1, <1>3, <2>1, HostStays, HostRows
  <2>3. r \in Life(host'.minted) /\ r.pc = "adopting" /\ r.stop = lives[l].stop /\ r.seed = lives[l].seed
        /\ r.channel = lives[l].channel
    BY <1>t, <2>2, LifeBecomes DEF Holding
  <2>4. budget' \in Budgets
    BY <1>t, <1>1, Faulted
  <2> QED
    BY <1>1, <1>3, <2>1, <2>2, <2>3, <2>4, LifeMovesAndSays DEF Words
<1> QED
  BY <1>2, <1>3 DEF SubscribeAnswered

LEMMA SubscribeFailsKeeps ==
  ASSUME ChannelInv, NEW l \in DOMAIN lives, SubscribeFails(l)
  PROVE  ChannelInv'
<1> DEFINE r == [lives[l] EXCEPT !.pc = "parting"]
<1>t. ChannelTypeOK
  BY DEF ChannelInv
<1>1. /\ lives[l].pc = "subscribing" /\ host' = Unrowed(host, Me, lives[l].channel)
      /\ LifeKeeps /\ Posts("give-up", l) /\ lives' = [lives EXCEPT ![l] = r]
  BY DEF SubscribeFails
<1>2. HostGoesOn
  BY <1>t, <1>1, HostStays, HostUnrows
<1>3. r \in Life(host'.minted) /\ r.pc = "parting" /\ r.stop = lives[l].stop /\ r.pc \notin Holding
  BY <1>t, <1>2, LifeBecomes DEF Holding
<1>4. budget' \in Budgets
  BY <1>t, Faulted DEF SubscribeFails
<1> QED
  BY <1>1, <1>2, <1>3, <1>4, LifeMovesAndSays DEF Alive, Words

LEMMA LastWordKeeps ==
  ASSUME ChannelInv, NEW l \in DOMAIN lives, LastWord(l)
  PROVE  ChannelInv'
<1>t. ChannelTypeOK
  BY DEF ChannelInv
<1>1. /\ lives[l].pc = "parting" /\ lives' = [lives EXCEPT ![l] = Over] /\ host' = host
      /\ Posts("drained", l) /\ LifeKeeps /\ budget' = budget
  BY DEF LastWord
<1>2. HostGoesOn
  BY <1>t, <1>1, HostStays
<1>3. Over \in Life(host'.minted) /\ ~Over.stop /\ Over.pc \notin Holding
  BY <1>t, <1>2, LifeBecomes DEF Holding
<1>4. budget' \in Budgets
  BY <1>t, <1>1, Faulted
<1> QED
  BY <1>1, <1>2, <1>3, <1>4, LifeMovesAndSays DEF Alive, Words

\* Adopted, and broken.
LEMMA RunningKeeps ==
  ASSUME ChannelInv, NEW l \in DOMAIN lives, Adopted(l) \/ LoopBreaks(l)
  PROVE  ChannelInv'
<1>t. ChannelTypeOK
  BY DEF ChannelInv
<1>1. /\ Alive(l) /\ lives[l].pc \in Holding /\ host' = host /\ LifeKeeps /\ posted' = posted
      /\ lives[l].pc \in {"running", "broken"} \/ (lives[l].pc = "adopting" /\ lives[l].seed = "sent")
  BY DEF Adopted, LoopBreaks, Alive, Holding
<1>2. PICK pc \in {"running", "broken"} : lives' = [lives EXCEPT ![l] = [lives[l] EXCEPT !.pc = pc]]
  BY DEF Adopted, LoopBreaks
<1> DEFINE r == [lives[l] EXCEPT !.pc = pc]
<1>3. HostGoesOn
  BY <1>t, <1>1, HostStays
<1>4. r \in Life(host'.minted) /\ r.pc = pc /\ r.stop = lives[l].stop /\ r.channel = lives[l].channel
  BY <1>t, <1>3, LifeBecomes DEF Holding
<1>5. lives[l].channel # 0 /\ ~Said("adopt") /\ ~Said("give-up") /\ entry.kind # "connecting"
  BY <1>1, EntryKnows
<1>6. budget' \in Budgets
  BY <1>t, Faulted DEF Adopted, LoopBreaks
<1> QED
  BY <1>1, <1>2, <1>3, <1>4, <1>5, <1>6, LifeMovesSilently

LEMMA LifeStepKeeps ==
  ASSUME ChannelInv, NEW l \in DOMAIN lives, LifeStep(l)
  PROVE  ChannelInv'
<1>1. CASE Stopped(l)
  BY <1>1, PartedKeeps DEF Stopped, Alive
<1>2. CASE HearsOfTheBreak(l)
  BY <1>2, PartedKeeps DEF HearsOfTheBreak, Alive
<1> QED
  BY <1>1, <1>2, OpenStoppedKeeps, OpenAnsweredKeeps, OpenFailsKeeps, SubscribeAnsweredKeeps, SubscribeFailsKeeps,
     LastWordKeeps, RunningKeeps DEF LifeStep

-----------------------------------------------------------------------------
\* What leaves the table alone: saves, and the other client.

LEMMA TableStays ==
  ASSUME ChannelInv, UNCHANGED <<doc, synced, entry, posted, lives, route, gaveUp>>, ChannelTypeOK'
  PROVE  ChannelInv'
BY DEF ChannelInv, OneLife, OneAuthority, RouteFollowsTheEntry, OpenIsRemembered, EntryHasTheLife, WordsInOrder,
       EntryKnowsItsLife, Said, Alive

\* A type that is kept when nothing but the save, its budget and the mark of the
\* edits have changed.
LEMMA SavesMove ==
  ASSUME ChannelInv, UNCHANGED <<doc, synced, entry, posted, lives, route, gaveUp, host>>,
         save' \in Saving(host.minted), modified' \in BOOLEAN, budget' \in Budgets
  PROVE  ChannelInv'
<1>1. ChannelTypeOK'
  BY DEF ChannelInv, ChannelTypeOK, Budgets
<1> QED
  BY <1>1, TableStays

LEMMA SavingFacts ==
  ASSUME ChannelTypeOK
  PROVE  /\ save \in Saving(host.minted) /\ NoSave \in Saving(host.minted)
         /\ save.covers \in BOOLEAN /\ save.life \in Nat /\ modified \in BOOLEAN /\ route.life \in Nat
<1>1. save \in Saving(host.minted) /\ modified \in BOOLEAN /\ route \in [life : Nat, ready : BOOLEAN] /\ host.minted \in Nat
  BY DEF ChannelTypeOK, HostFile
<1>2. NoSave \in Saving(host.minted)
  BY <1>1 DEF Saving, NoSave
<1> QED
  BY <1>1, <1>2 DEF Saving

LEMMA TypeKeeps ==
  ASSUME ChannelInv, Type
  PROVE  ChannelInv'
<1>t. ChannelTypeOK
  BY DEF ChannelInv
<1>1. save' \in Saving(host.minted)
  BY <1>t, SavingFacts DEF Type, Saving
<1>2. budget' \in Budgets
  BY <1>t, Faulted DEF Type
<1> QED
  BY <1>1, <1>2, SavesMove DEF Type

LEMMA PressSaveKeeps ==
  ASSUME ChannelInv, PressSave
  PROVE  ChannelInv'
<1>t. ChannelTypeOK
  BY DEF ChannelInv
<1>1. save' \in Saving(host.minted)
  BY <1>t, SavingFacts DEF PressSave, Saving
<1>2. budget' \in Budgets
  <2>1. budget \in Budgets /\ MaxSaves \in Nat
    BY <1>t, Faulted, ChannelAssumption
  <2>2. budget.saves + 1 \in 0..MaxSaves
    BY <2>1 DEF PressSave, Budgets
  <2>3. \A n \in 0..MaxSaves : [budget EXCEPT !.saves = n] \in Budgets
    BY <2>1 DEF Budgets
  <2>4. budget' = [budget EXCEPT !.saves = budget.saves + 1]
    BY DEF PressSave
  <2> QED
    BY <2>2, <2>3, <2>4
<1>3. modified' \in BOOLEAN
  BY <1>t, SavingFacts DEF PressSave
<1> QED
  BY <1>1, <1>2, <1>3, SavesMove DEF PressSave

LEMMA SaveGoesKeeps ==
  ASSUME ChannelInv, SaveGoes
  PROVE  ChannelInv'
<1>t. ChannelTypeOK /\ RouteFollowsTheEntry
  BY DEF ChannelInv
<1>s. /\ save \in Saving(host.minted) /\ NoSave \in Saving(host.minted)
      /\ save.covers \in BOOLEAN /\ save.life \in Nat /\ modified \in BOOLEAN /\ route.life \in Nat
  BY <1>t, SavingFacts
<1>b. budget \in Budgets
  BY <1>t, Faulted
<1>1. ASSUME NEW s \in Saving(host.minted), SaveStep(s)
      PROVE  ChannelInv'
  BY <1>1, <1>s, <1>b, SavesMove DEF SaveStep
<1>2. ASSUME NEW landed \in BOOLEAN, SaveEnds(landed)
      PROVE  ChannelInv'
  <2>1. modified' \in BOOLEAN
    BY <1>2, <1>s DEF SaveEnds
  <2> QED
    BY <1>2, <2>1, <1>s, <1>b, SavesMove DEF SaveEnds
<1>3. CASE AsksTheRoute
  <2>1. [save EXCEPT !.pc = IF route.life = 0 THEN "writing" ELSE "waiting", !.life = route.life] \in Saving(host.minted)
    BY <1>s DEF Saving
  <2> QED
    BY <1>3, <2>1, <1>1 DEF AsksTheRoute
<1>4. CASE RouteIsReady
  <2>1. entry.kind = "live" /\ save.life = entry.life
    <3>1. route.ready /\ route.life = save.life
      BY <1>4 DEF RouteIsReady
    <3>2. CASE entry.kind \in {"connecting", "live"}
      <4>1. route = [life |-> entry.life, ready |-> entry.kind = "live"]
        BY <3>2, <1>t DEF RouteFollowsTheEntry
      <4> QED
        BY <3>1, <4>1
    <3>3. CASE entry.kind \notin {"connecting", "live"}
      <4>1. route = NoRoute
        BY <3>3, <1>t DEF RouteFollowsTheEntry
      <4> QED
        BY <3>1, <4>1 DEF NoRoute
    <3> QED
      BY <3>2, <3>3
  <2>2. save.life \in DOMAIN lives
    BY <2>1, EntrysLife
  <2>3. lives[save.life] \in Life(host.minted)
    BY <2>2, <1>t, ChannelTypes
  <2>4. lives[save.life].channel \in 0..host.minted
    BY <2>3 DEF Life
  <2>5. [save EXCEPT !.pc = "flushing", !.channel = lives[save.life].channel] \in Saving(host.minted)
    BY <2>4, <1>s DEF Saving
  <2> QED
    BY <1>4, <2>5, <1>1 DEF RouteIsReady
<1>5. CASE RouteIsDropped
  <2>1. [save EXCEPT !.pc = "writing", !.life = 0] \in Saving(host.minted)
    BY <1>s DEF Saving
  <2> QED
    BY <1>5, <2>1, <1>1 DEF RouteIsDropped
<1>6. CASE FlushAnswered
  <2>1. [save EXCEPT !.pc = "storing", !.life = 0] \in Saving(host.minted)
    BY <1>s DEF Saving
  <2> QED
    BY <1>6, <2>1, <1>1 DEF FlushAnswered
<1>7. CASE FlushDropped
  BY <1>7, <1>2 DEF FlushDropped
<1>8. CASE StoreAnswered
  BY <1>8, <1>2 DEF StoreAnswered
<1>9. CASE WriteAnswered
  BY <1>9, <1>2 DEF WriteAnswered
<1> QED
  BY <1>3, <1>4, <1>5, <1>6, <1>7, <1>8, <1>9 DEF SaveGoes

LEMMA OthersKeep ==
  ASSUME ChannelInv, OtherComes \/ OtherLeaves
  PROVE  ChannelInv'
<1>t. ChannelTypeOK
  BY DEF ChannelInv
<1>1. UNCHANGED <<doc, synced, modified, entry, posted, lives, route, save, gaveUp>>
  BY DEF OtherComes, OtherLeaves
<1>2. HostGoesOn
  <2>1. HostOK(host)
    BY <1>t, HostStays
  <2>2. CASE OtherComes
    <3>1. HostOK(Opened(host)) /\ Opened(host).alive # 0 /\ Opened(host).minted >= host.minted
      BY <2>1, HostOpens
    <3>2. HostOK(host') /\ host'.minted >= host.minted
      BY <2>2, <3>1, HostRows DEF OtherComes
    <3> QED
      BY <3>2, <1>t, HostStays
  <2>3. CASE OtherLeaves
    BY <2>1, <2>3, <1>t, HostUnrows, HostStays DEF OtherLeaves
  <2> QED
    BY <2>2, <2>3
<1>3. budget' \in Budgets
  <2>1. budget \in Budgets /\ MaxOthers \in Nat
    BY <1>t, Faulted, ChannelAssumption
  <2>2. budget.others < MaxOthers => budget.others + 1 \in 0..MaxOthers
    BY <2>1 DEF Budgets
  <2>3. \A n \in 0..MaxOthers : [budget EXCEPT !.others = n] \in Budgets
    BY <2>1 DEF Budgets
  <2>4. budget' = budget \/ (budget.others < MaxOthers /\ budget' = [budget EXCEPT !.others = budget.others + 1])
    BY DEF OtherComes, OtherLeaves
  <2> QED
    BY <2>1, <2>2, <2>3, <2>4
<1>4. ChannelTypeOK'
  <2>1. host.minted \in Nat /\ host'.minted \in Nat /\ host.minted <= host'.minted
    BY <1>t, <1>2 DEF HostGoesOn, ChannelTypeOK, HostFile
  <2>2. save \in Saving(host'.minted) /\ lives \in Seq(Life(host'.minted))
    BY <2>1, <1>t, LivesLater DEF ChannelTypeOK
  <2> QED
    BY <2>2, <1>t, <1>1, <1>2, <1>3 DEF ChannelTypeOK, HostGoesOn, Budgets
<1> QED
  BY <1>1, <1>4, TableStays

-----------------------------------------------------------------------------
\* The table's own steps.

\* A life that is told keeps its place, and others are not told.
LEMMA Telling ==
  ASSUME ChannelInv
  PROVE  /\ Told(lives) \in Seq(Life(host.minted)) /\ DOMAIN Told(lives) = DOMAIN lives /\ Len(Told(lives)) = Len(lives)
         /\ \A k \in DOMAIN lives :
              /\ Told(lives)[k] \in Life(host.minted)
              /\ Told(lives)[k].pc = lives[k].pc /\ Told(lives)[k].seed = lives[k].seed
              /\ Told(lives)[k].channel = lives[k].channel
<1>t. ChannelTypeOK
  BY DEF ChannelInv
<1>l. /\ lives \in Seq(Life(host.minted)) /\ DOMAIN lives = 1..Len(lives) /\ Len(lives) \in Nat
      /\ \A k \in DOMAIN lives : lives[k] \in Life(host.minted)
  BY <1>t, ChannelTypes
<1>1. CASE entry.kind \notin {"connecting", "live"}
  BY <1>1, <1>l DEF Told
<1>2. CASE entry.kind \in {"connecting", "live"}
  <2> DEFINE r == [lives[entry.life] EXCEPT !.stop = TRUE]
  <2>1. entry.life \in DOMAIN lives
    BY <1>2, EntrysLife
  <2>2. r \in Life(host.minted) /\ r.pc = lives[entry.life].pc /\ r.seed = lives[entry.life].seed
        /\ r.channel = lives[entry.life].channel
    BY <1>l, <2>1 DEF Life
  <2>3. Told(lives) = [lives EXCEPT ![entry.life] = r]
    BY <1>2 DEF Told
  <2> HIDE DEF r
  <2>4. /\ Told(lives) \in Seq(Life(host.minted)) /\ DOMAIN Told(lives) = DOMAIN lives /\ Len(Told(lives)) = Len(lives)
        /\ Told(lives)[entry.life] = r /\ \A k \in DOMAIN lives : k # entry.life => Told(lives)[k] = lives[k]
    BY <1>l, <2>1, <2>2, <2>3
  <2> QED
    BY <1>l, <2>2, <2>4
<1> QED
  BY <1>1, <1>2

\* One life learns what became of its snapshot.
Seeded(ls, l, seed) == [ls EXCEPT ![l].seed = seed]

LEMMA Seeding ==
  ASSUME NEW ls \in Seq(Life(host.minted)), NEW l \in DOMAIN ls, NEW seed \in {"sent", "dropped"}
  PROVE  /\ Seeded(ls, l, seed) \in Seq(Life(host.minted)) /\ DOMAIN Seeded(ls, l, seed) = DOMAIN ls
         /\ Len(Seeded(ls, l, seed)) = Len(ls)
         /\ \A k \in DOMAIN ls :
              /\ Seeded(ls, l, seed)[k].pc = ls[k].pc
              /\ Seeded(ls, l, seed)[k].stop = ls[k].stop
              /\ Seeded(ls, l, seed)[k].channel = ls[k].channel
<1> DEFINE r == [ls[l] EXCEPT !.seed = seed]
           new == [ls EXCEPT ![l] = r]
<1>1. DOMAIN ls = 1..Len(ls) /\ Len(ls) \in Nat /\ ls[l] \in Life(host.minted)
  OBVIOUS
<1>2. r \in Life(host.minted) /\ r.pc = ls[l].pc /\ r.stop = ls[l].stop /\ r.channel = ls[l].channel
  BY <1>1 DEF Life
<1>3. Seeded(ls, l, seed) = new
  BY DEF Seeded
<1>4. /\ new \in Seq(Life(host.minted)) /\ DOMAIN new = DOMAIN ls /\ Len(new) = Len(ls)
      /\ new[l] = r /\ \A k \in DOMAIN ls : k # l => new[k] = ls[k]
  <2> HIDE DEF r
  <2> QED
    BY <1>1, <1>2
<1> HIDE DEF new, r
<1> QED
  BY <1>2, <1>3, <1>4

\* The entry and its life, when the lives keep their places: what the types and
\* the parts about lives alone say is kept.
LEMMA LivesKeepPlaces ==
  ASSUME ChannelInv, lives' \in Seq(Life(host.minted)), DOMAIN lives' = DOMAIN lives, Len(lives') = Len(lives),
         \A k \in DOMAIN lives : lives'[k].pc = lives[k].pc,
         entry' \in Entry, entry'.kind # "none", entry.kind # "none", entry'.life = entry.life
  PROVE  OneLife' /\ EntryHasTheLife'
<1>t. ChannelTypeOK /\ EntryHasTheLife /\ OneLife
  BY DEF ChannelInv
<1>1. \A k \in DOMAIN lives' : Alive(k)' <=> Alive(k)
  BY DEF Alive
<1>2. OneLife'
  BY <1>t, <1>1 DEF OneLife
<1>3. lives' # <<>>
  <2>1. entry.life \in DOMAIN lives
    BY EntrysLife
  <2> QED
    BY <2>1
<1>4. EntryHasTheLife'
  BY <1>t, <1>1, <1>3 DEF EntryHasTheLife
<1> QED
  BY <1>2, <1>4

\* A fresh life, when all before are over.
LEMMA Connecting ==
  ASSUME ChannelInv, \A k \in DOMAIN lives : ~Alive(k), Connected, host' = host
  PROVE  /\ lives' \in Seq(Life(host.minted)) /\ entry' \in Entry /\ entry'.kind = "connecting" /\ ~entry'.reopen
         /\ lives'[entry'.life] = NewLife
         /\ OneLife' /\ EntryHasTheLife' /\ RouteFollowsTheEntry'
         /\ route' \in [life : Nat, ready : BOOLEAN]
<1>t. ChannelTypeOK
  BY DEF ChannelInv
<1>l. lives \in Seq(Life(host.minted)) /\ DOMAIN lives = 1..Len(lives) /\ Len(lives) \in Nat /\ host.minted \in Nat
  BY <1>t, ChannelTypes DEF ChannelTypeOK, HostFile
<1>1. NewLife \in Life(host.minted) /\ lives' = Append(lives, NewLife)
  BY <1>l DEF Life, NewLife, Connected
<1>2. /\ lives' \in Seq(Life(host.minted)) /\ Len(lives') = Len(lives) + 1 /\ DOMAIN lives' = 1..Len(lives) + 1
      /\ lives'[Len(lives) + 1] = NewLife /\ \A k \in DOMAIN lives : lives'[k] = lives[k]
  BY <1>l, <1>1
<1>3. entry' = [kind |-> "connecting", life |-> Len(lives) + 1, reopen |-> FALSE] /\ route' = [life |-> Len(lives) + 1, ready |-> FALSE]
  BY <1>2 DEF Connected
<1>4. entry' \in Entry /\ route' \in [life : Nat, ready : BOOLEAN]
  BY <1>3, <1>l DEF Entry
<1>5. \A k \in DOMAIN lives' : k # Len(lives) + 1 => ~Alive(k)'
  BY <1>l, <1>2 DEF Alive
<1>6. OneLife'
  BY <1>5 DEF OneLife
<1>7. lives' # <<>>
  BY <1>2, <1>l
<1>8. EntryHasTheLife'
  BY <1>2, <1>3, <1>5, <1>7 DEF EntryHasTheLife
<1>9. RouteFollowsTheEntry'
  BY <1>3 DEF RouteFollowsTheEntry
<1> QED
  BY <1>2, <1>3, <1>4, <1>6, <1>8, <1>9

\* Init.
LEMMA ChannelInitHolds ==
  ASSUME ChannelInit
  PROVE  ChannelInv
<1>1. /\ doc = 0 /\ synced = FALSE /\ modified = FALSE /\ gaveUp = 0
      /\ entry = [kind |-> "none", life |-> 0, reopen |-> FALSE] /\ posted = <<>> /\ lives = <<>>
      /\ route = NoRoute /\ save = NoSave
      /\ host = [alive |-> 0, minted |-> 0, rows |-> {}]
      /\ budget = [opens |-> 0, saves |-> 0, faults |-> 0, others |-> 0]
  BY DEF ChannelInit, NoEntry
<1>2. doc \in 0..MaxOpens /\ gaveUp \in 0..MaxOpens /\ budget \in Budgets
  BY <1>1, ChannelAssumption DEF Budgets
<1>3. entry \in Entry /\ entry.reopen = FALSE /\ route \in [life : Nat, ready : BOOLEAN] /\ host \in HostFile
  BY <1>1 DEF Entry, NoRoute, HostFile
<1>4. save \in Saving(host.minted)
  BY <1>1 DEF Saving, NoSave
<1>5. posted \in Seq(Command) /\ lives \in Seq(Life(host.minted)) /\ DOMAIN posted = {} /\ DOMAIN lives = {}
  BY <1>1
<1>6. ChannelTypeOK
  BY <1>1, <1>2, <1>3, <1>4, <1>5 DEF ChannelTypeOK, Budgets
<1>7. OneLife /\ OneAuthority /\ OpenIsRemembered /\ WordsInOrder /\ EntryKnowsItsLife
  BY <1>1, <1>5 DEF OneLife, OneAuthority, OpenIsRemembered, WordsInOrder, EntryKnowsItsLife
<1>8. RouteFollowsTheEntry /\ EntryHasTheLife
  BY <1>1, <1>5 DEF RouteFollowsTheEntry, EntryHasTheLife
<1> QED
  BY <1>6, <1>7, <1>8 DEF ChannelInv

LEMMA OpenDocumentKeeps ==
  ASSUME ChannelInv, OpenDocument
  PROVE  ChannelInv'
<1>t. /\ ChannelTypeOK /\ OneLife /\ OneAuthority /\ RouteFollowsTheEntry /\ EntryHasTheLife
      /\ WordsInOrder /\ EntryKnowsItsLife
  BY DEF ChannelInv
<1>1. /\ doc = 0 /\ synced' = FALSE /\ modified' = FALSE /\ posted' = Append(posted, Note("ensure", 0))
      /\ UNCHANGED <<entry, lives, route, save, host, gaveUp>>
  BY DEF OpenDocument
<1>2. budget' \in Budgets /\ doc' \in 0..MaxOpens /\ doc' # 0
  <2>1. budget \in Budgets /\ MaxOpens \in Nat
    BY <1>t, Faulted, ChannelAssumption
  <2>2. budget.opens + 1 \in 0..MaxOpens /\ budget.opens + 1 # 0
    BY <2>1 DEF OpenDocument, Budgets
  <2>3. \A n \in 0..MaxOpens : [budget EXCEPT !.opens = n] \in Budgets /\ [budget EXCEPT !.opens = n].opens = n
    BY <2>1 DEF Budgets
  <2>4. budget' = [budget EXCEPT !.opens = budget.opens + 1] /\ doc' = budget'.opens
    BY DEF OpenDocument
  <2> QED
    BY <2>2, <2>3, <2>4
<1>3. /\ posted' \in Seq(Command)
      /\ Len(posted) \in Nat /\ DOMAIN posted = 1..Len(posted) /\ DOMAIN posted' = 1..Len(posted) + 1
      /\ \A i \in DOMAIN posted : i \in DOMAIN posted' /\ posted'[i] = posted[i]
      /\ posted'[Len(posted) + 1].kind = "ensure"
      /\ \A i \in DOMAIN posted' : i \in DOMAIN posted \/ i = Len(posted) + 1
      /\ \A k \in Words : Said(k)' <=> Said(k)
  BY <1>t, <1>1, Posting, PostedTypes DEF Words, Note
<1>4. ChannelTypeOK'
  BY <1>1, <1>2, <1>3, <1>t DEF ChannelTypeOK, Budgets
<1>5. OneLife' /\ RouteFollowsTheEntry' /\ EntryHasTheLife'
  BY <1>1, <1>t DEF OneLife, RouteFollowsTheEntry, EntryHasTheLife, Alive
<1>6. entry.kind # "live"
  BY <1>1, <1>t DEF EntryKnowsItsLife
<1>7. OneAuthority' /\ OpenIsRemembered'
  BY <1>1, <1>3, <1>6 DEF OneAuthority, OpenIsRemembered
<1>8. WordsInOrder'
  BY <1>1, <1>3, <1>t DEF WordsInOrder
<1>9. EntryKnowsItsLife'
  BY <1>1, <1>3, <1>6, <1>t DEF EntryKnowsItsLife, Words
<1> QED
  BY <1>4, <1>5, <1>7, <1>8, <1>9 DEF ChannelInv

\* The entry drains: what it knows of its life needs no more than the places.
LEMMA Draining ==
  ASSUME ChannelInv, entry.kind # "none", entry' = Detached(entry), host' = host,
         lives' \in Seq(Life(host.minted)), DOMAIN lives' = DOMAIN lives, Len(lives') = Len(lives),
         \A k \in DOMAIN lives : lives'[k].pc = lives[k].pc /\ lives'[k].channel = lives[k].channel,
         Said("drained")' <=> Said("drained"),
         Said("adopt")' => Said("adopt"), Said("give-up")' => Said("give-up"),
         \/ ~Said("adopt")' /\ lives[entry.life].pc \in {"adopting", "over"}
         \/ lives'[entry.life].seed = lives[entry.life].seed
  PROVE  /\ entry' \in Entry /\ entry'.kind = "draining" /\ ~entry'.reopen /\ entry'.life = entry.life
         /\ OneLife' /\ EntryHasTheLife' /\ EntryKnowsItsLife'
<1>t. ChannelTypeOK /\ EntryKnowsItsLife
  BY DEF ChannelInv
<1>1. entry' \in Entry /\ entry'.kind = "draining" /\ ~entry'.reopen /\ entry'.life = entry.life
  BY <1>t DEF ChannelTypeOK, Entry, Detached
<1>2. OneLife' /\ EntryHasTheLife'
  BY <1>1, LivesKeepPlaces
<1>3. entry.life \in DOMAIN lives
  BY EntrysLife
<1>4. EntryKnowsItsLife'
  BY <1>1, <1>3, <1>t DEF EntryKnowsItsLife
<1> QED
  BY <1>1, <1>2, <1>4

LEMMA CloseDocumentKeeps ==
  ASSUME ChannelInv, CloseDocument
  PROVE  ChannelInv'
<1>t. ChannelTypeOK /\ OneLife /\ EntryHasTheLife /\ WordsInOrder /\ EntryKnowsItsLife
  BY DEF ChannelInv
<1>1. /\ doc' = 0 /\ synced' = FALSE /\ lives' = Told(lives) /\ entry' = Detached(entry) /\ route' = NoRoute
      /\ gaveUp' = 0 /\ UNCHANGED <<modified, posted, save, host, budget>>
  BY DEF CloseDocument
<1>2. /\ lives' \in Seq(Life(host.minted)) /\ DOMAIN lives' = DOMAIN lives /\ Len(lives') = Len(lives)
      /\ \A k \in DOMAIN lives : lives'[k].pc = lives[k].pc /\ lives'[k].seed = lives[k].seed
                                 /\ lives'[k].channel = lives[k].channel
  BY <1>1, Telling
<1>s. \A k : Said(k)' <=> Said(k)
  BY <1>1 DEF Said
<1>3. CASE entry.kind # "none"
  <2>1. /\ entry' \in Entry /\ entry'.kind = "draining" /\ ~entry'.reopen /\ entry'.life = entry.life
        /\ OneLife' /\ EntryHasTheLife' /\ EntryKnowsItsLife'
    <3>1. entry.life \in DOMAIN lives
      BY <1>3, EntrysLife
    <3> QED
      BY <1>1, <1>2, <1>3, <1>s, <3>1, Draining
  <2>2. WordsInOrder'
    BY <1>1, <2>1, <1>t DEF WordsInOrder
  <2>3. route' \in [life : Nat, ready : BOOLEAN] /\ 0 \in 0..MaxOpens
    BY <1>1, ChannelAssumption DEF NoRoute
  <2>4. ChannelTypeOK'
    BY <1>1, <1>2, <2>1, <2>3, <1>t DEF ChannelTypeOK
  <2>5. OneAuthority' /\ OpenIsRemembered' /\ RouteFollowsTheEntry'
    BY <1>1, <2>1 DEF OneAuthority, OpenIsRemembered, RouteFollowsTheEntry
  <2> QED
    BY <2>1, <2>2, <2>4, <2>5 DEF ChannelInv
<1>4. CASE entry.kind = "none"
  <2>1. lives' = lives /\ entry' = entry
    BY <1>1, <1>4 DEF Told, Detached
  <2>2. OneLife' /\ EntryHasTheLife' /\ EntryKnowsItsLife' /\ WordsInOrder'
    BY <2>1, <1>1, <1>4, <1>t DEF OneLife, EntryHasTheLife, EntryKnowsItsLife, WordsInOrder, Alive
  <2>3. route' \in [life : Nat, ready : BOOLEAN] /\ 0 \in 0..MaxOpens
    BY <1>1, ChannelAssumption DEF NoRoute
  <2>4. ChannelTypeOK'
    BY <1>1, <2>1, <2>3, <1>t DEF ChannelTypeOK
  <2>5. OneAuthority' /\ OpenIsRemembered' /\ RouteFollowsTheEntry'
    BY <1>1, <2>1, <1>4 DEF OneAuthority, OpenIsRemembered, RouteFollowsTheEntry
  <2> QED
    BY <2>2, <2>4, <2>5 DEF ChannelInv
<1> QED
  BY <1>3, <1>4

\* An ensure that is performed was there to remember the document; any other
\* command leaves the ensures that are posted.
LEMMA EnsuresStay ==
  ASSUME ChannelInv, posted # <<>>, posted' = Tail(posted), Head(posted).kind # "ensure", Said("ensure")
  PROVE  Said("ensure")'
<1>1. ChannelTypeOK
  BY DEF ChannelInv
<1> QED
  BY <1>1, Taking

LEMMA PerformEnsureKeeps ==
  ASSUME ChannelInv, PerformEnsure
  PROVE  ChannelInv'
<1>t. /\ ChannelTypeOK /\ OneLife /\ OneAuthority /\ RouteFollowsTheEntry /\ EntryHasTheLife /\ WordsInOrder
      /\ EntryKnowsItsLife
  BY DEF ChannelInv
<1>1. /\ posted # <<>> /\ Head(posted).kind = "ensure" /\ posted' = Tail(posted) /\ Ensured
      /\ UNCHANGED <<doc, synced, modified, save, host, budget, gaveUp>>
  BY DEF PerformEnsure, Due
<1>p. posted' \in Seq(Command)
  BY <1>t, <1>1, Taking
<1>2. CASE entry.kind = "none"
  <2>1. Connected
    BY <1>1, <1>2 DEF Ensured
  <2>2. \A k \in DOMAIN lives : ~Alive(k)
    BY <1>2, TheLifeIsTheEntrys
  <2>3. /\ lives' \in Seq(Life(host.minted)) /\ entry' \in Entry /\ entry'.kind = "connecting" /\ ~entry'.reopen
        /\ lives'[entry'.life] = NewLife
        /\ OneLife' /\ EntryHasTheLife' /\ RouteFollowsTheEntry' /\ route' \in [life : Nat, ready : BOOLEAN]
    BY <1>1, <2>1, <2>2, Connecting
  <2>4. \A i \in DOMAIN posted' : posted'[i].kind = "ensure"
    <3>1. \A i \in DOMAIN posted : posted[i].kind = "ensure"
      BY <1>2, <1>t DEF WordsInOrder
    <3> QED
      BY <3>1, <1>t, <1>1, Taking
  <2>5. WordsInOrder' /\ \A k \in Words : ~Said(k)'
    BY <2>4 DEF WordsInOrder, Said, Words
  <2>6. NewLife.pc = "opening" /\ ~NewLife.stop /\ NewLife.seed = "none"
    BY DEF NewLife
  <2>7. EntryKnowsItsLife'
    BY <2>3, <2>5, <2>6 DEF EntryKnowsItsLife, Words, Holding
  <2>8. OneAuthority' /\ OpenIsRemembered'
    BY <1>1, <1>2, <2>3, <1>t DEF OneAuthority, OpenIsRemembered
  <2>9. ChannelTypeOK'
    BY <1>1, <1>p, <2>3, <1>t DEF ChannelTypeOK
  <2> QED
    BY <2>3, <2>5, <2>7, <2>8, <2>9 DEF ChannelInv
<1>3. CASE entry.kind # "none"
  <2>1. lives' = lives /\ route' = route
    BY <1>1, <1>3 DEF Ensured
  <2>2. /\ entry' \in Entry /\ entry'.kind = entry.kind /\ entry'.life = entry.life
        /\ entry'.reopen => entry.kind = "draining"
        /\ entry.kind = "draining" => entry'.reopen
    <3>1. CASE entry.kind = "draining"
      BY <3>1, <1>1, <1>t DEF Ensured, ChannelTypeOK, Entry
    <3>2. CASE entry.kind \in {"connecting", "live"}
      BY <3>2, <1>1, <1>t DEF Ensured, ChannelTypeOK
    <3> QED
      BY <3>1, <3>2, <1>3, <1>t, ChannelTypes
  <2>3. WordsInOrder' /\ \A k \in Words : Said(k)' <=> Said(k)
    BY <1>1, <1>3, <2>2, WordTaken
  <2>4. OneLife' /\ EntryHasTheLife' /\ RouteFollowsTheEntry'
    BY <2>1, <2>2, <1>t DEF OneLife, EntryHasTheLife, RouteFollowsTheEntry, Alive
  <2>5. EntryKnowsItsLife'
    BY <1>1, <2>1, <2>2, <2>3, <1>t DEF EntryKnowsItsLife, Words
  <2>6. OneAuthority'
    BY <1>1, <2>2, <1>t DEF OneAuthority
  <2>7. OpenIsRemembered'
    BY <1>3, <2>2, <1>t, ChannelTypes DEF OpenIsRemembered
  <2>8. ChannelTypeOK'
    BY <1>1, <1>p, <2>1, <2>2, <1>t DEF ChannelTypeOK
  <2> QED
    BY <2>3, <2>4, <2>5, <2>6, <2>7, <2>8 DEF ChannelInv
<1> QED
  BY <1>2, <1>3

\* An offer is answered by the entry it comes to.
LEMMA PerformAdoptKeeps ==
  ASSUME ChannelInv, PerformAdopt
  PROVE  ChannelInv'
<1> DEFINE l == Head(posted).life
<1>t. /\ ChannelTypeOK /\ OneLife /\ OneAuthority /\ RouteFollowsTheEntry /\ OpenIsRemembered /\ EntryHasTheLife
      /\ WordsInOrder /\ EntryKnowsItsLife
  BY DEF ChannelInv
<1>1. /\ posted # <<>> /\ Head(posted).kind = "adopt" /\ posted' = Tail(posted)
      /\ UNCHANGED <<doc, modified, save, host, budget, gaveUp>>
  BY DEF PerformAdopt, Due
<1>p. posted' \in Seq(Command)
  BY <1>t, <1>1, Taking
<1>a. Said("adopt")
  BY <1>1, <1>t, Taking DEF Said
<1>2. l = entry.life /\ entry.kind \in {"connecting", "draining"} /\ l \in DOMAIN lives
      /\ lives[l].pc \in {"adopting", "over"}
  <2>1. entry.kind # "none" /\ l = entry.life
    <3>1. 1 \in DOMAIN posted /\ Head(posted) = posted[1]
      BY <1>t, <1>1, Taking
    <3> QED
      BY <1>1, <1>t, <3>1 DEF WordsInOrder
  <2>2. entry.kind # "live" /\ lives[entry.life].pc \in {"adopting", "over"}
    BY <2>1, <1>a, <1>t DEF EntryKnowsItsLife
  <2> QED
    BY <2>1, <2>2, <1>t, ChannelTypes, EntrysLife
<1>3. ASSUME entry'.life = entry.life, entry'.kind # "none"
      PROVE  /\ WordsInOrder' /\ ~Said("adopt")' /\ ~Said("give-up")'
             /\ Said("drained")' <=> Said("drained")
  BY <1>1, <1>3, WordTaken
<1>e. Said("ensure") => Said("ensure")'
  BY <1>1, EnsuresStay
<1>l. lives \in Seq(Life(host.minted))
  BY <1>t, ChannelTypes
<1>4. CASE /\ entry.kind = "connecting" /\ doc # 0
           /\ entry' = [entry EXCEPT !.kind = "live"] /\ route' = [route EXCEPT !.ready = route.life # 0]
           /\ synced' = TRUE /\ lives' = [lives EXCEPT ![l].seed = "sent"]
  <2>1. entry' \in Entry /\ entry'.kind = "live" /\ entry'.life = entry.life /\ ~entry'.reopen
    BY <1>4, <1>t DEF ChannelTypeOK, Entry
  <2>2. /\ lives' \in Seq(Life(host.minted)) /\ DOMAIN lives' = DOMAIN lives /\ Len(lives') = Len(lives)
        /\ \A k \in DOMAIN lives : lives'[k].pc = lives[k].pc /\ lives'[k].stop = lives[k].stop
                                   /\ lives'[k].channel = lives[k].channel
    <3>1. lives' = Seeded(lives, l, "sent")
      BY <1>4 DEF Seeded
    <3> QED
      BY <3>1, <1>2, <1>l, Seeding
  <2>3. OneLife' /\ EntryHasTheLife'
    BY <2>1, <2>2, <1>2, LivesKeepPlaces
  <2>4. route' = [life |-> entry.life, ready |-> TRUE] /\ entry.life \in Nat
    <3>1. route = [life |-> entry.life, ready |-> entry.kind = "live"]
      BY <1>4, <1>t DEF RouteFollowsTheEntry
    <3>2. entry.life # 0 /\ entry.life \in Nat
      BY <1>2, <1>t, ChannelTypes
    <3> QED
      BY <1>4, <3>1, <3>2
  <2>5. RouteFollowsTheEntry'
    BY <2>1, <2>4 DEF RouteFollowsTheEntry
  <2>6. OneAuthority' /\ OpenIsRemembered'
    BY <1>1, <1>4, <2>1 DEF OneAuthority, OpenIsRemembered
  <2>7. WordsInOrder' /\ ~Said("adopt")' /\ ~Said("give-up")' /\ (Said("drained")' <=> Said("drained"))
    BY <2>1, <1>3
  <2>8. EntryKnowsItsLife'
    BY <1>1, <1>2, <1>4, <2>1, <2>2, <2>7, <1>t DEF EntryKnowsItsLife, Holding
  <2>9. ChannelTypeOK'
    BY <1>1, <1>4, <1>p, <2>1, <2>2, <2>4, <1>t DEF ChannelTypeOK
  <2> QED
    BY <2>3, <2>5, <2>6, <2>7, <2>8, <2>9 DEF ChannelInv
<1>5. CASE /\ entry.kind = "connecting" /\ doc = 0
           /\ entry' = Detached(entry) /\ route' = NoRoute
           /\ lives' = [Told(lives) EXCEPT ![l].seed = "dropped"] /\ synced' = synced
  <2>1. /\ Told(lives) \in Seq(Life(host.minted)) /\ DOMAIN Told(lives) = DOMAIN lives /\ Len(Told(lives)) = Len(lives)
        /\ \A k \in DOMAIN lives : Told(lives)[k].pc = lives[k].pc /\ Told(lives)[k].channel = lives[k].channel
    BY Telling
  <2>2. /\ lives' \in Seq(Life(host.minted)) /\ DOMAIN lives' = DOMAIN lives /\ Len(lives') = Len(lives)
        /\ \A k \in DOMAIN lives : lives'[k].pc = lives[k].pc /\ lives'[k].channel = lives[k].channel
    <3> DEFINE told == Told(lives)
    <3>1. told \in Seq(Life(host.minted)) /\ l \in DOMAIN told /\ lives' = Seeded(told, l, "dropped")
      BY <1>5, <1>2, <2>1 DEF Seeded
    <3> HIDE DEF told
    <3>2. /\ lives' \in Seq(Life(host.minted)) /\ DOMAIN lives' = DOMAIN told /\ Len(lives') = Len(told)
          /\ \A k \in DOMAIN told : lives'[k].pc = told[k].pc /\ lives'[k].channel = told[k].channel
      BY <3>1, Seeding
    <3> QED
      BY <2>1, <3>2 DEF told
  <2>3. entry'.life = entry.life /\ entry'.kind = "draining"
    BY <1>5, <1>t DEF Detached, ChannelTypeOK, Entry
  <2>4. WordsInOrder' /\ ~Said("adopt")' /\ ~Said("give-up")' /\ (Said("drained")' <=> Said("drained"))
    BY <2>3, <1>3
  <2>5. /\ entry' \in Entry /\ ~entry'.reopen
        /\ OneLife' /\ EntryHasTheLife' /\ EntryKnowsItsLife'
    BY <1>1, <1>2, <1>5, <2>2, <2>4, Draining
  <2>6. OneAuthority' /\ OpenIsRemembered' /\ RouteFollowsTheEntry'
    BY <1>1, <1>5, <2>3, <1>t DEF OneAuthority, OpenIsRemembered, RouteFollowsTheEntry
  <2>7. route' \in [life : Nat, ready : BOOLEAN]
    BY <1>5 DEF NoRoute
  <2>8. ChannelTypeOK'
    BY <1>1, <1>5, <1>p, <2>2, <2>5, <2>7, <1>t DEF ChannelTypeOK
  <2> QED
    BY <2>4, <2>5, <2>6, <2>8 DEF ChannelInv
<1>6. CASE /\ entry.kind # "connecting" /\ lives' = [lives EXCEPT ![l].seed = "dropped"]
           /\ UNCHANGED <<entry, route, synced>>
  <2>1. /\ lives' \in Seq(Life(host.minted)) /\ DOMAIN lives' = DOMAIN lives /\ Len(lives') = Len(lives)
        /\ \A k \in DOMAIN lives : lives'[k].pc = lives[k].pc /\ lives'[k].stop = lives[k].stop
                                   /\ lives'[k].channel = lives[k].channel
    <3>1. lives' = Seeded(lives, l, "dropped")
      BY <1>6 DEF Seeded
    <3> QED
      BY <3>1, <1>2, <1>l, Seeding
  <2>2. entry' \in Entry /\ entry'.kind = "draining" /\ entry' = entry
    BY <1>2, <1>6, <1>t DEF ChannelTypeOK
  <2>3. OneLife' /\ EntryHasTheLife'
    BY <2>1, <2>2, <1>2, LivesKeepPlaces
  <2>4. WordsInOrder' /\ ~Said("adopt")' /\ ~Said("give-up")' /\ (Said("drained")' <=> Said("drained"))
    BY <2>2, <1>3
  <2>5. EntryKnowsItsLife'
    BY <1>2, <2>1, <2>2, <2>4, <1>t DEF EntryKnowsItsLife
  <2>6. OneAuthority' /\ RouteFollowsTheEntry'
    BY <1>1, <1>6, <1>t DEF OneAuthority, RouteFollowsTheEntry
  <2>7. OpenIsRemembered'
    BY <1>1, <1>6, <1>e, <1>t DEF OpenIsRemembered, Said
  <2>8. ChannelTypeOK'
    BY <1>1, <1>6, <1>p, <2>1, <2>2, <1>t DEF ChannelTypeOK
  <2> QED
    BY <2>3, <2>4, <2>5, <2>6, <2>7, <2>8 DEF ChannelInv
<1> QED
  BY <1>4, <1>5, <1>6 DEF PerformAdopt

LEMMA PerformGiveUpKeeps ==
  ASSUME ChannelInv, PerformGiveUp
  PROVE  ChannelInv'
<1>t. /\ ChannelTypeOK /\ OneLife /\ OneAuthority /\ RouteFollowsTheEntry /\ OpenIsRemembered /\ EntryHasTheLife
      /\ WordsInOrder /\ EntryKnowsItsLife
  BY DEF ChannelInv
<1>1. /\ posted # <<>> /\ Head(posted).kind = "give-up" /\ posted' = Tail(posted)
      /\ route' = NoRoute /\ synced' = FALSE
      /\ UNCHANGED <<doc, modified, save, host, budget>>
  BY DEF PerformGiveUp, Due
<1>p. posted' \in Seq(Command)
  BY <1>t, <1>1, Taking
<1>a. Said("give-up")
  BY <1>1, <1>t, Taking DEF Said
<1>2. entry.kind \in {"connecting", "draining"} /\ entry.life \in DOMAIN lives
  <2>1. entry.kind # "none"
    <3>1. 1 \in DOMAIN posted /\ Head(posted) = posted[1]
      BY <1>t, <1>1, Taking
    <3> QED
      BY <1>1, <1>t, <3>1 DEF WordsInOrder
  <2>2. entry.kind # "live"
    BY <2>1, <1>a, <1>t DEF EntryKnowsItsLife
  <2> QED
    BY <2>1, <2>2, <1>t, ChannelTypes, EntrysLife
<1>3. ASSUME entry'.life = entry.life, entry'.kind # "none"
      PROVE  /\ WordsInOrder' /\ ~Said("adopt")' /\ ~Said("give-up")'
             /\ Said("drained")' <=> Said("drained")
  BY <1>1, <1>3, WordTaken
<1>e. Said("ensure") => Said("ensure")'
  BY <1>1, EnsuresStay
<1>r. route' \in [life : Nat, ready : BOOLEAN]
  BY <1>1 DEF NoRoute
<1>4. CASE entry.kind = "connecting" /\ lives' = Told(lives) /\ entry' = Detached(entry) /\ gaveUp' = doc
  <2>1. /\ lives' \in Seq(Life(host.minted)) /\ DOMAIN lives' = DOMAIN lives /\ Len(lives') = Len(lives)
        /\ \A k \in DOMAIN lives : lives'[k].pc = lives[k].pc /\ lives'[k].seed = lives[k].seed
                                   /\ lives'[k].channel = lives[k].channel
    BY <1>4, Telling
  <2>2. entry'.life = entry.life /\ entry'.kind = "draining"
    BY <1>4, <1>t DEF Detached, ChannelTypeOK, Entry
  <2>3. WordsInOrder' /\ ~Said("adopt")' /\ ~Said("give-up")' /\ (Said("drained")' <=> Said("drained"))
    BY <2>2, <1>3
  <2>4. entry' \in Entry /\ ~entry'.reopen /\ OneLife' /\ EntryHasTheLife' /\ EntryKnowsItsLife'
    BY <1>1, <1>2, <1>4, <2>1, <2>3, Draining
  <2>5. OneAuthority' /\ OpenIsRemembered' /\ RouteFollowsTheEntry'
    BY <1>1, <1>4, <2>2 DEF OneAuthority, OpenIsRemembered, RouteFollowsTheEntry
  <2>6. ChannelTypeOK'
    BY <1>1, <1>4, <1>p, <1>r, <2>1, <2>4, <1>t DEF ChannelTypeOK
  <2> QED
    BY <2>3, <2>4, <2>5, <2>6 DEF ChannelInv
<1>5. CASE entry.kind # "connecting" /\ UNCHANGED <<lives, entry, gaveUp>>
  <2>1. entry.kind = "draining"
    BY <1>2, <1>5
  <2>2. WordsInOrder' /\ ~Said("adopt")' /\ ~Said("give-up")' /\ (Said("drained")' <=> Said("drained"))
    BY <2>1, <1>5, <1>3
  <2>3. OneLife' /\ EntryHasTheLife'
    BY <1>5, <1>t DEF OneLife, EntryHasTheLife, Alive
  <2>4. EntryKnowsItsLife'
    BY <1>5, <2>1, <2>2, <1>t DEF EntryKnowsItsLife
  <2>5. OneAuthority' /\ RouteFollowsTheEntry'
    BY <1>1, <1>5, <2>1 DEF OneAuthority, RouteFollowsTheEntry
  <2>6. OpenIsRemembered'
    BY <1>1, <1>5, <1>e, <1>t DEF OpenIsRemembered, Said
  <2>7. ChannelTypeOK'
    BY <1>1, <1>5, <1>p, <1>r, <1>t DEF ChannelTypeOK
  <2> QED
    BY <2>2, <2>3, <2>4, <2>5, <2>6, <2>7 DEF ChannelInv
<1> QED
  BY <1>4, <1>5 DEF PerformGiveUp

LEMMA PerformDrainedKeeps ==
  ASSUME ChannelInv, PerformDrained
  PROVE  ChannelInv'
<1>t. /\ ChannelTypeOK /\ OneLife /\ OneAuthority /\ RouteFollowsTheEntry /\ OpenIsRemembered /\ EntryHasTheLife
      /\ WordsInOrder /\ EntryKnowsItsLife
  BY DEF ChannelInv
<1>1. /\ posted # <<>> /\ Head(posted).kind = "drained" /\ posted' = Tail(posted)
      /\ UNCHANGED <<doc, modified, save, host, budget>>
  BY DEF PerformDrained, Due
<1>p. posted' \in Seq(Command)
  BY <1>t, <1>1, Taking
<1>a. Said("drained")
  BY <1>1, <1>t, Taking DEF Said
<1>2. WordsInOrder' /\ (\A k \in Words : ~Said(k)') /\ entry.kind # "none"
  BY <1>1, WordTaken DEF Words
<1>3. \A k \in DOMAIN lives : ~Alive(k)
  BY <1>a, TheLifeIsTheEntrys
<1>4. ~Said("adopt") /\ ~Said("give-up")
  BY <1>1, <1>2, <1>t, Taking DEF Words
<1>5. entry.kind \in {"live", "draining"}
  BY <1>2, <1>4, <1>a, <1>t, ChannelTypes DEF EntryKnowsItsLife
<1>e. Said("ensure") => Said("ensure")'
  BY <1>1, EnsuresStay
<1>6. CASE entry.kind = "draining" /\ entry.reopen /\ Connected /\ UNCHANGED <<synced, gaveUp>>
  <2>1. /\ lives' \in Seq(Life(host.minted)) /\ entry' \in Entry /\ entry'.kind = "connecting" /\ ~entry'.reopen
        /\ lives'[entry'.life] = NewLife
        /\ OneLife' /\ EntryHasTheLife' /\ RouteFollowsTheEntry' /\ route' \in [life : Nat, ready : BOOLEAN]
    BY <1>1, <1>3, <1>6, Connecting
  <2>2. NewLife.pc = "opening" /\ ~NewLife.stop /\ NewLife.seed = "none"
    BY DEF NewLife
  <2>3. EntryKnowsItsLife'
    BY <1>2, <2>1, <2>2 DEF EntryKnowsItsLife, Words, Holding
  <2>4. OneAuthority' /\ OpenIsRemembered'
    BY <1>1, <1>6, <2>1, <1>t DEF OneAuthority, OpenIsRemembered
  <2>5. ChannelTypeOK'
    BY <1>1, <1>6, <1>p, <2>1, <1>t DEF ChannelTypeOK
  <2> QED
    BY <1>2, <2>1, <2>3, <2>4, <2>5 DEF ChannelInv
<1>7. CASE /\ ~ (entry.kind = "draining" /\ entry.reopen)
           /\ entry' = NoEntry /\ route' = NoRoute
           /\ synced' = (synced /\ entry.kind # "live")
           /\ gaveUp' = IF entry.kind = "live" THEN doc ELSE gaveUp
           /\ lives' = lives
  <2>1. entry' \in Entry /\ entry'.kind = "none" /\ entry'.life = 0 /\ entry'.reopen = FALSE
    BY <1>7 DEF NoEntry, Entry
  <2>2. route' \in [life : Nat, ready : BOOLEAN]
    BY <1>7 DEF NoRoute
  <2>3. OneLife' /\ EntryHasTheLife' /\ EntryKnowsItsLife' /\ RouteFollowsTheEntry'
    BY <1>3, <1>7, <2>1 DEF OneLife, EntryHasTheLife, EntryKnowsItsLife, RouteFollowsTheEntry, Alive
  <2>4. ~synced' /\ synced' \in BOOLEAN
    BY <1>7, <1>t DEF OneAuthority
  <2>5. OneAuthority'
    BY <2>1, <2>4 DEF OneAuthority
  <2>6. OpenIsRemembered'
    <3>1. CASE entry.kind = "live"
      BY <3>1, <1>1, <1>7 DEF OpenIsRemembered
    <3>2. CASE entry.kind = "draining"
      BY <3>2, <1>1, <1>7, <1>e, <1>t DEF OpenIsRemembered, Said
    <3> QED
      BY <3>1, <3>2, <1>5
  <2>7. gaveUp' \in 0..MaxOpens
    BY <1>7, <1>t DEF ChannelTypeOK
  <2>8. ChannelTypeOK'
    BY <1>1, <1>7, <1>p, <2>1, <2>2, <2>4, <2>7, <1>t DEF ChannelTypeOK
  <2> QED
    BY <1>2, <2>3, <2>5, <2>6, <2>8 DEF ChannelInv
<1> QED
  BY <1>6, <1>7 DEF PerformDrained, Drained

-----------------------------------------------------------------------------

LEMMA ChannelStepKeeps ==
  ASSUME ChannelInv, ChannelNext
  PROVE  ChannelInv'
<1>1. CASE Perform
  BY <1>1, PerformEnsureKeeps, PerformAdoptKeeps, PerformGiveUpKeeps, PerformDrainedKeeps DEF Perform
<1>2. CASE \E l \in DOMAIN lives : LifeStep(l)
  BY <1>2, LifeStepKeeps
<1> QED
  BY <1>1, <1>2, OpenDocumentKeeps, CloseDocumentKeeps, TypeKeeps, PressSaveKeeps, SaveGoesKeeps, OthersKeep
  DEF ChannelNext

\* However often a document is opened and closed: one life at a time, and the
\* entry, the route, the document's flag and what is posted agree on which
\* (frontend/ahp-docsync/src/lib.rs, SyncClients and AhpDocSync).
THEOREM ChannelIsSafe == ChannelSpec => []ChannelInv
<1>1. ChannelInv /\ UNCHANGED channelVars => ChannelInv'
  <2> SUFFICES ASSUME ChannelInv, UNCHANGED channelVars PROVE ChannelInv'
    OBVIOUS
  <2>1. ChannelTypeOK'
    BY DEF ChannelInv, ChannelTypeOK, channelVars
  <2> QED
    BY <2>1, TableStays DEF channelVars
<1>2. ChannelInv /\ [ChannelNext]_channelVars => ChannelInv'
  BY <1>1, ChannelStepKeeps
<1> QED
  BY <1>2, ChannelInitHolds, PTL DEF ChannelSpec

-----------------------------------------------------------------------------
\* The rows of the host.

\* A step that leaves the lives where they are; a fresh one opens.
PlacesKept ==
  /\ \A k \in DOMAIN lives : k \in DOMAIN lives' /\ lives'[k].pc = lives[k].pc /\ lives'[k].channel = lives[k].channel
  /\ \A k \in DOMAIN lives' : k \in DOMAIN lives \/ lives'[k].pc = "opening"

LEMMA SeedingKeepsPlaces ==
  ASSUME ChannelInv, posted # <<>>, Head(posted).kind = "adopt",
         NEW ls \in Seq(Life(host.minted)), DOMAIN ls = DOMAIN lives,
         \A k \in DOMAIN lives : ls[k].pc = lives[k].pc /\ ls[k].channel = lives[k].channel,
         NEW seed \in {"sent", "dropped"}, lives' = Seeded(ls, Head(posted).life, seed)
  PROVE  PlacesKept
<1>1. ChannelTypeOK /\ WordsInOrder
  BY DEF ChannelInv
<1>2. \E i \in DOMAIN posted : Head(posted) = posted[i]
  <2>1. posted \in Seq(Command)
    BY <1>1, PostedTypes
  <2>2. 1 \in DOMAIN posted /\ Head(posted) = posted[1]
    BY <2>1
  <2> QED
    BY <2>2
<1>3. Head(posted).life = entry.life /\ entry.kind # "none"
  BY <1>1, <1>2 DEF WordsInOrder
<1>4. Head(posted).life \in DOMAIN ls
  BY <1>3, EntrysLife
<1>5. DOMAIN lives' = DOMAIN ls /\ \A k \in DOMAIN ls : lives'[k].pc = ls[k].pc /\ lives'[k].channel = ls[k].channel
  <2> DEFINE l == Head(posted).life
  <2>1. l \in DOMAIN ls /\ lives' = Seeded(ls, l, seed)
    BY <1>4
  <2> HIDE DEF l
  <2>2. /\ DOMAIN Seeded(ls, l, seed) = DOMAIN ls
        /\ \A k \in DOMAIN ls : /\ Seeded(ls, l, seed)[k].pc = ls[k].pc
                                /\ Seeded(ls, l, seed)[k].channel = ls[k].channel
    BY <2>1, Seeding
  <2> QED
    BY <2>1, <2>2
<1> QED
  BY <1>5 DEF PlacesKept

LEMMA TablePlaces ==
  ASSUME ChannelInv, OpenDocument \/ CloseDocument \/ Type \/ PressSave \/ Perform \/ SaveGoes
  PROVE  PlacesKept /\ host' = host
<1>t. ChannelTypeOK
  BY DEF ChannelInv
<1>l. lives \in Seq(Life(host.minted)) /\ DOMAIN lives = 1..Len(lives) /\ Len(lives) \in Nat
  BY <1>t, ChannelTypes
<1>1. host' = host
  BY DEF OpenDocument, CloseDocument, Type, PressSave, Perform, PerformEnsure, PerformAdopt, PerformGiveUp,
         PerformDrained, SaveGoes, AsksTheRoute, RouteIsReady, RouteIsDropped, FlushAnswered, FlushDropped,
         StoreAnswered, WriteAnswered, SaveStep, SaveEnds
<1>s. lives' = lives => PlacesKept
  BY DEF PlacesKept
<1>2. lives' = Told(lives) => PlacesKept
  BY Telling DEF PlacesKept
<1>3. Connected => PlacesKept
  <2> SUFFICES ASSUME Connected PROVE PlacesKept
    OBVIOUS
  <2>1. lives' = Append(lives, NewLife) /\ NewLife.pc = "opening"
    BY DEF Connected, NewLife
  <2>2. DOMAIN lives' = 1..Len(lives) + 1 /\ lives'[Len(lives) + 1] = NewLife
        /\ \A k \in 1..Len(lives) : lives'[k] = lives[k]
    BY <1>l, <2>1
  <2> QED
    BY <1>l, <2>1, <2>2 DEF PlacesKept
<1>4. CASE OpenDocument \/ Type \/ PressSave \/ SaveGoes
  BY <1>4, <1>s DEF OpenDocument, Type, PressSave, SaveGoes, AsksTheRoute, RouteIsReady, RouteIsDropped, FlushAnswered,
     FlushDropped, StoreAnswered, WriteAnswered, SaveStep, SaveEnds
<1>5. CASE CloseDocument
  BY <1>5, <1>2 DEF CloseDocument
<1>6. CASE PerformEnsure
  BY <1>6, <1>s, <1>3 DEF PerformEnsure, Ensured
<1>7. CASE PerformGiveUp
  BY <1>7, <1>s, <1>2 DEF PerformGiveUp
<1>8. CASE PerformDrained
  BY <1>8, <1>s, <1>3 DEF PerformDrained, Drained
<1>9. CASE PerformAdopt
  <2>1. posted # <<>> /\ Head(posted).kind = "adopt"
    BY <1>9 DEF PerformAdopt, Due
  <2>2. \E seed \in {"sent", "dropped"} :
          lives' = Seeded(lives, Head(posted).life, seed) \/ lives' = Seeded(Told(lives), Head(posted).life, seed)
    BY <1>9 DEF PerformAdopt, Seeded
  <2>3. lives \in Seq(Life(host.minted))
    BY <1>l
  <2>4. /\ Told(lives) \in Seq(Life(host.minted)) /\ DOMAIN Told(lives) = DOMAIN lives
        /\ \A k \in DOMAIN lives : Told(lives)[k].pc = lives[k].pc /\ Told(lives)[k].channel = lives[k].channel
    BY Telling
  <2>5. PICK seed \in {"sent", "dropped"} :
          lives' = Seeded(lives, Head(posted).life, seed) \/ lives' = Seeded(Told(lives), Head(posted).life, seed)
    BY <2>2
  <2>6. CASE lives' = Seeded(lives, Head(posted).life, seed)
    BY <1>1, <2>1, <2>3, <2>6, SeedingKeepsPlaces
  <2>7. CASE lives' = Seeded(Told(lives), Head(posted).life, seed)
    BY <1>1, <2>1, <2>4, <2>7, SeedingKeepsPlaces
  <2> QED
    BY <2>5, <2>6, <2>7
<1> QED
  BY <1>1, <1>4, <1>5, <1>6, <1>7, <1>8, <1>9 DEF Perform

LEMMA RowsStay ==
  ASSUME RowsHaveTheirLives, PlacesKept, host' = host
  PROVE  RowsHaveTheirLives'
<1>1. RowHasItsLife'
  BY DEF RowsHaveTheirLives, RowHasItsLife, PlacesKept
<1>2. LiveHoldsItsRow'
  BY DEF RowsHaveTheirLives, LiveHoldsItsRow, PlacesKept
<1> QED
  BY <1>1, <1>2 DEF RowsHaveTheirLives

\* Only one life is not over: a row is its row.
LEMMA RowsNow ==
  ASSUME ChannelInv, RowsHaveTheirLives, NEW l \in DOMAIN lives, Alive(l)
  PROVE  Me \in host.rows => lives[l].pc \in Holding /\ lives[l].channel = host.alive
<1>1. \A k \in DOMAIN lives : lives[k].pc \in Holding => k = l
  BY DEF ChannelInv, OneLife, Alive, Holding
<1> QED
  BY <1>1 DEF RowsHaveTheirLives, RowHasItsLife

LEMMA RowsMove ==
  ASSUME ChannelInv, NEW l \in DOMAIN lives, Alive(l), NEW r, lives' = [lives EXCEPT ![l] = r],
         Me \in host'.rows => r.pc \in Holding /\ r.channel = host'.alive,
         r.pc \in {"adopting", "running", "broken"} => Me \in host'.rows /\ host'.alive = r.channel
  PROVE  RowsHaveTheirLives'
<1>1. \A k \in DOMAIN lives : k # l => lives[k].pc = "over"
  BY DEF ChannelInv, OneLife, Alive
<1>2. DOMAIN lives' = DOMAIN lives /\ lives'[l] = r /\ \A k \in DOMAIN lives : k # l => lives'[k] = lives[k]
  BY DEF ChannelInv, ChannelTypeOK
<1>3. RowHasItsLife'
  BY <1>2 DEF RowHasItsLife
<1>4. LiveHoldsItsRow'
  BY <1>1, <1>2 DEF LiveHoldsItsRow
<1> QED
  BY <1>3, <1>4 DEF RowsHaveTheirLives

\* A life that goes takes its row with it.
LEMMA RowsGiven ==
  ASSUME ChannelInv, RowsHaveTheirLives, NEW l \in DOMAIN lives, Alive(l), host' = Unrowed(host, Me, lives[l].channel),
         NEW r, lives' = [lives EXCEPT ![l] = r], r.pc \notin Holding
  PROVE  RowsHaveTheirLives'
<1>1. HostOK(host)
  BY HostStays DEF ChannelInv
<1>2. Me \notin host'.rows
  BY <1>1, HostUnrows, RowsNow
<1> QED
  BY <1>2, RowsMove DEF Holding

LEMMA LifeStepKeepsRows ==
  ASSUME ChannelInv, RowsHaveTheirLives, NEW l \in DOMAIN lives, LifeStep(l)
  PROVE  RowsHaveTheirLives'
<1>t. ChannelTypeOK
  BY DEF ChannelInv
<1>l. lives[l] \in Life(host.minted)
  BY <1>t, ChannelTypes
<1>h. HostOK(host)
  BY <1>t, HostStays
<1>o. Over.pc = "over" /\ Over.pc \notin Holding
  BY DEF Over, Holding
<1>p. \A pc \in Holding \cup {"parting"} :
        [lives[l] EXCEPT !.pc = pc].pc = pc /\ [lives[l] EXCEPT !.pc = pc].channel = lives[l].channel
  BY <1>l DEF Life
<1>1. ASSUME Parted(l), Alive(l)
      PROVE  RowsHaveTheirLives'
  BY <1>1, <1>o, RowsGiven DEF Parted
<1>2. CASE OpenStopped(l)
  <2>1. Alive(l) /\ Me \notin host.rows
    BY <1>2, RowsNow DEF OpenStopped, Alive, Holding
  <2>2. host'.rows = host.rows
    BY <1>2, <1>h, HostOpens DEF OpenStopped
  <2> QED
    BY <1>2, <1>o, <2>1, <2>2, RowsMove DEF OpenStopped, Holding
<1>3. CASE OpenAnswered(l)
  <2> DEFINE r == [lives[l] EXCEPT !.pc = "subscribing", !.channel = host'.alive]
  <2>1. Alive(l) /\ Me \notin host.rows /\ lives' = [lives EXCEPT ![l] = r]
    BY <1>3, RowsNow DEF OpenAnswered, Alive, Holding
  <2>2. host'.rows = host.rows
    BY <1>3, <1>h, HostOpens DEF OpenAnswered
  <2>3. r.pc = "subscribing"
    BY <1>l DEF Life
  <2> HIDE DEF r
  <2> QED
    BY <2>1, <2>2, <2>3, RowsMove
<1>4. CASE OpenFails(l)
  <2> DEFINE r == [lives[l] EXCEPT !.pc = "parting"]
  <2>1. Alive(l) /\ Me \notin host.rows /\ lives' = [lives EXCEPT ![l] = r] /\ host' = host
    BY <1>4, RowsNow DEF OpenFails, Alive, Holding
  <2>2. r.pc = "parting"
    BY <1>p
  <2> HIDE DEF r
  <2> QED
    BY <2>1, <2>2, RowsMove
<1>5. CASE SubscribeAnswered(l)
  <2> DEFINE r == [lives[l] EXCEPT !.pc = "adopting"]
  <2>1. Alive(l) /\ lives[l].pc = "subscribing" /\ host.alive = lives[l].channel
    BY <1>5 DEF SubscribeAnswered, Alive
  <2>2. CASE host' = Rowed(host, Me) /\ lives' = [lives EXCEPT ![l] = r]
    <3>1. host.alive # 0
      BY <2>1, EntryKnows DEF Holding
    <3>2. host'.alive = host.alive /\ Me \in host'.rows
      BY <1>h, <2>2, <3>1, HostRows
    <3>3. r.pc = "adopting" /\ r.channel = lives[l].channel
      BY <1>p DEF Holding
    <3> HIDE DEF r
    <3> QED
      BY <2>1, <2>2, <3>2, <3>3, RowsMove DEF Holding
  <2> QED
    BY <1>1, <1>5, <2>1, <2>2 DEF SubscribeAnswered
<1>6. CASE SubscribeFails(l)
  <2> DEFINE r == [lives[l] EXCEPT !.pc = "parting"]
  <2>1. Alive(l) /\ host' = Unrowed(host, Me, lives[l].channel) /\ lives' = [lives EXCEPT ![l] = r]
    BY <1>6 DEF SubscribeFails, Alive
  <2>2. r.pc = "parting" /\ r.pc \notin Holding
    BY <1>p DEF Holding
  <2> HIDE DEF r
  <2> QED
    BY <2>1, <2>2, RowsGiven
<1>7. CASE LastWord(l)
  <2>1. Alive(l) /\ Me \notin host.rows /\ lives' = [lives EXCEPT ![l] = Over] /\ host' = host
    BY <1>7, RowsNow DEF LastWord, Alive, Holding
  <2> QED
    BY <1>o, <2>1, RowsMove
<1>8. CASE Adopted(l) \/ LoopBreaks(l)
  <2>1. PICK pc \in {"running", "broken"} : lives' = [lives EXCEPT ![l] = [lives[l] EXCEPT !.pc = pc]]
    BY <1>8 DEF Adopted, LoopBreaks
  <2>2. Alive(l) /\ lives[l].pc \in {"adopting", "running", "broken"} /\ host' = host
    BY <1>8 DEF Adopted, LoopBreaks, Alive
  <2>3. Me \in host.rows /\ host.alive = lives[l].channel
    BY <2>2 DEF RowsHaveTheirLives, LiveHoldsItsRow
  <2> DEFINE r == [lives[l] EXCEPT !.pc = pc]
  <2>4. r.pc = pc /\ r.channel = lives[l].channel
    BY <1>p DEF Holding
  <2> HIDE DEF r
  <2> QED
    BY <2>1, <2>2, <2>3, <2>4, RowsMove DEF Holding, r
<1>9. CASE Stopped(l) \/ HearsOfTheBreak(l)
  BY <1>1, <1>9 DEF Stopped, HearsOfTheBreak, Alive
<1> QED
  BY <1>2, <1>3, <1>4, <1>5, <1>6, <1>7, <1>8, <1>9 DEF LifeStep

LEMMA OthersKeepRows ==
  ASSUME ChannelInv, RowsHaveTheirLives, OtherComes \/ OtherLeaves
  PROVE  RowsHaveTheirLives'
<1>h. HostOK(host)
  BY HostStays DEF ChannelInv
<1>m. Me # Other
  BY DEF Me, Other
<1>1. lives' = lives
  BY DEF OtherComes, OtherLeaves
<1>2. (Me \in host'.rows <=> Me \in host.rows) /\ (Me \in host.rows => host'.alive = host.alive)
  <2>1. CASE OtherComes
    <3>1. /\ HostOK(Opened(host)) /\ Opened(host).alive # 0 /\ Opened(host).rows = host.rows
          /\ host.alive # 0 => Opened(host) = host
      BY <1>h, HostOpens
    <3>2. host'.rows = host.rows \cup {Other} /\ host'.alive = Opened(host).alive
      BY <2>1, <3>1, HostRows DEF OtherComes
    <3>3. Me \in host.rows => host.alive # 0
      BY <1>h DEF HostOK
    <3> QED
      BY <1>m, <3>1, <3>2, <3>3
  <2>2. CASE OtherLeaves
    <3>1. host' = Unrowed(host, Other, host.alive)
      BY <2>2 DEF OtherLeaves
    <3> QED
      BY <1>h, <1>m, <3>1, HostUnrows
  <2> QED
    BY <2>1, <2>2
<1>3. RowHasItsLife'
  BY <1>1, <1>2 DEF RowsHaveTheirLives, RowHasItsLife
<1>4. LiveHoldsItsRow'
  BY <1>1, <1>2 DEF RowsHaveTheirLives, LiveHoldsItsRow
<1> QED
  BY <1>3, <1>4 DEF RowsHaveTheirLives

\* The host has a row of this client exactly for a life that holds it: no row
\* outlives its life, and no life's end takes away another's row (lib.rs 469-472).
THEOREM RowsAreHeld == ChannelSpec => []RowsHaveTheirLives
<1>1. ChannelInit => RowsHaveTheirLives
  <2> SUFFICES ASSUME ChannelInit PROVE RowsHaveTheirLives
    OBVIOUS
  <2>1. host.rows = {} /\ DOMAIN lives = {}
    BY DEF ChannelInit
  <2> QED
    BY <2>1 DEF RowsHaveTheirLives, RowHasItsLife, LiveHoldsItsRow
<1>2. ChannelInv /\ RowsHaveTheirLives /\ [ChannelNext]_channelVars => RowsHaveTheirLives'
  <2> SUFFICES ASSUME ChannelInv, RowsHaveTheirLives, [ChannelNext]_channelVars PROVE RowsHaveTheirLives'
    OBVIOUS
  <2>1. CASE UNCHANGED channelVars
    BY <2>1 DEF channelVars, RowsHaveTheirLives, RowHasItsLife, LiveHoldsItsRow
  <2>2. CASE ChannelNext
    BY <2>2, TablePlaces, RowsStay, LifeStepKeepsRows, OthersKeepRows DEF ChannelNext
  <2> QED
    BY <2>1, <2>2
<1> QED
  BY <1>1, <1>2, ChannelIsSafe, PTL DEF ChannelSpec

=============================================================================
