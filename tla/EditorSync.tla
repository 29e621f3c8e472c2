----------------------------- MODULE EditorSync -----------------------------
(***************************************************************************)
(* What stands between the reader and the loop of DocSync: the editor's    *)
(* document, the seam that captures each edit, and the offers by which the *)
(* loop brings the editor what others did (rebase/driver.rs, ahp-docsync,  *)
(* documents/sync.rs).  Every action of the loop here is the action of     *)
(* DocSync together with what driver::run does around it.                  *)
(*                                                                         *)
(* The editor never waits: it edits its own text at once and the loop      *)
(* hears of it later, edits made while the channel was being reached among *)
(* them.  An offer is a whole state, taken only if it holds every edit the *)
(* seam has sent.                                                          *)
(*                                                                         *)
(* The select of the loop is biased, but an edit may arrive between two of *)
(* its polls, so no action here is made to wait for an empty queue.  The   *)
(* channels of 64 and 8 are drained by tasks that never wait and are taken *)
(* as unbounded.                                                           *)
(***************************************************************************)
EXTENDS DocSync

CONSTANTS
  MaxEarly,   \* bound: edits made while the channel is being reached
  MaxSaves    \* bound: saves asked for by one client

ASSUME SavesAssumption == MaxEarly \in 0..MaxLocal /\ MaxSaves \in Nat

\* What collapses is a deletion whose text is gone already (SyncEdit::apply), and
\* of a deletion within a deletion within a third the third leaves nothing.
ASSUME CollapseAssumption ==
  \A x, y, z \in Uid : <<x, y>> \in Shadows /\ <<y, z>> \in Shadows => <<x, z>> \in Shadows

VARIABLES
  editor,       \* editor[c]: the text shown, and its edit log
  taken,        \* taken[c]: entries of that log that are landed offers
  queue,        \* queue[c]: what the seam has sent and the loop has not heard
  seenLocal,    \* seenLocal[c]: edits the loop has heard
  dirty,        \* dirty[c]: is an offer owed?
  outstanding,  \* outstanding[c]: the offer not known to be taken, if any
  offers,       \* offers[c]: offers on their way to the editor
  flushes,      \* flushes[c]: saves that wait for the log to settle
  landed,       \* landed[c]: saves that went through, by the edits they cover
  saves,        \* saves[c]: saves asked for
  snap,         \* snap[c]: actions in the snapshot the client adopted
  early,        \* early[c]: edits made before it did
  carries       \* carries[c][n]: times c's n-th edit was carried to new ground

seam       == <<editor, taken, offers>>
driver     == <<seenLocal, dirty, outstanding, flushes, landed>>
editorVars == <<vars, seam, driver, queue, saves, snap, early, carries>>

\* An entry of an edit log is known by its identity, which is fresh whenever
\* the edit had to be transformed.
Identity == Uid \X Nat
State    == [text : Seq(Uid), log : Seq(Identity)]
Message  == [kind : {"edit"}, id : Uid, base : Seq(Identity)]
              \cup [kind : {"took"}, seen : Nat]
              \cup [kind : {"flush"}, edits : Nat]
Offer    == [seen : Nat, state : State]

Edits(messages) == {i \in DOMAIN messages : messages[i].kind = "edit"}
Sent(c)         == Len(editor[c].log) - taken[c]
Typed(c)        == IF c \in subscribers THEN minted[c] + Cardinality(Edits(queue[c]))
                                        ELSE Len(editor[c].log)

EditorTypeOK ==
  /\ TypeOK
  /\ editor \in [Client -> State]
  /\ taken \in [Client -> Nat]
  /\ queue \in [Client -> Seq(Message)]
  /\ seenLocal \in [Client -> 0..MaxLocal]
  /\ dirty \in [Client -> BOOLEAN]
  /\ outstanding \in [Client -> SUBSET (0..MaxLocal)]
  /\ \A c \in Client : Cardinality(outstanding[c]) <= 1
  /\ offers \in [Client -> Seq(Offer)]
  /\ flushes \in [Client -> SUBSET (0..MaxLocal)] /\ landed \in [Client -> SUBSET (0..MaxLocal)]
  /\ saves \in [Client -> 0..MaxSaves]
  /\ snap \in [Client -> Nat]
  /\ early \in [Client -> 0..MaxEarly]
  /\ carries \in [Client -> [1..MaxLocal -> Nat]]

EditorInit ==
  /\ Init
  /\ editor = [c \in Client |-> [text |-> <<>>, log |-> <<>>]]
  /\ taken = [c \in Client |-> 0]
  /\ queue = [c \in Client |-> <<>>]
  /\ seenLocal = [c \in Client |-> 0]
  /\ dirty = [c \in Client |-> FALSE]
  /\ outstanding = [c \in Client |-> {}]
  /\ offers = [c \in Client |-> <<>>]
  /\ flushes = [c \in Client |-> {}]
  /\ landed = [c \in Client |-> {}]
  /\ saves = [c \in Client |-> 0]
  /\ snap = [c \in Client |-> 0]
  /\ early = [c \in Client |-> 0]
  /\ carries = [c \in Client |-> [n \in 1..MaxLocal |-> 0]]

-----------------------------------------------------------------------------
\* The editor's side.

\* What the channel had on the way in is one entry of the history.
Adopted(n) == IF n = 0 THEN <<>> ELSE << <<Origin, 0>> >>

\* The seam goes live.  The edits made meanwhile become the first the loop
\* hears, each with the log it was made on.  If the channel's text is another
\* than the document was opened with, the document is taken there too: the
\* slice undoes what was typed meanwhile and does what the channel had.
AdoptSnapshot(c) ==
  /\ SubscribeDocument(c)
  /\ LET meanwhile == editor[c].log
         adopted   == Adopted(Len(text))
     IN  /\ queue' = [queue EXCEPT ![c] =
                        [i \in DOMAIN meanwhile |->
                           [kind |-> "edit", id |-> meanwhile[i][1],
                            base |-> SubSeq(meanwhile, 1, i - 1)]]]
         /\ editor' = IF adopted = <<>>
                      THEN editor
                      ELSE [editor EXCEPT ![c] = [text |-> text, log |-> meanwhile \o adopted]]
         /\ taken' = [taken EXCEPT ![c] = Len(adopted)]
         /\ early' = [early EXCEPT ![c] = Len(meanwhile)]
  /\ snap' = [snap EXCEPT ![c] = Len(text)]
  /\ UNCHANGED <<driver, offers, saves, carries>>

\* The reader types: the editor's log records the edit, and once it is live the
\* seam sends it, with the log it was made on.
Changed(c) ==
  LET id == <<c, Typed(c) + 1>>
  IN  /\ Typed(c) < IF c \in subscribers THEN MaxLocal ELSE MaxEarly
      /\ ~Collapses(id, editor[c].text)
      /\ editor' = [editor EXCEPT ![c] = [text |-> Append(@.text, id),
                                          log  |-> Append(@.log, <<id, 0>>)]]
      /\ queue' = IF c \in subscribers
                  THEN [queue EXCEPT ![c] =
                          Append(@, [kind |-> "edit", id |-> id, base |-> editor[c].log])]
                  ELSE queue
      /\ UNCHANGED <<vars, taken, offers, driver, saves, snap, early, carries>>

\* A save sends its marker down the same queue.
StoreHandle(c) ==
  /\ c \in subscribers
  /\ saves[c] < MaxSaves
  /\ saves' = [saves EXCEPT ![c] = @ + 1]
  /\ queue' = [queue EXCEPT ![c] = Append(@, [kind |-> "flush", edits |-> Typed(c)])]
  /\ UNCHANGED <<vars, seam, driver, snap, early, carries>>

\* Mutant of Fits: an offer is taken whatever it has seen.
FitsAnything(c, offer) == TRUE

Fits(c, offer) == offer.seen = Sent(c)

\* Mutant of Land: a landed offer is counted as an edit of the reader's.
LandUncounted(c, state) ==
  IF state.text = editor[c].text
  THEN UNCHANGED <<editor, taken>>
  ELSE /\ editor' = [editor EXCEPT ![c] = [text |-> state.text,
                                           log  |-> Append(@.log, Last(state.log))]]
       /\ UNCHANGED taken

\* The slice from the editor's log to the offer's, through the edit door,
\* under the identity of the offer's head.
Land(c, state) ==
  IF state.text = editor[c].text
  THEN UNCHANGED <<editor, taken>>
  ELSE /\ editor' = [editor EXCEPT ![c] = [text |-> state.text,
                                           log  |-> Append(@.log, Last(state.log))]]
       /\ taken' = [taken EXCEPT ![c] = @ + 1]

\* Mutant of ApplyOffer: the latest offer is taken, an older one stays.
ApplyOfferLatest(c) ==
  /\ offers[c] # <<>>
  /\ offers' = [offers EXCEPT ![c] = Front(@)]
  /\ LET offer == Last(offers[c])
     IN  IF Fits(c, offer)
         THEN /\ queue' = [queue EXCEPT ![c] = Append(@, [kind |-> "took", seen |-> offer.seen])]
              /\ Land(c, offer.state)
         ELSE UNCHANGED <<editor, taken, queue>>
  /\ UNCHANGED <<vars, driver, saves, snap, early, carries>>

ApplyOffer(c) ==
  /\ offers[c] # <<>>
  /\ offers' = [offers EXCEPT ![c] = Tail(@)]
  /\ LET offer == Head(offers[c])
     IN  IF Fits(c, offer)
         THEN /\ queue' = [queue EXCEPT ![c] = Append(@, [kind |-> "took", seen |-> offer.seen])]
              /\ Land(c, offer.state)
         ELSE UNCHANGED <<editor, taken, queue>>
  /\ UNCHANGED <<vars, driver, saves, snap, early, carries>>

-----------------------------------------------------------------------------
\* The loop's side.

\* The history of a text the loop holds.
History(c, state, carried) ==
  Adopted(snap[c]) \o
  [i \in 1..Len(state) - snap[c] |->
     LET id == state[snap[c] + i]
     IN  <<id, IF Author(id) = c THEN carried[c][id[2]] ELSE 0>>]

Shows(c) == History(c, Display(log[c]), carries)

\* The identity of the last entry, if there is one.
HeadOf(entries) == {entries[i] : i \in DOMAIN entries \cap {Len(entries)}}

Owed(c, owed) == owed /\ ~IsRebasing(log'[c]) /\ queue'[c] = <<>>

\* The tail of every turn of the loop: the offer that is owed, and the
\* flushes whose edits are all committed.
Turn(c, owed, known, waiting) ==
  /\ IF Owed(c, owed)
     THEN /\ offers' = [offers EXCEPT ![c] =
                          Append(@, [seen  |-> seenLocal'[c],
                                     state |-> [text |-> Display(log'[c]),
                                                log  |-> History(c, Display(log'[c]), carries')]])]
          /\ dirty' = [dirty EXCEPT ![c] = FALSE]
          /\ outstanding' = [outstanding EXCEPT ![c] = {seenLocal'[c]}]
     ELSE /\ UNCHANGED offers
          /\ dirty' = [dirty EXCEPT ![c] = owed]
          /\ outstanding' = [outstanding EXCEPT ![c] = known]
  /\ IF IsSettled(log'[c])
     THEN /\ landed' = [landed EXCEPT ![c] = @ \cup waiting]
          /\ flushes' = [flushes EXCEPT ![c] = {}]
     ELSE /\ flushes' = [flushes EXCEPT ![c] = waiting]
          /\ UNCHANGED landed
  /\ UNCHANGED <<editor, taken, saves, snap, early>>

\* An edit that is pushed (and so dispatched) on other ground than it was made
\* on gets a new identity.
Carry(c, id, moved) ==
  IF moved /\ Len(wire'[c]) > Len(wire[c])
  THEN carries' = [carries EXCEPT ![c][id[2]] = @ + 1]
  ELSE UNCHANGED carries

\* Mutant of Overtaken: the keystroke that overtakes an offer does not bring
\* it back.
OvertakenForgets(c) == dirty[c]

\* An offer the editor may have dropped for this edit is owed again.
Overtaken(c) == dirty[c] \/ outstanding[c] # {}

HearEdit(c) ==
  /\ queue[c] # <<>> /\ Head(queue[c]).kind = "edit"
  /\ queue' = [queue EXCEPT ![c] = Tail(@)]
  /\ seenLocal' = [seenLocal EXCEPT ![c] = @ + 1]
  /\ LocalEdit(c)
  /\ LET edit == Head(queue[c])
     IN  Carry(c, edit.id, HeadOf(edit.base) # HeadOf(Shows(c)))
  /\ Turn(c, Overtaken(c), {}, flushes[c])

HearTook(c) ==
  /\ queue[c] # <<>> /\ Head(queue[c]).kind = "took"
  /\ queue' = [queue EXCEPT ![c] = Tail(@)]
  /\ UNCHANGED <<vars, seenLocal, carries>>
  /\ Turn(c, dirty[c], outstanding[c] \ {Head(queue[c]).seen}, flushes[c])

HearFlush(c) ==
  /\ queue[c] # <<>> /\ Head(queue[c]).kind = "flush"
  /\ queue' = [queue EXCEPT ![c] = Tail(@)]
  /\ UNCHANGED <<vars, seenLocal, carries>>
  /\ Turn(c, dirty[c], outstanding[c], flushes[c] \cup {Head(queue[c]).edits})

\* Our own echo is no news to the editor, anything else is.
HearAction(c) ==
  /\ HearApplied(c)
  /\ UNCHANGED <<queue, seenLocal, carries>>
  /\ Turn(c, dirty[c] \/ ~IsAck(log[c], Head(feed[c]).id), outstanding[c], flushes[c])

\* What crosses is always on new ground: the action that started the rebase is
\* in the way, and the editor cannot have been offered it yet.
StepLoop(c) ==
  /\ RebaseStep(c)
  /\ UNCHANGED <<queue, seenLocal>>
  /\ Carry(c, Last(wire'[c]).id, TRUE)
  /\ Turn(c, dirty[c], outstanding[c], flushes[c])

-----------------------------------------------------------------------------
\* The host and the wire, which know nothing of all this.
Elsewhere(step) == step /\ UNCHANGED <<seam, driver, queue, saves, snap, early, carries>>

EditorNext ==
  \/ Elsewhere(ReloadMirror)
  \/ \E c \in Client :
       \/ Elsewhere(DocumentDispatch(c))
       \/ Elsewhere(ConnectionDies(c))
       \/ AdoptSnapshot(c)
       \/ Changed(c)
       \/ StoreHandle(c)
       \/ ApplyOffer(c)
       \/ HearEdit(c)
       \/ HearTook(c)
       \/ HearFlush(c)
       \/ HearAction(c)
       \/ StepLoop(c)

\* The host serves what it reads, the loop is polled, and the main thread
\* performs what is posted to it.  Nobody has to type, save or reload.
EditorFairness ==
  \A c \in Client : /\ WF_editorVars(Elsewhere(DocumentDispatch(c)))
                    /\ WF_editorVars(ApplyOffer(c))
                    /\ WF_editorVars(HearEdit(c) \/ HearTook(c) \/ HearFlush(c))
                    /\ WF_editorVars(HearAction(c))
                    /\ WF_editorVars(StepLoop(c))

EditorSpec     == EditorInit /\ [][EditorNext]_editorVars
FairEditorSpec == EditorSpec /\ EditorFairness

-----------------------------------------------------------------------------
\* Properties.

\* The number an offer is matched against is derived from the editor's log and
\* never counted on the way out; it is the number of edits the seam has sent,
\* heard by the loop or still in the queue (docsync/rules.rs, sent).
SeamCountsWhatItSent ==
  \A c \in subscribers : Sent(c) = seenLocal[c] + Cardinality(Edits(queue[c]))

\* Landing an offer takes nothing from the reader: every edit typed is in the
\* text shown, or an action is shown that leaves nothing of it.  An offer is
\* a state of the loop's past, and the reader types on (rules::offer_landing).
Kept(id, shown) == id \in Range(shown) \/ Collapses(id, shown)

EditorKeepsTyping ==
  \A c \in subscribers : \A n \in early[c] + 1..Typed(c) :
    Kept(<<c, n>>, editor[c].text)

\* What others did arrives in the order of the host and is never taken back:
\* no offer older than what is shown lands.
Foreign(c, state) == SelectSeq(state, LAMBDA id : Author(id) # c)

EditorNeverGoesBack ==
  [][\A c \in subscribers :
       /\ IsPrefix(Foreign(c, editor[c].text), Foreign(c, editor'[c].text))
       /\ IsPrefix(Foreign(c, editor'[c].text), Foreign(c, text'))]_editorVars

\* A save goes through only when the host has every edit that was made before
\* it (driver::Local::Flush).
SavesWhatWasTyped ==
  \A c \in Client : \A edits \in landed[c] : \A n \in 1..edits :
    Kept(<<c, n>>, text)

\* No save waits for ever, unless a connection dies under the edits it covers.
SavesLand ==
  \A c \in Client : (saves[c] > 0) ~> (deaths > 0 \/ (landed[c] # {} /\ flushes[c] = {}))

\* Nothing is under way to or from the editor of c.
Quiet(c) == /\ queue[c] = <<>> /\ offers[c] = <<>> /\ feed[c] = <<>> /\ wire[c] = <<>>
            /\ ~IsRebasing(log[c])

\* When nothing is under way any more, the editor shows what the loop shows: an
\* offer that lost to a keystroke was made again (rebase.md 3 and 6).
EditorCatchesUp ==
  \A c \in subscribers : Quiet(c) => editor[c].text = Display(log[c])

\* What was typed while the channel was being reached is on the screen again
\* once everything has come to rest (rebase.md 6, adopt: the loop's first offer
\* brings the document to the merged state).
EarlyTypingComesBack ==
  \A c \in subscribers : Quiet(c) =>
    \A n \in 1..early[c] : Kept(<<c, n>>, editor[c].text)

\* In the end an editor shows the text of the host, if nothing was typed before
\* the adoption and no connection died; of more than one foreign action see
\* EditorCatchesUp.
EditorsConverge ==
  <>[](\A c \in subscribers :
         deaths > 0 \/ early[c] > 0 \/ reloads > 1 \/ editor[c].text = text)

\* A client without a loop has an edit log and nothing else.
NotSynced(c) ==
  /\ queue[c] = <<>> /\ offers[c] = <<>> /\ taken[c] = 0 /\ seenLocal[c] = 0
  /\ ~dirty[c] /\ outstanding[c] = {} /\ flushes[c] = {} /\ landed[c] = {}
  /\ Len(editor[c].log) <= MaxEarly

\* What the loop has heard it has minted, and what was typed fits the bound.
EditsAreCounted(c) ==
  /\ seenLocal[c] = minted[c]
  /\ Typed(c) <= MaxLocal

\* A save's marker covers the edits in front of it, and none that comes behind.
EditsBefore(messages, i) == {j \in Edits(messages) : j < i}

FlushesFollowTheirEdits(c) ==
  /\ \A i \in DOMAIN queue[c] :
       queue[c][i].kind = "flush" =>
         queue[c][i].edits <= minted[c] + Cardinality(EditsBefore(queue[c], i))
  /\ \A edits \in flushes[c] \cup landed[c] : edits <= minted[c]

\* The loop forgets no edit it has heard.
LoopKeepsTyping(c) ==
  \A n \in 1..minted[c] : Kept(<<c, n>>, Display(log[c]) \o log[c].rebasing)

\* Nor does an offer; and there is none before the first action of another's.
OffersKeepTyping(c) ==
  /\ \A i \in DOMAIN offers[c] :
       /\ offers[c][i].state.log # <<>>
       /\ \A n \in 1..offers[c][i].seen : Kept(<<c, n>>, offers[c][i].state.text)
  /\ dirty[c] \/ outstanding[c] # {} => log[c].committed # <<>>

\* The types, the number by which offers are matched, and what makes both hold.
EditorInv ==
  /\ EditorTypeOK
  /\ SeamCountsWhatItSent
  /\ \A c \in Client \ subscribers : NotSynced(c)
  /\ \A c \in subscribers :
       EditsAreCounted(c) /\ FlushesFollowTheirEdits(c) /\ LoopKeepsTyping(c) /\ OffersKeepTyping(c)

\* What was typed is not lost on the two roads that leave the loop: to the
\* screen, where an older offer may land, and to the disk, where a save may.
TypingSurvives == EditorKeepsTyping /\ SavesWhatWasTyped

\* The loop serves its reader: saves land and editors show the host's text.
EditorsSettle == SavesLand /\ EditorsConverge

\* The bridge between two edit logs (editor/edit_log.rs): the scan from the
\* tails for an entry they share, as it is written.
CommonBase(before, after) ==
  LET scan[l \in 0..Len(before), r \in 0..Len(after)] ==
        IF l = 0 \/ r = 0 THEN <<0, 0>>
        ELSE IF before[l] = after[r] THEN <<l, r>>
        ELSE IF l < r /\ r > 1 THEN scan[l, r - 1]
        ELSE scan[l - 1, r]
  IN  scan[Len(before), Len(after)]

\* An edit that the loop is about to place is carried from the deepest entry
\* its log shares with the loop's (rebase.md 5).
BridgesFromTheDeepest ==
  \A c \in subscribers :
    queue[c] # <<>> /\ Head(queue[c]).kind = "edit" /\ ~IsRebasing(log[c]) =>
      LET made   == Head(queue[c]).base
          shared == {i \in DOMAIN made : made[i] \in Range(Shows(c))}
      IN  CommonBase(made, Shows(c))[1] = IF shared = {} THEN 0 ELSE Max(shared)
=============================================================================
