------------------------------- MODULE Reload -------------------------------
(***************************************************************************)
(* The line diff and the three-way line merge the host reloads a mirrored  *)
(* file with (backend/agent-host, documents/reload.rs), and the texts the  *)
(* host meets them with: the disk text it knew, the mirror the clients     *)
(* have edited since, the disk the agent has rewritten since.              *)
(*                                                                         *)
(* A text is the sequence of its lines, a line is a value: an offset in    *)
(* bytes is here the number of lines before it.  That a last line may lack *)
(* its line feed is left out.  A hunk replaces the lines start+1..end of   *)
(* the old text.                                                           *)
(***************************************************************************)
EXTENDS Naturals, Sequences, SequencesExt, FiniteSetsExt

CONSTANTS
  Line,      \* lines
  CellCap,   \* CELL_CAP: the largest table the diff fills
  MaxStart,  \* bound: lines of the file at first
  MaxLines,  \* bound: lines of a text that is edited further
  MaxEdits,  \* bound: edits of clients and of the agent
  Slot       \* the movable lines of MirrorHost's texts, 1..n

ASSUME LimitsAssumption == {CellCap, MaxStart, MaxLines, MaxEdits} \subseteq Nat

VARIABLES
  current,   \* the mirror's text
  base,      \* the disk text last reconciled with it
  disk,      \* the file
  edits      \* how many edits have been made

vars == <<current, base, disk, edits>>

Hunk(start, end, text) == [start |-> start, end |-> end, text |-> text]

-----------------------------------------------------------------------------
\* The diff.

Shorter(old, new) == Min({Len(old), Len(new)})

CommonPrefix(old, new) ==
  Max({n \in 0..Shorter(old, new) : SubSeq(old, 1, n) = SubSeq(new, 1, n)})

Rest(text, n) == SubSeq(text, n + 1, Len(text))

\* Mutant of CommonSuffix: it may reach into the common prefix.
CommonSuffixOverlapping(old, new, prefix) == CommonPrefix(Reverse(old), Reverse(new))

CommonSuffix(old, new, prefix) ==
  CommonPrefix(Reverse(Rest(old, prefix)), Reverse(Rest(new, prefix)))

\* The table: lcs[<<i, j>>] is how many lines the texts share from their lines
\* i and j on.
Cells(n, m) == (1..n + 1) \X (1..m + 1)

Table(old, new) ==
  LET lcs[c \in Cells(Len(old), Len(new))] ==
        LET i == c[1]  j == c[2] IN
        IF i > Len(old) \/ j > Len(new) THEN 0
        ELSE IF old[i] = new[j] THEN lcs[<<i + 1, j + 1>>] + 1
        ELSE Max({lcs[<<i + 1, j>>], lcs[<<i, j + 1>>]})
  IN  lcs

\* At two lines that differ the walk deletes the old one if that costs nothing.
Deletes(lcs, i, j) == lcs[<<i + 1, j>>] >= lcs[<<i, j + 1>>]

\* The pairs of lines the walk over the table keeps.
Walk(old, new, lcs) ==
  LET walk[c \in Cells(Len(old), Len(new))] ==
        LET i == c[1]  j == c[2] IN
        IF i > Len(old) \/ j > Len(new) THEN <<>>
        ELSE IF old[i] = new[j] THEN <<<<i, j>>>> \o walk[<<i + 1, j + 1>>]
        ELSE IF Deletes(lcs, i, j) THEN walk[<<i + 1, j>>]
        ELSE walk[<<i, j + 1>>]
  IN  walk[<<1, 1>>]

\* None when the table is too large to fill.
KeptInside(old, new) ==
  IF Len(old) * Len(new) > CellCap THEN <<>> ELSE Walk(old, new, Table(old, new))

Shifted(pairs, n) == [k \in DOMAIN pairs |-> <<pairs[k][1] + n, pairs[k][2] + n>>]

KeptAround(old, new, prefix, suffix) ==
  [k \in 1..prefix |-> <<k, k>>]
    \o Shifted(KeptInside(SubSeq(old, prefix + 1, Len(old) - suffix),
                          SubSeq(new, prefix + 1, Len(new) - suffix)), prefix)
    \o [k \in 1..suffix |-> <<Len(old) - suffix + k, Len(new) - suffix + k>>]

\* All pairs of lines kept, the common prefix and suffix among them.
Kept(old, new) ==
  LET prefix == CommonPrefix(old, new)
  IN  KeptAround(old, new, prefix, CommonSuffix(old, new, prefix))

\* What lies between two lines kept is one hunk: deletes and inserts at one
\* seam are pushed together.
Between(new, here, next) == Hunk(here[1], next[1] - 1, SubSeq(new, here[2] + 1, next[2] - 1))

Empty(h) == h.start = h.end /\ h.text = <<>>

HunksBetween(new, kept) ==
  LET from[k \in 1..Len(kept)] ==
        IF k = Len(kept) THEN <<>>
        ELSE IF Empty(Between(new, kept[k], kept[k + 1])) THEN from[k + 1]
        ELSE <<Between(new, kept[k], kept[k + 1])>> \o from[k + 1]
  IN  from[1]

Hunks(old, new) ==
  HunksBetween(new, <<<<0, 0>>>> \o Kept(old, new) \o <<<<Len(old) + 1, Len(new) + 1>>>>)

\* A client replaces the spans it is sent, the last one first.
Replaced(text, h) == SubSeq(text, 1, h.start) \o h.text \o SubSeq(text, h.end + 1, Len(text))

Applied(text, hunks) ==
  LET after[k \in 1..Len(hunks) + 1] ==
        IF k > Len(hunks) THEN text ELSE Replaced(after[k + 1], hunks[k])
  IN  after[1]

-----------------------------------------------------------------------------
\* The merge.

Copied(text, pos, to) == SubSeq(text, pos + 1, to)

\* Wholly before the other side's hunk, and not at one seam with it.
Before(h, other) == h.end <= other.start /\ h.start # other.start

\* Mutant of Shared: a change both sides made is made twice.
SharedTwice(ours, theirs) == ours \o theirs

\* One span replaced on both sides.
Shared(ours, theirs) ==
  IF IsPrefix(ours, theirs) THEN theirs
  ELSE IF IsPrefix(theirs, ours) THEN ours
  ELSE ours \o theirs

\* Mutant of Overlap: what the disk says of the span is dropped.
OverlapOurs(o, t) == Hunk(Min({o.start, t.start}), Max({o.end, t.end}), o.text)

\* Spans that overlap otherwise.
Overlap(o, t) == Hunk(Min({o.start, t.start}), Max({o.end, t.end}), o.text \o t.text)

\* The hunk that comes next, and of which sides it is.
Takes(h, ours, theirs) == [hunk |-> h, ours |-> ours, theirs |-> theirs]

Coming(mine, his, i, j) ==
  LET o == mine[i]  t == his[j] IN
  IF j > Len(his) THEN Takes(o, 1, 0)
  ELSE IF i > Len(mine) THEN Takes(t, 0, 1)
  ELSE IF Before(o, t) THEN Takes(o, 1, 0)
  ELSE IF Before(t, o) THEN Takes(t, 0, 1)
  ELSE IF o.start = t.start /\ o.end = t.end
  THEN Takes(Hunk(o.start, o.end, Shared(o.text, t.text)), 1, 1)
  ELSE Takes(Overlap(o, t), 1, 1)

\* Both sides' hunks, in the order of the base.
Joined(from, mine, his) ==
  LET join[c \in (1..Len(mine) + 1) \X (1..Len(his) + 1) \X (0..Len(from))] ==
        LET i == c[1]  j == c[2]  pos == c[3]  next == Coming(mine, his, i, j) IN
        IF i > Len(mine) /\ j > Len(his) THEN Copied(from, pos, Len(from))
        ELSE Copied(from, pos, next.hunk.start) \o next.hunk.text
               \o join[<<i + next.ours, j + next.theirs, next.hunk.end>>]
  IN  join[<<1, 1, 0>>]

Merged(from, ours, theirs) == Joined(from, Hunks(from, ours), Hunks(from, theirs))

-----------------------------------------------------------------------------
\* The texts the host meets: clients edit the mirror, the agent rewrites the
\* file, the host reloads and stores.  (Their races are MirrorHost's.)

Texts(n) == UNION {[1..k -> Line] : k \in 0..n}

Init ==
  /\ base \in Texts(MaxStart)
  /\ current = base
  /\ disk = base
  /\ edits = 0

\* One line put in or taken out.
Edited(text) ==
  IF Len(text) < MaxLines
  THEN {InsertAt(text, p, line) : p \in 1..Len(text) + 1, line \in Line}
         \cup {RemoveAt(text, p) : p \in DOMAIN text}
  ELSE {RemoveAt(text, p) : p \in DOMAIN text}

DocumentDispatch ==
  /\ edits < MaxEdits /\ edits' = edits + 1
  /\ current' \in Edited(current)
  /\ UNCHANGED <<base, disk>>

AgentWrites ==
  /\ edits < MaxEdits /\ edits' = edits + 1
  /\ disk' \in Edited(disk)
  /\ UNCHANGED <<current, base>>

ReloadMirror ==
  /\ disk # base
  /\ base' = disk
  /\ current' = LET target == IF current = base THEN disk ELSE Merged(base, current, disk)
                IN  Applied(current, Hunks(current, target))
  /\ UNCHANGED <<disk, edits>>

StoreDocument ==
  /\ disk' = current /\ base' = current
  /\ UNCHANGED <<current, edits>>

Next == DocumentDispatch \/ AgentWrites \/ ReloadMirror \/ StoreDocument

Spec == Init /\ [][Next]_vars

-----------------------------------------------------------------------------
\* Properties.

\* The merge the host would compute if the watcher fired now.
Merge == Merged(base, current, disk)

Lines(text, kept) ==
  LET Pick[n \in 0..Len(text)] ==
        IF n = 0 THEN <<>>
        ELSE IF n \in kept THEN Append(Pick[n - 1], text[n]) ELSE Pick[n - 1]
  IN  Pick[Len(text)]

Touched(hunks) == UNION {hunks[k].start + 1..hunks[k].end : k \in DOMAIN hunks}

Count(text, line) == Cardinality({n \in DOMAIN text : text[n] = line})

\* The lines of the base neither side touched.
UntouchedLines ==
  Lines(base, DOMAIN base \ (Touched(Hunks(base, current)) \cup Touched(Hunks(base, disk))))

\* What can be read off a text in order.
Subsequences(text) == {Lines(text, at) : at \in SUBSET DOMAIN text}

\* The spans a reload broadcasts turn the text every client holds into the
\* target (hunks, and spans over it), and so do those of the merge itself.
HunksRebuild ==
  \A old, new \in {base, current, disk} : Applied(old, Hunks(old, new)) = new

\* Within the table's budget the diff keeps as many lines as can be kept
\* (lcs_steps: "exact and boring").
DiffIsExact ==
  \A old, new \in {base, current, disk} : Len(old) * Len(new) <= CellCap =>
    Len(Kept(old, new)) = Max({Len(part) : part \in Subsequences(old) \cap Subsequences(new)})

\* The diff turns the one text into the other, keeping what can be kept.
DiffIsRight == HunksRebuild /\ DiffIsExact

\* A side that changed nothing changes nothing, and what both sides changed
\* alike is changed once (merged: "Shared hunks land once").
SharedLandsOnce ==
  /\ Merged(base, base, disk) = disk
  /\ Merged(base, current, base) = current
  /\ Merged(base, current, current) = current

\* What each hunk wrote stands in `text`.
Holds(text, hunks) ==
  \A k \in DOMAIN hunks : \E n \in 0..Len(text) - Len(hunks[k].text) :
    SubSeq(text, n + 1, n + Len(hunks[k].text)) = hunks[k].text

\* What either side wrote is in the merge (merged: "genuine conflicts keep
\* both sides' bytes").
NobodysLinesDropped == Holds(Merge, Hunks(base, current)) /\ Holds(Merge, Hunks(base, disk))

\* What neither side touched is in the merge, in its order.
UntouchedStays == UntouchedLines \in Subsequences(Merge)

\* The merge loses nothing: neither what a side wrote nor what both left.
MergeLosesNothing == NobodysLinesDropped /\ UntouchedStays

Written(hunks, line) == MapThenSumSet(LAMBDA k : Count(hunks[k].text, line), DOMAIN hunks)

\* The merge holds nothing but what was left untouched and what the sides
\* wrote: a line deleted stays deleted (merged: in a messy overlap "the union
\* span becomes ours' text then theirs'").
DeletedStaysDeleted ==
  \A line \in Line :
    Count(Merge, line) <= Count(UntouchedLines, line) + Written(Hunks(base, current), line)
                                                      + Written(Hunks(base, disk), line)

\* A text of MirrorHost: a movable line, or none, after each of the fixed ones.
SlotText(lines) ==
  FlattenSeq([k \in 1..Cardinality(Slot) |->
                IF k \in lines THEN <<<<"fixed", k>>, <<"movable", k>>>> ELSE <<<<"fixed", k>>>>])

\* On such texts the merge is the merge of sets MirrorHost uses
\* (MirrorHost!Merged; asked in the first states, it depends on none).
MergesSlots ==
  edits = 0 => \A from, ours, theirs \in SUBSET Slot :
    Merged(SlotText(from), SlotText(ours), SlotText(theirs))
      = SlotText((ours \cap theirs) \cup (ours \ from) \cup (theirs \ from))
=============================================================================
