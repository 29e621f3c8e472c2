------------------------------ MODULE RebaseLog ------------------------------
(***************************************************************************)
(* The rebase log of frontend/rebase: what one speculating client knows of *)
(* a document.  It is a value, and every operation here is a pure function *)
(* of it, as every method of the Rust type is.                             *)
(*                                                                         *)
(*   committed   what the host has confirmed, at `version`                 *)
(*   speculation our edits carried onto `committed`, each with the state   *)
(*               it leads to                                               *)
(*   rebasing    our edits still owed the crossing of a foreign action     *)
(*                                                                         *)
(* Data abstraction.  A text is the sequence of the names of the actions   *)
(* that made it.  An action applied to a text appends its name, unless it  *)
(* collapses there (Action::apply answers None: the text it would delete   *)
(* is gone already), which `Shadows` decides: <<x, y>> \in Shadows says    *)
(* that once x is in the text nothing is left of y.                        *)
(***************************************************************************)
EXTENDS Naturals, Sequences, SequencesExt

CONSTANTS
  Uid,       \* names of actions, which are also the names of versions
  Shadows    \* which actions leave nothing of which others

ASSUME ShadowsAssumption == Shadows \subseteq Uid \X Uid

Collapses(id, state) == \E i \in DOMAIN state : <<state[i], id>> \in Shadows

Entry == [id : Uid, after : Seq(Uid)]

Log == [ committed   : Seq(Uid),
         version     : Uid,
         speculation : Seq(Entry),
         rebasing    : Seq(Uid) ]

\* What goes to the wire.  `before` is the text the positions of the
\* operation address: the host never sees it, it only applies positions.
Dispatch == [id : Uid, base : Uid, before : Seq(Uid)]

NewLog(state, version) ==
  [ committed |-> state, version |-> version,
    speculation |-> <<>>, rebasing |-> <<>> ]

Display(log) ==
  IF log.speculation = <<>> THEN log.committed ELSE Last(log.speculation).after

Tip(log) ==
  IF log.speculation = <<>> THEN log.version ELSE Last(log.speculation).id

IsRebasing(log) == log.rebasing # <<>>

IsSettled(log) == log.speculation = <<>> /\ log.rebasing = <<>>

\* The edits of ours the log still owes the host, in the order they were made.
Pending(log) == [i \in DOMAIN log.speculation |-> log.speculation[i].id] \o log.rebasing

-----------------------------------------------------------------------------
\* Every method answers the new log and what it sends: one dispatch or none.

\* Mutant of Push: every dispatch names the confirmed version, none its
\* predecessor.
PushUnchained(log, id) ==
  IF Collapses(id, Display(log))
  THEN [log |-> log, sent |-> <<>>]
  ELSE [ log  |-> [log EXCEPT !.speculation =
                     Append(@, [id |-> id, after |-> Append(Display(log), id)])],
         sent |-> <<[id |-> id, base |-> log.version, before |-> Display(log)]>> ]

Push(log, id) ==
  IF Collapses(id, Display(log))
  THEN [log |-> log, sent |-> <<>>]
  ELSE [ log  |-> [log EXCEPT !.speculation =
                     Append(@, [id |-> id, after |-> Append(Display(log), id)])],
         sent |-> <<[id |-> id, base |-> Tip(log), before |-> Display(log)]>> ]

Local(log, id) ==
  IF IsRebasing(log)
  THEN [log |-> [log EXCEPT !.rebasing = Append(@, id)], sent |-> <<>>]
  ELSE Push(log, id)

\* Mutants of Remote: what was still queued from the last foreign action is
\* forgotten; the speculation is put back in the wrong order.
RemoteForgets(log, id) ==
  [ committed   |-> Append(log.committed, id),
    version     |-> id,
    speculation |-> <<>>,
    rebasing    |-> [i \in DOMAIN log.speculation |-> log.speculation[i].id] ]

RemoteReverses(log, id) ==
  [ committed   |-> Append(log.committed, id),
    version     |-> id,
    speculation |-> <<>>,
    rebasing    |-> Reverse([i \in DOMAIN log.speculation |-> log.speculation[i].id])
                      \o log.rebasing ]

Remote(log, id) ==
  [ committed   |-> Append(log.committed, id),
    version     |-> id,
    speculation |-> <<>>,
    rebasing    |-> Pending(log) ]

\* Mutant of IsAck: the echo is looked for at the wrong end.
IsAckOfTip(log, id) == log.speculation # <<>> /\ Last(log.speculation).id = id

IsAck(log, id) == log.speculation # <<>> /\ Head(log.speculation).id = id

\* Mutant of Ack: the confirmed text moves, its version does not.
AckKeepsVersion(log) ==
  [log EXCEPT !.committed   = Head(log.speculation).after,
              !.speculation = Tail(@)]

Ack(log) ==
  [log EXCEPT !.committed   = Head(log.speculation).after,
              !.version     = Head(log.speculation).id,
              !.speculation = Tail(@)]

\* One entry crosses; those that collapse on the way leave the log with it.
Step(log) ==
  LET whole == {i \in DOMAIN log.rebasing : ~Collapses(log.rebasing[i], Display(log))}
  IN  IF whole = {}
      THEN [log |-> [log EXCEPT !.rebasing = <<>>], sent |-> <<>>]
      ELSE LET first == Min(whole)
           IN  Push([log EXCEPT !.rebasing = SubSeq(@, first + 1, Len(@))],
                    log.rebasing[first])
=============================================================================
