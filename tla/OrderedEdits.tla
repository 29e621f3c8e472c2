---------------------------- MODULE OrderedEdits ----------------------------
(***************************************************************************)
(* What a shared document promises, with no versions, no wire and no       *)
(* rebase: one history of edits in a total order, of which each client has *)
(* seen a prefix, and behind it the edits the client has made and not yet  *)
(* seen come back.  The edits of a client enter the history in the order   *)
(* they were made and once; an edit may be withdrawn, but never one that   *)
(* is in the history already.                                              *)
(***************************************************************************)
EXTENDS Naturals, Sequences, SequencesExt

CONSTANTS Client, Uid

VARIABLES
  history,   \* the edits, in the order the host gave them
  members,   \* the clients that hold the document
  seen,      \* seen[c]: how much of the history c has folded in
  pending    \* pending[c]: c's own edits it has not seen in the history

vars == <<history, members, seen, pending>>

Init ==
  /\ history = <<>>
  /\ members = {}
  /\ seen = [c \in Client |-> 0]
  /\ pending = [c \in Client |-> <<>>]

Join(c) ==
  /\ c \notin members
  /\ members' = members \cup {c}
  /\ seen' = [seen EXCEPT ![c] = Len(history)]
  /\ UNCHANGED <<history, pending>>

Edit(c, id) ==
  /\ c \in members
  /\ id \notin Range(history)
  /\ \A d \in Client : id \notin Range(pending[d])
  /\ pending' = [pending EXCEPT ![c] = Append(@, id)]
  /\ UNCHANGED <<history, members, seen>>

Unseen(c) == SubSeq(history, seen[c] + 1, Len(history))

\* The oldest edit of c the history does not hold yet enters it.
Commit(c) ==
  \E i \in DOMAIN pending[c] :
    /\ pending[c][i] \notin Range(history)
    /\ \A j \in 1..(i - 1) : pending[c][j] \in Range(Unseen(c))
    /\ history' = Append(history, pending[c][i])
    /\ UNCHANGED <<members, seen, pending>>

\* An edit of the host's own.
HostCommit(id) ==
  /\ id \notin Range(history)
  /\ \A d \in Client : id \notin Range(pending[d])
  /\ history' = Append(history, id)
  /\ UNCHANGED <<members, seen, pending>>

\* The next edit of the history reaches c: its own oldest one, or another's.
Learn(c) ==
  /\ c \in members
  /\ seen[c] < Len(history)
  /\ seen' = [seen EXCEPT ![c] = @ + 1]
  /\ LET id == history[seen[c] + 1]
     IN  \/ /\ pending[c] # <<>> /\ Head(pending[c]) = id
            /\ pending' = [pending EXCEPT ![c] = Tail(@)]
         \/ /\ id \notin Range(pending[c])
            /\ UNCHANGED pending
  /\ UNCHANGED <<history, members>>

\* Some edits of c in a row turn out to have nothing left to do.
Withdraw(c) ==
  \E i, j \in 0..Len(pending[c]) :
    /\ i <= j
    /\ \A k \in (i + 1)..j : pending[c][k] \notin Range(history)
    /\ pending' = [pending EXCEPT ![c] = SubSeq(@, 1, i) \o SubSeq(@, j + 1, Len(@))]
    /\ UNCHANGED <<history, members, seen>>

Next ==
  \/ \E id \in Uid : HostCommit(id)
  \/ \E c \in Client :
       \/ Join(c)
       \/ \E id \in Uid : Edit(c, id)
       \/ Commit(c)
       \/ Learn(c)
       \/ Withdraw(c)

Spec == Init /\ [][Next]_vars
=============================================================================
