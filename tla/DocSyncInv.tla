----------------------------- MODULE DocSyncInv -----------------------------
(***************************************************************************)
(* The inductive invariant behind the safety of DocSync when the           *)
(* dispatches of one client arrive in order.  Its parts are predicates of  *)
(* values, so that each can be argued about on its own: t and v the host's *)
(* text and version, com, ver, spec and reb the four fields of a client's  *)
(* log, f its feed, w its wire, n the edits it has minted.                 *)
(***************************************************************************)
EXTENDS DocSync

\* The version a text is at.
Name(s) == IF s = <<>> THEN Origin ELSE s[Len(s)]

Distinct(s) == \A i, j \in DOMAIN s : i # j => s[i] # s[j]

\* b starts with t.
Extends(b, t) == Len(t) <= Len(b) /\ \A i \in DOMAIN t : b[i] = t[i]

Holds(s, id) == \E i \in DOMAIN s : s[i] = id

\* An edit c has minted.
Own(c, n, id) == Author(id) = c /\ id[2] \in 1..n

\* The m-th action of what a client shows: the committed ones, then its own.
LineAt(com, spec, m) == IF m <= Len(com) THEN com[m] ELSE spec[m - Len(com)].id

-----------------------------------------------------------------------------
\* The text holds each action once, and none that was not minted.
HostOK(t, v) ==
  /\ v = Name(t)
  /\ Distinct(t)
  /\ \A i \in DOMAIN t :
       \/ Author(t[i]) = Host /\ t[i][2] \in 1..reloads
       \/ \E c \in Client : Own(c, minted[c], t[i])

\* The feed is what the client has not folded in, its own echoes first.
FeedOK(c, t, com, ver, f) ==
  /\ Len(t) = Len(com) + Len(f)
  /\ \A i \in DOMAIN com : t[i] = com[i]
  /\ \A i \in DOMAIN f : t[Len(com) + i] = f[i].id
  /\ \A i \in DOMAIN f : f[i].base = IF i = 1 THEN ver ELSE f[i - 1].id
  /\ \A i, j \in DOMAIN f : i < j /\ Author(f[j].id) = c => Author(f[i].id) = c

\* The speculation is one chain of edits on what is committed.
LogOK(com, ver, spec) ==
  /\ ver = Name(com)
  /\ \A i \in DOMAIN spec :
       /\ Len(spec[i].after) = Len(com) + i
       /\ \A m \in 1..Len(com) + i : spec[i].after[m] = LineAt(com, spec, m)

\* What is pending is the client's own, named once, and not committed.
PendingOK(c, n, com, spec, reb) ==
  /\ \A i \in DOMAIN spec : Own(c, n, spec[i].id) /\ ~Holds(com, spec[i].id)
  /\ \A i \in DOMAIN reb : Own(c, n, reb[i]) /\ ~Holds(com, reb[i])
  /\ \A i, j \in DOMAIN spec : i # j => spec[i].id # spec[j].id
  /\ \A i, j \in DOMAIN reb : i # j => reb[i] # reb[j]
  /\ \A i \in DOMAIN spec : \A j \in DOMAIN reb : spec[i].id # reb[j]

\* An echo on its way answers the speculation, entry for entry.
EchoOK(c, f, spec) ==
  \A i \in DOMAIN f :
    Author(f[i].id) = c => i \in DOMAIN spec /\ spec[i].id = f[i].id

\* A dispatch on its way is built on the client's own edits and on actions it
\* has heard.  Either no action has been ordered that it was not built on,
\* and then it is still an entry of the speculation; or it can never apply.
SentOK(c, t, v, n, com, spec, id, base, b) ==
  /\ Own(c, n, id)
  /\ base = Name(b)
  /\ Distinct(b)
  /\ ~Holds(b, id)
  /\ \A k \in DOMAIN b : Own(c, n, b[k]) \/ (Author(b[k]) # c /\ Holds(com, b[k]))
  /\ Extends(b, t) =>
       \E k \in DOMAIN spec : /\ spec[k].id = id
                              /\ Len(com) + k = Len(b) + 1
                              /\ \A m \in DOMAIN b : b[m] = LineAt(com, spec, m)
  /\ ~Extends(b, t) => base # v

\* Dispatch e was made on what d leads to.
Follows(e, d) ==
  /\ Len(e.before) = Len(d.before) + 1
  /\ \A k \in DOMAIN d.before : e.before[k] = d.before[k]

\* A dispatch chained on one that may still apply is built on it.
ChainOK(t, w) ==
  \A i, j \in DOMAIN w :
    j < i /\ w[j].id = w[i].base /\ Extends(w[j].before, t) => Follows(w[i], w[j])

\* A subscribed client.
MirrorOK(c, t, v, f, com, ver, spec, reb, w, n) ==
  /\ FeedOK(c, t, com, ver, f)
  /\ LogOK(com, ver, spec)
  /\ PendingOK(c, n, com, spec, reb)
  /\ EchoOK(c, f, spec)
  /\ \A i \in DOMAIN w : SentOK(c, t, v, n, com, spec, w[i].id, w[i].base, w[i].before)
  /\ ChainOK(t, w)

\* A client without a subscription has said and heard nothing.
Idle(c) ==
  /\ minted[c] = 0
  /\ feed[c] = <<>>
  /\ wire[c] = <<>>
  /\ log[c] = NewLog(<<>>, Origin)

ClientInv(c) ==
  IF c \in subscribers
  THEN MirrorOK(c, text, version, feed[c], log[c].committed, log[c].version,
                log[c].speculation, log[c].rebasing, wire[c], minted[c])
  ELSE Idle(c)

IInv ==
  /\ TypeOK
  /\ HostOK(text, version)
  /\ \A c \in Client : ClientInv(c)
=============================================================================
