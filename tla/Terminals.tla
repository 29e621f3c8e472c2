----------------------------- MODULE Terminals -----------------------------
(***************************************************************************)
(* The terminals of a client and the PTYs that the host runs for them,     *)
(* across connections that die (frontend/ahp-wire/src/wire.rs, the seats   *)
(* and the orphans; backend/agent-host/src/server.rs, createTerminal to    *)
(* disposeTerminal; the pane's session in frontend/terminals).             *)
(*                                                                         *)
(* A PTY outlives its connection.  The client keeps a seat for each open   *)
(* terminal and attaches it again on the next connection, its grid wiped   *)
(* and the host's copy replayed; what was disposed while no connection     *)
(* stood is an orphan, disposed by the next one.                           *)
(*                                                                         *)
(* Data abstraction.  The output of a PTY is its chunks 1, 2, ...; a grid  *)
(* is the chunks written to it since it was wiped; a geometry is a number, *)
(* a later one being larger.  That the host trims what it retains is left  *)
(* out.  Every request is a task of its own, on both sides, so those under *)
(* way are a set; a connection given up may still have its requests run.   *)
(***************************************************************************)
EXTENDS Naturals, Sequences, FiniteSets, SequencesExt

CONSTANTS
  Terminal,      \* the channels that clients mint
  MaxChunks,     \* bound: chunks a PTY says
  MaxSizes,      \* bound: geometries
  MaxDeaths      \* bound: connections that die or do not come up

ASSUME TerminalAssumption ==
  /\ {MaxChunks, MaxDeaths} \subseteq Nat
  /\ MaxSizes \in Nat \ {0}               \* an open has a geometry

VARIABLES
  pty,       \* pty[t]: the host's entry and its process
  viewers,   \* viewers[t]: connections with a row on the channel
  requests,  \* requests under way to the host
  taps,      \* taps[k][t]: what the host sent to the stream of t on k
  links,     \* the connections
  resume,    \* how far the reconnect is
  seats,     \* seats[t]: the geometry of a terminal that is to be attached again
  orphans,   \* those to be disposed by the next connection
  pane,      \* pane[t]: the session: its grid, whether it has seen an exit
  opening,   \* opening[t]: how far the open is
  hanging,   \* hanging[t]: how far the hang-up is
  causes     \* history: why a promise below may not hold

hostVars  == <<pty, viewers>>
clientVars == <<seats, orphans>>
paneVars  == <<pane, opening, hanging>>
termVars  == <<hostVars, requests, taps, links, resume, clientVars, paneVars, causes>>

Link == 1..(MaxDeaths + 1)
NoSeat == 0                              \* geometries count from 1
Blank      == [grid |-> <<>>, exited |-> FALSE, link |-> 0]
NotOpening == [pc |-> "no", link |-> 0, answer |-> "none"]
NotResumed == [link |-> 0, previous |-> 0, pc |-> "none", todo |-> {}, told |-> [t \in Terminal |-> NoSeat],
               disposing |-> {}]
Why == {"stale", "misread", "unseated", "reseated", "drained", "dropped", "late", "window", "kept", "overtaken"}

NoLink == 0
MaybeLink == {NoLink} \cup Link
PtyState  == [phase : {"none", "running", "exited", "disposed"}, chunks : 0..MaxChunks, size : 0..MaxSizes]
Requested == [kind : {"create", "dispose", "resize"}, link : Link, t : Terminal, size : 0..MaxSizes]
LinkState == [made : Link, active : MaybeLink, dead : SUBSET Link, closed : SUBSET Link]
Resuming  == [link : MaybeLink, previous : MaybeLink,
              pc : {"none", "dialed", "attach", "orphans"}, todo : SUBSET Terminal,
              told : [Terminal -> 0..MaxSizes], disposing : SUBSET Terminal]
PaneState == [grid : Seq(1..MaxChunks), exited : BOOLEAN, link : MaybeLink]
OpenState == [pc : {"no", "wait", "create", "shown", "failed"}, link : MaybeLink,
              answer : {"none", "created", "refused"}]

TermTypeOK ==
  /\ pty \in [Terminal -> PtyState]
  /\ viewers \in [Terminal -> SUBSET Link]
  /\ requests \subseteq Requested
  /\ taps \in [Link -> [Terminal -> Seq(0..MaxChunks)]]
  /\ links \in LinkState
  /\ resume \in Resuming
  /\ seats \in [Terminal -> 0..MaxSizes] /\ orphans \subseteq Terminal
  /\ pane \in [Terminal -> PaneState]
  /\ opening \in [Terminal -> OpenState]
  /\ hanging \in [Terminal -> {"no", "up", "down", "done"}]
  /\ causes \subseteq Why

TermInit ==
  /\ pty = [t \in Terminal |-> [phase |-> "none", chunks |-> 0, size |-> 0]]
  /\ viewers = [t \in Terminal |-> {}]
  /\ requests = {}
  /\ taps = [k \in Link |-> [t \in Terminal |-> <<>>]]
  /\ links = [made |-> 1, active |-> 1, dead |-> {}, closed |-> {}]
  /\ resume = NotResumed
  /\ seats = [t \in Terminal |-> NoSeat] /\ orphans = {}
  /\ pane = [t \in Terminal |-> Blank]
  /\ opening = [t \in Terminal |-> NotOpening]
  /\ hanging = [t \in Terminal |-> "no"]
  /\ causes = {}

Alive(k) == k # 0 /\ k \notin links.dead
Up       == Alive(links.active)            \* try_active finds it
Because(condition, why) == causes' = IF condition THEN causes \cup {why} ELSE causes
Request(kind, k, t, size) == [kind |-> kind, link |-> k, t |-> t, size |-> size]

-----------------------------------------------------------------------------
\* The host.  A connection it has closed is not heard and has no rows.

Heard(r) == r \in requests /\ r.link \notin links.closed
Tells(t, what) ==
  taps' = [k \in Link |-> IF k \in viewers[t] THEN [taps[k] EXCEPT ![t] = Append(@, what)] ELSE taps[k]]

\* An existing channel is refused.  History: the terminal has been disposed.
CreateTerminal(r) ==
  /\ Heard(r) /\ r.kind = "create"
  /\ requests' = requests \ {r}
  /\ IF pty[r.t].phase \in {"none", "disposed"}
     THEN pty' = [pty EXCEPT ![r.t] = [phase |-> "running", chunks |-> 0, size |-> r.size]]
     ELSE pty' = pty
  /\ opening' = [opening EXCEPT ![r.t].answer =
       IF opening[r.t].link # r.link THEN @
       ELSE IF pty[r.t].phase \in {"none", "disposed"} THEN "created" ELSE "refused"]
  /\ Because(hanging[r.t] = "done", "late")
  /\ UNCHANGED <<viewers, taps, links, resume, clientVars, pane, hanging>>

\* The reader thread.
PtySays(t) ==
  /\ pty[t].phase = "running" /\ pty[t].chunks < MaxChunks /\ hanging[t] # "done"
  /\ pty' = [pty EXCEPT ![t].chunks = @ + 1]
  /\ Tells(t, pty'[t].chunks)
  /\ UNCHANGED <<viewers, requests, links, resume, clientVars, paneVars, causes>>

Exit == 0
PtyExits(t) ==
  /\ pty[t].phase = "running"
  /\ pty' = [pty EXCEPT ![t].phase = "exited"]
  /\ Tells(t, Exit)
  /\ UNCHANGED <<viewers, requests, links, resume, clientVars, paneVars, causes>>

\* The rows go with the entry, the process is killed.
DisposeTerminal(r) ==
  /\ Heard(r) /\ r.kind = "dispose"
  /\ requests' = requests \ {r}
  /\ viewers' = [viewers EXCEPT ![r.t] = {}]
  /\ pty' = [pty EXCEPT ![r.t].phase = IF @ = "none" THEN @ ELSE "disposed"]
  /\ UNCHANGED <<taps, links, resume, clientVars, paneVars, causes>>

\* History: an older geometry comes behind a newer one.
ResizeTerminal(r) ==
  /\ Heard(r) /\ r.kind = "resize"
  /\ requests' = requests \ {r}
  /\ pty' = [pty EXCEPT ![r.t].size = IF pty[r.t].phase \in {"running", "exited"} THEN r.size ELSE @]
  /\ Because(r.size < pty[r.t].size, "overtaken")
  /\ UNCHANGED <<viewers, taps, links, resume, clientVars, paneVars>>

\* The socket of a connection that was given up closes, or it is shut down.
CloseLink(k) ==
  /\ k \in links.dead \ links.closed
  /\ links' = [links EXCEPT !.closed = @ \cup {k}]
  /\ viewers' = [t \in Terminal |-> viewers[t] \ {k}]
  /\ requests' = {r \in requests : r.link # k}
  /\ taps' = [taps EXCEPT ![k] = [t \in Terminal |-> <<>>]]
  /\ Because(\E r \in requests : r.link = k /\ r.kind = "dispose", "dropped")
  /\ UNCHANGED <<pty, resume, clientVars, paneVars>>

-----------------------------------------------------------------------------
\* attach_terminal: subscribe, wipe the grid if there is one, replay, pump.

Knows(t) == pty[t].phase \in {"running", "exited"}

\* Mutant of Shown: the grid is not wiped before the replay.
ShownOnTop(p, t, k) ==
  [p EXCEPT !.grid = @ \o [n \in 1..pty[t].chunks |-> n], !.exited = @ \/ pty[t].phase = "exited", !.link = k]

Shown(p, t, k) ==
  [grid |-> [n \in 1..pty[t].chunks |-> n], exited |-> p.exited \/ pty[t].phase = "exited", link |-> k]

Attach(k, t) ==
  /\ viewers' = IF hanging[t] = "done" THEN viewers ELSE [viewers EXCEPT ![t] = @ \cup {k}]
  /\ pane' = IF hanging[t] = "done" THEN pane ELSE [pane EXCEPT ![t] = Shown(@, t, k)]

\* What the pump of one connection hears goes to the pane, whether or not the
\* connection is still trusted.  History: it is one of the past.
PumpTerminal(k, t) ==
  LET what == Head(taps[k][t]) IN
  /\ taps[k][t] # <<>>
  /\ taps' = [taps EXCEPT ![k][t] = Tail(@)]
  /\ pane' = IF what = Exit THEN [pane EXCEPT ![t].exited = TRUE] ELSE [pane EXCEPT ![t].grid = Append(@, what)]
  /\ Because(pane[t].link # k, "stale")
  /\ UNCHANGED <<hostVars, requests, links, resume, clientVars, opening, hanging>>

-----------------------------------------------------------------------------
\* terminal_open: the seat is on record before the first ask.

TerminalOpen(t) ==
  /\ opening[t].pc = "no" /\ hanging[t] = "no"
  /\ seats' = [seats EXCEPT ![t] = 1]
  /\ opening' = [opening EXCEPT ![t].pc = "wait"]
  /\ UNCHANGED <<hostVars, requests, taps, links, resume, orphans, pane, hanging, causes>>

\* ensure_active gave a connection.
OpenCreates(t) ==
  /\ opening[t].pc = "wait" /\ Up
  /\ opening' = [opening EXCEPT ![t] = [pc |-> "create", link |-> links.active, answer |-> "none"]]
  /\ requests' = requests \cup {Request("create", links.active, t, 1)}
  /\ UNCHANGED <<hostVars, taps, links, resume, clientVars, pane, hanging, causes>>

\* History: a reconnect has meanwhile taken the seat away.
OpenAttaches(t) ==
  /\ opening[t].pc = "create" /\ opening[t].answer = "created" /\ Alive(opening[t].link)
  /\ Knows(t)
  /\ Attach(opening[t].link, t)
  /\ opening' = [opening EXCEPT ![t].pc = "shown"]
  /\ UNCHANGED <<pty, requests, taps, links, resume, clientVars, hanging, causes>>

\* It was refused, its connection died or none came up.  The seat goes.
OpenFails(t) ==
  /\ \/ opening[t].pc = "create" /\ (opening[t].answer = "refused" \/ ~Alive(opening[t].link))
     \/ opening[t].pc = "wait" /\ ~Up /\ resume.link = 0
  /\ seats' = [seats EXCEPT ![t] = NoSeat]
  /\ opening' = [opening EXCEPT ![t].pc = "failed", ![t].link = 0]
  /\ UNCHANGED <<hostVars, requests, taps, links, resume, orphans, pane, hanging, causes>>

-----------------------------------------------------------------------------
\* terminal_resize: recorded whatever the connection, sent on a live one.
\* History: the seats have been read, so this one is neither sent nor told.

TerminalResize(t) ==
  /\ opening[t].pc = "shown" /\ hanging[t] = "no"
  /\ seats[t] \in 1..(MaxSizes - 1)
  /\ seats' = [seats EXCEPT ![t] = @ + 1]
  /\ requests' = IF Up THEN requests \cup {Request("resize", links.active, t, seats'[t])} ELSE requests
  /\ Because(resume.pc \in {"attach", "orphans"}, "window")
  /\ UNCHANGED <<hostVars, taps, links, resume, orphans, paneVars>>

\* terminal_dispose, by a pane that closes; or by the session, when nothing
\* holds it any more: no open, no seat, no pump.
Held(t) == seats[t] # NoSeat \/ \E k \in Link : k \notin links.closed /\ (k \in viewers[t] \/ taps[k][t] # <<>>)

HangUp(t) ==
  /\ hanging[t] = "no"
  /\ opening[t].pc = "shown" \/ (opening[t].pc = "failed" /\ ~Held(t))
  /\ hanging' = [hanging EXCEPT ![t] = IF Up THEN "up" ELSE "down"]
  /\ UNCHANGED <<hostVars, requests, taps, links, resume, clientVars, pane, opening, causes>>

\* Mutant of Orphaned: what is disposed in an outage is only forgotten.
OrphanedNever(t) == orphans

Orphaned(t) == IF hanging[t] = "down" THEN orphans \cup {t} ELSE orphans

\* What was found up decides; run_live looks again.  History: it may have gone,
\* or come, in between.  What a pane that is gone
\* would still hear is left out.
TerminalDispose(t) ==
  /\ hanging[t] \in {"up", "down"}
  /\ hanging' = [hanging EXCEPT ![t] = "done"]
  /\ seats' = [seats EXCEPT ![t] = NoSeat]
  /\ orphans' = Orphaned(t)
  /\ requests' = IF hanging[t] = "up" /\ Up THEN requests \cup {Request("dispose", links.active, t, 0)} ELSE requests
  /\ viewers' = [viewers EXCEPT ![t] = {}]
  /\ taps' = [k \in Link |-> [taps[k] EXCEPT ![t] = <<>>]]
  /\ pane' = [pane EXCEPT ![t] = Blank]
  /\ opening' = [opening EXCEPT ![t].link = 0, ![t].answer = "none"]
  /\ Because((hanging[t] = "up") # Up, IF Up THEN "kept" ELSE "dropped")
  /\ UNCHANGED <<pty, links, resume>>

-----------------------------------------------------------------------------
\* The connection: it dies; another is dialed and resumed.

LinkDies ==
  /\ Up /\ Cardinality(links.dead) < MaxDeaths
  /\ links' = [links EXCEPT !.dead = @ \cup {links.active}]
  /\ UNCHANGED <<hostVars, requests, taps, resume, clientVars, paneVars, causes>>

Redial ==
  /\ links.active \in links.dead
  /\ links.made < MaxDeaths + 1
  /\ links' = [links EXCEPT !.made = @ + 1, !.active = 0]
  /\ resume' = [NotResumed EXCEPT !.link = links.made + 1, !.previous = links.active, !.pc = "dialed"]
  /\ UNCHANGED <<hostVars, requests, taps, clientVars, paneVars, causes>>

\* Mutant of Seated: nothing is attached again.
SeatedNone == {}

Seated == {t \in Terminal : seats[t] # NoSeat}

\* Mutant of ResumeSeats: the geometry of the open is told again.
ResumeSeatsAnew ==
  /\ resume.pc = "dialed"
  /\ resume' = [resume EXCEPT !.pc = "attach", !.todo = Seated, !.told = [t \in Terminal |-> 1]]
  /\ UNCHANGED <<hostVars, requests, taps, links, clientVars, paneVars, causes>>

\* The seats as they stand are taken down.
ResumeSeats ==
  /\ resume.pc = "dialed"
  /\ resume' = [resume EXCEPT !.pc = "attach", !.todo = Seated, !.told = seats]
  /\ UNCHANGED <<hostVars, requests, taps, links, clientVars, paneVars, causes>>

\* A seat attaches again and is told its geometry.
ResumeAttaches(t) ==
  /\ resume.pc = "attach" /\ t \in resume.todo /\ Alive(resume.link)
  /\ Knows(t)
  /\ Attach(resume.link, t)
  /\ requests' = requests \cup {Request("resize", resume.link, t, resume.told[t])}
  /\ resume' = [resume EXCEPT !.todo = @ \ {t}]
  /\ Because(opening[t].pc \in {"wait", "create", "failed"}, "reseated")
  /\ UNCHANGED <<pty, taps, links, clientVars, opening, hanging>>

\* Or its pane is retired: the host does not know it, or the connection failed.
\* History: the host has it still, or is only to be asked for it.
ResumeRetires(t) ==
  /\ resume.pc = "attach" /\ t \in resume.todo
  /\ ~Alive(resume.link) \/ ~Knows(t)
  /\ pane' = [pane EXCEPT ![t].exited = hanging[t] # "done"]
  /\ seats' = [seats EXCEPT ![t] = NoSeat]
  /\ resume' = [resume EXCEPT !.todo = @ \ {t}]
  /\ Because(pty[t].phase # "disposed", IF opening[t].pc \in {"wait", "create"} THEN "unseated" ELSE "misread")
  /\ UNCHANGED <<hostVars, requests, taps, links, orphans, opening, hanging>>

\* The orphans are taken off the list, and then disposed one by one.
ResumeDrains ==
  /\ resume.pc = "attach" /\ resume.todo = {}
  /\ orphans' = {}
  /\ resume' = [resume EXCEPT !.pc = "orphans", !.disposing = orphans]
  /\ UNCHANGED <<hostVars, requests, taps, links, seats, paneVars, causes>>

ResumeDisposes(t) ==
  /\ resume.pc = "orphans" /\ t \in resume.disposing
  /\ resume' = [resume EXCEPT !.disposing = @ \ {t}]
  /\ requests' = IF Alive(resume.link) THEN requests \cup {Request("dispose", resume.link, t, 0)} ELSE requests
  /\ Because(~Alive(resume.link), "drained")
  /\ UNCHANGED <<hostVars, taps, links, clientVars, paneVars>>

\* The connection may have died on the way: it is made the active one all the
\* same.  History: what was disposed since the orphans were read waits for the next.
Activate ==
  /\ resume.pc = "orphans" /\ resume.disposing = {}
  /\ ~\E r \in requests : r.link = resume.link /\ r.kind = "dispose" /\ Alive(resume.link)
  /\ links' = [links EXCEPT !.active = resume.link]
  /\ resume' = NotResumed
  /\ Because(orphans # {}, "kept")
  /\ UNCHANGED <<hostVars, requests, taps, clientVars, paneVars>>

\* The new connection fails while it resumes, and is found to be dead.
ResumingLinkDies ==
  /\ resume.link # 0 /\ Alive(resume.link) /\ Cardinality(links.dead) < MaxDeaths
  /\ links' = [links EXCEPT !.dead = @ \cup {resume.link}]
  /\ UNCHANGED <<hostVars, requests, taps, resume, clientVars, paneVars, causes>>

\* The deadline passes: the one before is put back, to be replaced.
ResumeTimesOut ==
  /\ resume.link # 0 /\ Cardinality(links.dead) < MaxDeaths
  /\ links' = [links EXCEPT !.dead = @ \cup {resume.link}, !.active = resume.previous]
  /\ resume' = NotResumed
  /\ Because(resume.disposing # {}, "drained")
  /\ UNCHANGED <<hostVars, requests, taps, clientVars, paneVars>>

-----------------------------------------------------------------------------
HostTurn == \E r \in requests : CreateTerminal(r) \/ DisposeTerminal(r) \/ ResizeTerminal(r)
OpenTurn == \E t \in Terminal : OpenCreates(t) \/ OpenAttaches(t) \/ OpenFails(t)
ResumeTurn ==
  \/ Redial \/ ResumeSeats \/ ResumeDrains \/ Activate
  \/ \E t \in Terminal : ResumeAttaches(t) \/ ResumeRetires(t) \/ ResumeDisposes(t)
PumpTurn == \E k \in Link, t \in Terminal : PumpTerminal(k, t)

TermNext ==
  \/ HostTurn \/ OpenTurn \/ ResumeTurn \/ PumpTurn
  \/ \E t \in Terminal : PtySays(t) \/ PtyExits(t) \/ TerminalOpen(t) \/ TerminalResize(t) \/ HangUp(t) \/ TerminalDispose(t)
  \/ \E k \in Link : CloseLink(k)
  \/ LinkDies \/ ResumingLinkDies \/ ResumeTimesOut

TermSpec     == TermInit /\ [][TermNext]_termVars
FairTermSpec ==
  /\ TermSpec
  /\ WF_termVars(HostTurn) /\ WF_termVars(OpenTurn) /\ WF_termVars(ResumeTurn) /\ WF_termVars(PumpTurn)
  /\ \A t \in Terminal : WF_termVars(TerminalDispose(t)) /\ WF_termVars(opening[t].pc = "failed" /\ HangUp(t))
  /\ WF_termVars(\E k \in Link : CloseLink(k))

-----------------------------------------------------------------------------
Excused(by) == causes \cap by # {}

\* A pane shows what the PTY said, all of it from the first chunk, each once and
\* in order, over any number of attaches; unless a pump of the past spoke up.
ShowsWhatWasSaid(t) == (\A i \in DOMAIN pane[t].grid : pane[t].grid[i] = i) \/ Excused({"stale"})
GridIsWhatWasSaid == \A t \in Terminal : ShowsWhatWasSaid(t)

\* No PTY is left running with nobody to end it: it has a seat or a session, or
\* is to be disposed; unless the disposal was lost on its way or came first.
IsOwned(t) ==
  pty[t].phase = "running" /\ hanging[t] = "done" =>
    \/ t \in orphans \cup resume.disposing
    \/ \E r \in requests : r.kind = "dispose" /\ r.t = t
    \/ Excused({"dropped", "drained", "late"})
EveryPtyIsOwned == \A t \in Terminal : IsOwned(t)

Gone(t) == pty[t].phase \in {"exited", "disposed"}

\* A pane that shows an exit shows the truth, unless a reconnect misread a
\* failure for one (wire.rs, resume); and what is said to exit is gone.
ExitIsTrue(t) ==
  /\ pane[t].exited => Gone(t) \/ Excused({"misread", "unseated"})
  /\ \A k \in Link : \A i \in DOMAIN taps[k][t] : taps[k][t][i] = Exit => Gone(t)

\* When nothing is under way the PTY has the geometry the pane has, though
\* resizes are dropped while no connection stands (wire.rs, terminal_resize).
Settled(t) ==
  /\ Up /\ opening[t].pc = "shown" /\ hanging[t] = "no" /\ pty[t].phase = "running" /\ seats[t] # NoSeat
  /\ ~\E r \in requests : r.t = t
GeometryIsTold(t) == Settled(t) => pty[t].size = seats[t] \/ Excused({"window", "overtaken"})

\* There is an active connection or one that resumes in its place; an open waits
\* on the active one, or on one that is dead; what is closed was dead.
LinksInOrder ==
  /\ links.active <= links.made /\ links.dead \subseteq 1..links.made /\ links.closed \subseteq links.dead
  /\ (links.active = NoLink) <=> (resume.link # NoLink)
  /\ (resume.pc = "none") <=> (resume.link = NoLink)
  /\ resume.link <= links.made
  /\ resume.link # NoLink => resume.previous \in links.dead
  /\ resume.pc = "orphans" => resume.todo = {}
  /\ resume.pc # "orphans" => resume.disposing = {}
  /\ \A t \in Terminal : opening[t].link \in {NoLink, links.active} \cup links.dead

\* The terminal is new to the connection.
NewTo(t, k) == k \notin viewers[t] /\ taps[k][t] = <<>>

\* A terminal is asked for once in its life, so that the host never makes a
\* second PTY of the name ...
CreatedOnce(t) ==
  /\ opening[t].pc \in {"no", "wait"} =>
       pty[t].phase = "none" /\ ~\E r \in requests : r.kind = "create" /\ r.t = t
  /\ \A r \in requests : r.kind = "create" /\ r.t = t =>
       pty[t].phase = "none" /\ r.size = 1 /\ \A q \in requests : q.kind = "create" /\ q.t = t => q = r

\* ... and attached to a connection at most once, so that nothing said is left
\* in the stream of one that is to attach it.
AttachedOnce(t) ==
  /\ pty[t].phase = "none" => opening[t].pc # "shown" /\ \A k \in Link : NewTo(t, k)
  /\ opening[t].pc = "create" /\ Alive(opening[t].link) => \A k \in Link : NewTo(t, k)
  /\ hanging[t] # "no" => opening[t].pc \in {"shown", "failed"}
  /\ hanging[t] = "done" => \A k \in Link : NewTo(t, k)
  /\ resume.pc = "dialed" \/ (resume.pc = "attach" /\ t \in resume.todo) => NewTo(t, resume.link)
  /\ \A k \in Link : k > links.made => NewTo(t, k)

\* What the stream of a pane's connection holds continues its grid, and holds
\* all that the grid lacks while the connection has its row.
StreamContinues(t) ==
  LET k == pane[t].link IN k # NoLink /\ ~Excused({"stale"}) =>
    /\ \A i \in DOMAIN taps[k][t] :
         taps[k][t][i] = Len(pane[t].grid) + i \/ (taps[k][t][i] = Exit /\ i = Len(taps[k][t]))
    /\ pty[t].phase = "running" /\ k \in viewers[t]
         => Len(pane[t].grid) + Len(taps[k][t]) = pty[t].chunks

\* Geometries only grow, so that none is told that is newer than the seat's ...
NoneIsNewer(t) ==
  /\ opening[t].pc = "no" => seats[t] = NoSeat /\ resume.told[t] = NoSeat
  /\ opening[t].pc # "shown" => seats[t] <= 1 /\ resume.told[t] <= 1 /\ (Knows(t) => pty[t].size = 1)
  /\ seats[t] # NoSeat => resume.told[t] <= seats[t]
  /\ t \in resume.todo => resume.told[t] # NoSeat
  /\ \A r \in requests : r.t = t /\ r.kind = "resize" =>
       (opening[t].pc # "shown" => r.size = 1) /\ (seats[t] # NoSeat => r.size <= seats[t])

\* ... and the seat's is the PTY's, or is asked for on the connection there is,
\* or will be by the one that resumes.
Told(t, k) ==
  \/ pty[t].size = seats[t]
  \/ \E r \in requests : r.kind = "resize" /\ r.t = t /\ r.link = k /\ r.size = seats[t]
SeatIsTold(t) ==
  opening[t].pc = "shown" /\ Knows(t) /\ seats[t] # NoSeat /\ ~Excused({"window", "overtaken"}) =>
    /\ Up => Told(t, links.active)
    /\ resume.pc \in {"attach", "orphans"} /\ Alive(resume.link) =>
         Told(t, resume.link) \/ (t \in resume.todo /\ resume.told[t] = seats[t])

\* The types, what a pane and its PTY believe of each other, and why.
TermInv ==
  /\ TermTypeOK /\ LinksInOrder
  /\ \A t \in Terminal :
       /\ ExitIsTrue(t) /\ GeometryIsTold(t)
       /\ CreatedOnce(t) /\ AttachedOnce(t) /\ StreamContinues(t) /\ NoneIsNewer(t) /\ SeatIsTold(t)

\* An open pane gets all that is said, whatever happened to its connections.
Follows(t) == opening[t].pc = "shown" /\ hanging[t] = "no" /\ causes = {}
PaneCatchesUp ==
  \A t \in Terminal : Follows(t) ~> (~Follows(t) \/ Len(pane[t].grid) = pty[t].chunks)

\* What was hung up, or could not be opened, does not run for ever.
GivenUp(t) == opening[t].pc = "failed" \/ hanging[t] = "done"
DisposedEnds ==
  \A t \in Terminal : (GivenUp(t) /\ causes = {}) ~> (causes # {} \/ pty[t].phase # "running")

\* Whatever became of the connections, panes are served and PTYs given up end.
TerminalsComeRight == PaneCatchesUp /\ DisposedEnds

\* wire.rs 2446-2448: the seat is on record from the first ask, and a reconnect
\* that lands mid-open attaches it again like any other.  Not what happens: the
\* host does not know it yet, and the reconnect takes the seat away.
OpenKeepsItsSeat == "unseated" \notin causes

\* wire.rs 2517-2519: a resize that cannot be sent is told by the reconnect,
\* never lost.  Not what happens to one that comes after the seats were read
\* and before the connection is the active one.
ResizeIsNeverLost == "window" \notin causes

\* wire.rs 617-625: what feeds a pane stops when its connection is given up.
\* Not so a terminal's pump: until the socket closes it doubles what is said.
DeadPumpsAreSilent == "stale" \notin causes

\* wire.rs 2548-2551: the next connection retires the PTY of a pane that was closed
\* in an outage.  Not if it dies over it: the list of orphans was emptied before.
NextLinkRetires ==
  \A t \in Terminal : pty[t].phase = "running" /\ hanging[t] = "done" /\ Up =>
    Excused({"dropped", "late", "kept"}) \/ \E r \in requests : r.kind = "dispose" /\ r.t = t
=============================================================================
