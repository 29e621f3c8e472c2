----------------------------- MODULE ChatTurns -----------------------------
(***************************************************************************)
(* The turns of one chat: what clients dispatch to the host, the host's    *)
(* queue and the agent processes that answer                               *)
(* (backend/agent-host/src/server.rs, claude.rs, codex.rs).                *)
(*                                                                         *)
(* A connection reads one dispatch at a time and runs it to its end; a     *)
(* drained prompt runs as a task of its own, and every agent has a pump    *)
(* that takes what its process says.  These are the lanes below.  A step   *)
(* of a lane is what it does under one lock, or between two awaits.        *)
(*                                                                         *)
(* External, as the comments of claude.rs and codex.rs have them: the      *)
(* reducer of the chat (a start makes its turn the active one, an end      *)
(* closes it if it is), and the processes.  A process reads its input in   *)
(* order; a prompt that comes while Claude's runs joins that run, and the  *)
(* two get one result.                                                     *)
(***************************************************************************)
EXTENDS Naturals, Sequences, FiniteSets, SequencesExt

CONSTANTS
  Conn,          \* connections of clients
  Providers,     \* "claude", "codex"
  MaxStarts,     \* bound: turns that clients start
  MaxAgents,     \* bound: processes spawned
  MaxEvents      \* bound: cancels, changes of settings, wake-ups, deaths, messages
                 \* queued by a client, spawns that fail, turns that err, disposal

ASSUME TurnsAssumption ==
  /\ Providers \subseteq {"claude", "codex"}
  /\ {MaxStarts, MaxAgents, MaxEvents} \subseteq Nat

VARIABLES
  chat,       \* the chat's entry and the state its reducer made
  settings,   \* the manifest's flags: a number that a change increases
  provider,   \* the session's provider
  agents,     \* the processes spawned so far
  task,       \* what each lane but the pumps is doing
  spent,      \* what of the bounds has been used
  raced,      \* history: which races have happened
  misfiled,   \* history: turns ended by a result that was not theirs
  began       \* history: began[t]: the settings when turn t was started

turnVars == <<chat, settings, provider, agents, task, spent, raced, misfiled, began>>

Drainer  == "drain"
Lanes    == Conn \cup {Drainer}

\* A turn's id is minted once: by a client, for a message that a pump drains, or
\* for a run that a process starts itself.
NoTurn   == <<0, 0>>
Turn     == ((0..MaxStarts) \X (0..MaxAgents)) \ {NoTurn}
Given(n) == <<n, 0>>
Sent     == {Given(n) : n \in 1..MaxStarts}
Drained(m, a) == <<m[1], a>>
Woken(a) == <<0, a>>

Cause == {"orphaned", "twice", "disposed", "collided", "overtaken", "early", "woken",
          "late", "unqueued", "purged", "stale", "skipped", "failed", "paused", "bare", "behind"}

Idle   == [pc |-> "idle", turn |-> NoTurn, agent |-> 0, with |-> 0, of |-> ""]
Rest   == [pc |-> "rest", turn |-> NoTurn, how |-> "", ids |-> {}]
Closed == [open |-> FALSE, active |-> NoTurn, queue |-> <<>>, prompts |-> {}, agent |-> 0, retire |-> FALSE]

Pending(t, held) == [id |-> t, cancelled |-> FALSE, held |-> held, bound |-> NoTurn, told |-> FALSE]
Spawned(with, of) ==
  [of |-> of, with |-> with, turns |-> <<>>, stdin |-> "free", dead |-> FALSE,
   pump |-> Rest, over |-> FALSE, inbox |-> <<>>, run |-> {}, out |-> <<>>]

Pended  == [id : Turn, cancelled : BOOLEAN, held : BOOLEAN, bound : Turn \cup {NoTurn}, told : BOOLEAN]
Line    == [word : {"prompt", "interrupt"}, turn : Turn]
Answer  == [word : {"start", "result", "rejected"}, turns : (SUBSET (Turn \cup {NoTurn})) \ {{}},
            how : {"", "done", "error", "interrupted"}]
Pumping == [pc : {"rest", "apply", "drain", "purge", "after", "start", "write", "tell", "telling"},
            turn : Turn \cup {NoTurn}, how : {"", "done", "error", "interrupted"}, ids : SUBSET Sent]
Process == [of : Providers, with : 0..MaxEvents, turns : Seq(Pended), stdin : {"free", "taken", "shut"},
            dead : BOOLEAN, pump : Pumping, over : BOOLEAN, inbox : Seq(Line),
            run : SUBSET (Turn \cup {NoTurn}), out : Seq(Answer)]
Doing   == [pc : {"idle", "queue", "begin", "ensure", "spawn", "push", "send", "write",
                  "unqueue", "mark", "tell", "telling"},
            turn : Turn \cup {NoTurn}, agent : 0..MaxAgents, with : 0..MaxEvents, of : Providers \cup {""}]
Chat    == [open : BOOLEAN, active : Turn \cup {NoTurn}, queue : Seq(Sent), prompts : SUBSET Sent,
            agent : 0..MaxAgents, retire : BOOLEAN]

\* A lane or a pump that is under way has what it works on.
AtItsAgent == {"push", "send", "write", "tell", "telling"}
LanesAreAtWork ==
  \A l \in Lanes :
    /\ task[l].agent <= Len(agents)
    /\ task[l].pc \in AtItsAgent => task[l].agent # 0
    /\ task[l].pc # "idle" => task[l].turn # NoTurn
    /\ task[l].pc \in {"queue", "unqueue"} => task[l].turn \in Sent
    /\ task[l].pc = "spawn" => task[l].of \in Providers
PumpAtWork(agent) ==
  /\ agent.pump.pc = "drain" => agent.pump.turn \in Sent
  /\ agent.pump.pc \in {"apply", "start", "write", "tell", "telling"} => agent.pump.turn # NoTurn
  /\ agent.of = "codex" =>
       NoTurn \notin agent.run /\ \A i \in DOMAIN agent.out : NoTurn \notin agent.out[i].turns

TurnsTypeOK ==
  /\ chat \in Chat /\ chat.agent <= Len(agents)
  /\ provider \in Providers
  /\ agents \in Seq(Process) /\ Len(agents) <= MaxAgents
  /\ task \in [Lanes -> Doing]
  /\ LanesAreAtWork /\ \A a \in DOMAIN agents : PumpAtWork(agents[a])
  /\ spent \in [starts : 0..MaxStarts, events : 0..MaxEvents]
  /\ settings \in 0..spent.events
  /\ raced \subseteq Cause /\ misfiled \subseteq Turn
  /\ began \in [Turn -> 0..MaxEvents]

TurnsInit ==
  /\ chat = [Closed EXCEPT !.open = TRUE]
  /\ settings = 0
  /\ provider \in Providers
  /\ agents = <<>>
  /\ task = [l \in Lanes |-> Idle]
  /\ spent = [starts |-> 0, events |-> 0]
  /\ raced = {} /\ misfiled = {}
  /\ began = [t \in Turn |-> 0]

Event == spent.events < MaxEvents /\ spent' = [spent EXCEPT !.events = @ + 1]
Note(causes) == raced' = raced \cup causes
When(condition, cause) == IF condition THEN {cause} ELSE {}

-----------------------------------------------------------------------------
\* The chat's state.

Starts(c, t) == IF c.open THEN [c EXCEPT !.active = t] ELSE c
Ends(c, t)   == IF c.active = t THEN [c EXCEPT !.active = NoTurn] ELSE c

\* What a sequence has at some of its positions.
Only(s, at) ==
  LET kept[i \in 0..Len(s)] ==
        IF i = 0 THEN <<>> ELSE IF i \in at THEN Append(kept[i - 1], s[i]) ELSE kept[i - 1]
  IN  kept[Len(s)]

Without(c, ids) ==
  [c EXCEPT !.queue = Only(@, {i \in DOMAIN c.queue : c.queue[i] \notin ids}), !.prompts = @ \ ids]

BusyTurns(turns) == {i \in DOMAIN turns : ~turns[i].cancelled}
Busy(agent) == BusyTurns(agent.turns) # {}
LiveAgent == IF chat.agent = 0 THEN {} ELSE {chat.agent}

\* A process that is shut down is killed; its input is put back by a lane that
\* had taken it.
Shut(agent) == [agent EXCEPT !.stdin = "shut", !.over = TRUE, !.inbox = <<>>, !.run = {}]

RetiresNow(a) == agents[a].turns = <<>>

\* An idle agent is retired at once, a busy one after its turn.
RetiredChat(c) ==
  IF c.agent = 0 THEN c
  ELSE IF RetiresNow(c.agent) THEN [c EXCEPT !.agent = 0, !.retire = FALSE]
  ELSE [c EXCEPT !.retire = TRUE]

\* Mutant of RetiredAgents: the process is forgotten and runs on.
RetiredUnshut(c) == agents

RetiredAgents(c) ==
  IF c.agent = 0 \/ ~RetiresNow(c.agent) THEN agents
  ELSE [agents EXCEPT ![c.agent] = Shut(@)]

\* The settings change and the agent is retired, in one update.
Resettle(c) ==
  /\ settings' = settings + 1
  /\ chat' = RetiredChat(c)
  /\ agents' = RetiredAgents(c)

-----------------------------------------------------------------------------
\* A turn is started: dispatch(ChatTurnStarted), prompt, ensure_agent.

Goes(l, pc) == task' = [task EXCEPT ![l].pc = pc]
Done(l)     == task' = [task EXCEPT ![l] = Idle]

StartTurn(l) ==
  /\ task[l].pc = "idle" /\ chat.open
  /\ spent.starts < MaxStarts
  /\ spent' = [spent EXCEPT !.starts = @ + 1]
  /\ task' = [task EXCEPT ![l] = [Idle EXCEPT !.turn = Given(spent'.starts),
                 !.pc = IF \E a \in LiveAgent : Busy(agents[a]) THEN "queue" ELSE "begin"]]
  /\ UNCHANGED <<chat, settings, provider, agents, raced, misfiled, began>>

\* Is a completion still to come that will drain the queue?
DrainComes == \E a \in DOMAIN agents : Busy(agents[a]) \/ (agents[a].pump.pc = "apply" /\ agents[a].pump.how = "done")

Waits(c, t) == [c EXCEPT !.queue = Append(@, t), !.prompts = @ \cup {t}]

\* A turn is live: it waits in the queue, its prompt expanded now.
QueueTurn(l) ==
  /\ task[l].pc = "queue"
  /\ chat' = IF chat.open THEN Waits(chat, task[l].turn) ELSE chat
  /\ Note(When(~DrainComes, "late"))
  /\ Done(l)
  /\ UNCHANGED <<settings, provider, agents, spent, misfiled, began>>

Begins(t) == began' = [began EXCEPT ![t] = settings']

\* None is: the message's model is honoured and the turn becomes the active one.
BeginTurn(l) ==
  /\ task[l].pc = "begin"
  /\ LET c == Starts(chat, task[l].turn) IN
       \/ chat' = c /\ UNCHANGED <<settings, agents, spent>>
       \/ chat.open /\ Event /\ Resettle(c)
  /\ Begins(task[l].turn)
  /\ Note(When(chat.active # NoTurn, "orphaned"))
  /\ Goes(l, "ensure")
  /\ UNCHANGED <<provider, misfiled>>

\* turn_failed: the error closes the turn and leaves the queue as it is.
TurnFailed(l) ==
  /\ chat' = Ends(chat, task[l].turn)
  /\ Note(When(chat.queue # <<>>, "failed"))
  /\ Done(l)

EnsureAgent(l) ==
  /\ task[l].pc = "ensure"
  /\ \/ /\ ~chat.open
        /\ TurnFailed(l)
     \/ /\ \E a \in LiveAgent : ~agents[a].dead
        /\ task' = [task EXCEPT ![l] = [task[l] EXCEPT !.pc = "push", !.agent = chat.agent]]
        /\ UNCHANGED <<chat, raced>>
     \/ /\ chat.open /\ \A a \in LiveAgent : agents[a].dead
        /\ task' = [task EXCEPT ![l] = [task[l] EXCEPT !.pc = "spawn", !.with = settings, !.of = provider]]
        /\ UNCHANGED <<chat, raced>>
  /\ UNCHANGED <<settings, provider, agents, spent, misfiled, began>>

\* The process is up and is made the chat's.  History: another may have been
\* made the chat's meanwhile, the settings changed, or the chat disposed.
SpawnAgent(l) ==
  /\ task[l].pc = "spawn" /\ Len(agents) < MaxAgents
  /\ agents' = Append(agents, Spawned(task[l].with, task[l].of))
  /\ IF chat.open
     THEN /\ chat' = [chat EXCEPT !.agent = Len(agents')]
          /\ task' = [task EXCEPT ![l] = [task[l] EXCEPT !.pc = "push", !.agent = Len(agents')]]
          /\ Note(When(\E a \in LiveAgent : ~agents[a].over, "twice") \cup When(task[l].with # settings, "stale"))
     ELSE /\ chat' = chat
          /\ Note({"disposed"})
          /\ Done(l)
  /\ UNCHANGED <<settings, provider, spent, misfiled, began>>

SpawnFails(l) ==
  /\ task[l].pc = "spawn" /\ Event
  /\ TurnFailed(l)
  /\ UNCHANGED <<settings, provider, agents, misfiled, began>>

Refuses(agent) == agent.dead \/ (agent.of = "claude" /\ Busy(agent))

\* The agent's own door, checked and passed under its lock.  Codex's holds a
\* prompt that comes behind another.
PushTurn(l) ==
  LET a == task[l].agent  agent == agents[a]  held == agent.of = "codex" /\ agent.turns # <<>> IN
  /\ task[l].pc = "push"
  /\ IF Refuses(agent)
     THEN TurnFailed(l) /\ UNCHANGED agents
     ELSE /\ agents' = [agents EXCEPT ![a].turns = Append(@, Pending(task[l].turn, held))]
          /\ Note(When(agent.with < began[task[l].turn] /\ ~agent.over /\ agent.pump.pc # "apply", "skipped"))
          /\ IF held THEN Done(l) ELSE Goes(l, "send")
          /\ UNCHANGED chat
  /\ UNCHANGED <<settings, provider, spent, misfiled, began>>

\* What the failure of a send takes back: its own turn, or codex's front.
TakenBack(agent, t) ==
  IF agent.of = "codex" THEN (IF agent.turns = <<>> THEN <<>> ELSE Tail(agent.turns))
  ELSE Only(agent.turns, {i \in DOMAIN agent.turns : agent.turns[i].id # t})

\* The input is taken out of its slot for the length of a write.
SendPrompt(l) ==
  LET a == task[l].agent IN
  /\ task[l].pc = "send"
  /\ IF agents[a].stdin = "free"
     THEN /\ agents' = [agents EXCEPT ![a].stdin = "taken"]
          /\ Goes(l, "write")
          /\ UNCHANGED <<chat, raced>>
     ELSE /\ agents' = [agents EXCEPT ![a].turns = TakenBack(agents[a], task[l].turn)]
          /\ chat' = Ends(chat, task[l].turn)
          /\ Note({"collided"})
          /\ Done(l)
  /\ UNCHANGED <<settings, provider, spent, misfiled, began>>

\* Lanes that are about to interrupt the process.
Telling(a) ==
  \/ \E l \in Lanes : task[l].agent = a /\ task[l].pc \in {"tell", "telling"}
  \/ agents[a].pump.pc \in {"tell", "telling"}

\* A turn cancelled behind another has no interrupt yet, and may still run.
Answered(agent, t) == \E j \in DOMAIN agent.out : agent.out[j].word = "result" /\ t \in agent.out[j].turns
Unsaid(agent) ==
  agent.of = "claude" /\ \E i \in DOMAIN agent.turns :
    LET turn == agent.turns[i] IN turn.cancelled /\ ~turn.told /\ ~Answered(agent, turn.id)

Says(agent, word) == IF agent.over THEN agent ELSE [agent EXCEPT !.inbox = Append(@, word)]
Prompt(t)    == [word |-> "prompt", turn |-> t]
Interrupt(t) == [word |-> "interrupt", turn |-> t]

\* The write ends and the slot is filled again, also after a shutdown.
PromptWritten(l) ==
  LET a == task[l].agent  t == task[l].turn  agent == [agents[a] EXCEPT !.stdin = "free"] IN
  /\ task[l].pc = "write"
  /\ IF agent.over
     THEN /\ agents' = [agents EXCEPT ![a] = [agent EXCEPT !.turns = TakenBack(agent, t)]]
          /\ TurnFailed(l)
     ELSE /\ agents' = [agents EXCEPT ![a] = Says(agent, Prompt(t))]
          /\ Note(When(Telling(a), "overtaken") \cup When(Unsaid(agent), "behind"))
          /\ Done(l)
          /\ UNCHANGED chat
  /\ UNCHANGED <<settings, provider, spent, misfiled, began>>

-----------------------------------------------------------------------------
Position(turns, t) == {i \in DOMAIN turns : turns[i].id = t}

\* What a client may still have on its screen: the chat's turns and messages, and
\* the turns that were the chat's and that somebody works on.
Heeded(t) ==
  \/ t = chat.active \/ t \in Range(chat.queue)
  \/ \E l \in Lanes : task[l].turn = t
  \/ \E a \in DOMAIN agents : Position(agents[a].turns, t) # {}

\* A turn is cancelled: dispatch(ChatTurnCancelled), unqueue, interrupt.  It may have
\* been orphaned, or be cancelled for the second time: nobody looks.
CancelTurn(l, t) ==
  /\ task[l].pc = "idle" /\ Event /\ Heeded(t)
  /\ IF t \in Range(chat.queue)
     THEN task' = [task EXCEPT ![l] = [Idle EXCEPT !.turn = t, !.pc = "unqueue"]] /\ UNCHANGED chat
     ELSE task' = [task EXCEPT ![l] = [Idle EXCEPT !.turn = t, !.pc = "mark"]] /\ chat' = Ends(chat, t)
  /\ Note({"paused"})
  /\ UNCHANGED <<settings, provider, agents, misfiled, began>>

Unqueue(l) ==
  /\ task[l].pc = "unqueue"
  /\ chat' = Without(chat, {task[l].turn})
  /\ Note(When(task[l].turn \notin Range(chat.queue), "unqueued"))
  /\ Done(l)
  /\ UNCHANGED <<settings, provider, agents, spent, misfiled, began>>

\* Mutant of Marked: the front is told but not marked.
MarkedTold(agent, i) ==
  IF agent.of = "codex" /\ i # 1 THEN [agent EXCEPT !.turns = Only(@, DOMAIN @ \ {i})]
  ELSE [agent EXCEPT !.turns[i].told = TRUE]

\* Claude: the turn is marked, and interrupted if it is the front.  Codex: one
\* that is held leaves, the front is interrupted once the process has named it.
Marked(agent, i) ==
  IF agent.of = "codex" /\ i # 1 THEN [agent EXCEPT !.turns = Only(@, DOMAIN @ \ {i})]
  ELSE LET turn == agent.turns[i] IN
       [agent EXCEPT !.turns = [agent.turns EXCEPT ![i] =
          [turn EXCEPT !.cancelled = TRUE, !.told = turn.told \/ (agent.of = "claude" /\ i = 1) \/ turn.bound # NoTurn]]]
TellsNow(agent, i) ==
  i = 1 /\ (agent.of = "claude" \/ (agent.turns[1].bound # NoTurn /\ ~agent.turns[1].told))

MarkTurn(l) ==
  LET t == task[l].turn IN
  /\ task[l].pc = "mark"
  /\ IF \E a \in LiveAgent : Position(agents[a].turns, t) # {}
     THEN LET a == chat.agent  i == CHOOSE i \in Position(agents[a].turns, t) : TRUE IN
            /\ agents' = [agents EXCEPT ![a] = Marked(@, i)]
            /\ task' = IF TellsNow(agents[a], i) THEN [task EXCEPT ![l] = [task[l] EXCEPT !.pc = "tell", !.agent = a]]
                       ELSE [task EXCEPT ![l] = Idle]
            /\ UNCHANGED raced
     ELSE /\ Note(When(\E k \in Lanes : k # l /\ task[k].turn = t, "early"))
          /\ Done(l)
          /\ UNCHANGED agents
  /\ UNCHANGED <<chat, settings, provider, spent, misfiled, began>>

\* An interrupt that finds the input taken is lost, and nobody is told.
TellInterrupt(l) ==
  LET a == task[l].agent IN
  /\ task[l].pc = "tell"
  /\ IF agents[a].stdin = "free"
     THEN agents' = [agents EXCEPT ![a].stdin = "taken"] /\ Goes(l, "telling") /\ UNCHANGED raced
     ELSE Done(l) /\ Note(When(agents[a].stdin = "taken", "collided")) /\ UNCHANGED agents
  /\ UNCHANGED <<chat, settings, provider, spent, misfiled, began>>

Unwritten(a, t) == \E l \in Lanes : task[l].agent = a /\ task[l].turn = t /\ task[l].pc \in {"send", "write"}

InterruptTold(l) ==
  LET a == task[l].agent  t == task[l].turn IN
  /\ task[l].pc = "telling"
  /\ agents' = [agents EXCEPT ![a] = Says([agents[a] EXCEPT !.stdin = "free"], Interrupt(t))]
  /\ Note(When(Unwritten(a, t), "early"))
  /\ Done(l)
  /\ UNCHANGED <<chat, settings, provider, spent, misfiled, began>>

-----------------------------------------------------------------------------
\* The session and the chat around its turns.

\* A directory, a permission mode, a model: mutate_session.  Or the provider.
ChangeSettings ==
  /\ chat.open /\ Event
  /\ Resettle(chat)
  /\ provider' \in Providers
  /\ UNCHANGED <<task, raced, misfiled, began>>

\* A client queues a message of its own: no prompt is stored for it.
QueueMessage ==
  /\ chat.open
  /\ spent.starts < MaxStarts
  /\ spent' = [spent EXCEPT !.starts = @ + 1]
  /\ chat' = [chat EXCEPT !.queue = Append(@, Given(spent'.starts))]
  /\ Note({"bare"})
  /\ UNCHANGED <<settings, provider, agents, task, misfiled, began>>

DisposeSession ==
  /\ chat.open /\ Event
  /\ chat' = Closed
  /\ agents' = [a \in DOMAIN agents |-> IF a \in LiveAgent THEN Shut(agents[a]) ELSE agents[a]]
  /\ UNCHANGED <<settings, provider, task, raced, misfiled, began>>

-----------------------------------------------------------------------------
\* The processes.

Heard(word, turns, how) == [word |-> word, turns |-> turns, how |-> how]
Ended(agent, how) == [agent EXCEPT !.run = {}, !.out = Append(@, Heard("result", agent.run, how))]

\* Claude: a prompt joins the run there is.  Codex: it is the run.
Reads(agent, w) ==
  IF w.word = "prompt"
  THEN [agent EXCEPT !.run = IF agent.of = "claude" THEN @ \cup {w.turn} ELSE {w.turn},
                     !.out = IF agent.run = {} THEN Append(@, Heard("start", {w.turn}, "")) ELSE @]
  ELSE IF agent.run # {} /\ (agent.of = "claude" \/ w.turn \in agent.run) THEN Ended(agent, "interrupted")
  ELSE agent

ProcessReads(a) ==
  /\ agents[a].inbox # <<>>
  /\ agents' = [agents EXCEPT ![a] = Reads([agents[a] EXCEPT !.inbox = Tail(@)], Head(agents[a].inbox))]
  /\ UNCHANGED <<chat, settings, provider, task, spent, raced, misfiled, began>>

ProcessAnswers(a) ==
  /\ agents[a].run # {}
  /\ agents' = [agents EXCEPT ![a] = Ended(@, "done")]
  /\ UNCHANGED <<chat, settings, provider, task, spent, raced, misfiled, began>>

ProcessErrs(a) ==
  /\ agents[a].run # {} /\ Event
  /\ agents' = [agents EXCEPT ![a] = Ended(@, "error")]
  /\ UNCHANGED <<chat, settings, provider, task, raced, misfiled, began>>

\* Codex refuses a turn/start.
ProcessRejects(a) ==
  /\ agents[a].of = "codex" /\ agents[a].inbox # <<>> /\ Event
  /\ LET w == Head(agents[a].inbox) IN
       /\ w.word = "prompt"
       /\ agents' = [agents EXCEPT ![a].inbox = Tail(@), ![a].out = Append(@, Heard("rejected", {w.turn}, "error"))]
  /\ UNCHANGED <<chat, settings, provider, task, raced, misfiled, began>>

\* Claude starts a run of its own.
ProcessWakes(a) ==
  /\ agents[a].of = "claude" /\ ~agents[a].over /\ agents[a].run = {} /\ Event
  /\ agents' = [agents EXCEPT ![a].run = {NoTurn}, ![a].out = Append(@, Heard("start", {NoTurn}, ""))]
  /\ UNCHANGED <<chat, settings, provider, task, raced, misfiled, began>>

ProcessDies(a) ==
  /\ ~agents[a].over /\ Event
  /\ agents' = [agents EXCEPT ![a].over = TRUE, ![a].inbox = <<>>, ![a].run = {}]
  /\ UNCHANGED <<chat, settings, provider, task, raced, misfiled, began>>

-----------------------------------------------------------------------------
\* The pumps: what a process says, and what the host makes of it.

Pumps(pc, turn, how, ids) == [pc |-> pc, turn |-> turn, how |-> how, ids |-> ids]
Hears(a, word) == agents[a].pump.pc = "rest" /\ agents[a].out # <<>> /\ Head(agents[a].out).word = word
Taken(a)  == [agents[a] EXCEPT !.out = Tail(@)]
At(a, pc) == agents[a].pump.pc = pc

\* Claude: a run that nobody asked for is adopted as a turn.
AdoptWakeTurn(a) ==
  /\ Hears(a, "start") /\ agents[a].of = "claude"
  /\ IF agents[a].turns = <<>>
     THEN /\ agents' = [agents EXCEPT ![a] = [Taken(a) EXCEPT !.turns = <<Pending(Woken(a), FALSE)>>]]
          /\ chat' = Starts(chat, Woken(a))
          /\ Note(When(chat.active # NoTurn, "orphaned"))
     ELSE /\ agents' = [agents EXCEPT ![a] = Taken(a)]
          /\ UNCHANGED <<chat, raced>>
  /\ UNCHANGED <<settings, provider, task, spent, misfiled, began>>

\* Codex: the front learns its name, and a cancel that waited for it goes out.
BindTurn(a) ==
  LET turns == agents[a].turns  waits == turns # <<>> /\ turns[1].cancelled /\ ~turns[1].told
      named == CHOOSE t \in Head(agents[a].out).turns : TRUE IN
  /\ Hears(a, "start") /\ agents[a].of = "codex"
  /\ agents' = [agents EXCEPT ![a] =
       [Taken(a) EXCEPT !.turns = IF turns = <<>> THEN turns
                                  ELSE [turns EXCEPT ![1].bound = IF @ = NoTurn THEN named ELSE @, ![1].told = @ \/ waits],
                        !.pump = IF waits THEN Pumps("tell", named, "", {}) ELSE Rest]]
  /\ UNCHANGED <<chat, settings, provider, task, spent, raced, misfiled, began>>

\* Mutant of Popped: the turn is looked up by what the result is of.
PoppedLast(turns) == Front(turns)

\* The front is what a result is taken to be of.
Popped(turns) == IF turns = <<>> THEN turns ELSE Tail(turns)

\* Is the message of the front's?  Claude does not look, codex does.
Fits(agent, heard) ==
  IF agent.of = "claude" THEN TRUE
  ELSE IF heard.word = "rejected" THEN agent.turns # <<>> /\ agent.turns[1].id \in heard.turns
  ELSE agent.turns = <<>> \/ agent.turns[1].bound \in heard.turns \cup {NoTurn}

\* A cancelled turn ends without a word to the host.
TakeResult(a) ==
  LET heard == Head(agents[a].out)  turns == agents[a].turns
      front == IF turns = <<>> THEN Pending(NoTurn, FALSE) ELSE turns[1] IN
  /\ Hears(a, "result") \/ Hears(a, "rejected")
  /\ IF Fits(agents[a], heard)
     THEN /\ agents' = [agents EXCEPT ![a] =
               [Taken(a) EXCEPT !.turns = Popped(@),
                                !.pump = IF front.id = NoTurn \/ front.cancelled THEN Pumps("after", NoTurn, "", {})
                                         ELSE Pumps("apply", front.id, heard.how, {})]]
          /\ misfiled' = IF front.id = NoTurn \/ front.id \in heard.turns \/ (NoTurn \in heard.turns /\ front.id = Woken(a))
                         THEN misfiled ELSE misfiled \cup {front.id}
          /\ Note(When(NoTurn \in heard.turns /\ front.id # Woken(a), "woken"))
     ELSE agents' = [agents EXCEPT ![a] = Taken(a)] /\ UNCHANGED <<misfiled, raced>>
  /\ UNCHANGED <<chat, settings, provider, task, spent, began>>

\* Mutant of Follows: only an error looks at the queue.
FollowsError(how, queue) ==
  IF queue # <<>> /\ how = "error" THEN "purge" ELSE "after"

\* What an end does to the queue that is read behind it.
Follows(how, queue) ==
  IF queue = <<>> THEN "after"
  ELSE CASE how = "done" -> "drain" [] how = "error" -> "purge" [] OTHER -> "after"

\* agent_action: the turn ends, and an agent that was to be retired after it is.
ApplyEnd(a) ==
  LET p == agents[a].pump  ended == Ends(chat, p.turn)
      head == IF chat.queue = <<>> THEN NoTurn ELSE Head(chat.queue)
      next == Pumps(Follows(p.how, chat.queue), head, "", Range(chat.queue)) IN
  /\ At(a, "apply")
  /\ chat' = IF chat.retire THEN RetiredChat(ended) ELSE ended
  /\ agents' = [(IF chat.retire THEN RetiredAgents(chat) ELSE agents) EXCEPT ![a].pump = next]
  /\ UNCHANGED <<settings, provider, task, spent, raced, misfiled, began>>

\* The head that was read becomes the next turn, prompted by a task of its own.
\* Its model is honoured.
DrainQueue(a) ==
  LET m == agents[a].pump.turn  c == Starts(Without(chat, {m}), Drained(m, a))
      moved(now) == [now EXCEPT ![a].pump = Pumps("after", NoTurn, "", {})] IN
  /\ At(a, "drain") /\ task[Drainer].pc = "idle"
  /\ \/ chat' = c /\ agents' = moved(agents) /\ UNCHANGED <<settings, spent>>
     \/ chat.open /\ Event /\ settings' = settings + 1 /\ chat' = RetiredChat(c) /\ agents' = moved(RetiredAgents(c))
  /\ Begins(Drained(m, a))
  /\ task' = [task EXCEPT ![Drainer] = [Idle EXCEPT !.pc = "ensure", !.turn = Drained(m, a)]]
  /\ Note(When(m \notin Range(chat.queue), "unqueued") \cup When(chat.active # NoTurn, "orphaned"))
  /\ UNCHANGED <<provider, misfiled>>

\* All stored prompts go, and the messages that were read.
PurgeQueue(a) ==
  LET ids == agents[a].pump.ids IN
  /\ At(a, "purge")
  /\ chat' = [Without(chat, ids) EXCEPT !.prompts = {}]
  /\ agents' = [agents EXCEPT ![a].pump = Pumps("after", NoTurn, "", {})]
  /\ Note(When(Range(chat.queue) \ ids # {}, "purged"))
  /\ UNCHANGED <<settings, provider, task, spent, misfiled, began>>

\* Claude: a cancelled turn that has come to the front is interrupted.  Codex:
\* a held one is started.
AfterResult(a) ==
  LET turns == agents[a].turns  tells == agents[a].of = "claude" /\ turns[1].cancelled IN
  /\ At(a, "after")
  /\ agents' = [agents EXCEPT ![a] =
       IF turns = <<>> THEN [agents[a] EXCEPT !.pump = Rest]
       ELSE [agents[a] EXCEPT !.pump = IF tells THEN Pumps("tell", turns[1].id, "", {})
                                       ELSE IF turns[1].held THEN Pumps("start", turns[1].id, "", {}) ELSE Rest,
                              !.turns = [turns EXCEPT ![1] =
                                [turns[1] EXCEPT !.held = FALSE, !.told = turns[1].told \/ tells]]]]
  /\ UNCHANGED <<chat, settings, provider, task, spent, raced, misfiled, began>>

\* The pump's own sends.
PumpTakesInput(a) ==
  /\ At(a, "tell") \/ At(a, "start")
  /\ LET starts == At(a, "start")  p == agents[a].pump IN
       IF agents[a].stdin = "free"
       THEN /\ agents' = [agents EXCEPT ![a] =
                 [agents[a] EXCEPT !.stdin = "taken", !.pump = [p EXCEPT !.pc = IF starts THEN "write" ELSE "telling"]]]
            /\ UNCHANGED raced
       ELSE /\ agents' = [agents EXCEPT ![a] =
                 IF starts THEN [agents[a] EXCEPT !.turns = Popped(@), !.pump = Pumps("apply", p.turn, "error", {})]
                 ELSE [agents[a] EXCEPT !.pump = Rest]]
            /\ Note(When(agents[a].stdin = "taken", "collided"))
  /\ UNCHANGED <<chat, settings, provider, task, spent, misfiled, began>>

PumpWrites(a) ==
  LET p == agents[a].pump  freed == [agents[a] EXCEPT !.stdin = "free", !.pump = Rest] IN
  /\ At(a, "telling") \/ At(a, "write")
  /\ agents' = [agents EXCEPT ![a] =
       IF At(a, "telling") THEN Says(freed, Interrupt(p.turn))
       ELSE IF freed.over THEN [freed EXCEPT !.turns = Popped(@), !.pump = Pumps("apply", p.turn, "error", {})]
       ELSE Says(freed, Prompt(p.turn))]
  /\ Note(When(At(a, "telling") /\ Unwritten(a, p.turn), "early"))
  /\ UNCHANGED <<chat, settings, provider, task, spent, misfiled, began>>

\* Mutant of Fails: the turns go without a word.
FailsNone(agent) == {}

\* Codex's cancelled turns go without a word.
Fails(agent) ==
  {agent.turns[i].id : i \in {i \in DOMAIN agent.turns : agent.of = "claude" \/ ~agent.turns[i].cancelled}}

\* A process that has ended fails the turns it had.
StreamEnds(a) ==
  LET agent == agents[a]
      failed == Fails(agent)
      closed == IF chat.active \in failed THEN Ends(chat, chat.active) ELSE chat
      gone   == [agents EXCEPT ![a] = [agent EXCEPT !.dead = TRUE, !.turns = <<>>]] IN
  /\ agent.over /\ ~agent.dead /\ agent.out = <<>> /\ At(a, "rest")
  /\ IF failed = {} THEN agents' = gone /\ UNCHANGED chat
     ELSE LET retires == chat.retire /\ chat.agent # 0 /\ (chat.agent = a \/ RetiresNow(chat.agent))
              purges  == Pumps(IF chat.queue = <<>> THEN "rest" ELSE "purge", NoTurn, "", Range(chat.queue)) IN
            /\ chat' = IF retires THEN [closed EXCEPT !.agent = 0, !.retire = FALSE] ELSE closed
            /\ agents' = [(IF retires THEN [gone EXCEPT ![chat.agent] = Shut(@)] ELSE gone) EXCEPT ![a].pump = purges]
  /\ UNCHANGED <<settings, provider, task, spent, raced, misfiled, began>>

-----------------------------------------------------------------------------
LaneNext(l) ==
  \/ QueueTurn(l) \/ BeginTurn(l) \/ EnsureAgent(l) \/ SpawnAgent(l)
  \/ PushTurn(l) \/ SendPrompt(l) \/ PromptWritten(l)
  \/ Unqueue(l) \/ MarkTurn(l) \/ TellInterrupt(l) \/ InterruptTold(l)

PumpNext(a) ==
  \/ AdoptWakeTurn(a) \/ BindTurn(a) \/ TakeResult(a) \/ ApplyEnd(a) \/ DrainQueue(a) \/ PurgeQueue(a)
  \/ AfterResult(a) \/ PumpTakesInput(a) \/ PumpWrites(a) \/ StreamEnds(a)

ProcessNext(a) == ProcessReads(a) \/ ProcessAnswers(a)

TurnsNext ==
  \/ \E l \in Conn : StartTurn(l) \/ \E t \in Turn : CancelTurn(l, t)
  \/ \E l \in Lanes : LaneNext(l) \/ SpawnFails(l)
  \/ \E a \in DOMAIN agents :
       PumpNext(a) \/ ProcessNext(a) \/ ProcessErrs(a) \/ ProcessRejects(a) \/ ProcessWakes(a) \/ ProcessDies(a)
  \/ ChangeSettings \/ QueueMessage \/ DisposeSession

TurnsSpec     == TurnsInit /\ [][TurnsNext]_turnVars
FairTurnsSpec ==
  /\ TurnsSpec
  /\ \A l \in Lanes : WF_turnVars(LaneNext(l))
  /\ \A a \in 1..MaxAgents : WF_turnVars(a \in DOMAIN agents /\ PumpNext(a))
                          /\ WF_turnVars(a \in DOMAIN agents /\ ProcessNext(a))

-----------------------------------------------------------------------------
Raced(causes) == raced \cap causes # {}

\* Where a turn can be: in a lane that starts it or writes its prompt, among the
\* turns of a process, in a pump that starts or ends it.
Starting == {"queue", "begin", "ensure", "spawn", "push"}
Sending  == {"send", "write"}
Closing  == {"start", "write", "apply"}
Used ==
  {t \in Turn :
     \/ \E l \in Lanes : task[l].pc \in Starting \cup Sending /\ task[l].turn = t
     \/ \E a \in DOMAIN agents : \E i \in DOMAIN agents[a].turns : agents[a].turns[i].id = t
     \/ \E a \in DOMAIN agents : agents[a].pump.pc \in Closing /\ agents[a].pump.turn = t}

\* What is there was minted, a turn of a process's own by that process.
Minted(a) == {t \in Turn : t[1] <= spent.starts /\ (t[1] = 0 => t = Woken(a))}
IdsAreMinted ==
  /\ \A l \in Lanes : task[l].pc \in Starting \cup Sending => task[l].turn[1] \in 1..spent.starts
  /\ \A a \in DOMAIN agents :
       /\ \A i \in DOMAIN agents[a].turns : agents[a].turns[i].id \in Minted(a)
       /\ agents[a].pump.pc \in Closing => agents[a].pump.turn \in Minted(a)
       /\ agents[a].pump.pc = "drain" => agents[a].pump.turn[1] <= spent.starts
  /\ \A i \in DOMAIN chat.queue : chat.queue[i][1] <= spent.starts

\* A message that waits, or was read to be drained, has not been drained by that pump.
UndrainedWait ==
  /\ \A l \in Lanes : task[l].pc = "queue" =>
       /\ \A a \in 1..MaxAgents : Drained(task[l].turn, a) \notin Used
       /\ \A i \in DOMAIN chat.queue : chat.queue[i] # task[l].turn
       /\ \A a \in DOMAIN agents : agents[a].pump.pc = "drain" => agents[a].pump.turn # task[l].turn
  /\ \A i \in DOMAIN chat.queue : \A a \in 1..MaxAgents : Drained(chat.queue[i], a) \notin Used
  /\ \A a \in DOMAIN agents : agents[a].pump.pc = "drain" => Drained(agents[a].pump.turn, a) \notin Used

\* A turn is in one place, but for the one that is written or started at its process.
TurnsHaveOnePlace ==
  /\ \A l, k \in Lanes :
       {task[l].pc, task[k].pc} \subseteq Starting \cup Sending /\ task[l].turn = task[k].turn => l = k
  /\ \A l \in Lanes : \A a \in DOMAIN agents :
       /\ task[l].pc \in Starting /\ agents[a].pump.pc \in Closing => agents[a].pump.turn # task[l].turn
       /\ \A i \in DOMAIN agents[a].turns : agents[a].turns[i].id = task[l].turn =>
            /\ task[l].pc \notin Starting
            /\ task[l].pc \in Sending => a = task[l].agent /\ (agents[a].of = "codex" => i = 1)
  /\ \A a, b \in DOMAIN agents : \A i \in DOMAIN agents[a].turns :
       /\ \A j \in DOMAIN agents[b].turns : agents[a].turns[i].id = agents[b].turns[j].id => a = b /\ i = j
       /\ agents[b].pump.pc \in Closing /\ agents[a].turns[i].id = agents[b].pump.turn =>
            a = b /\ i = 1 /\ agents[b].pump.pc # "apply"

TurnsAreKnownApart == IdsAreMinted /\ UndrainedWait /\ TurnsHaveOnePlace

\* A claude process is never given a second live prompt (claude.rs, prompt and
\* busy): whoever prompts it, the check and the push are one.
OneLiveTurnAProcess ==
  \A a \in DOMAIN agents : agents[a].of = "claude" => Cardinality(BusyTurns(agents[a].turns)) <= 1

\* A result ends the turn that it answers, although it names none and a
\* cancelled turn stays in front of the next until its own result: unless an
\* interrupt was lost or came in the wrong order with a prompt, or the process
\* woke by itself (claude.rs, turns and result).
AnswersLandOnTheirTurn == misfiled = {} \/ Raced({"collided", "overtaken", "early", "woken", "behind"})

\* What the chat's agent is working on is the chat's active turn, or a cancel is
\* on its way to it (server.rs, dispatch, prompt and agent_action).
Marking == {t \in Turn : \E l \in Lanes : task[l].pc = "mark" /\ task[l].turn = t}
LiveTurnIsActive ==
  \A a \in LiveAgent : \A i \in BusyTurns(agents[a].turns) :
    agents[a].turns[i].id \in Marking \/ chat.active = agents[a].turns[i].id \/ Raced({"orphaned", "early"})

\* A turn that is being prompted is the active one, too.
StartedIsActive ==
  /\ chat.agent # 0 => chat.open
  /\ \A l \in Lanes : task[l].pc \in {"ensure", "spawn", "push"} /\ chat.open =>
       task[l].turn \in Marking \/ chat.active = task[l].turn \/ Raced({"orphaned", "early"})

\* A turn that was queued has its expanded prompt for as long as it waits
\* (server.rs, queued_prompts).
QueuedPromptsKept ==
  Range(chat.queue) \subseteq chat.prompts \/ Raced({"bare", "purged"})

Quiet == /\ \A l \in Lanes : task[l].pc = "idle"
         /\ \A a \in DOMAIN agents : agents[a].turns = <<>> /\ At(a, "rest") /\ agents[a].out = <<>>

\* A queue does not outlive the turns: when all is quiet it is empty, unless a
\* stop paused it or a named race left it (server.rs, drain_queue).
NoQueueIsForgotten ==
  Quiet => chat.queue = <<>> \/ Raced({"paused", "late", "bare", "failed", "collided"})

\* Until somebody cancels, nothing is marked or interrupted.
NothingIsCancelled ==
  "paused" \notin raced =>
    /\ \A l \in Lanes : task[l].pc \notin {"unqueue", "mark", "tell", "telling"}
    /\ \A a \in DOMAIN agents :
         /\ agents[a].pump.pc \notin {"tell", "telling"}
         /\ agents[a].pump.pc = "apply" => agents[a].pump.how \in {"done", "error"}
         /\ \A i \in DOMAIN agents[a].turns : ~agents[a].turns[i].cancelled
         /\ \A i \in DOMAIN agents[a].inbox : agents[a].inbox[i].word = "prompt"
         /\ \A i \in DOMAIN agents[a].out :
              agents[a].out[i].word # "start" => agents[a].out[i].how \in {"done", "error"}

\* Something is still to end, and what ends looks at the queue.
EndIsToCome ==
  \/ \E l \in Lanes : task[l].pc \in {"begin", "ensure", "spawn", "push"}
  \/ \E a \in DOMAIN agents : Busy(agents[a]) \/ agents[a].pump.pc \in {"apply", "drain"}

\* What waits in the queue is about to be purged, or an end is to come that drains it.
QueueIsLookedAt ==
  /\ ~chat.open => chat.queue = <<>>
  /\ Raced({"paused", "late", "bare", "failed", "collided"}) \/ EndIsToCome \/
       \A i \in DOMAIN chat.queue : \E a \in DOMAIN agents :
         agents[a].pump.pc = "purge" /\ chat.queue[i] \in agents[a].pump.ids

\* Every process that runs is the chat's, so that something will shut it down
\* (server.rs, ensure_agent, retire_locked, dispose_session).
EveryProcessHasAnOwner ==
  \A a \in DOMAIN agents : agents[a].over \/ chat.agent = a \/ Raced({"twice", "disposed"})

\* The chat's agent has the session's flags, or is to be retired after its
\* turn (server.rs, mutate_session).
SettingsReachTheAgent ==
  \A a \in LiveAgent : agents[a].with = settings \/ chat.retire \/ Raced({"stale"})

\* The types, and the queue: it neither loses a prompt nor is left behind.
QueueIsKept ==
  TurnsTypeOK /\ QueuedPromptsKept /\ NoQueueIsForgotten /\ NothingIsCancelled /\ QueueIsLookedAt

\* An agent works on one turn, the chat's active one.
WorksOnTheActiveTurn ==
  OneLiveTurnAProcess /\ LiveTurnIsActive /\ StartedIsActive /\ TurnsAreKnownApart

\* The processes there are belong to the chat and run under its settings.
ProcessesServeTheChat == EveryProcessHasAnOwner /\ SettingsReachTheAgent

\* A turn that is active ends, if no race befell it: it is answered, or fails.
Smooth == raced \subseteq {"bare"} /\ chat.open
TurnsEnd == \A t \in Turn : (chat.active = t /\ Smooth) ~> (chat.active # t \/ ~Smooth)

\* agent-host.md 267-271 and server.rs 2161-2167: one live turn per chat, no
\* second start orphans it.  Not what happens: the check and the start are
\* two steps, and a prompt is pushed long after its turn was started.
OneLiveTurn == "orphaned" \notin raced

\* agent-host.md 279-284: an active agent is retired after its turn, and the
\* next turn respawns under the fresh flags.  Not what happens when the turn
\* is cancelled: its result is dropped before the retirement.
FreshFlagsNextTurn == "skipped" \notin raced \/ "stale" \in raced

\* claude.rs 244-249: a prompt is never written while another is live, or the
\* process folds the two into one turn.  Not what happens behind two cancelled
\* turns: only the front one has been interrupted (335-351).
PromptsNeverFold ==
  Raced({"collided", "overtaken", "early", "woken"}) \/ \A a \in DOMAIN agents :
    agents[a].of = "claude" => \A t, u \in agents[a].run \ {NoTurn} : t = u
=============================================================================
