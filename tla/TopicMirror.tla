---------------------------- MODULE TopicMirror ----------------------------
(***************************************************************************)
(* The topics of herdr-tg: the agent registry, the reconciler with its     *)
(* mapping and debounce, the stale-topic sweep, and the part of the daemon *)
(* loop that drives them (internal/app/registry.go, reconciler.go,         *)
(* debounce.go, sweep.go, daemon.go; internal/domain/mapping.go).          *)
(*                                                                         *)
(* One goroutine, the daemon loop, makes all Telegram calls.  todo is what *)
(* is left of the handler it is in: every item is one call with the record *)
(* of its answer, or a skip.  While a call is under way Herdr changes, the *)
(* registry's own goroutine queues events, timers fire and operators close,*)
(* reopen, rename or delete topics by hand.                                *)
(***************************************************************************)
EXTENDS Naturals, Sequences, FiniteSets, SequencesExt

CONSTANTS
    Keys,        \* pane and terminal of an agent
    Custom,      \* the keys whose agent has a name of its own
    Names,       \* agent names or tab labels
    Statuses,    \* the live statuses
    Gates,       \* what may hold writes or replay: "rights", "sync", "desk", "hold", "resync"
    Faults,      \* whether calls, saves and the process may fail
    Strict,      \* whether Telegram may refuse to close a closed topic or reopen an open one
    Typed,       \* topic names operators type
    Hands,       \* what else operators do: "close", "reopen", "delete"
    MaxThreads,  \* bound: topics that ever exist
    MaxTries,    \* attempts the Telegram queue makes for one call
    MaxEvents,   \* bound: agent events waiting for the loop
    MaxNews,     \* bound: Telegram updates waiting for the loop
    MaxEntries,  \* mappingMaxEntries
    MaxTrouble,  \* bound: changes of agents and gates, acts of operators and faults
    None

\* A topic's full name is "<workspace> · <agent>"; operators may leave the
\* workspace out.
TopicName == Names \X {"full", "bare"}

Display(n) == <<n, "full">>

ASSUME MirrorAssumption ==
    /\ IsFiniteSet(Keys) /\ Custom \subseteq Keys /\ Typed \subseteq TopicName /\ Faults \in BOOLEAN
    /\ Strict \in BOOLEAN
    /\ Gates \subseteq {"rights", "sync", "desk", "hold", "resync"}
    /\ "exited" \notin Statuses
    /\ Hands \subseteq {"close", "reopen", "delete"}
    /\ MaxThreads \in Nat /\ MaxTries \in Nat \ {0} /\ MaxEvents \in Nat
    /\ MaxNews \in Nat /\ MaxEntries \in Nat /\ MaxTrouble \in Nat /\ None \notin Keys

VARIABLES
    herdr,      \* [Keys -> look or None]: the agents that run
    reg,        \* [Keys -> look or None]: Registry.agents
    listed,     \* what agent.list told the loop and the registry's goroutine, or None
    events,     \* the channel from the registry to the loop
    proc,       \* the daemon: "down", "starting", "up" or "halting"
    mem, disk,  \* [Keys -> entry or None]: Mapping.Topics, and mapping.json
    agents,     \* [Keys -> look or None]: Reconciler.agents
    timers, due,\* the debouncer: armed, and fired but not run
    gates,      \* reasons to hold writes that are in force
    hold,       \* option quiet.topics: the desk holds topic writes
    signals,    \* "catchup" (presence) and "resync" waiting for the loop
    todo,       \* the rest of the running handler
    tg,         \* Telegram: [key, name, status, closed, exists] per thread
    news,       \* Telegram updates waiting for the loop
    strays,     \* history: threads whose link was lost
    trouble,    \* counts what MaxTrouble bounds
    missed,     \* history: threads with an update lost, ignored or refused
    failed      \* history: a write failed or was held since the pass began

registry == <<reg, listed>>
world    == <<herdr, tg, news, missed>>
control  == <<gates, hold, signals>>
vars     == <<herdr, reg, listed, events, proc, mem, disk, agents, timers, due, gates,
              hold, signals, todo, tg, news, strays, missed, failed, trouble>>

Look  == [name : Names, status : Statuses]
Entry == [thread : 1..MaxThreads, name : TopicName, status : Statuses \cup {"exited"},
          closed : BOOLEAN, muted : BOOLEAN]
Topic == [key : Keys, name : TopicName, status : Statuses \cup {"exited"},
          closed : BOOLEAN, exists : BOOLEAN]
Ops   == {"appeared", "changed", "gone", "create", "make", "refresh", "edit", "exit",
          "close", "finish", "delete", "list", "learn", "snap", "flush", "pass",
          "unclosed", "redo", "prune"}
Item  == [op : Ops, key : Keys \cup {None}, look : Look \cup {None}, force : BOOLEAN]
News  == [op : {"closed", "reopened", "renamed"}, thread : 1..MaxThreads,
          name : TopicName \cup {None}]

\* The absent value is no look and no entry.
ASSUME NoneIsApart == None \notin Look /\ None \notin Entry

Absent == [k \in Keys |-> None]

Do(op, k) == [op |-> op, key |-> k, look |-> None, force |-> FALSE]

TypeOK ==
    /\ herdr \in [Keys -> Look \cup {None}] /\ reg \in [Keys -> Look \cup {None}]
    /\ listed \in [{"loop", "run"} -> [Keys -> Look \cup {None}] \cup {None}]
    /\ events \in Seq(Item) /\ todo \in Seq(Item)
    /\ proc \in {"down", "starting", "up", "halting"}
    /\ mem \in [Keys -> Entry \cup {None}] /\ disk \in [Keys -> Entry \cup {None}]
    /\ agents \in [Keys -> Look \cup {None}]
    /\ timers \subseteq Keys /\ due \subseteq Keys
    /\ gates \subseteq {"rights", "sync", "desk"} /\ hold \in BOOLEAN /\ signals \subseteq {"catchup", "resync"}
    /\ tg \in Seq(Topic) /\ news \in Seq(News) /\ strays \subseteq 1..MaxThreads
    /\ missed \subseteq 1..MaxThreads
    /\ failed \in BOOLEAN /\ trouble \in 0..MaxTrouble

Init ==
    /\ herdr \in [Keys -> Look \cup {None}] /\ reg = Absent
    /\ listed = [w \in {"loop", "run"} |-> None]
    /\ events = <<>> /\ proc = "down" /\ mem = Absent /\ disk = Absent
    /\ agents = Absent /\ timers = {} /\ due = {}
    /\ gates = {} /\ hold = TRUE /\ signals = {}
    /\ todo = <<>> /\ tg = <<>> /\ news = <<>> /\ strays = {} /\ missed = {} /\ failed = FALSE
    /\ trouble = 0

-----------------------------------------------------------------------------
(* Registry *)

\* applySnapshot: what changed from one view to the next; gone, appeared, changed.
Diff(old, new) ==
    LET Of(op, S) == SetToSeq({[op |-> op, key |-> k, look |-> new[k], force |-> FALSE] : k \in S})
    IN  Of("gone", {k \in Keys : old[k] # None /\ new[k] = None})
            \o Of("appeared", {k \in Keys : old[k] = None /\ new[k] # None})
            \o Of("changed", {k \in Keys : old[k] # None /\ new[k] # None /\ old[k] # new[k]})

\* Registry.Run asks Herdr for the agents: by the clock, after a structural
\* event or a stream reset, or on request.
List ==
    /\ proc = "up" /\ listed["run"] = None
    /\ listed' = [listed EXCEPT !["run"] = herdr]
    /\ UNCHANGED <<reg, events, proc, mem, disk, agents, timers, due, control, todo, world,
                   strays, failed, trouble>>

\* Fault: the differences are reported but the new view is not kept.
ApplyForgets ==
    /\ proc = "up" /\ listed["run"] # None
    /\ Len(events) + Cardinality(Keys) <= MaxEvents
    /\ listed' = [listed EXCEPT !["run"] = None]
    /\ events' = events \o Diff(reg, listed["run"])
    /\ UNCHANGED <<reg, proc, mem, disk, agents, timers, due, control, todo, world, strays, failed,
                   trouble>>

\* The answer is applied, and the differences go to the loop.
Apply ==
    /\ proc = "up" /\ listed["run"] # None
    /\ Len(events) + Cardinality(Keys) <= MaxEvents
    /\ reg' = listed["run"] /\ listed' = [listed EXCEPT !["run"] = None]
    /\ events' = events \o Diff(reg, reg')
    /\ UNCHANGED <<proc, mem, disk, agents, timers, due, control, todo, world, strays, failed, trouble>>

\* applyStatus and applyUpdate: the socket reports the status of a known pane at once.
StatusEvent(k) ==
    /\ proc = "up" /\ reg[k] # None /\ herdr[k] # None
    /\ reg[k].status # herdr[k].status /\ Len(events) < MaxEvents
    /\ reg' = [reg EXCEPT ![k].status = herdr[k].status]
    /\ events' = Append(events, [Do("changed", k) EXCEPT !.look = reg'[k]])
    /\ UNCHANGED <<listed, proc, mem, disk, agents, timers, due, control, todo, world, strays,
                   failed, trouble>>

-----------------------------------------------------------------------------
(* The reconciler: one item of the running handler *)

item == Head(todo)
rest == Tail(todo)

\* blockedReason.
Blocked == gates \cap {"rights", "sync"} # {} \/ ("desk" \in gates /\ hold)

Live(e) == e # None /\ e.status # "exited"

Troubled == trouble < MaxTrouble /\ trouble' = trouble + 1

\* save: a failure is logged and the file stays as it was.
Save == \/ disk' = mem' /\ UNCHANGED trouble
        \/ Faults /\ Troubled /\ UNCHANGED disk

Continue(next) == todo' = next \o rest

\* The item writes nothing and the handler goes on with next.
Moves(next) == Continue(next) /\ UNCHANGED <<mem, disk, tg, agents, timers, failed, trouble>>

\* The item is held back.
Held == Continue(<<>>) /\ failed' = TRUE /\ UNCHANGED <<mem, disk, tg, agents, timers, trouble>>

\* fail: a topic that is gone is forgotten, everything else is only logged.
\* A failed call may have reached Telegram.  Only for an edit the gateway takes
\* "not modified" as success.
Fails(k, after) ==
    /\ \/ /\ ~tg[mem[k].thread].exists
          /\ mem' = [mem EXCEPT ![k] = None] /\ Save
          /\ UNCHANGED tg
       \/ /\ Faults /\ Troubled /\ tg[mem[k].thread].exists
          /\ tg' \in {tg, [tg EXCEPT ![mem[k].thread] = after]}
          /\ UNCHANGED <<mem, disk>>
       \/ /\ Strict /\ item.op \in {"close", "create"} /\ after = tg[mem[k].thread]
          /\ UNCHANGED <<mem, disk, tg, trouble>>
    /\ failed' = TRUE

\* A call on the topic of k: Telegram's topic and the entry after it, and what
\* the handler does next.
Calls(k, after, entry, next) ==
    /\ \/ /\ tg[mem[k].thread].exists
          /\ tg' = [tg EXCEPT ![mem[k].thread] = after]
          /\ mem' = [mem EXCEPT ![k] = entry] /\ Save
          /\ Continue(next)
          /\ UNCHANGED failed
       \/ Fails(k, after) /\ Continue(<<>>)
    /\ UNCHANGED <<agents, timers>>

\* Handle: an event of the registry.
HandleEvent ==
    LET k == item.key
    IN  /\ item.op \in {"appeared", "changed", "gone"}
        /\ agents' = [agents EXCEPT ![k] = item.look]
        /\ \/ /\ item.op = "gone"
              /\ timers' = timers \ {k}
              /\ Continue(<<Do("exit", k)>>)
           \/ /\ item.op # "gone" /\ ~Live(mem[k])
              /\ Continue(<<Do("create", k)>>) /\ UNCHANGED timers
           \/ /\ item.op = "appeared" /\ Live(mem[k])
              /\ Continue(<<Do("edit", k)>>) /\ UNCHANGED timers
           \/ /\ item.op = "changed" /\ Live(mem[k])
              /\ timers' = timers \cup {k}
              /\ Continue(<<>>)
        /\ UNCHANGED <<mem, disk, tg, failed, trouble>>

\* Fault: a returning agent always gets a new topic.
CreateAnew ==
    /\ item.op = "create"
    /\ IF Blocked THEN Held ELSE Moves(<<Do("make", item.key)>>)

\* create and the first half of revive: a new topic, or the old one of an agent
\* that returned, reopened when the mapping says it is closed.
CreateItem ==
    LET k == item.key
        e == [mem[k] EXCEPT !.closed = FALSE, !.muted = FALSE]
    IN  /\ item.op = "create"
        /\ \/ Blocked /\ Held
           \/ ~Blocked /\ mem[k] = None /\ Moves(<<Do("make", k)>>)
           \/ /\ ~Blocked /\ mem[k] # None /\ ~mem[k].closed
              /\ mem' = [mem EXCEPT ![k] = e] /\ Save
              /\ Continue(<<Do("refresh", k)>>)
              /\ UNCHANGED <<tg, failed, agents, timers>>
           \/ /\ ~Blocked /\ mem[k] # None /\ mem[k].closed /\ tg[mem[k].thread].exists
              /\ Calls(k, [tg[mem[k].thread] EXCEPT !.closed = FALSE], e, <<Do("refresh", k)>>)
           \/ /\ ~Blocked /\ mem[k] # None /\ mem[k].closed /\ ~tg[mem[k].thread].exists
              /\ mem' = [mem EXCEPT ![k] = None]
              /\ Continue(<<Do("make", k)>>)
              /\ UNCHANGED <<disk, tg, failed, agents, timers, trouble>>

\* createTopic: every try of the queue may make a topic, the last one is linked;
\* a group that has MaxThreads topics refuses another.
MakeItem ==
    LET k     == item.key
        topic == [key |-> k, name |-> Display(agents[k].name), status |-> agents[k].status,
                  closed |-> FALSE, exists |-> TRUE]
    IN  /\ item.op = "make"
        /\ \E n \in 0..MaxTries :
             /\ Len(tg) + n <= MaxThreads
             /\ tg' = tg \o [i \in 1..n |-> topic]
             /\ \/ /\ n = 1 \/ (n > 1 /\ Faults)
                   /\ mem' = [mem EXCEPT ![k] =
                        [thread |-> Len(tg'), name |-> topic.name, status |-> topic.status,
                         closed |-> FALSE, muted |-> FALSE]]
                   /\ \/ n = 1 /\ Save
                      \/ n > 1 /\ Troubled /\ disk' \in {disk, mem'}
                   /\ strays' = strays \cup ((Len(tg) + 1)..(Len(tg') - 1))
                   /\ UNCHANGED failed
                \/ /\ \/ Faults /\ Troubled
                      \/ n = 0 /\ Len(tg) = MaxThreads /\ UNCHANGED trouble
                   /\ strays' = strays \cup ((Len(tg) + 1)..Len(tg'))
                   /\ failed' = TRUE
                   /\ UNCHANGED <<mem, disk>>
        /\ Continue(<<>>)
        /\ UNCHANGED <<agents, timers>>

\* The second half of revive: the live icon always, the name when it moved.
RefreshItem ==
    LET k == item.key
        a == agents[k]
        n == IF Display(a.name) # mem[k].name THEN Display(a.name) ELSE tg[mem[k].thread].name
    IN  /\ item.op = "refresh"
        /\ Calls(k, [tg[mem[k].thread] EXCEPT !.name = n, !.status = a.status],
                 [mem[k] EXCEPT !.name = Display(a.name), !.status = a.status], <<>>)

\* What an edit sends: the icon, and the name when it differs or is forced.
Edits(k, force) ==
    LET a    == agents[k]
        e    == mem[k]
        name == force \/ Display(a.name) # e.name
    IN  Calls(k, [tg[e.thread] EXCEPT !.name = IF name THEN Display(a.name) ELSE @,
                                      !.status = a.status],
              [e EXCEPT !.name = Display(a.name), !.status = a.status], <<>>)

\* Mapping.Diff: the entry is not what the agent should have.
Differs(k) ==
    /\ Live(mem[k])
    /\ mem[k].name # Display(agents[k].name) \/ mem[k].status # agents[k].status

\* Fault: a mute is forgotten when the agent's look changes.
EditMuted ==
    LET k == item.key
    IN  /\ item.op = "edit"
        /\ \/ agents[k] # None /\ mem[k] = None /\ Moves(<<Do("create", k)>>)
           \/ (agents[k] = None \/ (mem[k] # None /\ ~Differs(k))) /\ Moves(<<>>)
           \/ /\ agents[k] # None /\ mem[k] # None /\ Differs(k)
              /\ IF Blocked THEN Held ELSE Edits(k, item.force)

\* edit: what differs from the last write, or everything when it is forced.
EditItem ==
    LET k    == item.key
        a    == agents[k]
        e    == mem[k]
        send == /\ ~e.muted \/ item.force
                /\ Differs(k) \/ (item.force /\ Live(e))
    IN  /\ item.op = "edit"
        /\ \/ a = None /\ Moves(<<>>)
           \/ a # None /\ e = None /\ Moves(<<Do("create", k)>>)
           \/ a # None /\ e # None /\ ~send /\ Moves(<<>>)
           \/ a # None /\ e # None /\ send /\ Blocked /\ Held
           \/ a # None /\ e # None /\ send /\ ~Blocked /\ Edits(k, item.force)

\* Fault: the topic counts as closed once the finished marker is written.
ExitEarly ==
    LET k == item.key
        e == mem[k]
    IN  /\ item.op = "exit"
        /\ \/ e = None /\ Moves(<<>>)
           \/ e # None /\ Blocked /\ Held
           \/ /\ e # None /\ ~Blocked
              /\ Calls(k, [tg[e.thread] EXCEPT !.status = "exited"],
                       [e EXCEPT !.status = "exited", !.closed = TRUE], <<>>)

\* exit: the finished marker, then the closing; a muted topic is left alone.
ExitItem ==
    LET k == item.key
        e == mem[k]
    IN  /\ item.op = "exit"
        /\ \/ e = None /\ Moves(<<>>)
           \/ e # None /\ Blocked /\ Held
           \/ /\ e # None /\ ~Blocked /\ e.muted
              /\ mem' = [mem EXCEPT ![k].status = "exited", ![k].closed = TRUE] /\ Save
              /\ Continue(<<>>)
              /\ UNCHANGED <<tg, failed, agents, timers>>
           \/ /\ e # None /\ ~Blocked /\ ~e.muted /\ Live(e)
              /\ Calls(k, [tg[e.thread] EXCEPT !.status = "exited"],
                       [e EXCEPT !.status = "exited"], <<Do("close", k)>>)
           \/ e # None /\ ~Blocked /\ ~e.muted /\ ~Live(e) /\ Moves(<<Do("close", k)>>)

CloseItem ==
    LET e == mem[item.key]
    IN  /\ item.op = "close"
        /\ \/ (e = None \/ e.closed) /\ Moves(<<>>)
           \/ e # None /\ ~e.closed /\ Blocked /\ Held
           \/ /\ e # None /\ ~e.closed /\ ~Blocked
              /\ Calls(item.key, [tg[e.thread] EXCEPT !.closed = TRUE],
                       [e EXCEPT !.closed = TRUE], <<>>)

\* finish: the end of an agent whose topic was reopened by hand.
FinishItem ==
    LET e == mem[item.key]
    IN  /\ item.op = "finish"
        /\ \/ e # None /\ Blocked /\ Held
           \/ /\ e # None /\ ~Blocked
              /\ Calls(item.key, [tg[e.thread] EXCEPT !.status = "exited"],
                       [e EXCEPT !.status = "exited"], <<Do("close", item.key)>>)

\* Sweep, one topic: it is deleted, or gone already, and forgotten.
DeleteItem ==
    LET k == item.key
    IN  /\ item.op = "delete"
        /\ Calls(k, [tg[mem[k].thread] EXCEPT !.exists = FALSE], None, <<>>)

\* Registry.Snapshot run by the loop: the list is asked for (the pass and the
\* events that follow use what the registry holds if that fails) ...
ListItem ==
    /\ item.op = "list"
    /\ \/ listed' = [listed EXCEPT !["loop"] = herdr] /\ Moves(<<>>)
       \/ /\ Faults /\ Troubled /\ todo' = Tail(rest)
          /\ UNCHANGED <<listed, mem, disk, tg, agents, timers, failed>>
    /\ UNCHANGED reg

\* ... and applied; a replay handles the differences at once, ahead of the
\* events that already wait, the start only learns the agents.
SnapItem ==
    /\ item.op \in {"learn", "snap"}
    /\ reg' = listed["loop"] /\ listed' = [listed EXCEPT !["loop"] = None]
    /\ Moves(IF item.op = "snap" THEN Diff(reg, reg') ELSE <<>>)

FlushItem ==
    /\ item.op = "flush"
    /\ Continue(SetToSeq({Do("edit", k) : k \in timers}))
    /\ timers' = {}
    /\ UNCHANGED <<mem, disk, tg, agents, failed, trouble>>

\* Fault: only entries that look wrong are visited.
PassDrifted ==
    LET drifted == {k \in Keys : reg[k] # None /\ mem[k] = None}
    IN  /\ item.op = "pass"
        /\ agents' = reg /\ failed' = FALSE
        /\ Continue(SetToSeq({Do("redo", k) : k \in drifted}) \o <<Do("prune", None)>>)
        /\ UNCHANGED <<mem, disk, tg, timers, trouble>>

\* Reconcile, up to its loops: the orphans, the unclosed, then every live agent.
\* DedupeThreads finds nothing: no two entries share a thread.
PassItem ==
    LET orphans == {k \in Keys : Live(mem[k]) /\ ~mem[k].muted /\ reg[k] = None}
        running == {k \in Keys : reg[k] # None}
        Redo(k) == [Do("redo", k) EXCEPT !.force = item.force]
    IN  /\ item.op = "pass"
        /\ \/ Blocked /\ Held
           \/ /\ ~Blocked
              /\ agents' = reg /\ failed' = FALSE
              /\ Continue(SetToSeq({Redo(k) : k \in orphans})
                            \o <<Do("unclosed", None)>>
                            \o SetToSeq({Redo(k) : k \in running})
                            \o <<Do("prune", None)>>)
              /\ UNCHANGED <<mem, disk, tg, timers, trouble>>

\* One agent of the pass: an orphan exits, a live entry is edited now instead of
\* by its timer, anything else is created.
RedoItem ==
    LET k == item.key
    IN  /\ item.op = "redo"
        /\ \/ /\ Live(mem[k])
              /\ timers' = timers \ {k}
              /\ Continue(<<IF agents[k] = None THEN Do("exit", k)
                            ELSE [item EXCEPT !.op = "edit"]>>)
              /\ UNCHANGED <<mem, disk, tg, agents, failed, trouble>>
           \/ ~Live(mem[k]) /\ agents[k] # None /\ Moves(<<Do("create", k)>>)

UnclosedItem ==
    /\ item.op = "unclosed"
    /\ Moves(SetToSeq({Do("close", k) : k \in
            {j \in Keys : mem[j] # None /\ ~Live(mem[j]) /\ ~mem[j].closed /\ ~mem[j].muted}}))

\* Prune: the oldest exited entries go while there are more than MaxEntries; age
\* is left out, so any exited entries may be the oldest.
PruneItem ==
    LET all    == {k \in Keys : mem[k] # None}
        exited == {k \in all : ~Live(mem[k])}
        excess == IF MaxEntries = 0 THEN 0 ELSE Cardinality(all) - MaxEntries
    IN  /\ item.op = "prune"
        /\ \/ (excess <= 0 \/ exited = {}) /\ Moves(<<>>) /\ UNCHANGED strays
           \/ /\ excess > 0 /\ exited # {}
              /\ \E gone \in SUBSET exited :
                   /\ Cardinality(gone) = excess \/ (Cardinality(gone) < excess /\ gone = exited)
                   /\ mem' = [k \in Keys |-> IF k \in gone THEN None ELSE mem[k]] /\ Save
                   /\ strays' = strays \cup {mem[k].thread : k \in gone}
              /\ Continue(<<>>)
              /\ UNCHANGED <<tg, agents, timers, failed>>

\* The loop's goroutine takes the next step of its handler.
Step ==
    /\ todo # <<>>
    /\ \/ /\ \/ HandleEvent \/ CreateItem \/ RefreshItem \/ EditItem \/ ExitItem \/ CloseItem
             \/ FinishItem \/ DeleteItem \/ FlushItem \/ PassItem \/ RedoItem \/ UnclosedItem
          /\ UNCHANGED <<registry, strays>>
       \/ (MakeItem \/ PruneItem) /\ UNCHANGED registry
       \/ (ListItem \/ SnapItem) /\ UNCHANGED strays
    /\ UNCHANGED <<herdr, events, proc, due, control, news, missed>>

-----------------------------------------------------------------------------
(* The daemon loop: the cases of its select *)

Idle == proc = "up" /\ todo = <<>>

Replay(force) ==
    <<Do("list", None), Do("snap", None), Do("flush", None),
      [Do("pass", None) EXCEPT !.force = force]>>

mirror == <<mem, disk, agents, timers, strays, failed>>

TakeEvent ==
    /\ Idle /\ events # <<>>
    /\ todo' = <<Head(events)>> /\ events' = Tail(events)
    /\ UNCHANGED <<registry, proc, mirror, due, control, world, trouble>>

\* A debounce timer runs out, whatever the loop does.
TimerFires(k) ==
    /\ proc \in {"up", "halting"} /\ k \in timers
    /\ timers' = timers \ {k} /\ due' = due \cup {k}
    /\ UNCHANGED <<registry, events, proc, mem, disk, agents, control, todo, world, strays,
                   failed, trouble>>

Fire(k) ==
    /\ Idle /\ k \in due
    /\ due' = due \ {k} /\ todo' = <<Do("edit", k)>>
    /\ UNCHANGED <<registry, events, proc, mirror, control, world, trouble>>

\* KeyForThread.
Linked(t) == {k \in Keys : mem[k] # None /\ mem[k].thread = t}

\* An update for a thread no entry names is dropped.
NewsUnknown ==
    /\ Idle /\ news # <<>> /\ Linked(Head(news).thread) = {}
    /\ news' = Tail(news)
    /\ UNCHANGED <<registry, events, proc, mirror, due, control, todo, herdr, tg, missed,
                   trouble>>

OnTopicClosed(k) ==
    /\ Idle /\ news # <<>> /\ Head(news).op = "closed" /\ k \in Linked(Head(news).thread)
    /\ news' = Tail(news)
    /\ mem' = IF Live(mem[k]) THEN [mem EXCEPT ![k].muted = TRUE]
              ELSE [mem EXCEPT ![k].closed = TRUE]
    /\ Save
    /\ UNCHANGED <<registry, events, proc, agents, timers, due, control, todo, herdr, tg,
                   strays, missed, failed>>

OnTopicReopened(k) ==
    /\ Idle /\ news # <<>> /\ Head(news).op = "reopened" /\ k \in Linked(Head(news).thread)
    /\ news' = Tail(news)
    /\ mem' = [mem EXCEPT ![k].muted = FALSE, ![k].closed = FALSE] /\ Save
    /\ \/ /\ agents[k] # None
          /\ timers' = timers \ {k}
          /\ todo' = <<[Do("edit", k) EXCEPT !.force = TRUE]>>
       \/ /\ agents[k] = None
          /\ todo' = <<Do("finish", k)>> /\ UNCHANGED timers
    /\ UNCHANGED <<registry, events, proc, agents, due, control, herdr, tg, strays, missed,
                   failed>>

\* OnTopicRenamed: the typed name goes to Herdr and is remembered as the topic's;
\* a tab label also schedules the edit that settles the topic, a name of the
\* agent's own leaves that to the next snapshot.
OnTopicRenamed(k) ==
    LET typed == Head(news).name
        live  == agents[k] # None /\ Live(mem[k])
        tab   == k \notin Custom
        same  == tab /\ agents[k].name = typed[1]
    IN  /\ Idle /\ news # <<>> /\ Head(news).op = "renamed" /\ k \in Linked(Head(news).thread)
        /\ news' = Tail(news)
        /\ \/ /\ ~live
              /\ missed' = missed \cup {mem[k].thread}
              /\ UNCHANGED <<mem, disk, agents, timers, herdr, trouble>>
           \/ /\ live /\ (tab \/ herdr[k] # None)
              /\ agents' = [agents EXCEPT ![k].name = typed[1]]
              /\ herdr' = IF herdr[k] = None \/ same THEN herdr
                          ELSE [herdr EXCEPT ![k].name = typed[1]]
              /\ mem' = [mem EXCEPT ![k].name = typed] /\ Save
              /\ timers' = IF tab THEN timers \cup {k} ELSE timers
              /\ UNCHANGED missed
           \/ /\ live /\ ~same
              /\ \/ herdr[k] = None /\ UNCHANGED trouble
                 \/ herdr[k] # None /\ Faults /\ Troubled
              /\ missed' = missed \cup {mem[k].thread}
              /\ UNCHANGED <<mem, disk, agents, timers, herdr>>
        /\ UNCHANGED <<registry, events, proc, due, control, todo, tg, strays, failed>>

\* onTelegramEvent, RightsChanged: writes stop, or start again with a replay.
RightsChanged ==
    /\ Idle /\ "rights" \in Gates /\ Troubled
    /\ \/ "rights" \notin gates /\ gates' = gates \cup {"rights"} /\ UNCHANGED todo
       \/ "rights" \in gates /\ gates' = gates \ {"rights"} /\ todo' = Replay(FALSE)
    /\ UNCHANGED <<registry, events, proc, mirror, due, hold, signals, world>>

\* The cases of d.presence.Changes() and d.resync.
TakeSignal(s) ==
    /\ Idle /\ s \in signals
    /\ signals' = signals \ {s} /\ todo' = Replay(s = "resync")
    /\ UNCHANGED <<registry, events, proc, mirror, due, gates, hold, world, trouble>>

\* Sweep: closed topics of exited agents that are old enough; age is left out.
Sweep ==
    /\ Idle /\ ~Blocked
    /\ \E old \in SUBSET {k \in Keys : mem[k] # None /\ ~Live(mem[k]) /\ mem[k].closed} :
         /\ old # {}
         /\ todo' = SetToSeq({Do("delete", k) : k \in old})
    /\ UNCHANGED <<registry, events, proc, mirror, due, control, world, trouble>>

-----------------------------------------------------------------------------
(* The life of the daemon *)

\* loadMapping and the start of Run: the rights are checked, the agents listed,
\* a pass run; updates that waited at Telegram are dropped.
Boot ==
    /\ proc = "down" /\ proc' = "starting"
    /\ mem' = disk /\ reg' = Absent /\ agents' = Absent
    /\ timers' = {} /\ due' = {} /\ events' = <<>> /\ news' = <<>> /\ signals' = {}
    /\ listed' = [w \in {"loop", "run"} |-> None]
    /\ gates' \in {gates} \cup {gates \cup {"rights"} : g \in Gates \cap {"rights"}}
                          \cup {gates \ {"rights"}}
    /\ todo' = <<Do("list", None), Do("learn", None), Do("pass", None)>>
    /\ strays' = strays \cup {t \in 1..Len(tg) : /\ \E k \in Keys : mem[k] # None /\ mem[k].thread = t
                                                 /\ ~\E k \in Keys : disk[k] # None /\ disk[k].thread = t}
    /\ missed' = missed \cup {news[i].thread : i \in DOMAIN news}
    /\ UNCHANGED <<herdr, tg, disk, hold, failed, trouble>>

\* The first pass is done: the goroutines start and the loop runs.
Started ==
    /\ proc = "starting" /\ todo = <<>> /\ proc' = "up"
    /\ UNCHANGED <<registry, events, mirror, due, control, todo, world, trouble>>

\* shutdown: pending edits are flushed, then the process ends.
Shutdown ==
    /\ Idle /\ proc' = "halting" /\ todo' = <<Do("flush", None)>>
    /\ UNCHANGED <<registry, events, mirror, due, control, world, trouble>>

Stopped ==
    /\ proc = "halting" /\ todo = <<>> /\ proc' = "down"
    /\ UNCHANGED <<registry, events, mirror, due, control, todo, world, trouble>>

Crash ==
    /\ Faults /\ proc # "down" /\ Troubled
    /\ proc' = "down" /\ todo' = <<>>
    /\ UNCHANGED <<registry, events, mirror, due, control, world>>

-----------------------------------------------------------------------------
(* The rest of the world *)

\* An agent starts, changes its status or name, or ends.
HerdrChanges(k) ==
    /\ Troubled
    /\ \E a \in Look \cup {None} : a # herdr[k] /\ herdr' = [herdr EXCEPT ![k] = a]
    /\ UNCHANGED <<registry, events, proc, mirror, due, control, todo, tg, news, missed>>

\* Presence: at the desk a waiting catch-up is void; leaving asks for one.
Desk ==
    /\ "desk" \in Gates /\ proc # "down" /\ Troubled
    /\ \/ "desk" \notin gates /\ gates' = gates \cup {"desk"} /\ signals' = signals \ {"catchup"}
       \/ "desk" \in gates /\ gates' = gates \ {"desk"} /\ signals' = signals \cup {"catchup"}
    /\ UNCHANGED <<registry, events, proc, mirror, due, hold, todo, world>>

\* Options: sync.enabled asks for a resync when it is switched on, quiet.topics
\* for nothing.
Option ==
    /\ proc # "down" /\ Troubled
    /\ \/ /\ "sync" \in Gates /\ "sync" \notin gates
          /\ gates' = gates \cup {"sync"} /\ UNCHANGED <<signals, hold>>
       \/ /\ "sync" \in gates
          /\ gates' = gates \ {"sync"} /\ signals' = signals \cup {"resync"} /\ UNCHANGED hold
       \/ "hold" \in Gates /\ hold' = ~hold /\ UNCHANGED <<gates, signals>>
    /\ UNCHANGED <<registry, events, proc, mirror, due, todo, world>>

\* The resync action.
Resync ==
    /\ "resync" \in Gates /\ proc # "down" /\ Troubled
    /\ signals' = signals \cup {"resync"}
    /\ UNCHANGED <<registry, events, proc, mirror, due, gates, hold, todo, world>>

\* Telegram tells the bot what operators do, unless nobody polls.
Tells(op, t, name) ==
    IF proc = "down" THEN missed' = missed \cup {t} /\ UNCHANGED news
    ELSE /\ Len(news) < MaxNews /\ UNCHANGED missed
         /\ news' = Append(news, [op |-> op, thread |-> t, name |-> name])

\* An operator closes, reopens, renames or deletes a topic; of a deletion the bot
\* is not told.
ByHand(t) ==
    /\ tg[t].exists /\ Troubled
    /\ \/ /\ "close" \in Hands /\ ~tg[t].closed
          /\ tg' = [tg EXCEPT ![t].closed = TRUE] /\ Tells("closed", t, None)
       \/ /\ "reopen" \in Hands /\ tg[t].closed
          /\ tg' = [tg EXCEPT ![t].closed = FALSE] /\ Tells("reopened", t, None)
       \/ /\ "delete" \in Hands
          /\ tg' = [tg EXCEPT ![t].exists = FALSE]
          /\ missed' = missed \cup {t} /\ UNCHANGED news
       \/ \E n \in Typed : /\ n # tg[t].name
                           /\ tg' = [tg EXCEPT ![t].name = n] /\ Tells("renamed", t, n)
    /\ UNCHANGED <<registry, events, proc, mirror, due, control, todo, herdr>>

-----------------------------------------------------------------------------
Next ==
    \/ List \/ Apply \/ Step \/ TakeEvent \/ NewsUnknown \/ RightsChanged \/ Sweep
    \/ Boot \/ Started \/ Shutdown \/ Stopped \/ Crash \/ Desk \/ Option \/ Resync
    \/ \E k \in Keys : \/ StatusEvent(k) \/ TimerFires(k) \/ Fire(k) \/ HerdrChanges(k)
                       \/ OnTopicClosed(k) \/ OnTopicReopened(k) \/ OnTopicRenamed(k)
    \/ \E s \in {"catchup", "resync"} : TakeSignal(s)
    \/ \E t \in 1..Len(tg) : ByHand(t)

Spec == Init /\ [][Next]_vars

\* The loop takes something that waits.
Takes ==
    \/ TakeEvent \/ NewsUnknown
    \/ \E k \in Keys : Fire(k) \/ OnTopicClosed(k) \/ OnTopicReopened(k) \/ OnTopicRenamed(k)
    \/ \E s \in {"catchup", "resync"} : TakeSignal(s)

\* Go runs every goroutine that can run, select takes a ready case, the registry
\* lists agents by the clock at the latest and armed timers run out.  Nothing makes
\* the daemon start, stop or sweep, agents change or operators act.
FairSpec ==
    /\ Spec
    /\ WF_vars(Step) /\ WF_vars(Takes) /\ WF_vars(List) /\ WF_vars(Apply) /\ WF_vars(Started)
    /\ WF_vars(\E k \in Keys : TimerFires(k))

-----------------------------------------------------------------------------
(* Properties *)

\* One topic per agent: while the daemon runs, every topic that still exists is the
\* one its agent's entry names, except the ones whose link was lost for a known
\* reason: a create that was retried or failed, an entry pruned, a save that failed
\* before a restart.
NoTwins ==
    proc # "down" =>
        \A t \in 1..Len(tg) :
            tg[t].exists /\ t \notin strays => t \in {mem[k].thread : k \in
                {j \in Keys : mem[j] # None /\ j = tg[t].key}}

\* Each agent has its own topic: the types, no second topic for an agent (NoTwins),
\* and no two entries that share one, so that DedupeThreads and the "newest wins" of
\* KeyForThread have nothing to do.
MirrorInv ==
    /\ TypeOK /\ NoTwins
    /\ \A j, k \in Keys : (mem[j] # None /\ mem[k] # None /\ mem[j].thread = mem[k].thread) => j = k

\* A pass in which no write failed or was held ends with the mapping it wants:
\* every agent the registry had has a live entry with its name and status, and
\* every other entry is finished and closed.  What operators muted is left out.
PassHeals ==
    (todo # <<>> /\ Head(todo).op = "prune" /\ ~failed) =>
        \A k \in Keys :
            \/ mem[k] # None /\ mem[k].muted
            \/ /\ agents[k] # None
               /\ Live(mem[k]) /\ ~mem[k].closed /\ ~Differs(k)
            \/ /\ agents[k] = None
               /\ mem[k] # None => ~Live(mem[k]) /\ mem[k].closed

\* A topic an operator closed keeps the look it had while its entry is muted: the
\* bot touches it only for a resync, for an agent that returned, or to delete it.
\* Head(todo).force is that resync: docs/behaviour.md:46 and the comment on Muted
\* (domain/mapping.go:16) say that a muted topic gets no edits at all until it is
\* reopened, but edit goes on under r.force (reconciler.go:354).
MuteKept ==
    [][ \A k \in Keys :
          (/\ mem[k] # None /\ mem[k].muted /\ todo # <<>> /\ todo' # todo /\ proc' # "down"
           /\ tg'[mem[k].thread] # tg[mem[k].thread])
          => Head(todo).force \/ mem[k].status = "exited" ]_vars

\* Nothing waits anywhere and the registry knows Herdr's agents.
Quiet ==
    /\ Idle /\ events = <<>> /\ signals = {} /\ timers = {} /\ due = {} /\ news = <<>>
    /\ listed["run"] = None /\ reg = herdr /\ ~Blocked

\* A daemon that stays up gets through everything that waits, again and again.
Settles == <>[](proc \in {"starting", "up"}) => []<>Quiet

\* When nothing waits, Telegram shows Herdr: an agent's topic is open and has its
\* name and icon, the topic of an agent that ended shows the finished icon and is
\* closed.  Topics operators muted, or changed without the bot being told, are
\* left out, and agents the full group had no topic for.
Settled ==
    Quiet =>
        \A k \in Keys :
            \/ mem[k] # None /\ (mem[k].muted \/ mem[k].thread \in missed)
            \/ mem[k] = None /\ Len(tg) = MaxThreads
            \/ /\ herdr[k] # None /\ mem[k] # None
               /\ tg[mem[k].thread] = [key |-> k, name |-> Display(herdr[k].name),
                                       status |-> herdr[k].status, closed |-> FALSE,
                                       exists |-> TRUE]
            \/ /\ herdr[k] = None
               /\ mem[k] # None => /\ tg[mem[k].thread].closed
                                   /\ tg[mem[k].thread].status = "exited"
=============================================================================
