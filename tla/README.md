# Verification of maestri-telegram-agents

This directory holds TLA+ models of the two daemons of this repository, the TLC
configurations that check them on small instances, and proofs that TLAPS checks.
`PROJECT.json` maps every definition that models code to the source lines it
stands for, and lists runs, mutants, findings, hazards and theorems.

    tlc -workers 2 -config TopicMirror.cfg MCTopicMirror    # a run
    tlapm RelayDeployProofs.tla                             # the proofs of a module

## 1. Inventory

The repository has two programs that share the Telegram adapter:

* **herdr-tg** mirrors the agents of Herdr (a terminal multiplexer) into forum
  topics of a Telegram group and carries replies back;
* **Maestri Relay** connects a Maestri host (workspaces, floors, terminals) with a
  group: one topic per floor, messages to agents, and compositions that are
  provisioned on the host.

| Component | State | Operations | Talks to | What is hard, and what makes it correct |
|---|---|---|---|---|
| Relay provisioning (`app/relay_deploy.go`) | job journals in memory and in `relay.json` | `Deploy`, `step`, `/resume` | host over Wire, state file | Crash or lost answer between a mutation and its record; late execution after a timeout; failing saves. No mutation twice, none out of order, the journal alone tells what may exist. |
| Relay topics (`app/relay.go`) | `Topics`, `statuses` | `Run`, `Refresh`, `ensureTopic`, `/bind`, `/mute` | host feed, Telegram | `createForumTopic` has no idempotency key. A floor has one topic and a topic one floor, whatever fails, ends or is renamed. |
| Relay routing (`app/relay_inbound.go`) | `Seen`, `Replies`, a lock per terminal | `once`, `target`, `Handle`, `button`, `sendTarget` | host, Telegram | Eight concurrent handlers, repeated updates, look-ups that are stale after the wait for a lock. An update acts at most once and only on the agent and question it was meant for. |
| Telegram queue (`telegram/queue.go`) | ring of attempt times, channel of calls | `Do`, `Run`, `pace`, `stamp`, `execute` | Bot API | Retries in place, cancellation, shutdown and drain. Telegram's limits hold over every window; no caller hangs. |
| Topic mirror (`app/reconciler.go`, `domain/mapping.go`, `debounce.go`, `sweep.go`) | `mapping.json`, known agents, timers | `Handle`, `Fire`, `Flush`, `Reconcile`, close/reopen/rename by operators, `Sweep` | Telegram, Herdr | Calls fail half way; timers, passes, operators and agents interleave. One topic per agent; Telegram shows Herdr once nothing waits. |
| Agent registry (`app/registry.go`) | the agents last listed | `Snapshot`, `applyStatus`, `Run` | Herdr, daemon loop | Lists in two goroutines, answers applied out of order. |
| Daemon loop (`app/daemon.go`) | rights, signals, sub-components | `Run`, `replay`, `onTelegramEvent`, `shutdown` | everything | Replay against queued events; order of start and stop. |
| Presence (`app/presence.go`) | idle verdict, /away, quiet, a channel of one place | `Poll`, `sample`, `Away`, `Here`, `recompute` | loop, bridge | The verdict flips while the loop is in a call. No end of quiet is missed. |
| Herdr stream and socket (`adapters/herdr`) | connection and its panes, attempts, retry goroutines | `Run`, `serve`, `drainOld`, `SetPanes`, `call` | Herdr, registry | Swaps, breaks and failed resubscriptions while events come, of which some go to every connection and some only to those that watch the pane. What Herdr wrote arrives in an order that ends right, and subscription and registry end up in line with it. |
| Bridge, questions (`app/bridge.go`, `outbound.go`) | job queue; per agent the last post, its keyboard, the wait for text, a first capture, timers | `Observe`, `fire`, `CatchUp`, `Press`, `HandleTopic` | Telegram, Herdr, registry | The agent moves on while a screen is read or a post is sent; buttons of old posts; a full queue; changes only a replay saw. A question that stays is posted; only its own buttons answer it, once. |
| Bridge, requests (`app/inbound.go`, `domain/command.go`) | the /close question, follow-ups, albums, background downloads and starts, observers | `HandleTopic`, `askClose`, `PressClose`, `forward`, `Fire`, `HandleAttachment`, `fireAlbum`, `InboxFinished`, `gitCommand`, `HandleGeneral`, `startAgent` | Telegram, Herdr | Answers that are lost after the call acted, parts that come late, second presses in the queue, timers of an agent that is gone. Nothing is typed twice, a pane is closed by one press, every message ends. |
| Dashboard (`app/dashboard.go`, `statusview.go`) | the pinned message, its hash, a settle timer | `Observe`, `Schedule`, `refresh`, `remove`, `Repin`, `Stop` | Telegram, mapping, options | Options and /away change while its calls run; ends of the daemon between send and record. One live message, and it shows what there is. |
| Options and panel (`domain/options.go`, `app/options.go`, `optionspanel.go`) | options.json, the values in force, the panel message | `Load`, `SanitizeOptions`, `Set`, `Reset`, `Open`, `Press` | Telegram, file | A file edited by hand; failing saves and edits; sends the queue repeats. No two statuses share an icon; no forgotten panel. |
| Telegram gateway (`telegram/gateway.go`, `errors.go`, `inbound.go`) | who is operator or observer | one method per Bot API call, error classes, updates | queue | What is retried, what counts as success, who gets through. |
| Maestri Wire client and catalog | capabilities | `Call`, feed | host | Refused before sending, lost, late. |
| State files (`adapters/state`) | files | `writeAtomic`, load, `Acquire`, `Release` | disk | Old or new file, never a torn one; a pid file that is made, written, read and removed in separate calls. |
| Supervisor and process control (`app/supervisor.go`, `adapters/system`, `cli/daemon.go`, `cli/action.go`, `cli/startup.go`) | pid file, control socket, processes | start, stop, restart, resync, startup hook | OS | Two starts at once, a stale pid, signals before their handlers. |
| Capture, topic view, setup, doctor, CLI, logs, transcript, history | copies and text | prompts, printing, reading files | - | Sequential. |

`PROJECT.json` ("components") says for each how far it is modelled, and "hazards"
lists what can go wrong where a test hardly looks, each with the properties that
would notice.

## 2. Modules

| Module | Models | Variables to code |
|---|---|---|
| `Provisioning` | What provisioning promises: a job has one plan, its mutations leave once and in order, nothing leaves after the job is closed. | `chosen`, `log`, `closed`: abstract |
| `RelayDeploy` | `Deploy` and `step` with the journal, the wire and the host | `mem`/`disk`: `r.state.Jobs` and `relay.json`; `failure`: `r.failure`; `exec`: the call that holds the provision mutex; `flight`, `applied`, `floors`, `canvas`, `installed`: the host |
| `RelayDeployProofs` | Theorems about `RelayDeploy` | |
| `TelegramQueue` | `Do`, `Run`, bucket, retries, drain | `stamps`, `head`, `count`: the ring; `jobs`: the channel; `done`: the result channels; `run`: the goroutine; `attempts`: history |
| `RelayTopics` | `Run`, `Refresh`, `ensureTopic`, `/bind`, `/mute` of one workspace | `mem`/`disk`: `Topics`; `refresh`: the Refresh that holds its mutex; `feed`: what it fetched; `created`: the group |
| `RelayTopicsProofs` | Theorems about `RelayTopics` | |
| `RelayRouting` | Messages and buttons of one floor's topic | `seen`, `replies` and their disk copies; `handler`: the slots of `Run`; `lock`: `r.locks`; `calls`: history of calls to the host |
| `RelayRoutingProofs` | Theorems about `RelayRouting` | |
| `TopicMirror` | Registry, reconciler, mapping, debounce, sweep and the loop cases that drive them | `herdr`, `reg`, `agents`: the same agents as Herdr, the registry and the reconciler see them; `mem`/`disk`: mapping; `todo`: the rest of the handler the loop is in, one Telegram call per item; `tg`, `news`: the group and its updates; `strays`, `missed`, `failed`: history |
| `TopicMirrorProofs` | Theorems about `TopicMirror` | |
| `Bridge` | Questions of one agent: posts, keyboards, presses, typed text, catch-up and pager | `pane`, `stream`: the agent and Herdr's events; `reg`, `events`: registry and loop; `jobs`: `Bridge.jobs`; `o`: the maps of `outbound` for the agent; `timer`: `outbound.deb`; `run`: the job the goroutine is in, cut at its calls; `chat`: the posts; `lost`, `unheard`, `acts`: history |
| `BridgeProofs` | Theorems about `Bridge` | |
| `HerdrStream` | The subscription, its reconnects, and the registry that consumes it | `world`, `up`: Herdr, with the terminal and status of each agent; `conn`, `next`, `pc`, `attempt`, `delay`: `Run`, `serve` and `drainOld`; `changed`, `retry`: the signal and the goroutines that repeat it; `out`: `Gateway.events`; `known`, `coalesce`: the registry; `missed`, `stable`: history |
| `AdapterProofs` | Theorems about the two adapters, `TelegramQueue` and `HerdrStream` | |
| `Requests` | What operators, and a guest who may be an observer, ask for: prompts, `/close`, forwarded commands, files, albums, `/git`, `/new`, `/status`, `/observers` | `jobs`: `Bridge.jobs`; `closing`, `pending`, `album`: maps of `inbound` for the agent; `armed`, `due`: its debouncer; `running`: goroutines of `spawn`; `guest`: the observer list; `kind`, `from`, `typed`, `closes`, `fate`: history |
| `Settings` | The options, `options.json` and the panel | `options`: the file; `mem`: per process the values in force and the last panel; `keyboards`: panels with buttons; `lapses`: history |
| `Lifecycle` (extends `Settings`) | Daemon processes, pid file, control socket and the actions of the supervisor | `pc`: each process; `pidfile`, `sock`: the files; `act`: what each actor does; `crashed`: history |
| `OperatorProofs` | Theorems about what operators do, `Lifecycle` with `Settings`, and `Requests` | |
| `Dashboard` | The pinned message with the presence tracker and the loop cases that drive them | `pc`, `work`: the refresh under way, cut at its calls; `id`, `disk`, `hash`: mapping and `lastHash`; `msgs`: the group; `who`, `changes`: `Presence`; `heard`, `strays`, `unsure`: history |
| `DashboardProofs` | Theorems about `Dashboard` | |
| `MCRelayDeploy`, `MCRelayRouting`, `MCTopicMirror`, `MCLifecycle` | Plans, symmetry, typed names and a cut of the states for TLC | |

Conventions. A handler that makes several Telegram or host calls is cut at every
call, because other goroutines, people and crashes act while it waits; what
happens between two calls is one step, saves included. `writeAtomic` writes the
new file or leaves the old one, so a save is a choice between both. Wording,
formatting and placement on the canvas are left out. Definitions
carry the names of the code where TLA+ allows it.

Abstractions a reader should know:

* `RelayDeploy` names a plan's nodes by position; `Validate` refuses two nodes with
  one ID, so nothing is lost. The host may carry a mutation out after the call's
  deadline, refuse it, or lose it. Only failures that the code itself treats as
  certain or as doubtful are told apart.
* `TelegramQueue` has discrete time; `Horizon` ends the clock. A call may fail with
  a 429 (with a wait of its choice), a retryable error or a final one.
* `RelayTopics` has one workspace; `Maestro` is one scope more. The queue behind
  `CreateTopic` may try up to `MaxTries` times, and every try may have made a topic.
* `TopicMirror` reduces names to a tab or agent name with or without the workspace,
  ages to "any exited entry may be the oldest", and everything that asks for a
  snapshot to one action. The socket's events (`StatusEvent`, for `applyStatus` and what
  `applyUpdate` does to a status) say what Herdr says at that moment; those that come late
  are `HerdrStream`'s. Updates reach the loop in order, and those of a stopped
  daemon are dropped at the next start, as `bot.go` does.
* `Bridge` takes a screen for the question it shows and the part of it (dialog,
  toggled box, text entry); which rows make a dialog is `ParseDialog`'s business and
  given by `Multi`, `Entry` and `Plain`. A keystroke may make Herdr call the agent
  working for a moment. Edits of old keyboards are cosmetic in the code (`absorbEdit`)
  and left out, so any button of any post can be pressed at any time. A failed call
  may have reached the agent. Fatal Telegram errors, which end the daemon, are not
  told apart from a restart.
* `HerdrStream` has one list of events per connection. An agent is a terminal and a
  status. A status change goes to the connections that watch the pane; structural events
  and `pane.updated`, which carries the whole agent, go to all (`globalKinds`). What else an
  update says (title, directory, kind) and the names a snapshot resolves are left out. A connection breaks only when
  Herdr goes away; a break is seen after what was written before it. The jitter of the
  backoff is left out, and a connection may have been stable or not.
* `Requests` has one agent and one topic; the status that `forward` reads, what a
  download fetches and what a call returns are choices. Answering to a question on the
  screen, and what `esc` and `enter` do there, belong to `Bridge`.
* `Settings` has two groups of options, the icons of `NStatuses` statuses and a switch;
  the other keys are validated one by one and do not depend on each other. A daemon that
  cannot fetch Telegram's icons does not start, so the icon pack is never empty. One `Send`
  may make up to `MaxTries` messages, of which the daemon knows the last at most. An edit
  that is reported as failed leaves the buttons where they are; one that was carried out
  all the same would only take a panel more away.
* `Lifecycle` cuts a process at its accesses to shared files. A pid is not used again.
  Whether a daemon that ends between its handlers and its exit hears a signal is a choice.
* `Dashboard` splits the body of the message into what agents, icons and sync add and
  the line about quiet hours. Pins are left out: nothing depends on them.

## 3. Runs

| Run | Question | Instance | Result |
|---|---|---|---|
| `relay_deploy` | Does a job ever repeat, skip or reorder a mutation, put nodes on a floor that is not ready, record an answer nobody gave, finish incomplete, forget a part of its journal, take its own nodes for strangers', or keep the mutex? Does it implement `Provisioning`? | two jobs; a plan on a new floor, step by step, and a partitura on the shared floor; a stranger's node, unlimited crashes and resumes | holds |
| `telegram_queue` | Do MinGap and the window limit hold over the whole history; does every Do return once cancelled or stopped; is a done channel written once? | two callers, two tries, a channel of one, a ring of two, six ticks | holds |
| `relay_topics` | Is a floor's topic asked for once, a thread bound once, a binding kept over renames and crashes? | Maestro and a floor, two names, two threads | holds |
| `relay_routing` | Does an update act at most once; do replies and buttons reach the card's agent, session and question; do used buttons stay used? | two handlers, two terminals, two messages, one press, one host restart | holds |
| `topic_mirror` | With crashes, failing calls and saves, lost rights, the desk, resyncs and operators: is there one topic per agent, does a clean pass heal the mapping, is a muted topic touched only for a resync, a returned agent or a deletion? | two agents (one with a name of its own), three threads, three disturbances | holds |
| `topic_mirror_settles` | Without faults and replays, does the loop come to rest again and again, and does Telegram then show Herdr? | one agent, two statuses, five disturbances | holds |
| `bridge` | Does only the latest post act, and at most once; does a wait for text belong to it; is a question that stays on the screen posted in the end? | one agent, a single-choice question and one with boxes and a text entry, with and without blocked delay, two posts, three changes of the agent, two acts of operators or faults | holds |
| `bridge_press` | Does a press answer the question it stands under? | two single-choice questions, no faults | **violated**: the question was answered at the desk and the next one is not posted yet; the old button answers it |
| `herdr_stream` | Does a swap, a drain or a break lose what Herdr wrote; does a flapping connection back off; do subscription and registry end up in line with Herdr? | two panes, two terminals, a buffer of one event, two changes, two breaks | holds |
| `requests` | Is anything typed twice or for someone who is no operator; does anything but one press of the newest question close a pane; is a message left without an end? | two messages of twelve kinds, three presses, a job buffer of two | holds |
| `lifecycle` | Do starts at once, over any pid file, all give way; can two statuses share an icon; is a panel forgotten? | two actors with start, stop, restart and resync, two processes; or one actor, three statuses whose icons were all edited by hand, a pack of four icons, two tries of the queue; four acts or faults | holds |
| `dashboard` | Is a live-looking message left behind; is a flip of quiet hours missed; does the message end up right? | four changes, commands, faults and ends of the daemon | holds |

The findings in `PROJECT.json` quote the lines the violated properties come from.

Bounds. Every bound is a named constant. Two of everything that competes (handlers,
terminals, callers, floors with Maestro, agents) is where the interleavings of
these modules begin. Lists are long enough to
have a first, a middle and a last mutation (role, node, frame, edge). The ring of
two wraps within six ticks. Channels of one or two places are full in many states.
`MaxTrouble` counts changes of agents and gates, acts of operators and faults
together: three are enough for a fault, its consequence and a second agent, five
for exit, return, closing and reopening of one agent. In `Bridge`, `MaxActs` counts
presses, messages, answers at the desk, switches, replays, restarts and faults: two
give a press against a desk, a text entry and its text, or a fault before a press;
three changes of the agent are a question, its answer and the next question. In
`HerdrStream` a buffer of one event blocks the stream in many states, and two changes
with two breaks give a change during a swap, a drain or a gap, and an update of an agent
that turned or was replaced; the one case that takes four changes of a pane (`Astray`) is
left to the theorem `SpecTakesAllIn`, which holds for any number of them. Two messages in
`Requests` are two parts of an album, two `/close` questions, a command and its
successor, or an observer and what they write; three presses are an old question, the
new one and a repetition. In `Lifecycle` two actors can spawn a process each or one
can stop what the other starts. The states in which both actors act and operators use the
panel as well are cut off (`OneConcern` in `MCLifecycle`): the pid file and the panel share
nothing but the daemon processes, and the theorems need no such cut. `Budget` in `Dashboard` pays for a switch during a
send and back, or a fault and the changes around it. Every property of a passing run has a mutant of the code
that breaks it under the same bounds (`PROJECT.json`, "mutants").

Deadlock is checked everywhere but in `telegram_queue`, where all callers have
their answers and the clock has reached `Horizon` in the end, and in the runs of
`Bridge`, `Requests` and `Lifecycle`, where people, agents and processes have used up
their bounds and nothing has to happen.

Fairness. `RelayDeploy`: weak fairness of the goroutine that runs `Deploy`; the
context of the call ends after five minutes, so a poll can always be left.
`TelegramQueue`: weak fairness of `Run` and of each `Do`; an HTTP request ends with
its context. `TopicMirror`: weak fairness of the loop's step and of each goroutine, of armed
timers and of the registry's clock. Nothing makes the daemon start, agents change
or operators act. `Bridge`: weak fairness of the registry (events and the clock's
snapshot), the loop, armed timers and the bridge goroutine; each job ends with
`CallTimeout`. `QuestionPosted` has as premises that the question stays, quiet is
over, and nothing was lost: no call failed, no job was dropped at the limit, no
switch held posts back, and no replay took the change (`unheard`). The last one is a
hazard of its own (`daemon.go:631`): the events of a replay go to the reconciler
only. `HerdrStream`: weak fairness of each step of the stream, of the registry and of
its clock; a Herdr that went away comes back.
`Requests`: weak fairness of the bridge goroutine, armed timers and background runs,
which end at their timeouts. `Dashboard`: weak fairness of the calls the loop is in
and of its minute tick.

The assumption `Strict = FALSE` of `topic_mirror_settles`: the gateway takes "not
modified" as success for edits only. Whether Telegram refuses to close a closed
topic is not recorded in the repository. With `Strict = TRUE` an agent that
returns to a topic an operator has just reopened keeps the finished icon; this is
listed as a hazard. For the same reason the settling run has one name: a tab
renamed from Telegram and back in Herdr between two snapshots keeps the typed name.

## 4. Proofs

Every theorem holds for all values of the constants that satisfy the named
assumptions, so for any number of jobs, floors, handlers, callers, messages or
processes and any bound, not only for the instances of section 3. Each module of
proofs states an inductive invariant (TLC checked each of them on the run of its
component before it was proved), one lemma per action that the action keeps it, and
the theorems. `None` is assumed to be none of the values it stands beside
(`NoTopicIsNone`, `NoTargetIsNone`, `NoSnapshotIsNone`, `NoKeyboardIsNone` and the
like).

**RelayDeployProofs**, for all jobs, plans and strangers' nodes. Assumed: plans are
valid (`IsPlan`), the mutations of one plan have distinct journal keys
(`StepsAssumption`, from `Validate`), and a plan has at most one floor step and no node
steps beside a partitura (`ShapeAssumption`, from the order in which `Deploy` calls
`step`).

* `SpecConsistent`: `Spec => []Consistent`. `Consistent` is the inductive invariant.
  `NoReplay` alone is not inductive: that nothing is sent again depends on the
  journal on disk. `Durable` says that memory and disk agree while no save has
  failed; `JournalInv` that the answers on disk are those of the first m mutations,
  and that the wire holds these m and perhaps the doubtful one; `ExecInv` that a
  running call has all answers before its own position, and that the mutation it is
  sending is the one in doubt. One lemma per action (`BeginKeeps`, `SendKeeps`,
  `RecordKeeps`, ...), over lemmas on initial parts of the list of mutations.
* `SpecNoReplay`, `SpecWriteAhead`: conjuncts and consequences of it.
* `SpecJournalGrows`: the action property, from the same invariant.
* `SpecResultsAreReal`: an answer in the journal is one the host gave, and a finished
  job was carried out to its last mutation. It needs `AllBacked`, the same fact for
  memory and for disk (a restart loads the one into the other), and `Consistent` for
  the last step: a call that verifies has all answers and nothing in doubt.
* `SpecFloorBeforeNodes`: nothing follows a new floor before the host reported it
  ready. The property speaks of the wire only; its strengthening says that the host
  acts on a mutation once and only on one that was sent (`HostInv`), and that a call
  is past the floor step, also on a resume that replays it, only with a floor that is
  ready (`PastFloor`, `FloorInv`), which no answer that comes late can undo.
* `SpecBaselineIsForeign`: a resumed verification never takes a job's own nodes for
  strangers'. A partitura leaves only behind its baseline on disk (`AtPartitura`,
  `BaselineFirst`), and a job's nodes appear on the canvas only through mutations that
  were sent (`NodesAreMade`), so the canvas is free of them when the baseline is taken
  (`Foreign`, for memory and disk).
* `SpecImplementsProvisioning`: the refinement. `Send` is `Emit`, the first saved
  `Start` is `Choose`, a saved `Finish` is `Close`, everything else stutters.

**AdapterProofs, the call queue**, for every configuration NewQueue accepts and any
number of callers.

* `SpecBucketInv`: `RateLimit` needs `RingInv` (the ring, read from `head`, holds the
  last `count` attempts, whatever has wrapped) and that the wake time of a pause, or
  the present once it is over, is one at which the bucket has room.
* `SpecRateLimit`: attempts keep MinGap and the window limit.
* `SpecAnsweredOnce`: the done channel of a call is written once. A call is in one place,
  the channel or `Run`, and has no answer there; a caller that has not enqueued its call
  is in neither (`Unanswered`).

**AdapterProofs, the stream of Herdr**, for any panes, any buffer, and any number of
changes, swaps, breaks and failed subscriptions. Assumed: a reset is of no pane
(`StreamAssumption`), and what doubling means (`DoublingAssumption`, a law of
arithmetic that the provers do not know of `^`; TLC evaluates it on the run).

* `SpecTakesAllIn`: `TakesAllIn` speaks of a stream in which nothing waits and says
  nothing of the events on the way. `StreamInv` follows, for every pane no change of
  which was missed, the last event that waits for it, in the order in which the
  registry will take them: the connection that is drained to, the one that is drained,
  the buffer. For the status of the pane that event is a status or an update (`Due`), for
  its terminal a structural event (`Placed`): it says what Herdr says, or makes the
  registry ask; if none waits, the registry has it or is about to ask. That a status which
  is not written to the replacement, because it does not watch the pane, is not
  contradicted by what the replacement already holds needs three facts more: a connection
  is told the status of the panes it watches only (`Watches`), the replacement does
  not go away before the connection it replaces (`Serving`), and the replacement holds no
  older update of the pane, which is what `missed` takes out (`Astray`).
* `SpecFlappingClimbs`: the delay chosen last is no longer than that of the present
  attempt (`BackoffInv`), and delays grow with the attempts (`DelayGrows`).

**RelayTopicsProofs**, for any floors, names and number of threads.

* `SpecTopicsInv`: a topic is asked for once and a thread leads to one floor. The
  invariant has to hold for `relay.json` as well as for memory, because the threads on
  disk are those in memory after a restart (`Store`); a running process knows every
  topic on disk, and exactly those while no save has failed (`Loaded`); a Refresh that
  is in `createForumTopic` has its mark on disk and no topic yet (`Asking`); and a
  process that is down runs no Refresh.
* `SpecBindingsKept`: the action property, from the same invariant.

**RelayRoutingProofs**, for any number of handlers, terminals, questions and updates.

* `SpecAtMostOnce`: an update is saved as seen before its handler does anything, and two
  handlers at work have different updates (`Crew`), so that a call with the key of an
  update exists only if its handler has passed the call (`Fine`) or is gone.
* `SpecReachesItsAgent`, `SpecAnswersTheQuestion`: a handler that has looked its
  destination up behind the lock has the terminal, session and question of the card
  (`Right`). This needs that what is bound to a message, in memory and on disk, is what
  the message was posted with up to its buttons (`BoundRight`), which consuming buttons,
  binding a new card and a restart keep.
* `SpecButtonsStayUsed`: a handler in "consume" still finds its binding, so a save never
  takes a binding away or gives it buttons back.
* `SpecRoutingInv`: a lock is held by the handler that is busy with its terminal.

**TopicMirrorProofs**, for any finite set of agents, any number of topics, tries and
events, and any choice of gates and hands (`MirrorAssumption`).

* `SpecMirrorInv`: one topic per agent. `MirrorInv` does not say what a handler still
  has to do, and a create left in `todo` could break it at any time. `IInv` adds which
  items follow each other in a handler (`Shape`: an answer is applied right after it was
  asked for, closings come together and first, deletions come alone and one per agent),
  what each item finds when it is its turn (`Fits`: a topic is made only for an agent
  without an entry), that topics name the agents they were made for, in memory and on
  disk (`Links`), and that what exists and was not lost is linked, also while the
  process is down (`Linking`). One lemma per kind of item and per action.
* `SpecMuteKept`: the action property, from the same invariant: items at the head of a
  handler that create, close or delete are about entries that are not live, those that
  refresh or finish about unmuted ones (`Fits`), and a call touches the topic of its own
  agent only (`Links`).
* `SpecPassHeals`: what a pass that is over has healed was healed by items long gone.
  `PassInv` says that while a pass is under way and nothing failed, the entry of every
  agent is as it should be (`Good`), or an item of the handler is still due for it
  (`Due`). It needs which items a pass holds (`PassShape`), that a pass and a prune come
  last in their handler, and that a live entry is never a closed one, in memory or on
  disk (`Open`).
* `SpecSettled`: assumed besides (`Calm`, which the run that checks `Settled` satisfies): no
  gate, no failing call or save, no refusal, no topic deleted by hand, and agents named by
  their tab, whose label is what operators type. None of these can go: with a gate
  ("rights", "sync", "desk" or "resync"), with `Faults`, `Strict`, "delete", an agent in
  `Custom` or a second name, TLC finds `Settled` violated on the instance of that run.
  Operators still close, reopen and rename, agents come, change and go, and the daemon ends
  and starts between two handlers.
  `Settled` only speaks of a daemon with nothing left to do. `CalmInv` says of every other
  state that what is still unlike has something on its way that settles it: between the
  registry and the reconciler an event, the last one about the agent (`Knows`); between the
  reconciler and the mapping the item at hand, an armed or fired timer, or a pass that has
  still to come to the agent (`Tracks`, `Will`); between the mapping and Telegram the item at
  hand or an update that waits, of which the last about the name and the last about the
  closing agree with the topic (`Shows`). One lemma per item and per action; with nothing
  waiting, each of these leaves only what `Settled` says (`QuietSettled`).

**DashboardProofs**, for every number of changes, faults and ends of the daemon.

* `SpecQuietHeard`: no end of quiet hours is missed. `QuietHeard` says nothing of a
  daemon that is down and would allow a backlog of verdicts; the inductive
  `PresenceOK` says that the channel is empty, and the loop has acted on the present
  verdict, or holds that verdict and nothing else.
* `SpecOneDashboard`: what looks live is the message on record or one a named accident
  cut off. A message known to memory alone would be lost with the daemon, and one that is
  replaced while it looks live would be lost when the new one is recorded. So
  `DashboardOK`: the id in memory is the one on disk unless it is a stray (`Known`), and
  none but the new message looks live while it is sent and pinned (`Replaced`).

**BridgeProofs**, for any questions, any number of posts, jobs and events, and whatever
calls fail, with or without delay, pager and reannouncements.

* `SpecBridgeInv`: the wait for text has a keyboard, only the last post acts, and a post
  answers once. These three are not inductive without what the job in progress relies on
  between two calls (`JobInv`: the keyboard it was checked against is still in force, and
  a post that has answered offers nothing until its wait ends), nor without the bound on
  the posts (`TypeOK`). `BridgeInv`, which the run checks, is. One lemma per action; the
  long ones are a post that retires an older keyboard (`SendKeeps`) and a press
  (`PressSendsKeeps`), where what the press does to the post, the keyboard and the
  wait depends on the kind of button.

**OperatorProofs, what agents are told** (`Requests`), for any number of messages and
presses and any size of the buffer.

* `SpecTypedOnce`: a message that waits does so in one place, a job, the album or a
  background run (`Apart`), was not typed yet, and is an operator's if it can be typed
  from there (`Untyped`).
* `SpecClosesOnce`: messages stand in the buffer in the order they were sent (`Ordered`)
  and behind every question already asked (`Newest`), so that a new question is newer
  than all others and one that was pressed is not asked again.

**OperatorProofs, daemons and options** (`Lifecycle` with `Settings`), for any number of
actors, finitely many processes, and any number of statuses and icons. Assumed: a pid is
not 0 (`SettingsAssumption`) and the wishes are the supervisor's actions
(`WishesAssumption`).

* `SpecSomeoneServes`: `SomeoneServes` does not say why a process that gave way could.
  `ServeInv`: without a stop, restart or crash, a process that made the pid file stays;
  one that gives way saw such a process alive, or found a second file after it had
  removed the first, which only such a process can have made.
* `SpecOnePanel`: only a daemon that serves has a last panel (`PanelInv`), so that each
  panel with buttons that no daemon would retire is paid for once: by an edit that failed,
  by a daemon that ended, or as a message of a send whose answer was lost. A call of the
  panel takes the claim from its slips at most (`Slips`: the messages of the send but the
  known one, and the old panel if its edit failed), and counts as many (`SlipsCount`), for
  every number of attempts.
* `SpecIconsTell`: the icons of every process fit from the moment it reads the file, and
  `Set` only takes over what fits (`IconsInv`; the values of the file may be anything).
  What `SanitizeOptions` makes of a file is a recursion over the keys. The library's
  induction theorems take an operator, which the provers cannot instantiate; that every
  set of naturals that is not empty has a least element (`LeastOf`, from the well-founded
  `<`) takes none. From it follow that the recursion has a solution for every number of
  keys (`Unfolds`) and that no key introduces a conflict (`SanitizeValid`).

Every invariant and action property that a passing run checks is a theorem. Only
model-checked is liveness (`DeployReturns`, `DoReturns`, `Settles`, `QuestionPosted`,
`Converges`, `AllEnd`, `DashboardSettles`): under fairness it is out of reach of the prover.

## 5. What the models show beyond the runs

The run `bridge_press` is kept as a violation because the
repository states its property: a press on a button that no longer applies shows a
notice instead of acting (`docs/commands.md:41`; `outbound.go:1107`). While modelling, more behaviours were met that differ from what a document or comment
says, or that a reader may not expect. Each can be reproduced by removing the premise
or history variable named here.

* `reconciler.go:354`: the topic of a muted entry gets name and icon edits
  (`reconciler.go:359`) in the pass of a resync, which sets `r.force` (`reconciler.go:218`),
  although `docs/behaviour.md:46` says "the mirror goes quiet for that agent: no icon edits,
  no screen posts, until you reopen it" and the comment on `Muted` (`domain/mapping.go:16`)
  "the mirror then sends no edits and posts no screens until the topic is reopened". A
  topic closed by hand, a change of its agent's status and a resync are enough.
  `MuteKept` holds because it allows it (`Head(todo).force`).
* `relay.go:338`: a topic in doubt makes the first `Refresh` of every later process fail,
  and `Run` ends before it serves `/bind`, which is to resolve the doubt.
* `relay_inbound.go:138`: the second look-up of a text without recipient no longer asks
  for the coordinator; one that lost the role during the wait still gets the text.
* `daemon.go:631`: a replay overtakes older events in the channel; an old event then
  revives the topic of an agent that is gone (`TopicMirror`, with replays), and changes
  only the replay saw never reach the bridge (`Bridge`, `unheard`).
* `registry.go:215`, `stream.go:57`: `pane.updated` goes to every connection and carries the
  status. During a swap a newer status may be written to the drained connection only, while
  an older update waits in the replacement; it is applied last, and the registry is wrong
  until its next listing. `TakesAllIn` takes this out (`Astray`); without it
  the invariant fails with one pane and `MaxMoves = 4`.
* `optionspanel.go:164`, `optionspanel.go:296`: the panel's `Send` is repeated after a lost
  answer too, and leaves a second panel whose buttons act and that no `/options` retires
  (`Settings`, `MaxTries`, `lapses`).
* `errors.go:140`: `createForumTopic` is repeated by the queue after a lost answer, and
  leaves a topic no floor or agent is bound to (`RelayTopics`, `MaxTries`).
* `stream.go:262`: a break that happens during a drain is taken for the end of the
  drain, so no `StreamReset` follows; and the reset is emitted before the gap it
  announces is over. In both cases the next tick of the registry helps (`missed`).
* `options.go:1105`: `SanitizeOptions` compares a value with the defaults of keys that
  come later, so that two icons swapped by hand are both refused, although the comment
  says "the other options survive untouched".
* `daemon.go:666`: after a migration of the chat the daemon saves the configuration it
  was started with; observers added since are gone from the file.
* `bridge.go:165`: `Submit` does not take `StrangerSeen`, so `HandleStranger` is never
  reached and `/observers` never lists anyone (`docs/testing.md:111` says it does).
* `pidfile.go:68`: an empty file is taken for a stale one, and the check and the
  removal are two steps: two daemons started at once may both serve.
* `process_unix.go:46`: a resync that finds no control socket sends SIGHUP, which ends a
  daemon that is still being built (`Resyncs`, `crashed`).
* `dashboard.go:198`: a dashboard that was deleted is not made again while its body does
  not change; an edit that was carried out and reported as failed leaves the message
  behind when the body returns to the hashed one (`unsure`).
* `dashboard.go:293`: when both the delete and the note that replaces it fail, the
  message stays and looks live, which the comment at 277 excludes (`strays`).
* `inbound.go:523`: the role of a sender is the one at the arrival of the message; who is
  no observer any more is still answered when the message waited.

## 6. Not modelled

* Screen and choice parsing, Markdown, transcripts, history, the ring of captured
  lines: text processing, character by character.
* Setup, doctor, CLI output, logs pane: sequential prompts and printing.
* HTTP and file formats of the adapters, Windows' process calls, the test kit.
* Of the bridge: reactions of turn records and live output. Of the loop: the capture
  tick, the sweep of the inbox directory, `socketGone`, the migration of a chat.
* `topicview.go`: a copy of the mapping under a lock; the modules that read it take it
  for the mapping, whose order of saves and reads they contain.

## 7. Plan

Done, in this order: provisioning with its promise and proofs; the Telegram queue
with its proofs; Relay's topics; Relay's routing; the topic mirror; the bridge's
questions and buttons; the Herdr stream with the registry; operators' requests;
options, panel, pid file and supervisor; dashboard and presence.

Next models: turn records with their reactions in `Bridge`; the migration of a chat
with the two copies of the configuration; a composition of `HerdrStream` with
`TopicMirror`, now joined only by the registry both contain.

Next theorem: the part of `Settled` that a daemon with gates keeps.
