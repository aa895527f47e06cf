---------------------------- MODULE HerdrStream ----------------------------
(***************************************************************************)
(* The subscription stream to Herdr (adapters/herdr/stream.go) together    *)
(* with the registry that consumes it (app/registry.go).  Herdr writes     *)
(* events to every subscribed connection; the stream swaps its connection  *)
(* whenever the watched panes change, drains the old one, reconnects with  *)
(* a growing delay when it breaks, and reports the break as a reset.  The  *)
(* registry applies the events and lists the agents on a reset, on a       *)
(* structural event and on every tick.                                     *)
(***************************************************************************)
EXTENDS Naturals, Sequences, SequencesExt, FiniteSets

CONSTANTS
  Panes,        \* the panes of Herdr
  Start,        \* the panes that hold an agent when the daemon starts
  Terminals,    \* the terminals an agent may run in, part of its key
  OutCap,       \* eventBuffer: the events that may wait for the registry
  MaxDelay,     \* Backoff.Max in units of Backoff.Min
  MaxAttempt,   \* the attempt from which the delay grows no further
  MaxMoves,     \* bound: the changes of Herdr's agents in a behaviour
  MaxBreaks     \* bound: the times Herdr goes away or refuses

ASSUME StreamAssumption ==
  /\ Start \subseteq Panes
  /\ OutCap \in Nat \ {0} /\ MaxDelay \in Nat \ {0} /\ MaxAttempt \in Nat
  /\ 2 ^ MaxAttempt >= MaxDelay
  /\ "all" \notin Panes /\ "none" \notin Terminals

(* What doubling means, which the provers do not know of ^.                *)
ASSUME DoublingAssumption ==
  \A n \in 0..MaxAttempt : 2 ^ n \in Nat /\ 2 ^ (n + 1) = 2 * 2 ^ n

VARIABLES
  world,    \* Herdr: the agent in a pane, or Nobody
  up,       \* Herdr answers on its socket
  conn,     \* the connection being served
  next,     \* its live replacement while the old one is drained
  pc,       \* where Run and serve are
  asked,    \* the panes of the subscription being made
  panes,    \* Stream.panes
  changed,  \* the signal in Stream.changed
  retry,    \* goroutines that will signal again after a failed swap
  attempt,  \* Run's attempt counter
  delay,    \* the delay Run chose last
  stable,   \* history: the connection before it lived stableAfter
  out,      \* Gateway.events
  known,    \* Registry.agents
  coalesce, \* a structural event waits for its snapshot
  ready,    \* the daemon has taken the first snapshot
  missed,   \* history: the panes with a change that did not reach the registry,
            \* or is followed by an older update
  budget    \* what is left of the bounds

streamVars == <<conn, next, pc, asked, retry, attempt, delay, stable>>
regVars == <<known, coalesce, ready>>
systemVars == <<world, up, streamVars, panes, changed, out, regVars, missed, budget>>

Statuses == {"idle", "working"}
Agent == [terminal: Terminals, status: Statuses]
Nobody == [terminal |-> "none", status |-> "none"]

(* A status change names the pane and its status, an update all of its     *)
(* agent; what a structural event says, the registry does not look at.     *)
Event == [kind: {"status", "update", "structural", "reset"}, pane: Panes \cup {"all"}, agent: Agent \cup {Nobody}]
Conn == [live: BOOLEAN, panes: SUBSET Panes, q: Seq(Event)]
NoConn == [live |-> FALSE, panes |-> {}, q |-> <<>>]

Subscribed(P) == [live |-> TRUE, panes |-> P, q |-> <<>>]
Agents(w) == {p \in Panes : w[p] # Nobody}

(* Backoff.Next: the delay of an attempt, doubled up to the maximum.  The  *)
(* jitter is left out.                                                     *)
NextDelay(n) == IF 2 ^ n < MaxDelay THEN 2 ^ n ELSE MaxDelay
Bump(n) == IF n < MaxAttempt THEN n + 1 ELSE n

StreamInit ==
  /\ world \in [Panes -> [terminal: Terminals, status: {"idle"}] \cup {Nobody}] /\ Agents(world) = Start
  /\ up = TRUE /\ conn = NoConn /\ next = NoConn
  /\ pc = "subscribe" /\ asked = {} /\ panes = {} /\ changed = FALSE /\ retry = 0
  /\ attempt = 0 /\ delay = 0 /\ stable = FALSE /\ out = <<>>
  /\ known = [p \in Panes |-> Nobody] /\ coalesce = FALSE
  /\ ready = FALSE
  /\ missed = Start
  /\ budget = [moves |-> MaxMoves, breaks |-> MaxBreaks]

Spend(b) == budget[b] > 0 /\ budget' = [budget EXCEPT ![b] = @ - 1]

-----------------------------------------------------------------------------
(* Herdr.  A status change goes to the connections that watch the pane,    *)
(* everything else to every connection.                                    *)

Carries(c, e) == c.live /\ (e.kind = "status" => e.pane \in c.panes)
Pushed(c, e) == IF Carries(c, e) THEN [c EXCEPT !.q = Append(@, e)] ELSE c

(* A change of e.pane does not reach the registry for good: nobody carries *)
(* it, or only the old connection of a drain does, and the replacement,    *)
(* which does not watch the pane, holds an update from before the change.  *)
Astray(e) ==
  /\ ~Carries(next, e)
  /\ Carries(conn, e) =>
       next.live /\ \E u \in Range(next.q) : u.kind = "update" /\ u.pane = e.pane

Pushes(e) ==
  /\ Spend("moves")
  /\ conn' = Pushed(conn, e) /\ next' = Pushed(next, e)
  /\ UNCHANGED <<up, pc, asked, panes, changed, retry, attempt, delay, stable, out, regVars>>

Changes(kind, p, a) ==
  LET e == [kind |-> kind, pane |-> p, agent |-> a] IN
  /\ Pushes(e)
  /\ world' = [world EXCEPT ![p] = a]
  /\ missed' = IF Astray(e) THEN missed \cup {p} ELSE missed

Turn(p) == /\ world[p] # Nobody
           /\ \E s \in Statuses \ {world[p].status} : Changes("status", p, [world[p] EXCEPT !.status = s])
Detected(p) == /\ world[p] = Nobody
               /\ \E t \in Terminals : Changes("structural", p, [terminal |-> t, status |-> "idle"])
Closed(p) == world[p] # Nobody /\ Changes("structural", p, Nobody)

(* pane.updated: something else about a pane changed, its title or its     *)
(* directory; the event says what the pane is now, agent and status too.   *)
Updates(p) ==
  /\ Pushes([kind |-> "update", pane |-> p, agent |-> world[p]])
  /\ UNCHANGED <<world, missed>>

(* Herdr goes away: nothing more is written to its connections; what was   *)
(* written can still be read.                                              *)
Down ==
  /\ up /\ Spend("breaks") /\ up' = FALSE
  /\ conn' = [conn EXCEPT !.live = FALSE] /\ next' = [next EXCEPT !.live = FALSE]
  /\ UNCHANGED <<world, pc, asked, retry, attempt, delay, stable, panes, changed, out, regVars, missed>>
Up == /\ ~up /\ up' = TRUE
      /\ UNCHANGED <<world, streamVars, panes, changed, out, regVars, missed, budget>>

-----------------------------------------------------------------------------
(* The stream.  subscribe reads the panes, dials, and waits for Herdr to   *)
(* confirm; pc = "subscribe" and "swap" are the two callers in that wait.  *)

Room == Len(out) < OutCap
Calm == <<world, up, panes, regVars>>
Env == <<Calm, budget>>

(* A subscription fails while Herdr is away, or once in a while: a timeout, *)
(* a refusal, an answer that cannot be read.                               *)
Refused == IF up THEN Spend("breaks") ELSE UNCHANGED budget

(* Run counts the attempt; only a connection that lived stableAfter starts  *)
(* the count again.                                                        *)
Backs(lived) ==
  LET n == IF lived THEN 0 ELSE attempt
  IN delay' = NextDelay(n) /\ attempt' = Bump(n) /\ stable' = lived /\ pc' = "sleep"

(* Mutant: a subscription that succeeds starts the count again.            *)
ConnectsFresh ==
  /\ pc = "subscribe" /\ up
  /\ conn' = Subscribed(asked) /\ pc' = "serve" /\ attempt' = 0
  /\ UNCHANGED <<next, asked, retry, delay, stable, changed, out, missed, Env>>

Connects ==
  /\ pc = "subscribe" /\ up
  /\ conn' = Subscribed(asked) /\ pc' = "serve"
  /\ UNCHANGED <<next, asked, retry, attempt, delay, stable, changed, out, missed, Env>>

Fails ==
  /\ pc = "subscribe" /\ Refused
  /\ Backs(FALSE)
  /\ UNCHANGED <<conn, next, asked, retry, changed, out, missed, Calm>>

Wakes ==
  /\ pc = "sleep" /\ pc' = "subscribe" /\ asked' = panes
  /\ UNCHANGED <<conn, next, retry, attempt, delay, stable, changed, out, missed, Env>>

(* serve sees the signal and starts the replacement.                       *)
Swaps ==
  /\ pc = "serve" /\ changed
  /\ changed' = FALSE /\ asked' = panes /\ pc' = "swap"
  /\ UNCHANGED <<conn, next, retry, attempt, delay, stable, out, missed, Env>>

Replaced ==
  /\ pc = "swap" /\ up
  /\ next' = Subscribed(asked) /\ pc' = "drain"
  /\ UNCHANGED <<conn, asked, retry, attempt, delay, stable, changed, out, missed, Env>>

(* Mutant: a failed swap is not tried again.                               *)
KeepsForGood ==
  /\ pc = "swap" /\ Refused /\ pc' = "serve"
  /\ UNCHANGED <<conn, next, asked, retry, attempt, delay, stable, changed, out, missed, Calm>>

Keeps ==
  /\ pc = "swap" /\ Refused
  /\ retry' = retry + 1 /\ pc' = "serve"
  /\ UNCHANGED <<conn, next, asked, attempt, delay, stable, changed, out, missed, Calm>>

Signals ==
  /\ retry > 0 /\ retry' = retry - 1 /\ changed' = TRUE
  /\ UNCHANGED <<conn, next, pc, asked, attempt, delay, stable, out, missed, Env>>

(* One line of the connection, translated and handed over; serve and       *)
(* drainOld read the same way.                                             *)
Reads ==
  /\ pc \in {"serve", "drain"} /\ conn.q # <<>> /\ Room
  /\ out' = Append(out, Head(conn.q)) /\ conn' = [conn EXCEPT !.q = Tail(@)]
  /\ UNCHANGED <<next, pc, asked, retry, attempt, delay, stable, changed, missed, Env>>

(* The read fails: the connection counts as an attempt unless it lived     *)
(* stableAfter, the reset is emitted, and Run sleeps.                      *)
Breaks ==
  /\ pc = "serve" /\ ~conn.live /\ conn.q = <<>> /\ Room
  /\ \E lived \in BOOLEAN : Backs(lived)
  /\ out' = Append(out, [kind |-> "reset", pane |-> "all", agent |-> Nobody])
  /\ conn' = NoConn
  /\ UNCHANGED <<next, asked, retry, changed, missed, Env>>

(* drainOld ends when the old connection yields no more, or when its read  *)
(* deadline passes while the registry takes no event: what is unread then  *)
(* goes with the connection.  No reset, whichever way the read ended.      *)
Drained ==
  /\ pc = "drain" /\ (conn.q = <<>> \/ ~Room)
  /\ missed' = missed \cup {p \in Panes : \E e \in Range(conn.q) : e.pane = p}
  /\ conn' = next /\ next' = NoConn /\ pc' = "serve"
  /\ UNCHANGED <<asked, retry, attempt, delay, stable, changed, out, Env>>

-----------------------------------------------------------------------------
(* The registry.  Its loop starts after the daemon's first snapshot.  A    *)
(* snapshot of the loop is one step: the loop takes no event in between.   *)

Others == <<world, up, streamVars>>

(* SetPanes signals only a changed set; one signal is enough.              *)
SetPanes(P) == panes' = P /\ changed' = (changed \/ P # panes)

(* A listing covers what was missed before it, unless the stream still     *)
(* holds something of the pane, which is then applied after it.            *)
Covered(p) == ~(conn # NoConn /\ ~conn.live) /\ \A e \in Range(out \o conn.q \o next.q) : e.pane # p
Unseen == {p \in missed : ~Covered(p)}

(* Snapshot in the loop: ListAgents, applySnapshot, WatchPanes.  It fails  *)
(* while Herdr is away; the loop then waits for the next reason.           *)
Snapshot ==
  /\ coalesce' = FALSE
  /\ IF up
       THEN /\ known' = world /\ SetPanes(Agents(world)) /\ missed' = Unseen
       ELSE /\ missed' = Panes
            /\ UNCHANGED <<known, panes, changed>>

(* applyStatus: an unknown pane needs a snapshot.                          *)
ApplyStatus(e) ==
  /\ IF known[e.pane] = Nobody
       THEN coalesce' = TRUE /\ UNCHANGED known
       ELSE known' = [known EXCEPT ![e.pane].status = e.agent.status] /\ UNCHANGED coalesce
  /\ UNCHANGED <<panes, changed, missed>>

(* applyUpdate: an agent with a known key is taken as the event has it,    *)
(* one with another key needs a snapshot, a pane without agent nothing.    *)
ApplyUpdate(e) ==
  /\ IF e.agent.terminal = known[e.pane].terminal
       THEN known' = [known EXCEPT ![e.pane] = e.agent] /\ UNCHANGED coalesce
       ELSE coalesce' = (coalesce \/ e.agent # Nobody) /\ UNCHANGED known
  /\ UNCHANGED <<panes, changed, missed>>

(* Mutant: a structural event schedules nothing.                           *)
ApplyDeaf ==
  /\ ready /\ out # <<>>
  /\ out' = Tail(out)
  /\ LET e == Head(out) IN
       \/ e.kind = "reset" /\ Snapshot
       \/ e.kind = "structural" /\ UNCHANGED <<coalesce, known, panes, changed, missed>>
       \/ e.kind = "status" /\ ApplyStatus(e)
       \/ e.kind = "update" /\ ApplyUpdate(e)
  /\ UNCHANGED <<Others, ready, budget>>

Apply ==
  /\ ready /\ out # <<>>
  /\ out' = Tail(out)
  /\ LET e == Head(out) IN
       \/ e.kind = "reset" /\ Snapshot
       \/ e.kind = "structural" /\ coalesce' = TRUE /\ UNCHANGED <<known, panes, changed, missed>>
       \/ e.kind = "status" /\ ApplyStatus(e)
       \/ e.kind = "update" /\ ApplyUpdate(e)
  /\ UNCHANGED <<Others, ready, budget>>

(* The daemon's first snapshot, after which the loop starts; the tick, the *)
(* coalesced snapshot and a request.                                       *)
Lists ==
  /\ Snapshot /\ ready' = TRUE
  /\ UNCHANGED <<Others, out, budget>>

-----------------------------------------------------------------------------
Herdr == Down \/ \E p \in Panes : Turn(p) \/ Detected(p) \/ Closed(p) \/ Updates(p)
Stream == Connects \/ Fails \/ Wakes \/ Swaps \/ Replaced \/ Keeps \/ Signals \/ Reads \/ Breaks \/ Drained
Registry == Apply \/ Lists
StreamNext == Herdr \/ Up \/ Stream \/ Registry

(* Herdr comes back, the goroutines run, and the tick comes.               *)
Fairness ==
  /\ WF_systemVars(Up) /\ WF_systemVars(Connects) /\ WF_systemVars(Fails) /\ WF_systemVars(Wakes)
  /\ WF_systemVars(Replaced) /\ WF_systemVars(Keeps) /\ WF_systemVars(Signals) /\ WF_systemVars(Swaps)
  /\ WF_systemVars(Reads) /\ WF_systemVars(Breaks) /\ WF_systemVars(Drained)
  /\ WF_systemVars(Apply) /\ WF_systemVars(Lists)

StreamSpec == StreamInit /\ [][StreamNext]_systemVars /\ Fairness
-----------------------------------------------------------------------------
(* Everything that was written to the stream has been taken in.            *)
Quiet ==
  /\ pc = "serve" /\ conn.live /\ conn.q = <<>> /\ out = <<>> /\ ~coalesce

(* Nothing is lost by a swap of connections, an event that arrives on both *)
(* of them, an event older than the snapshot it follows, an update of an   *)
(* agent that was replaced, or the order in which serve and the registry   *)
(* select: once all is taken in, the registry knows the agent of a pane as *)
(* Herdr does, unless a change was made while no connection carried it,    *)
(* was cut off by the drain deadline, needed a snapshot that failed, or    *)
(* went to the drained connection only, behind which the replacement still *)
(* holds an older update (serve, drainOld, Registry.Apply, applySnapshot). *)
TakesAllIn ==
  Quiet => \A p \in Panes \ missed : known[p] = world[p]

(* A stream that flaps climbs the backoff: the delay before a connection   *)
(* attempt never falls unless the connection before it was stable (Run,    *)
(* stableAfter).                                                           *)
FlappingClimbs ==
  [][pc # "sleep" /\ pc' = "sleep" =>
       (delay' >= delay \/ stable')]_systemVars

(* Once Herdr is quiet the stream ends up subscribed to exactly the panes  *)
(* that hold agents, whatever failed on the way: a failed swap is tried    *)
(* again, and one signal stands for many changes (SetPanes, serve); and    *)
(* whatever the stream missed, the registry's own ticks bring it in line   *)
(* with Herdr (Registry.Run).                                              *)
Converges ==
  <>[](/\ pc = "serve" /\ conn.live /\ conn.panes = Agents(world)
       /\ known = world)

=============================================================================
