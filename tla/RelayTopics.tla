---------------------------- MODULE RelayTopics ----------------------------
(***************************************************************************)
(* The forum topics of Maestri Relay: Run, Refresh, ensureTopic, /bind and *)
(* /mute (internal/app/relay.go, relay_inbound.go).                        *)
(*                                                                         *)
(* Every refresh gives each floor of the host a topic.  A topic is saved   *)
(* as Pending before Telegram is asked to create it, because createForum-  *)
(* Topic has no idempotency key: an unknown outcome is left to the         *)
(* operator's /bind.  One workspace is modelled; its floors are Scopes and *)
(* the global Maestro topic is one scope more.                             *)
(***************************************************************************)
EXTENDS Naturals, Sequences, FiniteSets

CONSTANTS
    Scopes,     \* keys of Topics: the workspace's floors and Maestro
    Maestro,    \* scope("maestro", "")
    Names,      \* display names of a floor
    Watched,    \* floors with an agent on them
    MaxThreads, \* bound: topics that ever exist in the group
    MaxTries,   \* attempts the Telegram queue makes for one call
    None

ASSUME ScopesAssumption ==
    /\ Maestro \in Scopes /\ None \notin Scopes \cup Names /\ MaxThreads \in Nat
    /\ MaxTries \in Nat \ {0}
    /\ Watched \subseteq Scopes \ {Maestro}

Floors == Scopes \ {Maestro}

VARIABLES
    mem, disk,  \* [Scopes -> topic or None]: r.state.Topics, and in relay.json
    failure,    \* r.failure
    proc,       \* Run: "down", "initial" (before its loop) or "serving"
    refresh,    \* the Refresh that holds the refresh mutex: [at, todo, scope]
    feed,       \* the feed it fetched: [name, status], per floor and agent
    statuses,   \* [Watched -> the status last looked at, or None]: r.statuses
    floors,     \* [Floors -> name or None]: the host
    agents,     \* [Watched -> status of the floor's agent]: the host
    created     \* Telegram: created[t] is the scope thread t was made for

relay == <<mem, disk, failure, proc, refresh, feed, statuses>>
world == <<floors, agents, created>>
vars  == <<mem, disk, failure, proc, refresh, feed, statuses, floors, agents,
           created>>

Statuses == {"running", "idle", "attention"}

\* relayTopic; a Pending topic has thread 0, which is also General's.
Topic == [thread : Nat, pending : BOOLEAN, muted : BOOLEAN, name : Names \cup {None}]

\* The absent value is no topic.
ASSUME NoTopicIsNone == None \notin Topic

NoFeed == [name |-> [f \in Floors |-> None], status |-> [f \in Watched |-> None]]

Idle == [at |-> "idle", todo |-> {}, scope |-> None]

TypeOK ==
    /\ mem \in [Scopes -> Topic \cup {None}] /\ disk \in [Scopes -> Topic \cup {None}]
    /\ failure \in BOOLEAN /\ proc \in {"down", "initial", "serving"}
    /\ refresh \in [at : {"idle", "fetch", "topics", "create", "items"},
                    todo : SUBSET Scopes, scope : Scopes \cup {None}]
    /\ feed \in [name : [Floors -> Names \cup {None}], status : [Watched -> Statuses \cup {None}]]
    /\ statuses \in [Watched -> Statuses \cup {None}]
    /\ floors \in [Floors -> Names \cup {None}]
    /\ agents \in [Watched -> Statuses]
    /\ created \in Seq(Scopes \cup {None})

Init ==
    /\ mem = [s \in Scopes |-> None] /\ disk = mem /\ failure = FALSE
    /\ proc = "down" /\ refresh = Idle
    /\ feed = NoFeed /\ statuses = [f \in Watched |-> None]
    /\ floors \in [Floors -> Names \cup {None}]
    /\ agents = [f \in Watched |-> "idle"]
    /\ created = <<>>

-----------------------------------------------------------------------------
(* Run *)

\* save(): the first failure is final for this process.
Persist(ok) ==
    /\ ok => ~failure
    /\ failure' = ~ok
    /\ disk' = IF ok THEN mem' ELSE disk

\* NewRelay and Run up to its first Refresh.
Boot ==
    /\ proc = "down"
    /\ proc' = "initial" /\ mem' = disk /\ failure' = FALSE
    /\ refresh' = [Idle EXCEPT !.at = "fetch"]
    /\ statuses' = [f \in Watched |-> None]
    /\ UNCHANGED <<disk, feed, world>>

\* The ticker starts another Refresh.  (So does the end of a /create; what it
\* does is the same, and a failed save then ends Run at the next tick.)
Poll ==
    /\ proc = "serving" /\ refresh = Idle
    /\ refresh' = [Idle EXCEPT !.at = "fetch"]
    /\ UNCHANGED <<mem, disk, failure, proc, feed, statuses, world>>

Crash ==
    /\ proc # "down"
    /\ proc' = "down" /\ refresh' = Idle /\ feed' = NoFeed
    /\ UNCHANGED <<mem, disk, failure, statuses, world>>

\* Refresh returns: an error ends Run when it is the first one; later ones are
\* dropped, unless a save has failed.
Return(err) ==
    /\ refresh' = Idle /\ feed' = NoFeed
    /\ proc' = IF (proc = "initial" /\ err) \/ (proc = "serving" /\ failure')
               THEN "down" ELSE "serving"

-----------------------------------------------------------------------------
(* Refresh *)

\* Info, Workspaces or the feed: the host does not answer.  Without Info or
\* Workspaces Refresh fails; without the feed it only looks after Maestro.
Fetch ==
    /\ refresh.at = "fetch"
    /\ \/ /\ feed' = [name |-> floors, status |-> agents]
          /\ refresh' = [Idle EXCEPT !.at = "topics",
                                     !.todo = {f \in Floors : floors[f] # None} \cup {Maestro}]
          /\ UNCHANGED <<failure, proc>>
       \/ /\ feed' = NoFeed
          /\ refresh' = [Idle EXCEPT !.at = "topics", !.todo = {Maestro}]
          /\ UNCHANGED <<failure, proc>>
       \/ /\ UNCHANGED failure
          /\ Return(TRUE)
    /\ UNCHANGED <<mem, disk, statuses, world>>

\* Refresh walks the scopes under r.mu, Maestro first.
Turn(s) == refresh.at = "topics" /\ s \in refresh.todo /\ (Maestro \in refresh.todo => s = Maestro)

NameOf(s) == IF s = Maestro THEN None ELSE feed.name[s]

Done(s) == refresh' = [refresh EXCEPT !.todo = @ \ {s}]

\* ensureTopic, known topic.
Known(s) ==
    /\ Turn(s) /\ mem[s] # None /\ ~mem[s].pending /\ mem[s].name = NameOf(s)
    /\ Done(s)
    /\ UNCHANGED <<mem, disk, failure, proc, feed, statuses, world>>

\* Fault: an uncertain topic is created once more.
DoubtfulAgain(s) ==
    /\ Turn(s) /\ mem[s] # None /\ mem[s].pending
    /\ refresh' = [refresh EXCEPT !.at = "create", !.scope = s]
    /\ UNCHANGED <<mem, disk, failure, proc, feed, statuses, world>>

\* ensureTopic, a topic whose creation is in doubt.
Doubtful(s) ==
    /\ Turn(s) /\ mem[s] # None /\ mem[s].pending
    /\ UNCHANGED failure
    /\ Return(TRUE)
    /\ UNCHANGED <<mem, disk, statuses, world>>

\* Fault: a floor with another name is taken for another floor.
RenameAfresh(s) ==
    /\ Turn(s) /\ mem[s] # None /\ ~mem[s].pending /\ mem[s].name # NameOf(s)
    /\ mem' = [mem EXCEPT ![s] = None]
    /\ Persist(TRUE)
    /\ UNCHANGED <<proc, refresh, feed, statuses, world>>

\* ensureTopic, a floor that was renamed: EditTopic, then save.
Rename(s) ==
    /\ Turn(s) /\ mem[s] # None /\ ~mem[s].pending /\ mem[s].name # NameOf(s)
    /\ \/ /\ mem' = [mem EXCEPT ![s].name = NameOf(s)]
          /\ \/ Persist(TRUE) /\ Done(s) /\ UNCHANGED <<proc, feed>>
             \/ Persist(FALSE) /\ Return(TRUE)
       \/ UNCHANGED <<mem, disk, failure>> /\ Return(TRUE)
    /\ UNCHANGED <<statuses, world>>

\* ensureTopic, a new floor: the topic is saved as Pending first.
Announce(s) ==
    /\ Turn(s) /\ mem[s] = None
    /\ mem' = [mem EXCEPT ![s] = [thread |-> 0, pending |-> TRUE, muted |-> FALSE,
                                  name |-> NameOf(s)]]
    /\ \/ /\ Persist(TRUE)
          /\ refresh' = [refresh EXCEPT !.at = "create", !.scope = s]
          /\ UNCHANGED <<proc, feed>>
       \/ Persist(FALSE) /\ Return(TRUE)
    /\ UNCHANGED <<statuses, world>>

\* One CreateTopic call: the queue tries again after a lost answer, and every
\* try may make a topic.
Makes(s, n) ==
    /\ Len(created) + n <= MaxThreads
    /\ created' = created \o [k \in 1..n |-> s]

\* CreateTopic fails: the topic may exist all the same.
CreateFails ==
    /\ refresh.at = "create"
    /\ \E n \in 0..MaxTries : Makes(refresh.scope, n)
    /\ UNCHANGED failure
    /\ Return(TRUE)
    /\ UNCHANGED <<mem, disk, statuses, floors, agents>>

\* CreateTopic answers with the thread its last try made.
Create ==
    /\ refresh.at = "create"
    /\ \E n \in 1..MaxTries : Makes(refresh.scope, n)
    /\ mem' = [mem EXCEPT ![refresh.scope].thread = Len(created'),
                          ![refresh.scope].pending = FALSE]
    /\ \/ /\ Persist(TRUE)
          /\ refresh' = [at |-> "topics", todo |-> refresh.todo \ {refresh.scope},
                         scope |-> None]
          /\ UNCHANGED <<proc, feed>>
       \/ Persist(FALSE) /\ Return(TRUE)
    /\ UNCHANGED <<statuses, floors, agents>>

\* All topics exist: the items of the feed are looked at.
ToItems ==
    /\ refresh.at = "topics" /\ refresh.todo = {}
    /\ refresh' = [Idle EXCEPT !.at = "items", !.todo = {f \in Watched : feed.name[f] # None}]
    /\ UNCHANGED <<mem, disk, failure, proc, feed, statuses, world>>

\* A status is worth a message when it changed, or when it asks for attention.
Worth(f, status) ==
    /\ statuses[f] # status /\ ~mem[f].muted
    /\ status = "attention" \/ (statuses[f] # None /\ status # "running")

\* One item: the status is remembered first; the message may fail to be sent
\* or its reply target to be saved, and either ends the Refresh.  The group's
\* messages are module RelayRouting's.
Item(f) ==
    /\ refresh.at = "items" /\ f \in refresh.todo
    /\ statuses' = [statuses EXCEPT ![f] = feed.status[f]]
    /\ UNCHANGED <<mem, world>>
    /\ IF Worth(f, feed.status[f])
       THEN \/ Persist(TRUE) /\ Done(f) /\ UNCHANGED <<proc, feed>>
            \/ Persist(FALSE) /\ Return(TRUE)
            \/ UNCHANGED <<disk, failure>> /\ Return(TRUE)
       ELSE Done(f) /\ UNCHANGED <<disk, failure, proc, feed>>

Finish ==
    /\ refresh.at = "items" /\ refresh.todo = {}
    /\ UNCHANGED failure
    /\ Return(FALSE)
    /\ UNCHANGED <<mem, disk, statuses, world>>

Refresh ==
    \/ Fetch \/ CreateFails \/ Create \/ ToItems \/ Finish
    \/ \E s \in Scopes : Known(s) \/ Doubtful(s) \/ Rename(s) \/ Announce(s)
    \/ \E f \in Watched : Item(f)

-----------------------------------------------------------------------------
(* Commands.  A handler runs only once Run is in its loop, and waits for the *)
(* mutex a Refresh holds from the end of its fetches on.                     *)

Free == proc = "serving" /\ refresh.at \in {"idle", "fetch"}

\* /bind: an existing floor of an allowed workspace, so never Maestro; the
\* operator names a topic of the group.
Bind(s, t) ==
    /\ Free /\ s \in Floors /\ floors[s] # None
    /\ t \in 1..Len(created)
    /\ \A k \in Scopes \ {s} : mem[k] # None => mem[k].thread # t
    /\ mem' = [mem EXCEPT ![s] = [thread |-> t, pending |-> FALSE, muted |-> FALSE,
                                  name |-> floors[s]]]
    /\ \E ok \in BOOLEAN : Persist(ok)
    /\ UNCHANGED <<proc, refresh, feed, statuses, world>>

\* /mute and /unmute take any topic of the thread, a Pending one in General.
Mute(s, on) ==
    /\ Free /\ mem[s] # None
    /\ mem' = [mem EXCEPT ![s].muted = on]
    /\ \E ok \in BOOLEAN : Persist(ok)
    /\ UNCHANGED <<proc, refresh, feed, statuses, world>>

-----------------------------------------------------------------------------
(* The host and the people in the group *)

FloorChanges(f) ==
    /\ \E n \in (Names \cup {None}) \ {floors[f]} : floors' = [floors EXCEPT ![f] = n]
    /\ UNCHANGED <<relay, agents, created>>

AgentChanges(f) ==
    /\ \E a \in Statuses \ {agents[f]} : agents' = [agents EXCEPT ![f] = a]
    /\ UNCHANGED <<relay, floors, created>>

UserMakesTopic ==
    /\ Len(created) < MaxThreads
    /\ created' = Append(created, None)
    /\ UNCHANGED <<relay, floors, agents>>

Next ==
    \/ Boot \/ Poll \/ Refresh \/ Crash \/ UserMakesTopic
    \/ \E s \in Scopes : Mute(s, TRUE) \/ Mute(s, FALSE)
    \/ \E s \in Floors, t \in 1..MaxThreads : Bind(s, t)
    \/ \E f \in Floors : FloorChanges(f)
    \/ \E f \in Watched : AgentChanges(f)

Spec == Init /\ [][Next]_vars

-----------------------------------------------------------------------------
(* Properties *)

Bound(b, s) == b[s] # None /\ ~b[s].pending

\* Relay asks for the topic of a floor only when none can exist: a floor whose
\* CreateTopic was interrupted by a crash, failed, or was not saved, and a floor
\* that was renamed, are never asked for again (ensureTopic).
AsksOnce ==
    refresh.at = "create" => \A t \in 1..Len(created) : created[t] # refresh.scope

\* A thread leads to one floor only, whatever was bound by hand: a message in
\* it never has two destinations (bind, ensureTopic, target).
ThreadsDistinct ==
    \A s, k \in Scopes :
        Bound(mem, s) /\ Bound(mem, k) /\ mem[s].thread = mem[k].thread => s = k

\* A binding survives renames, restarts and failures; only /bind moves it
\* (ensureTopic, NewRelay).
BindingsKept ==
    [][\A s \in Scopes :
         Bound(disk, s) =>
            /\ Bound(disk', s)
            /\ disk'[s].thread # disk[s].thread => \E t \in 1..MaxThreads : Bind(s, t)]_vars

-----------------------------------------------------------------------------
(* The inductive invariant *)

\* What was made for a scope is known to relay.json, and the running Refresh
\* asks for a topic only when relay.json says so.
TopicsInv ==
    /\ TypeOK /\ AsksOnce /\ ThreadsDistinct
    /\ ~failure /\ proc # "down" => mem = disk
    /\ \A t \in 1..Len(created) : created[t] # None => disk[created[t]] # None
    /\ \A s \in Scopes :
        /\ disk[s] # None => mem[s] # None \/ proc = "down"
        /\ mem[s] # None => mem[s].thread \in 0..Len(created)
        /\ disk[s] # None => disk[s].thread \in 0..Len(created)
        /\ mem[s] # None /\ ~mem[s].pending => mem[s].thread # 0
        /\ disk[s] # None /\ ~disk[s].pending => disk[s].thread # 0
    /\ refresh.at = "create" =>
        /\ refresh.scope \in Scopes /\ proc # "down" /\ ~failure
        /\ disk[refresh.scope] # None /\ disk[refresh.scope].pending
=============================================================================
