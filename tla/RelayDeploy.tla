---------------------------- MODULE RelayDeploy ----------------------------
(***************************************************************************)
(* The Maestri Relay provisioning executor (internal/app/relay_deploy.go). *)
(*                                                                         *)
(* A job turns a plan (workspace, floor, nodes, connections) into a fixed  *)
(* list of mutations of the Maestri host.  Every mutation is journaled as  *)
(* Pending in stateDir/relay.json before it is sent and its answer is      *)
(* journaled before the next one is looked at, so that a crash, a failing  *)
(* disk or a lost answer never makes a resumed job send a mutation twice.  *)
(*                                                                         *)
(* mem/disk are the job journals in memory and in relay.json, exec is the  *)
(* one Deploy call that holds the provision mutex, and the remaining       *)
(* variables are the host and the network as Deploy sees them through      *)
(* Wire: requests travel, are applied late or never, and nodes become      *)
(* visible in the feed some time after they were created.                  *)
(***************************************************************************)
EXTENDS Naturals, Sequences, FiniteSets
LOCAL INSTANCE SequencesExt

CONSTANTS
    Jobs,       \* job IDs: "m-<message>" from the chat, or --job of the CLI
    Plans,      \* the validated plans that may be asked for
    UserNodes,  \* nodes the people at the host may add to the existing floor
    None        \* the absent value: no job, no pending step, no snapshot

-----------------------------------------------------------------------------
(* Plans and the mutations they stand for *)

Ops == {"workspace", "floor", "partitura", "role", "node", "frame", "edge"}

\* Nodes are named by their position in the plan: Validate refuses two nodes
\* with one ID, so the position and the ID tell the same steps apart.
Step == [op : Ops, at : Nat]

Kinds == {"terminal", "note", "portal"}

IsPlan(p) ==
    /\ DOMAIN p = {"newWorkspace", "newFloor", "nodes", "edges"}
    /\ p.newWorkspace \in BOOLEAN /\ p.newFloor \in BOOLEAN
    /\ p.nodes \in Seq(Kinds) /\ Len(p.nodes) \in 1..80
    /\ p.edges \in 0..400

HasPortal(p) == \E n \in 1..Len(p.nodes) : p.nodes[n] = "portal"

NodeSteps(kind, n) ==
    (IF kind = "terminal" THEN <<[op |-> "role", at |-> n]>> ELSE <<>>)
        \o <<[op |-> "node", at |-> n], [op |-> "frame", at |-> n]>>

\* The mutations of a plan in the order Deploy reaches them.
Steps(p) ==
    (IF p.newWorkspace THEN <<[op |-> "workspace", at |-> 0]>> ELSE <<>>)
        \o (IF p.newFloor THEN <<[op |-> "floor", at |-> 0]>> ELSE <<>>)
        \o (IF HasPortal(p)
            THEN <<[op |-> "partitura", at |-> 0]>>
            ELSE FlattenSeq([n \in 1..Len(p.nodes) |-> NodeSteps(p.nodes[n], n)])
                    \o [e \in 1..p.edges |-> [op |-> "edge", at |-> e]])

\* The answers Deploy takes an ID from (resultID); the others are only kept.
NeedsId == {"workspace", "floor", "role", "node"}

ASSUME PlansAssumption == \A p \in Plans : IsPlan(p)

\* No two mutations of a plan share their journal key.
ASSUME StepsAssumption ==
    \A p \in Plans :
        /\ Steps(p) \in Seq(Step)
        /\ \A i, k \in 1..Len(Steps(p)) : Steps(p)[i] = Steps(p)[k] => i = k

\* A plan makes one floor, and one partitura stands for all its nodes.
ASSUME ShapeAssumption ==
    \A p \in Plans : \A i, k \in 1..Len(Steps(p)) :
        /\ Steps(p)[i].op = "floor" /\ Steps(p)[k].op = "floor" => i = k
        /\ Steps(p)[i].op = "partitura" => Steps(p)[k].op # "node"

ASSUME NoneAssumption ==
    /\ None \notin Jobs \cup Plans \cup Step
    /\ "ground" \notin Jobs

\* A stranger's node lies on the existing floor and belongs to no job.
ASSUME UserNodesAssumption ==
    \A u \in UserNodes : u.job \notin Jobs /\ u.kind \in Kinds /\ u.place = "ground"

-----------------------------------------------------------------------------
VARIABLES
    mem,        \* [Jobs -> job or None]: r.state.Jobs
    disk,       \* the same, as last written to relay.json
    failure,    \* r.failure: a save failed, nothing is written any more
    exec,       \* the running Deploy call: [job, at, i]
    wire,       \* [Jobs -> Seq(Step)]: mutations put on the wire, in order
    flight,     \* <<job, step>>: sent, the host has not acted on it yet
    applied,    \* <<job, step>>: mutations the host carried out
    floors,     \* [Jobs -> state of the floor the job asked for]
    canvas,     \* nodes the feed shows
    installed   \* plans whose partitura is in the host's library

journal  == <<mem, disk, failure>>
host     == <<flight, applied, floors, canvas, installed>>
vars     == <<mem, disk, failure, exec, wire, flight, applied, floors, canvas,
              installed>>

\* Where a job builds: its own new workspace or floor, or the existing floor
\* every other plan shares.
Place(j, p) == IF p.newWorkspace \/ p.newFloor THEN j ELSE "ground"

NodeOf(j, p, n) ==
    [job |-> j, at |-> n, kind |-> p.nodes[n], place |-> Place(j, p)]

NodesOf(j, p) == {NodeOf(j, p, n) : n \in 1..Len(p.nodes)}

Nodes == UserNodes \cup UNION {NodesOf(jp[1], jp[2]) : jp \in Jobs \X Plans}

Snapshot == SUBSET Nodes

\* relayJob: Results is split into the recorded steps, those whose answer had
\* no valid ID, and the "native-before" canvas.
Job == [plan : Plans, pending : Step \cup {None}, results : SUBSET Step,
        unusable : SUBSET Step, before : Snapshot \cup {None}, done : BOOLEAN]

NewJob(p) == [plan |-> p, pending |-> None, results |-> {}, unusable |-> {},
              before |-> None, done |-> FALSE]

\* The absent value is no job record either.
ASSUME NoRecordIsNone == None \notin Job

\* Nor is it a canvas.
ASSUME NoSnapshotIsNone == \A S \in Snapshot : S # None

Phases == {"idle", "prepare", "step", "send", "sent", "await", "baseline",
           "verify"}

Idle == [job |-> None, at |-> "idle", i |-> 0]

TypeOK ==
    /\ mem \in [Jobs -> Job \cup {None}]
    /\ disk \in [Jobs -> Job \cup {None}]
    /\ failure \in BOOLEAN
    /\ exec \in [job : Jobs \cup {None}, at : Phases, i : Nat]
    /\ wire \in [Jobs -> Seq(Step)]
    /\ flight \in SUBSET (Jobs \X Step)
    /\ applied \in SUBSET (Jobs \X Step)
    /\ floors \in [Jobs -> {"none", "pending", "ready", "failed"}]
    /\ canvas \in Snapshot
    /\ installed \in SUBSET Plans

Init ==
    /\ mem = [j \in Jobs |-> None] /\ disk = mem /\ failure = FALSE
    /\ exec = Idle
    /\ wire = [j \in Jobs |-> <<>>]
    /\ flight = {} /\ applied = {}
    /\ floors = [j \in Jobs |-> "none"]
    /\ canvas = {} /\ installed = {}

-----------------------------------------------------------------------------
(* The journal *)

\* save(): the first failure is remembered and every later save fails with it;
\* writeAtomic leaves the old file in place unless the rename went through.
Persist(ok) ==
    /\ ok => ~failure
    /\ failure' = ~ok
    /\ disk' = IF ok THEN mem' ELSE disk

\* A save made for another part of the state (topics, replies, seen messages)
\* writes the jobs as well, or fails and stops this executor too.
OtherSave ==
    /\ \E ok \in BOOLEAN : UNCHANGED mem /\ Persist(ok)
    /\ UNCHANGED <<exec, wire, host>>

\* The process dies, or Run returns after a failed save; NewRelay loads
\* relay.json.  Requests that left stay on their way.
Restart ==
    /\ mem' = disk /\ failure' = FALSE /\ exec' = Idle
    /\ UNCHANGED <<disk, wire, host>>

-----------------------------------------------------------------------------
(* Deploy *)

plan   == mem[exec.job].plan
step   == Steps(plan)[exec.i]

\* The control point reached with the first i - 1 mutations recorded.
GoTo(j, p, i) ==
    [job |-> j, i |-> i,
     at  |-> IF i > Len(Steps(p)) THEN "verify"
             ELSE IF Steps(p)[i].op = "partitura" THEN "baseline" ELSE "step"]

\* The control point after the answer to step s, the i-th, was recorded.
After(j, p, i) ==
    IF Steps(p)[i].op = "floor" THEN [job |-> j, at |-> "await", i |-> i]
    ELSE GoTo(j, p, i + 1)

\* Fault: a known job ID is registered again instead of being continued.
StartAfresh(j, p) ==
    /\ exec = Idle
    /\ mem' = [mem EXCEPT ![j] = NewJob(p)]
    /\ Persist(TRUE)
    /\ exec' = [job |-> j, at |-> "prepare", i |-> 1]
    /\ UNCHANGED <<wire, host>>

\* Fault: the digest of the plan is not compared and the job takes the new one.
StartAnyPlan(j, p) ==
    /\ exec = Idle
    /\ mem' = [mem EXCEPT ![j] = IF mem[j] = None THEN NewJob(p)
                                 ELSE [mem[j] EXCEPT !.plan = p]]
    /\ Persist(TRUE)
    /\ exec' = [job |-> j, at |-> "prepare", i |-> 1]
    /\ UNCHANGED <<wire, host>>

\* Deploy up to the registration of the job: a known ID must come with the
\* same plan, and a finished job is only reported.  The refusals before it
\* (validation, authorisation, capabilities) change nothing.
Start(j, p) ==
    /\ exec = Idle
    /\ mem[j] # None => mem[j].plan = p /\ ~mem[j].done
    /\ mem' = [mem EXCEPT ![j] = IF mem[j] = None THEN NewJob(p) ELSE mem[j]]
    /\ \E ok \in BOOLEAN :
        /\ Persist(ok)
        /\ exec' = IF ok THEN [job |-> j, at |-> "prepare", i |-> 1] ELSE Idle
    /\ UNCHANGED <<wire, host>>

\* Presets are resolved; a plan with portals goes on only when its partitura
\* is in the library (else ImportRequired, see Abandon).
Prepare ==
    /\ exec.at = "prepare"
    /\ HasPortal(plan) => plan \in installed
    /\ exec' = GoTo(exec.job, plan, 1)
    /\ UNCHANGED <<journal, wire, host>>

\* Fault: the floor poll has no deadline and ignores failing feeds.
AbandonNotPoll ==
    /\ exec.at \in {"prepare", "send", "sent", "baseline", "verify"}
    /\ exec' = Idle
    /\ UNCHANGED <<journal, wire, host>>

\* Every Wire call on the way may fail, run into the five-minute deadline or
\* refuse (ImportRequired, a missing capability): Deploy returns the error and
\* leaves the journal as it is, a pending step included.
Abandon ==
    /\ exec.at \in {"prepare", "send", "sent", "await", "baseline", "verify"}
    /\ exec' = Idle
    /\ UNCHANGED <<journal, wire, host>>

\* Fault: a resumed job takes a recorded floor for a ready one.
ReplayUnwaited ==
    /\ exec.at = "step" /\ step \in mem[exec.job].results
    /\ exec' = GoTo(exec.job, plan, exec.i + 1)
    /\ UNCHANGED <<journal, wire, host>>

\* step(): a recorded answer is used instead of a call.
Replay ==
    /\ exec.at = "step" /\ step \in mem[exec.job].results
    /\ exec' = IF step.op \in NeedsId /\ step \in mem[exec.job].unusable
               THEN Idle ELSE After(exec.job, plan, exec.i)
    /\ UNCHANGED <<journal, wire, host>>

\* step(): an earlier call of this job has an unknown outcome.
Blocked ==
    /\ exec.at = "step"
    /\ step \notin mem[exec.job].results /\ mem[exec.job].pending # None
    /\ exec' = Idle
    /\ UNCHANGED <<journal, wire, host>>

\* Fault: the doubtful step of an earlier call is not looked at.
BeginAgain ==
    /\ exec.at = "step" /\ step \notin mem[exec.job].results
    /\ mem' = [mem EXCEPT ![exec.job].pending = step]
    /\ Persist(TRUE)
    /\ exec' = [exec EXCEPT !.at = "send"]
    /\ UNCHANGED <<wire, host>>

\* Fault: the intention is only kept in memory until the answer is saved.
BeginUnsaved ==
    /\ exec.at = "step"
    /\ step \notin mem[exec.job].results /\ mem[exec.job].pending = None
    /\ mem' = [mem EXCEPT ![exec.job].pending = step]
    /\ exec' = [exec EXCEPT !.at = "send"]
    /\ UNCHANGED <<disk, failure, wire, host>>

\* Fault: a failed save is reported but the call is made all the same.
BeginUnchecked ==
    /\ exec.at = "step"
    /\ step \notin mem[exec.job].results /\ mem[exec.job].pending = None
    /\ mem' = [mem EXCEPT ![exec.job].pending = step]
    /\ \E ok \in BOOLEAN : Persist(ok)
    /\ exec' = [exec EXCEPT !.at = "send"]
    /\ UNCHANGED <<wire, host>>

\* step(): the intention is written before the call is made.
Begin ==
    /\ exec.at = "step"
    /\ step \notin mem[exec.job].results /\ mem[exec.job].pending = None
    /\ mem' = [mem EXCEPT ![exec.job].pending = step]
    /\ \E ok \in BOOLEAN :
        /\ Persist(ok)
        /\ exec' = IF ok THEN [exec EXCEPT !.at = "send"] ELSE Idle
    /\ UNCHANGED <<wire, host>>

Send ==
    /\ exec.at = "send"
    /\ wire' = [wire EXCEPT ![exec.job] = Append(@, step)]
    /\ flight' = flight \cup {<<exec.job, step>>}
    /\ exec' = [exec EXCEPT !.at = "sent"]
    /\ UNCHANGED <<journal, applied, floors, canvas, installed>>

\* Fault: a call that timed out is recorded like an answered one.
RecordTimeout ==
    /\ exec.at = "sent"
    /\ mem' = [mem EXCEPT ![exec.job].results = @ \cup {step}, ![exec.job].pending = None]
    /\ Persist(TRUE)
    /\ exec' = After(exec.job, plan, exec.i)
    /\ UNCHANGED <<wire, host>>

\* step(): the host answered; the answer may lack the ID Deploy needs.
Record ==
    /\ exec.at = "sent" /\ <<exec.job, step>> \in applied
    /\ \E valid, ok \in BOOLEAN :
        /\ mem' = [mem EXCEPT
                     ![exec.job].results = @ \cup {step},
                     ![exec.job].unusable = IF valid THEN @ ELSE @ \cup {step},
                     ![exec.job].pending = None]
        /\ Persist(ok)
        /\ exec' = IF ok /\ (step.op \in NeedsId => valid)
                   THEN After(exec.job, plan, exec.i) ELSE Idle
    /\ UNCHANGED <<wire, host>>

\* The poll after the floor mutation; while the floor is neither ready nor
\* failed the loop turns until the deadline (Abandon).
AwaitFloor ==
    /\ exec.at = "await"
    /\ floors[exec.job] \in {"ready", "failed"}
    /\ exec' = IF floors[exec.job] = "ready"
               THEN GoTo(exec.job, plan, exec.i + 1) ELSE Idle
    /\ UNCHANGED <<journal, wire, host>>

OnCanvas(place) == {n \in canvas : n.place = place}

\* Fault: every resume takes the canvas of the moment as its baseline.
BaselineRetaken ==
    /\ exec.at = "baseline"
    /\ mem' = [mem EXCEPT ![exec.job].before = OnCanvas(Place(exec.job, plan))]
    /\ Persist(TRUE)
    /\ exec' = [exec EXCEPT !.at = "step"]
    /\ UNCHANGED <<wire, host>>

\* native-before: the canvas is remembered once, before the partitura step.
Baseline ==
    /\ exec.at = "baseline"
    /\ \/ /\ mem[exec.job].before # None
          /\ exec' = [exec EXCEPT !.at = "step"]
          /\ UNCHANGED journal
       \/ /\ mem[exec.job].before = None
          /\ mem' = [mem EXCEPT ![exec.job].before = OnCanvas(Place(exec.job, plan))]
          /\ \E ok \in BOOLEAN :
              /\ Persist(ok)
              /\ exec' = IF ok THEN [exec EXCEPT !.at = "step"] ELSE Idle
    /\ UNCHANGED <<wire, host>>

\* New nodes are counted by kind against the plan for a partitura; nodes
\* created one by one are looked up by ID.
Confirmed(j) ==
    LET p   == mem[j].plan
        new == OnCanvas(Place(j, p)) \ mem[j].before
    IN  IF HasPortal(p)
        THEN \A k \in Kinds :
                Cardinality({n \in new : n.kind = k})
                    >= Cardinality({n \in 1..Len(p.nodes) : p.nodes[n] = k})
        ELSE \A n \in 1..Len(p.nodes) : NodeOf(j, p, n) \in canvas

\* An unconfirmed job is left for /resume (Abandon).
Finish ==
    /\ exec.at = "verify" /\ Confirmed(exec.job)
    /\ mem' = [mem EXCEPT ![exec.job].done = TRUE]
    /\ \E ok \in BOOLEAN : Persist(ok)
    /\ exec' = Idle
    /\ UNCHANGED <<wire, host>>

-----------------------------------------------------------------------------
(* The host, as far as Deploy depends on it *)

HostApply(j, s) ==
    /\ <<j, s>> \in flight
    /\ flight' = flight \ {<<j, s>>}
    /\ applied' = applied \cup {<<j, s>>}
    /\ floors' = IF s.op = "floor" THEN [floors EXCEPT ![j] = "pending"] ELSE floors
    /\ UNCHANGED <<journal, exec, wire, canvas, installed>>

\* The request is refused by the host or lost on the way.
HostDrop(j, s) ==
    /\ <<j, s>> \in flight
    /\ flight' = flight \ {<<j, s>>}
    /\ UNCHANGED <<journal, exec, wire, applied, floors, canvas, installed>>

HostFloor(j) ==
    /\ floors[j] = "pending"
    /\ \E f \in {"ready", "failed"} : floors' = [floors EXCEPT ![j] = f]
    /\ UNCHANGED <<journal, exec, wire, flight, applied, canvas, installed>>

\* A node of a carried-out mutation appears in the feed.
HostShow(j, n) ==
    /\ disk[j] # None /\ n \in 1..Len(disk[j].plan.nodes)
    /\ \/ <<j, [op |-> "node", at |-> n]>> \in applied
       \/ <<j, [op |-> "partitura", at |-> 0]>> \in applied
    /\ canvas' = canvas \cup {NodeOf(j, disk[j].plan, n)}
    /\ UNCHANGED <<journal, exec, wire, flight, applied, floors, installed>>

UserAdds(u) ==
    /\ canvas' = canvas \cup {u}
    /\ UNCHANGED <<journal, exec, wire, flight, applied, floors, installed>>

\* The person imports the file that came with ImportRequired.
UserImports(p) ==
    /\ HasPortal(p)
    /\ installed' = installed \cup {p}
    /\ UNCHANGED <<journal, exec, wire, flight, applied, floors, canvas>>

-----------------------------------------------------------------------------
Deploy == Prepare \/ Replay \/ Blocked \/ Begin \/ Send \/ Record \/ AwaitFloor
            \/ Baseline \/ Finish \/ Abandon

Host ==
    \/ \E js \in flight : HostApply(js[1], js[2]) \/ HostDrop(js[1], js[2])
    \/ \E j \in Jobs : HostFloor(j)
    \/ \E j \in Jobs : \E n \in 1..80 : HostShow(j, n)
    \/ \E u \in UserNodes : UserAdds(u)
    \/ \E p \in Plans : UserImports(p)

Next ==
    \/ \E j \in Jobs, p \in Plans : Start(j, p)
    \/ Deploy
    \/ OtherSave
    \/ Restart
    \/ Host

Spec == Init /\ [][Next]_vars

\* The goroutine that runs Deploy is scheduled, and its context ends after
\* five minutes whatever the host does.
FairSpec == Spec /\ WF_vars(Deploy)

-----------------------------------------------------------------------------
(* Properties *)

\* What was sent for a job is a prefix of the mutations of its journaled plan:
\* no mutation is sent twice, skipped or sent out of order, across crashes,
\* failed saves, lost answers and any number of /resume (Deploy, step).
NoReplay ==
    \A j \in Jobs :
        wire[j] # <<>> =>
            /\ disk[j] # None
            /\ Len(wire[j]) <= Len(Steps(disk[j].plan))
            /\ \A i \in 1..Len(wire[j]) : wire[j][i] = Steps(disk[j].plan)[i]

\* Whatever reached the wire is on disk, as an answer or as the one step in
\* doubt: relay.json alone tells what may exist on the host (step).
WriteAhead ==
    \A j \in Jobs : \A i \in 1..Len(wire[j]) :
        disk[j] # None /\ wire[j][i] \in disk[j].results \cup {disk[j].pending}

\* A recorded answer comes from a mutation the host carried out, also after a
\* restart between the call and its record, and a job reported as finished had
\* every mutation carried out and none in doubt (step, Deploy).
ResultsAreReal ==
    \A j \in Jobs : mem[j] # None =>
        /\ \A s \in mem[j].results : <<j, s>> \in applied
        /\ mem[j].done =>
             /\ mem[j].pending = None
             /\ \A i \in 1..Len(Steps(mem[j].plan)) : <<j, Steps(mem[j].plan)[i]>> \in applied

\* A mutation after the floor step is sent only once the host reported the
\* floor ready, also on a resume that replays the floor step (231-255).
FloorBeforeNodes ==
    \A j \in Jobs : \A i \in 1..Len(wire[j]) :
        (\E k \in 1..(i - 1) : wire[j][k].op = "floor") => floors[j] = "ready"

\* The canvas remembered as native-before holds nothing the job made itself:
\* a resumed verification counts every one of its nodes as new.
BaselineIsForeign ==
    \A j \in Jobs : mem[j] # None /\ mem[j].before # None =>
        \A n \in mem[j].before : n.job # j

\* The journal on disk only grows: a job keeps its plan, its answers, its
\* baseline and its completion, and a doubtful step leaves the pending field
\* only as an answer (Deploy, step, NewRelay).
JournalGrows ==
    [][\A j \in Jobs : disk[j] # None =>
         /\ disk'[j] # None
         /\ disk'[j].plan = disk[j].plan
         /\ disk[j].results \subseteq disk'[j].results
         /\ disk[j].before # None => disk'[j].before = disk[j].before
         /\ disk[j].done => disk'[j].done
         /\ disk[j].pending # None =>
                disk[j].pending \in disk'[j].results \cup {disk'[j].pending}]_vars

\* Provisioning seen through this module: the journal on disk is the choice of
\* the plan and the closing, the wire is the log.
Promise == INSTANCE Provisioning WITH
    Script <- Steps,
    chosen <- [j \in Jobs |-> IF disk[j] = None THEN None ELSE disk[j].plan],
    log    <- wire,
    closed <- [j \in Jobs |-> disk[j] # None /\ disk[j].done]

\* The executor does what provisioning promises (Deploy, step).
ImplementsProvisioning == Promise!Spec

\* Every Deploy call returns, so the provision mutex is always released: the
\* floor poll ends at the deadline even when the host never decides.
DeployReturns == (exec # Idle) ~> (exec = Idle)

-----------------------------------------------------------------------------
(* The inductive invariant behind the safety properties *)

\* Memory and disk differ only once a save has failed, and then no Deploy call
\* is running: each of its saves that fails ends it.
Durable == ~failure \/ exec # Idle => mem = disk

\* The first m mutations of plan p.
FirstSteps(p, m) == {Steps(p)[k] : k \in 1..m}

\* A job on disk has the answers of the first m mutations; they all left, and
\* the next one may be in doubt, sent or not.
JournalOf(d, w) ==
    \E m \in 0..Len(Steps(d.plan)) :
        /\ d.results = FirstSteps(d.plan, m)
        /\ d.pending = None => Len(w) = m
        /\ d.pending # None =>
            /\ m < Len(Steps(d.plan)) /\ d.pending = Steps(d.plan)[m + 1]
            /\ Len(w) \in {m, m + 1}

JournalInv ==
    \A j \in Jobs :
        IF disk[j] = None THEN wire[j] = <<>>
        ELSE JournalOf(disk[j], wire[j])

\* The running call has the answers of all mutations before its own, and the
\* one it is sending is the one in doubt.
ExecInv ==
    exec # Idle =>
        LET d == disk[exec.job]
            L == Len(Steps(d.plan))
        IN  /\ exec.job \in Jobs /\ d # None /\ ~d.done /\ exec.at # "idle"
            /\ exec.i \in 1..(L + 1)
            /\ exec.at \in {"step", "send", "sent", "await", "baseline"} => exec.i <= L
            /\ exec.at = "verify" => exec.i = L + 1
            /\ FirstSteps(d.plan, exec.i - 1) \subseteq d.results
            /\ exec.at = "await" => Steps(d.plan)[exec.i] \in d.results
            /\ exec.at \in {"send", "sent"} =>
                 /\ d.pending = Steps(d.plan)[exec.i]
                 /\ d.pending \notin d.results
                 /\ Len(wire[exec.job]) =
                        IF exec.at = "send" THEN exec.i - 1 ELSE exec.i

\* Everything above together: what relay.json says, what left, and where the
\* running call stands agree after every step of the executor and the host.
Consistent == TypeOK /\ Durable /\ NoReplay /\ JournalInv /\ ExecInv

\* A record of job j, in memory or on disk, holds only answers of mutations the
\* host carried out, and it is closed only with all of them.
Backed(j, d) ==
    /\ \A s \in d.results : <<j, s>> \in applied
    /\ d.done => d.pending = None /\ FirstSteps(d.plan, Len(Steps(d.plan))) \subseteq d.results

\* The strengthening that carries ResultsAreReal over restarts.
AllBacked ==
    \A j \in Jobs :
        /\ mem[j] # None => Backed(j, mem[j])
        /\ disk[j] # None => Backed(j, disk[j])

\* Mutation s of job j was put on the wire.
Sent(j, s) == \E i \in 1..Len(wire[j]) : wire[j][i] = s

\* The host acts on a mutation once, and only on one that was sent; a floor has
\* a state only through its mutation.
HostInv ==
    /\ \A js \in flight \cup applied : Sent(js[1], js[2])
    /\ flight \cap applied = {}
    /\ \A j \in Jobs : floors[j] # "none" =>
          \E js \in applied : js[1] = j /\ js[2].op = "floor"

\* The running call has passed the floor mutation only with the floor ready.
PastFloor ==
    exec # Idle => \A k \in 1..(exec.i - 1) :
        Steps(plan)[k].op = "floor" => floors[exec.job] = "ready"

\* The strengthening that carries FloorBeforeNodes.
FloorInv == HostInv /\ PastFloor /\ FloorBeforeNodes

\* The running call takes a baseline for a partitura, and sends one with it.
AtPartitura ==
    /\ exec.at = "baseline" => step.op = "partitura"
    /\ exec.at \in {"step", "send", "sent"} /\ step.op = "partitura" =>
          mem[exec.job].before # None

\* A partitura was sent only with its baseline on disk.
BaselineFirst ==
    \A j \in Jobs : \A i \in 1..Len(wire[j]) :
        wire[j][i].op = "partitura" => disk[j].before # None

\* A job's nodes appear only through its mutations.
NodesAreMade ==
    \A n \in canvas : n.job \in Jobs =>
        \E js \in applied : js[1] = n.job /\ js[2].op \in {"node", "partitura"}

\* No record of job j remembers one of its own nodes.
Foreign(j, d) == d.before # None => \A n \in d.before : n.job # j

\* The strengthening that carries BaselineIsForeign over restarts.
BaselineInv ==
    /\ AtPartitura /\ BaselineFirst /\ NodesAreMade
    /\ \A j \in Jobs : /\ mem[j] # None => Foreign(j, mem[j])
                       /\ disk[j] # None => Foreign(j, disk[j])
=============================================================================
