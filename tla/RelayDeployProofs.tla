------------------------- MODULE RelayDeployProofs -------------------------
(* Proofs about RelayDeploy, for any set of jobs and plans. *)
EXTENDS RelayDeploy, TLAPS

-----------------------------------------------------------------------------
(* Facts about the list of mutations of a plan *)

\* The i-th mutation of a plan is a journal key, and there are finitely many.
LEMMA StepsType ==
    ASSUME NEW p \in Plans
    PROVE  /\ Steps(p) \in Seq(Step)
           /\ Len(Steps(p)) \in Nat
           /\ \A i \in 1..Len(Steps(p)) : Steps(p)[i] \in Step /\ Steps(p)[i] # None
  <1>1. Steps(p) \in Seq(Step)
    BY StepsAssumption
  <1>2. Len(Steps(p)) \in Nat /\ \A i \in 1..Len(Steps(p)) : Steps(p)[i] \in Step
    BY <1>1
  <1> QED
    BY <1>1, <1>2, NoneAssumption

\* A mutation is among the first m exactly when its position is.
LEMMA FirstStepsMember ==
    ASSUME NEW p \in Plans, NEW m \in 0..Len(Steps(p)), NEW i \in 1..Len(Steps(p))
    PROVE  Steps(p)[i] \in FirstSteps(p, m) <=> i <= m
  BY StepsAssumption, StepsType DEF FirstSteps

\* The first m + 1 mutations are the first m and the next one.
LEMMA FirstStepsNext ==
    ASSUME NEW p \in Plans, NEW m \in 0..(Len(Steps(p)) - 1)
    PROVE  FirstSteps(p, m + 1) = FirstSteps(p, m) \cup {Steps(p)[m + 1]}
  BY StepsType DEF FirstSteps

\* Initial mutations are journal keys.
LEMMA FirstStepsType ==
    ASSUME NEW p \in Plans, NEW m \in 0..Len(Steps(p))
    PROVE  FirstSteps(p, m) \in SUBSET Step
  BY StepsType DEF FirstSteps

\* More recorded answers mean a longer initial part of the list.
LEMMA FirstStepsOrder ==
    ASSUME NEW p \in Plans, NEW m \in 0..Len(Steps(p)), NEW n \in 0..Len(Steps(p)),
           FirstSteps(p, m) \subseteq FirstSteps(p, n)
    PROVE  m <= n
  <1> SUFFICES ASSUME m > n PROVE FALSE
    BY StepsType
  <1>1. m \in 1..Len(Steps(p))
    BY StepsType
  <1>2. Steps(p)[m] \in FirstSteps(p, n)
    BY <1>1, FirstStepsMember, StepsType
  <1> QED
    BY <1>1, <1>2, FirstStepsMember, StepsType

\* Before the first answer nothing is recorded.
LEMMA FirstStepsNone ==
    ASSUME NEW p
    PROVE  FirstSteps(p, 0) = {}
  BY DEF FirstSteps

-----------------------------------------------------------------------------
(* The running call *)

\* What Consistent says about a running call, for the steps that read it.
LEMMA Running ==
    ASSUME Consistent, exec # Idle
    PROVE  /\ mem = disk /\ exec.job \in Jobs /\ exec.at \in Phases /\ exec.at # "idle"
           /\ mem[exec.job] \in Job /\ plan \in Plans /\ ~mem[exec.job].done
           /\ exec.i \in 1..(Len(Steps(plan)) + 1)
           /\ FirstSteps(plan, exec.i - 1) \subseteq mem[exec.job].results
           /\ JournalOf(mem[exec.job], wire[exec.job])
  BY DEF Consistent, Durable, TypeOK, ExecInv, JournalInv, plan, Job

\* In the phases inside the list of mutations the current one is a step.
LEMMA CurrentStep ==
    ASSUME Consistent, exec.at \in {"step", "send", "sent", "await", "baseline"}
    PROVE  /\ exec # Idle
           /\ exec.i \in 1..Len(Steps(plan))
           /\ step \in Step /\ step # None
  <1>1. exec # Idle
    BY DEF Idle
  <1>2. exec.i <= Len(Steps(plan))
    BY <1>1, Running DEF Consistent, ExecInv, plan
  <1>3. exec.i \in 1..Len(Steps(plan))
    BY <1>1, <1>2, Running, StepsType
  <1> QED
    BY <1>1, <1>3, Running, StepsType DEF step

\* A control point computed by GoTo is one of the list, of baseline or of verify.
LEMMA GoToForm ==
    ASSUME NEW j \in Jobs, NEW p \in Plans, NEW i \in 1..(Len(Steps(p)) + 1)
    PROVE  /\ GoTo(j, p, i).job = j /\ GoTo(j, p, i).i = i
           /\ GoTo(j, p, i).at \in {"step", "baseline", "verify"}
           /\ GoTo(j, p, i).at = "verify" <=> i = Len(Steps(p)) + 1
           /\ GoTo(j, p, i) \in [job : Jobs \cup {None}, at : Phases, i : Nat]
           /\ GoTo(j, p, i) # Idle
  BY StepsType DEF GoTo, Idle, Phases

\* Moving the running call to GoTo(j, p, i) keeps ExecInv once the answers of
\* the first i - 1 mutations are on disk.
LEMMA GoToExecInv ==
    ASSUME NEW j \in Jobs, disk'[j] # None, ~disk'[j].done,
           disk'[j].plan \in Plans,
           NEW i \in 1..(Len(Steps(disk'[j].plan)) + 1),
           FirstSteps(disk'[j].plan, i - 1) \subseteq disk'[j].results,
           exec' = GoTo(j, disk'[j].plan, i)
    PROVE  ExecInv'
  BY GoToForm, StepsType DEF ExecInv

-----------------------------------------------------------------------------
(* Every step keeps Consistent *)

\* A step that leaves the journal and the wire alone and ends the call, or does
\* not touch it.
LEMMA QuietStep ==
    ASSUME Consistent, TypeOK', UNCHANGED <<journal, wire>>,
           exec' = Idle \/ UNCHANGED exec
    PROVE  Consistent'
  BY DEF Consistent, journal, Durable, NoReplay, JournalInv, JournalOf, ExecInv, plan, step

\* A step that leaves the journal and the wire alone and moves the call on.
LEMMA MovedStep ==
    ASSUME Consistent, exec # Idle, UNCHANGED <<journal, wire>>, TypeOK', ExecInv'
    PROVE  Consistent'
  BY DEF Consistent, journal, Durable, NoReplay, JournalInv, JournalOf

\* What the host and the people at it do leaves journal, wire and call alone.
LEMMA HostKeeps ==
    ASSUME Consistent, Host
    PROVE  Consistent'
  <1> SUFFICES TypeOK'
    BY QuietStep DEF Host, HostApply, HostDrop, HostFloor, HostShow, UserAdds, UserImports, journal
  <1>1. CASE \E js \in flight : HostApply(js[1], js[2]) \/ HostDrop(js[1], js[2])
    BY <1>1 DEF Consistent, TypeOK, HostApply, HostDrop, journal
  <1>2. CASE \E j \in Jobs : HostFloor(j)
    BY <1>2 DEF Consistent, TypeOK, HostFloor, journal
  <1>3. CASE \E j \in Jobs : \E n \in 1..80 : HostShow(j, n)
    <2> PICK j \in Jobs, n \in 1..80 : HostShow(j, n)
      BY <1>3
    <2>1. disk[j] \in Job /\ n \in 1..Len(disk[j].plan.nodes)
      BY DEF Consistent, TypeOK, HostShow
    <2>2. disk[j].plan \in Plans
      BY <2>1 DEF Job
    <2>3. NodeOf(j, disk[j].plan, n) \in Nodes
      <3>1. PICK p \in Plans : p = disk[j].plan
        BY <2>2
      <3>2. NodeOf(j, p, n) \in NodesOf(j, p)
        BY <2>1, <3>1 DEF NodesOf
      <3>3. <<j, p>> \in Jobs \X Plans /\ <<j, p>>[1] = j /\ <<j, p>>[2] = p
        OBVIOUS
      <3> QED
        BY <3>1, <3>2, <3>3 DEF Nodes
    <2> QED
      BY <2>3 DEF Consistent, TypeOK, HostShow, journal, Snapshot
  <1>4. CASE \E u \in UserNodes : UserAdds(u)
    <2>1. PICK u \in UserNodes : UserAdds(u)
      BY <1>4
    <2>2. u \in Nodes
      BY DEF Nodes
    <2> QED
      BY <2>1, <2>2 DEF Consistent, TypeOK, UserAdds, journal, Snapshot
  <1>5. CASE \E p \in Plans : UserImports(p)
    BY <1>5 DEF Consistent, TypeOK, UserImports, journal
  <1> QED
    BY <1>1, <1>2, <1>3, <1>4, <1>5 DEF Host

\* The resting control point is well typed.
LEMMA IdleType == Idle \in [job : Jobs \cup {None}, at : Phases, i : Nat]
  BY DEF Idle, Phases

\* A save made for another part of the state, successful or not (save).
LEMMA OtherSaveKeeps ==
    ASSUME Consistent, OtherSave
    PROVE  Consistent'
  <1>1. /\ UNCHANGED <<mem, disk, exec, wire>> /\ UNCHANGED host
        /\ failure' \in BOOLEAN /\ (~failure' => ~failure)
    BY DEF OtherSave, Persist, Consistent, Durable
  <1>2. TypeOK'
    BY <1>1 DEF Consistent, TypeOK, host
  <1>3. Durable'
    BY <1>1 DEF Consistent, Durable
  <1>4. (NoReplay /\ JournalInv /\ ExecInv)'
    BY <1>1 DEF Consistent, NoReplay, JournalInv, JournalOf, ExecInv
  <1> QED
    BY <1>2, <1>3, <1>4 DEF Consistent

\* A crash and the load of relay.json (NewRelay).
LEMMA RestartKeeps ==
    ASSUME Consistent, Restart
    PROVE  Consistent'
  BY IdleType DEF Consistent, Restart, host, TypeOK, Durable, NoReplay, JournalInv,
         JournalOf, ExecInv

\* A Deploy that returns with an error, or finds a doubtful step.
LEMMA AbandonKeeps ==
    ASSUME Consistent, Abandon \/ Blocked
    PROVE  Consistent'
  BY QuietStep, IdleType DEF Abandon, Blocked, TypeOK, Consistent, host, journal

\* The presets are resolved and the walk begins.
LEMMA PrepareKeeps ==
    ASSUME Consistent, Prepare
    PROVE  Consistent'
  <1>1. exec # Idle
    BY DEF Prepare, Idle
  <1>2. /\ disk'[exec.job] = mem[exec.job] /\ disk'[exec.job].plan = plan
        /\ disk'[exec.job] # None
    BY <1>1, Running, NoRecordIsNone DEF Prepare, journal, plan
  <1>3. ExecInv'
    BY <1>1, <1>2, Running, GoToExecInv, FirstStepsNone, StepsType DEF Prepare
  <1>4. TypeOK'
    BY <1>1, Running, GoToForm, StepsType DEF Consistent, TypeOK, Prepare, host, journal
  <1> QED
    BY <1>1, <1>3, <1>4, MovedStep DEF Prepare

\* The poll for the floor ends (Deploy, 231-256).
LEMMA AwaitKeeps ==
    ASSUME Consistent, AwaitFloor
    PROVE  Consistent'
  <1>1. exec # Idle /\ exec.i \in 1..Len(Steps(plan))
    BY CurrentStep DEF AwaitFloor
  <1>2. /\ disk'[exec.job] = mem[exec.job] /\ disk'[exec.job].plan = plan
        /\ disk'[exec.job] # None
    BY <1>1, Running, NoRecordIsNone DEF AwaitFloor, journal, plan
  <1>3. CASE exec' = Idle
    <2>1. TypeOK'
      BY <1>3, IdleType DEF Consistent, TypeOK, AwaitFloor, host, journal
    <2> QED
      BY <2>1, <1>3, QuietStep DEF AwaitFloor
  <1>4. CASE exec' = GoTo(exec.job, plan, exec.i + 1)
    <2>1. Steps(plan)[exec.i] \in mem[exec.job].results
      BY <1>1, Running DEF Consistent, ExecInv, AwaitFloor, plan
    <2>2. FirstSteps(plan, exec.i) \subseteq mem[exec.job].results
      BY <1>1, <2>1, Running, StepsType DEF FirstSteps
    <2>3. ExecInv'
      BY <1>1, <1>2, <1>4, <2>2, Running, GoToExecInv, StepsType
    <2>4. TypeOK'
      BY <1>1, <1>4, Running, GoToForm, StepsType DEF Consistent, TypeOK, AwaitFloor, host, journal
    <2> QED
      BY <1>1, <2>3, <2>4, MovedStep DEF AwaitFloor
  <1> QED
    BY <1>3, <1>4 DEF AwaitFloor

\* A job is registered or taken up again (Deploy, 61-147).
LEMMA StartKeeps ==
    ASSUME Consistent, NEW j \in Jobs, NEW p \in Plans, Start(j, p)
    PROVE  Consistent'
  <1>1. NewJob(p) \in Job /\ NewJob(p) # None /\ NewJob(p).plan = p
        /\ NewJob(p).results = {} /\ NewJob(p).pending = None /\ ~NewJob(p).done
    <2>1. NewJob(p).plan = p /\ NewJob(p).results = {} /\ NewJob(p).pending = None
          /\ NewJob(p).done = FALSE
      BY DEF NewJob
    <2>2. NewJob(p) \in Job
      BY DEF NewJob, Job
    <2> QED
      BY <2>1, <2>2, NoRecordIsNone
  <1>2. mem' \in [Jobs -> Job \cup {None}] /\ mem'[j] \in Job /\ mem'[j] # None
        /\ mem'[j].plan = p /\ ~mem'[j].done
        /\ \A k \in Jobs \ {j} : mem'[k] = mem[k]
    BY <1>1, NoRecordIsNone DEF Start, Consistent, TypeOK
  <1>3. exec = Idle /\ UNCHANGED wire /\ UNCHANGED host
    BY DEF Start
  <1>4. CASE failure' = FALSE /\ ~failure /\ disk' = mem'
             /\ exec' = [job |-> j, at |-> "prepare", i |-> 1]
    <2>1. mem = disk
      BY <1>4 DEF Consistent, Durable
    <2>2. TypeOK'
      BY <1>2, <1>3, <1>4 DEF Consistent, TypeOK, Phases, host
    <2>3. disk[j] = None => disk'[j] = NewJob(p) /\ wire[j] = <<>>
      BY <2>1, <1>4 DEF Start, Consistent, JournalInv, TypeOK
    <2>4. disk[j] # None => disk'[j] = disk[j]
      BY <2>1, <1>4 DEF Start, Consistent, TypeOK
    <2>5. \A k \in Jobs \ {j} : disk'[k] = disk[k]
      BY <1>2, <1>4, <2>1
    <2>6. NoReplay'
      BY <1>3, <2>3, <2>4, <2>5 DEF Consistent, NoReplay
    <2>7. JournalOf(NewJob(p), <<>>)
      BY <1>1, FirstStepsNone, StepsType DEF JournalOf
    <2>8. JournalInv'
      BY <1>1, <1>3, <2>3, <2>4, <2>5, <2>7, NoRecordIsNone DEF Consistent, JournalInv, JournalOf
    <2>9. ExecInv'
      BY <1>2, <1>4, FirstStepsNone, StepsType DEF ExecInv
    <2> QED
      BY <1>4, <2>2, <2>6, <2>8, <2>9 DEF Consistent, Durable
  <1>5. CASE failure' = TRUE /\ UNCHANGED disk /\ exec' = Idle
    <2>1. TypeOK'
      BY <1>2, <1>3, <1>5, IdleType DEF Consistent, TypeOK, host
    <2>2. (NoReplay /\ JournalInv /\ ExecInv)'
      BY <1>3, <1>5 DEF Consistent, NoReplay, JournalInv, JournalOf, ExecInv
    <2> QED
      BY <1>5, <2>1, <2>2 DEF Consistent, Durable
  <1> QED
    BY <1>4, <1>5 DEF Start, Persist

\* A save of the running call that fails ends it and leaves the disk alone.
LEMMA FailedSaveKeeps ==
    ASSUME Consistent, mem' \in [Jobs -> Job \cup {None}],
           failure' = TRUE, UNCHANGED <<disk, wire, host>>, exec' = Idle
    PROVE  Consistent'
  <1>1. TypeOK'
    BY IdleType DEF Consistent, TypeOK, host
  <1>2. (NoReplay /\ JournalInv /\ ExecInv)'
    BY DEF Consistent, NoReplay, JournalInv, JournalOf, ExecInv
  <1> QED
    BY <1>1, <1>2 DEF Consistent, Durable

\* A save of the running call that succeeds: only the job it runs changes, and
\* keeps its plan.
LEMMA SavedKeeps ==
    ASSUME Consistent, exec # Idle, mem' \in [Jobs -> Job \cup {None}],
           mem'[exec.job] \in Job, mem'[exec.job].plan = plan,
           \A k \in Jobs \ {exec.job} : mem'[k] = mem[k],
           failure' = FALSE, disk' = mem', UNCHANGED <<wire, host>>,
           JournalOf(mem'[exec.job], wire[exec.job]),
           exec' \in [job : Jobs \cup {None}, at : Phases, i : Nat], ExecInv'
    PROVE  Consistent'
  <1>1. TypeOK'
    BY DEF Consistent, TypeOK, host
  <1>2. \A k \in Jobs \ {exec.job} : disk'[k] = disk[k]
    BY Running
  <1>3. disk'[exec.job].plan = disk[exec.job].plan /\ disk'[exec.job] # None
        /\ disk[exec.job] # None
    BY Running, NoRecordIsNone DEF plan
  <1>4. NoReplay'
    BY <1>2, <1>3 DEF Consistent, NoReplay
  <1>5. JournalInv'
    BY <1>2, <1>3 DEF Consistent, JournalInv, JournalOf
  <1> QED
    BY <1>1, <1>4, <1>5 DEF Consistent, Durable

\* The control point after an answer, for an answer that is on disk.
LEMMA AfterExecInv ==
    ASSUME NEW j \in Jobs, disk'[j] # None, ~disk'[j].done, disk'[j].plan \in Plans,
           NEW i \in 1..Len(Steps(disk'[j].plan)),
           FirstSteps(disk'[j].plan, i - 1) \subseteq disk'[j].results,
           Steps(disk'[j].plan)[i] \in disk'[j].results,
           exec' = After(j, disk'[j].plan, i)
    PROVE  ExecInv' /\ exec' \in [job : Jobs \cup {None}, at : Phases, i : Nat]
  <1> DEFINE p == disk'[j].plan
  <1>1. Len(Steps(p)) \in Nat
    BY StepsType
  <1>2. CASE Steps(p)[i].op = "floor"
    <2>1. exec' = [job |-> j, at |-> "await", i |-> i]
      BY <1>2 DEF After
    <2> QED
      BY <1>1, <2>1 DEF ExecInv, Phases
  <1>3. CASE Steps(p)[i].op # "floor"
    <2>1. exec' = GoTo(j, p, i + 1)
      BY <1>3 DEF After
    <2>2. FirstSteps(p, i) \subseteq disk'[j].results
      BY <1>1 DEF FirstSteps
    <2>3. i + 1 \in 1..(Len(Steps(p)) + 1) /\ (i + 1) - 1 = i
      BY <1>1
    <2>4. ExecInv'
      BY <2>1, <2>2, <2>3, GoToExecInv
    <2> QED
      BY <2>1, <2>3, <2>4, GoToForm
  <1> QED
    BY <1>2, <1>3

\* A recorded answer stands for the call (step, 21-26).
LEMMA ReplayKeeps ==
    ASSUME Consistent, Replay
    PROVE  Consistent'
  <1>1. exec # Idle /\ exec.i \in 1..Len(Steps(plan))
    BY CurrentStep DEF Replay
  <1>2. CASE exec' = Idle
    <2>1. TypeOK'
      BY <1>2, IdleType DEF Consistent, TypeOK, Replay, host, journal
    <2> QED
      BY <2>1, <1>2, QuietStep DEF Replay
  <1>3. CASE exec' = After(exec.job, plan, exec.i)
    <2>1. /\ disk'[exec.job] = mem[exec.job] /\ disk'[exec.job].plan = plan
          /\ disk'[exec.job] # None
      BY <1>1, Running, NoRecordIsNone DEF Replay, journal, plan
    <2>2. ExecInv' /\ exec' \in [job : Jobs \cup {None}, at : Phases, i : Nat]
      BY <1>1, <1>3, <2>1, Running, AfterExecInv DEF Replay, step
    <2>3. TypeOK'
      BY <2>2 DEF Consistent, TypeOK, Replay, host, journal
    <2> QED
      BY <1>1, <2>2, <2>3, MovedStep DEF Replay
  <1> QED
    BY <1>2, <1>3 DEF Replay

\* With nothing in doubt and the current mutation unanswered, the recorded
\* answers are exactly those of the mutations before it.
LEMMA NextUnsent ==
    ASSUME Consistent, exec.at = "step", step \notin mem[exec.job].results,
           mem[exec.job].pending = None
    PROVE  /\ mem[exec.job].results = FirstSteps(plan, exec.i - 1)
           /\ Len(wire[exec.job]) = exec.i - 1
  <1>1. exec # Idle /\ exec.i \in 1..Len(Steps(plan)) /\ Len(Steps(plan)) \in Nat
    BY CurrentStep, Running, StepsType
  <1>2. PICK m \in 0..Len(Steps(plan)) :
            mem[exec.job].results = FirstSteps(plan, m) /\ Len(wire[exec.job]) = m
    BY <1>1, Running DEF JournalOf, plan
  <1>3. exec.i - 1 <= m
    BY <1>1, <1>2, Running, FirstStepsOrder
  <1>4. ~(exec.i <= m)
    BY <1>1, <1>2, Running, FirstStepsMember DEF step
  <1>5. m = exec.i - 1
    BY <1>1, <1>3, <1>4
  <1> QED
    BY <1>2, <1>5

\* The intention is written before the call (step, 32-37).
LEMMA BeginKeeps ==
    ASSUME Consistent, Begin
    PROVE  Consistent'
  <1>1. /\ exec # Idle /\ exec.i \in 1..Len(Steps(plan)) /\ Len(Steps(plan)) \in Nat
        /\ step \in Step /\ step # None
    BY CurrentStep, Running, StepsType DEF Begin
  <1>2. mem[exec.job] \in Job /\ exec.job \in Jobs
    BY <1>1, Running
  <1>3. /\ mem' \in [Jobs -> Job \cup {None}] /\ mem'[exec.job] \in Job
        /\ mem'[exec.job] = [mem[exec.job] EXCEPT !.pending = step]
        /\ \A k \in Jobs \ {exec.job} : mem'[k] = mem[k]
    BY <1>1, <1>2 DEF Begin, Consistent, TypeOK, Job
  <1>4. /\ mem'[exec.job].plan = plan /\ mem'[exec.job].pending = step
        /\ mem'[exec.job].results = mem[exec.job].results
        /\ mem'[exec.job].done = mem[exec.job].done
    BY <1>2, <1>3 DEF Job, plan
  <1>5. CASE failure' = TRUE /\ UNCHANGED disk /\ exec' = Idle
    BY <1>3, <1>5, FailedSaveKeeps DEF Begin
  <1>6. CASE failure' = FALSE /\ disk' = mem' /\ exec' = [exec EXCEPT !.at = "send"]
    <2>1. /\ mem[exec.job].results = FirstSteps(plan, exec.i - 1)
          /\ Len(wire[exec.job]) = exec.i - 1
      BY NextUnsent DEF Begin
    <2>2. exec.i - 1 \in 0..Len(Steps(plan)) /\ (exec.i - 1) + 1 = exec.i
      BY <1>1
    <2>3. JournalOf(mem'[exec.job], wire[exec.job])
      BY <1>1, <1>4, <2>1, <2>2 DEF JournalOf, step
    <2>4. exec' \in [job : Jobs \cup {None}, at : Phases, i : Nat]
          /\ exec'.job = exec.job /\ exec'.at = "send" /\ exec'.i = exec.i
      BY <1>6 DEF Consistent, TypeOK, Phases
    <2>5. ExecInv'
      BY <1>1, <1>2, <1>3, <1>4, <1>6, <2>1, <2>2, <2>4, Running, NoRecordIsNone
         DEF ExecInv, Begin, step
    <2> QED
      BY <1>1, <1>3, <1>4, <1>6, <2>3, <2>4, <2>5, SavedKeeps DEF Begin
  <1> QED
    BY <1>5, <1>6 DEF Begin, Persist

\* While a mutation is being sent it is the one in doubt and the answers are
\* those of the mutations before it.
LEMMA InDoubt ==
    ASSUME Consistent, exec.at \in {"send", "sent"}
    PROVE  /\ mem[exec.job].pending = step
           /\ mem[exec.job].results = FirstSteps(plan, exec.i - 1)
           /\ Len(wire[exec.job]) = IF exec.at = "send" THEN exec.i - 1 ELSE exec.i
  <1>1. /\ exec # Idle /\ exec.i \in 1..Len(Steps(plan)) /\ Len(Steps(plan)) \in Nat
        /\ step # None
    BY CurrentStep, Running, StepsType
  <1>2. /\ mem[exec.job].pending = step /\ step \notin mem[exec.job].results
        /\ Len(wire[exec.job]) = IF exec.at = "send" THEN exec.i - 1 ELSE exec.i
    BY <1>1, Running DEF Consistent, ExecInv, step, plan
  <1>3. PICK m \in 0..Len(Steps(plan)) :
            /\ mem[exec.job].results = FirstSteps(plan, m)
            /\ m < Len(Steps(plan)) /\ step = Steps(plan)[m + 1]
    BY <1>1, <1>2, Running DEF JournalOf, plan
  <1>4. m + 1 = exec.i
    BY <1>1, <1>3, Running, StepsAssumption DEF step
  <1> QED
    BY <1>1, <1>2, <1>3, <1>4

\* A mutation leaves: it is the next one of the plan (Wire.Call).
LEMMA SendKeeps ==
    ASSUME Consistent, Send
    PROVE  Consistent'
  <1>1. /\ exec # Idle /\ exec.i \in 1..Len(Steps(plan)) /\ Len(Steps(plan)) \in Nat
        /\ step \in Step /\ step # None /\ exec.job \in Jobs /\ plan \in Plans
        /\ mem = disk
    BY CurrentStep, Running, StepsType DEF Send
  <1>2. /\ mem[exec.job].pending = step
        /\ mem[exec.job].results = FirstSteps(plan, exec.i - 1)
        /\ Len(wire[exec.job]) = exec.i - 1
    BY InDoubt DEF Send
  <1>3. /\ wire' \in [Jobs -> Seq(Step)]
        /\ wire'[exec.job] = Append(wire[exec.job], step)
        /\ \A k \in Jobs \ {exec.job} : wire'[k] = wire[k]
    BY <1>1 DEF Send, Consistent, TypeOK
  <1>4. Len(wire'[exec.job]) = exec.i /\ wire[exec.job] \in Seq(Step)
    BY <1>1, <1>2, <1>3 DEF Consistent, TypeOK
  <1>5. exec' \in [job : Jobs \cup {None}, at : Phases, i : Nat]
        /\ exec'.job = exec.job /\ exec'.at = "sent" /\ exec'.i = exec.i
    BY DEF Send, Consistent, TypeOK, Phases
  <1>6. TypeOK'
    BY <1>1, <1>3, <1>5 DEF Send, Consistent, TypeOK, journal
  <1>7. UNCHANGED <<mem, disk, failure>> /\ Durable'
    BY <1>1 DEF Send, journal, Durable
  <1>8. disk[exec.job] # None /\ disk[exec.job].plan = plan
    BY <1>1, Running, NoRecordIsNone DEF plan
  <1>9. NoReplay'
    <2>1. ASSUME NEW k \in 1..Len(wire'[exec.job])
          PROVE  wire'[exec.job][k] = Steps(plan)[k]
      <3>1. CASE k = exec.i
        BY <1>1, <1>2, <1>3, <1>4, <3>1 DEF step
      <3>2. CASE k < exec.i
        <4>1. k \in 1..Len(wire[exec.job]) /\ wire'[exec.job][k] = wire[exec.job][k]
          BY <1>1, <1>2, <1>3, <1>4, <3>2
        <4>2. wire[exec.job] # <<>>
          BY <4>1, <1>4
        <4> QED
          BY <1>1, <1>8, <4>1, <4>2 DEF Consistent, NoReplay
      <3> QED
        BY <1>1, <1>4, <3>1, <3>2
    <2> SUFFICES ASSUME NEW j \in Jobs, wire'[j] # <<>>
                 PROVE  /\ disk[j] # None
                        /\ Len(wire'[j]) <= Len(Steps(disk[j].plan))
                        /\ \A k \in 1..Len(wire'[j]) : wire'[j][k] = Steps(disk[j].plan)[k]
      BY <1>7 DEF NoReplay
    <2>2. CASE j = exec.job
      BY <1>1, <1>4, <1>8, <2>1, <2>2
    <2>3. CASE j # exec.job
      BY <1>3, <2>3 DEF Consistent, NoReplay
    <2> QED
      BY <2>2, <2>3
  <1>10. JournalInv'
    <2>1. JournalOf(disk[exec.job], wire'[exec.job])
      <3>1. exec.i - 1 \in 0..Len(Steps(plan)) /\ (exec.i - 1) + 1 = exec.i
        BY <1>1
      <3> QED
        BY <1>1, <1>2, <1>4, <1>8, <3>1 DEF JournalOf, step
    <2> QED
      BY <1>1, <1>3, <1>7, <1>8, <2>1 DEF Consistent, JournalInv, JournalOf
  <1>11. ExecInv'
    BY <1>1, <1>2, <1>4, <1>5, <1>7, <1>8 DEF Consistent, ExecInv, Send
  <1> QED
    BY <1>6, <1>7, <1>9, <1>10, <1>11 DEF Consistent

\* The answer replaces the doubtful step (step, 42-46).
LEMMA RecordKeeps ==
    ASSUME Consistent, Record
    PROVE  Consistent'
  <1>1. /\ exec # Idle /\ exec.i \in 1..Len(Steps(plan)) /\ Len(Steps(plan)) \in Nat
        /\ step \in Step /\ exec.job \in Jobs /\ plan \in Plans
        /\ mem[exec.job] \in Job /\ ~mem[exec.job].done
    BY CurrentStep, Running, StepsType DEF Record
  <1>2. /\ mem[exec.job].results = FirstSteps(plan, exec.i - 1)
        /\ Len(wire[exec.job]) = exec.i
    BY InDoubt DEF Record
  <1>3. /\ mem' \in [Jobs -> Job \cup {None}] /\ mem'[exec.job] \in Job
        /\ mem'[exec.job].plan = plan /\ mem'[exec.job].pending = None
        /\ mem'[exec.job].results = mem[exec.job].results \cup {step}
        /\ mem'[exec.job].done = mem[exec.job].done
        /\ \A k \in Jobs \ {exec.job} : mem'[k] = mem[k]
    <2> PICK valid \in BOOLEAN :
            mem' = [mem EXCEPT
                     ![exec.job].results = @ \cup {step},
                     ![exec.job].unusable = IF valid THEN @ ELSE @ \cup {step},
                     ![exec.job].pending = None]
      BY DEF Record
    <2>1. /\ mem \in [Jobs -> Job \cup {None}] /\ exec.job \in Jobs /\ mem[exec.job] \in Job
          /\ step \in Step
      BY <1>1 DEF Consistent, TypeOK
    <2>2. \A k \in Jobs \ {exec.job} : mem'[k] = mem[k]
      BY <2>1
    <2>3. mem'[exec.job] = [mem[exec.job] EXCEPT
                              !.results = @ \cup {step},
                              !.unusable = IF valid THEN @ ELSE @ \cup {step},
                              !.pending = None]
      BY <2>1
    <2>4. /\ mem'[exec.job] \in Job
          /\ mem'[exec.job].plan = plan /\ mem'[exec.job].pending = None
          /\ mem'[exec.job].results = mem[exec.job].results \cup {step}
          /\ mem'[exec.job].done = mem[exec.job].done
      BY <2>1, <2>3 DEF Job, plan
    <2>5. mem' \in [Jobs -> Job \cup {None}]
      <3>1. DOMAIN mem' = Jobs /\ mem' = [k \in Jobs |-> mem'[k]]
        BY <2>1
      <3> QED
        BY <2>1, <2>2, <2>4, <3>1
    <2> QED
      BY <2>2, <2>4, <2>5
  <1>4. CASE failure' = TRUE /\ UNCHANGED disk /\ exec' = Idle
    BY <1>3, <1>4, FailedSaveKeeps DEF Record
  <1>5. CASE /\ failure' = FALSE /\ disk' = mem'
             /\ exec' = Idle \/ exec' = After(exec.job, plan, exec.i)
    <2>1. exec.i - 1 \in 0..(Len(Steps(plan)) - 1) /\ (exec.i - 1) + 1 = exec.i
      BY <1>1
    <2>2. mem'[exec.job].results = FirstSteps(plan, exec.i)
      BY <1>1, <1>2, <1>3, <2>1, FirstStepsNext DEF step
    <2>3. JournalOf(mem'[exec.job], wire[exec.job])
      BY <1>1, <1>2, <1>3, <2>2 DEF JournalOf
    <2>4. ExecInv' /\ exec' \in [job : Jobs \cup {None}, at : Phases, i : Nat]
      <3>1. CASE exec' = Idle
        BY <3>1, IdleType DEF ExecInv
      <3>2. CASE exec' = After(exec.job, plan, exec.i)
        BY <1>1, <1>2, <1>3, <1>5, <3>2, AfterExecInv, NoRecordIsNone DEF step
      <3> QED
        BY <1>5, <3>1, <3>2
    <2> QED
      BY <1>1, <1>3, <1>5, <2>3, <2>4, SavedKeeps DEF Record
  <1> QED
    BY <1>4, <1>5 DEF Record, Persist

\* The canvas is remembered before the partitura (Deploy, 264-284).
LEMMA BaselineKeeps ==
    ASSUME Consistent, Baseline
    PROVE  Consistent'
  <1>1. /\ exec # Idle /\ exec.i \in 1..Len(Steps(plan)) /\ Len(Steps(plan)) \in Nat
        /\ exec.job \in Jobs /\ plan \in Plans /\ mem = disk
        /\ mem[exec.job] \in Job /\ ~mem[exec.job].done /\ mem[exec.job] # None
    BY CurrentStep, Running, StepsType, NoRecordIsNone DEF Baseline
  <1>2. CASE exec' = [exec EXCEPT !.at = "step"] /\ UNCHANGED journal
    <2>1. exec' \in [job : Jobs \cup {None}, at : Phases, i : Nat]
          /\ exec'.job = exec.job /\ exec'.at = "step" /\ exec'.i = exec.i
      BY <1>2 DEF Consistent, TypeOK, Phases
    <2>2. TypeOK'
      BY <1>2, <2>1 DEF Baseline, Consistent, TypeOK, journal, host
    <2>3. ExecInv'
      BY <1>1, <1>2, <2>1 DEF Baseline, Consistent, ExecInv, journal, plan
    <2> QED
      BY <1>1, <1>2, <2>2, <2>3, MovedStep DEF Baseline
  <1>3. CASE mem' = [mem EXCEPT ![exec.job].before = OnCanvas(Place(exec.job, plan))]
    <2>1. OnCanvas(Place(exec.job, plan)) \in Snapshot
      BY DEF OnCanvas, Snapshot, Consistent, TypeOK
    <2>2. /\ mem' \in [Jobs -> Job \cup {None}] /\ mem'[exec.job] \in Job
          /\ mem'[exec.job].plan = plan /\ mem'[exec.job].pending = mem[exec.job].pending
          /\ mem'[exec.job].results = mem[exec.job].results
          /\ mem'[exec.job].done = mem[exec.job].done
          /\ \A k \in Jobs \ {exec.job} : mem'[k] = mem[k]
      BY <1>1, <1>3, <2>1 DEF Consistent, TypeOK, Job, plan
    <2>3. CASE failure' = TRUE /\ UNCHANGED disk /\ exec' = Idle
      BY <2>2, <2>3, FailedSaveKeeps DEF Baseline
    <2>4. CASE failure' = FALSE /\ disk' = mem' /\ exec' = [exec EXCEPT !.at = "step"]
      <3>1. exec' \in [job : Jobs \cup {None}, at : Phases, i : Nat]
            /\ exec'.job = exec.job /\ exec'.at = "step" /\ exec'.i = exec.i
        BY <2>4 DEF Consistent, TypeOK, Phases
      <3>2. ExecInv'
        BY <1>1, <2>2, <2>4, <3>1, NoRecordIsNone DEF Baseline, Consistent, ExecInv, plan
      <3>3. JournalOf(mem'[exec.job], wire[exec.job])
        BY <1>1, <2>2, Running DEF JournalOf, plan
      <3> QED
        BY <1>1, <2>2, <2>4, <3>1, <3>2, <3>3, SavedKeeps DEF Baseline
    <2> QED
      BY <1>2, <2>3, <2>4 DEF Baseline, Persist
  <1> QED
    BY <1>2, <1>3 DEF Baseline

\* A confirmed job is marked as done (Deploy, 382-389).
LEMMA FinishKeeps ==
    ASSUME Consistent, Finish
    PROVE  Consistent'
  <1>1. /\ exec # Idle /\ exec.job \in Jobs /\ plan \in Plans
        /\ mem[exec.job] \in Job
    BY Running DEF Finish, Idle
  <1>2. /\ mem' \in [Jobs -> Job \cup {None}] /\ mem'[exec.job] \in Job
        /\ mem'[exec.job].plan = plan /\ mem'[exec.job].pending = mem[exec.job].pending
        /\ mem'[exec.job].results = mem[exec.job].results
        /\ \A k \in Jobs \ {exec.job} : mem'[k] = mem[k]
    BY <1>1 DEF Finish, Consistent, TypeOK, Job, plan
  <1>3. exec' = Idle /\ ExecInv'
    BY DEF Finish, ExecInv
  <1>4. CASE failure' = TRUE /\ UNCHANGED disk
    BY <1>2, <1>3, <1>4, FailedSaveKeeps DEF Finish
  <1>5. CASE failure' = FALSE /\ disk' = mem'
    <2>1. JournalOf(mem'[exec.job], wire[exec.job])
      BY <1>1, <1>2, Running DEF JournalOf, plan
    <2> QED
      BY <1>1, <1>2, <1>3, <1>5, <2>1, IdleType, SavedKeeps DEF Finish
  <1> QED
    BY <1>4, <1>5 DEF Finish, Persist

-----------------------------------------------------------------------------
(* Theorems *)

\* An empty journal is consistent.
LEMMA InitConsistent == Init => Consistent
  <1> SUFFICES ASSUME Init PROVE Consistent
    OBVIOUS
  <1>1. TypeOK
    <2>1. <<>> \in Seq(Step)
      OBVIOUS
    <2>2. mem \in [Jobs -> Job \cup {None}] /\ disk \in [Jobs -> Job \cup {None}]
      BY DEF Init
    <2> QED
      BY <2>1, <2>2, IdleType DEF Init, TypeOK, Snapshot
  <1> QED
    BY <1>1 DEF Init, Consistent, Durable, NoReplay, JournalInv, ExecInv

\* Every step of the executor and of the host preserves the invariant.
LEMMA NextConsistent ==
    ASSUME Consistent, [Next]_vars
    PROVE  Consistent'
  <1>1. CASE \E j \in Jobs, p \in Plans : Start(j, p)
    BY <1>1, StartKeeps
  <1>2. CASE Deploy
    BY <1>2, PrepareKeeps, ReplayKeeps, AbandonKeeps, BeginKeeps, SendKeeps, RecordKeeps,
       AwaitKeeps, BaselineKeeps, FinishKeeps DEF Deploy
  <1>3. CASE UNCHANGED vars
    <2>1. TypeOK'
      BY <1>3 DEF vars, Consistent, TypeOK
    <2> QED
      BY <1>3, <2>1, QuietStep DEF vars, journal
  <1> QED
    BY <1>1, <1>2, <1>3, OtherSaveKeeps, RestartKeeps, HostKeeps DEF Next

\* The journal, the wire and the running call agree in every reachable state,
\* for every set of jobs and plans.
THEOREM SpecConsistent == Spec => []Consistent
  <1>1. Init => Consistent
    BY InitConsistent
  <1>2. Consistent /\ [Next]_vars => Consistent'
    BY NextConsistent
  <1> QED
    BY <1>1, <1>2, PTL DEF Spec

\* Every variable keeps its type: the current mutation, journal entry and
\* request are always one of the plan's.
THEOREM SpecTypeOK == Spec => []TypeOK
  <1>1. Consistent => TypeOK
    BY DEF Consistent
  <1> QED
    BY <1>1, SpecConsistent, PTL

\* No mutation of any plan is sent twice, skipped or sent out of order, across
\* crashes, failing saves, lost answers and resumes of any number.
THEOREM SpecNoReplay == Spec => []NoReplay
  <1>1. Consistent => NoReplay
    BY DEF Consistent
  <1> QED
    BY <1>1, SpecConsistent, PTL

\* Whatever left is on disk as an answer or as the step in doubt.
THEOREM SpecWriteAhead == Spec => []WriteAhead
  <1>1. Consistent => WriteAhead
    <2> SUFFICES ASSUME Consistent, NEW j \in Jobs, NEW i \in 1..Len(wire[j])
                 PROVE  /\ disk[j] # None
                        /\ wire[j][i] \in disk[j].results \cup {disk[j].pending}
      BY DEF WriteAhead
    <2>1. wire[j] \in Seq(Step) /\ Len(wire[j]) \in Nat /\ wire[j] # <<>>
      BY DEF Consistent, TypeOK
    <2>2. disk[j] # None /\ disk[j].plan \in Plans /\ wire[j][i] = Steps(disk[j].plan)[i]
      BY <2>1 DEF Consistent, NoReplay, TypeOK, Job
    <2>3. PICK m \in 0..Len(Steps(disk[j].plan)) :
            /\ disk[j].results = FirstSteps(disk[j].plan, m)
            /\ disk[j].pending = None => Len(wire[j]) = m
            /\ disk[j].pending # None =>
                /\ m < Len(Steps(disk[j].plan))
                /\ disk[j].pending = Steps(disk[j].plan)[m + 1]
                /\ Len(wire[j]) \in {m, m + 1}
      BY <2>2 DEF Consistent, JournalInv, JournalOf
    <2>4. CASE i <= m
      BY <2>1, <2>2, <2>3, <2>4, StepsType DEF FirstSteps
    <2>5. CASE i = m + 1
      BY <2>1, <2>2, <2>3, <2>5, StepsType
    <2> QED
      BY <2>1, <2>2, <2>3, <2>4, <2>5, StepsType
  <1> QED
    BY <1>1, SpecConsistent, PTL

-----------------------------------------------------------------------------
(* Recorded answers are real *)

\* What the host carried out stays carried out.
LEMMA AppliedGrows ==
    ASSUME [Next]_vars
    PROVE  applied \subseteq applied'
  <1>1. CASE \E j \in Jobs, p \in Plans : Start(j, p)
    BY <1>1 DEF Start, host
  <1>2. CASE Deploy
    BY <1>2 DEF Deploy, Prepare, Replay, Blocked, Begin, Send, Record, AwaitFloor, Baseline,
                Finish, Abandon, host
  <1>3. CASE Host
    BY <1>3 DEF Host, HostApply, HostDrop, HostFloor, HostShow, UserAdds, UserImports
  <1> QED
    BY <1>1, <1>2, <1>3 DEF Next, OtherSave, Restart, host, vars

\* A record that was backed stays so while its answers, its pending step, its
\* plan and its completion stay.
LEMMA BackedKept ==
    ASSUME NEW j, NEW d, NEW e, Backed(j, d), applied \subseteq applied',
           e.results = d.results, e.plan = d.plan, e.done = d.done,
           e.done => e.pending = d.pending
    PROVE  Backed(j, e)'
  BY DEF Backed, FirstSteps

\* A call in its last phase has all answers and nothing in doubt.
LEMMA AllAnswered ==
    ASSUME Consistent, exec.at = "verify"
    PROVE  /\ FirstSteps(plan, Len(Steps(plan))) \subseteq mem[exec.job].results
           /\ mem[exec.job].pending = None
  <1>1. exec # Idle
    BY DEF Idle
  <1>2. /\ plan \in Plans /\ exec.job \in Jobs /\ mem = disk
        /\ exec.i = Len(Steps(plan)) + 1
    BY <1>1, Running DEF Consistent, ExecInv, plan
  <1>3. FirstSteps(plan, Len(Steps(plan))) \subseteq mem[exec.job].results
    BY <1>1, <1>2, Running, StepsType
  <1>4. PICK m \in 0..Len(Steps(plan)) :
          /\ mem[exec.job].results = FirstSteps(plan, m)
          /\ mem[exec.job].pending # None => m < Len(Steps(plan))
    BY <1>1, Running DEF JournalOf, plan
  <1>5. Len(Steps(plan)) <= m
    BY <1>2, <1>3, <1>4, FirstStepsOrder, StepsType
  <1> QED
    BY <1>2, <1>3, <1>4, <1>5, StepsType

\* Only the running job's record changes, and only by what the call did.
LEMMA MemBacked ==
    ASSUME Consistent, AllBacked, [Next]_vars, NEW j \in Jobs, mem'[j] # None
    PROVE  Backed(j, mem[j])'
  <1>1. applied \subseteq applied'
    BY AppliedGrows
  <1>2. CASE mem'[j] \in {mem[j], disk[j]}
    BY <1>1, <1>2, BackedKept DEF AllBacked
  <1>3. CASE \E k \in Jobs, p \in Plans : Start(k, p)
    <2>1. PICK k \in Jobs, p \in Plans : Start(k, p)
      BY <1>3
    <2>2. mem'[j] = mem[j] \/ mem'[j] = NewJob(p)
      BY <2>1 DEF Start, Consistent, TypeOK
    <2>3. CASE mem'[j] = NewJob(p)
      BY <2>3 DEF Backed, NewJob
    <2> QED
      BY <1>2, <2>2, <2>3
  <1>4. CASE Begin \/ Record \/ Baseline \/ Finish
    <2>0. exec.at \in {"step", "sent", "baseline", "verify"}
      BY <1>4 DEF Begin, Record, Baseline, Finish
    <2>1. exec # Idle
      BY <2>0 DEF Idle
    <2>2. exec.job \in Jobs /\ mem[exec.job] \in Job /\ mem[exec.job] # None /\ ~mem[exec.job].done
      BY <2>1, Running, NoRecordIsNone
    <2>3. j # exec.job => mem'[j] = mem[j]
      BY <1>4, <2>2 DEF Begin, Record, Baseline, Finish, Consistent, TypeOK, journal
    <2>4. Backed(exec.job, mem[exec.job])
      BY <2>2 DEF AllBacked
    <2> SUFFICES ASSUME j = exec.job PROVE Backed(j, mem[j])'
      BY <1>2, <2>3
    <2>5. CASE Begin
      <3>1. /\ mem'[j].results = mem[j].results /\ mem'[j].plan = mem[j].plan
            /\ mem'[j].done = mem[j].done
        BY <2>2, <2>5 DEF Begin, Job, Consistent, TypeOK
      <3> QED
        BY <1>1, <2>2, <2>4, <3>1, BackedKept
    <2>6. CASE Record
      <3>1. /\ mem'[j].results = mem[j].results \cup {step} /\ mem'[j].done = mem[j].done
            /\ <<j, step>> \in applied
        BY <2>2, <2>6 DEF Record, Job, Consistent, TypeOK
      <3> QED
        BY <1>1, <2>2, <2>4, <3>1 DEF Backed
    <2>7. CASE Baseline
      <3>1. /\ mem'[j].results = mem[j].results /\ mem'[j].plan = mem[j].plan
            /\ mem'[j].done = mem[j].done
        BY <2>2, <2>7 DEF Baseline, Job, Consistent, TypeOK, journal
      <3> QED
        BY <1>1, <2>2, <2>4, <3>1, BackedKept
    <2>8. CASE Finish
      <3>1. /\ mem'[j].results = mem[j].results /\ mem'[j].plan = plan
            /\ mem'[j].pending = mem[j].pending
        BY <2>2, <2>8 DEF Finish, Job, Consistent, TypeOK, plan
      <3>2. /\ FirstSteps(plan, Len(Steps(plan))) \subseteq mem[j].results
            /\ mem[j].pending = None
        BY <2>8, AllAnswered DEF Finish
      <3> QED
        BY <1>1, <2>4, <3>1, <3>2 DEF Backed, FirstSteps
    <2> QED
      BY <1>4, <2>5, <2>6, <2>7, <2>8
  <1>5. CASE Prepare \/ Replay \/ Blocked \/ Send \/ AwaitFloor \/ Abandon
    BY <1>2, <1>5 DEF Prepare, Replay, Blocked, Send, AwaitFloor, Abandon, journal
  <1>6. CASE OtherSave \/ Restart \/ UNCHANGED vars
    BY <1>2, <1>6 DEF OtherSave, Restart, vars
  <1>7. CASE Host
    BY <1>2, <1>7 DEF Host, HostApply, HostDrop, HostFloor, HostShow, UserAdds, UserImports, journal
  <1> QED
    BY <1>3, <1>4, <1>5, <1>6, <1>7 DEF Next, Deploy

\* A step writes the disk as it was or as memory is now.
LEMMA DiskFollows ==
    ASSUME [Next]_vars
    PROVE  disk' = disk \/ disk' = mem'
  <1>1. CASE \E j \in Jobs, p \in Plans : Start(j, p)
    BY <1>1 DEF Start, Persist
  <1>2. CASE Deploy
    BY <1>2 DEF Deploy, Prepare, Replay, Blocked, Begin, Send, Record, AwaitFloor, Baseline,
                Finish, Abandon, Persist, journal
  <1>3. CASE Host
    BY <1>3 DEF Host, HostApply, HostDrop, HostFloor, HostShow, UserAdds, UserImports, journal
  <1> QED
    BY <1>1, <1>2, <1>3 DEF Next, OtherSave, Restart, Persist, vars

\* Every answer in the journal is one the host gave, and a finished job was
\* carried out to its last mutation, for any jobs and plans.
THEOREM SpecResultsAreReal == Spec => []ResultsAreReal
  <1>1. Init => AllBacked
    BY DEF Init, AllBacked
  <1>2. Consistent /\ AllBacked /\ [Next]_vars => AllBacked'
    <2> SUFFICES ASSUME Consistent, AllBacked, [Next]_vars, NEW j \in Jobs
                 PROVE  /\ mem'[j] # None => Backed(j, mem[j])'
                        /\ disk'[j] # None => Backed(j, disk[j])'
      BY DEF AllBacked
    <2>1. mem'[j] # None => Backed(j, mem[j])'
      BY MemBacked
    <2>2. CASE disk' = disk
      <3>1. applied \subseteq applied'
        BY AppliedGrows
      <3> QED
        BY <2>1, <2>2, <3>1, BackedKept DEF AllBacked
    <2>3. CASE disk' = mem'
      BY <2>1, <2>3 DEF Backed
    <2> QED
      BY <2>2, <2>3, DiskFollows
  <1>3. Consistent /\ AllBacked => ResultsAreReal
    <2> SUFFICES ASSUME Consistent, AllBacked, NEW j \in Jobs, mem[j] # None
                 PROVE  /\ \A s \in mem[j].results : <<j, s>> \in applied
                        /\ mem[j].done =>
                             /\ mem[j].pending = None
                             /\ \A i \in 1..Len(Steps(mem[j].plan)) : <<j, Steps(mem[j].plan)[i]>> \in applied
      BY DEF ResultsAreReal
    <2>1. Backed(j, mem[j])
      BY DEF AllBacked
    <2> QED
      BY <2>1 DEF Backed, FirstSteps
  <1> QED
    BY <1>1, <1>2, <1>3, SpecConsistent, PTL DEF Spec

-----------------------------------------------------------------------------
(* Steps of the journal on disk *)

\* How one save may change one journaled job.
Grows(d, e) ==
    /\ e # None /\ e.plan = d.plan /\ d.results \subseteq e.results
    /\ d.before # None => e.before = d.before
    /\ d.done => e.done
    /\ d.pending # None => d.pending \in e.results \cup {e.pending}

\* A step writes the disk as it was, a new job, or the running job further on.
LEMMA DiskStep ==
    ASSUME Consistent, [Next]_vars, NEW j \in Jobs, disk[j] # None
    PROVE  Grows(disk[j], disk'[j])
  <1>1. CASE UNCHANGED disk
    BY <1>1 DEF Grows
  <1>2. CASE \E k \in Jobs, p \in Plans : Start(k, p)
    <2> PICK k \in Jobs, p \in Plans : Start(k, p)
      BY <1>2
    <2>1. mem \in [Jobs -> Job \cup {None}]
      BY DEF Consistent, TypeOK
    <2>2. disk' # disk => mem = disk /\ disk' = mem'
      BY DEF Start, Persist, Consistent, Durable
    <2>3. mem[j] # None => mem'[j] = mem[j]
      BY <2>1 DEF Start
    <2> QED
      BY <1>1, <2>2, <2>3 DEF Grows
  <1>3. CASE OtherSave
    BY <1>3, <1>1 DEF OtherSave, Persist, Consistent, Durable, Grows
  <1>4. CASE Begin
    <2>1. exec # Idle /\ mem = disk /\ exec.job \in Jobs /\ mem[exec.job] \in Job
      BY <1>4, CurrentStep, Running DEF Begin
    <2>2. mem'[j] = mem[j] \/ (j = exec.job /\ mem'[j] = [mem[j] EXCEPT !.pending = step])
      BY <1>4, <2>1 DEF Begin, Consistent, TypeOK
    <2>3. mem'[j] # None
      BY <2>1, <2>2, <1>4, BeginKeeps, NoRecordIsNone, CurrentStep DEF Begin, Job
    <2>4. j = exec.job => mem[j].pending = None
      BY <1>4 DEF Begin
    <2>5. Grows(mem[j], mem'[j])
      BY <2>1, <2>2, <2>3, <2>4 DEF Grows, Job
    <2> QED
      BY <1>1, <1>4, <2>1, <2>5 DEF Begin, Persist
  <1>5. CASE Record
    <2>1. exec # Idle /\ mem = disk /\ exec.job \in Jobs /\ mem[exec.job] \in Job
          /\ step \in Step /\ mem[exec.job].pending = step
      BY <1>5, CurrentStep, Running, InDoubt DEF Record
    <2>2. CASE j # exec.job
      <3>1. mem'[j] = mem[j]
        BY <1>5, <2>1, <2>2 DEF Record, Consistent, TypeOK
      <3> QED
        BY <1>1, <1>5, <2>1, <3>1 DEF Record, Persist, Grows
    <2>3. CASE j = exec.job
      <3> PICK valid \in BOOLEAN :
            mem' = [mem EXCEPT
                     ![exec.job].results = @ \cup {step},
                     ![exec.job].unusable = IF valid THEN @ ELSE @ \cup {step},
                     ![exec.job].pending = None]
        BY <1>5 DEF Record
      <3>1. /\ mem'[j] \in Job /\ mem'[j].plan = mem[j].plan
            /\ mem'[j].results = mem[j].results \cup {step}
            /\ mem'[j].before = mem[j].before /\ mem'[j].done = mem[j].done
        BY <2>1, <2>3 DEF Consistent, TypeOK, Job
      <3>2. Grows(mem[j], mem'[j])
        BY <2>1, <2>3, <3>1, NoRecordIsNone DEF Grows
      <3> QED
        BY <1>1, <1>5, <2>1, <3>2 DEF Record, Persist
    <2> QED
      BY <2>2, <2>3
  <1>6. CASE Baseline
    <2>1. exec # Idle /\ mem = disk /\ exec.job \in Jobs /\ mem[exec.job] \in Job
      BY <1>6, CurrentStep, Running DEF Baseline
    <2>2. CASE mem[exec.job].before = None
               /\ mem' = [mem EXCEPT ![exec.job].before = OnCanvas(Place(exec.job, plan))]
      <3>1. OnCanvas(Place(exec.job, plan)) \in Snapshot
        BY DEF OnCanvas, Snapshot, Consistent, TypeOK
      <3>2. j # exec.job => mem'[j] = mem[j]
        BY <2>1, <2>2 DEF Consistent, TypeOK
      <3>3. j = exec.job =>
              /\ mem'[j] \in Job /\ mem'[j].plan = mem[j].plan
              /\ mem'[j].results = mem[j].results /\ mem'[j].pending = mem[j].pending
              /\ mem'[j].done = mem[j].done
        BY <2>1, <2>2, <3>1 DEF Consistent, TypeOK, Job
      <3>4. Grows(mem[j], mem'[j])
        BY <2>1, <2>2, <3>2, <3>3, NoRecordIsNone DEF Grows
      <3> QED
        BY <1>1, <1>6, <2>1, <2>2, <3>4 DEF Baseline, Persist, journal
    <2> QED
      BY <1>1, <1>6, <2>2 DEF Baseline, journal
  <1>7. CASE Finish
    <2>1. exec # Idle /\ mem = disk /\ exec.job \in Jobs /\ mem[exec.job] \in Job
      BY <1>7, Running DEF Finish, Idle
    <2>2. j # exec.job => mem'[j] = mem[j]
      BY <1>7, <2>1 DEF Finish, Consistent, TypeOK
    <2>3. j = exec.job =>
            /\ mem'[j] \in Job /\ mem'[j].plan = mem[j].plan /\ mem'[j].done
            /\ mem'[j].results = mem[j].results /\ mem'[j].pending = mem[j].pending
            /\ mem'[j].before = mem[j].before
      BY <1>7, <2>1 DEF Finish, Consistent, TypeOK, Job
    <2>4. Grows(mem[j], mem'[j])
      BY <2>1, <2>2, <2>3, NoRecordIsNone DEF Grows
    <2> QED
      BY <1>1, <1>7, <2>1, <2>4 DEF Finish, Persist
  <1>8. Host \/ Restart \/ UNCHANGED vars => UNCHANGED disk
    BY DEF Host, HostApply, HostDrop, HostFloor, HostShow, UserAdds, UserImports, Restart,
           journal, vars
  <1>9. Prepare \/ Replay \/ Blocked \/ Send \/ AwaitFloor \/ Abandon => UNCHANGED disk
    BY DEF Prepare, Replay, Blocked, Send, AwaitFloor, Abandon, journal
  <1> QED
    BY <1>1, <1>2, <1>3, <1>4, <1>5, <1>6, <1>7, <1>8, <1>9 DEF Next, Deploy

\* relay.json never forgets: plan, answers, baseline and completion of a job
\* stay, and a step in doubt leaves its field only as an answer.
THEOREM SpecJournalGrows == Spec => JournalGrows
  <1>1. Consistent /\ [Next]_vars =>
          [\A j \in Jobs : disk[j] # None =>
             /\ disk'[j] # None
             /\ disk'[j].plan = disk[j].plan
             /\ disk[j].results \subseteq disk'[j].results
             /\ disk[j].before # None => disk'[j].before = disk[j].before
             /\ disk[j].done => disk'[j].done
             /\ disk[j].pending # None =>
                    disk[j].pending \in disk'[j].results \cup {disk'[j].pending}]_vars
    BY DiskStep DEF Grows
  <1> QED
    BY <1>1, SpecConsistent, PTL DEF Spec, JournalGrows

-----------------------------------------------------------------------------
(* The executor implements Provisioning *)

ChosenView == [j \in Jobs |-> IF disk[j] = None THEN None ELSE disk[j].plan]

ClosedView == [j \in Jobs |-> disk[j] # None /\ disk[j].done]

\* A step that keeps the plan and the completion of every journaled job, adds
\* no job and sends nothing is a stuttering step of Provisioning.
LEMMA ViewsKept ==
    ASSUME \A j \in Jobs : /\ disk'[j] = None <=> disk[j] = None
                           /\ disk[j] # None => disk'[j].plan = disk[j].plan
                                                /\ disk'[j].done = disk[j].done
    PROVE  UNCHANGED <<ChosenView, ClosedView>>
  BY DEF ChosenView, ClosedView

\* Registering a job chooses its plan, or stutters for a known one.
LEMMA StartRefines ==
    ASSUME Consistent, NEW j \in Jobs, NEW p \in Plans, Start(j, p)
    PROVE  Promise!Next \/ UNCHANGED Promise!vars
  <1>1. mem \in [Jobs -> Job \cup {None}] /\ UNCHANGED wire
    BY DEF Consistent, TypeOK, Start
  <1>2. CASE UNCHANGED disk
    BY <1>1, <1>2 DEF Promise!vars
  <1>3. CASE mem = disk /\ disk' = mem'
    <2>1. CASE mem[j] # None
      <3>1. mem' = mem
        BY <1>1, <2>1 DEF Start
      <3> QED
        BY <1>2, <1>3, <3>1
    <2>2. CASE mem[j] = None
      <3>1. /\ disk'[j] = NewJob(p) /\ disk[j] = None
            /\ \A k \in Jobs \ {j} : disk'[k] = disk[k]
        BY <1>1, <1>3, <2>2 DEF Start
      <3>2. NewJob(p) # None /\ NewJob(p).plan = p /\ NewJob(p).done = FALSE
        <4>1. NewJob(p) \in Job
          BY DEF NewJob, Job
        <4> QED
          BY <4>1, NoRecordIsNone DEF NewJob
      <3>3. ChosenView' = [ChosenView EXCEPT ![j] = p] /\ ChosenView[j] = None
        BY <3>1, <3>2 DEF ChosenView
      <3>4. ClosedView' = ClosedView
        BY <3>1, <3>2 DEF ClosedView
      <3>5. Promise!Choose(j, p)
        BY <1>1, <3>3, <3>4 DEF Promise!Choose, ChosenView, ClosedView
      <3> QED
        BY <3>5 DEF Promise!Next
    <2> QED
      BY <2>1, <2>2
  <1> QED
    BY <1>2, <1>3 DEF Start, Persist, Consistent, Durable

\* Sending a mutation is the next emission of Provisioning.
LEMMA SendRefines ==
    ASSUME Consistent, Send
    PROVE  Promise!Next
  <1>1. /\ exec # Idle /\ exec.i \in 1..Len(Steps(plan)) /\ Len(Steps(plan)) \in Nat
        /\ exec.job \in Jobs /\ plan \in Plans /\ mem = disk
        /\ mem[exec.job] # None /\ ~mem[exec.job].done
    BY CurrentStep, Running, StepsType, NoRecordIsNone DEF Send
  <1>2. Len(wire[exec.job]) = exec.i - 1
    BY InDoubt DEF Send
  <1>3. ChosenView[exec.job] = plan /\ plan # None /\ ~ClosedView[exec.job]
    BY <1>1, NoneAssumption DEF ChosenView, ClosedView, plan
  <1>4. UNCHANGED disk
    BY DEF Send, journal
  <1>5. Steps(ChosenView[exec.job])[Len(wire[exec.job]) + 1] = step
    BY <1>1, <1>2, <1>3 DEF step
  <1>6. wire' = [wire EXCEPT ![exec.job] =
                    Append(wire[exec.job],
                           Steps(ChosenView[exec.job])[Len(wire[exec.job]) + 1])]
    BY <1>5 DEF Send
  <1>7. Len(wire[exec.job]) < Len(Steps(ChosenView[exec.job]))
    BY <1>1, <1>2, <1>3
  <1>8. PICK k \in Jobs : k = exec.job
    BY <1>1
  <1>9. Promise!Emit(k)
    BY <1>3, <1>4, <1>6, <1>7, <1>8 DEF Promise!Emit, ChosenView, ClosedView
  <1> QED
    BY <1>9 DEF Promise!Next

\* Marking a job as done closes it, or stutters when the save fails.
LEMMA FinishRefines ==
    ASSUME Consistent, Finish
    PROVE  Promise!Next \/ UNCHANGED Promise!vars
  <1>1. /\ exec # Idle /\ exec.job \in Jobs /\ plan \in Plans /\ mem = disk
        /\ mem[exec.job] \in Job /\ mem[exec.job] # None /\ Len(Steps(plan)) \in Nat
        /\ disk[exec.job].plan = plan
    BY Running, NoRecordIsNone, StepsType DEF Finish, Idle, plan
  <1>2. exec.i = Len(Steps(plan)) + 1
    BY <1>1 DEF Consistent, ExecInv, Finish, plan
  <1>3. PICK m \in 0..Len(Steps(plan)) :
            /\ mem[exec.job].results = FirstSteps(plan, m)
            /\ mem[exec.job].pending = None => Len(wire[exec.job]) = m
            /\ mem[exec.job].pending # None => m < Len(Steps(plan))
    BY <1>1, Running DEF JournalOf, plan
  <1>4. Len(Steps(plan)) <= m
    <2>1. FirstSteps(plan, Len(Steps(plan))) \subseteq FirstSteps(plan, m)
      BY <1>1, <1>2, <1>3, Running
    <2> QED
      BY <1>1, <2>1, FirstStepsOrder
  <1>5. Len(wire[exec.job]) = Len(Steps(plan))
    BY <1>1, <1>3, <1>4
  <1>6. UNCHANGED wire
    BY DEF Finish
  <1>7. CASE UNCHANGED disk
    BY <1>6, <1>7 DEF Promise!vars
  <1>8. CASE disk' = mem'
    <2>1. /\ disk'[exec.job] \in Job /\ disk'[exec.job].plan = plan
          /\ disk'[exec.job].done = TRUE
          /\ \A k \in Jobs \ {exec.job} : disk'[k] = disk[k]
      BY <1>1, <1>8 DEF Finish, Consistent, TypeOK, Job, plan
    <2>2. ChosenView' = ChosenView /\ ChosenView[exec.job] = plan /\ plan # None
      BY <1>1, <2>1, NoRecordIsNone, NoneAssumption DEF ChosenView
    <2>3. ClosedView' = [ClosedView EXCEPT ![exec.job] = TRUE]
      BY <1>1, <2>1, NoRecordIsNone DEF ClosedView
    <2>4. PICK k \in Jobs : k = exec.job
      BY <1>1
    <2>5. Promise!Close(k)
      BY <1>1, <1>5, <1>6, <2>2, <2>3, <2>4 DEF Promise!Close, ChosenView, ClosedView
    <2> QED
      BY <2>5 DEF Promise!Next
  <1> QED
    BY <1>7, <1>8 DEF Finish, Persist

\* The saves in the middle of a call change neither plan nor completion.
LEMMA SavesRefine ==
    ASSUME Consistent, Begin \/ Record \/ Baseline
    PROVE  UNCHANGED Promise!vars
  <1>1. exec # Idle /\ mem = disk /\ exec.job \in Jobs /\ mem[exec.job] \in Job
    BY CurrentStep, Running DEF Begin, Record, Baseline
  <1>2. UNCHANGED wire
    BY DEF Begin, Record, Baseline
  <1>3. UNCHANGED disk \/ disk' = mem'
    BY DEF Begin, Record, Baseline, Persist, journal
  <1>4. CASE UNCHANGED disk
    BY <1>2, <1>4 DEF Promise!vars
  <1>5. CASE disk' = mem' /\ disk' # disk
    <2>1. \A k \in Jobs \ {exec.job} : disk'[k] = disk[k]
      BY <1>1, <1>5 DEF Begin, Record, Baseline, Consistent, TypeOK, journal
    <2>2. disk'[exec.job].plan = disk[exec.job].plan
          /\ disk'[exec.job].done = disk[exec.job].done
      <3>1. CASE Begin
        BY <1>1, <1>5, <3>1 DEF Begin, Consistent, TypeOK, Job
      <3>2. CASE Record
        <4> PICK valid \in BOOLEAN :
            mem' = [mem EXCEPT
                     ![exec.job].results = @ \cup {step},
                     ![exec.job].unusable = IF valid THEN @ ELSE @ \cup {step},
                     ![exec.job].pending = None]
          BY <3>2 DEF Record
        <4> QED
          BY <1>1, <1>5 DEF Consistent, TypeOK, Job
      <3>3. CASE Baseline
        BY <1>1, <1>5, <3>3 DEF Baseline, Consistent, TypeOK, Job, journal
      <3> QED
        BY <3>1, <3>2, <3>3
    <2>3. disk'[exec.job] # None
      BY <1>1, NextConsistent, DiskStep, NoRecordIsNone DEF Next, Deploy, Grows
    <2>4. UNCHANGED <<ChosenView, ClosedView>>
      BY <1>1, <2>1, <2>2, <2>3, NoRecordIsNone, ViewsKept
    <2> QED
      BY <1>2, <2>4 DEF Promise!vars, ChosenView, ClosedView
  <1> QED
    BY <1>3, <1>4, <1>5

\* The executor with its journal, crashes and unreliable host does exactly what
\* the abstract specification Provisioning allows.
THEOREM SpecImplementsProvisioning == Spec => ImplementsProvisioning
  <1>1. Init => Promise!Init
    BY DEF Init, Promise!Init
  <1>2. Consistent /\ [Next]_vars => [Promise!Next]_Promise!vars
    <2> SUFFICES ASSUME Consistent, [Next]_vars
                 PROVE  Promise!Next \/ UNCHANGED Promise!vars
      OBVIOUS
    <2>1. CASE UNCHANGED <<disk, wire>>
      BY <2>1 DEF Promise!vars
    <2>2. OtherSave \/ Restart \/ Host \/ UNCHANGED vars => UNCHANGED <<disk, wire>>
      BY DEF OtherSave, Persist, Consistent, Durable, Restart, Host, HostApply, HostDrop,
             HostFloor, HostShow, UserAdds, UserImports, journal, vars
    <2>3. Prepare \/ Replay \/ Blocked \/ AwaitFloor \/ Abandon => UNCHANGED <<disk, wire>>
      BY DEF Prepare, Replay, Blocked, AwaitFloor, Abandon, journal
    <2> QED
      BY <2>1, <2>2, <2>3, StartRefines, SendRefines, FinishRefines, SavesRefine
         DEF Next, Deploy
  <1> QED
    BY <1>1, <1>2, SpecConsistent, PTL DEF Spec, ImplementsProvisioning, Promise!Spec

-----------------------------------------------------------------------------
(* A floor before what stands on it, a baseline without one's own nodes *)

\* What a mutation that goes out adds to the wire.
LEMMA Sending ==
    ASSUME Consistent, Send
    PROVE  /\ exec # Idle /\ exec.job \in Jobs /\ mem = disk /\ plan \in Plans /\ disk[exec.job] # None
           /\ plan = disk[exec.job].plan
           /\ exec.i \in 1..Len(Steps(plan)) /\ step \in Step
           /\ Len(wire[exec.job]) = exec.i - 1
           /\ \A i \in 1..Len(wire[exec.job]) : wire[exec.job][i] = Steps(plan)[i]
           /\ Len(wire'[exec.job]) = exec.i
           /\ \A i \in 1..Len(wire[exec.job]) : wire'[exec.job][i] = wire[exec.job][i]
           /\ wire'[exec.job][exec.i] = step
           /\ \A j \in Jobs \ {exec.job} : wire'[j] = wire[j]
  <1>1. /\ exec # Idle /\ exec.i \in 1..Len(Steps(plan)) /\ step \in Step
    BY CurrentStep DEF Send
  <1>2. /\ exec.job \in Jobs /\ mem = disk /\ plan \in Plans /\ plan = disk[exec.job].plan
        /\ disk[exec.job] # None
    BY <1>1, Running, NoRecordIsNone DEF plan
  <1>3. wire[exec.job] \in Seq(Step) /\ Len(wire[exec.job]) = exec.i - 1
    BY <1>1, <1>2 DEF Send, Consistent, ExecInv, TypeOK
  <1>4. \A i \in 1..Len(wire[exec.job]) : wire[exec.job][i] = Steps(plan)[i]
    BY <1>2, <1>3 DEF Consistent, NoReplay
  <1>5. /\ wire'[exec.job] = Append(wire[exec.job], step)
        /\ \A j \in Jobs \ {exec.job} : wire'[j] = wire[j]
    BY <1>2 DEF Send, Consistent, TypeOK
  <1> QED
    BY <1>1, <1>2, <1>3, <1>4, <1>5, StepsType

\* A step leaves the wire and the requests on their way alone, or sends, or is
\* the host's.
LEMMA OthersLeaveTheHost ==
    ASSUME Next, ~Send, ~Host
    PROVE  UNCHANGED <<wire, host>>
  BY DEF Next, Deploy, Start, Prepare, Replay, Blocked, Begin, Record, AwaitFloor, Baseline, Finish,
         Abandon, OtherSave, Restart

\* What was sent stays sent.
LEMMA SentGrows ==
    ASSUME Consistent, [Next]_vars, NEW j \in Jobs, NEW s, NEW i \in 1..Len(wire[j]), wire[j][i] = s
    PROVE  i \in 1..Len(wire'[j]) /\ wire'[j][i] = s
  <1>1. CASE Send
    <2>1. CASE j = exec.job
      BY <1>1, <2>1, Sending, StepsType
    <2> QED
      BY <1>1, <2>1, Sending
  <1>2. CASE ~Send
    <2>1. wire' = wire
      BY <1>2, OthersLeaveTheHost DEF Host, HostApply, HostDrop, HostFloor, HostShow, UserAdds,
         UserImports, vars
    <2> QED
      BY <2>1
  <1> QED
    BY <1>1, <1>2

\* What is on its way or carried out was sent.
SentAll(F, w) == \A js \in F : \E i \in 1..Len(w[js[1]]) : w[js[1]][i] = js[2]

\* What was sent stays sent.
LEMMA SentAllKept ==
    ASSUME Consistent, [Next]_vars, NEW F \in SUBSET (Jobs \X Step), SentAll(F, wire)
    PROVE  SentAll(F, wire')
  <1> SUFFICES ASSUME NEW js \in F
               PROVE  \E i \in 1..Len(wire'[js[1]]) : wire'[js[1]][i] = js[2]
    BY DEF SentAll
  <1>1. js[1] \in Jobs
    OBVIOUS
  <1>2. PICK i \in 1..Len(wire[js[1]]) : wire[js[1]][i] = js[2]
    BY DEF SentAll
  <1>3. i \in 1..Len(wire'[js[1]]) /\ wire'[js[1]][i] = js[2]
    BY <1>1, <1>2, SentGrows
  <1> QED
    BY <1>3

\* The same for the requests of the next state.
LEMMA SentHost ==
    /\ (\A js \in flight \cup applied : Sent(js[1], js[2])) <=> SentAll(flight \cup applied, wire)
    /\ (\A js \in flight \cup applied : Sent(js[1], js[2]))' <=> SentAll(flight' \cup applied', wire')
  BY DEF Sent, SentAll

\* A mutation goes out once and is taken from the network when the host acts on
\* it, so the host acts on it once.
LEMMA HostInvKept ==
    ASSUME Consistent, HostInv, [Next]_vars
    PROVE  HostInv'
  <1>0. /\ flight \in SUBSET (Jobs \X Step) /\ applied \in SUBSET (Jobs \X Step)
        /\ floors \in [Jobs -> {"none", "pending", "ready", "failed"}]
        /\ SentAll(flight \cup applied, wire) /\ SentAll(flight \cup applied, wire')
    <2>1. flight \in SUBSET (Jobs \X Step) /\ applied \in SUBSET (Jobs \X Step)
          /\ floors \in [Jobs -> {"none", "pending", "ready", "failed"}]
      BY DEF Consistent, TypeOK
    <2>2. SentAll(flight \cup applied, wire)
      BY SentHost DEF HostInv
    <2> QED
      BY <2>1, <2>2, SentAllKept
  <1>1. CASE Send
    <2>1. applied' = applied /\ floors' = floors /\ flight' = flight \cup {<<exec.job, step>>}
      BY <1>1 DEF Send
    <2>2. exec.i \in 1..Len(wire'[exec.job]) /\ wire'[exec.job][exec.i] = step
      BY <1>1, Sending, StepsType
    <2>3. SentAll(flight' \cup applied', wire')
      BY <1>0, <2>1, <2>2 DEF SentAll
    <2>4. <<exec.job, step>> \notin applied
      <3> SUFFICES ASSUME <<exec.job, step>> \in applied PROVE FALSE
        OBVIOUS
      <3>1. PICK i \in 1..Len(wire[exec.job]) : wire[exec.job][i] = step
        BY <1>0 DEF SentAll
      <3>2. Steps(plan)[i] = Steps(plan)[exec.i] /\ i \in 1..Len(Steps(plan)) /\ i < exec.i
        BY <1>1, <3>1, Sending, StepsType DEF step
      <3> QED
        BY <1>1, <3>2, Sending, StepsAssumption
    <2> QED
      BY <2>1, <2>3, <2>4, SentHost DEF HostInv
  <1>2. CASE Host
    <2>1. CASE \E js \in flight : HostApply(js[1], js[2])
      <3>1. PICK js \in flight : HostApply(js[1], js[2])
        BY <2>1
      <3>2. js = <<js[1], js[2]>> /\ js[1] \in Jobs /\ js[2] \in Step
        BY <1>0
      <3>3. /\ flight' = flight \ {js} /\ applied' = applied \cup {js}
            /\ floors' = IF js[2].op = "floor" THEN [floors EXCEPT ![js[1]] = "pending"] ELSE floors
        BY <3>1, <3>2 DEF HostApply
      <3>4. SentAll(flight' \cup applied', wire')
        BY <1>0, <3>3 DEF SentAll
      <3>5. \A j \in Jobs : floors'[j] # "none" =>
                \E ks \in applied' : ks[1] = j /\ ks[2].op = "floor"
        BY <1>0, <3>2, <3>3 DEF HostInv
      <3> QED
        BY <3>3, <3>4, <3>5, SentHost DEF HostInv
    <2>2. CASE \E js \in flight : HostDrop(js[1], js[2])
      <3>1. PICK js \in flight : HostDrop(js[1], js[2])
        BY <2>2
      <3>2. flight' \subseteq flight /\ applied' = applied /\ floors' = floors
        BY <3>1 DEF HostDrop
      <3>3. SentAll(flight' \cup applied', wire')
        BY <1>0, <3>2 DEF SentAll
      <3> QED
        BY <3>2, <3>3, SentHost DEF HostInv
    <2>3. CASE \E j \in Jobs : HostFloor(j)
      <3>1. PICK j \in Jobs : HostFloor(j)
        BY <2>3
      <3>2. /\ flight' = flight /\ applied' = applied /\ floors[j] = "pending"
            /\ \A k \in Jobs : floors'[k] # "none" => floors[k] # "none"
        BY <1>0, <3>1 DEF HostFloor
      <3> QED
        BY <1>0, <3>2, SentHost DEF HostInv
    <2>4. CASE UNCHANGED <<flight, applied, floors>>
      BY <1>0, <2>4, SentHost DEF HostInv
    <2> QED
      BY <1>2, <2>1, <2>2, <2>3, <2>4 DEF Host, HostShow, UserAdds, UserImports
  <1>3. CASE ~Send /\ ~Host
    <2>1. UNCHANGED <<flight, applied, floors>>
      BY <1>3, OthersLeaveTheHost DEF host, vars
    <2> QED
      BY <1>0, <2>1, SentHost DEF HostInv
  <1> QED
    BY <1>1, <1>2, <1>3

\* A ready floor stays ready: its mutation, the only one of the plan that
\* touches it, was carried out already.
LEMMA ReadyStays ==
    ASSUME Consistent, HostInv, [Next]_vars, NEW j \in Jobs, floors[j] = "ready"
    PROVE  floors'[j] = "ready"
  <1>0. /\ flight \in SUBSET (Jobs \X Step) /\ applied \in SUBSET (Jobs \X Step)
        /\ floors \in [Jobs -> {"none", "pending", "ready", "failed"}]
    BY DEF Consistent, TypeOK
  <1>1. CASE \E js \in flight : HostApply(js[1], js[2])
    <2>1. PICK js \in flight : HostApply(js[1], js[2])
      BY <1>1
    <2>2. ASSUME js[1] = j, js[2].op = "floor" PROVE FALSE
      <3>1. PICK ks \in applied : ks[1] = j /\ ks[2].op = "floor"
        BY DEF HostInv
      <3>2. /\ js = <<j, js[2]>> /\ ks = <<j, ks[2]>> /\ js # ks
        BY <1>0, <2>2, <3>1 DEF HostInv
      <3>3. SentAll(flight \cup applied, wire)
        BY SentHost DEF HostInv
      <3>4. PICK i \in 1..Len(wire[j]) : wire[j][i] = js[2]
        BY <2>2, <3>3 DEF SentAll
      <3>5. PICK k \in 1..Len(wire[j]) : wire[j][k] = ks[2]
        BY <3>1, <3>3 DEF SentAll
      <3>6. wire[j] # <<>> /\ wire[j] \in Seq(Step)
        BY <3>4 DEF Consistent, TypeOK
      <3>7. /\ disk[j] # None /\ disk[j].plan \in Plans
            /\ i \in 1..Len(Steps(disk[j].plan)) /\ Steps(disk[j].plan)[i] = js[2]
            /\ k \in 1..Len(Steps(disk[j].plan)) /\ Steps(disk[j].plan)[k] = ks[2]
        <4>1. disk[j] # None /\ Len(wire[j]) <= Len(Steps(disk[j].plan))
              /\ \A n \in 1..Len(wire[j]) : wire[j][n] = Steps(disk[j].plan)[n]
          BY <3>6 DEF Consistent, NoReplay
        <4>2. disk[j].plan \in Plans
          BY <4>1 DEF Consistent, TypeOK, Job
        <4> QED
          BY <3>4, <3>5, <3>6, <4>1, <4>2, StepsType
      <3>8. i = k
        BY <2>2, <3>1, <3>7, ShapeAssumption
      <3> QED
        BY <3>2, <3>7, <3>8
    <2> QED
      BY <1>0, <2>1, <2>2 DEF HostApply
  <1>2. CASE \E k \in Jobs : HostFloor(k)
    BY <1>0, <1>2 DEF HostFloor
  <1>3. CASE UNCHANGED floors
    BY <1>3
  <1>4. CASE Host
    BY <1>1, <1>2, <1>3, <1>4 DEF Host, HostDrop, HostShow, UserAdds, UserImports
  <1>5. CASE ~Host
    BY <1>3, <1>5, OthersLeaveTheHost DEF Send, host, vars
  <1> QED
    BY <1>4, <1>5

\* Where a running call comes from: its start, or the same call at the same
\* mutation or the next one; past the floor mutation with the floor ready.
LEMMA ExecMoves ==
    ASSUME Consistent, [Next]_vars, exec' # Idle
    PROVE  \/ exec'.i = 1
           \/ /\ exec # Idle /\ exec'.job = exec.job /\ plan' = plan
              /\ \/ exec'.i = exec.i
                 \/ /\ exec'.i = exec.i + 1 /\ exec.i \in 1..Len(Steps(plan))
                    /\ step.op = "floor" => floors[exec.job] = "ready"
  <1>1. CASE \E j \in Jobs, p \in Plans : Start(j, p)
    BY <1>1 DEF Start
  <1>2. CASE Prepare
    BY <1>2 DEF Prepare, GoTo
  <1>3. CASE Replay \/ Begin \/ Send \/ Record \/ AwaitFloor \/ Baseline
    <2>1. exec # Idle /\ exec.i \in 1..Len(Steps(plan)) /\ exec.job \in Jobs
      BY <1>3, CurrentStep, Running DEF Replay, Begin, Send, Record, AwaitFloor, Baseline
    <2>2. mem[exec.job] \in Job /\ plan \in Plans /\ exec \in [job : Jobs \cup {None}, at : Phases, i : Nat]
          /\ mem \in [Jobs -> Job \cup {None}]
      BY <2>1, Running DEF Consistent, TypeOK
    <2>3. /\ After(exec.job, plan, exec.i).job = exec.job
          /\ \/ After(exec.job, plan, exec.i).i = exec.i
             \/ After(exec.job, plan, exec.i).i = exec.i + 1 /\ step.op # "floor"
      BY <2>1, <2>2 DEF After, GoTo, step
    <2>4. CASE Replay
      <3>1. exec' = After(exec.job, plan, exec.i) /\ mem' = mem
        BY <2>4 DEF Replay, journal
      <3> QED
        BY <2>1, <2>3, <3>1 DEF plan
    <2>5. CASE Begin
      <3>1. exec' = [exec EXCEPT !.at = "send"] /\ mem' = [mem EXCEPT ![exec.job].pending = step]
        BY <2>5 DEF Begin
      <3>2. exec'.job = exec.job /\ exec'.i = exec.i /\ mem'[exec.job].plan = mem[exec.job].plan
        BY <2>1, <2>2, <3>1 DEF Job
      <3> QED
        BY <2>1, <3>2 DEF plan
    <2>6. CASE Send
      <3>1. exec' = [exec EXCEPT !.at = "sent"] /\ mem' = mem
        BY <2>6 DEF Send, journal
      <3> QED
        BY <2>1, <2>2, <3>1 DEF plan
    <2>7. CASE Record
      <3>1. /\ exec' = After(exec.job, plan, exec.i)
            /\ mem'[exec.job].plan = mem[exec.job].plan
        BY <2>1, <2>2, <2>7 DEF Record, Job
      <3> QED
        BY <2>1, <2>3, <3>1 DEF plan
    <2>8. CASE AwaitFloor
      <3>1. exec' = GoTo(exec.job, plan, exec.i + 1) /\ mem' = mem /\ floors[exec.job] = "ready"
        BY <2>8 DEF AwaitFloor, journal
      <3>2. exec'.job = exec.job /\ exec'.i = exec.i + 1
        BY <3>1 DEF GoTo
      <3> QED
        BY <2>1, <3>1, <3>2 DEF plan
    <2>9. CASE Baseline
      <3>1. /\ exec' = [exec EXCEPT !.at = "step"]
            /\ mem'[exec.job].plan = mem[exec.job].plan
        BY <2>1, <2>2, <2>9 DEF Baseline, Job, journal
      <3> QED
        BY <2>1, <2>2, <3>1 DEF plan
    <2> QED
      BY <1>3, <2>4, <2>5, <2>6, <2>7, <2>8, <2>9
  <1>4. CASE Blocked \/ Abandon \/ Finish \/ Restart
    BY <1>4 DEF Blocked, Abandon, Finish, Restart
  <1>5. CASE OtherSave \/ Host \/ UNCHANGED vars
    <2>1. UNCHANGED <<mem, exec>>
      BY <1>5 DEF OtherSave, Host, HostApply, HostDrop, HostFloor, HostShow, UserAdds, UserImports,
                  journal, vars
    <2> QED
      BY <2>1 DEF plan
  <1> QED
    BY <1>1, <1>2, <1>3, <1>4, <1>5 DEF Next, Deploy

\* A call passes the floor mutation only with the floor ready, also when its
\* answer comes from the journal (Deploy, 231-255).
LEMMA PastFloorKept ==
    ASSUME Consistent, HostInv, PastFloor, [Next]_vars
    PROVE  PastFloor'
  <1> SUFFICES ASSUME exec' # Idle, NEW k \in 1..(exec'.i - 1),
                      Steps(plan')[k].op = "floor"
               PROVE  floors'[exec'.job] = "ready"
    BY DEF PastFloor
  <1>1. CASE exec'.i = 1
    BY <1>1
  <1>2. CASE /\ exec # Idle /\ exec'.job = exec.job /\ plan' = plan
             /\ \/ exec'.i = exec.i
                \/ /\ exec'.i = exec.i + 1 /\ exec.i \in 1..Len(Steps(plan))
                   /\ step.op = "floor" => floors[exec.job] = "ready"
    <2>1. exec.job \in Jobs /\ exec.i \in Nat
      BY <1>2, Running, StepsType
    <2>2. CASE k \in 1..(exec.i - 1)
      <3>1. floors[exec.job] = "ready"
        BY <1>2, <2>2 DEF PastFloor
      <3> QED
        BY <1>2, <2>1, <3>1, ReadyStays
    <2>3. CASE k = exec.i /\ exec'.i = exec.i + 1
      <3>1. floors[exec.job] = "ready"
        BY <1>2, <2>1, <2>3 DEF step
      <3> QED
        BY <1>2, <2>1, <3>1, ReadyStays
    <2> QED
      BY <1>2, <2>1, <2>2, <2>3
  <1> QED
    BY <1>1, <1>2, ExecMoves

\* A mutation is sent behind a floor mutation only with the floor ready.
LEMMA FloorFirstKept ==
    ASSUME Consistent, HostInv, PastFloor, FloorBeforeNodes, [Next]_vars
    PROVE  FloorBeforeNodes'
  <1> SUFFICES ASSUME NEW j \in Jobs, NEW i \in 1..Len(wire'[j]), NEW k \in 1..(i - 1),
                      wire'[j][k].op = "floor"
               PROVE  floors'[j] = "ready"
    BY DEF FloorBeforeNodes
  <1>1. CASE wire'[j] = wire[j]
    <2>1. floors[j] = "ready"
      BY <1>1 DEF FloorBeforeNodes
    <2> QED
      BY <2>1, ReadyStays
  <1>2. CASE Send /\ j = exec.job
    <2>1. i \in 1..exec.i /\ k \in 1..(exec.i - 1) /\ wire[j][k] = Steps(plan)[k]
          /\ wire'[j][k] = wire[j][k] /\ exec # Idle
      BY <1>2, Sending, StepsType
    <2>2. floors[j] = "ready"
      BY <1>2, <2>1 DEF PastFloor
    <2> QED
      BY <2>2, ReadyStays
  <1>3. CASE Send /\ j # exec.job
    BY <1>1, <1>3, Sending
  <1>4. CASE ~Send
    <2>1. wire' = wire
      BY <1>4, OthersLeaveTheHost DEF Host, HostApply, HostDrop, HostFloor, HostShow, UserAdds,
         UserImports, vars
    <2> QED
      BY <1>1, <2>1
  <1> QED
    BY <1>2, <1>3, <1>4

\* No node, frame, role or edge of a job leaves before the host has reported
\* the floor it asked for as ready, over crashes, resumes and replayed answers
\* (Deploy, 231-255).
THEOREM SpecFloorBeforeNodes == Spec => []FloorBeforeNodes
  <1>1. Init => FloorInv
    <2> SUFFICES ASSUME Init PROVE FloorInv
      OBVIOUS
    <2> QED
      BY DEF Init, FloorInv, HostInv, PastFloor, FloorBeforeNodes
  <1>2. Consistent /\ FloorInv /\ [Next]_vars => FloorInv'
    BY HostInvKept, PastFloorKept, FloorFirstKept DEF FloorInv
  <1>3. FloorInv => FloorBeforeNodes
    BY DEF FloorInv
  <1> QED
    BY <1>1, <1>2, <1>3, SpecConsistent, PTL DEF Spec

\* A control point computed by GoTo is a baseline exactly for a partitura.
LEMMA GoToPartitura ==
    ASSUME NEW j, NEW p, NEW i
    PROVE  /\ GoTo(j, p, i).at = "baseline" => Steps(p)[i].op = "partitura"
           /\ GoTo(j, p, i).at = "step" => Steps(p)[i].op # "partitura"
           /\ GoTo(j, p, i).at \notin {"send", "sent"}
           /\ GoTo(j, p, i).i = i /\ GoTo(j, p, i).job = j
  BY DEF GoTo

\* The same after an answer.
LEMMA AfterPartitura ==
    ASSUME NEW j, NEW p, NEW i
    PROVE  /\ After(j, p, i).at = "baseline" => Steps(p)[After(j, p, i).i].op = "partitura"
           /\ After(j, p, i).at = "step" => Steps(p)[After(j, p, i).i].op # "partitura"
           /\ After(j, p, i).at \notin {"send", "sent"}
           /\ After(j, p, i).job = j
  BY GoToPartitura DEF After

\* A partitura is begun and sent only behind its baseline (step, 258-262).
LEMMA AtPartituraKept ==
    ASSUME Consistent, AtPartitura, [Next]_vars
    PROVE  AtPartitura'
  <1>1. CASE \E j \in Jobs, p \in Plans : Start(j, p)
    BY <1>1 DEF Start, AtPartitura, Idle
  <1>2. CASE Prepare
    <2>1. exec' = GoTo(exec.job, plan, 1) /\ mem' = mem
      BY <1>2 DEF Prepare, journal
    <2>2. /\ exec'.job = exec.job /\ exec'.i = 1 /\ exec'.at \notin {"send", "sent"}
          /\ exec'.at = "baseline" => Steps(plan)[exec'.i].op = "partitura"
          /\ exec'.at = "step" => Steps(plan)[exec'.i].op # "partitura"
      BY <2>1, GoToPartitura
    <2> QED
      BY <2>1, <2>2 DEF AtPartitura, step, plan
  <1>3. CASE Replay \/ Begin \/ Send \/ Record \/ AwaitFloor \/ Baseline
    <2>1. exec # Idle /\ exec.i \in 1..Len(Steps(plan)) /\ exec.job \in Jobs
      BY <1>3, CurrentStep, Running DEF Replay, Begin, Send, Record, AwaitFloor, Baseline
    <2>2. mem[exec.job] \in Job /\ plan \in Plans /\ exec \in [job : Jobs \cup {None}, at : Phases, i : Nat]
          /\ mem \in [Jobs -> Job \cup {None}]
      BY <2>1, Running DEF Consistent, TypeOK
    <2>3. CASE exec' = Idle
      BY <2>3 DEF AtPartitura, Idle
    <2>4. CASE Replay /\ exec' # Idle
      <3>1. exec' = After(exec.job, plan, exec.i) /\ mem' = mem
        BY <2>4 DEF Replay, journal
      <3>2. PICK j, p, i : j = exec.job /\ p = plan /\ i = exec.i
        OBVIOUS
      <3>3. /\ exec'.at = "baseline" => Steps(p)[exec'.i].op = "partitura"
            /\ exec'.at = "step" => Steps(p)[exec'.i].op # "partitura"
            /\ exec'.at \notin {"send", "sent"} /\ exec'.job = j
        BY <3>1, <3>2, AfterPartitura
      <3>4. mem'[exec'.job].plan = p
        BY <3>1, <3>2, <3>3 DEF plan
      <3> QED
        BY <3>3, <3>4 DEF AtPartitura, step, plan
    <2>5. CASE Begin /\ exec' # Idle
      <3>1. exec' = [exec EXCEPT !.at = "send"] /\ mem' = [mem EXCEPT ![exec.job].pending = step]
        BY <2>5 DEF Begin
      <3>2. /\ exec'.job = exec.job /\ exec'.i = exec.i /\ exec'.at = "send"
            /\ mem'[exec.job].plan = mem[exec.job].plan
            /\ mem'[exec.job].before = mem[exec.job].before
        BY <2>1, <2>2, <3>1 DEF Job
      <3> QED
        BY <2>5, <3>2 DEF AtPartitura, Begin, step, plan
    <2>6. CASE Send
      <3>1. exec'.job = exec.job /\ exec'.i = exec.i /\ exec'.at = "sent" /\ mem' = mem
        BY <2>2, <2>6 DEF Send, journal
      <3> QED
        BY <2>6, <3>1 DEF AtPartitura, Send, step, plan
    <2>7. CASE Record /\ exec' # Idle
      <3>1. /\ exec' = After(exec.job, plan, exec.i)
            /\ mem'[exec.job].plan = mem[exec.job].plan
        BY <2>1, <2>2, <2>7 DEF Record, Job
      <3>2. PICK j, p, i : j = exec.job /\ p = plan /\ i = exec.i
        OBVIOUS
      <3>3. /\ exec'.at = "baseline" => Steps(p)[exec'.i].op = "partitura"
            /\ exec'.at = "step" => Steps(p)[exec'.i].op # "partitura"
            /\ exec'.at \notin {"send", "sent"} /\ exec'.job = j
        BY <3>1, <3>2, AfterPartitura
      <3>4. mem'[exec'.job].plan = p
        BY <3>1, <3>2, <3>3 DEF plan
      <3> QED
        BY <3>3, <3>4 DEF AtPartitura, step, plan
    <2>8. CASE AwaitFloor /\ exec' # Idle
      <3>1. exec' = GoTo(exec.job, plan, exec.i + 1) /\ mem' = mem
        BY <2>8 DEF AwaitFloor, journal
      <3>2. /\ exec'.job = exec.job /\ exec'.i = exec.i + 1 /\ exec'.at \notin {"send", "sent"}
            /\ exec'.at = "baseline" => Steps(plan)[exec'.i].op = "partitura"
            /\ exec'.at = "step" => Steps(plan)[exec'.i].op # "partitura"
        BY <3>1, GoToPartitura
      <3> QED
        BY <3>1, <3>2 DEF AtPartitura, step, plan
    <2>9. CASE Baseline /\ exec' # Idle
      <3>1. /\ exec'.job = exec.job /\ exec'.i = exec.i /\ exec'.at = "step"
            /\ \/ mem' = mem /\ mem[exec.job].before # None
               \/ mem' = [mem EXCEPT ![exec.job].before = OnCanvas(Place(exec.job, plan))]
        BY <2>2, <2>9 DEF Baseline, journal
      <3>2. mem'[exec.job].before # None
        <4>1. OnCanvas(Place(exec.job, plan)) # None
          BY <2>2, NoSnapshotIsNone DEF OnCanvas, Consistent, TypeOK, Snapshot
        <4> QED
          BY <2>1, <2>2, <3>1, <4>1 DEF Job
      <3> QED
        BY <3>1, <3>2 DEF AtPartitura
    <2> QED
      BY <1>3, <2>3, <2>4, <2>5, <2>6, <2>7, <2>8, <2>9
  <1>4. CASE Blocked \/ Abandon \/ Finish \/ Restart
    BY <1>4 DEF Blocked, Abandon, Finish, Restart, AtPartitura, Idle
  <1>5. CASE OtherSave \/ Host \/ UNCHANGED vars
    <2>1. UNCHANGED <<mem, exec>>
      BY <1>5 DEF OtherSave, Host, HostApply, HostDrop, HostFloor, HostShow, UserAdds, UserImports,
                  journal, vars
    <2> QED
      BY <2>1 DEF AtPartitura, step, plan
  <1> QED
    BY <1>1, <1>2, <1>3, <1>4, <1>5 DEF Next, Deploy

\* The baseline of a partitura that was sent is on disk and stays there.
LEMMA BaselineFirstKept ==
    ASSUME Consistent, AtPartitura, BaselineFirst, [Next]_vars
    PROVE  BaselineFirst'
  <1> SUFFICES ASSUME NEW j \in Jobs, NEW i \in 1..Len(wire'[j]), wire'[j][i].op = "partitura"
               PROVE  disk'[j].before # None
    BY DEF BaselineFirst
  <1>1. CASE i \in 1..Len(wire[j]) /\ wire'[j][i] = wire[j][i]
    <2>1. wire[j] # <<>> /\ disk[j].before # None
      BY <1>1 DEF BaselineFirst
    <2>2. disk[j] # None
      BY <2>1 DEF Consistent, NoReplay
    <2> QED
      BY <2>1, <2>2, DiskStep DEF Grows
  <1>2. CASE Send
    <2>1. CASE j = exec.job /\ i = exec.i
      <3>1. step.op = "partitura" /\ mem[exec.job].before # None /\ mem = disk
        BY <1>2, <2>1, Sending DEF AtPartitura, Send
      <3> QED
        BY <1>2, <2>1, <3>1 DEF Send, journal
    <2> QED
      BY <1>1, <1>2, <2>1, Sending, StepsType
  <1>3. CASE ~Send
    <2>1. wire' = wire
      BY <1>3, OthersLeaveTheHost DEF Host, HostApply, HostDrop, HostFloor, HostShow, UserAdds,
         UserImports, vars
    <2> QED
      BY <1>1, <2>1
  <1> QED
    BY <1>2, <1>3

\* A node appears for a mutation that was carried out, or comes from the people.
LEMMA NodesAreMadeKept ==
    ASSUME NodesAreMade, [Next]_vars
    PROVE  NodesAreMade'
  <1>1. applied \subseteq applied'
    BY AppliedGrows
  <1>2. CASE canvas' = canvas
    BY <1>1, <1>2 DEF NodesAreMade
  <1>3. CASE \E j \in Jobs : \E n \in 1..80 : HostShow(j, n)
    <2>1. PICK j \in Jobs, n \in 1..80 : HostShow(j, n)
      BY <1>3
    <2>2. /\ canvas' = canvas \cup {NodeOf(j, disk[j].plan, n)} /\ applied' = applied
          /\ NodeOf(j, disk[j].plan, n).job = j
          /\ \E js \in applied : js[1] = j /\ js[2].op \in {"node", "partitura"}
      BY <2>1 DEF HostShow, NodeOf
    <2> QED
      BY <2>2 DEF NodesAreMade
  <1>4. CASE \E u \in UserNodes : UserAdds(u)
    BY <1>1, <1>4, UserNodesAssumption DEF NodesAreMade, UserAdds
  <1>5. CASE Host
    BY <1>2, <1>3, <1>4, <1>5 DEF Host, HostApply, HostDrop, HostFloor, UserImports
  <1>6. CASE ~Host
    BY <1>2, <1>6, OthersLeaveTheHost DEF Send, host, vars
  <1> QED
    BY <1>5, <1>6

\* When the canvas is remembered the job has made none of its nodes: they come
\* from the partitura, which is not sent yet.
LEMMA NothingMadeYet ==
    ASSUME Consistent, HostInv, AtPartitura, BaselineFirst, NodesAreMade,
           exec.at = "baseline", mem[exec.job].before = None
    PROVE  \A n \in canvas : n.job # exec.job
  <1> SUFFICES ASSUME NEW n \in canvas, n.job = exec.job PROVE FALSE
    OBVIOUS
  <1>1. /\ exec # Idle /\ exec.i \in 1..Len(Steps(plan)) /\ exec.job \in Jobs /\ mem = disk
        /\ plan \in Plans /\ plan = disk[exec.job].plan /\ step.op = "partitura"
    BY CurrentStep, Running DEF AtPartitura, plan
  <1>2. PICK js \in applied : js[1] = exec.job /\ js[2].op \in {"node", "partitura"}
    BY <1>1 DEF NodesAreMade
  <1>3. PICK i \in 1..Len(wire[exec.job]) : wire[exec.job][i] = js[2]
    BY <1>2 DEF HostInv, Sent
  <1>4. js[2].op = "node"
    BY <1>1, <1>2, <1>3 DEF BaselineFirst
  <1>5. wire[exec.job] # <<>> /\ wire[exec.job] \in Seq(Step)
    BY <1>1, <1>3 DEF Consistent, TypeOK
  <1>6. i \in 1..Len(Steps(plan)) /\ Steps(plan)[i] = js[2]
    BY <1>1, <1>3, <1>5, StepsType DEF Consistent, NoReplay
  <1> QED
    BY <1>1, <1>4, <1>6, ShapeAssumption DEF step

\* A record in memory has the baseline it had, or the canvas of before.
LEMMA MemForeign ==
    ASSUME Consistent, HostInv, BaselineInv, [Next]_vars, NEW j \in Jobs, mem'[j] # None
    PROVE  Foreign(j, mem'[j])
  <1>1. CASE mem'[j] \in {mem[j], disk[j]}
    BY <1>1 DEF BaselineInv
  <1>2. CASE \E k \in Jobs, p \in Plans : Start(k, p)
    <2>1. PICK k \in Jobs, p \in Plans : Start(k, p)
      BY <1>2
    <2>2. mem'[j] = mem[j] \/ mem'[j] = NewJob(p)
      BY <2>1 DEF Start, Consistent, TypeOK
    <2> QED
      BY <1>1, <2>2 DEF Foreign, NewJob
  <1>3. CASE Begin \/ Record \/ Baseline \/ Finish
    <2>0. exec.at \in {"step", "sent", "baseline", "verify"}
      BY <1>3 DEF Begin, Record, Baseline, Finish
    <2>1. exec # Idle
      BY <2>0 DEF Idle
    <2>2. exec.job \in Jobs /\ mem[exec.job] \in Job /\ mem[exec.job] # None
          /\ mem \in [Jobs -> Job \cup {None}]
      BY <2>1, Running, NoRecordIsNone DEF Consistent, TypeOK
    <2>3. j # exec.job => mem'[j] = mem[j]
      BY <1>3, <2>2 DEF Begin, Record, Baseline, Finish, journal
    <2> SUFFICES ASSUME j = exec.job PROVE Foreign(j, mem'[j])
      BY <1>1, <2>3
    <2>4. CASE mem'[j].before = mem[j].before
      BY <2>2, <2>4 DEF BaselineInv, Foreign
    <2>5. CASE Begin \/ Record \/ Finish
      <3>1. CASE Begin
        BY <2>2, <2>4, <3>1 DEF Begin, Job
      <3>2. CASE Record
        <4>1. mem'[j].before = mem[j].before
          BY <2>2, <3>2 DEF Record, Job
        <4> QED
          BY <2>4, <4>1
      <3>3. CASE Finish
        BY <2>2, <2>4, <3>3 DEF Finish, Job
      <3> QED
        BY <2>5, <3>1, <3>2, <3>3
    <2>6. CASE Baseline
      <3>1. \/ mem'[j] = mem[j]
            \/ mem[j].before = None /\ mem'[j].before = OnCanvas(Place(exec.job, plan))
        BY <2>2, <2>6 DEF Baseline, Job, journal
      <3>2. CASE mem[j].before = None /\ mem'[j].before = OnCanvas(Place(exec.job, plan))
        <4>1. \A n \in canvas : n.job # j
          BY <2>6, <3>2, NothingMadeYet DEF Baseline, BaselineInv
        <4> QED
          BY <3>2, <4>1 DEF Foreign, OnCanvas
      <3> QED
        BY <1>1, <3>1, <3>2
    <2> QED
      BY <1>3, <2>5, <2>6
  <1>4. CASE Prepare \/ Replay \/ Blocked \/ Send \/ AwaitFloor \/ Abandon
    BY <1>1, <1>4 DEF Prepare, Replay, Blocked, Send, AwaitFloor, Abandon, journal
  <1>5. CASE OtherSave \/ Restart \/ UNCHANGED vars
    BY <1>1, <1>5 DEF OtherSave, Restart, vars
  <1>6. CASE Host
    BY <1>1, <1>6 DEF Host, HostApply, HostDrop, HostFloor, HostShow, UserAdds, UserImports, journal
  <1> QED
    BY <1>2, <1>3, <1>4, <1>5, <1>6 DEF Next, Deploy

\* The canvas remembered for a partitura never holds a node of the job, so its
\* verification counts every one, whatever was resumed or lost (native-before).
THEOREM SpecBaselineIsForeign == Spec => []BaselineIsForeign
  <1>1. Init => FloorInv /\ BaselineInv
    <2> SUFFICES ASSUME Init PROVE FloorInv /\ BaselineInv
      OBVIOUS
    <2> QED
      BY DEF Init, Idle, FloorInv, HostInv, PastFloor, FloorBeforeNodes, BaselineInv, AtPartitura,
             BaselineFirst, NodesAreMade
  <1>2. Consistent /\ FloorInv /\ BaselineInv /\ [Next]_vars => (FloorInv /\ BaselineInv)'
    <2> SUFFICES ASSUME Consistent, FloorInv, BaselineInv, [Next]_vars
                 PROVE  (FloorInv /\ BaselineInv)'
      OBVIOUS
    <2>1. FloorInv' /\ HostInv
      BY HostInvKept, PastFloorKept, FloorFirstKept DEF FloorInv
    <2>2. AtPartitura' /\ BaselineFirst' /\ NodesAreMade'
      BY AtPartituraKept, BaselineFirstKept, NodesAreMadeKept DEF BaselineInv
    <2>3. \A j \in Jobs : mem'[j] # None => Foreign(j, mem'[j])
      BY <2>1, MemForeign
    <2>4. \A j \in Jobs : disk'[j] # None => Foreign(j, disk'[j])
      BY <2>3, DiskFollows DEF BaselineInv
    <2> QED
      BY <2>1, <2>2, <2>3, <2>4 DEF BaselineInv, Foreign
  <1>3. BaselineInv => BaselineIsForeign
    BY DEF BaselineInv, Foreign, BaselineIsForeign
  <1> QED
    BY <1>1, <1>2, <1>3, SpecConsistent, PTL DEF Spec
=============================================================================
