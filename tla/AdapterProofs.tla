---------------------------- MODULE AdapterProofs ----------------------------
(* Proofs about the two adapters, for every configuration of them: the     *)
(* call queue of Telegram (TelegramQueue) and the event stream of Herdr    *)
(* with its registry (HerdrStream).                                        *)
EXTENDS TelegramQueue, HerdrStream, TLAPS

-----------------------------------------------------------------------------
(* The call queue.                                                         *)

\* Wrapped indices address the ring.
LEMMA WrapType ==
    ASSUME NEW k \in 0..(2 * WindowLimit - 1)
    PROVE  Wrap(k) \in 0..(WindowLimit - 1)
  BY ConfigAssumption DEF Wrap

\* What pace computes from the ring is a time the history allows.
LEMMA EarliestAllowed ==
    ASSUME BucketInv, NEW t \in Nat, t >= Earliest
    PROVE  Allowed(t)
  <1> USE ConfigAssumption
  <1>1. /\ now \in Nat /\ head \in 0..(WindowLimit - 1) /\ count \in 0..WindowLimit
        /\ attempts \in Seq(Nat) /\ Len(attempts) \in Nat
        /\ stamps \in [0..(WindowLimit - 1) -> Nat] /\ count <= Len(attempts)
    BY DEF BucketInv, TypeOK, RingInv
  <1>2. ASSUME count > 0
        PROVE  LastStamp = attempts[Len(attempts)] /\ LastStamp \in Nat
    <2>1. count - 1 \in 0..(count - 1) /\ head + (count - 1) = head + count - 1
      BY <1>1, <1>2
    <2>2. LastStamp = attempts[Len(attempts) - count + 1 + (count - 1)]
      BY <2>1 DEF LastStamp, BucketInv, RingInv
    <2>3. Len(attempts) - count + 1 + (count - 1) = Len(attempts)
      BY <1>1
    <2>4. Len(attempts) \in 1..Len(attempts)
      BY <1>1, <1>2
    <2> QED
      BY <1>1, <2>2, <2>3, <2>4
  <1>3. ASSUME count = WindowLimit
        PROVE  /\ stamps[head] = attempts[Len(attempts) - WindowLimit + 1]
               /\ stamps[head] \in Nat
    <2>1. 0 \in 0..(count - 1) /\ Wrap(head + 0) = head
      BY <1>1, <1>3 DEF Wrap
    <2>2. stamps[head] = attempts[Len(attempts) - count + 1 + 0]
      BY <2>1 DEF BucketInv, RingInv
    <2> QED
      BY <1>1, <1>3, <2>2
  <1>4. count > 0 => t >= LastStamp + MinGap
    BY <1>1, <1>2, <1>3 DEF Earliest
  <1>5. count = WindowLimit => t >= stamps[head] + Window
    BY <1>1, <1>2, <1>3 DEF Earliest
  <1> QED
    BY <1>1, <1>2, <1>3, <1>4, <1>5 DEF Allowed

\* An attempt at an allowed time extends ring and history and keeps the limits.
LEMMA AttemptKeeps ==
    ASSUME BucketInv, Attempt
    PROVE  BucketInv'
  <1> USE ConfigAssumption
  <1> DEFINE n == Len(attempts)
  <1>1. /\ now \in Nat /\ head \in 0..(WindowLimit - 1) /\ count \in 0..WindowLimit
        /\ attempts \in Seq(Nat) /\ n \in Nat
        /\ stamps \in [0..(WindowLimit - 1) -> Nat] /\ count <= n
    BY DEF BucketInv, TypeOK, RingInv
  <1>2. /\ attempts' = Append(attempts, now) /\ attempts' \in Seq(Nat)
        /\ Len(attempts') = n + 1 /\ attempts'[n + 1] = now
        /\ \A k \in 1..n : attempts'[k] = attempts[k]
    BY <1>1 DEF Attempt, Stamp
  <1>3. Allowed(now)
    BY DEF BucketInv, Attempt
  <1>4. RateLimit'
    <2>1. ASSUME NEW k \in 1..n
          PROVE  attempts'[k + 1] >= attempts'[k] + MinGap
      <3>1. CASE k < n
        BY <1>1, <1>2, <3>1 DEF BucketInv, RateLimit
      <3>2. CASE k = n
        <4>1. count > 0
          BY <1>1, <3>2 DEF BucketInv, RingInv
        <4> QED
          BY <1>1, <1>2, <1>3, <3>2, <4>1 DEF Allowed
      <3> QED
        BY <1>1, <3>1, <3>2
    <2>2. ASSUME NEW k \in 1..(n + 1 - WindowLimit)
          PROVE  attempts'[k + WindowLimit] >= attempts'[k] + Window
      <3>0. k \in Nat /\ WindowLimit \in Nat /\ k + WindowLimit <= n + 1 /\ n \in Nat
        BY <1>1
      <3>1. CASE k + WindowLimit <= n
        BY <1>1, <1>2, <3>1 DEF BucketInv, RateLimit
      <3>2. CASE k + WindowLimit = n + 1
        <4>1. count = WindowLimit
          BY <1>1, <3>2 DEF BucketInv, RingInv
        <4>2. k = n - WindowLimit + 1 /\ k \in 1..n
          BY <1>1, <3>2
        <4> QED
          BY <1>1, <1>2, <1>3, <3>2, <4>1, <4>2 DEF Allowed
      <3>3. k + WindowLimit <= n \/ k + WindowLimit = n + 1
        BY ONLY <3>0
      <3> QED
        BY <3>1, <3>2, <3>3
    <2>3. Len(attempts') - 1 = n /\ Len(attempts') - WindowLimit = n + 1 - WindowLimit
      BY <1>1, <1>2
    <2>4. \A k \in 1..(Len(attempts') - 1) : attempts'[k + 1] >= attempts'[k] + MinGap
      BY <2>1, <2>3
    <2>5. \A k \in 1..(Len(attempts') - WindowLimit) :
            attempts'[k + WindowLimit] >= attempts'[k] + Window
      BY <2>2, <2>3
    <2> QED
      BY <2>4, <2>5 DEF RateLimit
  <1>run. /\ run' \in [at : Working \cup {"idle", "drain", "stopped"},
                       job : Callers \cup {None}, try : Nat, wake : Nat]
          /\ run'.at = "call"
    BY DEF BucketInv, TypeOK, Attempt, Working
  <1>rest. /\ now' \in Nat /\ jobs' \in Seq(Callers)
           /\ caller' \in [Callers -> {"enqueue", "wait"} \cup Outcomes]
           /\ cancelled' \subseteq Callers
           /\ done' \in [Callers -> Outcomes \cup {None}]
           /\ stopping' \in BOOLEAN
    BY DEF BucketInv, TypeOK, Attempt
  <1>5. CASE count = WindowLimit
    <2>1. /\ stamps' = [stamps EXCEPT ![head] = now] /\ head' = Wrap(head + 1)
          /\ count' = count
      BY <1>5 DEF Attempt, Stamp
    <2>2. head' \in 0..(WindowLimit - 1) /\ stamps' \in [0..(WindowLimit - 1) -> Nat]
      BY <1>1, <2>1 DEF Wrap
    <2>3. ASSUME NEW k \in 0..(count - 1)
          PROVE  stamps'[Wrap(head' + k)] = attempts'[(n + 1) - count + 1 + k]
      <3>1. CASE k = count - 1
        <4>1. Wrap(head' + k) = head
          BY <1>1, <1>5, <2>1, <3>1 DEF Wrap
        <4> QED
          BY <1>1, <1>2, <2>1, <3>1, <4>1
      <3>2. CASE k < count - 1
        <4>1. Wrap(head' + k) = Wrap(head + (k + 1)) /\ Wrap(head + (k + 1)) # head
              /\ Wrap(head + (k + 1)) \in 0..(WindowLimit - 1)
          BY <1>1, <1>5, <2>1, <3>2 DEF Wrap
        <4>2. k + 1 \in 0..(count - 1)
          BY <1>1, <3>2
        <4>3. stamps[Wrap(head + (k + 1))] = attempts[n - count + 1 + (k + 1)]
          BY <4>2 DEF BucketInv, RingInv
        <4>4. (n + 1) - count + 1 + k \in 1..n /\ n - count + 1 + (k + 1) = (n + 1) - count + 1 + k
          BY <1>1, <3>2
        <4> QED
          BY <1>1, <1>2, <2>1, <4>1, <4>3, <4>4
      <3> QED
        BY <1>1, <3>1, <3>2
    <2>4. RingInv'
      <3>1. ~(count' < WindowLimit) /\ count' <= Len(attempts')
        BY <1>1, <1>2, <1>5, <2>1
      <3>2. \A k \in 0..(count' - 1) :
              stamps'[Wrap(head' + k)] = attempts'[Len(attempts') - count' + 1 + k]
        BY <1>2, <2>1, <2>3
      <3> QED
        BY <3>1, <3>2 DEF RingInv, Wrap
    <2>5. count' \in 0..WindowLimit
      BY <1>1, <2>1
    <2>6. TypeOK'
      BY <1>run, <1>rest, <1>2, <2>2, <2>5 DEF TypeOK
    <2> QED
      BY <1>4, <1>run, <2>4, <2>6 DEF BucketInv
  <1>6. CASE count # WindowLimit
    <2>1. head = 0 /\ n = count /\ count < WindowLimit
      BY <1>1, <1>6 DEF BucketInv, RingInv
    <2>2. Wrap(head + count) = count
      BY <1>1, <2>1 DEF Wrap
    <2>3. stamps' = [stamps EXCEPT ![count] = now] /\ head' = head /\ count' = count + 1
      BY <1>6, <2>2 DEF Attempt, Stamp
    <2>4. ASSUME NEW k \in 0..count
          PROVE  stamps'[Wrap(head' + k)] = attempts'[(n + 1) - (count + 1) + 1 + k]
      <3>1. Wrap(head' + k) = k /\ (n + 1) - (count + 1) + 1 + k = k + 1
        BY <1>1, <2>1, <2>3 DEF Wrap
      <3>2. CASE k = count
        BY <1>1, <1>2, <2>1, <2>3, <3>1, <3>2
      <3>3. CASE k < count
        <4>1. k \in 0..(count - 1) /\ Wrap(head + k) = k /\ n - count + 1 + k = k + 1
          BY <1>1, <2>1, <3>3 DEF Wrap
        <4>2. stamps[k] = attempts[k + 1]
          BY <4>1 DEF BucketInv, RingInv
        <4> QED
          BY <1>1, <1>2, <2>1, <2>3, <3>1, <3>3, <4>2
      <3> QED
        BY <1>1, <3>2, <3>3
    <2>5. RingInv'
      <3>1. head' = 0 /\ Len(attempts') = count' /\ count' <= Len(attempts')
            /\ count' - 1 = count
        BY <1>1, <1>2, <2>1, <2>3
      <3>2. \A k \in 0..(count' - 1) :
              stamps'[Wrap(head' + k)] = attempts'[Len(attempts') - count' + 1 + k]
        BY <1>2, <2>3, <2>4, <3>1
      <3> QED
        BY <3>1, <3>2 DEF RingInv, Wrap
    <2>6. /\ count' \in 0..WindowLimit /\ head' \in 0..(WindowLimit - 1)
          /\ stamps' \in [0..(WindowLimit - 1) -> Nat]
      BY <1>1, <2>1, <2>3
    <2>7. TypeOK'
      BY <1>run, <1>rest, <1>2, <2>6 DEF TypeOK
    <2> QED
      BY <1>4, <1>run, <2>5, <2>7 DEF BucketInv
  <1> QED
    BY <1>5, <1>6

\* Steps that touch neither the clock nor the bucket keep the invariant, unless
\* they begin a pause or end one.
LEMMA FrameKeeps ==
    ASSUME BucketInv, TypeOK', UNCHANGED <<now, ring, attempts>>,
           run' = run \/ run'.at \notin {"pacing", "ready"}
    PROVE  BucketInv'
  <1>1. /\ now' = now /\ stamps' = stamps /\ head' = head /\ count' = count
        /\ attempts' = attempts
    BY DEF ring
  <1>2. RingInv' /\ RateLimit'
    BY <1>1 DEF BucketInv, RingInv, RateLimit
  <1>3. CASE run' = run
    BY <1>1, <1>2, <1>3 DEF BucketInv, Allowed
  <1>4. CASE run'.at \notin {"pacing", "ready"}
    BY <1>2, <1>4 DEF BucketInv
  <1> QED
    BY <1>3, <1>4

\* The clock moves on: what was allowed stays allowed.
LEMMA TickKeeps ==
    ASSUME BucketInv, Tick
    PROVE  BucketInv'
  <1>1. /\ stamps' = stamps /\ head' = head /\ count' = count
        /\ attempts' = attempts /\ run' = run /\ now' = now + 1
    BY DEF Tick, ring
  <1>2. TypeOK'
    BY <1>1 DEF BucketInv, TypeOK, Tick
  <1>3. RingInv' /\ RateLimit'
    BY <1>1 DEF BucketInv, RingInv, RateLimit
  <1>4. run'.at = "pacing" => Allowed(run.wake)'
    BY <1>1 DEF BucketInv, Allowed
  <1>5. ASSUME run'.at = "ready"
        PROVE  Allowed(now)'
    <2>1. /\ now \in Nat /\ count \in 0..WindowLimit /\ attempts \in Seq(Nat)
          /\ count <= Len(attempts) /\ Len(attempts) \in Nat /\ WindowLimit \in Nat \ {0}
          /\ MinGap \in Nat /\ Window \in Nat
      BY ConfigAssumption DEF BucketInv, TypeOK, RingInv
    <2>2. Allowed(now)
      BY <1>1, <1>5 DEF BucketInv
    <2>3. count > 0 => attempts[Len(attempts)] \in Nat
      BY <2>1
    <2>4. count = WindowLimit => attempts[Len(attempts) - WindowLimit + 1] \in Nat
      BY <2>1
    <2> QED
      BY <1>1, <2>1, <2>2, <2>3, <2>4 DEF Allowed
  <1> QED
    BY <1>2, <1>3, <1>4, <1>5 DEF BucketInv

\* A pause begins or is not needed: either way its end is an allowed time.
LEMMA PaceKeeps ==
    ASSUME BucketInv, Pace \/ PaceOver
    PROVE  BucketInv'
  <1>1. /\ now' = now /\ stamps' = stamps /\ head' = head /\ count' = count
        /\ attempts' = attempts /\ now \in Nat
    BY DEF BucketInv, TypeOK, Pace, PaceOver, ring
  <1>2. RingInv' /\ RateLimit'
    BY <1>1 DEF BucketInv, RingInv, RateLimit
  <1>3. Earliest \in Nat
    <2>1. /\ head \in 0..(WindowLimit - 1) /\ count \in 0..WindowLimit
          /\ stamps \in [0..(WindowLimit - 1) -> Nat]
      BY DEF BucketInv, TypeOK
    <2>2. count > 0 => LastStamp \in Nat
      BY <2>1, ConfigAssumption DEF LastStamp, Wrap
    <2> QED
      BY <1>1, <2>1, <2>2, ConfigAssumption DEF Earliest
  <1>4. TypeOK'
    <2>1. run' \in [at : Working \cup {"idle", "drain", "stopped"},
                    job : Callers \cup {None}, try : Nat, wake : Nat]
      BY <1>3 DEF BucketInv, TypeOK, Pace, PaceOver, Working
    <2> QED
      BY <1>1, <2>1 DEF BucketInv, TypeOK, Pace, PaceOver
  <1>5. CASE run' = [run EXCEPT !.at = "ready"] /\ Earliest <= now
    <2>1. Allowed(now)
      BY <1>1, <1>3, <1>5, EarliestAllowed
    <2> QED
      BY <1>1, <1>2, <1>4, <1>5, <2>1 DEF BucketInv, TypeOK, Allowed
  <1>6. CASE run' = [run EXCEPT !.at = "pacing", !.wake = Earliest]
    <2>1. Allowed(Earliest)
      BY <1>3, EarliestAllowed
    <2>2. run'.at = "pacing" /\ run'.wake = Earliest
      BY <1>6 DEF BucketInv, TypeOK
    <2>3. Allowed(run.wake)'
      BY <1>1, <2>1, <2>2 DEF Allowed
    <2> QED
      BY <1>2, <1>4, <2>2, <2>3 DEF BucketInv
  <1>7. CASE PaceOver
    <2>1. Allowed(run.wake) /\ now >= run.wake /\ run.wake \in Nat
      BY <1>7 DEF BucketInv, TypeOK, PaceOver
    <2>2. /\ count \in 0..WindowLimit /\ attempts \in Seq(Nat)
          /\ count <= Len(attempts) /\ Len(attempts) \in Nat
      BY DEF BucketInv, TypeOK, RingInv
    <2>3. count > 0 => attempts[Len(attempts)] \in Nat
      BY <2>2
    <2>4. count = WindowLimit => attempts[Len(attempts) - WindowLimit + 1] \in Nat
      BY <2>2, ConfigAssumption
    <2>5. Allowed(now)
      BY <1>1, <2>1, <2>2, <2>3, <2>4, ConfigAssumption DEF Allowed
    <2>6. run'.at = "ready"
      BY <1>7 DEF BucketInv, TypeOK, PaceOver
    <2> QED
      BY <1>1, <1>2, <1>4, <2>5, <2>6 DEF BucketInv, Allowed
  <1> QED
    BY <1>5, <1>6, <1>7 DEF Pace

\* The steps of Run other than the pause and the attempt.
LEMMA RunKeeps ==
    ASSUME BucketInv,
           Take \/ Interrupt \/ Succeed \/ Fail \/ Retry \/ BackoffOver \/ Stop \/ Drain
    PROVE  BucketInv'
  <1> DEFINE RunType == [at : Working \cup {"idle", "drain", "stopped"},
                         job : Callers \cup {None}, try : Nat, wake : Nat]
  <1>1. /\ UNCHANGED <<now, ring, attempts>> /\ UNCHANGED <<caller, cancelled, stopping>>
    BY DEF Take, Interrupt, Succeed, Fail, Retry, BackoffOver, Stop, Drain
  <1>2. /\ run \in RunType /\ jobs \in Seq(Callers) /\ now \in Nat
        /\ done \in [Callers -> Outcomes \cup {None}]
    BY DEF BucketInv, TypeOK
  <1>3. jobs' \in Seq(Callers)
    <2>1. jobs # <<>> => Tail(jobs) \in Seq(Callers)
      BY <1>2
    <2>2. jobs' = jobs \/ (jobs # <<>> /\ jobs' = Tail(jobs))
      BY DEF Take, Interrupt, Succeed, Fail, Retry, BackoffOver, Stop, Drain
    <2> QED
      BY <1>2, <2>1, <2>2
  <1>4. done' \in [Callers -> Outcomes \cup {None}]
    BY <1>2 DEF Take, Interrupt, Succeed, Fail, Retry, BackoffOver, Stop, Drain,
                Reply, Outcomes
  <1>5. run' \in RunType /\ (run' = run \/ run'.at \notin {"pacing", "ready"})
    <2>1. CASE Take
      <3>1. jobs # <<>> => Head(jobs) \in Callers
        BY <1>2
      <3> QED
        BY <1>2, <2>1, <3>1 DEF Take, Working
    <2>2. CASE Interrupt \/ Succeed \/ Fail
      <3>1. run' \in {Resting, [Resting EXCEPT !.at = "drain"]}
        BY <2>2 DEF Interrupt, Succeed, Fail, Reply
      <3> QED
        BY <3>1 DEF Resting, Working
    <2>3. CASE Retry
      <3>1. PICK w \in {x \in RetryAfters : x <= MaxWait} \cup {run.try * run.try * Second} :
                run' = [run EXCEPT !.at = "backoff", !.wake = now + w]
        BY <2>3 DEF Retry
      <3>2. run.try * run.try * Second \in Nat
        BY <1>2, ConfigAssumption
      <3>3. now + w \in Nat
        BY <1>2, <3>2, ConfigAssumption
      <3> QED
        BY <1>2, <3>1, <3>3 DEF Working
    <2>4. CASE BackoffOver
      <3>1. run' = [run EXCEPT !.at = "pace", !.try = run.try + 1]
        BY <2>4 DEF BackoffOver
      <3>2. run.try + 1 \in Nat
        BY <1>2
      <3> QED
        BY <1>2, <3>1, <3>2 DEF Working
    <2>6. CASE Stop
      BY <1>2, <2>6 DEF Stop, Working
    <2>5. CASE Drain
      BY <1>2, <2>5 DEF Drain, Working
    <2> QED
      BY <2>1, <2>2, <2>3, <2>4, <2>5, <2>6
  <1>6. TypeOK'
    BY <1>1, <1>3, <1>4, <1>5 DEF BucketInv, TypeOK, ring
  <1> QED
    BY <1>1, <1>5, <1>6, FrameKeeps

\* The callers' steps and the shutdown.
LEMMA CallerKeeps ==
    ASSUME BucketInv,
           (\E c \in Callers : Do(c) \/ GiveUp(c)) \/ Shutdown
    PROVE  BucketInv'
  <1>1. UNCHANGED <<now, ring, attempts>> /\ run' = run
    BY DEF Do, Enqueue, Receive, Leave, GiveUp, Shutdown
  <1>2. TypeOK'
    <2>1. CASE Shutdown
      BY <2>1 DEF BucketInv, TypeOK, Shutdown, ring
    <2>2. ASSUME NEW c \in Callers, Do(c) \/ GiveUp(c)
          PROVE  TypeOK'
      <3>1. jobs' \in Seq(Callers)
        <4>1. jobs' = jobs \/ jobs' = Append(jobs, c)
          BY <2>2 DEF Do, Enqueue, Receive, Leave, GiveUp
        <4>2. jobs \in Seq(Callers) /\ c \in Callers
          BY <2>2 DEF BucketInv, TypeOK
        <4>3. Append(jobs, c) \in Seq(Callers)
          BY ONLY <4>2
        <4> QED
          BY <4>1, <4>2, <4>3
      <3>2. caller' \in [Callers -> {"enqueue", "wait"} \cup Outcomes]
        BY <2>2 DEF BucketInv, TypeOK, Do, Enqueue, Receive, Leave, GiveUp, Outcomes
      <3>3. cancelled' \subseteq Callers /\ done' = done /\ stopping' = stopping
        BY <2>2 DEF BucketInv, TypeOK, Do, Enqueue, Receive, Leave, GiveUp
      <3> QED
        BY <1>1, <3>1, <3>2, <3>3 DEF BucketInv, TypeOK, ring
    <2> QED
      BY <2>1, <2>2
  <1> QED
    BY <1>1, <1>2, FrameKeeps

\* The invariant the ring and the timers keep, whatever the configuration
\* (pace, stamp, Run).
THEOREM SpecBucketInv == Spec => []BucketInv
  <1>1. Init => BucketInv
    <2> SUFFICES ASSUME Init PROVE BucketInv
      OBVIOUS
    <2>1. TypeOK
      BY ConfigAssumption DEF Init, TypeOK, Resting, Outcomes, Working
    <2>2. RingInv /\ RateLimit
      BY ConfigAssumption DEF Init, RingInv, RateLimit
    <2> QED
      BY <2>1, <2>2 DEF Init, Resting, BucketInv
  <1>2. BucketInv /\ [Next]_vars => BucketInv'
    <2> SUFFICES ASSUME BucketInv, [Next]_vars PROVE BucketInv'
      OBVIOUS
    <2>1. CASE UNCHANGED vars
      <3>1. UNCHANGED <<now, ring, attempts>> /\ run' = run
        BY <2>1 DEF vars, ring
      <3>2. TypeOK'
        BY <2>1 DEF vars, BucketInv, TypeOK
      <3> QED
        BY <3>1, <3>2, FrameKeeps
    <2>2. CASE Next
      BY <2>2, AttemptKeeps, TickKeeps, PaceKeeps, RunKeeps, CallerKeeps
         DEF Next, Run
    <2> QED
      BY <2>1, <2>2
  <1> QED
    BY <1>1, <1>2, PTL DEF Spec

\* The limits hold for every window size, gap, retry wait and number of
\* callers, over histories of any length.
THEOREM SpecRateLimit == Spec => []RateLimit
  <1>1. BucketInv => RateLimit
    BY DEF BucketInv
  <1> QED
    BY <1>1, SpecBucketInv, PTL

-----------------------------------------------------------------------------
(* AnsweredOnce *)

\* The call of caller c is under way in Run.
InRun(c) == run.at \in Working /\ run.job = c

\* A call is in one place, in the channel once or in Run, and has no answer
\* there; a caller that has not enqueued its call is in neither.
Unanswered ==
    /\ run.at \in Working => run.job \in Callers
    /\ \A i, k \in 1..Len(jobs) : jobs[i] = jobs[k] => i = k
    /\ \A i \in 1..Len(jobs) : ~InRun(jobs[i]) /\ done[jobs[i]] = None
    /\ \A c \in Callers : InRun(c) \/ caller[c] = "enqueue" => done[c] = None
    /\ \A c \in Callers : caller[c] = "enqueue" =>
         ~InRun(c) /\ \A i \in 1..Len(jobs) : jobs[i] # c

\* What is left of the channel once its first call is taken out.
LEMMA TakenOut ==
    ASSUME TypeOK, jobs # <<>>, jobs' = Tail(jobs)
    PROVE  /\ Len(jobs) \in Nat /\ Len(jobs') = Len(jobs) - 1 /\ 1 \in 1..Len(jobs)
           /\ Head(jobs) = jobs[1] /\ Head(jobs) \in Callers
           /\ \A i \in 1..Len(jobs') : i + 1 \in 1..Len(jobs) /\ i + 1 # 1 /\ jobs'[i] = jobs[i + 1]
  <1>1. jobs \in Seq(Callers)
    BY DEF TypeOK
  <1> QED
    BY <1>1

\* A call that is in Run or leaves the channel is answered, and no other.
LEMMA AnswerOnce ==
    ASSUME TypeOK, Unanswered, UNCHANGED caller, NEW c \in Callers, NEW x,
           run'.at \in Working => run'.job \in Callers,
           done' = [done EXCEPT ![c] = x] \/ done' = done, done[c] = None,
           \/ jobs' = jobs /\ InRun(c) /\ \A d \in Callers : ~InRun(d)'
           \/ /\ jobs # <<>> /\ jobs' = Tail(jobs) /\ c = Head(jobs)
              /\ \/ \A d \in Callers : ~InRun(d) /\ ~InRun(d)'
                 \/ /\ done' = done
                    /\ \A d \in Callers : ~InRun(d) /\ (InRun(d)' => d = c)
    PROVE  Unanswered' /\ \A d \in Callers : done[d] # None => done'[d] = done[d]
  <1>1. /\ done \in [Callers -> Outcomes \cup {None}] /\ jobs \in Seq(Callers)
        /\ caller[c] # "enqueue"
    BY TakenOut DEF TypeOK, Unanswered
  <1>2. \A d \in Callers : d # c => done'[d] = done[d]
    BY <1>1
  <1>3. CASE jobs' = jobs /\ InRun(c) /\ \A d \in Callers : ~InRun(d)'
    BY <1>1, <1>2, <1>3 DEF Unanswered
  <1>4. CASE jobs # <<>> /\ jobs' = Tail(jobs) /\ c = Head(jobs)
    <2>1. /\ Len(jobs) \in Nat /\ 1 \in 1..Len(jobs) /\ c = jobs[1]
          /\ \A i \in 1..Len(jobs') : i + 1 \in 1..Len(jobs) /\ i + 1 # 1 /\ jobs'[i] = jobs[i + 1]
      BY <1>4, TakenOut
    <2>2. /\ \A i \in 1..Len(jobs') : jobs'[i] # c /\ jobs'[i] \in Callers
          /\ \A i, k \in 1..Len(jobs') : jobs'[i] = jobs'[k] => i = k
      BY <1>1, <2>1 DEF Unanswered
    <2>3. \A i \in 1..Len(jobs') : \A d \in Callers :
            jobs'[i] = d => ~InRun(d)' /\ done'[d] = None
      BY <1>2, <1>4, <2>1, <2>2 DEF Unanswered
    <2>4. \A d \in Callers : InRun(d)' \/ caller'[d] = "enqueue" => done'[d] = None
      BY <1>1, <1>2, <1>4, <2>1 DEF Unanswered
    <2>5. \A d \in Callers : caller'[d] = "enqueue" =>
            ~InRun(d)' /\ \A i \in 1..Len(jobs') : jobs'[i] # d
      BY <1>1, <1>4, <2>1 DEF Unanswered
    <2>6. \A d \in Callers : done[d] # None => done'[d] = done[d]
      BY <1>2
    <2> QED
      BY <2>2, <2>3, <2>4, <2>5, <2>6 DEF Unanswered, InRun
  <1> QED
    BY <1>3, <1>4

\* Where a call is, step by step: a caller puts it into the channel once, Run
\* takes it out and answers it, or Drain does.
LEMMA UnansweredKept ==
    ASSUME TypeOK, Unanswered, [Next]_vars
    PROVE  Unanswered' /\ \A d \in Callers : done[d] # None => done'[d] = done[d]
  <1>0. run.at \in Working => run.job \in Callers
    BY DEF Unanswered
  <1>1. CASE UNCHANGED <<jobs, caller, done, run>>
    BY <1>1 DEF Unanswered, InRun
  <1>2. ASSUME NEW c \in Callers, Enqueue(c)
        PROVE  Unanswered' /\ done' = done
    <2>1. /\ jobs \in Seq(Callers) /\ jobs' = Append(jobs, c) /\ caller[c] = "enqueue"
          /\ caller' = [caller EXCEPT ![c] = "wait"] /\ UNCHANGED <<done, run>>
          /\ caller \in [Callers -> {"enqueue", "wait"} \cup Outcomes]
      BY <1>2 DEF Enqueue, TypeOK
    <2>2. /\ Len(jobs) \in Nat /\ Len(jobs') = Len(jobs) + 1
          /\ \A i \in 1..Len(jobs) : jobs'[i] = jobs[i]
          /\ jobs'[Len(jobs) + 1] = c
      BY <2>1
    <2>3. \A i \in 1..Len(jobs') : i \in 1..Len(jobs) \/ i = Len(jobs) + 1
      BY <2>2
    <2>4. \A d \in Callers : caller'[d] = "enqueue" => caller[d] = "enqueue" /\ d # c
      BY <2>1
    <2>5. ~InRun(c) /\ done[c] = None /\ \A i \in 1..Len(jobs) : jobs[i] # c
      BY <2>1 DEF Unanswered
    <2> QED
      BY <2>1, <2>2, <2>3, <2>4, <2>5 DEF Unanswered, InRun
  <1>3. ASSUME NEW c \in Callers, Receive(c) \/ Leave(c)
        PROVE  Unanswered' /\ done' = done
    <2>1. /\ UNCHANGED <<jobs, done, run>>
          /\ \A d \in Callers : caller'[d] = "enqueue" => caller[d] = "enqueue"
      BY <1>3 DEF Receive, Leave, TypeOK, Outcomes
    <2> QED
      BY <2>1 DEF Unanswered, InRun
  <1>4. ASSUME NEW x, Reply(run.job, x), run.at \in Working, UNCHANGED <<jobs, caller>>
        PROVE  Unanswered' /\ \A d \in Callers : done[d] # None => done'[d] = done[d]
    <2>1. PICK c \in Callers : c = run.job /\ InRun(c) /\ done[c] = None
      BY <1>0, <1>4 DEF Unanswered, InRun
    <2>2. run'.at \notin Working /\ \A d \in Callers : ~InRun(d)'
      BY <1>4 DEF Reply, Resting, InRun, Working
    <2>3. done' = [done EXCEPT ![c] = x]
      BY <1>4, <2>1 DEF Reply
    <2> QED
      BY <1>4, <2>1, <2>2, <2>3, AnswerOnce
  <1>5. CASE Take
    <2>1. PICK c \in Callers : c = Head(jobs) /\ done[c] = None
      BY <1>5, TakenOut DEF Take, Unanswered
    <2>2. \A d \in Callers : ~InRun(d)
      BY <1>5 DEF Take, InRun, Working
    <2>3. CASE done' = [done EXCEPT ![c] = "cancelled"] /\ run' = run
      <3>1. run'.at \notin Working /\ \A d \in Callers : ~InRun(d)'
        BY <1>5, <2>2, <2>3 DEF Take, InRun, Working
      <3>2. jobs # <<>> /\ jobs' = Tail(jobs) /\ caller' = caller
        BY <1>5 DEF Take
      <3> QED
        BY <2>1, <2>2, <2>3, <3>1, <3>2, AnswerOnce
    <2>4. CASE done' = done /\ run' = [at |-> "pace", job |-> c, try |-> 1, wake |-> 0]
      <3>1. run'.job \in Callers /\ \A d \in Callers : InRun(d)' => d = c
        BY <2>4 DEF InRun
      <3>2. jobs # <<>> /\ jobs' = Tail(jobs) /\ caller' = caller
        BY <1>5 DEF Take
      <3> QED
        BY <2>1, <2>2, <2>4, <3>1, <3>2, AnswerOnce
    <2> QED
      BY <1>5, <2>1, <2>3, <2>4 DEF Take
  <1>6. CASE Drain
    <2>1. CASE jobs = <<>>
      BY <1>6, <2>1 DEF Drain, Unanswered, InRun, Working, TypeOK
    <2>2. CASE jobs # <<>>
      <3>1. PICK c \in Callers : c = Head(jobs) /\ done[c] = None
        BY <1>6, <2>2, TakenOut DEF Drain, Unanswered
      <3>2. run'.at \notin Working /\ \A d \in Callers : ~InRun(d) /\ ~InRun(d)'
        BY <1>6, <2>2 DEF Drain, InRun, Working
      <3>3. /\ jobs' = Tail(jobs) /\ caller' = caller
            /\ done' = [done EXCEPT ![c] = "stopped"]
        BY <1>6, <2>2, <3>1 DEF Drain
      <3> QED
        BY <2>2, <3>1, <3>2, <3>3, AnswerOnce
    <2> QED
      BY <2>1, <2>2
  <1>7. CASE Pace \/ PaceOver \/ Attempt \/ Retry \/ BackoffOver \/ Stop
    <2>1. UNCHANGED <<jobs, caller, done>> /\ run'.job = run.job
          /\ (run'.at \in Working => run.at \in Working)
      BY <1>7 DEF Pace, PaceOver, Attempt, Retry, BackoffOver, Stop, TypeOK, Working
    <2> QED
      BY <2>1 DEF Unanswered, InRun
  <1>8. CASE Interrupt \/ Succeed \/ Fail
    BY <1>4, <1>8 DEF Interrupt, Succeed, Fail, Working
  <1>9. CASE Tick \/ Shutdown \/ (\E c \in Callers : GiveUp(c)) \/ UNCHANGED vars
    BY <1>1, <1>9 DEF Tick, Shutdown, GiveUp, vars
  <1> QED
    BY <1>2, <1>3, <1>5, <1>6, <1>7, <1>8, <1>9 DEF Next, Do, Run

\* The done channel of a call is written at most once, whatever is cancelled or
\* stopped, for any number of callers and any size of the channel: Run never
\* blocks on it (Run, execute, the drain).
THEOREM SpecAnsweredOnce == Spec => AnsweredOnce
  <1>1. Init => Unanswered
    BY DEF Init, Unanswered, InRun, Resting, Working
  <1>2. TypeOK /\ Unanswered /\ [Next]_vars => Unanswered'
    BY UnansweredKept
  <1>3. TypeOK /\ Unanswered /\ [Next]_vars =>
          [\A c \in Callers : done[c] # None => done'[c] = done[c]]_vars
    BY UnansweredKept
  <1>4. BucketInv => TypeOK
    BY DEF BucketInv
  <1> QED
    BY <1>1, <1>2, <1>3, <1>4, SpecBucketInv, PTL DEF Spec, AnsweredOnce

-----------------------------------------------------------------------------
(* The stream of Herdr: what the events that wait say of a pane.           *)

\* What travels: a reset is of no pane, the rest of one.
Line ==
    [kind : {"status"}, pane : Panes, agent : Agent]
        \cup [kind : {"structural", "update"}, pane : Panes, agent : Agent \cup {Nobody}]
        \cup [kind : {"reset"}, pane : {"all"}, agent : {Nobody}]

Worlds == [Panes -> Agent \cup {Nobody}]

Connection == [live : BOOLEAN, panes : SUBSET Panes, q : Seq(Line)]

Silent(q, p) == \A i \in 1..Len(q) : q[i].pane # p

\* The last that q says of p.
LastOf(q, p, i) ==
    i \in 1..Len(q) /\ q[i].pane = p /\ \A j \in 1..Len(q) : j > i => q[j].pane # p

\* What q says last of p is to take a snapshot, or what the status of p is in w.
Tells(q, p, w) ==
    \E i \in 1..Len(q) :
        LastOf(q, p, i) /\ (q[i].kind = "structural" \/ q[i].agent.status = w[p].status)

\* An event in q makes the registry ask what is in p.
Alerts(q, p) == \E i \in 1..Len(q) : q[i].pane = p /\ q[i].kind = "structural"

\* What is known of an event by its kind.
LEMMA LineFacts ==
    ASSUME NEW e \in Line
    PROVE  /\ e.kind \in {"status", "structural", "update", "reset"}
           /\ e.kind # "reset" => e.pane \in Panes
           /\ e.kind = "reset" => e.pane = "all" /\ e.pane \notin Panes
           /\ e.kind = "status" => e.agent \in Agent
           /\ e.agent \in Agent \cup {Nobody}
  BY StreamAssumption DEF Line

\* An event that is appended has the last word on its pane, and no word on the others.
LEMMA AppendSays ==
    ASSUME NEW q \in Seq(Line), NEW e \in Line, NEW p, NEW w
    PROVE  /\ Append(q, e) \in Seq(Line)
           /\ e.pane # p => /\ Silent(q, p) => Silent(Append(q, e), p)
                            /\ Tells(q, p, w) => Tells(Append(q, e), p, w)
                            /\ \A i : LastOf(q, p, i) => LastOf(Append(q, e), p, i)
           /\ e.pane = p => /\ LastOf(Append(q, e), p, Len(q) + 1)
                            /\ e.kind = "structural" \/ e.agent.status = w[p].status
                                 => Tells(Append(q, e), p, w)
                            /\ e.kind = "structural" => Alerts(Append(q, e), p)
           /\ Alerts(q, p) => Alerts(Append(q, e), p)
  <1> DEFINE r == Append(q, e)
             n == Len(q) + 1
  <1>1. /\ r \in Seq(Line) /\ Len(r) = n /\ Len(q) \in Nat /\ r[n] = e /\ n \in 1..Len(r)
        /\ \A i \in 1..Len(q) : r[i] = q[i] /\ i \in 1..Len(r)
        /\ \A i \in 1..Len(r) : i \in 1..Len(q) \/ i = n
    OBVIOUS
  <1> HIDE DEF r, n
  <1>2. e.pane # p => \A i : LastOf(q, p, i) => LastOf(r, p, i)
    BY <1>1 DEF LastOf
  <1>3. e.pane = p => LastOf(r, p, n)
    BY <1>1 DEF LastOf, n
  <1>4. e.pane # p /\ Silent(q, p) => Silent(r, p)
    BY <1>1 DEF Silent
  <1>5. e.pane # p /\ Tells(q, p, w) => Tells(r, p, w)
    BY <1>1, <1>2 DEF Tells
  <1>6. e.pane = p /\ (e.kind = "structural" \/ e.agent.status = w[p].status) => Tells(r, p, w)
    BY <1>1, <1>3 DEF Tells
  <1>7. /\ Alerts(q, p) => Alerts(r, p)
        /\ e.pane = p /\ e.kind = "structural" => Alerts(r, p)
    BY <1>1 DEF Alerts
  <1> QED
    BY <1>1, <1>2, <1>3, <1>4, <1>5, <1>6, <1>7 DEF r, n

\* What a queue says last of a pane, its tail says, or the event that leaves it.
LEMMA TailSays ==
    ASSUME NEW q \in Seq(Line), q # <<>>, NEW p, NEW w
    PROVE  /\ Tail(q) \in Seq(Line) /\ Head(q) \in Line
           /\ Silent(q, p) => Silent(Tail(q), p) /\ Head(q).pane # p
           /\ Tells(q, p, w) =>
                 \/ Tells(Tail(q), p, w)
                 \/ /\ Silent(Tail(q), p) /\ Head(q).pane = p
                    /\ Head(q).kind = "structural" \/ Head(q).agent.status = w[p].status
           /\ Alerts(q, p) => Alerts(Tail(q), p) \/ (Head(q).pane = p /\ Head(q).kind = "structural")
           /\ \A i : LastOf(q, p, i) => Silent(Tail(q), p) \/ LastOf(Tail(q), p, i - 1)
  <1> DEFINE r == Tail(q)
  <1>1. /\ r \in Seq(Line) /\ Len(r) = Len(q) - 1 /\ Len(q) \in Nat /\ Len(q) >= 1
        /\ Head(q) = q[1] /\ Head(q) \in Line /\ 1 \in 1..Len(q)
        /\ \A i \in 1..Len(r) : r[i] = q[i + 1] /\ i + 1 \in 1..Len(q)
    OBVIOUS
  <1> HIDE DEF r
  <1>2. Silent(q, p) => Silent(r, p) /\ Head(q).pane # p
    BY <1>1 DEF Silent
  <1>3. ASSUME NEW i \in 1..Len(q), LastOf(q, p, i)
        PROVE  IF i = 1 THEN Silent(r, p) /\ Head(q).pane = p
                        ELSE i - 1 \in 1..Len(r) /\ LastOf(r, p, i - 1) /\ r[i - 1] = q[i]
    BY <1>1, <1>3 DEF LastOf, Silent
  <1>4. Tells(q, p, w) => \/ Tells(r, p, w)
                          \/ /\ Silent(r, p) /\ Head(q).pane = p
                             /\ Head(q).kind = "structural" \/ Head(q).agent.status = w[p].status
    <2>1. ASSUME NEW i \in 1..Len(q), LastOf(q, p, i), i # 1,
                 q[i].kind = "structural" \/ q[i].agent.status = w[p].status
          PROVE  Tells(r, p, w)
      BY <1>3, <2>1 DEF Tells
    <2> QED
      BY <1>1, <1>3, <2>1 DEF Tells
  <1>5. \A i : LastOf(q, p, i) => Silent(r, p) \/ LastOf(r, p, i - 1)
    BY <1>3 DEF LastOf
  <1>6. Alerts(q, p) => Alerts(r, p) \/ (Head(q).pane = p /\ Head(q).kind = "structural")
    <2>1. ASSUME NEW i \in 1..Len(q), q[i].pane = p, q[i].kind = "structural", i # 1
          PROVE  Alerts(r, p)
      <3>1. i - 1 \in 1..Len(r) /\ r[i - 1] = q[i]
        BY <1>1, <2>1
      <3> QED
        BY <2>1, <3>1 DEF Alerts
    <2> QED
      BY <1>1, <2>1 DEF Alerts
  <1> QED
    BY <1>1, <1>2, <1>4, <1>5, <1>6 DEF r

\* A list that says nothing but structural things of p, if anything.
LEMMA Structural ==
    ASSUME NEW q \in Seq(Line), NEW p, NEW w, Silent(q, p) \/ \E i : LastOf(q, p, i),
           \A i \in 1..Len(q) : q[i].pane = p => q[i].kind = "structural"
    PROVE  Silent(q, p) \/ Tells(q, p, w)
  BY DEF LastOf, Tells

-----------------------------------------------------------------------------
(* The inductive invariant of TakesAllIn.                                  *)

StreamTypes ==
    /\ world \in Worlds /\ known \in Worlds
    /\ conn \in Connection /\ next \in Connection /\ out \in Seq(Line)
    /\ asked \subseteq Panes /\ panes \subseteq Panes /\ missed \subseteq Panes
    /\ coalesce \in BOOLEAN

\* A connection is told of the panes it watches; what it holds of a pane has a
\* last word.
Watches(c) == \A i \in 1..Len(c.q) : c.q[i].kind = "status" => c.q[i].pane \in c.panes

Words(c) == \A p \in Panes : Silent(c.q, p) \/ \E i : LastOf(c.q, p, i)

\* There are two connections during a drain only, and none between two
\* attempts; the replacement does not go away before the one it replaces.
Serving ==
    /\ pc \in {"subscribe", "sleep"} => conn = NoConn
    /\ pc # "drain" => next = NoConn
    /\ conn.live => next.live \/ next.q = <<>>

\* The last event that waits for p, in the order in which the registry will take
\* them, leads to the status of p; when none waits, the registry has it or is
\* about to ask for it.
Due(p) ==
    \/ Tells(next.q, p, world)
    \/ Silent(next.q, p) /\ Tells(conn.q, p, world)
    \/ Silent(next.q, p) /\ Silent(conn.q, p) /\ Tells(out, p, world)
    \/ /\ Silent(next.q, p) /\ Silent(conn.q, p) /\ Silent(out, p)
       /\ coalesce \/ known[p].status = world[p].status

\* The registry knows which agent p holds, or has been told to ask.
Placed(p) ==
    \/ known[p].terminal = world[p].terminal \/ coalesce
    \/ Alerts(out, p) \/ Alerts(conn.q, p) \/ Alerts(next.q, p)

StreamInv ==
    /\ StreamTypes /\ Serving
    /\ Watches(conn) /\ Watches(next) /\ Words(conn) /\ Words(next)
    /\ \A p \in Panes \ missed : Due(p) /\ Placed(p)

\* Who is in a pane is told by terminal and status, and nobody has neither.
LEMMA AgentFacts ==
    /\ Nobody.terminal = "none" /\ Nobody.status = "none"
    /\ \A a \in Agent \cup {Nobody} :
         /\ a.terminal = "none" <=> a = Nobody
         /\ \A b \in Agent \cup {Nobody} : a.terminal = b.terminal /\ a.status = b.status => a = b
  BY StreamAssumption DEF Agent, Nobody

\* A connection begins with an empty queue.
LEMMA Empty ==
    /\ NoConn \in Connection /\ NoConn.q = <<>> /\ ~NoConn.live
    /\ \A P \in SUBSET Panes : /\ Subscribed(P) \in Connection /\ Subscribed(P).q = <<>>
                               /\ Subscribed(P).live
    /\ \A p : Silent(<<>>, p)
    /\ \A c \in Connection : c.q = <<>> => Watches(c) /\ Words(c)
  <1>1. <<>> \in Seq(Line) /\ Len(<<>>) = 0
    OBVIOUS
  <1>2. NoConn \in Connection /\ NoConn.q = <<>> /\ ~NoConn.live
    BY <1>1 DEF NoConn, Connection
  <1>3. \A P \in SUBSET Panes : Subscribed(P) \in Connection /\ Subscribed(P).q = <<>> /\ Subscribed(P).live
    BY <1>1 DEF Subscribed, Connection
  <1>4. \A p : Silent(<<>>, p)
    BY DEF Silent
  <1>5. \A c \in Connection : c.q = <<>> => Watches(c) /\ Words(c)
    BY <1>4 DEF Watches, Words
  <1> QED
    BY <1>2, <1>3, <1>4, <1>5

\* What an event of p does to a connection.
LEMMA PushedKeeps ==
    ASSUME NEW c \in Connection, Watches(c), Words(c), NEW e \in Line, e.kind # "reset", NEW w \in Worlds
    PROVE  /\ Pushed(c, e) \in Connection /\ Pushed(c, e).live = c.live /\ Pushed(c, e).panes = c.panes
           /\ Watches(Pushed(c, e)) /\ Words(Pushed(c, e))
           /\ ~Carries(c, e) => Pushed(c, e) = c
           /\ c.q = <<>> /\ ~c.live => Pushed(c, e).q = <<>>
           /\ \A p \in Panes \ {e.pane} :
                 /\ Silent(c.q, p) => Silent(Pushed(c, e).q, p)
                 /\ \A v : Tells(c.q, p, v) => Tells(Pushed(c, e).q, p, v)
           /\ \A p : Alerts(c.q, p) => Alerts(Pushed(c, e).q, p)
           /\ Carries(c, e) =>
                 /\ e.kind = "structural" \/ e.agent.status = w[e.pane].status
                      => Tells(Pushed(c, e).q, e.pane, w)
                 /\ e.kind = "structural" => Alerts(Pushed(c, e).q, e.pane)
  <1> DEFINE q == Append(c.q, e)
             d == [c EXCEPT !.q = q]
  <1>1. CASE ~Carries(c, e)
    BY <1>1 DEF Pushed
  <1>2. CASE Carries(c, e)
    <2>1. c.q \in Seq(Line) /\ c.live
      BY <1>2 DEF Connection, Carries
    <2>2. /\ q \in Seq(Line)
          /\ \A p, v : /\ e.pane # p => /\ Silent(c.q, p) => Silent(q, p)
                                        /\ Tells(c.q, p, v) => Tells(q, p, v)
                                        /\ \A i : LastOf(c.q, p, i) => LastOf(q, p, i)
                       /\ e.pane = p => LastOf(q, p, Len(c.q) + 1)
                       /\ e.pane = p /\ (e.kind = "structural" \/ e.agent.status = v[p].status)
                            => Tells(q, p, v)
                       /\ e.pane = p /\ e.kind = "structural" => Alerts(q, p)
                       /\ Alerts(c.q, p) => Alerts(q, p)
      BY <2>1, AppendSays
    <2>3. /\ d \in Connection /\ d.q = q /\ d.live = c.live /\ d.panes = c.panes
      BY <2>2 DEF Connection
    <2>4. Pushed(c, e) = d
      BY <1>2 DEF Pushed, Connection
    <2>5. Watches(d)
      <3>1. e.kind = "status" => e.pane \in c.panes
        BY <1>2 DEF Carries
      <3>2. \A i \in 1..Len(q) : q[i] = e \/ (i \in 1..Len(c.q) /\ q[i] = c.q[i])
        BY <2>1
      <3> HIDE DEF q, d
      <3> QED
        BY <2>3, <3>1, <3>2 DEF Watches
    <2>6. Words(d)
      <3> HIDE DEF q, d
      <3> QED
        BY <2>2, <2>3 DEF Words
    <2> HIDE DEF q, d
    <2> QED
      BY <1>2, <2>1, <2>2, <2>3, <2>4, <2>5, <2>6
  <1> QED
    BY <1>1, <1>2

\* Herdr writes what happened to p; a change that is written nowhere, or behind
\* which an older update is left, is missed.
LEMMA PushesKeeps ==
    ASSUME StreamInv, NEW p \in Panes, NEW e \in Line, e.pane = p, e.kind # "reset", Pushes(e),
           world' = [world EXCEPT ![p] = e.agent],
           missed \subseteq missed', missed' \subseteq Panes,
           IF e.kind = "update" THEN e.agent = world[p] ELSE p \in missed' \/ ~Astray(e),
           e.kind = "status" => e.agent.terminal = world[p].terminal
    PROVE  StreamInv'
  <1>1. /\ StreamTypes /\ Serving /\ Watches(conn) /\ Watches(next) /\ Words(conn) /\ Words(next)
        /\ conn \in Connection /\ next \in Connection /\ world \in Worlds
    BY DEF StreamInv, StreamTypes
  <1>2. world' \in Worlds /\ world'[p] = e.agent /\ \A r \in Panes \ {p} : world'[r] = world[r]
    BY <1>1, LineFacts DEF Worlds
  <1>3. conn' = Pushed(conn, e) /\ next' = Pushed(next, e)
    BY DEF Pushes
  <1>4. /\ conn' \in Connection /\ conn'.live = conn.live
        /\ Watches(conn') /\ Words(conn')
        /\ ~Carries(conn, e) => conn' = conn
        /\ \A r \in Panes \ {p} : /\ Silent(conn.q, r) => Silent(conn'.q, r)
                                  /\ \A v : Tells(conn.q, r, v) => Tells(conn'.q, r, v)
        /\ \A r : Alerts(conn.q, r) => Alerts(conn'.q, r)
        /\ Carries(conn, e) => /\ Tells(conn'.q, p, world')
                               /\ e.kind = "structural" => Alerts(conn'.q, p)
    BY <1>1, <1>2, <1>3, PushedKeeps
  <1>5. /\ next' \in Connection /\ next'.live = next.live
        /\ Watches(next') /\ Words(next')
        /\ ~Carries(next, e) => next' = next
        /\ next.q = <<>> /\ ~next.live => next'.q = <<>>
        /\ \A r \in Panes \ {p} : /\ Silent(next.q, r) => Silent(next'.q, r)
                                  /\ \A v : Tells(next.q, r, v) => Tells(next'.q, r, v)
        /\ \A r : Alerts(next.q, r) => Alerts(next'.q, r)
        /\ Carries(next, e) => /\ Tells(next'.q, p, world')
                               /\ e.kind = "structural" => Alerts(next'.q, p)
    BY <1>1, <1>2, <1>3, PushedKeeps
  <1>6. StreamTypes'
    BY <1>1, <1>2, <1>4, <1>5 DEF Pushes, StreamTypes, regVars
  <1>7. Serving'
    <2>1. conn = NoConn => conn' = NoConn
      BY <1>3, Empty DEF Pushed, Carries
    <2>2. next = NoConn => next' = NoConn
      BY <1>3, Empty DEF Pushed, Carries
    <2>3. conn'.live => next'.live \/ next'.q = <<>>
      BY <1>1, <1>4, <1>5 DEF Serving
    <2> QED
      BY <1>1, <2>1, <2>2, <2>3 DEF Pushes, Serving
  <1>8. ASSUME NEW r \in Panes \ missed' PROVE Due(r)'
    <2>1. r \in Panes \ missed /\ Due(r)
      BY <1>8 DEF StreamInv
    <2>2. out' = out /\ known' = known /\ coalesce' = coalesce
      BY DEF Pushes, regVars
    <2>3. CASE r # p
      <3>1. \A q : Tells(q, r, world) => Tells(q, r, world')
        BY <1>2, <2>3, <2>1 DEF Tells
      <3> QED
        BY <1>2, <1>4, <1>5, <2>1, <2>2, <2>3, <3>1 DEF Due
    <2>4. CASE r = p /\ Carries(next, e)
      BY <1>5, <2>4 DEF Due
    <2>5. CASE r = p /\ ~Carries(next, e) /\ Carries(conn, e)
      <3>1. ~Astray(e) \/ e.kind = "update"
        BY <1>8, <2>5
      <3>2. next' = next /\ Tells(conn'.q, p, world') /\ conn.live
        BY <1>4, <1>5, <2>5 DEF Carries
      <3>3. Silent(next.q, p) \/ Tells(next.q, p, world')
        <4>1. CASE next.q = <<>>
          BY <4>1, Empty
        <4>2. CASE next.live
          <5>1. e.kind = "status" /\ p \notin next.panes
            BY <2>5, <4>2 DEF Carries
          <5>2. \A i \in 1..Len(next.q) : next.q[i].pane = p => next.q[i].kind = "structural"
            <6>1. \A i \in 1..Len(next.q) : next.q[i] \in Line /\ next.q[i] \in Range(next.q)
              BY <1>1 DEF Connection, Range
            <6>2. \A i \in 1..Len(next.q) : next.q[i].pane = p => next.q[i].kind # "update"
              BY <2>5, <3>1, <4>2, <5>1, <6>1 DEF Astray
            <6> QED
              BY <1>1, <5>1, <6>1, <6>2, LineFacts, StreamAssumption DEF Watches
          <5>3. next.q \in Seq(Line) /\ (Silent(next.q, p) \/ \E i : LastOf(next.q, p, i))
            BY <1>1 DEF Connection, Words
          <5> QED
            BY <5>2, <5>3, Structural
        <4> QED
          BY <1>1, <3>2, <4>1, <4>2 DEF Serving
      <3> QED
        BY <2>5, <3>2, <3>3 DEF Due
    <2>6. CASE r = p /\ ~Carries(next, e) /\ ~Carries(conn, e)
      <3>1. e.kind = "update" /\ e.agent = world[p]
        BY <1>8, <2>6 DEF Astray
      <3>2. world' = world
        BY <1>1, <3>1 DEF Worlds
      <3> QED
        BY <1>4, <1>5, <2>1, <2>2, <2>6, <3>2 DEF Due
    <2> QED
      BY <2>3, <2>4, <2>5, <2>6
  <1>9. ASSUME NEW r \in Panes \ missed' PROVE Placed(r)'
    <2>1. Placed(r) /\ out' = out /\ known' = known /\ coalesce' = coalesce
      BY <1>9 DEF StreamInv, Pushes, regVars
    <2>2. CASE world'[r].terminal = world[r].terminal
      BY <1>4, <1>5, <2>1, <2>2 DEF Placed
    <2>3. CASE world'[r].terminal # world[r].terminal
      <3>1. r = p /\ e.kind = "structural" /\ ~Astray(e)
        BY <1>2, <1>9, <2>3, LineFacts
      <3>2. Carries(next, e) \/ Carries(conn, e)
        BY <3>1 DEF Astray
      <3> QED
        BY <1>4, <1>5, <3>1, <3>2 DEF Placed
    <2> QED
      BY <2>2, <2>3
  <1> QED
    BY <1>4, <1>5, <1>6, <1>7, <1>8, <1>9 DEF StreamInv

-----------------------------------------------------------------------------
(* The steps of the stream.                                                *)

\* An empty queue, and one without an event of p, tell nothing of p.
LEMMA TellsNone ==
    /\ <<>> \in Seq(Line)
    /\ \A p, w : Silent(<<>>, p) /\ ~Tells(<<>>, p, w)
    /\ \A q \in Seq(Line) : \A p, w : Silent(q, p) => ~Tells(q, p, w) /\ ~Alerts(q, p)
  BY DEF Silent, Tells, LastOf, Alerts

\* Herdr tells of what happens in a pane.
LEMMA HerdrKeeps ==
    ASSUME StreamInv, NEW p \in Panes, Turn(p) \/ Detected(p) \/ Closed(p) \/ Updates(p)
    PROVE  StreamInv'
  <1>1. world \in Worlds /\ world[p] \in Agent \cup {Nobody} /\ missed \subseteq Panes
    BY DEF StreamInv, StreamTypes, Worlds
  <1>2. ASSUME NEW a \in Agent \cup {Nobody}, NEW kind \in {"status", "structural"}, Changes(kind, p, a),
               kind = "status" => a \in Agent /\ a.terminal = world[p].terminal
        PROVE  StreamInv'
    <2> DEFINE e == [kind |-> kind, pane |-> p, agent |-> a]
    <2>1. e \in Line /\ e.pane = p /\ e.kind = kind /\ e.agent = a
      BY <1>2 DEF Line
    <2>2. Pushes(e) /\ world' = [world EXCEPT ![p] = a]
          /\ missed' = IF Astray(e) THEN missed \cup {p} ELSE missed
      BY <1>2 DEF Changes
    <2> HIDE DEF e
    <2>3. missed \subseteq missed' /\ missed' \subseteq Panes /\ (p \in missed' \/ ~Astray(e))
      BY <1>1, <2>2
    <2> QED
      BY <1>2, <2>1, <2>2, <2>3, PushesKeeps
  <1>3. CASE Turn(p)
    <2>1. PICK s \in Statuses : Changes("status", p, [world[p] EXCEPT !.status = s])
      BY <1>3 DEF Turn
    <2>2. world[p] \in Agent
      BY <1>1, <1>3 DEF Turn
    <2>3. PICK a : a = [world[p] EXCEPT !.status = s]
      OBVIOUS
    <2>4. a \in Agent /\ a.terminal = world[p].terminal
      BY <2>2, <2>3 DEF Agent
    <2> QED
      BY <1>2, <2>1, <2>3, <2>4
  <1>4. CASE Detected(p)
    <2>1. PICK t \in Terminals : Changes("structural", p, [terminal |-> t, status |-> "idle"])
      BY <1>4 DEF Detected
    <2>2. PICK a : a = [terminal |-> t, status |-> "idle"]
      OBVIOUS
    <2>3. a \in Agent
      BY <2>2 DEF Agent, Statuses
    <2> QED
      BY <1>2, <2>1, <2>2, <2>3
  <1>5. CASE Closed(p)
    BY <1>2, <1>5 DEF Closed
  <1>6. CASE Updates(p)
    <2> DEFINE e == [kind |-> "update", pane |-> p, agent |-> world[p]]
    <2>1. e \in Line /\ e.pane = p /\ e.kind = "update" /\ e.agent = world[p]
      BY <1>1 DEF Line
    <2>2. Pushes(e) /\ world' = world /\ missed' = missed /\ world = [world EXCEPT ![p] = world[p]]
      BY <1>1, <1>6 DEF Updates, Worlds
    <2> HIDE DEF e
    <2> QED
      BY <1>1, <2>1, <2>2, PushesKeeps
  <1> QED
    BY <1>3, <1>4, <1>5, <1>6

\* What waits for the registry is in the same queues as before.
LEMMA Requeued ==
    ASSUME StreamInv, conn'.q = conn.q, next'.q = next.q, conn' \in Connection, next' \in Connection,
           conn'.panes = conn.panes \/ conn.q = <<>>, next'.panes = next.panes \/ next.q = <<>>,
           UNCHANGED <<world, known, out, coalesce, missed>>,
           asked' \in SUBSET Panes, panes' \in SUBSET Panes, Serving'
    PROVE  StreamInv'
  <1>1. StreamTypes'
    BY DEF StreamInv, StreamTypes
  <1>2. Words(conn') /\ Words(next')
    BY DEF StreamInv, Words
  <1>3. Watches(conn') /\ Watches(next')
    BY DEF StreamInv, Watches
  <1>4. \A p \in Panes \ missed' : Due(p)' /\ Placed(p)'
    BY DEF StreamInv, Due, Placed
  <1> QED
    BY <1>1, <1>2, <1>3, <1>4 DEF StreamInv

\* When Herdr goes away, what was written can still be read.
LEMMA DownKeeps ==
    ASSUME StreamInv, Down
    PROVE  StreamInv'
  <1>1. conn \in Connection /\ next \in Connection /\ Serving
    BY DEF StreamInv, StreamTypes
  <1>2. /\ conn' \in Connection /\ conn'.q = conn.q /\ conn'.panes = conn.panes /\ ~conn'.live
        /\ next' \in Connection /\ next'.q = next.q /\ next'.panes = next.panes
    BY <1>1 DEF Down, Connection
  <1>3. (conn = NoConn => conn' = NoConn) /\ (next = NoConn => next' = NoConn)
    <2>1. \A c \in Connection : ~c.live => [c EXCEPT !.live = FALSE] = c
      BY DEF Connection
    <2> QED
      BY <2>1, Empty DEF Down
  <1>4. Serving'
    BY <1>1, <1>2, <1>3 DEF Down, Serving
  <1> QED
    BY <1>1, <1>2, <1>4, Requeued DEF Down, regVars, StreamInv, StreamTypes

\* Run and serve between two connections, and the signals.
LEMMA BetweenKeeps ==
    ASSUME StreamInv, Up \/ Fails \/ Wakes \/ Swaps \/ Keeps \/ Signals
    PROVE  StreamInv'
  <1>1. /\ UNCHANGED <<conn, next, world, known, out, coalesce, missed>>
        /\ panes' = panes /\ (asked' = asked \/ asked' = panes)
    BY DEF Up, Fails, Wakes, Swaps, Keeps, Signals, Calm, Env, regVars, streamVars
  <1>2. Serving'
    BY <1>1 DEF StreamInv, Serving, Up, Fails, Backs, Wakes, Swaps, Keeps, Signals, streamVars
  <1> QED
    BY <1>1, <1>2, Requeued DEF StreamInv, StreamTypes

\* A connection begins with nothing on it.
LEMMA ConnectsKeeps ==
    ASSUME StreamInv, Connects \/ Replaced
    PROVE  StreamInv'
  <1>1. StreamTypes /\ Serving
    BY DEF StreamInv
  <1>2. /\ Subscribed(asked) \in Connection /\ Subscribed(asked).q = <<>> /\ Subscribed(asked).live
        /\ NoConn.q = <<>>
    BY <1>1, Empty DEF StreamTypes
  <1>3. UNCHANGED <<world, known, out, coalesce, missed, asked, panes>>
    BY DEF Connects, Replaced, Calm, Env, regVars
  <1>4. CASE Connects
    <2>1. conn = NoConn /\ next = NoConn /\ conn' = Subscribed(asked) /\ next' = next /\ pc' = "serve"
      BY <1>1, <1>4 DEF Connects, Serving
    <2>2. Serving'
      BY <1>2, <2>1 DEF Serving
    <2> QED
      BY <1>1, <1>2, <1>3, <2>1, <2>2, Requeued DEF StreamTypes
  <1>5. CASE Replaced
    <2>1. next = NoConn /\ next' = Subscribed(asked) /\ conn' = conn /\ pc' = "drain"
      BY <1>1, <1>5 DEF Replaced, Serving
    <2>2. Serving'
      BY <1>2, <2>1 DEF Serving
    <2> QED
      BY <1>1, <1>2, <1>3, <2>1, <2>2, Requeued DEF StreamTypes
  <1> QED
    BY <1>4, <1>5

\* The line that is read is older than what is left on the connection and newer
\* than what the registry has still to take.
LEMMA ReadsKeeps ==
    ASSUME StreamInv, Reads
    PROVE  StreamInv'
  <1> DEFINE e == Head(conn.q)
             q == Tail(conn.q)
  <1>1. StreamTypes /\ Serving /\ Watches(conn) /\ Words(conn)
    BY DEF StreamInv
  <1>2. conn \in Connection /\ conn.q \in Seq(Line) /\ conn.q # <<>> /\ out \in Seq(Line)
    BY <1>1 DEF StreamTypes, Connection, Reads
  <1>3. /\ q \in Seq(Line) /\ e \in Line
        /\ \A p, w : /\ Silent(conn.q, p) => Silent(q, p) /\ e.pane # p
                     /\ Tells(conn.q, p, w) => \/ Tells(q, p, w)
                                               \/ /\ Silent(q, p) /\ e.pane = p
                                                  /\ e.kind = "structural" \/ e.agent.status = w[p].status
                     /\ Alerts(conn.q, p) => Alerts(q, p) \/ (e.pane = p /\ e.kind = "structural")
                     /\ \A i : LastOf(conn.q, p, i) => Silent(q, p) \/ LastOf(q, p, i - 1)
    BY <1>2, TailSays
  <1>4. \A i \in 1..Len(q) : i + 1 \in 1..Len(conn.q) /\ q[i] = conn.q[i + 1]
    BY <1>2
  <1>5. conn' = [conn EXCEPT !.q = q] /\ out' = Append(out, e) /\ pc \in {"serve", "drain"}
    BY DEF Reads
  <1> HIDE DEF e, q
  <1>6. conn' \in Connection /\ conn'.q = q /\ conn'.live = conn.live /\ conn'.panes = conn.panes
    BY <1>2, <1>3, <1>5 DEF Connection
  <1>7. UNCHANGED <<world, known, next, coalesce, missed, asked, panes, pc>>
    BY DEF Reads, Calm, Env, regVars
  <1>8. /\ out' \in Seq(Line)
        /\ \A p, w : /\ e.pane # p => /\ Silent(out, p) => Silent(out', p)
                                      /\ Tells(out, p, w) => Tells(out', p, w)
                     /\ e.pane = p /\ (e.kind = "structural" \/ e.agent.status = w[p].status)
                          => Tells(out', p, w)
                     /\ Alerts(out, p) => Alerts(out', p)
                     /\ e.pane = p /\ e.kind = "structural" => Alerts(out', p)
    BY <1>2, <1>3, <1>5, AppendSays
  <1>9. StreamTypes'
    BY <1>1, <1>6, <1>7, <1>8 DEF StreamTypes
  <1>10. Serving'
    BY <1>1, <1>5, <1>6, <1>7 DEF Serving
  <1>11. Watches(conn') /\ Words(conn')
    <2>1. Watches(conn')
      BY <1>1, <1>4, <1>6 DEF Watches
    <2>2. Words(conn')
      BY <1>1, <1>3, <1>6 DEF Words
    <2> QED
      BY <2>1, <2>2
  <1>12. \A p \in Panes \ missed' : Due(p)'
    <2> TAKE p \in Panes \ missed'
    <2>1. Due(p)
      BY <1>7 DEF StreamInv
    <2>2. world' = world /\ known' = known /\ next' = next /\ coalesce' = coalesce
      BY <1>7
    <2> QED
      BY <1>3, <1>6, <1>8, <2>1, <2>2 DEF Due
  <1>13. \A p \in Panes \ missed' : Placed(p)'
    <2> TAKE p \in Panes \ missed'
    <2>1. Placed(p) /\ world' = world /\ known' = known /\ next' = next /\ coalesce' = coalesce
      BY <1>7 DEF StreamInv
    <2> QED
      BY <1>3, <1>6, <1>8, <2>1 DEF Placed
  <1> QED
    BY <1>7, <1>9, <1>10, <1>11, <1>12, <1>13 DEF StreamInv

\* The reset is of no pane.
LEMMA BreaksKeeps ==
    ASSUME StreamInv, Breaks
    PROVE  StreamInv'
  <1> DEFINE e == [kind |-> "reset", pane |-> "all", agent |-> Nobody]
  <1>1. StreamTypes /\ Serving
    BY DEF StreamInv
  <1>2. /\ out \in Seq(Line) /\ e \in Line /\ conn.q = <<>> /\ pc' = "sleep" /\ next = NoConn
        /\ out' = Append(out, e) /\ conn' = NoConn
    BY <1>1 DEF StreamTypes, Line, Breaks, Backs, Serving
  <1>3. UNCHANGED <<world, known, next, coalesce, missed, asked, panes>>
    BY DEF Breaks, Calm, Env, regVars
  <1>4. \A p \in Panes : e.pane # p
    BY StreamAssumption
  <1> HIDE DEF e
  <1>5. /\ out' \in Seq(Line)
        /\ \A p \in Panes : \A w :
             /\ Silent(out, p) => Silent(out', p)
             /\ Tells(out, p, w) => Tells(out', p, w)
             /\ Alerts(out, p) => Alerts(out', p)
    BY <1>2, <1>4, AppendSays
  <1>6. /\ NoConn \in Connection /\ NoConn.q = <<>> /\ ~NoConn.live /\ Watches(NoConn) /\ Words(NoConn)
    BY Empty
  <1>7. StreamTypes'
    BY <1>1, <1>2, <1>3, <1>5, <1>6 DEF StreamTypes
  <1>8. Serving'
    BY <1>2, <1>3, <1>6 DEF Serving
  <1>9. \A p \in Panes \ missed' : Due(p)'
    <2> TAKE p \in Panes \ missed'
    <2>1. Due(p)
      BY <1>3 DEF StreamInv
    <2>2. world' = world /\ known' = known /\ next' = next /\ coalesce' = coalesce
      BY <1>3
    <2> QED
      BY <1>2, <1>5, <1>6, <2>1, <2>2 DEF Due
  <1>10. \A p \in Panes \ missed' : Placed(p)'
    BY <1>2, <1>3, <1>5, <1>6 DEF StreamInv, Placed
  <1> QED
    BY <1>2, <1>3, <1>6, <1>7, <1>8, <1>9, <1>10 DEF StreamInv

\* What the drain leaves unread is missed; the replacement becomes the connection.
LEMMA DrainedKeeps ==
    ASSUME StreamInv, Drained
    PROVE  StreamInv'
  <1>1. StreamTypes /\ Serving /\ Watches(next) /\ Words(next)
    BY DEF StreamInv
  <1>2. /\ conn' = next /\ next' = NoConn /\ pc' = "serve"
        /\ UNCHANGED <<world, known, out, coalesce, asked, panes>>
    BY DEF Drained, Calm, Env, regVars
  <1>3. /\ NoConn \in Connection /\ NoConn.q = <<>> /\ Watches(NoConn) /\ Words(NoConn)
    BY Empty
  <1>4. conn.q \in Seq(Line)
    BY <1>1 DEF StreamTypes, Connection
  <1>5. missed' = missed \cup {p \in Panes : \E e \in Range(conn.q) : e.pane = p}
    BY DEF Drained
  <1>6. StreamTypes'
    BY <1>1, <1>2, <1>3, <1>5 DEF StreamTypes
  <1>7. Serving'
    BY <1>2, <1>3 DEF Serving
  <1>8. \A p \in Panes \ missed' : Due(p)' /\ Placed(p)'
    <2> TAKE p \in Panes \ missed'
    <2>1. Due(p)
      BY <1>5 DEF StreamInv
    <2>2. Silent(conn.q, p)
      BY <1>4, <1>5 DEF Silent, Range
    <2>3. ~Tells(conn.q, p, world)
      BY <1>4, <2>2, TellsNone
    <2>4. Silent(next'.q, p)
      BY <1>2, <1>3, TellsNone
    <2>5. ~Alerts(conn.q, p) /\ Placed(p)
      BY <1>4, <1>5, <2>2, TellsNone DEF StreamInv
    <2>6. Due(p)'
      BY <1>2, <2>1, <2>2, <2>3, <2>4 DEF Due
    <2>7. Placed(p)'
      BY <1>2, <2>5 DEF Placed
    <2> QED
      BY <2>6, <2>7
  <1> QED
    BY <1>1, <1>2, <1>3, <1>6, <1>7, <1>8 DEF StreamInv

-----------------------------------------------------------------------------
(* The steps of the registry.                                              *)

\* Nothing in a queue made of two is of p only if nothing in either is.
LEMMA JoinSays ==
    ASSUME NEW s \in Seq(Line), NEW t \in Seq(Line), NEW p
    PROVE  s \o t \in Seq(Line) /\ (Silent(s \o t, p) => Silent(s, p) /\ Silent(t, p))
  <1> DEFINE all == s \o t
  <1>1. /\ all \in Seq(Line)
        /\ \A i \in 1..Len(s) : i \in 1..Len(all) /\ all[i] = s[i]
        /\ \A i \in 1..Len(t) : i + Len(s) \in 1..Len(all) /\ all[i + Len(s)] = t[i]
    OBVIOUS
  <1> HIDE DEF all
  <1>2. Silent(all, p) => Silent(s, p) /\ Silent(t, p)
    BY <1>1 DEF Silent
  <1> QED
    BY <1>1, <1>2 DEF all

\* A listing of the agents takes in what nothing waits for any more; what still
\* waits is applied after it.
LEMMA SnapshotKeeps ==
    ASSUME StreamInv, Snapshot, UNCHANGED Others, out' \in Seq(Line),
           \A p \in Panes : /\ Silent(out, p) => Silent(out', p)
                            /\ Tells(out, p, world) => Tells(out', p, world)
    PROVE  StreamInv'
  <1>1. StreamTypes /\ Serving /\ Watches(conn) /\ Watches(next) /\ Words(conn) /\ Words(next)
    BY DEF StreamInv
  <1>2. UNCHANGED <<world, conn, next, pc, asked>>
    BY DEF Others, streamVars
  <1>3. StreamTypes'
    <2>1. Agents(world) \subseteq Panes
      BY DEF Agents
    <2> QED
      BY <1>1, <1>2, <2>1 DEF StreamTypes, Snapshot, SetPanes, Unseen
  <1>4. Serving'
    BY <1>1, <1>2 DEF Serving
  <1>5. /\ conn.q \in Seq(Line) /\ next.q \in Seq(Line) /\ out \in Seq(Line)
    BY <1>1 DEF StreamTypes, Connection
  <1>6. \A p \in Panes : Covered(p) => Silent(out, p) /\ Silent(conn.q, p) /\ Silent(next.q, p)
    <2> DEFINE both == out \o conn.q
               all == both \o next.q
    <2>1. both \in Seq(Line) /\ \A p : Silent(both, p) => Silent(out, p) /\ Silent(conn.q, p)
      BY <1>5, JoinSays
    <2> HIDE DEF both
    <2>2. all \in Seq(Line) /\ \A p : Silent(all, p) => Silent(both, p) /\ Silent(next.q, p)
      BY <1>5, <2>1, JoinSays
    <2> HIDE DEF all
    <2>3. \A i \in 1..Len(all) : all[i] \in Range(all)
      BY <2>2 DEF Range
    <2>4. \A p \in Panes : Covered(p) => Silent(all, p)
      BY <2>3 DEF Covered, Silent, both, all
    <2> QED
      BY <2>1, <2>2, <2>4
  <1>7. ASSUME NEW p \in Panes \ missed'
        PROVE  Due(p)'
    <2>1. up /\ known' = world /\ missed' = Unseen
      BY <1>7 DEF Snapshot
    <2>2. CASE p \in missed
      <3>1. Silent(out, p) /\ Silent(conn.q, p) /\ Silent(next.q, p)
        BY <1>6, <1>7, <2>1, <2>2 DEF Unseen
      <3> QED
        BY <1>2, <2>1, <3>1 DEF Due
    <2>3. CASE p \notin missed
      <3>1. Due(p)
        BY <2>3 DEF StreamInv
      <3>2. world' = world /\ conn' = conn /\ next' = next
        BY <1>2
      <3> QED
        BY <2>1, <3>1, <3>2 DEF Due
    <2> QED
      BY <2>2, <2>3
  <1>8. \A p \in Panes \ missed' : Placed(p)'
    BY <1>2 DEF Snapshot, Placed
  <1> QED
    BY <1>1, <1>2, <1>3, <1>4, <1>7, <1>8 DEF StreamInv

\* The tick and the first snapshot.
LEMMA ListsKeeps ==
    ASSUME StreamInv, Lists
    PROVE  StreamInv'
  <1>1. out' = out /\ UNCHANGED Others /\ Snapshot /\ out \in Seq(Line)
    BY DEF Lists, StreamInv, StreamTypes
  <1> QED
    BY <1>1, SnapshotKeeps

\* The registry takes the oldest event: a status it applies, and an agent that it
\* knows, unless it does not know the pane or its terminal; then, as for a
\* structural event, it will ask.
LEMMA ApplyKeeps ==
    ASSUME StreamInv, Apply
    PROVE  StreamInv'
  <1> DEFINE e == Head(out)
             r == Tail(out)
  <1>1. StreamTypes /\ Serving /\ Watches(conn) /\ Watches(next) /\ Words(conn) /\ Words(next)
    BY DEF StreamInv
  <1>2. out \in Seq(Line) /\ out # <<>> /\ out' = r /\ UNCHANGED Others
    BY <1>1 DEF StreamTypes, Apply
  <1>3. /\ r \in Seq(Line) /\ e \in Line
        /\ \A p, w : /\ Silent(out, p) => Silent(r, p) /\ e.pane # p
                     /\ Tells(out, p, w) => \/ Tells(r, p, w)
                                            \/ /\ Silent(r, p) /\ e.pane = p
                                               /\ e.kind = "structural" \/ e.agent.status = w[p].status
                     /\ Alerts(out, p) => Alerts(r, p) \/ (e.pane = p /\ e.kind = "structural")
    BY <1>2, TailSays
  <1>4. /\ e.kind \in {"status", "structural", "update", "reset"}
        /\ e.kind # "reset" => e.pane \in Panes
        /\ e.kind = "reset" => e.pane \notin Panes
        /\ e.kind = "status" => e.agent \in Agent
        /\ e.agent \in Agent \cup {Nobody}
    BY <1>3, LineFacts
  <1>5. \/ e.kind = "reset" /\ Snapshot
        \/ e.kind = "structural" /\ coalesce' = TRUE /\ UNCHANGED <<known, panes, changed, missed>>
        \/ e.kind = "status" /\ ApplyStatus(e)
        \/ e.kind = "update" /\ ApplyUpdate(e)
    BY DEF Apply
  <1> HIDE DEF e, r
  <1>6. CASE e.kind = "reset" /\ Snapshot
    BY <1>2, <1>3, <1>4, <1>6, SnapshotKeeps
  <1>7. ASSUME e.kind # "reset", UNCHANGED <<panes, missed>>, known' \in Worlds, coalesce' \in BOOLEAN,
               e.kind = "structural" => coalesce',
               coalesce => coalesce',
               \A p \in Panes : known'[p].terminal = known[p].terminal,
               \A p \in Panes \ {e.pane} : known'[p] = known[p],
               \/ coalesce' \/ known'[e.pane].status = e.agent.status
               \/ e.agent = Nobody /\ known'[e.pane] = known[e.pane]
        PROVE  StreamInv'
    <2>1. UNCHANGED <<world, conn, next, pc, asked>>
      BY <1>2 DEF Others, streamVars
    <2>2. StreamTypes'
      BY <1>1, <1>2, <1>3, <1>7, <2>1 DEF StreamTypes
    <2>3. Serving'
      BY <1>1, <2>1 DEF Serving
    <2>4. ASSUME NEW p \in Panes \ missed'
          PROVE  Due(p)' /\ Placed(p)'
      <3>1. Due(p) /\ Placed(p)
        BY <1>7, <2>4 DEF StreamInv
      <3>2. world' = world /\ conn' = conn /\ next' = next /\ coalesce \in BOOLEAN
        BY <1>1, <2>1 DEF StreamTypes
      <3>3. Placed(p)'
        BY <1>2, <1>3, <1>7, <3>1, <3>2 DEF Placed
      <3>4. CASE Tells(next.q, p, world) \/ (Silent(next.q, p) /\ Tells(conn.q, p, world))
        BY <3>2, <3>3, <3>4 DEF Due
      <3>5. CASE Silent(next.q, p) /\ Silent(conn.q, p) /\ Tells(out, p, world)
        <4>1. CASE Tells(r, p, world)
          BY <1>2, <3>2, <3>3, <3>5, <4>1 DEF Due
        <4>2. CASE Silent(r, p) /\ e.pane = p /\ (e.kind = "structural" \/ e.agent.status = world[p].status)
          <5>1. coalesce' \/ known'[p].status = world[p].status
            <6>1. CASE e.kind = "structural" \/ coalesce'
              BY <1>7, <6>1
            <6>2. CASE e.kind # "structural" /\ known'[e.pane].status = e.agent.status
              BY <4>2, <6>2
            <6>3. CASE e.kind # "structural" /\ ~coalesce' /\ e.agent = Nobody /\ known'[e.pane] = known[e.pane]
              <7>1. world[p].status = "none" /\ world[p] \in Agent \cup {Nobody} /\ known[p] \in Agent \cup {Nobody}
                BY <1>1, <4>2, <6>3, AgentFacts DEF StreamTypes, Worlds
              <7>2. world[p] = Nobody
                BY <7>1 DEF Agent, Statuses
              <7>3. ~Alerts(r, p) /\ ~Alerts(conn.q, p) /\ ~Alerts(next.q, p)
                BY <1>1, <1>3, <3>5, <4>2, TellsNone DEF StreamTypes, Connection
              <7>4. known'[p].terminal = world[p].terminal
                BY <1>2, <3>2, <3>3, <6>3, <7>3 DEF Placed
              <7>5. known[p] = Nobody
                BY <1>7, <7>1, <7>2, <7>4, AgentFacts
              <7> QED
                BY <4>2, <6>3, <7>2, <7>5
            <6> QED
              BY <1>7, <6>1, <6>2, <6>3
          <5> QED
            BY <1>2, <3>2, <3>3, <3>5, <4>2, <5>1 DEF Due
        <4> QED
          BY <1>3, <3>5, <4>1, <4>2
      <3>6. CASE /\ Silent(next.q, p) /\ Silent(conn.q, p) /\ Silent(out, p)
                 /\ coalesce \/ known[p].status = world[p].status
        <4>1. Silent(r, p) /\ e.pane # p
          BY <1>3, <3>6
        <4>2. coalesce' \/ known'[p].status = world[p].status
          BY <1>7, <3>2, <3>6, <4>1
        <4> QED
          BY <1>2, <3>2, <3>3, <3>6, <4>1, <4>2 DEF Due
      <3> QED
        BY <3>1, <3>4, <3>5, <3>6 DEF Due
    <2> QED
      BY <1>1, <2>1, <2>2, <2>3, <2>4 DEF StreamInv
  <1>8. CASE e.kind = "structural" /\ coalesce' = TRUE /\ UNCHANGED <<known, panes, changed, missed>>
    BY <1>1, <1>7, <1>8 DEF StreamTypes
  <1>9. CASE e.kind = "status" /\ ApplyStatus(e)
    <2>1. known \in Worlds /\ coalesce \in BOOLEAN /\ e.pane \in Panes /\ e.agent.status \in Statuses
      BY <1>1, <1>4, <1>9 DEF StreamTypes, Agent
    <2>2. CASE known[e.pane] = Nobody
      <3>1. coalesce' = TRUE /\ known' = known /\ UNCHANGED <<panes, missed>>
        BY <1>9, <2>2 DEF ApplyStatus
      <3> QED
        BY <1>7, <1>9, <2>1, <3>1
    <2>3. CASE known[e.pane] # Nobody
      <3>1. PICK a : a = [known[e.pane] EXCEPT !.status = e.agent.status]
        OBVIOUS
      <3>2. known[e.pane] \in Agent
        BY <2>1, <2>3 DEF Worlds
      <3>3. a \in Agent /\ a.terminal = known[e.pane].terminal /\ a.status = e.agent.status
        BY <2>1, <3>1, <3>2 DEF Agent
      <3>4. known' = [known EXCEPT ![e.pane] = a] /\ coalesce' = coalesce /\ UNCHANGED <<panes, missed>>
        BY <1>9, <2>3, <3>1 DEF ApplyStatus
      <3>5. /\ known' \in Worlds /\ known'[e.pane] = a
            /\ \A p \in Panes \ {e.pane} : known'[p] = known[p]
        BY <2>1, <3>3, <3>4 DEF Worlds
      <3>6. \A p \in Panes : known'[p].terminal = known[p].terminal
        BY <3>3, <3>5
      <3> QED
        BY <1>7, <1>9, <2>1, <3>3, <3>4, <3>5, <3>6
    <2> QED
      BY <2>2, <2>3
  <1>10. CASE e.kind = "update" /\ ApplyUpdate(e)
    <2>1. known \in Worlds /\ coalesce \in BOOLEAN /\ e.pane \in Panes /\ e.agent \in Agent \cup {Nobody}
      BY <1>1, <1>4, <1>10 DEF StreamTypes
    <2>2. UNCHANGED <<panes, missed>>
      BY <1>10 DEF ApplyUpdate
    <2>3. CASE e.agent.terminal = known[e.pane].terminal
      <3>1. known' = [known EXCEPT ![e.pane] = e.agent] /\ coalesce' = coalesce
        BY <1>10, <2>3 DEF ApplyUpdate
      <3>2. /\ known' \in Worlds /\ known'[e.pane] = e.agent
            /\ \A p \in Panes \ {e.pane} : known'[p] = known[p]
        BY <2>1, <3>1 DEF Worlds
      <3>3. \A p \in Panes : known'[p].terminal = known[p].terminal
        BY <2>3, <3>2
      <3> QED
        BY <1>7, <1>10, <2>1, <2>2, <3>1, <3>2, <3>3
    <2>4. CASE e.agent.terminal # known[e.pane].terminal
      <3>1. known' = known /\ coalesce' = (coalesce \/ e.agent # Nobody)
        BY <1>10, <2>4 DEF ApplyUpdate
      <3> QED
        BY <1>7, <1>10, <2>1, <2>2, <3>1
    <2> QED
      BY <2>3, <2>4
  <1> QED
    BY <1>5, <1>6, <1>8, <1>9, <1>10

-----------------------------------------------------------------------------
\* The panes that hold an agent at first are missed until the first snapshot.
LEMMA StreamInitInv == StreamInit => StreamInv
  <1> SUFFICES ASSUME StreamInit PROVE StreamInv
    OBVIOUS
  <1>1. /\ NoConn \in Connection /\ NoConn.q = <<>> /\ ~NoConn.live /\ Watches(NoConn) /\ Words(NoConn)
    BY Empty
  <1>2. world \in Worlds /\ known \in Worlds /\ \A p \in Panes \ Start : known[p] = world[p]
    BY DEF StreamInit, Worlds, Agent, Agents, Statuses
  <1>3. StreamTypes
    BY <1>1, <1>2, StreamAssumption, TellsNone DEF StreamInit, StreamTypes
  <1>4. \A p \in Panes \ missed : Due(p) /\ Placed(p)
    BY <1>1, <1>2, TellsNone DEF StreamInit, Due, Placed
  <1> QED
    BY <1>1, <1>3, <1>4 DEF StreamInit, StreamInv, Serving

\* Every step keeps the invariant of the stream.
LEMMA StreamStep == StreamInv /\ [StreamNext]_systemVars => StreamInv'
  <1> SUFFICES ASSUME StreamInv, [StreamNext]_systemVars
               PROVE  StreamInv'
    OBVIOUS
  <1>1. ASSUME UNCHANGED systemVars PROVE StreamInv'
    <2>1. UNCHANGED <<conn, next, world, known, out, coalesce, missed, panes, asked, pc>>
      BY <1>1 DEF systemVars, streamVars, regVars
    <2>2. Serving'
      BY <2>1 DEF StreamInv, Serving
    <2> QED
      BY <2>1, <2>2, Requeued DEF StreamInv, StreamTypes
  <1>2. CASE Herdr
    BY <1>2, DownKeeps, HerdrKeeps DEF Herdr
  <1>3. CASE Up
    BY <1>3, BetweenKeeps
  <1>4. CASE Stream
    BY <1>4, ConnectsKeeps, BetweenKeeps, ReadsKeeps, BreaksKeeps, DrainedKeeps DEF Stream
  <1>5. CASE Registry
    BY <1>5, ApplyKeeps, ListsKeeps DEF Registry
  <1> QED
    BY <1>1, <1>2, <1>3, <1>4, <1>5 DEF StreamNext

\* When nothing waits, what is due is what the registry has.
LEMMA StreamInvTakesAllIn == StreamInv => TakesAllIn
  <1> SUFFICES ASSUME StreamInv, Quiet, NEW p \in Panes \ missed
               PROVE  known[p] = world[p]
    BY DEF TakesAllIn
  <1>1. next.q = <<>>
    BY Empty DEF StreamInv, Serving, Quiet
  <1>2. /\ Due(p) /\ Placed(p)
        /\ known[p] \in Agent \cup {Nobody} /\ world[p] \in Agent \cup {Nobody}
    BY DEF StreamInv, StreamTypes, Worlds
  <1>3. /\ known[p].status = world[p].status /\ known[p].terminal = world[p].terminal
    BY <1>1, <1>2, TellsNone DEF Due, Placed, Quiet
  <1> QED
    BY <1>2, <1>3, AgentFacts

\* Nothing is lost by a swap of connections, an event on both of them, an event
\* older than the snapshot it follows, an update of an agent that was replaced, or
\* the order in which serve and the registry select: once all is taken in, the
\* registry knows the agent of a pane as Herdr does, unless a change of it was
\* missed (serve, drainOld, Registry.Apply, applySnapshot).
THEOREM SpecTakesAllIn == StreamSpec => []TakesAllIn
  <1>1. StreamSpec => []StreamInv
    BY StreamInitInv, StreamStep, PTL DEF StreamSpec
  <1> QED
    BY <1>1, StreamInvTakesAllIn, PTL

-----------------------------------------------------------------------------
(* The backoff of Run.                                                     *)

BackoffInv == attempt \in 0..MaxAttempt /\ delay \in Nat /\ delay <= NextDelay(attempt)

\* The delay of the next attempt is no shorter (Backoff.Next).
LEMMA DelayGrows ==
    ASSUME NEW n \in 0..MaxAttempt
    PROVE  NextDelay(n) \in Nat /\ Bump(n) \in 0..MaxAttempt /\ NextDelay(n) <= NextDelay(Bump(n))
  <1>1. 2 ^ n \in Nat /\ 2 ^ (n + 1) = 2 * 2 ^ n /\ MaxDelay \in Nat /\ MaxAttempt \in Nat
    BY DoublingAssumption, StreamAssumption
  <1> DEFINE a == 2 ^ n
             b == 2 ^ (n + 1)
  <1> HIDE DEF a, b
  <1>2. a \in Nat /\ b = 2 * a /\ MaxDelay \in Nat
    BY <1>1 DEF a, b
  <1>3. (IF a < MaxDelay THEN a ELSE MaxDelay) \in Nat
        /\ (IF a < MaxDelay THEN a ELSE MaxDelay) <= (IF b < MaxDelay THEN b ELSE MaxDelay)
    BY <1>2
  <1>4. /\ NextDelay(n) = (IF a < MaxDelay THEN a ELSE MaxDelay)
        /\ NextDelay(n + 1) = (IF b < MaxDelay THEN b ELSE MaxDelay)
    BY DEF NextDelay, a, b
  <1>5. Bump(n) \in 0..MaxAttempt /\ (Bump(n) = n \/ Bump(n) = n + 1)
    BY <1>1 DEF Bump
  <1>6. NextDelay(n) <= NextDelay(n)
    BY <1>3, <1>4
  <1> QED
    BY <1>3, <1>4, <1>5, <1>6

\* Every step keeps the delay within what the attempt allows.
LEMMA BackoffStep == BackoffInv /\ [StreamNext]_systemVars => BackoffInv'
  <1> SUFFICES ASSUME BackoffInv, [StreamNext]_systemVars
               PROVE  BackoffInv'
    OBVIOUS
  <1>1. ASSUME NEW lived \in BOOLEAN, Backs(lived)
        PROVE  BackoffInv'
    <2> DEFINE n == IF lived THEN 0 ELSE attempt
    <2>1. n \in 0..MaxAttempt
      BY StreamAssumption DEF BackoffInv
    <2>2. delay' = NextDelay(n) /\ attempt' = Bump(n)
      BY <1>1 DEF Backs
    <2> HIDE DEF n
    <2> QED
      BY <2>1, <2>2, DelayGrows DEF BackoffInv
  <1>2. CASE UNCHANGED <<attempt, delay>>
    BY <1>2 DEF BackoffInv, NextDelay
  <1>3. UNCHANGED <<attempt, delay>> \/ \E lived \in BOOLEAN : Backs(lived)
    BY DEF StreamNext, Herdr, Stream, Registry, Down, Turn, Detected, Closed, Updates, Changes, Pushes, Up, Connects, Fails,
           Wakes, Swaps, Replaced, Keeps, Signals, Reads, Breaks, Drained, Apply, Lists, Others,
           systemVars, streamVars
  <1> QED
    BY <1>1, <1>2, <1>3

\* A stream that flaps climbs the backoff: the delay before a connection attempt
\* never falls unless the connection before it was stable (Run, stableAfter).
THEOREM SpecFlappingClimbs == StreamSpec => FlappingClimbs
  <1>1. StreamInit => BackoffInv
    <2>1. NextDelay(0) \in Nat /\ MaxAttempt \in Nat
      BY DelayGrows, StreamAssumption
    <2> QED
      BY <2>1 DEF StreamInit, BackoffInv
  <1>2. ASSUME BackoffInv, [StreamNext]_systemVars
        PROVE  [pc # "sleep" /\ pc' = "sleep" => (delay' >= delay \/ stable')]_systemVars
    <2> SUFFICES ASSUME pc # "sleep", pc' = "sleep", StreamNext
                 PROVE  delay' >= delay \/ stable'
      BY <1>2
    <2>1. \E lived \in BOOLEAN : Backs(lived)
      BY DEF StreamNext, Herdr, Stream, Registry, Down, Turn, Detected, Closed, Updates, Changes, Pushes, Up, Connects,
             Fails, Wakes, Swaps, Replaced, Keeps, Signals, Reads, Breaks, Drained, Apply, Lists,
             Others, systemVars, streamVars
    <2>2. ASSUME Backs(FALSE) PROVE delay' >= delay
      <3>1. delay' = NextDelay(attempt)
        BY <2>2 DEF Backs
      <3> QED
        BY <1>2, <3>1, DelayGrows DEF BackoffInv
    <2>3. ASSUME Backs(TRUE) PROVE stable'
      BY <2>3 DEF Backs
    <2> QED
      BY <2>1, <2>2, <2>3
  <1>3. StreamSpec => []BackoffInv
    BY <1>1, BackoffStep, PTL DEF StreamSpec
  <1> QED
    BY <1>2, <1>3, PTL DEF StreamSpec, FlappingClimbs
=============================================================================
