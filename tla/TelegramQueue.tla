--------------------------- MODULE TelegramQueue ---------------------------
(***************************************************************************)
(* The serial, paced Telegram call queue                                   *)
(* (internal/adapters/telegram/queue.go).                                  *)
(*                                                                         *)
(* Callers hand their calls to Do; one goroutine, Run, makes them one at a *)
(* time, waits for the token bucket before every attempt and retries       *)
(* transient failures in place.  Time is the queue's own clock (cfg.Now).  *)
(* The bucket is a ring of the last WindowLimit attempt times; attempts is *)
(* the history the ring is compared with.                                  *)
(***************************************************************************)
EXTENDS Naturals, Sequences, FiniteSets

CONSTANTS
    Callers,      \* Do calls; each caller makes one
    QueueBuffer,  \* queueBuffer: calls that may wait in the channel
    MinGap, WindowLimit, Window, MaxTries, MaxWait,  \* QueueConfig
    Second,       \* one second of the clock, the unit of the backoff
    RetryAfters,  \* the waits a 429 may ask for
    Horizon,      \* bound: the clock is followed up to here
    None

\* NewQueue replaces every configured value that is not positive by a default.
ASSUME ConfigAssumption ==
    /\ MinGap \in Nat \ {0} /\ WindowLimit \in Nat \ {0} /\ Window \in Nat \ {0}
    /\ MaxTries \in Nat \ {0} /\ MaxWait \in Nat \ {0} /\ Second \in Nat
    /\ QueueBuffer \in Nat \ {0} /\ Horizon \in Nat /\ RetryAfters \subseteq Nat
    /\ None \notin Callers

VARIABLES
    now,        \* cfg.Now()
    stamps, head, count,    \* the ring of attempt times
    attempts,   \* history: the times of all attempts
    jobs,       \* the channel of waiting calls
    caller,     \* [Callers -> where the Do call is, or how it ended]
    cancelled,  \* callers whose context has ended
    done,       \* [Callers -> what the done channel holds, or None]
    run,        \* the Run goroutine: [at, job, try, wake]
    stopping    \* runCtx has ended

ring == <<stamps, head, count>>
vars == <<now, stamps, head, count, attempts, jobs, caller, cancelled, done, run,
          stopping>>

Outcomes == {"ok", "error", "cancelled", "stopped"}

Working == {"pace", "pacing", "ready", "call", "backoff"}

TypeOK ==
    /\ now \in Nat
    /\ stamps \in [0..(WindowLimit - 1) -> Nat]
    /\ head \in 0..(WindowLimit - 1) /\ count \in 0..WindowLimit
    /\ attempts \in Seq(Nat)
    /\ jobs \in Seq(Callers)
    /\ caller \in [Callers -> {"enqueue", "wait"} \cup Outcomes]
    /\ cancelled \subseteq Callers
    /\ done \in [Callers -> Outcomes \cup {None}]
    /\ run \in [at : Working \cup {"idle", "drain", "stopped"},
                job : Callers \cup {None}, try : Nat, wake : Nat]
    /\ stopping \in BOOLEAN

Resting == [at |-> "idle", job |-> None, try |-> 0, wake |-> 0]

Init ==
    /\ now = 0
    /\ stamps = [k \in 0..(WindowLimit - 1) |-> 0] /\ head = 0 /\ count = 0
    /\ attempts = <<>> /\ jobs = <<>>
    /\ caller = [c \in Callers |-> "enqueue"]
    /\ cancelled = {} /\ done = [c \in Callers |-> None]
    /\ run = Resting /\ stopping = FALSE

-----------------------------------------------------------------------------
(* The ring.  Indices stay below twice its length, where % is this: *)

Wrap(k) == IF k >= WindowLimit THEN k - WindowLimit ELSE k

ASSUME WrapAssumption == \A k \in 0..(2 * WindowLimit - 1) : Wrap(k) = k % WindowLimit

LastStamp == stamps[Wrap(head + count - 1)]

\* pace(): the earliest time the bucket allows another attempt.
Earliest ==
    LET gap  == IF count > 0 THEN LastStamp + MinGap ELSE now
        room == IF count = WindowLimit THEN stamps[head] + Window ELSE now
    IN  IF room > gap THEN room ELSE gap

\* Fault: the head of a full ring runs past its end.
StampUnwrapped ==
    /\ attempts' = Append(attempts, now)
    /\ stamps' = [stamps EXCEPT ![Wrap(head + count)] = now]
    /\ IF count = WindowLimit THEN head' = head + 1 /\ UNCHANGED count
       ELSE count' = count + 1 /\ UNCHANGED head

\* stamp(): the attempt takes the slot of the oldest one once the ring is full.
Stamp ==
    /\ attempts' = Append(attempts, now)
    /\ IF count = WindowLimit
       THEN /\ stamps' = [stamps EXCEPT ![head] = now]
            /\ head' = Wrap(head + 1)
            /\ UNCHANGED count
       ELSE /\ stamps' = [stamps EXCEPT ![Wrap(head + count)] = now]
            /\ count' = count + 1
            /\ UNCHANGED head

-----------------------------------------------------------------------------
(* Do: one select to enqueue, one to wait *)

\* The channel accepts the call, also after the queue has stopped: a select
\* with several ready cases takes any of them.
Enqueue(c) ==
    /\ caller[c] = "enqueue" /\ Len(jobs) < QueueBuffer
    /\ jobs' = Append(jobs, c)
    /\ caller' = [caller EXCEPT ![c] = "wait"]
    /\ UNCHANGED <<now, ring, attempts, cancelled, done, run, stopping>>

Receive(c) ==
    /\ caller[c] = "wait" /\ done[c] # None
    /\ caller' = [caller EXCEPT ![c] = done[c]]
    /\ UNCHANGED <<now, ring, attempts, jobs, cancelled, done, run, stopping>>

\* Fault: only the first select watches the stopped channel.
LeaveQueued(c) ==
    /\ \/ /\ caller[c] \in {"enqueue", "wait"} /\ c \in cancelled
          /\ caller' = [caller EXCEPT ![c] = "cancelled"]
       \/ /\ caller[c] = "enqueue" /\ run.at \in {"drain", "stopped"}
          /\ caller' = [caller EXCEPT ![c] = "stopped"]
    /\ UNCHANGED <<now, ring, attempts, jobs, cancelled, done, run, stopping>>

Leave(c) ==
    /\ caller[c] \in {"enqueue", "wait"}
    /\ \/ /\ c \in cancelled
          /\ caller' = [caller EXCEPT ![c] = "cancelled"]
       \/ /\ run.at \in {"drain", "stopped"}
          /\ caller' = [caller EXCEPT ![c] = "stopped"]
    /\ UNCHANGED <<now, ring, attempts, jobs, cancelled, done, run, stopping>>

-----------------------------------------------------------------------------
(* Run *)

\* The context of the running call ends with its caller's or with runCtx.
Interrupted == stopping \/ run.job \in cancelled

\* The outcome goes to the caller; Run goes on, or leaves when it is stopping.
Reply(c, outcome) ==
    /\ done' = [done EXCEPT ![c] = outcome]
    /\ run' = IF stopping THEN [Resting EXCEPT !.at = "drain"] ELSE Resting

\* sleepErr: an interrupted sleep or call is the queue's end or the caller's.
Interrupt ==
    /\ run.at \in {"pace", "pacing", "call", "backoff"} /\ Interrupted
    /\ Reply(run.job, IF stopping THEN "stopped" ELSE "cancelled")
    /\ UNCHANGED <<now, ring, attempts, jobs, caller, cancelled, stopping>>

\* A call whose caller is gone is answered without an attempt.
Take ==
    /\ run.at = "idle" /\ jobs # <<>>
    /\ jobs' = Tail(jobs)
    /\ IF Head(jobs) \in cancelled
       THEN done' = [done EXCEPT ![Head(jobs)] = "cancelled"] /\ UNCHANGED run
       ELSE /\ run' = [at |-> "pace", job |-> Head(jobs), try |-> 1, wake |-> 0]
            /\ UNCHANGED done
    /\ UNCHANGED <<now, ring, attempts, caller, cancelled, stopping>>

\* Fault: a retry goes out without asking the bucket again.
PaceFirst ==
    /\ run.at = "pace"
    /\ run' = IF run.try > 1 \/ Earliest <= now THEN [run EXCEPT !.at = "ready"]
              ELSE [run EXCEPT !.at = "pacing", !.wake = Earliest]
    /\ UNCHANGED <<now, ring, attempts, jobs, caller, cancelled, done, stopping>>

Pace ==
    /\ run.at = "pace"
    /\ \/ /\ Earliest <= now /\ ~Interrupted
          /\ run' = [run EXCEPT !.at = "ready"]
       \/ /\ Earliest > now
          /\ run' = [run EXCEPT !.at = "pacing", !.wake = Earliest]
    /\ UNCHANGED <<now, ring, attempts, jobs, caller, cancelled, done, stopping>>

\* The timer of pace fires; the select may prefer it to an ended context.
PaceOver ==
    /\ run.at = "pacing" /\ now >= run.wake
    /\ run' = [run EXCEPT !.at = "ready"]
    /\ UNCHANGED <<now, ring, attempts, jobs, caller, cancelled, done, stopping>>

Attempt ==
    /\ run.at = "ready"
    /\ Stamp
    /\ run' = [run EXCEPT !.at = "call"]
    /\ UNCHANGED <<now, jobs, caller, cancelled, done, stopping>>

Succeed ==
    /\ run.at = "call"
    /\ Reply(run.job, "ok")
    /\ UNCHANGED <<now, ring, attempts, jobs, caller, cancelled, stopping>>

\* A final error, the last try, or a 429 that asks for more than MaxWait.
Fail ==
    /\ run.at = "call" /\ ~Interrupted
    /\ Reply(run.job, "error")
    /\ UNCHANGED <<now, ring, attempts, jobs, caller, cancelled, stopping>>

\* backoff(): retry_after for a 429, try squared seconds for the rest.
Retry ==
    /\ run.at = "call" /\ ~Interrupted /\ run.try < MaxTries
    /\ \E wait \in {w \in RetryAfters : w <= MaxWait} \cup {run.try * run.try * Second} :
         run' = [run EXCEPT !.at = "backoff", !.wake = now + wait]
    /\ UNCHANGED <<now, ring, attempts, jobs, caller, cancelled, done, stopping>>

BackoffOver ==
    /\ run.at = "backoff" /\ now >= run.wake
    /\ run' = [run EXCEPT !.at = "pace", !.try = @ + 1]
    /\ UNCHANGED <<now, ring, attempts, jobs, caller, cancelled, done, stopping>>

\* runCtx has ended: Run closes the stopped channel and answers what waits.
Stop ==
    /\ run.at = "idle" /\ stopping
    /\ run' = [run EXCEPT !.at = "drain"]
    /\ UNCHANGED <<now, ring, attempts, jobs, caller, cancelled, done, stopping>>

\* Fault: the drain answers every caller that still waits, not what is queued.
DrainWaiting ==
    /\ run.at = "drain"
    /\ done' = [c \in Callers |-> IF caller[c] = "wait" THEN "stopped" ELSE done[c]]
    /\ run' = [run EXCEPT !.at = "stopped"]
    /\ UNCHANGED <<now, ring, attempts, jobs, caller, cancelled, stopping>>

Drain ==
    /\ run.at = "drain"
    /\ IF jobs = <<>>
       THEN run' = [run EXCEPT !.at = "stopped"] /\ UNCHANGED <<jobs, done>>
       ELSE /\ jobs' = Tail(jobs)
            /\ done' = [done EXCEPT ![Head(jobs)] = "stopped"]
            /\ UNCHANGED run
    /\ UNCHANGED <<now, ring, attempts, caller, cancelled, stopping>>

-----------------------------------------------------------------------------
(* The environment *)

Tick ==
    /\ now < Horizon
    /\ now' = now + 1
    /\ UNCHANGED <<ring, attempts, jobs, caller, cancelled, done, run, stopping>>

GiveUp(c) ==
    /\ c \notin cancelled
    /\ cancelled' = cancelled \cup {c}
    /\ UNCHANGED <<now, ring, attempts, jobs, caller, done, run, stopping>>

Shutdown ==
    /\ stopping' = TRUE
    /\ UNCHANGED <<now, ring, attempts, jobs, caller, cancelled, done, run>>

-----------------------------------------------------------------------------
Run == Take \/ Interrupt \/ Pace \/ PaceOver \/ Attempt \/ Succeed \/ Fail \/ Retry
         \/ BackoffOver \/ Stop \/ Drain

Do(c) == Enqueue(c) \/ Receive(c) \/ Leave(c)

Next ==
    \/ \E c \in Callers : Do(c) \/ GiveUp(c)
    \/ Run \/ Tick \/ Shutdown

Spec == Init /\ [][Next]_vars

\* Both goroutines are scheduled, and an HTTP request ends once its context has.
FairSpec == Spec /\ WF_vars(Run) /\ \A c \in Callers : WF_vars(Do(c))

-----------------------------------------------------------------------------
(* Properties *)

\* Telegram's group limits hold over every stretch of the history: attempts,
\* retries included, are MinGap apart, and WindowLimit + 1 of them never fall
\* into one Window (pace, stamp).
RateLimit ==
    /\ \A k \in 1..(Len(attempts) - 1) : attempts[k + 1] >= attempts[k] + MinGap
    /\ \A k \in 1..(Len(attempts) - WindowLimit) :
         attempts[k + WindowLimit] >= attempts[k] + Window

\* A caller that stopped waiting or a queue told to stop never leaves a Do call
\* hanging: not in a full channel, not when the call slips into the channel
\* after the drain (Do, Run).
DoReturns ==
    \A c \in Callers :
        (c \in cancelled \/ stopping) ~> (caller[c] \in Outcomes)

\* The done channel of a call, which holds one value, is written at most once,
\* so Run never blocks on it: not when the call is interrupted while the queue
\* stops, not in the drain (Run, execute).
AnsweredOnce ==
    [][\A c \in Callers : done[c] # None => done'[c] = done[c]]_vars

-----------------------------------------------------------------------------
(* The inductive invariant behind RateLimit *)

\* The ring holds the last count attempts, oldest at head.
RingInv ==
    /\ count < WindowLimit => head = 0 /\ Len(attempts) = count
    /\ count <= Len(attempts)
    /\ \A k \in 0..(count - 1) :
         stamps[Wrap(head + k)] = attempts[Len(attempts) - count + 1 + k]

\* Time t is one at which the bucket has room.
Allowed(t) ==
    /\ count > 0 => t >= attempts[Len(attempts)] + MinGap
    /\ count = WindowLimit => t >= attempts[Len(attempts) - WindowLimit + 1] + Window

\* The bucket, the history and the goroutine's timer agree: what Run is about
\* to do at the end of its pause keeps the limits.
BucketInv ==
    /\ TypeOK /\ RingInv /\ RateLimit
    /\ run.at = "pacing" => Allowed(run.wake)
    /\ run.at = "ready" => Allowed(now)
=============================================================================
