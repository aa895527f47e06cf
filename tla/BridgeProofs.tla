---------------------------- MODULE BridgeProofs ----------------------------
(***************************************************************************)
(* That the buttons and the wait for text belong to the newest post and    *)
(* that a post answers at most once, for any questions, any number of      *)
(* posts, jobs and events, and whatever calls fail.                        *)
(***************************************************************************)
EXTENDS Bridge, TLAPS

\* JobInv in its parts: what the step in progress relies on, that a press names
\* a post, and that a post that answered offers nothing.
RunInv ==
    /\ At("redraw") => o.kb # None /\ o.kb.msg = run.msg
    /\ At("check") \/ At("keys") => o.kb # None /\ o.kb.msg = run.msg /\ ~o.kb.waiting
    /\ At("type") => o.typing = 0 /\ run.msg \in 1..Len(chat)

PressesInv == \A i \in 1..Len(jobs) : jobs[i].op = "press" => jobs[i].msg <= Len(chat)

UsedInv ==
    \A m \in 1..Len(chat) : chat[m].acts > 0 /\ o.kb # None /\ o.kb.msg = m => o.kb.waiting

\* The parts say what JobInv says.
LEMMA JobParts == JobInv <=> RunInv /\ PressesInv /\ UsedInv
  BY DEF JobInv, RunInv, PressesInv, UsedInv

-----------------------------------------------------------------------------
(* Screens and keyboards *)

\* What the screens are, and what a screen is that has a box or an entry.
LEMMA ScreenFacts ==
    /\ Output \in Screen
    /\ \A q \in Questions : Asking(q) \in Screen
    /\ \A s \in Screen : IsDialog(s) \in BOOLEAN /\ IsMulti(s) \in BOOLEAN /\ HasEntry(s) \in BOOLEAN
    /\ \A s \in Screen : IsMulti(s) \/ HasEntry(s) => IsDialog(s)
    /\ \A s \in Screen, part \in {"ask", "marked", "text"} :
          s.q # None => [s EXCEPT !.part = part] \in Screen
  BY BridgeAssumption DEF Screen, Output, Asking, IsDialog, IsMulti, HasEntry

\* retire leaves no keyboard, and no wait for text that was the keyboard's.
LEMMA RetiredKeeps ==
    ASSUME NEW p \in Outbound
    PROVE  /\ Retired(p) \in Outbound /\ Retired(p).kb = None
           /\ Retired(p).last = p.last /\ Retired(p).announced = p.announced
           /\ p.kb = None => Retired(p) = p
           /\ p.kb # None => Retired(p).typing = IF p.kb.waiting THEN 0 ELSE p.typing
  <1>1. CASE p.kb = None
    BY <1>1 DEF Retired, Outbound
  <1>2. CASE p.kb # None
    <2>1. p.kb \in Keyboard
      BY <1>2 DEF Outbound
    <2>2. Retired(p) = [p EXCEPT !.kb = None, !.refresh = 0, !.typing = IF p.kb.waiting THEN 0 ELSE p.typing]
      BY <1>2 DEF Retired, Outbound
    <2>3. p.kb.waiting \in BOOLEAN /\ 0 \in 0..MaxPosts
      BY <2>1, BridgeAssumption DEF Keyboard
    <2>4. (IF p.kb.waiting THEN 0 ELSE p.typing) \in 0..MaxPosts
      BY <2>3 DEF Outbound
    <2> HIDE DEF Retired
    <2>5. Retired(p) \in Outbound
      BY <2>2, <2>3, <2>4 DEF Outbound
    <2> QED
      BY <1>2, <2>2, <2>5 DEF Outbound
  <1> QED
    BY <1>1, <1>2

\* markKeyboardAnswered leaves the keyboard or takes it away.
LEMMA MarkedKeeps ==
    ASSUME NEW p \in Outbound, NEW w \in 0..MaxPosts
    PROVE  /\ Marked(p, w) \in Outbound /\ Marked(p, w).typing = 0
           /\ Marked(p, w).kb \in {p.kb, None}
  <1> DEFINE k == IF p.kb # None /\ p.kb.msg = w THEN None ELSE p.kb
  <1>1. k \in {p.kb, None} /\ k \in Keyboard \cup {None} /\ 0 \in 0..MaxPosts
    BY BridgeAssumption DEF Outbound
  <1>2. Marked(p, w) = [p EXCEPT !.typing = 0, !.kb = k]
    BY DEF Marked, Outbound
  <1> HIDE DEF k
  <1> QED
    BY <1>1, <1>2 DEF Outbound

-----------------------------------------------------------------------------
(* Sequences and types *)

\* What is left of a sequence without its first element.
LEMMA TailKeeps ==
    ASSUME NEW S, NEW q \in Seq(S), q # <<>>
    PROVE  /\ Tail(q) \in Seq(S) /\ Head(q) \in S /\ Head(q) = q[1]
           /\ Len(Tail(q)) = Len(q) - 1 /\ Len(q) >= 1
           /\ \A i \in 1..Len(Tail(q)) : Tail(q)[i] = q[i + 1] /\ i + 1 \in 1..Len(q)
  OBVIOUS

\* What a sequence is with one more element.
LEMMA AppendKeeps ==
    ASSUME NEW S, NEW q \in Seq(S), NEW x \in S
    PROVE  /\ Append(q, x) \in Seq(S) /\ Len(Append(q, x)) = Len(q) + 1
           /\ Append(q, x)[Len(q) + 1] = x
           /\ \A i \in 1..Len(q) : Append(q, x)[i] = q[i]
  OBVIOUS

\* The job that is taken up, and those that stay.
LEMMA TakesFirst ==
    ASSUME TypeOK, PressesInv, NEW op, Takes(op)
    PROVE  /\ Head(jobs) \in Job /\ Head(jobs).op = op /\ jobs' \in Seq(Job) /\ run = None
           /\ op = "press" => Head(jobs).msg <= Len(chat)
           /\ \A i \in 1..Len(jobs') : jobs'[i].op = "press" => jobs'[i].msg <= Len(chat)
  <1>1. jobs \in Seq(Job) /\ jobs # <<>> /\ jobs' = Tail(jobs) /\ Head(jobs).op = op /\ run = None
    BY DEF TypeOK, Takes
  <1>2. /\ Tail(jobs) \in Seq(Job) /\ Head(jobs) \in Job /\ Head(jobs) = jobs[1] /\ 1 \in 1..Len(jobs)
        /\ \A i \in 1..Len(Tail(jobs)) : Tail(jobs)[i] = jobs[i + 1] /\ i + 1 \in 1..Len(jobs)
    BY <1>1, TailKeeps
  <1> QED
    BY <1>1, <1>2 DEF PressesInv

\* What Submit does to the jobs.
LEMMA SubmitKeeps ==
    ASSUME TypeOK, PressesInv, NEW job \in Job, job.op = "press" => job.msg <= Len(chat),
           Submit(job)
    PROVE  /\ jobs' \in Seq(Job) /\ lost' \in BOOLEAN
           /\ \A i \in 1..Len(jobs') : jobs'[i].op = "press" => jobs'[i].msg <= Len(chat)
  <1>1. jobs \in Seq(Job) /\ lost \in BOOLEAN
    BY DEF TypeOK
  <1>2. CASE jobs' = Append(jobs, job) /\ lost' = lost
    <2>1. /\ Append(jobs, job) \in Seq(Job) /\ Len(Append(jobs, job)) = Len(jobs) + 1
          /\ Append(jobs, job)[Len(jobs) + 1] = job
          /\ \A i \in 1..Len(jobs) : Append(jobs, job)[i] = jobs[i]
      BY <1>1, AppendKeeps
    <2> QED
      BY <1>1, <1>2, <2>1 DEF PressesInv
  <1>3. CASE jobs' = jobs /\ lost' = TRUE
    BY <1>1, <1>3 DEF PressesInv
  <1> QED
    BY <1>2, <1>3 DEF Submit

\* A step that posts nothing: it keeps the keyboard or takes it away, and the wait
\* for text ends with its keyboard.
LEMMA NoPost ==
    ASSUME BridgeInv, TypeOK', PressesInv', RunInv', chat' = chat,
           o'.kb \in {o.kb, None},
           o'.typing # 0 => o'.typing = o.typing /\ o'.kb = o.kb
    PROVE  BridgeInv'
  <1>1. UsedInv'
    BY JobParts DEF BridgeInv, UsedInv
  <1>2. JobInv'
    BY <1>1 DEF JobInv, RunInv, PressesInv, UsedInv
  <1>3. WaitHasKeyboard' /\ LatestActs' /\ ActsOnce'
    BY DEF BridgeInv, WaitHasKeyboard, LatestActs, ActsOnce
  <1> QED
    BY <1>2, <1>3 DEF BridgeInv

\* A step that ends the job in progress, or that is none of the bridge's.
LEMMA NoRun ==
    ASSUME run' = None
    PROVE  RunInv'
  BY DEF RunInv, At

\* A step that leaves the bridge alone keeps its invariant.
LEMMA Aside ==
    ASSUME BridgeInv, TypeOK', PressesInv', UNCHANGED <<o, run, chat>>
    PROVE  BridgeInv'
  <1>1. RunInv'
    BY JobParts DEF BridgeInv, RunInv, At
  <1> QED
    BY <1>1, NoPost
-----------------------------------------------------------------------------
(* What the agent and the registry do to the types *)

\* The agent and its events stay what they are when it moves on.
LEMMA BecomesKeeps ==
    ASSUME TypeOK, NEW status \in Statuses, NEW screen \in Screen, Becomes(status, screen)
    PROVE  pane' \in Agent /\ stream' \in Seq(View)
  <1>1. pane \in Agent /\ stream \in Seq(View) /\ pane.seq \in 0..MaxSeq /\ MaxSeq \in Nat
    BY BridgeAssumption DEF TypeOK, Agent
  <1>2. pane.seq + 1 \in 0..MaxSeq
    BY <1>1 DEF Becomes
  <1>3. [status |-> status, seq |-> pane.seq + 1] \in View
    BY <1>2 DEF View
  <1>4. [status |-> status, screen |-> screen, seq |-> pane.seq + 1] \in Agent
    BY <1>2 DEF Agent
  <1> QED
    BY <1>1, <1>3, <1>4, AppendKeeps DEF Becomes

\* The agent and its events stay what they are when keys reach it.
LEMMA LandsKeeps ==
    ASSUME TypeOK, NEW data, NEW follow \in SUBSET Questions, Lands(data, follow)
    PROVE  pane' \in Agent /\ stream' \in Seq(View)
  <1> DEFINE s == pane.screen
  <1>1. pane \in Agent /\ stream \in Seq(View) /\ s \in Screen /\ pane.status \in Statuses
    BY DEF TypeOK, Agent
  <1>2. "working" \in Statuses /\ "blocked" \in Statuses /\ Output \in Screen
    BY ScreenFacts DEF Statuses
  <1>3. ASSUME NEW part \in {"ask", "marked", "text"}, NEW st \in {pane.status, "working"},
               s.q # None, Becomes(st, [s EXCEPT !.part = part])
        PROVE  pane' \in Agent /\ stream' \in Seq(View)
    <2>1. [s EXCEPT !.part = part] \in Screen
      BY <1>1, <1>3, ScreenFacts
    <2> QED
      BY <1>1, <1>2, <1>3, <2>1, BecomesKeeps
  <1>4. ASSUME NEW q \in follow, Becomes("blocked", Asking(q))
        PROVE  pane' \in Agent /\ stream' \in Seq(View)
    BY <1>2, <1>4, ScreenFacts, BecomesKeeps
  <1>5. ASSUME Becomes("working", Output) PROVE pane' \in Agent /\ stream' \in Seq(View)
    BY <1>2, <1>5, BecomesKeeps
  <1>6. ASSUME UNCHANGED herdr PROVE pane' \in Agent /\ stream' \in Seq(View)
    BY <1>1, <1>6 DEF herdr
  <1>7. IsMulti(s) \/ HasEntry(s) => s.q # None
    BY <1>1 DEF IsMulti, HasEntry, IsDialog
  <1> QED
    BY <1>3, <1>4, <1>5, <1>6, <1>7 DEF Lands

\* What the registry reports are events.
LEMMA ReportsKeeps ==
    ASSUME TypeOK, NEW new \in View
    PROVE  Reports(new) \in Seq(Event)
  <1>1. new.status \in Statuses /\ new.seq \in 0..MaxSeq
    BY DEF View
  <1>2. \A k \in {"appeared", "changed", "gone"} :
            [op |-> "event", status |-> new.status, seq |-> new.seq, kind |-> k] \in Event
    BY <1>1 DEF Event
  <1> DEFINE k == IF new.status = "exited" THEN "gone"
                  ELSE IF reg.status = "exited" THEN "appeared" ELSE "changed"
  <1>3. k \in {"appeared", "changed", "gone"}
    OBVIOUS
  <1>4. <<[op |-> "event", status |-> new.status, seq |-> new.seq, kind |-> k]>> \in Seq(Event)
    BY <1>2, <1>3
  <1> QED
    BY <1>4 DEF Reports

\* What a snapshot sees of the agent.
LEMMA SeenKeeps == ASSUME TypeOK PROVE Seen \in View
  BY DEF TypeOK, Agent, View, Seen

\* The count of what happens stays within its bound.
LEMMA CountsKeeps == ASSUME TypeOK, Counts PROVE acts' \in 0..MaxActs
  BY BridgeAssumption DEF TypeOK, Counts

\* The presses that wait, when no job is added and no post taken away.
LEMMA PressesStay ==
    ASSUME BridgeInv, jobs' = jobs, Len(chat') = Len(chat)
    PROVE  PressesInv'
  BY JobParts DEF BridgeInv, PressesInv
-----------------------------------------------------------------------------
(* Steps of the agent, the registry, the loop, operators and the timer *)

\* The agent goes on by itself.
LEMMA AgentMovesKeeps == ASSUME BridgeInv, AgentMoves PROVE BridgeInv'
  <1> USE DEF bridge
  <1>1. TypeOK /\ pane.screen \in Screen
    BY DEF BridgeInv, TypeOK, Agent
  <1>2. pane' \in Agent /\ stream' \in Seq(View)
    <2>1. {"working", "blocked", "done"} \subseteq Statuses /\ Output \in Screen
          /\ \A q \in Questions : Asking(q) \in Screen
      BY ScreenFacts DEF Statuses
    <2> QED
      BY <1>1, <2>1, BecomesKeeps DEF AgentMoves
  <1>3. TypeOK'
    BY <1>1, <1>2 DEF AgentMoves, TypeOK
  <1> QED
    BY <1>3, PressesStay, Aside DEF AgentMoves

\* A question is answered at the desk.
LEMMA AnsweredKeeps == ASSUME BridgeInv, Answered PROVE BridgeInv'
  <1> USE DEF bridge
  <1>1. TypeOK
    BY DEF BridgeInv
  <1>2. pane' \in Agent /\ stream' \in Seq(View) /\ acts' \in 0..MaxActs
    BY <1>1, ScreenFacts, BecomesKeeps, CountsKeeps DEF Statuses, Answered
  <1>3. TypeOK'
    BY <1>1, <1>2 DEF Answered, TypeOK
  <1> QED
    BY <1>3, PressesStay, Aside DEF Answered

\* The pane closes.
LEMMA ExitKeeps == ASSUME BridgeInv, Exit PROVE BridgeInv'
  <1> USE DEF bridge
  <1>1. TypeOK
    BY DEF BridgeInv
  <1>2. pane' \in Agent /\ stream' \in Seq(View) /\ acts' \in 0..MaxActs
    <2>1. pane \in Agent /\ "exited" \in Statuses /\ Output \in Screen
      BY <1>1, ScreenFacts DEF TypeOK, Statuses
    <2>2. pane' \in Agent
      BY <2>1 DEF Exit, Agent
    <2>3. stream' \in Seq(View)
      BY DEF Exit
    <2> QED
      BY <1>1, <2>2, <2>3, CountsKeeps DEF Exit
  <1>3. TypeOK'
    BY <1>1, <1>2 DEF Exit, TypeOK
  <1> QED
    BY <1>3, PressesStay, Aside DEF Exit

\* The registry takes an event of the stream.
LEMMA StreamEventKeeps == ASSUME BridgeInv, StreamEvent PROVE BridgeInv'
  <1> USE DEF bridge
  <1>1. TypeOK /\ events \in Seq(Event) /\ reg \in View
    BY DEF BridgeInv, TypeOK
  <1>2. stream' \in Seq(View) /\ Head(stream) \in View
    BY <1>1, TailKeeps DEF StreamEvent, TypeOK
  <1>3. reg' \in View
    <2>1. ASSUME NEW seq \in {reg.seq, Head(stream).seq} PROVE [Head(stream) EXCEPT !.seq = seq] \in View
      BY <1>1, <1>2, <2>1 DEF View
    <2> QED
      BY <1>1, <2>1 DEF StreamEvent
  <1>4. events' \in Seq(Event)
    <2>1. Reports(reg') \in Seq(Event)
      BY <1>1, <1>3, ReportsKeeps
    <2>2. events \o Reports(reg') \in Seq(Event)
      BY <1>1, <2>1
    <2>3. events' = events \/ events' = events \o Reports(reg')
      BY DEF StreamEvent
    <2> QED
      BY <1>1, <2>2, <2>3
  <1>5. TypeOK'
    BY <1>1, <1>2, <1>3, <1>4 DEF StreamEvent, TypeOK
  <1> QED
    BY <1>5, PressesStay, Aside DEF StreamEvent

\* The registry takes a snapshot.
LEMMA SnapshotKeeps == ASSUME BridgeInv, Snapshot PROVE BridgeInv'
  <1> USE DEF bridge, herdr
  <1>1. TypeOK /\ events \in Seq(Event)
    BY DEF BridgeInv, TypeOK
  <1>2. reg' \in View /\ Reports(reg') \in Seq(Event)
    BY <1>1, SeenKeeps, ReportsKeeps DEF Snapshot
  <1>3. TypeOK'
    BY <1>1, <1>2 DEF Snapshot, TypeOK
  <1> QED
    BY <1>3, PressesStay, Aside DEF Snapshot

\* The daemon hands an event to the bridge, or drops it.
LEMMA ForwardKeeps == ASSUME BridgeInv, Forward PROVE BridgeInv'
  <1> USE DEF bridge, herdr
  <1>1. TypeOK /\ PressesInv /\ events \in Seq(Event)
    BY JobParts DEF BridgeInv, TypeOK
  <1>2. events' \in Seq(Event) /\ Head(events) \in Event
    BY <1>1, TailKeeps DEF Forward
  <1>3. Head(events) \in Job /\ Head(events).op = "event"
    BY <1>2 DEF Event, Job
  <1>4. /\ jobs' \in Seq(Job) /\ lost' \in BOOLEAN
        /\ \A i \in 1..Len(jobs') : jobs'[i].op = "press" => jobs'[i].msg <= Len(chat)
    BY <1>1, <1>3, SubmitKeeps DEF Forward
  <1>5. TypeOK' /\ PressesInv'
    BY <1>1, <1>2, <1>4 DEF Forward, TypeOK, PressesInv
  <1> QED
    BY <1>5, Aside DEF Forward

\* A resync replays the agents.
LEMMA ResyncKeeps == ASSUME BridgeInv, Resync PROVE BridgeInv'
  <1> USE DEF bridge, herdr
  <1>1. TypeOK
    BY DEF BridgeInv
  <1>2. TypeOK'
    <2>1. reg' \in View /\ unheard' \in BOOLEAN /\ acts' \in 0..MaxActs
      BY <1>1, SeenKeeps, CountsKeeps DEF Resync, Replayed, TypeOK
    <2> QED
      BY <1>1, <2>1 DEF Resync, TypeOK
  <1> QED
    BY <1>2, PressesStay, Aside DEF Resync

\* The operator sits down or leaves.
LEMMA DeskKeeps == ASSUME BridgeInv, Desk PROVE BridgeInv'
  <1> USE DEF bridge, herdr
  <1>1. TypeOK
    BY DEF BridgeInv
  <1>2. TypeOK'
    <2>1. set' \in Setting /\ left' \in BOOLEAN /\ acts' \in 0..MaxActs
      BY <1>1, CountsKeeps DEF Desk, Setting, TypeOK
    <2> QED
      BY <1>1, <2>1 DEF Desk, TypeOK
  <1> QED
    BY <1>2, PressesStay, Aside DEF Desk

\* The quiet hours end.
LEMMA QuietEndedKeeps == ASSUME BridgeInv, QuietEnded PROVE BridgeInv'
  <1> USE DEF bridge, herdr
  <1>1. TypeOK /\ PressesInv
    BY JobParts DEF BridgeInv
  <1>2. [op |-> "away"] \in Job /\ [op |-> "away"].op = "away"
    BY DEF Job
  <1>3. /\ jobs' \in Seq(Job) /\ lost' \in BOOLEAN
        /\ \A i \in 1..Len(jobs') : jobs'[i].op = "press" => jobs'[i].msg <= Len(chat)
    BY <1>1, <1>2, SubmitKeeps DEF QuietEnded
  <1>4. reg' \in View /\ unheard' \in BOOLEAN
    BY <1>1, SeenKeeps DEF QuietEnded, Replayed, TypeOK
  <1>5. TypeOK' /\ PressesInv'
    BY <1>1, <1>3, <1>4 DEF QuietEnded, TypeOK, PressesInv
  <1> QED
    BY <1>5, Aside DEF QuietEnded

\* An option or the mapping changes.
LEMMA SwitchKeeps == ASSUME BridgeInv, Switch PROVE BridgeInv'
  <1> USE DEF bridge, herdr
  <1>1. TypeOK
    BY DEF BridgeInv
  <1>2. TypeOK'
    <2>1. set' \in Setting /\ lost' \in BOOLEAN /\ acts' \in 0..MaxActs
      BY <1>1, CountsKeeps DEF Switch, Setting, TypeOK
    <2> QED
      BY <1>1, <2>1 DEF Switch, TypeOK
  <1> QED
    BY <1>2, PressesStay, Aside DEF Switch

\* A restart forgets the keyboard and the waits.
LEMMA RestartKeeps == ASSUME BridgeInv, Restart PROVE BridgeInv'
  <1>1. TypeOK
    BY DEF BridgeInv
  <1>2. reg' \in View /\ o' \in Outbound /\ o' = Fresh
    BY BridgeAssumption DEF Restart, Fresh, View, Outbound, Statuses
  <1>3. /\ timer' \in [armed : BOOLEAN, due : 0..MaxDue] /\ set' \in Setting
        /\ acts' \in 0..MaxActs
    <2>1. timer' \in [armed : BOOLEAN, due : 0..MaxDue]
      BY DEF Restart, Still, MaxDue
    <2>2. set' \in Setting
      BY <1>1 DEF Restart, TypeOK, Setting
    <2> QED
      BY <1>1, <2>1, <2>2, CountsKeeps DEF Restart
  <1>4. /\ stream' \in Seq(View) /\ events' \in Seq(Event) /\ jobs' \in Seq(Job)
        /\ Len(jobs') = 0
    BY DEF Restart
  <1>5. run' \in Run \cup {None} /\ left' \in BOOLEAN
    BY DEF Restart
  <1>6. TypeOK'
    BY <1>1, <1>2, <1>3, <1>4, <1>5 DEF Restart, TypeOK
  <1>7. PressesInv'
    BY <1>4 DEF PressesInv
  <1>8. chat' = chat /\ run' = None /\ o'.kb = None /\ o'.typing = 0
    BY <1>2 DEF Restart, Fresh
  <1> QED
    BY <1>6, <1>7, <1>8, NoRun, NoPost

\* The operator presses a button or writes; a press names a post that is there.
LEMMA OperatorKeeps == ASSUME BridgeInv, Operator PROVE BridgeInv'
  <1> USE DEF bridge, herdr
  <1>1. TypeOK /\ PressesInv /\ Len(chat) <= MaxPosts /\ Len(chat) \in Nat /\ MaxPosts \in Nat
    BY JobParts, BridgeAssumption DEF BridgeInv, TypeOK
  <1>2. \A m \in 1..Len(chat), d \in {"digit", "submit", "entry"} :
            [op |-> "press", msg |-> m, data |-> d] \in Job
    BY <1>1 DEF Job, Press
  <1>3. \A k \in {"text", "short", "command"} : [op |-> k] \in Job /\ [op |-> k].op # "press"
    BY DEF Job
  <1>4. \E job \in Job : (job.op = "press" => job.msg <= Len(chat)) /\ Submit(job)
    <2>1. ASSUME NEW m \in 1..Len(chat), NEW d \in {"digit", "submit", "entry"},
                 Submit([op |-> "press", msg |-> m, data |-> d])
          PROVE  \E job \in Job : (job.op = "press" => job.msg <= Len(chat)) /\ Submit(job)
      <3> DEFINE p == [op |-> "press", msg |-> m, data |-> d]
      <3>1. p \in Job
        BY <1>2
      <3>2. p.msg = m /\ m <= Len(chat)
        BY <1>1
      <3> HIDE DEF p
      <3>3. Submit(p)
        BY <2>1 DEF p
      <3> QED
        BY <3>1, <3>2, <3>3
    <2>2. ASSUME NEW k \in {"text", "short", "command"}, Submit([op |-> k])
          PROVE  \E job \in Job : (job.op = "press" => job.msg <= Len(chat)) /\ Submit(job)
      BY <1>3, <2>2
    <2> QED
      BY <2>1, <2>2 DEF Operator
  <1>5. /\ jobs' \in Seq(Job) /\ lost' \in BOOLEAN
        /\ \A i \in 1..Len(jobs') : jobs'[i].op = "press" => jobs'[i].msg <= Len(chat)
    BY <1>1, <1>4, SubmitKeeps
  <1>6. acts' \in 0..MaxActs
    BY <1>1, CountsKeeps DEF Operator
  <1>7. TypeOK' /\ PressesInv'
    BY <1>1, <1>5, <1>6 DEF Operator, TypeOK, PressesInv
  <1> QED
    BY <1>7, Aside DEF Operator

\* A capture is due.
LEMMA TimerFiresKeeps == ASSUME BridgeInv, TimerFires PROVE BridgeInv'
  <1> USE DEF herdr
  <1>1. TypeOK
    BY DEF BridgeInv
  <1>2. timer' \in [armed : BOOLEAN, due : 0..MaxDue]
    BY <1>1 DEF TimerFires, TypeOK, MaxDue
  <1>3. TypeOK'
    BY <1>1, <1>2 DEF TimerFires, TypeOK
  <1> QED
    BY <1>3, PressesStay, Aside DEF TimerFires
-----------------------------------------------------------------------------
(* Steps of the bridge: events, timers and posts *)

Timing == [armed : BOOLEAN, due : 0..MaxDue]

\* The timer stays a timer, whoever arms or cancels it.
LEMMA TimerKeeps ==
    ASSUME TypeOK, Arm \/ Cancel \/ UNCHANGED timer
    PROVE  timer' \in Timing
  BY DEF TypeOK, Timing, Arm, Cancel

\* A job that looks at a screen or talks to the agent relies on no keyboard.
LEMMA FreeRun ==
    ASSUME run' = None \/ run'.at \in {"read", "send", "reply", "prompt"}
    PROVE  RunInv'
  BY DEF RunInv, At

\* A job that is taken up is one.
LEMMA BeginIsRun == Begin \in Run
  <1>1. Output \in Screen /\ "working" \in Statuses /\ 0 \in 0..MaxSeq /\ 0 \in 0..MaxPosts
    BY ScreenFacts, BridgeAssumption DEF Statuses
  <1> QED
    BY <1>1 DEF Begin, Run

\* observe takes an event: an exit retires the keyboard, the rest see to the capture.
LEMMA ObserveKeeps == ASSUME BridgeInv, Observe PROVE BridgeInv'
  <1> DEFINE e     == Head(jobs)
             quits == e.status # "blocked"
             p     == [o EXCEPT !.announced = @ /\ ~quits, !.capture = IF quits THEN None ELSE @]
             gone  == [p EXCEPT !.last = None, !.refresh = 0, !.typing = 0]
  <1> USE DEF herdr
  <1>1. TypeOK /\ PressesInv /\ o \in Outbound
    BY JobParts DEF BridgeInv, TypeOK
  <1>2. /\ jobs' \in Seq(Job) /\ run = None
        /\ \A i \in 1..Len(jobs') : jobs'[i].op = "press" => jobs'[i].msg <= Len(chat)
    BY <1>1, TakesFirst DEF Observe
  <1>3. p \in Outbound /\ p.kb = o.kb /\ p.typing = o.typing
    <2>1. o.announced \in BOOLEAN /\ o.capture \in [text : Screen, seq : 0..MaxSeq] \cup {None}
      BY <1>1 DEF Outbound
    <2> QED
      BY <1>1, <2>1 DEF Outbound
  <1>4. gone \in Outbound /\ gone.kb = o.kb /\ gone.typing = 0
    <2>1. 0 \in 0..MaxPosts
      BY BridgeAssumption
    <2> HIDE DEF p
    <2> QED
      BY <1>3, <2>1 DEF Outbound
  <1>5. Retired(gone) \in Outbound /\ Retired(gone).kb = None /\ Retired(gone).typing = 0
    <2>1. /\ Retired(gone) \in Outbound /\ Retired(gone).kb = None
          /\ gone.kb = None => Retired(gone) = gone
          /\ gone.kb # None => Retired(gone).typing = IF gone.kb.waiting THEN 0 ELSE gone.typing
      BY <1>4, RetiredKeeps
    <2> QED
      BY <1>4, <2>1
  <1>6. o' = p \/ o' = Retired(gone)
    BY DEF Observe
  <1>7. o' \in Outbound /\ o'.kb \in {o.kb, None} /\ (o'.typing # 0 => o'.typing = o.typing /\ o'.kb = o.kb)
    <2> HIDE DEF p, gone
    <2> QED
      BY <1>3, <1>5, <1>6
  <1>8. timer' \in Timing
    BY <1>1, TimerKeeps DEF Observe
  <1>9. TypeOK' /\ PressesInv'
    BY <1>1, <1>2, <1>7, <1>8 DEF Observe, TypeOK, PressesInv, Timing
  <1>10. run' = None /\ chat' = chat
    BY <1>2 DEF Observe
  <1> QED
    BY <1>7, <1>9, <1>10, NoRun, NoPost

\* Gate ends the job or goes on to read the screen; the keyboard stays.
LEMMA GateKeeps ==
    ASSUME TypeOK, NEW r \in Run, Gate(r)
    PROVE  /\ o' \in Outbound /\ o'.kb = o.kb /\ o'.typing = o.typing
           /\ run' \in Run \cup {None} /\ (run' = None \/ run'.at = "read")
  <1>1. o \in Outbound /\ 0 \in 0..MaxPosts
    BY BridgeAssumption DEF TypeOK
  <1>2. CASE /\ o' = [o EXCEPT !.capture = None, !.refresh = 0] /\ run' = None
    BY <1>1, <1>2 DEF Outbound
  <1>3. CASE /\ o' = [o EXCEPT !.refresh = IF r.force THEN @ ELSE 0] /\ run' = None
    BY <1>1, <1>3 DEF Outbound
  <1>4. ASSUME NEW n \in BOOLEAN,
               /\ o' = [o EXCEPT !.refresh = IF r.force THEN @ ELSE 0,
                                 !.capture = IF r.force THEN None ELSE @]
               /\ run' = [r EXCEPT !.at = "read", !.msg = 0, !.notify = n]
        PROVE  /\ o' \in Outbound /\ o'.kb = o.kb /\ o'.typing = o.typing
               /\ run' \in Run /\ run'.at = "read"
    <2>1. o' \in Outbound /\ o'.kb = o.kb /\ o'.typing = o.typing
      <3>1. o.capture \in [text : Screen, seq : 0..MaxSeq] \cup {None} /\ o.refresh \in 0..MaxPosts
        BY <1>1 DEF Outbound
      <3>2. (IF r.force THEN None ELSE o.capture) \in [text : Screen, seq : 0..MaxSeq] \cup {None}
            /\ (IF r.force THEN o.refresh ELSE 0) \in 0..MaxPosts
        BY <1>1, <3>1
      <3> QED
        BY <1>1, <1>4, <3>2 DEF Outbound
    <2>2. run' \in Run /\ run'.at = "read"
      BY <1>1, <1>4 DEF Run
    <2> QED
      BY <2>1, <2>2
  <1> QED
    BY <1>2, <1>3, <1>4 DEF Gate

\* What fire does to outbound's maps and to the job.
LEMMA FiresKeeps ==
    ASSUME TypeOK, NEW force \in BOOLEAN, Fires(force)
    PROVE  /\ o' \in Outbound /\ o'.kb = o.kb /\ o'.typing = o.typing
           /\ run' \in Run \cup {None}
           /\ \/ run' = None \/ run'.at = "read"
              \/ run'.at = "redraw" /\ o.kb # None /\ o.kb.msg = run'.msg
  <1> DEFINE r == [Begin EXCEPT !.status = reg.status, !.seq = reg.seq, !.force = force]
  <1>1. o \in Outbound /\ 0 \in 0..MaxPosts /\ reg.status \in Statuses /\ reg.seq \in 0..MaxSeq
    BY BridgeAssumption DEF TypeOK, View
  <1>2. r \in Run
    BY <1>1, BeginIsRun DEF Run
  <1>3. CASE run' = None /\ UNCHANGED o
    BY <1>1, <1>3
  <1>4. CASE /\ o.kb # None /\ o.kb.msg = o.refresh
             /\ o' = [o EXCEPT !.refresh = 0] /\ run' = [r EXCEPT !.at = "redraw", !.msg = o.refresh]
    <2>1. o' \in Outbound /\ o'.kb = o.kb /\ o'.typing = o.typing /\ o.refresh \in 0..MaxPosts
      BY <1>1, <1>4 DEF Outbound
    <2>2. run' \in Run /\ run'.at = "redraw" /\ run'.msg = o.refresh
      <3> HIDE DEF r
      <3> QED
        BY <1>2, <1>4, <2>1 DEF Run
    <2> QED
      BY <1>4, <2>1, <2>2
  <1>5. CASE Gate(r)
    <2> HIDE DEF r
    <2> QED
      BY <1>2, <1>5, GateKeeps
  <1> QED
    BY <1>3, <1>4, <1>5 DEF Fires

\* A step that fires, with nothing posted.
LEMMA Fired ==
    ASSUME BridgeInv, TypeOK', PressesInv', chat' = chat, o'.kb = o.kb, o'.typing = o.typing,
           \/ run' = None \/ run'.at = "read"
           \/ run'.at = "redraw" /\ o.kb # None /\ o.kb.msg = run'.msg
    PROVE  BridgeInv'
  <1>1. RunInv'
    BY DEF RunInv, At
  <1> QED
    BY <1>1, NoPost

\* fire takes a capture that is due.
LEMMA DueKeeps == ASSUME BridgeInv, Due PROVE BridgeInv'
  <1> USE DEF herdr
  <1>1. TypeOK
    BY DEF BridgeInv
  <1>2. /\ o' \in Outbound /\ o'.kb = o.kb /\ o'.typing = o.typing
        /\ run' \in Run \cup {None}
        /\ \/ run' = None \/ run'.at = "read"
           \/ run'.at = "redraw" /\ o.kb # None /\ o.kb.msg = run'.msg
    BY <1>1, FiresKeeps DEF Due
  <1>3. timer' \in Timing
    BY <1>1 DEF Due, Timing, MaxDue, TypeOK
  <1>4. TypeOK'
    BY <1>1, <1>2, <1>3 DEF Due, TypeOK, Timing
  <1>5. chat' = chat /\ PressesInv'
    BY PressesStay DEF Due
  <1> QED
    BY <1>2, <1>4, <1>5, Fired

\* CatchUp goes over the agent.
LEMMA CatchUpKeeps == ASSUME BridgeInv, CatchUp PROVE BridgeInv'
  <1> USE DEF herdr
  <1>1. TypeOK /\ PressesInv /\ o \in Outbound
    BY JobParts DEF BridgeInv, TypeOK
  <1>2. /\ jobs' \in Seq(Job) /\ run = None
        /\ \A i \in 1..Len(jobs') : jobs'[i].op = "press" => jobs'[i].msg <= Len(chat)
    BY <1>1, TakesFirst DEF CatchUp
  <1>3. /\ o' \in Outbound /\ o'.kb = o.kb /\ o'.typing = o.typing
        /\ run' \in Run \cup {None}
        /\ \/ run' = None \/ run'.at = "read"
           \/ run'.at = "redraw" /\ o.kb # None /\ o.kb.msg = run'.msg
    <2>1. CASE Fires(TRUE)
      BY <1>1, <2>1, FiresKeeps
    <2>2. CASE UNCHANGED <<o, run>>
      BY <1>1, <1>2, <2>2
    <2> QED
      BY <2>1, <2>2 DEF CatchUp
  <1>4. TypeOK' /\ PressesInv'
    BY <1>1, <1>2, <1>3 DEF CatchUp, TypeOK, PressesInv
  <1>5. chat' = chat
    BY DEF CatchUp
  <1> QED
    BY <1>3, <1>4, <1>5, Fired
\* A call fails; nothing but the count and the history changes.
LEMMA FailsKeeps == ASSUME TypeOK, Fails PROVE acts' \in 0..MaxActs /\ lost' \in BOOLEAN
  BY CountsKeeps DEF Fails

\* The keyboard in force stands under the last post.
LEMMA KeyboardLast ==
    ASSUME BridgeInv, o.kb # None
    PROVE  /\ o.kb \in Keyboard /\ o.kb.msg = Len(chat) /\ Len(chat) \in 1..Len(chat)
           /\ Len(chat) \in 1..MaxPosts /\ chat[Len(chat)] \in Posted
  <1>1. o.kb \in Keyboard /\ o.kb.msg \in 1..MaxPosts /\ o.kb.msg = Len(chat) /\ chat \in Seq(Posted)
        /\ Len(chat) <= MaxPosts
    BY DEF BridgeInv, TypeOK, Outbound, Keyboard, LatestActs
  <1>2. Len(chat) \in Nat /\ MaxPosts \in Nat /\ Len(chat) \in 1..Len(chat)
    BY <1>1, BridgeAssumption
  <1> QED
    BY <1>1, <1>2

\* A redrawn message keeps its place, its buttons' state and its history.
LEMMA RedrawKeeps == ASSUME BridgeInv, Redraw PROVE BridgeInv'
  <1> USE DEF herdr
  <1>1. TypeOK /\ run \in Run /\ At("redraw") /\ jobs' = jobs
    BY DEF BridgeInv, TypeOK, Redraw, At
  <1>2. CASE Unread
    <2>1. TypeOK'
      <3>1. acts' \in 0..MaxActs /\ lost' \in BOOLEAN /\ run' = None
        BY <1>1, <1>2, FailsKeeps DEF Unread
      <3> QED
        BY <1>1, <1>2, <3>1 DEF Redraw, Unread, TypeOK
    <2>2. chat' = chat /\ o' = o /\ run' = None
      BY <1>2 DEF Unread
    <2>3. PressesInv'
      BY <1>1, <2>2, PressesStay
    <2> QED
      BY <2>1, <2>2, <2>3, NoRun, NoPost
  <1>3. CASE ~IsMulti(pane.screen) /\ Gate(run) /\ UNCHANGED <<timer, chat, lost, acts>>
    <2>1. /\ o' \in Outbound /\ o'.kb = o.kb /\ o'.typing = o.typing
          /\ run' \in Run \cup {None} /\ (run' = None \/ run'.at = "read")
      BY <1>1, <1>3, GateKeeps
    <2>2. TypeOK'
      BY <1>1, <1>3, <2>1 DEF Redraw, TypeOK
    <2>3. PressesInv'
      BY <1>1, <1>3, PressesStay
    <2> QED
      BY <1>3, <2>1, <2>2, <2>3, Fired
  <1>4. CASE /\ IsMulti(pane.screen)
             /\ o' = [o EXCEPT !.last = pane.screen,
                               !.kb = [@ EXCEPT !.entry = HasEntry(pane.screen)]]
             /\ chat' = [chat EXCEPT ![run.msg].screen = pane.screen]
             /\ run' = None /\ UNCHANGED <<timer, lost, acts>>
    <2> DEFINE s == pane.screen
               kb == [o.kb EXCEPT !.entry = HasEntry(s)]
               c == [chat[run.msg] EXCEPT !.screen = s]
    <2>1. s \in Screen /\ HasEntry(s) \in BOOLEAN /\ IsDialog(s)
      <3>1. s \in Screen
        BY <1>1 DEF TypeOK, Agent
      <3> QED
        BY <1>4, <3>1, ScreenFacts
    <2>2. o.kb # None /\ o.kb.msg = run.msg
      BY <1>1, JobParts DEF BridgeInv, RunInv
    <2>3. o.kb \in Keyboard /\ run.msg = Len(chat) /\ run.msg \in 1..Len(chat) /\ chat[run.msg] \in Posted
      BY <2>2, KeyboardLast
    <2>4. /\ kb \in Keyboard /\ kb # None /\ kb.msg = o.kb.msg /\ kb.waiting = o.kb.waiting
      <3>1. kb \in Keyboard /\ kb.msg = o.kb.msg /\ kb.waiting = o.kb.waiting
        BY <2>1, <2>3 DEF Keyboard
      <3> QED
        BY <3>1, NoKeyboardIsNone
    <2>5. c \in Posted /\ c.screen = s /\ c.acts = chat[run.msg].acts
      BY <2>1, <2>3 DEF Posted
    <2>6. /\ chat' = [chat EXCEPT ![run.msg] = c]
          /\ chat' \in Seq(Posted) /\ Len(chat') = Len(chat) /\ chat'[run.msg] = c
          /\ \A m \in 1..Len(chat) : chat'[m].acts = chat[m].acts
      <3>1. chat \in Seq(Posted) /\ chat' = [chat EXCEPT ![run.msg] = c]
        BY <1>1, <1>4 DEF TypeOK
      <3> HIDE DEF c
      <3>2. chat' \in Seq(Posted) /\ Len(chat') = Len(chat) /\ chat'[run.msg] = c
            /\ \A m \in 1..Len(chat) : m # run.msg => chat'[m] = chat[m]
        BY <2>3, <2>5, <3>1
      <3> QED
        BY <2>5, <3>1, <3>2
    <2>7. o' \in Outbound /\ o'.kb = kb /\ o'.typing = o.typing
      <3>1. o \in Outbound /\ o' = [o EXCEPT !.last = s, !.kb = kb]
        BY <1>1, <1>4 DEF TypeOK, Outbound
      <3> HIDE DEF kb, s
      <3> QED
        BY <2>1, <2>4, <3>1 DEF Outbound
    <2>8. TypeOK'
      <3>1. run' \in Run \cup {None} /\ Len(chat') <= MaxPosts
        BY <1>1, <1>4, <2>6 DEF TypeOK
      <3> QED
        BY <1>1, <1>4, <2>6, <2>7, <3>1 DEF Redraw, TypeOK
    <2>9. PressesInv' /\ RunInv'
      BY <1>1, <1>4, <2>6, PressesStay, NoRun
    <2>10. UsedInv'
      <3> HIDE DEF kb, c, s
      <3> QED
        BY <2>2, <2>4, <2>6, <2>7, JobParts DEF BridgeInv, UsedInv
    <2>11. WaitHasKeyboard' /\ LatestActs' /\ ActsOnce'
      <3> HIDE DEF kb, c, s
      <3>1. WaitHasKeyboard'
        BY <2>4, <2>7 DEF BridgeInv, WaitHasKeyboard
      <3>2. LatestActs'
        BY <2>1, <2>2, <2>3, <2>4, <2>5, <2>6, <2>7 DEF LatestActs
      <3>3. ActsOnce'
        BY <2>6 DEF BridgeInv, ActsOnce
      <3> QED
        BY <3>1, <3>2, <3>3
    <2>12. JobInv'
      BY <2>9, <2>10 DEF JobInv, RunInv, PressesInv, UsedInv
    <2> QED
      BY <2>8, <2>11, <2>12 DEF BridgeInv
  <1> QED
    BY <1>2, <1>3, <1>4 DEF Redraw

\* The screen is read: it is posted, or the capture is over.
LEMMA ReadKeeps == ASSUME BridgeInv, Read PROVE BridgeInv'
  <1> USE DEF herdr
  <1>1. TypeOK /\ run \in Run /\ jobs' = jobs /\ chat' = chat /\ o \in Outbound
    BY DEF BridgeInv, TypeOK, Read, At
  <1>2. pane.screen \in Screen /\ run.seq \in 0..MaxSeq
    BY <1>1 DEF TypeOK, Agent, Run
  <1>3. ASSUME NEW text \in Screen, Chosen(text)
        PROVE  run' \in Run \cup {None} /\ (run' = None \/ run'.at = "send")
    BY <1>1, <1>3 DEF Chosen, Run
  <1>4. /\ o' \in Outbound /\ o'.kb = o.kb /\ o'.typing = o.typing
        /\ run' \in Run \cup {None} /\ (run' = None \/ run'.at = "send")
        /\ timer' \in Timing /\ lost' \in BOOLEAN /\ acts' \in 0..MaxActs
    <2>1. timer \in Timing /\ lost \in BOOLEAN /\ acts \in 0..MaxActs
      BY <1>1 DEF TypeOK, Timing
    <2>2. CASE Unread
      BY <1>1, <2>1, <2>2, FailsKeeps DEF Unread
    <2>3. CASE Chosen(pane.screen) /\ UNCHANGED <<o, timer, lost, acts>>
      BY <1>1, <1>2, <1>3, <2>1, <2>3
    <2>4. CASE /\ o.capture # None
               /\ o' = [o EXCEPT !.capture = None]
               /\ \E text \in Better(o.capture.text, pane.screen) : Chosen(text)
               /\ UNCHANGED <<timer, lost, acts>>
      <3>1. o' \in Outbound /\ o'.kb = o.kb /\ o'.typing = o.typing
        BY <1>1, <2>4 DEF Outbound
      <3>2. o.capture.text \in Screen
        BY <1>1, <2>4 DEF Outbound
      <3>3. Better(o.capture.text, pane.screen) \subseteq Screen
        BY <1>2, <3>2 DEF Better
      <3> QED
        BY <1>3, <2>1, <2>4, <3>1, <3>3
    <2>5. CASE /\ o' = [o EXCEPT !.capture = [text |-> pane.screen, seq |-> run.seq]]
               /\ Arm /\ run' = None /\ UNCHANGED <<lost, acts>>
      <3>1. o' \in Outbound /\ o'.kb = o.kb /\ o'.typing = o.typing
        <4>1. [text |-> pane.screen, seq |-> run.seq] \in [text : Screen, seq : 0..MaxSeq]
          BY <1>2
        <4> QED
          BY <1>1, <2>5, <4>1 DEF Outbound
      <3> QED
        BY <1>1, <2>1, <2>5, <3>1, TimerKeeps
    <2> QED
      BY <2>2, <2>3, <2>4, <2>5 DEF Read
  <1>5. TypeOK'
    BY <1>1, <1>4 DEF Read, TypeOK, Timing
  <1>6. PressesInv' /\ RunInv'
    BY <1>1, <1>4, PressesStay, FreeRun
  <1> QED
    BY <1>1, <1>4, <1>5, <1>6, NoPost
\* A press among the jobs.
LEMMA PressIs ==
    ASSUME NEW j \in Job, j.op = "press"
    PROVE  j \in Press /\ j.msg \in 1..MaxPosts /\ j.data \in {"digit", "submit", "entry"}
  BY DEF Job, Event, Press

\* A post retires the older keyboard; its own stands under the last post.
LEMMA SendKeeps == ASSUME BridgeInv, Send PROVE BridgeInv'
  <1> USE DEF herdr
  <1> DEFINE n    == Len(chat) + 1
             text == run.text
             kept == Retired(o)
             kb   == IF IsDialog(text) /\ run.status = "blocked"
                     THEN [msg |-> n, multi |-> IsMulti(text), entry |-> HasEntry(text), waiting |-> FALSE]
                     ELSE kept.kb
             post(rang) == [screen |-> text, rang |-> rang, acts |-> 0, wrong |-> FALSE]
  <1>1. /\ TypeOK /\ run \in Run /\ jobs' = jobs /\ o \in Outbound /\ run' = None
        /\ chat \in Seq(Posted) /\ Len(chat) \in Nat /\ Len(chat) <= MaxPosts /\ MaxPosts \in Nat
    BY BridgeAssumption DEF BridgeInv, TypeOK, Send, At
  <1>2. text \in Screen /\ run.notify \in BOOLEAN /\ set.pager \in BOOLEAN /\ set \in Setting
    BY <1>1 DEF Run, TypeOK, Setting
  <1>3. /\ kept \in Outbound /\ kept.kb = None /\ (o.kb = None => kept = o)
        /\ kept.announced \in BOOLEAN
        /\ kept.typing # 0 => o.typing # 0 /\ ~(o.kb # None /\ o.kb.waiting)
    <2>1. kept \in Outbound /\ kept.kb = None /\ (o.kb = None => kept = o)
          /\ (o.kb # None => kept.typing = IF o.kb.waiting THEN 0 ELSE o.typing)
      BY <1>1, RetiredKeeps
    <2> QED
      BY <2>1 DEF Outbound
  <1>4. kept.typing = 0
    <2>1. o.typing # 0 => o.kb # None /\ o.kb.waiting
      BY DEF BridgeInv, WaitHasKeyboard
    <2> QED
      BY <1>3, <2>1
  <1>5. ASSUME NEW rang \in BOOLEAN, NEW pager \in BOOLEAN, Len(chat) < MaxPosts,
               o' = [Post(text) EXCEPT !.announced = @ \/ rang],
               chat' = Append(chat, post(rang)),
               set' = [set EXCEPT !.pager = pager],
               acts' \in 0..MaxActs, lost' \in BOOLEAN
        PROVE  BridgeInv'
    <2>1. kb \in Keyboard \cup {None} /\ (kb # None => kb.msg = n /\ IsDialog(text))
      <3>1. n \in 1..MaxPosts
        BY <1>1, <1>5
      <3>2. IsMulti(text) \in BOOLEAN /\ HasEntry(text) \in BOOLEAN
        BY <1>2, ScreenFacts
      <3>3. [msg |-> n, multi |-> IsMulti(text), entry |-> HasEntry(text), waiting |-> FALSE] \in Keyboard
        BY <3>1, <3>2 DEF Keyboard
      <3> HIDE DEF kept, n, text
      <3> QED
        BY <1>3, <3>3
    <2>2. o' \in Outbound /\ o'.kb = kb /\ o'.typing = 0
      <3>1. Post(text) = [kept EXCEPT !.last = text, !.kb = kb]
        BY <1>3 DEF Post, Outbound
      <3> HIDE DEF kept, kb, text
      <3>2. Post(text) \in Outbound /\ Post(text).kb = kb /\ Post(text).typing = 0
            /\ Post(text).announced \in BOOLEAN
        BY <1>2, <1>3, <1>4, <2>1, <3>1 DEF Outbound
      <3> QED
        BY <1>5, <3>2 DEF Outbound
    <2>3. post(rang) \in Posted /\ post(rang).screen = text /\ post(rang).acts = 0
      BY <1>2, <1>5 DEF Posted
    <2>4. /\ chat' \in Seq(Posted) /\ Len(chat') = n /\ chat'[n] = post(rang)
          /\ \A m \in 1..Len(chat) : chat'[m] = chat[m]
      <3> HIDE DEF post
      <3> QED
        BY <1>1, <1>5, <2>3, AppendKeeps
    <2>5. TypeOK'
      <3>1. set' \in Setting /\ Len(chat') <= MaxPosts
        BY <1>1, <1>2, <1>5, <2>4 DEF Setting
      <3> QED
        BY <1>1, <1>5, <2>2, <2>4, <3>1 DEF Send, TypeOK
    <2>6. PressesInv'
      <3>1. \A i \in 1..Len(jobs) : jobs[i] \in Job
        BY <1>1 DEF TypeOK
      <3>2. \A i \in 1..Len(jobs) : jobs[i].op = "press" => jobs[i].msg \in 1..MaxPosts
        BY <3>1, PressIs
      <3> QED
        BY <1>1, <2>4, <3>2, JobParts DEF BridgeInv, PressesInv
    <2>7. RunInv'
      BY <1>1, NoRun
    <2>8. UsedInv' /\ ActsOnce'
      <3>1. \A m \in 1..n : m \in 1..Len(chat) \/ m = n
        BY <1>1
      <3> HIDE DEF kb, post, text, n
      <3>2. UsedInv'
        BY <2>1, <2>2, <2>3, <2>4, <3>1 DEF UsedInv
      <3>3. ActsOnce'
        BY <2>3, <2>4, <3>1 DEF BridgeInv, ActsOnce
      <3> QED
        BY <3>2, <3>3
    <2>9. WaitHasKeyboard' /\ LatestActs'
      <3> HIDE DEF kb, post, text, n
      <3> QED
        BY <2>1, <2>2, <2>3, <2>4 DEF WaitHasKeyboard, LatestActs
    <2>10. JobInv'
      BY <2>6, <2>7, <2>8 DEF JobInv, RunInv, PressesInv, UsedInv
    <2> QED
      BY <2>5, <2>8, <2>9, <2>10 DEF BridgeInv
  <1>6. ASSUME o' = kept, UNCHANGED <<chat, set>>, acts' \in 0..MaxActs, lost' \in BOOLEAN
        PROVE  BridgeInv'
    <2> HIDE DEF kept
    <2>1. TypeOK'
      BY <1>1, <1>3, <1>6 DEF Send, TypeOK
    <2>2. PressesInv'
      BY <1>1, <1>6, PressesStay
    <2> QED
      BY <1>1, <1>3, <1>4, <1>6, <2>1, <2>2, NoRun, NoPost
  <1>7. lost \in BOOLEAN /\ acts \in 0..MaxActs
    BY <1>1 DEF TypeOK
  <1>8. CASE /\ Len(chat) < MaxPosts
             /\ o' = [Post(text) EXCEPT !.announced = @ \/ run.notify]
             /\ chat' = Append(chat, post(run.notify))
             /\ set' = [set EXCEPT !.pager = set.pager] /\ UNCHANGED <<lost, acts>>
    BY <1>2, <1>5, <1>7, <1>8
  <1>9. CASE /\ Len(chat) < MaxPosts /\ Fails
             /\ \E pager \in BOOLEAN :
                   /\ o' = [Post(text) EXCEPT !.announced = @ \/ FALSE]
                   /\ chat' = Append(chat, post(FALSE))
                   /\ set' = [set EXCEPT !.pager = pager]
    <2>1. acts' \in 0..MaxActs /\ lost' \in BOOLEAN
      BY <1>1, <1>9, FailsKeeps
    <2> QED
      BY <1>5, <1>9, <2>1
  <1>10. CASE /\ Fails \/ (lost' = TRUE /\ UNCHANGED acts)
              /\ o' = Retired(o) /\ UNCHANGED <<chat, set>>
    <2>1. acts' \in 0..MaxActs /\ lost' \in BOOLEAN
      BY <1>1, <1>7, <1>10, FailsKeeps
    <2> QED
      BY <1>6, <1>10, <2>1
  <1> QED
    BY <1>8, <1>9, <1>10 DEF Send
-----------------------------------------------------------------------------
(* Buttons *)

\* What retiring the keyboard leaves, whatever waits.
LEMMA RetiredRests ==
    ASSUME BridgeInv
    PROVE  Retired(o) \in Outbound /\ Retired(o).kb = None /\ Retired(o).typing = 0
  <1>1. o \in Outbound
    BY DEF BridgeInv, TypeOK
  <1>2. /\ Retired(o) \in Outbound /\ Retired(o).kb = None
        /\ o.kb = None => Retired(o) = o
        /\ o.kb # None => Retired(o).typing = IF o.kb.waiting THEN 0 ELSE o.typing
    BY <1>1, RetiredKeeps
  <1>3. o.typing # 0 => o.kb # None /\ o.kb.waiting
    BY DEF BridgeInv, WaitHasKeyboard
  <1> QED
    BY <1>2, <1>3

\* A press that is taken up was offered by the keyboard in force.
LEMMA PressBeginsKeeps == ASSUME BridgeInv, PressBegins PROVE BridgeInv'
  <1> USE DEF herdr
  <1> DEFINE e == Head(jobs)
             stale == /\ reg = Seen /\ reg.status = "blocked"
                      /\ pane.screen.q # chat[e.msg].screen.q
             r(at) == [Begin EXCEPT !.at = at, !.msg = e.msg, !.data = e.data, !.stale = stale]
  <1>1. TypeOK /\ PressesInv /\ o \in Outbound /\ chat' = chat
    BY JobParts DEF BridgeInv, TypeOK, PressBegins
  <1>2. /\ jobs' \in Seq(Job) /\ run = None /\ e \in Job /\ e.op = "press"
        /\ \A i \in 1..Len(jobs') : jobs'[i].op = "press" => jobs'[i].msg <= Len(chat)
    BY <1>1, TakesFirst DEF PressBegins
  <1>3. e.msg \in 0..MaxPosts /\ e.data \in {"digit", "submit", "entry"}
    <2>1. e.msg \in 1..MaxPosts /\ e.data \in {"digit", "submit", "entry"}
      BY <1>2, PressIs
    <2> QED
      BY <2>1, BridgeAssumption
  <1>4. \A at \in {"check", "keys"} : r(at) \in Run /\ r(at).at = at /\ r(at).msg = e.msg
    <2>1. stale \in BOOLEAN
      OBVIOUS
    <2> HIDE DEF e, stale
    <2> QED
      BY <1>3, <2>1, BeginIsRun DEF Run
  <1> DEFINE Taken == /\ o.kb # None /\ o.kb.msg = e.msg /\ ~o.kb.waiting /\ o' = o
                      /\ run' = r("check") \/ run' = r("keys")
  <1>5. \/ UNCHANGED <<o, run>>
        \/ o' = Retired(o) /\ UNCHANGED run
        \/ Taken
    BY DEF PressBegins
  <1> HIDE DEF e, stale, r
  <1>6. /\ o' \in Outbound /\ run' \in Run \cup {None}
        /\ o'.kb \in {o.kb, None} /\ (o'.typing # 0 => o'.typing = o.typing /\ o'.kb = o.kb)
        /\ run' # None => /\ run'.at \in {"check", "keys"} /\ o' = o
                          /\ o.kb # None /\ o.kb.msg = run'.msg /\ ~o.kb.waiting
    <2>1. CASE UNCHANGED <<o, run>>
      BY <1>1, <1>2, <2>1
    <2>2. CASE o' = Retired(o) /\ UNCHANGED run
      BY <1>2, <2>2, RetiredRests
    <2>3. CASE Taken
      BY <1>1, <1>4, <2>3
    <2> QED
      BY <1>5, <2>1, <2>2, <2>3
  <1>7. TypeOK' /\ PressesInv'
    BY <1>1, <1>2, <1>6 DEF PressBegins, TypeOK, PressesInv
  <1>8. RunInv'
    BY <1>6 DEF RunInv, At
  <1> QED
    BY <1>1, <1>6, <1>7, <1>8, NoPost

\* The press looks at the screen again; a question that is gone retires the keyboard.
LEMMA PressChecksKeeps == ASSUME BridgeInv, PressChecks PROVE BridgeInv'
  <1> USE DEF herdr
  <1>1. TypeOK /\ run \in Run /\ jobs' = jobs /\ chat' = chat /\ o \in Outbound /\ At("check")
        /\ lost \in BOOLEAN /\ acts \in 0..MaxActs
    BY DEF BridgeInv, TypeOK, PressChecks, At
  <1>2. CASE run' = [run EXCEPT !.at = "keys"] /\ UNCHANGED <<o, lost, acts>>
    <2>1. run' \in Run /\ run'.at = "keys" /\ run'.msg = run.msg
      BY <1>1, <1>2 DEF Run
    <2>2. TypeOK'
      BY <1>1, <1>2, <2>1 DEF PressChecks, TypeOK
    <2>3. RunInv'
      BY <1>1, <1>2, <2>1, JobParts DEF BridgeInv, RunInv, At
    <2> QED
      BY <1>1, <1>2, <2>2, <2>3, PressesStay, NoPost
  <1>3. CASE UNCHANGED <<lost, acts>> \/ Fails
    <2>1. CASE run' = None /\ o' = Retired(o)
      <3>1. acts' \in 0..MaxActs /\ lost' \in BOOLEAN
        BY <1>1, <1>3, FailsKeeps
      <3>2. o' \in Outbound /\ o'.kb = None /\ o'.typing = 0
        BY <2>1, RetiredRests
      <3>3. TypeOK'
        BY <1>1, <2>1, <3>1, <3>2 DEF PressChecks, TypeOK
      <3> QED
        BY <1>1, <2>1, <3>2, <3>3, PressesStay, NoRun, NoPost
    <2> QED
      BY <1>2, <1>3, <2>1 DEF PressChecks
  <1> QED
    BY <1>2, <1>3 DEF PressChecks

\* The keys are sent for the keyboard that was checked; its post had not answered.
LEMMA PressSendsKeeps == ASSUME BridgeInv, PressSends PROVE BridgeInv'
  <1> USE DEF herdr
  <1> DEFINE m == run.msg
             n == IF Answers /\ chat[m].acts < 2 THEN chat[m].acts + 1 ELSE chat[m].acts
             c == [chat[m] EXCEPT !.acts = n, !.wrong = @ \/ run.stale]
             acted == [chat EXCEPT ![m] = c]
  <1>1. /\ TypeOK /\ run \in Run /\ jobs' = jobs /\ o \in Outbound /\ At("keys") /\ run' = None
        /\ lost \in BOOLEAN /\ acts \in 0..MaxActs /\ chat \in Seq(Posted) /\ timer \in Timing
    BY DEF BridgeInv, TypeOK, PressSends, At, Timing
  <1>2. o.kb # None /\ o.kb.msg = m /\ ~o.kb.waiting
    BY <1>1, JobParts DEF BridgeInv, RunInv
  <1>3. /\ o.kb \in Keyboard /\ m = Len(chat) /\ m \in 1..Len(chat) /\ m \in 1..MaxPosts
        /\ chat[m] \in Posted
    BY <1>2, KeyboardLast
  <1>4. chat[m].acts = 0 /\ o.typing = 0
    <2>1. ~(chat[m].acts > 0)
      BY <1>2, <1>3, JobParts DEF BridgeInv, UsedInv
    <2>2. chat[m].acts \in 0..2
      BY <1>3 DEF Posted
    <2> QED
      BY <1>2, <2>1, <2>2 DEF BridgeInv, WaitHasKeyboard
  <1>5. /\ c \in Posted /\ c.screen = chat[m].screen
        /\ c.acts = IF Answers THEN 1 ELSE 0
    <2>1. n = (IF Answers THEN 1 ELSE 0) /\ n \in 0..2
      BY <1>4
    <2>2. run.stale \in BOOLEAN /\ chat[m].wrong \in BOOLEAN
      BY <1>1, <1>3 DEF Run, Posted
    <2> HIDE DEF n
    <2> QED
      BY <1>3, <2>1, <2>2 DEF Posted
  <1>6. /\ acted \in Seq(Posted) /\ Len(acted) = Len(chat) /\ acted[m] = c
        /\ \A i \in 1..Len(chat) : i # m => acted[i] = chat[i]
    <2> HIDE DEF c, m
    <2> QED
      BY <1>1, <1>3, <1>5
  <1>7. pane' \in Agent /\ stream' \in Seq(View)
    <2>1. FollowUps \in SUBSET Questions
      BY DEF FollowUps
    <2>2. UNCHANGED herdr => pane' \in Agent /\ stream' \in Seq(View)
      BY <1>1 DEF TypeOK
    <2> QED
      BY <1>1, <2>1, <2>2, LandsKeeps DEF PressSends
  \* The call failed, or the agent is gone: the keyboard goes.
  <1>8. ASSUME o' = Retired(o), chat' = chat \/ chat' = acted, UNCHANGED timer,
               acts' \in 0..MaxActs, lost' \in BOOLEAN
        PROVE  BridgeInv'
    <2>1. o' \in Outbound /\ o'.kb = None /\ o'.typing = 0
      BY <1>8, RetiredRests
    <2>2. /\ chat' \in Seq(Posted) /\ Len(chat') = Len(chat)
          /\ \A i \in 1..Len(chat) : chat'[i].acts <= 1
      <3>1. \A i \in 1..Len(chat) : chat[i].acts <= 1
        BY DEF BridgeInv, ActsOnce
      <3> HIDE DEF acted, c, m
      <3> QED
        BY <1>1, <1>5, <1>6, <1>8, <3>1
    <2>3. TypeOK'
      <3>1. Len(chat') <= MaxPosts
        BY <1>1, <2>2 DEF TypeOK
      <3> QED
        BY <1>1, <1>7, <1>8, <2>1, <2>2, <3>1 DEF PressSends, TypeOK
    <2>4. JobInv'
      <3>1. PressesInv' /\ RunInv'
        BY <1>1, <2>2, PressesStay, NoRun
      <3>2. UsedInv'
        BY <2>1 DEF UsedInv
      <3> QED
        BY <3>1, <3>2 DEF JobInv, RunInv, PressesInv, UsedInv
    <2>5. WaitHasKeyboard' /\ LatestActs' /\ ActsOnce'
      BY <2>1, <2>2 DEF WaitHasKeyboard, LatestActs, ActsOnce
    <2> QED
      BY <2>3, <2>4, <2>5 DEF BridgeInv
  \* The keys were taken.
  <1>9. ASSUME o' = Pressed, chat' = acted, Rearm, UNCHANGED <<lost, acts>>
        PROVE  BridgeInv'
    <2>1. /\ o' \in Outbound
          /\ \/ /\ run.data = "entry" /\ o'.typing = m
                /\ o'.kb \in Keyboard /\ o'.kb.msg = m /\ o'.kb.waiting
             \/ o.kb.multi /\ run.data = "digit" /\ o'.kb = o.kb /\ o'.typing = 0
             \/ o'.kb = None /\ o'.typing = 0
      <3>1. 0 \in 0..MaxPosts /\ m \in 0..MaxPosts
        BY <1>3, BridgeAssumption
      <3>2. CASE run.data = "entry"
        <4> DEFINE kb == [o.kb EXCEPT !.waiting = TRUE]
        <4>1. kb \in Keyboard /\ kb.msg = m /\ kb.waiting
          BY <1>2, <1>3 DEF Keyboard
        <4>2. o' = [o EXCEPT !.kb = kb, !.typing = m]
          BY <1>1, <1>9, <3>2 DEF Pressed, Outbound
        <4> HIDE DEF kb
        <4> QED
          BY <1>1, <3>1, <3>2, <4>1, <4>2 DEF Outbound
      <3>3. CASE run.data # "entry" /\ o.kb.multi /\ run.data = "digit"
        BY <1>1, <1>4, <1>9, <3>1, <3>3 DEF Pressed, Outbound
      <3>4. CASE run.data # "entry" /\ ~(o.kb.multi /\ run.data = "digit")
        BY <1>1, <1>4, <1>9, <3>1, <3>4 DEF Pressed, Outbound
      <3> QED
        BY <3>2, <3>3, <3>4
    <2>2. timer' \in Timing
      BY <1>1, <1>9, TimerKeeps DEF Rearm
    <2>3. TypeOK'
      <3>1. chat' \in Seq(Posted) /\ Len(chat') <= MaxPosts
        BY <1>1, <1>6, <1>9 DEF TypeOK
      <3> QED
        BY <1>1, <1>7, <1>9, <2>1, <2>2, <3>1 DEF PressSends, TypeOK, Timing
    <2> HIDE DEF acted, c, m
    <2>4. PressesInv' /\ RunInv'
      BY <1>1, <1>6, <1>9, PressesStay, NoRun
    <2>5. UsedInv'
      <3>1. o.kb.multi /\ run.data = "digit" => c.acts = 0
        BY <1>5 DEF Answers
      <3>2. \A i \in 1..Len(chat) : i # m => chat'[i] = chat[i]
        BY <1>6, <1>9
      <3>3. chat'[m] = c /\ Len(chat') = Len(chat)
        BY <1>6, <1>9
      <3> QED
        BY <1>2, <1>3, <2>1, <3>1, <3>2, <3>3 DEF UsedInv
    <2>6. ActsOnce'
      BY <1>1, <1>5, <1>6, <1>9 DEF BridgeInv, ActsOnce
    <2>7. WaitHasKeyboard'
      BY <2>1, NoKeyboardIsNone DEF WaitHasKeyboard
    <2>8. LatestActs'
      <3>1. IsDialog(chat[m].screen)
        BY <1>2, <1>3 DEF BridgeInv, LatestActs
      <3> QED
        BY <1>2, <1>3, <1>5, <1>6, <1>9, <2>1, <3>1 DEF LatestActs
    <2>9. JobInv'
      BY <2>4, <2>5 DEF JobInv, RunInv, PressesInv, UsedInv
    <2> QED
      BY <2>3, <2>6, <2>7, <2>8, <2>9 DEF BridgeInv
  <1>10. [chat EXCEPT ![run.msg].acts = IF Answers /\ @ < 2 THEN @ + 1 ELSE @,
                      ![run.msg].wrong = @ \/ run.stale] = acted
    BY <1>1, <1>3 DEF Posted
  <1>11. (acts' \in 0..MaxActs /\ lost' \in BOOLEAN) \/ UNCHANGED <<lost, acts>>
    BY <1>1, FailsKeeps DEF PressSends
  <1> HIDE DEF acted
  <1>12. acts' \in 0..MaxActs /\ lost' \in BOOLEAN
    BY <1>1, <1>11
  <1> QED
    BY <1>8, <1>9, <1>10, <1>12 DEF PressSends
-----------------------------------------------------------------------------
(* Messages of operators *)

\* What markKeyboardAnswered leaves of the state of the bridge.
LEMMA MarkedRests ==
    ASSUME BridgeInv, NEW w \in 0..MaxPosts
    PROVE  Marked(o, w) \in Outbound /\ Marked(o, w).typing = 0 /\ Marked(o, w).kb \in {o.kb, None}
  BY MarkedKeeps DEF BridgeInv, TypeOK

\* A message goes to the agent as text of the open wait, as a reply or as a prompt.
LEMMA MessageKeeps == ASSUME BridgeInv, NEW op, op # "press", Message(op) PROVE BridgeInv'
  <1> USE DEF herdr
  <1>1. TypeOK /\ PressesInv /\ o \in Outbound /\ chat' = chat /\ o.typing \in 0..MaxPosts
    BY JobParts DEF BridgeInv, TypeOK, Message, Outbound
  <1>2. /\ jobs' \in Seq(Job) /\ run = None
        /\ \A i \in 1..Len(jobs') : jobs'[i].op = "press" => jobs'[i].msg <= Len(chat)
    BY <1>1, TakesFirst DEF Message
  <1>3. \A at \in {"type", "reply", "prompt"}, w \in 0..MaxPosts :
            Runs(at, w) \in Run /\ Runs(at, w).at = at /\ Runs(at, w).msg = w
    BY BeginIsRun DEF Runs, Run
  <1>4. ASSUME Routes(op) PROVE run' \in Run /\ run'.at \in {"reply", "prompt"}
    <2>1. 0 \in 0..MaxPosts
      BY BridgeAssumption
    <2> QED
      BY <1>3, <1>4, <2>1 DEF Routes
  <1>5. o.typing # 0 => o.typing \in 1..Len(chat)
    <2>1. o.typing # 0 => o.kb # None /\ o.kb.msg = o.typing
      BY DEF BridgeInv, WaitHasKeyboard
    <2> QED
      BY <2>1, KeyboardLast
  <1>6. /\ o' \in Outbound /\ run' \in Run \cup {None}
        /\ o'.kb \in {o.kb, None} /\ (o'.typing # 0 => o'.typing = o.typing /\ o'.kb = o.kb)
        /\ \/ run' = None \/ run'.at \in {"reply", "prompt"}
           \/ run'.at = "type" /\ o'.typing = 0 /\ run'.msg \in 1..Len(chat)
    <2>1. CASE UNCHANGED <<o, run>>
      BY <1>1, <1>2, <2>1
    <2>2. CASE Routes(op) /\ UNCHANGED o
      BY <1>1, <1>4, <2>2
    <2>3. CASE o.typing # 0 /\ o' = [o EXCEPT !.typing = 0] /\ run' = Runs("type", o.typing)
      <3>1. o' \in Outbound /\ o'.typing = 0 /\ o'.kb = o.kb
        BY <1>1, <2>3, BridgeAssumption DEF Outbound
      <3> QED
        BY <1>1, <1>3, <1>5, <2>3, <3>1
    <2>4. CASE o' = Marked(o, o.typing) /\ Routes(op)
      BY <1>1, <1>4, <2>4, MarkedRests
    <2> QED
      BY <2>1, <2>2, <2>3, <2>4 DEF Message
  <1>7. TypeOK' /\ PressesInv'
    BY <1>1, <1>2, <1>6 DEF Message, TypeOK, PressesInv
  <1>8. RunInv'
    BY <1>1, <1>6 DEF RunInv, At
  <1> QED
    BY <1>1, <1>6, <1>7, <1>8, NoPost

\* A command ends the wait.
LEMMA CommandKeeps == ASSUME BridgeInv, Command PROVE BridgeInv'
  <1> USE DEF herdr
  <1>1. TypeOK /\ PressesInv /\ o \in Outbound /\ chat' = chat /\ o.typing \in 0..MaxPosts
    BY JobParts DEF BridgeInv, TypeOK, Command, Outbound
  <1>2. /\ jobs' \in Seq(Job) /\ run = None
        /\ \A i \in 1..Len(jobs') : jobs'[i].op = "press" => jobs'[i].msg <= Len(chat)
    BY <1>1, TakesFirst DEF Command
  <1>3. /\ o' \in Outbound /\ o'.kb \in {o.kb, None}
        /\ o'.typing # 0 => o'.typing = o.typing /\ o'.kb = o.kb
    BY <1>1, MarkedRests DEF Command
  <1>4. TypeOK' /\ PressesInv' /\ run' = None
    BY <1>1, <1>2, <1>3 DEF Command, TypeOK, PressesInv
  <1> QED
    BY <1>1, <1>3, <1>4, NoRun, NoPost

\* What was typed into the entry marks the keyboard the text was for.
LEMMA TypesKeeps == ASSUME BridgeInv, Types PROVE BridgeInv'
  <1> USE DEF herdr
  <1>1. /\ TypeOK /\ run \in Run /\ o \in Outbound /\ chat' = chat /\ run' = None /\ jobs' = jobs
        /\ lost \in BOOLEAN /\ acts \in 0..MaxActs /\ run.msg \in 0..MaxPosts
    BY DEF BridgeInv, TypeOK, Types, At, Run
  <1>2. pane' \in Agent /\ stream' \in Seq(View)
    <2>1. UNCHANGED herdr => pane' \in Agent /\ stream' \in Seq(View)
      BY <1>1 DEF TypeOK
    <2> QED
      BY <1>1, <2>1, LandsKeeps DEF Types
  <1>3. acts' \in 0..MaxActs /\ lost' \in BOOLEAN
    BY <1>1, FailsKeeps DEF Types
  <1>4. /\ o' \in Outbound /\ o'.kb \in {o.kb, None}
        /\ o'.typing # 0 => o'.typing = o.typing /\ o'.kb = o.kb
    BY <1>1, MarkedRests DEF Types
  <1>5. TypeOK'
    BY <1>1, <1>2, <1>3, <1>4 DEF Types, TypeOK
  <1> QED
    BY <1>1, <1>4, <1>5, PressesStay, NoRun, NoPost

\* Keys or a prompt reach the agent; the keyboard is marked as answered.
LEMMA TellsKeeps == ASSUME BridgeInv, Tells PROVE BridgeInv'
  <1> USE DEF herdr
  <1>1. /\ TypeOK /\ UNCHANGED <<o, chat, jobs>> /\ run' = None
        /\ lost \in BOOLEAN /\ acts \in 0..MaxActs
    BY DEF BridgeInv, TypeOK, Tells
  <1>2. pane' \in Agent /\ stream' \in Seq(View)
    <2>1. UNCHANGED herdr => pane' \in Agent /\ stream' \in Seq(View)
      BY <1>1 DEF TypeOK
    <2> QED
      BY <1>1, <2>1, LandsKeeps DEF Tells
  <1>3. acts' \in 0..MaxActs /\ lost' \in BOOLEAN
    BY <1>1, FailsKeeps DEF Tells
  <1>4. TypeOK'
    BY <1>1, <1>2, <1>3 DEF Tells, TypeOK
  <1> QED
    BY <1>1, <1>4, PressesStay, NoRun, NoPost

-----------------------------------------------------------------------------

\* Nothing has been posted at first.
LEMMA InitHolds == Init => BridgeInv
  <1> SUFFICES ASSUME Init PROVE BridgeInv
    OBVIOUS
  <1>1. Output \in Screen /\ "working" \in Statuses /\ "exited" \in Statuses
    BY ScreenFacts DEF Statuses
  <1>2. pane \in Agent /\ reg \in View /\ o \in Outbound /\ o = Fresh
    BY <1>1, BridgeAssumption DEF Init, Agent, View, Outbound, Fresh
  <1>3. timer \in [armed : BOOLEAN, due : 0..MaxDue] /\ set \in Setting
    BY DEF Init, Still, MaxDue, Setting
  <1>4. /\ stream \in Seq(View) /\ events \in Seq(Event) /\ jobs \in Seq(Job) /\ chat \in Seq(Posted)
        /\ Len(jobs) = 0 /\ Len(chat) = 0 /\ run = None
    BY DEF Init
  <1>5. /\ left \in BOOLEAN /\ lost \in BOOLEAN /\ unheard \in BOOLEAN /\ acts \in 0..MaxActs
        /\ Len(chat) <= MaxPosts /\ run \in Run \cup {None}
    <2>1. left = FALSE /\ lost = FALSE /\ unheard = FALSE /\ acts = 0
      BY DEF Init
    <2>2. Len(chat) <= MaxPosts /\ run \in Run \cup {None} /\ acts \in 0..MaxActs
      BY <1>4, <2>1, BridgeAssumption
    <2> QED
      BY <2>1, <2>2
  <1>6. TypeOK
    BY <1>2, <1>3, <1>4, <1>5 DEF TypeOK
  <1> QED
    BY <1>2, <1>4, <1>6 DEF BridgeInv, JobInv, WaitHasKeyboard, LatestActs, ActsOnce, Fresh, At

\* Every step keeps the invariant of the bridge.
LEMMA StepKeeps == BridgeInv /\ [Next]_vars => BridgeInv'
  <1> SUFFICES ASSUME BridgeInv, [Next]_vars PROVE BridgeInv'
    OBVIOUS
  <1>1. CASE UNCHANGED vars
    <2>1. UNCHANGED <<pane, stream, reg, events, jobs, o, timer, run, set, left, chat, lost, unheard, acts>>
      BY <1>1 DEF vars
    <2>2. TypeOK'
      BY <2>1 DEF BridgeInv, TypeOK
    <2> QED
      BY <2>1, <2>2, PressesStay, Aside
  <1>2. CASE BridgeStep
    BY <1>2, ObserveKeeps, DueKeeps, CatchUpKeeps, RedrawKeeps, ReadKeeps, SendKeeps,
       PressBeginsKeeps, PressChecksKeeps, PressSendsKeeps, MessageKeeps, CommandKeeps,
       TypesKeeps, TellsKeeps
    DEF BridgeStep
  <1> QED
    BY <1>1, <1>2, AgentMovesKeeps, AnsweredKeeps, ExitKeeps, StreamEventKeeps, SnapshotKeeps,
       ForwardKeeps, ResyncKeeps, DeskKeeps, QuietEndedKeeps, SwitchKeeps, RestartKeeps,
       OperatorKeeps, TimerFiresKeeps
    DEF Next

\* The buttons and the wait for text belong to the newest post, the keys of a
\* press are sent for the keyboard it was checked against, and a post answers at
\* most once (outbound.go: keyboards, pressedText, retire; inbound.go: Press).
THEOREM SpecBridgeInv == Spec => []BridgeInv
  BY InitHolds, StepKeeps, PTL DEF Spec

=============================================================================
