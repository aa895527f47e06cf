------------------------------- MODULE Bridge -------------------------------
(***************************************************************************)
(* Questions and their buttons: the bridge of herdr-tg between one agent   *)
(* and its topic (internal/app/bridge.go, outbound.go, the messages of     *)
(* inbound.go), fed by the registry and the daemon loop (registry.go,      *)
(* daemon.go).  All state of the bridge is kept per agent.                 *)
(*                                                                         *)
(* The bridge goroutine runs one job at a time.  run is the job it is in,  *)
(* cut where it calls Herdr or Telegram: while a screen is read or a post  *)
(* is sent, the agent moves on, the registry learns of it, timers fire and *)
(* operators press buttons.                                                *)
(*                                                                         *)
(* Left out: the turn record, which with the default options (no           *)
(* reactions, no shortest turn) decides nothing, and jobs that neither     *)
(* read nor write this state (panel, General, attachments, live output).   *)
(***************************************************************************)
EXTENDS Naturals, Sequences, FiniteSets

CONSTANTS
    Questions,   \* what agents ask
    Multi,       \* the questions with check boxes and a Submit row
    Entry,       \* the questions with a free-text entry
    Plain,       \* the questions that are no numbered dialog
    Mode,        \* option quiet.posts: "held", "silent" or "normal"
    Reannounce,  \* option quiet.reannounce
    Delays,      \* values of option posts.blocked_delay: not set, set
    Pager,       \* option posts.pager
    Faults,      \* whether calls fail and jobs are dropped
    Acts,        \* what happens besides questions: see ASSUME
    MaxSeq,      \* bound: changes of the agent
    MaxStream,   \* bound: Herdr events and agent events that wait
    MaxJobs,     \* bound: jobs that wait
    MaxPosts,    \* bound: posts
    MaxActs,     \* bound: acts of operators, switches, replays, restarts and faults
    None

ASSUME BridgeAssumption ==
    /\ Multi \subseteq Questions /\ Entry \subseteq Questions /\ Plain \subseteq Questions
    /\ Plain \cap (Multi \cup Entry) = {}
    /\ Mode \in {"held", "silent", "normal"}
    /\ {Reannounce, Pager, Faults} \subseteq BOOLEAN /\ Delays \subseteq BOOLEAN
    /\ Acts \subseteq {"press", "text", "command", "desk", "quiet", "mute", "sync", "resync",
                       "exit", "restart", "followup", "done"}
    /\ MaxSeq \in Nat /\ MaxStream \in Nat /\ MaxJobs \in Nat /\ MaxPosts \in Nat
    /\ MaxActs \in Nat
    /\ None \notin Questions

VARIABLES
    pane,    \* the agent in Herdr: status, screen, state_change_seq
    stream,  \* Herdr's events to the registry
    reg,     \* Registry.agents: status and StateChangeSeq
    events,  \* the registry's events to the daemon loop
    jobs,    \* Bridge.jobs
    o,       \* outbound's maps, for this agent
    timer,   \* outbound.deb: armed, and fires that wait in its channel
    run,     \* the job the bridge is in, or None
    set,     \* quiet (presence), sync and delay (options), muted (mapping), pager (reachable)
    left,    \* presence's signal to the loop that quiet ended
    chat,    \* the screens posted into the topic
    lost,    \* history: a job, a read or a post was lost, or posts were switched off
    unheard, \* history: a replay took a change of status that the bridge needs
    acts     \* counts what MaxActs bounds

herdr  == <<pane, stream>>
bridge == <<o, timer, run>>
vars == <<pane, stream, reg, events, jobs, o, timer, run, set, left, chat, lost, unheard,
          acts>>

MaxDue == 2  \* bound: fires of the timer that wait

Statuses == {"working", "blocked", "done", "exited"}

\* A screen: the question it shows, and whether with its dialog, a toggled box
\* or the text entry; without a question it is output.
Screen == [q : Questions, part : {"ask", "marked", "text"}] \cup {[q |-> None, part |-> "ask"]}

Output == [q |-> None, part |-> "ask"]

\* ParseDialog: what the keyboard is built from.  A text entry is no dialog.
IsDialog(s) == s.q # None /\ s.q \notin Plain /\ s.part # "text"

IsMulti(s) == IsDialog(s) /\ s.q \in Multi

HasEntry(s) == IsDialog(s) /\ s.q \in Entry

Shape(s) == [dialog |-> IsDialog(s), multi |-> IsMulti(s), entry |-> HasEntry(s)]

Keyboard == [msg : 1..MaxPosts, multi : BOOLEAN, entry : BOOLEAN, waiting : BOOLEAN]

ASSUME NoKeyboardIsNone == None \notin Keyboard

Event == [op : {"event"}, kind : {"appeared", "changed", "gone"}, status : Statuses, seq : 0..MaxSeq]

Press == [op : {"press"}, msg : 1..MaxPosts, data : {"digit", "submit", "entry"}]

Job == Event \cup Press \cup [op : {"text", "short", "command", "away"}]

Run == [at : {"redraw", "read", "send", "check", "keys", "type", "reply", "prompt"},
        status : Statuses, seq : 0..MaxSeq, force : BOOLEAN, notify : BOOLEAN,
        text : Screen, msg : 0..MaxPosts, data : {"digit", "submit", "entry"}, stale : BOOLEAN]

View == [status : Statuses, seq : 0..MaxSeq]

Agent == [status : Statuses, screen : Screen, seq : 0..MaxSeq]

Outbound ==
    [last : Screen \cup {None}, kb : Keyboard \cup {None}, announced : BOOLEAN,
     capture : [text : Screen, seq : 0..MaxSeq] \cup {None},
     refresh : 0..MaxPosts, typing : 0..MaxPosts]

Setting == [quiet : BOOLEAN, sync : BOOLEAN, muted : BOOLEAN, pager : BOOLEAN, delay : Delays]

Posted == [screen : Screen, rang : BOOLEAN, acts : 0..2, wrong : BOOLEAN]

TypeOK ==
    /\ pane \in Agent /\ stream \in Seq(View) /\ reg \in View
    /\ events \in Seq(Event) /\ jobs \in Seq(Job)
    /\ o \in Outbound /\ timer \in [armed : BOOLEAN, due : 0..MaxDue]
    /\ run \in Run \cup {None}
    /\ set \in Setting /\ left \in BOOLEAN /\ lost \in BOOLEAN /\ unheard \in BOOLEAN
    /\ acts \in 0..MaxActs
    /\ chat \in Seq(Posted) /\ Len(chat) <= MaxPosts

\* newOutbound.
Fresh == [last |-> None, kb |-> None, announced |-> FALSE, capture |-> None, refresh |-> 0,
          typing |-> 0]

Still == [armed |-> FALSE, due |-> 0]

Init ==
    /\ pane = [status |-> "working", screen |-> Output, seq |-> 0]
    /\ stream = <<>> /\ events = <<>> /\ jobs = <<>>
    /\ reg = [status |-> "exited", seq |-> 0]
    /\ o = Fresh /\ timer = Still /\ run = None /\ left = FALSE /\ chat = <<>>
    /\ lost = FALSE /\ unheard = FALSE /\ acts = 0
    /\ \E d \in Delays :
          set = [quiet |-> FALSE, sync |-> TRUE, muted |-> FALSE, pager |-> TRUE, delay |-> d]

-----------------------------------------------------------------------------
(* The agent *)

Counts == acts < MaxActs /\ acts' = acts + 1

Fails == Faults /\ Counts /\ lost' = TRUE

\* The agent changes, and Herdr reports its status with the new sequence number.
Becomes(status, screen) ==
    /\ pane.seq < MaxSeq /\ Len(stream) < MaxStream
    /\ pane' = [status |-> status, screen |-> screen, seq |-> pane.seq + 1]
    /\ stream' = Append(stream, [status |-> status, seq |-> pane.seq + 1])

Asking(q) == [q |-> q, part |-> "ask"]

\* By itself: it asks, finishes, goes on, or a keystroke that made Herdr call it
\* working is over.
AgentMoves ==
    /\ \/ /\ pane.status = "working" /\ pane.screen = Output
          /\ \E q \in Questions : Becomes("blocked", Asking(q))
       \/ pane.status = "working" /\ pane.screen # Output /\ Becomes("blocked", pane.screen)
       \/ "done" \in Acts /\ pane.status = "working" /\ pane.screen = Output /\ Becomes("done", Output)
       \/ pane.status = "done" /\ Becomes("working", Output)
    /\ UNCHANGED <<reg, events, jobs, bridge, set, left, chat, lost, unheard, acts>>

\* Its question is answered at the desk.
Answered ==
    /\ Counts
    /\ "desk" \in Acts /\ pane.status = "blocked" /\ Becomes("working", Output)
    /\ UNCHANGED <<reg, events, jobs, bridge, set, left, chat, lost, unheard>>

\* Keys or text reach the agent.  A dialog takes what answers it and the agent
\* works on, or shows one of the questions in follow without leaving blocked;
\* boxes are toggled and entries opened in place, which Herdr may call working
\* for a moment.
Lands(data, follow) ==
    LET s == pane.screen
        GoesOn == \/ Becomes("working", Output)
                  \/ \E q \in follow \ {s.q} : Becomes("blocked", Asking(q))
        InPlace(part) == \E st \in {pane.status, "working"} : Becomes(st, [s EXCEPT !.part = part])
    IN  \/ data = "digit" /\ IsDialog(s) /\ ~IsMulti(s) /\ GoesOn
        \/ data = "submit" /\ IsMulti(s) /\ GoesOn
        \/ data = "text" /\ s.part = "text" /\ Becomes("working", Output)
        \/ data = "digit" /\ IsMulti(s) /\ InPlace(IF s.part = "ask" THEN "marked" ELSE "ask")
        \/ data = "entry" /\ HasEntry(s) /\ InPlace("text")
        \/ pane.seq = MaxSeq /\ UNCHANGED herdr
        \/ /\ ~ \/ data = "digit" /\ IsDialog(s)
                \/ data = "submit" /\ IsMulti(s)
                \/ data = "text" /\ s.part = "text"
                \/ data = "entry" /\ HasEntry(s)
           /\ UNCHANGED herdr

\* The pane closes; Herdr's event only asks for a snapshot.
Exit ==
    /\ Counts
    /\ "exit" \in Acts /\ pane.status # "exited"
    /\ pane' = [pane EXCEPT !.status = "exited", !.screen = Output]
    /\ stream' = <<>>
    /\ UNCHANGED <<reg, events, jobs, bridge, set, left, chat, lost, unheard>>

-----------------------------------------------------------------------------
(* Registry, daemon loop and operators *)

\* differs, and the event Apply or Snapshot reports.
Reports(new) ==
    IF reg.status = new.status THEN <<>>
    ELSE <<[op |-> "event", status |-> new.status, seq |-> new.seq,
            kind |-> IF new.status = "exited" THEN "gone"
                     ELSE IF reg.status = "exited" THEN "appeared" ELSE "changed"]>>

\* Apply: applyUpdate takes the whole agent, applyStatus keeps the sequence
\* number of the last update.  A pane that is not known asks for a snapshot.
StreamEvent ==
    /\ stream # <<>> /\ Len(events) < MaxStream
    /\ stream' = Tail(stream)
    /\ \/ /\ reg.status = "exited"
          /\ UNCHANGED <<reg, events>>
       \/ /\ reg.status # "exited"
          /\ \E seq \in {reg.seq, Head(stream).seq} : reg' = [Head(stream) EXCEPT !.seq = seq]
          /\ events' = events \o Reports(reg')
    /\ UNCHANGED <<pane, jobs, bridge, set, left, chat, lost, unheard, acts>>

Seen == [status |-> pane.status, seq |-> pane.seq]

\* Snapshot, by the clock or because a structural event asked for it.
Snapshot ==
    /\ reg # Seen /\ Len(events) < MaxStream
    /\ reg' = Seen
    /\ events' = events \o Reports(reg')
    /\ UNCHANGED <<herdr, jobs, bridge, set, left, chat, lost, unheard, acts>>

\* Submit never blocks: at the limit the job is dropped.
Submit(job) ==
    \/ Len(jobs) < MaxJobs /\ jobs' = Append(jobs, job) /\ UNCHANGED lost
    \/ Faults /\ Len(jobs) = MaxJobs /\ lost' = TRUE /\ UNCHANGED jobs

\* The loop hands an event on after the reconciler has had it.
Forward ==
    /\ events # <<>> /\ events' = Tail(events)
    /\ Submit(Head(events))
    /\ UNCHANGED <<herdr, reg, bridge, set, left, chat, unheard, acts>>

\* replay: its snapshot is for the reconciler only.
Replayed == reg' = Seen /\ unheard' = (unheard \/ reg.status # pane.status)

Resync ==
    /\ Counts
    /\ "resync" \in Acts /\ reg # Seen
    /\ Replayed
    /\ UNCHANGED <<herdr, events, jobs, bridge, set, left, chat, lost>>

\* recompute: the operator sits down, or leaves, which the loop is told; what it
\* has not taken yet is replaced.
Desk ==
    /\ Counts
    /\ "quiet" \in Acts
    /\ \/ ~set.quiet /\ set' = [set EXCEPT !.quiet = TRUE] /\ left' = FALSE
       \/ set.quiet /\ set' = [set EXCEPT !.quiet = FALSE] /\ left' = TRUE
    /\ UNCHANGED <<herdr, reg, events, jobs, bridge, chat, lost, unheard>>

\* The loop replays and asks for the catch-up.
QuietEnded ==
    /\ left /\ left' = FALSE
    /\ Replayed
    /\ Submit([op |-> "away"])
    /\ UNCHANGED <<herdr, events, bridge, set, chat, acts>>

\* The option or the mapping changes (muted stands for a topic that is missing or
\* closed, too); posts skipped meanwhile are not made up for.
Switch ==
    /\ Counts
    /\ \/ "mute" \in Acts /\ set' = [set EXCEPT !.muted = ~@]
       \/ "sync" \in Acts /\ set' = [set EXCEPT !.sync = ~@]
    /\ lost' = TRUE
    /\ UNCHANGED <<herdr, reg, events, jobs, bridge, left, chat, unheard>>

\* The daemon stops and starts, and takes a first snapshot.
Restart ==
    /\ Counts
    /\ "restart" \in Acts /\ reg.status # "exited"
    /\ reg' = [status |-> "exited", seq |-> 0]
    /\ stream' = <<>> /\ events' = <<>> /\ jobs' = <<>>
    /\ o' = Fresh /\ timer' = Still /\ run' = None /\ left' = FALSE
    /\ set' = [set EXCEPT !.quiet = FALSE, !.pager = TRUE]
    /\ UNCHANGED <<pane, chat, lost, unheard>>

\* Buttons are removed lazily, so any button of any post may be pressed.
Operator ==
    /\ Counts
    /\ \/ \E m \in 1..Len(chat) :
             LET s == chat[m].screen
             IN  \E d \in {"digit", "submit", "entry"} :
                    /\ "press" \in Acts /\ IsDialog(s)
                    /\ d = "submit" => IsMulti(s)
                    /\ d = "entry" => HasEntry(s)
                    /\ Submit([op |-> "press", msg |-> m, data |-> d])
       \/ "text" \in Acts /\ \E k \in {"text", "short"} : Submit([op |-> k])
       \/ "command" \in Acts /\ Submit([op |-> "command"])
    /\ UNCHANGED <<herdr, reg, events, bridge, set, left, chat, unheard>>

-----------------------------------------------------------------------------
(* The bridge: timers and agent events *)

Arm == timer' = [timer EXCEPT !.armed = TRUE]

Cancel == timer' = [timer EXCEPT !.armed = FALSE]

TimerFires ==
    /\ timer.armed /\ timer.due < MaxDue
    /\ timer' = [armed |-> FALSE, due |-> timer.due + 1]
    /\ UNCHANGED <<herdr, reg, events, jobs, o, run, set, left, chat, lost, unheard, acts>>

\* retire: the keyboard goes, and with it a redraw and the wait for text.
Retired(p) ==
    IF p.kb = None THEN p
    ELSE [p EXCEPT !.kb = None, !.refresh = 0,
                   !.typing = IF p.kb.waiting THEN 0 ELSE @]

Takes(op) == run = None /\ jobs # <<>> /\ Head(jobs).op = op /\ jobs' = Tail(jobs)

\* A job that has just been taken up.
Begin == [at |-> "read", status |-> "working", seq |-> 0, force |-> FALSE, notify |-> FALSE,
          text |-> Output, msg |-> 0, data |-> "digit", stale |-> FALSE]

\* Fault: a question that is already open when the agent appears is passed over.
WorthChanged(e) == e.kind = "changed" /\ e.status \in {"blocked", "done"}

\* The events that arm the timer: a question, an end, or a question that is open
\* when the agent is first seen.
Worth(e) ==
    \/ e.kind = "appeared" /\ e.status = "blocked"
    \/ e.kind = "changed" /\ e.status \in {"blocked", "done"}

\* Observe, and Forget for an agent that is gone.
Observe ==
    LET e     == Head(jobs)
        quits == e.status # "blocked"
        p     == [o EXCEPT !.announced = @ /\ ~quits, !.capture = IF quits THEN None ELSE @]
    IN  /\ Takes("event")
        /\ \/ /\ e.kind = "gone"
              /\ o' = Retired([p EXCEPT !.last = None, !.refresh = 0, !.typing = 0])
              /\ Cancel
           \/ /\ Worth(e) /\ o' = p
              /\ IF p.capture # None /\ p.capture.seq = e.seq THEN UNCHANGED timer ELSE Arm
           \/ /\ e.kind # "gone" /\ ~Worth(e) /\ o' = p
              /\ IF o.refresh # 0 THEN UNCHANGED timer ELSE Cancel
        /\ UNCHANGED <<herdr, reg, events, run, set, left, chat, lost, unheard, acts>>

-----------------------------------------------------------------------------
(* Posts *)

\* The part of fire from the status on: what is posted at all, and with a sound?
Gate(r) ==
    LET held   == ~r.force /\ set.quiet /\ Mode = "held"
        silent == ~r.force /\ set.quiet /\ Mode = "silent"
    IN  \/ /\ r.status \notin {"blocked", "done"}
           /\ o' = [o EXCEPT !.capture = None, !.refresh = 0]
           /\ run' = None
        \/ /\ r.status \in {"blocked", "done"} /\ (set.muted \/ held)
           /\ o' = [o EXCEPT !.refresh = IF r.force THEN @ ELSE 0]
           /\ run' = None
        \/ /\ r.status \in {"blocked", "done"} /\ ~set.muted /\ ~held
           /\ o' = [o EXCEPT !.refresh = IF r.force THEN @ ELSE 0,
                             !.capture = IF r.force THEN None ELSE @]
           /\ run' = [r EXCEPT !.at = "read", !.msg = 0, !.notify = r.status = "blocked" /\ ~silent]

\* fire up to its first call: nothing for an agent that is gone or while sync is
\* off; a pending redraw of the latest keyboard comes first.
Fires(force) ==
    LET r == [Begin EXCEPT !.status = reg.status, !.seq = reg.seq, !.force = force]
        redraw == ~force /\ o.refresh # 0 /\ o.kb # None /\ o.kb.msg = o.refresh
    IN  \/ (reg.status = "exited" \/ ~set.sync) /\ run' = None /\ UNCHANGED o
        \/ /\ reg.status # "exited" /\ set.sync /\ redraw
           /\ o' = [o EXCEPT !.refresh = 0]
           /\ run' = [r EXCEPT !.at = "redraw", !.msg = o.refresh]
        \/ /\ reg.status # "exited" /\ set.sync /\ ~redraw
           /\ Gate(r)

Due ==
    /\ run = None /\ timer.due > 0
    /\ timer' = [timer EXCEPT !.due = @ - 1]
    /\ Fires(FALSE)
    /\ UNCHANGED <<herdr, reg, events, jobs, set, left, chat, lost, unheard, acts>>

\* CatchUp: a blocked agent whose question never rang.
CatchUp ==
    /\ Takes("away")
    /\ \/ /\ reg.status = "blocked" /\ ~o.announced /\ (o.last = None \/ Reannounce)
          /\ Fires(TRUE)
       \/ /\ ~(reg.status = "blocked" /\ ~o.announced /\ (o.last = None \/ Reannounce))
          /\ UNCHANGED <<o, run>>
    /\ UNCHANGED <<herdr, reg, events, timer, set, left, chat, lost, unheard, acts>>

\* ReadScreen fails, or gives nothing to post: the job ends.
Unread == Fails /\ run' = None /\ UNCHANGED <<o, timer, chat>>

At(step) == run # None /\ run.at = step

\* refreshKeyboard: the message is redrawn while the dialog is still one with
\* boxes, else the ordinary post takes over.
Redraw ==
    /\ At("redraw")
    /\ \/ Unread
       \/ /\ IsMulti(pane.screen)
          /\ o' = [o EXCEPT !.last = pane.screen,
                            !.kb = [@ EXCEPT !.entry = HasEntry(pane.screen)]]
          /\ chat' = [chat EXCEPT ![run.msg].screen = pane.screen]
          /\ run' = None /\ UNCHANGED <<timer, lost, acts>>
       \/ /\ ~IsMulti(pane.screen)
          /\ Gate(run)
          /\ UNCHANGED <<timer, chat, lost, acts>>
    /\ UNCHANGED <<herdr, reg, events, jobs, set, left, unheard>>

\* betterCapture: the dialog, else either of the two.
Better(first, second) ==
    IF IsDialog(first) # IsDialog(second)
    THEN {IF IsDialog(first) THEN first ELSE second}
    ELSE {first, second}

\* The text is posted unless it is what was posted last.
Chosen(text) ==
    run' = IF o.last = text /\ ~run.force THEN None ELSE [run EXCEPT !.at = "send", !.text = text]

\* The screen is read; with a delay a first capture waits for a second one of
\* the same question.
Read ==
    LET delayed == run.status = "blocked" /\ set.delay /\ ~run.force
        second  == o.capture # None /\ o.capture.seq = run.seq
    IN  /\ At("read")
        /\ \/ Unread
           \/ ~delayed /\ Chosen(pane.screen) /\ UNCHANGED <<o, timer, lost, acts>>
           \/ /\ delayed /\ second
              /\ o' = [o EXCEPT !.capture = None]
              /\ \E text \in Better(o.capture.text, pane.screen) : Chosen(text)
              /\ UNCHANGED <<timer, lost, acts>>
           \/ /\ delayed /\ ~second
              /\ o' = [o EXCEPT !.capture = [text |-> pane.screen, seq |-> run.seq]]
              /\ Arm /\ run' = None /\ UNCHANGED <<lost, acts>>
        /\ UNCHANGED <<herdr, reg, events, jobs, set, left, chat, unheard>>

\* What outbound keeps of a post.
Post(text) ==
    [Retired(o) EXCEPT !.last = text,
              !.kb = IF IsDialog(text) /\ run.status = "blocked"
                     THEN [msg |-> Len(chat) + 1, multi |-> IsMulti(text),
                           entry |-> HasEntry(text), waiting |-> FALSE]
                     ELSE @]

\* The older keyboard is retired and the screen is sent.  With the pager the
\* ring comes from the private chats: one may be reached, all be closed for
\* good, or the call fail.
Send ==
    LET paged == run.notify /\ Pager /\ set.pager
        Sends(rang, pager) ==
            /\ o' = [Post(run.text) EXCEPT !.announced = @ \/ rang]
            /\ chat' = Append(chat, [screen |-> run.text, rang |-> rang, acts |-> 0, wrong |-> FALSE])
            /\ set' = [set EXCEPT !.pager = pager]
    IN  /\ At("send") /\ run' = None
        /\ \/ /\ Len(chat) < MaxPosts
              /\ \/ Sends(run.notify, set.pager) /\ UNCHANGED <<lost, acts>>
                 \/ paged /\ Fails /\ \E pager \in BOOLEAN : Sends(FALSE, pager)
           \/ /\ Fails \/ (Len(chat) = MaxPosts /\ lost' = TRUE /\ UNCHANGED acts)
              /\ o' = Retired(o) /\ UNCHANGED <<chat, set>>
        /\ UNCHANGED <<herdr, reg, events, jobs, timer, left, unheard>>

-----------------------------------------------------------------------------
(* Buttons *)

\* Press up to its first call.  Only the latest keyboard acts, and only with
\* buttons it offers; an agent that is gone or not waiting loses its keyboard.
\* A pane called working is looked at first.
PressBegins ==
    LET e     == Head(jobs)
        offer == /\ o.kb # None /\ o.kb.msg = e.msg /\ ~o.kb.waiting
                 /\ e.data = "submit" => o.kb.multi
                 /\ e.data = "entry" => o.kb.entry
        r(at) == [Begin EXCEPT !.at = at, !.msg = e.msg, !.data = e.data,
                               !.stale = /\ reg = Seen /\ reg.status = "blocked"
                                         /\ pane.screen.q # chat[e.msg].screen.q]
    IN  /\ Takes("press")
        /\ \/ ~offer /\ UNCHANGED <<o, run>>
           \/ offer /\ reg.status \in {"exited", "done"} /\ o' = Retired(o) /\ UNCHANGED run
           \/ offer /\ reg.status = "working" /\ run' = r("check") /\ UNCHANGED o
           \/ offer /\ reg.status = "blocked" /\ run' = r("keys") /\ UNCHANGED o
        /\ UNCHANGED <<herdr, reg, events, timer, set, left, chat, lost, unheard, acts>>

\* dialogStillOpen: a dialog like the keyboard's is on the screen.
PressChecks ==
    LET open == Shape(pane.screen) = [dialog |-> TRUE, multi |-> o.kb.multi, entry |-> o.kb.entry]
    IN  /\ At("check")
        /\ \/ open /\ run' = [run EXCEPT !.at = "keys"] /\ UNCHANGED <<o, lost, acts>>
           \/ ((~open /\ UNCHANGED <<lost, acts>>) \/ Fails) /\ run' = None /\ o' = Retired(o)
        /\ UNCHANGED <<herdr, reg, events, jobs, timer, set, left, chat, unheard>>

\* Fault: a single-select keyboard stays after its press.
PressedKept ==
    IF run.data = "entry" THEN [o EXCEPT !.kb.waiting = TRUE, !.typing = run.msg]
    ELSE IF o.kb.multi /\ run.data = "digit" THEN [o EXCEPT !.refresh = run.msg]
    ELSE [o EXCEPT !.capture = None]

\* What a press leaves behind: a wait for text, a redraw, or no keyboard.
Pressed ==
    IF run.data = "entry" THEN [o EXCEPT !.kb.waiting = TRUE, !.typing = run.msg]
    ELSE IF o.kb.multi /\ run.data = "digit" THEN [o EXCEPT !.refresh = run.msg]
    ELSE [o EXCEPT !.kb = None, !.capture = None, !.refresh = IF run.data = "submit" THEN 0 ELSE @]

\* After all but the text entry the screen is read again.
Rearm == IF run.data = "entry" THEN UNCHANGED timer ELSE Arm

\* A press that answers uses its message up.
Answers == run.data # "digit" \/ ~o.kb.multi

\* A press may bring up the next question of a dialog at once.
FollowUps == IF "followup" \in Acts THEN Questions ELSE {}

\* SendKeys, and what follows.  A failed call may have reached the agent.
PressSends ==
    LET acted == [chat EXCEPT ![run.msg].acts = IF Answers /\ @ < 2 THEN @ + 1 ELSE @,
                              ![run.msg].wrong = @ \/ run.stale]
    IN  /\ At("keys") /\ run' = None
        /\ \/ /\ pane.status # "exited" /\ Lands(run.data, FollowUps)
              /\ o' = Pressed /\ chat' = acted
              /\ Rearm
              /\ UNCHANGED <<lost, acts>>
           \/ /\ \/ pane.status = "exited" /\ UNCHANGED <<herdr, chat, lost, acts>>
                 \/ pane.status # "exited" /\ Fails /\ UNCHANGED <<herdr, chat>>
                 \/ pane.status # "exited" /\ Fails /\ Lands(run.data, FollowUps) /\ chat' = acted
              /\ o' = Retired(o) /\ UNCHANGED timer
        /\ UNCHANGED <<reg, events, jobs, set, left, unheard>>

-----------------------------------------------------------------------------
(* Messages of operators *)

\* endTyping and markTyping: the wait is over, and its keyboard goes.
Marked(p, w) ==
    [p EXCEPT !.typing = 0, !.kb = IF p.kb # None /\ p.kb.msg = w THEN None ELSE p.kb]

Runs(at, w) == [Begin EXCEPT !.at = at, !.msg = w]

\* Route: a short reply to a blocked agent is keys, everything else a prompt.
Routes(op) == run' = Runs(IF op = "short" /\ reg.status = "blocked" THEN "reply" ELSE "prompt", 0)

\* HandleTopic for a message that is no command: an open wait takes it, unless
\* it has expired.
Message(op) ==
    /\ Takes(op)
    /\ \/ reg.status = "exited" /\ UNCHANGED <<o, run>>
       \/ reg.status # "exited" /\ o.typing = 0 /\ Routes(op) /\ UNCHANGED o
       \/ /\ reg.status # "exited" /\ o.typing # 0
          /\ \/ o' = [o EXCEPT !.typing = 0] /\ run' = Runs("type", o.typing)
             \/ o' = Marked(o, o.typing) /\ Routes(op)
    /\ UNCHANGED <<herdr, reg, events, timer, set, left, chat, lost, unheard, acts>>

\* A command ends the wait.  Keys of /stop, /interrupt and forwarded commands take
\* the agent on as Answered does.
Command ==
    /\ Takes("command")
    /\ o' = IF reg.status # "exited" /\ o.typing # 0 THEN Marked(o, o.typing) ELSE o
    /\ UNCHANGED <<herdr, reg, events, timer, run, set, left, chat, lost, unheard, acts>>

\* typed: the text goes into the entry and its keyboard is marked; when the
\* prompt fails the keyboard stays as it is.
Types ==
    /\ At("type") /\ run' = None
    /\ \/ pane.status # "exited" /\ Lands("text", {}) /\ o' = Marked(o, run.msg) /\ UNCHANGED <<lost, acts>>
       \/ ((pane.status = "exited" /\ UNCHANGED <<lost, acts>>) \/ Fails) /\ UNCHANGED <<herdr, o>>
    /\ UNCHANGED <<reg, events, jobs, timer, set, left, chat, unheard>>

\* Keys of a short reply, or a prompt.
Tells ==
    /\ At("reply") \/ At("prompt")
    /\ run' = None
    /\ \/ /\ pane.status # "exited" /\ Lands(IF run.at = "reply" THEN "digit" ELSE "text", {})
          /\ UNCHANGED <<lost, acts>>
       \/ ((pane.status = "exited" /\ UNCHANGED <<lost, acts>>) \/ Fails) /\ UNCHANGED herdr
    /\ UNCHANGED <<reg, events, jobs, o, timer, set, left, chat, unheard>>

BridgeStep ==
    \/ Observe \/ Due \/ CatchUp \/ Redraw \/ Read \/ Send
    \/ PressBegins \/ PressChecks \/ PressSends
    \/ Message("text") \/ Message("short") \/ Command \/ Types \/ Tells

Next ==
    \/ AgentMoves \/ Answered \/ Exit \/ StreamEvent \/ Snapshot \/ Forward \/ Resync
    \/ Desk \/ QuietEnded \/ Switch \/ Restart \/ Operator \/ TimerFires \/ BridgeStep

Spec == Init /\ [][Next]_vars

\* Goroutines that can go on do: the registry, the loop, the timer, the bridge.
FairSpec ==
    /\ Spec
    /\ WF_vars(StreamEvent) /\ WF_vars(Snapshot) /\ WF_vars(Forward)
    /\ WF_vars(QuietEnded) /\ WF_vars(TimerFires) /\ WF_vars(BridgeStep)

-----------------------------------------------------------------------------
(* Properties *)

\* An open wait for text belongs to the latest keyboard, which offers nothing
\* else until the wait ends: the next message can only be typed into the entry
\* of the question that was posted last (outbound.go: pressedText, retire).
WaitHasKeyboard ==
    o.typing # 0 => o.kb # None /\ o.kb.msg = o.typing /\ o.kb.waiting

\* Only the keyboard of the last post acts, whatever was posted, redrawn or
\* pressed in between (outbound.go: keyboards).
LatestActs == o.kb # None => o.kb.msg = Len(chat) /\ IsDialog(chat[o.kb.msg].screen)

\* However often and late a button is pressed, a post answers at most once
\* (docs/behaviour.md: pressing that one says "already answered").
ActsOnce == \A m \in 1..Len(chat) : chat[m].acts <= 1

\* What the job in progress relies on: the keyboard it was checked against is
\* still in force when its keys are sent or its message is redrawn, and a post
\* that has answered offers nothing any more.
JobInv ==
    /\ At("redraw") => o.kb # None /\ o.kb.msg = run.msg
    /\ At("check") \/ At("keys") => o.kb # None /\ o.kb.msg = run.msg /\ ~o.kb.waiting
    /\ At("type") => o.typing = 0 /\ run.msg \in 1..Len(chat)
    /\ \A i \in 1..Len(jobs) : jobs[i].op = "press" => jobs[i].msg <= Len(chat)
    /\ \A m \in 1..Len(chat) :
          chat[m].acts > 0 /\ o.kb # None /\ o.kb.msg = m => o.kb.waiting

\* The inductive invariant: the types, the step in progress, and the three
\* properties above.
BridgeInv == TypeOK /\ JobInv /\ WaitHasKeyboard /\ LatestActs /\ ActsOnce

\* A press answers the question it stands under: it does not act when, with the
\* registry up to date, the agent already waits with another one
\* (docs/commands.md: buttons that no longer apply, because "you answered in
\* Herdr, the agent moved on, an older question", show a short notice instead
\* of acting).
AnswersItsQuestion == \A m \in 1..Len(chat) : ~chat[m].wrong

\* A question that stays on the screen is posted, unless a call failed or a job
\* was dropped (docs/commands.md: when an agent turns blocked the daemon posts
\* the screen into its topic).
QuestionPosted ==
    <>[](pane.status = "blocked" /\ pane.screen.part # "text" /\ ~set.quiet /\ ~lost /\ ~unheard)
        => <>[](o.last # None /\ o.last.q = pane.screen.q)
=============================================================================
