------------------------------ MODULE Requests ------------------------------
(***************************************************************************)
(* What operators ask of one agent (app/inbound.go): prompts and keys, the *)
(* /close question and its buttons, Claude Code commands that are typed in *)
(* and followed up, files and albums, /git, and in General /new, /status   *)
(* and /observers.  A guest, who may be an observer, writes as well; the   *)
(* gateway decides what gets through (telegram/inbound.go).  The bridge    *)
(* goroutine takes one job at a time; downloads and agent starts run       *)
(* beside it and come back as jobs; timers come back through the           *)
(* debouncer.  Answers to questions on the screen are in module Bridge.    *)
(***************************************************************************)
EXTENDS Naturals, Sequences, SequencesExt, FiniteSets

CONSTANTS
  MaxMsgs,     \* bound: the messages operators send
  MaxPresses,  \* bound: the presses of /close buttons
  JobsCap      \* the capacity of the bridge's job buffer

ASSUME RequestsAssumption == MaxMsgs \in Nat /\ MaxPresses \in Nat /\ JobsCap \in Nat \ {0}

VARIABLES
  pane,     \* the agent's pane is there
  seen,     \* the registry and the mapping: "live", "agent" (no live topic), "gone"
  jobs,     \* Bridge.jobs
  closing,  \* the message of the active /close question, 0 without one
  buttons,  \* the /close questions that show their buttons
  closes,   \* history: the panes closed by each question
  pending,  \* the follow-up of a forwarded command
  armed,    \* the armed timers of the debouncer
  due,      \* debouncer.due
  album,    \* the parts collected for the media group
  running,  \* background downloads and starts
  guest,    \* the guest is on the observer list
  from,     \* who wrote each message
  kind,     \* the kind of each message
  typed,    \* history: how often a message reached the agent's terminal
  fate,     \* history: what became of each message
  budget    \* what is left of the bounds

agentVars == <<pane, seen, guest>>
timerVars == <<armed, due>>
closeVars == <<closing, buttons, closes>>
vars == <<agentVars, jobs, closeVars, pending, timerVars, album, running, from, kind, typed, fate, budget>>

Msgs == 1..MaxMsgs
General == {"new", "status", "add", "remove"}
Asks == {"prompt", "close", "usage", "clear", "compact", "file", "part", "git"} \cup General
GuestAsks == {"prompt", "status", "new"}
Forwarded == {"usage", "clear", "compact"}
Timers == {"follow", "album", "submit"}

(* The jobs: a message, a press of a /close button, the result of a        *)
(* background run, the agent's exit.                                       *)
Message(m) == [job |-> "message", msg |-> m]
Press(q, y) == [job |-> "press", msg |-> q, yes |-> y]
Result(w, good) == [job |-> "result", what |-> w.what, parts |-> w.parts, good |-> good]
Gone == [job |-> "gone"]

Init ==
  /\ pane = TRUE /\ seen = "live" /\ jobs = <<>>
  /\ closing = 0 /\ buttons = {} /\ closes = [m \in Msgs |-> 0]
  /\ pending = 0 /\ armed = {} /\ due = <<>> /\ album = {} /\ running = {}
  /\ guest = FALSE /\ kind = [m \in Msgs |-> "none"] /\ from = [m \in Msgs |-> "operator"]
  /\ typed = [m \in Msgs |-> 0] /\ fate = [m \in Msgs |-> "unsent"]
  /\ budget = [msgs |-> MaxMsgs, presses |-> MaxPresses]

Spend(b) == budget[b] > 0 /\ budget' = [budget EXCEPT ![b] = @ - 1]

(* Submit never blocks: a full buffer drops the job.                       *)
Fits == Len(jobs) < JobsCap
Put(j) == IF Fits THEN Append(jobs, j) ELSE jobs

-----------------------------------------------------------------------------
(* The operators, the guest, the agent and the registry.                   *)

(* The gateway looks at the lists when a message arrives: topics are for   *)
(* operators, an observer gets through to General.  The report of a        *)
(* stranger is not among the types Submit takes.                           *)
Admits(who, k) == who = "operator" \/ (guest /\ k \in General)

Sends(k, who) ==
  LET m == MaxMsgs - budget.msgs + 1 IN
  /\ Spend("msgs") /\ kind' = [kind EXCEPT ![m] = k] /\ from' = [from EXCEPT ![m] = who]
  /\ jobs' = IF Admits(who, k) THEN Put(Message(m)) ELSE jobs
  /\ fate' = [fate EXCEPT ![m] = IF ~Admits(who, k) THEN "ignored" ELSE IF Fits THEN "open" ELSE "dropped"]
  /\ UNCHANGED <<agentVars, closeVars, pending, timerVars, album, running, typed>>

Presses(q, y) ==
  /\ q \in buttons /\ Spend("presses") /\ jobs' = Put(Press(q, y))
  /\ UNCHANGED <<agentVars, closeVars, pending, timerVars, album, running, from, kind, typed, fate>>

(* A press by anyone but an operator is refused by the gateway.            *)
(* A topic is closed by hand, or the pane goes: first the registry sees    *)
(* it, and the bridge gets its job.                                        *)
Leaves ==
  /\ \/ pane /\ seen = "live" /\ seen' = "agent" /\ UNCHANGED <<jobs, pane>>
     \/ pane /\ pane' = FALSE /\ UNCHANGED <<jobs, seen>>
     \/ ~pane /\ seen # "gone" /\ seen' = "gone" /\ jobs' = Put(Gone) /\ UNCHANGED pane
  /\ UNCHANGED <<guest, closeVars, pending, timerVars, album, running, from, kind, typed, fate, budget>>

TimerFires(t) ==
  /\ t \in armed /\ armed' = armed \ {t} /\ due' = Append(due, t)
  /\ UNCHANGED <<agentVars, jobs, closeVars, pending, album, running, from, kind, typed, fate, budget>>

-----------------------------------------------------------------------------
(* One Herdr call.  A dial that fails twice leaves nothing behind; an      *)
(* answer that is lost leaves the call carried out and reported as failed; *)
(* nothing is repeated once the request was written.                       *)

Outcomes == {"ok", "lost", "refused"}
Reaches(o) == o \in {"ok", "lost"} /\ pane
Answered(o) == o = "ok" /\ pane

Types(M, o) == typed' = [m \in Msgs |-> IF m \in M /\ Reaches(o) THEN typed[m] + 1 ELSE typed[m]]
Ends(M, f) == fate' = [m \in Msgs |-> IF m \in M THEN f ELSE fate[m]]

(* What the bridge takes next: a job or a due timer.                       *)
NextJob == IF jobs # <<>> THEN {Head(jobs)} ELSE {}
Takes(j) == jobs # <<>> /\ Head(jobs) = j /\ jobs' = Tail(jobs)
TakesMsg(m, K) == jobs # <<>> /\ Head(jobs) = Message(m) /\ kind[m] \in K /\ jobs' = Tail(jobs)
TakesDue(t) == due # <<>> /\ Head(due) = t /\ due' = Tail(due)
Arm(t) == armed' = armed \cup {t}

(* HandleTopic and HandleAttachment: nothing reaches an agent without a    *)
(* live topic.                                                             *)
Refuses(m) ==
  /\ TakesMsg(m, Asks \ General) /\ seen # "live"
  /\ Ends({m}, "replied")
  /\ UNCHANGED <<agentVars, closeVars, pending, timerVars, album, running, from, kind, typed, budget>>

(* A prompt, keys, focus or control key: one call, and a reply if it fails.*)
Prompts(m, o) ==
  /\ TakesMsg(m, {"prompt"}) /\ seen = "live"
  /\ Types({m}, o) /\ Ends({m}, IF Answered(o) THEN "typed" ELSE "replied")
  /\ UNCHANGED <<agentVars, closeVars, pending, timerVars, album, running, from, kind, budget>>

(* /git runs beside the agent and only ever answers.                       *)
GitCommand(m) ==
  /\ TakesMsg(m, {"git"}) /\ seen = "live" /\ Ends({m}, "replied")
  /\ UNCHANGED <<agentVars, closeVars, pending, timerVars, album, running, from, kind, typed, budget>>

(* askClose: the older question loses its buttons, unless the edit fails,  *)
(* and is forgotten either way; the new one counts once it is sent.        *)
AskClose(m, edited, sent) ==
  /\ TakesMsg(m, {"close"}) /\ seen = "live"
  /\ buttons' = (IF edited THEN buttons \ {closing} ELSE buttons) \cup (IF sent THEN {m} ELSE {})
  /\ closing' = IF sent THEN m ELSE 0
  /\ Ends({m}, IF sent THEN "asked" ELSE "lost")
  /\ UNCHANGED <<agentVars, closes, pending, timerVars, album, running, from, kind, typed, budget>>

(* Mutant: the question is kept until Herdr has answered.                  *)
PressCloseKept(q, y, o, edited) ==
  /\ Takes(Press(q, y))
  /\ IF closing # q THEN UNCHANGED <<pane, closeVars>>
     ELSE /\ buttons' = IF edited THEN buttons \ {q} ELSE buttons
          /\ closing' = IF y /\ Answered(o) THEN 0 ELSE closing
          /\ IF y /\ seen # "gone"
               THEN pane' = (pane /\ ~Reaches(o)) /\ closes' = [closes EXCEPT ![q] = @ + 1]
               ELSE UNCHANGED <<pane, closes>>
  /\ UNCHANGED <<seen, guest, pending, timerVars, album, running, from, kind, typed, fate, budget>>

(* PressClose: only the latest question acts; it is forgotten before the   *)
(* pane is closed, whatever the call returns.                              *)
PressClose(q, y, o, edited) ==
  /\ Takes(Press(q, y))
  /\ IF closing # q THEN UNCHANGED <<pane, closeVars>>
     ELSE /\ buttons' = IF edited THEN buttons \ {q} ELSE buttons
          /\ closing' = 0
          /\ IF y /\ seen # "gone"
               THEN pane' = (pane /\ ~Reaches(o)) /\ closes' = [closes EXCEPT ![q] = @ + 1]
               ELSE UNCHANGED <<pane, closes>>
  /\ UNCHANGED <<seen, guest, pending, timerVars, album, running, from, kind, typed, fate, budget>>

(* Forget: the question of an agent that is gone is dropped, its timers    *)
(* and its follow-up stay.                                                 *)
Forget ==
  /\ Takes(Gone) /\ closing' = 0
  /\ UNCHANGED <<agentVars, buttons, closes, pending, timerVars, album, running, from, kind, typed, fate, budget>>

-----------------------------------------------------------------------------
(* Claude Code commands.  forward goes by the registry's status; the       *)
(* follow-up of /usage and /clear replaces the one that waits, /compact    *)
(* has none.                                                               *)
Follows(m) == kind[m] # "compact"

Forward(m, busy, o) ==
  /\ TakesMsg(m, Forwarded) /\ seen = "live"
  /\ Types(IF busy THEN {} ELSE {m}, o)
  /\ IF ~busy /\ Answered(o) /\ Follows(m)
       THEN pending' = m /\ Arm("follow") /\ Ends({pending} \ {0}, "replaced")
       ELSE Ends({m}, IF ~busy /\ Answered(o) THEN "typed" ELSE "replied") /\ UNCHANGED <<pending, armed>>
  /\ UNCHANGED <<agentVars, closeVars, due, album, running, from, kind, budget>>

(* Mutant: a follow-up without a live topic is left pending.               *)
FireKept ==
  /\ TakesDue("follow")
  /\ IF pending = 0 \/ seen # "live" THEN UNCHANGED <<pending, fate>> ELSE pending' = 0 /\ Ends({pending}, "posted")
  /\ UNCHANGED <<agentVars, jobs, closeVars, armed, album, running, from, kind, typed, budget>>

(* Fire: the screen, or why it could not be read, is posted if the topic   *)
(* is live, and esc closes the overlay of /usage.                          *)
Fire ==
  /\ TakesDue("follow")
  /\ IF pending = 0 THEN UNCHANGED <<pending, fate>>
     ELSE pending' = 0 /\ Ends({pending}, IF seen = "live" THEN "posted" ELSE "skipped")
  /\ UNCHANGED <<agentVars, jobs, closeVars, armed, album, running, from, kind, typed, budget>>

-----------------------------------------------------------------------------
(* Files.  The parts of an album are collected until they settle; each     *)
(* download runs beside the bridge and keeps what it could fetch.          *)

Download(M) == [what |-> "download", parts |-> M]

HandleAttachment(m, accepted) ==
  /\ TakesMsg(m, {"file", "part"}) /\ seen = "live"
  /\ \/ ~accepted /\ Ends({m}, "replied") /\ UNCHANGED <<running, album, armed>>
     \/ accepted /\ kind[m] = "file" /\ running' = running \cup {Download({m})} /\ UNCHANGED <<fate, album, armed>>
     \/ accepted /\ kind[m] = "part" /\ album' = album \cup {m} /\ Arm("album") /\ UNCHANGED <<fate, running>>
  /\ UNCHANGED <<agentVars, closeVars, pending, due, from, kind, typed, budget>>

(* Mutant: the collected parts stay in the album.                          *)
FireAlbumKept ==
  /\ TakesDue("album")
  /\ running' = IF album = {} THEN running ELSE running \cup {Download(album)}
  /\ UNCHANGED <<agentVars, jobs, closeVars, pending, armed, album, from, kind, typed, fate, budget>>

FireAlbum ==
  /\ TakesDue("album") /\ album' = {}
  /\ running' = IF album = {} THEN running ELSE running \cup {Download(album)}
  /\ UNCHANGED <<agentVars, jobs, closeVars, pending, armed, from, kind, typed, fate, budget>>

(* startDownload and the goroutine of /new end and submit their result.    *)
Finishes(w, good) ==
  /\ w \in running /\ running' = running \ {w} /\ jobs' = Put(Result(w, good))
  /\ Ends(IF Fits THEN {} ELSE w.parts, "dropped")
  /\ UNCHANGED <<agentVars, closeVars, pending, timerVars, album, from, kind, typed, budget>>

(* InboxFinished: what was saved is typed in with its caption, the rest is *)
(* told; enter follows after a delay.                                      *)
InboxFinished(w, good, o) ==
  /\ w.what = "download" /\ Takes(Result(w, good))
  /\ IF good = {} \/ seen # "live" THEN Ends(w.parts, "replied") /\ UNCHANGED <<typed, armed>>
     ELSE /\ Types(good, o)
          /\ IF Answered(o)
               THEN /\ fate' = [m \in Msgs |-> IF m \in good THEN "typed" ELSE IF m \in w.parts THEN "replied" ELSE fate[m]]
                    /\ Arm("submit")
               ELSE Ends(w.parts, "replied") /\ UNCHANGED armed
  /\ UNCHANGED <<agentVars, closeVars, pending, due, album, running, from, kind, budget>>

(* fireSubmit: enter goes to a screen that was read and shows no dialog;   *)
(* it types nothing new.                                                   *)
FireSubmit ==
  /\ TakesDue("submit")
  /\ UNCHANGED <<agentVars, jobs, closeVars, pending, armed, album, running, from, kind, typed, fate, budget>>

-----------------------------------------------------------------------------
(* HandleGeneral.  An observer gets /status; what else they write is       *)
(* dropped without a reply.                                                *)
Status(m) ==
  /\ TakesMsg(m, {"status"}) /\ Ends({m}, "replied")
  /\ UNCHANGED <<agentVars, closeVars, pending, timerVars, album, running, from, kind, typed, budget>>

Drops(m) ==
  /\ TakesMsg(m, General \ {"status"}) /\ from[m] = "guest" /\ Ends({m}, "ignored")
  /\ UNCHANGED <<agentVars, closeVars, pending, timerVars, album, running, from, kind, typed, budget>>

(* changeObserver: the config is saved first and then counts everywhere; a *)
(* failed save, an add of someone listed and a removal of someone who is   *)
(* not change nothing.                                                     *)
ChangeObserver(m, saved) ==
  /\ TakesMsg(m, {"add", "remove"}) /\ Ends({m}, "replied")
  /\ guest' = IF saved THEN kind[m] = "add" ELSE guest
  /\ UNCHANGED <<pane, seen, closeVars, pending, timerVars, album, running, from, kind, typed, budget>>

(* /new in General: the workspaces are listed and matched and the tab is   *)
(* made at once, the agent is started beside the bridge.                   *)
StartAgent(m, tab) ==
  /\ TakesMsg(m, {"new"}) /\ from[m] = "operator"
  /\ IF tab THEN running' = running \cup {[what |-> "start", parts |-> {m}]} /\ UNCHANGED fate
            ELSE Ends({m}, "replied") /\ UNCHANGED running
  /\ UNCHANGED <<agentVars, closeVars, pending, timerVars, album, from, kind, typed, budget>>

StartFinished(w, good) ==
  /\ w.what = "start" /\ Takes(Result(w, good)) /\ Ends(w.parts, "replied")
  /\ UNCHANGED <<agentVars, closeVars, pending, timerVars, album, running, from, kind, typed, budget>>

-----------------------------------------------------------------------------
Work == [what: {"download", "start"}, parts: SUBSET Msgs]

Operators ==
  \/ \E k \in Asks : Sends(k, "operator")
  \/ \E k \in GuestAsks : Sends(k, "guest")
  \/ \E q \in buttons, y \in BOOLEAN : Presses(q, y)

Handles ==
  \/ Fire \/ FireAlbum \/ FireSubmit \/ Forget
  \/ \E j \in NextJob :
       \/ /\ j.job = "message"
          /\ \/ Refuses(j.msg) \/ GitCommand(j.msg) \/ Status(j.msg) \/ Drops(j.msg)
             \/ \E saved \in BOOLEAN : ChangeObserver(j.msg, saved)
             \/ \E busy \in BOOLEAN, o \in Outcomes : Forward(j.msg, busy, o)
             \/ \E o \in Outcomes : Prompts(j.msg, o)
             \/ \E edited, sent \in BOOLEAN : AskClose(j.msg, edited, sent)
             \/ \E ok \in BOOLEAN : HandleAttachment(j.msg, ok) \/ StartAgent(j.msg, ok)
       \/ /\ j.job = "press"
          /\ \E o \in Outcomes, edited \in BOOLEAN : PressClose(j.msg, j.yes, o, edited)
       \/ /\ j.job = "result"
          /\ \/ StartFinished(j, j.good)
             \/ \E o \in Outcomes : InboxFinished(j, j.good, o)

Next ==
  \/ Operators \/ Leaves \/ Handles
  \/ \E t \in Timers : TimerFires(t)
  \/ \E w \in running : \E good \in SUBSET w.parts : Finishes(w, good)

(* The bridge goroutine runs, timers fire, background calls end at their   *)
(* timeout.                                                                *)
Fairness ==
  /\ WF_vars(Handles)
  /\ \A t \in Timers : WF_vars(TimerFires(t))
  /\ WF_vars(\E w \in running : \E good \in SUBSET w.parts : Finishes(w, good))

Spec == Init /\ [][Next]_vars /\ Fairness

-----------------------------------------------------------------------------
(* Only what an operator wrote reaches the agent's terminal, and it and    *)
(* every file of an album at most once: whatever calls fail or lose their answers,       *)
(* however late parts and downloads come (callOnce, call, fireAlbum,       *)
(* InboxFinished).                                                         *)
TypedOnce == \A m \in Msgs : typed[m] <= IF from[m] = "operator" THEN 1 ELSE 0

(* A pane is closed by a Yes on the newest /close question that reached    *)
(* the topic, and by one press of it: not by an older question whose       *)
(* buttons could not be taken away, nor by a second press that waited in   *)
(* the queue (askClose, PressClose).                                       *)
ClosesOnce ==
  /\ \A q \in Msgs : closes[q] <= 1
  /\ closing # 0 => closes[closing] = 0 /\ \A m \in Msgs : fate[m] = "asked" => m <= closing

(* Every message an operator sent is brought to an end: typed, answered,   *)
(* asked, followed up or dropped with the buffer full.  No follow-up, no   *)
(* album and no background run keeps one for good (Fire, fireAlbum,        *)
(* Finishes).                                                              *)
AllEnd == \A m \in Msgs : fate[m] = "open" ~> fate[m] # "open"

=============================================================================
