----------------------------- MODULE Dashboard -----------------------------
(***************************************************************************)
(* The pinned message in General (app/dashboard.go) and the presence       *)
(* tracker that decides on quiet hours (app/presence.go).  The daemon loop *)
(* refreshes the message on a settled timer and on the minute tick; the    *)
(* bridge goroutine switches options and sets /away while a call of the    *)
(* loop is under way; Telegram may lose a message or an answer, a save of  *)
(* mapping.json may fail, and the daemon may end between any two steps.    *)
(* Pins are left out: nothing the daemon does depends on them.             *)
(***************************************************************************)
EXTENDS Naturals, Sequences, SequencesExt

CONSTANT Budget  \* bound: changes, commands, faults and ends of the daemon

ASSUME DashboardAssumption == Budget \in Nat

VARIABLES
  pc,        \* what the loop is doing
  work,      \* the body of the refresh under way and the message it created
  stopping,  \* the daemon's context is cancelled
  on,        \* the option sync.dashboard
  facts,     \* the part of the body that is about agents, icons and sync
  news,      \* the registry's events wait for the loop
  armed,     \* the coalescing timer runs or is due
  id,        \* mapping.Dashboard
  disk,      \* the same in mapping.json
  hash,      \* Dashboard.lastHash
  msgs,      \* the dashboards ever sent to General
  strays,    \* history: the messages no daemon may know of
  unsure,    \* history: the last edit was carried out and reported as failed
  who,       \* the state of Presence
  changes,   \* Presence.changes
  heard,     \* history: the loop acted last on this value of quiet
  left       \* what is left of Budget

dashVars == <<id, disk, hash, msgs, strays, unsure>>
loopVars == <<pc, work, stopping>>
presenceVars == <<who, changes, heard>>
vars == <<loopVars, dashVars, presenceVars, on, facts, news, armed, left>>

(* presenceHeaderText: the line about quiet hours.                         *)
Header ==
  IF ~who.enabled THEN "none"
  ELSE IF who.manual # "no" THEN who.manual
  ELSE IF who.quiet THEN "quiet" ELSE "none"

(* view: what the body is made of.                                         *)
View == [facts |-> facts, header |-> Header]

(* A message as people see it: live, stopped, off or gone.                 *)
NoBody == [facts |-> 0, header |-> "unsent"]
Message(look, body) == [look |-> look, body |-> body]
NoWork == [body |-> NoBody, new |-> 0]

Spend(n) == left >= n /\ left' = left - n

(* Schedule: with the option off and no message there is nothing to do.    *)
Schedule(enabled) == armed' = (armed \/ enabled \/ id # 0)

-----------------------------------------------------------------------------
(* The calls of the gateway.  A call that fails may have been carried out; *)
(* a failure costs one of the budget, and so does a cancelled call, which  *)
(* takes a cancelled context.                                              *)
Results == {"ok", "gone", "failed", "cancelled", "fatal"}

Answers(i, r) ==
  /\ r = "gone" <=> (msgs[i].look = "gone" /\ r \in {"ok", "gone"})
  /\ r = "cancelled" => stopping
  /\ Spend(IF r \in {"ok", "gone"} THEN 0 ELSE 1)

(* EditText, DeleteMessage: the message becomes m.                         *)
Applies(i, m, r, carried) ==
  /\ Answers(i, r) /\ (r = "ok" => carried) /\ (r = "gone" => ~carried)
  /\ msgs' = IF carried /\ msgs[i].look # "gone" THEN [msgs EXCEPT ![i] = m] ELSE msgs

(* Send: the queue repeats a call whose answer was lost, so that copies    *)
(* stay behind; the id is that of the last.                                *)
Delivers(m, r, copies) ==
  /\ r = "cancelled" => stopping
  /\ r = "ok" => copies > 0
  /\ Spend((IF r = "ok" THEN 0 ELSE 1) + (IF copies > 1 THEN 1 ELSE 0))
  /\ msgs' = msgs \o [c \in 1..copies |-> m]
  /\ strays' = strays \cup (((Len(msgs) + 1)..Len(msgs')) \ (IF r = "ok" THEN {Len(msgs')} ELSE {}))

(* SetDashboardID: recorded in memory, and saved unless the save fails; a  *)
(* message that is not in the file may be lost to the next daemon.         *)
Records(n, saved) ==
  /\ id' = n /\ disk' = IF saved THEN n ELSE disk

-----------------------------------------------------------------------------
(* recompute: a flip replaces the value the loop has not taken yet.        *)
Quiet(w) == w.enabled /\ w.supported /\ w.desk /\ w.manual = "no"

RecomputeQueued(w) ==
  /\ who' = [w EXCEPT !.quiet = Quiet(w)]
  /\ changes' = IF Quiet(w) = who.quiet \/ changes # <<>> THEN changes ELSE <<Quiet(w)>>

Recompute(w) ==
  /\ who' = [w EXCEPT !.quiet = Quiet(w)]
  /\ changes' = IF Quiet(w) = who.quiet THEN changes ELSE <<Quiet(w)>>

(* Poll: a timed /away may end.  sample: the idle source answers, fails    *)
(* and leaves the verdict, or turns out not to be supported.               *)
Expired(w) == IF w.manual = "timed" THEN {w, [w EXCEPT !.manual = "no"]} ELSE {w}

Answered(w) ==
  IF w.supported
    THEN {w, [w EXCEPT !.desk = TRUE], [w EXCEPT !.desk = FALSE], [w EXCEPT !.supported = FALSE, !.desk = FALSE]}
    ELSE {w}

Sampled(w) == UNION {Answered(v) : v \in Expired(w)}

Idle == pc = "idle" /\ left' = left

Poll ==
  /\ pc = "idle"
  /\ \E w \in Sampled(who) :
       /\ w # who /\ Spend(1) /\ Recompute(w)
  /\ UNCHANGED <<loopVars, dashVars, heard, on, facts, news, armed>>

(* /away, /here and the quiet options, on the bridge goroutine.            *)
BridgeRuns == pc \notin {"down", "repin"}

Away(m) ==
  /\ BridgeRuns /\ who.enabled /\ who.manual # m /\ Spend(1)
  /\ Recompute([who EXCEPT !.manual = m])
  /\ UNCHANGED <<loopVars, dashVars, heard, on, facts, news, armed>>

QuietOption ==
  /\ BridgeRuns /\ Spend(1)
  /\ Recompute([who EXCEPT !.enabled = ~@])
  /\ Schedule(on)
  /\ UNCHANGED <<loopVars, dashVars, heard, on, facts, news>>

(* The loop takes a change: it schedules a refresh and, when quiet ended,  *)
(* catches up, which saves the mapping if that changes anything.           *)
TakeChange(saves) ==
  /\ Idle /\ changes # <<>>
  /\ changes' = <<>> /\ heard' = Head(changes)
  /\ Schedule(on)
  /\ disk' = IF saves /\ ~Head(changes) THEN id ELSE disk
  /\ UNCHANGED <<loopVars, id, hash, msgs, strays, unsure, who, on, facts, news>>

-----------------------------------------------------------------------------
(* The agents, the minute labels and the options that show.                *)
Moves(event) ==
  /\ pc # "down" /\ Spend(1) /\ facts' = 1 - facts /\ news' = (news \/ event)
  /\ UNCHANGED <<loopVars, dashVars, presenceVars, on, armed>>

Observe(saves) ==
  /\ Idle /\ news /\ news' = FALSE /\ Schedule(on)
  /\ disk' = IF saves THEN id ELSE disk
  /\ UNCHANGED <<loopVars, id, hash, msgs, strays, unsure, presenceVars, on, facts>>

ShownOption ==
  /\ BridgeRuns /\ Spend(1) /\ facts' = 1 - facts /\ Schedule(on)
  /\ UNCHANGED <<loopVars, dashVars, presenceVars, on, news>>

Switch ==
  /\ BridgeRuns /\ Spend(1) /\ on' = ~on /\ Schedule(on')
  /\ UNCHANGED <<loopVars, dashVars, presenceVars, facts, news>>

(* Somebody deletes a message in General.                                  *)
Deleted(i) ==
  /\ Spend(1) /\ msgs[i].look # "gone" /\ msgs' = [msgs EXCEPT ![i].look = "gone"]
  /\ UNCHANGED <<loopVars, id, disk, hash, strays, unsure, presenceVars, on, facts, news, armed>>

-----------------------------------------------------------------------------
(* refresh: remove, edit or create as the option and the message demand.   *)
Refresh ==
  LET next == IF ~on THEN (IF id = 0 THEN "idle" ELSE "delete")
              ELSE IF id = 0 THEN "send"
              ELSE IF hash = View THEN "idle" ELSE "edit" IN
  /\ Idle /\ pc' = next
  /\ work' = IF next = "idle" THEN NoWork ELSE [body |-> View, new |-> 0]
  /\ UNCHANGED <<stopping, dashVars, presenceVars, on, facts, news>>

Fire == armed /\ armed' = FALSE /\ Refresh
Tick == Refresh /\ UNCHANGED armed

(* failed: a fatal error ends the daemon, anything else waits for the next *)
(* refresh.                                                                *)
After(r, next) == pc' = (IF r = "fatal" THEN "down" ELSE next) /\ work' = (IF r # "fatal" /\ next # "idle" THEN work ELSE NoWork)

EditHashed(r, carried) ==
  /\ pc = "edit" /\ Applies(id, Message("live", work.body), r, carried)
  /\ hash' = IF r = "gone" THEN hash ELSE work.body
  /\ After(r, IF r = "gone" THEN "send" ELSE "idle")
  /\ unsure' = (r # "ok" /\ (carried \/ unsure))
  /\ UNCHANGED <<stopping, id, disk, strays, presenceVars, on, facts, news, armed>>

EditAnew(r, carried) ==
  /\ pc = "edit" /\ Applies(id, Message("live", work.body), r, carried)
  /\ hash' = IF r = "ok" THEN work.body ELSE hash
  /\ After(r, IF r = "ok" THEN "idle" ELSE "send")
  /\ unsure' = (r # "ok" /\ (carried \/ unsure))
  /\ UNCHANGED <<stopping, id, disk, strays, presenceVars, on, facts, news, armed>>

Edit(r, carried) ==
  /\ pc = "edit" /\ Applies(id, Message("live", work.body), r, carried)
  /\ hash' = IF r = "ok" THEN work.body ELSE hash
  /\ After(r, IF r = "gone" THEN "send" ELSE "idle")
  /\ unsure' = (r # "ok" /\ (carried \/ unsure))
  /\ UNCHANGED <<stopping, id, disk, strays, presenceVars, on, facts, news, armed>>

Send(r, copies) ==
  /\ pc = "send" /\ r # "gone" /\ Delivers(Message("live", work.body), r, copies)
  /\ pc' = IF r = "ok" THEN "pin" ELSE IF r = "fatal" THEN "down" ELSE "idle"
  /\ work' = IF r = "ok" THEN [work EXCEPT !.new = Len(msgs')] ELSE NoWork
  /\ UNCHANGED <<stopping, id, disk, hash, unsure, presenceVars, on, facts, news, armed>>

(* pin, whatever it answers, and setID.                                    *)
Pin(saved) ==
  /\ pc = "pin" /\ pc' = "idle" /\ work' = NoWork
  /\ Spend(IF saved THEN 0 ELSE 1)
  /\ Records(work.new, saved) /\ hash' = work.body
  /\ strays' = IF saved THEN strays ELSE strays \cup {work.new}
  /\ unsure' = FALSE
  /\ UNCHANGED <<stopping, msgs, presenceVars, on, facts, news, armed>>

(* remove: Unpin and DeleteMessage; what cannot be deleted is marked off;  *)
(* the id is forgotten even if that fails, but not if the call was         *)
(* cancelled or fatal.                                                     *)
Delete(r, carried, saved) ==
  /\ pc = "delete"
  /\ Applies(id, Message("gone", msgs[id].body), r, carried)
  /\ After(r, IF r = "failed" THEN "note" ELSE "idle")
  /\ IF r \in {"ok", "gone"} THEN Records(0, saved) /\ hash' = NoBody ELSE saved /\ UNCHANGED <<id, disk, hash>>
  /\ UNCHANGED <<stopping, strays, unsure, presenceVars, on, facts, news, armed>>

Note(r, carried, saved) ==
  /\ pc = "note"
  /\ Applies(id, Message("off", msgs[id].body), r, carried)
  /\ After(r, "idle")
  /\ IF r # "fatal" THEN Records(0, saved) /\ hash' = NoBody ELSE saved /\ UNCHANGED <<id, disk, hash>>
  /\ strays' = IF r \in {"failed", "cancelled"} THEN strays \cup {id} ELSE strays
  /\ UNCHANGED <<stopping, unsure, presenceVars, on, facts, news, armed>>

-----------------------------------------------------------------------------
(* The context is cancelled; the loop leaves at its select, and Stop edits *)
(* the message for the last time.                                          *)
Terminate ==
  /\ pc # "down" /\ ~stopping /\ Spend(1) /\ stopping' = TRUE
  /\ UNCHANGED <<pc, work, dashVars, presenceVars, on, facts, news, armed>>

Stop(r, carried) ==
  /\ pc = "idle" /\ stopping
  /\ IF id = 0 \/ ~on THEN r = "ok" /\ carried /\ UNCHANGED <<msgs, left>>
     ELSE Applies(id, Message("stopped", View), r, carried)
  /\ pc' = "down" /\ work' = NoWork
  /\ UNCHANGED <<stopping, id, disk, hash, strays, unsure, presenceVars, on, facts, news, armed>>

(* The process is killed.  What it had sent and not recorded stays behind. *)
Crash ==
  /\ pc # "down" /\ Spend(1) /\ pc' = "down" /\ work' = NoWork
  /\ strays' = strays \cup ({work.new} \ {0})
  /\ UNCHANGED <<stopping, id, disk, hash, msgs, unsure, presenceVars, on, facts, news, armed>>

(* A new daemon: the first sample of presence is the baseline, and its     *)
(* change is dropped.                                                      *)
Start ==
  /\ pc = "down" /\ pc' = "repin" /\ stopping' = FALSE
  /\ id' = disk /\ hash' = NoBody /\ news' = FALSE /\ armed' = FALSE
  /\ \E w \in Sampled([who EXCEPT !.manual = "no", !.desk = FALSE, !.supported = TRUE]) :
       who' = [w EXCEPT !.quiet = Quiet(w)] /\ heard' = Quiet(w)
  /\ changes' = <<>>
  /\ unsure' = FALSE
  /\ UNCHANGED <<work, disk, msgs, strays, on, facts, left>>

(* Repin: a message that is gone is forgotten; then the first Schedule.    *)
Repin(r, saved) ==
  /\ pc = "repin" /\ pc' = "idle"
  /\ IF id = 0 \/ ~on THEN r = "ok" /\ saved /\ UNCHANGED <<id, disk, hash, left>>
     ELSE /\ Answers(id, r)
          /\ IF r = "gone" THEN Records(0, saved) /\ hash' = NoBody ELSE saved /\ UNCHANGED <<id, disk, hash>>
  /\ armed' = (armed \/ on \/ id' # 0)
  /\ UNCHANGED <<work, stopping, msgs, strays, unsure, presenceVars, on, facts, news>>
-----------------------------------------------------------------------------
Init ==
  /\ pc = "down" /\ work = NoWork /\ stopping = FALSE /\ on = TRUE /\ facts = 0 /\ news = FALSE
  /\ armed = FALSE /\ id = 0 /\ disk = 0 /\ hash = NoBody /\ msgs = <<>> /\ strays = {} /\ unsure = FALSE
  /\ who = [enabled |-> TRUE, supported |-> TRUE, desk |-> FALSE, manual |-> "no", quiet |-> FALSE]
  /\ changes = <<>> /\ heard = FALSE /\ left = Budget

(* The bridge goroutine, the registry and people.                          *)
Around ==
  \/ \E m \in {"open", "timed", "no"} : Away(m)
  \/ \E event \in BOOLEAN : Moves(event)
  \/ QuietOption \/ ShownOption \/ Switch \/ Terminate \/ Crash
  \/ \E i \in DOMAIN msgs : Deleted(i)

(* The call under way returns.                                             *)
Calls ==
  \/ \E saved \in BOOLEAN : Pin(saved)
  \/ \E r \in Results, carried \in BOOLEAN :
       \/ Edit(r, carried) \/ Stop(r, carried)
       \/ \E saved \in BOOLEAN : Delete(r, carried, saved) \/ Note(r, carried, saved)
  \/ \E r \in Results, copies \in 0..2 : Send(r, copies)
  \/ \E r \in Results, saved \in BOOLEAN : Repin(r, saved)

Loop == Calls \/ Fire \/ Tick \/ \E saves \in BOOLEAN : Observe(saves) \/ TakeChange(saves)

Next == Around \/ Loop \/ Poll \/ Start

(* The loop runs and its minute tick comes; nothing is assumed of the      *)
(* people, and a daemon that ended need not come back.                     *)
Spec == Init /\ [][Next]_vars /\ WF_vars(Calls) /\ WF_vars(Tick)
-----------------------------------------------------------------------------
(* No live-looking dashboard is left behind: what looks live is the        *)
(* message the daemon edits, the one it is about to record, or one that    *)
(* an accident cut off: a repeated or unanswered send, a daemon killed     *)
(* before the id was recorded, a failed save, or a message that could      *)
(* neither be deleted nor marked off (refresh, remove, Repin).             *)
OneDashboard ==
  \A i \in DOMAIN msgs \ strays :
    msgs[i].look = "live" => i \in {work.new, IF pc = "down" THEN disk ELSE id}

(* What waits in the channel is the present state of quiet hours, and a    *)
(* loop with an empty channel has acted on the present state: no end of    *)
(* quiet is missed, however often it flips while a call is under way       *)
(* (Presence.recompute, Changes, the baseline in Run).                     *)
QuietHeard ==
  pc # "down" => IF changes = <<>> THEN heard = who.quiet ELSE Last(changes) = who.quiet

(* When things calm down, a running daemon with the dashboard on edits its *)
(* message to what there is to show; with it off there is no message, even *)
(* when the option was switched while the message was being created and    *)
(* its hook found nothing to do (Schedule, refresh, Tick, failed).  There  *)
(* are two exceptions, both until the body changes: a message that was     *)
(* deleted, and an edit that was carried out and reported as failed when   *)
(* the body has turned back to the one before it, which lastHash skips.    *)
DashboardSettles ==
  <>[](pc # "down" /\ ~stopping =>
         IF on THEN id # 0 /\ (\/ msgs[id] = Message("live", View)
                               \/ msgs[id].look = "gone"
                               \/ unsure /\ hash = View)
               ELSE id = 0)
=============================================================================
