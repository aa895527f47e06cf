-------------------------- MODULE DashboardProofs --------------------------
(***************************************************************************)
(* That no end of quiet hours is missed (QuietHeard) and that no           *)
(* live-looking dashboard is left behind (OneDashboard), for every budget  *)
(* of changes, faults and ends of the daemon.                              *)
(***************************************************************************)
EXTENDS Dashboard, TLAPS

Person == [enabled : BOOLEAN, supported : BOOLEAN, desk : BOOLEAN,
           manual : {"no", "open", "timed"}, quiet : BOOLEAN]

(* QuietHeard is not inductive: it says nothing of a daemon that is down,  *)
(* and allows a backlog whose first value the loop would act on.  The      *)
(* channel holds at most the one value that recompute put there last.      *)
PresenceOK ==
  /\ who \in Person
  /\ heard \in BOOLEAN
  /\ changes = <<who.quiet>> \/ (changes = <<>> /\ heard = who.quiet)

(* The verdict on quiet hours is a truth value.                            *)
LEMMA QuietType == ASSUME NEW w \in Person PROVE Quiet(w) \in BOOLEAN
BY Zenon DEF Quiet, Person

(* What recompute is given back is a state of Presence with the new        *)
(* verdict in it.                                                          *)
LEMMA Verdict ==
  ASSUME NEW w \in Person
  PROVE /\ [w EXCEPT !.quiet = Quiet(w)] \in Person
        /\ [w EXCEPT !.quiet = Quiet(w)].quiet = Quiet(w)
<1>1. Quiet(w) \in BOOLEAN BY QuietType
<1> QED BY <1>1 DEF Person

(* Every outcome of a sample is a state of Presence.                       *)
LEMMA SampledType ==
  ASSUME NEW w \in Person, NEW v \in Sampled(w)
  PROVE v \in Person
<1>1. PICK x \in Expired(w) : v \in Answered(x) BY DEF Sampled
<1>2. x \in Person BY DEF Expired, Person
<1> QED BY <1>1, <1>2 DEF Answered, Person

(* recompute keeps the channel up to date: a flip replaces what waits in   *)
(* it, and without a flip nothing changes.                                 *)
LEMMA RecomputeKeeps ==
  ASSUME PresenceOK, NEW w \in Person, Recompute(w), heard' = heard
  PROVE PresenceOK'
<1>1. /\ who' \in Person /\ who'.quiet = Quiet(w)
  BY Verdict DEF Recompute
<1>2. CASE Quiet(w) = who.quiet
  BY <1>1, <1>2 DEF PresenceOK, Recompute
<1>3. CASE Quiet(w) # who.quiet
  BY <1>1, <1>3 DEF PresenceOK, Recompute
<1> QED BY <1>2, <1>3

(* Everything else leaves Presence alone, except that the loop takes the   *)
(* value that waits and a new daemon takes the first sample as its         *)
(* baseline.                                                               *)
LEMMA PresenceStep == ASSUME PresenceOK, [Next]_vars PROVE PresenceOK'
<1>0. CASE UNCHANGED presenceVars
  BY <1>0 DEF PresenceOK, presenceVars
<1>1. CASE Poll
  <2>1. PICK w \in Sampled(who) : Recompute(w) BY <1>1 DEF Poll
  <2>2. w \in Person BY <2>1, SampledType DEF PresenceOK
  <2> QED BY <1>1, <2>1, <2>2, RecomputeKeeps DEF Poll
<1>2. CASE \E m \in {"open", "timed", "no"} : Away(m)
  <2>1. PICK m \in {"open", "timed", "no"} : Away(m) BY <1>2
  <2>2. [who EXCEPT !.manual = m] \in Person BY DEF PresenceOK, Person
  <2> QED BY <2>1, <2>2, RecomputeKeeps DEF Away
<1>3. CASE QuietOption
  <2>1. [who EXCEPT !.enabled = ~@] \in Person BY DEF PresenceOK, Person
  <2> QED BY <1>3, <2>1, RecomputeKeeps DEF QuietOption
<1>4. CASE \E saves \in BOOLEAN : TakeChange(saves)
  <2>1. /\ changes # <<>> /\ changes' = <<>> /\ heard' = Head(changes)
        /\ who' = who
    BY <1>4 DEF TakeChange
  <2>2. heard' = who.quiet BY <2>1 DEF PresenceOK
  <2>3. who.quiet \in BOOLEAN BY DEF PresenceOK, Person
  <2> QED BY <2>1, <2>2, <2>3 DEF PresenceOK
<1>5. CASE Start
  <2> DEFINE fresh == [who EXCEPT !.manual = "no", !.desk = FALSE, !.supported = TRUE]
  <2>1. PICK w \in Sampled(fresh) :
          who' = [w EXCEPT !.quiet = Quiet(w)] /\ heard' = Quiet(w)
    BY <1>5 DEF Start
  <2>2. fresh \in Person BY DEF PresenceOK, Person
  <2>3. w \in Person BY <2>1, <2>2, SampledType
  <2>4. /\ who' \in Person /\ who'.quiet = heard' BY <2>1, <2>3, Verdict
  <2>5. heard' \in BOOLEAN BY <2>1, <2>3, QuietType
  <2>6. changes' = <<>> BY <1>5 DEF Start
  <2> QED BY <2>4, <2>5, <2>6 DEF PresenceOK
<1>6. CASE Calls
  BY <1>0, <1>6 DEF Calls, Pin, Edit, Stop, Delete, Note, Send, Repin
<1>7. CASE Fire \/ Tick \/ \E saves \in BOOLEAN : Observe(saves)
  BY <1>0, <1>7 DEF Fire, Tick, Refresh, Observe
<1>8. CASE \/ ShownOption \/ Switch \/ Terminate \/ Crash
           \/ \E event \in BOOLEAN : Moves(event)
           \/ \E i \in DOMAIN msgs : Deleted(i)
  BY <1>0, <1>8 DEF ShownOption, Switch, Terminate, Crash, Moves, Deleted
<1>9. CASE UNCHANGED vars
  BY <1>0, <1>9 DEF vars
<1> QED BY <1>1, <1>2, <1>3, <1>4, <1>5, <1>6, <1>7, <1>8, <1>9
        DEF Next, Around, Loop

(* The first daemon starts with nothing to hear.                           *)
LEMMA PresenceInit == Init => PresenceOK
  <1> SUFFICES ASSUME Init PROVE PresenceOK OBVIOUS
  <1>1. who = [enabled |-> TRUE, supported |-> TRUE, desk |-> FALSE,
               manual |-> "no", quiet |-> FALSE]
    BY Zenon DEF Init
  <1>2. who \in Person /\ who.quiet = FALSE BY <1>1 DEF Person
  <1>3. changes = <<>> /\ heard = FALSE BY Zenon DEF Init
  <1> QED BY <1>2, <1>3 DEF PresenceOK

(* No end of quiet hours is missed: whatever the bridge goroutine does to  *)
(* presence while a call of the loop is under way, and however often the   *)
(* daemon ends, what waits for the loop is the present verdict, and a loop *)
(* with nothing waiting has acted on it (Presence.recompute, Run).         *)
THEOREM SpecQuietHeard == Spec => []QuietHeard
<1>1. Init => PresenceOK BY PresenceInit
<1>2. PresenceOK /\ [Next]_vars => PresenceOK' BY PresenceStep
<1>3. PresenceOK => QuietHeard BY DEF PresenceOK, QuietHeard, Last
<1> QED BY <1>1, <1>2, <1>3, PTL DEF Spec

-----------------------------------------------------------------------------
(* OneDashboard.  The looks of a message and the bodies it may show.       *)
Body == [facts : 0..1, header : {"none", "open", "timed", "quiet", "unsent"}]
Shown == [look : {"live", "stopped", "off", "gone"}, body : Body]

DashboardType ==
  /\ facts \in 0..1
  /\ msgs \in Seq(Shown)
  /\ work \in [body : Body, new : Nat]
  /\ work.new \in 0..Len(msgs) /\ id \in 0..Len(msgs) /\ disk \in 0..Len(msgs)

(* OneDashboard is not inductive: a message known only to memory would be  *)
(* lost when the daemon ends, and one that is replaced while it still      *)
(* looks live would be lost when the new one is recorded.  So the message  *)
(* in memory is the one in the file, unless an accident cut it off, a call *)
(* that changes a message has one, and none looks live while another is    *)
(* sent and pinned.                                                        *)
Live(i) == msgs[i].look = "live" /\ i \notin strays

Known ==
  /\ \A i \in 1..Len(msgs) : Live(i) => i \in {work.new, id}
  /\ id = 0 \/ id = disk \/ id \in strays

Replaced ==
  pc \in {"send", "pin"} => \A i \in 1..Len(msgs) : Live(i) => i = work.new

CallsOne ==
  /\ pc \in {"edit", "delete", "note"} => id # 0
  /\ pc # "pin" => work.new = 0

DashboardOK == DashboardType /\ Known /\ Replaced /\ CallsOne

(* The body a refresh renders.                                             *)
LEMMA ViewType == ASSUME PresenceOK, facts \in 0..1 PROVE View \in Body
<1>1. who.manual \in {"no", "open", "timed"} BY DEF PresenceOK, Person
<1>2. Header \in {"none", "open", "timed", "quiet"} BY <1>1 DEF Header
<1> QED BY <1>2 DEF View, Body

(* The loop without work.                                                  *)
LEMMA NoWorkType == NoWork \in [body : Body, new : Nat] /\ NoWork.new = 0
BY DEF NoWork, NoBody, Body

(* What a call on a message may do to the messages: that one shows what    *)
(* was asked, or what it showed, and if the call succeeded or found it     *)
(* gone it shows no less.                                                  *)
LEMMA AppliesTo ==
  ASSUME msgs \in Seq(Shown), NEW i \in 1..Len(msgs), NEW m \in Shown,
         NEW r, NEW carried \in BOOLEAN, Applies(i, m, r, carried)
  PROVE /\ msgs' \in Seq(Shown) /\ Len(msgs') = Len(msgs)
        /\ \A j \in 1..Len(msgs) : j # i => msgs'[j] = msgs[j]
        /\ msgs'[i] = m \/ msgs'[i] = msgs[i]
        /\ r \in {"ok", "gone"} => msgs'[i] = m \/ msgs'[i].look = "gone"
<1>1. /\ r = "ok" => carried
      /\ r = "gone" => msgs[i].look = "gone"
      /\ msgs' = IF carried /\ msgs[i].look # "gone" THEN [msgs EXCEPT ![i] = m] ELSE msgs
  BY DEF Applies, Answers
<1> HIDE DEF Shown
<1> QED BY <1>1

(* Calls that leave the dashboard and the loop alone.                      *)
LEMMA DashboardAlone ==
  ASSUME DashboardOK, UNCHANGED <<loopVars, dashVars>>, facts' \in 0..1
  PROVE DashboardOK'
BY DEF DashboardOK, DashboardType, Known, Replaced, CallsOne, Live, loopVars, dashVars

(* The bridge goroutine, the registry, the people in General and the ends  *)
(* of a daemon.                                                            *)
LEMMA AroundDashboard == ASSUME DashboardOK, Around PROVE DashboardOK'
<1>0. facts \in 0..1 BY DEF DashboardOK, DashboardType
<1>1. CASE \/ \E m \in {"open", "timed", "no"} : Away(m)
           \/ \E event \in BOOLEAN : Moves(event)
           \/ QuietOption \/ ShownOption \/ Switch
  <2>1. UNCHANGED <<loopVars, dashVars>> /\ (facts' = facts \/ facts' = 1 - facts)
    BY <1>1 DEF Away, Moves, QuietOption, ShownOption, Switch
  <2>2. facts' \in 0..1 BY <1>0, <2>1
  <2> QED BY <2>1, <2>2, DashboardAlone
<1>2. CASE Terminate
  BY <1>2 DEF Terminate, DashboardOK, DashboardType, Known, Replaced, CallsOne, Live, dashVars
<1>3. CASE Crash
  <2>1. /\ pc' = "down" /\ work' = NoWork /\ strays' = strays \cup ({work.new} \ {0})
        /\ UNCHANGED <<id, disk, msgs, facts>>
    BY <1>3 DEF Crash
  <2>2. work' \in [body : Body, new : Nat] /\ work'.new = 0 BY <2>1, NoWorkType
  <2> QED BY <2>1, <2>2 DEF DashboardOK, DashboardType, Known, Replaced, CallsOne, Live
<1>4. CASE \E i \in DOMAIN msgs : Deleted(i)
  <2>1. PICK i \in DOMAIN msgs : Deleted(i) BY <1>4
  <2>2. msgs' = [msgs EXCEPT ![i].look = "gone"] BY <2>1 DEF Deleted
  <2>3. UNCHANGED <<pc, work, id, disk, strays, facts>> BY <2>1 DEF Deleted, loopVars
  <2>4. i \in 1..Len(msgs) /\ msgs[i] \in Shown BY DEF DashboardOK, DashboardType
  <2>5. PICK m : m = [msgs[i] EXCEPT !.look = "gone"] OBVIOUS
  <2>6. m \in Shown /\ m.look = "gone" BY <2>4, <2>5 DEF Shown
  <2>7. msgs' = [msgs EXCEPT ![i] = m] BY <2>2, <2>5
  <2>8. /\ msgs' \in Seq(Shown) /\ Len(msgs') = Len(msgs)
        /\ \A j \in 1..Len(msgs) : j # i => msgs'[j] = msgs[j]
        /\ msgs'[i] = m
    <3> HIDE DEF Shown
    <3> QED BY <2>4, <2>6, <2>7 DEF DashboardOK, DashboardType
  <2>9. \A j \in 1..Len(msgs) : Live(j)' => Live(j) BY <2>3, <2>6, <2>8 DEF Live
  <2> QED BY <2>3, <2>8, <2>9 DEF DashboardOK, DashboardType, Known, Replaced, CallsOne
<1> QED BY <1>1, <1>2, <1>3, <1>4 DEF Around

(* The calls that change a message: an edit, a deletion, a note, the last  *)
(* edit.  What looks live afterwards did so before, except the message     *)
(* that the daemon knows.                                                  *)
LEMMA EditKeeps ==
  ASSUME DashboardOK, NEW r \in Results, NEW carried \in BOOLEAN, Edit(r, carried)
  PROVE DashboardOK'
<1>1. /\ pc = "edit" /\ Applies(id, Message("live", work.body), r, carried)
      /\ UNCHANGED <<id, disk, strays, facts>>
  BY DEF Edit
<1>2. /\ pc' = IF r = "fatal" THEN "down" ELSE IF r = "gone" THEN "send" ELSE "idle"
      /\ work' = work \/ work' = NoWork
  BY DEF Edit, After
<1>3. work.new = 0 /\ id \in 1..Len(msgs) /\ work.body \in Body
  BY <1>1 DEF DashboardOK, DashboardType, CallsOne
<1>4. Message("live", work.body) \in Shown BY <1>3 DEF Message, Shown
<1>5. work' \in [body : Body, new : Nat] /\ work'.new = 0
  BY <1>2, <1>3, NoWorkType DEF DashboardOK, DashboardType
<1>6. /\ msgs' \in Seq(Shown) /\ Len(msgs') = Len(msgs)
      /\ \A j \in 1..Len(msgs) : j # id => msgs'[j] = msgs[j]
  BY <1>1, <1>3, <1>4, AppliesTo DEF DashboardOK, DashboardType
<1>7. r = "gone" => msgs' = msgs /\ msgs[id].look = "gone"
  BY <1>1 DEF Applies, Answers
<1>8. \A j \in 1..Len(msgs) : j # id /\ Live(j)' => Live(j) BY <1>1, <1>6 DEF Live
<1>9. \A j \in 1..Len(msgs) : Live(j)' => j = id BY <1>3, <1>8 DEF DashboardOK, Known
<1>10. pc' = "send" => ~Live(id)' BY <1>1, <1>2, <1>7 DEF Live
<1>11. DashboardType' BY <1>1, <1>5, <1>6 DEF DashboardOK, DashboardType
<1>12. Known' BY <1>1, <1>6, <1>9 DEF DashboardOK, Known
<1>13. Replaced' BY <1>1, <1>2, <1>6, <1>9, <1>10 DEF Replaced
<1>14. CallsOne' BY <1>2, <1>5 DEF CallsOne
<1> QED BY <1>11, <1>12, <1>13, <1>14 DEF DashboardOK

(* A call that takes a message's live look away, or leaves it, and what    *)
(* the daemon then forgets: only a message that no longer looks live, or   *)
(* one an accident cut off.                                                *)
LEMMA ForgetsKeeps ==
  ASSUME DashboardOK, pc # "pin", pc' \notin {"send", "pin", "edit", "delete"},
         pc' = "note" => id' # 0,
         msgs' \in Seq(Shown), Len(msgs') = Len(msgs),
         \A j \in 1..Len(msgs) : msgs'[j].look = "live" => msgs[j].look = "live",
         strays \subseteq strays',
         id' = id \/ (id' = 0 /\ (id \in 1..Len(msgs) => msgs'[id].look # "live" \/ id \in strays')),
         disk' = disk \/ disk' = id', facts' = facts,
         work' = work \/ work' = NoWork
  PROVE DashboardOK'
<1>1. work.new = 0 /\ work'.new = 0 /\ work' \in [body : Body, new : Nat]
  BY NoWorkType DEF DashboardOK, DashboardType, CallsOne
<1>2. \A j \in 1..Len(msgs) : Live(j)' => Live(j) BY DEF Live
<1>3. DashboardType' BY <1>1 DEF DashboardOK, DashboardType
<1>4. \A j \in 1..Len(msgs) : Live(j)' => j = id'
  <2> SUFFICES ASSUME NEW j \in 1..Len(msgs), Live(j)' PROVE j = id' OBVIOUS
  <2>1. j = id BY <1>1, <1>2 DEF DashboardOK, Known
  <2> QED BY <2>1 DEF Live
<1>5. Known' BY <1>4 DEF DashboardOK, Known
<1> QED BY <1>1, <1>3, <1>5 DEF DashboardOK, Replaced, CallsOne

\* Whatever the delete of remove returns, each case keeps the invariant.
LEMMA DeleteKeeps ==
  ASSUME DashboardOK, NEW r \in Results, NEW carried \in BOOLEAN, NEW saved \in BOOLEAN,
         Delete(r, carried, saved)
  PROVE DashboardOK'
<1> DEFINE m == Message("gone", msgs[id].body)
<1>1. pc = "delete" /\ Applies(id, m, r, carried) /\ strays' = strays /\ facts' = facts
  BY DEF Delete
<1>2. id \in 1..Len(msgs) /\ msgs[id] \in Shown
  BY <1>1 DEF DashboardOK, DashboardType, CallsOne
<1>3. m \in Shown /\ m.look = "gone" BY <1>2 DEF Message, Shown
<1>4. /\ pc' \in {"down", "note", "idle"} /\ (pc' = "note" => r = "failed")
      /\ work' = work \/ work' = NoWork
  BY DEF Delete, After
<1>5. IF r \in {"ok", "gone"} THEN id' = 0 /\ (disk' = disk \/ disk' = 0) ELSE UNCHANGED <<id, disk>>
  BY DEF Delete, Records
<1> HIDE DEF m
<1>6. /\ msgs' \in Seq(Shown) /\ Len(msgs') = Len(msgs)
      /\ \A j \in 1..Len(msgs) : msgs'[j].look = "live" => msgs[j].look = "live"
      /\ r \in {"ok", "gone"} => msgs'[id].look = "gone"
  BY <1>1, <1>2, <1>3, AppliesTo DEF DashboardOK, DashboardType
<1> QED BY <1>1, <1>2, <1>4, <1>5, <1>6, ForgetsKeeps DEF Live

\* So does the note that replaces what could not be deleted.
LEMMA NoteKeeps ==
  ASSUME DashboardOK, NEW r \in Results, NEW carried \in BOOLEAN, NEW saved \in BOOLEAN,
         Note(r, carried, saved)
  PROVE DashboardOK'
<1> DEFINE m == Message("off", msgs[id].body)
<1>1. /\ pc = "note" /\ Applies(id, m, r, carried) /\ facts' = facts
      /\ strays' = IF r \in {"failed", "cancelled"} THEN strays \cup {id} ELSE strays
  BY DEF Note
<1>2. id \in 1..Len(msgs) /\ msgs[id] \in Shown
  BY <1>1 DEF DashboardOK, DashboardType, CallsOne
<1>3. m \in Shown /\ m.look = "off" BY <1>2 DEF Message, Shown
<1>4. pc' \in {"down", "idle"} /\ (work' = work \/ work' = NoWork)
  BY DEF Note, After
<1>5. IF r # "fatal" THEN id' = 0 /\ (disk' = disk \/ disk' = 0) ELSE UNCHANGED <<id, disk>>
  BY DEF Note, Records
<1> HIDE DEF m
<1>6. /\ msgs' \in Seq(Shown) /\ Len(msgs') = Len(msgs)
      /\ \A j \in 1..Len(msgs) : msgs'[j].look = "live" => msgs[j].look = "live"
      /\ r \in {"ok", "gone"} => msgs'[id].look # "live"
  BY <1>1, <1>2, <1>3, AppliesTo DEF DashboardOK, DashboardType
<1>7. r # "fatal" => msgs'[id].look # "live" \/ id \in strays' BY <1>1, <1>6 DEF Results
<1> QED BY <1>1, <1>2, <1>4, <1>5, <1>6, <1>7, ForgetsKeeps

(* Stop edits the message for the last time.                               *)
LEMMA StopKeeps ==
  ASSUME PresenceOK, DashboardOK, NEW r \in Results, NEW carried \in BOOLEAN, Stop(r, carried)
  PROVE DashboardOK'
<1>1. /\ pc = "idle" /\ pc' = "down" /\ work' = NoWork
      /\ UNCHANGED <<id, disk, strays, facts>>
  BY DEF Stop
<1>2. CASE msgs' = msgs
  BY <1>1, <1>2, ForgetsKeeps DEF DashboardOK, DashboardType
<1>3. CASE msgs' # msgs
  <2> DEFINE m == Message("stopped", View)
  <2>1. id # 0 /\ Applies(id, m, r, carried) BY <1>3 DEF Stop
  <2>2. id \in 1..Len(msgs) /\ View \in Body
    BY <2>1, ViewType DEF DashboardOK, DashboardType
  <2>3. m \in Shown /\ m.look = "stopped" BY <2>2 DEF Message, Shown
  <2> HIDE DEF m
  <2>4. /\ msgs' \in Seq(Shown) /\ Len(msgs') = Len(msgs)
        /\ \A j \in 1..Len(msgs) : msgs'[j].look = "live" => msgs[j].look = "live"
    BY <2>1, <2>2, <2>3, AppliesTo DEF DashboardOK, DashboardType
  <2> QED BY <1>1, <2>4, ForgetsKeeps
<1> QED BY <1>2, <1>3

(* Repin forgets a message that is gone.                                   *)
LEMMA RepinKeeps ==
  ASSUME DashboardOK, NEW r \in Results, NEW saved \in BOOLEAN, Repin(r, saved)
  PROVE DashboardOK'
<1>1. /\ pc = "repin" /\ pc' = "idle" /\ UNCHANGED <<work, msgs, strays, facts>>
      /\ \/ UNCHANGED <<id, disk>>
         \/ id # 0 /\ msgs[id].look = "gone" /\ id' = 0 /\ (disk' = disk \/ disk' = 0)
  BY DEF Repin, Answers, Records
<1> QED BY <1>1, ForgetsKeeps DEF DashboardOK, DashboardType, Live

(* What a send leaves in General: the copies behind the messages that were *)
(* there, all cut off except the last of a send that succeeded.            *)
LEMMA DeliversTo ==
  ASSUME msgs \in Seq(Shown), NEW m \in Shown, NEW r, NEW copies \in 0..2,
         Delivers(m, r, copies)
  PROVE /\ msgs' \in Seq(Shown) /\ Len(msgs') = Len(msgs) + copies
        /\ \A j \in 1..Len(msgs) : msgs'[j] = msgs[j]
        /\ strays \subseteq strays'
        /\ \A j \in (Len(msgs) + 1)..Len(msgs') : j \in strays' \/ (r = "ok" /\ j = Len(msgs'))
        /\ r = "ok" => copies > 0
<1>1. /\ r = "ok" => copies > 0
      /\ msgs' = msgs \o [c \in 1..copies |-> m]
      /\ strays' = strays \cup (((Len(msgs) + 1)..Len(msgs')) \ (IF r = "ok" THEN {Len(msgs')} ELSE {}))
  BY DEF Delivers
<1> DEFINE new == [c \in 1..copies |-> m]
<1> HIDE DEF Shown
<1>2. new \in Seq(Shown) /\ Len(new) = copies OBVIOUS
<1> HIDE DEF new
<1>3. /\ msgs \o new \in Seq(Shown) /\ Len(msgs \o new) = Len(msgs) + copies
      /\ \A j \in 1..Len(msgs) : (msgs \o new)[j] = msgs[j]
  BY <1>2
<1>4. msgs' = msgs \o new BY <1>1 DEF new
<1>5. /\ msgs' \in Seq(Shown) /\ Len(msgs') = Len(msgs) + copies
      /\ \A j \in 1..Len(msgs) : msgs'[j] = msgs[j]
  BY <1>3, <1>4
<1> QED BY <1>1, <1>5

(* Send: the new message is known to the loop before it is recorded.       *)
LEMMA SendKeeps ==
  ASSUME DashboardOK, NEW r \in Results, NEW copies \in 0..2, Send(r, copies)
  PROVE DashboardOK'
<1>1. /\ pc = "send" /\ Delivers(Message("live", work.body), r, copies)
      /\ pc' = IF r = "ok" THEN "pin" ELSE IF r = "fatal" THEN "down" ELSE "idle"
      /\ work' = IF r = "ok" THEN [work EXCEPT !.new = Len(msgs')] ELSE NoWork
      /\ UNCHANGED <<id, disk, facts>>
  BY DEF Send
<1>2. Message("live", work.body) \in Shown
  BY DEF DashboardOK, DashboardType, Message, Shown
<1>3. /\ msgs' \in Seq(Shown) /\ Len(msgs') = Len(msgs) + copies
      /\ \A j \in 1..Len(msgs) : msgs'[j] = msgs[j]
      /\ strays \subseteq strays'
      /\ \A j \in (Len(msgs) + 1)..Len(msgs') : j \in strays' \/ (r = "ok" /\ j = Len(msgs'))
  BY <1>1, <1>2, DeliversTo DEF DashboardOK, DashboardType
<1>4. Len(msgs) \in Nat /\ Len(msgs') \in Nat BY <1>3 DEF DashboardOK, DashboardType
<1>5. /\ work' \in [body : Body, new : Nat]
      /\ work'.new = IF r = "ok" THEN Len(msgs') ELSE 0
  BY <1>1, <1>4, NoWorkType DEF DashboardOK, DashboardType
<1>6. DashboardType' BY <1>1, <1>3, <1>4, <1>5 DEF DashboardOK, DashboardType
<1>7. \A j \in 1..Len(msgs') : Live(j)' => j = work'.new
  <2> SUFFICES ASSUME NEW j \in 1..Len(msgs'), Live(j)' PROVE j = work'.new OBVIOUS
  <2>1. CASE j \in 1..Len(msgs)
    <3>1. Live(j) BY <1>3, <2>1 DEF Live
    <3>2. work.new = 0 BY <1>1 DEF DashboardOK, CallsOne
    <3> QED BY <1>1, <2>1, <3>1, <3>2 DEF DashboardOK, Replaced
  <2>2. CASE j \in (Len(msgs) + 1)..Len(msgs')
    BY <1>3, <1>5, <2>2 DEF Live
  <2> QED BY <1>4, <2>1, <2>2
<1>8. Known' BY <1>1, <1>3, <1>7 DEF DashboardOK, Known
<1> QED BY <1>1, <1>5, <1>6, <1>7, <1>8 DEF DashboardOK, Replaced, CallsOne

(* Pin records the message that was sent; a failed save cuts it off.       *)
LEMMA PinKeeps ==
  ASSUME DashboardOK, NEW saved \in BOOLEAN, Pin(saved)
  PROVE DashboardOK'
<1>1. /\ pc = "pin" /\ pc' = "idle" /\ work' = NoWork /\ id' = work.new
      /\ disk' = IF saved THEN work.new ELSE disk
      /\ strays' = IF saved THEN strays ELSE strays \cup {work.new}
      /\ UNCHANGED <<msgs, facts>>
  BY DEF Pin, Records
<1>2. work' \in [body : Body, new : Nat] /\ work'.new = 0 BY <1>1, NoWorkType
<1>3. \A j \in 1..Len(msgs) : Live(j)' => Live(j) BY <1>1 DEF Live
<1> QED BY <1>1, <1>2, <1>3 DEF DashboardOK, DashboardType, Known, Replaced, CallsOne

(* A refresh that creates a message has none; one that edits or removes it *)
(* has one.                                                                *)
LEMMA RefreshKeeps ==
  ASSUME PresenceOK, DashboardOK, Refresh
  PROVE DashboardOK'
<1>1. /\ pc = "idle" /\ pc' \in {"idle", "delete", "send", "edit"}
      /\ pc' = "send" => id = 0
      /\ pc' \in {"edit", "delete"} => id # 0
      /\ work' = NoWork \/ work' = [body |-> View, new |-> 0]
      /\ UNCHANGED <<id, disk, msgs, strays, facts>>
  BY DEF Refresh, Idle, dashVars
<1>2. View \in Body BY ViewType DEF DashboardOK, DashboardType
<1>3. work' \in [body : Body, new : Nat] /\ work'.new = 0 BY <1>1, <1>2, NoWorkType
<1>4. work.new = 0 BY <1>1 DEF DashboardOK, CallsOne
<1>5. \A j \in 1..Len(msgs) : Live(j)' = Live(j) BY <1>1 DEF Live
<1>6. \A j \in 1..Len(msgs) : Live(j)' => j = id
  BY <1>4, <1>5 DEF DashboardOK, Known
<1> QED BY <1>1, <1>3, <1>6 DEF DashboardOK, DashboardType, Known, Replaced, CallsOne

(* Every step keeps the inductive invariant.                               *)
LEMMA DashboardStep == ASSUME PresenceOK, DashboardOK, [Next]_vars PROVE DashboardOK'
<1>1. CASE Around BY <1>1, AroundDashboard
<1>2. CASE Calls
  BY <1>2, PinKeeps, EditKeeps, StopKeeps, DeleteKeeps, NoteKeeps, SendKeeps, RepinKeeps DEF Calls
<1>3. CASE Fire \/ Tick BY <1>3, RefreshKeeps DEF Fire, Tick
<1>4. CASE \E saves \in BOOLEAN : Observe(saves) \/ TakeChange(saves)
  <2>1. /\ UNCHANGED <<pc, work, id, msgs, strays, facts>>
        /\ disk' = disk \/ disk' = id
    BY <1>4 DEF Observe, TakeChange, loopVars
  <2> QED BY <2>1 DEF DashboardOK, DashboardType, Known, Replaced, CallsOne, Live
<1>5. CASE Poll
  <2>1. UNCHANGED <<loopVars, dashVars, facts>> BY <1>5 DEF Poll
  <2> QED BY <2>1, DashboardAlone DEF DashboardOK, DashboardType
<1>6. CASE Start
  <2>1. /\ pc = "down" /\ pc' = "repin" /\ id' = disk
        /\ UNCHANGED <<work, disk, msgs, strays, facts>>
    BY <1>6 DEF Start
  <2>2. \A j \in 1..Len(msgs) : Live(j)' => j = disk
    BY <2>1 DEF DashboardOK, Known, CallsOne, Live
  <2> QED BY <2>1, <2>2 DEF DashboardOK, DashboardType, Known, Replaced, CallsOne
<1>7. CASE UNCHANGED vars
  BY <1>7, DashboardAlone DEF vars, DashboardOK, DashboardType
<1> QED BY <1>1, <1>2, <1>3, <1>4, <1>5, <1>6, <1>7 DEF Next, Loop

(* No live-looking dashboard is left behind: whatever is carried out,      *)
(* answered, saved or lost, and wherever the daemon ends, a message that   *)
(* looks live is the one the daemon edits or is about to record, or one of *)
(* the named accidents cut it off (refresh, remove, Repin).                *)
THEOREM SpecOneDashboard == Spec => []OneDashboard
<1>1. Init => PresenceOK BY PresenceInit
<1>2. Init => DashboardOK
  <2> SUFFICES ASSUME Init PROVE DashboardOK OBVIOUS
  <2>1. /\ pc = "down" /\ work = NoWork /\ facts = 0 /\ id = 0 /\ disk = 0 /\ msgs = <<>>
    BY Zenon DEF Init
  <2>2. work \in [body : Body, new : Nat] /\ work.new = 0 BY <2>1, NoWorkType
  <2>3. msgs \in Seq(Shown) /\ Len(msgs) = 0 BY <2>1
  <2> QED BY <2>1, <2>2, <2>3 DEF DashboardOK, DashboardType, Known, Replaced, CallsOne
<1>3. PresenceOK /\ DashboardOK /\ [Next]_vars => PresenceOK' /\ DashboardOK'
  BY PresenceStep, DashboardStep
<1>4. DashboardOK => OneDashboard
  <2> SUFFICES ASSUME DashboardOK, NEW i \in DOMAIN msgs \ strays, msgs[i].look = "live"
               PROVE i \in {work.new, IF pc = "down" THEN disk ELSE id}
    BY DEF OneDashboard
  <2>1. i \in 1..Len(msgs) BY DEF DashboardOK, DashboardType
  <2> QED BY <2>1 DEF DashboardOK, Known, Live
<1> QED BY <1>1, <1>2, <1>3, <1>4, PTL DEF Spec
=============================================================================
