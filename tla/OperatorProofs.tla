---------------------------- MODULE OperatorProofs ----------------------------
(***************************************************************************)
(* Proofs about what operators do: they start and stop daemons and set     *)
(* options (Lifecycle, Settings), and they write to agents (Requests).     *)
(***************************************************************************)
EXTENDS Lifecycle, Requests, FiniteSetTheorems, WellFoundedInduction, TLAPS

-----------------------------------------------------------------------------
(* Lifecycle.  That starts never make each other give way (SomeoneServes), *)
(* that every panel with buttons is accounted for (OnePanel), and that the *)
(* options in force fit (IconsTell), for any number of processes, actions, *)
(* icons and events.                                                       *)

Places == {"unborn", "born", "create", "write", "read", "remove", "build", "serve", "release", "dead"}
Steps == {"idle", "start", "stop", "resync", "await", "already", "failed", "started", "late",
          "stopping", "stopped", "not running", "asked"}

Doing == [wish : {"none"} \cup Wishes, at : Steps, pid : Pids \cup {0}]
File == [by : Pids \cup {0}, filled : BOOLEAN]

LifeType ==
  /\ pc \in [Pids -> Places] /\ tries \in [Pids -> 0..2]
  /\ asked \subseteq Pids /\ sock \in Pids \cup {0}
  /\ pidfile \in File
  /\ act \in [Actors -> Doing]
  /\ crashed \in BOOLEAN

(* SomeoneServes is not inductive: it does not say why a process that gave *)
(* way could.  A process that made the pid file ends only when it is asked *)
(* to or fails; one that gives way saw such a process alive, or found a    *)
(* second file after it had removed the first, which only such a process   *)
(* can have made, since a stale one never comes back.                      *)
Excused == crashed \/ \E a \in Actors : act[a].wish \in {"stop", "restart"}
Made == \E p \in Pids : pc[p] \in {"write", "build", "serve"}

Attempts ==
  /\ \A p \in Pids : pc[p] \in {"unborn", "born"} => tries[p] = 0
  /\ \A p \in Pids : pc[p] = "create" => tries[p] < 2 /\ (pidfile = Stale => tries[p] = 0)

Actions ==
  \A a \in Actors :
    /\ act[a].at \in {"stop", "stopping"} => act[a].wish \in {"stop", "restart"}
    /\ act[a].at = "idle" <=> act[a].wish = "none"
    /\ act[a].at = "resync" => act[a].wish = "resync"

Unexcused ==
  /\ asked = {} /\ \A p \in Pids : pc[p] # "release"
  /\ pidfile.by # 0 => Made
  /\ \A p \in Pids : pc[p] = "dead" \/ tries[p] = 2 => Made
  /\ \A a \in Actors : act[a].wish = "start" /\ act[a].at # "start" => \E p \in Pids : pc[p] # "unborn"

ServeInv == LifeType /\ Attempts /\ Actions /\ (Excused \/ Unexcused)

-----------------------------------------------------------------------------
(* Steps of a daemon process.                                              *)

(* No pid file, one just made, and one whose pid is written.               *)
LEMMA FileFacts ==
  /\ None \in File /\ None.by = 0 /\ None # Stale
  /\ \A p \in Pids : /\ [by |-> p, filled |-> FALSE] \in File
                     /\ [by |-> p, filled |-> FALSE] # Stale
  /\ \A f \in File : /\ [f EXCEPT !.filled = TRUE] \in File
                     /\ [f EXCEPT !.filled = TRUE].by = f.by
  /\ Stale.by = 0
<1>1. None \in File /\ None.by = 0 BY DEF None, File
<1>2. None.filled = FALSE /\ Stale.filled = TRUE /\ Stale.by = 0 BY DEF None, Stale
<1>3. ASSUME NEW p \in Pids
      PROVE [by |-> p, filled |-> FALSE] \in File /\ [by |-> p, filled |-> FALSE].filled = FALSE
  BY DEF File
<1>4. ASSUME NEW f \in File
      PROVE [f EXCEPT !.filled = TRUE] \in File /\ [f EXCEPT !.filled = TRUE].by = f.by
  BY DEF File
<1> QED BY <1>1, <1>2, <1>3, <1>4

(* A process moves on and nothing else that ServeInv looks at changes.     *)
LEMMA BootsServe == ASSUME ServeInv, NEW p \in Pids, Boots(p) PROVE ServeInv'
<1>1. /\ pc[p] = "born" /\ pc' = [pc EXCEPT ![p] = "create"]
      /\ UNCHANGED <<tries, asked, pidfile, sock, act, crashed>>
  BY DEF Boots, Goes
<1>2. LifeType' BY <1>1 DEF ServeInv, LifeType, Places
<1>3. Attempts' BY <1>1 DEF ServeInv, LifeType, Attempts
<1>4. Actions' BY <1>1 DEF ServeInv, Actions
<1>5. Excused' \/ Unexcused'
  <2>1. Excused => Excused' BY <1>1 DEF Excused
  <2>2. Made => Made' BY <1>1 DEF Made, ServeInv, LifeType
  <2> QED BY <1>1, <2>1, <2>2 DEF ServeInv, LifeType, Unexcused
<1> QED BY <1>2, <1>3, <1>4, <1>5 DEF ServeInv

\* Acquire makes the pid file, or finds one.
LEMMA CreatesServe == ASSUME ServeInv, NEW p \in Pids, Creates(p) PROVE ServeInv'
<1>1. /\ pc[p] = "create" /\ tries' = [tries EXCEPT ![p] = @ + 1]
      /\ \/ /\ pidfile = None /\ pidfile' = [by |-> p, filled |-> FALSE]
            /\ pc' = [pc EXCEPT ![p] = "write"]
         \/ /\ pidfile # None /\ pidfile' = pidfile
            /\ pc' = [pc EXCEPT ![p] = "read"]
      /\ UNCHANGED <<asked, sock, act, crashed>>
  BY DEF Creates, Goes
<1>2. p # 0 BY SettingsAssumption
<1>3. tries[p] < 2 /\ tries[p] \in 0..2 /\ (pidfile = Stale => tries[p] = 0)
  BY <1>1 DEF ServeInv, LifeType, Attempts
<1>4. /\ tries' \in [Pids -> 0..2] /\ tries'[p] = tries[p] + 1
      /\ \A q \in Pids : q # p => tries'[q] = tries[q]
  BY <1>1, <1>3 DEF ServeInv, LifeType
<1>5. /\ pc' \in [Pids -> Places] /\ pc'[p] \in {"write", "read"}
      /\ \A q \in Pids : q # p => pc'[q] = pc[q]
  BY <1>1 DEF ServeInv, LifeType, Places
<1>6. pidfile' \in File /\ (pidfile' = Stale => pidfile = Stale)
  BY <1>1, FileFacts DEF ServeInv, LifeType
<1>7. LifeType' BY <1>1, <1>4, <1>5, <1>6 DEF ServeInv, LifeType
<1>9. Attempts' BY <1>4, <1>5, <1>6 DEF ServeInv, Attempts
<1>10. Actions' BY <1>1 DEF ServeInv, Actions
<1>11. ASSUME Unexcused PROVE Unexcused'
  <2>1. Made => Made' BY <1>1, <1>5 DEF Made
  <2>2. CASE pidfile = None
    <3>1. Made' BY <1>1, <1>5, <2>2 DEF Made, ServeInv, LifeType
    <3> QED BY <1>1, <1>5, <3>1, <1>11 DEF Unexcused
  <2>3. CASE pidfile # None /\ pidfile.by # 0
    <3>1. Made' BY <2>1, <2>3, <1>11 DEF Unexcused
    <3> QED BY <1>1, <1>5, <3>1, <1>11 DEF Unexcused
  <2>4. CASE pidfile # None /\ pidfile.by = 0
    <3>1. pidfile = Stale BY <2>4 DEF ServeInv, LifeType, File, None, Stale
    <3>2. tries'[p] = 1 BY <1>3, <1>4, <3>1
    <3> QED BY <1>1, <1>4, <1>5, <2>1, <2>4, <3>2, <1>11 DEF Unexcused
  <2> QED BY <2>2, <2>3, <2>4
<1>12. Excused => Excused' BY <1>1 DEF Excused
<1> QED BY <1>7, <1>9, <1>10, <1>11, <1>12 DEF ServeInv

\* Acquire writes the pid, into its own file or one that took its place.
LEMMA WritesServe == ASSUME ServeInv, NEW p \in Pids, WritesPid(p) PROVE ServeInv'
<1>1. /\ pc[p] = "write" /\ pc' = [pc EXCEPT ![p] = "build"]
      /\ pidfile' = IF pidfile.by = p THEN [pidfile EXCEPT !.filled = TRUE] ELSE pidfile
      /\ UNCHANGED <<tries, asked, sock, act, crashed>>
  BY DEF WritesPid, Goes
<1>2. p # 0 BY SettingsAssumption
<1>3. /\ pidfile' \in File /\ pidfile'.by = pidfile.by
      /\ pidfile' = Stale => pidfile = Stale
  BY <1>1, <1>2, FileFacts DEF ServeInv, LifeType
<1>4. /\ pc' \in [Pids -> Places] /\ pc'[p] = "build"
      /\ \A q \in Pids : q # p => pc'[q] = pc[q]
  BY <1>1 DEF ServeInv, LifeType, Places
<1>5. LifeType' BY <1>1, <1>3, <1>4 DEF ServeInv, LifeType
<1>6. Attempts' BY <1>1, <1>3, <1>4 DEF ServeInv, Attempts
<1>7. Actions' BY <1>1 DEF ServeInv, Actions
<1>8. Excused => Excused' BY <1>1 DEF Excused
<1>9. Made' BY <1>4 DEF Made
<1>10. Unexcused => Unexcused' BY <1>1, <1>3, <1>4, <1>9 DEF Unexcused
<1> QED BY <1>5, <1>6, <1>7, <1>8, <1>10 DEF ServeInv

(* A process gives way only to one that made a file and is there.          *)
LEMMA GivesWay ==
  ASSUME ServeInv, NEW p \in Pids, NEW to \in {"dead", "remove", "create"},
         pc[p] \in {"read", "remove"}, pc' = [pc EXCEPT ![p] = to],
         to = "dead" => Excused \/ Made,
         to = "create" => pidfile' # Stale /\ tries[p] < 2,
         pidfile' = pidfile \/ pidfile' = None,
         UNCHANGED <<tries, asked, sock, act, crashed>>
  PROVE ServeInv'
<1>1. /\ pc' \in [Pids -> Places] /\ pc'[p] = to
      /\ \A q \in Pids : q # p => pc'[q] = pc[q]
  BY DEF ServeInv, LifeType, Places
<1>2. /\ pidfile' \in File
      /\ pidfile' = Stale => pidfile = Stale
      /\ pidfile'.by # 0 => pidfile.by # 0
  BY FileFacts DEF ServeInv, LifeType
<1>3. LifeType' BY <1>1, <1>2 DEF ServeInv, LifeType
<1>4. Attempts' BY <1>1, <1>2 DEF ServeInv, Attempts
<1>5. Actions' BY DEF ServeInv, Actions
<1>6. Excused => Excused' BY DEF Excused
<1>7. Made => Made' BY <1>1 DEF Made
<1>8. Unexcused /\ ~Excused => Unexcused' BY <1>1, <1>2, <1>7 DEF Unexcused
<1> QED BY <1>3, <1>4, <1>5, <1>6, <1>8 DEF ServeInv

\* Acquire reads the holder of the file it found.
LEMMA ReadsServe == ASSUME ServeInv, NEW p \in Pids, Reads(p) PROVE ServeInv'
<1>1. PICK to : to = IF pidfile.filled /\ Alive(pidfile.by) THEN "dead" ELSE "remove" OBVIOUS
<1>2. to = "dead" => Excused \/ Made BY <1>1 DEF Alive, ServeInv, Unexcused
<1>3. /\ pc[p] = "read" /\ pc' = [pc EXCEPT ![p] = to] /\ pidfile' = pidfile
      /\ UNCHANGED <<tries, asked, sock, act, crashed>>
  BY <1>1 DEF Reads, Goes
<1>4. to \in {"dead", "remove"} BY <1>1
<1> QED BY <1>2, <1>3, <1>4, GivesWay

\* Acquire removes a file without a live holder.
LEMMA RemovesServe == ASSUME ServeInv, NEW p \in Pids, Removes(p) PROVE ServeInv'
<1>1. PICK to : to = IF tries[p] < 2 THEN "create" ELSE "dead" OBVIOUS
<1>2. tries[p] \in 0..2 BY DEF ServeInv, LifeType
<1>3. to = "dead" => Excused \/ Made BY <1>1, <1>2 DEF ServeInv, Unexcused
<1>4. /\ pc[p] = "remove" /\ pc' = [pc EXCEPT ![p] = to] /\ pidfile' = None
      /\ UNCHANGED <<tries, asked, sock, act, crashed>>
  BY <1>1 DEF Removes, Goes
<1>5. /\ to \in {"dead", "create"} /\ (to = "create" => tries[p] < 2) /\ pidfile' # Stale
  BY <1>1, <1>4 DEF None, Stale
<1> QED BY <1>3, <1>4, <1>5, GivesWay

\* A daemon that is built serves.
LEMMA ServesServe == ASSUME ServeInv, NEW p \in Pids, Serves(p) PROVE ServeInv'
<1>1. /\ pc[p] = "build" /\ pc' = [pc EXCEPT ![p] = "serve"]
      /\ sock' \in {sock, p}
      /\ UNCHANGED <<tries, asked, pidfile, act, crashed>>
  BY DEF Serves, Goes, Listens
<1>2. /\ pc' \in [Pids -> Places] /\ pc'[p] = "serve"
      /\ \A q \in Pids : q # p => pc'[q] = pc[q]
  BY <1>1 DEF ServeInv, LifeType, Places
<1>3. LifeType' BY <1>1, <1>2 DEF ServeInv, LifeType
<1>4. Attempts' BY <1>1, <1>2 DEF ServeInv, Attempts
<1>5. Actions' BY <1>1 DEF ServeInv, Actions
<1>6. Excused => Excused' BY <1>1 DEF Excused
<1>7. Made' BY <1>2 DEF Made
<1>8. Unexcused => Unexcused' BY <1>1, <1>2, <1>7 DEF Unexcused
<1> QED BY <1>3, <1>4, <1>5, <1>6, <1>8 DEF ServeInv

(* A process that was asked to, failed or was killed ends, at once or      *)
(* after Release.                                                          *)
LEMMA EndsServe ==
  ASSUME ServeInv, NEW p \in Pids, NEW to \in {"release", "dead"}, pc' = [pc EXCEPT ![p] = to],
         Excused', tries' = tries, asked' \subseteq Pids, pidfile' \in {pidfile, None},
         sock' \in {sock, 0}, LifeType => act' \in [Actors -> Doing],
         Actions', crashed' \in BOOLEAN
  PROVE ServeInv'
<1>1. /\ pc' \in [Pids -> Places] /\ pc'[p] = to
      /\ \A q \in Pids : q # p => pc'[q] = pc[q]
  BY DEF ServeInv, LifeType, Places
<1>2. /\ pidfile' \in File
      /\ pidfile' = Stale => pidfile = Stale
  BY FileFacts DEF ServeInv, LifeType
<1>3. LifeType' BY <1>1, <1>2 DEF ServeInv, LifeType
<1>4. Attempts' BY <1>1, <1>2 DEF ServeInv, Attempts
<1> QED BY <1>3, <1>4 DEF ServeInv

\* Every step of a process keeps the invariant.
LEMMA ProcessServe ==
  ASSUME ServeInv, NEW p \in Pids, Process(p) \/ Crashes(p)
  PROVE ServeInv'
<1>1. CASE Exits(p)
  <2>1. PICK to : to = IF ~pidfile.filled \/ pidfile.by = p THEN "release" ELSE "dead" OBVIOUS
  <2>2. to \in {"release", "dead"} BY <2>1
  <2>3. /\ pc' = [pc EXCEPT ![p] = to] /\ sock' \in {sock, 0}
        /\ crashed' = TRUE \/ (p \in asked /\ crashed' = crashed)
        /\ UNCHANGED <<tries, asked, pidfile, act>>
    BY <1>1, <2>1 DEF Exits, Goes, Fails
  <2>4. Excused' BY <2>3 DEF Excused, ServeInv, Unexcused
  <2>5. Actions' BY <2>3 DEF ServeInv, Actions
  <2> QED BY <2>2, <2>3, <2>4, <2>5, EndsServe DEF ServeInv, LifeType
<1>2. CASE Releases(p)
  <2>1. /\ pc[p] = "release" /\ pc' = [pc EXCEPT ![p] = "dead"] /\ pidfile' = None
        /\ UNCHANGED <<tries, asked, sock, act, crashed>>
    BY <1>2 DEF Releases, Goes
  <2>2. Excused' BY <2>1 DEF Excused, ServeInv, Unexcused
  <2>3. Actions' BY <2>1 DEF ServeInv, Actions
  <2> QED BY <2>1, <2>2, <2>3, EndsServe DEF ServeInv, LifeType
<1>3. CASE Crashes(p)
  <2>1. /\ pc' = [pc EXCEPT ![p] = "dead"] /\ crashed' = TRUE
        /\ UNCHANGED <<tries, asked, pidfile, sock, act>>
    BY <1>3 DEF Crashes, Goes, Fails
  <2>2. Excused' BY <2>1 DEF Excused
  <2>3. Actions' BY <2>1 DEF ServeInv, Actions
  <2> QED BY <2>1, <2>2, <2>3, EndsServe DEF ServeInv, LifeType
<1> QED BY <1>1, <1>2, <1>3, BootsServe, CreatesServe, WritesServe, ReadsServe, RemovesServe,
           ServesServe DEF Process

-----------------------------------------------------------------------------
(* Steps of an action.                                                     *)

(* An action that moves keeps its wish, and so do the others.              *)
LEMMA MovesTo ==
  ASSUME ServeInv, NEW a \in Actors, NEW at \in Steps, NEW p \in Pids \cup {0}, Moves(a, at, p)
  PROVE /\ act' \in [Actors -> Doing] /\ act'[a].at = at /\ act'[a].wish = act[a].wish
        /\ \A b \in Actors : b # a => act'[b] = act[b]
        /\ (\E b \in Actors : act[b].wish \in {"stop", "restart"})
             => \E b \in Actors : act'[b].wish \in {"stop", "restart"}
<1>1. act \in [Actors -> Doing] BY DEF ServeInv, LifeType
<1>2. PICK r : r = [act[a] EXCEPT !.at = at, !.pid = p] OBVIOUS
<1>3. act[a] \in Doing BY <1>1
<1>4. r \in Doing /\ r.at = at /\ r.wish = act[a].wish BY <1>2, <1>3 DEF Doing
<1>5. act' = [act EXCEPT ![a] = r] BY <1>2 DEF Moves
<1> HIDE DEF Doing
<1>6. /\ act' \in [Actors -> Doing] /\ act'[a] = r
      /\ \A b \in Actors : b # a => act'[b] = act[b]
  BY <1>1, <1>4, <1>5
<1> QED BY <1>4, <1>6

(* An action that moves while the processes stay, or spawns one.           *)
LEMMA ActionServe ==
  ASSUME ServeInv, NEW a \in Actors, NEW at \in Steps, NEW p \in Pids \cup {0}, Moves(a, at, p),
         act[a].at # "idle", at # "idle",
         at \in {"stop", "stopping"} => act[a].wish \in {"stop", "restart"}, at # "resync",
         \/ pc' = pc
         \/ \E q \in Pids : pc[q] = "unborn" /\ pc' = [pc EXCEPT ![q] = "born"],
         pc' = pc /\ act[a].wish = "start" /\ at # "start" =>
           Excused \/ crashed' \/ \E q \in Pids : pc[q] # "unborn",
         asked' = asked \/ (asked' \subseteq Pids /\ act[a].wish \in {"stop", "restart"}),
         crashed' \in BOOLEAN, crashed => crashed',
         UNCHANGED <<tries, pidfile, sock>>
  PROVE ServeInv'
<1>1. /\ act' \in [Actors -> Doing] /\ act'[a].at = at /\ act'[a].wish = act[a].wish
      /\ \A b \in Actors : b # a => act'[b] = act[b]
      /\ (\E b \in Actors : act[b].wish \in {"stop", "restart"})
           => \E b \in Actors : act'[b].wish \in {"stop", "restart"}
  BY MovesTo
<1>2. /\ pc' \in [Pids -> Places]
      /\ \A q \in Pids : pc'[q] = pc[q] \/ (pc[q] = "unborn" /\ pc'[q] = "born")
      /\ pc' = pc \/ \E q \in Pids : pc'[q] # "unborn"
  BY DEF ServeInv, LifeType, Places
<1>3. LifeType' BY <1>1, <1>2 DEF ServeInv, LifeType
<1>4. Attempts'
  <2>1. \A q \in Pids : pc'[q] \in {"unborn", "born"} => pc[q] \in {"unborn", "born"} BY <1>2
  <2>2. \A q \in Pids : pc'[q] = "create" => pc[q] = "create" BY <1>2
  <2> QED BY <2>1, <2>2 DEF ServeInv, Attempts
<1>5. Actions' BY <1>1 DEF ServeInv, Actions
<1>6. Excused => Excused' BY <1>1 DEF Excused
<1>7. Made => Made' BY <1>2 DEF Made
<1>8. ASSUME Unexcused, ~Excused' PROVE Unexcused'
  <2>1. ~(act[a].wish \in {"stop", "restart"}) BY <1>1, <1>8 DEF Excused
  <2>2. asked' = {} BY <1>8, <2>1 DEF Unexcused
  <2>3. \A q \in Pids : pc'[q] # "release" BY <1>2, <1>8 DEF Unexcused
  <2>4. /\ pidfile'.by # 0 => Made'
        /\ \A q \in Pids : pc'[q] = "dead" \/ tries'[q] = 2 => Made'
    BY <1>2, <1>7, <1>8 DEF Unexcused
  <2>5. ASSUME NEW b \in Actors, act'[b].wish = "start", act'[b].at # "start"
        PROVE \E q \in Pids : pc'[q] # "unborn"
    <3>1. CASE b = a
      <4>1. ~crashed' /\ ~Excused BY <1>6, <1>8 DEF Excused
      <4> QED BY <1>1, <1>2, <2>5, <3>1, <4>1
    <3>2. CASE b # a
      <4>1. \E q \in Pids : pc[q] # "unborn" BY <1>1, <1>8, <2>5, <3>2 DEF Unexcused
      <4> QED BY <1>2, <4>1
    <3> QED BY <3>1, <3>2
  <2> QED BY <2>2, <2>3, <2>4, <2>5 DEF Unexcused
<1> QED BY <1>3, <1>4, <1>5, <1>6, <1>8 DEF ServeInv

(* An actor is asked for an action.                                        *)
LEMMA WantsServe ==
  ASSUME ServeInv, NEW a \in Actors, NEW w \in Wishes, Wants(a, w)
  PROVE ServeInv'
<1>1. PICK r : r = [wish |-> w, at |-> IF w = "restart" THEN "stop" ELSE w, pid |-> 0] OBVIOUS
<1>2. w \in {"start", "stop", "restart", "resync"} BY WishesAssumption
<1>3. /\ r \in Doing /\ r.wish = w /\ r.at = IF w = "restart" THEN "stop" ELSE w
  BY <1>1, <1>2 DEF Doing, Steps
<1>4. /\ act[a] = Idle /\ act' = [act EXCEPT ![a] = r]
      /\ UNCHANGED <<pc, tries, asked, pidfile, sock, crashed>>
  BY <1>1 DEF Wants
<1>5. act[a].wish = "none" BY <1>4 DEF Idle
<1> HIDE DEF Doing
<1>6. /\ act' \in [Actors -> Doing] /\ act'[a] = r
      /\ \A b \in Actors : b # a => act'[b] = act[b]
  BY <1>3, <1>4 DEF ServeInv, LifeType
<1>7. LifeType' BY <1>4, <1>6 DEF ServeInv, LifeType
<1>8. Attempts' BY <1>4 DEF ServeInv, Attempts
<1>9. Actions' BY <1>2, <1>3, <1>6 DEF ServeInv, Actions
<1>10. Excused => Excused' BY <1>4, <1>5, <1>6 DEF Excused
<1>11. Made => Made' BY <1>4 DEF Made
<1>12. Unexcused => Unexcused' BY <1>3, <1>4, <1>6, <1>11 DEF Unexcused
<1> QED BY <1>7, <1>8, <1>9, <1>10, <1>12 DEF ServeInv

(* Status names a process that is there, or none.                          *)
LEMMA RunningType == ASSUME ServeInv
  PROVE /\ Running \in Pids \cup {0}
        /\ Running # 0 => Running \in Pids /\ pc[Running] # "unborn"
<1>1. pidfile.by \in Pids \cup {0} BY DEF ServeInv, LifeType, File
<1> QED BY <1>1 DEF Running, Alive

\* Start spawns a process.
LEMMA SpawnsServe ==
  ASSUME ServeInv, NEW a \in Actors, NEW p \in Pids, Spawns(a, p)
  PROVE ServeInv'
<1>1. /\ act[a].at = "start" /\ UNCHANGED <<tries, asked, pidfile, sock>>
  BY DEF Spawns
<1>2. "already" \in Steps /\ "await" \in Steps /\ "failed" \in Steps BY DEF Steps
<1>3. crashed \in BOOLEAN BY DEF ServeInv, LifeType
<1>4. CASE Running # 0 /\ Moves(a, "already", Running) /\ UNCHANGED <<pc, left, crashed>>
  BY <1>1, <1>2, <1>3, <1>4, RunningType, ActionServe
<1>5. CASE Running = 0 /\ Moves(a, "await", p) /\ Spawn(p) /\ UNCHANGED <<left, crashed>>
  <2>1. pc[p] = "unborn" /\ pc' = [pc EXCEPT ![p] = "born"] BY <1>5 DEF Spawn, Goes
  <2>2. pc' # pc BY <2>1 DEF ServeInv, LifeType
  <2> QED BY <1>1, <1>2, <1>3, <1>5, <2>1, <2>2, ActionServe
<1>6. CASE Running = 0 /\ Moves(a, "failed", 0) /\ Fails /\ UNCHANGED pc
  BY <1>1, <1>2, <1>6, ActionServe DEF Fails
<1> QED BY <1>4, <1>5, <1>6 DEF Spawns

\* Start waits for the spawned daemon to show up.
LEMMA AwaitsServe == ASSUME ServeInv, NEW a \in Actors, Awaits(a) PROVE ServeInv'
<1>1. /\ act[a].at = "await" /\ UNCHANGED <<pc, tries, asked, pidfile, sock, crashed>>
      /\ Moves(a, "failed", act[a].pid) \/ Moves(a, "started", act[a].pid) \/ Moves(a, "late", act[a].pid)
  BY DEF Awaits
<1>2. "failed" \in Steps /\ "started" \in Steps /\ "late" \in Steps BY DEF Steps
<1>3. crashed \in BOOLEAN /\ act[a].pid \in Pids \cup {0} BY DEF ServeInv, LifeType, Doing
<1>4. act[a].wish = "start" => Excused \/ \E q \in Pids : pc[q] # "unborn"
  BY <1>1 DEF ServeInv, Unexcused
<1> QED BY <1>1, <1>2, <1>3, <1>4, ActionServe

(* An action that moves and ends a process has an excuse.                  *)
LEMMA FallsServe ==
  ASSUME ServeInv, NEW a \in Actors, NEW at \in Steps, NEW p \in Pids \cup {0}, Moves(a, at, p),
         act[a].at # "idle", at # "idle",
         at \in {"stop", "stopping"} => act[a].wish \in {"stop", "restart"}, at # "resync",
         NEW q \in Pids, Goes(q, "dead"),
         act[a].wish \in {"stop", "restart"} \/ crashed', crashed' \in BOOLEAN,
         UNCHANGED <<tries, asked, pidfile, sock>>
  PROVE ServeInv'
<1>1. /\ act' \in [Actors -> Doing] /\ act'[a].at = at /\ act'[a].wish = act[a].wish
      /\ \A b \in Actors : b # a => act'[b] = act[b]
  BY MovesTo
<1>2. Actions' BY <1>1 DEF ServeInv, Actions
<1>3. Excused' BY <1>1 DEF Excused
<1> QED BY <1>1, <1>2, <1>3, EndsServe DEF Goes, ServeInv, LifeType

\* Stop and restart begin with a look at the pid file.
LEMMA StopsServe == ASSUME ServeInv, NEW a \in Actors, Stops(a) PROVE ServeInv'
<1>1. /\ act[a].at = "stop" /\ UNCHANGED <<tries, pidfile, sock, crashed>> BY DEF Stops
<1>2. act[a].wish \in {"stop", "restart"} BY <1>1 DEF ServeInv, Actions
<1>3. crashed \in BOOLEAN /\ asked \subseteq Pids /\ sock \in Pids \cup {0}
  BY DEF ServeInv, LifeType
<1>4. CASE Running = 0
  <2>1. PICK at : at = AfterStop(a, TRUE) OBVIOUS
  <2>2. at \in {"start", "not running"} BY <1>2, <2>1 DEF AfterStop
  <2>3. at \in Steps BY <2>2 DEF Steps
  <2>4. Moves(a, at, 0) /\ UNCHANGED <<pc, asked>> BY <1>4, <2>1 DEF Stops
  <2> QED BY <1>1, <1>2, <1>3, <2>2, <2>3, <2>4, ActionServe
<1>5. CASE Running # 0
  <2>1. Running \in Pids BY <1>5, RunningType
  <2>2. "stopping" \in Steps BY DEF Steps
  <2>3. /\ Moves(a, "stopping", Running)
        /\ \/ pc' = pc /\ ((asked' = asked \cup {sock} /\ Alive(sock)) \/ asked' = asked \cup {Running})
           \/ Goes(Running, "dead") /\ asked' = asked
    BY <1>5 DEF Stops, Hears, Falls
  <2>4. CASE pc' = pc /\ ((asked' = asked \cup {sock} /\ Alive(sock)) \/ asked' = asked \cup {Running})
    <3>1. asked' \subseteq Pids BY <1>3, <2>1, <2>4 DEF Alive
    <3> QED BY <1>1, <1>2, <1>3, <2>1, <2>2, <2>3, <2>4, <3>1, ActionServe
  <2>5. CASE Goes(Running, "dead") /\ asked' = asked
    BY <1>1, <1>2, <1>3, <2>1, <2>2, <2>3, <2>5, FallsServe
  <2> QED BY <2>3, <2>4, <2>5
<1> QED BY <1>4, <1>5

\* A resync reaches the daemon or ends one that is still being built.
LEMMA ResyncsServe == ASSUME ServeInv, NEW a \in Actors, Resyncs(a) PROVE ServeInv'
<1>1. PICK at : at = IF Running = 0 THEN "not running" ELSE "asked" OBVIOUS
<1>2. /\ act[a].at = "resync" /\ Moves(a, at, Running)
      /\ UNCHANGED <<tries, asked, pidfile, sock>>
      /\ \/ Running # 0 /\ Goes(Running, "dead") /\ crashed' = TRUE
         \/ UNCHANGED <<pc, crashed>>
  BY <1>1 DEF Resyncs, Falls
<1>3. act[a].wish = "resync" BY <1>2 DEF ServeInv, Actions
<1>4. at \in Steps /\ at \notin {"idle", "stop", "stopping", "resync"} BY <1>1 DEF Steps
<1>5. crashed \in BOOLEAN BY DEF ServeInv, LifeType
<1>6. CASE UNCHANGED <<pc, crashed>>
  BY <1>2, <1>3, <1>4, <1>5, <1>6, RunningType, ActionServe
<1>7. CASE Running # 0 /\ Goes(Running, "dead") /\ crashed' = TRUE
  BY <1>2, <1>4, <1>7, RunningType, FallsServe
<1> QED BY <1>2, <1>6, <1>7

\* Stop waits for the end of the daemon.
LEMMA StoppingServe == ASSUME ServeInv, NEW a \in Actors, Stopping(a) PROVE ServeInv'
<1>1. PICK p : p = act[a].pid OBVIOUS
<1>2. PICK after : after = AfterStop(a, FALSE) OBVIOUS
<1>3. /\ act[a].at = "stopping"
      /\ Moves(a, after, p) \/ Moves(a, "failed", p)
      /\ (Alive(p) /\ Goes(p, "dead")) \/ pc' = pc
      /\ UNCHANGED <<tries, asked, pidfile, sock, crashed>>
  BY <1>1, <1>2 DEF Stopping
<1>4. act[a].wish \in {"stop", "restart"} BY <1>3 DEF ServeInv, Actions
<1>5. after \in {"start", "stopped"} BY <1>2, <1>4 DEF AfterStop
<1>6. after \in Steps /\ "failed" \in Steps BY <1>5 DEF Steps
<1>7. crashed \in BOOLEAN /\ p \in Pids \cup {0} BY <1>1 DEF ServeInv, LifeType, Doing
<1>8. PICK at : at \in {after, "failed"} /\ Moves(a, at, p) BY <1>3
<1>9. CASE pc' = pc
  BY <1>3, <1>4, <1>5, <1>6, <1>7, <1>8, <1>9, ActionServe
<1>10. CASE Alive(p) /\ Goes(p, "dead")
  <2>1. p \in Pids BY <1>7, <1>10 DEF Alive
  <2> QED BY <1>3, <1>4, <1>5, <1>6, <1>7, <1>8, <1>10, <2>1, FallsServe
<1> QED BY <1>3, <1>9, <1>10

(* Every step keeps the invariant.                                         *)
LEMMA ServeStep == ASSUME ServeInv, [LifeNext]_daemonVars PROVE ServeInv'
<1>1. CASE UNCHANGED lifeVars
  BY <1>1 DEF lifeVars, ServeInv, LifeType, Attempts, Actions, Excused, Unexcused, Made
<1>2. CASE \E p \in Pids : Process(p) \/ Crashes(p) BY <1>2, ProcessServe
<1>3. CASE \E a \in Actors : Action(a) \/ \E w \in Wishes : Wants(a, w)
  BY <1>3, AwaitsServe, StopsServe, StoppingServe, ResyncsServe, SpawnsServe, WantsServe DEF Action
<1> QED BY <1>1, <1>2, <1>3 DEF LifeNext, daemonVars

\* Nothing runs, over any pid file a former daemon may have left.
LEMMA ServeInit == ASSUME LifeInit PROVE ServeInv
<1>1. /\ pc = [p \in Pids |-> "unborn"] /\ tries = [p \in Pids |-> 0] /\ asked = {}
      /\ pidfile \in {None, Stale} /\ sock = 0
      /\ act = [a \in Actors |-> Idle] /\ crashed = FALSE
  BY Zenon DEF LifeInit
<1>2. Idle \in Doing /\ Idle.at = "idle" /\ Idle.wish = "none" BY DEF Idle, Doing, Steps
<1>3. Stale \in File BY DEF Stale, File
<1> HIDE DEF Doing, File
<1>4. LifeType
  <2>1. pidfile \in File BY <1>1, <1>3, FileFacts
  <2>2. act \in [Actors -> Doing] BY <1>1, <1>2
  <2>3. pc \in [Pids -> Places] /\ tries \in [Pids -> 0..2] BY <1>1 DEF Places
  <2> QED BY <1>1, <2>1, <2>2, <2>3 DEF LifeType
<1>5. Attempts BY <1>1 DEF Attempts
<1>6. Actions BY <1>1, <1>2 DEF Actions
<1>7. Unexcused BY <1>1, <1>2, FileFacts DEF Unexcused
<1> QED BY <1>4, <1>5, <1>6, <1>7 DEF ServeInv

(* When every start asked for is over and nothing crashed or was stopped,  *)
(* a daemon is there: two starts at once, or a stale or half-written pid   *)
(* file, never make all of them give way (Acquire, Start).                 *)
THEOREM SpecSomeoneServes == LifeSpec => []SomeoneServes
<1>1. LifeInit => ServeInv BY ServeInit
<1>2. ServeInv /\ [LifeNext]_daemonVars => ServeInv' BY ServeStep
<1>3. ServeInv => SomeoneServes
  <2> SUFFICES ASSUME ServeInv, ~Excused, NEW a \in Actors, act[a].wish \notin {"none", "resync"},
                      act[a].at # "start"
               PROVE \E p \in Pids : Alive(p)
    BY DEF SomeoneServes, Excused
  <2>1. act[a].wish = "start" BY WishesAssumption DEF Excused, ServeInv, LifeType, Doing
  <2>2. PICK p \in Pids : pc[p] # "unborn" BY <2>1 DEF ServeInv, Unexcused
  <2>3. \A q \in Pids : q # 0 BY SettingsAssumption
  <2>4. CASE pc[p] = "dead"
    <3>1. Made BY <2>4 DEF ServeInv, Unexcused
    <3> QED BY <2>3, <3>1 DEF Made, Alive
  <2>5. CASE pc[p] # "dead" BY <2>2, <2>3, <2>5 DEF Alive
  <2> QED BY <2>4, <2>5
<1> QED BY <1>1, <1>2, <1>3, PTL DEF LifeSpec

-----------------------------------------------------------------------------
(* OnePanel.  The panels no /options retires, and the daemons that ended.  *)
Lasts == {mem[p].last : p \in Pids}
Unclaimed == keyboards \ Lasts
Over == {p \in Pids : pc[p] \in {"release", "dead"}}

(* OnePanel is not inductive: a daemon that ends must not have ended       *)
(* before, so only one that serves has a last panel.                       *)
Memories ==
  mem = [p \in Pids |-> [up |-> mem[p].up, cur |-> mem[p].cur, last |-> mem[p].last]]

PanelInv ==
  /\ Memories
  /\ \A p \in Pids : mem[p].last \in 0..panels
  /\ \A p \in Pids : pc[p] # "serve" => mem[p].last = 0
  /\ \A p \in Pids : mem[p].up => pc[p] = "serve"
  /\ panels \in Nat /\ lapses \in Nat /\ keyboards \subseteq 1..panels
  /\ Cardinality(Unclaimed) <= lapses + Cardinality(Over)

(* The sets that are counted are finite.                                   *)
LEMMA Finite ==
  /\ keyboards \subseteq 1..panels /\ panels \in Nat =>
       IsFiniteSet(Unclaimed) /\ Cardinality(Unclaimed) \in Nat
  /\ IsFiniteSet(Over) /\ Cardinality(Over) \in Nat
<1>1. IsFiniteSet(Over) /\ Cardinality(Over) \in Nat
  BY SettingsAssumption, FS_Subset, FS_CardinalityType DEF Over
<1>2. ASSUME keyboards \subseteq 1..panels, panels \in Nat
      PROVE IsFiniteSet(Unclaimed) /\ Cardinality(Unclaimed) \in Nat
  <2>1. IsFiniteSet(1..panels) BY <1>2, FS_Interval
  <2> QED BY <1>2, <2>1, FS_Subset, FS_CardinalityType DEF Unclaimed
<1> QED BY <1>1, <1>2

(* More panels lose their claim only with as many lapses, or one with a    *)
(* daemon that ends.                                                       *)
LEMMA OneMore ==
  ASSUME PanelInv, keyboards' \subseteq 1..panels', panels' \in Nat, lapses' \in Nat,
         NEW S, IsFiniteSet(S), NEW x, Over \subseteq Over',
         \/ Unclaimed' \subseteq Unclaimed \cup S /\ lapses + Cardinality(S) <= lapses'
         \/ /\ Unclaimed' \subseteq Unclaimed \cup {x} /\ lapses <= lapses'
            /\ \E p \in Over' : p \notin Over
  PROVE Cardinality(Unclaimed') <= lapses' + Cardinality(Over')
<1> DEFINE U == Unclaimed
           V == Unclaimed'
           D == Over
           E == Over'
<1>1. /\ IsFiniteSet(U) /\ Cardinality(U) \in Nat
      /\ IsFiniteSet(D) /\ Cardinality(D) \in Nat
      /\ Cardinality(U) <= lapses + Cardinality(D) /\ lapses \in Nat
  BY Finite DEF PanelInv
<1>2. /\ IsFiniteSet(1..panels') BY FS_Interval
<1>3. IsFiniteSet(V) /\ Cardinality(V) \in Nat
  BY <1>2, FS_Subset, FS_CardinalityType DEF Unclaimed
<1>4. IsFiniteSet(E) /\ Cardinality(E) \in Nat
  BY SettingsAssumption, FS_Subset, FS_CardinalityType DEF Over
<1>5. D \subseteq E /\ Cardinality(S) \in Nat
  BY FS_CardinalityType
<1>6. \/ V \subseteq U \cup S /\ lapses + Cardinality(S) <= lapses'
      \/ V \subseteq U \cup {x} /\ lapses <= lapses' /\ (\E p \in E : p \notin D)
  OBVIOUS
<1> HIDE DEF U, V, D, E
<1>7. Cardinality(D) <= Cardinality(E) BY <1>4, <1>5, FS_Subset
<1>8. (\E p \in E : p \notin D) => Cardinality(D) + 1 <= Cardinality(E)
  <2> SUFFICES ASSUME NEW p \in E, p \notin D PROVE Cardinality(D) + 1 <= Cardinality(E) OBVIOUS
  <2>1. Cardinality(D \cup {p}) = Cardinality(D) + 1 BY <1>1, FS_AddElement
  <2>2. D \cup {p} \in SUBSET E BY <1>5
  <2> QED BY <1>4, <2>1, <2>2, FS_Subset
<1>9. V \subseteq U \cup S => Cardinality(V) <= Cardinality(U) + Cardinality(S)
  <2>1. /\ IsFiniteSet(U \cup S) /\ Cardinality(U \cup S) \in Nat
        /\ Cardinality(U \cup S) <= Cardinality(U) + Cardinality(S)
    <3>1. /\ IsFiniteSet(U \cup S) /\ IsFiniteSet(U \cap S)
          /\ Cardinality(U \cup S) = Cardinality(U) + Cardinality(S) - Cardinality(U \cap S)
      BY <1>1, FS_Union, FS_Intersection
    <3>2. Cardinality(U \cap S) \in Nat /\ Cardinality(U \cup S) \in Nat BY <3>1, FS_CardinalityType
    <3> QED BY <1>1, <1>5, <3>1, <3>2
  <2>2. V \subseteq U \cup S => Cardinality(V) <= Cardinality(U \cup S) BY <2>1, FS_Subset
  <2> QED BY <1>1, <1>3, <1>5, <2>1, <2>2
<1>10. V \subseteq U \cup {x} => Cardinality(V) <= Cardinality(U) + 1
  <2>1. /\ IsFiniteSet(U \cup {x})
        /\ Cardinality(U \cup {x}) = IF x \in U THEN Cardinality(U) ELSE Cardinality(U) + 1
    BY <1>1, FS_AddElement
  <2>2. V \subseteq U \cup {x} => Cardinality(V) <= Cardinality(U \cup {x}) BY <2>1, FS_Subset
  <2> QED BY <1>1, <1>3, <2>1, <2>2
<1>11. Cardinality(V) <= lapses' + Cardinality(E)
  BY <1>1, <1>3, <1>4, <1>5, <1>6, <1>7, <1>8, <1>9, <1>10
<1> QED BY <1>11 DEF V, E

\* None of them loses its claim.
LEMMA NoMore ==
  ASSUME PanelInv, keyboards' \subseteq 1..panels', panels' \in Nat, lapses' = lapses,
         Over \subseteq Over', Unclaimed' \subseteq Unclaimed
  PROVE Cardinality(Unclaimed') <= lapses' + Cardinality(Over')
<1>1. IsFiniteSet({}) /\ Cardinality({}) = 0 BY FS_EmptySet
<1>2. lapses \in Nat /\ lapses' \in Nat BY DEF PanelInv
<1>3. Unclaimed' \subseteq Unclaimed \cup {} /\ lapses + Cardinality({}) <= lapses'
  BY <1>1, <1>2
<1> QED BY <1>1, <1>2, <1>3, OneMore

(* The processes and actions that leave the settings alone.                *)
LEMMA PanelKept ==
  ASSUME PanelInv, UNCHANGED <<mem, keyboards, panels, lapses>>,
         \A p \in Pids : /\ pc[p] = "serve" => pc'[p] = "serve"
                         /\ pc[p] \in {"release", "dead"} => pc'[p] \in {"release", "dead"}
  PROVE PanelInv'
<1>1. Over \subseteq Over' BY DEF Over
<1>2. Unclaimed' \subseteq Unclaimed BY DEF Unclaimed, Lasts
<1>3. Cardinality(Unclaimed') <= lapses' + Cardinality(Over')
  BY <1>1, <1>2, NoMore DEF PanelInv
<1>4. Memories' BY DEF PanelInv, Memories
<1>5. \A p \in Pids : /\ mem'[p].last \in 0..panels'
                      /\ pc'[p] # "serve" => mem'[p].last = 0
                      /\ mem'[p].up => pc'[p] = "serve"
  BY DEF PanelInv
<1> QED BY <1>3, <1>4, <1>5 DEF PanelInv

(* A daemon that ends leaves its last panel behind.                        *)
LEMMA PanelEnds ==
  ASSUME LifeType, PanelInv, NEW q \in Pids, NEW to \in {"release", "dead"},
         pc' = [pc EXCEPT ![q] = to], mem' = [mem EXCEPT ![q] = Down],
         UNCHANGED <<keyboards, panels, lapses>>
  PROVE PanelInv'
<1>1. /\ pc'[q] = to /\ \A p \in Pids : p # q => pc'[p] = pc[p]
  BY DEF LifeType
<1>2. Down.up = FALSE /\ Down.last = 0 /\ Down = [up |-> Down.up, cur |-> Down.cur, last |-> Down.last]
  BY DEF Down
<1>3. /\ mem' = [p \in Pids |-> IF p = q THEN Down ELSE mem[p]]
      /\ mem'[q] = Down /\ \A p \in Pids : p # q => mem'[p] = mem[p]
  <2>1. PICK f : f = [p \in Pids |-> [up |-> mem[p].up, cur |-> mem[p].cur, last |-> mem[p].last]]
    OBVIOUS
  <2>2. mem = f BY <2>1 DEF PanelInv, Memories
  <2>3. DOMAIN mem = Pids BY <2>1, <2>2
  <2> HIDE DEF Down
  <2> QED BY <2>3
<1> HIDE DEF Down
<1>4. Memories'
  <2>1. \A p \in Pids : mem[p] = [up |-> mem[p].up, cur |-> mem[p].cur, last |-> mem[p].last]
    BY Zenon DEF PanelInv, Memories
  <2>2. \A p \in Pids : mem'[p] = [up |-> mem'[p].up, cur |-> mem'[p].cur, last |-> mem'[p].last]
    BY <1>2, <1>3, <2>1
  <2>3. mem' = [p \in Pids |-> mem'[p]] BY <1>3
  <2> QED BY <2>2, <2>3 DEF Memories
<1>5. Over \subseteq Over' /\ q \in Over' BY <1>1 DEF Over
<1>6. Unclaimed' \subseteq Unclaimed \cup {mem[q].last} BY <1>3 DEF Unclaimed, Lasts
<1>7. q \in Over => Unclaimed' \subseteq Unclaimed
  <2> SUFFICES ASSUME q \in Over PROVE Unclaimed' \subseteq Unclaimed OBVIOUS
  <2>1. mem[q].last = 0 BY DEF PanelInv, Over
  <2> QED BY <1>2, <1>3, <2>1 DEF Unclaimed, Lasts
<1>8. Cardinality(Unclaimed') <= lapses' + Cardinality(Over')
  <2>1. keyboards' \subseteq 1..panels' /\ panels' \in Nat /\ lapses' \in Nat /\ lapses <= lapses'
    BY DEF PanelInv
  <2>2. CASE q \in Over BY <1>5, <1>7, <2>1, <2>2, NoMore
  <2>3. CASE q \notin Over
    <3>1. IsFiniteSet({}) BY FS_EmptySet
    <3>2. \E p \in Over' : p \notin Over BY <1>5, <2>3
    <3> QED BY <1>5, <1>6, <2>1, <3>1, <3>2, OneMore
  <2> QED BY <2>2, <2>3
<1> QED BY <1>1, <1>2, <1>3, <1>4, <1>8 DEF PanelInv

(* What a call counts against the lapses: the messages it does not know    *)
(* of, and one for an edit that failed.                                    *)
Strays(sent, n) == (panels + 1)..(panels + Unknown(sent, n))
Slips(p, edited, sent, n) == Strays(sent, n) \cup (IF edited THEN {} ELSE {mem[p].last})

\* All the messages of a send but the one the daemon knows of are strays.
LEMMA SlipsCount ==
  ASSUME PanelInv, NEW p \in Pids, NEW edited \in BOOLEAN, NEW sent \in BOOLEAN, NEW n \in Nat,
         sent => n > 0, Act(p, edited, Unknown(sent, n))
  PROVE /\ mem[p].up /\ lapses' \in Nat
        /\ IsFiniteSet(Slips(p, edited, sent, n))
        /\ lapses + Cardinality(Slips(p, edited, sent, n)) <= lapses'
        /\ \A e : Fresh(n) \subseteq {Known(sent, n, e)} \cup Strays(sent, n)
<1> DEFINE T == Strays(sent, n)
           k == Unknown(sent, n)
<1>1. panels \in Nat /\ lapses \in Nat BY DEF PanelInv
<1>2. k \in Nat BY DEF Unknown
<1>3. IsFiniteSet(T) /\ Cardinality(T) = k
  <2>1. PICK a \in Int : a = panels + 1 BY <1>1
  <2>2. PICK b \in Int : b = panels + k BY <1>1, <1>2
  <2>3. IsFiniteSet(a..b) /\ Cardinality(a..b) = IF a > b THEN 0 ELSE b - a + 1 BY FS_Interval
  <2>4. T = a..b BY <2>1, <2>2 DEF Strays
  <2> HIDE DEF T, k
  <2> QED BY <1>1, <1>2, <2>1, <2>2, <2>3, <2>4
<1>4. mem[p].up /\ lapses' = lapses + (k + (IF edited THEN 0 ELSE 1)) BY DEF Act
<1>5. /\ IsFiniteSet(T \cup {mem[p].last})
      /\ Cardinality(T \cup {mem[p].last}) \in Nat
      /\ Cardinality(T \cup {mem[p].last}) <= k + 1
  <2> HIDE DEF T, k
  <2>1. /\ IsFiniteSet(T \cup {mem[p].last})
        /\ Cardinality(T \cup {mem[p].last}) = IF mem[p].last \in T THEN Cardinality(T) ELSE Cardinality(T) + 1
    BY <1>3, FS_AddElement
  <2> QED BY <1>2, <1>3, <2>1
<1>6. \A e : Fresh(n) \subseteq {Known(sent, n, e)} \cup T
  BY <1>1 DEF Fresh, Known, Strays, Unknown
<1>7. Slips(p, edited, sent, n) = IF edited THEN T ELSE T \cup {mem[p].last}
  BY DEF Slips
<1> HIDE DEF T, k
<1>8. /\ IsFiniteSet(Slips(p, edited, sent, n))
      /\ lapses + Cardinality(Slips(p, edited, sent, n)) <= lapses' /\ lapses' \in Nat
  <2>1. CASE edited BY <1>1, <1>2, <1>3, <1>4, <1>7, <2>1
  <2>2. CASE ~edited BY <1>1, <1>2, <1>4, <1>5, <1>7, <2>2
  <2> QED BY <2>1, <2>2
<1> QED BY <1>4, <1>6, <1>8 DEF T

(* A daemon's memory changes in one process.                               *)
LEMMA MemoryOf ==
  ASSUME Memories, NEW p \in Pids, NEW r, mem' = [mem EXCEPT ![p] = r],
         r = [up |-> r.up, cur |-> r.cur, last |-> r.last]
  PROVE /\ Memories' /\ mem'[p] = r
        /\ \A q \in Pids : q # p => mem'[q] = mem[q]
<1>1. \A q \in Pids : mem[q] = [up |-> mem[q].up, cur |-> mem[q].cur, last |-> mem[q].last]
  BY Zenon DEF Memories
<1>2. PICK f : f = [q \in Pids |-> [up |-> mem[q].up, cur |-> mem[q].cur, last |-> mem[q].last]]
  OBVIOUS
<1>3. DOMAIN mem = Pids BY <1>2 DEF Memories
<1>4. mem' = [q \in Pids |-> IF q = p THEN r ELSE mem[q]] BY <1>3
<1>5. mem'[p] = r /\ \A q \in Pids : q # p => mem'[q] = mem[q] BY <1>4
<1>6. \A q \in Pids : mem'[q] = [up |-> mem'[q].up, cur |-> mem'[q].cur, last |-> mem'[q].last]
  BY <1>1, <1>5
<1>7. mem' = [q \in Pids |-> mem'[q]] BY <1>4
<1>8. Memories' BY <1>6, <1>7 DEF Memories
<1> QED BY <1>5, <1>8

(* A panel is opened, pressed or closed by a daemon that serves: the       *)
(* panels that lose their claim are the call's slips.                      *)
LEMMA PanelMoves ==
  ASSUME PanelInv, UNCHANGED pc, NEW p \in Pids, mem[p].up, NEW r, mem' = [mem EXCEPT ![p] = r],
         r = [up |-> r.up, cur |-> r.cur, last |-> r.last], r.up = mem[p].up,
         NEW n \in Nat, panels' = panels + n,
         r.last \in 0..panels', keyboards' \subseteq 1..panels',
         NEW S, IsFiniteSet(S), lapses' \in Nat, lapses + Cardinality(S) <= lapses',
         keyboards' \subseteq keyboards \cup {r.last} \cup S,
         mem[p].last \in {r.last, 0} \cup S \/ mem[p].last \notin keyboards'
  PROVE PanelInv'
<1>1. /\ Memories' /\ mem'[p] = r
      /\ \A q \in Pids : q # p => mem'[q] = mem[q]
  BY MemoryOf DEF PanelInv
<1>2. pc[p] = "serve" BY Zenon DEF PanelInv
<1>3. panels \in Nat /\ panels' \in Nat BY DEF PanelInv
<1>4. \A q \in Pids : mem'[q].last \in 0..panels' /\ (pc[q] # "serve" => mem'[q].last = 0)
  BY <1>1, <1>2, <1>3 DEF PanelInv
<1>5. \A q \in Pids : mem'[q].up => pc[q] = "serve"
  <2> SUFFICES ASSUME NEW q \in Pids, mem'[q].up PROVE pc[q] = "serve" OBVIOUS
  <2>1. CASE q = p BY <1>2, <2>1
  <2>2. CASE q # p
    <3>1. mem'[q] = mem[q] BY <1>1, <2>2
    <3>2. mem[q].up BY Zenon, <3>1
    <3> QED BY Zenon, <3>2 DEF PanelInv
  <2> QED BY <2>1, <2>2
<1>6. r.last \in Lasts' /\ \A q \in Pids : q # p => mem[q].last \in Lasts'
  BY <1>1 DEF Lasts
<1>7. 0 \notin keyboards' BY <1>3
<1>8. Unclaimed' \subseteq Unclaimed \cup S
  <2> SUFFICES ASSUME NEW m \in Unclaimed', m \notin S PROVE m \in Unclaimed OBVIOUS
  <2>1. m \in keyboards' /\ m \notin Lasts' BY DEF Unclaimed
  <2>2. m # r.last /\ m \in keyboards BY <1>6, <2>1
  <2>3. m # mem[p].last BY <1>7, <2>1, <2>2
  <2>4. m \notin Lasts BY <1>6, <2>1, <2>3 DEF Lasts
  <2> QED BY <2>2, <2>4 DEF Unclaimed
<1>9. Over \subseteq Over' BY DEF Over
<1>10. Cardinality(Unclaimed') <= lapses' + Cardinality(Over')
  BY <1>3, <1>8, <1>9, OneMore
<1> QED BY <1>1, <1>3, <1>4, <1>5, <1>10 DEF PanelInv

\* The options and the panel of one daemon keep the count of unclaimed keyboards.
LEMMA SettingsPanel ==
  ASSUME PanelInv, SettingsNext, UNCHANGED pc
  PROVE PanelInv'
<1>1. PICK p \in Pids, edited \in BOOLEAN, sent \in BOOLEAN, n \in 0..MaxTries :
        \/ Open(p, edited, sent, n)
        \/ \E m \in keyboards :
             \/ Close(p, m, edited, sent, n)
             \/ \E b \in Buttons, saved \in BOOLEAN : PressButton(p, m, b, saved, edited, sent, n)
  BY DEF SettingsNext
<1>2. panels \in Nat /\ lapses \in Nat /\ keyboards \subseteq 1..panels /\ mem[p].last \in 0..panels
  BY DEF PanelInv
<1>3. n \in Nat BY SettingsAssumption
<1> DEFINE S == Slips(p, edited, sent, n)
<1>4. mem[p] = [up |-> mem[p].up, cur |-> mem[p].cur, last |-> mem[p].last]
  BY Zenon DEF PanelInv, Memories
<1>5. CASE Open(p, edited, sent, n)
  <2>1. PICK r : r = [mem[p] EXCEPT !.last = Known(sent, n, @)] OBVIOUS
  <2>2. /\ r = [up |-> r.up, cur |-> r.cur, last |-> r.last] /\ r.up = mem[p].up
        /\ r.last = Known(sent, n, mem[p].last)
    BY <1>4, <2>1
  <2>3. mem' = [mem EXCEPT ![p] = r] BY <1>5, <2>1 DEF Open
  <2>4. (sent => n > 0) /\ Act(p, edited, Unknown(sent, n)) BY <1>5 DEF Open, SendMakes
  <2>5. /\ mem[p].up /\ lapses' \in Nat /\ IsFiniteSet(S) /\ lapses + Cardinality(S) <= lapses'
        /\ Fresh(n) \subseteq {Known(sent, n, mem[p].last)} \cup Strays(sent, n)
    BY <1>3, <2>4, SlipsCount
  <2>6. /\ panels' = panels + n
        /\ keyboards' = (IF edited THEN keyboards \ {mem[p].last} ELSE keyboards) \cup Fresh(n)
    BY <1>5 DEF Open
  <2>7. keyboards' \subseteq 1..panels' /\ r.last \in 0..panels'
    BY <1>2, <1>3, <2>2, <2>6 DEF Fresh, Known
  <2>8. keyboards' \subseteq keyboards \cup {r.last} \cup S BY <2>2, <2>5, <2>6 DEF Slips
  <2>9. mem[p].last \in {r.last, 0} \cup S \/ mem[p].last \notin keyboards'
    <3>1. mem[p].last \notin Fresh(n) BY <1>2 DEF Fresh
    <3> QED BY <2>6, <3>1 DEF Slips
  <2> HIDE DEF S
  <2> QED BY <1>3, <2>2, <2>3, <2>5, <2>6, <2>7, <2>8, <2>9, PanelMoves
<1>6. CASE \E m \in keyboards : Close(p, m, edited, sent, n)
  <2> DEFINE C == IF edited THEN {} ELSE {mem[p].last}
  <2>1. PICK m \in keyboards : Close(p, m, edited, sent, n) BY <1>6
  <2>2. PICK r : r = [mem[p] EXCEPT !.last = Known(sent, n, IF @ = m THEN 0 ELSE @)] OBVIOUS
  <2>3. /\ r = [up |-> r.up, cur |-> r.cur, last |-> r.last] /\ r.up = mem[p].up
        /\ r.last = Known(sent, n, IF mem[p].last = m THEN 0 ELSE mem[p].last)
    BY <1>4, <2>2
  <2>4. mem' = [mem EXCEPT ![p] = r] BY <2>1, <2>2 DEF Close
  <2>5. /\ panels' = panels + n
        /\ keyboards' = IF edited THEN keyboards \ {m} ELSE keyboards
        /\ edited => ~sent /\ n = 0
    BY <2>1 DEF Close, SendsAgain
  <2>6. /\ mem[p].up /\ lapses' \in Nat /\ IsFiniteSet(C) /\ lapses + Cardinality(C) <= lapses'
    <3>1. mem[p].up /\ lapses' = lapses + (IF edited THEN 0 ELSE 1) BY <1>2, <2>1 DEF Close, Act
    <3>2. IsFiniteSet(C) /\ Cardinality(C) = IF edited THEN 0 ELSE 1 BY FS_EmptySet, FS_Singleton
    <3> QED BY <1>2, <3>1, <3>2
  <2>7. keyboards' \subseteq 1..panels' /\ r.last \in 0..panels'
    BY <1>2, <1>3, <2>3, <2>5 DEF Known
  <2>8. keyboards' \subseteq keyboards \cup {r.last} \cup C BY <2>5
  <2>9. mem[p].last \in {r.last, 0} \cup C \/ mem[p].last \notin keyboards'
    <3>1. CASE edited BY <2>3, <2>5, <3>1 DEF Known
    <3>2. CASE ~edited BY <3>2
    <3> QED BY <3>1, <3>2
  <2> HIDE DEF C
  <2> QED BY <1>3, <2>3, <2>4, <2>5, <2>6, <2>7, <2>8, <2>9, PanelMoves
<1>7. CASE \E m \in keyboards, b \in Buttons, saved \in BOOLEAN : PressButton(p, m, b, saved, edited, sent, n)
  <2>1. PICK m \in keyboards, b \in Buttons, saved \in BOOLEAN : PressButton(p, m, b, saved, edited, sent, n)
    BY <1>7
  <2>2. PICK r : r = [mem[p] EXCEPT !.cur = InForce(p, Asked(@, b), saved),
                                    !.last = Known(sent, n, IF @ = 0 THEN m ELSE @)]
    OBVIOUS
  <2>3. /\ r = [up |-> r.up, cur |-> r.cur, last |-> r.last] /\ r.up = mem[p].up
        /\ r.last = Known(sent, n, IF mem[p].last = 0 THEN m ELSE mem[p].last)
    BY <1>4, <2>2
  <2>4. mem' = [mem EXCEPT ![p] = r] BY <2>1, <2>2 DEF PressButton
  <2>5. /\ panels' = panels + n /\ keyboards' = keyboards \cup Fresh(n)
        /\ (edited => ~sent /\ n = 0) /\ (sent => n > 0)
        /\ Act(p, edited, Unknown(sent, n))
    BY <2>1 DEF PressButton, SendsAgain, SendMakes
  <2>6. /\ mem[p].up /\ lapses' \in Nat /\ IsFiniteSet(S) /\ lapses + Cardinality(S) <= lapses'
        /\ Fresh(n) \subseteq {r.last} \cup Strays(sent, n)
    BY <1>3, <2>3, <2>5, SlipsCount
  <2>7. keyboards' \subseteq 1..panels' /\ r.last \in 0..panels'
    BY <1>2, <1>3, <2>3, <2>5 DEF Fresh, Known
  <2>8. keyboards' \subseteq keyboards \cup {r.last} \cup S BY <2>5, <2>6 DEF Slips
  <2>9. mem[p].last \in {r.last, 0} \cup S
    BY <2>3, <2>5 DEF Slips, Known
  <2> HIDE DEF S
  <2> QED BY <1>3, <2>3, <2>4, <2>5, <2>6, <2>7, <2>8, <2>9, PanelMoves
<1> QED BY <1>1, <1>5, <1>6, <1>7

(* A daemon is built and loads its options: it has no panel yet.           *)
LEMMA ServesPanel ==
  ASSUME LifeType, PanelInv, NEW p \in Pids, Serves(p)
  PROVE PanelInv'
<1>1. PICK c : c = Sanitize(IF options.parses THEN options.values ELSE Default) OBVIOUS
<1>2. PICK r : r = [mem[p] EXCEPT !.up = TRUE, !.cur = c] OBVIOUS
<1>3. /\ pc[p] = "build" /\ pc' = [pc EXCEPT ![p] = "serve"]
      /\ mem' = [mem EXCEPT ![p] = r] /\ UNCHANGED <<keyboards, panels, lapses>>
  BY <1>1, <1>2 DEF Serves, Goes, Builds, LoadOptions
<1>4. mem[p] = [up |-> mem[p].up, cur |-> mem[p].cur, last |-> mem[p].last]
  BY Zenon DEF PanelInv, Memories
<1>5. r = [up |-> r.up, cur |-> r.cur, last |-> r.last] /\ r.last = mem[p].last BY <1>2, <1>4
<1>6. /\ Memories' /\ mem'[p] = r
      /\ \A q \in Pids : q # p => mem'[q] = mem[q]
  BY <1>3, <1>5, MemoryOf DEF PanelInv
<1>7. pc'[p] = "serve" /\ \A q \in Pids : q # p => pc'[q] = pc[q] BY <1>3 DEF LifeType
<1>8. \A q \in Pids : mem'[q].last = mem[q].last BY <1>5, <1>6
<1>9. /\ Unclaimed' \subseteq Unclaimed BY <1>3, <1>8 DEF Unclaimed, Lasts
<1>10. Over \subseteq Over' BY <1>3, <1>7 DEF Over
<1>11. Cardinality(Unclaimed') <= lapses' + Cardinality(Over')
  BY <1>3, <1>9, <1>10, NoMore DEF PanelInv
<1>12. \A q \in Pids : mem'[q].last \in 0..panels' /\ (pc'[q] # "serve" => mem'[q].last = 0)
  BY <1>3, <1>7, <1>8 DEF PanelInv
<1>13. \A q \in Pids : mem'[q].up => pc'[q] = "serve"
  <2> SUFFICES ASSUME NEW q \in Pids, mem'[q].up, q # p PROVE pc'[q] = "serve" BY <1>7
  <2>1. mem'[q] = mem[q] /\ pc'[q] = pc[q] BY <1>6, <1>7
  <2>2. mem[q].up BY Zenon, <2>1
  <2>3. pc[q] = "serve" BY Zenon, <2>2 DEF PanelInv
  <2> QED BY <2>1, <2>3
<1> QED BY <1>3, <1>6, <1>11, <1>12, <1>13 DEF PanelInv

(* Every step keeps the invariant.                                         *)
LEMMA ProcessPanel ==
  ASSUME LifeType, PanelInv, NEW p \in Pids, Process(p) \/ Crashes(p)
  PROVE PanelInv'
<1>1. CASE Boots(p) \/ Creates(p) \/ WritesPid(p) \/ Reads(p) \/ Removes(p) \/ Releases(p)
  <2>1. PICK to \in Places :
          /\ pc[p] \in {"born", "create", "write", "read", "remove", "release"}
          /\ pc[p] = "release" => to = "dead"
          /\ pc' = [pc EXCEPT ![p] = to]
          /\ UNCHANGED settingsVars
    BY <1>1 DEF Boots, Creates, WritesPid, Reads, Removes, Releases, Goes, Places
  <2>2. pc'[p] = to /\ \A q \in Pids : q # p => pc'[q] = pc[q] BY <2>1 DEF LifeType
  <2> QED BY <2>1, <2>2, PanelKept DEF settingsVars
<1>2. CASE Serves(p) BY <1>2, ServesPanel
<1>3. CASE Exits(p)
  <2>1. PICK to : to = IF ~pidfile.filled \/ pidfile.by = p THEN "release" ELSE "dead" OBVIOUS
  <2>2. to \in {"release", "dead"} BY <2>1
  <2> QED BY <1>3, <2>1, <2>2, PanelEnds DEF Exits, Goes, Unload
<1>4. CASE Crashes(p)
  BY <1>4, PanelEnds DEF Crashes, Goes, Unload
<1> QED BY <1>1, <1>2, <1>3, <1>4 DEF Process

\* The supervisor leaves the panel alone, but for the processes it ends.
LEMMA ActionPanel ==
  ASSUME ServeInv, PanelInv, NEW a \in Actors, Action(a)
  PROVE PanelInv'
<1>0. LifeType BY DEF ServeInv
<1>1. CASE Awaits(a) BY <1>1, PanelKept DEF Awaits, settingsVars
<1>2. CASE \E p \in Pids : Spawns(a, p)
  <2>1. PICK p \in Pids : Spawns(a, p) BY <1>2
  <2>2. UNCHANGED <<mem, keyboards, panels, lapses>> BY <2>1 DEF Spawns
  <2>3. CASE pc' = pc BY <2>2, <2>3, PanelKept
  <2>4. CASE Spawn(p)
    <3>1. pc[p] = "unborn" /\ pc' = [pc EXCEPT ![p] = "born"] BY <2>4 DEF Spawn, Goes
    <3>2. \A q \in Pids : q # p => pc'[q] = pc[q] BY <1>0, <3>1 DEF LifeType
    <3> QED BY <2>2, <3>1, <3>2, PanelKept
  <2> QED BY <2>1, <2>3, <2>4 DEF Spawns
<1>3. ASSUME NEW q \in Pids, Falls(q), UNCHANGED <<keyboards, panels, lapses>> PROVE PanelInv'
  BY <1>0, <1>3, PanelEnds DEF Falls, Goes
<1>4. CASE Stops(a)
  <2>1. UNCHANGED <<keyboards, panels, lapses>> BY <1>4 DEF Stops
  <2>2. UNCHANGED <<pc, mem>> \/ (Running # 0 /\ Falls(Running)) BY <1>4 DEF Stops
  <2>3. CASE UNCHANGED <<pc, mem>> BY <2>1, <2>3, PanelKept
  <2>4. CASE Running # 0 /\ Falls(Running) BY <1>3, <2>1, <2>4, RunningType
  <2> QED BY <2>2, <2>3, <2>4
<1>5. CASE Resyncs(a)
  <2>1. UNCHANGED <<keyboards, panels, lapses>> BY <1>5 DEF Resyncs
  <2>2. UNCHANGED <<pc, mem>> \/ (Running # 0 /\ Falls(Running)) BY <1>5 DEF Resyncs
  <2>3. CASE UNCHANGED <<pc, mem>> BY <2>1, <2>3, PanelKept
  <2>4. CASE Running # 0 /\ Falls(Running) BY <1>3, <2>1, <2>4, RunningType
  <2> QED BY <2>2, <2>3, <2>4
<1>6. CASE Stopping(a)
  <2>1. PICK p : p = act[a].pid OBVIOUS
  <2>2. p \in Pids \cup {0} BY <1>0, <2>1 DEF LifeType, Doing
  <2>3. \/ UNCHANGED <<pc, mem, keyboards, panels, lapses>>
        \/ Alive(p) /\ Goes(p, "dead") /\ Unload(p) /\ UNCHANGED lapses
    BY <1>6, <2>1 DEF Stopping, Unload
  <2>4. CASE UNCHANGED <<pc, mem, keyboards, panels, lapses>> BY <2>4, PanelKept
  <2>5. CASE Alive(p) /\ Goes(p, "dead") /\ Unload(p) /\ UNCHANGED lapses
    <3>1. p \in Pids BY <2>2, <2>5 DEF Alive
    <3> QED BY <1>0, <2>5, <3>1, PanelEnds DEF Goes, Unload
  <2> QED BY <2>3, <2>4, <2>5
<1> QED BY <1>1, <1>2, <1>4, <1>5, <1>6 DEF Action

\* Every step keeps the invariant of the panel.
LEMMA PanelStep == ASSUME ServeInv, PanelInv, [LifeNext]_daemonVars PROVE PanelInv'
<1>0. LifeType BY DEF ServeInv
<1>1. CASE \E p \in Pids : Process(p) \/ Crashes(p) BY <1>0, <1>1, ProcessPanel
<1>2. CASE \E a \in Actors : Action(a) BY <1>2, ActionPanel
<1>3. CASE \E a \in Actors, w \in Wishes : Wants(a, w) BY <1>3, PanelKept DEF Wants, settingsVars
<1>4. CASE SettingsNext /\ UNCHANGED lifeVars BY <1>4, SettingsPanel DEF lifeVars
<1>5. CASE UNCHANGED daemonVars BY <1>5, PanelKept DEF daemonVars, lifeVars, settingsVars
<1> QED BY <1>1, <1>2, <1>3, <1>4, <1>5 DEF LifeNext

\* No panel exists at first.
LEMMA PanelInit == ASSUME LifeInit PROVE PanelInv
<1>1. /\ mem = [p \in Pids |-> Down] /\ keyboards = {} /\ panels = 0 /\ lapses = 0
      /\ pc = [p \in Pids |-> "unborn"]
  BY Zenon DEF LifeInit, SettingsInit
<1>2. Down.up = FALSE /\ Down.last = 0 /\ Down = [up |-> Down.up, cur |-> Down.cur, last |-> Down.last]
  BY DEF Down
<1> HIDE DEF Down
<1>3. \A p \in Pids : mem[p] = Down /\ pc[p] = "unborn" BY <1>1
<1>4. Memories BY <1>1, <1>2, <1>3 DEF Memories
<1>5. Unclaimed = {} BY <1>1 DEF Unclaimed
<1>6. Cardinality(Unclaimed) <= lapses + Cardinality(Over)
  BY <1>1, <1>5, Finite, FS_EmptySet
<1> QED BY <1>1, <1>2, <1>3, <1>4, <1>6 DEF PanelInv

(* Every panel that shows buttons is the one the next /options retires,    *)
(* except one for each edit that failed, each panel of a send whose answer *)
(* was lost and each daemon that ended: no press, no close and no panel    *)
(* sent anew leaves another behind (Open, Press, edit).                    *)
THEOREM SpecOnePanel == LifeSpec => []OnePanel
<1>1. LifeInit => ServeInv /\ PanelInv BY ServeInit, PanelInit
<1>2. ServeInv /\ PanelInv /\ [LifeNext]_daemonVars => ServeInv' /\ PanelInv' BY ServeStep, PanelStep
<1>3. PanelInv => OnePanel BY DEF PanelInv, OnePanel, Unclaimed, Lasts, Over
<1> QED BY <1>1, <1>2, <1>3, PTL DEF LifeSpec
-----------------------------------------------------------------------------
(* Induction.  The library's induction theorems take an operator; that     *)
(* every set of naturals has a least element does not.                     *)

\* Every set of naturals that is not empty has a least element.
LEMMA LeastOf ==
    ASSUME NEW T \in SUBSET Nat, T # {}
    PROVE  \E m \in T : \A n \in T : m <= n
  <1> DEFINE R == OpToRel(<, Nat)
  <1>1. IsWellFoundedOn(R, Nat)
    BY NatLessThanWellFounded
  <1> HIDE DEF R
  <1>2. PICK m \in T : \A n \in T : ~(<<n, m>> \in R)
    BY <1>1, WFMin
  <1>3. \A n \in T : ~(n < m)
    BY <1>2 DEF R, OpToRel
  <1>4. \A n \in T : n \in Nat /\ m \in Nat
    OBVIOUS
  <1> QED
    BY <1>3, <1>4

\* A first value and the step from each value to the next one make a list.
LEMMA Unfolds ==
    ASSUME NEW N \in Nat, NEW S, NEW base \in S, NEW step \in [S \X (1..N) -> S]
    PROVE  \E f \in [0..N -> S] : f[0] = base /\ \A n \in 1..N : f[n] = step[<<f[n - 1], n>>]
  <1> DEFINE Upto(k) == \E f \in [0..k -> S] : f[0] = base /\ \A n \in 1..k : f[n] = step[<<f[n - 1], n>>]
             T == {k \in 0..N : ~Upto(k)}
  <1>1. Upto(0)
    <2> DEFINE g == [i \in 0..0 |-> base]
    <2>1. g \in [0..0 -> S] /\ g[0] = base /\ \A n \in 1..0 : g[n] = step[<<g[n - 1], n>>]
      OBVIOUS
    <2> HIDE DEF g
    <2> QED
      BY <2>1
  <1>2. ASSUME NEW k \in 1..N, Upto(k - 1)
        PROVE  Upto(k)
    <2>1. PICK f \in [0..(k - 1) -> S] : f[0] = base /\ \A n \in 1..(k - 1) : f[n] = step[<<f[n - 1], n>>]
      BY <1>2
    <2> DEFINE g == [i \in 0..k |-> IF i = k THEN step[<<f[k - 1], k>>] ELSE f[i]]
    <2>2. g \in [0..k -> S]
      <3>1. k - 1 \in 0..(k - 1) /\ f[k - 1] \in S
        OBVIOUS
      <3>2. <<f[k - 1], k>> \in S \X (1..N)
        BY <3>1
      <3>3. step[<<f[k - 1], k>>] \in S
        BY <3>2
      <3>4. \A i \in 0..k : i = k \/ i \in 0..(k - 1)
        OBVIOUS
      <3> QED
        BY <3>3, <3>4
    <2>3. g[k] = step[<<f[k - 1], k>>] /\ \A n \in 0..(k - 1) : g[n] = f[n]
      OBVIOUS
    <2> HIDE DEF g
    <2>4. \A n \in 1..k : g[n] = step[<<g[n - 1], n>>]
      <3> TAKE n \in 1..k
      <3>1. n - 1 \in 0..(k - 1) /\ g[n - 1] = f[n - 1]
        BY <2>3
      <3>2. n = k \/ (n \in 1..(k - 1) /\ n \in 0..(k - 1))
        OBVIOUS
      <3> QED
        BY <2>1, <2>3, <3>1, <3>2
    <2>5. g[0] = base
      BY <2>1, <2>3
    <2> QED
      BY <2>2, <2>4, <2>5
  <1> HIDE DEF Upto
  <1>3. T = {}
    <2> SUFFICES ASSUME T # {} PROVE FALSE
      OBVIOUS
    <2>1. T \in SUBSET Nat
      OBVIOUS
    <2> HIDE DEF T
    <2>2. PICK m \in T : \A n \in T : m <= n
      BY <2>1, LeastOf
    <2> USE DEF T
    <2>3. m # 0 /\ m \in 1..N /\ m - 1 \notin T /\ m - 1 \in 0..N
      BY <1>1, <2>2
    <2> QED
      BY <1>2, <2>2, <2>3
  <1>4. Upto(N)
    BY <1>3
  <1> QED
    BY <1>4 DEF Upto

-----------------------------------------------------------------------------
(* The options.                                                            *)

\* Putting a value in; the defaults fit the icon pack.
LEMMA WithKeeps ==
    /\ Default \in Values /\ Valid(Default)
    /\ \A o \in Values, b \in BOOLEAN : With(o, 0, b) \in Values /\ (Valid(o) => Valid(With(o, 0, b)))
    /\ \A o \in Values, s \in Statuses, i \in Icons : With(o, s, i) \in Values
  <1>1. Default \in Values /\ Valid(Default)
    BY SettingsAssumption DEF Default, Values, Statuses, Icons, Valid
  <1>2. ASSUME NEW o \in Values, NEW b \in BOOLEAN
        PROVE  With(o, 0, b) \in Values /\ With(o, 0, b).icon = o.icon
    BY DEF With, Values
  <1>3. ASSUME NEW o \in Values, NEW s \in Statuses, NEW i \in Icons
        PROVE  With(o, s, i) \in Values
    <2>1. With(o, s, i) = [o EXCEPT !.icon = [o.icon EXCEPT ![s] = i]]
      BY DEF With, Values, Statuses
    <2>2. [o.icon EXCEPT ![s] = i] \in [Statuses -> Icons]
      BY DEF Values
    <2> QED
      BY <2>1, <2>2 DEF Values
  <1> QED
    BY <1>1, <1>2, <1>3 DEF Valid

\* SanitizeOptions makes options without conflicts of whatever the file holds: a
\* value is kept only if it fits what was kept before it.
LEMMA SanitizeValid ==
    ASSUME NEW o \in Values
    PROVE  Sanitize(o) \in Values /\ Valid(Sanitize(o))
  <1> DEFINE base == With(Default, 0, o.switch)
             Keep(c, s) == IF Valid(With(c, s, o.icon[s])) THEN With(c, s, o.icon[s]) ELSE c
             Is(f) == f = [s \in 0..NStatuses |-> IF s = 0 THEN base ELSE Keep(f[s - 1], s)]
             step == [x \in Values \X (1..NStatuses) |-> Keep(x[1], x[2])]
  <1>1. base \in Values /\ Valid(base)
    <2>1. o.switch \in BOOLEAN
      BY DEF Values
    <2> QED
      BY <2>1, WithKeeps
  <1>2. \A c \in Values, s \in 1..NStatuses : Keep(c, s) \in Values /\ (Valid(c) => Valid(Keep(c, s)))
    <2>1. \A s \in Statuses : o.icon[s] \in Icons
      BY DEF Values
    <2> QED
      BY <2>1, WithKeeps DEF Statuses
  <1> HIDE DEF base, Keep
  <1>3. NStatuses \in Nat
    BY SettingsAssumption
  <1>4. step \in [Values \X (1..NStatuses) -> Values]
    BY <1>2
  <1>5. \A c \in Values, s \in 1..NStatuses : step[<<c, s>>] = Keep(c, s)
    OBVIOUS
  <1> HIDE DEF step
  <1>6. PICK f \in [0..NStatuses -> Values] :
              f[0] = base /\ \A s \in 1..NStatuses : f[s] = step[<<f[s - 1], s>>]
    <2>1. base \in Values
      BY <1>1
    <2>2. \A S : \A b \in S, t \in [S \X (1..NStatuses) -> S] :
             \E f \in [0..NStatuses -> S] : f[0] = b /\ \A s \in 1..NStatuses : f[s] = t[<<f[s - 1], s>>]
      BY <1>3, Unfolds
    <2> QED
      BY <1>4, <2>1, <2>2
  <1>7. \A s \in 1..NStatuses : f[s - 1] \in Values /\ f[s] = Keep(f[s - 1], s)
    <2> TAKE s \in 1..NStatuses
    <2>1. s - 1 \in 0..NStatuses
      BY <1>3
    <2>2. f[s - 1] \in Values
      BY <1>6, <2>1
    <2> QED
      BY <1>5, <1>6, <2>2
  <1>8. Is(f)
    <2>1. \A s \in 0..NStatuses : f[s] = IF s = 0 THEN base ELSE Keep(f[s - 1], s)
      BY <1>3, <1>6, <1>7
    <2> QED
      BY <1>6, <2>1
  <1> DEFINE k == CHOOSE g : Is(g)
  <1>9. Is(k)
    BY <1>8
  <1>10. Sanitize(o) = k[NStatuses]
    BY DEF Sanitize, k, Is, Keep, base
  <1> HIDE DEF k
  <1>11. k[0] = base /\ \A s \in 1..NStatuses : k[s] = Keep(k[s - 1], s)
    BY <1>3, <1>9
  <1>12. \A s \in 0..NStatuses : k[s] \in Values /\ Valid(k[s])
    <2> DEFINE T == {s \in 0..NStatuses : ~(k[s] \in Values /\ Valid(k[s]))}
    <2> SUFFICES ASSUME T # {} PROVE FALSE
      OBVIOUS
    <2>1. T \in SUBSET Nat
      BY <1>3
    <2> HIDE DEF T
    <2>2. PICK m \in T : \A s \in T : m <= s
      BY <2>1, LeastOf
    <2>3. m \in 1..NStatuses /\ m - 1 \in 0..NStatuses /\ m - 1 \notin T
      BY <1>1, <1>3, <1>11, <2>2 DEF T
    <2>4. k[m - 1] \in Values /\ Valid(k[m - 1])
      BY <2>3 DEF T
    <2> QED
      BY <1>2, <1>11, <2>2, <2>3, <2>4 DEF T
  <1> QED
    BY <1>3, <1>10, <1>12

\* What a button asks for; it is taken over only if it fits.
LEMMA AskedKeeps ==
    ASSUME NEW o \in Values, NEW b \in Buttons
    PROVE  Asked(o, b) \in Values
  <1>1. CASE b.kind = "toggle"
    <2>1. o.switch \in BOOLEAN
      BY DEF Values
    <2>2. (~o.switch) \in BOOLEAN
      BY <2>1
    <2> QED
      BY <1>1, <2>2, WithKeeps DEF Asked
  <1>2. CASE b.kind = "reset icons"
    BY <1>2, WithKeeps DEF Asked, Values
  <1>3. CASE b.kind = "reset switch"
    BY <1>3, WithKeeps DEF Asked, Values
  <1>4. CASE b.kind = "page"
    BY <1>4 DEF Asked
  <1>5. CASE b.kind = "pick"
    <2>1. b.status \in Statuses /\ b.icon \in 1..NPack
      BY <1>5 DEF Buttons
    <2>2. b.icon \in Icons
      BY <2>1, SettingsAssumption DEF Icons
    <2> QED
      BY <1>5, <2>1, <2>2, WithKeeps DEF Asked
  <1> QED
    BY <1>1, <1>2, <1>3, <1>4, <1>5 DEF Buttons

-----------------------------------------------------------------------------
(* IconsTell.  The values of the file may be anything; those of every      *)
(* process fit, also before it is up.                                      *)
IconsInv ==
    /\ options.values \in Values
    /\ \A p \in Pids : mem[p].cur \in Values /\ Valid(mem[p].cur)

\* The memory of one process changes.
LEMMA IconsMove ==
    ASSUME Memories, IconsInv, NEW p \in Pids, NEW r, mem' = [mem EXCEPT ![p] = r],
           r = [up |-> r.up, cur |-> r.cur, last |-> r.last],
           r.cur \in Values, Valid(r.cur), options' = options \/ options'.values = r.cur
    PROVE  IconsInv'
  <1>1. mem'[p] = r /\ \A q \in Pids : q # p => mem'[q] = mem[q]
    BY MemoryOf
  <1>2. \A q \in Pids : mem'[q].cur \in Values /\ Valid(mem'[q].cur)
    BY <1>1 DEF IconsInv
  <1>3. options'.values \in Values
    BY DEF IconsInv
  <1> QED
    BY <1>2, <1>3 DEF IconsInv

\* A process that ends forgets.
LEMMA IconsForget ==
    ASSUME Memories, IconsInv, NEW p \in Pids, mem' = [mem EXCEPT ![p] = Down], UNCHANGED options
    PROVE  IconsInv'
  <1>1. Down = [up |-> Down.up, cur |-> Down.cur, last |-> Down.last] /\ Down.cur = Default
    BY DEF Down
  <1> HIDE DEF Down
  <1> QED
    BY <1>1, WithKeeps, IconsMove

\* The daemon reads what the file holds.
LEMMA IconsLoad ==
    ASSUME Memories, IconsInv, NEW p \in Pids, LoadOptions(p)
    PROVE  IconsInv'
  <1> DEFINE o == IF options.parses THEN options.values ELSE Default
             c == Sanitize(o)
  <1>1. o \in Values
    BY WithKeeps DEF IconsInv
  <1> HIDE DEF o
  <1>2. c \in Values /\ Valid(c)
    BY <1>1, SanitizeValid
  <1> HIDE DEF c
  <1>3. PICK r : r = [mem[p] EXCEPT !.up = TRUE, !.cur = c]
    OBVIOUS
  <1>4. mem' = [mem EXCEPT ![p] = r] /\ options' = options
    BY <1>3 DEF LoadOptions, o, c
  <1>5. mem[p] = [up |-> mem[p].up, cur |-> mem[p].cur, last |-> mem[p].last]
    BY Zenon DEF Memories
  <1>6. r = [up |-> r.up, cur |-> r.cur, last |-> r.last] /\ r.cur = c
    BY <1>3, <1>5
  <1> QED
    BY <1>2, <1>4, <1>6, IconsMove

\* A press changes the options in force only to ones that fit.
LEMMA IconsPress ==
    ASSUME Memories, IconsInv, SettingsNext
    PROVE  IconsInv'
  <1>1. PICK p \in Pids, edited \in BOOLEAN, sent \in BOOLEAN, n \in 0..MaxTries :
          \/ Open(p, edited, sent, n)
          \/ \E m \in keyboards :
               \/ Close(p, m, edited, sent, n)
               \/ \E b \in Buttons, saved \in BOOLEAN : PressButton(p, m, b, saved, edited, sent, n)
    BY DEF SettingsNext
  <1>2. /\ mem[p] = [up |-> mem[p].up, cur |-> mem[p].cur, last |-> mem[p].last]
        /\ mem[p].cur \in Values /\ Valid(mem[p].cur)
    BY Zenon DEF Memories, IconsInv
  <1>3. ASSUME NEW last, mem' = [mem EXCEPT ![p] = [mem[p] EXCEPT !.last = last]], UNCHANGED options
        PROVE  IconsInv'
    <2> DEFINE r == [mem[p] EXCEPT !.last = last]
    <2>1. r = [up |-> r.up, cur |-> r.cur, last |-> r.last] /\ r.cur = mem[p].cur
      BY <1>2
    <2> HIDE DEF r
    <2> QED
      BY <1>2, <1>3, <2>1, IconsMove DEF r
  <1>4. CASE Open(p, edited, sent, n)
    <2>1. /\ mem' = [mem EXCEPT ![p] = [mem[p] EXCEPT !.last = Known(sent, n, mem[p].last)]]
          /\ UNCHANGED options
      BY <1>4 DEF Open
    <2> QED
      BY <1>3, <2>1
  <1>5. CASE \E m \in keyboards : Close(p, m, edited, sent, n)
    <2>1. PICK m \in keyboards : Close(p, m, edited, sent, n)
      BY <1>5
    <2>2. /\ mem' = [mem EXCEPT ![p] = [mem[p] EXCEPT !.last = Known(sent, n, IF mem[p].last = m THEN 0
                                                                         ELSE mem[p].last)]]
          /\ UNCHANGED options
      BY <2>1 DEF Close
    <2> QED
      BY <1>3, <2>2
  <1>6. CASE \E m \in keyboards, b \in Buttons, saved \in BOOLEAN : PressButton(p, m, b, saved, edited, sent, n)
    <2>1. PICK m \in keyboards, b \in Buttons, saved \in BOOLEAN : PressButton(p, m, b, saved, edited, sent, n)
      BY <1>6
    <2> DEFINE o == Asked(mem[p].cur, b)
               c == InForce(p, o, saved)
    <2>2. o \in Values
      BY <1>2, AskedKeeps
    <2>3. PICK r : r = [mem[p] EXCEPT !.cur = c,
                                      !.last = Known(sent, n, IF @ = 0 THEN m ELSE @)]
      OBVIOUS
    <2>4. mem' = [mem EXCEPT ![p] = r] /\ Writes(p, o, saved)
      BY <2>1, <2>3 DEF PressButton
    <2> HIDE DEF o, c
    <2>5. r = [up |-> r.up, cur |-> r.cur, last |-> r.last] /\ r.cur = c
      BY <1>2, <2>3
    <2>6. c \in Values /\ Valid(c) /\ (options' = options \/ options'.values = c)
      BY <1>2, <2>2, <2>4 DEF c, InForce, Writes, TakesOver, Saved
    <2> QED
      BY <2>4, <2>5, <2>6, IconsMove
  <1> QED
    BY <1>1, <1>4, <1>5, <1>6

\* Every step keeps the options of every process free of conflicts.
LEMMA IconsStep ==
    ASSUME LifeType, Memories, IconsInv, [LifeNext]_daemonVars
    PROVE  IconsInv'
  <1>1. CASE UNCHANGED <<options, mem>>
    BY <1>1 DEF IconsInv
  <1>2. ASSUME NEW p \in Pids, Process(p) \/ Crashes(p)
        PROVE  IconsInv'
    <2>1. CASE Serves(p)
      BY <2>1, IconsLoad DEF Serves, Builds
    <2>2. CASE Exits(p) \/ Crashes(p)
      BY <2>2, IconsForget DEF Exits, Crashes, Unload
    <2>3. CASE Boots(p) \/ Creates(p) \/ WritesPid(p) \/ Reads(p) \/ Removes(p) \/ Releases(p)
      BY <1>1, <2>3 DEF Boots, Creates, WritesPid, Reads, Removes, Releases, settingsVars
    <2> QED
      BY <1>2, <2>1, <2>2, <2>3 DEF Process
  <1>3. ASSUME NEW a \in Actors, Action(a)
        PROVE  IconsInv'
    <2>1. \/ UNCHANGED <<options, mem>>
          \/ Running # 0 /\ Falls(Running) /\ UNCHANGED options
          \/ Alive(act[a].pid) /\ Unload(act[a].pid)
      BY <1>3 DEF Action, Awaits, Stops, Stopping, Resyncs, Spawns, settingsVars
    <2>2. Running \in Pids \cup {0}
      BY DEF LifeType, File, Running
    <2>3. Alive(act[a].pid) => act[a].pid \in Pids
      BY DEF LifeType, Doing, Alive
    <2> QED
      BY <1>1, <2>1, <2>2, <2>3, IconsForget DEF Falls, Unload
  <1>4. CASE \E a \in Actors, w \in Wishes : Wants(a, w)
    BY <1>1, <1>4 DEF Wants, settingsVars
  <1>5. CASE SettingsNext /\ UNCHANGED lifeVars
    BY <1>5, IconsPress
  <1>6. CASE UNCHANGED daemonVars
    BY <1>1, <1>6 DEF daemonVars, settingsVars
  <1> QED
    BY <1>2, <1>3, <1>4, <1>5, <1>6 DEF LifeNext

\* The file may hold an edit that does not fit; a process starts with the defaults.
LEMMA IconsInit == ASSUME LifeInit PROVE IconsInv
  <1>1. mem = [p \in Pids |-> Down]
    BY Zenon DEF LifeInit, SettingsInit
  <1>2. \/ options = [parses |-> FALSE, values |-> Default]
        \/ \E f \in [Statuses -> Edits] : options = [parses |-> TRUE, values |-> [Default EXCEPT !.icon = f]]
    BY DEF LifeInit, SettingsInit
  <1>3. Down.cur = Default
    BY DEF Down
  <1>4. \A f \in [Statuses -> Edits] : [Default EXCEPT !.icon = f] \in Values
    <2>1. Edits \subseteq Icons
      BY SettingsAssumption DEF Icons
    <2> QED
      BY <2>1 DEF Default, Values
  <1>5. options.values \in Values
    <2> HIDE DEF Default
    <2> QED
      BY <1>2, <1>4, WithKeeps
  <1> HIDE DEF Down
  <1>6. \A p \in Pids : mem[p] = Down
    BY <1>1
  <1> QED
    BY <1>3, <1>5, <1>6, WithKeeps DEF IconsInv

\* No two statuses share an icon and every icon is one Telegram allows, in every
\* running daemon: whatever a person wrote into options.json, whichever picks and
\* resets follow (SanitizeOptions, Set, Reset).
THEOREM SpecIconsTell == LifeSpec => []IconsTell
  <1>1. LifeInit => ServeInv /\ PanelInv /\ IconsInv
    BY ServeInit, PanelInit, IconsInit
  <1>2. ServeInv /\ PanelInv /\ IconsInv /\ [LifeNext]_daemonVars => ServeInv' /\ PanelInv' /\ IconsInv'
    BY ServeStep, PanelStep, IconsStep DEF ServeInv, PanelInv
  <1>3. IconsInv => IconsTell
    BY DEF IconsInv, IconsTell
  <1> QED
    BY <1>1, <1>2, <1>3, PTL DEF LifeSpec

-----------------------------------------------------------------------------
(* Requests.  That what an operator wrote reaches the terminal at most     *)
(* once (TypedOnce) and that a pane is closed by one press of the newest   *)
(* question (ClosesOnce), for any number of messages and presses and any   *)
(* size of the job buffer.                                                 *)

Writers == {"operator", "guest"}
Fates == {"unsent", "ignored", "open", "dropped", "replied", "typed", "asked", "lost",
          "replaced", "posted", "skipped"}

Job ==
  [job : {"message"}, msg : Msgs]
    \cup [job : {"press"}, msg : Msgs, yes : BOOLEAN]
    \cup [job : {"result"}, what : {"download", "start"}, parts : SUBSET Msgs, good : SUBSET Msgs]
    \cup {Gone}

Typing ==
  /\ jobs \in Seq(Job)
  /\ typed \in [Msgs -> Nat] /\ closes \in [Msgs -> Nat]
  /\ kind \in [Msgs -> Asks \cup {"none"}] /\ from \in [Msgs -> Writers]
  /\ fate \in [Msgs -> Fates]
  /\ budget \in [msgs : Nat, presses : Nat] /\ budget.msgs <= MaxMsgs
  /\ album \subseteq Msgs /\ running \subseteq Work
  /\ buttons \subseteq Msgs

(* How many messages were sent, and the messages a job still carries.      *)
Sent == MaxMsgs - budget.msgs
Parts(j) ==
  CASE j.job = "message" -> {j.msg}
    [] j.job = "result" -> j.parts
    [] OTHER -> {}

(* A message waits in one place: in a job, in the album or in a background *)
(* run.                                                                    *)
Apart ==
  /\ \A i, j \in 1..Len(jobs) : i # j => Parts(jobs[i]) \cap Parts(jobs[j]) = {}
  /\ \A i \in 1..Len(jobs) : Parts(jobs[i]) \cap album = {}
  /\ \A i \in 1..Len(jobs), w \in running : Parts(jobs[i]) \cap w.parts = {}
  /\ \A w \in running : w.parts \cap album = {}
  /\ \A v, w \in running : v # w => v.parts \cap w.parts = {}

(* What waits was sent and has not been typed, and what will be typed is   *)
(* an operator's.                                                          *)
Waits(m) == m <= Sent /\ typed[m] = 0
Theirs(m) == from[m] = "operator"

Untyped ==
  /\ \A m \in Msgs : typed[m] <= (IF from[m] = "operator" THEN 1 ELSE 0) /\ (typed[m] > 0 => m <= Sent)
  /\ \A m \in album : Waits(m) /\ Theirs(m)
  /\ \A w \in running : \A m \in w.parts : Waits(m) /\ (w.what = "download" => Theirs(m))
  /\ \A i \in 1..Len(jobs) : \A m \in Parts(jobs[i]) :
       /\ Waits(m)
       /\ jobs[i].job = "message" => Theirs(m) \/ kind[m] \in General
       /\ jobs[i].job = "result" /\ jobs[i].what = "download" => Theirs(m)
  /\ \A i \in 1..Len(jobs) : jobs[i].job = "result" => jobs[i].good \subseteq jobs[i].parts

TypedInv == Apart /\ Untyped

(* The messages in the buffer are newer than any question that was asked.  *)
Ordered ==
  \A i, j \in 1..Len(jobs) :
    i < j /\ jobs[i].job = "message" /\ jobs[j].job = "message" => jobs[i].msg < jobs[j].msg

Behind(q) ==
  q <= Sent /\ \A i \in 1..Len(jobs) : jobs[i].job = "message" => q < jobs[i].msg

Newest ==
  /\ \A q \in Msgs : closes[q] <= 1 /\ (closes[q] > 0 \/ fate[q] = "asked" => Behind(q))
  /\ closing # 0 => /\ closing \in Msgs /\ Behind(closing) /\ closes[closing] = 0
                    /\ \A m \in Msgs : fate[m] = "asked" => m <= closing
  /\ \A i \in 1..Len(jobs) : jobs[i].job = "message" => jobs[i].msg <= Sent

IInv == Typing /\ TypedInv /\ Ordered /\ Newest

-----------------------------------------------------------------------------
(* The jobs are what they say, and carry messages of the operators.        *)
LEMMA MessageJob ==
  ASSUME NEW m \in Msgs
  PROVE /\ Message(m) \in Job /\ Message(m).job = "message" /\ Message(m).msg = m
        /\ Parts(Message(m)) = {m}
BY DEF Job, Message, Parts

\* A press is a job without parts.
LEMMA PressJob ==
  ASSUME NEW q \in Msgs, NEW y \in BOOLEAN
  PROVE Press(q, y) \in Job /\ Press(q, y).job = "press" /\ Parts(Press(q, y)) = {}
BY DEF Job, Press, Parts

\* The result of a background run is a job with the parts of the run.
LEMMA ResultJob ==
  ASSUME NEW w \in Work, NEW good \in SUBSET w.parts
  PROVE /\ Result(w, good) \in Job /\ Result(w, good).job = "result"
        /\ Result(w, good).what = w.what /\ Result(w, good).parts = w.parts
        /\ Result(w, good).good = good /\ Parts(Result(w, good)) = w.parts
BY DEF Job, Result, Parts, Work

\* The end of the agent is a job without parts.
LEMMA GoneJob == Gone \in Job /\ Gone.job = "gone" /\ Parts(Gone) = {}
BY DEF Job, Gone, Parts

\* The parts of a job are messages.
LEMMA JobParts ==
  ASSUME NEW j \in Job
  PROVE /\ Parts(j) \subseteq Msgs
        /\ j.job = "message" => j.msg \in Msgs /\ Parts(j) = {j.msg} /\ j = Message(j.msg)
        /\ j.job = "result" => j.parts \subseteq Msgs /\ Parts(j) = j.parts
<1>1. CASE j \in [job : {"message"}, msg : Msgs] BY <1>1 DEF Parts, Message
<1>2. CASE j \in [job : {"press"}, msg : Msgs, yes : BOOLEAN] BY <1>2 DEF Parts
<1>3. CASE j \in [job : {"result"}, what : {"download", "start"}, parts : SUBSET Msgs, good : SUBSET Msgs]
  BY <1>3 DEF Parts
<1>4. CASE j = Gone BY <1>4, GoneJob
<1> QED BY <1>1, <1>2, <1>3, <1>4 DEF Job

(* Submit puts a job behind the others or drops it.                        *)
LEMMA PutJob ==
  ASSUME jobs \in Seq(Job), NEW x \in Job, jobs' = Put(x)
  PROVE /\ jobs' \in Seq(Job) /\ Len(jobs) \in Nat
        /\ \A i \in 1..Len(jobs) : jobs'[i] = jobs[i]
        /\ \/ Len(jobs') = Len(jobs)
           \/ Fits /\ Len(jobs') = Len(jobs) + 1 /\ jobs'[Len(jobs) + 1] = x
<1> HIDE DEF Job
<1> QED BY DEF Put

(* The bridge takes the first job.                                         *)
LEMMA TailJob ==
  ASSUME jobs \in Seq(Job), jobs # <<>>, jobs' = Tail(jobs)
  PROVE /\ jobs' \in Seq(Job) /\ Len(jobs) \in Nat /\ Len(jobs) > 0
        /\ Len(jobs') = Len(jobs) - 1
        /\ \A i \in 1..Len(jobs') : i + 1 \in 1..Len(jobs) /\ jobs'[i] = jobs[i + 1]
        /\ 1 \in 1..Len(jobs) /\ Head(jobs) = jobs[1] /\ jobs[1] \in Job
<1> HIDE DEF Job
<1> QED OBVIOUS

(* How the buffer moves when no new message enters it.                     *)
Moved ==
  \/ jobs' = jobs
  \/ jobs # <<>> /\ jobs' = Tail(jobs)
  \/ \E x \in Job : x.job # "message" /\ jobs' = Put(x)

(* What was behind every message in the buffer stays behind, and the       *)
(* messages stay in order.                                                 *)
LEMMA MovedKeeps ==
  ASSUME Typing, Ordered, Newest, Moved, budget'.msgs = budget.msgs
  PROVE /\ jobs' \in Seq(Job) /\ Ordered'
        /\ \A q \in Msgs : Behind(q) => Behind(q)'
        /\ \A i \in 1..Len(jobs') : jobs'[i].job = "message" => jobs'[i].msg <= Sent'
<1> USE DEF Ordered, Behind, Sent
<1> HIDE DEF Job
<1>1. CASE jobs' = jobs BY <1>1 DEF Typing, Newest
<1>2. CASE jobs # <<>> /\ jobs' = Tail(jobs)
  <2>1. /\ jobs' \in Seq(Job) /\ Len(jobs) \in Nat /\ Len(jobs') = Len(jobs) - 1
        /\ \A i \in 1..Len(jobs') : i + 1 \in 1..Len(jobs) /\ jobs'[i] = jobs[i + 1]
    BY <1>2, TailJob DEF Typing
  <2>2. \A i, j \in 1..Len(jobs') : i < j => i + 1 < j + 1 BY <2>1
  <2> QED BY <2>1, <2>2 DEF Newest
<1>3. CASE \E x \in Job : x.job # "message" /\ jobs' = Put(x)
  <2>1. PICK x \in Job : x.job # "message" /\ jobs' = Put(x) BY <1>3
  <2>2. /\ jobs' \in Seq(Job) /\ Len(jobs) \in Nat
        /\ \A i \in 1..Len(jobs) : jobs'[i] = jobs[i]
        /\ \/ Len(jobs') = Len(jobs)
           \/ Len(jobs') = Len(jobs) + 1 /\ jobs'[Len(jobs) + 1] = x
    BY <2>1, PutJob DEF Typing
  <2>3. \A i \in 1..Len(jobs') : jobs'[i].job = "message" => i \in 1..Len(jobs)
    BY <2>1, <2>2
  <2> QED BY <2>2, <2>3 DEF Newest
<1> QED BY <1>1, <1>2, <1>3 DEF Moved

(* Steps that ask no question and close no pane keep what is known of the  *)
(* questions: they may only forget the active one.                         *)
LEMMA NewestKept ==
  ASSUME Typing, Ordered, Newest, Moved, budget'.msgs = budget.msgs,
         closes' = closes, closing' = closing \/ closing' = 0,
         \A m \in Msgs : fate'[m] = "asked" => fate[m] = "asked"
  PROVE Ordered' /\ Newest'
<1>1. /\ Ordered' /\ \A q \in Msgs : Behind(q) => Behind(q)'
      /\ \A i \in 1..Len(jobs') : jobs'[i].job = "message" => jobs'[i].msg <= Sent'
  BY MovedKeeps
<1>2. \A q \in Msgs : closes'[q] <= 1 /\ (closes'[q] > 0 \/ fate'[q] = "asked" => Behind(q)')
  BY <1>1 DEF Newest
<1>3. closing' # 0 => /\ closing' \in Msgs /\ Behind(closing)' /\ closes'[closing'] = 0
                      /\ \A m \in Msgs : fate'[m] = "asked" => m <= closing'
  <2> SUFFICES ASSUME closing' # 0
               PROVE /\ closing' \in Msgs /\ Behind(closing)' /\ closes'[closing'] = 0
                     /\ \A m \in Msgs : fate'[m] = "asked" => m <= closing'
    OBVIOUS
  <2>1. PICK q : q = closing OBVIOUS
  <2>2. q \in Msgs /\ Behind(q) /\ closing' = q BY <2>1 DEF Newest
  <2>3. Behind(q)' BY <1>1, <2>2
  <2>4. Behind(closing)' BY <2>2, <2>3 DEF Behind
  <2> QED BY <2>1, <2>2, <2>4 DEF Newest
<1> QED BY <1>1, <1>2, <1>3 DEF Newest

-----------------------------------------------------------------------------
(* The bridge takes the first job and types nothing, or parts of it that   *)
(* are an operator's.                                                      *)
TypesFrom(M) ==
  /\ typed' \in [Msgs -> Nat]
  /\ \A m \in Msgs : \/ typed'[m] = typed[m]
                     \/ m \in M /\ Theirs(m) /\ typed'[m] = typed[m] + 1

\* A job taken from the queue may type its own parts, and nothing else waits with them.
LEMMA TakenTyped ==
  ASSUME Typing, TypedInv, jobs # <<>>, jobs' = Tail(jobs), TypesFrom(Parts(Head(jobs))),
         UNCHANGED <<album, running, from, kind>>, budget'.msgs = budget.msgs
  PROVE TypedInv'
<1> HIDE DEF Job
<1>1. /\ Len(jobs) \in Nat /\ Len(jobs') = Len(jobs) - 1
      /\ \A i \in 1..Len(jobs') : i + 1 \in 1..Len(jobs) /\ i + 1 # 1 /\ jobs'[i] = jobs[i + 1]
      /\ 1 \in 1..Len(jobs) /\ Head(jobs) = jobs[1] /\ jobs[1] \in Job
  BY TailJob DEF Typing
<1>2. Apart' 
  <2>1. \A i, j \in 1..Len(jobs') : i # j => i + 1 # j + 1 BY <1>1
  <2> QED BY <1>1, <2>1 DEF TypedInv, Apart
<1> DEFINE P == Parts(jobs[1])
<1>3. P \subseteq Msgs BY <1>1, JobParts
<1>4. \A m \in P : typed[m] = 0 /\ m <= Sent BY <1>1 DEF TypedInv, Untyped, Waits
<1>5. \A m \in Msgs : m \notin P => typed'[m] = typed[m] BY <1>1 DEF TypesFrom
<1>6. Sent' = Sent BY DEF Sent
<1>7. \A m \in Msgs : /\ typed'[m] <= (IF from'[m] = "operator" THEN 1 ELSE 0)
                      /\ typed'[m] > 0 => m <= Sent'
  <2> SUFFICES ASSUME NEW m \in Msgs
               PROVE /\ typed'[m] <= (IF from[m] = "operator" THEN 1 ELSE 0)
                     /\ typed'[m] > 0 => m <= Sent
    BY <1>6
  <2>1. CASE typed'[m] = typed[m] BY <2>1 DEF TypedInv, Untyped
  <2>2. CASE m \in P /\ Theirs(m) /\ typed'[m] = typed[m] + 1
    BY <1>4, <2>2 DEF Theirs
  <2> QED BY <1>1, <2>1, <2>2 DEF TypesFrom
<1>8. \A m \in album : Waits(m)' /\ Theirs(m)'
  <2> SUFFICES ASSUME NEW m \in album PROVE Waits(m)' /\ Theirs(m)' OBVIOUS
  <2>1. m \in Msgs /\ m \notin P BY <1>1 DEF TypedInv, Apart, Typing
  <2> QED BY <1>5, <1>6, <2>1 DEF TypedInv, Untyped, Waits, Theirs
<1>9. \A w \in running : \A m \in w.parts : Waits(m)' /\ (w.what = "download" => Theirs(m)')
  <2> SUFFICES ASSUME NEW w \in running, NEW m \in w.parts
               PROVE Waits(m)' /\ (w.what = "download" => Theirs(m)')
    OBVIOUS
  <2>1. m \in Msgs BY DEF Typing, Work
  <2>2. m \notin P BY <1>1 DEF TypedInv, Apart
  <2> QED BY <1>5, <1>6, <2>1, <2>2 DEF TypedInv, Untyped, Waits, Theirs
<1>10. \A i \in 1..Len(jobs') : \A m \in Parts(jobs'[i]) :
         /\ Waits(m)'
         /\ jobs'[i].job = "message" => Theirs(m)' \/ kind'[m] \in General
         /\ jobs'[i].job = "result" /\ jobs'[i].what = "download" => Theirs(m)'
  <2> SUFFICES ASSUME NEW i \in 1..Len(jobs'), NEW m \in Parts(jobs'[i])
               PROVE /\ Waits(m)'
                     /\ jobs'[i].job = "message" => Theirs(m)' \/ kind'[m] \in General
                     /\ jobs'[i].job = "result" /\ jobs'[i].what = "download" => Theirs(m)'
    OBVIOUS
  <2>1. i + 1 \in 1..Len(jobs) /\ i + 1 # 1 /\ jobs'[i] = jobs[i + 1] BY <1>1
  <2>2. jobs[i + 1] \in Job BY <2>1 DEF Typing
  <2>3. m \in Msgs BY <2>1, <2>2, JobParts
  <2>4. m \notin P BY <1>1, <2>1 DEF TypedInv, Apart
  <2>5. Waits(m)' /\ Theirs(m)' = Theirs(m)
    BY <1>5, <1>6, <2>1, <2>3, <2>4 DEF TypedInv, Untyped, Waits, Theirs
  <2> QED BY <2>1, <2>5 DEF TypedInv, Untyped
<1>11. \A i \in 1..Len(jobs') : jobs'[i].job = "result" => jobs'[i].good \subseteq jobs'[i].parts
  BY <1>1 DEF TypedInv, Untyped
<1> QED BY <1>2, <1>7, <1>8, <1>9, <1>10, <1>11 DEF TypedInv, Untyped

(* A job that carries no message is submitted, or none at all.             *)
LEMMA PutTyped ==
  ASSUME Typing, TypedInv, NEW x \in Job, jobs' = Put(x), Parts(x) = {}, x.job # "result",
         UNCHANGED <<album, running, from, kind, typed>>, budget'.msgs = budget.msgs
  PROVE TypedInv'
<1> HIDE DEF Job
<1>1. /\ Len(jobs) \in Nat
      /\ \A i \in 1..Len(jobs) : jobs'[i] = jobs[i]
      /\ \/ Len(jobs') = Len(jobs)
         \/ Len(jobs') = Len(jobs) + 1 /\ jobs'[Len(jobs) + 1] = x
  BY PutJob DEF Typing
<1>2. \A i \in 1..Len(jobs') : \/ i \in 1..Len(jobs) /\ jobs'[i] = jobs[i]
                               \/ i \notin 1..Len(jobs) /\ jobs'[i] = x
  BY <1>1
<1>3. Apart'
  <2>1. \A i \in 1..Len(jobs') : Parts(jobs'[i]) = {} \/ (i \in 1..Len(jobs) /\ jobs'[i] = jobs[i])
    BY <1>2
  <2>2. \A i, j \in 1..Len(jobs') : i # j => Parts(jobs'[i]) \cap Parts(jobs'[j]) = {}
    <3> SUFFICES ASSUME NEW i \in 1..Len(jobs'), NEW j \in 1..Len(jobs'), i # j
                 PROVE  Parts(jobs'[i]) \cap Parts(jobs'[j]) = {}
      OBVIOUS
    <3>1. CASE Parts(jobs'[i]) = {} \/ Parts(jobs'[j]) = {} BY <3>1
    <3>2. CASE /\ i \in 1..Len(jobs) /\ jobs'[i] = jobs[i]
               /\ j \in 1..Len(jobs) /\ jobs'[j] = jobs[j]
      BY <3>2 DEF TypedInv, Apart
    <3> QED BY <2>1, <3>1, <3>2
  <2>3. \A i \in 1..Len(jobs') : Parts(jobs'[i]) \cap album' = {}
    BY <2>1 DEF TypedInv, Apart
  <2>4. \A i \in 1..Len(jobs'), w \in running' : Parts(jobs'[i]) \cap w.parts = {}
    BY <2>1 DEF TypedInv, Apart
  <2>5. /\ \A w \in running' : w.parts \cap album' = {}
        /\ \A v, w \in running' : v # w => v.parts \cap w.parts = {}
    BY DEF TypedInv, Apart
  <2> QED BY <2>2, <2>3, <2>4, <2>5 DEF Apart
<1>4. Sent' = Sent BY DEF Sent
<1> QED BY <1>2, <1>3, <1>4 DEF TypedInv, Untyped, Waits, Theirs

(* Nothing that waits moves.                                               *)
LEMMA StillTyped ==
  ASSUME TypedInv, UNCHANGED <<jobs, album, running, from, kind, typed>>, budget'.msgs = budget.msgs
  PROVE TypedInv'
<1>1. Sent' = Sent BY DEF Sent
<1> QED BY <1>1 DEF TypedInv, Apart, Untyped, Waits, Theirs

(* The message of the first job moves into a background run.               *)
LEMMA JobToRun ==
  ASSUME Typing, TypedInv, jobs # <<>>, jobs' = Tail(jobs), NEW w \in Work,
         w.parts = Parts(Head(jobs)), w.what = "download" => \A m \in w.parts : Theirs(m),
         running' = running \cup {w},
         UNCHANGED <<album, from, kind, typed>>, budget'.msgs = budget.msgs
  PROVE TypedInv'
<1> HIDE DEF Job
<1>1. /\ Len(jobs) \in Nat /\ Len(jobs') = Len(jobs) - 1
      /\ \A i \in 1..Len(jobs') : i + 1 \in 1..Len(jobs) /\ i + 1 # 1 /\ jobs'[i] = jobs[i + 1]
      /\ 1 \in 1..Len(jobs) /\ Head(jobs) = jobs[1]
      /\ \A i, j \in 1..Len(jobs') : i # j => i + 1 # j + 1
  BY TailJob DEF Typing
<1>2. Sent' = Sent BY DEF Sent
<1>3. \A m \in w.parts : Waits(m) BY <1>1 DEF TypedInv, Untyped
<1>4. Apart'
  <2>1. \A i \in 1..Len(jobs') : Parts(jobs'[i]) \cap w.parts = {} BY <1>1 DEF TypedInv, Apart
  <2>2. w.parts \cap album = {} BY <1>1 DEF TypedInv, Apart
  <2>3. \A v \in running : v.parts \cap w.parts = {} BY <1>1 DEF TypedInv, Apart
  <2>4. \A i, j \in 1..Len(jobs') : i # j => Parts(jobs'[i]) \cap Parts(jobs'[j]) = {}
    BY <1>1 DEF TypedInv, Apart
  <2>5. \A i \in 1..Len(jobs') : /\ Parts(jobs'[i]) \cap album = {}
                                 /\ \A v \in running : Parts(jobs'[i]) \cap v.parts = {}
    BY <1>1 DEF TypedInv, Apart
  <2> QED BY <2>1, <2>2, <2>3, <2>4, <2>5 DEF TypedInv, Apart
<1>5. Untyped' BY <1>1, <1>2, <1>3 DEF TypedInv, Untyped, Waits, Theirs
<1> QED BY <1>4, <1>5 DEF TypedInv

(* The message of the first job moves into the album.                      *)
LEMMA JobToAlbum ==
  ASSUME Typing, TypedInv, jobs # <<>>, jobs' = Tail(jobs),
         \A m \in Parts(Head(jobs)) : Theirs(m), album' = album \cup Parts(Head(jobs)),
         UNCHANGED <<running, from, kind, typed>>, budget'.msgs = budget.msgs
  PROVE TypedInv'
<1> HIDE DEF Job
<1>1. /\ Len(jobs) \in Nat /\ Len(jobs') = Len(jobs) - 1
      /\ \A i \in 1..Len(jobs') : i + 1 \in 1..Len(jobs) /\ i + 1 # 1 /\ jobs'[i] = jobs[i + 1]
      /\ 1 \in 1..Len(jobs) /\ Head(jobs) = jobs[1]
      /\ \A i, j \in 1..Len(jobs') : i # j => i + 1 # j + 1
  BY TailJob DEF Typing
<1>2. Sent' = Sent BY DEF Sent
<1>3. \A m \in Parts(jobs[1]) : Waits(m) BY <1>1 DEF TypedInv, Untyped
<1>4. Apart'
  <2>1. \A i \in 1..Len(jobs') : Parts(jobs'[i]) \cap album' = {} BY <1>1 DEF TypedInv, Apart
  <2>2. \A v \in running : v.parts \cap album' = {} BY <1>1 DEF TypedInv, Apart
  <2>3. \A i, j \in 1..Len(jobs') : i # j => Parts(jobs'[i]) \cap Parts(jobs'[j]) = {}
    BY <1>1 DEF TypedInv, Apart
  <2>4. \A i \in 1..Len(jobs') : \A v \in running : Parts(jobs'[i]) \cap v.parts = {}
    BY <1>1 DEF TypedInv, Apart
  <2> QED BY <2>1, <2>2, <2>3, <2>4 DEF TypedInv, Apart
<1>5. Untyped' BY <1>1, <1>2, <1>3 DEF TypedInv, Untyped, Waits, Theirs
<1> QED BY <1>4, <1>5 DEF TypedInv

(* The settled album moves into a download.                                *)
LEMMA AlbumToRun ==
  ASSUME Typing, TypedInv, album' = {},
         running' = IF album = {} THEN running ELSE running \cup {Download(album)},
         UNCHANGED <<jobs, from, kind, typed>>, budget'.msgs = budget.msgs
  PROVE TypedInv'
<1>1. PICK w : w = Download(album) OBVIOUS
<1>2. w.parts = album /\ w.what = "download" BY <1>1 DEF Download
<1>3. running' = running \/ running' = running \cup {w} BY <1>1
<1>4. Sent' = Sent BY DEF Sent
<1>5. Apart' BY <1>2, <1>3 DEF TypedInv, Apart
<1>6. Untyped' BY <1>2, <1>3, <1>4 DEF TypedInv, Untyped, Waits, Theirs
<1> QED BY <1>5, <1>6 DEF TypedInv

(* A background run ends and its result is submitted.                      *)
LEMMA RunToJob ==
  ASSUME Typing, TypedInv, NEW w \in running, NEW good \in SUBSET w.parts,
         running' = running \ {w}, jobs' = Put(Result(w, good)),
         UNCHANGED <<album, from, kind, typed>>, budget'.msgs = budget.msgs
  PROVE TypedInv'
<1>1. PICK x : x = Result(w, good) OBVIOUS
<1>2. w \in Work BY DEF Typing
<1>3. /\ x \in Job /\ x.job = "result" /\ x.what = w.what /\ x.parts = w.parts
      /\ x.good = good /\ Parts(x) = w.parts
  BY <1>1, <1>2, ResultJob
<1>4. /\ Len(jobs) \in Nat
      /\ \A i \in 1..Len(jobs) : jobs'[i] = jobs[i]
      /\ \/ Len(jobs') = Len(jobs)
         \/ Len(jobs') = Len(jobs) + 1 /\ jobs'[Len(jobs) + 1] = x
  BY <1>1, <1>3, PutJob DEF Typing
<1>5. \A i \in 1..Len(jobs') : \/ i \in 1..Len(jobs) /\ jobs'[i] = jobs[i]
                               \/ i = Len(jobs) + 1 /\ i \notin 1..Len(jobs) /\ jobs'[i] = x
  BY <1>4
<1>6. Sent' = Sent BY DEF Sent
<1> HIDE DEF Job
<1>7. Apart'
  <2>1. \A i, j \in 1..Len(jobs') : i # j => Parts(jobs'[i]) \cap Parts(jobs'[j]) = {}
    <3>1. \A i \in 1..Len(jobs) : Parts(jobs[i]) \cap Parts(x) = {}
      BY <1>3 DEF TypedInv, Apart
    <3>2. \A i, j \in 1..Len(jobs) : i # j => Parts(jobs[i]) \cap Parts(jobs[j]) = {}
      BY DEF TypedInv, Apart
    <3> SUFFICES ASSUME NEW i \in 1..Len(jobs'), NEW j \in 1..Len(jobs'), i # j
                 PROVE  Parts(jobs'[i]) \cap Parts(jobs'[j]) = {}
      OBVIOUS
    <3>3. CASE i \in 1..Len(jobs) /\ j \in 1..Len(jobs) BY <1>5, <3>2, <3>3
    <3>4. CASE i \in 1..Len(jobs) /\ jobs'[j] = x BY <1>5, <3>1, <3>4
    <3>5. CASE jobs'[i] = x /\ j \in 1..Len(jobs) BY <1>5, <3>1, <3>5
    <3> QED BY <1>5, <3>3, <3>4, <3>5
  <2>2. \A i \in 1..Len(jobs') : Parts(jobs'[i]) \cap album = {}
    BY <1>3, <1>5 DEF TypedInv, Apart
  <2>3. \A i \in 1..Len(jobs'), v \in running' : Parts(jobs'[i]) \cap v.parts = {}
    BY <1>3, <1>5 DEF TypedInv, Apart
  <2> QED BY <2>1, <2>2, <2>3 DEF TypedInv, Apart
<1>8. Untyped' BY <1>3, <1>5, <1>6 DEF TypedInv, Untyped, Waits, Theirs
<1> QED BY <1>7, <1>8 DEF TypedInv

(* Both parts of the invariant, for a step that asks and closes nothing.   *)
LEMMA KeepsAll ==
  ASSUME IInv, Typing', TypedInv', Moved, budget'.msgs = budget.msgs,
         closes' = closes, closing' = closing \/ closing' = 0,
         \A m \in Msgs : fate'[m] = "asked" => fate[m] = "asked"
  PROVE IInv'
<1>1. Ordered' /\ Newest' BY NewestKept DEF IInv
<1> QED BY <1>1 DEF IInv

(* What the history of fates becomes.                                      *)
LEMMA EndsType ==
  ASSUME fate \in [Msgs -> Fates], NEW M, NEW f \in Fates, Ends(M, f)
  PROVE /\ fate' \in [Msgs -> Fates]
        /\ \A m \in Msgs : fate'[m] = fate[m] \/ (m \in M /\ fate'[m] = f)
BY DEF Ends

(* Sends: the new message is newer than everything known.                  *)
LEMMA SendsKeeps ==
  ASSUME IInv, NEW k \in Asks, NEW who \in Writers, Sends(k, who),
         who = "guest" => k \in GuestAsks
  PROVE IInv'
<1> USE DEF IInv
<1>0. MaxMsgs \in Nat BY RequestsAssumption
<1>1. PICK n : n = MaxMsgs - budget.msgs + 1 OBVIOUS
<1>2. /\ budget.msgs > 0 /\ budget' = [budget EXCEPT !["msgs"] = @ - 1]
      /\ kind' = [kind EXCEPT ![n] = k] /\ from' = [from EXCEPT ![n] = who]
      /\ jobs' = IF Admits(who, k) THEN Put(Message(n)) ELSE jobs
      /\ fate' = [fate EXCEPT ![n] = IF ~Admits(who, k) THEN "ignored" ELSE IF Fits THEN "open" ELSE "dropped"]
      /\ UNCHANGED <<closing, buttons, closes, album, running, typed>>
  BY <1>1 DEF Sends, Spend, closeVars
<1>3. /\ budget' \in [msgs : Nat, presses : Nat] /\ budget'.msgs = budget.msgs - 1
      /\ budget.msgs \in Nat /\ budget.msgs <= MaxMsgs
  <2>1. /\ budget \in [msgs : Nat, presses : Nat] /\ budget.msgs <= MaxMsgs
        /\ budget.msgs - 1 \in Nat
    BY <1>2 DEF Typing
  <2>2. budget' = [msgs |-> budget.msgs - 1, presses |-> budget.presses] BY <1>2, <2>1
  <2> QED BY <2>1, <2>2
<1>4. n \in Msgs /\ n = Sent + 1 /\ Sent' = Sent + 1 /\ Sent \in Nat
  BY <1>0, <1>1, <1>2, <1>3 DEF Msgs, Sent
<1>5. PICK x : x = Message(n) OBVIOUS
<1>6. x \in Job /\ x.job = "message" /\ x.msg = n /\ Parts(x) = {n} BY <1>4, <1>5, MessageJob
<1> HIDE DEF Job
<1>7. /\ jobs' \in Seq(Job) /\ Len(jobs) \in Nat
      /\ \A i \in 1..Len(jobs') :
           \/ i \in 1..Len(jobs) /\ jobs'[i] = jobs[i]
           \/ /\ i = Len(jobs) + 1 /\ i \notin 1..Len(jobs) /\ jobs'[i] = x
              /\ Admits(who, k)
  <2>1. CASE Admits(who, k)
    <3>1. jobs' = Put(x) BY <1>2, <1>5, <2>1
    <3>2. /\ jobs' \in Seq(Job) /\ Len(jobs) \in Nat
          /\ \A i \in 1..Len(jobs) : jobs'[i] = jobs[i]
          /\ \/ Len(jobs') = Len(jobs)
             \/ Len(jobs') = Len(jobs) + 1 /\ jobs'[Len(jobs) + 1] = x
      BY <1>6, <3>1, PutJob DEF Typing
    <3> QED BY <2>1, <3>2
  <2>2. CASE ~Admits(who, k) BY <1>2, <2>2 DEF Typing
  <2> QED BY <2>1, <2>2
<1>8. Typing'
  <2>1. kind' \in [Msgs -> Asks \cup {"none"}] /\ from' \in [Msgs -> Writers]
    BY <1>2, <1>4 DEF Typing
  <2>2. fate' \in [Msgs -> Fates] BY <1>2, <1>4 DEF Typing, Fates
  <2> QED BY <1>0, <1>2, <1>3, <1>7, <2>1, <2>2 DEF Typing
<1>9. \A i \in 1..Len(jobs) : jobs[i] \in Job /\ Parts(jobs[i]) \subseteq Msgs BY JobParts DEF Typing
<1>10. /\ \A i \in 1..Len(jobs) : n \notin Parts(jobs[i])
       /\ n \notin album /\ \A w \in running : n \notin w.parts
       /\ typed[n] = 0 /\ ~(fate[n] = "asked") /\ closes[n] = 0
  <2>1. ~(n <= Sent) BY <1>4
  <2>2. /\ \A i \in 1..Len(jobs) : n \notin Parts(jobs[i])
        /\ n \notin album /\ \A w \in running : n \notin w.parts
    BY <2>1 DEF TypedInv, Untyped, Waits
  <2>3. typed[n] = 0 BY <1>4, <2>1 DEF TypedInv, Untyped, Typing
  <2>4. ~(fate[n] = "asked") /\ closes[n] = 0 BY <1>4, <2>1 DEF Newest, Behind, Typing
  <2> QED BY <2>2, <2>3, <2>4
<1>11. Apart'
  <2>1. \A i, j \in 1..Len(jobs') : i # j => Parts(jobs'[i]) \cap Parts(jobs'[j]) = {}
    <3>1. \A i \in 1..Len(jobs) : Parts(jobs[i]) \cap Parts(x) = {} BY <1>6, <1>10
    <3>2. \A i, j \in 1..Len(jobs) : i # j => Parts(jobs[i]) \cap Parts(jobs[j]) = {}
      BY DEF TypedInv, Apart
    <3> QED BY <1>7, <3>1, <3>2
  <2>2. \A i \in 1..Len(jobs') : /\ Parts(jobs'[i]) \cap album = {}
                                 /\ \A w \in running : Parts(jobs'[i]) \cap w.parts = {}
    BY <1>6, <1>7, <1>10 DEF TypedInv, Apart
  <2> QED BY <1>2, <2>1, <2>2 DEF TypedInv, Apart
<1>12. \A m \in Msgs : m # n => from'[m] = from[m] /\ kind'[m] = kind[m] /\ fate'[m] = fate[m]
  BY <1>2 DEF Typing
<1>13. from'[n] = who /\ kind'[n] = k /\ fate'[n] # "asked" BY <1>2, <1>4 DEF Typing
<1>14. \A m \in Msgs : m # n => (Waits(m) => Waits(m)') /\ (Theirs(m) <=> Theirs(m)')
  BY <1>2, <1>4, <1>12 DEF Waits, Theirs, Msgs
<1>15. Untyped'
  <2>1. \A m \in Msgs : /\ typed'[m] <= (IF from'[m] = "operator" THEN 1 ELSE 0)
                        /\ typed'[m] > 0 => m <= Sent'
    BY <1>2, <1>4, <1>10, <1>12 DEF TypedInv, Untyped, Msgs
  <2>2. \A m \in album : Waits(m)' /\ Theirs(m)'
    BY <1>10, <1>14 DEF TypedInv, Untyped, Typing
  <2>3. \A w \in running : \A m \in w.parts : Waits(m)' /\ (w.what = "download" => Theirs(m)')
    <3>1. \A w \in running : w.parts \subseteq Msgs BY DEF Typing, Work
    <3> QED BY <3>1, <1>10, <1>14 DEF TypedInv, Untyped
  <2>4. /\ Waits(n)' /\ (Admits(who, k) => Theirs(n)' \/ kind'[n] \in General)
    BY <1>2, <1>4, <1>10, <1>13 DEF Waits, Theirs, Admits
  <2>5. \A i \in 1..Len(jobs') : \A m \in Parts(jobs'[i]) :
         /\ Waits(m)'
         /\ jobs'[i].job = "message" => Theirs(m)' \/ kind'[m] \in General
         /\ jobs'[i].job = "result" /\ jobs'[i].what = "download" => Theirs(m)'
    <3> SUFFICES ASSUME NEW i \in 1..Len(jobs'), NEW m \in Parts(jobs'[i])
                 PROVE /\ Waits(m)'
                       /\ jobs'[i].job = "message" => Theirs(m)' \/ kind'[m] \in General
                       /\ jobs'[i].job = "result" /\ jobs'[i].what = "download" => Theirs(m)'
      OBVIOUS
    <3>1. CASE jobs'[i] = x /\ Admits(who, k) BY <1>6, <2>4, <3>1
    <3>2. CASE i \in 1..Len(jobs) /\ jobs'[i] = jobs[i]
      <4>1. m \in Msgs /\ m # n BY <1>9, <1>10, <3>2
      <4> QED BY <1>12, <1>14, <3>2, <4>1 DEF TypedInv, Untyped
    <3> QED BY <1>7, <3>1, <3>2
  <2>6. \A i \in 1..Len(jobs') : jobs'[i].job = "result" => jobs'[i].good \subseteq jobs'[i].parts
    BY <1>6, <1>7 DEF TypedInv, Untyped
  <2> QED BY <1>2, <2>1, <2>2, <2>3, <2>5, <2>6 DEF Untyped
<1>16. \A q \in Msgs : Behind(q) => Behind(q)' BY <1>4, <1>6, <1>7 DEF Behind, Msgs
<1>17. Ordered'
  <2>1. \A i \in 1..Len(jobs) : jobs[i].job = "message" => jobs[i].msg < n
    <3>1. \A i \in 1..Len(jobs) : jobs[i].job = "message" => jobs[i].msg \in Msgs
      BY <1>9, JobParts
    <3> QED BY <1>4, <3>1 DEF Newest, Msgs
  <2> QED BY <1>6, <1>7, <2>1 DEF Ordered
<1>18. Newest'
  <2>1. \A q \in Msgs : closes'[q] <= 1 /\ (closes'[q] > 0 \/ fate'[q] = "asked" => Behind(q)')
    BY <1>2, <1>10, <1>12, <1>13, <1>16 DEF Newest
  <2>2. closing' # 0 => /\ closing' \in Msgs /\ Behind(closing)' /\ closes'[closing'] = 0
                        /\ \A m \in Msgs : fate'[m] = "asked" => m <= closing'
    <3> SUFFICES ASSUME closing' # 0
                 PROVE /\ closing' \in Msgs /\ Behind(closing)' /\ closes'[closing'] = 0
                       /\ \A m \in Msgs : fate'[m] = "asked" => m <= closing'
      OBVIOUS
    <3>1. PICK q : q = closing OBVIOUS
    <3>2. q \in Msgs /\ Behind(q) /\ closing' = q BY <1>2, <3>1 DEF Newest
    <3>3. Behind(q)' BY <1>16, <3>2
    <3>4. Behind(closing)' BY <3>2, <3>3 DEF Behind
    <3> QED BY <1>2, <1>12, <1>13, <3>1, <3>2, <3>4 DEF Newest
  <2>3. \A i \in 1..Len(jobs') : jobs'[i].job = "message" => jobs'[i].msg <= Sent'
    <3>1. \A i \in 1..Len(jobs) : jobs[i].job = "message" => jobs[i].msg \in Msgs
      BY <1>9, JobParts
    <3> QED BY <1>4, <1>6, <1>7, <3>1 DEF Newest, Msgs
  <2> QED BY <2>1, <2>2, <2>3 DEF Newest
<1> QED BY <1>8, <1>11, <1>15, <1>17, <1>18 DEF TypedInv

-----------------------------------------------------------------------------
(* What the bridge knows of the message it takes.                          *)
LEMMA TakenMessage ==
  ASSUME IInv, NEW m, NEW K, TakesMsg(m, K)
  PROVE /\ jobs # <<>> /\ jobs' = Tail(jobs) /\ m \in Msgs /\ Parts(Head(jobs)) = {m}
        /\ kind[m] \in K /\ (Theirs(m) \/ kind[m] \in General)
        /\ 1 \in 1..Len(jobs) /\ jobs[1].job = "message" /\ jobs[1].msg = m
<1>1. /\ jobs # <<>> /\ jobs' = Tail(jobs) /\ Head(jobs) = Message(m) /\ kind[m] \in K
  BY DEF TakesMsg
<1>2. 1 \in 1..Len(jobs) /\ Head(jobs) = jobs[1] /\ jobs[1] \in Job
  BY <1>1, TailJob DEF IInv, Typing
<1>3. jobs[1].job = "message" /\ jobs[1].msg = m BY <1>1, <1>2 DEF Message
<1>4. m \in Msgs /\ Parts(jobs[1]) = {m} BY <1>2, <1>3, JobParts
<1>5. Theirs(m) \/ kind[m] \in General BY <1>2, <1>3, <1>4 DEF IInv, TypedInv, Untyped
<1> QED BY <1>1, <1>2, <1>3, <1>4, <1>5

(* What the bridge knows of the result it takes.                           *)
LEMMA TakenResult ==
  ASSUME IInv, NEW w, NEW good, Takes(Result(w, good))
  PROVE /\ jobs # <<>> /\ jobs' = Tail(jobs) /\ Parts(Head(jobs)) = w.parts
        /\ good \subseteq w.parts /\ w.parts \subseteq Msgs
        /\ w.what = "download" => \A m \in w.parts : Theirs(m)
<1>1. /\ jobs # <<>> /\ jobs' = Tail(jobs) /\ Head(jobs) = Result(w, good)
  BY DEF Takes
<1>2. 1 \in 1..Len(jobs) /\ Head(jobs) = jobs[1] /\ jobs[1] \in Job
  BY <1>1, TailJob DEF IInv, Typing
<1>3. /\ jobs[1].job = "result" /\ jobs[1].parts = w.parts /\ jobs[1].what = w.what
      /\ jobs[1].good = good
  BY <1>1, <1>2 DEF Result
<1>4. Parts(jobs[1]) = w.parts /\ w.parts \subseteq Msgs BY <1>2, <1>3, JobParts
<1> HIDE DEF Job
<1> QED BY <1>1, <1>2, <1>3, <1>4 DEF IInv, TypedInv, Untyped

(* A step that takes a job, answers it and may type parts of it.           *)
LEMMA TakenKeeps ==
  ASSUME IInv, jobs # <<>>, jobs' = Tail(jobs), TypesFrom(Parts(Head(jobs))),
         UNCHANGED <<closes, buttons, album, running, from, kind, budget>>,
         closing' = closing \/ closing' = 0, fate' \in [Msgs -> Fates],
         \A m \in Msgs : fate'[m] = "asked" => fate[m] = "asked"
  PROVE IInv'
<1>1. TypedInv' BY TakenTyped DEF IInv
<1>2. jobs' \in Seq(Job) BY TailJob DEF IInv, Typing
<1>3. Typing' BY <1>2 DEF IInv, Typing, TypesFrom
<1> QED BY <1>1, <1>3, KeepsAll DEF Moved

(* Typing in what the bridge took.                                         *)
LEMMA TypesTaken ==
  ASSUME Typing, NEW M, NEW N, M \subseteq N, \A m \in M : m \in Msgs => Theirs(m), NEW o, Types(M, o)
  PROVE TypesFrom(N)
BY DEF Typing, Types, TypesFrom

\* A step that types nothing and leaves the parts where they are.
LEMMA NothingTyped ==
  ASSUME Typing, typed' = typed, NEW N
  PROVE TypesFrom(N)
BY DEF Typing, TypesFrom

(* A message that is refused, typed, forwarded or answered.                *)
LEMMA AnswerKeeps ==
  ASSUME IInv, NEW m, NEW K, TakesMsg(m, K),
         NEW M, NEW f \in Fates, f # "asked", Ends(M, f),
         NEW N, NEW o, N \subseteq {m}, K \cap General = {} \/ N = {},
         typed' = typed \/ Types(N, o),
         UNCHANGED <<closing, closes, buttons, album, running, from, kind, budget>>
  PROVE IInv'
<1>1. /\ jobs # <<>> /\ jobs' = Tail(jobs) /\ Parts(Head(jobs)) = {m}
      /\ kind[m] \in K /\ (Theirs(m) \/ kind[m] \in General)
  BY TakenMessage
<1>2. \A n \in N : Theirs(n) BY <1>1
<1>3. TypesFrom({m}) BY <1>2, TypesTaken, NothingTyped DEF IInv
<1>4. /\ fate' \in [Msgs -> Fates]
      /\ \A n \in Msgs : fate'[n] = "asked" => fate[n] = "asked"
  BY EndsType DEF IInv, Typing
<1> QED BY <1>1, <1>3, <1>4, TakenKeeps

\* A message that is answered in the chat.
LEMMA ReplyKeeps ==
  ASSUME IInv, NEW m, NEW K, TakesMsg(m, K), NEW f \in Fates, f # "asked", Ends({m}, f),
         UNCHANGED <<typed, closing, closes, buttons, album, running, from, kind, budget>>
  PROVE IInv'
<1>1. PICK N : N = {} OBVIOUS
<1>2. N \subseteq {m} /\ (K \cap General = {} \/ N = {}) BY <1>1
<1> QED BY <1>2, AnswerKeeps

(* Each answer to a message is one of those.                               *)
LEMMA AnswersKeep ==
  ASSUME IInv, NEW m,
         \/ Refuses(m) \/ GitCommand(m) \/ Status(m) \/ Drops(m)
         \/ \E saved \in BOOLEAN : ChangeObserver(m, saved)
         \/ \E o \in Outcomes : Prompts(m, o)
         \/ \E busy \in BOOLEAN, o \in Outcomes : Forward(m, busy, o)
  PROVE IInv'
<1>1. "replied" \in Fates /\ "typed" \in Fates /\ "ignored" \in Fates /\ "replaced" \in Fates
  BY DEF Fates
<1>2. CASE Refuses(m) BY <1>1, <1>2, ReplyKeeps DEF Refuses, closeVars
<1>3. CASE GitCommand(m) BY <1>1, <1>3, ReplyKeeps DEF GitCommand, closeVars
<1>4. CASE Status(m) BY <1>1, <1>4, ReplyKeeps DEF Status, closeVars
<1>5. CASE Drops(m) BY <1>1, <1>5, ReplyKeeps DEF Drops, closeVars
<1>6. CASE \E saved \in BOOLEAN : ChangeObserver(m, saved)
  BY <1>1, <1>6, ReplyKeeps DEF ChangeObserver, closeVars
<1>7. CASE \E o \in Outcomes : Prompts(m, o)
  <2>1. PICK o \in Outcomes : Prompts(m, o) BY <1>7
  <2>2. PICK f : f = IF Answered(o) THEN "typed" ELSE "replied" OBVIOUS
  <2>3. {"prompt"} \cap General = {} BY DEF General
  <2>4. /\ TakesMsg(m, {"prompt"}) /\ Types({m}, o) /\ Ends({m}, f)
        /\ UNCHANGED <<closing, closes, buttons, album, running, from, kind, budget>>
    BY <2>1, <2>2 DEF Prompts, closeVars
  <2>5. f \in Fates /\ f # "asked" BY <1>1, <2>2
  <2> QED BY <2>3, <2>4, <2>5, AnswerKeeps
<1>8. CASE \E busy \in BOOLEAN, o \in Outcomes : Forward(m, busy, o)
  <2>1. PICK busy \in BOOLEAN, o \in Outcomes : Forward(m, busy, o) BY <1>8
  <2>2. PICK f : f = IF ~busy /\ Answered(o) /\ Follows(m) THEN "replaced"
                     ELSE IF ~busy /\ Answered(o) THEN "typed" ELSE "replied"
    OBVIOUS
  <2>3. PICK M : M = IF ~busy /\ Answered(o) /\ Follows(m) THEN {pending} \ {0} ELSE {m} OBVIOUS
  <2>4. PICK N : N = IF busy THEN {} ELSE {m} OBVIOUS
  <2>5. Forwarded \cap General = {} BY DEF General, Forwarded
  <2>6. /\ TakesMsg(m, Forwarded) /\ Types(N, o) /\ Ends(M, f)
        /\ UNCHANGED <<closing, closes, buttons, album, running, from, kind, budget>>
    BY <2>1, <2>2, <2>3, <2>4 DEF Forward, closeVars
  <2>7. f \in Fates /\ f # "asked" /\ N \subseteq {m} BY <1>1, <2>2, <2>4
  <2> QED BY <2>5, <2>6, <2>7, AnswerKeeps
<1> QED BY <1>2, <1>3, <1>4, <1>5, <1>6, <1>7, <1>8

(* Results of downloads and starts.                                        *)
LEMMA ResultsKeep ==
  ASSUME IInv, NEW w, NEW good,
         StartFinished(w, good) \/ \E o \in Outcomes : InboxFinished(w, good, o)
  PROVE IInv'
<1>1. /\ Takes(Result(w, good))
      /\ typed' = typed \/ (w.what = "download" /\ \E o \in Outcomes : Types(good, o))
      /\ UNCHANGED <<closing, closes, buttons, album, running, from, kind, budget>>
      /\ \/ Ends(w.parts, "replied")
         \/ fate' = [m \in Msgs |-> IF m \in good THEN "typed" ELSE IF m \in w.parts THEN "replied" ELSE fate[m]]
  BY DEF StartFinished, InboxFinished, closeVars
<1>2. /\ jobs # <<>> /\ jobs' = Tail(jobs) /\ Parts(Head(jobs)) = w.parts
      /\ good \subseteq w.parts
      /\ w.what = "download" => \A m \in w.parts : Theirs(m)
  BY <1>1, TakenResult
<1>3. TypesFrom(w.parts) BY <1>1, <1>2, TypesTaken, NothingTyped DEF IInv
<1>4. /\ fate' \in [Msgs -> Fates]
      /\ \A n \in Msgs : fate'[n] = "asked" => fate[n] = "asked"
  <2>1. "replied" \in Fates /\ "typed" \in Fates BY DEF Fates
  <2>2. CASE Ends(w.parts, "replied") BY <2>1, <2>2, EndsType DEF IInv, Typing
  <2>3. CASE fate' = [m \in Msgs |-> IF m \in good THEN "typed" ELSE IF m \in w.parts THEN "replied" ELSE fate[m]]
    BY <2>1, <2>3 DEF IInv, Typing
  <2> QED BY <1>1, <2>2, <2>3
<1> QED BY <1>1, <1>2, <1>3, <1>4, TakenKeeps

(* The agent's exit drops its question.                                    *)
LEMMA ForgetKeeps == ASSUME IInv, Forget PROVE IInv'
<1>1. /\ jobs # <<>> /\ jobs' = Tail(jobs) /\ closing' = 0
      /\ UNCHANGED <<closes, buttons, album, running, from, kind, typed, fate, budget>>
  BY DEF Forget, Takes
<1>2. TypesFrom(Parts(Head(jobs))) BY <1>1, NothingTyped DEF IInv
<1> QED BY <1>1, <1>2, TakenKeeps DEF IInv, Typing

(* The /close question: the message taken is newer than every question.    *)
LEMMA AskCloseKeeps ==
  ASSUME IInv, NEW m, NEW edited \in BOOLEAN, NEW sent \in BOOLEAN, AskClose(m, edited, sent)
  PROVE IInv'
<1>1. /\ TakesMsg(m, {"close"})
      /\ buttons' \subseteq buttons \cup {m}
      /\ closing' = IF sent THEN m ELSE 0
      /\ Ends({m}, IF sent THEN "asked" ELSE "lost")
      /\ UNCHANGED <<closes, album, running, from, kind, typed, budget>>
  BY DEF AskClose
<1>2. /\ jobs # <<>> /\ jobs' = Tail(jobs) /\ m \in Msgs
      /\ 1 \in 1..Len(jobs) /\ jobs[1].job = "message" /\ jobs[1].msg = m
  BY <1>1, TakenMessage
<1>3. /\ fate' \in [Msgs -> Fates]
      /\ \A n \in Msgs : fate'[n] = "asked" => fate[n] = "asked" \/ (sent /\ n = m)
  BY <1>1, EndsType DEF IInv, Typing, Fates
<1>4. /\ jobs' \in Seq(Job) /\ Ordered'
      /\ \A q \in Msgs : Behind(q) => Behind(q)'
      /\ \A i \in 1..Len(jobs') : jobs'[i].job = "message" => jobs'[i].msg <= Sent'
  BY <1>1, <1>2, MovedKeeps DEF IInv, Moved
<1> HIDE DEF Job
<1>5. Typing' BY <1>1, <1>2, <1>3, <1>4 DEF IInv, Typing
<1>6. TypedInv' BY <1>1, <1>2, TakenTyped, NothingTyped DEF IInv
<1>7. Behind(m)'
  <2>1. /\ Len(jobs) \in Nat /\ Len(jobs') = Len(jobs) - 1
        /\ \A i \in 1..Len(jobs') : i + 1 \in 1..Len(jobs) /\ jobs'[i] = jobs[i + 1]
    BY <1>2, TailJob DEF IInv, Typing
  <2>2. \A i \in 1..Len(jobs') : 1 < i + 1 BY <2>1
  <2>3. m <= Sent' BY <1>1, <1>2 DEF IInv, Newest, Sent
  <2> QED BY <1>2, <2>1, <2>2, <2>3 DEF IInv, Ordered, Behind
<1>8. closes[m] = 0 /\ \A q \in Msgs : fate[q] = "asked" => q < m
  <2>1. /\ closes \in [Msgs -> Nat] /\ m \in Msgs /\ ~Behind(m)
        /\ \A q \in Msgs : Behind(q) => q < m
    BY <1>2 DEF IInv, Typing, Behind, Msgs
  <2>2. \A q \in Msgs : closes[q] > 0 \/ fate[q] = "asked" => Behind(q)
    BY DEF IInv, Newest
  <2> QED BY <2>1, <2>2
<1>9. Newest'
  <2>1. \A q \in Msgs : closes'[q] <= 1 /\ (closes'[q] > 0 \/ fate'[q] = "asked" => Behind(q)')
    BY <1>1, <1>3, <1>4, <1>7 DEF IInv, Newest
  <2>2. closing' # 0 => closing' = m /\ sent BY <1>1
  <2>3. closing' = m => Behind(closing)' BY <1>7 DEF Behind
  <2>4. \A q \in Msgs : sent /\ fate'[q] = "asked" => q <= m BY <1>2, <1>3, <1>8 DEF Msgs
  <2> QED BY <1>1, <1>2, <1>4, <1>8, <2>1, <2>2, <2>3, <2>4 DEF Newest
<1> QED BY <1>4, <1>5, <1>6, <1>9 DEF IInv

(* A press of a button acts once, on the newest question.                  *)
LEMMA PressCloseKeeps ==
  ASSUME IInv, NEW q, NEW y \in BOOLEAN, NEW o \in Outcomes, NEW edited \in BOOLEAN,
         PressClose(q, y, o, edited)
  PROVE IInv'
<1>1. /\ jobs # <<>> /\ jobs' = Tail(jobs)
      /\ buttons' \subseteq buttons
      /\ \/ closes' = closes /\ closing' = closing
         \/ closing' = 0 /\ (closes' = closes \/ (q = closing /\ closes' = [closes EXCEPT ![q] = @ + 1]))
      /\ UNCHANGED <<album, running, from, kind, typed, fate, budget>>
  BY DEF PressClose, Takes, closeVars
<1>2. TypedInv' BY <1>1, TakenTyped, NothingTyped DEF IInv
<1>3. /\ jobs' \in Seq(Job) /\ Ordered'
      /\ \A p \in Msgs : Behind(p) => Behind(p)'
      /\ \A i \in 1..Len(jobs') : jobs'[i].job = "message" => jobs'[i].msg <= Sent'
  BY <1>1, MovedKeeps DEF IInv, Moved
<1>4. CASE closes' = closes
  <2>1. Typing' BY <1>1, <1>3, <1>4 DEF IInv, Typing
  <2> QED BY <1>1, <1>2, <1>4, <2>1, KeepsAll DEF Moved
<1>5. CASE /\ closing' = 0 /\ q = closing /\ closes' = [closes EXCEPT ![q] = @ + 1]
  <2>1. CASE closing \in Msgs
    <3>1. closes[q] = 0 /\ Behind(q) /\ q \in Msgs
      <4>1. closing # 0 BY <2>1 DEF Msgs
      <4> QED BY <1>5, <2>1, <4>1 DEF IInv, Newest, Behind
    <3>2. /\ closes' \in [Msgs -> Nat] /\ closes'[q] = 1
          /\ \A p \in Msgs : p # q => closes'[p] = closes[p]
      BY <1>5, <3>1 DEF IInv, Typing
    <3>3. Typing' BY <1>1, <1>3, <3>2 DEF IInv, Typing
    <3>4. Newest' BY <1>1, <1>3, <1>5, <3>1, <3>2 DEF IInv, Newest
    <3> QED BY <1>2, <1>3, <3>3, <3>4 DEF IInv
  <2>2. CASE closing \notin Msgs
    <3>1. closes' = closes BY <1>5, <2>2 DEF IInv, Typing
    <3> QED BY <1>4, <3>1
  <2> QED BY <2>1, <2>2
<1> QED BY <1>1, <1>4, <1>5

(* Attachments and /new move a message from its job into the album or a    *)
(* background run, or answer it.                                           *)
LEMMA AttachmentKeeps ==
  ASSUME IInv, NEW m, NEW accepted \in BOOLEAN, HandleAttachment(m, accepted)
  PROVE IInv'
<1>1. /\ TakesMsg(m, {"file", "part"})
      /\ UNCHANGED <<closing, buttons, closes, from, kind, typed, budget>>
  BY DEF HandleAttachment, closeVars
<1>2. /\ jobs # <<>> /\ jobs' = Tail(jobs) /\ m \in Msgs /\ Parts(Head(jobs)) = {m}
      /\ kind[m] \in {"file", "part"} /\ (Theirs(m) \/ kind[m] \in General)
  BY <1>1, TakenMessage
<1>3. Theirs(m) BY <1>2 DEF General
<1>4. jobs' \in Seq(Job) BY <1>2, TailJob DEF IInv, Typing
<1> HIDE DEF Job
<1>5. CASE Ends({m}, "replied") /\ UNCHANGED <<running, album>>
  <2>1. "replied" \in Fates /\ "replied" # "asked" BY DEF Fates
  <2> QED BY <1>1, <1>5, <2>1, ReplyKeeps
<1>6. CASE running' = running \cup {Download({m})} /\ UNCHANGED <<fate, album>>
  <2>1. PICK w : w = Download({m}) OBVIOUS
  <2>2. w \in Work /\ w.parts = {m} BY <1>2, <2>1 DEF Download, Work
  <2>3. TypedInv' BY <1>1, <1>2, <1>3, <1>6, <2>1, <2>2, JobToRun DEF IInv
  <2>4. Typing' BY <1>1, <1>4, <1>6, <2>1, <2>2 DEF IInv, Typing
  <2> QED BY <1>1, <1>2, <1>6, <2>3, <2>4, KeepsAll DEF Moved
<1>7. CASE album' = album \cup {m} /\ UNCHANGED <<fate, running>>
  <2>1. TypedInv' BY <1>1, <1>2, <1>3, <1>7, JobToAlbum DEF IInv
  <2>2. Typing' BY <1>1, <1>2, <1>4, <1>7 DEF IInv, Typing
  <2> QED BY <1>1, <1>2, <1>7, <2>1, <2>2, KeepsAll DEF Moved
<1> QED BY <1>5, <1>6, <1>7 DEF HandleAttachment

\* A message that starts a background run.
LEMMA StartKeeps ==
  ASSUME IInv, NEW m, NEW tab \in BOOLEAN, StartAgent(m, tab)
  PROVE IInv'
<1>1. /\ TakesMsg(m, {"new"})
      /\ UNCHANGED <<closing, buttons, closes, album, from, kind, typed, budget>>
  BY DEF StartAgent, closeVars
<1>2. /\ jobs # <<>> /\ jobs' = Tail(jobs) /\ m \in Msgs /\ Parts(Head(jobs)) = {m}
  BY <1>1, TakenMessage
<1>3. jobs' \in Seq(Job) BY <1>2, TailJob DEF IInv, Typing
<1> HIDE DEF Job
<1>4. CASE Ends({m}, "replied") /\ UNCHANGED running
  <2>1. "replied" \in Fates /\ "replied" # "asked" BY DEF Fates
  <2> QED BY <1>1, <1>4, <2>1, ReplyKeeps
<1>5. CASE running' = running \cup {[what |-> "start", parts |-> {m}]} /\ UNCHANGED fate
  <2>1. PICK w : w = [what |-> "start", parts |-> {m}] OBVIOUS
  <2>2. w \in Work /\ w.parts = {m} /\ w.what # "download" BY <1>2, <2>1 DEF Work
  <2>3. TypedInv' BY <1>1, <1>2, <1>5, <2>1, <2>2, JobToRun DEF IInv
  <2>4. Typing' BY <1>1, <1>3, <1>5, <2>1, <2>2 DEF IInv, Typing
  <2> QED BY <1>1, <1>2, <1>5, <2>3, <2>4, KeepsAll DEF Moved
<1> QED BY <1>4, <1>5 DEF StartAgent

(* The settled album, and a background run that ends.                      *)
LEMMA AlbumKeeps == ASSUME IInv, FireAlbum PROVE IInv'
<1>1. /\ album' = {} /\ running' = IF album = {} THEN running ELSE running \cup {Download(album)}
      /\ UNCHANGED <<jobs, closing, buttons, closes, from, kind, typed, fate, budget>>
  BY DEF FireAlbum, closeVars
<1>2. TypedInv' BY <1>1, AlbumToRun DEF IInv
<1>3. Download(album) \in Work BY DEF IInv, Typing, Download, Work
<1>4. Typing' BY <1>1, <1>3 DEF IInv, Typing
<1> QED BY <1>1, <1>2, <1>4, KeepsAll DEF Moved

\* A background run ends and its result is queued, or dropped when the queue is full.
LEMMA FinishesKeeps ==
  ASSUME IInv, NEW w \in running, NEW good \in SUBSET w.parts, Finishes(w, good)
  PROVE IInv'
<1>1. /\ running' = running \ {w} /\ jobs' = Put(Result(w, good))
      /\ Ends(IF Fits THEN {} ELSE w.parts, "dropped")
      /\ UNCHANGED <<closing, buttons, closes, album, from, kind, typed, budget>>
  BY DEF Finishes, closeVars
<1>2. TypedInv' BY <1>1, RunToJob DEF IInv
<1>3. w \in Work BY DEF IInv, Typing
<1>4. Result(w, good) \in Job /\ Result(w, good).job # "message" BY <1>3, ResultJob
<1>5. jobs' \in Seq(Job) BY <1>1, <1>4, PutJob DEF IInv, Typing
<1>6. "dropped" \in Fates /\ "dropped" # "asked" BY DEF Fates
<1>7. /\ fate' \in [Msgs -> Fates]
      /\ \A n \in Msgs : fate'[n] = "asked" => fate[n] = "asked"
  BY <1>1, <1>6, EndsType DEF IInv, Typing
<1> HIDE DEF Job
<1>8. Typing' BY <1>1, <1>5, <1>7 DEF IInv, Typing
<1> QED BY <1>1, <1>2, <1>4, <1>7, <1>8, KeepsAll DEF Moved

(* Everything else moves nothing that waits.                               *)
LEMMA FireKeeps == ASSUME IInv, Fire PROVE IInv'
<1>1. UNCHANGED <<jobs, closing, buttons, closes, album, running, from, kind, typed, budget>>
  BY DEF Fire, closeVars
<1>2. /\ fate' \in [Msgs -> Fates]
      /\ \A n \in Msgs : fate'[n] = "asked" => fate[n] = "asked"
  <2>1. PICK f : f = IF seen = "live" THEN "posted" ELSE "skipped" OBVIOUS
  <2>2. f \in Fates /\ f # "asked" BY <2>1 DEF Fates
  <2>3. fate' = fate \/ Ends({pending}, f) BY <2>1 DEF Fire
  <2> QED BY <2>2, <2>3, EndsType DEF IInv, Typing
<1>3. TypedInv' BY <1>1, StillTyped DEF IInv
<1>4. Typing' BY <1>1, <1>2 DEF IInv, Typing
<1> QED BY <1>1, <1>2, <1>3, <1>4, KeepsAll DEF Moved

\* A stuttering step.
LEMMA StillKeeps ==
  ASSUME IInv, UNCHANGED <<jobs, closeVars, album, running, from, kind, typed, fate, budget>>
  PROVE IInv'
<1>1. TypedInv' BY StillTyped DEF IInv
<1>2. Typing' BY DEF IInv, Typing, closeVars
<1> QED BY <1>1, <1>2, KeepsAll DEF Moved, closeVars

\* A press of a /close question is queued.
LEMMA PressesKeeps ==
  ASSUME IInv, NEW q \in buttons, NEW y \in BOOLEAN, Presses(q, y)
  PROVE IInv'
<1>1. /\ budget' = [budget EXCEPT !["presses"] = @ - 1] /\ budget["presses"] > 0
      /\ jobs' = Put(Press(q, y))
      /\ UNCHANGED <<closing, buttons, closes, album, running, from, kind, typed, fate>>
  BY DEF Presses, Spend, closeVars
<1>2. budget' \in [msgs : Nat, presses : Nat] /\ budget'.msgs = budget.msgs
  <2>1. budget \in [msgs : Nat, presses : Nat] /\ budget.presses - 1 \in Nat
    BY <1>1 DEF IInv, Typing
  <2>2. budget' = [msgs |-> budget.msgs, presses |-> budget.presses - 1] BY <1>1, <2>1
  <2> QED BY <2>1, <2>2
<1>3. q \in Msgs BY DEF IInv, Typing
<1>4. /\ Press(q, y) \in Job /\ Press(q, y).job = "press" /\ Parts(Press(q, y)) = {}
  BY <1>3, PressJob
<1>5. jobs' \in Seq(Job) BY <1>1, <1>4, PutJob DEF IInv, Typing
<1>6. TypedInv' BY <1>1, <1>2, <1>4, PutTyped DEF IInv
<1> HIDE DEF Job
<1>7. Typing' BY <1>1, <1>2, <1>5 DEF IInv, Typing
<1> QED BY <1>1, <1>2, <1>4, <1>6, <1>7, KeepsAll DEF Moved

\* The agent or its pane goes, and the bridge is told.
LEMMA LeavesKeeps == ASSUME IInv, Leaves PROVE IInv'
<1>1. UNCHANGED <<closing, buttons, closes, album, running, from, kind, typed, fate, budget>>
  BY DEF Leaves, closeVars
<1>2. CASE jobs' = jobs BY <1>1, <1>2, StillKeeps DEF closeVars
<1>3. CASE jobs' = Put(Gone)
  <2>1. jobs' \in Seq(Job) BY <1>3, GoneJob, PutJob DEF IInv, Typing
  <2>2. TypedInv' BY <1>1, <1>3, GoneJob, PutTyped DEF IInv
  <2> HIDE DEF Job
  <2>3. Typing' BY <1>1, <2>1 DEF IInv, Typing
  <2> QED BY <1>1, <1>3, <2>2, <2>3, GoneJob, KeepsAll DEF Moved
<1> QED BY <1>2, <1>3 DEF Leaves

-----------------------------------------------------------------------------
(* Every step keeps the inductive invariant.                               *)
LEMMA HandlesKeep == ASSUME IInv, Handles PROVE IInv'
<1>1. CASE Fire BY <1>1, FireKeeps
<1>2. CASE FireAlbum BY <1>2, AlbumKeeps
<1>3. CASE FireSubmit BY <1>3, StillKeeps DEF FireSubmit
<1>4. CASE Forget BY <1>4, ForgetKeeps
<1>5. ASSUME NEW j \in NextJob,
             \/ Refuses(j.msg) \/ GitCommand(j.msg) \/ Status(j.msg) \/ Drops(j.msg)
             \/ \E saved \in BOOLEAN : ChangeObserver(j.msg, saved)
             \/ \E busy \in BOOLEAN, o \in Outcomes : Forward(j.msg, busy, o)
             \/ \E o \in Outcomes : Prompts(j.msg, o)
             \/ \E edited, sent \in BOOLEAN : AskClose(j.msg, edited, sent)
             \/ \E ok \in BOOLEAN : HandleAttachment(j.msg, ok) \/ StartAgent(j.msg, ok)
      PROVE IInv'
  BY <1>5, AnswersKeep, AskCloseKeeps, AttachmentKeeps, StartKeeps
<1>6. ASSUME NEW j \in NextJob, j.job = "press",
             \E o \in Outcomes, edited \in BOOLEAN : PressClose(j.msg, j.yes, o, edited)
      PROVE IInv'
  <2>1. jobs # <<>> /\ j = Head(jobs) BY DEF NextJob
  <2>2. j \in Job BY <2>1, TailJob DEF IInv, Typing
  <2>3. j.yes \in BOOLEAN BY <1>6, <2>2 DEF Job, Gone
  <2> QED BY <1>6, <2>3, PressCloseKeeps
<1>7. ASSUME NEW j \in NextJob,
             StartFinished(j, j.good) \/ \E o \in Outcomes : InboxFinished(j, j.good, o)
      PROVE IInv'
  BY <1>7, ResultsKeep
<1> QED BY <1>1, <1>2, <1>3, <1>4, <1>5, <1>6, <1>7 DEF Handles

\* Every step keeps the invariant.
LEMMA StepKeeps == ASSUME IInv, [Next]_vars PROVE IInv'
<1>1. CASE Operators
  BY <1>1, SendsKeeps, PressesKeeps DEF Operators, Writers, GuestAsks, Asks, General
<1>2. CASE Leaves BY <1>2, LeavesKeeps
<1>3. CASE Handles BY <1>3, HandlesKeep
<1>4. CASE \E t \in Timers : TimerFires(t) BY <1>4, StillKeeps DEF TimerFires
<1>5. CASE \E w \in running : \E good \in SUBSET w.parts : Finishes(w, good)
  BY <1>5, FinishesKeeps
<1>6. CASE UNCHANGED vars BY <1>6, StillKeeps DEF vars
<1> QED BY <1>1, <1>2, <1>3, <1>4, <1>5, <1>6 DEF Next

\* It holds at first.
LEMMA InitHolds == ASSUME Init PROVE IInv
<1>0. MaxMsgs \in Nat /\ MaxPresses \in Nat BY RequestsAssumption
<1>1. /\ jobs = <<>> /\ closing = 0 /\ buttons = {} /\ closes = [m \in Msgs |-> 0]
      /\ album = {} /\ running = {} /\ kind = [m \in Msgs |-> "none"]
      /\ from = [m \in Msgs |-> "operator"] /\ typed = [m \in Msgs |-> 0]
      /\ fate = [m \in Msgs |-> "unsent"]
      /\ budget = [msgs |-> MaxMsgs, presses |-> MaxPresses]
  BY Zenon DEF Init
<1>2. jobs \in Seq(Job) /\ Len(jobs) = 0 /\ \A i \in 1..Len(jobs) : FALSE
  <2> HIDE DEF Job
  <2> QED BY <1>1
<1> HIDE DEF Job
<1>3. Typing BY <1>0, <1>1, <1>2 DEF Typing, Writers, Fates
<1>4. TypedInv BY <1>1, <1>2 DEF TypedInv, Apart, Untyped
<1>5. Ordered BY <1>2 DEF Ordered
<1>6. Newest BY <1>1, <1>2 DEF Newest
<1> QED BY <1>3, <1>4, <1>5, <1>6 DEF IInv

\* It is an invariant of the specification.
LEMMA SpecIInv == Spec => []IInv
<1>1. Init => IInv BY InitHolds
<1>2. IInv /\ [Next]_vars => IInv' BY StepKeeps
<1> QED BY <1>1, <1>2, PTL DEF Spec

(* Only what an operator wrote reaches the agent's terminal, and it and    *)
(* every file of an album at most once, whichever calls fail or lose their *)
(* answers and however late parts and downloads come (callOnce, fireAlbum, *)
(* InboxFinished).                                                         *)
THEOREM SpecTypedOnce == Spec => []TypedOnce
<1>1. IInv => TypedOnce BY DEF IInv, TypedInv, Untyped, TypedOnce
<1> QED BY <1>1, SpecIInv, PTL

(* A pane is closed by one Yes on the newest /close question: the question *)
(* is forgotten before the call, so that a second press that waits in the  *)
(* buffer finds another one or none (askClose, PressClose, Forget).        *)
THEOREM SpecClosesOnce == Spec => []ClosesOnce
<1>1. IInv => ClosesOnce BY DEF IInv, Newest, ClosesOnce
<1> QED BY <1>1, SpecIInv, PTL
=============================================================================
