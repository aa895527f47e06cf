------------------------------ MODULE Lifecycle ------------------------------
(***************************************************************************)
(* Daemon processes and the actions that start and stop them: the pid file *)
(* (state/pidfile.go), the control socket (system/control.go and           *)
(* control_unix.go), signals (system/process_unix.go), the supervisor      *)
(* behind the start, stop, restart and resync actions and the startup hook *)
(* (app/supervisor.go, cli/action.go, cli/startup.go), and the frame of    *)
(* the daemon process (cli/daemon.go).  Several actions may run at once,   *)
(* each in a process of its own.  What a serving daemon keeps in its files *)
(* is module Settings.                                                     *)
(***************************************************************************)
EXTENDS Settings

CONSTANTS
  Actors,     \* the processes that run an action
  Wishes      \* the actions they may be asked for

ASSUME WishesAssumption == Wishes \subseteq {"start", "stop", "restart", "resync"}

VARIABLES
  pc,       \* where each daemon process is
  tries,    \* Acquire: how often it has tried to create the file
  asked,    \* the processes that were asked to stop
  pidfile,  \* None, or the file: who made it and whether its pid is written
  sock,     \* the process that listens on the control socket, 0 for none
  act,      \* per actor: what it does and where it is
  crashed   \* history: a daemon was killed by SIGHUP or failed on its own

lifeVars == <<pc, tries, asked, pidfile, sock, act, crashed>>
daemonVars == <<settingsVars, lifeVars>>

None == [by |-> 0, filled |-> FALSE]
Stale == [by |-> 0, filled |-> TRUE]   \* left by a process that is long gone

Alive(p) == p # 0 /\ pc[p] \notin {"unborn", "dead"}
Idle == [wish |-> "none", at |-> "idle", pid |-> 0]

LifeInit ==
  /\ SettingsInit
  /\ pc = [p \in Pids |-> "unborn"] /\ tries = [p \in Pids |-> 0] /\ asked = {}
  /\ pidfile \in {None, Stale} /\ sock = 0
  /\ act = [a \in Actors |-> Idle] /\ crashed = FALSE

Fails == left > 0 /\ left' = left - 1 /\ crashed' = TRUE
Goes(p, to) == pc' = [pc EXCEPT ![p] = to]

-----------------------------------------------------------------------------
(* A daemon process, from its config to its pid file.  create opens the    *)
(* file exclusively and writes the pid into it with a second call.         *)

Boots(p) ==
  /\ pc[p] = "born" /\ Goes(p, "create")
  /\ UNCHANGED <<settingsVars, tries, asked, pidfile, sock, act, crashed>>

Creates(p) ==
  /\ pc[p] = "create" /\ tries' = [tries EXCEPT ![p] = @ + 1]
  /\ IF pidfile = None
       THEN pidfile' = [by |-> p, filled |-> FALSE] /\ Goes(p, "write")
       ELSE Goes(p, "read") /\ UNCHANGED pidfile
  /\ UNCHANGED <<settingsVars, asked, sock, act, crashed>>

(* The pid goes into the file that was opened, which may be unlinked by    *)
(* now.                                                                    *)
WritesPid(p) ==
  /\ pc[p] = "write" /\ Goes(p, "build")
  /\ pidfile' = IF pidfile.by = p THEN [pidfile EXCEPT !.filled = TRUE] ELSE pidfile
  /\ UNCHANGED <<settingsVars, tries, asked, sock, act, crashed>>

(* Mutant: a file that is there is taken for a running daemon.             *)
ReadsTrusting(p) ==
  /\ pc[p] = "read" /\ Goes(p, IF pidfile.filled THEN "dead" ELSE "remove")
  /\ UNCHANGED <<settingsVars, tries, asked, pidfile, sock, act, crashed>>

(* The file names a live process: this one ends.  One that is unreadable,  *)
(* empty or stale is removed.                                              *)
Reads(p) ==
  /\ pc[p] = "read" /\ Goes(p, IF pidfile.filled /\ Alive(pidfile.by) THEN "dead" ELSE "remove")
  /\ UNCHANGED <<settingsVars, tries, asked, pidfile, sock, act, crashed>>

Removes(p) ==
  /\ pc[p] = "remove" /\ pidfile' = None
  /\ Goes(p, IF tries[p] < 2 THEN "create" ELSE "dead")
  /\ UNCHANGED <<settingsVars, tries, asked, sock, act, crashed>>

(* BuildDaemon reads the files.                                            *)
Builds(p) == LoadOptions(p)

(* ListenControl: a socket that answers is left alone, one that a dead     *)
(* daemon left is replaced.                                                *)
Listens(p) == sock' = IF Alive(sock) THEN sock ELSE p

Serves(p) ==
  /\ pc[p] = "build" /\ Goes(p, "serve") /\ Builds(p) /\ Listens(p)
  /\ UNCHANGED <<tries, asked, pidfile, act, crashed>>

(* The daemon ends when it is asked to, when it cannot be built, or on a   *)
(* fatal error: the socket is closed and Release looks at the file first.  *)
Exits(p) ==
  /\ \/ pc[p] \in {"build", "serve"} /\ Fails
     \/ pc[p] \in {"build", "serve"} /\ p \in asked /\ UNCHANGED <<crashed, left>>
  /\ Goes(p, IF ~pidfile.filled \/ pidfile.by = p THEN "release" ELSE "dead")
  /\ sock' = IF sock = p THEN 0 ELSE sock
  /\ Unload(p)
  /\ UNCHANGED <<tries, asked, pidfile, act>>

Releases(p) ==
  /\ pc[p] = "release" /\ Goes(p, "dead") /\ pidfile' = None
  /\ UNCHANGED <<settingsVars, tries, asked, sock, act, crashed>>

(* A kill, a panic or a power cut leaves the files as they are.            *)
Crashes(p) ==
  /\ Alive(p) /\ Fails
  /\ Goes(p, "dead") /\ Unload(p)
  /\ UNCHANGED <<tries, asked, pidfile, sock, act>>

-----------------------------------------------------------------------------
(* The supervisor.  Status trusts a file that names a live process.        *)

Running == IF pidfile.filled /\ Alive(pidfile.by) THEN pidfile.by ELSE 0
Moves(a, at, p) == act' = [act EXCEPT ![a].at = at, ![a].pid = p]

Wants(a, w) ==
  /\ act[a] = Idle
  /\ act' = [act EXCEPT ![a] = [wish |-> w, at |-> IF w = "restart" THEN "stop" ELSE w, pid |-> 0]]
  /\ UNCHANGED <<settingsVars, pc, tries, asked, pidfile, sock, crashed>>

(* Processes are spawned in the order of their numbers.                    *)
Spawn(p) == pc[p] = "unborn" /\ (\A q \in Pids : q < p => pc[q] # "unborn") /\ Goes(p, "born")

(* Start: a daemon that runs is left alone, else one is spawned, which may *)
(* fail.                                                                   *)
Spawns(a, p) ==
  /\ act[a].at = "start"
  /\ \/ Running # 0 /\ Moves(a, "already", Running) /\ UNCHANGED <<pc, left, crashed>>
     \/ Running = 0 /\ Moves(a, "await", p) /\ Spawn(p) /\ UNCHANGED <<left, crashed>>
     \/ Running = 0 /\ Moves(a, "failed", 0) /\ Fails /\ UNCHANGED pc
  /\ UNCHANGED <<options, mem, keyboards, panels, lapses, tries, asked, pidfile, sock>>

(* It waits until the child is gone, has its pid in the file, or is late.  *)
Awaits(a) ==
  /\ act[a].at = "await"
  /\ \/ ~Alive(act[a].pid) /\ Moves(a, "failed", act[a].pid)
     \/ Running = act[a].pid /\ Moves(a, "started", act[a].pid)
     \/ Alive(act[a].pid) /\ Running # act[a].pid /\ Moves(a, "late", act[a].pid)
  /\ UNCHANGED <<settingsVars, pc, tries, asked, pidfile, sock, crashed>>

(* ServeControl: whoever listens on the control socket hears a stop.       *)
Hears == Alive(sock) /\ asked' = asked \cup {sock}

(* SIGTERM or SIGHUP ends a process that does not handle it yet, or no     *)
(* longer.  Release is not run.                                            *)
Falls(p) == Goes(p, "dead") /\ mem' = [mem EXCEPT ![p] = Down]

(* Stop asks over the control socket or with SIGTERM.                      *)
AfterStop(a, not) == IF act[a].wish = "restart" THEN "start" ELSE IF not THEN "not running" ELSE "stopped"

Stops(a) ==
  /\ act[a].at = "stop"
  /\ IF Running = 0
       THEN Moves(a, AfterStop(a, TRUE), 0) /\ UNCHANGED <<pc, mem, asked>>
       ELSE /\ Moves(a, "stopping", Running)
            /\ \/ Hears /\ UNCHANGED <<pc, mem>>
               \/ ~Alive(sock) /\ pc[Running] \in {"build", "serve"} /\ asked' = asked \cup {Running} /\ UNCHANGED <<pc, mem>>
               \/ ~Alive(sock) /\ pc[Running] \in {"build", "release"} /\ Falls(Running) /\ UNCHANGED asked
  /\ UNCHANGED <<options, keyboards, panels, lapses, left, tries, pidfile, sock, crashed>>

(* Resync: the control socket only signals the loop of the daemon; SIGHUP  *)
(* is watched once the daemon is built, and ends it before.                *)
Resyncs(a) ==
  /\ act[a].at = "resync"
  /\ Moves(a, IF Running = 0 THEN "not running" ELSE "asked", Running)
  /\ IF ~Alive(sock) /\ Running # 0 /\ pc[Running] \in {"build", "release"}
       THEN Falls(Running) /\ crashed' = TRUE
       ELSE UNCHANGED <<pc, mem, crashed>>
  /\ UNCHANGED <<options, keyboards, panels, lapses, left, tries, asked, pidfile, sock>>

(* It waits for the process to end and kills it when the time is up, or    *)
(* gives up when its own time is up.  Its Release does nothing: it never   *)
(* acquired the file.                                                      *)
Stopping(a) ==
  LET p == act[a].pid IN
  /\ act[a].at = "stopping"
  /\ \/ Moves(a, AfterStop(a, FALSE), p)
     \/ Alive(p) /\ Moves(a, "failed", p)
  /\ IF Alive(p) /\ act'[a].at # "failed" THEN Goes(p, "dead") /\ Unload(p) ELSE UNCHANGED <<pc, options, mem, keyboards, panels, lapses>>
  /\ UNCHANGED <<left, tries, asked, pidfile, sock, crashed>>

-----------------------------------------------------------------------------
Process(p) ==
  \/ Boots(p) \/ Creates(p) \/ WritesPid(p) \/ Reads(p) \/ Removes(p)
  \/ Serves(p) \/ Exits(p) \/ Releases(p)
Action(a) == Awaits(a) \/ Stops(a) \/ Stopping(a) \/ Resyncs(a) \/ \E p \in Pids : Spawns(a, p)

LifeNext ==
  \/ \E p \in Pids : Process(p) \/ Crashes(p)
  \/ \E a \in Actors : Action(a) \/ \E w \in Wishes : Wants(a, w)
  \/ SettingsNext /\ UNCHANGED lifeVars

LifeSpec == LifeInit /\ [][LifeNext]_daemonVars

ActorSymmetry == Permutations(Actors)

-----------------------------------------------------------------------------
(* When every start asked for is over and nothing crashed or was stopped   *)
(* (a resync that finds a daemon without its signal handler stops it), a   *)
(* daemon is there: two starts at once, or a stale or half-written pid   *)
(* file, never make all of them give way (Acquire).                        *)
SomeoneServes ==
  \/ crashed
  \/ \A a \in Actors : act[a].wish \in {"none", "resync"}
  \/ \E a \in Actors : act[a].wish \in {"stop", "restart"}
  \/ \E p \in Pids : Alive(p)
  \/ \E a \in Actors : act[a].at = "start"

(* Every panel that shows buttons is the one the next /options retires,    *)
(* except one for each edit that failed, each panel of a send whose answer *)
(* was lost, and each daemon that ended (Open, Press, edit).               *)
OnePanel ==
  Cardinality(keyboards \ {mem[p].last : p \in Pids})
    <= lapses + Cardinality({p \in Pids : pc[p] \in {"release", "dead"}})

=============================================================================
