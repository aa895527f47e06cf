------------------------------ MODULE Settings ------------------------------
(***************************************************************************)
(* What operators set with /options: the options (app/options.go,          *)
(* domain/options.go), their file (state/options_store.go) and their panel *)
(* (app/optionspanel.go).  Each daemon process has its own memory; the     *)
(* file and the panel messages outlive it.  Module Lifecycle starts and    *)
(* ends the processes.                                                     *)
(*                                                                         *)
(* The options are abstracted to two groups: the icons of the statuses     *)
(* 1..NStatuses in registry order, the default icon of status s being s,   *)
(* and one switch.  The icon pack is 1..NPack; NPack + 1 is an emoji that  *)
(* is not in it.                                                           *)
(***************************************************************************)
EXTENDS Naturals, FiniteSets, SequencesExt

CONSTANTS
  Pids,        \* daemon processes, in the order they are spawned: 1..n
  NStatuses,   \* the statuses that have an icon
  NPack,       \* the topic icons Telegram allows
  Edits,       \* the icons a person may have written into options.json
  MaxTries,    \* attempts the Telegram queue makes for one call
  MaxEvents,   \* bound: what operators do in General, and what goes wrong
  MaxPanels    \* bound: the panel messages sent

(* The pack holds the default icon of every status, and more besides: a    *)
(* daemon whose Telegram does not list its icons does not get as far as    *)
(* the options (Connect fails), so the empty pack of options.go:1084,      *)
(* which takes any icon, does not occur.                                   *)
ASSUME SettingsAssumption ==
  /\ NStatuses \in Nat \ {0} /\ NPack \in Nat /\ NPack >= NStatuses
  /\ MaxTries \in Nat \ {0}
  /\ Edits \subseteq 1..(NPack + 1) /\ MaxEvents \in Nat /\ MaxPanels \in Nat
  /\ Pids \subseteq Nat \ {0} /\ IsFiniteSet(Pids)

VARIABLES
  options,    \* options.json: [parses, values]
  mem,        \* per process: what it has in memory
  keyboards,  \* the panel messages that show buttons
  panels,     \* the number of panel messages sent
  lapses,     \* history: the edits that failed, and the panels made by an
              \* attempt whose answer was lost
  left        \* what is left of the bound

settingsVars == <<options, mem, keyboards, panels, lapses, left>>

Statuses == 1..NStatuses
Icons == 1..(NPack + 1)
Values == [icon: [Statuses -> Icons], switch: BOOLEAN]
Default == [icon |-> [s \in Statuses |-> s], switch |-> TRUE]

(* With puts one value in; ValidateOptions then looks at all of them.      *)
With(o, k, v) == IF k = 0 THEN [o EXCEPT !.switch = v] ELSE [o EXCEPT !.icon[k] = v]
Valid(o) ==
  /\ \A s \in Statuses : o.icon[s] <= NPack
  /\ \A s, t \in Statuses : o.icon[s] = o.icon[t] => s = t

(* Mutant: a value is only compared with the icon pack.                    *)
SanitizeAlone(o) == [o EXCEPT !.icon = [s \in Statuses |-> IF o.icon[s] <= NPack THEN o.icon[s] ELSE s]]

(* SanitizeOptions: key after key on top of the defaults; what does not    *)
(* fit the values taken so far and the defaults of the rest is dropped.    *)
Sanitize(o) ==
  LET kept[s \in 0..NStatuses] ==
        IF s = 0 THEN With(Default, 0, o.switch)
        ELSE IF Valid(With(kept[s - 1], s, o.icon[s])) THEN With(kept[s - 1], s, o.icon[s])
        ELSE kept[s - 1]
  IN kept[NStatuses]

(* A process that is not up has no memory.                                 *)
Down == [up |-> FALSE, cur |-> Default, last |-> 0]

(* The options file: none, or one that does not parse; or one a person has *)
(* edited.                                                                 *)
SettingsInit ==
  /\ options \in {[parses |-> FALSE, values |-> Default]} \cup
                 {[parses |-> TRUE, values |-> [Default EXCEPT !.icon = f]] : f \in [Statuses -> Edits]}
  /\ mem = [p \in Pids |-> Down]
  /\ keyboards = {} /\ panels = 0
  /\ lapses = 0 /\ left = MaxEvents

-----------------------------------------------------------------------------
(* The container reads the options when a daemon is built.                 *)

LoadOptions(p) ==
  /\ mem' = [mem EXCEPT ![p].up = TRUE,
                        ![p].cur = Sanitize(IF options.parses THEN options.values ELSE Default)]
  /\ UNCHANGED <<options, keyboards, panels, lapses, left>>

Unload(p) ==
  /\ mem' = [mem EXCEPT ![p] = Down]
  /\ UNCHANGED <<options, keyboards, panels, lapses>>

(* Something a serving daemon does; what goes wrong with it counts against *)
(* the bound as well.                                                      *)
Act(p, edited, strays) ==
  LET slips == strays + (IF edited THEN 0 ELSE 1) IN
  /\ mem[p].up /\ left > slips
  /\ left' = left - 1 - slips /\ lapses' = lapses + slips

-----------------------------------------------------------------------------
(* Options.Set and Reset: a value that is refused or cannot be saved       *)
(* changes neither memory nor file.  The hooks only signal.                *)

(* OptionsStore.Save writes all known keys and the unknown ones of Load;   *)
(* what an unknown key holds is left out.                                  *)
Saved(o) == [parses |-> TRUE, values |-> o]

TakesOver(p, o, saved) == saved /\ o # mem[p].cur /\ Valid(o)
InForce(p, o, saved) == IF TakesOver(p, o, saved) THEN o ELSE mem[p].cur
Writes(p, o, saved) == options' = IF TakesOver(p, o, saved) THEN Saved(o) ELSE options

(* The values the buttons of a panel stand for: a toggle, a pick of the    *)
(* icon grid, a reset of one group, or none (the pages).  A pick of an     *)
(* icon that another status shows is answered with its name.               *)
Buttons ==
  [kind: {"toggle", "reset icons", "reset switch", "page"}] \cup
  [kind: {"pick"}, status: Statuses, icon: 1..NPack]

Asked(o, b) ==
  CASE b.kind = "toggle" -> With(o, 0, ~o.switch)
    [] b.kind = "reset icons" -> [o EXCEPT !.icon = Default.icon]
    [] b.kind = "reset switch" -> [o EXCEPT !.switch = Default.switch]
    [] b.kind = "page" -> o
    [] b.kind = "pick" -> IF \E s \in Statuses \ {b.status} : o.icon[s] = b.icon THEN o ELSE With(o, b.status, b.icon)

-----------------------------------------------------------------------------
(* The panel.  last is the message a new /options takes the buttons from;  *)
(* an edit that fails makes a new message, and leaves the buttons of the   *)
(* old one.                                                                *)

(* One Send that made n messages: the queue tries again when an answer is  *)
(* lost, and the daemon knows of the message of the last try only, if that *)
(* was answered.                                                           *)
SendMakes(sent, n) == n \in 0..MaxTries /\ (sent => n > 0) /\ panels + n <= MaxPanels
Fresh(n) == (panels + 1)..(panels + n)
Known(sent, n, otherwise) == IF sent THEN panels + n ELSE otherwise
Unknown(sent, n) == IF sent THEN n - 1 ELSE n

(* edit: without the first call failing there is no second.                *)
SendsAgain(edited, sent, n) == IF edited THEN ~sent /\ n = 0 ELSE SendMakes(sent, n)

(* Mutant: the previous panel keeps its buttons.                           *)
OpenBeside(p, edited, sent, n) ==
  /\ SendMakes(sent, n) /\ Act(p, edited, Unknown(sent, n))
  /\ keyboards' = keyboards \cup Fresh(n)
  /\ panels' = panels + n
  /\ mem' = [mem EXCEPT ![p].last = Known(sent, n, @)]
  /\ UNCHANGED options

Open(p, edited, sent, n) ==
  /\ SendMakes(sent, n) /\ Act(p, edited, Unknown(sent, n))
  /\ keyboards' = (IF edited THEN keyboards \ {mem[p].last} ELSE keyboards) \cup Fresh(n)
  /\ panels' = panels + n
  /\ mem' = [mem EXCEPT ![p].last = Known(sent, n, @)]
  /\ UNCHANGED options

(* Press applies, then shows the outcome; any panel that has buttons acts. *)
PressButton(p, m, b, saved, edited, sent, n) ==
  /\ m \in keyboards
  /\ SendsAgain(edited, sent, n) /\ Act(p, edited, Unknown(sent, n))
  /\ Writes(p, Asked(mem[p].cur, b), saved)
  /\ mem' = [mem EXCEPT ![p].cur = InForce(p, Asked(@, b), saved),
                        ![p].last = Known(sent, n, IF @ = 0 THEN m ELSE @)]
  /\ keyboards' = keyboards \cup Fresh(n)
  /\ panels' = panels + n

(* Close leaves a summary without buttons, and so are the messages made    *)
(* when it cannot be written.                                              *)
Close(p, m, edited, sent, n) ==
  /\ m \in keyboards
  /\ SendsAgain(edited, sent, n) /\ Act(p, edited, 0)
  /\ keyboards' = IF edited THEN keyboards \ {m} ELSE keyboards
  /\ panels' = panels + n
  /\ mem' = [mem EXCEPT ![p].last = Known(sent, n, IF @ = m THEN 0 ELSE @)]
  /\ UNCHANGED options

SettingsNext ==
  \E p \in Pids, edited, sent \in BOOLEAN, n \in 0..MaxTries :
       \/ Open(p, edited, sent, n)
       \/ \E m \in keyboards :
            \/ Close(p, m, edited, sent, n)
            \/ \E b \in Buttons, saved \in BOOLEAN : PressButton(p, m, b, saved, edited, sent, n)

-----------------------------------------------------------------------------
(* No two statuses share an icon and every icon is one Telegram allows, in *)
(* every running daemon: whatever a person wrote into options.json,        *)
(* whichever picks and resets follow (SanitizeOptions, Set, Reset).        *)
IconsTell == \A p \in Pids : mem[p].up => Valid(mem[p].cur)

=============================================================================
