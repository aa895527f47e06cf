---------------------------- MODULE RelayRouting ----------------------------
(***************************************************************************)
(* Messages and buttons of a floor's topic on their way to an agent        *)
(* (internal/app/relay_inbound.go: Handle, button; relay.go: target, once, *)
(* sendTarget).                                                            *)
(*                                                                         *)
(* Up to eight handlers run at a time.  Each marks its update as seen and  *)
(* saves that before it does anything else, looks the destination up in a  *)
(* fresh feed, waits for the terminal's lock, looks it up again and makes  *)
(* the call.  The host may restart (a new epoch), move a terminal to       *)
(* another floor, stop it, choose another coordinator or change its        *)
(* question between any two of these.  Telegram may deliver an update more *)
(* than once.                                                              *)
(***************************************************************************)
EXTENDS Naturals, Sequences, FiniteSets

CONSTANTS
    Handlers,    \* the slots of Run
    Terminals,   \* agents of the workspace
    Prompts,     \* questions an agent may ask
    Words,       \* what users send: "text", "other" (keys, /focus, attachments:
                 \* one call and nothing to remember), "screen", "close"
    MaxMessages, \* bound: messages in the topic
    MaxTaps,     \* bound: button presses
    MaxEpoch,    \* bound: restarts of the host
    None

ASSUME RoutingAssumption ==
    /\ None \notin Handlers \cup Terminals \cup Prompts
    /\ Words \subseteq {"text", "other", "screen", "close"}
    /\ MaxMessages \in Nat /\ MaxTaps \in Nat /\ MaxEpoch \in Nat

VARIABLES
    \* Relay, in memory and in relay.json
    seen, replies, diskSeen, diskReplies, failure,
    handler,    \* [Handlers -> [at, key, and the target: term, epoch, prompt]]
    lock,       \* [Terminals -> handler or None]: r.locks
    \* Telegram
    chat,       \* the topic's messages: [by, word, reply, target]
    taps,       \* button presses: [card, data], in order
    \* the host
    epoch,      \* which run of the host the sessions belong to
    term,       \* [Terminals -> [role, prompt]]; "away": on another floor, or not running
    calls       \* history: the calls made to the host

state  == <<seen, replies, diskSeen, diskReplies, failure>>
people == <<chat, taps>>
host   == <<epoch, term>>
vars   == <<seen, replies, diskSeen, diskReplies, failure, handler, lock, chat, taps,
            epoch, term, calls>>

\* What a button does; "answer" is approve or reject.
Actions == {"screen", "answer", "kill", "focus", "cancel"}

\* relayTarget; the time of a card is the button's to check (Check).
Target == [term : Terminals, epoch : 0..MaxEpoch, prompt : Prompts \cup {None},
           actions : SUBSET Actions]

\* The absent value is no target.
ASSUME NoTargetIsNone == None \notin Target

\* Keys of Seen: "m:<message>" and "b:<callback>".
Keys == ({"m"} \X (1..MaxMessages)) \cup ({"b"} \X (1..MaxTaps))

Message == [by : {"user", "relay"}, word : Words \cup {None}, reply : 0..MaxMessages,
            target : Target \cup {None}]

Resting == [at |-> "idle", key |-> None, term |-> None, epoch |-> 0, prompt |-> None]

Roles == {"away", "agent", "manager"}

Phases == {"idle", "first", "check", "lock", "second", "consume", "call", "calling", "card"}

TypeOK ==
    /\ seen \subseteq Keys /\ diskSeen \subseteq Keys
    /\ replies \in [1..MaxMessages -> Target \cup {None}]
    /\ diskReplies \in [1..MaxMessages -> Target \cup {None}]
    /\ failure \in BOOLEAN
    /\ handler \in [Handlers -> [at : Phases, key : Keys \cup {None},
                                 term : Terminals \cup {None}, epoch : 0..MaxEpoch,
                                 prompt : Prompts \cup {None}]]
    /\ lock \in [Terminals -> Handlers \cup {None}]
    /\ chat \in Seq(Message) /\ taps \in Seq([card : 1..MaxMessages, data : Actions])
    /\ epoch \in 0..MaxEpoch
    /\ term \in [Terminals -> [role : Roles, prompt : Prompts \cup {None}]]
    /\ calls \in Seq([key : Keys, term : Terminals, data : Actions \cup Words,
                      epoch : 0..MaxEpoch, prompt : Prompts \cup {None}])

Init ==
    /\ seen = {} /\ diskSeen = {} /\ failure = FALSE
    /\ replies = [m \in 1..MaxMessages |-> None] /\ diskReplies = replies
    /\ handler = [h \in Handlers |-> Resting]
    /\ lock = [t \in Terminals |-> None]
    /\ chat = <<>> /\ taps = <<>> /\ calls = <<>> /\ epoch = 0
    /\ \E m \in Terminals :
        term = [t \in Terminals |-> [role |-> IF t = m THEN "manager" ELSE "agent",
                                     prompt |-> None]]

-----------------------------------------------------------------------------
(* What an update asks for *)

IsTap(k) == k[1] = "b"
Card(k)  == taps[k[2]].card
Reply(k) == IF IsTap(k) THEN Card(k) ELSE chat[k[2]].reply
Data(k)  == IF IsTap(k) THEN taps[k[2]].data ELSE chat[k[2]].word

Persist(ok) ==
    /\ ok => ~failure
    /\ failure' = ~ok
    /\ diskSeen' = IF ok THEN seen' ELSE diskSeen
    /\ diskReplies' = IF ok THEN replies' ELSE diskReplies

Goto(h, at) == handler' = [handler EXCEPT ![h].at = at]

\* A handler returns; a deferred Unlock gives its terminal back.
Quit(h) ==
    /\ handler' = [handler EXCEPT ![h] = Resting]
    /\ lock' = [t \in Terminals |-> IF lock[t] = h THEN None ELSE lock[t]]

-----------------------------------------------------------------------------
(* target *)

\* Fault: the second look only asks whether the terminal still runs.
CandidatesByTerminal(reply, explicit) ==
    {t \in Terminals :
        /\ term[t].role # "away"
        /\ IF explicit # None THEN t = explicit
           ELSE IF reply # 0 THEN replies[reply] # None /\ t = replies[reply].term
           ELSE term[t].role = "manager"}

\* The terminals a message may go to: the one the reply is bound to in this
\* session, the one named, or the floor's coordinators.
Candidates(reply, explicit) ==
    {t \in Terminals :
        /\ term[t].role # "away"
        /\ reply # 0 => replies[reply] # None /\ replies[reply].epoch = epoch
        /\ IF reply # 0 THEN t = replies[reply].term
           ELSE IF explicit # None THEN t = explicit
           ELSE term[t].role = "manager"}

-----------------------------------------------------------------------------
(* Handle *)

\* Fault: the update is marked as seen once it has been delivered.
AcceptUnmarked(h, k) ==
    /\ handler[h].at = "idle" /\ k \notin seen
    /\ handler' = [handler EXCEPT ![h].at = IF IsTap(k) THEN "check" ELSE "first",
                                  ![h].key = k]
    /\ UNCHANGED <<state, lock, people, host, calls>>

\* once(): a handler starts with an update Telegram delivers, unless it is seen.
Accept(h, k) ==
    /\ handler[h].at = "idle" /\ k \notin seen
    /\ seen' = seen \cup {k} /\ UNCHANGED replies
    /\ \/ /\ Persist(TRUE)
          /\ handler' = [handler EXCEPT ![h].at = IF IsTap(k) THEN "check" ELSE "first",
                                        ![h].key = k]
       \/ Persist(FALSE) /\ UNCHANGED handler
    /\ UNCHANGED <<lock, people, host, calls>>

\* The first look: the destination, or an error that is told to the user.
First(h) ==
    LET found == Candidates(Reply(handler[h].key), None)
    IN  /\ handler[h].at = "first"
        /\ \/ /\ Cardinality(found) = 1
              /\ handler' = [handler EXCEPT ![h].at = "lock",
                                            ![h].term = CHOOSE t \in found : TRUE]
              /\ UNCHANGED lock
           \/ Quit(h)  \* no unique destination, or no feed
        /\ UNCHANGED <<state, people, host, calls>>

\* button(): the card must offer the action; after ten minutes it may have
\* expired.  cancel only removes the buttons from the message.
Check(h) ==
    LET k == handler[h].key
    IN  /\ handler[h].at = "check"
        /\ \/ /\ replies[Card(k)] # None /\ Data(k) \in replies[Card(k)].actions
              /\ Data(k) # "cancel"
              /\ handler' = [handler EXCEPT ![h].at = "lock",
                                            ![h].term = replies[Card(k)].term]
              /\ UNCHANGED lock
           \/ Quit(h)
        /\ UNCHANGED <<state, people, host, calls>>

Lock(h) ==
    /\ handler[h].at = "lock" /\ lock[handler[h].term] = None
    /\ lock' = [lock EXCEPT ![handler[h].term] = h]
    /\ Goto(h, "second")
    /\ UNCHANGED <<state, people, host, calls>>

\* Fault: an error of the second look leaves the lock behind.
SecondHolding(h) ==
    LET k     == handler[h].key
        found == Candidates(Reply(k), handler[h].term)
    IN  /\ handler[h].at = "second"
        /\ \/ /\ Cardinality(found) = 1
              /\ handler' = [handler EXCEPT ![h].at = "call"]
           \/ handler' = [handler EXCEPT ![h] = Resting]
        /\ UNCHANGED <<state, lock, people, host, calls>>

\* Fault: a question that changed meanwhile is answered all the same.
SecondAnyQuestion(h) ==
    LET k     == handler[h].key
        found == Candidates(Reply(k), handler[h].term)
    IN  /\ handler[h].at = "second" /\ Cardinality(found) = 1
        /\ handler' = [handler EXCEPT ![h].at = IF IsTap(k) THEN "consume" ELSE "call",
                                      ![h].prompt = term[handler[h].term].prompt]
        /\ UNCHANGED <<state, lock, people, host, calls>>

\* The second look, under the lock: the same reply again, or the terminal found
\* before.  A question may only be answered while it is the one on the card.
Second(h) ==
    LET k     == handler[h].key
        found == Candidates(Reply(k), handler[h].term)
        t     == handler[h].term
        fresh == Data(k) = "answer" =>
                    term[t].prompt # None /\ term[t].prompt = replies[Card(k)].prompt
        next  == IF Data(k) \in {"screen", "close"} THEN "card"
                 ELSE IF IsTap(k) THEN "consume" ELSE "call"
    IN  /\ handler[h].at = "second"
        /\ \/ /\ found = {t} /\ fresh
              /\ handler' = [handler EXCEPT ![h].at = next, ![h].epoch = epoch,
                                            ![h].prompt = term[t].prompt]
              /\ UNCHANGED lock
           \/ Quit(h)
        /\ UNCHANGED <<state, people, host, calls>>

\* button(): the card loses its buttons, saved before the call.
Consume(h) ==
    /\ handler[h].at = "consume"
    /\ replies' = [replies EXCEPT ![Card(handler[h].key)].actions = {}]
    /\ UNCHANGED seen
    /\ \/ Persist(TRUE) /\ Goto(h, "call") /\ UNCHANGED lock
       \/ Persist(FALSE) /\ Quit(h)
    /\ UNCHANGED <<people, host, calls>>

Call(h) ==
    LET k == handler[h].key
    IN  /\ handler[h].at = "call"
        /\ calls' = Append(calls,
                      [key |-> k, term |-> handler[h].term, data |-> Data(k),
                       epoch |-> handler[h].epoch, prompt |-> handler[h].prompt])
        /\ Goto(h, "calling")
        /\ UNCHANGED <<state, lock, people, host>>

\* Call refuses without asking the host (a missing capability), or the file
\* of an attachment cannot be downloaded or uploaded.
NotSent(h) ==
    /\ handler[h].at = "call"
    /\ Quit(h)
    /\ UNCHANGED <<state, people, host, calls>>

\* Fault: an action that was not confirmed gives the card its buttons back.
AnsweredRestores(h) ==
    LET k == handler[h].key
    IN  /\ handler[h].at = "calling"
        /\ replies' = IF IsTap(k) THEN [replies EXCEPT ![Card(k)] = chat[Card(k)].target]
                      ELSE replies
        /\ UNCHANGED seen
        /\ Persist(TRUE)
        /\ Quit(h)
        /\ UNCHANGED <<people, host, calls>>

\* The call is answered or not.  A confirmed text binds the user's own message
\* to the terminal as well.
Answered(h) ==
    LET k == handler[h].key
        t == handler[h].term
    IN  /\ handler[h].at = "calling"
        /\ \/ /\ Data(k) = "text"
              /\ replies' = [replies EXCEPT
                    ![k[2]] = [term |-> t, epoch |-> handler[h].epoch,
                               prompt |-> handler[h].prompt, actions |-> {}]]
              /\ UNCHANGED seen
              /\ \E ok \in BOOLEAN : Persist(ok)
           \/ UNCHANGED state
        /\ Quit(h)
        /\ UNCHANGED <<people, host, calls>>

\* sendTarget: a message bound to a terminal, with the buttons it offers.
Post(t, e, prompt, actions) ==
    LET m == Len(chat) + 1
        b == [term |-> t, epoch |-> e, prompt |-> prompt, actions |-> actions]
    IN  /\ m <= MaxMessages
        /\ chat' = Append(chat, [by |-> "relay", word |-> None, reply |-> 0, target |-> b])
        /\ replies' = [replies EXCEPT ![m] = b]
        /\ UNCHANGED seen
        /\ \E ok \in BOOLEAN : Persist(ok)

\* /screen, the screen button and /close answer with a message.
ShowScreen(h) ==
    /\ handler[h].at = "card"
    /\ \/ Post(handler[h].term, handler[h].epoch, handler[h].prompt,
               IF Data(handler[h].key) = "close" THEN {"kill", "cancel"} ELSE {})
       \/ UNCHANGED <<state, chat>>  \* Telegram refuses the message
    /\ Quit(h)
    /\ UNCHANGED <<taps, host, calls>>

Handle(h) == First(h) \/ Check(h) \/ Lock(h) \/ Second(h) \/ Consume(h) \/ Call(h)
                \/ NotSent(h) \/ Answered(h) \/ ShowScreen(h)

\* The cards of Refresh and /agents.
Notify(t) ==
    /\ Post(t, epoch, term[t].prompt,
            IF term[t].prompt = None THEN {"screen", "focus"} ELSE {"answer"})
    /\ UNCHANGED <<handler, lock, taps, host, calls>>

\* The process ends, also after a failed save, and is started again.
Restart ==
    /\ seen' = diskSeen /\ replies' = diskReplies /\ failure' = FALSE
    /\ handler' = [h \in Handlers |-> Resting] /\ lock' = [t \in Terminals |-> None]
    /\ UNCHANGED <<diskSeen, diskReplies, people, host, calls>>

-----------------------------------------------------------------------------
(* The people in the topic, and the host *)

Write(word, reply) ==
    /\ Len(chat) < MaxMessages
    /\ chat' = Append(chat, [by |-> "user", word |-> word, reply |-> reply, target |-> None])
    /\ UNCHANGED <<state, handler, lock, taps, host, calls>>

\* A button stays on the message a user looks at until Telegram has removed it.
Tap(card, data) ==
    /\ Len(taps) < MaxTaps /\ chat[card].by = "relay" /\ data \in chat[card].target.actions
    /\ taps' = Append(taps, [card |-> card, data |-> data])
    /\ UNCHANGED <<state, handler, lock, chat, host, calls>>

\* A host that restarts has other sessions behind its terminals.
HostRestarts ==
    /\ epoch < MaxEpoch
    /\ epoch' = epoch + 1
    /\ UNCHANGED <<state, handler, lock, people, term, calls>>

TerminalChanges(t) ==
    /\ \/ \E p \in Prompts \cup {None} : term' = [term EXCEPT ![t].prompt = p]
       \/ \E r \in Roles : term' = [term EXCEPT ![t].role = r]
    /\ UNCHANGED <<state, handler, lock, people, epoch, calls>>

Delivered == ({"m"} \X {m \in 1..Len(chat) : chat[m].by = "user"})
                \cup ({"b"} \X (1..Len(taps)))

Next ==
    \/ \E h \in Handlers : Handle(h) \/ \E k \in Delivered : Accept(h, k)
    \/ \E t \in Terminals : Notify(t) \/ TerminalChanges(t)
    \/ \E w \in Words, r \in 0..Len(chat) : Write(w, r)
    \/ \E c \in 1..Len(chat), d \in Actions : Tap(c, d)
    \/ Restart \/ HostRestarts

Spec == Init /\ [][Next]_vars

-----------------------------------------------------------------------------
(* Properties *)

\* An update reaches the host at most once: not again when Telegram repeats it
\* to another handler, not again after a crash or a failed save (once).
AtMostOnce ==
    \A i, j \in 1..Len(calls) : calls[i].key = calls[j].key => i = j

\* What answers a card goes to the card's agent and to no other, and only while
\* the feed read under the lock shows the session the card was posted in,
\* whoever moved, stopped or took over in between (target, button).
ReachesItsAgent ==
    \A i \in 1..Len(calls) :
        LET m == Reply(calls[i].key)
        IN  m # 0 /\ chat[m].by = "relay" =>
                /\ calls[i].term = chat[m].target.term
                /\ calls[i].epoch = chat[m].target.epoch

\* A question is answered only while the feed read under the terminal's lock
\* still shows the question of the card (button).
AnswersTheQuestion ==
    \A i \in 1..Len(calls) :
        calls[i].data = "answer" =>
            /\ calls[i].prompt # None
            /\ calls[i].prompt = chat[Card(calls[i].key)].target.prompt

\* A terminal is locked by the handler that is busy with it, and by no one
\* once that handler has returned on any of its paths, so calls to one terminal
\* never overlap and none waits for a handler that is gone (locks).
Serial ==
    /\ \A t \in Terminals : lock[t] # None =>
        /\ handler[lock[t]].term = t
        /\ handler[lock[t]].at \in {"second", "consume", "call", "calling", "card"}
    /\ \A h \in Handlers : handler[h].at \in {"consume", "call", "calling"} =>
        lock[handler[h].term] = h

\* Used buttons stay used, over restarts and failed saves (button, NewRelay).
ButtonsStayUsed ==
    [][\A m \in 1..MaxMessages :
         diskReplies[m] # None =>
            diskReplies'[m] # None /\ diskReplies'[m].actions \subseteq diskReplies[m].actions]_vars

\* The types, and who holds what.
RoutingInv == TypeOK /\ Serial
=============================================================================
