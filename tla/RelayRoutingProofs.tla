------------------------- MODULE RelayRoutingProofs -------------------------
(***************************************************************************)
(* Theorems about RelayRouting, for any number of handlers, terminals and  *)
(* questions and every bound: what reaches the host, how often, and for    *)
(* which card.                                                             *)
(***************************************************************************)
EXTENDS RelayRouting, FiniteSetTheorems, TLAPS

\* What is in the topic: a user's message says something, Relay's is bound to a
\* terminal, and buttons are those of Relay's messages.
Group ==
    /\ chat \in Seq(Message) /\ Len(chat) <= MaxMessages
    /\ \A m \in 1..Len(chat) :
        /\ chat[m].reply \in 0..Len(chat)
        /\ chat[m].by = "user" => chat[m].word \in Words
        /\ chat[m].by = "relay" => chat[m].target \in Target
    /\ taps \in Seq([card : 1..MaxMessages, data : Actions]) /\ Len(taps) <= MaxTaps
    /\ \A i \in 1..Len(taps) : taps[i].card \in 1..Len(chat) /\ chat[taps[i].card].by = "relay"

\* The record c, of a handler or a call, is meant for the card it answers.
Right(c) ==
    LET m == Reply(c.key)
    IN  /\ m # 0 /\ chat[m].by = "relay" =>
            c.term = chat[m].target.term /\ c.epoch = chat[m].target.epoch
        /\ Data(c.key) = "answer" =>
            c.prompt # None /\ c.prompt = chat[Card(c.key)].target.prompt

\* What is bound to Relay's message m is what the message was posted with, up
\* to its buttons; nothing is bound to a message that does not exist.
BoundRight(b) ==
    /\ b \in [1..MaxMessages -> Target \cup {None}]
    /\ \A m \in 1..MaxMessages : b[m] # None =>
        /\ m <= Len(chat)
        /\ chat[m].by = "relay" =>
            /\ b[m].term = chat[m].target.term /\ b[m].epoch = chat[m].target.epoch
            /\ b[m].prompt = chat[m].target.prompt

Store ==
    /\ seen \subseteq Keys /\ diskSeen \subseteq seen /\ failure \in BOOLEAN
    /\ BoundRight(replies) /\ BoundRight(diskReplies)
    /\ ~failure => seen = diskSeen /\ replies = diskReplies

HandlerType == [at : Phases, key : Keys \cup {None}, term : Terminals \cup {None},
                epoch : 0..MaxEpoch, prompt : Prompts \cup {None}]

\* The phases in which a handler holds the lock of its terminal, and those in
\* which it has looked the destination up under that lock.
Holding == {"second", "consume", "call", "calling", "card"}
Looked  == {"consume", "call", "calling", "card"}

\* What is true of a handler h in the state r: its update is saved as seen, and
\* has not been sent to the host before the handler is at that point.
Fine(h, r) ==
    /\ r \in HandlerType
    /\ r.at # "idle" => r.key \in Delivered /\ r.key \in diskSeen
    /\ r.at = "first" => ~IsTap(r.key)
    /\ r.at \in {"check", "consume"} => IsTap(r.key)
    /\ r.at = "consume" => replies[Card(r.key)] # None
    /\ r.at \in Holding \cup {"lock"} => r.term \in Terminals
    /\ r.at \in Holding => lock[r.term] = h
    /\ r.at \in Looked => Right(r)
    /\ r.at \notin {"idle", "calling"} => \A i \in 1..Len(calls) : calls[i].key # r.key

Crew ==
    /\ handler \in [Handlers -> HandlerType]
    /\ \A h \in Handlers, r \in HandlerType : handler[h] = r => Fine(h, r)
    /\ \A g, h \in Handlers :
        g # h /\ handler[g].at # "idle" /\ handler[h].at # "idle" =>
            handler[g].key # handler[h].key

Locks ==
    /\ lock \in [Terminals -> Handlers \cup {None}]
    /\ \A t \in Terminals : lock[t] # None =>
        handler[lock[t]].term = t /\ handler[lock[t]].at \in Holding

CallType == [key : Keys, term : Terminals, data : Actions \cup Words, epoch : 0..MaxEpoch,
             prompt : Prompts \cup {None}]

Sent ==
    /\ calls \in Seq(CallType)
    /\ \A i \in 1..Len(calls) :
        /\ calls[i].key \in Delivered /\ calls[i].key \in diskSeen
        /\ calls[i].data = Data(calls[i].key) /\ Right(calls[i])
    /\ AtMostOnce

HostType ==
    /\ epoch \in 0..MaxEpoch
    /\ term \in [Terminals -> [role : Roles, prompt : Prompts \cup {None}]]

\* The inductive invariant.
IInv == Group /\ Store /\ Crew /\ Locks /\ Sent /\ HostType

-----------------------------------------------------------------------------
(* Updates and the messages they refer to *)

\* The topic only grows.
Extends ==
    /\ Len(chat') \in Nat /\ Len(chat) <= Len(chat') /\ \A m \in 1..Len(chat) : chat'[m] = chat[m]
    /\ Len(taps) <= Len(taps') /\ \A i \in 1..Len(taps) : taps'[i] = taps[i]

\* A message that is bound stays bound.
StayBound == \A m \in 1..MaxMessages : replies[m] # None => replies'[m] # None

\* An update is a message of a user or a press.
LEMMA KeyKinds ==
    ASSUME NEW k \in Delivered
    PROVE  \/ ~IsTap(k) /\ k[1] = "m" /\ k[2] \in 1..Len(chat) /\ chat[k[2]].by = "user"
           \/ IsTap(k) /\ k[2] \in 1..Len(taps)
  BY DEF Delivered, IsTap

\* An update is one that may be marked as seen.
LEMMA KeyType == ASSUME Group, NEW k \in Delivered PROVE k \in Keys
  <1>1. Len(chat) \in Nat /\ Len(taps) \in Nat /\ Len(chat) <= MaxMessages /\ Len(taps) <= MaxTaps
    BY DEF Group
  <1>2. 1..Len(chat) \subseteq 1..MaxMessages /\ 1..Len(taps) \subseteq 1..MaxTaps
    BY <1>1, RoutingAssumption
  <1> QED
    BY <1>2 DEF Delivered, Keys

\* The message an update refers to, and what it asks for.
LEMMA KeyParts ==
    ASSUME Group, NEW k \in Delivered
    PROVE  /\ Reply(k) \in 0..Len(chat)
           /\ Data(k) \in Actions \cup Words
           /\ IsTap(k) => /\ Card(k) \in 1..Len(chat) /\ chat[Card(k)].by = "relay"
                          /\ Reply(k) = Card(k) /\ Data(k) \in Actions
           /\ ~IsTap(k) => k[2] \in 1..Len(chat) /\ chat[k[2]].by = "user" /\ Data(k) \in Words
  <1>1. CASE IsTap(k)
    <2>1. k[2] \in 1..Len(taps)
      BY <1>1, KeyKinds
    <2>2. \A i \in 1..Len(taps) : taps[i].data \in Actions
      <3> DEFINE P == [card : 1..MaxMessages, data : Actions]
      <3>1. taps \in Seq(P)
        BY DEF Group
      <3>2. \A i \in 1..Len(taps) : taps[i] \in P
        <4> HIDE DEF P
        <4> QED
          BY <3>1
      <3> QED
        BY <3>2
    <2>3. Len(chat) \in Nat
      BY DEF Group
    <2> QED
      BY <1>1, <2>1, <2>2, <2>3 DEF Group, Reply, Data, Card
  <1>2. CASE ~IsTap(k)
    <2>1. k[2] \in 1..Len(chat) /\ chat[k[2]].by = "user"
      BY <1>2, KeyKinds
    <2> QED
      BY <1>2, <2>1 DEF Group, Reply, Data
  <1> QED
    BY <1>1, <1>2

\* An update stays what it is.
LEMMA KeyKept ==
    ASSUME Group, Extends, NEW k \in Delivered
    PROVE  /\ k \in Delivered' /\ Reply(k)' = Reply(k) /\ Data(k)' = Data(k)
           /\ IsTap(k) => Card(k)' = Card(k)
           /\ Reply(k) # 0 => chat'[Reply(k)] = chat[Reply(k)]
           /\ IsTap(k) => chat'[Card(k)] = chat[Card(k)]
  <1>1. /\ {m \in 1..Len(chat) : chat[m].by = "user"} \subseteq {m \in 1..Len(chat') : chat'[m].by = "user"}
        /\ 1..Len(taps) \subseteq 1..Len(taps')
    <2>1. Len(chat) \in Nat /\ Len(taps) \in Nat
      BY DEF Group
    <2> QED
      BY <2>1 DEF Extends
  <1>2. k \in Delivered'
    BY <1>1 DEF Delivered
  <1>3. Reply(k)' = Reply(k) /\ Data(k)' = Data(k) /\ (IsTap(k) => Card(k)' = Card(k))
    BY KeyKinds DEF Extends, Reply, Data, Card, IsTap
  <1>4. /\ Reply(k) # 0 => Reply(k) \in 1..Len(chat)
        /\ IsTap(k) => Card(k) \in 1..Len(chat)
    BY KeyParts DEF Group
  <1> QED
    BY <1>2, <1>3, <1>4 DEF Extends

\* "answer" is a button.
LEMMA AnswerIsTap == ASSUME Group, NEW k \in Delivered, Data(k) = "answer" PROVE IsTap(k)
  <1>1. "answer" \notin Words
    BY RoutingAssumption
  <1> QED
    BY <1>1, KeyParts

\* What was meant for its card stays so.
LEMMA RightKept ==
    ASSUME Group, Extends, NEW c, c.key \in Delivered, Right(c)
    PROVE  Right(c)'
  <1> DEFINE k == c.key
  <1>1. k \in Delivered
    OBVIOUS
  <1>2. Reply(k)' = Reply(k) /\ Data(k)' = Data(k) /\ (Reply(k) # 0 => chat'[Reply(k)] = chat[Reply(k)])
    BY <1>1, KeyKept
  <1>3. Data(k) = "answer" => Card(k)' = Card(k) /\ chat'[Card(k)] = chat[Card(k)]
    BY <1>1, KeyKept, AnswerIsTap
  <1> QED
    BY <1>2, <1>3 DEF Right

\* So does what is true of a handler, unless its lock is taken away or its
\* update is sent by another.
LEMMA FineKept ==
    ASSUME Group, Extends, StayBound, diskSeen \subseteq diskSeen', NEW h, NEW r, Fine(h, r),
           r.at \in Holding => lock'[r.term] = h,
           r.at \notin {"idle", "calling"} => \A i \in 1..Len(calls') : calls'[i].key # r.key
    PROVE  Fine(h, r)'
  <1>1. r.at # "idle" => r.key \in Delivered' /\ r.key \in diskSeen'
    BY KeyKept DEF Fine
  <1>2. r.at \in Looked => Right(r)'
    <2>1. r.at \in Looked => r.key \in Delivered /\ Right(r)
      BY DEF Looked, Fine
    <2> QED
      BY <2>1, RightKept
  <1>3. r.at = "consume" => (replies[Card(r.key)] # None)'
    <2> SUFFICES ASSUME r.at = "consume" PROVE (replies[Card(r.key)] # None)'
      OBVIOUS
    <2>1. r.key \in Delivered /\ IsTap(r.key) /\ replies[Card(r.key)] # None
      BY DEF Fine
    <2>2. Card(r.key) \in 1..Len(chat) /\ Card(r.key)' = Card(r.key)
      BY <2>1, KeyParts, KeyKept
    <2>3. Len(chat) \in Nat /\ Len(chat) <= MaxMessages
      BY DEF Group
    <2>4. Card(r.key) \in 1..MaxMessages
      BY <2>2, <2>3, RoutingAssumption
    <2> QED
      BY <2>1, <2>2, <2>4 DEF StayBound
  <1> QED
    BY <1>1, <1>2, <1>3 DEF Fine

\* What was bound to its message stays so.
LEMMA BoundKept == ASSUME Group, Extends, NEW b, BoundRight(b) PROVE BoundRight(b)'
  <1>1. Len(chat) \in Nat
    BY DEF Group
  <1> QED
    BY <1>1 DEF BoundRight, Extends

\* And what was sent.
LEMMA SentKept ==
    ASSUME Group, Extends, Sent, diskSeen \subseteq diskSeen', UNCHANGED calls
    PROVE  Sent'
  <1>1. \A i \in 1..Len(calls) : calls[i].key \in Delivered'
    BY KeyKept DEF Sent
  <1>2. \A i \in 1..Len(calls) : Data(calls[i].key)' = Data(calls[i].key)
    <2> SUFFICES ASSUME NEW i \in 1..Len(calls)
                 PROVE  Data(calls[i].key)' = Data(calls[i].key)
      OBVIOUS
    <2>1. PICK k : k = calls[i].key
      OBVIOUS
    <2>2. calls'[i].key = k /\ k \in Delivered
      BY <2>1 DEF Sent
    <2>3. Data(k)' = Data(k)
      BY <2>2, KeyKept
    <2> QED
      BY <2>1, <2>2, <2>3 DEF Data, IsTap
  <1>3. \A i \in 1..Len(calls) : Right(calls[i])'
    <2> SUFFICES ASSUME NEW i \in 1..Len(calls) PROVE Right(calls[i])'
      OBVIOUS
    <2>1. PICK c : c = calls[i]
      OBVIOUS
    <2>2. c.key \in Delivered /\ Right(c)
      BY <2>1 DEF Sent
    <2>3. Right(c)'
      BY <2>2, RightKept
    <2> QED
      BY <2>1, <2>3 DEF Right, Reply, Data, Card, IsTap
  <1> QED
    BY <1>1, <1>2, <1>3 DEF Sent, AtMostOnce

-----------------------------------------------------------------------------
(* One handler moves *)

\* What a step of one handler leaves to the others.
Around ==
    /\ Extends /\ Group' /\ Store' /\ Sent' /\ HostType'
    /\ diskSeen \subseteq diskSeen' /\ StayBound

\* Handler h moves on to r, with an update that was its own or is new; the locks
\* and the calls it does not take are those that were.
LEMMA MoveKeeps ==
    ASSUME IInv, Around, NEW h \in Handlers, NEW r,
           handler' = [handler EXCEPT ![h] = r], Fine(h, r)',
           r.at # "idle" => \/ r.key \notin diskSeen
                            \/ r.key = handler[h].key /\ handler[h].at # "idle",
           lock' \in [Terminals -> Handlers \cup {None}],
           \A t \in Terminals : \/ /\ lock'[t] = h /\ lock[t] \in {h, None}
                                   /\ r.term = t /\ r.at \in Holding
                                \/ lock'[t] # h /\ lock'[t] = lock[t]
                                \/ lock'[t] = None /\ lock[t] = h,
           \A i \in 1..Len(calls') :
               \/ i \in 1..Len(calls) /\ calls'[i] = calls[i]
               \/ calls'[i].key = handler[h].key /\ handler[h].at # "idle"
    PROVE  IInv'
  <1>1. r \in HandlerType
    BY DEF Fine
  <1>2. \A g \in Handlers : handler'[g] = IF g = h THEN r ELSE handler[g]
    BY DEF IInv, Crew
  <1>3. handler' \in [Handlers -> HandlerType]
    BY <1>1 DEF IInv, Crew
  <1>4. ASSUME NEW g \in Handlers, g # h, NEW q \in HandlerType, handler'[g] = q
        PROVE  Fine(g, q)'
    <2>1. handler[g] = q
      BY <1>2, <1>4
    <2>2. Fine(g, q)
      BY <2>1 DEF IInv, Crew
    <2>3. q.at \in Holding => lock'[q.term] = g
      <3>1. q.at \in Holding => q.term \in Terminals /\ lock[q.term] = g
        BY <2>2 DEF Fine
      <3> QED
        BY <1>4, <3>1, RoutingAssumption
    <2>4. q.at \notin {"idle", "calling"} => \A i \in 1..Len(calls') : calls'[i].key # q.key
      <3>1. q.at \notin {"idle", "calling"} => \A i \in 1..Len(calls) : calls[i].key # q.key
        BY <2>2 DEF Fine
      <3>2. q.at # "idle" /\ handler[h].at # "idle" => handler[h].key # q.key
        BY <1>4, <2>1 DEF IInv, Crew
      <3> QED
        BY <3>1, <3>2
    <2> QED
      BY <2>2, <2>3, <2>4, FineKept DEF IInv, Around
  <1>5. handler'[h] = r
    BY <1>2
  <1>6. ASSUME NEW g \in Handlers, g # h, handler[g].at # "idle", r.at # "idle"
        PROVE  handler[g].key # r.key
    BY <1>6 DEF IInv, Crew, Fine
  <1>7. Crew'
    <2>1. ASSUME NEW f \in Handlers, NEW g \in Handlers, f # g,
                 handler'[f].at # "idle", handler'[g].at # "idle"
          PROVE  handler'[f].key # handler'[g].key
      <3>1. CASE f # h /\ g # h
        BY <1>2, <2>1, <3>1 DEF IInv, Crew
      <3>2. CASE f = h \/ g = h
        BY <1>2, <1>6, <2>1, <3>2
      <3> QED
        BY <3>1, <3>2
    <2> QED
      BY <1>3, <1>4, <1>5, <2>1 DEF Crew
  <1>8. Locks'
    <2> SUFFICES ASSUME NEW t \in Terminals, lock'[t] # None
                 PROVE  handler'[lock'[t]].term = t /\ handler'[lock'[t]].at \in Holding
      BY DEF Locks
    <2>1. CASE lock'[t] = h
      BY <1>2, <2>1
    <2>2. CASE lock'[t] # h
      <3>1. lock'[t] = lock[t] /\ lock'[t] \in Handlers
        BY <2>2
      <3> QED
        BY <1>2, <2>2, <3>1 DEF IInv, Locks
    <2> QED
      BY <2>1, <2>2
  <1> QED
    BY <1>7, <1>8 DEF IInv, Around

\* A step that only moves handlers and locks.
LEMMA Inside == ASSUME IInv, UNCHANGED <<state, people, host, calls>> PROVE Around
  <1>1. Extends
    <2>1. Len(chat) \in Nat /\ Len(taps) \in Nat
      BY DEF IInv, Group
    <2> QED
      BY <2>1 DEF people, Extends
  <1>2. Group'
    BY DEF people, IInv, Group
  <1>3. Store'
    BY DEF state, people, IInv, Store, BoundRight
  <1>4. HostType' /\ diskSeen' = diskSeen
    BY DEF state, host, IInv, HostType
  <1>5. Sent'
    BY <1>1, <1>4, SentKept DEF IInv
  <1>6. StayBound
    BY DEF state, StayBound
  <1> QED
    BY <1>1, <1>2, <1>3, <1>4, <1>5, <1>6 DEF Around

\* A handler returns.
LEMMA QuitKeeps ==
    ASSUME IInv, Around, NEW h \in Handlers, Quit(h), UNCHANGED calls
    PROVE  IInv'
  <1>1. Fine(h, Resting)' /\ Resting.at = "idle"
    BY RoutingAssumption DEF Fine, Resting, HandlerType, Phases, Holding, Looked
  <1>2. /\ lock' \in [Terminals -> Handlers \cup {None}]
        /\ \A t \in Terminals : \/ lock'[t] # h /\ lock'[t] = lock[t]
                                \/ lock'[t] = None /\ lock[t] = h
    BY DEF Quit, IInv, Locks
  <1>3. handler' = [handler EXCEPT ![h] = Resting]
    BY DEF Quit
  <1> HIDE DEF Resting
  <1> QED
    BY <1>1, <1>2, <1>3, MoveKeeps

\* A handler goes on with its update and changes neither locks nor calls.
LEMMA GoKeeps ==
    ASSUME IInv, Around, NEW h \in Handlers, NEW r, UNCHANGED <<lock, calls>>,
           handler' = [handler EXCEPT ![h] = r], Fine(h, r)',
           handler[h].at # "idle", r.key = handler[h].key,
           handler[h].at \in Holding => r.at \in Holding /\ r.term = handler[h].term
    PROVE  IInv'
  <1>1. /\ lock' \in [Terminals -> Handlers \cup {None}]
        /\ \A t \in Terminals : \/ /\ lock'[t] = h /\ lock[t] \in {h, None}
                                   /\ r.term = t /\ r.at \in Holding
                                \/ lock'[t] # h /\ lock'[t] = lock[t]
    BY RoutingAssumption DEF IInv, Locks
  <1> QED
    BY <1>1, MoveKeeps

\* No handler moves.
LEMMA StayKeeps == ASSUME IInv, Around, UNCHANGED <<handler, lock, calls>> PROVE IInv'
  <1>1. ASSUME NEW h \in Handlers, NEW r \in HandlerType, handler'[h] = r
        PROVE  Fine(h, r)'
    <2>1. Fine(h, r)
      BY <1>1 DEF IInv, Crew
    <2>2. /\ r.at \in Holding => lock'[r.term] = h
          /\ r.at \notin {"idle", "calling"} => \A i \in 1..Len(calls') : calls'[i].key # r.key
      BY <2>1 DEF Fine
    <2> QED
      BY <2>1, <2>2, FineKept DEF IInv, Around
  <1>2. Crew'
    BY <1>1 DEF IInv, Crew
  <1>3. Locks'
    BY DEF IInv, Locks
  <1> QED
    BY <1>2, <1>3 DEF IInv, Around

\* A handler goes on, and nothing else changes.
LEMMA GoInside ==
    ASSUME IInv, UNCHANGED <<state, people, host, calls, lock>>, NEW h \in Handlers, NEW r,
           handler' = [handler EXCEPT ![h] = r], Fine(h, r),
           handler[h].at # "idle", r.key = handler[h].key,
           handler[h].at \in Holding => r.at \in Holding /\ r.term = handler[h].term
    PROVE  IInv'
  <1>1. Around
    BY Inside
  <1>2. Fine(h, r)'
    <2>1. /\ r.at \in Holding => lock'[r.term] = h
          /\ r.at \notin {"idle", "calling"} => \A i \in 1..Len(calls') : calls'[i].key # r.key
      BY DEF Fine
    <2> QED
      BY <1>1, <2>1, FineKept DEF IInv, Around
  <1> QED
    BY <1>1, <1>2, GoKeeps

\* The state of a handler.
LEMMA HandlerFine ==
    ASSUME IInv, NEW h \in Handlers PROVE Fine(h, handler[h]) /\ handler[h] \in HandlerType
  BY DEF IInv, Crew

-----------------------------------------------------------------------------
(* Handle, step by step *)

\* The only destination of a reply is taken, or the handler gives up.
LEMMA FirstKeeps == ASSUME IInv, NEW h \in Handlers, First(h) PROVE IInv'
  <1> DEFINE found == Candidates(Reply(handler[h].key), None)
             t == CHOOSE t \in found : TRUE
             r == [handler[h] EXCEPT !.at = "lock", !.term = t]
  <1>1. CASE Quit(h)
    BY <1>1, Inside, QuitKeeps DEF First
  <1>2. CASE Cardinality(found) = 1 /\ handler' = [handler EXCEPT ![h] = r] /\ UNCHANGED lock
    <2>1. found # {}
      BY <1>2, FS_EmptySet
    <2>2. t \in Terminals
      BY <2>1 DEF Candidates
    <2> HIDE DEF t
    <2>3. /\ r \in HandlerType /\ r.at = "lock" /\ r.key = handler[h].key /\ r.term = t
      BY <2>2, HandlerFine DEF HandlerType, Phases
    <2> HIDE DEF r
    <2>4. Fine(h, r)
      BY <2>2, <2>3, HandlerFine DEF Fine, First, Holding, Looked
    <2> QED
      BY <1>2, <2>3, <2>4, GoInside DEF First, Holding
  <1> QED
    BY <1>1, <1>2 DEF First

\* What is bound to the message of a card.
LEMMA CardBound ==
    ASSUME IInv, NEW m \in 1..Len(chat), replies[m] # None
    PROVE  /\ m \in 1..MaxMessages /\ replies[m] \in Target
           /\ chat[m].by = "relay" =>
                /\ replies[m].term = chat[m].target.term
                /\ replies[m].epoch = chat[m].target.epoch
                /\ replies[m].prompt = chat[m].target.prompt
  <1>1. m \in 1..MaxMessages
    <2>1. Len(chat) \in Nat /\ Len(chat) <= MaxMessages
      BY DEF IInv, Group
    <2> QED
      BY <2>1, RoutingAssumption
  <1> QED
    BY <1>1 DEF IInv, Store, BoundRight

\* The first look at a pressed button, and what makes the handler give up.
LEMMA CheckKeeps == ASSUME IInv, NEW h \in Handlers, Check(h) PROVE IInv'
  <1> DEFINE k == handler[h].key
             t == replies[Card(k)].term
             r == [handler[h] EXCEPT !.at = "lock", !.term = t]
  <1>1. CASE Quit(h)
    BY <1>1, Inside, QuitKeeps DEF Check
  <1>2. CASE /\ replies[Card(k)] # None /\ Data(k) \in replies[Card(k)].actions
             /\ handler' = [handler EXCEPT ![h] = r] /\ UNCHANGED lock
    <2>1. k \in Delivered /\ IsTap(k)
      BY HandlerFine DEF Check, Fine
    <2>2. Card(k) \in 1..Len(chat)
      BY <2>1, KeyParts DEF IInv
    <2>3. t \in Terminals
      BY <1>2, <2>2, CardBound DEF Target
    <2> HIDE DEF t
    <2>4. /\ r \in HandlerType /\ r.at = "lock" /\ r.key = handler[h].key /\ r.term = t
      BY <2>3, HandlerFine DEF HandlerType, Phases
    <2> HIDE DEF r
    <2>5. Fine(h, r)
      BY <2>3, <2>4, HandlerFine DEF Fine, Check, Holding, Looked
    <2> QED
      BY <1>2, <2>4, <2>5, GoInside DEF Check, Holding
  <1> QED
    BY <1>1, <1>2 DEF Check

\* A handler takes the lock of its terminal.
LEMMA LockKeeps == ASSUME IInv, NEW h \in Handlers, Lock(h) PROVE IInv'
  <1>0. PICK r, t : r = [handler[h] EXCEPT !.at = "second"] /\ t = handler[h].term
    OBVIOUS
  <1>1. Around /\ UNCHANGED calls
    BY Inside DEF Lock
  <1>2. t \in Terminals /\ lock[t] = None /\ lock' = [lock EXCEPT ![t] = h]
    BY <1>0, HandlerFine DEF Lock, Fine, Holding
  <1>3. /\ r \in HandlerType /\ r.at = "second" /\ r.key = handler[h].key /\ r.term = t
    BY <1>0, HandlerFine DEF HandlerType, Phases
  <1>4. handler' = [handler EXCEPT ![h] = r] /\ handler[h].at = "lock"
    BY <1>0 DEF Lock, Goto
  <1>5. /\ lock' \in [Terminals -> Handlers \cup {None}] /\ lock'[t] = h
        /\ \A u \in Terminals : u # t => lock'[u] = lock[u] /\ lock[u] # h
    <2>1. \A u \in Terminals : lock[u] # h
      BY <1>4, RoutingAssumption DEF IInv, Locks, Holding
    <2> QED
      BY <1>2, <2>1 DEF IInv, Locks
  <1>6. Fine(h, r)'
    <2>1. r.key \in Delivered /\ r.key \in diskSeen /\ \A i \in 1..Len(calls) : calls[i].key # r.key
      BY <1>3, <1>4, HandlerFine DEF Fine
    <2>2. r.key \in Delivered' /\ r.key \in diskSeen'
      BY <1>1, <2>1, KeyKept DEF Around, IInv
    <2> QED
      BY <1>1, <1>2, <1>3, <1>5, <2>1, <2>2 DEF Fine, Looked
  <1>7. \A u \in Terminals : \/ /\ lock'[u] = h /\ lock[u] \in {h, None}
                                /\ r.term = u /\ r.at \in Holding
                             \/ lock'[u] # h /\ lock'[u] = lock[u]
    BY <1>2, <1>3, <1>5 DEF Holding
  <1> QED
    BY <1>1, <1>3, <1>4, <1>5, <1>6, <1>7, MoveKeeps

\* Behind the lock the agent is looked up again.
LEMMA SecondKeeps == ASSUME IInv, NEW h \in Handlers, Second(h) PROVE IInv'
  <1> DEFINE k     == handler[h].key
             t     == handler[h].term
             found == Candidates(Reply(k), t)
             fresh == Data(k) = "answer" =>
                        term[t].prompt # None /\ term[t].prompt = replies[Card(k)].prompt
             next  == IF Data(k) \in {"screen", "close"} THEN "card"
                      ELSE IF IsTap(k) THEN "consume" ELSE "call"
             r     == [handler[h] EXCEPT !.at = next, !.epoch = epoch, !.prompt = term[t].prompt]
  <1>1. CASE Quit(h)
    BY <1>1, Inside, QuitKeeps DEF Second
  <1>2. CASE found = {t} /\ fresh /\ handler' = [handler EXCEPT ![h] = r] /\ UNCHANGED lock
    <2>1. k \in Delivered /\ t \in Terminals /\ handler[h].at = "second" /\ Group
      BY HandlerFine DEF Second, Fine, Holding, IInv
    <2>2. next \in Looked /\ next # "calling" /\ (next = "consume" => IsTap(k))
      BY DEF Looked
    <2> HIDE DEF next
    <2>3. r \in HandlerType /\ r.at = next /\ r.key = k /\ r.term = t /\ r.epoch = epoch
          /\ r.prompt = term[t].prompt
      BY <2>1, <2>2, HandlerFine DEF HandlerType, Phases, Looked, IInv, HostType
    <2>4. Reply(k) # 0 => replies[Reply(k)] # None /\ replies[Reply(k)].epoch = epoch
                          /\ t = replies[Reply(k)].term
      BY <1>2 DEF Candidates
    <2>5. Reply(k) \in 0..Len(chat) /\ (IsTap(k) => Reply(k) = Card(k) /\ Reply(k) # 0)
      BY <2>1, KeyParts
    <2>6. Reply(k) # 0 /\ chat[Reply(k)].by = "relay" =>
            /\ t = chat[Reply(k)].target.term /\ epoch = chat[Reply(k)].target.epoch
            /\ replies[Reply(k)].prompt = chat[Reply(k)].target.prompt
      <3> SUFFICES ASSUME Reply(k) # 0, chat[Reply(k)].by = "relay"
                   PROVE  /\ t = chat[Reply(k)].target.term
                          /\ epoch = chat[Reply(k)].target.epoch
                          /\ replies[Reply(k)].prompt = chat[Reply(k)].target.prompt
        OBVIOUS
      <3>1. Reply(k) \in 1..Len(chat)
        BY <2>1, <2>5 DEF Group
      <3> QED
        BY <2>4, <3>1, CardBound
    <2>7. Data(k) = "answer" => IsTap(k) /\ chat[Card(k)].by = "relay"
      BY <2>1, AnswerIsTap, KeyParts
    <2>8. Data(k) = "answer" =>
            term[t].prompt # None /\ term[t].prompt = chat[Card(k)].target.prompt
      BY <1>2, <2>5, <2>6, <2>7
    <2>12. next = "consume" => replies[Card(k)] # None
      BY <2>2, <2>4, <2>5
    <2> HIDE DEF r, t, k
    <2>9. Right(r)
      BY <2>3, <2>6, <2>8 DEF Right
    <2>10. Fine(h, handler[h]) /\ k = handler[h].key /\ t = handler[h].term
      BY HandlerFine DEF k, t
    <2>11. Fine(h, r)
      BY <2>1, <2>2, <2>3, <2>9, <2>10, <2>12 DEF Fine, Holding, Looked
    <2> QED
      BY <1>2, <2>1, <2>2, <2>3, <2>10, <2>11, GoInside DEF Second, Holding, Looked
  <1> QED
    BY <1>1, <1>2 DEF Second

\* A save that succeeds or fails, with more updates marked and other bindings.
LEMMA PersistKeeps ==
    ASSUME Store, Group, Extends, NEW ok \in BOOLEAN, Persist(ok),
           seen' \subseteq Keys, seen \subseteq seen', BoundRight(replies)'
    PROVE  Store' /\ diskSeen \subseteq diskSeen'
  <1>1. ASSUME NEW b, b = diskReplies PROVE BoundRight(b)'
    BY <1>1, BoundKept DEF Store
  <1>2. BoundRight(diskReplies)'
    <2>1. CASE ok
      BY <2>1 DEF Persist, BoundRight
    <2>2. CASE ~ok
      BY <1>1, <2>2 DEF Persist, BoundRight
    <2> QED
      BY <2>1, <2>2
  <1> QED
    BY <1>2 DEF Store, Persist

\* An update is taken: it is marked as seen on disk before it acts.
LEMMA AcceptKeeps ==
    ASSUME IInv, NEW h \in Handlers, NEW k \in Delivered, Accept(h, k)
    PROVE  IInv'
  <1>1. k \in Keys /\ k \notin seen /\ Group /\ Store
    BY KeyType DEF IInv, Accept
  <1>2. Extends /\ Group' /\ HostType' /\ UNCHANGED calls
    <2>1. Len(chat) \in Nat /\ Len(taps) \in Nat
      BY DEF IInv, Group
    <2> QED
      BY <2>1 DEF Accept, people, host, Extends, IInv, Group, HostType
  <1>3. ASSUME NEW ok \in BOOLEAN, Persist(ok) PROVE Around
    <2>1. BoundRight(replies)'
      BY <1>1 DEF Accept, people, Store, BoundRight
    <2>2. Store' /\ diskSeen \subseteq diskSeen'
      BY <1>1, <1>2, <1>3, <2>1, PersistKeeps DEF Accept, Store
    <2>3. Sent'
      BY <1>1, <1>2, <2>2, SentKept DEF IInv
    <2> QED
      BY <1>2, <2>2, <2>3 DEF Around, Accept, StayBound
  <1>4. CASE Persist(FALSE) /\ UNCHANGED handler
    BY <1>3, <1>4, StayKeeps DEF Accept
  <1>5. CASE /\ Persist(TRUE)
             /\ handler' = [handler EXCEPT ![h].at = IF IsTap(k) THEN "check" ELSE "first",
                                           ![h].key = k]
    <2>0. PICK r : r = [handler[h] EXCEPT !.at = IF IsTap(k) THEN "check" ELSE "first", !.key = k]
      OBVIOUS
    <2>1. r \in HandlerType /\ r.at = (IF IsTap(k) THEN "check" ELSE "first") /\ r.key = k
      BY <1>1, <2>0, HandlerFine DEF HandlerType, Phases
    <2>2. handler' = [handler EXCEPT ![h] = r]
      BY <1>5, <2>0
    <2>3. k \in diskSeen' /\ k \notin diskSeen
      BY <1>1, <1>5 DEF Accept, Persist, Store
    <2>4. k \in Delivered'
      BY <1>1, <1>2, KeyKept
    <2>5. \A i \in 1..Len(calls') : calls'[i].key # k
      BY <1>2, <2>3 DEF IInv, Sent
    <2>6. Fine(h, r)'
      BY <2>1, <2>3, <2>4, <2>5 DEF Fine, Holding, Looked, IsTap
    <2>7. /\ lock' \in [Terminals -> Handlers \cup {None}]
          /\ \A t \in Terminals : lock'[t] # h /\ lock'[t] = lock[t]
      BY RoutingAssumption DEF Accept, IInv, Locks, Holding
    <2> QED
      BY <1>2, <1>3, <1>5, <2>1, <2>2, <2>3, <2>6, <2>7, MoveKeeps
  <1> QED
    BY <1>4, <1>5 DEF Accept

\* The topic stays as it is.
LEMMA SameTopic == ASSUME IInv, UNCHANGED people PROVE Extends /\ Group'
  <1>1. Len(chat) \in Nat /\ Len(taps) \in Nat
    BY DEF IInv, Group
  <1> QED
    BY <1>1 DEF people, Extends, IInv, Group

\* A handler saves other bindings; the topic, the host and the calls stay.
LEMMA BindAround ==
    ASSUME IInv, UNCHANGED <<seen, people, host, calls>>, NEW ok \in BOOLEAN, Persist(ok),
           BoundRight(replies)', StayBound
    PROVE  Around
  <1>1. Extends /\ Group' /\ HostType'
    BY SameTopic DEF host, IInv, HostType
  <1>2. Store' /\ diskSeen \subseteq diskSeen'
    BY <1>1, PersistKeeps DEF IInv, Store
  <1>3. Sent'
    BY <1>1, <1>2, SentKept DEF IInv
  <1> QED
    BY <1>1, <1>2, <1>3 DEF Around

\* The buttons of a card are used up before the call that answers it.
LEMMA ConsumeKeeps == ASSUME IInv, NEW h \in Handlers, Consume(h) PROVE IInv'
  <1> DEFINE k == handler[h].key
             c == Card(k)
  <1>1. k \in Delivered /\ IsTap(k) /\ Group /\ Right(handler[h])
    BY HandlerFine DEF Consume, Fine, IInv, Looked
  <1>2. c \in 1..Len(chat) /\ c \in 1..MaxMessages
    <2>1. Len(chat) \in Nat /\ Len(chat) <= MaxMessages
      BY <1>1 DEF Group
    <2>2. c \in 1..Len(chat)
      BY <1>1, KeyParts
    <2> QED
      BY <2>1, <2>2, RoutingAssumption
  <1>3. UNCHANGED <<seen, people, host, calls>>
    BY DEF Consume
  <1>4. BoundRight(replies)' /\ StayBound
    <2>1. replies' = [replies EXCEPT ![c] = [replies[c] EXCEPT !.actions = {}]]
      BY DEF Consume
    <2>2. replies[c] # None
      BY HandlerFine DEF Consume, Fine
    <2> HIDE DEF c
    <2>3. replies[c] \in Target
      BY <1>2, <2>2, CardBound
    <2>4. PICK b : b = [replies[c] EXCEPT !.actions = {}]
      OBVIOUS
    <2>5. /\ b \in Target /\ b.term = replies[c].term /\ b.epoch = replies[c].epoch
          /\ b.prompt = replies[c].prompt /\ b # None
      BY <2>3, <2>4, NoTargetIsNone DEF Target
    <2>6. /\ replies' \in [1..MaxMessages -> Target \cup {None}]
          /\ \A m \in 1..MaxMessages : replies'[m] = IF m = c THEN b ELSE replies[m]
      BY <1>2, <2>1, <2>4, <2>5 DEF IInv, Store, BoundRight
    <2> QED
      BY <1>2, <1>3, <2>2, <2>5, <2>6 DEF people, IInv, Store, BoundRight, StayBound
  <1>5. ASSUME NEW ok \in BOOLEAN, Persist(ok) PROVE Around
    BY <1>3, <1>4, <1>5, BindAround
  <1>6. CASE Persist(FALSE) /\ Quit(h)
    BY <1>3, <1>5, <1>6, QuitKeeps
  <1>7. CASE Persist(TRUE) /\ Goto(h, "call") /\ UNCHANGED lock
    <2>0. PICK r : r = [handler[h] EXCEPT !.at = "call"]
      OBVIOUS
    <2>1. /\ handler[h] \in HandlerType /\ r \in HandlerType /\ r.at = "call" /\ handler[h].at = "consume"
          /\ r.key = k /\ r.term = handler[h].term /\ r.epoch = handler[h].epoch
          /\ r.prompt = handler[h].prompt
      BY <2>0, HandlerFine DEF HandlerType, Phases, Consume
    <2>2. Fine(h, r)
      BY <2>1, HandlerFine DEF Fine, Holding, Looked, Right
    <2>3. Fine(h, r)'
      <3>1. /\ r.at \in Holding => lock'[r.term] = h
            /\ r.at \notin {"idle", "calling"} => \A i \in 1..Len(calls') : calls'[i].key # r.key
        BY <1>3, <1>7, <2>2 DEF Fine
      <3> QED
        BY <1>5, <1>7, <2>2, <3>1, FineKept DEF Around, IInv
    <2>4. handler' = [handler EXCEPT ![h] = r]
      BY <1>7, <2>0 DEF Goto
    <2> QED
      BY <1>3, <1>5, <1>7, <2>1, <2>3, <2>4, GoKeeps DEF Holding
  <1> QED
    BY <1>6, <1>7 DEF Consume

\* The call leaves for the host.
LEMMA CallKeeps == ASSUME IInv, NEW h \in Handlers, Call(h) PROVE IInv'
  <1>0. PICK r : r = [handler[h] EXCEPT !.at = "calling"]
    OBVIOUS
  <1>1. /\ handler[h] \in HandlerType /\ r \in HandlerType /\ r.at = "calling"
        /\ handler[h].at = "call" /\ r.key = handler[h].key /\ r.term = handler[h].term
        /\ r.epoch = handler[h].epoch /\ r.prompt = handler[h].prompt
    BY <1>0, HandlerFine DEF HandlerType, Phases, Call
  <1>2. PICK c : c = [key |-> r.key, term |-> r.term, data |-> Data(r.key),
                      epoch |-> r.epoch, prompt |-> r.prompt]
    OBVIOUS
  <1>3. Fine(h, r) /\ r.key \in Delivered /\ r.key \in diskSeen /\ r.term \in Terminals /\ Right(r)
        /\ \A i \in 1..Len(calls) : calls[i].key # r.key
    BY <1>1, HandlerFine DEF Fine, Holding, Looked, Right
  <1>4. /\ c \in CallType /\ Right(c) /\ c.data = Data(c.key) /\ c.key = r.key
    <2>1. r.key \in Keys /\ Data(r.key) \in Actions \cup Words
      BY <1>3, KeyType, KeyParts DEF IInv
    <2>2. c \in CallType
      BY <1>1, <1>2, <1>3, <2>1 DEF CallType, HandlerType
    <2>3. c.key = r.key /\ c.term = r.term /\ c.data = Data(r.key) /\ c.epoch = r.epoch
          /\ c.prompt = r.prompt
      BY <1>2
    <2> QED
      BY <1>3, <2>2, <2>3 DEF Right
  <1>5. UNCHANGED <<state, people, host, lock>> /\ calls' = Append(calls, c)
    BY <1>1, <1>2 DEF Call
  <1>6. /\ calls \in Seq(CallType) /\ calls' \in Seq(CallType) /\ Len(calls') = Len(calls) + 1
        /\ Len(calls) \in Nat
        /\ \A i \in 1..Len(calls') : \/ i \in 1..Len(calls) /\ calls'[i] = calls[i]
                                     \/ i = Len(calls) + 1 /\ calls'[i] = c
    BY <1>4, <1>5 DEF IInv, Sent
  <1>7. Extends /\ Group' /\ Store' /\ HostType' /\ diskSeen' = diskSeen
    <2>1. Store'
      BY <1>5 DEF state, people, IInv, Store, BoundRight
    <2> QED
      BY <1>5, <2>1, SameTopic DEF state, host, IInv, HostType
  <1>8. Sent'
    <2>1. AtMostOnce'
      <3> SUFFICES ASSUME NEW i \in 1..Len(calls'), NEW j \in 1..Len(calls'),
                          calls'[i].key = calls'[j].key
                   PROVE  i = j
        BY DEF AtMostOnce
      <3> QED
        BY <1>3, <1>4, <1>6 DEF IInv, Sent, AtMostOnce
    <2>2. \A i \in 1..Len(calls') :
            /\ calls'[i].key \in Delivered /\ calls'[i].key \in diskSeen
            /\ calls'[i].data = Data(calls'[i].key) /\ Right(calls'[i])
      BY <1>3, <1>4, <1>6 DEF IInv, Sent
    <2>3. ASSUME NEW i \in 1..Len(calls'), NEW d, d = calls'[i]
          PROVE  /\ d.key \in Delivered' /\ d.key \in diskSeen'
                 /\ d.data = Data(d.key)' /\ Right(d)'
      <3>1. d.key \in Delivered /\ d.key \in diskSeen /\ d.data = Data(d.key) /\ Right(d)
        BY <2>2, <2>3
      <3>2. d.key \in Delivered' /\ Data(d.key)' = Data(d.key)
        BY <1>7, <3>1, KeyKept DEF IInv
      <3>3. Right(d)'
        BY <1>7, <3>1, RightKept DEF IInv
      <3> QED
        BY <1>7, <3>1, <3>2, <3>3
    <2>4. \A i \in 1..Len(calls') :
            (/\ calls[i].key \in Delivered /\ calls[i].key \in diskSeen
             /\ calls[i].data = Data(calls[i].key) /\ Right(calls[i]))'
      <3> SUFFICES ASSUME NEW i \in 1..Len(calls')
                   PROVE  (/\ calls[i].key \in Delivered /\ calls[i].key \in diskSeen
                           /\ calls[i].data = Data(calls[i].key) /\ Right(calls[i]))'
        OBVIOUS
      <3>1. PICK d : d = calls'[i]
        OBVIOUS
      <3>2. /\ d.key \in Delivered' /\ d.key \in diskSeen'
            /\ d.data = Data(d.key)' /\ Right(d)'
        BY <2>3, <3>1
      <3> QED
        BY <3>1, <3>2 DEF Right, Data, Reply, Card, IsTap
    <2> QED
      BY <1>6, <2>1, <2>4 DEF Sent
  <1>9. Around
    BY <1>5, <1>7, <1>8 DEF Around, StayBound, state
  <1>10. Fine(h, r)'
    <2>1. r.at \in Holding => lock'[r.term] = h
      BY <1>3, <1>5 DEF Fine
    <2> QED
      BY <1>1, <1>3, <1>9, <2>1, FineKept DEF IInv, Around
  <1>11. /\ lock' \in [Terminals -> Handlers \cup {None}]
         /\ \A t \in Terminals : \/ /\ lock'[t] = h /\ lock[t] \in {h, None}
                                    /\ r.term = t /\ r.at \in Holding
                                 \/ lock'[t] # h /\ lock'[t] = lock[t]
    BY <1>1, <1>5, RoutingAssumption DEF IInv, Locks, Holding
  <1>12. handler' = [handler EXCEPT ![h] = r]
    BY <1>0 DEF Call, Goto
  <1>13. \A i \in 1..Len(calls') : \/ i \in 1..Len(calls) /\ calls'[i] = calls[i]
                                   \/ calls'[i].key = handler[h].key /\ handler[h].at # "idle"
    BY <1>1, <1>4, <1>6
  <1> QED
    BY <1>1, <1>9, <1>10, <1>11, <1>12, <1>13, MoveKeeps

\* The client refused the call before it left.
LEMMA NotSentKeeps == ASSUME IInv, NEW h \in Handlers, NotSent(h) PROVE IInv'
  BY Inside, QuitKeeps DEF NotSent

\* The call is over, answered or in doubt; a new card may be bound.
LEMMA AnsweredKeeps == ASSUME IInv, NEW h \in Handlers, Answered(h) PROVE IInv'
  <1> DEFINE k == handler[h].key
  <1>1. CASE UNCHANGED state
    BY <1>1, Inside, QuitKeeps DEF Answered
  <1>2. ASSUME Data(k) = "text", NEW b,
               b = [term |-> handler[h].term, epoch |-> handler[h].epoch,
                    prompt |-> handler[h].prompt, actions |-> {}],
               replies' = [replies EXCEPT ![k[2]] = b], UNCHANGED seen,
               NEW ok \in BOOLEAN, Persist(ok)
        PROVE  IInv'
    <2>1. k \in Delivered /\ handler[h].term \in Terminals /\ Group /\ handler[h] \in HandlerType
      BY HandlerFine DEF Answered, Fine, IInv, Holding
    <2>2. "text" \notin Actions
      BY DEF Actions
    <2>3. k[2] \in 1..Len(chat) /\ chat[k[2]].by = "user"
      BY <1>2, <2>1, <2>2, KeyParts
    <2>4. k[2] \in 1..MaxMessages /\ Len(chat) \in Nat
      <3>1. Len(chat) \in Nat /\ Len(chat) <= MaxMessages
        BY <2>1 DEF Group
      <3> QED
        BY <2>3, <3>1, RoutingAssumption
    <2>5. b \in Target /\ b # None
      BY <1>2, <2>1, NoTargetIsNone DEF Target, HandlerType
    <2>6. UNCHANGED <<seen, people, host, calls>>
      BY <1>2 DEF Answered
    <2> HIDE DEF k
    <2>7. BoundRight(replies)' /\ StayBound
      <3>1. /\ replies' \in [1..MaxMessages -> Target \cup {None}]
            /\ \A m \in 1..MaxMessages : replies'[m] = IF m = k[2] THEN b ELSE replies[m]
        BY <1>2, <2>4, <2>5 DEF IInv, Store, BoundRight
      <3> QED
        BY <2>3, <2>4, <2>5, <2>6, <3>1 DEF people, IInv, Store, BoundRight, StayBound
    <2>8. Around
      BY <1>2, <2>6, <2>7, BindAround
    <2> QED
      BY <2>6, <2>8, QuitKeeps DEF Answered
  <1> QED
    BY <1>1, <1>2 DEF Answered

\* A message of Relay's is posted and bound.
LEMMA PostAround ==
    ASSUME IInv, NEW t \in Terminals, NEW e \in 0..MaxEpoch, NEW q \in Prompts \cup {None},
           NEW a \in SUBSET Actions, Post(t, e, q, a), UNCHANGED <<taps, host, calls>>
    PROVE  Around
  <1>0. PICK b, m : b = [term |-> t, epoch |-> e, prompt |-> q, actions |-> a] /\ m = Len(chat) + 1
    OBVIOUS
  <1>1. b \in Target /\ b # None
    BY <1>0, NoTargetIsNone DEF Target
  <1>2. PICK w : w = [by |-> "relay", word |-> None, reply |-> 0, target |-> b]
    OBVIOUS
  <1>3. w \in Message /\ w.by = "relay" /\ w.target = b /\ w.reply = 0
    BY <1>1, <1>2, RoutingAssumption DEF Message
  <1>4. /\ m \in Nat /\ m <= MaxMessages /\ m \in 1..MaxMessages
        /\ chat' = Append(chat, w) /\ replies' = [replies EXCEPT ![m] = b]
    <2>1. Len(chat) \in Nat
      BY DEF IInv, Group
    <2> QED
      BY <1>0, <1>2, <2>1, RoutingAssumption DEF Post
  <1>5. /\ chat \in Seq(Message) /\ chat' \in Seq(Message) /\ Len(chat) \in Nat /\ Len(chat') = m
        /\ \A i \in 1..Len(chat) : chat'[i] = chat[i]
        /\ chat'[m] = w
    BY <1>0, <1>3, <1>4 DEF IInv, Group
  <1>6. Extends
    BY <1>0, <1>4, <1>5 DEF Extends, IInv, Group
  <1>7. Group'
    <2>1. \A i \in 1..Len(chat') :
            /\ chat'[i].reply \in 0..Len(chat')
            /\ chat'[i].by = "user" => chat'[i].word \in Words
            /\ chat'[i].by = "relay" => chat'[i].target \in Target
      <3> SUFFICES ASSUME NEW i \in 1..Len(chat')
                   PROVE  /\ chat'[i].reply \in 0..Len(chat')
                          /\ chat'[i].by = "user" => chat'[i].word \in Words
                          /\ chat'[i].by = "relay" => chat'[i].target \in Target
        OBVIOUS
      <3>1. CASE i = m
        BY <1>1, <1>3, <1>4, <1>5, <3>1
      <3>2. CASE i # m
        <4>1. i \in 1..Len(chat) /\ chat'[i] = chat[i]
          BY <1>0, <1>5, <3>2
        <4>2. chat[i].reply \in 0..Len(chat')
          BY <1>0, <1>5, <4>1 DEF IInv, Group
        <4> QED
          BY <4>1, <4>2 DEF IInv, Group
      <3> QED
        BY <3>1, <3>2
    <2>2. \A i \in 1..Len(taps') : taps'[i].card \in 1..Len(chat') /\ chat'[taps'[i].card].by = "relay"
      <3> SUFFICES ASSUME NEW i \in 1..Len(taps)
                   PROVE  taps[i].card \in 1..Len(chat') /\ chat'[taps[i].card].by = "relay"
        OBVIOUS
      <3>1. taps[i].card \in 1..Len(chat) /\ chat[taps[i].card].by = "relay"
        BY DEF IInv, Group
      <3> QED
        BY <1>0, <1>5, <3>1
    <2> QED
      BY <1>4, <1>5, <2>1, <2>2 DEF IInv, Group
  <1>8. BoundRight(replies)' /\ StayBound
    <2>1. /\ replies' \in [1..MaxMessages -> Target \cup {None}]
          /\ \A i \in 1..MaxMessages : replies'[i] = IF i = m THEN b ELSE replies[i]
      BY <1>1, <1>4 DEF IInv, Store, BoundRight
    <2>2. b.term = w.target.term /\ b.epoch = w.target.epoch /\ b.prompt = w.target.prompt
      BY <1>3
    <2>3. BoundRight(replies)'
      <3> SUFFICES ASSUME NEW i \in 1..MaxMessages, replies'[i] # None
                   PROVE  /\ i <= Len(chat')
                          /\ chat'[i].by = "relay" =>
                               /\ replies'[i].term = chat'[i].target.term
                               /\ replies'[i].epoch = chat'[i].target.epoch
                               /\ replies'[i].prompt = chat'[i].target.prompt
        BY <2>1 DEF BoundRight
      <3>1. CASE i = m
        BY <1>4, <1>5, <2>1, <2>2, <3>1
      <3>2. CASE i # m
        <4>1. replies'[i] = replies[i] /\ i <= Len(chat)
          BY <2>1, <3>2 DEF IInv, Store, BoundRight
        <4>2. i \in 1..Len(chat) /\ chat'[i] = chat[i] /\ i <= Len(chat')
          BY <1>0, <1>5, <4>1
        <4> QED
          BY <4>1, <4>2 DEF IInv, Store, BoundRight
      <3> QED
        BY <3>1, <3>2
    <2> QED
      BY <1>1, <2>1, <2>3 DEF StayBound
  <1>9. PICK ok \in BOOLEAN : Persist(ok)
    BY DEF Post
  <1>10. seen' = seen
    BY DEF Post
  <1>11. Store' /\ diskSeen \subseteq diskSeen'
    BY <1>6, <1>8, <1>9, <1>10, PersistKeeps DEF IInv, Store
  <1>12. Sent' /\ HostType'
    BY <1>6, <1>11, SentKept DEF IInv, host, HostType
  <1> QED
    BY <1>6, <1>7, <1>8, <1>11, <1>12 DEF Around

\* The screen button posts what the terminal shows.
LEMMA ShowScreenKeeps == ASSUME IInv, NEW h \in Handlers, ShowScreen(h) PROVE IInv'
  <1>1. CASE UNCHANGED <<state, chat>>
    BY <1>1, Inside, QuitKeeps DEF ShowScreen, people
  <1>2. CASE Post(handler[h].term, handler[h].epoch, handler[h].prompt,
                  IF Data(handler[h].key) = "close" THEN {"kill", "cancel"} ELSE {})
    <2>1. /\ handler[h].term \in Terminals /\ handler[h].epoch \in 0..MaxEpoch
          /\ handler[h].prompt \in Prompts \cup {None}
      BY HandlerFine DEF ShowScreen, Fine, Holding, HandlerType
    <2>2. (IF Data(handler[h].key) = "close" THEN {"kill", "cancel"} ELSE {}) \in SUBSET Actions
      BY DEF Actions
    <2>3. Around
      BY <1>2, <2>1, <2>2, PostAround DEF ShowScreen
    <2> QED
      BY <2>3, QuitKeeps DEF ShowScreen
  <1> QED
    BY <1>1, <1>2 DEF ShowScreen

-----------------------------------------------------------------------------
(* The rest of the process, the people and the host *)

\* What a terminal has to tell is posted.
LEMMA NotifyKeeps == ASSUME IInv, NEW t \in Terminals, Notify(t) PROVE IInv'
  <1>1. /\ epoch \in 0..MaxEpoch /\ term[t].prompt \in Prompts \cup {None}
        /\ (IF term[t].prompt = None THEN {"screen", "focus"} ELSE {"answer"}) \in SUBSET Actions
    BY DEF IInv, HostType, Actions
  <1>2. Around
    BY <1>1, PostAround DEF Notify
  <1> QED
    BY <1>2, StayKeeps DEF Notify

\* A new process starts from what is on disk.
LEMMA RestartKeeps == ASSUME IInv, Restart PROVE IInv'
  <1>1. Extends /\ Group' /\ HostType' /\ diskSeen' = diskSeen
    BY SameTopic DEF Restart, host, IInv, HostType
  <1>2. Store'
    BY DEF Restart, people, IInv, Store, BoundRight
  <1>3. Sent'
    BY <1>1, SentKept DEF Restart, IInv
  <1>4. Resting \in HandlerType /\ Resting.at = "idle"
    BY RoutingAssumption DEF Resting, HandlerType, Phases
  <1>5. Crew'
    <2>1. /\ handler' \in [Handlers -> HandlerType]
          /\ \A h \in Handlers : handler'[h] = Resting
      BY <1>4 DEF Restart
    <2>2. ASSUME NEW h \in Handlers, NEW r \in HandlerType, r = Resting PROVE Fine(h, r)'
      BY <1>4, <2>2 DEF Fine, Holding, Looked
    <2> QED
      BY <1>4, <2>1, <2>2 DEF Crew
  <1>6. Locks'
    BY DEF Restart, Locks
  <1> QED
    BY <1>1, <1>2, <1>3, <1>5, <1>6 DEF IInv

\* Someone writes into the topic.
LEMMA WriteKeeps ==
    ASSUME IInv, NEW word \in Words, NEW reply \in 0..Len(chat), Write(word, reply)
    PROVE  IInv'
  <1>1. PICK w : w = [by |-> "user", word |-> word, reply |-> reply, target |-> None]
    OBVIOUS
  <1>2. Len(chat) \in Nat /\ Len(chat) < MaxMessages /\ MaxMessages \in Nat
    BY RoutingAssumption DEF IInv, Group, Write
  <1>3. w \in Message /\ w.by = "user" /\ w.word = word /\ w.reply = reply
    BY <1>1, <1>2 DEF Message
  <1>4. /\ chat \in Seq(Message) /\ chat' \in Seq(Message) /\ Len(chat') = Len(chat) + 1
        /\ \A i \in 1..Len(chat) : chat'[i] = chat[i]
        /\ chat'[Len(chat) + 1] = w
    BY <1>1, <1>2, <1>3 DEF Write, IInv, Group
  <1>5. Extends
    BY <1>2, <1>4 DEF Extends, Write, IInv, Group
  <1>6. Group'
    <2>1. \A i \in 1..Len(chat') :
            /\ chat'[i].reply \in 0..Len(chat')
            /\ chat'[i].by = "user" => chat'[i].word \in Words
            /\ chat'[i].by = "relay" => chat'[i].target \in Target
      <3> SUFFICES ASSUME NEW i \in 1..Len(chat')
                   PROVE  /\ chat'[i].reply \in 0..Len(chat')
                          /\ chat'[i].by = "user" => chat'[i].word \in Words
                          /\ chat'[i].by = "relay" => chat'[i].target \in Target
        OBVIOUS
      <3>1. CASE i = Len(chat) + 1
        BY <1>2, <1>3, <1>4, <3>1
      <3>2. CASE i # Len(chat) + 1
        <4>1. i \in 1..Len(chat) /\ chat'[i] = chat[i]
          BY <1>2, <1>4, <3>2
        <4>2. chat[i].reply \in 0..Len(chat')
          BY <1>2, <1>4, <4>1 DEF IInv, Group
        <4> QED
          BY <4>1, <4>2 DEF IInv, Group
      <3> QED
        BY <3>1, <3>2
    <2>2. \A i \in 1..Len(taps') : taps'[i].card \in 1..Len(chat') /\ chat'[taps'[i].card].by = "relay"
      <3> SUFFICES ASSUME NEW i \in 1..Len(taps)
                   PROVE  taps[i].card \in 1..Len(chat') /\ chat'[taps[i].card].by = "relay"
        BY DEF Write
      <3>1. taps[i].card \in 1..Len(chat) /\ chat[taps[i].card].by = "relay"
        BY DEF IInv, Group
      <3> QED
        BY <1>2, <1>4, <3>1
    <2> QED
      BY <1>2, <1>4, <2>1, <2>2 DEF IInv, Group, Write
  <1>7. Store' /\ diskSeen' = diskSeen /\ StayBound
    <2>1. ASSUME NEW b, BoundRight(b) PROVE BoundRight(b)'
      BY <1>5, <2>1, BoundKept DEF IInv
    <2>2. PICK a, b : a = replies /\ b = diskReplies
      OBVIOUS
    <2>3. BoundRight(a)' /\ BoundRight(b)' /\ a = replies' /\ b = diskReplies'
      BY <2>1, <2>2 DEF IInv, Store, Write, state
    <2>4. BoundRight(replies)' /\ BoundRight(diskReplies)'
      BY <2>3 DEF BoundRight
    <2> QED
      BY <2>4 DEF IInv, Store, Write, state, StayBound
  <1>8. Sent' /\ HostType'
    BY <1>5, <1>7, SentKept DEF IInv, Write, host, HostType
  <1>9. Around
    BY <1>5, <1>6, <1>7, <1>8 DEF Around
  <1> QED
    BY <1>9, StayKeeps DEF Write

\* Someone presses a button of a message.
LEMMA TapKeeps ==
    ASSUME IInv, NEW card \in 1..Len(chat), NEW data \in Actions, Tap(card, data)
    PROVE  IInv'
  <1> DEFINE P == [card : 1..MaxMessages, data : Actions]
  <1>1. PICK p : p = [card |-> card, data |-> data]
    OBVIOUS
  <1>2. Len(taps) \in Nat /\ Len(chat) \in Nat /\ Len(chat) <= MaxMessages
    BY DEF IInv, Group
  <1>3. p \in P /\ p.card = card
    BY <1>1, <1>2, RoutingAssumption
  <1>4. taps \in Seq(P) /\ taps' = Append(taps, p)
    BY <1>1 DEF IInv, Group, Tap
  <1>5. /\ taps' \in Seq(P) /\ Len(taps') = Len(taps) + 1
        /\ \A i \in 1..Len(taps) : taps'[i] = taps[i]
        /\ taps'[Len(taps) + 1] = p
    <2> HIDE DEF P
    <2> QED
      BY <1>2, <1>3, <1>4
  <1>6. Extends
    BY <1>2, <1>5 DEF Extends, Tap
  <1>7. Group'
    <2>1. \A i \in 1..Len(taps') : taps'[i].card \in 1..Len(chat') /\ chat'[taps'[i].card].by = "relay"
      <3> SUFFICES ASSUME NEW i \in 1..Len(taps')
                   PROVE  taps'[i].card \in 1..Len(chat) /\ chat[taps'[i].card].by = "relay"
        BY DEF Tap
      <3>1. CASE i = Len(taps) + 1
        BY <1>3, <1>5, <3>1 DEF Tap
      <3>2. CASE i # Len(taps) + 1
        <4>1. i \in 1..Len(taps) /\ taps'[i] = taps[i]
          BY <1>2, <1>5, <3>2
        <4> QED
          BY <4>1 DEF IInv, Group
      <3> QED
        BY <3>1, <3>2
    <2>2. Len(taps') <= MaxTaps
      BY <1>2, <1>5, RoutingAssumption DEF Tap
    <2>3. taps' \in Seq([card : 1..MaxMessages, data : Actions]) /\ chat' = chat
      BY <1>5 DEF Tap
    <2> QED
      BY <2>1, <2>2, <2>3 DEF IInv, Group
  <1>8. Store' /\ diskSeen' = diskSeen /\ StayBound
    BY DEF IInv, Store, Tap, state, BoundRight, StayBound
  <1>9. Sent' /\ HostType'
    BY <1>6, <1>8, SentKept DEF IInv, Tap, host, HostType
  <1>10. Around
    BY <1>6, <1>7, <1>8, <1>9 DEF Around
  <1> QED
    BY <1>10, StayKeeps DEF Tap

\* The host moves on: prompts, sessions, roles.
LEMMA HostKeeps ==
    ASSUME IInv, HostRestarts \/ \E t \in Terminals : TerminalChanges(t)
    PROVE  IInv'
  <1>1. UNCHANGED <<state, people, handler, lock, calls>>
    BY DEF HostRestarts, TerminalChanges
  <1>2. Extends /\ Group' /\ diskSeen' = diskSeen /\ StayBound
    BY <1>1, SameTopic DEF state, StayBound
  <1>3. Store'
    BY <1>1 DEF state, people, IInv, Store, BoundRight
  <1>4. HostType'
    <2>1. CASE HostRestarts
      BY <2>1, RoutingAssumption DEF HostRestarts, IInv, HostType
    <2>2. CASE \E t \in Terminals : TerminalChanges(t)
      BY <2>2 DEF TerminalChanges, IInv, HostType
    <2> QED
      BY <2>1, <2>2
  <1>5. Sent'
    BY <1>1, <1>2, SentKept DEF IInv
  <1>6. Around
    BY <1>2, <1>3, <1>4, <1>5 DEF Around
  <1> QED
    BY <1>1, <1>6, StayKeeps

\* A stuttering step.
LEMMA UnchangedKeeps == ASSUME IInv, UNCHANGED vars PROVE IInv'
  <1>1. UNCHANGED <<state, people, host, calls, handler, lock>>
    BY DEF vars, state, people, host
  <1> QED
    BY <1>1, Inside, StayKeeps

\* Every step keeps the invariant.
LEMMA StepKeeps == ASSUME IInv, [Next]_vars PROVE IInv'
  <1>1. ASSUME NEW h \in Handlers, Handle(h) PROVE IInv'
    BY <1>1, FirstKeeps, CheckKeeps, LockKeeps, SecondKeeps, ConsumeKeeps, CallKeeps,
       NotSentKeeps, AnsweredKeeps, ShowScreenKeeps DEF Handle
  <1> QED
    BY <1>1, AcceptKeeps, NotifyKeeps, HostKeeps, WriteKeeps, TapKeeps, RestartKeeps,
       UnchangedKeeps DEF Next

\* It holds at first.
LEMMA InitHolds == ASSUME Init PROVE IInv
  <1>1. Group
    <2>1. chat = <<>> /\ taps = <<>> /\ Len(chat) = 0 /\ Len(taps) = 0
      BY DEF Init
    <2>2. /\ chat \in Seq(Message) /\ taps \in Seq([card : 1..MaxMessages, data : Actions])
          /\ \A i \in 1..Len(chat) : FALSE
          /\ \A i \in 1..Len(taps) : FALSE
      BY <2>1
    <2>3. Len(chat) <= MaxMessages /\ Len(taps) <= MaxTaps
      BY <2>1, RoutingAssumption
    <2> QED
      BY <2>2, <2>3 DEF Group
  <1>2. Store
    BY DEF Init, Store, BoundRight
  <1>3. Resting \in HandlerType /\ Resting.at = "idle"
    BY RoutingAssumption DEF Resting, HandlerType, Phases
  <1>4. Crew
    <2>1. handler \in [Handlers -> HandlerType] /\ \A h \in Handlers : handler[h] = Resting
      BY <1>3 DEF Init
    <2>2. ASSUME NEW h \in Handlers PROVE Fine(h, Resting)
      BY <1>3 DEF Fine, Holding, Looked
    <2> QED
      BY <1>3, <2>1, <2>2 DEF Crew
  <1>5. Locks
    BY DEF Init, Locks
  <1>6. Sent
    <2>1. calls = <<>> /\ calls \in Seq(CallType) /\ \A i \in 1..Len(calls) : FALSE
      BY DEF Init
    <2> QED
      BY <2>1 DEF Sent, AtMostOnce
  <1>7. HostType
    BY RoutingAssumption DEF Init, HostType, Roles
  <1> QED
    BY <1>1, <1>2, <1>4, <1>5, <1>6, <1>7 DEF IInv

\* It is an invariant of the specification.
LEMMA SpecIInv == Spec => []IInv
  BY InitHolds, StepKeeps, PTL DEF Spec

-----------------------------------------------------------------------------
(* The theorems *)

\* The invariant implies the properties.
LEMMA Implied == IInv => RoutingInv /\ AtMostOnce /\ ReachesItsAgent /\ AnswersTheQuestion
  <1> SUFFICES ASSUME IInv
               PROVE  RoutingInv /\ AtMostOnce /\ ReachesItsAgent /\ AnswersTheQuestion
    OBVIOUS
  <1>1. TypeOK
    BY DEF IInv, TypeOK, Group, Store, BoundRight, Crew, HandlerType, Locks, Sent, CallType, HostType
  <1>2. Serial
    <2>1. ASSUME NEW h \in Handlers, handler[h].at \in {"consume", "call", "calling"}
          PROVE  lock[handler[h].term] = h
      BY <2>1, HandlerFine DEF Fine, Holding
    <2> QED
      BY <2>1 DEF Serial, IInv, Locks, Holding
  <1>3. AtMostOnce
    BY DEF IInv, Sent
  <1>4. ReachesItsAgent
    BY DEF IInv, Sent, ReachesItsAgent, Right
  <1>5. AnswersTheQuestion
    BY DEF IInv, Sent, AnswersTheQuestion, Right
  <1> QED
    BY <1>1, <1>2, <1>3, <1>4, <1>5 DEF RoutingInv

\* A terminal is locked exactly by the handler that is busy with it, on every
\* path a handler can take (locks, Handle, button).
THEOREM SpecRoutingInv == Spec => []RoutingInv
  BY SpecIInv, Implied, PTL

\* An update reaches the host at most once, whatever is delivered twice, crashes
\* or is not saved (once).
THEOREM SpecAtMostOnce == Spec => []AtMostOnce
  BY SpecIInv, Implied, PTL

\* What answers a card goes to the card's agent, in the session the card was
\* posted in (target, button).
THEOREM SpecReachesItsAgent == Spec => []ReachesItsAgent
  BY SpecIInv, Implied, PTL

\* A question is answered only while it is the one on the card (button).
THEOREM SpecAnswersTheQuestion == Spec => []AnswersTheQuestion
  BY SpecIInv, Implied, PTL

\* The buttons that relay.json offers for a message only become fewer.
Used(m) == diskReplies[m] # None =>
    diskReplies'[m] # None /\ diskReplies'[m].actions \subseteq diskReplies[m].actions

\* Bindings are saved over the same ones.
LEMMA SavedOver ==
    ASSUME IInv, NEW ok \in BOOLEAN, Persist(ok)
    PROVE  diskReplies' = diskReplies \/ (diskReplies = replies /\ diskReplies' = replies')
  BY DEF IInv, Store, Persist

\* Used buttons stay used: no step gives a message in relay.json a button that
\* it does not offer (button, sendTarget, NewRelay).
THEOREM SpecButtonsStayUsed == Spec => ButtonsStayUsed
  <1>1. ASSUME IInv, [Next]_vars, NEW m \in 1..MaxMessages PROVE Used(m)
    <2>1. CASE UNCHANGED diskReplies
      BY <2>1 DEF Used
    <2>2. ASSUME NEW ok \in BOOLEAN, Persist(ok), UNCHANGED replies PROVE Used(m)
      BY <1>1, <2>2, SavedOver DEF Used
    <2>3. ASSUME NEW ok \in BOOLEAN, Persist(ok), NEW c \in 1..MaxMessages, NEW b \in Target,
                 replies' = [replies EXCEPT ![c] = b],
                 replies[c] = None \/ b.actions = {}
          PROVE  Used(m)
      <3>1. \A i \in 1..MaxMessages : replies'[i] = IF i = c THEN b ELSE replies[i]
        BY <1>1, <2>3 DEF IInv, Store, BoundRight
      <3>2. b # None
        BY NoTargetIsNone
      <3> QED
        BY <1>1, <2>3, <3>1, <3>2, SavedOver DEF Used
    <2>4. ASSUME NEW h \in Handlers, Consume(h) PROVE Used(m)
      <3>1. PICK c, b : /\ c = Card(handler[h].key)
                        /\ b = [replies[c] EXCEPT !.actions = {}]
        OBVIOUS
      <3>2. c \in 1..Len(chat) /\ replies[c] # None
        BY <1>1, <2>4, <3>1, HandlerFine, KeyParts DEF Consume, Fine, IInv
      <3>3. c \in 1..MaxMessages /\ replies[c] \in Target
        BY <1>1, <3>2, CardBound
      <3>4. b \in Target /\ b.actions = {}
        BY <3>1, <3>3 DEF Target
      <3>5. replies' = [replies EXCEPT ![c] = b] /\ (Persist(TRUE) \/ Persist(FALSE))
        BY <2>4, <3>1 DEF Consume
      <3> QED
        BY <2>3, <3>3, <3>4, <3>5
    <2>5. ASSUME NEW h \in Handlers, Answered(h) PROVE Used(m)
      <3>1. CASE UNCHANGED state
        BY <2>1, <3>1 DEF state
      <3>2. ASSUME Data(handler[h].key) = "text", NEW b,
                   b = [term |-> handler[h].term, epoch |-> handler[h].epoch,
                        prompt |-> handler[h].prompt, actions |-> {}],
                   replies' = [replies EXCEPT ![handler[h].key[2]] = b],
                   NEW ok \in BOOLEAN, Persist(ok)
            PROVE  Used(m)
        <4>1. PICK k : k = handler[h].key
          OBVIOUS
        <4>2. k \in Delivered /\ handler[h].term \in Terminals /\ handler[h] \in HandlerType
          BY <1>1, <2>5, <4>1, HandlerFine DEF Answered, Fine, Holding
        <4>3. k[2] \in 1..Len(chat)
          BY <1>1, <3>2, <4>1, <4>2, KeyParts DEF IInv, Actions
        <4>4. k[2] \in 1..MaxMessages
          <5>1. Len(chat) \in Nat /\ Len(chat) <= MaxMessages
            BY <1>1 DEF IInv, Group
          <5> QED
            BY <4>3, <5>1, RoutingAssumption
        <4>5. b \in Target /\ b.actions = {}
          BY <3>2, <4>2 DEF Target, HandlerType
        <4> QED
          BY <2>3, <3>2, <4>1, <4>4, <4>5
      <3> QED
        BY <2>5, <3>1, <3>2 DEF Answered
    <2>6. ASSUME NEW t \in Terminals, NEW e \in 0..MaxEpoch, NEW q \in Prompts \cup {None},
                 NEW a \in SUBSET Actions, Post(t, e, q, a)
          PROVE  Used(m)
      <3>1. PICK b, c : /\ b = [term |-> t, epoch |-> e, prompt |-> q, actions |-> a]
                        /\ c = Len(chat) + 1
        OBVIOUS
      <3>2. b \in Target
        BY <3>1 DEF Target
      <3>3. Len(chat) \in Nat /\ c \in 1..MaxMessages /\ replies[c] = None
        <4>1. Len(chat) \in Nat
          BY <1>1 DEF IInv, Group
        <4>2. c \in 1..MaxMessages
          BY <2>6, <3>1, <4>1, RoutingAssumption DEF Post
        <4> QED
          BY <1>1, <3>1, <4>1, <4>2 DEF IInv, Store, BoundRight
      <3>4. replies' = [replies EXCEPT ![c] = b] /\ \E ok \in BOOLEAN : Persist(ok)
        BY <2>6, <3>1 DEF Post
      <3> QED
        BY <2>3, <3>2, <3>3, <3>4
    <2>7. ASSUME NEW h \in Handlers, ShowScreen(h) PROVE Used(m)
      <3>1. /\ handler[h].term \in Terminals /\ handler[h].epoch \in 0..MaxEpoch
            /\ handler[h].prompt \in Prompts \cup {None}
        BY <1>1, <2>7, HandlerFine DEF ShowScreen, Fine, Holding, HandlerType
      <3>2. (IF Data(handler[h].key) = "close" THEN {"kill", "cancel"} ELSE {}) \in SUBSET Actions
        BY DEF Actions
      <3> QED
        BY <2>1, <2>6, <2>7, <3>1, <3>2 DEF ShowScreen, state
    <2>8. ASSUME NEW t \in Terminals, Notify(t) PROVE Used(m)
      <3>1. /\ epoch \in 0..MaxEpoch /\ term[t].prompt \in Prompts \cup {None}
            /\ (IF term[t].prompt = None THEN {"screen", "focus"} ELSE {"answer"}) \in SUBSET Actions
        BY <1>1 DEF IInv, HostType, Actions
      <3> QED
        BY <2>6, <2>8, <3>1 DEF Notify
    <2>9. ASSUME NEW h \in Handlers, NEW k \in Delivered, Accept(h, k) PROVE Used(m)
      BY <2>2, <2>9 DEF Accept
    <2>10. ASSUME NEW h \in Handlers, Handle(h) PROVE Used(m)
      <3>1. CASE First(h) \/ Check(h) \/ Lock(h) \/ Second(h) \/ Call(h) \/ NotSent(h)
        BY <2>1, <3>1 DEF First, Check, Lock, Second, Call, NotSent, state
      <3> QED
        BY <2>4, <2>5, <2>7, <2>10, <3>1 DEF Handle
    <2>11. CASE \/ Restart \/ HostRestarts \/ UNCHANGED vars
                \/ \E t \in Terminals : TerminalChanges(t)
                \/ \E w \in Words, r \in 0..Len(chat) : Write(w, r)
                \/ \E c \in 1..Len(chat), d \in Actions : Tap(c, d)
      BY <2>1, <2>11 DEF Restart, HostRestarts, vars, TerminalChanges, Write, Tap, state
    <2> QED
      BY <1>1, <2>8, <2>9, <2>10, <2>11 DEF Next
  <1>2. IInv /\ [Next]_vars =>
          [\A m \in 1..MaxMessages :
             diskReplies[m] # None =>
                diskReplies'[m] # None /\ diskReplies'[m].actions \subseteq diskReplies[m].actions]_vars
    BY <1>1 DEF Used
  <1> QED
    BY <1>2, SpecIInv, PTL DEF Spec, ButtonsStayUsed
=============================================================================
