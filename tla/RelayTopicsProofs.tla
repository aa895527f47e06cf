-------------------------- MODULE RelayTopicsProofs --------------------------
(***************************************************************************)
(* Theorems about RelayTopics: one workspace with any floors and names and *)
(* any number of topics, for every interleaving of refreshes, commands,    *)
(* crashes and failed saves.                                               *)
(***************************************************************************)
EXTENDS RelayTopics, TLAPS

\* A thread of one map of topics leads to one floor.
Distinct(b) ==
    \A s, k \in Scopes : Bound(b, s) /\ Bound(b, k) /\ b[s].thread = b[k].thread => s = k

\* A topic has a thread of the group; only a Pending one may have thread 0.
Exist(b, n) ==
    \A s \in Scopes : b[s] # None =>
        b[s].thread \in 0..n /\ (~b[s].pending => b[s].thread # 0)

\* The type of a map of topics.
Topics == [Scopes -> Topic \cup {None}]

\* What holds of both maps and of the group, whoever runs.
Store ==
    /\ mem \in Topics /\ disk \in Topics /\ failure \in BOOLEAN
    /\ created \in Seq(Scopes \cup {None})
    /\ Distinct(mem) /\ Distinct(disk)
    /\ Exist(mem, Len(created)) /\ Exist(disk, Len(created))
    /\ \A t \in 1..Len(created) : created[t] # None => disk[created[t]] # None

\* A running process knows every topic of relay.json, and the same ones while
\* no save has failed.
Loaded ==
    /\ \A s \in Scopes : disk[s] # None => mem[s] # None
    /\ ~failure => mem = disk

\* The type of everything but the maps of topics and the group.
RefreshType ==
    /\ proc \in {"down", "initial", "serving"}
    /\ refresh \in [at : {"idle", "fetch", "topics", "create", "items"},
                    todo : SUBSET Scopes, scope : Scopes \cup {None}]
    /\ feed \in [name : [Floors -> Names \cup {None}], status : [Watched -> Statuses \cup {None}]]
    /\ statuses \in [Watched -> Statuses \cup {None}]
    /\ floors \in [Floors -> Names \cup {None}]
    /\ agents \in [Watched -> Statuses]

\* A Refresh is asking for the topic of its scope.
Asking ==
    /\ refresh.scope \in Scopes /\ ~failure
    /\ disk[refresh.scope] # None /\ disk[refresh.scope].pending
    /\ \A t \in 1..Len(created) : created[t] # refresh.scope

\* TopicsInv is not inductive: after a restart the threads of relay.json are
\* those in memory, and a process that is down runs no Refresh.
IInv ==
    /\ Store /\ RefreshType
    /\ proc = "down" => refresh = Idle
    /\ proc # "down" => Loaded
    /\ refresh.at = "create" => Asking

-----------------------------------------------------------------------------
(* Saving a topic *)

\* The topics of the group after a step that made some.
Grown ==
    /\ created' \in Seq(Scopes \cup {None}) /\ Len(created) <= Len(created')
    /\ \A t \in 1..Len(created') : created'[t] # None => disk[created'[t]] # None

\* Making topics for a scope that relay.json knows.
LEMMA MakesGrown ==
    ASSUME Store, NEW s \in Scopes, NEW n \in Nat, Makes(s, n), disk[s] # None
    PROVE  Grown /\ Len(created') = Len(created) + n
  <1> DEFINE more == [k \in 1..n |-> s]
             S == Scopes \cup {None}
  <1>1. created \in Seq(S) /\ created' = created \o more
    BY DEF Store, Makes
  <1>2. more \in Seq(S) /\ Len(more) = n
    OBVIOUS
  <1>3. created' \in Seq(S) /\ Len(created') = Len(created) + n
    BY <1>1, <1>2
  <1>4. ASSUME NEW t \in 1..Len(created'), created'[t] # None
        PROVE  disk[created'[t]] # None
    <2>1. CASE t <= Len(created)
      <3>1. created'[t] = created[t] /\ t \in 1..Len(created)
        BY <1>1, <1>2, <1>3, <2>1
      <3> QED
        BY <1>4, <3>1 DEF Store
    <2>2. CASE t > Len(created)
      <3>1. created'[t] = s
        BY <1>1, <1>2, <1>3, <2>2
      <3> QED
        BY <3>1
    <2> QED
      BY <1>1, <1>3, <2>1, <2>2
  <1>5. Len(created) \in Nat
    BY <1>1
  <1> QED
    BY <1>3, <1>4, <1>5 DEF Grown

\* The topic x may become that of scope s: its thread is of the group and, when
\* it counts, no other scope has it.
Fits(s, x) ==
    /\ x \in Topic /\ x.thread \in 0..Len(created')
    /\ ~x.pending => /\ x.thread # 0
                     /\ \A k \in Scopes \ {s} : Bound(mem, k) => mem[k].thread # x.thread

\* ensureTopic, /bind and /mute change the topic of one scope and save.
LEMMA SaveKeeps ==
    ASSUME Store, Loaded, Grown, NEW s \in Scopes, NEW x, Fits(s, x),
           mem' = [mem EXCEPT ![s] = x], NEW ok \in BOOLEAN, Persist(ok)
    PROVE  Store' /\ Loaded'
  <1>1. mem' \in Topics /\ disk' \in Topics /\ failure' \in BOOLEAN
    BY DEF Store, Fits, Topics, Persist
  <1>2. \A k \in Scopes : mem'[k] = IF k = s THEN x ELSE mem[k]
    BY DEF Store, Topics
  <1>3. x # None
    BY NoTopicIsNone DEF Fits
  <1>4. Distinct(mem')
    BY <1>2, <1>3 DEF Distinct, Bound, Store, Fits
  <1>5. Len(created) \in Nat /\ Len(created') \in Nat /\ Len(created) <= Len(created')
    BY DEF Store, Grown
  <1>6. Exist(mem', Len(created'))
    BY <1>2, <1>3, <1>5 DEF Exist, Store, Fits
  <1>7. Exist(disk, Len(created'))
    BY <1>5 DEF Exist, Store
  <1>8. \A k \in Scopes : disk[k] # None => mem'[k] # None /\ disk'[k] # None
    BY <1>2, <1>3 DEF Loaded, Persist
  <1>9. Distinct(disk') /\ Exist(disk', Len(created'))
    BY <1>4, <1>6, <1>7 DEF Persist, Store
  <1>10. \A t \in 1..Len(created') : created'[t] # None => disk'[created'[t]] # None
    <2> SUFFICES ASSUME NEW t \in 1..Len(created'), created'[t] # None
                 PROVE  disk'[created'[t]] # None
      OBVIOUS
    <2>1. created'[t] \in Scopes
      BY DEF Grown
    <2> QED
      BY <2>1, <1>8 DEF Grown
  <1>11. Loaded'
    BY <1>8 DEF Loaded, Persist
  <1>12. created' \in Seq(Scopes \cup {None})
    BY DEF Grown
  <1> QED
    BY <1>1, <1>4, <1>6, <1>9, <1>10, <1>11, <1>12 DEF Store

-----------------------------------------------------------------------------
(* The steps *)

\* The values that start and end a Refresh.
LEMMA IdleType ==
    /\ Idle \in [at : {"idle"}, todo : SUBSET Scopes, scope : Scopes \cup {None}]
    /\ Idle.at = "idle"
    /\ NoFeed \in [name : [Floors -> Names \cup {None}], status : [Watched -> Statuses \cup {None}]]
  BY DEF Idle, NoFeed

\* A step that saves nothing and asks for nothing.
LEMMA Unsaved ==
    ASSUME IInv, RefreshType', UNCHANGED <<mem, disk, failure, created>>,
           proc' = "down" => refresh' = Idle,
           proc' # "down" => proc # "down",
           refresh'.at = "create" => refresh.at = "create" /\ refresh' = refresh
    PROVE  IInv'
  <1>1. Store'
    BY DEF IInv, Store
  <1>2. proc' # "down" => Loaded'
    BY DEF IInv, Loaded
  <1>3. refresh'.at = "create" => Asking'
    BY DEF IInv, Asking
  <1> QED
    BY <1>1, <1>2, <1>3 DEF IInv

\* Refresh returns without a save.
LEMMA ReturnKeeps ==
    ASSUME IInv, NEW err \in BOOLEAN, Return(err), proc # "down",
           UNCHANGED <<mem, disk, failure, created, floors, agents>>,
           statuses' \in [Watched -> Statuses \cup {None}]
    PROVE  IInv'
  <1>1. RefreshType'
    BY IdleType DEF IInv, RefreshType, Return
  <1>2. refresh' = Idle /\ refresh'.at # "create"
    BY IdleType DEF Return
  <1> QED
    BY <1>1, <1>2, Unsaved

\* Refresh returns after a save.
LEMMA ReturnSaved ==
    ASSUME IInv, Return(TRUE), Store', Loaded', UNCHANGED <<floors, agents>>,
           statuses' \in [Watched -> Statuses \cup {None}]
    PROVE  IInv'
  <1>1. RefreshType'
    BY IdleType DEF IInv, RefreshType, Return
  <1>2. refresh' = Idle /\ refresh'.at # "create"
    BY IdleType DEF Return
  <1> QED
    BY <1>1, <1>2 DEF IInv

\* A Refresh goes on after a save.
LEMMA DoneSaved ==
    ASSUME IInv, NEW s \in Scopes, Done(s), refresh.at \in {"topics", "items"},
           Store', Loaded', UNCHANGED <<proc, feed, floors, agents>>,
           statuses' \in [Watched -> Statuses \cup {None}]
    PROVE  IInv'
  <1>1. /\ refresh' \in [at : {"idle", "fetch", "topics", "create", "items"},
                        todo : SUBSET Scopes, scope : Scopes \cup {None}]
        /\ refresh'.at = refresh.at
    BY DEF IInv, RefreshType, Done
  <1>2. RefreshType'
    BY <1>1 DEF IInv, RefreshType
  <1>3. proc # "down"
    BY IdleType DEF IInv
  <1> QED
    BY <1>1, <1>2, <1>3 DEF IInv

-----------------------------------------------------------------------------
(* One lemma per kind of action *)

\* The process boots, polls or crashes.
LEMMA RunKeeps == ASSUME IInv, Boot \/ Poll \/ Crash PROVE IInv'
  <1>1. CASE Boot
    <2>1. Store' /\ Loaded'
      BY <1>1 DEF Boot, world, IInv, Store, Loaded
    <2>2. RefreshType' /\ refresh'.at = "fetch"
      BY <1>1, IdleType DEF Boot, world, IInv, RefreshType, Idle
    <2> QED
      BY <1>1, <2>1, <2>2 DEF Boot, IInv
  <1>2. CASE Poll
    <2>1. RefreshType' /\ refresh'.at = "fetch"
      BY <1>2 DEF Poll, world, IInv, RefreshType, Idle
    <2> QED
      BY <1>2, <2>1, Unsaved DEF Poll, world
  <1>3. CASE Crash
    <2>1. RefreshType' /\ refresh'.at = "idle" /\ refresh' = Idle
      BY <1>3, IdleType DEF Crash, world, IInv, RefreshType
    <2> QED
      BY <1>3, <2>1, Unsaved DEF Crash, world
  <1> QED
    BY <1>1, <1>2, <1>3

\* A Refresh under way is that of a running process.
LEMMA Running == ASSUME IInv, refresh.at # "idle" PROVE proc # "down" /\ Loaded
  BY IdleType DEF IInv

\* Refresh fetches the feed.
LEMMA FetchKeeps == ASSUME IInv, Fetch PROVE IInv'
  <1>1. proc # "down"
    BY Running DEF Fetch
  <1>2. CASE Return(TRUE) /\ UNCHANGED failure
    <2>1. UNCHANGED <<mem, disk, failure, created, floors, agents, statuses>>
      BY <1>2 DEF Fetch, world
    <2> QED
      BY <1>1, <1>2, <2>1, ReturnKeeps DEF IInv, RefreshType
  <1>3. CASE UNCHANGED <<failure, proc>> /\ refresh'.at = "topics"
             /\ refresh' \in [at : {"topics"}, todo : SUBSET Scopes, scope : {None}]
             /\ feed' \in [name : [Floors -> Names \cup {None}],
                           status : [Watched -> Statuses \cup {None}]]
    <2>1. RefreshType'
      BY <1>3 DEF Fetch, world, IInv, RefreshType
    <2> QED
      BY <1>1, <1>3, <2>1, Unsaved DEF Fetch, world
  <1>4. Floors \subseteq Scopes /\ Maestro \in Scopes
    BY ScopesAssumption DEF Floors
  <1>5. CASE /\ feed' = [name |-> floors, status |-> agents]
             /\ refresh' = [Idle EXCEPT !.at = "topics",
                                     !.todo = {f \in Floors : floors[f] # None} \cup {Maestro}]
             /\ UNCHANGED <<failure, proc>>
    BY <1>3, <1>4, <1>5 DEF IInv, RefreshType, Idle
  <1>6. CASE /\ feed' = NoFeed
             /\ refresh' = [Idle EXCEPT !.at = "topics", !.todo = {Maestro}]
             /\ UNCHANGED <<failure, proc>>
    BY <1>3, <1>4, <1>6, IdleType DEF Idle
  <1> QED
    BY <1>2, <1>5, <1>6 DEF Fetch

\* Nothing made since: the group is what it was.
LEMMA SameGroup == ASSUME Store, UNCHANGED created PROVE Grown
  <1>1. Len(created) \in Nat
    BY DEF Store
  <1> QED
    BY <1>1 DEF Store, Grown

\* A floor with its topic is passed over.
LEMMA KnownKeeps == ASSUME IInv, NEW s \in Scopes, Known(s) PROVE IInv'
  <1>1. proc # "down" /\ Loaded /\ refresh.at = "topics"
    BY Running DEF Known, Turn
  <1>2. Store' /\ Loaded'
    BY <1>1 DEF Known, world, IInv, Store, Loaded
  <1> QED
    BY <1>1, <1>2, DoneSaved DEF Known, world, IInv, RefreshType

\* A creation in doubt ends the Refresh.
LEMMA DoubtfulKeeps == ASSUME IInv, NEW s \in Scopes, Doubtful(s) PROVE IInv'
  <1>1. proc # "down"
    BY Running DEF Doubtful, Turn
  <1> QED
    BY <1>1, ReturnKeeps DEF Doubtful, world, IInv, RefreshType

\* The name of a scope in the feed is a name.
LEMMA NameType == ASSUME IInv, NEW s \in Scopes PROVE NameOf(s) \in Names \cup {None}
  BY DEF NameOf, IInv, RefreshType, Floors

\* A topic of memory with another name or another silence is still good.
LEMMA EditFits ==
    ASSUME Store, UNCHANGED created, NEW s \in Scopes, mem[s] # None, NEW x \in Topic,
           x.thread = mem[s].thread, x.pending = mem[s].pending
    PROVE  Fits(s, x)
  <1>1. \A k \in Scopes \ {s} : ~mem[s].pending /\ Bound(mem, k) => mem[k].thread # x.thread
    BY DEF Store, Distinct, Bound
  <1> QED
    BY <1>1 DEF Store, Exist, Fits

\* A renamed floor renames its topic.
LEMMA RenameKeeps == ASSUME IInv, NEW s \in Scopes, Rename(s) PROVE IInv'
  <1> DEFINE x == [mem[s] EXCEPT !.name = NameOf(s)]
  <1>1. proc # "down" /\ Loaded /\ refresh.at = "topics" /\ Store
    BY Running DEF Rename, Turn, IInv
  <1>2. CASE UNCHANGED <<mem, disk, failure>> /\ Return(TRUE)
    BY <1>1, <1>2, ReturnKeeps DEF Rename, world, IInv, RefreshType
  <1>3. mem[s] \in Topic
    BY DEF Rename, IInv, Store, Topics
  <1>4. x \in Topic /\ x.thread = mem[s].thread /\ x.pending = mem[s].pending
    BY <1>3, NameType DEF Topic
  <1>5. Grown /\ Fits(s, x)
    <2> HIDE DEF x
    <2> QED
      BY <1>1, <1>4, SameGroup, EditFits DEF Rename, world
  <1>6. ASSUME mem' = [mem EXCEPT ![s] = x], NEW ok \in BOOLEAN, Persist(ok)
        PROVE  Store' /\ Loaded'
    <2> HIDE DEF x
    <2> QED
      BY <1>1, <1>5, <1>6, SaveKeeps
  <1>7. /\ statuses' \in [Watched -> Statuses \cup {None}]
        /\ UNCHANGED <<floors, agents>>
    BY DEF Rename, world, IInv, RefreshType
  <1>8. CASE mem' = [mem EXCEPT ![s] = x] /\ Persist(TRUE) /\ Done(s) /\ UNCHANGED <<proc, feed>>
    BY <1>1, <1>6, <1>7, <1>8, DoneSaved
  <1>9. CASE mem' = [mem EXCEPT ![s] = x] /\ Persist(FALSE) /\ Return(TRUE)
    BY <1>6, <1>7, <1>9, ReturnSaved
  <1> QED
    BY <1>2, <1>8, <1>9 DEF Rename

\* A floor without topic is marked as asked for, on disk, before the call.
LEMMA AnnounceKeeps == ASSUME IInv, NEW s \in Scopes, Announce(s) PROVE IInv'
  <1> DEFINE x == [thread |-> 0, pending |-> TRUE, muted |-> FALSE, name |-> NameOf(s)]
  <1>1. proc # "down" /\ Loaded /\ refresh.at = "topics" /\ Store
    BY Running DEF Announce, Turn, IInv
  <1>2. Grown
    BY <1>1, SameGroup DEF Announce, world
  <1>3. Fits(s, x) /\ x.pending
    <2>1. x \in Topic
      BY NameType DEF Topic
    <2>2. Len(created') \in Nat
      BY <1>2 DEF Grown
    <2> QED
      BY <2>1, <2>2 DEF Fits
  <1>4. mem' = [mem EXCEPT ![s] = x]
    BY DEF Announce
  <1>5. ASSUME NEW ok \in BOOLEAN, Persist(ok) PROVE Store' /\ Loaded'
    <2> HIDE DEF x
    <2> QED
      BY <1>1, <1>2, <1>3, <1>4, <1>5, SaveKeeps
  <1>6. /\ statuses' \in [Watched -> Statuses \cup {None}]
        /\ UNCHANGED <<floors, agents, created>>
    BY DEF Announce, world, IInv, RefreshType
  <1>7. CASE Persist(FALSE) /\ Return(TRUE)
    BY <1>5, <1>6, <1>7, ReturnSaved
  <1>8. CASE /\ Persist(TRUE) /\ UNCHANGED <<proc, feed>>
             /\ refresh' = [refresh EXCEPT !.at = "create", !.scope = s]
    <2>1. RefreshType' /\ refresh'.scope = s /\ refresh'.at = "create"
      BY <1>6, <1>8 DEF IInv, RefreshType
    <2>2. disk'[s] = x /\ ~failure'
      BY <1>1, <1>4, <1>8 DEF Persist, Store, Topics
    <2>3. \A t \in 1..Len(created) : created[t] # s
      <3> SUFFICES ASSUME NEW t \in 1..Len(created), created[t] = s PROVE FALSE
        OBVIOUS
      <3>1. disk[s] # None
        BY <1>1, ScopesAssumption DEF Store
      <3> QED
        BY <1>1, <3>1 DEF Loaded, Announce
    <2>4. x # None
      BY <1>3, NoTopicIsNone DEF Fits
    <2>5. Asking'
      <3> HIDE DEF x
      <3> QED
        BY <1>3, <1>6, <2>1, <2>2, <2>3, <2>4 DEF Asking
    <2> QED
      BY <1>1, <1>5, <1>8, <2>1, <2>5 DEF IInv
  <1> QED
    BY <1>7, <1>8 DEF Announce

\* The call failed, and may have made topics nevertheless.
LEMMA CreateFailsKeeps == ASSUME IInv, CreateFails PROVE IInv'
  <1>1. proc # "down" /\ Loaded /\ Store /\ Asking
    BY Running DEF CreateFails, IInv
  <1>2. PICK n \in 0..MaxTries : Makes(refresh.scope, n)
    BY DEF CreateFails
  <1>3. Grown
    BY <1>1, <1>2, MakesGrown, ScopesAssumption DEF Asking
  <1>4. Len(created) \in Nat /\ Len(created') \in Nat /\ Len(created) <= Len(created')
    BY <1>1, <1>3 DEF Store, Grown
  <1>5. Exist(mem', Len(created')) /\ Exist(disk', Len(created'))
    BY <1>1, <1>4 DEF Store, Exist, CreateFails
  <1>6. Store' /\ Loaded'
    BY <1>1, <1>3, <1>5 DEF CreateFails, Store, Loaded, Grown
  <1> QED
    BY <1>6, ReturnSaved DEF CreateFails, IInv, RefreshType

\* The call made a topic, and perhaps others on the way.
LEMMA CreateKeeps == ASSUME IInv, Create PROVE IInv'
  <1> DEFINE s == refresh.scope
             x == [mem[s] EXCEPT !.thread = Len(created'), !.pending = FALSE]
  <1>1. proc # "down" /\ Loaded /\ Store /\ Asking /\ s \in Scopes
    BY Running DEF Create, IInv, Asking
  <1>2. PICK n \in 1..MaxTries : Makes(s, n)
    BY DEF Create
  <1>3. Grown /\ Len(created') = Len(created) + n /\ n \in Nat /\ n > 0
    BY <1>1, <1>2, MakesGrown, ScopesAssumption DEF Asking
  <1>4. Len(created) \in Nat /\ Len(created') \in Nat /\ Len(created) < Len(created')
    BY <1>1, <1>3 DEF Store, Grown
  <1>5. mem[s] \in Topic
    BY <1>1 DEF Asking, Loaded, Store, Topics
  <1>6. x \in Topic /\ x.thread = Len(created') /\ x.pending = FALSE
    BY <1>4, <1>5 DEF Topic
  <1>7. \A k \in Scopes : Bound(mem, k) => mem[k].thread <= Len(created) /\ mem[k].thread \in Nat
    BY <1>1, <1>4 DEF Store, Exist, Bound
  <1>8. Fits(s, x)
    <2> HIDE DEF x, s
    <2> QED
      BY <1>4, <1>6, <1>7 DEF Fits
  <1>9. mem' = [mem EXCEPT ![s] = x]
    BY DEF Create
  <1>10. ASSUME NEW ok \in BOOLEAN, Persist(ok) PROVE Store' /\ Loaded'
    <2> HIDE DEF x, s
    <2> QED
      BY <1>1, <1>3, <1>8, <1>9, <1>10, SaveKeeps
  <1>11. /\ statuses' \in [Watched -> Statuses \cup {None}]
         /\ UNCHANGED <<floors, agents>>
    BY DEF Create, IInv, RefreshType
  <1>12. CASE Persist(FALSE) /\ Return(TRUE)
    BY <1>10, <1>11, <1>12, ReturnSaved
  <1>13. CASE /\ Persist(TRUE) /\ UNCHANGED <<proc, feed>>
              /\ refresh' = [at |-> "topics", todo |-> refresh.todo \ {refresh.scope},
                             scope |-> None]
    <2>1. RefreshType' /\ refresh'.at = "topics"
      BY <1>11, <1>13 DEF IInv, RefreshType
    <2> QED
      BY <1>1, <1>10, <1>13, <2>1 DEF IInv
  <1> QED
    BY <1>12, <1>13 DEF Create

\* The items of the floors, and the end of Refresh.
LEMMA ItemsKeep == ASSUME IInv, ToItems \/ Finish \/ \E f \in Watched : Item(f) PROVE IInv'
  <1>1. proc # "down" /\ Loaded /\ refresh.at \in {"topics", "items"} /\ Store
    BY Running DEF ToItems, Finish, Item, IInv
  <1>2. CASE ToItems
    <2>1. RefreshType' /\ refresh'.at = "items"
      BY <1>2, ScopesAssumption DEF ToItems, world, IInv, RefreshType, Idle
    <2> QED
      BY <1>1, <1>2, <2>1, Unsaved DEF ToItems, world
  <1>3. CASE Finish
    BY <1>1, <1>3, ReturnKeeps DEF Finish, world, IInv, RefreshType
  <1>4. ASSUME NEW f \in Watched, Item(f) PROVE IInv'
    <2>1. f \in Scopes /\ feed.status[f] \in Statuses \cup {None}
      BY ScopesAssumption DEF IInv, RefreshType
    <2>2. /\ statuses' \in [Watched -> Statuses \cup {None}]
          /\ UNCHANGED <<floors, agents, created>>
      BY <1>4, <2>1 DEF Item, IInv, RefreshType, world
    <2>3. CASE UNCHANGED <<mem, disk, failure>> /\ Return(TRUE)
      BY <1>1, <2>2, <2>3, ReturnKeeps
    <2>4. CASE UNCHANGED <<mem, disk, failure, proc, feed>> /\ Done(f)
      <3>1. Store' /\ Loaded'
        BY <1>1, <2>2, <2>4 DEF Store, Loaded
      <3> QED
        BY <1>1, <2>1, <2>2, <2>4, <3>1, DoneSaved
    <2>5. ASSUME UNCHANGED mem, NEW ok \in BOOLEAN, Persist(ok)
          PROVE  Store' /\ Loaded'
      <3>1. disk' = disk \/ disk' = mem
        BY <2>5 DEF Persist
      <3>2. \A k \in Scopes : disk[k] # None => disk'[k] # None
        BY <1>1, <3>1 DEF Loaded
      <3>3. ok => ~failure /\ mem = disk
        BY <1>1, <2>5 DEF Persist, Loaded
      <3> QED
        BY <1>1, <2>2, <2>5, <3>1, <3>2, <3>3 DEF Store, Loaded, Persist
    <2>6. CASE UNCHANGED <<mem, proc, feed>> /\ Persist(TRUE) /\ Done(f)
      BY <1>1, <2>1, <2>2, <2>5, <2>6, DoneSaved
    <2>7. CASE UNCHANGED mem /\ Persist(FALSE) /\ Return(TRUE)
      BY <2>2, <2>5, <2>7, ReturnSaved
    <2> QED
      BY <1>4, <2>3, <2>4, <2>6, <2>7 DEF Item
  <1> QED
    BY <1>2, <1>3, <1>4

\* A command leaves the Refresh alone, which is not asking for a topic.
LEMMA CommandKeeps ==
    ASSUME IInv, Free, Store', Loaded', UNCHANGED <<proc, refresh, feed, statuses, world>>
    PROVE  IInv'
  BY DEF Free, IInv, RefreshType, world

\* /bind gives a floor the topic it was written in.
LEMMA BindKeeps == ASSUME IInv, NEW s \in Floors, NEW t, Bind(s, t) PROVE IInv'
  <1> DEFINE x == [thread |-> t, pending |-> FALSE, muted |-> FALSE, name |-> floors[s]]
  <1>1. proc # "down" /\ Loaded /\ Store /\ s \in Scopes /\ Free
    BY DEF Bind, Free, IInv, Floors
  <1>2. Grown /\ created' = created
    BY <1>1, SameGroup DEF Bind, world
  <1>3. Fits(s, x)
    <2>1. t \in 1..Len(created) /\ Len(created) \in Nat
      BY <1>1 DEF Bind, Store
    <2>2. x \in Topic
      BY <2>1 DEF Topic, IInv, RefreshType
    <2>3. \A k \in Scopes \ {s} : Bound(mem, k) => mem[k].thread # t
      BY DEF Bind, Bound
    <2> QED
      BY <1>2, <2>1, <2>2, <2>3 DEF Fits
  <1>4. PICK ok \in BOOLEAN : Persist(ok)
    BY DEF Bind
  <1>5. mem' = [mem EXCEPT ![s] = x]
    BY DEF Bind
  <1>6. Store' /\ Loaded'
    <2> HIDE DEF x
    <2> QED
      BY <1>1, <1>2, <1>3, <1>4, <1>5, SaveKeeps
  <1> QED
    BY <1>1, <1>6, CommandKeeps DEF Bind

\* /mute and /unmute.
LEMMA MuteKeeps == ASSUME IInv, NEW s \in Scopes, NEW on \in BOOLEAN, Mute(s, on) PROVE IInv'
  <1> DEFINE x == [mem[s] EXCEPT !.muted = on]
  <1>1. proc # "down" /\ Loaded /\ Store /\ Free
    BY DEF Mute, Free, IInv
  <1>2. Grown /\ created' = created
    BY <1>1, SameGroup DEF Mute, world
  <1>3. mem[s] \in Topic /\ mem[s] # None
    BY <1>1 DEF Mute, Store, Topics
  <1>4. x \in Topic /\ x.thread = mem[s].thread /\ x.pending = mem[s].pending
    BY <1>3 DEF Topic
  <1>5. PICK ok \in BOOLEAN : Persist(ok)
    BY DEF Mute
  <1>6. mem' = [mem EXCEPT ![s] = x]
    BY DEF Mute
  <1>7. Store' /\ Loaded'
    <2> HIDE DEF x
    <2> QED
      BY <1>1, <1>2, <1>3, <1>4, <1>5, <1>6, EditFits, SaveKeeps
  <1> QED
    BY <1>1, <1>7, CommandKeeps DEF Mute

\* Users make topics; floors and agents of the host change.
LEMMA HostKeeps ==
    ASSUME IInv, \/ UserMakesTopic
                 \/ \E f \in Floors : FloorChanges(f)
                 \/ \E f \in Watched : AgentChanges(f)
    PROVE  IInv'
  <1>1. CASE (\E f \in Floors : FloorChanges(f)) \/ (\E f \in Watched : AgentChanges(f))
    <2>1. RefreshType'
      BY <1>1 DEF FloorChanges, AgentChanges, relay, IInv, RefreshType
    <2> QED
      BY <1>1, <2>1, Unsaved DEF FloorChanges, AgentChanges, relay, IInv
  <1>2. CASE UserMakesTopic
    <2>1. /\ Len(created) \in Nat /\ Len(created') = Len(created) + 1
          /\ created' \in Seq(Scopes \cup {None})
          /\ \A t \in 1..Len(created') : created'[t] = None \/ (t \in 1..Len(created) /\ created'[t] = created[t])
      BY <1>2 DEF UserMakesTopic, IInv, Store
    <2>2. Exist(mem', Len(created')) /\ Exist(disk', Len(created'))
      BY <1>2, <2>1 DEF UserMakesTopic, relay, IInv, Store, Exist
    <2>3. Store'
      BY <1>2, <2>1, <2>2 DEF UserMakesTopic, relay, IInv, Store
    <2>4. Asking => Asking'
      BY <1>2, <2>1, ScopesAssumption DEF UserMakesTopic, relay, Asking
    <2>5. RefreshType'
      BY <1>2 DEF UserMakesTopic, relay, IInv, RefreshType
    <2> QED
      BY <1>2, <2>3, <2>4, <2>5 DEF UserMakesTopic, relay, IInv, Loaded
  <1> QED
    BY <1>1, <1>2

-----------------------------------------------------------------------------
(* The theorems *)

\* Every step keeps the invariant.
LEMMA StepKeeps == ASSUME IInv, [Next]_vars PROVE IInv'
  <1>1. CASE Refresh
    BY <1>1, FetchKeeps, CreateFailsKeeps, CreateKeeps, ItemsKeep, KnownKeeps,
       DoubtfulKeeps, RenameKeeps, AnnounceKeeps DEF Refresh
  <1>2. CASE Boot \/ Poll \/ Crash
    BY <1>2, RunKeeps
  <1>3. CASE \E s \in Scopes : Mute(s, TRUE) \/ Mute(s, FALSE)
    BY <1>3, MuteKeeps
  <1>4. CASE \E s \in Floors, t \in 1..MaxThreads : Bind(s, t)
    BY <1>4, BindKeeps
  <1>5. CASE UNCHANGED vars
    <2>1. RefreshType'
      BY <1>5 DEF vars, IInv, RefreshType
    <2> QED
      BY <1>5, <2>1, Unsaved DEF vars, IInv
  <1> QED
    BY <1>1, <1>2, <1>3, <1>4, <1>5, HostKeeps DEF Next

\* The invariant holds at first.
LEMMA InitHolds == ASSUME Init PROVE IInv
  <1>1. /\ \A s \in Scopes : mem[s] = None /\ disk[s] = None
        /\ mem \in Topics /\ disk \in Topics /\ failure = FALSE
    BY DEF Init, Topics
  <1>2. created = <<>> /\ Len(created) = 0 /\ created \in Seq(Scopes \cup {None})
    BY DEF Init
  <1>3. Store
    <2>1. Distinct(mem) /\ Distinct(disk) /\ Exist(mem, Len(created)) /\ Exist(disk, Len(created))
      BY <1>1 DEF Distinct, Exist, Bound
    <2>2. \A t \in 1..Len(created) : FALSE
      BY <1>2
    <2>3. mem \in Topics /\ disk \in Topics /\ failure \in BOOLEAN
      BY <1>1
    <2>4. created \in Seq(Scopes \cup {None})
      BY <1>2
    <2> QED
      BY <2>1, <2>2, <2>3, <2>4 DEF Store
  <1>4. RefreshType
    BY IdleType DEF Init, RefreshType, Statuses
  <1> QED
    BY <1>3, <1>4, IdleType DEF Init, IInv

\* It implies the invariant the run checks.
LEMMA Implied == IInv => TopicsInv
  BY DEF IInv, TopicsInv, TypeOK, AsksOnce, ThreadsDistinct, Store, RefreshType,
         Topics, Distinct, Exist, Loaded, Asking, Bound, Idle

\* It is an invariant of the specification.
LEMMA SpecIInv == Spec => []IInv
  BY InitHolds, StepKeeps, PTL DEF Spec

\* Relay asks Telegram for the topic of a floor only while none can exist, and
\* a thread leads to one floor, whatever is interrupted, not saved or bound by
\* hand (ensureTopic, Refresh, bind, NewRelay).
THEOREM SpecTopicsInv == Spec => []TopicsInv
  BY SpecIInv, Implied, PTL

\* What a save that succeeds changes in relay.json.
LEMMA SavedOne ==
    ASSUME Store, Loaded, NEW s \in Scopes, NEW x, mem' = [mem EXCEPT ![s] = x],
           NEW ok \in BOOLEAN, Persist(ok)
    PROVE  \A k \in Scopes : disk'[k] = disk[k] \/ (k = s /\ disk[k] = mem[k] /\ disk'[k] = x)
  BY DEF Store, Topics, Loaded, Persist

\* A binding in relay.json is kept by every step: restarts, renames, failures
\* and refreshes leave its thread, and only /bind moves it (ensureTopic, bind).
THEOREM SpecBindingsKept == Spec => BindingsKept
  <1> DEFINE Kept(s) == Bound(disk, s) =>
               /\ Bound(disk', s)
               /\ disk'[s].thread # disk[s].thread => \E t \in 1..MaxThreads : Bind(s, t)
  <1>1. ASSUME IInv, [Next]_vars, NEW k \in Scopes PROVE Kept(k)
    <2>1. CASE UNCHANGED disk
      BY <2>1 DEF Bound
    <2>2. Store
      BY <1>1 DEF IInv
    <2>3. ASSUME NEW s \in Scopes, Rename(s) PROVE Kept(k)
      <3> DEFINE x == [mem[s] EXCEPT !.name = NameOf(s)]
      <3>1. Loaded /\ mem[s] \in Topic
        BY <1>1, <2>2, <2>3, Running DEF Rename, Turn, Store, Topics
      <3>2. x # None /\ x.thread = mem[s].thread /\ x.pending = mem[s].pending
        <4>1. x \in Topic
          BY <1>1, <3>1, NameType DEF Topic
        <4> QED
          BY <3>1, <4>1, NoTopicIsNone DEF Topic
      <3>3. CASE UNCHANGED disk
        BY <2>1, <3>3
      <3>4. ASSUME mem' = [mem EXCEPT ![s] = x], NEW ok \in BOOLEAN, Persist(ok) PROVE Kept(k)
        <4> HIDE DEF x
        <4>1. disk'[k] = disk[k] \/ (k = s /\ disk[k] = mem[k] /\ disk'[k] = x)
          BY <2>2, <3>1, <3>4, SavedOne
        <4> QED
          BY <3>2, <4>1 DEF Bound
      <3> QED
        BY <2>3, <3>3, <3>4 DEF Rename
    <2>4. ASSUME NEW s \in Scopes, Announce(s) PROVE Kept(k)
      <3> DEFINE x == [thread |-> 0, pending |-> TRUE, muted |-> FALSE, name |-> NameOf(s)]
      <3>1. Loaded /\ disk[s] = None /\ mem' = [mem EXCEPT ![s] = x]
        BY <1>1, <2>2, <2>4, Running DEF Announce, Turn, Loaded
      <3>2. PICK ok \in BOOLEAN : Persist(ok)
        BY <2>4 DEF Announce
      <3> HIDE DEF x
      <3>3. disk'[k] = disk[k] \/ (k = s /\ disk[k] = mem[k] /\ disk'[k] = x)
        BY <2>2, <3>1, <3>2, SavedOne
      <3> QED
        BY <3>1, <3>3 DEF Bound
    <2>5. CASE Create
      <3> DEFINE s == refresh.scope
                 x == [mem[s] EXCEPT !.thread = Len(created'), !.pending = FALSE]
      <3>1. Loaded /\ Asking /\ s \in Scopes /\ mem' = [mem EXCEPT ![s] = x]
        BY <1>1, <2>5, Running DEF Create, IInv, Asking
      <3>2. PICK ok \in BOOLEAN : Persist(ok)
        BY <2>5 DEF Create
      <3>3. disk[s].pending
        BY <3>1 DEF Asking
      <3> HIDE DEF x, s
      <3> QED
        BY <2>2, <3>1, <3>2, <3>3, SavedOne DEF Bound
    <2>6. ASSUME NEW f \in Watched, Item(f) PROVE Kept(k)
      <3>1. Loaded
        BY <1>1, <2>6, Running DEF Item
      <3>2. UNCHANGED disk \/ (UNCHANGED mem /\ Persist(TRUE)) \/ Persist(FALSE)
        BY <2>6 DEF Item
      <3>3. UNCHANGED disk
        BY <3>1, <3>2 DEF Persist, Loaded
      <3> QED
        BY <2>1, <3>3
    <2>7. ASSUME NEW s \in Scopes, NEW on \in BOOLEAN, Mute(s, on) PROVE Kept(k)
      <3> DEFINE x == [mem[s] EXCEPT !.muted = on]
      <3>1. Loaded /\ mem[s] \in Topic /\ mem' = [mem EXCEPT ![s] = x]
        BY <1>1, <2>2, <2>7 DEF Mute, Free, IInv, Store, Topics
      <3>2. x # None /\ x.thread = mem[s].thread /\ x.pending = mem[s].pending
        <4>1. x \in Topic
          BY <3>1 DEF Topic
        <4> QED
          BY <3>1, <4>1, NoTopicIsNone DEF Topic
      <3>3. PICK ok \in BOOLEAN : Persist(ok)
        BY <2>7 DEF Mute
      <3> HIDE DEF x
      <3>4. disk'[k] = disk[k] \/ (k = s /\ disk[k] = mem[k] /\ disk'[k] = x)
        BY <2>2, <3>1, <3>3, SavedOne
      <3> QED
        BY <3>2, <3>4 DEF Bound
    <2>8. ASSUME NEW s \in Floors, NEW t \in 1..MaxThreads, Bind(s, t) PROVE Kept(k)
      <3> DEFINE x == [thread |-> t, pending |-> FALSE, muted |-> FALSE, name |-> floors[s]]
      <3>1. Loaded /\ s \in Scopes /\ mem' = [mem EXCEPT ![s] = x]
        BY <1>1, <2>8 DEF Bind, Free, IInv, Floors
      <3>2. x # None /\ ~x.pending
        <4>1. x \in Topic
          BY <1>1, <2>8, ScopesAssumption DEF Topic, IInv, RefreshType
        <4> QED
          BY <4>1, NoTopicIsNone
      <3>3. PICK ok \in BOOLEAN : Persist(ok)
        BY <2>8 DEF Bind
      <3>4. \A j \in Scopes : disk'[j] = disk[j] \/ (j = s /\ disk'[j] = x)
        <4> HIDE DEF x
        <4> QED
          BY <2>2, <3>1, <3>3, SavedOne
      <3> HIDE DEF x
      <3> QED
        BY <2>8, <3>1, <3>2, <3>4 DEF Bound
    <2>9. CASE Refresh
      <3>1. CASE Fetch \/ CreateFails \/ ToItems \/ Finish
                 \/ \E s \in Scopes : Known(s) \/ Doubtful(s)
        BY <2>1, <3>1 DEF Fetch, CreateFails, ToItems, Finish, Known, Doubtful
      <3> QED
        BY <2>3, <2>4, <2>5, <2>6, <2>9, <3>1 DEF Refresh
    <2>10. CASE \/ Boot \/ Poll \/ Crash \/ UserMakesTopic \/ UNCHANGED vars
                \/ \E f \in Floors : FloorChanges(f)
                \/ \E f \in Watched : AgentChanges(f)
      BY <2>1, <2>10 DEF Boot, Poll, Crash, UserMakesTopic, FloorChanges, AgentChanges,
                         relay, vars
    <2> QED
      BY <1>1, <2>7, <2>8, <2>9, <2>10 DEF Next
  <1>2. IInv /\ [Next]_vars => [\A s \in Scopes : Kept(s)]_vars
    BY <1>1
  <1> QED
    BY <1>2, SpecIInv, PTL DEF Spec, BindingsKept
=============================================================================
