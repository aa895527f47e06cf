------------------------- MODULE TopicMirrorProofs -------------------------
(***************************************************************************)
(* One topic per agent (MirrorInv), muted topics left alone (MuteKept) and *)
(* what a pass achieves (PassHeals), for any agents, topics and tries,     *)
(* whatever fails or restarts; and that Telegram shows Herdr when nothing  *)
(* waits (Settled), for a daemon that nothing holds back and no call fails.*)
(***************************************************************************)
EXTENDS TopicMirror, FiniteSetTheorems, TLAPS

(* MirrorInv does not say what a handler still has to do. It needs: a      *)
(* handler makes a topic only for an agent without an entry, and it looks  *)
(* up a look or an entry only where there is one (Shape, Fits); the topics *)
(* name the agents they were made for, in memory and on disk (Links); and  *)
(* what exists and was not lost is linked, also while the process is down  *)
(* (Linking).                                                              *)

\* Items about no agent.
Whole == {"list", "snap", "learn", "flush", "pass", "unclosed", "prune"}

\* Items that are only ever the next one of a handler.
FirstOnly == {"create", "make", "refresh", "finish", "list"}

\* What the registry reports.
Reports == {"appeared", "changed", "gone"}

ItemOK(x) ==
    /\ x \in Item
    /\ x.op \notin Whole => x.key \in Keys
    /\ x.op \in {"appeared", "changed"} => x.look # None

\* The items of a handler in their order: an answer is applied right after it
\* was asked for, closings come together and first, deletions come alone and one
\* for each agent.
Shape(s) ==
    /\ \A i \in 1..Len(s) : ItemOK(s[i])
    /\ \A i \in 2..Len(s) : s[i].op \notin FirstOnly
    /\ \A i \in 2..Len(s) : s[i].op \in {"snap", "learn"} => i = 2 /\ s[1].op = "list"
    /\ \A i, j \in 1..Len(s) : j < i /\ s[i].op \in {"close", "delete"} => s[j].op = s[i].op
    /\ \A i, j \in 1..Len(s) : j < i /\ s[i].op = "delete" => s[j].key # s[i].key
    /\ s # <<>> /\ s[1].op = "list" => Len(s) >= 2 /\ s[2].op \in {"snap", "learn"}

\* What the items of handler s find in the mapping m, the reconciler's agents a
\* and the loop's listing l.
Fits(s, m, a, l) ==
    /\ \A i \in 1..Len(s) :
         /\ s[i].op = "close" => ~Live(m[s[i].key])
         /\ s[i].op = "delete" => m[s[i].key] # None /\ ~Live(m[s[i].key])
    /\ s # <<>> =>
         LET x == s[1] IN
         /\ x.op = "create" => a[x.key] # None /\ ~Live(m[x.key])
         /\ x.op = "make" => a[x.key] # None /\ m[x.key] = None
         /\ x.op = "refresh" => a[x.key] # None /\ m[x.key] # None /\ ~m[x.key].muted
         /\ x.op = "finish" => m[x.key] = None \/ ~m[x.key].muted
         /\ x.op \in {"snap", "learn"} => l \in [Keys -> Look \cup {None}]

Links(m, T) ==
    \A k \in Keys : m[k] # None => m[k].thread \in 1..Len(T) /\ T[m[k].thread].key = k

Linking(m, T, lost) ==
    \A t \in 1..Len(T) : T[t].exists /\ t \notin lost =>
        m[T[t].key] # None /\ m[T[t].key].thread = t

Handler == Shape(todo) /\ Fits(todo, mem, agents, listed["loop"])
Waiting ==
    /\ \A i \in 1..Len(events) : ItemOK(events[i]) /\ events[i].op \in Reports
    /\ \A i \in 1..Len(news) : news[i].op = "renamed" => news[i].name \in TopicName
Mapped ==
    /\ Len(tg) <= MaxThreads
    /\ Links(mem, tg) /\ Links(disk, tg) /\ Linking(mem, tg, strays)

IInv == TypeOK /\ Handler /\ Waiting /\ Mapped

-----------------------------------------------------------------------------
(* Items in a list *)

\* A finite set put in some order.
LEMMA ListOf ==
    ASSUME NEW T, IsFiniteSet(T), NEW q, q = SetToSeq(T)
    PROVE  /\ q \in Seq(T)
           /\ \A i \in 1..Len(q) : q[i] \in T
           /\ \A i, j \in 1..Len(q) : q[i] = q[j] => i = j
  <1>1. Cardinality(T) \in Nat /\ ExistsBijection(1..Cardinality(T), T)
    BY FS_CardinalityType
  <1>2. \E f \in [1..Cardinality(T) -> T] : IsInjective(f)
    BY <1>1 DEF ExistsBijection, Bijection, Injection
  <1>3. q \in [1..Cardinality(T) -> T] /\ IsInjective(q)
    BY <1>2 DEF SetToSeq
  <1>4. PICK n \in Nat : n = Cardinality(T)
    BY <1>1
  <1>5. q \in [1..n -> T]
    BY <1>3, <1>4
  <1>6. q \in Seq(T) /\ Len(q) = n /\ DOMAIN q = 1..n /\ \A i \in 1..n : q[i] \in T
    BY <1>5
  <1> QED
    BY <1>3, <1>6 DEF IsInjective

\* One item for each of some keys makes a finite set.
LEMMA FewItems ==
    ASSUME NEW S \in SUBSET Keys, NEW T, NEW F \in [S -> T], \A x \in T : \E k \in S : F[k] = x
    PROVE  IsFiniteSet(T)
  <1>1. IsFiniteSet(S)
    BY MirrorAssumption, FS_Subset
  <1>2. F \in Surjection(S, T)
    BY DEF Surjection
  <1> QED
    BY <1>1, <1>2, FS_Surjection

\* Items that carry nothing but their key, and reports about a new view.
Plain(o, S, b) == {[op |-> o, key |-> k, look |-> None, force |-> b] : k \in S}
About(o, S, new) == {[op |-> o, key |-> k, look |-> new[k], force |-> FALSE] : k \in S}

\* The list q has items o, one for each of the agents S at most.
Listing(q, o, S) ==
    /\ q \in Seq(Item)
    /\ \A i \in 1..Len(q) : q[i].key \in S /\ q[i].op = o
    /\ \A i, j \in 1..Len(q) : q[i].key = q[j].key => i = j

\* Plain items in some order.
LEMMA PlainList ==
    ASSUME NEW S \in SUBSET Keys, NEW o \in Ops, NEW b \in BOOLEAN
    PROVE  Listing(SetToSeq(Plain(o, S, b)), o, S)
  <1> PICK q : q = SetToSeq(Plain(o, S, b))
    OBVIOUS
  <1>0. PICK T : T = Plain(o, S, b)
    OBVIOUS
  <1> DEFINE F == [k \in S |-> [op |-> o, key |-> k, look |-> None, force |-> b]]
  <1>1. F \in [S -> T] /\ \A x \in T : \E k \in S : F[k] = x
    BY <1>0 DEF Plain
  <1>2. IsFiniteSet(T)
    <2> HIDE DEF F
    <2> QED BY <1>1, FewItems
  <1>3. \A x \in T : \E k \in S : x = [op |-> o, key |-> k, look |-> None, force |-> b]
    BY <1>0 DEF Plain
  <1>4. \A k \in S : [op |-> o, key |-> k, look |-> None, force |-> b] \in Item
    BY DEF Item
  <1>5. T \subseteq Item
    BY <1>3, <1>4
  <1>6. \A x \in T : x.key \in S /\ x.op = o
    BY <1>3
  <1>7. ASSUME NEW x \in T, NEW y \in T, x.key = y.key PROVE x = y
    <2>1. PICK k \in S : x = [op |-> o, key |-> k, look |-> None, force |-> b]
      BY <1>3
    <2>2. PICK l \in S : y = [op |-> o, key |-> l, look |-> None, force |-> b]
      BY <1>3
    <2> QED
      BY <1>7, <2>1, <2>2
  <1>8. /\ q \in Seq(T)
        /\ \A i \in 1..Len(q) : q[i] \in T
        /\ \A i, j \in 1..Len(q) : q[i] = q[j] => i = j
    BY ONLY <1>0, <1>2, ListOf, q = SetToSeq(Plain(o, S, b))
  <1>9. q \in Seq(Item)
    BY <1>5, <1>8
  <1> QED
    BY <1>6, <1>7, <1>8, <1>9 DEF Listing

\* A list of reports as the registry makes them.
Reported(q) ==
    q \in Seq(Item) /\ \A i \in 1..Len(q) : ItemOK(q[i]) /\ q[i].op \in Reports

\* Reports about the agents of a new view.
LEMMA ReportList ==
    ASSUME NEW S \in SUBSET Keys, NEW o \in Ops, NEW new \in [Keys -> Look \cup {None}],
           o = "gone" \/ \A k \in S : new[k] # None, o \in Reports
    PROVE  Reported(SetToSeq(About(o, S, new)))
  <1> PICK q : q = SetToSeq(About(o, S, new))
    OBVIOUS
  <1>0. PICK T : T = About(o, S, new)
    OBVIOUS
  <1> DEFINE F == [k \in S |-> [op |-> o, key |-> k, look |-> new[k], force |-> FALSE]]
  <1>1. F \in [S -> T] /\ \A x \in T : \E k \in S : F[k] = x
    BY <1>0 DEF About
  <1>2. IsFiniteSet(T)
    <2> HIDE DEF F
    <2> QED BY <1>1, FewItems
  <1>3. \A x \in T : \E k \in S : x = [op |-> o, key |-> k, look |-> new[k], force |-> FALSE]
    BY <1>0 DEF About
  <1>4. \A k \in S : [op |-> o, key |-> k, look |-> new[k], force |-> FALSE] \in Item
    BY DEF Item
  <1>5. T \subseteq Item
    BY <1>3, <1>4
  <1>6. \A x \in T : x.key \in S /\ x.op = o /\ x.look = new[x.key]
    BY <1>3
  <1>7. q \in Seq(T) /\ \A i \in 1..Len(q) : q[i] \in T
    BY ONLY <1>0, <1>2, ListOf, q = SetToSeq(About(o, S, new))
  <1>8. \A x \in T : ItemOK(x) /\ x.op \in Reports
    BY <1>5, <1>6 DEF ItemOK, Reports
  <1> QED
    BY <1>5, <1>7, <1>8 DEF Reported

\* Two lists, one behind the other.
LEMMA Joined ==
    ASSUME NEW S, NEW s \in Seq(S), NEW t \in Seq(S), NEW q, q = s \o t
    PROVE  /\ q \in Seq(S) /\ Len(s) \in Nat /\ Len(t) \in Nat /\ Len(q) = Len(s) + Len(t)
           /\ \A i \in 1..Len(s) : i \in 1..Len(q) /\ q[i] = s[i]
           /\ \A i \in 1..Len(q) : \/ i \in 1..Len(s) /\ q[i] = s[i]
                                   \/ /\ i > Len(s) /\ i - Len(s) \in 1..Len(t)
                                      /\ q[i] = t[i - Len(s)]
  OBVIOUS

\* Reports behind reports are reports.
LEMMA ReportsJoined == ASSUME NEW s, NEW t, Reported(s), Reported(t) PROVE Reported(s \o t)
  <1>1. PICK q : q = s \o t
    OBVIOUS
  <1>2. s \in Seq(Item) /\ t \in Seq(Item)
    BY DEF Reported
  <1>3. /\ q \in Seq(Item)
        /\ \A i \in 1..Len(q) : \/ i \in 1..Len(s) /\ q[i] = s[i]
                                \/ /\ i > Len(s) /\ i - Len(s) \in 1..Len(t)
                                   /\ q[i] = t[i - Len(s)]
    BY ONLY <1>1, <1>2, Joined
  <1>4. Reported(q)
    BY <1>3 DEF Reported
  <1> QED
    BY <1>1, <1>4

\* What Diff reports are well-formed reports.
LEMMA DiffList ==
    ASSUME NEW old, NEW new \in [Keys -> Look \cup {None}]
    PROVE  Reported(Diff(old, new))
  <1>1. PICK SG \in SUBSET Keys : SG = {k \in Keys : old[k] # None /\ new[k] = None}
    OBVIOUS
  <1>2. PICK SA \in SUBSET Keys : SA = {k \in Keys : old[k] = None /\ new[k] # None}
    OBVIOUS
  <1>3. PICK SC \in SUBSET Keys : SC = {k \in Keys : old[k] # None /\ new[k] # None /\ old[k] # new[k]}
    OBVIOUS
  <1>4. (\A k \in SA : new[k] # None) /\ (\A k \in SC : new[k] # None)
    BY <1>2, <1>3
  <1>5. "gone" \in Ops \cap Reports /\ "appeared" \in Ops \cap Reports /\ "changed" \in Ops \cap Reports
    BY DEF Ops, Reports
  <1>6. Reported(SetToSeq(About("gone", SG, new)))
    BY ONLY <1>5, ReportList, SG \in SUBSET Keys, new \in [Keys -> Look \cup {None}]
  <1>7. Reported(SetToSeq(About("appeared", SA, new)))
    BY ONLY <1>4, <1>5, ReportList, SA \in SUBSET Keys, new \in [Keys -> Look \cup {None}]
  <1>8. Reported(SetToSeq(About("changed", SC, new)))
    BY ONLY <1>4, <1>5, ReportList, SC \in SUBSET Keys, new \in [Keys -> Look \cup {None}]
  <1>9. Diff(old, new) = (SetToSeq(About("gone", SG, new)) \o SetToSeq(About("appeared", SA, new)))
                           \o SetToSeq(About("changed", SC, new))
    BY <1>1, <1>2, <1>3 DEF Diff, About
  <1> QED
    BY ONLY <1>6, <1>7, <1>8, <1>9, ReportsJoined

-----------------------------------------------------------------------------
(* The rest of a handler *)

\* Items that may stand anywhere in a handler.
Later(s) ==
    /\ s \in Seq(Item)
    /\ \A i \in 1..Len(s) :
         ItemOK(s[i]) /\ s[i].op \notin FirstOnly \cup {"snap", "learn", "close", "delete"}

\* What an item may put in front of the rest: closings come first and together.
Leading(s) ==
    /\ s \in Seq(Item)
    /\ \A i \in 1..Len(s) : ItemOK(s[i]) /\ s[i].op \notin {"list", "snap", "learn", "delete"}
    /\ \A i \in 2..Len(s) : s[i].op \notin FirstOnly
    /\ \A i, j \in 1..Len(s) : j < i /\ s[i].op = "close" => s[j].op = "close"

\* A handler without its first item.
LEMMA RestShape ==
    ASSUME NEW s, s \in Seq(Item), s # <<>>, Shape(s)
    PROVE  /\ Tail(s) \in Seq(Item) /\ Shape(Tail(s))
           /\ ItemOK(s[1]) /\ Head(s) = s[1] /\ 1 \in 1..Len(s)
           /\ \A i \in 1..Len(Tail(s)) : i + 1 \in 2..Len(s) /\ Tail(s)[i] = s[i + 1]
           /\ s[1].op \notin {"list", "close", "delete"} => Later(Tail(s))
  <1>1. PICK r : r = Tail(s)
    OBVIOUS
  <1>2. /\ r \in Seq(Item) /\ Len(s) \in Nat /\ Len(r) = Len(s) - 1 /\ Head(s) = s[1]
        /\ 1 \in 1..Len(s)
        /\ \A i \in 1..Len(r) : i + 1 \in 2..Len(s) /\ i + 1 \in 1..Len(s) /\ r[i] = s[i + 1]
    BY <1>1
  <1>3. /\ \A i \in 1..Len(s) : ItemOK(s[i])
        /\ \A i \in 2..Len(s) : s[i].op \notin FirstOnly
        /\ \A i \in 2..Len(s) : s[i].op \in {"snap", "learn"} => i = 2 /\ s[1].op = "list"
        /\ \A i, j \in 1..Len(s) : j < i /\ s[i].op \in {"close", "delete"} => s[j].op = s[i].op
        /\ \A i, j \in 1..Len(s) : j < i /\ s[i].op = "delete" => s[j].key # s[i].key
    BY DEF Shape
  <1>4. \A i \in 1..Len(r) : ItemOK(r[i]) /\ r[i].op \notin FirstOnly
    BY <1>2, <1>3
  <1>5. Shape(r)
    <2>1. \A i \in 2..Len(r) : r[i].op \notin FirstOnly /\ r[i].op \notin {"snap", "learn"}
      BY <1>2, <1>3
    <2>2. \A i, j \in 1..Len(r) : j < i /\ r[i].op \in {"close", "delete"} => r[j].op = r[i].op
      BY <1>2, <1>3
    <2>3. \A i, j \in 1..Len(r) : j < i /\ r[i].op = "delete" => r[j].key # r[i].key
      BY <1>2, <1>3
    <2>4. r # <<>> => 1 \in 1..Len(r)
      BY <1>2
    <2>5. r # <<>> => r[1].op # "list"
      BY <1>4, <2>4 DEF FirstOnly
    <2> QED
      BY <1>4, <2>1, <2>2, <2>3, <2>5 DEF Shape
  <1>6. s[1].op \notin {"list", "close", "delete"} => Later(r)
    <2>1. \A i \in 1..Len(r) : 1 < i + 1
      BY <1>2
    <2> QED
      BY <1>2, <1>3, <1>4, <2>1 DEF Later
  <1> QED
    BY <1>1, <1>2, <1>3, <1>5, <1>6

\* What an item puts in front of the rest is a handler again.
LEMMA Resume ==
    ASSUME NEW f, NEW r, Leading(f), Later(r), NEW m, NEW a, NEW l, Fits(f, m, a, l)
    PROVE  (f \o r) \in Seq(Item) /\ Shape(f \o r) /\ Fits(f \o r, m, a, l)
  <1>1. PICK q : q = f \o r
    OBVIOUS
  <1>2. f \in Seq(Item) /\ r \in Seq(Item)
    BY DEF Leading, Later
  <1>3. /\ q \in Seq(Item) /\ Len(f) \in Nat /\ Len(r) \in Nat /\ Len(q) = Len(f) + Len(r)
        /\ \A i \in 1..Len(f) : i \in 1..Len(q) /\ q[i] = f[i]
        /\ \A i \in 1..Len(q) : \/ i \in 1..Len(f) /\ q[i] = f[i]
                                \/ /\ i > Len(f) /\ i - Len(f) \in 1..Len(r)
                                   /\ q[i] = r[i - Len(f)]
    BY ONLY <1>1, <1>2, Joined
  <1>4. \A i \in 1..Len(q) :
          \/ i \in 1..Len(f) /\ q[i] = f[i]
          \/ /\ i > Len(f) /\ ItemOK(q[i])
             /\ q[i].op \notin FirstOnly \cup {"snap", "learn", "close", "delete"}
    BY <1>3 DEF Later
  <1>5. Shape(q)
    <2>1. \A i \in 1..Len(q) : ItemOK(q[i]) /\ q[i].op \notin {"snap", "learn", "delete", "list"}
      BY <1>4 DEF Leading, FirstOnly
    <2>2. \A i \in 2..Len(q) : q[i].op \notin FirstOnly
      BY <1>3, <1>4 DEF Leading
    <2>3. \A i, j \in 1..Len(q) : j < i /\ q[i].op = "close" => q[j].op = "close"
      <3> SUFFICES ASSUME NEW i \in 1..Len(q), NEW j \in 1..Len(q), j < i, q[i].op = "close"
                   PROVE  q[j].op = "close"
        OBVIOUS
      <3>1. i \in 1..Len(f) /\ q[i] = f[i]
        BY <1>4
      <3>2. j \in 1..Len(f)
        BY <1>3, <3>1
      <3>3. q[j] = f[j]
        BY <1>3, <3>2
      <3> QED
        BY <3>1, <3>2, <3>3 DEF Leading
    <2>4. q # <<>> => 1 \in 1..Len(q)
      BY <1>3
    <2> QED
      BY <1>3, <2>1, <2>2, <2>3, <2>4 DEF Shape
  <1>6. Fits(q, m, a, l)
    <2>1. \A i \in 1..Len(q) :
            /\ q[i].op = "close" => ~Live(m[q[i].key])
            /\ q[i].op = "delete" => m[q[i].key] # None /\ ~Live(m[q[i].key])
      BY <1>4 DEF Fits
    <2>2. CASE f = <<>>
      <3>1. q # <<>> => 1 \in 1..Len(q) /\ ~(1 \in 1..Len(f))
        BY <1>3, <2>2
      <3>2. q # <<>> => q[1].op \notin FirstOnly \cup {"snap", "learn"}
        BY <1>4, <3>1
      <3> QED
        BY <2>1, <3>2 DEF Fits, FirstOnly
    <2>3. CASE f # <<>>
      <3>1. 1 \in 1..Len(f)
        BY <1>2, <2>3
      <3>2. q[1] = f[1]
        BY <1>3, <3>1
      <3> QED
        BY <2>1, <2>3, <3>2 DEF Fits
    <2> QED
      BY <2>2, <2>3
  <1> QED
    BY <1>1, <1>3, <1>5, <1>6

-----------------------------------------------------------------------------
(* The mapping and the topics *)

\* What a step of the handler may change besides the handler and the registry.
Data ==
    /\ mem \in [Keys -> Entry \cup {None}] /\ disk \in [Keys -> Entry \cup {None}]
    /\ agents \in [Keys -> Look \cup {None}] /\ timers \subseteq Keys
    /\ tg \in Seq(Topic) /\ strays \subseteq 1..MaxThreads
    /\ failed \in BOOLEAN /\ trouble \in 0..MaxTrouble
    /\ Mapped

\* From topics T to T2: each stays its agent's, and none comes back.
SameTopics(T, T2) ==
    /\ T \in Seq(Topic) /\ T2 \in Seq(Topic) /\ Len(T2) = Len(T)
    /\ \A t \in 1..Len(T) : T2[t].key = T[t].key /\ (T2[t].exists => T[t].exists)

\* From mapping m to m2: entries keep their topic, and one goes only with its
\* topic or counted as lost.
SameLinks(m, m2, T2, lost2) ==
    /\ \A k \in Keys : m2[k] # None => m[k] # None /\ m2[k].thread = m[k].thread
    /\ \A k \in Keys : m[k] # None /\ m2[k] = None =>
           m[k].thread \in lost2 \/ ~T2[m[k].thread].exists

\* Then the links hold on.
LEMMA LinksKept ==
    ASSUME NEW m, NEW d, NEW T, NEW lost, NEW m2, NEW d2, NEW T2, NEW lost2,
           Links(m, T), Links(d, T), Linking(m, T, lost), SameTopics(T, T2),
           SameLinks(m, m2, T2, lost2), d2 \in {d, m2}, lost \subseteq lost2
    PROVE  Links(m2, T2) /\ Links(d2, T2) /\ Linking(m2, T2, lost2)
  <1>1. Links(m2, T2)
    BY DEF Links, SameTopics, SameLinks
  <1>2. Links(d2, T2)
    <2>1. Links(d, T2)
      BY DEF Links, SameTopics
    <2> QED
      BY <1>1, <2>1
  <1>3. Linking(m2, T2, lost2)
    <2> SUFFICES ASSUME NEW t \in 1..Len(T2), T2[t].exists, t \notin lost2
                 PROVE  m2[T2[t].key] # None /\ m2[T2[t].key].thread = t
      BY DEF Linking
    <2>1. t \in 1..Len(T) /\ T2[t].key = T[t].key /\ T[t].exists
      BY DEF SameTopics
    <2>2. T[t] \in Topic
      BY <2>1 DEF SameTopics
    <2>3. t \notin lost /\ T[t].key \in Keys
      BY <2>2 DEF Topic
    <2>4. m[T[t].key] # None /\ m[T[t].key].thread = t
      BY <2>1, <2>3 DEF Linking
    <2> QED
      BY <2>1, <2>3, <2>4 DEF SameLinks
  <1> QED
    BY <1>1, <1>2, <1>3

\* What may become of the entry a call is about.
After(k, entry) ==
    \/ mem' = [mem EXCEPT ![k] = entry]
    \/ mem' = [mem EXCEPT ![k] = None]
    \/ mem' = mem

\* A call on the topic of k changes that topic and the entry of k at most; the
\* handler goes on with next only when the entry is as planned.
LEMMA CallsKeep ==
    ASSUME TypeOK, Mapped, NEW k \in Keys, mem[k] # None,
           NEW after \in Topic, after.key = k, after.exists => tg[mem[k].thread].exists,
           NEW entry \in Entry \cup {None}, entry # None => entry.thread = mem[k].thread,
           entry = None => ~after.exists,
           NEW next, Calls(k, after, entry, next), UNCHANGED strays
    PROVE  /\ Data' /\ UNCHANGED agents /\ mem[k].thread \in 1..Len(tg)
           /\ \A t \in 1..Len(tg) : t # mem[k].thread => tg'[t] = tg[t]
           /\ After(k, entry)
           /\ (Continue(next) /\ mem' = [mem EXCEPT ![k] = entry]) \/ Continue(<<>>)
  <1>0. PICK h : h = mem[k].thread
    OBVIOUS
  <1>1. /\ tg \in Seq(Topic) /\ h \in 1..Len(tg) /\ tg[h].key = k /\ tg[h] \in Topic
        /\ mem \in [Keys -> Entry \cup {None}] /\ disk \in [Keys -> Entry \cup {None}]
        /\ trouble \in 0..MaxTrouble /\ Len(tg) <= MaxThreads
    BY <1>0 DEF TypeOK, Mapped, Links
  <1>2. UNCHANGED <<agents, timers>>
    BY DEF Calls
  <1>3. \/ tg' = tg
        \/ tg' = [tg EXCEPT ![h] = after]
    BY <1>0 DEF Calls, Fails
  <1>4. /\ tg' \in Seq(Topic) /\ Len(tg') = Len(tg)
        /\ \A t \in 1..Len(tg) : tg'[t].key = tg[t].key /\ (tg'[t].exists => tg[t].exists)
        /\ \A t \in 1..Len(tg) : t # h => tg'[t] = tg[t]
    BY <1>0, <1>1, <1>3
  <1>5. \/ /\ mem' = [mem EXCEPT ![k] = entry] /\ tg' = [tg EXCEPT ![h] = after]
           /\ Save /\ UNCHANGED failed /\ Continue(next)
        \/ /\ mem' = [mem EXCEPT ![k] = None] /\ tg' = tg /\ ~tg[h].exists
           /\ Save /\ failed' = TRUE /\ Continue(<<>>)
        \/ /\ UNCHANGED <<mem, disk>> /\ (UNCHANGED trouble \/ Troubled)
           /\ failed' = TRUE /\ Continue(<<>>)
    BY <1>0 DEF Calls, Fails
  <1>6. disk' \in {disk, mem'} /\ (UNCHANGED trouble \/ Troubled)
    BY <1>5 DEF Save
  <1>7. trouble' \in 0..MaxTrouble
    BY <1>1, <1>6, MirrorAssumption DEF Troubled
  <1>8. mem' \in [Keys -> Entry \cup {None}]
    BY <1>1, <1>5
  <1>9. failed' \in BOOLEAN
    BY <1>5 DEF TypeOK
  <1>10. \A j \in Keys : mem'[j] # None => mem[j] # None /\ mem'[j].thread = mem[j].thread
    BY <1>0, <1>1, <1>5
  <1>11. \A j \in Keys : mem[j] # None /\ mem'[j] = None => ~tg'[mem[j].thread].exists
    <2> SUFFICES ASSUME NEW j \in Keys, mem[j] # None, mem'[j] = None
                 PROVE  ~tg'[mem[j].thread].exists
      OBVIOUS
    <2>1. j = k
      BY <1>1, <1>5
    <2>2. CASE mem' = [mem EXCEPT ![k] = entry] /\ tg' = [tg EXCEPT ![h] = after]
      <3>1. entry = None
        BY <1>1, <2>1, <2>2
      <3> QED
        BY <1>0, <1>1, <2>1, <2>2, <3>1
    <2> QED
      BY <1>0, <1>1, <1>5, <2>1, <2>2
  <1>12. Links(mem', tg') /\ Links(disk', tg') /\ Linking(mem', tg', strays')
    <2>1. Links(mem, tg) /\ Links(disk, tg) /\ Linking(mem, tg, strays) /\ strays \subseteq strays'
      BY DEF Mapped
    <2>2. SameTopics(tg, tg')
      BY <1>1, <1>4 DEF SameTopics
    <2>3. SameLinks(mem, mem', tg', strays')
      BY <1>10, <1>11 DEF SameLinks
    <2> QED
      BY ONLY <1>6, <2>1, <2>2, <2>3, LinksKept
  <1>13. Mapped'
    BY <1>1, <1>4, <1>12 DEF Mapped
  <1>14. Data'
    BY <1>1, <1>2, <1>4, <1>6, <1>7, <1>8, <1>9, <1>13 DEF Data, TypeOK
  <1> QED
    BY <1>0, <1>1, <1>2, <1>4, <1>5, <1>14 DEF After

\* A handler of such items asks nothing of the state.
LEMMA LaterFits ==
    ASSUME NEW s, Later(s), NEW m, NEW a, NEW l
    PROVE  s \in Seq(Item) /\ Shape(s) /\ Fits(s, m, a, l)
  <1>1. /\ s \in Seq(Item) /\ Len(s) \in Nat
        /\ \A i \in 1..Len(s) :
             ItemOK(s[i]) /\ s[i].op \notin FirstOnly \cup {"snap", "learn", "close", "delete"}
    BY DEF Later
  <1>2. s # <<>> => 1 \in 1..Len(s)
    BY <1>1
  <1>3. 2..Len(s) \subseteq 1..Len(s)
    BY <1>1
  <1>4. Shape(s)
    BY <1>1, <1>2, <1>3 DEF Shape, FirstOnly
  <1>5. Fits(s, m, a, l)
    BY <1>1, <1>2 DEF Fits, FirstOnly
  <1> QED
    BY <1>1, <1>4, <1>5

\* A handler of one item.
LEMMA OneItem ==
    ASSUME NEW x, ItemOK(x), x.op \notin {"list", "snap", "learn", "delete"}
    PROVE  Leading(<<x>>)
  <1>1. x \in Item
    BY DEF ItemOK
  <1>2. /\ <<x>> \in Seq(Item) /\ \A i \in 1..Len(<<x>>) : i = 1 /\ <<x>>[i] = x
        /\ ~\E i \in 2..Len(<<x>>) : TRUE
    BY <1>1
  <1> QED
    BY <1>2 DEF Leading

\* What is left after a closing or a deletion, when no entry came back to life and
\* a deletion only took its own.
LEMMA RestFits ==
    ASSUME NEW s, s \in Seq(Item), s # <<>>, Shape(s), s[1].op \in {"close", "delete"},
           NEW m, NEW a, NEW l, Fits(s, m, a, l), NEW m2, NEW a2, NEW l2,
           \A k \in Keys : Live(m2[k]) => Live(m[k]),
           s[1].op = "delete" => \A k \in Keys \ {s[1].key} : m2[k] = m[k]
    PROVE  Fits(Tail(s), m2, a2, l2)
  <1>1. PICK r : r = Tail(s)
    OBVIOUS
  <1>2. /\ r \in Seq(Item) /\ Len(s) \in Nat /\ Len(r) = Len(s) - 1 /\ 1 \in 1..Len(s)
        /\ \A i \in 1..Len(r) : i + 1 \in 2..Len(s) /\ i + 1 \in 1..Len(s) /\ 1 < i + 1
                               /\ r[i] = s[i + 1]
    BY <1>1
  <1>3. /\ \A i \in 1..Len(s) : ItemOK(s[i])
        /\ \A i \in 2..Len(s) : s[i].op \notin FirstOnly
        /\ \A i \in 2..Len(s) : s[i].op \in {"snap", "learn"} => i = 2 /\ s[1].op = "list"
        /\ \A i, j \in 1..Len(s) : j < i /\ s[i].op \in {"close", "delete"} => s[j].op = s[i].op
        /\ \A i, j \in 1..Len(s) : j < i /\ s[i].op = "delete" => s[j].key # s[i].key
    BY DEF Shape
  <1>4. \A i \in 1..Len(s) : /\ s[i].op = "close" => ~Live(m[s[i].key])
                             /\ s[i].op = "delete" => m[s[i].key] # None /\ ~Live(m[s[i].key])
    BY DEF Fits
  <1>5. \A i \in 1..Len(r) : /\ r[i].op \notin FirstOnly /\ r[i].op \notin {"snap", "learn"}
                             /\ r[i].op \in {"close", "delete"} =>
                                  r[i].key \in Keys /\ ~Live(m[r[i].key]) /\ s[1].op = r[i].op
                             /\ r[i].op = "delete" => r[i].key # s[1].key /\ m[r[i].key] # None
    <2> SUFFICES ASSUME NEW i \in 1..Len(r)
                 PROVE  /\ r[i].op \notin FirstOnly /\ r[i].op \notin {"snap", "learn"}
                        /\ r[i].op \in {"close", "delete"} =>
                             r[i].key \in Keys /\ ~Live(m[r[i].key]) /\ s[1].op = r[i].op
                        /\ r[i].op = "delete" => r[i].key # s[1].key /\ m[r[i].key] # None
      OBVIOUS
    <2>1. PICK n \in 2..Len(s) : n \in 1..Len(s) /\ 1 < n /\ r[i] = s[n]
      BY <1>2
    <2>2. r[i].op \notin FirstOnly /\ r[i].op \notin {"snap", "learn"}
      BY <1>3, <2>1
    <2>3. ItemOK(s[n])
      BY <1>3, <2>1
    <2>4. r[i].op \in {"close", "delete"} => r[i].key \in Keys
      BY <2>1, <2>3 DEF ItemOK, Whole
    <2>5. r[i].op \in {"close", "delete"} => ~Live(m[r[i].key])
      BY <1>4, <2>1
    <2>6. r[i].op = "delete" => m[r[i].key] # None
      BY <1>4, <2>1
    <2>7. r[i].op \in {"close", "delete"} => s[1].op = r[i].op
      BY <1>2, <1>3, <2>1
    <2>8. r[i].op = "delete" => r[i].key # s[1].key
      BY <1>2, <1>3, <2>1
    <2> QED
      BY <2>2, <2>4, <2>5, <2>6, <2>7, <2>8
  <1>6. \A i \in 1..Len(r) : /\ r[i].op = "close" => ~Live(m2[r[i].key])
                             /\ r[i].op = "delete" => m2[r[i].key] # None /\ ~Live(m2[r[i].key])
    BY <1>5
  <1>7. r # <<>> => r[1].op \notin FirstOnly /\ r[1].op \notin {"snap", "learn"}
    BY <1>2, <1>5
  <1>8. Fits(r, m2, a2, l2)
    BY <1>6, <1>7 DEF Fits, FirstOnly
  <1> QED
    BY <1>1, <1>8

\* What every step of a handler leaves alone.
Aside == UNCHANGED <<herdr, events, proc, due, control, news, missed>>

\* Types of what a step may do to the registry.
Registry ==
    /\ reg \in [Keys -> Look \cup {None}]
    /\ listed \in [{"loop", "run"} -> [Keys -> Look \cup {None}] \cup {None}]

\* A step of the handler keeps the invariant when what it leaves fits.
LEMMA StepKeeps ==
    ASSUME IInv, Aside, Data', Registry', todo' \in Seq(Item), Shape(todo'),
           Fits(todo', mem', agents', listed'["loop"])
    PROVE  IInv'
  <1>1. TypeOK'
    BY DEF IInv, TypeOK, Aside, control, Data, Registry
  <1>2. Handler'
    BY DEF Handler
  <1>3. Waiting'
    BY DEF IInv, Waiting, Aside
  <1>4. Mapped'
    BY DEF Data
  <1> QED
    BY <1>1, <1>2, <1>3, <1>4 DEF IInv

\* An item that comes before anything puts items in front of the rest.
LEMMA ItemKeeps ==
    ASSUME IInv, Aside, todo # <<>>, item.op \notin {"list", "close", "delete"}, Data', Registry',
           NEW f, Continue(f), Leading(f), Fits(f, mem', agents', listed'["loop"])
    PROVE  IInv'
  <1>1. todo \in Seq(Item) /\ Shape(todo)
    BY DEF IInv, TypeOK, Handler
  <1>2. Later(rest)
    BY <1>1, RestShape DEF item, rest
  <1>3. todo' = f \o rest
    BY DEF Continue
  <1>4. PICK r : r = rest
    OBVIOUS
  <1>5. PICK m : m = mem'
    OBVIOUS
  <1>6. PICK a : a = agents'
    OBVIOUS
  <1>7. PICK l : l = listed'["loop"]
    OBVIOUS
  <1>8. (f \o r) \in Seq(Item) /\ Shape(f \o r) /\ Fits(f \o r, m, a, l)
    <2>1. Fits(f, m, a, l)
      BY <1>5, <1>6, <1>7
    <2>2. Later(r)
      BY <1>2, <1>4
    <2> QED
      BY ONLY Leading(f), <2>1, <2>2, Resume
  <1>9. todo' \in Seq(Item) /\ Shape(todo') /\ Fits(todo', mem', agents', listed'["loop"])
    BY <1>3, <1>4, <1>5, <1>6, <1>7, <1>8
  <1> QED
    BY <1>9, StepKeeps

\* A closing or a deletion leaves the rest.
LEMMA ClosingKeeps ==
    ASSUME IInv, Aside, todo # <<>>, item.op \in {"close", "delete"}, Data', Registry',
           Continue(<<>>), \A k \in Keys : Live(mem'[k]) => Live(mem[k]),
           item.op = "delete" => \A k \in Keys \ {item.key} : mem'[k] = mem[k]
    PROVE  IInv'
  <1>1. todo \in Seq(Item) /\ Shape(todo) /\ Fits(todo, mem, agents, listed["loop"])
    BY DEF IInv, TypeOK, Handler
  <1>2. rest \in Seq(Item) /\ Shape(rest) /\ item = todo[1]
    BY <1>1, RestShape DEF item, rest
  <1>3. todo' = rest
    BY <1>2 DEF Continue
  <1>4. PICK s : s = todo
    OBVIOUS
  <1>5. PICK m2 : m2 = mem'
    OBVIOUS
  <1>6. PICK a2 : a2 = agents'
    OBVIOUS
  <1>7. PICK l2 : l2 = listed'["loop"]
    OBVIOUS
  <1>8. PICK m : m = mem
    OBVIOUS
  <1>9. Fits(Tail(s), m2, a2, l2)
    <2>1. /\ s \in Seq(Item) /\ s # <<>> /\ Shape(s) /\ s[1].op \in {"close", "delete"}
          /\ Fits(s, m, agents, listed["loop"])
      BY <1>1, <1>2, <1>4, <1>8
    <2>2. /\ \A k \in Keys : Live(m2[k]) => Live(m[k])
          /\ s[1].op = "delete" => \A k \in Keys \ {s[1].key} : m2[k] = m[k]
      BY <1>2, <1>4, <1>5, <1>8
    <2> QED
      BY ONLY <2>1, <2>2, RestFits
  <1>10. Fits(todo', mem', agents', listed'["loop"])
    BY <1>3, <1>4, <1>5, <1>6, <1>7, <1>9 DEF rest
  <1> QED
    BY <1>2, <1>3, <1>10, StepKeeps

-----------------------------------------------------------------------------
(* The items of a handler keep the invariant *)

\* What is known of the item at hand.
LEMMA ItemKnown ==
    ASSUME IInv, todo # <<>>
    PROVE  /\ TypeOK /\ Mapped /\ item \in Item /\ item.op \in Ops
           /\ item.look \in Look \cup {None} /\ item.force \in BOOLEAN
           /\ item.op \notin Whole => item.key \in Keys
           /\ item.op \in {"appeared", "changed"} => item.look # None
           /\ item.op = "close" => ~Live(mem[item.key])
           /\ item.op = "delete" => mem[item.key] # None /\ ~Live(mem[item.key])
           /\ item.op = "create" => agents[item.key] # None /\ ~Live(mem[item.key])
           /\ item.op = "make" => agents[item.key] # None /\ mem[item.key] = None
           /\ item.op = "refresh" => agents[item.key] # None /\ mem[item.key] # None
                                     /\ ~mem[item.key].muted
           /\ item.op = "finish" => mem[item.key] = None \/ ~mem[item.key].muted
           /\ item.op \in {"snap", "learn"} =>
                listed["loop"] \in [Keys -> Look \cup {None}]
  <1>1. TypeOK /\ Mapped /\ todo \in Seq(Item) /\ Shape(todo) /\ Fits(todo, mem, agents, listed["loop"])
    BY DEF IInv, TypeOK, Handler
  <1>2. ItemOK(todo[1]) /\ item = todo[1] /\ 1 \in 1..Len(todo)
    BY <1>1, RestShape DEF item
  <1>3. item \in Item /\ item.op \in Ops /\ item.look \in Look \cup {None} /\ item.force \in BOOLEAN
    BY <1>2 DEF ItemOK, Item
  <1>4. /\ item.op \notin Whole => item.key \in Keys
        /\ item.op \in {"appeared", "changed"} => item.look # None
    BY <1>2 DEF ItemOK
  <1>5. /\ item.op = "close" => ~Live(mem[item.key])
        /\ item.op = "delete" => mem[item.key] # None /\ ~Live(mem[item.key])
    BY <1>1, <1>2 DEF Fits
  <1> QED
    BY <1>1, <1>2, <1>3, <1>4, <1>5 DEF Fits

\* A step that leaves the topics, and the topic of every entry it keeps.
LEMMA MemKept ==
    ASSUME TypeOK, Mapped, UNCHANGED tg, mem' \in [Keys -> Entry \cup {None}],
           SameLinks(mem, mem', tg, strays'), disk' \in {disk, mem'},
           strays \subseteq strays', strays' \subseteq 1..MaxThreads,
           agents' \in [Keys -> Look \cup {None}], timers' \subseteq Keys,
           failed' \in BOOLEAN, trouble' \in 0..MaxTrouble
    PROVE  Data'
  <1>1. /\ tg \in Seq(Topic) /\ Len(tg) <= MaxThreads /\ disk' \in [Keys -> Entry \cup {None}]
        /\ Links(mem, tg) /\ Links(disk, tg) /\ Linking(mem, tg, strays)
    BY DEF TypeOK, Mapped
  <1>2. SameTopics(tg, tg)
    BY <1>1 DEF SameTopics
  <1>3. Links(mem', tg) /\ Links(disk', tg) /\ Linking(mem', tg, strays')
    BY ONLY <1>1, <1>2, LinksKept, SameLinks(mem, mem', tg, strays'), disk' \in {disk, mem'},
            strays \subseteq strays'
  <1>4. Mapped'
    BY <1>1, <1>3 DEF Mapped
  <1> QED
    BY <1>1, <1>4 DEF Data

\* A mapping that does not change, or only in one entry.
LEMMA SameMem == ASSUME NEW T, NEW lost PROVE SameLinks(mem, mem, T, lost)
  BY DEF SameLinks

\* An entry that changes but keeps its topic.
LEMMA OneEntry ==
    ASSUME NEW m \in [Keys -> Entry \cup {None}], NEW T, NEW lost, NEW k \in Keys, m[k] # None,
           NEW e \in Entry, e.thread = m[k].thread
    PROVE  /\ SameLinks(m, [m EXCEPT ![k] = e], T, lost)
           /\ [m EXCEPT ![k] = e] \in [Keys -> Entry \cup {None}]
           /\ [m EXCEPT ![k] = e][k] = e
  BY NoneIsApart DEF SameLinks

\* A step that writes nothing.
LEMMA MovesKeep ==
    ASSUME TypeOK, Mapped, UNCHANGED <<mem, disk, tg, strays>>,
           agents' \in [Keys -> Look \cup {None}], timers' \subseteq Keys, failed' \in BOOLEAN,
           trouble' \in 0..MaxTrouble
    PROVE  Data'
  <1>1. /\ mem' \in [Keys -> Entry \cup {None}] /\ SameLinks(mem, mem', tg, strays')
        /\ disk' \in {disk, mem'} /\ strays \subseteq strays' /\ strays' \subseteq 1..MaxThreads
    BY SameMem DEF TypeOK
  <1> QED
    BY <1>1, MemKept

\* Save and Troubled within their bounds.
LEMMA SaveKept ==
    ASSUME TypeOK, Save \/ Troubled \/ UNCHANGED trouble
    PROVE  trouble' \in 0..MaxTrouble /\ (Save => disk' \in {disk, mem'})
  BY MirrorAssumption DEF TypeOK, Save, Troubled

\* An item that is held back is dropped.
LEMMA HeldKeeps ==
    ASSUME IInv, Aside, todo # <<>>, item.op \notin {"list", "close", "delete"},
           Held, UNCHANGED <<registry, strays>>
    PROVE  IInv'
  <1>1. TypeOK /\ Mapped
    BY DEF IInv
  <1>2. Data' /\ Registry'
    <2>1. Registry'
      BY <1>1 DEF Registry, registry, TypeOK
    <2>2. /\ UNCHANGED <<mem, disk, tg, strays>> /\ agents' \in [Keys -> Look \cup {None}]
          /\ timers' \subseteq Keys /\ failed' \in BOOLEAN /\ trouble' \in 0..MaxTrouble
      BY <1>1 DEF Held, TypeOK
    <2> QED
      BY <1>1, <2>1, <2>2, MovesKeep
  <1>3. Continue(<<>>)
    BY DEF Held
  <1>4. Later(<<>>) /\ Leading(<<>>)
    BY DEF Later, Leading
  <1>5. Fits(<<>>, mem', agents', listed'["loop"])
    BY DEF Fits
  <1> QED
    BY <1>2, <1>3, <1>4, <1>5, ItemKeeps

\* A step of the handler that writes nothing and goes on with f.
LEMMA GoesOn ==
    ASSUME IInv, Aside, todo # <<>>, item.op \notin {"list", "close", "delete"},
           UNCHANGED <<mem, disk, tg, strays, registry>>,
           agents' \in [Keys -> Look \cup {None}], timers' \subseteq Keys, failed' \in BOOLEAN,
           trouble' \in 0..MaxTrouble,
           NEW f, Continue(f), Leading(f), Fits(f, mem, agents', listed["loop"])
    PROVE  IInv'
  <1>1. TypeOK /\ Mapped
    BY DEF IInv
  <1>2. Data'
    BY <1>1, MovesKeep
  <1>3. Registry' /\ Fits(f, mem', agents', listed'["loop"])
    BY <1>1 DEF Registry, registry, TypeOK
  <1> QED
    BY <1>2, <1>3, ItemKeeps

\* What an item that is next in line asks of the mapping and the agents.
Suits(x, m, a) ==
    /\ x.op \in {"close", "create"} => ~Live(m[x.key])
    /\ x.op = "create" => a[x.key] # None
    /\ x.op = "make" => a[x.key] # None /\ m[x.key] = None
    /\ x.op = "refresh" => a[x.key] # None /\ m[x.key] # None /\ ~m[x.key].muted
    /\ x.op = "finish" => m[x.key] = None \/ ~m[x.key].muted

\* It then fits as a handler of its own.
LEMMA FitsOne ==
    ASSUME NEW x, NEW m, NEW a, NEW l, Suits(x, m, a), x.op \notin {"list", "snap", "learn", "delete"}
    PROVE  Fits(<<x>>, m, a, l)
  <1>1. \A i \in 1..Len(<<x>>) : <<x>>[i] = x
    OBVIOUS
  <1> QED
    BY <1>1 DEF Fits, Suits

\* An item that carries only its key.
LEMMA DoItem ==
    ASSUME NEW o \in Ops \ {"appeared", "changed"}, NEW k \in Keys
    PROVE  ItemOK(Do(o, k)) /\ Do(o, k).op = o /\ Do(o, k).key = k
  BY DEF Do, ItemOK, Item

\* The handler goes on with one item more ...
LEMMA NextItem ==
    ASSUME IInv, Aside, todo # <<>>, item.op \notin {"list", "close", "delete"}, Data', Registry',
           NEW x, ItemOK(x), x.op \notin {"list", "snap", "learn", "delete"}, Continue(<<x>>),
           Suits(x, mem', agents')
    PROVE  IInv'
  <1>1. Leading(<<x>>)
    BY OneItem
  <1>2. Fits(<<x>>, mem', agents', listed'["loop"])
    BY FitsOne
  <1> QED
    BY <1>1, <1>2, ItemKeeps

\* ... or with none.
LEMMA NoItem ==
    ASSUME IInv, Aside, todo # <<>>, item.op \notin {"list", "close", "delete"}, Data', Registry',
           Continue(<<>>)
    PROVE  IInv'
  <1>1. Leading(<<>>)
    BY DEF Leading
  <1>2. Fits(<<>>, mem', agents', listed'["loop"])
    BY DEF Fits
  <1> QED
    BY <1>1, <1>2, ItemKeeps

\* The registry that is not touched.
LEMMA RegistryKept == ASSUME TypeOK, UNCHANGED registry PROVE Registry'
  BY DEF TypeOK, registry, Registry

\* Handle: an event starts the exit, creation or edit of its agent's topic.
LEMMA HandleKeeps ==
    ASSUME IInv, Aside, todo # <<>>, HandleEvent, UNCHANGED <<registry, strays>> PROVE IInv'
  <1> DEFINE k == item.key
  <1>1. /\ TypeOK /\ Mapped /\ item.look \in Look \cup {None} /\ item.op \in Reports
        /\ k \in Keys /\ (item.op # "gone" => item.look # None)
    BY ItemKnown DEF HandleEvent, Whole, Reports
  <1>2. item.op \notin {"list", "close", "delete"}
    BY <1>1 DEF Reports
  <1>3. agents' = [agents EXCEPT ![k] = item.look] /\ UNCHANGED <<mem, disk, tg, failed, trouble>>
    BY DEF HandleEvent
  <1>4. timers' \subseteq Keys
    BY <1>1 DEF HandleEvent, TypeOK
  <1>5. agents' \in [Keys -> Look \cup {None}] /\ agents'[k] = item.look
    BY <1>1, <1>3 DEF TypeOK
  <1>6. Data' /\ Registry'
    <2>1. UNCHANGED <<mem, disk, tg, strays>> /\ failed' \in BOOLEAN /\ trouble' \in 0..MaxTrouble
      BY <1>1, <1>3 DEF TypeOK
    <2> QED
      BY <1>1, <1>4, <1>5, <2>1, MovesKeep, RegistryKept
  <1>7. CASE Continue(<<Do("exit", k)>>)
    <2>1. ItemOK(Do("exit", k)) /\ Do("exit", k).op = "exit"
      BY <1>1, DoItem DEF Ops
    <2> QED
      BY <1>2, <1>6, <1>7, <2>1, NextItem DEF Suits
  <1>8. CASE Continue(<<Do("create", k)>>) /\ ~Live(mem[k]) /\ item.op # "gone"
    <2>1. ItemOK(Do("create", k)) /\ Do("create", k).op = "create" /\ Do("create", k).key = k
      BY <1>1, DoItem DEF Ops
    <2>2. Suits(Do("create", k), mem', agents')
      BY <1>1, <1>3, <1>5, <1>8, <2>1 DEF Suits
    <2> QED
      BY <1>2, <1>6, <1>8, <2>1, <2>2, NextItem
  <1>9. CASE Continue(<<Do("edit", k)>>)
    <2>1. ItemOK(Do("edit", k)) /\ Do("edit", k).op = "edit"
      BY <1>1, DoItem DEF Ops
    <2> QED
      BY <1>2, <1>6, <1>9, <2>1, NextItem DEF Suits
  <1>10. CASE Continue(<<>>)
    BY <1>2, <1>6, <1>10, NoItem
  <1> QED
    BY <1>7, <1>8, <1>9, <1>10 DEF HandleEvent

\* A step that writes nothing leads to one item more, or to none.
LEMMA MovesOn ==
    ASSUME IInv, Aside, todo # <<>>, UNCHANGED <<registry, strays>>,
           item.op \notin {"list", "close", "delete"},
           NEW x, ItemOK(x), x.op \notin {"list", "snap", "learn", "delete"}, Suits(x, mem, agents),
           Moves(<<x>>)
    PROVE  IInv'
  <1>1. TypeOK /\ Mapped
    BY DEF IInv
  <1>2. Data' /\ Registry'
    BY <1>1, MovesKeep, RegistryKept DEF Moves, TypeOK
  <1>3. Continue(<<x>>) /\ Suits(x, mem', agents')
    BY DEF Moves
  <1> QED
    BY <1>2, <1>3, NextItem

\* A step that only goes on with the rest.
LEMMA MovesOff ==
    ASSUME IInv, Aside, todo # <<>>, UNCHANGED <<registry, strays>>,
           item.op \notin {"list", "close", "delete"}, Moves(<<>>)
    PROVE  IInv'
  <1>1. TypeOK /\ Mapped
    BY DEF IInv
  <1>2. Data' /\ Registry'
    BY <1>1, MovesKeep, RegistryKept DEF Moves, TypeOK
  <1> QED
    BY <1>2, NoItem DEF Moves

\* A call on the item's topic, and what the handler does when it succeeds.
LEMMA CallGoesOn ==
    ASSUME IInv, Aside, todo # <<>>, UNCHANGED <<registry, strays>>,
           item.op \notin {"list", "close", "delete"}, NEW k \in Keys, mem[k] # None,
           NEW after \in Topic, after.key = k, after.exists => tg[mem[k].thread].exists,
           NEW entry \in Entry, entry.thread = mem[k].thread,
           NEW x, ItemOK(x), x.op \notin {"list", "snap", "learn", "delete"},
           Suits(x, [mem EXCEPT ![k] = entry], agents),
           Calls(k, after, entry, <<x>>)
    PROVE  IInv'
  <1>1. TypeOK /\ Mapped
    BY DEF IInv
  <1>2. PICK next : next = <<x>>
    OBVIOUS
  <1>3. entry \in Entry \cup {None} /\ entry # None
    BY NoneIsApart
  <1>4. /\ Data' /\ UNCHANGED agents
        /\ (Continue(next) /\ mem' = [mem EXCEPT ![k] = entry]) \/ Continue(<<>>)
    BY <1>1, <1>2, <1>3, CallsKeep
  <1>5. Registry'
    BY <1>1, RegistryKept
  <1>6. CASE Continue(<<x>>) /\ mem' = [mem EXCEPT ![k] = entry]
    <2>1. Suits(x, mem', agents')
      BY <1>4, <1>6
    <2> QED
      BY <1>4, <1>5, <1>6, <2>1, NextItem
  <1>7. CASE Continue(<<>>)
    BY <1>4, <1>5, <1>7, NoItem
  <1> QED
    BY <1>2, <1>4, <1>6, <1>7

\* A call after which the handler goes on with the rest.
LEMMA CallEnds ==
    ASSUME IInv, Aside, todo # <<>>, UNCHANGED <<registry, strays>>,
           item.op \notin {"list", "close", "delete"}, NEW k \in Keys, mem[k] # None,
           NEW after \in Topic, after.key = k, after.exists => tg[mem[k].thread].exists,
           NEW entry \in Entry, entry.thread = mem[k].thread,
           Calls(k, after, entry, <<>>)
    PROVE  IInv'
  <1>1. TypeOK /\ Mapped
    BY DEF IInv
  <1>2. PICK next : next = <<>>
    OBVIOUS
  <1>3. entry \in Entry \cup {None} /\ entry # None
    BY NoneIsApart
  <1>4. Data' /\ (Continue(next) \/ Continue(<<>>))
    BY <1>1, <1>2, <1>3, CallsKeep
  <1>5. Registry'
    BY <1>1, RegistryKept
  <1> QED
    BY <1>2, <1>4, <1>5, NoItem

\* What an agent looks like on its topic.
LEMMA Dressed == ASSUME NEW a \in Look PROVE Display(a.name) \in TopicName /\ a.status \in Statuses
  BY DEF Look, Display, TopicName

\* The topic of an entry.
LEMMA TopicKnown ==
    ASSUME TypeOK, Mapped, NEW k \in Keys, mem[k] # None
    PROVE  /\ mem[k] \in Entry /\ mem[k].thread \in 1..Len(tg)
           /\ tg[mem[k].thread] \in Topic /\ tg[mem[k].thread].key = k
  BY DEF TypeOK, Mapped, Links

\* create: a topic is only made or revived for an agent without a live entry.
LEMMA CreateKeeps ==
    ASSUME IInv, Aside, todo # <<>>, CreateItem, UNCHANGED <<registry, strays>> PROVE IInv'
  <1> PICK k : k = item.key
    OBVIOUS
  <1>1. item.op = "create"
    BY DEF CreateItem
  <1>2. TypeOK /\ Mapped /\ k \in Keys /\ agents[k] # None /\ ~Live(mem[k])
    BY <1>1, ItemKnown DEF Whole
  <1>3. item.op \notin {"list", "close", "delete"}
    BY <1>1
  <1>4. PICK e : e = [mem[k] EXCEPT !.closed = FALSE, !.muted = FALSE]
    OBVIOUS
  <1>5. mem[k] # None => e \in Entry /\ e.thread = mem[k].thread /\ ~e.muted
    BY <1>2, <1>4, TopicKnown DEF Entry
  <1>6. ItemOK(Do("make", k)) /\ Do("make", k).op = "make" /\ Do("make", k).key = k
    BY <1>2, DoItem DEF Ops
  <1>7. ItemOK(Do("refresh", k)) /\ Do("refresh", k).op = "refresh" /\ Do("refresh", k).key = k
    BY <1>2, DoItem DEF Ops
  <1>8. mem[k] # None => Suits(Do("refresh", k), [mem EXCEPT ![k] = e], agents)
    <2> SUFFICES ASSUME mem[k] # None PROVE Suits(Do("refresh", k), [mem EXCEPT ![k] = e], agents)
      OBVIOUS
    <2>1. [mem EXCEPT ![k] = e][k] = e /\ e # None /\ ~e.muted
      BY <1>2, <1>5, NoneIsApart DEF TypeOK
    <2> QED
      BY <1>2, <1>7, <2>1 DEF Suits
  <1>9. CASE Held
    BY <1>3, <1>9, HeldKeeps
  <1>10. CASE mem[k] = None /\ Moves(<<Do("make", k)>>)
    <2>1. Suits(Do("make", k), mem, agents)
      BY <1>2, <1>6, <1>10 DEF Suits
    <2> QED
      BY <1>3, <1>6, <1>10, <2>1, MovesOn
  <1>11. CASE /\ mem[k] # None /\ mem' = [mem EXCEPT ![k] = e] /\ Save
              /\ Continue(<<Do("refresh", k)>>) /\ UNCHANGED <<tg, failed, agents, timers>>
    <2>1. /\ SameLinks(mem, mem', tg, strays') /\ mem' \in [Keys -> Entry \cup {None}]
      BY <1>2, <1>5, <1>11, OneEntry DEF TypeOK
    <2>2. trouble' \in 0..MaxTrouble /\ disk' \in {disk, mem'}
      BY <1>2, <1>11, SaveKept
    <2>3. /\ agents' \in [Keys -> Look \cup {None}] /\ timers' \subseteq Keys /\ failed' \in BOOLEAN
          /\ strays \subseteq strays' /\ strays' \subseteq 1..MaxThreads
      BY <1>2, <1>11 DEF TypeOK
    <2>4. Data' /\ Registry'
      BY <1>2, <1>11, <2>1, <2>2, <2>3, MemKept, RegistryKept
    <2>5. Suits(Do("refresh", k), mem', agents')
      BY <1>8, <1>11
    <2> QED
      BY <1>3, <1>7, <1>11, <2>4, <2>5, NextItem
  <1>12. CASE /\ mem[k] # None
              /\ Calls(k, [tg[mem[k].thread] EXCEPT !.closed = FALSE], e, <<Do("refresh", k)>>)
    <2>1. PICK after : after = [tg[mem[k].thread] EXCEPT !.closed = FALSE]
      OBVIOUS
    <2>2. after \in Topic /\ after.key = k /\ after.exists = tg[mem[k].thread].exists
      <3>1. tg[mem[k].thread] \in Topic /\ tg[mem[k].thread].key = k
        BY <1>2, <1>12, TopicKnown
      <3> QED
        BY <2>1, <3>1 DEF Topic
    <2>3. Calls(k, after, e, <<Do("refresh", k)>>)
      BY <1>12, <2>1
    <2> QED
      BY <1>2, <1>3, <1>5, <1>7, <1>8, <1>12, <2>2, <2>3, CallGoesOn
  <1>13. CASE /\ mem[k] # None /\ ~tg[mem[k].thread].exists /\ mem' = [mem EXCEPT ![k] = None]
              /\ Continue(<<Do("make", k)>>)
              /\ UNCHANGED <<disk, tg, failed, agents, timers, trouble>>
    <2>1. mem' \in [Keys -> Entry \cup {None}] /\ SameLinks(mem, mem', tg, strays') /\ mem'[k] = None
      BY <1>2, <1>13 DEF TypeOK, SameLinks
    <2>2. /\ agents' \in [Keys -> Look \cup {None}] /\ timers' \subseteq Keys /\ failed' \in BOOLEAN
          /\ strays \subseteq strays' /\ strays' \subseteq 1..MaxThreads /\ trouble' \in 0..MaxTrouble
      BY <1>2, <1>13 DEF TypeOK
    <2>3. Data' /\ Registry'
      BY <1>2, <1>13, <2>1, <2>2, MemKept, RegistryKept
    <2>4. Suits(Do("make", k), mem', agents')
      BY <1>2, <1>6, <1>13, <2>1 DEF Suits
    <2> QED
      BY <1>3, <1>6, <1>13, <2>3, <2>4, NextItem
  <1> QED
    BY <1>4, <1>9, <1>10, <1>11, <1>12, <1>13 DEF CreateItem

\* The second half of revive dresses the topic as the agent looks.
LEMMA RefreshKeeps ==
    ASSUME IInv, Aside, todo # <<>>, RefreshItem, UNCHANGED <<registry, strays>> PROVE IInv'
  <1> PICK k : k = item.key
    OBVIOUS
  <1>1. item.op = "refresh" /\ item.op \notin {"list", "close", "delete"}
    BY DEF RefreshItem
  <1>2. TypeOK /\ Mapped /\ k \in Keys /\ agents[k] # None /\ mem[k] # None
    BY <1>1, ItemKnown DEF Whole
  <1>3. Display(agents[k].name) \in TopicName /\ agents[k].status \in Statuses
    BY <1>2, Dressed DEF TypeOK
  <1>4. PICK n : n = IF Display(agents[k].name) # mem[k].name THEN Display(agents[k].name)
                     ELSE tg[mem[k].thread].name
    OBVIOUS
  <1>5. PICK after : after = [tg[mem[k].thread] EXCEPT !.name = n, !.status = agents[k].status]
    OBVIOUS
  <1>6. PICK entry : entry = [mem[k] EXCEPT !.name = Display(agents[k].name),
                                            !.status = agents[k].status]
    OBVIOUS
  <1>7. tg[mem[k].thread] \in Topic /\ tg[mem[k].thread].key = k /\ mem[k] \in Entry
    BY <1>2, TopicKnown
  <1>8. n \in TopicName
    BY <1>3, <1>4, <1>7 DEF Topic
  <1>9. after \in Topic /\ after.key = k /\ after.exists = tg[mem[k].thread].exists
    BY <1>3, <1>5, <1>7, <1>8 DEF Topic
  <1>10. entry \in Entry /\ entry.thread = mem[k].thread
    BY <1>3, <1>6, <1>7 DEF Entry
  <1>11. Calls(k, after, entry, <<>>)
    BY <1>4, <1>5, <1>6 DEF RefreshItem
  <1> QED
    BY <1>1, <1>2, <1>9, <1>10, <1>11, CallEnds

\* edit writes the look of an agent that runs, or has its topic created.
LEMMA EditKeeps ==
    ASSUME IInv, Aside, todo # <<>>, EditItem, UNCHANGED <<registry, strays>> PROVE IInv'
  <1> PICK k : k = item.key
    OBVIOUS
  <1>1. item.op = "edit" /\ item.op \notin {"list", "close", "delete"}
    BY DEF EditItem
  <1>2. TypeOK /\ Mapped /\ k \in Keys
    BY <1>1, ItemKnown DEF Whole
  <1>3. CASE Moves(<<>>)
    BY <1>1, <1>3, MovesOff
  <1>4. CASE Held
    BY <1>1, <1>4, HeldKeeps
  <1>5. CASE agents[k] # None /\ mem[k] = None /\ Moves(<<Do("create", k)>>)
    <2>1. ItemOK(Do("create", k)) /\ Do("create", k).op = "create" /\ Do("create", k).key = k
      BY <1>2, DoItem DEF Ops
    <2>2. Suits(Do("create", k), mem, agents)
      BY <1>5, <2>1 DEF Suits, Live
    <2> QED
      BY <1>1, <1>5, <2>1, <2>2, MovesOn
  <1>6. CASE agents[k] # None /\ mem[k] # None /\ Edits(k, item.force)
    <2>1. Display(agents[k].name) \in TopicName /\ agents[k].status \in Statuses
      BY <1>2, <1>6, Dressed DEF TypeOK
    <2>2. tg[mem[k].thread] \in Topic /\ tg[mem[k].thread].key = k /\ mem[k] \in Entry
      BY <1>2, <1>6, TopicKnown
    <2>3. PICK n : n = IF item.force \/ Display(agents[k].name) # mem[k].name
                       THEN Display(agents[k].name) ELSE tg[mem[k].thread].name
      OBVIOUS
    <2>4. PICK after : after = [tg[mem[k].thread] EXCEPT !.name = n, !.status = agents[k].status]
      OBVIOUS
    <2>5. PICK entry : entry = [mem[k] EXCEPT !.name = Display(agents[k].name),
                                              !.status = agents[k].status]
      OBVIOUS
    <2>6. n \in TopicName
      BY <2>1, <2>2, <2>3 DEF Topic
    <2>7. after \in Topic /\ after.key = k /\ after.exists = tg[mem[k].thread].exists
      BY <2>1, <2>2, <2>4, <2>6 DEF Topic
    <2>8. entry \in Entry /\ entry.thread = mem[k].thread
      BY <2>1, <2>2, <2>5 DEF Entry
    <2>9. Calls(k, after, entry, <<>>)
      BY <1>6, <2>3, <2>4, <2>5 DEF Edits
    <2> QED
      BY <1>1, <1>2, <1>6, <2>7, <2>8, <2>9, CallEnds
  <1> QED
    BY <1>3, <1>4, <1>5, <1>6 DEF EditItem

\* The topic and the entry of an agent that ended.
LEMMA Exited ==
    ASSUME TypeOK, Mapped, NEW k \in Keys, mem[k] # None,
           NEW after, after = [tg[mem[k].thread] EXCEPT !.status = "exited"],
           NEW entry, entry = [mem[k] EXCEPT !.status = "exited"]
    PROVE  /\ after \in Topic /\ after.key = k /\ after.exists = tg[mem[k].thread].exists
           /\ entry \in Entry /\ entry.thread = mem[k].thread /\ ~Live(entry)
  <1>1. tg[mem[k].thread] \in Topic /\ tg[mem[k].thread].key = k /\ mem[k] \in Entry
    BY TopicKnown
  <1>2. after \in Topic /\ after.key = k /\ after.exists = tg[mem[k].thread].exists
    BY <1>1 DEF Topic
  <1>3. entry \in Entry /\ entry.thread = mem[k].thread /\ entry.status = "exited"
    BY <1>1 DEF Entry
  <1> QED
    BY <1>2, <1>3 DEF Live

\* A call that writes the finished marker and goes on to the closing.
LEMMA FinishedKeeps ==
    ASSUME IInv, Aside, todo # <<>>, UNCHANGED <<registry, strays>>,
           item.op \notin {"list", "close", "delete"}, NEW k \in Keys, mem[k] # None,
           Calls(k, [tg[mem[k].thread] EXCEPT !.status = "exited"],
                 [mem[k] EXCEPT !.status = "exited"], <<Do("close", k)>>)
    PROVE  IInv'
  <1>1. TypeOK /\ Mapped
    BY DEF IInv
  <1>2. PICK after : after = [tg[mem[k].thread] EXCEPT !.status = "exited"]
    OBVIOUS
  <1>3. PICK entry : entry = [mem[k] EXCEPT !.status = "exited"]
    OBVIOUS
  <1>4. /\ after \in Topic /\ after.key = k /\ after.exists = tg[mem[k].thread].exists
        /\ entry \in Entry /\ entry.thread = mem[k].thread /\ ~Live(entry)
    BY <1>1, <1>2, <1>3, Exited
  <1>5. ItemOK(Do("close", k)) /\ Do("close", k).op = "close" /\ Do("close", k).key = k
    BY DoItem DEF Ops
  <1>6. Suits(Do("close", k), [mem EXCEPT ![k] = entry], agents)
    <2>1. [mem EXCEPT ![k] = entry][k] = entry
      BY <1>1 DEF TypeOK
    <2> QED
      BY <1>4, <1>5, <2>1 DEF Suits
  <1>7. Calls(k, after, entry, <<Do("close", k)>>)
    BY <1>2, <1>3
  <1> QED
    BY <1>4, <1>5, <1>6, <1>7, CallGoesOn

\* exit leaves an entry that is no longer live for the closing.
LEMMA ExitKeeps ==
    ASSUME IInv, Aside, todo # <<>>, ExitItem, UNCHANGED <<registry, strays>> PROVE IInv'
  <1> PICK k : k = item.key
    OBVIOUS
  <1>1. item.op = "exit" /\ item.op \notin {"list", "close", "delete"}
    BY DEF ExitItem
  <1>2. TypeOK /\ Mapped /\ k \in Keys
    BY <1>1, ItemKnown DEF Whole
  <1>3. CASE Moves(<<>>)
    BY <1>1, <1>3, MovesOff
  <1>4. CASE Held
    BY <1>1, <1>4, HeldKeeps
  <1>5. CASE /\ mem[k] # None
             /\ mem' = [mem EXCEPT ![k].status = "exited", ![k].closed = TRUE] /\ Save
             /\ Continue(<<>>) /\ UNCHANGED <<tg, failed, agents, timers>>
    <2>1. PICK e : e = [mem[k] EXCEPT !.status = "exited", !.closed = TRUE]
      OBVIOUS
    <2>2. mem[k] \in Entry
      BY <1>2, <1>5, TopicKnown
    <2>3. e \in Entry /\ e.thread = mem[k].thread
      BY <2>1, <2>2 DEF Entry
    <2>4. mem' = [mem EXCEPT ![k] = e]
      BY <1>2, <1>5, <2>1 DEF TypeOK
    <2>5. SameLinks(mem, mem', tg, strays') /\ mem' \in [Keys -> Entry \cup {None}]
      <3>1. mem \in [Keys -> Entry \cup {None}] /\ mem[k] # None
        BY <1>2, <1>5 DEF TypeOK
      <3> QED
        BY ONLY <1>2, <2>3, <2>4, <3>1, OneEntry
    <2>6. trouble' \in 0..MaxTrouble /\ disk' \in {disk, mem'}
      BY <1>2, <1>5, SaveKept
    <2>7. /\ agents' \in [Keys -> Look \cup {None}] /\ timers' \subseteq Keys /\ failed' \in BOOLEAN
          /\ strays \subseteq strays' /\ strays' \subseteq 1..MaxThreads
      BY <1>2, <1>5 DEF TypeOK
    <2>8. Data' /\ Registry'
      BY <1>2, <1>5, <2>5, <2>6, <2>7, MemKept, RegistryKept
    <2> QED
      BY <1>1, <1>5, <2>8, NoItem
  <1>6. CASE /\ mem[k] # None
             /\ Calls(k, [tg[mem[k].thread] EXCEPT !.status = "exited"],
                      [mem[k] EXCEPT !.status = "exited"], <<Do("close", k)>>)
    BY <1>1, <1>2, <1>6, FinishedKeeps
  <1>7. CASE ~Live(mem[k]) /\ Moves(<<Do("close", k)>>)
    <2>1. ItemOK(Do("close", k)) /\ Do("close", k).op = "close" /\ Do("close", k).key = k
      BY <1>2, DoItem DEF Ops
    <2>2. Suits(Do("close", k), mem, agents)
      BY <1>7, <2>1 DEF Suits
    <2> QED
      BY <1>1, <1>7, <2>1, <2>2, MovesOn
  <1> QED
    BY <1>3, <1>4, <1>5, <1>6, <1>7 DEF ExitItem

\* finish likewise, for a topic reopened by hand.
LEMMA FinishKeeps ==
    ASSUME IInv, Aside, todo # <<>>, FinishItem, UNCHANGED <<registry, strays>> PROVE IInv'
  <1> PICK k : k = item.key
    OBVIOUS
  <1>1. item.op = "finish" /\ item.op \notin {"list", "close", "delete"}
    BY DEF FinishItem
  <1>2. k \in Keys
    BY <1>1, ItemKnown DEF Whole
  <1>3. CASE Held
    BY <1>1, <1>3, HeldKeeps
  <1>4. CASE /\ mem[k] # None
             /\ Calls(k, [tg[mem[k].thread] EXCEPT !.status = "exited"],
                      [mem[k] EXCEPT !.status = "exited"], <<Do("close", k)>>)
    BY <1>1, <1>2, <1>4, FinishedKeeps
  <1> QED
    BY <1>3, <1>4 DEF FinishItem

\* A closing brings no entry to life, so the closings behind it still fit.
LEMMA CloseKeeps ==
    ASSUME IInv, Aside, todo # <<>>, CloseItem, UNCHANGED <<registry, strays>> PROVE IInv'
  <1> PICK k : k = item.key
    OBVIOUS
  <1>1. item.op = "close"
    BY DEF CloseItem
  <1>2. TypeOK /\ Mapped /\ k \in Keys /\ ~Live(mem[k])
    BY <1>1, ItemKnown DEF Whole
  <1>3. Registry'
    BY <1>2, RegistryKept
  <1>4. CASE Moves(<<>>) \/ Held
    <2>1. Continue(<<>>) /\ UNCHANGED <<mem, disk, tg, agents, timers, trouble>>
      BY <1>4 DEF Moves, Held
    <2>2. Data'
      BY <1>2, <1>4, <2>1, MovesKeep DEF TypeOK, Moves, Held
    <2>3. \A j \in Keys : Live(mem'[j]) => Live(mem[j])
      BY <2>1
    <2> QED
      BY <1>1, <1>3, <2>1, <2>2, <2>3, ClosingKeeps
  <1>5. CASE /\ mem[k] # None
             /\ Calls(k, [tg[mem[k].thread] EXCEPT !.closed = TRUE],
                      [mem[k] EXCEPT !.closed = TRUE], <<>>)
    <2>1. PICK after : after = [tg[mem[k].thread] EXCEPT !.closed = TRUE]
      OBVIOUS
    <2>2. PICK entry : entry = [mem[k] EXCEPT !.closed = TRUE]
      OBVIOUS
    <2>3. tg[mem[k].thread] \in Topic /\ tg[mem[k].thread].key = k /\ mem[k] \in Entry
      BY <1>2, <1>5, TopicKnown
    <2>4. after \in Topic /\ after.key = k /\ after.exists = tg[mem[k].thread].exists
      BY <2>1, <2>3 DEF Topic
    <2>5. entry \in Entry /\ entry.thread = mem[k].thread /\ entry.status = mem[k].status
      BY <2>2, <2>3 DEF Entry
    <2>6. PICK next : next = <<>>
      OBVIOUS
    <2>7. Calls(k, after, entry, next)
      BY <1>5, <2>1, <2>2, <2>6
    <2>8. entry \in Entry \cup {None} /\ entry # None
      BY <2>5, NoneIsApart
    <2>9. Data' /\ After(k, entry) /\ (Continue(next) \/ Continue(<<>>))
      BY <1>2, <1>5, <2>4, <2>5, <2>7, <2>8, CallsKeep
    <2>10. ~Live(entry) /\ ~Live(None)
      BY <1>2, <1>5, <2>5 DEF Live
    <2>11. \A j \in Keys : Live(mem'[j]) => Live(mem[j])
      BY <1>2, <2>9, <2>10 DEF After, TypeOK
    <2> QED
      BY <1>1, <1>3, <2>6, <2>9, <2>11, ClosingKeeps
  <1> QED
    BY <1>4, <1>5 DEF CloseItem

\* A deletion forgets one entry, so the deletions behind it still have theirs.
LEMMA DeleteKeeps ==
    ASSUME IInv, Aside, todo # <<>>, DeleteItem, UNCHANGED <<registry, strays>> PROVE IInv'
  <1> PICK k : k = item.key
    OBVIOUS
  <1>1. item.op = "delete"
    BY DEF DeleteItem
  <1>2. TypeOK /\ Mapped /\ k \in Keys /\ mem[k] # None /\ ~Live(mem[k])
    BY <1>1, ItemKnown DEF Whole
  <1>3. Registry'
    BY <1>2, RegistryKept
  <1>4. PICK after : after = [tg[mem[k].thread] EXCEPT !.exists = FALSE]
    OBVIOUS
  <1>5. tg[mem[k].thread] \in Topic /\ tg[mem[k].thread].key = k
    BY <1>2, TopicKnown
  <1>6. after \in Topic /\ after.key = k /\ ~after.exists
    BY <1>4, <1>5 DEF Topic
  <1>7. PICK next : next = <<>>
    OBVIOUS
  <1>8. PICK entry : entry = None
    OBVIOUS
  <1>9. Calls(k, after, entry, next)
    BY <1>4, <1>7, <1>8 DEF DeleteItem
  <1>10. Data' /\ After(k, entry) /\ (Continue(next) \/ Continue(<<>>))
    BY <1>2, <1>6, <1>8, <1>9, CallsKeep
  <1>11. /\ \A j \in Keys : Live(mem'[j]) => Live(mem[j])
         /\ \A j \in Keys \ {k} : mem'[j] = mem[j]
    BY <1>2, <1>8, <1>10 DEF After, TypeOK, Live
  <1> QED
    BY <1>1, <1>3, <1>7, <1>10, <1>11, ClosingKeeps

\* Items that may stand anywhere may also come first, and be put together.
LEMMA LaterLeading == ASSUME NEW s, Later(s) PROVE Leading(s)
  <1>1. /\ s \in Seq(Item) /\ Len(s) \in Nat /\ 2..Len(s) \subseteq 1..Len(s)
        /\ \A i \in 1..Len(s) :
             ItemOK(s[i]) /\ s[i].op \notin FirstOnly \cup {"snap", "learn", "close", "delete"}
    BY DEF Later
  <1> QED
    BY <1>1 DEF Leading, FirstOnly

\* Such items together are such items.
LEMMA LaterJoined == ASSUME NEW s, NEW t, Later(s), Later(t) PROVE Later(s \o t)
  <1>1. PICK q : q = s \o t
    OBVIOUS
  <1>2. s \in Seq(Item) /\ t \in Seq(Item)
    BY DEF Later
  <1>3. /\ q \in Seq(Item)
        /\ \A i \in 1..Len(q) : \/ i \in 1..Len(s) /\ q[i] = s[i]
                                \/ /\ i > Len(s) /\ i - Len(s) \in 1..Len(t)
                                   /\ q[i] = t[i - Len(s)]
    BY ONLY <1>1, <1>2, Joined
  <1>4. Later(q)
    BY <1>3 DEF Later
  <1> QED
    BY <1>1, <1>4

\* A list of plain items for some agents, by what the items are.
LEMMA ListingLater ==
    ASSUME NEW S \in SUBSET Keys, NEW o \in {"edit", "redo"}, NEW q, Listing(q, o, S) PROVE Later(q)
  <1>1. q \in Seq(Item) /\ \A i \in 1..Len(q) : q[i] \in Item /\ q[i].key \in Keys /\ q[i].op = o
    BY DEF Listing
  <1>2. \A i \in 1..Len(q) : ItemOK(q[i])
    BY <1>1 DEF ItemOK
  <1> QED
    BY <1>1, <1>2 DEF Later, FirstOnly

\* Closings come in front of the rest.
LEMMA ListingLeading ==
    ASSUME NEW S \in SUBSET Keys, NEW q, Listing(q, "close", S) PROVE Leading(q)
  <1>1. q \in Seq(Item) /\ \A i \in 1..Len(q) : q[i] \in Item /\ q[i].key \in Keys /\ q[i].op = "close"
    BY DEF Listing
  <1>2. \A i \in 1..Len(q) : ItemOK(q[i])
    BY <1>1 DEF ItemOK
  <1>3. Len(q) \in Nat /\ 2..Len(q) \subseteq 1..Len(q)
    BY <1>1
  <1> QED
    BY <1>1, <1>2, <1>3 DEF Leading, FirstOnly

\* The flush turns armed timers into edits.
LEMMA FlushKeeps ==
    ASSUME IInv, Aside, todo # <<>>, FlushItem, UNCHANGED <<registry, strays>> PROVE IInv'
  <1>1. item.op \notin {"list", "close", "delete"}
    BY DEF FlushItem
  <1>2. TypeOK /\ timers \in SUBSET Keys
    BY DEF IInv, TypeOK
  <1>3. PICK f : f = SetToSeq(Plain("edit", timers, FALSE))
    OBVIOUS
  <1>4. Continue(f)
    BY <1>3 DEF FlushItem, Plain, Do
  <1>5. Listing(f, "edit", timers)
    BY <1>2, <1>3, PlainList DEF Ops
  <1>6. Later(f)
    BY <1>2, <1>5, ListingLater
  <1>7. PICK a : a = agents'
    OBVIOUS
  <1>8. Leading(f) /\ Fits(f, mem, a, listed["loop"])
    BY ONLY <1>6, LaterLeading, LaterFits
  <1>9. /\ UNCHANGED <<mem, disk, tg, strays, registry>> /\ timers' \subseteq Keys
        /\ agents' \in [Keys -> Look \cup {None}] /\ failed' \in BOOLEAN /\ trouble' \in 0..MaxTrouble
    BY <1>2 DEF FlushItem, TypeOK
  <1> QED
    BY <1>1, <1>4, <1>7, <1>8, <1>9, GoesOn

\* An item about no agent that may come anywhere.
LEMMA WholeItem ==
    ASSUME NEW o \in {"flush", "pass", "unclosed", "prune"}, NEW b \in BOOLEAN
    PROVE  Later(<<[Do(o, None) EXCEPT !.force = b]>>) /\ Later(<<Do(o, None)>>)
  <1>1. ASSUME NEW x, x.op = o, ItemOK(x) PROVE Later(<<x>>)
    <2>1. x \in Item
      BY <1>1 DEF ItemOK
    <2>2. <<x>> \in Seq(Item) /\ \A i \in 1..Len(<<x>>) : <<x>>[i] = x
      BY <2>1
    <2> QED
      BY <1>1, <2>2 DEF Later, FirstOnly
  <1>2. PICK x : x = [op |-> o, key |-> None, look |-> None, force |-> b]
    OBVIOUS
  <1>3. PICK y : y = [op |-> o, key |-> None, look |-> None, force |-> FALSE]
    OBVIOUS
  <1>4. x.op = o /\ ItemOK(x) /\ y.op = o /\ ItemOK(y)
    BY <1>2, <1>3 DEF ItemOK, Item, Ops, Whole
  <1>5. [Do(o, None) EXCEPT !.force = b] = x /\ Do(o, None) = y
    BY <1>2, <1>3 DEF Do
  <1> QED
    BY <1>1, <1>4, <1>5

\* The items a pass makes for its agents.
LEMMA RedoPlain ==
    ASSUME NEW S \in SUBSET Keys, NEW b
    PROVE  Plain("redo", S, b) = {[Do("redo", k) EXCEPT !.force = b] : k \in S}
  <1>1. \A k \in S : [Do("redo", k) EXCEPT !.force = b]
                       = [op |-> "redo", key |-> k, look |-> None, force |-> b]
    BY DEF Do
  <1>2. ASSUME NEW x \in Plain("redo", S, b)
        PROVE  x \in {[Do("redo", k) EXCEPT !.force = b] : k \in S}
    <2>1. PICK k \in S : x = [op |-> "redo", key |-> k, look |-> None, force |-> b]
      BY DEF Plain
    <2>2. x = [Do("redo", k) EXCEPT !.force = b]
      BY <1>1, <2>1
    <2> QED
      BY <2>2
  <1>3. ASSUME NEW x \in {[Do("redo", k) EXCEPT !.force = b] : k \in S}
        PROVE  x \in Plain("redo", S, b)
    <2>1. PICK k \in S : x = [Do("redo", k) EXCEPT !.force = b]
      OBVIOUS
    <2>2. x = [op |-> "redo", key |-> k, look |-> None, force |-> b]
      BY <1>1, <2>1
    <2> QED
      BY <2>2 DEF Plain
  <1> QED
    BY <1>2, <1>3

\* Reconcile puts one item for every orphan and agent in front of the rest.
LEMMA PassKeeps ==
    ASSUME IInv, Aside, todo # <<>>, PassItem, UNCHANGED <<registry, strays>> PROVE IInv'
  <1>1. item.op \notin {"list", "close", "delete"}
    BY DEF PassItem
  <1>2. TypeOK /\ item.force \in BOOLEAN
    BY ItemKnown
  <1>3. CASE Held
    BY <1>1, <1>3, HeldKeeps
  <1>4. CASE ~Held
    <2>1. PICK O \in SUBSET Keys : O = {k \in Keys : Live(mem[k]) /\ ~mem[k].muted /\ reg[k] = None}
      OBVIOUS
    <2>2. PICK R \in SUBSET Keys : R = {k \in Keys : reg[k] # None}
      OBVIOUS
    <2>3. PICK b \in BOOLEAN : b = item.force
      BY <1>2
    <2>4. PICK p : p = SetToSeq(Plain("redo", O, b))
      OBVIOUS
    <2>5. PICK q : q = SetToSeq(Plain("redo", R, b))
      OBVIOUS
    <2>6. Later(p)
      <3>1. Listing(p, "redo", O)
        BY <2>4, PlainList DEF Ops
      <3> QED
        BY <3>1, ListingLater
    <2>7. Later(q)
      <3>1. Listing(q, "redo", R)
        BY <2>5, PlainList DEF Ops
      <3> QED
        BY <3>1, ListingLater
    <2>8. Later(<<Do("unclosed", None)>>) /\ Later(<<Do("prune", None)>>)
      BY WholeItem
    <2>9. PICK f : f = p \o <<Do("unclosed", None)>> \o q \o <<Do("prune", None)>>
      OBVIOUS
    <2>10. Later(f)
      BY ONLY <2>6, <2>7, <2>8, <2>9, LaterJoined
    <2>12. /\ p = SetToSeq({[Do("redo", k) EXCEPT !.force = item.force] : k \in O})
           /\ q = SetToSeq({[Do("redo", k) EXCEPT !.force = item.force] : k \in R})
      <3>1. Plain("redo", O, b) = {[Do("redo", k) EXCEPT !.force = item.force] : k \in O}
        BY <2>3, RedoPlain
      <3>2. Plain("redo", R, b) = {[Do("redo", k) EXCEPT !.force = item.force] : k \in R}
        BY <2>3, RedoPlain
      <3> QED
        BY <2>4, <2>5, <3>1, <3>2
    <2>13. Continue(f)
      BY <1>4, <2>1, <2>2, <2>9, <2>12 DEF PassItem
    <2>14. PICK a : a = agents'
      OBVIOUS
    <2>15. Leading(f) /\ Fits(f, mem, a, listed["loop"])
      BY ONLY <2>10, LaterLeading, LaterFits
    <2>16. /\ UNCHANGED <<mem, disk, tg, strays, registry>> /\ timers' \subseteq Keys
           /\ agents' \in [Keys -> Look \cup {None}] /\ failed' \in BOOLEAN
           /\ trouble' \in 0..MaxTrouble
      BY <1>2, <1>4 DEF PassItem, TypeOK
    <2> QED
      BY <1>1, <2>13, <2>14, <2>15, <2>16, GoesOn
  <1> QED
    BY <1>3, <1>4

\* One agent of the pass: an exit, an edit or a creation that fits.
LEMMA RedoKeeps ==
    ASSUME IInv, Aside, todo # <<>>, RedoItem, UNCHANGED <<registry, strays>> PROVE IInv'
  <1> PICK k : k = item.key
    OBVIOUS
  <1>1. item.op = "redo" /\ item.op \notin {"list", "close", "delete"}
    BY DEF RedoItem
  <1>2. TypeOK /\ Mapped /\ k \in Keys /\ item \in Item
    BY <1>1, ItemKnown DEF Whole
  <1>3. CASE /\ timers' = timers \ {k} /\ UNCHANGED <<mem, disk, tg, agents, failed, trouble>>
             /\ Continue(<<IF agents[k] = None THEN Do("exit", k) ELSE [item EXCEPT !.op = "edit"]>>)
    <2>1. PICK x : x = IF agents[k] = None THEN Do("exit", k) ELSE [item EXCEPT !.op = "edit"]
      OBVIOUS
    <2>2. ItemOK(Do("exit", k)) /\ Do("exit", k).op = "exit"
      BY <1>2, DoItem DEF Ops
    <2>3. ItemOK([item EXCEPT !.op = "edit"]) /\ [item EXCEPT !.op = "edit"].op = "edit"
      <3>1. PICK y : y = [item EXCEPT !.op = "edit"]
        OBVIOUS
      <3>2. y \in Item /\ y.op = "edit" /\ y.key = k
        BY <1>2, <3>1 DEF Item, Ops
      <3> QED
        BY <1>2, <3>1, <3>2 DEF ItemOK
    <2>4. ItemOK(x) /\ x.op \in {"exit", "edit"}
      BY <2>1, <2>2, <2>3
    <2>5. Data'
      BY <1>2, <1>3, MovesKeep DEF TypeOK
    <2>6. Registry' /\ Continue(<<x>>) /\ Suits(x, mem', agents')
      BY <1>2, <1>3, <2>1, <2>4, RegistryKept DEF Suits
    <2> QED
      BY <1>1, <2>4, <2>5, <2>6, NextItem
  <1>4. CASE ~Live(mem[k]) /\ agents[k] # None /\ Moves(<<Do("create", k)>>)
    <2>1. ItemOK(Do("create", k)) /\ Do("create", k).op = "create" /\ Do("create", k).key = k
      BY <1>2, DoItem DEF Ops
    <2>2. Suits(Do("create", k), mem, agents)
      BY <1>4, <2>1 DEF Suits
    <2> QED
      BY <1>1, <1>4, <2>1, <2>2, MovesOn
  <1> QED
    BY <1>3, <1>4 DEF RedoItem

\* The closings of a pass are for entries that are not live.
LEMMA UnclosedKeeps ==
    ASSUME IInv, Aside, todo # <<>>, UnclosedItem, UNCHANGED <<registry, strays>> PROVE IInv'
  <1>1. item.op \notin {"list", "close", "delete"}
    BY DEF UnclosedItem
  <1>2. PICK S \in SUBSET Keys :
          S = {j \in Keys : mem[j] # None /\ ~Live(mem[j]) /\ ~mem[j].closed /\ ~mem[j].muted}
    OBVIOUS
  <1>3. PICK f : f = SetToSeq(Plain("close", S, FALSE))
    OBVIOUS
  <1>4. Moves(f)
    BY <1>2, <1>3 DEF UnclosedItem, Plain, Do
  <1>5. Listing(f, "close", S)
    BY <1>3, PlainList DEF Ops
  <1>6. Leading(f)
    BY <1>5, ListingLeading
  <1>7. PICK m : m = mem
    OBVIOUS
  <1>8. \A k \in S : ~Live(m[k])
    BY <1>2, <1>7
  <1>9. f \in Seq(Item) /\ \A i \in 1..Len(f) : f[i].key \in S /\ f[i].op = "close"
    BY <1>5 DEF Listing
  <1>10. f # <<>> => 1 \in 1..Len(f)
    BY <1>9
  <1>11. Fits(f, m, agents, listed["loop"])
    BY <1>8, <1>9, <1>10 DEF Fits
  <1>12. TypeOK
    BY DEF IInv
  <1>13. /\ UNCHANGED <<mem, disk, tg, strays, registry>> /\ timers' \subseteq Keys
         /\ agents' \in [Keys -> Look \cup {None}] /\ failed' \in BOOLEAN
         /\ trouble' \in 0..MaxTrouble
    BY <1>4, <1>12 DEF Moves, TypeOK
  <1>14. Continue(f) /\ Fits(f, mem, agents', listed["loop"])
    BY <1>4, <1>7, <1>11 DEF Moves
  <1> QED
    BY <1>1, <1>6, <1>13, <1>14, GoesOn

\* Prune counts the topics of the entries it drops as lost.
LEMMA PruneKeeps ==
    ASSUME IInv, Aside, todo # <<>>, PruneItem, UNCHANGED registry PROVE IInv'
  <1>1. item.op \notin {"list", "close", "delete"}
    BY DEF PruneItem
  <1>2. TypeOK /\ Mapped
    BY DEF IInv
  <1>3. CASE Moves(<<>>) /\ UNCHANGED strays
    BY <1>1, <1>3, MovesOff
  <1>4. ASSUME NEW gone \in SUBSET {k \in Keys : mem[k] # None},
               mem' = [k \in Keys |-> IF k \in gone THEN None ELSE mem[k]], Save,
               strays' = strays \cup {mem[k].thread : k \in gone}, Continue(<<>>),
               UNCHANGED <<tg, agents, timers, failed>>
        PROVE  IInv'
    <2>1. mem' \in [Keys -> Entry \cup {None}]
      BY <1>2, <1>4 DEF TypeOK
    <2>2. \A k \in gone : mem[k].thread \in 1..MaxThreads /\ mem[k].thread \in strays'
      BY <1>2, <1>4 DEF TypeOK, Entry
    <2>3. strays \subseteq strays' /\ strays' \subseteq 1..MaxThreads
      BY <1>2, <1>4, <2>2 DEF TypeOK
    <2>4. SameLinks(mem, mem', tg, strays')
      BY <1>4, <2>2 DEF SameLinks
    <2>5. trouble' \in 0..MaxTrouble /\ disk' \in {disk, mem'}
      BY <1>2, <1>4, SaveKept
    <2>6. agents' \in [Keys -> Look \cup {None}] /\ timers' \subseteq Keys /\ failed' \in BOOLEAN
      BY <1>2, <1>4 DEF TypeOK
    <2>7. Data' /\ Registry'
      BY <1>2, <1>4, <2>1, <2>3, <2>4, <2>5, <2>6, MemKept, RegistryKept
    <2> QED
      BY <1>1, <1>4, <2>7, NoItem
  <1> QED
    BY <1>3, <1>4 DEF PruneItem

\* The registry's answer goes in front as well-formed reports.
LEMMA SnapKeeps ==
    ASSUME IInv, Aside, todo # <<>>, SnapItem, UNCHANGED strays PROVE IInv'
  <1>1. item.op \in {"snap", "learn"} /\ item.op \notin {"list", "close", "delete"}
    BY DEF SnapItem
  <1>2. TypeOK /\ Mapped /\ listed["loop"] \in [Keys -> Look \cup {None}]
    BY <1>1, ItemKnown
  <1>3. reg' = listed["loop"] /\ listed' = [listed EXCEPT !["loop"] = None]
    BY DEF SnapItem
  <1>4. Registry'
    BY <1>2, <1>3 DEF Registry, TypeOK
  <1>5. PICK new : new = listed["loop"]
    OBVIOUS
  <1>6. PICK f : f = IF item.op = "snap" THEN Diff(reg, new) ELSE <<>>
    OBVIOUS
  <1>7. Moves(f)
    BY <1>3, <1>5, <1>6 DEF SnapItem
  <1>8. Reported(f)
    <2>1. Reported(Diff(reg, new))
      BY <1>2, <1>5, DiffList
    <2>2. Reported(<<>>)
      BY DEF Reported
    <2> QED
      BY <1>6, <2>1, <2>2
  <1>9. /\ f \in Seq(Item) /\ Len(f) \in Nat /\ 2..Len(f) \subseteq 1..Len(f)
        /\ \A i \in 1..Len(f) : ItemOK(f[i]) /\ f[i].op \in {"appeared", "changed", "gone"}
        /\ (f # <<>> => 1 \in 1..Len(f))
    BY <1>8 DEF Reported, Reports
  <1>10. Leading(f)
    BY <1>9 DEF Leading, FirstOnly
  <1>11. Fits(f, mem', agents', listed'["loop"])
    BY <1>9 DEF Fits
  <1>12. Data'
    BY <1>2, <1>7, MovesKeep DEF TypeOK, Moves
  <1>13. Continue(f)
    BY <1>7 DEF Moves
  <1> QED
    BY <1>1, <1>4, <1>10, <1>11, <1>12, <1>13, ItemKeeps

\* The answer waits for the item behind; without one both items are skipped.
LEMMA ListKeeps ==
    ASSUME IInv, Aside, todo # <<>>, ListItem, UNCHANGED strays PROVE IInv'
  <1>1. item.op = "list"
    BY DEF ListItem
  <1>2. TypeOK /\ Mapped /\ todo \in Seq(Item) /\ Shape(todo)
    BY DEF IInv, TypeOK, Handler
  <1>3. /\ rest \in Seq(Item) /\ Shape(rest) /\ item = todo[1]
        /\ \A i \in 1..Len(rest) : rest[i] = todo[i + 1]
    BY <1>2, RestShape DEF item, rest
  <1>4. Len(todo) >= 2 /\ todo[2].op \in {"snap", "learn"}
    BY <1>1, <1>2, <1>3 DEF Shape
  <1>5. rest # <<>> /\ 1 \in 1..Len(rest) /\ rest[1].op \in {"snap", "learn"}
    <2>1. Len(rest) = Len(todo) - 1
      BY <1>2, <1>4 DEF rest
    <2>2. 1 \in 1..Len(rest) /\ 1 + 1 = 2
      BY <1>2, <1>4, <2>1
    <2>3. rest[1] = todo[1 + 1]
      BY <1>3, <2>2
    <2> QED
      BY <1>3, <1>4, <2>2, <2>3
  <1>6. Later(Tail(rest))
    BY <1>3, <1>5, RestShape
  <1>7. CASE listed' = [listed EXCEPT !["loop"] = herdr] /\ Moves(<<>>) /\ UNCHANGED reg
    <2>1. Registry' /\ listed'["loop"] \in [Keys -> Look \cup {None}]
      BY <1>2, <1>7 DEF Registry, TypeOK
    <2>2. Data'
      BY <1>2, <1>7, MovesKeep DEF TypeOK, Moves
    <2>3. todo' = rest
      BY <1>3, <1>7 DEF Moves, Continue
    <2>4. \A i \in 1..Len(rest) : rest[i].op \notin {"close", "delete"}
      <3> SUFFICES ASSUME NEW i \in 1..Len(rest), rest[i].op \in {"close", "delete"} PROVE FALSE
        OBVIOUS
      <3>1. i + 1 \in 1..Len(todo) /\ 1 \in 1..Len(todo) /\ 1 < i + 1
        BY <1>2, RestShape DEF rest
      <3>2. todo[1].op = todo[i + 1].op
        BY <1>2, <1>3, <3>1 DEF Shape
      <3> QED
        BY <1>1, <1>3, <3>2
    <2>5. PICK l : l = listed'["loop"]
      OBVIOUS
    <2>6. PICK m : m = mem'
      OBVIOUS
    <2>7. PICK a : a = agents'
      OBVIOUS
    <2>8. Fits(rest, m, a, l)
      BY <1>5, <2>1, <2>4, <2>5 DEF Fits
    <2>9. todo' \in Seq(Item) /\ Shape(todo') /\ Fits(todo', mem', agents', listed'["loop"])
      BY <1>3, <2>3, <2>5, <2>6, <2>7, <2>8
    <2> QED
      BY <2>1, <2>2, <2>9, StepKeeps
  <1>8. CASE /\ Troubled /\ todo' = Tail(rest)
             /\ UNCHANGED <<listed, mem, disk, tg, agents, timers, failed, reg>>
    <2>1. trouble' \in 0..MaxTrouble
      BY <1>2, <1>8, SaveKept
    <2>2. Data'
      BY <1>2, <1>8, <2>1, MovesKeep DEF TypeOK
    <2>3. Registry'
      BY <1>2, <1>8 DEF Registry, TypeOK
    <2>4. PICK s : s = Tail(rest)
      OBVIOUS
    <2>5. s \in Seq(Item) /\ Shape(s) /\ Fits(s, mem, agents, listed["loop"])
      BY <1>6, <2>4, LaterFits
    <2>6. todo' \in Seq(Item) /\ Shape(todo') /\ Fits(todo', mem', agents', listed'["loop"])
      BY <1>8, <2>4, <2>5
    <2> QED
      BY <2>2, <2>3, <2>6, StepKeeps
  <1> QED
    BY <1>7, <1>8 DEF ListItem

\* Topics made by one call: all tries' topics belong to the agent.
More(T, T2, n, topic) == T2 = T \o [i \in 1..n |-> topic]

\* The list of topics after such a call.
LEMMA MoreTopics ==
    ASSUME NEW T \in Seq(Topic), NEW topic \in Topic, NEW n \in Nat,
           NEW T2, More(T, T2, n, topic)
    PROVE  /\ T2 \in Seq(Topic) /\ Len(T2) = Len(T) + n
           /\ \A t \in 1..Len(T) : t \in 1..Len(T2) /\ T2[t] = T[t]
           /\ \A t \in 1..Len(T2) : t \in 1..Len(T) \/ (t > Len(T) /\ T2[t] = topic)
  <1>1. PICK s : s = [i \in 1..n |-> topic]
    OBVIOUS
  <1>2. s \in Seq(Topic) /\ Len(s) = n /\ \A i \in 1..Len(s) : s[i] = topic
    BY <1>1
  <1>3. /\ T2 \in Seq(Topic) /\ Len(T2) = Len(T) + n
        /\ \A i \in 1..Len(T) : i \in 1..Len(T2) /\ T2[i] = T[i]
        /\ \A i \in 1..Len(T2) : \/ i \in 1..Len(T) /\ T2[i] = T[i]
                                 \/ /\ i > Len(T) /\ i - Len(T) \in 1..Len(s)
                                    /\ T2[i] = s[i - Len(T)]
    <2>1. T2 = T \o s
      BY <1>1 DEF More
    <2>2. s \in Seq(Topic)
      BY <1>2
    <2>3. /\ T2 \in Seq(Topic) /\ Len(T2) = Len(T) + Len(s)
          /\ \A i \in 1..Len(T) : i \in 1..Len(T2) /\ T2[i] = T[i]
          /\ \A i \in 1..Len(T2) : \/ i \in 1..Len(T) /\ T2[i] = T[i]
                                   \/ /\ i > Len(T) /\ i - Len(T) \in 1..Len(s)
                                      /\ T2[i] = s[i - Len(T)]
      BY ONLY <2>1, <2>2, T \in Seq(Topic), Joined
    <2> QED
      BY <1>2, <2>3
  <1> QED
    BY <1>2, <1>3

\* The links stay when the topics become more.
LEMMA LinksGrow ==
    ASSUME NEW m, NEW T \in Seq(Topic), NEW T2 \in Seq(Topic), Links(m, T),
           \A t \in 1..Len(T) : t \in 1..Len(T2) /\ T2[t] = T[t]
    PROVE  Links(m, T2)
  BY DEF Links

\* createTopic: the last topic made is linked, the others are counted as lost, and the
\* agent had no entry whose topic could become a twin.
LEMMA MakeKeeps ==
    ASSUME IInv, Aside, todo # <<>>, MakeItem, UNCHANGED registry PROVE IInv'
  <1> DEFINE k == item.key
             topic == [key |-> k, name |-> Display(agents[k].name),
                       status |-> agents[k].status, closed |-> FALSE, exists |-> TRUE]
             entry == [thread |-> Len(tg'), name |-> topic.name, status |-> topic.status,
                       closed |-> FALSE, muted |-> FALSE]
  <1>1. item.op = "make" /\ item.op \notin {"list", "close", "delete"}
    BY DEF MakeItem
  <1>2. TypeOK /\ Mapped /\ k \in Keys /\ agents[k] # None /\ mem[k] = None
    BY <1>1, ItemKnown DEF Whole
  <1>3. Display(agents[k].name) \in TopicName /\ agents[k].status \in Statuses
    BY <1>2, Dressed DEF TypeOK
  <1>4. /\ topic \in Topic /\ topic.key = k /\ topic.exists
        /\ topic.name \in TopicName /\ topic.status \in Statuses
    BY <1>2, <1>3 DEF Topic
  <1>5. PICK n \in 0..MaxTries :
          /\ Len(tg) + n <= MaxThreads
          /\ tg' = tg \o [i \in 1..n |-> topic]
          /\ \/ /\ n = 1 \/ (n > 1 /\ Faults)
                /\ mem' = [mem EXCEPT ![k] = entry]
                /\ \/ n = 1 /\ Save
                   \/ n > 1 /\ Troubled /\ disk' \in {disk, mem'}
                /\ strays' = strays \cup ((Len(tg) + 1)..(Len(tg') - 1))
                /\ UNCHANGED failed
             \/ /\ \/ Faults /\ Troubled
                   \/ n = 0 /\ Len(tg) = MaxThreads /\ UNCHANGED trouble
                /\ strays' = strays \cup ((Len(tg) + 1)..Len(tg'))
                /\ failed' = TRUE
                /\ UNCHANGED <<mem, disk>>
    BY DEF MakeItem
  <1>6. /\ entry.thread = Len(tg')
        /\ Len(tg') \in 1..MaxThreads => entry \in Entry
    BY <1>4 DEF Entry
  <1> HIDE DEF k, topic, entry
  <1>7. /\ Len(tg) + n <= MaxThreads
        /\ tg' = tg \o [i \in 1..n |-> topic]
        /\ \/ /\ n >= 1
              /\ mem' = [mem EXCEPT ![k] = entry]
              /\ Save \/ (Troubled /\ disk' \in {disk, mem'})
              /\ strays' = strays \cup ((Len(tg) + 1)..(Len(tg') - 1))
              /\ UNCHANGED failed
           \/ /\ Troubled \/ UNCHANGED trouble
              /\ strays' = strays \cup ((Len(tg) + 1)..Len(tg'))
              /\ failed' = TRUE
              /\ UNCHANGED <<mem, disk>>
    BY <1>5, MirrorAssumption
  <1>8. UNCHANGED <<agents, timers>> /\ Continue(<<>>)
    BY DEF MakeItem
  <1>9. n \in Nat /\ tg \in Seq(Topic) /\ Len(tg) \in Nat
    BY <1>2, MirrorAssumption DEF TypeOK
  <1>10. /\ tg' \in Seq(Topic) /\ Len(tg') = Len(tg) + n
         /\ \A t \in 1..Len(tg) : t \in 1..Len(tg') /\ tg'[t] = tg[t]
         /\ \A t \in 1..Len(tg') : t \in 1..Len(tg) \/ (t > Len(tg) /\ tg'[t] = topic)
    <2>1. More(tg, tg', n, topic)
      BY <1>7 DEF More
    <2>2. tg \in Seq(Topic) /\ topic \in Topic /\ n \in Nat
      BY <1>4, <1>9
    <2> QED
      BY ONLY <2>1, <2>2, MoreTopics
  <1>11. Links(mem, tg') /\ Links(disk, tg')
    BY <1>2, <1>9, <1>10, LinksGrow DEF Mapped
  <1>12. Len(tg') <= MaxThreads /\ MaxThreads \in Nat
    BY <1>7, <1>10, MirrorAssumption
  <1>13. trouble' \in 0..MaxTrouble
    BY <1>2, <1>7, SaveKept
  <1>14. strays \subseteq strays' /\ strays' \subseteq 1..MaxThreads
    <2>1. strays \subseteq 1..MaxThreads
      BY <1>2 DEF TypeOK
    <2>2. (Len(tg) + 1)..Len(tg') \subseteq 1..MaxThreads
      BY <1>9, <1>10, <1>12
    <2>3. (Len(tg) + 1)..(Len(tg') - 1) \subseteq 1..MaxThreads
      BY <1>9, <1>10, <1>12
    <2> QED
      BY <1>7, <2>1, <2>2, <2>3
  <1>15. \A t \in 1..Len(tg) : tg[t].exists /\ t \notin strays' =>
           /\ tg[t].key \in Keys /\ tg[t].key # k
           /\ mem[tg[t].key] # None /\ mem[tg[t].key].thread = t
    <2> SUFFICES ASSUME NEW t \in 1..Len(tg), tg[t].exists, t \notin strays'
                 PROVE  /\ tg[t].key \in Keys /\ tg[t].key # k
                        /\ mem[tg[t].key] # None /\ mem[tg[t].key].thread = t
      OBVIOUS
    <2>1. mem[tg[t].key] # None /\ mem[tg[t].key].thread = t
      BY <1>2, <1>14 DEF Mapped, Linking
    <2>2. tg[t] \in Topic
      BY <1>9
    <2> QED
      BY <1>2, <2>1, <2>2 DEF Topic
  <1>16. CASE /\ n >= 1
              /\ mem' = [mem EXCEPT ![k] = entry]
              /\ Save \/ (Troubled /\ disk' \in {disk, mem'})
              /\ strays' = strays \cup ((Len(tg) + 1)..(Len(tg') - 1))
              /\ UNCHANGED failed
    <2>1. PICK e : e = entry
      OBVIOUS
    <2>2. e \in Entry /\ e.thread = Len(tg') /\ Len(tg') \in 1..Len(tg') /\ Len(tg') > Len(tg)
      <3>1. Len(tg') \in 1..MaxThreads /\ Len(tg') \in 1..Len(tg') /\ Len(tg') > Len(tg)
        BY <1>9, <1>10, <1>12, <1>16
      <3> QED
        BY <1>6, <2>1, <3>1
    <2>3. tg'[Len(tg')] = topic
      BY <1>9, <1>10, <2>2
    <2>4. /\ mem' \in [Keys -> Entry \cup {None}] /\ mem'[k] = e
          /\ \A j \in Keys : j # k => mem'[j] = mem[j]
      BY <1>2, <1>16, <2>1, <2>2 DEF TypeOK
    <2>5. Links(mem', tg')
      BY <1>4, <1>11, <2>2, <2>3, <2>4 DEF Links
    <2>6. disk' \in {disk, mem'} /\ failed' \in BOOLEAN
      BY <1>2, <1>16, SaveKept DEF TypeOK
    <2>7. Links(disk', tg')
      BY <1>11, <2>5, <2>6
    <2>8. Linking(mem', tg', strays')
      <3> SUFFICES ASSUME NEW t \in 1..Len(tg'), tg'[t].exists, t \notin strays'
                   PROVE  mem'[tg'[t].key] # None /\ mem'[tg'[t].key].thread = t
        BY DEF Linking
      <3>1. CASE t \in 1..Len(tg)
        BY <1>10, <1>15, <2>4, <3>1
      <3>2. CASE t > Len(tg) /\ tg'[t] = topic
        <4>1. t = Len(tg')
          BY <1>9, <1>10, <1>16, <3>2
        <4> QED
          BY <1>4, <2>2, <2>4, <3>2, <4>1, NoneIsApart
      <3> QED
        BY <1>10, <3>1, <3>2
    <2>9. Mapped'
      BY <1>12, <2>5, <2>7, <2>8 DEF Mapped
    <2>10. disk' \in [Keys -> Entry \cup {None}]
      BY <1>2, <2>4, <2>6 DEF TypeOK
    <2> QED
      <3>1. Data' /\ Registry'
        BY <1>2, <1>8, <1>10, <1>13, <1>14, <2>4, <2>6, <2>9, <2>10, RegistryKept DEF Data, TypeOK
      <3> QED
        BY <1>1, <1>8, <3>1, NoItem
  <1>17. CASE /\ strays' = strays \cup ((Len(tg) + 1)..Len(tg'))
              /\ failed' = TRUE /\ UNCHANGED <<mem, disk>>
    <2>1. Links(mem', tg') /\ Links(disk', tg')
      BY <1>11, <1>17
    <2>2. Linking(mem', tg', strays')
      <3> SUFFICES ASSUME NEW t \in 1..Len(tg'), tg'[t].exists, t \notin strays'
                   PROVE  mem[tg'[t].key] # None /\ mem[tg'[t].key].thread = t
        BY <1>17 DEF Linking
      <3>1. t \in 1..Len(tg)
        BY <1>9, <1>10, <1>17
      <3> QED
        BY <1>10, <1>15, <3>1
    <2>3. Mapped'
      BY <1>12, <2>1, <2>2 DEF Mapped
    <2>4. Data' /\ Registry'
      BY <1>2, <1>8, <1>10, <1>13, <1>14, <1>17, <2>3, RegistryKept DEF Data, TypeOK
    <2> QED
      BY <1>1, <1>8, <2>4, NoItem
  <1> QED
    BY <1>7, <1>16, <1>17

\* Every step of the handler keeps the invariant.
LEMMA HandlerKeeps == ASSUME IInv, Step PROVE IInv'
  <1>1. todo # <<>> /\ Aside
    BY DEF Step, Aside
  <1>2. CASE UNCHANGED <<registry, strays>>
             /\ (HandleEvent \/ CreateItem \/ RefreshItem \/ EditItem \/ ExitItem \/ CloseItem)
    BY <1>1, <1>2, HandleKeeps, CreateKeeps, RefreshKeeps, EditKeeps, ExitKeeps, CloseKeeps
  <1>3. CASE UNCHANGED <<registry, strays>>
             /\ (FinishItem \/ DeleteItem \/ FlushItem \/ PassItem \/ RedoItem \/ UnclosedItem)
    BY <1>1, <1>3, FinishKeeps, DeleteKeeps, FlushKeeps, PassKeeps, RedoKeeps, UnclosedKeeps
  <1>4. CASE UNCHANGED registry /\ (MakeItem \/ PruneItem)
    BY <1>1, <1>4, MakeKeeps, PruneKeeps
  <1>5. CASE UNCHANGED strays /\ (ListItem \/ SnapItem)
    BY <1>1, <1>5, ListKeeps, SnapKeeps
  <1> QED
    BY <1>2, <1>3, <1>4, <1>5 DEF Step

-----------------------------------------------------------------------------
(* The loop, the registry and the world keep the invariant *)

\* What leaves the mapping and the topics leaves their links.
LEMMA SameMapped == ASSUME Mapped, UNCHANGED <<mem, disk, tg, strays>> PROVE Mapped'
  BY DEF Mapped

\* What leaves the handler and what it works on leaves it fitting.
LEMMA SameHandler ==
    ASSUME IInv, UNCHANGED <<todo, mem, agents>>, listed'["loop"] = listed["loop"] PROVE Handler'
  BY DEF IInv, Handler

\* A handler of items that may come anywhere fits always.
LEMMA LaterHandler == ASSUME Later(todo') PROVE Handler'
  <1>1. PICK m : m = mem'
    OBVIOUS
  <1>2. PICK a : a = agents'
    OBVIOUS
  <1>3. PICK l : l = listed'["loop"]
    OBVIOUS
  <1>4. PICK s : s = todo'
    OBVIOUS
  <1>5. Shape(s) /\ Fits(s, m, a, l)
    <2>1. Later(s)
      BY <1>4
    <2> QED
      BY ONLY <2>1, LaterFits
  <1> QED
    BY <1>1, <1>2, <1>3, <1>4, <1>5 DEF Handler

\* So does the idle loop.
LEMMA NoHandler == ASSUME todo' = <<>> PROVE Handler'
  <1>1. Later(todo')
    BY DEF Later
  <1> QED
    BY <1>1, LaterHandler

\* What waits stays well-formed.
LEMMA SameWaiting == ASSUME IInv, UNCHANGED <<events, news>> PROVE Waiting'
  BY DEF IInv, Waiting

\* What the registry reports waits as well-formed reports.
LEMMA MoreWaits ==
    ASSUME IInv, UNCHANGED news, NEW q, Reported(q), events' = events \o q
    PROVE  Waiting' /\ events' \in Seq(Item)
  <1>1. Reported(events)
    BY DEF IInv, TypeOK, Waiting, Reported
  <1>2. Reported(events \o q)
    BY <1>1, ReportsJoined
  <1>3. Reported(events')
    BY <1>2
  <1> QED
    BY <1>3 DEF IInv, Waiting, Reported

\* The registry asks Herdr for the agents.
LEMMA ListLeaves == ASSUME IInv, List PROVE IInv'
  <1>1. TypeOK'
    BY DEF IInv, TypeOK, List, control, world
  <1>2. Handler'
    <2>1. UNCHANGED <<todo, mem, agents>> /\ listed'["loop"] = listed["loop"]
      BY DEF IInv, TypeOK, List
    <2> QED
      BY <2>1, SameHandler
  <1>3. Waiting'
    BY SameWaiting DEF List, world
  <1>4. Mapped'
    BY SameMapped DEF IInv, List, world
  <1> QED
    BY <1>1, <1>2, <1>3, <1>4 DEF IInv

\* The registry applies the answer and reports the differences.
LEMMA ApplyLeaves == ASSUME IInv, Apply PROVE IInv'
  <1>1. /\ listed["run"] \in [Keys -> Look \cup {None}] /\ reg' = listed["run"]
        /\ listed' = [listed EXCEPT !["run"] = None]
    BY DEF IInv, TypeOK, Apply
  <1>2. PICK q : q = Diff(reg, reg')
    OBVIOUS
  <1>3. Reported(q)
    BY <1>1, <1>2, DiffList
  <1>4. Waiting' /\ events' \in Seq(Item)
    <2>1. events' = events \o q /\ UNCHANGED news
      BY <1>2 DEF Apply, world
    <2> QED
      BY <1>3, <2>1, MoreWaits
  <1>5. TypeOK'
    BY <1>1, <1>4 DEF IInv, TypeOK, Apply, control, world
  <1>6. Handler'
    <2>1. UNCHANGED <<todo, mem, agents>> /\ listed'["loop"] = listed["loop"]
      BY <1>1 DEF IInv, TypeOK, Apply
    <2> QED
      BY <2>1, SameHandler
  <1>7. Mapped'
    BY SameMapped DEF IInv, Apply, world
  <1> QED
    BY <1>4, <1>5, <1>6, <1>7 DEF IInv

\* The registry reports a status the socket told.
LEMMA StatusLeaves == ASSUME IInv, NEW k \in Keys, StatusEvent(k) PROVE IInv'
  <1>1. reg[k] \in Look /\ herdr[k] \in Look /\ reg' = [reg EXCEPT ![k].status = herdr[k].status]
    BY DEF IInv, TypeOK, StatusEvent
  <1>2. PICK look : look = [reg[k] EXCEPT !.status = herdr[k].status]
    OBVIOUS
  <1>3. look \in Look
    BY <1>1, <1>2 DEF Look
  <1>4. reg' \in [Keys -> Look \cup {None}] /\ reg'[k] = look
    BY <1>1, <1>2, <1>3 DEF IInv, TypeOK
  <1>5. PICK d : d = Do("changed", k)
    OBVIOUS
  <1>6. PICK x : x = [d EXCEPT !.look = look]
    OBVIOUS
  <1>7. x \in Item /\ x.op = "changed" /\ x.key = k /\ x.look = look
    <2>1. d \in Item /\ d.op = "changed" /\ d.key = k
      BY <1>5 DEF Do, Item, Ops
    <2> QED
      BY <1>3, <1>6, <2>1 DEF Item
  <1>8. Reported(<<x>>)
    <2>1. ItemOK(x) /\ x.op \in Reports
      BY <1>3, <1>7, NoneIsApart DEF ItemOK, Reports
    <2>2. <<x>> \in Seq(Item) /\ \A i \in 1..Len(<<x>>) : <<x>>[i] = x
      BY <1>7
    <2> QED
      BY <2>1, <2>2 DEF Reported
  <1>9. events' = events \o <<x>> /\ UNCHANGED news
    <2>1. [Do("changed", k) EXCEPT !.look = reg'[k]] = x
      BY <1>4, <1>5, <1>6
    <2>2. events' = Append(events, x) /\ UNCHANGED news
      BY <2>1 DEF StatusEvent, world
    <2>3. events \in Seq(Item)
      BY DEF IInv, TypeOK
    <2> QED
      BY <1>7, <2>2, <2>3
  <1>10. Waiting' /\ events' \in Seq(Item)
    BY <1>8, <1>9, MoreWaits
  <1>11. TypeOK'
    BY <1>4, <1>10 DEF IInv, TypeOK, StatusEvent, control, world
  <1>12. Handler'
    BY SameHandler DEF StatusEvent
  <1>13. Mapped'
    BY SameMapped DEF IInv, StatusEvent, world
  <1> QED
    BY <1>10, <1>11, <1>12, <1>13 DEF IInv

\* Steps that touch neither the handler nor what it works on.
LEMMA ApartLeaves ==
    ASSUME IInv, TypeOK', UNCHANGED <<mem, disk, tg, agents, strays, todo, listed>>, Waiting'
    PROVE  IInv'
  <1>1. Handler' /\ Mapped'
    BY SameHandler, SameMapped DEF IInv
  <1> QED
    BY <1>1 DEF IInv

\* A debounce timer runs out.
LEMMA TimerLeaves == ASSUME IInv, NEW k \in Keys, TimerFires(k) PROVE IInv'
  <1>1. TypeOK'
    BY DEF IInv, TypeOK, TimerFires, registry, control, world
  <1>2. Waiting'
    BY SameWaiting DEF TimerFires, world
  <1> QED
    BY <1>1, <1>2, ApartLeaves DEF TimerFires, registry, world

\* An agent starts, changes or ends.
LEMMA HerdrLeaves == ASSUME IInv, NEW k \in Keys, HerdrChanges(k) PROVE IInv'
  <1>1. trouble' \in 0..MaxTrouble
    BY SaveKept DEF IInv, HerdrChanges
  <1>2. TypeOK'
    BY <1>1 DEF IInv, TypeOK, HerdrChanges, registry, control, mirror
  <1>3. Waiting'
    BY SameWaiting DEF HerdrChanges
  <1> QED
    BY <1>2, <1>3, ApartLeaves DEF HerdrChanges, registry, mirror

\* One update less waits.
LEMMA LessNews ==
    ASSUME IInv, UNCHANGED events, news # <<>>, news' = Tail(news)
    PROVE  Waiting' /\ news' \in Seq(News) /\ Head(news) \in News
           /\ (Head(news).op = "renamed" => Head(news).name \in TopicName)
  <1>1. /\ news \in Seq(News) /\ Head(news) = news[1] /\ 1 \in 1..Len(news)
        /\ Tail(news) \in Seq(News)
        /\ \A i \in 1..Len(Tail(news)) : i + 1 \in 1..Len(news) /\ Tail(news)[i] = news[i + 1]
    BY DEF IInv, TypeOK
  <1>2. \A i \in 1..Len(news) : news[i].op = "renamed" => news[i].name \in TopicName
    BY DEF IInv, Waiting
  <1>3. \A i \in 1..Len(news') : news'[i].op = "renamed" => news'[i].name \in TopicName
    BY <1>1, <1>2
  <1>4. Waiting'
    BY <1>3 DEF IInv, Waiting
  <1> QED
    BY <1>1, <1>2, <1>4

\* An update about a thread without an entry is dropped.
LEMMA UnknownLeaves == ASSUME IInv, NewsUnknown PROVE IInv'
  <1>1. Waiting' /\ news' \in Seq(News)
    BY LessNews DEF NewsUnknown
  <1>2. TypeOK'
    BY <1>1 DEF IInv, TypeOK, NewsUnknown, registry, control, mirror
  <1> QED
    BY <1>1, <1>2, ApartLeaves DEF NewsUnknown, registry, mirror

\* Presence and options move the gates.
LEMMA DeskLeaves == ASSUME IInv, Desk \/ Option \/ Resync PROVE IInv'
  <1>1. trouble' \in 0..MaxTrouble
    BY SaveKept DEF IInv, Desk, Option, Resync
  <1>2. gates' \subseteq {"rights", "sync", "desk"} /\ hold' \in BOOLEAN /\ signals' \subseteq {"catchup", "resync"}
    BY DEF IInv, TypeOK, Desk, Option, Resync
  <1>3. /\ UNCHANGED <<herdr, reg, listed, events, proc, mem, disk, agents, timers, due, todo, tg>>
        /\ UNCHANGED <<news, strays, missed, failed>>
    BY DEF Desk, Option, Resync, registry, mirror, world
  <1>4. TypeOK'
    BY <1>1, <1>2, <1>3 DEF IInv, TypeOK
  <1>5. Waiting'
    BY <1>3, SameWaiting
  <1> QED
    BY <1>3, <1>4, <1>5, ApartLeaves

\* The daemon is started, or has stopped.
LEMMA PhaseLeaves == ASSUME IInv, Started \/ Stopped PROVE IInv'
  <1>1. /\ UNCHANGED <<herdr, reg, listed, events, mem, disk, agents, timers, due, gates, hold>>
        /\ UNCHANGED <<signals, todo, tg, news, strays, missed, failed, trouble>>
        /\ proc' \in {"up", "down"}
    BY DEF Started, Stopped, registry, mirror, world, control
  <1>2. TypeOK'
    BY <1>1 DEF IInv, TypeOK
  <1>3. Waiting'
    BY <1>1, SameWaiting
  <1> QED
    BY <1>1, <1>2, <1>3, ApartLeaves

\* Steps that give the idle loop a handler, or take it away.
LEMMA TakesUp ==
    ASSUME IInv, TypeOK', UNCHANGED <<mem, disk, tg, strays>>, Waiting', Handler'
    PROVE  IInv'
  BY SameMapped DEF IInv

\* The loop takes an event of the registry.
LEMMA EventTaken == ASSUME IInv, TakeEvent PROVE IInv'
  <1>1. /\ events \in Seq(Item) /\ Head(events) = events[1] /\ 1 \in 1..Len(events)
        /\ Tail(events) \in Seq(Item)
        /\ \A i \in 1..Len(Tail(events)) : i + 1 \in 1..Len(events) /\ Tail(events)[i] = events[i + 1]
    BY DEF IInv, TypeOK, TakeEvent
  <1>2. \A i \in 1..Len(events) : ItemOK(events[i]) /\ events[i].op \in Reports
    BY DEF IInv, Waiting
  <1>3. Later(<<Head(events)>>)
    <2>1. PICK x : x = Head(events)
      OBVIOUS
    <2>2. ItemOK(x) /\ x.op \in Reports /\ x \in Item
      BY <1>1, <1>2, <2>1
    <2>3. <<x>> \in Seq(Item) /\ \A i \in 1..Len(<<x>>) : <<x>>[i] = x
      BY <2>2
    <2>4. Later(<<x>>)
      BY <2>2, <2>3 DEF Later, Reports, FirstOnly
    <2> QED
      BY <2>1, <2>4
  <1>4. todo' = <<Head(events)>> /\ events' = Tail(events)
    BY DEF TakeEvent
  <1>5. Later(todo') /\ todo' \in Seq(Item)
    BY <1>3, <1>4 DEF Later
  <1>6. Handler'
    BY <1>5, LaterHandler
  <1>7. Waiting'
    <2>1. \A i \in 1..Len(events') : ItemOK(events'[i]) /\ events'[i].op \in Reports
      BY <1>1, <1>2, <1>4
    <2> QED
      BY <2>1 DEF IInv, Waiting, TakeEvent, world
  <1>8. TypeOK'
    BY <1>1, <1>4, <1>5 DEF IInv, TypeOK, TakeEvent, registry, control, mirror, world
  <1> QED
    BY <1>6, <1>7, <1>8, TakesUp DEF TakeEvent, mirror, world

\* The loop takes an edit whose timer ran out.
LEMMA FireLeaves == ASSUME IInv, NEW k \in Keys, Fire(k) PROVE IInv'
  <1>1. Later(<<Do("edit", k)>>)
    <2>1. PICK x : x = Do("edit", k)
      OBVIOUS
    <2>2. ItemOK(x) /\ x.op = "edit" /\ x \in Item
      BY <2>1, DoItem DEF Ops, ItemOK
    <2>3. <<x>> \in Seq(Item) /\ \A i \in 1..Len(<<x>>) : <<x>>[i] = x
      BY <2>2
    <2>4. Later(<<x>>)
      BY <2>2, <2>3 DEF Later, FirstOnly
    <2> QED
      BY <2>1, <2>4
  <1>2. Later(todo') /\ todo' \in Seq(Item)
    BY <1>1 DEF Fire, Later
  <1>3. Handler'
    BY <1>2, LaterHandler
  <1>4. Waiting'
    BY SameWaiting DEF Fire, world
  <1>5. TypeOK'
    BY <1>2 DEF IInv, TypeOK, Fire, registry, control, mirror, world
  <1> QED
    BY <1>3, <1>4, <1>5, TakesUp DEF Fire, mirror, world

\* Shutdown leaves one flush; a crash leaves nothing to do.
LEMMA ShutdownLeaves == ASSUME IInv, Shutdown \/ Crash PROVE IInv'
  <1>1. Later(todo')
    <2>1. Later(<<Do("flush", None)>>)
      BY WholeItem
    <2>2. Later(<<>>)
      BY DEF Later
    <2> QED
      BY <2>1, <2>2 DEF Shutdown, Crash
  <1>2. Handler' /\ todo' \in Seq(Item)
    BY <1>1, LaterHandler DEF Later
  <1>3. trouble' \in 0..MaxTrouble
    BY SaveKept DEF IInv, Shutdown, Crash
  <1>4. /\ UNCHANGED <<herdr, reg, listed, events, mem, disk, agents, timers, due, gates, hold>>
        /\ UNCHANGED <<signals, tg, news, strays, missed, failed>>
        /\ proc' \in {"halting", "down"}
    BY DEF Shutdown, Crash, registry, mirror, world, control
  <1>5. TypeOK'
    BY <1>2, <1>3, <1>4 DEF IInv, TypeOK
  <1>6. Waiting'
    BY <1>4, SameWaiting
  <1> QED
    BY <1>2, <1>4, <1>5, <1>6, TakesUp

\* A handler that starts by asking for the agents.
LEMMA ListFirst ==
    ASSUME NEW s \in Seq(Item), NEW m, NEW a, NEW l, Len(s) >= 2,
           \A i \in 1..Len(s) : ItemOK(s[i]),
           s[1].op = "list", s[2].op \in {"snap", "learn"},
           \A i \in 3..Len(s) : s[i].op \in {"flush", "pass"}
    PROVE  Shape(s) /\ Fits(s, m, a, l)
  <1>1. /\ Len(s) \in Nat
        /\ \A i \in 1..Len(s) : i = 1 \/ i = 2 \/ i \in 3..Len(s)
        /\ \A i \in 2..Len(s) : i = 2 \/ i \in 3..Len(s)
    OBVIOUS
  <1>2. \A i \in 1..Len(s) : s[i].op \notin {"close", "delete"}
    BY <1>1
  <1>3. \A i \in 2..Len(s) : s[i].op \notin FirstOnly
    BY <1>1 DEF FirstOnly
  <1>4. \A i \in 2..Len(s) : s[i].op \in {"snap", "learn"} => i = 2
    BY <1>1
  <1>5. Shape(s)
    BY <1>2, <1>3, <1>4 DEF Shape
  <1>6. Fits(s, m, a, l)
    BY <1>2 DEF Fits
  <1> QED
    BY <1>5, <1>6

\* Items about no agent are well-formed.
LEMMA WholeOK ==
    ASSUME NEW o \in Whole, NEW b \in BOOLEAN
    PROVE  /\ ItemOK(Do(o, None)) /\ Do(o, None).op = o
           /\ ItemOK([Do(o, None) EXCEPT !.force = b]) /\ [Do(o, None) EXCEPT !.force = b].op = o
  <1>1. PICK x : x = [op |-> o, key |-> None, look |-> None, force |-> b]
    OBVIOUS
  <1>2. PICK y : y = [op |-> o, key |-> None, look |-> None, force |-> FALSE]
    OBVIOUS
  <1>3. x.op = o /\ ItemOK(x) /\ y.op = o /\ ItemOK(y)
    BY <1>1, <1>2 DEF ItemOK, Item, Ops, Whole
  <1>4. [Do(o, None) EXCEPT !.force = b] = x /\ Do(o, None) = y
    BY <1>1, <1>2 DEF Do
  <1> QED
    BY <1>3, <1>4

\* A replay and the start ask for the agents first.
LEMMA FreshHandler ==
    ASSUME (\E b \in BOOLEAN : todo' = Replay(b))
             \/ todo' = <<Do("list", None), Do("learn", None), Do("pass", None)>>
    PROVE  Handler' /\ todo' \in Seq(Item)
  <1>1. PICK s : s = todo'
    OBVIOUS
  <1>2. s \in Seq(Item) /\ Len(s) >= 2 /\ (\A i \in 1..Len(s) : ItemOK(s[i]))
        /\ s[1].op = "list" /\ s[2].op \in {"snap", "learn"}
        /\ \A i \in 3..Len(s) : s[i].op \in {"flush", "pass"}
    <2>1. CASE \E b \in BOOLEAN : s = Replay(b)
      <3>1. PICK b \in BOOLEAN : s = Replay(b)
        BY <2>1
      <3>2. PICK x1 : x1 = Do("list", None)
        OBVIOUS
      <3>3. PICK x2 : x2 = Do("snap", None)
        OBVIOUS
      <3>4. PICK x3 : x3 = Do("flush", None)
        OBVIOUS
      <3>5. PICK x4 : x4 = [Do("pass", None) EXCEPT !.force = b]
        OBVIOUS
      <3>6. /\ ItemOK(x1) /\ x1.op = "list" /\ ItemOK(x2) /\ x2.op = "snap"
            /\ ItemOK(x3) /\ x3.op = "flush" /\ ItemOK(x4) /\ x4.op = "pass"
        BY <3>2, <3>3, <3>4, <3>5, WholeOK DEF Whole
      <3>7. s = <<x1, x2, x3, x4>>
        BY <3>1, <3>2, <3>3, <3>4, <3>5 DEF Replay
      <3>8. x1 \in Item /\ x2 \in Item /\ x3 \in Item /\ x4 \in Item
        BY <3>6 DEF ItemOK
      <3> QED
        BY ONLY <3>6, <3>7, <3>8
    <2>2. CASE s = <<Do("list", None), Do("learn", None), Do("pass", None)>>
      <3>1. PICK x1 : x1 = Do("list", None)
        OBVIOUS
      <3>2. PICK x2 : x2 = Do("learn", None)
        OBVIOUS
      <3>3. PICK x3 : x3 = Do("pass", None)
        OBVIOUS
      <3>4. /\ ItemOK(x1) /\ x1.op = "list" /\ ItemOK(x2) /\ x2.op = "learn"
            /\ ItemOK(x3) /\ x3.op = "pass"
        BY <3>1, <3>2, <3>3, WholeOK DEF Whole
      <3>5. s = <<x1, x2, x3>>
        BY <2>2, <3>1, <3>2, <3>3
      <3>6. x1 \in Item /\ x2 \in Item /\ x3 \in Item
        BY <3>4 DEF ItemOK
      <3> QED
        BY ONLY <3>4, <3>5, <3>6
    <2> QED
      BY <1>1, <2>1, <2>2
  <1>3. PICK m : m = mem'
    OBVIOUS
  <1>4. PICK a : a = agents'
    OBVIOUS
  <1>5. PICK l : l = listed'["loop"]
    OBVIOUS
  <1>6. Shape(s) /\ Fits(s, m, a, l)
    BY ONLY <1>2, ListFirst
  <1> QED
    BY <1>1, <1>2, <1>3, <1>4, <1>5, <1>6 DEF Handler

\* Rights lost or regained, the latter with a replay.
LEMMA RightsLeaves == ASSUME IInv, RightsChanged PROVE IInv'
  <1>1. trouble' \in 0..MaxTrouble /\ gates' \subseteq {"rights", "sync", "desk"}
    BY SaveKept DEF IInv, RightsChanged, TypeOK
  <1>2. Handler' /\ todo' \in Seq(Item)
    <2>1. CASE UNCHANGED todo
      BY <2>1, SameHandler DEF RightsChanged, registry, mirror, IInv, TypeOK
    <2>2. CASE todo' = Replay(FALSE)
      BY <2>2, FreshHandler
    <2> QED
      BY <2>1, <2>2 DEF RightsChanged
  <1>3. TypeOK'
    BY <1>1, <1>2 DEF IInv, TypeOK, RightsChanged, registry, mirror, world
  <1>4. Waiting'
    BY SameWaiting DEF RightsChanged, world
  <1> QED
    BY <1>2, <1>3, <1>4, TakesUp DEF RightsChanged, mirror, world

\* A catch-up or resync starts a replay.
LEMMA SignalLeaves == ASSUME IInv, NEW s \in {"catchup", "resync"}, TakeSignal(s) PROVE IInv'
  <1>1. Handler' /\ todo' \in Seq(Item)
    BY FreshHandler DEF TakeSignal
  <1>2. TypeOK'
    BY <1>1 DEF IInv, TypeOK, TakeSignal, registry, mirror, world
  <1>3. Waiting'
    BY SameWaiting DEF TakeSignal, world
  <1> QED
    BY <1>1, <1>2, <1>3, TakesUp DEF TakeSignal, mirror, world

\* The sweep deletes topics of exited entries, each once.
LEMMA SweepLeaves == ASSUME IInv, Sweep PROVE IInv'
  <1>1. PICK old \in SUBSET {k \in Keys : mem[k] # None /\ ~Live(mem[k]) /\ mem[k].closed} :
          todo' = SetToSeq({Do("delete", k) : k \in old})
    BY DEF Sweep
  <1>2. PICK s : s = SetToSeq(Plain("delete", old, FALSE))
    OBVIOUS
  <1>3. old \in SUBSET Keys /\ \A k \in old : mem[k] # None /\ ~Live(mem[k])
    BY <1>1
  <1>4. Listing(s, "delete", old)
    BY <1>2, <1>3, PlainList DEF Ops
  <1>5. todo' = s
    BY <1>1, <1>2 DEF Plain, Do
  <1>6. /\ s \in Seq(Item) /\ Len(s) \in Nat
        /\ \A i \in 1..Len(s) : s[i] \in Item /\ s[i].key \in old /\ s[i].op = "delete"
        /\ \A i, j \in 1..Len(s) : s[i].key = s[j].key => i = j
    BY <1>4 DEF Listing
  <1>7. (s # <<>> => 1 \in 1..Len(s)) /\ 2..Len(s) \subseteq 1..Len(s)
    BY <1>6
  <1>8. \A i \in 1..Len(s) : ItemOK(s[i])
    BY <1>3, <1>6 DEF ItemOK
  <1>9. Shape(s)
    <2>1. \A i, j \in 1..Len(s) : j < i => s[j].key # s[i].key
      BY <1>6
    <2> QED
      BY <1>6, <1>7, <1>8, <2>1 DEF Shape, FirstOnly
  <1>10. PICK m : m = mem
    OBVIOUS
  <1>11. Fits(s, m, agents, listed["loop"])
    BY <1>3, <1>6, <1>7, <1>10 DEF Fits
  <1>12. /\ UNCHANGED <<herdr, reg, listed, events, proc, mem, disk, agents, timers, due, gates>>
         /\ UNCHANGED <<hold, signals, tg, news, strays, missed, failed, trouble>>
    BY DEF Sweep, registry, mirror, world, control
  <1>13. Handler'
    BY <1>5, <1>9, <1>10, <1>11, <1>12 DEF Handler
  <1>14. TypeOK'
    BY <1>5, <1>6, <1>12 DEF IInv, TypeOK
  <1> QED
    BY <1>12, <1>13, <1>14, SameWaiting, TakesUp

\* The loop takes an update about the topic of k.
LEMMA Heard ==
    ASSUME IInv, NEW k \in Linked(Head(news).thread), todo = <<>>,
           NEW entry \in Entry, entry.thread = mem[k].thread, mem' = [mem EXCEPT ![k] = entry], Save,
           UNCHANGED <<tg, strays, failed>>,
           agents' \in [Keys -> Look \cup {None}], timers' \subseteq Keys
    PROVE  Data' /\ mem'[k] = entry /\ k \in Keys /\ mem[k] # None
  <1>1. TypeOK /\ Mapped /\ k \in Keys /\ mem[k] # None
    BY DEF IInv, Linked
  <1>2. mem \in [Keys -> Entry \cup {None}]
    BY <1>1 DEF TypeOK
  <1>3. PICK m2 : m2 = [mem EXCEPT ![k] = entry]
    OBVIOUS
  <1>4. SameLinks(mem, m2, tg, strays') /\ m2 \in [Keys -> Entry \cup {None}] /\ m2[k] = entry
    BY ONLY <1>1, <1>2, <1>3, entry \in Entry, entry.thread = mem[k].thread, OneEntry
  <1>5. SameLinks(mem, mem', tg, strays') /\ mem' \in [Keys -> Entry \cup {None}] /\ mem'[k] = entry
    BY <1>3, <1>4
  <1>6. trouble' \in 0..MaxTrouble /\ disk' \in {disk, mem'}
    BY <1>1, SaveKept
  <1>7. failed' \in BOOLEAN /\ strays \subseteq strays' /\ strays' \subseteq 1..MaxThreads
    BY <1>1 DEF TypeOK
  <1>8. Data'
    BY <1>1, <1>5, <1>6, <1>7, MemKept
  <1> QED
    BY <1>1, <1>5, <1>8

\* OnTopicClosed mutes a live entry and closes another.
LEMMA ClosedLeaves == ASSUME IInv, NEW k \in Keys, OnTopicClosed(k) PROVE IInv'
  <1>1. TypeOK /\ todo = <<>> /\ k \in Linked(Head(news).thread) /\ mem[k] \in Entry
    BY DEF IInv, TypeOK, OnTopicClosed, Idle, Linked
  <1>2. PICK entry : entry = IF Live(mem[k]) THEN [mem[k] EXCEPT !.muted = TRUE]
                             ELSE [mem[k] EXCEPT !.closed = TRUE]
    OBVIOUS
  <1>3. entry \in Entry /\ entry.thread = mem[k].thread
    BY <1>1, <1>2 DEF Entry
  <1>4. mem' = [mem EXCEPT ![k] = entry]
    BY <1>1, <1>2 DEF OnTopicClosed, TypeOK
  <1>5. /\ UNCHANGED <<herdr, reg, listed, events, proc, agents, timers, due, gates, hold, signals>>
        /\ UNCHANGED <<todo, tg, strays, missed, failed>> /\ Save
    BY DEF OnTopicClosed, registry, control
  <1>6. Data'
    BY <1>1, <1>3, <1>4, <1>5, Heard DEF TypeOK
  <1>7. Waiting' /\ news' \in Seq(News)
    BY <1>5, LessNews DEF OnTopicClosed
  <1>8. Handler'
    BY <1>1, <1>5, NoHandler
  <1>9. TypeOK'
    BY <1>1, <1>5, <1>6, <1>7 DEF TypeOK, Data
  <1> QED
    BY <1>6, <1>7, <1>8, <1>9 DEF IInv, Data

\* OnTopicReopened takes the mute away before it edits or finishes.
LEMMA ReopenedLeaves == ASSUME IInv, NEW k \in Keys, OnTopicReopened(k) PROVE IInv'
  <1>1. TypeOK /\ todo = <<>> /\ k \in Linked(Head(news).thread) /\ mem[k] \in Entry
    BY DEF IInv, TypeOK, OnTopicReopened, Idle, Linked
  <1>2. PICK entry : entry = [mem[k] EXCEPT !.muted = FALSE, !.closed = FALSE]
    OBVIOUS
  <1>3. entry \in Entry /\ entry.thread = mem[k].thread /\ ~entry.muted
    BY <1>1, <1>2 DEF Entry
  <1>4. mem' = [mem EXCEPT ![k] = entry]
    BY <1>1, <1>2 DEF OnTopicReopened, TypeOK
  <1>5. /\ UNCHANGED <<herdr, reg, listed, events, proc, agents, due, gates, hold, signals>>
        /\ UNCHANGED <<tg, strays, missed, failed>> /\ Save
    BY DEF OnTopicReopened, registry, control
  <1>6. timers' \subseteq Keys
    BY <1>1 DEF OnTopicReopened, TypeOK
  <1>7. Data' /\ mem'[k] = entry
    BY <1>1, <1>3, <1>4, <1>5, <1>6, Heard DEF TypeOK
  <1>8. Waiting' /\ news' \in Seq(News)
    BY <1>5, LessNews DEF OnTopicReopened
  <1>9. PICK d : d = Do("edit", k)
    OBVIOUS
  <1>10. PICK x : x = [d EXCEPT !.force = TRUE]
    OBVIOUS
  <1>11. PICK y : y = Do("finish", k)
    OBVIOUS
  <1>12. ItemOK(x) /\ x.op = "edit" /\ x.key = k
    <2>1. d \in Item /\ d.op = "edit" /\ d.key = k
      BY <1>9 DEF Do, Item, Ops
    <2>2. x \in Item /\ x.op = "edit" /\ x.key = k
      BY <1>10, <2>1 DEF Item
    <2> QED
      BY <2>2 DEF ItemOK
  <1>13. ItemOK(y) /\ y.op = "finish" /\ y.key = k
    BY <1>11, DoItem DEF Ops
  <1>14. PICK z : todo' = <<z>> /\ z \in {x, y}
    BY <1>9, <1>10, <1>11 DEF OnTopicReopened
  <1>15. ItemOK(z) /\ z.op \in {"edit", "finish"} /\ z.key = k /\ z \in Item
    BY <1>12, <1>13, <1>14 DEF ItemOK
  <1>16. PICK m : m = mem'
    OBVIOUS
  <1>17. Suits(z, m, agents)
    BY <1>3, <1>7, <1>15, <1>16 DEF Suits
  <1>18. Shape(<<z>>) /\ Fits(<<z>>, m, agents, listed["loop"]) /\ <<z>> \in Seq(Item)
    <2>1. Leading(<<z>>)
      BY <1>15, OneItem
    <2>2. Fits(<<z>>, m, agents, listed["loop"])
      BY <1>15, <1>17, FitsOne
    <2>3. <<z>> \in Seq(Item) /\ (\A i \in 1..Len(<<z>>) : <<z>>[i] = z) /\ Len(<<z>>) = 1
      BY <1>15
    <2>4. Shape(<<z>>)
      BY <1>15, <2>3 DEF Shape
    <2> QED
      BY <2>2, <2>3, <2>4
  <1>19. Handler' /\ todo' \in Seq(Item)
    BY <1>5, <1>14, <1>16, <1>18 DEF Handler
  <1>20. TypeOK'
    BY <1>1, <1>5, <1>7, <1>8, <1>19 DEF TypeOK, Data
  <1> QED
    BY <1>7, <1>8, <1>19, <1>20 DEF IInv, Data

\* OnTopicRenamed takes the typed name over, or ignores it.
LEMMA RenamedLeaves == ASSUME IInv, NEW k \in Keys, OnTopicRenamed(k) PROVE IInv'
  <1>1. TypeOK /\ Mapped /\ todo = <<>> /\ k \in Linked(Head(news).thread) /\ mem[k] \in Entry
    BY DEF IInv, TypeOK, OnTopicRenamed, Idle, Linked
  <1>2. /\ UNCHANGED <<reg, listed, events, proc, due, gates, hold, signals>>
        /\ UNCHANGED <<todo, tg, strays, failed>> /\ news' = Tail(news) /\ news # <<>>
        /\ Head(news).op = "renamed"
    BY DEF OnTopicRenamed, registry, control
  <1>3. PICK typed : typed = Head(news).name
    OBVIOUS
  <1>4. Waiting' /\ news' \in Seq(News) /\ typed \in TopicName
    BY <1>2, <1>3, LessNews
  <1>5. typed[1] \in Names
    BY <1>4 DEF TopicName
  <1>6. \/ /\ missed' = missed \cup {mem[k].thread} /\ (UNCHANGED trouble \/ Troubled)
           /\ UNCHANGED <<mem, disk, agents, timers, herdr>>
        \/ /\ agents[k] # None /\ agents' = [agents EXCEPT ![k].name = typed[1]]
           /\ herdr' = herdr \/ (herdr[k] # None /\ herdr' = [herdr EXCEPT ![k].name = typed[1]])
           /\ mem' = [mem EXCEPT ![k].name = typed] /\ Save
           /\ timers' \in {timers, timers \cup {k}} /\ UNCHANGED missed
    BY <1>3 DEF OnTopicRenamed
  <1>7. missed' \subseteq 1..MaxThreads
    BY <1>1, <1>6 DEF TypeOK, Entry
  <1>8. Handler'
    BY <1>1, <1>2, NoHandler
  <1>9. CASE /\ UNCHANGED <<mem, disk, agents, timers, herdr>> /\ (UNCHANGED trouble \/ Troubled)
    <2>1. trouble' \in 0..MaxTrouble
      BY <1>1, <1>9, SaveKept
    <2>2. TypeOK'
      BY <1>1, <1>2, <1>4, <1>7, <1>9, <2>1 DEF TypeOK
    <2>3. Mapped'
      BY <1>1, <1>2, <1>9, SameMapped
    <2> QED
      BY <1>4, <1>8, <2>2, <2>3 DEF IInv
  <1>10. CASE /\ agents[k] # None /\ agents' = [agents EXCEPT ![k].name = typed[1]]
              /\ herdr' = herdr \/ (herdr[k] # None /\ herdr' = [herdr EXCEPT ![k].name = typed[1]])
              /\ mem' = [mem EXCEPT ![k].name = typed] /\ Save
              /\ timers' \in {timers, timers \cup {k}} /\ UNCHANGED missed
    <2>1. PICK entry : entry = [mem[k] EXCEPT !.name = typed]
      OBVIOUS
    <2>2. entry \in Entry /\ entry.thread = mem[k].thread
      BY <1>1, <1>4, <2>1 DEF Entry
    <2>3. mem' = [mem EXCEPT ![k] = entry]
      BY <1>1, <1>10, <2>1 DEF TypeOK
    <2>4. agents' \in [Keys -> Look \cup {None}] /\ timers' \subseteq Keys
      <3>1. PICK look : look = [agents[k] EXCEPT !.name = typed[1]]
        OBVIOUS
      <3>2. look \in Look
        <4>1. agents[k] \in Look
          BY <1>1, <1>10 DEF TypeOK
        <4> QED
          BY <1>5, <3>1, <4>1 DEF Look
      <3>3. agents' = [agents EXCEPT ![k] = look]
        BY <1>1, <1>10, <3>1 DEF TypeOK
      <3>4. agents \in [Keys -> Look \cup {None}] /\ timers \subseteq Keys
        BY <1>1 DEF TypeOK
      <3>5. agents' \in [Keys -> Look \cup {None}]
        BY <3>2, <3>3, <3>4
      <3>6. timers' \subseteq Keys
        BY <1>10, <3>4
      <3> QED
        BY <3>5, <3>6
    <2>5. herdr' \in [Keys -> Look \cup {None}]
      <3>1. CASE herdr' = herdr
        BY <1>1, <3>1 DEF TypeOK
      <3>2. CASE herdr[k] # None /\ herdr' = [herdr EXCEPT ![k].name = typed[1]]
        <4>1. PICK look : look = [herdr[k] EXCEPT !.name = typed[1]]
          OBVIOUS
        <4>2. herdr[k] \in Look
          BY <1>1, <3>2 DEF TypeOK
        <4>3. look \in Look
          BY <1>5, <4>1, <4>2 DEF Look
        <4>4. herdr' = [herdr EXCEPT ![k] = look]
          BY <1>1, <3>2, <4>1 DEF TypeOK
        <4> QED
          BY <1>1, <4>3, <4>4 DEF TypeOK
      <3> QED
        BY <1>10, <3>1, <3>2
    <2>6. Data'
      BY <1>1, <1>2, <1>10, <2>2, <2>3, <2>4, Heard
    <2>7. TypeOK'
      BY <1>1, <1>2, <1>4, <1>10, <2>5, <2>6 DEF TypeOK, Data
    <2> QED
      BY <1>4, <1>8, <2>6, <2>7 DEF IInv, Data
  <1> QED
    BY <1>6, <1>9, <1>10

\* A restart reads the file: a topic only the lost memory linked counts as lost.
LEMMA BootLeaves == ASSUME IInv, Boot PROVE IInv'
  <1>1. TypeOK /\ Mapped
    BY DEF IInv
  <1>2. /\ mem' = disk /\ UNCHANGED <<herdr, tg, disk, hold, failed, trouble>>
        /\ reg' = Absent /\ agents' = Absent /\ timers' = {} /\ due' = {} /\ events' = <<>>
        /\ news' = <<>> /\ signals' = {} /\ proc' = "starting"
        /\ listed' = [w \in {"loop", "run"} |-> None]
        /\ todo' = <<Do("list", None), Do("learn", None), Do("pass", None)>>
    BY DEF Boot
  <1>3. PICK lost : lost = {t \in 1..Len(tg) : /\ \E k \in Keys : mem[k] # None /\ mem[k].thread = t
                                               /\ ~\E k \in Keys : disk[k] # None /\ disk[k].thread = t}
    OBVIOUS
  <1>4. strays' = strays \cup lost /\ missed' = missed \cup {news[i].thread : i \in DOMAIN news}
    BY <1>3 DEF Boot
  <1>5. gates' \subseteq {"rights", "sync", "desk"}
    BY <1>1 DEF Boot, TypeOK
  <1>6. strays' \subseteq 1..MaxThreads
    <2>1. lost \subseteq 1..Len(tg) /\ Len(tg) \in Nat /\ Len(tg) <= MaxThreads /\ MaxThreads \in Nat
      BY <1>1, <1>3, MirrorAssumption DEF TypeOK, Mapped
    <2> QED
      BY <1>1, <1>4, <2>1 DEF TypeOK
  <1>7. missed' \subseteq 1..MaxThreads
    <2>1. \A i \in DOMAIN news : news[i].thread \in 1..MaxThreads
      <3>1. news \in Seq(News)
        BY <1>1 DEF TypeOK
      <3>2. \A i \in DOMAIN news : news[i] \in News
        BY <3>1
      <3> QED
        BY <3>2 DEF News
    <2> QED
      BY <1>1, <1>4, <2>1 DEF TypeOK
  <1>8. Handler' /\ todo' \in Seq(Item)
    BY <1>2, FreshHandler
  <1>9. TypeOK'
    BY <1>1, <1>2, <1>5, <1>6, <1>7, <1>8 DEF TypeOK, Absent
  <1>10. Waiting'
    BY <1>2 DEF Waiting
  <1>11. Linking(disk, tg, strays')
    <2> SUFFICES ASSUME NEW t \in 1..Len(tg), tg[t].exists, t \notin strays'
                 PROVE  disk[tg[t].key] # None /\ disk[tg[t].key].thread = t
      BY DEF Linking
    <2>1. t \notin strays /\ t \notin lost
      BY <1>4
    <2>2. mem[tg[t].key] # None /\ mem[tg[t].key].thread = t
      BY <1>1, <2>1 DEF Mapped, Linking
    <2>3. tg[t].key \in Keys
      <3>1. tg \in Seq(Topic)
        BY <1>1 DEF TypeOK
      <3>2. tg[t] \in Topic
        BY <3>1
      <3> QED
        BY <3>2 DEF Topic
    <2>4. PICK k \in Keys : disk[k] # None /\ disk[k].thread = t
      BY <1>3, <2>1, <2>2, <2>3
    <2>5. tg[t].key = k
      BY <1>1, <2>4 DEF Mapped, Links
    <2> QED
      BY <2>4, <2>5
  <1>12. Mapped'
    BY <1>1, <1>2, <1>11 DEF Mapped
  <1> QED
    BY <1>8, <1>9, <1>10, <1>12 DEF IInv

\* Operators change topics, and the bot may hear of it.
LEMMA HandLeaves == ASSUME IInv, NEW t \in 1..Len(tg), ByHand(t) PROVE IInv'
  <1>1. /\ TypeOK /\ Mapped /\ tg[t] \in Topic /\ t \in 1..MaxThreads
        /\ tg \in Seq(Topic) /\ Len(tg) \in Nat
    <2>1. TypeOK /\ Mapped
      BY DEF IInv
    <2>2. tg \in Seq(Topic) /\ Len(tg) \in Nat /\ Len(tg) <= MaxThreads /\ MaxThreads \in Nat
      BY <2>1, MirrorAssumption DEF TypeOK, Mapped
    <2> QED
      BY <2>1, <2>2
  <1>2. /\ UNCHANGED <<reg, listed, events, proc, mem, disk, agents, timers, due, gates, hold>>
        /\ UNCHANGED <<signals, todo, herdr, strays, failed>>
    BY DEF ByHand, registry, mirror, control
  <1>3. trouble' \in 0..MaxTrouble
    BY <1>1, SaveKept DEF ByHand
  <1>4. PICK after \in Topic : /\ tg' = [tg EXCEPT ![t] = after] /\ after.key = tg[t].key
                               /\ (after.exists => tg[t].exists)
    <2>1. CASE tg' = [tg EXCEPT ![t].closed = TRUE]
      <3>1. PICK x : x = [tg[t] EXCEPT !.closed = TRUE]
        OBVIOUS
      <3>2. x \in Topic /\ x.key = tg[t].key /\ x.exists = tg[t].exists
        BY <1>1, <3>1 DEF Topic
      <3>3. tg' = [tg EXCEPT ![t] = x]
        BY <1>1, <2>1, <3>1
      <3> QED
        BY <3>2, <3>3
    <2>2. CASE tg' = [tg EXCEPT ![t].closed = FALSE]
      <3>1. PICK x : x = [tg[t] EXCEPT !.closed = FALSE]
        OBVIOUS
      <3>2. x \in Topic /\ x.key = tg[t].key /\ x.exists = tg[t].exists
        BY <1>1, <3>1 DEF Topic
      <3>3. tg' = [tg EXCEPT ![t] = x]
        BY <1>1, <2>2, <3>1
      <3> QED
        BY <3>2, <3>3
    <2>3. CASE tg' = [tg EXCEPT ![t].exists = FALSE]
      <3>1. PICK x : x = [tg[t] EXCEPT !.exists = FALSE]
        OBVIOUS
      <3>2. x \in Topic /\ x.key = tg[t].key /\ ~x.exists
        BY <1>1, <3>1 DEF Topic
      <3>3. tg' = [tg EXCEPT ![t] = x]
        BY <1>1, <2>3, <3>1
      <3> QED
        BY <3>2, <3>3
    <2>4. ASSUME NEW n \in Typed, tg' = [tg EXCEPT ![t].name = n]
          PROVE  \E x \in Topic : /\ tg' = [tg EXCEPT ![t] = x] /\ x.key = tg[t].key
                                  /\ (x.exists => tg[t].exists)
      <3>1. PICK x : x = [tg[t] EXCEPT !.name = n]
        OBVIOUS
      <3>2. n \in TopicName
        BY MirrorAssumption
      <3>3. x \in Topic /\ x.key = tg[t].key /\ x.exists = tg[t].exists
        BY <1>1, <3>1, <3>2 DEF Topic
      <3>4. tg' = [tg EXCEPT ![t] = x]
        BY <1>1, <2>4, <3>1
      <3> QED
        BY <3>3, <3>4
    <2> QED
      BY <2>1, <2>2, <2>3, <2>4 DEF ByHand
  <1>5. tg' \in Seq(Topic) /\ SameTopics(tg, tg')
    BY <1>1, <1>4 DEF SameTopics
  <1>6. SameLinks(mem, mem, tg', strays)
    BY SameMem
  <1>7. /\ Links(mem, tg) /\ Links(disk, tg) /\ Linking(mem, tg, strays) /\ disk \in {disk, mem}
        /\ strays \subseteq strays
    BY <1>1 DEF Mapped
  <1>8. Links(mem, tg') /\ Links(disk, tg') /\ Linking(mem, tg', strays)
    BY ONLY <1>5, <1>6, <1>7, LinksKept
  <1>9. Mapped'
    BY <1>1, <1>2, <1>5, <1>8 DEF Mapped, SameTopics
  <1>10. \/ missed' = missed \cup {t} /\ UNCHANGED news
         \/ \E o \in {"closed", "reopened", "renamed"}, n \in TopicName \cup {None} :
              /\ UNCHANGED missed /\ news' = Append(news, [op |-> o, thread |-> t, name |-> n])
              /\ o = "renamed" => n \in TopicName
    BY MirrorAssumption DEF ByHand, Tells
  <1>11. missed' \subseteq 1..MaxThreads /\ news' \in Seq(News) /\ Waiting'
    <2>1. CASE missed' = missed \cup {t} /\ UNCHANGED news
      BY <1>1, <1>2, <2>1, SameWaiting DEF TypeOK
    <2>2. ASSUME NEW o \in {"closed", "reopened", "renamed"}, NEW n \in TopicName \cup {None},
                 UNCHANGED missed, news' = Append(news, [op |-> o, thread |-> t, name |-> n]),
                 o = "renamed" => n \in TopicName
          PROVE  missed' \subseteq 1..MaxThreads /\ news' \in Seq(News) /\ Waiting'
      <3>1. PICK x : x = [op |-> o, thread |-> t, name |-> n]
        OBVIOUS
      <3>2. x \in News /\ (x.op = "renamed" => x.name \in TopicName)
        BY <1>1, <2>2, <3>1 DEF News
      <3>3. /\ news \in Seq(News)
            /\ \A i \in 1..Len(news) : news[i].op = "renamed" => news[i].name \in TopicName
        BY <1>1 DEF TypeOK, IInv, Waiting
      <3>4. news' = Append(news, x)
        BY <2>2, <3>1
      <3>5. \A i \in 1..Len(news') : news'[i].op = "renamed" => news'[i].name \in TopicName
        BY <3>2, <3>3, <3>4
      <3>6. Waiting'
        BY <1>2, <3>5 DEF IInv, Waiting
      <3> QED
        BY <1>1, <2>2, <3>2, <3>3, <3>4, <3>6 DEF TypeOK
    <2> QED
      BY <1>10, <2>1, <2>2
  <1>12. TypeOK'
    BY <1>1, <1>2, <1>3, <1>5, <1>11 DEF TypeOK
  <1>13. Handler'
    BY <1>2, SameHandler
  <1> QED
    BY <1>9, <1>11, <1>12, <1>13 DEF IInv

\* Nothing runs and no topic exists.
LEMMA InitIInv == ASSUME Init PROVE IInv
  <1>1. TypeOK
    <2>1. Absent \in [Keys -> Look \cup {None}] /\ Absent \in [Keys -> Entry \cup {None}]
      BY DEF Absent
    <2>2. listed \in [{"loop", "run"} -> [Keys -> Look \cup {None}] \cup {None}]
      BY DEF Init
    <2>3. events \in Seq(Item) /\ todo \in Seq(Item) /\ tg \in Seq(Topic) /\ news \in Seq(News)
      BY DEF Init
    <2>4. trouble \in 0..MaxTrouble
      BY MirrorAssumption DEF Init
    <2> QED
      BY <2>1, <2>2, <2>3, <2>4 DEF Init, TypeOK
  <1>2. Shape(<<>>) /\ Fits(<<>>, mem, agents, listed["loop"])
    BY DEF Shape, Fits
  <1>3. Handler
    BY <1>2 DEF Init, Handler
  <1>4. Waiting
    BY DEF Init, Waiting
  <1>5. Mapped
    BY MirrorAssumption DEF Init, Mapped, Links, Linking, Absent
  <1> QED
    BY <1>1, <1>3, <1>4, <1>5 DEF IInv

\* A step that changes nothing.
LEMMA StutterIInv == ASSUME IInv, UNCHANGED vars PROVE IInv'
  <1>1. TypeOK'
    BY DEF IInv, TypeOK, vars
  <1>2. Waiting'
    BY SameWaiting DEF vars
  <1> QED
    BY <1>1, <1>2, ApartLeaves DEF vars

\* Every step keeps the invariant.
LEMMA NextIInv == ASSUME IInv, [Next]_vars PROVE IInv'
  <1>1. CASE Step
    BY <1>1, HandlerKeeps
  <1>2. CASE List \/ Apply \/ NewsUnknown \/ RightsChanged
    BY <1>2, ListLeaves, ApplyLeaves, UnknownLeaves, RightsLeaves
  <1>3. CASE TakeEvent \/ Sweep \/ Boot
    BY <1>3, EventTaken, SweepLeaves, BootLeaves
  <1>4. CASE Started \/ Shutdown \/ Stopped \/ Crash \/ Desk \/ Option \/ Resync
    BY <1>4, PhaseLeaves, ShutdownLeaves, DeskLeaves
  <1>5. ASSUME NEW k \in Keys, StatusEvent(k) \/ TimerFires(k) \/ Fire(k) \/ HerdrChanges(k)
        PROVE  IInv'
    BY <1>5, StatusLeaves, TimerLeaves, FireLeaves, HerdrLeaves
  <1>6. ASSUME NEW k \in Keys, OnTopicClosed(k) \/ OnTopicReopened(k) \/ OnTopicRenamed(k)
        PROVE  IInv'
    BY <1>6, ClosedLeaves, ReopenedLeaves, RenamedLeaves
  <1>7. ASSUME NEW s \in {"catchup", "resync"}, TakeSignal(s) PROVE IInv'
    BY <1>7, SignalLeaves
  <1>8. ASSUME NEW t \in 1..Len(tg), ByHand(t) PROVE IInv'
    BY <1>8, HandLeaves
  <1>9. CASE UNCHANGED vars
    BY <1>9, StutterIInv
  <1> QED
    BY <1>1, <1>2, <1>3, <1>4, <1>5, <1>6, <1>7, <1>8, <1>9 DEF Next

-----------------------------------------------------------------------------
(* The results *)

\* What the handlers, the mapping and the topics say of each other always holds.
THEOREM SpecIInv == Spec => []IInv
  <1>1. Init => IInv
    BY InitIInv
  <1>2. IInv /\ [Next]_vars => IInv'
    BY NextIInv
  <1> QED
    BY <1>1, <1>2, PTL DEF Spec

\* One topic per agent, in NewReconciler's mapping and at Telegram, through
\* retries, failed saves, crashes, operators and the sweep (reconciler.go,
\* mapping.go): no topic that was not lost for a known reason is without its
\* agent's entry, and no two entries share one.
THEOREM SpecMirrorInv == Spec => []MirrorInv
  <1>1. IInv => MirrorInv
    <2> SUFFICES ASSUME IInv PROVE MirrorInv
      OBVIOUS
    <2>1. TypeOK /\ Links(mem, tg) /\ Linking(mem, tg, strays) /\ tg \in Seq(Topic)
      BY DEF IInv, TypeOK, Mapped
    <2>2. NoTwins
      <3> SUFFICES ASSUME NEW t \in 1..Len(tg), tg[t].exists, t \notin strays
                   PROVE  \E k \in Keys : mem[k] # None /\ k = tg[t].key /\ mem[k].thread = t
        BY DEF NoTwins
      <3>1. mem[tg[t].key] # None /\ mem[tg[t].key].thread = t
        BY <2>1 DEF Linking
      <3>2. tg[t] \in Topic
        BY <2>1
      <3> QED
        BY <3>1, <3>2 DEF Topic
    <2>3. ASSUME NEW j \in Keys, NEW k \in Keys, mem[j] # None, mem[k] # None,
                 mem[j].thread = mem[k].thread
          PROVE  j = k
      BY <2>1, <2>3 DEF Links
    <2> QED
      BY <2>1, <2>2, <2>3 DEF MirrorInv
  <1> QED
    BY <1>1, SpecIInv, PTL

\* A call on the topic of j leaves the topic of every other agent.
LEMMA OthersLeft ==
    ASSUME TypeOK, Mapped, NEW j \in Keys, NEW k \in Keys, mem[j] # None, mem[k] # None,
           NEW after, NEW entry, NEW next, Calls(j, after, entry, next),
           tg'[mem[k].thread] # tg[mem[k].thread]
    PROVE  j = k
  <1>1. /\ mem[j].thread \in 1..Len(tg) /\ mem[k].thread \in 1..Len(tg) /\ tg \in Seq(Topic)
        /\ tg[mem[j].thread].key = j /\ tg[mem[k].thread].key = k
    BY DEF TypeOK, Mapped, Links
  <1>2. tg' = tg \/ tg' = [tg EXCEPT ![mem[j].thread] = after]
    BY DEF Calls, Fails
  <1>3. mem[j].thread = mem[k].thread
    BY <1>1, <1>2
  <1> QED
    BY <1>1, <1>3

\* The item of a handler that changes the topic of a muted entry is a forced edit,
\* or about an agent that ended.
LEMMA MutedLeft ==
    ASSUME IInv, Step, NEW k \in Keys, mem[k] # None, mem[k].muted,
           tg'[mem[k].thread] # tg[mem[k].thread]
    PROVE  item.force \/ mem[k].status = "exited"
  <1>1. todo # <<>>
    BY DEF Step
  <1>2. /\ TypeOK /\ Mapped
        /\ (item.op \notin Whole => item.key \in Keys)
        /\ (item.op \in {"close", "delete", "create"} => ~Live(mem[item.key]))
        /\ (item.op = "delete" => mem[item.key] # None)
        /\ (item.op = "refresh" => mem[item.key] # None /\ ~mem[item.key].muted)
        /\ (item.op = "finish" => mem[item.key] = None \/ ~mem[item.key].muted)
    BY <1>1, ItemKnown
  <1> PICK j : j = item.key
    OBVIOUS
  <1>3. CASE UNCHANGED tg
    BY <1>3
  <1>4. CASE MakeItem
    <2>1. mem[k].thread \in 1..Len(tg) /\ tg \in Seq(Topic)
      BY <1>2, TopicKnown DEF TypeOK
    <2>2. \E s : s \in Seq(Topic) /\ tg' = tg \o s
      <3> DEFINE topic == [key |-> j, name |-> Display(agents[j].name),
                           status |-> agents[j].status, closed |-> FALSE, exists |-> TRUE]
      <3>1. PICK n \in 0..MaxTries : tg' = tg \o [i \in 1..n |-> topic]
        BY <1>4 DEF MakeItem
      <3>2. j \in Keys /\ agents[j] # None
        BY <1>1, <1>4, ItemKnown DEF MakeItem, Whole
      <3>3. Display(agents[j].name) \in TopicName /\ agents[j].status \in Statuses
        BY <1>2, <3>2, Dressed DEF TypeOK
      <3>4. topic \in Topic
        BY <3>2, <3>3 DEF Topic
      <3> HIDE DEF topic
      <3>5. n \in Nat
        BY MirrorAssumption
      <3>6. [i \in 1..n |-> topic] \in Seq(Topic)
        BY <3>4, <3>5
      <3> QED
        BY <3>1, <3>6
    <2>3. tg'[mem[k].thread] = tg[mem[k].thread]
      BY <2>1, <2>2
    <2> QED
      BY <2>3
  <1>5. ASSUME item.op \notin Whole, mem[j] # None,
               NEW after, NEW entry, NEW next, Calls(j, after, entry, next)
        PROVE  j = k
    BY <1>2, <1>5, OthersLeft
  <1>6. CASE CreateItem \/ CloseItem \/ DeleteItem
    <2>1. item.op \in {"create", "close", "delete"}
      BY <1>6 DEF CreateItem, CloseItem, DeleteItem
    <2>2. UNCHANGED tg \/ (mem[j] # None /\ \E after, entry, next : Calls(j, after, entry, next))
      BY <1>2, <1>6 DEF CreateItem, CloseItem, DeleteItem, Moves, Held
    <2>3. j = k
      BY <1>3, <1>5, <2>1, <2>2 DEF Whole
    <2> QED
      BY <1>2, <2>1, <2>3 DEF Live
  <1>7. CASE RefreshItem \/ FinishItem
    <2>1. item.op \in {"refresh", "finish"}
      BY <1>7 DEF RefreshItem, FinishItem
    <2>2. UNCHANGED tg \/ (mem[j] # None /\ \E after, entry, next : Calls(j, after, entry, next))
      BY <1>2, <1>7 DEF RefreshItem, FinishItem, Moves, Held
    <2>3. j = k
      BY <1>3, <1>5, <2>1, <2>2 DEF Whole
    <2> QED
      BY <1>2, <2>1, <2>3
  <1>8. CASE ExitItem
    <2>1. item.op = "exit"
      BY <1>8 DEF ExitItem
    <2>2. UNCHANGED tg \/ (mem[j] # None /\ ~mem[j].muted
                             /\ \E after, entry, next : Calls(j, after, entry, next))
      BY <1>8 DEF ExitItem, Moves, Held
    <2>3. j = k /\ ~mem[j].muted
      BY <1>3, <1>5, <2>1, <2>2 DEF Whole
    <2> QED
      BY <2>3
  <1>9. CASE EditItem
    <2>1. item.op = "edit"
      BY <1>9 DEF EditItem
    <2>2. \/ UNCHANGED tg
          \/ /\ mem[j] # None /\ (~mem[j].muted \/ item.force)
             /\ \E after, entry, next : Calls(j, after, entry, next)
      BY <1>9 DEF EditItem, Edits, Moves, Held
    <2>3. j = k /\ (~mem[j].muted \/ item.force)
      BY <1>3, <1>5, <2>1, <2>2 DEF Whole
    <2> QED
      BY <2>3
  <1>10. CASE \/ HandleEvent \/ FlushItem \/ PassItem \/ RedoItem \/ UnclosedItem \/ PruneItem
              \/ ListItem \/ SnapItem
    <2>1. UNCHANGED tg
      BY <1>10 DEF HandleEvent, FlushItem, PassItem, RedoItem, UnclosedItem, PruneItem, ListItem,
                   SnapItem, Moves, Held
    <2> QED
      BY <1>3, <2>1
  <1> QED
    BY <1>4, <1>6, <1>7, <1>8, <1>9, <1>10 DEF Step

\* A topic its operator closed keeps its look while its entry is muted
\* (OnTopicClosed, Reconciler.edit): the loop touches it only for a resync, for
\* an agent that returned, or to delete it.
THEOREM SpecMuteKept == Spec => MuteKept
  <1> DEFINE Kept == \A k \in Keys :
                       (/\ mem[k] # None /\ mem[k].muted /\ todo # <<>> /\ todo' # todo /\ proc' # "down"
                        /\ tg'[mem[k].thread] # tg[mem[k].thread])
                       => Head(todo).force \/ mem[k].status = "exited"
  <1>1. IInv /\ [Next]_vars => [Kept]_vars
    <2> SUFFICES ASSUME IInv, [Next]_vars, NEW k \in Keys, mem[k] # None, mem[k].muted,
                        todo # <<>>, todo' # todo, tg'[mem[k].thread] # tg[mem[k].thread]
                 PROVE  Head(todo).force \/ mem[k].status = "exited"
      OBVIOUS
    <2>1. CASE Step
      BY <2>1, MutedLeft DEF item
    <2>2. CASE ~Step
      <3>1. UNCHANGED tg \/ UNCHANGED todo
        BY <2>2 DEF Next, vars, List, Apply, TakeEvent, NewsUnknown, RightsChanged, Sweep, Boot,
                    Started, Shutdown, Stopped, Crash, Desk, Option, Resync, StatusEvent, TimerFires,
                    Fire, HerdrChanges, OnTopicClosed, OnTopicReopened, OnTopicRenamed, TakeSignal,
                    ByHand, world
      <3> QED
        BY <3>1
    <2> QED
      BY <2>1, <2>2
  <1> QED
    BY <1>1, SpecIInv, PTL DEF Spec, MuteKept

-----------------------------------------------------------------------------
(* What a pass has reached *)

\* What PassHeals asks of the entry e of an agent of which the registry had a.
Good(e, a) ==
    \/ e # None /\ e.muted
    \/ /\ a # None /\ Live(e) /\ ~e.closed
       /\ e.name = Display(a.name) /\ e.status = a.status
    \/ a = None /\ (e = None \/ (~Live(e) /\ e.closed))

\* The item x, the next of its handler, will heal the entry e of agent k ...
Heals(x, k, e, a) ==
    /\ x.key = k
    /\ \/ a # None /\ x.op \in {"create", "make", "refresh"}
       \/ a # None /\ x.op = "edit" /\ Live(e)
       \/ a = None /\ x.op = "exit"

\* ... or will do so when it is its turn.
Awaits(x, k, e, a) ==
    \/ x.op = "redo" /\ x.key = k /\ (a # None \/ Live(e))
    \/ x.op = "close" /\ x.key = k /\ a = None
    \/ x.op = "unclosed" /\ a = None /\ ~Live(e)

Due(s, k, e, a) ==
    \/ s # <<>> /\ Heals(s[1], k, e, a)
    \/ \E i \in 1..Len(s) : Awaits(s[i], k, e, a)

\* A pass is under way.
Passing(s) == s # <<>> /\ s[Len(s)].op = "prune"

\* Items a pass may hold.
PassOps == {"redo", "unclosed", "close", "create", "make", "refresh", "edit", "exit", "prune"}

PassShape(s, a) ==
    \A i \in 1..Len(s) : s[i].op \in PassOps /\ (s[i].op = "exit" => a[s[i].key] = None)

\* A live entry is never closed.
Open(m) == \A k \in Keys : Live(m[k]) => ~m[k].closed

PassInv ==
    /\ Open(mem) /\ Open(disk)
    /\ \A i \in 1..Len(todo) : todo[i].op \in {"pass", "prune"} => i = Len(todo)
    /\ todo # <<>> /\ todo[1].op = "refresh" => ~mem[todo[1].key].closed
    /\ Passing(todo) =>
         /\ PassShape(todo, agents)
         /\ ~failed => \A k \in Keys :
              Good(mem[k], agents[k]) \/ Due(todo, k, mem[k], agents[k])

\* A handler whose first item made way for others: what it holds, and its end.
LEMMA Resumed ==
    ASSUME NEW s \in Seq(Item), s # <<>>, NEW f \in Seq(Item), NEW q, q = f \o Tail(s)
    PROVE  /\ q \in Seq(Item) /\ Len(q) = Len(f) + Len(s) - 1 /\ Len(f) \in Nat /\ Len(s) \in Nat \ {0}
           /\ \A i \in 1..Len(f) : i \in 1..Len(q) /\ q[i] = f[i]
           /\ \A i \in 2..Len(s) : i + Len(f) - 1 \in 1..Len(q) /\ q[i + Len(f) - 1] = s[i]
           /\ \A i \in 1..Len(q) : \/ i \in 1..Len(f) /\ q[i] = f[i]
                                   \/ \E j \in 2..Len(s) : i = j + Len(f) - 1 /\ q[i] = s[j]
  <1>1. PICK r : r = Tail(s)
    OBVIOUS
  <1>2. /\ r \in Seq(Item) /\ Len(r) = Len(s) - 1 /\ Len(s) \in Nat \ {0} /\ Len(f) \in Nat
        /\ \A i \in 1..Len(r) : r[i] = s[i + 1]
    BY <1>1
  <1>3. /\ q \in Seq(Item) /\ Len(q) = Len(f) + Len(r)
        /\ \A i \in 1..Len(q) : q[i] = IF i <= Len(f) THEN f[i] ELSE r[i - Len(f)]
    BY <1>1, <1>2
  <1>4. \A i \in 1..Len(f) : i \in 1..Len(q) /\ q[i] = f[i]
    BY <1>2, <1>3
  <1>5. ASSUME NEW i \in 2..Len(s)
        PROVE  i + Len(f) - 1 \in 1..Len(q) /\ q[i + Len(f) - 1] = s[i]
    <2>1. /\ i + Len(f) - 1 \in 1..Len(q) /\ ~(i + Len(f) - 1 <= Len(f))
          /\ (i + Len(f) - 1) - Len(f) = i - 1 /\ i - 1 \in 1..Len(r) /\ (i - 1) + 1 = i
      BY <1>2, <1>3
    <2> QED
      BY <1>2, <1>3, <2>1
  <1>6. ASSUME NEW i \in 1..Len(q)
        PROVE  \/ i \in 1..Len(f) /\ q[i] = f[i]
               \/ \E j \in 2..Len(s) : i = j + Len(f) - 1 /\ q[i] = s[j]
    <2>1. CASE i <= Len(f)
      BY <1>2, <1>4, <2>1
    <2>2. CASE ~(i <= Len(f))
      <3>1. i - Len(f) + 1 \in 2..Len(s) /\ i = (i - Len(f) + 1) + Len(f) - 1
        BY <1>2, <1>3, <2>2
      <3> QED
        BY <1>5, <3>1
    <2> QED
      BY <2>1, <2>2
  <1> QED
    BY <1>2, <1>3, <1>4, <1>5, <1>6

\* What waits behind the first item still waits when that is done.
LEMMA DueBehind ==
    ASSUME NEW s \in Seq(Item), s # <<>>, NEW f \in Seq(Item), NEW k, NEW e, NEW a,
           Due(s, k, e, a), ~Heals(s[1], k, e, a), ~Awaits(s[1], k, e, a)
    PROVE  Due(f \o Tail(s), k, e, a)
  <1>1. PICK i \in 2..Len(s) : Awaits(s[i], k, e, a)
    BY DEF Due
  <1>2. PICK q : q = f \o Tail(s)
    OBVIOUS
  <1>3. i + Len(f) - 1 \in 1..Len(q) /\ q[i + Len(f) - 1] = s[i]
    BY <1>2, Resumed
  <1> QED
    BY <1>1, <1>2, <1>3 DEF Due

\* What the first item of a handler will heal is due.
LEMMA DueFirst ==
    ASSUME NEW s, NEW x \in Item, NEW k, NEW e, NEW a, s \in Seq(Item),
           Heals(x, k, e, a) \/ Awaits(x, k, e, a)
    PROVE  Due(<<x>> \o s, k, e, a)
  <1>1. PICK q : q = <<x>> \o s
    OBVIOUS
  <1>2. q # <<>> /\ q[1] = x /\ 1 \in 1..Len(q)
    BY <1>1
  <1> QED
    BY <1>1, <1>2 DEF Due

\* Items about one agent heal no other.
LEMMA OnlyItsAgent ==
    ASSUME NEW x, x.op # "unclosed", NEW k, x.key # k, NEW e, NEW a
    PROVE  ~Heals(x, k, e, a) /\ ~Awaits(x, k, e, a)
  BY DEF Heals, Awaits

\* The next agent of a pass or the next thing for the same one: PassInv is kept when
\* what the item leaves behind is healed or due.
LEMMA PassGoesOn ==
    ASSUME IInv, PassInv, todo # <<>>, NEW f \in Seq(Item), Continue(f),
           item.op \notin {"pass", "prune"}, \A i \in 1..Len(f) : f[i].op \notin {"pass", "prune"},
           Open(mem'), disk' \in {disk, mem'},
           f # <<>> /\ f[1].op = "refresh" => ~mem'[f[1].key].closed,
           Passing(todo) =>
             /\ agents' = agents /\ PassShape(f, agents)
             /\ ~failed' => /\ ~failed
                            /\ \A k \in Keys : \/ Good(mem'[k], agents[k])
                                               \/ Due(f \o rest, k, mem'[k], agents[k])
    PROVE  PassInv'
  <1> PICK s : s = todo
    OBVIOUS
  <1>1. s \in Seq(Item) /\ s # <<>> /\ Shape(s) /\ item = s[1] /\ rest = Tail(s)
    BY DEF IInv, TypeOK, Handler, item, rest
  <1>2. PICK q : q = f \o Tail(s)
    OBVIOUS
  <1>3. /\ q \in Seq(Item) /\ Len(q) = Len(f) + Len(s) - 1 /\ Len(f) \in Nat /\ Len(s) \in Nat \ {0}
        /\ \A i \in 1..Len(f) : i \in 1..Len(q) /\ q[i] = f[i]
        /\ \A i \in 2..Len(s) : i + Len(f) - 1 \in 1..Len(q) /\ q[i + Len(f) - 1] = s[i]
        /\ \A i \in 1..Len(q) : \/ i \in 1..Len(f) /\ q[i] = f[i]
                                \/ \E j \in 2..Len(s) : i = j + Len(f) - 1 /\ q[i] = s[j]
    BY ONLY <1>1, <1>2, Resumed, f \in Seq(Item)
  <1>4. todo' = q
    BY <1>1, <1>2 DEF Continue
  <1>5. Open(mem') /\ Open(disk')
    BY DEF PassInv
  <1>6. \A i \in 1..Len(s) : s[i].op \in {"pass", "prune"} => i = Len(s)
    BY DEF PassInv
  <1>7. \A i \in 1..Len(q) : q[i].op \in {"pass", "prune"} => i = Len(q)
    <2>1. SUFFICES ASSUME NEW i \in 1..Len(q), q[i].op \in {"pass", "prune"} PROVE i = Len(q)
      OBVIOUS
    <2>2. ~(i \in 1..Len(f) /\ q[i] = f[i])
      BY <2>1
    <2>3. PICK j \in 2..Len(s) : i = j + Len(f) - 1 /\ q[i] = s[j]
      BY <1>3, <2>1, <2>2
    <2>4. j = Len(s)
      BY <1>3, <1>6, <2>1, <2>3
    <2> QED
      BY <1>3, <2>3, <2>4
  <1>8. q # <<>> /\ q[1].op = "refresh" => ~mem'[q[1].key].closed
    <2>1. SUFFICES ASSUME q # <<>>, q[1].op = "refresh" PROVE ~mem'[q[1].key].closed
      OBVIOUS
    <2>2. 1 \in 1..Len(q)
      BY <1>3, <2>1
    <2>3. \A j \in 2..Len(s) : s[j].op # "refresh"
      BY <1>1 DEF Shape, FirstOnly
    <2>4. 1 \in 1..Len(f) /\ q[1] = f[1]
      <3>1. ~\E j \in 2..Len(s) : 1 = j + Len(f) - 1 /\ q[1] = s[j]
        BY <2>1, <2>3
      <3> QED
        BY ONLY <1>3, <2>2, <3>1
    <2> QED
      BY <2>1, <2>4
  <1>9. ASSUME Passing(q) PROVE Passing(s)
    <2>1. Len(q) \in 1..Len(q) /\ q[Len(q)].op = "prune"
      BY <1>3, <1>9 DEF Passing
    <2>2. PICK j \in 2..Len(s) : Len(q) = j + Len(f) - 1 /\ q[Len(q)] = s[j]
      BY <1>3, <2>1
    <2>3. j = Len(s)
      BY <1>3, <2>2
    <2> QED
      BY <1>1, <2>1, <2>2, <2>3 DEF Passing
  <1>10. ASSUME Passing(q)
         PROVE  /\ PassShape(q, agents')
                /\ ~failed' => \A k \in Keys : Good(mem'[k], agents'[k]) \/ Due(q, k, mem'[k], agents'[k])
    <2>1. Passing(todo)
      BY <1>9, <1>10
    <2>2. PassShape(s, agents)
      BY <2>1 DEF PassInv
    <2>3. PassShape(f, agents) /\ agents' = agents
      BY <2>1
    <2>4. PassShape(q, agents)
      <3> SUFFICES ASSUME NEW i \in 1..Len(q)
                   PROVE  q[i].op \in PassOps /\ (q[i].op = "exit" => agents[q[i].key] = None)
        BY DEF PassShape
      <3>1. CASE i \in 1..Len(f) /\ q[i] = f[i]
        BY <2>3, <3>1 DEF PassShape
      <3>2. CASE \E j \in 2..Len(s) : q[i] = s[j]
        <4>1. PICK j \in 2..Len(s) : q[i] = s[j]
          BY <3>2
        <4>2. j \in 1..Len(s)
          BY <1>3
        <4> QED
          BY <2>2, <4>1, <4>2 DEF PassShape
      <3> QED
        BY <1>3, <3>1, <3>2
    <2> QED
      BY <1>1, <1>2, <2>1, <2>3, <2>4
  <1> QED
    BY <1>4, <1>5, <1>7, <1>8, <1>10 DEF PassInv

\* An item that is held back or fails counts against the pass.
LEMMA PassStops ==
    ASSUME IInv, PassInv, todo # <<>>, item.op \notin {"pass", "prune"}, Continue(<<>>),
           failed' = TRUE, agents' = agents, \A k \in Keys : mem'[k] \in {mem[k], None},
           disk' \in {disk, mem'}
    PROVE  PassInv'
  <1>1. Open(mem')
    BY DEF PassInv, Open, Live
  <1>2. PICK f : f = <<>>
    OBVIOUS
  <1>3. f \in Seq(Item) /\ Continue(f) /\ ~\E i \in 1..Len(f) : TRUE
    BY <1>2
  <1>4. PassShape(f, agents)
    BY <1>3 DEF PassShape
  <1> QED
    BY <1>1, <1>2, <1>3, <1>4, PassGoesOn

\* An item about agent k leaves the others as they are.
LEMMA PassAgent ==
    ASSUME IInv, PassInv, todo # <<>>, NEW k \in Keys, item.key = k,
           item.op \notin {"pass", "prune", "unclosed"}, UNCHANGED <<agents, failed>>,
           NEW f \in Seq(Item), Continue(f), \A i \in 1..Len(f) : f[i].op \notin {"pass", "prune"},
           f # <<>> /\ f[1].op = "refresh" => ~mem'[f[1].key].closed,
           \A j \in Keys \ {k} : mem'[j] = mem[j],
           Live(mem'[k]) => ~mem'[k].closed, disk' \in {disk, mem'},
           Passing(todo) =>
             /\ PassShape(f, agents)
             /\ Good(mem[k], agents[k]) \/ Due(todo, k, mem[k], agents[k])
                  => Good(mem'[k], agents[k]) \/ Due(f \o rest, k, mem'[k], agents[k])
    PROVE  PassInv'
  <1>1. Open(mem')
    BY DEF PassInv, Open
  <1>2. todo \in Seq(Item) /\ item = todo[1] /\ rest = Tail(todo)
    BY DEF IInv, TypeOK, item, rest
  <1>3. ASSUME Passing(todo), ~failed', NEW j \in Keys
        PROVE  Good(mem'[j], agents[j]) \/ Due(f \o rest, j, mem'[j], agents[j])
    <2>1. Good(mem[j], agents[j]) \/ Due(todo, j, mem[j], agents[j])
      BY <1>3 DEF PassInv
    <2>2. CASE j = k
      BY <1>3, <2>1, <2>2
    <2>3. CASE j # k /\ Due(todo, j, mem[j], agents[j])
      <3>1. ~Heals(todo[1], j, mem[j], agents[j]) /\ ~Awaits(todo[1], j, mem[j], agents[j])
        BY <1>2, <2>3, OnlyItsAgent
      <3>2. Due(f \o Tail(todo), j, mem[j], agents[j])
        BY <1>2, <2>3, <3>1, DueBehind
      <3> QED
        BY <1>2, <2>3, <3>2
    <2> QED
      BY <2>1, <2>2, <2>3
  <1> QED
    BY <1>1, <1>3, PassGoesOn

\* The item leads to another one for the same agent ...
LEMMA PassNext ==
    ASSUME IInv, PassInv, todo # <<>>, NEW k \in Keys, item.key = k,
           item.op \notin {"pass", "prune", "unclosed"}, UNCHANGED <<agents, failed>>,
           NEW x \in Item, x.key = k, x.op \notin {"pass", "prune"}, Continue(<<x>>),
           x.op = "refresh" => ~mem'[k].closed,
           \A j \in Keys \ {k} : mem'[j] = mem[j],
           Live(mem'[k]) => ~mem'[k].closed, disk' \in {disk, mem'},
           Passing(todo) => /\ x.op \in PassOps /\ (x.op = "exit" => agents[k] = None)
                            /\ Good(mem[k], agents[k]) \/ Due(todo, k, mem[k], agents[k])
                                 => \/ Heals(x, k, mem'[k], agents[k])
                                    \/ Awaits(x, k, mem'[k], agents[k])
    PROVE  PassInv'
  <1>1. PICK f : f = <<x>>
    OBVIOUS
  <1>2. f \in Seq(Item) /\ f[1] = x /\ \A i \in 1..Len(f) : f[i] = x
    BY <1>1
  <1>3. rest \in Seq(Item)
    BY DEF IInv, TypeOK, rest
  <1>4. Passing(todo) => PassShape(f, agents)
    BY <1>2 DEF PassShape
  <1>5. ASSUME Passing(todo), Good(mem[k], agents[k]) \/ Due(todo, k, mem[k], agents[k])
        PROVE  Due(f \o rest, k, mem'[k], agents[k])
    BY <1>1, <1>3, <1>5, DueFirst
  <1>6. Continue(f)
    BY <1>1
  <1> QED
    BY <1>2, <1>4, <1>5, <1>6, PassAgent

\* ... or is the last one for it.
LEMMA PassDone ==
    ASSUME IInv, PassInv, todo # <<>>, NEW k \in Keys, item.key = k,
           item.op \notin {"pass", "prune", "unclosed"}, UNCHANGED <<agents, failed>>,
           Continue(<<>>), \A j \in Keys \ {k} : mem'[j] = mem[j],
           Live(mem'[k]) => ~mem'[k].closed, disk' \in {disk, mem'},
           Passing(todo) => (Good(mem[k], agents[k]) \/ Due(todo, k, mem[k], agents[k])
                               => \/ Good(mem'[k], agents[k])
                                  \/ Due(<<>> \o rest, k, mem'[k], agents[k]))
    PROVE  PassInv'
  <1>1. PICK f : f = <<>>
    OBVIOUS
  <1>2. f \in Seq(Item) /\ Continue(f) /\ ~\E i \in 1..Len(f) : TRUE
    BY <1>1
  <1>3. PassShape(f, agents)
    BY <1>2 DEF PassShape
  <1> QED
    BY <1>1, <1>2, <1>3, PassAgent

\* A call ends with the entry it wants, or fails and ends the item.
LEMMA CallEither ==
    ASSUME TypeOK, Mapped, NEW k \in Keys, NEW after, NEW entry, NEW next,
           Calls(k, after, entry, next)
    PROVE  /\ UNCHANGED agents /\ disk' \in {disk, mem'}
           /\ \/ mem' = [mem EXCEPT ![k] = entry] /\ Continue(next) /\ UNCHANGED failed
              \/ /\ failed' = TRUE /\ Continue(<<>>)
                 /\ \A j \in Keys : mem'[j] \in {mem[j], None}
  <1>1. mem \in [Keys -> Entry \cup {None}]
    BY DEF TypeOK
  <1>2. CASE mem' = [mem EXCEPT ![k] = entry] /\ Save /\ Continue(next) /\ UNCHANGED failed
    BY <1>2 DEF Calls, Save
  <1>3. CASE Fails(k, after) /\ Continue(<<>>)
    <2>1. CASE mem' = [mem EXCEPT ![k] = None] /\ Save
      BY <1>1, <1>3, <2>1 DEF Calls, Fails, Save
    <2>2. CASE UNCHANGED <<mem, disk>>
      BY <1>3, <2>2 DEF Calls, Fails
    <2> QED
      BY <1>3, <2>1, <2>2 DEF Fails
  <1> QED
    BY <1>2, <1>3 DEF Calls

\* A call that another item follows ...
LEMMA PassCallNext ==
    ASSUME IInv, PassInv, todo # <<>>, NEW k \in Keys, item.key = k,
           item.op \notin {"pass", "prune", "unclosed"}, NEW after, NEW entry,
           NEW x \in Item, x.key = k, x.op \notin {"pass", "prune"},
           Calls(k, after, entry, <<x>>),
           x.op = "refresh" => ~entry.closed, Live(entry) => ~entry.closed,
           Passing(todo) => /\ x.op \in PassOps /\ (x.op = "exit" => agents[k] = None)
                            /\ Heals(x, k, entry, agents[k]) \/ Awaits(x, k, entry, agents[k])
    PROVE  PassInv'
  <1>1. TypeOK /\ Mapped /\ mem \in [Keys -> Entry \cup {None}]
    BY DEF IInv, TypeOK
  <1>2. UNCHANGED agents /\ disk' \in {disk, mem'}
    BY <1>1, CallEither
  <1>3. CASE mem' = [mem EXCEPT ![k] = entry] /\ Continue(<<x>>) /\ UNCHANGED failed
    <2>1. mem'[k] = entry /\ \A j \in Keys \ {k} : mem'[j] = mem[j]
      BY <1>1, <1>3
    <2> QED
      BY <1>2, <1>3, <2>1, PassNext
  <1>4. CASE failed' = TRUE /\ Continue(<<>>) /\ \A j \in Keys : mem'[j] \in {mem[j], None}
    BY <1>2, <1>4, PassStops
  <1> QED
    BY <1>1, <1>3, <1>4, CallEither

\* ... and one that ends the item.
LEMMA PassCallDone ==
    ASSUME IInv, PassInv, todo # <<>>, NEW k \in Keys, item.key = k,
           item.op \notin {"pass", "prune", "unclosed"}, NEW after, NEW entry,
           Calls(k, after, entry, <<>>), Live(entry) => ~entry.closed,
           Passing(todo) => (Good(mem[k], agents[k]) \/ Due(todo, k, mem[k], agents[k])
                               => \/ Good(entry, agents[k])
                                  \/ Due(<<>> \o rest, k, entry, agents[k]))
    PROVE  PassInv'
  <1>1. TypeOK /\ Mapped /\ mem \in [Keys -> Entry \cup {None}]
    BY DEF IInv, TypeOK
  <1>2. UNCHANGED agents /\ disk' \in {disk, mem'}
    BY <1>1, CallEither
  <1>3. CASE mem' = [mem EXCEPT ![k] = entry] /\ Continue(<<>>) /\ UNCHANGED failed
    <2>1. mem'[k] = entry /\ \A j \in Keys \ {k} : mem'[j] = mem[j]
      BY <1>1, <1>3
    <2> QED
      BY <1>2, <1>3, <2>1, PassDone
  <1>4. CASE failed' = TRUE /\ Continue(<<>>) /\ \A j \in Keys : mem'[j] \in {mem[j], None}
    BY <1>2, <1>4, PassStops
  <1> QED
    BY <1>1, <1>3, <1>4, CallEither

\* An item that writes nothing.
LEMMA PassHeld ==
    ASSUME IInv, PassInv, todo # <<>>, item.op \notin {"pass", "prune"}, Held PROVE PassInv'
  BY PassStops DEF Held

\* What a pass knows of its next item.
LEMMA PassKnown ==
    ASSUME IInv, PassInv, todo # <<>>
    PROVE  /\ todo \in Seq(Item) /\ todo[1] = item /\ rest = Tail(todo) /\ rest \in Seq(Item)
           /\ Open(mem) /\ (item.op = "refresh" => ~mem[item.key].closed)
           /\ Passing(todo) => /\ item.op \in PassOps
                               /\ item.op = "exit" => agents[item.key] = None
  <1>1. todo \in Seq(Item) /\ todo[1] = item /\ rest = Tail(todo) /\ rest \in Seq(Item)
        /\ 1 \in 1..Len(todo)
    BY DEF IInv, TypeOK, item, rest
  <1> QED
    BY <1>1 DEF PassInv, PassShape

\* What was due behind the item is due when it is done.
LEMMA StillDue ==
    ASSUME IInv, PassInv, todo # <<>>, NEW k, NEW e, NEW a, Due(todo, k, e, a),
           ~Heals(item, k, e, a), ~Awaits(item, k, e, a)
    PROVE  Due(<<>> \o rest, k, e, a)
  <1>1. PICK f : f = <<>>
    OBVIOUS
  <1>2. f \in Seq(Item)
    BY <1>1
  <1>3. Due(f \o rest, k, e, a)
    BY <1>2, PassKnown, DueBehind
  <1> QED
    BY <1>1, <1>3

\* create leads to a new topic, or to the old one's new look.
LEMMA CreatePasses == ASSUME IInv, PassInv, todo # <<>>, CreateItem PROVE PassInv'
  <1> PICK k : k = item.key
    OBVIOUS
  <1>1. item.op = "create"
    BY DEF CreateItem
  <1>2. TypeOK /\ Mapped /\ k \in Keys /\ agents[k] # None /\ ~Live(mem[k])
    BY <1>1, ItemKnown DEF Whole
  <1>3. item.op \notin {"pass", "prune", "unclosed"}
    BY <1>1
  <1>4. PICK e : e = [mem[k] EXCEPT !.closed = FALSE, !.muted = FALSE]
    OBVIOUS
  <1>5. mem[k] # None => ~e.closed
    BY <1>2, <1>4, TopicKnown DEF Entry
  <1>6. PICK x : x = Do("make", k)
    OBVIOUS
  <1>7. x \in Item /\ x.op = "make" /\ x.key = k
    BY <1>2, <1>6, DoItem DEF Ops, ItemOK
  <1>8. PICK y : y = Do("refresh", k)
    OBVIOUS
  <1>9. y \in Item /\ y.op = "refresh" /\ y.key = k
    BY <1>2, <1>8, DoItem DEF Ops, ItemOK
  <1>10. \A m : Heals(x, k, m, agents[k]) /\ Heals(y, k, m, agents[k])
    BY <1>2, <1>7, <1>9 DEF Heals
  <1>11. x.op \in PassOps /\ y.op \in PassOps
    BY <1>7, <1>9 DEF PassOps
  <1>12. CASE Held
    BY <1>3, <1>12, PassHeld
  <1>13. CASE mem[k] = None /\ Moves(<<x>>)
    <2>1. /\ UNCHANGED <<agents, failed>> /\ Continue(<<x>>) /\ mem' = mem /\ disk' \in {disk, mem'}
          /\ ~Live(mem'[k])
      BY <1>2, <1>13 DEF Moves
    <2> QED
      BY <1>2, <1>3, <1>7, <1>10, <1>11, <2>1, PassNext
  <1>14. CASE /\ mem[k] # None /\ mem' = [mem EXCEPT ![k] = e] /\ Save
              /\ Continue(<<y>>) /\ UNCHANGED <<tg, failed, agents, timers>>
    <2>1. mem'[k] = e /\ (\A j \in Keys \ {k} : mem'[j] = mem[j]) /\ disk' \in {disk, mem'}
      BY <1>2, <1>14 DEF TypeOK, Save
    <2> QED
      BY <1>2, <1>3, <1>5, <1>9, <1>10, <1>11, <1>14, <2>1, PassNext
  <1>15. CASE /\ mem[k] # None
              /\ Calls(k, [tg[mem[k].thread] EXCEPT !.closed = FALSE], e, <<y>>)
    BY <1>2, <1>3, <1>5, <1>9, <1>10, <1>11, <1>15, PassCallNext
  <1>16. CASE /\ mem[k] # None /\ mem' = [mem EXCEPT ![k] = None]
              /\ Continue(<<x>>) /\ UNCHANGED <<disk, tg, failed, agents, timers, trouble>>
    <2>1. mem'[k] = None /\ ~Live(mem'[k]) /\ \A j \in Keys \ {k} : mem'[j] = mem[j]
      BY <1>2, <1>16 DEF TypeOK, Live
    <2> QED
      BY <1>2, <1>3, <1>7, <1>10, <1>11, <1>16, <2>1, PassNext
  <1> QED
    BY <1>4, <1>6, <1>8, <1>12, <1>13, <1>14, <1>15, <1>16 DEF CreateItem

\* An entry that looks as its agent does is good.
LEMMA DressedWell ==
    ASSUME NEW e, e \in Entry, NEW a \in Look, ~e.closed,
           e.name = Display(a.name), e.status = a.status
    PROVE  Good(e, a) /\ Live(e)
  BY MirrorAssumption, NoneIsApart DEF Good, Live, Look

\* The second half of revive.
LEMMA RefreshPasses == ASSUME IInv, PassInv, todo # <<>>, RefreshItem PROVE PassInv'
  <1> PICK k : k = item.key
    OBVIOUS
  <1>1. item.op = "refresh" /\ item.op \notin {"pass", "prune", "unclosed"}
    BY DEF RefreshItem
  <1>2. TypeOK /\ Mapped /\ k \in Keys /\ agents[k] # None /\ mem[k] # None
    BY <1>1, ItemKnown DEF Whole
  <1>3. Display(agents[k].name) \in TopicName /\ agents[k].status \in Statuses /\ agents[k] \in Look
    BY <1>2, Dressed DEF TypeOK
  <1>4. PICK entry : entry = [mem[k] EXCEPT !.name = Display(agents[k].name),
                                            !.status = agents[k].status]
    OBVIOUS
  <1>5. mem[k] \in Entry /\ ~mem[k].closed
    BY <1>1, <1>2, TopicKnown, PassKnown
  <1>6. /\ entry \in Entry /\ ~entry.closed
        /\ entry.name = Display(agents[k].name) /\ entry.status = agents[k].status
    BY <1>3, <1>4, <1>5 DEF Entry
  <1>7. Good(entry, agents[k])
    BY <1>3, <1>6, DressedWell
  <1>8. PICK after : Calls(k, after, entry, <<>>)
    BY <1>4 DEF RefreshItem
  <1> QED
    BY <1>1, <1>2, <1>6, <1>7, <1>8, PassCallDone

\* edit writes the look, finds it written, or leaves the agent to a creation.
LEMMA EditPasses == ASSUME IInv, PassInv, todo # <<>>, EditItem PROVE PassInv'
  <1> PICK k : k = item.key
    OBVIOUS
  <1> PICK a : a = agents[k]
    OBVIOUS
  <1> PICK e : e = mem[k]
    OBVIOUS
  <1>1. item.op = "edit" /\ item.op \notin {"pass", "prune", "unclosed"}
    BY DEF EditItem
  <1>2. TypeOK /\ Mapped /\ k \in Keys /\ a \in Look \cup {None} /\ (Live(e) => ~e.closed)
    BY <1>1, ItemKnown, PassKnown DEF Whole, TypeOK, Open
  <1>3. e # None => e \in Entry
    BY <1>2, TopicKnown
  <1>4. ~Awaits(item, k, e, a) /\ (Heals(item, k, e, a) => a # None /\ Live(e))
    BY <1>1 DEF Heals, Awaits
  <1>5. CASE Held
    BY <1>1, <1>5, PassHeld
  <1>6. CASE a # None /\ e = None /\ Moves(<<Do("create", k)>>)
    <2>1. PICK x : x = Do("create", k)
      OBVIOUS
    <2>2. x \in Item /\ x.op = "create" /\ x.key = k
      BY <1>2, <2>1, DoItem DEF Ops, ItemOK
    <2>3. Heals(x, k, mem'[k], agents[k]) /\ x.op \in PassOps
      BY <1>6, <2>2 DEF Heals, PassOps
    <2>4. /\ UNCHANGED <<agents, failed>> /\ Continue(<<x>>) /\ mem' = mem /\ disk' \in {disk, mem'}
          /\ ~Live(mem'[k])
      BY <1>6, <2>1 DEF Moves, Live
    <2> QED
      BY <1>1, <1>2, <2>2, <2>3, <2>4, PassNext
  <1>7. CASE /\ Moves(<<>>)
             /\ a # None /\ Live(e) => e.muted \/ ~Differs(k)
    <2>1. ASSUME Good(e, a) \/ Due(todo, k, e, a)
          PROVE  Good(e, a) \/ Due(<<>> \o rest, k, e, a)
      <3>1. CASE a # None /\ Live(e)
        BY <1>2, <1>7, <3>1 DEF Good, Differs, Live
      <3>2. CASE ~(a # None /\ Live(e)) /\ Due(todo, k, e, a)
        BY <1>4, <3>2, StillDue
      <3> QED
        BY <2>1, <3>1, <3>2
    <2>2. /\ UNCHANGED <<agents, failed>> /\ Continue(<<>>) /\ mem' = mem /\ disk' \in {disk, mem'}
      BY <1>7 DEF Moves
    <2> QED
      BY <1>1, <1>2, <2>1, <2>2, PassDone
  <1>8. CASE a # None /\ Live(e) /\ Edits(k, item.force)
    <2>1. Display(a.name) \in TopicName /\ a.status \in Statuses /\ a \in Look
      BY <1>2, <1>8, Dressed
    <2>2. PICK entry : entry = [e EXCEPT !.name = Display(a.name), !.status = a.status]
      OBVIOUS
    <2>3. /\ entry \in Entry /\ ~entry.closed
          /\ entry.name = Display(a.name) /\ entry.status = a.status
      BY <1>2, <1>3, <1>8, <2>1, <2>2 DEF Entry, Live
    <2>4. Good(entry, agents[k])
      BY <2>1, <2>3, DressedWell
    <2>5. PICK after : Calls(k, after, entry, <<>>)
      BY <1>8, <2>2 DEF Edits
    <2> QED
      BY <1>1, <1>2, <2>3, <2>4, <2>5, PassCallDone
  <1>9. \/ a = None /\ Moves(<<>>)
        \/ a # None /\ e = None /\ Moves(<<Do("create", k)>>)
        \/ /\ a # None /\ e # None /\ Moves(<<>>)
           /\ ~((~e.muted \/ item.force) /\ (Differs(k) \/ (item.force /\ Live(e))))
        \/ Held
        \/ /\ a # None /\ e # None /\ Edits(k, item.force)
           /\ Differs(k) \/ (item.force /\ Live(e))
    BY DEF EditItem
  <1>10. Differs(k) => Live(e)
    BY DEF Differs
  <1> QED
    BY <1>3, <1>5, <1>6, <1>7, <1>8, <1>9, <1>10 DEF Entry

\* exit leaves the entry of an agent that ended finished, and its closing next.
LEMMA ExitPasses == ASSUME IInv, PassInv, todo # <<>>, ExitItem PROVE PassInv'
  <1> PICK k : k = item.key
    OBVIOUS
  <1>1. item.op = "exit" /\ item.op \notin {"pass", "prune", "unclosed"}
    BY DEF ExitItem
  <1>2. TypeOK /\ Mapped /\ k \in Keys
    BY <1>1, ItemKnown DEF Whole
  <1>3. (Passing(todo) => agents[k] = None) /\ (Live(mem[k]) => ~mem[k].closed)
    BY <1>1, <1>2, PassKnown DEF Open
  <1>4. mem[k] # None => mem[k] \in Entry
    BY <1>2, TopicKnown
  <1>5. PICK x : x = Do("close", k)
    OBVIOUS
  <1>6. x \in Item /\ x.op = "close" /\ x.key = k /\ x.op \in PassOps
    BY <1>2, <1>5, DoItem DEF Ops, ItemOK, PassOps
  <1>7. ASSUME NEW e, Passing(todo) PROVE Awaits(x, k, e, agents[k])
    BY <1>3, <1>6, <1>7 DEF Awaits
  <1>8. CASE mem[k] = None /\ Moves(<<>>)
    <2>1. Passing(todo) => Good(mem[k], agents[k])
      BY <1>3, <1>8 DEF Good
    <2>2. /\ UNCHANGED <<agents, failed>> /\ Continue(<<>>) /\ mem' = mem /\ disk' \in {disk, mem'}
      BY <1>8 DEF Moves
    <2> QED
      BY <1>1, <1>2, <1>3, <2>1, <2>2, PassDone
  <1>9. CASE Held
    BY <1>1, <1>9, PassHeld
  <1>10. CASE /\ mem[k] # None /\ mem[k].muted
              /\ mem' = [mem EXCEPT ![k].status = "exited", ![k].closed = TRUE] /\ Save
              /\ Continue(<<>>) /\ UNCHANGED <<tg, failed, agents, timers>>
    <2>1. PICK e : e = [mem[k] EXCEPT !.status = "exited", !.closed = TRUE]
      OBVIOUS
    <2>2. e \in Entry /\ e.muted /\ ~Live(e)
      BY <1>4, <1>10, <2>1 DEF Entry, Live
    <2>3. Good(e, agents[k])
      BY <2>2, NoneIsApart DEF Good
    <2>4. mem'[k] = e /\ (\A j \in Keys \ {k} : mem'[j] = mem[j]) /\ disk' \in {disk, mem'}
      BY <1>2, <1>10, <2>1 DEF TypeOK, Save
    <2> QED
      BY <1>1, <1>2, <1>10, <2>2, <2>3, <2>4, PassDone
  <1>11. CASE /\ mem[k] # None
              /\ Calls(k, [tg[mem[k].thread] EXCEPT !.status = "exited"],
                       [mem[k] EXCEPT !.status = "exited"], <<x>>)
    <2>1. PICK e : e = [mem[k] EXCEPT !.status = "exited"]
      OBVIOUS
    <2>2. ~Live(e)
      BY <1>4, <1>11, <2>1 DEF Entry, Live
    <2>3. PICK after : Calls(k, after, e, <<x>>)
      BY <1>11, <2>1
    <2> QED
      BY <1>1, <1>2, <1>6, <1>7, <2>2, <2>3, PassCallNext
  <1>12. CASE Moves(<<x>>)
    <2>1. /\ UNCHANGED <<agents, failed>> /\ Continue(<<x>>) /\ mem' = mem /\ disk' \in {disk, mem'}
      BY <1>12 DEF Moves
    <2> QED
      BY <1>1, <1>2, <1>3, <1>6, <1>7, <2>1, PassNext
  <1> QED
    BY <1>5, <1>8, <1>9, <1>10, <1>11, <1>12 DEF ExitItem

\* close ends what exit began, and leaves an agent that is back to its own item.
LEMMA ClosePasses == ASSUME IInv, PassInv, todo # <<>>, CloseItem PROVE PassInv'
  <1> PICK k : k = item.key
    OBVIOUS
  <1> PICK a : a = agents[k]
    OBVIOUS
  <1>1. item.op = "close" /\ item.op \notin {"pass", "prune", "unclosed"}
    BY DEF CloseItem
  <1>2. TypeOK /\ Mapped /\ k \in Keys /\ ~Live(mem[k])
    BY <1>1, ItemKnown DEF Whole
  <1>3. mem[k] # None => mem[k] \in Entry
    BY <1>2, TopicKnown
  <1>4. ASSUME NEW e, ~Live(e), e = None \/ e.closed, Good(mem[k], a) \/ Due(todo, k, mem[k], a),
               mem[k] # None => e # None /\ e.muted = mem[k].muted
        PROVE  Good(e, a) \/ Due(<<>> \o rest, k, e, a)
    <2>1. CASE a = None
      BY <1>4, <2>1 DEF Good
    <2>2. CASE a # None /\ Good(mem[k], a)
      BY <1>2, <1>4, <2>2 DEF Good
    <2>3. CASE a # None /\ Due(todo, k, mem[k], a)
      <3>1. Due(todo, k, e, a)
        BY <1>2, <1>4, <2>3 DEF Due, Heals, Awaits
      <3>2. ~Heals(item, k, e, a) /\ ~Awaits(item, k, e, a)
        BY <1>1, <2>3 DEF Heals, Awaits
      <3> QED
        BY <3>1, <3>2, StillDue
    <2> QED
      BY <1>4, <2>1, <2>2, <2>3
  <1>5. CASE (mem[k] = None \/ mem[k].closed) /\ Moves(<<>>)
    <2>1. /\ UNCHANGED <<agents, failed>> /\ Continue(<<>>) /\ mem' = mem /\ disk' \in {disk, mem'}
      BY <1>5 DEF Moves
    <2> QED
      BY <1>1, <1>2, <1>4, <1>5, <2>1, PassDone
  <1>6. CASE Held
    BY <1>1, <1>6, PassHeld
  <1>7. CASE /\ mem[k] # None
             /\ Calls(k, [tg[mem[k].thread] EXCEPT !.closed = TRUE],
                      [mem[k] EXCEPT !.closed = TRUE], <<>>)
    <2>1. PICK e : e = [mem[k] EXCEPT !.closed = TRUE]
      OBVIOUS
    <2>2. e \in Entry /\ ~Live(e) /\ e.closed /\ e.muted = mem[k].muted /\ e # None
      <3>1. mem[k].status = "exited"
        BY <1>2, <1>7 DEF Live
      <3>2. e \in Entry /\ e.closed /\ e.muted = mem[k].muted /\ e.status = mem[k].status
        BY <1>3, <1>7, <2>1 DEF Entry
      <3> QED
        BY <3>1, <3>2, NoneIsApart DEF Live
    <2>3. PICK after : Calls(k, after, e, <<>>)
      BY <1>7, <2>1
    <2> QED
      BY <1>1, <1>2, <1>4, <2>2, <2>3, PassCallDone
  <1> QED
    BY <1>5, <1>6, <1>7 DEF CloseItem

\* createTopic links a topic that looks as its agent does.
LEMMA MakePasses == ASSUME IInv, IInv', PassInv, todo # <<>>, MakeItem PROVE PassInv'
  <1> DEFINE k == item.key
             topic == [key |-> k, name |-> Display(agents[k].name),
                       status |-> agents[k].status, closed |-> FALSE, exists |-> TRUE]
  <1>1. item.op = "make" /\ item.op \notin {"pass", "prune", "unclosed"}
    BY DEF MakeItem
  <1>2. TypeOK /\ Mapped /\ k \in Keys /\ agents[k] # None
    BY <1>1, ItemKnown DEF Whole
  <1>3. /\ Display(agents[k].name) \in TopicName /\ agents[k].status \in Statuses
        /\ agents[k] \in Look
    BY <1>2, Dressed DEF TypeOK
  <1>4. topic \in Topic
    BY <1>2, <1>3 DEF Topic
  <1>5. UNCHANGED agents /\ Continue(<<>>)
    BY DEF MakeItem
  <1>6. PICK entry : entry = [thread |-> Len(tg'), name |-> topic.name, status |-> topic.status,
                              closed |-> FALSE, muted |-> FALSE]
    OBVIOUS
  <1>7. CASE failed' = TRUE /\ UNCHANGED <<mem, disk>>
    BY <1>1, <1>5, <1>7, PassStops
  <1>8. CASE /\ \E n \in 1..MaxTries : tg' = tg \o [i \in 1..n |-> topic]
             /\ mem' = [mem EXCEPT ![k] = entry] /\ disk' \in {disk, mem'} /\ UNCHANGED failed
    <2>1. PICK n \in 1..MaxTries : tg' = tg \o [i \in 1..n |-> topic]
      BY <1>8
    <2>2. n \in Nat \ {0} /\ tg \in Seq(Topic) /\ More(tg, tg', n, topic)
      BY <1>2, <2>1, MirrorAssumption DEF TypeOK, More
    <2>3. Len(tg') = Len(tg) + n
      <3> HIDE DEF topic
      <3> QED BY ONLY <1>4, <2>2, n \in Nat, MoreTopics
    <2>4. Len(tg') \in 1..MaxThreads
      BY <2>2, <2>3, MirrorAssumption DEF IInv, Mapped
    <2>5. /\ entry \in Entry /\ ~entry.closed
          /\ entry.name = Display(agents[k].name) /\ entry.status = agents[k].status
      BY <1>3, <1>6, <2>4 DEF Entry
    <2>6. Good(entry, agents[k])
      BY <1>3, <2>5, DressedWell
    <2>7. mem'[k] = entry /\ (\A j \in Keys \ {k} : mem'[j] = mem[j])
      BY <1>2, <1>8 DEF TypeOK
    <2> QED
      BY <1>1, <1>2, <1>5, <1>8, <2>5, <2>6, <2>7, PassDone
  <1>9. PICK n \in 0..MaxTries :
          /\ tg' = tg \o [i \in 1..n |-> topic]
          /\ \/ /\ n = 1 \/ n > 1
                /\ mem' = [mem EXCEPT ![k] =
                     [thread |-> Len(tg'), name |-> topic.name, status |-> topic.status,
                      closed |-> FALSE, muted |-> FALSE]]
                /\ Save \/ disk' \in {disk, mem'}
                /\ UNCHANGED failed
             \/ failed' = TRUE /\ UNCHANGED <<mem, disk>>
    BY DEF MakeItem
  <1> HIDE DEF k, topic
  <1>10. n = 1 \/ n > 1 => n \in 1..MaxTries
    BY <1>9, MirrorAssumption
  <1> QED
    BY <1>6, <1>7, <1>8, <1>9, <1>10 DEF Save

\* A finite set put in some order is all there.
LEMMA ListAll ==
    ASSUME NEW T, IsFiniteSet(T), NEW q, q = SetToSeq(T), NEW x \in T
    PROVE  \E i \in 1..Len(q) : q[i] = x
  <1>1. Cardinality(T) \in Nat /\ ExistsBijection(1..Cardinality(T), T)
    BY FS_CardinalityType
  <1>2. \E f \in [1..Cardinality(T) -> T] : IsInjective(f)
    BY <1>1 DEF ExistsBijection, Bijection, Injection
  <1>3. q \in [1..Cardinality(T) -> T] /\ IsInjective(q)
    BY <1>2 DEF SetToSeq
  <1>4. PICK n \in Nat : n = Cardinality(T)
    BY <1>1
  <1>5. q \in [1..n -> T] /\ Len(q) = n /\ \A i, j \in 1..n : q[i] = q[j] => i = j
    BY <1>3, <1>4 DEF IsInjective
  <1>6. q \in Injection(1..n, T)
    BY <1>5 DEF Injection, IsInjective
  <1>7. Cardinality(1..n) = n
    <2>1. 1 \in Int /\ n \in Int
      BY <1>4
    <2>2. Cardinality(1..n) = IF 1 > n THEN 0 ELSE n - 1 + 1
      BY ONLY <2>1, FS_Interval
    <2> QED
      BY <1>4, <2>2
  <1>8. q \in Surjection(1..n, T)
    BY ONLY <1>4, <1>6, <1>7, IsFiniteSet(T), FS_Injection
  <1> QED
    BY <1>5, <1>8 DEF Surjection

\* Plain items in some order are all there.
LEMMA PlainAll ==
    ASSUME NEW S \in SUBSET Keys, NEW o \in Ops, NEW b \in BOOLEAN,
           NEW q, q = SetToSeq(Plain(o, S, b)), NEW k \in S
    PROVE  \E i \in 1..Len(q) : q[i].op = o /\ q[i].key = k
  <1> DEFINE F == [j \in S |-> [op |-> o, key |-> j, look |-> None, force |-> b]]
  <1>1. PICK T : T = Plain(o, S, b)
    OBVIOUS
  <1>2. F \in [S -> T] /\ \A x \in T : \E j \in S : F[j] = x
    BY <1>1 DEF Plain
  <1>3. IsFiniteSet(T)
    <2> HIDE DEF F
    <2> QED BY <1>2, FewItems
  <1>4. PICK x \in T : x = [op |-> o, key |-> k, look |-> None, force |-> b]
    BY <1>1 DEF Plain
  <1>5. \E i \in 1..Len(q) : q[i] = x
    BY ONLY <1>1, <1>3, ListAll, x \in T, q = SetToSeq(Plain(o, S, b))
  <1>6. x.op = o /\ x.key = k
    BY <1>4
  <1> QED
    BY <1>5, <1>6

\* One agent of the pass: its exit, edit or creation heals it.
LEMMA RedoPasses == ASSUME IInv, PassInv, todo # <<>>, RedoItem PROVE PassInv'
  <1> PICK k : k = item.key
    OBVIOUS
  <1>1. item.op = "redo" /\ item.op \notin {"pass", "prune", "unclosed"}
    BY DEF RedoItem
  <1>2. TypeOK /\ k \in Keys /\ item \in Item /\ (Live(mem[k]) => ~mem[k].closed)
    BY <1>1, ItemKnown, PassKnown DEF Whole, Open
  <1>3. UNCHANGED <<agents, failed, mem, disk>>
    BY DEF RedoItem, Moves
  <1>4. ASSUME NEW x \in Item, x.key = k, Continue(<<x>>), x.op \in PassOps \ {"prune", "refresh"},
               x.op = "exit" => agents[k] = None, Heals(x, k, mem[k], agents[k])
        PROVE  PassInv'
    BY <1>1, <1>2, <1>3, <1>4, PassNext DEF PassOps
  <1>5. CASE Live(mem[k]) /\ agents[k] = None /\ Continue(<<Do("exit", k)>>)
    <2>1. PICK x : x = Do("exit", k)
      OBVIOUS
    <2>2. x \in Item /\ x.op = "exit" /\ x.key = k
      BY <1>2, <2>1, DoItem DEF Ops, ItemOK
    <2> QED
      BY <1>4, <1>5, <2>1, <2>2 DEF PassOps, Heals
  <1>6. CASE Live(mem[k]) /\ agents[k] # None /\ Continue(<<[item EXCEPT !.op = "edit"]>>)
    <2>1. PICK x : x = [item EXCEPT !.op = "edit"]
      OBVIOUS
    <2>2. x \in Item /\ x.op = "edit" /\ x.key = k
      BY <1>2, <2>1 DEF Item, Ops
    <2> QED
      BY <1>4, <1>6, <2>1, <2>2 DEF PassOps, Heals
  <1>7. CASE ~Live(mem[k]) /\ agents[k] # None /\ Continue(<<Do("create", k)>>)
    <2>1. PICK x : x = Do("create", k)
      OBVIOUS
    <2>2. x \in Item /\ x.op = "create" /\ x.key = k
      BY <1>2, <2>1, DoItem DEF Ops, ItemOK
    <2> QED
      BY <1>4, <1>7, <2>1, <2>2 DEF PassOps, Heals
  <1> QED
    BY <1>5, <1>6, <1>7 DEF RedoItem, Moves

\* The finished entries that are still open get their closing.
LEMMA UnclosedPasses == ASSUME IInv, PassInv, todo # <<>>, UnclosedItem PROVE PassInv'
  <1>1. item.op = "unclosed" /\ item.op \notin {"pass", "prune"}
    BY DEF UnclosedItem
  <1>2. PICK S \in SUBSET Keys :
          S = {j \in Keys : mem[j] # None /\ ~Live(mem[j]) /\ ~mem[j].closed /\ ~mem[j].muted}
    OBVIOUS
  <1>3. PICK f : f = SetToSeq(Plain("close", S, FALSE))
    OBVIOUS
  <1>4. Moves(f)
    BY <1>2, <1>3 DEF UnclosedItem, Plain, Do
  <1>5. f \in Seq(Item) /\ \A i \in 1..Len(f) : f[i].op = "close"
    <2>1. Listing(f, "close", S)
      BY <1>3, PlainList DEF Ops
    <2> QED
      BY <2>1 DEF Listing
  <1>6. \A k \in S : \E i \in 1..Len(f) : f[i].op = "close" /\ f[i].key = k
    <2>1. PICK o \in Ops : o = "close"
      BY DEF Ops
    <2>2. PICK b \in BOOLEAN : b = FALSE
      OBVIOUS
    <2>3. f = SetToSeq(Plain(o, S, b))
      BY <1>3, <2>1, <2>2
    <2>4. \A k \in S : \E i \in 1..Len(f) : f[i].op = o /\ f[i].key = k
      BY ONLY <2>3, PlainAll, S \in SUBSET Keys, o \in Ops, b \in BOOLEAN
    <2> QED
      BY <2>1, <2>4
  <1>7. /\ UNCHANGED <<mem, disk, agents, failed>> /\ Continue(f)
    BY <1>4 DEF Moves
  <1>8. PassShape(f, agents) /\ \A i \in 1..Len(f) : f[i].op \notin {"pass", "prune"}
    BY <1>5 DEF PassShape, PassOps
  <1>9. ~(f # <<>> /\ f[1].op = "refresh")
    <2>1. f # <<>> => 1 \in 1..Len(f)
      BY <1>5
    <2> QED
      BY <1>5, <2>1
  <1>10. todo \in Seq(Item) /\ todo[1] = item /\ rest = Tail(todo) /\ rest \in Seq(Item)
    BY PassKnown
  <1>11. ASSUME Passing(todo), ~failed, NEW k \in Keys
         PROVE  Good(mem[k], agents[k]) \/ Due(f \o rest, k, mem[k], agents[k])
    <2>1. Good(mem[k], agents[k]) \/ Due(todo, k, mem[k], agents[k])
      BY <1>11 DEF PassInv
    <2>2. ~Heals(item, k, mem[k], agents[k])
      BY <1>1 DEF Heals
    <2>3. CASE Due(todo, k, mem[k], agents[k]) /\ ~Awaits(item, k, mem[k], agents[k])
      BY <1>5, <1>10, <2>2, <2>3, DueBehind
    <2>4. CASE Awaits(item, k, mem[k], agents[k])
      <3>1. agents[k] = None /\ ~Live(mem[k])
        BY <1>1, <2>4 DEF Awaits
      <3>2. CASE k \notin S
        BY <1>2, <3>1, <3>2 DEF Good
      <3>3. CASE k \in S
        <4>1. PICK i \in 1..Len(f) : Awaits(f[i], k, mem[k], agents[k])
          BY <1>6, <3>1, <3>3 DEF Awaits
        <4>2. PICK q : q = f \o rest
          OBVIOUS
        <4>3. i \in 1..Len(q) /\ q[i] = f[i]
          BY <1>5, <1>10, <4>2, Joined
        <4> QED
          BY <4>1, <4>2, <4>3 DEF Due
      <3> QED
        BY <3>2, <3>3
    <2> QED
      BY <2>1, <2>3, <2>4
  <1>12. Open(mem') /\ disk' \in {disk, mem'}
    BY <1>7 DEF PassInv, Open
  <1> QED
    BY <1>1, <1>5, <1>7, <1>8, <1>9, <1>11, <1>12, PassGoesOn

\* Where the items of two lists are when one is put behind the other.
LEMMA Behind ==
    ASSUME NEW s \in Seq(Item), NEW t \in Seq(Item), NEW q, q = s \o t
    PROVE  /\ q \in Seq(Item) /\ Len(q) = Len(s) + Len(t) /\ Len(s) \in Nat /\ Len(t) \in Nat
           /\ \A i \in 1..Len(s) : i \in 1..Len(q) /\ q[i] = s[i]
           /\ \A i \in 1..Len(t) : Len(s) + i \in 1..Len(q) /\ q[Len(s) + i] = t[i]
           /\ \A i \in 1..Len(q) : \/ i \in 1..Len(s) /\ q[i] = s[i]
                                   \/ \E j \in 1..Len(t) : i = Len(s) + j /\ q[i] = t[j]
  <1>1. /\ q \in Seq(Item) /\ Len(s) \in Nat /\ Len(t) \in Nat /\ Len(q) = Len(s) + Len(t)
        /\ \A i \in 1..Len(s) : i \in 1..Len(q) /\ q[i] = s[i]
        /\ \A i \in 1..Len(q) : \/ i \in 1..Len(s) /\ q[i] = s[i]
                                \/ /\ i > Len(s) /\ i - Len(s) \in 1..Len(t)
                                   /\ q[i] = t[i - Len(s)]
    BY Joined
  <1>2. ASSUME NEW i \in 1..Len(t) PROVE Len(s) + i \in 1..Len(q) /\ q[Len(s) + i] = t[i]
    <2>1. Len(s) + i \in 1..Len(q) /\ ~(Len(s) + i \in 1..Len(s)) /\ (Len(s) + i) - Len(s) = i
      BY <1>1
    <2> QED
      BY <1>1, <2>1
  <1>3. \A i \in 1..Len(q) : i - Len(s) \in 1..Len(t) => i = Len(s) + (i - Len(s))
    BY <1>1
  <1> QED
    BY <1>1, <1>2, <1>3

\* The list f is p, the item u, q and the item x.
Built(f, p, u, q, x) == f = p \o <<u>> \o q \o <<x>>

\* The items of a new pass: agents, the finished entries, agents, the prune.
LEMMA PassList ==
    ASSUME NEW p \in Seq(Item), NEW u \in Item, NEW q \in Seq(Item), NEW x \in Item,
           \A i \in 1..Len(p) : p[i].op = "redo", u.op = "unclosed",
           \A i \in 1..Len(q) : q[i].op = "redo", x.op = "prune",
           NEW f, Built(f, p, u, q, x)
    PROVE  /\ f \in Seq(Item) /\ f # <<>> /\ f[Len(f)] = x
           /\ \A i \in 1..Len(f) : /\ f[i].op \in {"redo", "unclosed", "prune"}
                                   /\ f[i].op = "prune" => i = Len(f)
           /\ \A i \in 1..Len(p) : \E j \in 1..Len(f) : f[j] = p[i]
           /\ \A i \in 1..Len(q) : \E j \in 1..Len(f) : f[j] = q[i]
           /\ \E j \in 1..Len(f) : f[j] = u
  <1>1. PICK s : s = p \o <<u>>
    OBVIOUS
  <1>2. PICK t : t = s \o q
    OBVIOUS
  <1>3. <<u>> \in Seq(Item) /\ Len(<<u>>) = 1 /\ <<x>> \in Seq(Item) /\ Len(<<x>>) = 1
    OBVIOUS
  <1>4. /\ s \in Seq(Item) /\ Len(s) \in Nat
        /\ \A i \in 1..Len(p) : \E j \in 1..Len(s) : s[j] = p[i]
        /\ \E j \in 1..Len(s) : s[j] = u
        /\ \A i \in 1..Len(s) : s[i].op \in {"redo", "unclosed"}
    <2>1. /\ s \in Seq(Item) /\ Len(s) = Len(p) + 1 /\ Len(p) \in Nat
          /\ \A i \in 1..Len(p) : i \in 1..Len(s) /\ s[i] = p[i]
          /\ \A i \in 1..1 : Len(p) + i \in 1..Len(s) /\ s[Len(p) + i] = <<u>>[i]
          /\ \A i \in 1..Len(s) : \/ i \in 1..Len(p) /\ s[i] = p[i]
                                  \/ \E j \in 1..1 : s[i] = <<u>>[j]
      BY ONLY <1>1, <1>3, Behind, p \in Seq(Item)
    <2>2. 1 \in 1..1 /\ <<u>>[1] = u /\ \A i \in 1..1 : <<u>>[i] = u
      OBVIOUS
    <2>3. \A i \in 1..Len(s) : s[i].op \in {"redo", "unclosed"}
      BY <2>1, <2>2
    <2>4. Len(p) + 1 \in 1..Len(s) /\ s[Len(p) + 1] = u
      BY <2>1, <2>2
    <2>5. Len(s) \in Nat
      BY <2>1
    <2> QED
      BY ONLY <2>1, <2>3, <2>4, <2>5
  <1>5. /\ t \in Seq(Item) /\ Len(t) \in Nat
        /\ \A i \in 1..Len(s) : \E j \in 1..Len(t) : t[j] = s[i]
        /\ \A i \in 1..Len(q) : \E j \in 1..Len(t) : t[j] = q[i]
        /\ \A i \in 1..Len(t) : t[i].op \in {"redo", "unclosed"}
    <2>1. /\ t \in Seq(Item) /\ Len(t) = Len(s) + Len(q) /\ Len(q) \in Nat
          /\ \A i \in 1..Len(s) : i \in 1..Len(t) /\ t[i] = s[i]
          /\ \A i \in 1..Len(q) : Len(s) + i \in 1..Len(t) /\ t[Len(s) + i] = q[i]
          /\ \A i \in 1..Len(t) : \/ i \in 1..Len(s) /\ t[i] = s[i]
                                  \/ \E j \in 1..Len(q) : t[i] = q[j]
      BY ONLY <1>2, <1>4, Behind, q \in Seq(Item)
    <2>2. ASSUME NEW i \in 1..Len(t) PROVE t[i].op \in {"redo", "unclosed"}
      <3>1. CASE i \in 1..Len(s) /\ t[i] = s[i]
        BY ONLY <1>4, <3>1
      <3>2. CASE \E j \in 1..Len(q) : t[i] = q[j]
        BY <3>2
      <3> QED
        BY ONLY <2>1, <3>1, <3>2, i \in 1..Len(t)
    <2>3. Len(t) \in Nat
      BY <1>4, <2>1
    <2> QED
      BY ONLY <2>1, <2>2, <2>3
  <1>6. /\ f \in Seq(Item) /\ Len(f) = Len(t) + 1
        /\ \A i \in 1..Len(t) : i \in 1..Len(f) /\ f[i] = t[i]
        /\ \A i \in 1..1 : Len(t) + i \in 1..Len(f) /\ f[Len(t) + i] = <<x>>[i]
        /\ \A i \in 1..Len(f) : \/ i \in 1..Len(t) /\ f[i] = t[i]
                                \/ \E j \in 1..1 : i = Len(t) + j /\ f[i] = <<x>>[j]
    <2>1. f = t \o <<x>>
      BY <1>1, <1>2 DEF Built
    <2>2. t \in Seq(Item)
      BY <1>5
    <2> QED
      BY ONLY <1>3, <2>1, <2>2, Behind
  <1>7. 1 \in 1..1 /\ <<x>>[1] = x /\ \A i \in 1..1 : i = 1 /\ <<x>>[i] = x
    OBVIOUS
  <1>8. f # <<>> /\ f[Len(f)] = x
    BY <1>5, <1>6, <1>7
  <1>9. ASSUME NEW i \in 1..Len(f)
        PROVE  /\ f[i].op \in {"redo", "unclosed", "prune"}
               /\ f[i].op = "prune" => i = Len(f)
    <2>1. CASE i \in 1..Len(t) /\ f[i] = t[i]
      BY <1>5, <2>1
    <2>2. CASE i = Len(t) + 1 /\ f[i] = x
      BY <1>6, <2>2
    <2> QED
      BY <1>6, <1>7, <2>1, <2>2
  <1>10. ASSUME NEW y, \E i \in 1..Len(t) : t[i] = y PROVE \E i \in 1..Len(f) : f[i] = y
    BY <1>6, <1>10
  <1>11. ASSUME NEW i \in 1..Len(p) PROVE \E j \in 1..Len(f) : f[j] = p[i]
    <2>1. PICK j \in 1..Len(s) : s[j] = p[i]
      BY ONLY <1>4, i \in 1..Len(p)
    <2>2. PICK l \in 1..Len(t) : t[l] = s[j]
      BY ONLY <1>5, j \in 1..Len(s)
    <2> QED
      BY <1>10, <2>1, <2>2
  <1>12. \A i \in 1..Len(q) : \E j \in 1..Len(f) : f[j] = q[i]
    BY ONLY <1>5, <1>10
  <1>13. \E j \in 1..Len(f) : f[j] = u
    BY ONLY <1>4, <1>5, <1>10
  <1> QED
    BY <1>6, <1>8, <1>9, <1>11, <1>12, <1>13

\* The items f of a new pass: one for every orphan and every agent that runs, one for
\* the finished entries, and the prune at the end.
PassItems(f) ==
    /\ f \in Seq(Item) /\ f # <<>> /\ f[Len(f)].op = "prune"
    /\ \A i \in 1..Len(f) : f[i].op \in {"redo", "unclosed", "prune"} /\ (f[i].op = "prune" => i = Len(f))
    /\ \E i \in 1..Len(f) : f[i].op = "unclosed"
    /\ \A k \in Keys : reg[k] # None \/ (Live(mem[k]) /\ ~mem[k].muted) =>
         \E i \in 1..Len(f) : f[i].op = "redo" /\ f[i].key = k

\* Reconcile makes them.
LEMMA PassMakes ==
    ASSUME IInv, todo # <<>>, PassItem, ~Held
    PROVE  \E f \in Seq(Item) : PassItems(f) /\ Continue(f) /\ agents' = reg
  <1>1. PICK O \in SUBSET Keys : O = {k \in Keys : Live(mem[k]) /\ ~mem[k].muted /\ reg[k] = None}
    OBVIOUS
  <1>2. PICK R \in SUBSET Keys : R = {k \in Keys : reg[k] # None}
    OBVIOUS
  <1>3. PICK b \in BOOLEAN : b = item.force
    BY ItemKnown
  <1>4. PICK p : p = SetToSeq(Plain("redo", O, b))
    OBVIOUS
  <1>5. PICK q : q = SetToSeq(Plain("redo", R, b))
    OBVIOUS
  <1>6. "redo" \in Ops
    BY DEF Ops
  <1>7. /\ p \in Seq(Item) /\ \A i \in 1..Len(p) : p[i].op = "redo"
        /\ \A k \in O : \E i \in 1..Len(p) : p[i].op = "redo" /\ p[i].key = k
    <2>1. Listing(p, "redo", O)
      BY <1>4, <1>6, PlainList
    <2>2. \A k \in O : \E i \in 1..Len(p) : p[i].op = "redo" /\ p[i].key = k
      BY ONLY <1>4, <1>6, PlainAll, O \in SUBSET Keys, b \in BOOLEAN
    <2> QED
      BY <2>1, <2>2 DEF Listing
  <1>8. /\ q \in Seq(Item) /\ \A i \in 1..Len(q) : q[i].op = "redo"
        /\ \A k \in R : \E i \in 1..Len(q) : q[i].op = "redo" /\ q[i].key = k
    <2>1. Listing(q, "redo", R)
      BY <1>5, <1>6, PlainList
    <2>2. \A k \in R : \E i \in 1..Len(q) : q[i].op = "redo" /\ q[i].key = k
      BY ONLY <1>5, <1>6, PlainAll, R \in SUBSET Keys, b \in BOOLEAN
    <2> QED
      BY <2>1, <2>2 DEF Listing
  <1>9. PICK u : u = Do("unclosed", None)
    OBVIOUS
  <1>10. PICK x : x = Do("prune", None)
    OBVIOUS
  <1>11. u \in Item /\ u.op = "unclosed" /\ x \in Item /\ x.op = "prune"
    BY <1>9, <1>10, WholeOK DEF Whole, ItemOK
  <1>12. PICK f : f = p \o <<u>> \o q \o <<x>>
    OBVIOUS
  <1>13. /\ f \in Seq(Item) /\ f # <<>> /\ f[Len(f)] = x
         /\ \A i \in 1..Len(f) : /\ f[i].op \in {"redo", "unclosed", "prune"}
                                 /\ f[i].op = "prune" => i = Len(f)
         /\ \A i \in 1..Len(p) : \E j \in 1..Len(f) : f[j] = p[i]
         /\ \A i \in 1..Len(q) : \E j \in 1..Len(f) : f[j] = q[i]
         /\ \E j \in 1..Len(f) : f[j] = u
    <2>1. p \in Seq(Item) /\ \A i \in 1..Len(p) : p[i].op = "redo"
      BY <1>7
    <2>2. q \in Seq(Item) /\ \A i \in 1..Len(q) : q[i].op = "redo"
      BY <1>8
    <2>3. Built(f, p, u, q, x)
      BY <1>12 DEF Built
    <2> QED
      BY ONLY <1>11, <2>1, <2>2, <2>3, PassList
  <1>14. /\ p = SetToSeq({[Do("redo", k) EXCEPT !.force = item.force] : k \in O})
         /\ q = SetToSeq({[Do("redo", k) EXCEPT !.force = item.force] : k \in R})
    <2>1. Plain("redo", O, b) = {[Do("redo", k) EXCEPT !.force = item.force] : k \in O}
      BY <1>3, RedoPlain
    <2>2. Plain("redo", R, b) = {[Do("redo", k) EXCEPT !.force = item.force] : k \in R}
      BY <1>3, RedoPlain
    <2> QED
      BY <1>4, <1>5, <2>1, <2>2
  <1>15. Continue(f) /\ agents' = reg
    BY <1>1, <1>2, <1>9, <1>10, <1>12, <1>14 DEF PassItem
  <1>16. ASSUME NEW k \in Keys, reg[k] # None \/ (Live(mem[k]) /\ ~mem[k].muted)
         PROVE  \E i \in 1..Len(f) : f[i].op = "redo" /\ f[i].key = k
    <2>1. CASE k \in R
      BY <1>8, <1>13, <2>1
    <2>2. CASE k \in O
      BY <1>7, <1>13, <2>2
    <2> QED
      BY <1>1, <1>2, <1>16, <2>1, <2>2
  <1>17. PassItems(f)
    BY <1>11, <1>13, <1>16 DEF PassItems
  <1> QED
    BY <1>13, <1>15, <1>17

\* A pass that begins has an item for every agent that needs one.
LEMMA PassBegins == ASSUME IInv, PassInv, todo # <<>>, PassItem PROVE PassInv'
  <1>1. item.op = "pass"
    BY DEF PassItem
  <1>3. todo \in Seq(Item) /\ todo[1] = item /\ rest = Tail(todo) /\ Open(mem) /\ Open(disk)
    BY PassKnown DEF PassInv
  <1>4. rest = <<>>
    <2>1. 1 \in 1..Len(todo)
      BY <1>3
    <2>2. Len(todo) = 1
      BY <1>1, <1>3, <2>1 DEF PassInv
    <2> QED
      BY <1>3, <2>2
  <1>5. UNCHANGED <<mem, disk>>
    BY DEF PassItem, Held
  <1>6. Open(mem') /\ Open(disk')
    BY <1>3, <1>5
  <1>7. CASE Held
    <2>1. todo' = <<>> /\ Len(<<>>) = 0
      BY <1>4, <1>7 DEF Held, Continue
    <2> QED
      BY <1>6, <2>1 DEF PassInv, Passing
  <1>8. CASE ~Held
    <2>1. PICK f \in Seq(Item) : PassItems(f) /\ Continue(f) /\ agents' = reg
      BY <1>8, PassMakes
    <2>2. todo' = f
      BY <1>4, <2>1 DEF Continue
    <2>3. ASSUME NEW k \in Keys PROVE Good(mem[k], reg[k]) \/ Due(f, k, mem[k], reg[k])
      <3>1. CASE reg[k] # None \/ (Live(mem[k]) /\ ~mem[k].muted)
        BY <2>1, <3>1 DEF PassItems, Due, Awaits
      <3>2. CASE reg[k] = None /\ ~Live(mem[k])
        BY <2>1, <3>2 DEF PassItems, Due, Awaits
      <3>3. CASE Live(mem[k]) /\ mem[k].muted
        BY <3>3 DEF Good, Live
      <3> QED
        BY <3>1, <3>2, <3>3
    <2>4. PassShape(f, reg)
      BY <2>1 DEF PassItems, PassShape, PassOps
    <2>5. /\ f # <<>> /\ f[Len(f)].op = "prune" /\ f[1].op # "refresh"
          /\ \A i \in 1..Len(f) : f[i].op \in {"pass", "prune"} => i = Len(f)
      <3>1. 1 \in 1..Len(f)
        BY <2>1 DEF PassItems
      <3> QED
        BY <2>1, <3>1 DEF PassItems
    <2> QED
      BY <1>5, <1>6, <2>1, <2>2, <2>3, <2>4, <2>5 DEF PassInv
  <1> QED
    BY <1>7, <1>8

\* A handler that is not a pass.
LEMMA NoPass ==
    ASSUME Open(mem'), Open(disk'), todo' \in Seq(Item),
           \A i \in 1..Len(todo') : /\ todo'[i].op # "prune"
                                    /\ todo'[i].op = "pass" => i = Len(todo'),
           todo' # <<>> => todo'[1].op # "refresh"
    PROVE  PassInv'
  <1>1. ~Passing(todo')
    BY DEF Passing
  <1> QED
    BY <1>1 DEF PassInv

\* The end of a pass: nothing is left.
LEMMA PrunePasses == ASSUME IInv, PassInv, todo # <<>>, PruneItem PROVE PassInv'
  <1>1. item.op = "prune"
    BY DEF PruneItem
  <1>2. todo \in Seq(Item) /\ todo[1] = item /\ rest = Tail(todo) /\ Open(mem) /\ Open(disk)
    BY PassKnown DEF PassInv
  <1>3. rest = <<>>
    <2>1. 1 \in 1..Len(todo)
      BY <1>2
    <2>2. Len(todo) = 1
      BY <1>1, <1>2, <2>1 DEF PassInv
    <2> QED
      BY <1>2, <2>2
  <1>4. todo' = <<>>
    BY <1>3 DEF PruneItem, Moves, Continue
  <1>5. disk' \in {disk, mem'} /\ \A k \in Keys : mem'[k] \in {mem[k], None}
    BY DEF PruneItem, Moves, Save
  <1>6. Open(mem') /\ Open(disk')
    BY <1>2, <1>5 DEF Open, Live
  <1>7. todo' \in Seq(Item) /\ Len(todo') = 0
    BY <1>4
  <1> QED
    BY <1>4, <1>6, <1>7, NoPass

\* An item no pass holds, with what it puts in front of the rest.
LEMMA OtherItem ==
    ASSUME IInv, PassInv, todo # <<>>, item.op \notin PassOps \cup {"pass"},
           NEW f \in Seq(Item), Continue(f), UNCHANGED <<mem, disk>>,
           \A i \in 1..Len(f) : f[i].op \notin {"pass", "prune", "refresh"}
    PROVE  PassInv'
  <1>1. ~Passing(todo)
    BY PassKnown
  <1>2. item.op \notin {"pass", "prune"}
    BY DEF PassOps
  <1>3. Open(mem')
    BY DEF PassInv, Open
  <1>4. f # <<>> => f[1].op # "refresh"
    <2>1. f # <<>> => 1 \in 1..Len(f)
      OBVIOUS
    <2> QED
      BY <2>1
  <1>5. disk' \in {disk, mem'}
    OBVIOUS
  <1> QED
    BY <1>1, <1>2, <1>3, <1>4, <1>5, PassGoesOn

\* One item alone, or none, as a list.
LEMMA Singly ==
    ASSUME NEW x \in Item
    PROVE  /\ <<x>> \in Seq(Item) /\ \A i \in 1..Len(<<x>>) : <<x>>[i] = x
           /\ <<>> \in Seq(Item) /\ ~\E i \in 1..Len(<<>>) : TRUE
  OBVIOUS

\* What an event starts is no part of a pass.
LEMMA HandlePasses == ASSUME IInv, PassInv, todo # <<>>, HandleEvent PROVE PassInv'
  <1> PICK k : k = item.key
    OBVIOUS
  <1>1. item.op \in {"appeared", "changed", "gone"} /\ item.op \notin PassOps \cup {"pass"}
    BY DEF HandleEvent, PassOps
  <1>2. k \in Keys /\ UNCHANGED <<mem, disk>>
    BY <1>1, ItemKnown DEF Whole, HandleEvent
  <1>3. ASSUME NEW o \in {"exit", "create", "edit"}, Continue(<<Do(o, k)>>) PROVE PassInv'
    <2>1. PICK x : x = Do(o, k)
      OBVIOUS
    <2>2. x \in Item /\ x.op = o
      <3>1. o \in Ops \ {"appeared", "changed"}
        BY DEF Ops
      <3> QED
        BY <1>2, <2>1, <3>1, DoItem DEF ItemOK
    <2>3. PICK f : f = <<x>>
      OBVIOUS
    <2>4. f \in Seq(Item) /\ \A i \in 1..Len(f) : f[i] = x
      BY <2>2, <2>3, Singly
    <2>5. \A i \in 1..Len(f) : f[i].op \notin {"pass", "prune", "refresh"}
      BY <2>2, <2>4
    <2> QED
      BY <1>1, <1>2, <1>3, <2>1, <2>3, <2>4, <2>5, OtherItem
  <1>4. CASE Continue(<<>>)
    <2>1. PICK f : f = <<>>
      OBVIOUS
    <2>2. f \in Seq(Item) /\ ~\E i \in 1..Len(f) : TRUE
      BY <2>1
    <2> QED
      BY <1>1, <1>2, <1>4, <2>1, <2>2, OtherItem
  <1> QED
    BY <1>3, <1>4 DEF HandleEvent

\* The edits of a flush.
LEMMA FlushPasses == ASSUME IInv, PassInv, todo # <<>>, FlushItem PROVE PassInv'
  <1>1. item.op = "flush" /\ item.op \notin PassOps \cup {"pass"} /\ UNCHANGED <<mem, disk>>
    BY DEF FlushItem, PassOps
  <1>2. timers \in SUBSET Keys
    BY DEF IInv, TypeOK
  <1>3. PICK f : f = SetToSeq(Plain("edit", timers, FALSE))
    OBVIOUS
  <1>4. Continue(f)
    BY <1>3 DEF FlushItem, Plain, Do
  <1>5. f \in Seq(Item) /\ \A i \in 1..Len(f) : f[i].op = "edit"
    <2>1. Listing(f, "edit", timers)
      BY <1>2, <1>3, PlainList DEF Ops
    <2> QED
      BY <2>1 DEF Listing
  <1>6. \A i \in 1..Len(f) : f[i].op \notin {"pass", "prune", "refresh"}
    BY <1>5
  <1> QED
    BY <1>1, <1>4, <1>5, <1>6, OtherItem

\* The registry's answer.
LEMMA SnapPasses == ASSUME IInv, PassInv, todo # <<>>, SnapItem PROVE PassInv'
  <1>1. item.op \in {"snap", "learn"} /\ item.op \notin PassOps \cup {"pass"}
    BY DEF SnapItem, PassOps
  <1>2. listed["loop"] \in [Keys -> Look \cup {None}]
    BY <1>1, ItemKnown
  <1>3. PICK new : new = listed["loop"]
    OBVIOUS
  <1>4. PICK f : f = IF item.op = "snap" THEN Diff(reg, new) ELSE <<>>
    OBVIOUS
  <1>5. Continue(f) /\ UNCHANGED <<mem, disk>>
    BY <1>3, <1>4 DEF SnapItem, Moves
  <1>6. Reported(f)
    <2>1. Reported(Diff(reg, new))
      BY <1>2, <1>3, DiffList
    <2>2. Reported(<<>>)
      BY DEF Reported
    <2> QED
      BY <1>4, <2>1, <2>2
  <1>7. f \in Seq(Item) /\ \A i \in 1..Len(f) : f[i].op \notin {"pass", "prune", "refresh"}
    BY <1>6 DEF Reported, Reports
  <1> QED
    BY <1>1, <1>5, <1>7, OtherItem

\* The end of an agent whose topic was reopened by hand.
LEMMA FinishPasses == ASSUME IInv, PassInv, todo # <<>>, FinishItem PROVE PassInv'
  <1> PICK k : k = item.key
    OBVIOUS
  <1>1. item.op = "finish" /\ item.op \notin {"pass", "prune", "unclosed"} /\ ~Passing(todo)
    BY PassKnown DEF FinishItem, PassOps
  <1>2. TypeOK /\ Mapped /\ k \in Keys
    BY <1>1, ItemKnown DEF Whole
  <1>3. CASE Held
    BY <1>1, <1>3, PassHeld
  <1>4. CASE /\ mem[k] # None
             /\ Calls(k, [tg[mem[k].thread] EXCEPT !.status = "exited"],
                      [mem[k] EXCEPT !.status = "exited"], <<Do("close", k)>>)
    <2>1. PICK x : x = Do("close", k)
      OBVIOUS
    <2>2. x \in Item /\ x.op = "close" /\ x.key = k
      BY <1>2, <2>1, DoItem DEF Ops, ItemOK
    <2>3. PICK e : e = [mem[k] EXCEPT !.status = "exited"]
      OBVIOUS
    <2>4. ~Live(e)
      BY <1>2, <1>4, <2>3, TopicKnown DEF Entry, Live
    <2>5. PICK after : Calls(k, after, e, <<x>>)
      BY <1>4, <2>1, <2>3
    <2> QED
      BY <1>1, <1>2, <2>2, <2>4, <2>5, PassCallNext
  <1> QED
    BY <1>3, <1>4 DEF FinishItem

\* A deletion of the sweep.
LEMMA DeletePasses == ASSUME IInv, PassInv, todo # <<>>, DeleteItem PROVE PassInv'
  <1> PICK k : k = item.key
    OBVIOUS
  <1>1. item.op = "delete" /\ item.op \notin {"pass", "prune", "unclosed"} /\ ~Passing(todo)
    BY PassKnown DEF DeleteItem, PassOps
  <1>2. k \in Keys
    BY <1>1, ItemKnown DEF Whole
  <1>3. PICK e : e = None
    OBVIOUS
  <1>4. ~Live(e)
    BY <1>3 DEF Live
  <1>5. PICK after : Calls(k, after, e, <<>>)
    BY <1>3 DEF DeleteItem
  <1> QED
    BY <1>1, <1>2, <1>4, <1>5, PassCallDone

\* The list is asked for, or it and the item behind are skipped.
LEMMA ListPasses == ASSUME IInv, PassInv, todo # <<>>, ListItem PROVE PassInv'
  <1>1. item.op = "list" /\ item.op \notin PassOps \cup {"pass"} /\ UNCHANGED <<mem, disk>>
    BY DEF ListItem, Moves, PassOps
  <1>2. CASE Moves(<<>>)
    <2>1. PICK f : f = <<>>
      OBVIOUS
    <2>2. f \in Seq(Item) /\ ~\E i \in 1..Len(f) : TRUE
      BY <2>1
    <2>3. Continue(f)
      BY <1>2, <2>1 DEF Moves
    <2> QED
      BY <1>1, <2>2, <2>3, OtherItem
  <1>3. CASE todo' = Tail(rest)
    <2>1. PICK s : s = todo
      OBVIOUS
    <2>2. s \in Seq(Item) /\ s # <<>> /\ s[1] = item /\ rest = Tail(s) /\ Shape(s) /\ ~Passing(s)
      BY <1>1, <2>1, PassKnown DEF IInv, Handler
    <2>3. Len(s) \in Nat /\ Len(s) >= 2 /\ \A i \in 2..Len(s) : s[i].op # "refresh"
      BY <1>1, <2>2 DEF Shape, FirstOnly
    <2>4. PICK q : q = Tail(Tail(s))
      OBVIOUS
    <2>5. /\ q \in Seq(Item) /\ Len(q) = Len(s) - 2
          /\ \A i \in 1..Len(q) : i + 2 \in 2..Len(s) /\ q[i] = s[i + 2]
      <3>1. PICK r : r = Tail(s)
        OBVIOUS
      <3>2. /\ r \in Seq(Item) /\ Len(r) = Len(s) - 1
            /\ \A i \in 1..Len(r) : i + 1 \in 1..Len(s) /\ r[i] = s[i + 1]
        BY <2>2, <2>3, <3>1
      <3>3. q = Tail(r) /\ r # <<>>
        BY <2>3, <2>4, <3>1, <3>2
      <3>4. /\ q \in Seq(Item) /\ Len(q) = Len(r) - 1
            /\ \A i \in 1..Len(q) : i + 1 \in 1..Len(r) /\ q[i] = r[i + 1]
        BY ONLY <3>2, <3>3
      <3>5. ASSUME NEW i \in 1..Len(q) PROVE i + 2 \in 2..Len(s) /\ q[i] = s[i + 2]
        <4>1. i + 1 \in 1..Len(r) /\ q[i] = r[i + 1]
          BY <3>4
        <4>2. (i + 1) + 1 \in 1..Len(s) /\ r[i + 1] = s[(i + 1) + 1] /\ (i + 1) + 1 = i + 2
          BY <3>2, <3>4, <4>1
        <4> QED
          BY <2>3, <3>4, <4>1, <4>2
      <3> QED
        BY <2>3, <3>2, <3>4, <3>5
    <2>6. \A i \in 1..Len(s) : s[i].op \in {"pass", "prune"} => i = Len(s)
      BY <2>1 DEF PassInv
    <2>7. s[Len(s)].op # "prune"
      BY <2>2 DEF Passing
    <2>8. ASSUME NEW i \in 1..Len(q)
          PROVE  q[i].op # "prune" /\ (q[i].op = "pass" => i = Len(q))
      <3>1. i + 2 \in 1..Len(s) /\ q[i] = s[i + 2]
        BY <2>5
      <3> QED
        BY <2>3, <2>5, <2>6, <2>7, <3>1
    <2>9. q # <<>> => q[1].op # "refresh"
      <3>1. q # <<>> => 1 \in 1..Len(q)
        BY <2>5
      <3> QED
        BY <2>3, <2>5, <3>1
    <2>10. todo' = q
      BY <1>3, <2>2, <2>4
    <2>11. Open(mem') /\ Open(disk')
      BY <1>1 DEF PassInv
    <2> QED
      BY <2>5, <2>8, <2>9, <2>10, <2>11, NoPass
  <1> QED
    BY <1>2, <1>3 DEF ListItem

\* Every step of the handler keeps the pass on its way.
LEMMA StepPasses == ASSUME IInv, IInv', PassInv, Step PROVE PassInv'
  <1>1. todo # <<>>
    BY DEF Step
  <1>2. CASE HandleEvent \/ CreateItem \/ RefreshItem \/ EditItem \/ ExitItem \/ CloseItem
    BY <1>1, <1>2, HandlePasses, CreatePasses, RefreshPasses, EditPasses, ExitPasses, ClosePasses
  <1>3. CASE FinishItem \/ DeleteItem \/ FlushItem \/ PassItem \/ RedoItem \/ UnclosedItem
    BY <1>1, <1>3, FinishPasses, DeletePasses, FlushPasses, PassBegins, RedoPasses, UnclosedPasses
  <1>4. CASE MakeItem \/ PruneItem \/ ListItem \/ SnapItem
    BY <1>1, <1>4, MakePasses, PrunePasses, ListPasses, SnapPasses
  <1> QED
    BY <1>2, <1>3, <1>4 DEF Step

\* What leaves the mapping, the agents and the handler leaves the pass.
LEMMA SamePass == ASSUME PassInv, UNCHANGED <<mem, disk, agents, todo, failed>> PROVE PassInv'
  BY DEF PassInv

\* A handler that was taken up, or that ended, while the mapping stays.
LEMMA OtherHandler ==
    ASSUME PassInv, IInv', mem' \in {mem, disk}, disk' = disk, NEW s, todo' = s,
           \A i \in 1..Len(s) : /\ s[i].op \notin {"prune", "refresh"}
                                /\ s[i].op = "pass" => i = Len(s)
    PROVE  PassInv'
  <1>1. Open(mem') /\ Open(disk') /\ todo' \in Seq(Item)
    BY DEF PassInv, IInv, TypeOK
  <1>2. todo' # <<>> => 1 \in 1..Len(todo')
    BY <1>1
  <1> QED
    BY <1>1, <1>2, NoPass

\* Actions of the registry, the world and the daemon's life that touch no entry.
LEMMA ApartPasses ==
    ASSUME PassInv,
           \/ List \/ Apply \/ NewsUnknown \/ Started \/ Stopped \/ Desk \/ Option \/ Resync
           \/ \E k \in Keys : StatusEvent(k) \/ TimerFires(k) \/ HerdrChanges(k)
           \/ \E t \in 1..Len(tg) : ByHand(t)
           \/ UNCHANGED vars
    PROVE  PassInv'
  <1>1. CASE List \/ Apply \/ NewsUnknown \/ Started \/ Stopped
    BY <1>1, SamePass DEF List, Apply, NewsUnknown, Started, Stopped, mirror
  <1>2. CASE Desk \/ Option \/ Resync
    BY <1>2, SamePass DEF Desk, Option, Resync, mirror
  <1>3. CASE \E k \in Keys : StatusEvent(k) \/ TimerFires(k) \/ HerdrChanges(k)
    BY <1>3, SamePass DEF StatusEvent, TimerFires, HerdrChanges, mirror
  <1>4. CASE \E t \in 1..Len(tg) : ByHand(t)
    BY <1>4, SamePass DEF ByHand, mirror
  <1>5. CASE UNCHANGED vars
    BY <1>5, SamePass DEF vars
  <1> QED
    BY <1>1, <1>2, <1>3, <1>4, <1>5

\* The loop takes up events, timers, signals and sweeps only between handlers.
LEMMA TakingPasses ==
    ASSUME IInv, IInv', PassInv,
           \/ TakeEvent \/ RightsChanged \/ Sweep \/ Shutdown \/ Crash \/ Boot
           \/ \E k \in Keys : Fire(k)
           \/ \E s \in {"catchup", "resync"} : TakeSignal(s)
    PROVE  PassInv'
  <1>1. CASE TakeEvent
    <2>1. PICK x : x = Head(events)
      OBVIOUS
    <2>2. x.op \in Reports
      <3>1. events \in Seq(Item) /\ events # <<>> /\ 1 \in 1..Len(events) /\ x = events[1]
        BY <1>1, <2>1 DEF TakeEvent, IInv, TypeOK
      <3> QED
        BY <3>1 DEF IInv, Waiting
    <2>3. \A i \in 1..Len(<<x>>) : <<x>>[i] = x
      OBVIOUS
    <2>4. todo' = <<x>> /\ mem' = mem /\ disk' = disk
      BY <1>1, <2>1 DEF TakeEvent, mirror
    <2> QED
      BY <2>2, <2>3, <2>4, OtherHandler DEF Reports
  <1>2. ASSUME NEW o \in {"edit", "flush"}, NEW k, todo' = <<Do(o, k)>>, mem' = mem, disk' = disk
        PROVE  PassInv'
    <2>1. PICK x : x = Do(o, k)
      OBVIOUS
    <2>2. x.op = o
      BY <2>1 DEF Do
    <2>3. \A i \in 1..Len(<<x>>) : <<x>>[i] = x
      OBVIOUS
    <2> QED
      BY <1>2, <2>1, <2>2, <2>3, OtherHandler
  <1>3. CASE \E k \in Keys : Fire(k)
    BY <1>2, <1>3 DEF Fire, mirror
  <1>4. CASE Shutdown
    BY <1>2, <1>4 DEF Shutdown, mirror
  <1>5. CASE Crash
    <2>1. todo' = <<>> /\ mem' = mem /\ disk' = disk /\ Len(<<>>) = 0
      BY <1>5 DEF Crash, mirror
    <2> QED
      BY <2>1, OtherHandler
  <1>6. ASSUME mem' \in {mem, disk}, disk' = disk,
               (\E b \in BOOLEAN : todo' = Replay(b))
                 \/ todo' = <<Do("list", None), Do("learn", None), Do("pass", None)>>
        PROVE  PassInv'
    <2>1. \A i \in 1..Len(todo') : /\ todo'[i].op \notin {"prune", "refresh"}
                                   /\ todo'[i].op = "pass" => i = Len(todo')
      <3>1. CASE todo' = <<Do("list", None), Do("learn", None), Do("pass", None)>>
        BY <3>1 DEF Do
      <3>2. ASSUME NEW b \in BOOLEAN, todo' = Replay(b)
            PROVE  \A i \in 1..Len(todo') : /\ todo'[i].op \notin {"prune", "refresh"}
                                            /\ todo'[i].op = "pass" => i = Len(todo')
        BY <3>2 DEF Replay, Do
      <3> QED
        BY <1>6, <3>1, <3>2
    <2> QED
      BY <1>6, <2>1, OtherHandler
  <1>7. CASE RightsChanged
    <2>1. UNCHANGED <<mem, disk, agents, failed>> /\ (UNCHANGED todo \/ todo' = Replay(FALSE))
      BY <1>7 DEF RightsChanged, mirror
    <2> QED
      BY <1>6, <2>1, SamePass
  <1>8. CASE \E s \in {"catchup", "resync"} : TakeSignal(s)
    BY <1>6, <1>8 DEF TakeSignal, mirror
  <1>9. CASE Boot
    BY <1>6, <1>9 DEF Boot
  <1>10. CASE Sweep
    <2>1. PICK old \in SUBSET {k \in Keys : mem[k] # None /\ ~Live(mem[k]) /\ mem[k].closed} :
            todo' = SetToSeq({Do("delete", k) : k \in old})
      BY <1>10 DEF Sweep
    <2>2. PICK s : s = SetToSeq(Plain("delete", old, FALSE))
      OBVIOUS
    <2>3. Listing(s, "delete", old)
      BY <2>2, PlainList DEF Ops
    <2>4. todo' = s /\ mem' = mem /\ disk' = disk
      BY <1>10, <2>1, <2>2 DEF Sweep, Plain, Do, mirror
    <2>5. \A i \in 1..Len(s) : s[i].op = "delete"
      BY <2>3 DEF Listing
    <2> QED
      BY <2>4, <2>5, OtherHandler
  <1> QED
    BY <1>1, <1>3, <1>4, <1>5, <1>7, <1>8, <1>9, <1>10

\* What operators did is noted between handlers and closes no live entry.
LEMMA NewsPasses ==
    ASSUME IInv, IInv', PassInv, NEW k \in Keys,
           OnTopicClosed(k) \/ OnTopicReopened(k) \/ OnTopicRenamed(k)
    PROVE  PassInv'
  <1>1. TypeOK /\ mem \in [Keys -> Entry \cup {None}] /\ todo' \in Seq(Item)
    BY DEF IInv, TypeOK
  <1>2. Open(mem) /\ Open(disk) /\ (Live(mem[k]) => ~mem[k].closed) /\ (mem[k] # None => mem[k] \in Entry)
    BY <1>1 DEF PassInv, Open
  <1>3. ASSUME NEW e, mem' = [mem EXCEPT ![k] = e], Live(e) => ~e.closed, disk' \in {disk, mem'}
        PROVE  Open(mem') /\ Open(disk')
    BY <1>1, <1>2, <1>3 DEF Open
  <1>4. CASE OnTopicClosed(k)
    <2>1. mem[k] # None /\ todo' = <<>> /\ Save
      BY <1>4 DEF OnTopicClosed, Linked, Idle
    <2>2. PICK e : e = IF Live(mem[k]) THEN [mem[k] EXCEPT !.muted = TRUE]
                       ELSE [mem[k] EXCEPT !.closed = TRUE]
      OBVIOUS
    <2>3. mem' = [mem EXCEPT ![k] = e]
      BY <1>4, <2>2 DEF OnTopicClosed
    <2>4. Live(e) => ~e.closed
      BY <1>2, <2>1, <2>2 DEF Entry, Live
    <2>5. Open(mem') /\ Open(disk') /\ Len(todo') = 0
      BY <1>3, <2>1, <2>3, <2>4 DEF Save
    <2> QED
      BY <1>1, <2>1, <2>5, NoPass
  <1>5. CASE OnTopicReopened(k)
    <2>1. PICK e : e = [mem[k] EXCEPT !.muted = FALSE, !.closed = FALSE]
      OBVIOUS
    <2>2. mem' = [mem EXCEPT ![k] = e] /\ Save /\ mem[k] # None
      BY <1>5, <2>1 DEF OnTopicReopened, Linked
    <2>3. ~e.closed
      BY <1>2, <2>1, <2>2 DEF Entry
    <2>4. Open(mem') /\ Open(disk')
      BY <1>3, <2>2, <2>3 DEF Save
    <2>5. PICK x : todo' = <<x>> /\ x.op \in {"edit", "finish"}
      BY <1>5 DEF OnTopicReopened, Do
    <2>6. \A i \in 1..Len(<<x>>) : <<x>>[i] = x
      OBVIOUS
    <2> QED
      BY <1>1, <2>4, <2>5, <2>6, NoPass
  <1>6. CASE OnTopicRenamed(k)
    <2>1. UNCHANGED todo /\ todo = <<>>
      BY <1>6 DEF OnTopicRenamed, Idle
    <2>2. Open(mem') /\ Open(disk')
      <3>1. CASE UNCHANGED <<mem, disk>>
        BY <1>2, <3>1
      <3>2. CASE /\ mem[k] # None /\ Save
                 /\ mem' = [mem EXCEPT ![k].name = Head(news).name]
        <4>1. PICK e : e = [mem[k] EXCEPT !.name = Head(news).name]
          OBVIOUS
        <4>2. mem' = [mem EXCEPT ![k] = e]
          BY <3>2, <4>1
        <4>3. Live(e) => ~e.closed
          BY <1>2, <3>2, <4>1 DEF Entry, Live
        <4> QED
          BY <1>3, <3>2, <4>2, <4>3 DEF Save
      <3> QED
        BY <1>6, <3>1, <3>2 DEF OnTopicRenamed, Linked
    <2>3. Len(todo') = 0
      BY <2>1
    <2> QED
      BY <1>1, <2>1, <2>2, <2>3, NoPass
  <1> QED
    BY <1>4, <1>5, <1>6

\* Before anything ran.
LEMMA InitPassInv == ASSUME Init PROVE PassInv
  BY DEF Init, Absent, PassInv, Passing, Open, Live

\* Every step keeps the pass on its way.
LEMMA NextPassInv == ASSUME IInv, IInv', PassInv, [Next]_vars PROVE PassInv'
  <1>1. CASE Step
    BY <1>1, StepPasses
  <1>2. CASE \/ List \/ Apply \/ NewsUnknown \/ Started \/ Stopped \/ Desk \/ Option \/ Resync
             \/ \E k \in Keys : StatusEvent(k) \/ TimerFires(k) \/ HerdrChanges(k)
             \/ \E t \in 1..Len(tg) : ByHand(t)
             \/ UNCHANGED vars
    BY <1>2, ApartPasses
  <1>3. CASE \/ TakeEvent \/ RightsChanged \/ Sweep \/ Shutdown \/ Crash \/ Boot
             \/ \E k \in Keys : Fire(k)
             \/ \E s \in {"catchup", "resync"} : TakeSignal(s)
    BY <1>3, TakingPasses
  <1>4. CASE \E k \in Keys : OnTopicClosed(k) \/ OnTopicReopened(k) \/ OnTopicRenamed(k)
    BY <1>4, NewsPasses
  <1> QED
    BY <1>1, <1>2, <1>3, <1>4 DEF Next

\* A pass in which no write failed or was held (Reconciler.Reconcile) has left every
\* agent's entry as the registry wants it when it comes to the prune.
THEOREM SpecPassHeals == Spec => []PassHeals
  <1>1. Init => IInv /\ PassInv
    BY InitIInv, InitPassInv
  <1>2. IInv /\ PassInv /\ [Next]_vars => (IInv /\ PassInv)'
    BY NextIInv, NextPassInv
  <1>3. IInv /\ PassInv => PassHeals
    <2> SUFFICES ASSUME IInv, PassInv, todo # <<>>, Head(todo).op = "prune", ~failed, NEW k \in Keys
                 PROVE  \/ mem[k] # None /\ mem[k].muted
                        \/ /\ agents[k] # None
                           /\ Live(mem[k]) /\ ~mem[k].closed /\ ~Differs(k)
                        \/ /\ agents[k] = None
                           /\ mem[k] # None => ~Live(mem[k]) /\ mem[k].closed
      BY DEF PassHeals
    <2>1. todo \in Seq(Item) /\ todo[1].op = "prune" /\ 1 \in 1..Len(todo)
      BY DEF IInv, TypeOK
    <2>2. Len(todo) = 1 /\ Passing(todo)
      BY <2>1 DEF PassInv, Passing
    <2>3. Good(mem[k], agents[k]) \/ Due(todo, k, mem[k], agents[k])
      BY <2>2 DEF PassInv
    <2>4. \A i \in 1..Len(todo) : todo[i].op = "prune"
      BY <2>1, <2>2
    <2>5. ~Due(todo, k, mem[k], agents[k])
      BY <2>1, <2>4 DEF Due, Heals, Awaits
    <2> QED
      BY <2>3, <2>5 DEF Good, Differs
  <1> QED
    BY <1>1, <1>2, <1>3, PTL DEF Spec

-----------------------------------------------------------------------------
(* When nothing waits, Telegram shows Herdr *)

(* Settled looks at a daemon with nothing left to do. What it needs all    *)
(* the time, for a calm daemon (Calm): what is still unlike for an agent   *)
(* has something on its way that settles it. Between Herdr's agents as the *)
(* registry had them and the reconciler's: an event (Knows). Between those *)
(* and the mapping: the item at hand, a timer, or the pass (Tracks, Will). *)
(* Between the mapping and Telegram: the item at hand, or an update about  *)
(* the topic (Shows).                                                      *)

\* A daemon that nothing holds back and no call fails, and that hears what
\* operators do: each agent's name is its tab's label, and operators type only
\* that.
Calm ==
    /\ Gates = {} /\ ~Faults /\ ~Strict /\ Custom = {} /\ "delete" \notin Hands
    /\ \A typed \in Typed, n \in Names : typed[1] = n

\* What the handler s does next for agent k.
OpOf(s, k) == IF s # <<>> /\ s[1].key = k THEN s[1].op ELSE "idle"

\* The i-th of the waiting updates w says one of ops of topic t; some does; the
\* i-th is the last that does.
Says(w, i, t, ops) == w[i].thread = t /\ w[i].op \in ops
Hears(w, t, ops) == \E i \in 1..Len(w) : Says(w, i, t, ops)
LastSaid(w, i, t, ops) == Says(w, i, t, ops) /\ \A j \in 1..Len(w) : i < j => ~Says(w, j, t, ops)

Renaming == {"renamed"}
Toggling == {"closed", "reopened"}

\* Topic T looks as entry e says, or the updates w or the next item op settle it.
Shows(e, T, w, op) ==
    /\ T.name = e.name \/ e.name[2] = "bare" \/ Hears(w, e.thread, Renaming)
    /\ \A i \in 1..Len(w) : LastSaid(w, i, e.thread, Renaming) =>
         w[i].name = T.name \/ T.name[2] = "full"
    /\ T.status = e.status \/ (~Live(e) /\ e.muted) \/ op \in {"refresh", "finish"}
    /\ (Live(e) \/ op = "refresh") /\ T.closed =>
         /\ \A i \in 1..Len(w) : LastSaid(w, i, e.thread, Toggling) => w[i].op = "closed"
         /\ e.muted \/ Hears(w, e.thread, Toggling)
    /\ ~Live(e) /\ ~e.muted /\ ~T.closed =>
         \/ Hears(w, e.thread, {"reopened"})
         \/ op \in {"refresh", "finish"} \/ (op = "close" /\ ~e.closed)

\* Only entries of ended agents are closed, all but those at hand.
Entered(e, op) ==
    /\ Live(e) \/ op \in {"refresh", "finish"} => ~e.closed
    /\ Live(e) \/ e.closed \/ op \in {"close", "refresh", "finish"}

\* Entry e is what agent k with look a should have, or the next item op or a timer
\* (late) makes it so; a full group (T) has no topic for it.
Tracks(e, a, T, late, k, op) ==
    /\ op \in {"exit", "finish"} => a = None
    /\ \/ op \in {"create", "make", "refresh", "exit", "finish"}
       \/ e = None /\ (a = None \/ Len(T) = MaxThreads)
       \/ e # None /\ a = None /\ (e.muted \/ ~Live(e))
       \/ /\ a # None /\ Live(e)
          /\ \/ e.muted \/ k \in late \/ op = "edit"
             \/ e.name = Display(a.name) /\ e.status = a.status

\* The handler s still comes to a pass, or in one to agent k.
Passes(s) == \E i \in 1..Len(s) : s[i].op = "pass"
Will(s, k) == Passes(s) \/ \E i \in 1..Len(s) : s[i].op = "redo" /\ s[i].key = k

\* The reconciler learns of agent k what the registry knows.
Knows(k) ==
    /\ \A i \in 1..Len(events) :
         (events[i].key = k /\ \A j \in 1..Len(events) : i < j => events[j].key # k)
         => events[i].look = reg[k]
    /\ (\A i \in 1..Len(events) : events[i].key # k) =>
         IF OpOf(todo, k) \in Reports THEN todo[1].look = reg[k] ELSE agents[k] = reg[k]

\* Items that may wait behind another.
Waits == {"delete", "learn", "pass", "edit", "redo", "unclosed", "prune"}

Phases ==
    /\ \A i \in 2..Len(todo) : todo[i].op \in Waits
    /\ \A i \in 1..Len(todo) : todo[i].op # "snap" /\ (todo[i].op = "learn" => Passes(todo))
    /\ \A i \in 1..Len(todo) : todo[i].op = "gone" => todo[i].look = None
    /\ proc = "down" => todo = <<>>
    /\ proc = "starting" =>
         /\ events = <<>> /\ timers = {} /\ due = {} /\ (agents = reg \/ Passes(todo))
         /\ \A i \in 1..Len(todo) : todo[i].op \notin Reports
    /\ proc = "up" =>
         /\ \A i \in 1..Len(todo) : todo[i].op \notin Whole
         /\ \A i \in 2..Len(todo) : todo[i].op = "delete"
         /\ \A k \in Keys : Knows(k)

Entries(m, T, w, lost, k, op) ==
    m[k] # None =>
        /\ T[m[k].thread].exists /\ Entered(m[k], op)
        /\ m[k].thread \notin lost => Shows(m[k], T[m[k].thread], w, op)

Tracking(m, a, T, late, s, k) ==
    Will(s, k) \/ Tracks(m[k], a[k], T, late, k, OpOf(s, k))

Agrees(k) ==
    /\ Entries(mem, tg, news, missed, k, OpOf(todo, k))
    /\ proc \in {"starting", "up"} => Tracking(mem, agents, tg, timers \cup due, todo, k)

CalmInv ==
    /\ gates = {} /\ signals = {} /\ disk = mem
    /\ Phases
    /\ \A i \in 1..Len(events) : events[i].op = "gone" => events[i].look = None
    /\ \A i \in 1..Len(news) : news[i].op = "renamed" => news[i].name \in Typed
    /\ \A k \in Keys : Agrees(k)

\* A calm daemon: nothing is held back, and a call that is made succeeds.
LEMMA CalmCalls ==
    ASSUME IInv, Calm, CalmInv, NEW k \in Keys, mem[k] # None, NEW after, NEW entry, NEW next,
           Calls(k, after, entry, next)
    PROVE  /\ tg' = [tg EXCEPT ![mem[k].thread] = after] /\ mem' = [mem EXCEPT ![k] = entry]
           /\ disk' = mem' /\ Continue(next) /\ UNCHANGED <<agents, timers>>
  <1>1. tg[mem[k].thread].exists
    BY DEF CalmInv, Agrees, Entries
  <1>2. ~Faults /\ ~Strict
    BY DEF Calm
  <1>3. ~Fails(k, after)
    BY <1>1, <1>2 DEF Fails
  <1> QED
    BY <1>2, <1>3 DEF Calls, Save

\* Nothing holds a calm daemon back.
LEMMA CalmFree == ASSUME CalmInv PROVE ~Blocked
  BY DEF CalmInv, Blocked

\* A save does not fail.
LEMMA CalmSave == ASSUME Calm, Save PROVE disk' = mem'
  BY DEF Calm, Save

\* An agent that is not at hand has nothing but waiting items done next.
LEMMA NotAtHand ==
    ASSUME NEW e, NEW T, NEW w, NEW op \in Waits \cup Reports \cup {"list", "flush"}
    PROVE  /\ Shows(e, T, w, "idle") <=> Shows(e, T, w, op)
           /\ Entered(e, "idle") <=> Entered(e, op)
  <1>1. op \notin {"refresh", "finish", "close", "create", "make", "exit", "idle"}
    BY DEF Waits, Reports
  <1>2. Shows(e, T, w, "idle") <=> Shows(e, T, w, op)
    BY <1>1 DEF Shows
  <1>3. Entered(e, "idle") <=> Entered(e, op)
    BY <1>1 DEF Entered
  <1> QED
    BY <1>2, <1>3

\* Without the update they begin with, the others say what they said.
LEMMA HeardLess ==
    ASSUME NEW w \in Seq(News), w # <<>>, NEW r, r = Tail(w), NEW t, NEW ops
    PROVE  /\ Hears(w, t, ops) <=> Hears(r, t, ops) \/ Says(w, 1, t, ops)
           /\ \A i \in 1..Len(r) : LastSaid(r, i, t, ops) =>
                i + 1 \in 1..Len(w) /\ r[i] = w[i + 1] /\ LastSaid(w, i + 1, t, ops)
           /\ Says(w, 1, t, ops) /\ ~Hears(r, t, ops) => LastSaid(w, 1, t, ops)
           /\ 1 \in 1..Len(w) /\ Head(w) = w[1]
  <1>1. /\ r \in Seq(News) /\ Len(w) \in Nat \ {0} /\ Len(r) = Len(w) - 1
        /\ \A i \in 1..Len(r) : i + 1 \in 1..Len(w) /\ r[i] = w[i + 1]
        /\ 1 \in 1..Len(w) /\ Head(w) = w[1]
    OBVIOUS
  <1>2. \A i \in 1..Len(w) : i = 1 \/ (i - 1 \in 1..Len(r) /\ w[i] = r[i - 1])
    BY <1>1
  <1>3. \A i \in 1..Len(r) : Says(r, i, t, ops) <=> Says(w, i + 1, t, ops)
    BY <1>1 DEF Says
  <1>4. \A i \in 1..Len(w) : i = 1 \/ (Says(w, i, t, ops) <=> Says(r, i - 1, t, ops))
    BY <1>2 DEF Says
  <1>5. Hears(w, t, ops) <=> Hears(r, t, ops) \/ Says(w, 1, t, ops)
    BY <1>1, <1>2, <1>3, <1>4 DEF Hears
  <1>6. ASSUME NEW i \in 1..Len(r), LastSaid(r, i, t, ops)
        PROVE  LastSaid(w, i + 1, t, ops)
    <2>1. Says(w, i + 1, t, ops)
      BY <1>3, <1>6 DEF LastSaid
    <2>2. ASSUME NEW j \in 1..Len(w), i + 1 < j PROVE ~Says(w, j, t, ops)
      <3>1. j # 1 /\ j - 1 \in 1..Len(r) /\ i < j - 1
        BY <1>1, <1>2, <2>2
      <3> QED
        BY <1>4, <1>6, <3>1 DEF LastSaid
    <2> QED
      BY <2>1, <2>2 DEF LastSaid
  <1>7. Says(w, 1, t, ops) /\ ~Hears(r, t, ops) => LastSaid(w, 1, t, ops)
    <2> SUFFICES ASSUME Says(w, 1, t, ops), ~Hears(r, t, ops), NEW j \in 1..Len(w), 1 < j
                 PROVE  ~Says(w, j, t, ops)
      BY DEF LastSaid
    <2>1. j # 1 /\ j - 1 \in 1..Len(r)
      BY <1>2
    <2> QED
      BY <1>4, <2>1 DEF Hears
  <1> QED
    BY <1>1, <1>5, <1>6, <1>7

\* The topics of two agents are two.
LEMMA Apart ==
    ASSUME IInv, NEW j \in Keys, NEW k \in Keys, mem[j] # None, mem[k] # None,
           mem[j].thread = mem[k].thread
    PROVE  j = k
  BY DEF IInv, Mapped, Links

\* At most one item.
AtMost(f) == f = <<>> \/ \E x \in Item : f = <<x>>

\* Such a list has one place at most.
LEMMA AtMostOne ==
    ASSUME NEW f, AtMost(f)
    PROVE  /\ f \in Seq(Item) /\ (f # <<>> => Len(f) = 1 /\ f[1] \in Item)
           /\ \A i \in 1..Len(f) : f # <<>> /\ i = 1
           /\ f # <<>> => 1 \in 1..Len(f)
  <1>1. CASE f = <<>>
    BY <1>1
  <1>2. ASSUME NEW x \in Item, f = <<x>>
        PROVE  /\ f \in Seq(Item) /\ Len(f) = 1 /\ f[1] \in Item /\ 1 \in 1..Len(f)
               /\ \A i \in 1..Len(f) : f # <<>> /\ i = 1
    BY <1>2
  <1> QED
    BY <1>1, <1>2 DEF AtMost

\* The handler after an item that left at most one item for itself.
LEMMA Turn ==
    ASSUME IInv, Phases, todo # <<>>, NEW f, AtMost(f), Continue(f)
    PROVE  /\ \A i \in 1..Len(todo') : \/ f # <<>> /\ i = 1 /\ todo'[i] = f[1]
                                       \/ \E j \in 2..Len(todo) : todo'[i] = todo[j]
           /\ f # <<>> => todo' # <<>> /\ todo'[1] = f[1] /\ f[1] \in Item
           /\ \A j \in 2..Len(todo) : \E i \in 1..Len(todo') : todo'[i] = todo[j]
           /\ f = <<>> => \A k \in Keys : OpOf(todo', k) \in Waits \cup {"idle"}
           /\ f # <<>> => \A k \in Keys : OpOf(todo', k) = IF k = f[1].key THEN f[1].op ELSE "idle"
           /\ Passes(todo) /\ item.op # "pass" => Passes(todo')
           /\ \A k \in Keys : Will(todo, k) /\ item.op # "pass" /\ ~(item.op = "redo" /\ item.key = k)
                              => Will(todo', k)
  <1>1. todo \in Seq(Item) /\ Head(todo) = todo[1] /\ item = todo[1]
    BY DEF IInv, TypeOK, item
  <1>2. PICK s : s = todo
    OBVIOUS
  <1>3. PICK q : q = todo'
    OBVIOUS
  <1>4. q = f \o Tail(s) /\ s \in Seq(Item) /\ s # <<>>
    BY <1>1, <1>2, <1>3 DEF Continue, rest
  <1>5. /\ q \in Seq(Item) /\ Len(q) = Len(f) + Len(s) - 1 /\ Len(f) \in Nat /\ Len(s) \in Nat \ {0}
        /\ \A i \in 1..Len(f) : i \in 1..Len(q) /\ q[i] = f[i]
        /\ \A i \in 2..Len(s) : i + Len(f) - 1 \in 1..Len(q) /\ q[i + Len(f) - 1] = s[i]
        /\ \A i \in 1..Len(q) : \/ i \in 1..Len(f) /\ q[i] = f[i]
                                \/ \E j \in 2..Len(s) : i = j + Len(f) - 1 /\ q[i] = s[j]
    <2>1. PICK g \in Seq(Item) : g = f
      BY AtMostOne
    <2>2. q = g \o Tail(s) /\ s # <<>>
      BY <1>4, <2>1
    <2>4. s \in Seq(Item)
      BY <1>4
    <2>3. /\ q \in Seq(Item) /\ Len(q) = Len(g) + Len(s) - 1 /\ Len(g) \in Nat /\ Len(s) \in Nat \ {0}
          /\ \A i \in 1..Len(g) : i \in 1..Len(q) /\ q[i] = g[i]
          /\ \A i \in 2..Len(s) : i + Len(g) - 1 \in 1..Len(q) /\ q[i + Len(g) - 1] = s[i]
          /\ \A i \in 1..Len(q) : \/ i \in 1..Len(g) /\ q[i] = g[i]
                                  \/ \E j \in 2..Len(s) : i = j + Len(g) - 1 /\ q[i] = s[j]
      BY ONLY <2>2, <2>4, g \in Seq(Item), Resumed
    <2> QED
      BY <2>1, <2>3
  <1>6. f # <<>> => Len(f) = 1 /\ 1 \in 1..Len(f) /\ f[1] \in Item
    BY AtMostOne
  <1>7. f = <<>> => Len(f) = 0
    OBVIOUS
  <1>8. \A i \in 1..Len(q) : \/ f # <<>> /\ i = 1 /\ q[i] = f[1]
                             \/ \E j \in 2..Len(s) : q[i] = s[j]
    <2>1. \A i \in 1..Len(f) : f # <<>> /\ i = 1
      BY AtMostOne
    <2> QED
      BY <1>5, <2>1
  <1>9. f # <<>> => q # <<>> /\ q[1] = f[1]
    BY <1>5, <1>6
  <1>10. \A j \in 2..Len(s) : \E i \in 1..Len(q) : q[i] = s[j]
    BY <1>5
  <1>11. \A j \in 2..Len(s) : s[j].op \in Waits
    BY <1>2 DEF Phases
  <1>12. f = <<>> => \A k \in Keys : OpOf(q, k) \in Waits \cup {"idle"}
    <2> SUFFICES ASSUME f = <<>>, q # <<>> PROVE q[1].op \in Waits
      BY DEF OpOf
    <2>1. 1 \in 1..Len(q)
      BY <1>5
    <2> QED
      BY <1>8, <1>11, <2>1
  <1>13. f # <<>> => \A k \in Keys : OpOf(q, k) = IF k = f[1].key THEN f[1].op ELSE "idle"
    BY <1>9 DEF OpOf
  <1>14. \A j \in 1..Len(s) : j = 1 \/ j \in 2..Len(s)
    BY <1>5
  <1>15. Passes(s) /\ s[1].op # "pass" => Passes(q)
    BY <1>10, <1>14 DEF Passes
  <1>16. \A k \in Keys : Will(s, k) /\ s[1].op # "pass" /\ ~(s[1].op = "redo" /\ s[1].key = k)
                         => Will(q, k)
    BY <1>10, <1>14, <1>15 DEF Will
  <1> QED
    BY <1>1, <1>2, <1>3, <1>6, <1>8, <1>9, <1>10, <1>12, <1>13, <1>15, <1>16

\* What the item at hand may leave for its agent.
Follows == {"create", "make", "refresh", "edit", "exit", "close"}

\* The phases after an item about one agent.
LEMMA PhasesGoOn ==
    ASSUME IInv, CalmInv, todo # <<>>, NEW f, AtMost(f), Continue(f),
           f # <<>> => f[1].op \in Follows, item.op \notin {"pass", "learn", "snap"},
           UNCHANGED <<events, proc, due, reg>>,
           item.op \notin Reports => agents' = agents /\ timers' \subseteq timers,
           item.op \in Reports => agents' = [agents EXCEPT ![item.key] = item.look], item.key \in Keys
    PROVE  Phases'
  <1> DEFINE Kept == \A i \in 1..Len(todo') : \/ f # <<>> /\ i = 1 /\ todo'[i] = f[1]
                                              \/ \E j \in 2..Len(todo) : todo'[i] = todo[j]
  <1>1. Phases /\ todo \in Seq(Item) /\ item = todo[1] /\ item \in Item
    BY DEF CalmInv, IInv, TypeOK, item
  <1>2. /\ Kept /\ (Passes(todo) => Passes(todo'))
        /\ f # <<>> => todo' # <<>> /\ todo'[1] = f[1]
        /\ f = <<>> => \A k \in Keys : OpOf(todo', k) \in Waits \cup {"idle"}
        /\ f # <<>> => \A k \in Keys : OpOf(todo', k) = IF k = f[1].key THEN f[1].op ELSE "idle"
    BY <1>1, Turn
  <1>3. \A x \in Follows : x \notin Whole \cup Reports \cup (Waits \ {"edit"})
    BY DEF Follows, Whole, Reports, Waits
  <1>4. \A j \in 2..Len(todo) : j \in 1..Len(todo) /\ todo[j].op \in Waits
    BY <1>1 DEF Phases
  <1>5. todo' \in Seq(Item)
    <2>1. f \in Seq(Item) /\ rest \in Seq(Item)
      BY <1>1, AtMostOne DEF rest
    <2> QED
      BY <2>1 DEF Continue
  <1>6. \A i \in 2..Len(todo') : i \in 1..Len(todo') /\ i # 1
    BY <1>5
  <1>7. \A i \in 2..Len(todo') : todo'[i].op \in Waits
    BY <1>2, <1>4, <1>6
  <1>8. \A i \in 1..Len(todo') : todo'[i].op \notin {"snap", "gone"} \cup Reports
    BY <1>2, <1>3, <1>4 DEF Waits, Reports, Whole
  <1>9. \A i \in 1..Len(todo') : todo'[i].op = "learn" => Passes(todo')
    BY <1>1, <1>2, <1>3, <1>4 DEF Phases, Whole
  <1>10. proc' # "down"
    BY <1>1 DEF Phases
  <1>11. ASSUME proc' = "starting"
         PROVE  /\ events' = <<>> /\ timers' = {} /\ due' = {} /\ (agents' = reg' \/ Passes(todo'))
                /\ \A i \in 1..Len(todo') : todo'[i].op \notin Reports
    <2>1. proc = "starting" /\ 1 \in 1..Len(todo)
      BY <1>1, <1>11
    <2>2. item.op \notin Reports
      BY <1>1, <2>1 DEF Phases
    <2>3. events = <<>> /\ timers = {} /\ due = {} /\ (agents = reg \/ Passes(todo))
      BY <1>1, <2>1 DEF Phases
    <2> QED
      BY <1>2, <1>8, <2>2, <2>3
  <1>12. ASSUME proc' = "up"
         PROVE  /\ \A i \in 1..Len(todo') : todo'[i].op \notin Whole
                /\ \A i \in 2..Len(todo') : todo'[i].op = "delete"
                /\ \A k \in Keys : Knows(k)'
    <2>1. /\ \A i \in 1..Len(todo) : todo[i].op \notin Whole
          /\ \A i \in 2..Len(todo) : todo[i].op = "delete"
          /\ \A k \in Keys : Knows(k)
      BY <1>1, <1>12 DEF Phases
    <2>2. \A i \in 1..Len(todo') : todo'[i].op \notin Whole
      BY <1>2, <1>3, <1>4, <2>1
    <2>3. \A i \in 2..Len(todo') : todo'[i].op = "delete"
      BY <1>2, <1>6, <2>1
    <2>4. \A k \in Keys : OpOf(todo', k) \notin Reports
      <3>1. "idle" \notin Reports /\ \A x \in Waits : x \notin Reports
        BY DEF Reports, Waits
      <3> QED
        BY <1>2, <1>3, <3>1
    <2>5. ASSUME NEW k \in Keys PROVE Knows(k)'
      <3>1. Knows(k)
        BY <2>1
      <3>2. OpOf(todo, k) \in Reports <=> item.key = k /\ item.op \in Reports
        BY <1>1 DEF OpOf, Reports
      <3>3. agents \in [Keys -> Look \cup {None}]
        BY DEF IInv, TypeOK
      <3>4. agents'[k] = IF item.key = k /\ item.op \in Reports THEN item.look ELSE agents[k]
        BY <3>3
      <3> QED
        BY <1>1, <2>4, <3>1, <3>2, <3>4 DEF Knows
    <2> QED
      BY <2>2, <2>3, <2>5
  <1> QED
    BY <1>7, <1>8, <1>9, <1>10, <1>11, <1>12 DEF Phases

\* What is said of an entry that stays as it is, with its topic.
LEMMA EntriesAlike ==
    ASSUME NEW m, NEW T, NEW w, NEW lost, NEW k, NEW m2, NEW T2,
           NEW op, Entries(m, T, w, lost, k, op),
           m2[k] = m[k], m[k] # None => T2[m[k].thread] = T[m[k].thread]
    PROVE  Entries(m2, T2, w, lost, k, op)
  BY DEF Entries

\* What holds with no item at hand holds with one that only waits.
LEMMA EntriesWait ==
    ASSUME NEW m, NEW T, NEW w, NEW lost, NEW k, NEW op \in Waits \cup Reports \cup {"list", "flush", "idle"}
    PROVE  Entries(m, T, w, lost, k, "idle") <=> Entries(m, T, w, lost, k, op)
  <1>1. CASE op = "idle"
    BY <1>1
  <1>2. CASE op # "idle"
    <2>1. op \in Waits \cup Reports \cup {"list", "flush"}
      BY <1>2
    <2>2. PICK e : e = m[k]
      OBVIOUS
    <2>3. PICK X : X = T[e.thread]
      OBVIOUS
    <2>4. (Shows(e, X, w, "idle") <=> Shows(e, X, w, op)) /\ (Entered(e, "idle") <=> Entered(e, op))
      BY <2>1, NotAtHand
    <2> QED
      BY <2>2, <2>3, <2>4 DEF Entries
  <1> QED
    BY <1>1, <1>2

\* What follows the agent with no item at hand does with one that only waits.
LEMMA TracksWait ==
    ASSUME NEW e, NEW a, NEW T, NEW late, NEW T2, NEW late2, NEW k,
           NEW op \in Waits \cup Reports \cup {"list", "flush", "idle"},
           Tracks(e, a, T, late, k, "idle"), Len(T) = MaxThreads => Len(T2) = MaxThreads,
           k \in late => k \in late2
    PROVE  Tracks(e, a, T2, late2, k, op)
  <1>1. op \notin {"refresh", "finish", "close", "create", "make", "exit"}
    BY DEF Waits, Reports
  <1> QED
    BY <1>1 DEF Tracks

\* What an item about one agent leaves alone: the topics and entries of the others.
Spares(k) ==
    /\ \A j \in Keys \ {k} : /\ mem'[j] = mem[j] /\ agents'[j] = agents[j]
                             /\ j \in timers <=> j \in timers'
    /\ \A j \in Keys \ {k} : mem[j] # None => tg'[mem[j].thread] = tg[mem[j].thread]
    /\ Len(tg) = MaxThreads => Len(tg') = MaxThreads

\* An item about one agent: the others stay as they were, so it is enough to look at
\* that agent, with what is left for it (op) next.
LEMMA OneAgent ==
    ASSUME IInv, CalmInv, todo # <<>>, Aside, UNCHANGED reg, NEW k \in Keys, k = item.key,
           NEW f, AtMost(f), Continue(f), f # <<>> => f[1].key = k /\ f[1].op \in Follows,
           item.op \notin {"pass", "learn", "snap"}, disk' = mem', Spares(k),
           item.op \notin Reports => agents' = agents /\ timers' \subseteq timers,
           item.op \in Reports => agents' = [agents EXCEPT ![k] = item.look],
           NEW op, op = IF f = <<>> THEN "idle" ELSE f[1].op,
           Entries(mem', tg', news, missed, k, op),
           item.op = "redo" \/ Tracks(mem[k], agents[k], tg, timers \cup due, k, item.op) =>
              Will(todo', k) \/ Tracks(mem'[k], agents'[k], tg', timers' \cup due, k, op)
    PROVE  CalmInv'
  <1>0. Phases /\ item = todo[1] /\ UNCHANGED <<events, proc, due, gates, signals, news, missed>>
    BY DEF CalmInv, IInv, TypeOK, item, Aside, control
  <1>1. Phases'
    BY <1>0, PhasesGoOn
  <1>2. /\ \A j \in Keys : Will(todo, j) /\ item.op # "pass" /\ ~(item.op = "redo" /\ item.key = j)
                           => Will(todo', j)
        /\ f = <<>> => \A j \in Keys : OpOf(todo', j) \in Waits \cup {"idle"}
        /\ f # <<>> => \A j \in Keys : OpOf(todo', j) = IF j = f[1].key THEN f[1].op ELSE "idle"
    BY <1>0, Turn
  <1>3. /\ OpOf(todo, k) = item.op /\ \A j \in Keys \ {k} : OpOf(todo, j) = "idle"
    BY <1>0 DEF OpOf
  <1>4. /\ \A j \in Keys \ {k} : OpOf(todo', j) \in Waits \cup {"idle"}
        /\ OpOf(todo', k) = op \/ (op = "idle" /\ OpOf(todo', k) \in Waits \cup {"idle"})
    BY <1>2
  <1>5. ASSUME NEW j \in Keys \ {k} PROVE Agrees(j)'
    <2>1. Agrees(j) /\ OpOf(todo, j) = "idle" /\ OpOf(todo', j) \in Waits \cup {"idle"}
      BY <1>3, <1>4 DEF CalmInv
    <2>2. /\ mem'[j] = mem[j] /\ agents'[j] = agents[j] /\ (j \in timers <=> j \in timers')
          /\ mem[j] # None => tg'[mem[j].thread] = tg[mem[j].thread]
          /\ Len(tg) = MaxThreads => Len(tg') = MaxThreads
      BY DEF Spares
    <2>3. Entries(mem', tg', news', missed', j, OpOf(todo', j))
      <3>1. Entries(mem, tg, news, missed, j, "idle")
        BY <2>1 DEF Agrees
      <3>2. Entries(mem', tg', news, missed, j, "idle")
        BY <2>2, <3>1, EntriesAlike
      <3> QED
        BY <1>0, <2>1, <3>2, EntriesWait
    <2>4. proc' \in {"starting", "up"} => Tracking(mem', agents', tg', timers' \cup due', todo', j)
      <3> SUFFICES ASSUME proc \in {"starting", "up"}, ~Will(todo', j)
                   PROVE  Tracks(mem'[j], agents'[j], tg', timers' \cup due', j, OpOf(todo', j))
        BY <1>0 DEF Tracking
      <3>1. ~Will(todo, j)
        BY <1>2
      <3>2. Tracks(mem[j], agents[j], tg, timers \cup due, j, "idle")
        BY <2>1, <3>1 DEF Agrees, Tracking
      <3>3. Tracks(mem'[j], agents'[j], tg, timers \cup due, j, "idle")
        BY <2>2, <3>2
      <3>4. /\ Len(tg) = MaxThreads => Len(tg') = MaxThreads
            /\ j \in timers \cup due => j \in timers' \cup due'
        BY <1>0, <2>2
      <3> QED
        BY <2>1, <3>3, <3>4, TracksWait
    <2> QED
      BY <2>3, <2>4 DEF Agrees
  <1>6. Agrees(k)'
    <2>1. Agrees(k)
      BY DEF CalmInv
    <2>2. Entries(mem', tg', news', missed', k, OpOf(todo', k))
      BY <1>0, <1>4, EntriesWait
    <2>3. proc' \in {"starting", "up"} => Tracking(mem', agents', tg', timers' \cup due', todo', k)
      <3> SUFFICES ASSUME proc \in {"starting", "up"}, ~Will(todo', k)
                   PROVE  Tracks(mem'[k], agents'[k], tg', timers' \cup due', k, OpOf(todo', k))
        BY <1>0 DEF Tracking
      <3>1. item.op = "redo" \/ ~Will(todo, k)
        BY <1>2
      <3>2. item.op = "redo" \/ Tracks(mem[k], agents[k], tg, timers \cup due, k, item.op)
        BY <1>3, <2>1, <3>1 DEF Agrees, Tracking
      <3>3. Tracks(mem'[k], agents'[k], tg', timers' \cup due', k, op)
        BY <1>0, <3>2
      <3> QED
        BY <1>4, <3>3, TracksWait
    <2> QED
      BY <2>2, <2>3 DEF Agrees
  <1>7. /\ gates' = {} /\ signals' = {} /\ disk' = mem'
        /\ \A i \in 1..Len(events') : events'[i].op = "gone" => events'[i].look = None
        /\ \A i \in 1..Len(news') : news'[i].op = "renamed" => news'[i].name \in Typed
    BY <1>0 DEF CalmInv
  <1> QED
    BY <1>1, <1>5, <1>6, <1>7 DEF CalmInv

\* What an item learns of its agent.
LEMMA AtHand ==
    ASSUME IInv, CalmInv, todo # <<>>, NEW k \in Keys, k = item.key
    PROVE  /\ TypeOK /\ Mapped /\ item = todo[1] /\ item.op \in Ops
           /\ Entries(mem, tg, news, missed, k, item.op)
           /\ mem[k] # None => /\ mem[k] \in Entry /\ mem[k].thread \in 1..Len(tg)
                               /\ tg[mem[k].thread] \in Topic /\ tg[mem[k].thread].exists
  <1>1. TypeOK /\ Mapped /\ item = todo[1] /\ item.op \in Ops
    BY ItemKnown DEF IInv, TypeOK, item
  <1>2. OpOf(todo, k) = item.op
    BY <1>1 DEF OpOf
  <1>3. Entries(mem, tg, news, missed, k, item.op)
    BY <1>2 DEF CalmInv, Agrees
  <1>4. mem[k] # None => tg[mem[k].thread].exists
    BY <1>3 DEF Entries
  <1> QED
    BY <1>1, <1>3, <1>4, TopicKnown

\* Writing one entry and its topic spares the others.
LEMMA WriteSpares ==
    ASSUME IInv, NEW k \in Keys, mem[k] # None, NEW after, NEW entry,
           tg' = [tg EXCEPT ![mem[k].thread] = after], mem' = [mem EXCEPT ![k] = entry],
           UNCHANGED <<agents, timers>>
    PROVE  /\ Spares(k) /\ mem'[k] = entry /\ tg'[mem[k].thread] = after /\ Len(tg') = Len(tg)
  <1>1. /\ tg \in Seq(Topic) /\ mem \in [Keys -> Entry \cup {None}] /\ mem[k].thread \in 1..Len(tg)
    BY TopicKnown DEF IInv, TypeOK
  <1>2. mem'[k] = entry /\ tg'[mem[k].thread] = after /\ Len(tg') = Len(tg)
    BY <1>1
  <1>3. ASSUME NEW j \in Keys \ {k}, mem[j] # None PROVE tg'[mem[j].thread] = tg[mem[j].thread]
    <2>1. mem[j].thread # mem[k].thread
      BY <1>3, Apart
    <2>2. mem[j].thread \in 1..Len(tg)
      BY <1>3, TopicKnown DEF IInv
    <2> QED
      BY <1>1, <2>1, <2>2
  <1>4. \A j \in Keys \ {k} : mem'[j] = mem[j]
    BY <1>1
  <1> QED
    BY <1>2, <1>3, <1>4 DEF Spares

\* A call on the item's topic.
LEMMA CalmCall ==
    ASSUME IInv, Calm, CalmInv, todo # <<>>, Aside, UNCHANGED reg, NEW k \in Keys, k = item.key,
           mem[k] # None, NEW after, NEW entry \in Entry, entry.thread = mem[k].thread,
           NEW f, AtMost(f), f # <<>> => f[1].key = k /\ f[1].op \in Follows,
           Calls(k, after, entry, f), item.op \notin {"pass", "learn", "snap", "redo"} \cup Reports,
           NEW op, op = IF f = <<>> THEN "idle" ELSE f[1].op,
           after.exists, Entered(entry, op),
           mem[k].thread \notin missed => Shows(entry, after, news, op),
           Tracks(mem[k], agents[k], tg, timers \cup due, k, item.op) =>
              Tracks(entry, agents[k], tg, timers \cup due, k, op)
    PROVE  CalmInv'
  <1>1. /\ tg' = [tg EXCEPT ![mem[k].thread] = after] /\ mem' = [mem EXCEPT ![k] = entry]
        /\ disk' = mem' /\ Continue(f) /\ UNCHANGED <<agents, timers>>
    BY CalmCalls
  <1>2. /\ Spares(k) /\ mem'[k] = entry /\ tg'[mem[k].thread] = after /\ Len(tg') = Len(tg)
    BY ONLY <1>1, IInv, k \in Keys, mem[k] # None, WriteSpares
  <1>3. Entries(mem', tg', news, missed, k, op)
    BY <1>2, NoneIsApart DEF Entries
  <1>4. Tracks(mem[k], agents[k], tg, timers \cup due, k, item.op) =>
           Tracks(mem'[k], agents'[k], tg', timers' \cup due, k, op)
    BY <1>1, <1>2 DEF Tracks
  <1> QED
    BY <1>1, <1>2, <1>3, <1>4, OneAgent

\* An item that leaves its topic alone.
LEMMA CalmMove ==
    ASSUME IInv, CalmInv, todo # <<>>, Aside, UNCHANGED reg, NEW k \in Keys, k = item.key,
           NEW f, AtMost(f), f # <<>> => f[1].key = k /\ f[1].op \in Follows, Continue(f),
           UNCHANGED <<mem, disk, tg, agents>>, timers' \in {timers, timers \ {k}},
           item.op \notin {"pass", "learn", "snap"} \cup Reports,
           NEW op, op = IF f = <<>> THEN "idle" ELSE f[1].op,
           mem[k] # None => /\ Entered(mem[k], op)
                            /\ mem[k].thread \notin missed => Shows(mem[k], tg[mem[k].thread], news, op),
           item.op = "redo" \/ Tracks(mem[k], agents[k], tg, timers \cup due, k, item.op) =>
              Tracks(mem[k], agents[k], tg, timers' \cup due, k, op)
    PROVE  CalmInv'
  <1>1. Spares(k) /\ disk' = mem' /\ timers' \subseteq timers
    BY DEF Spares, CalmInv
  <1>2. mem[k] # None => tg[mem[k].thread].exists
    BY AtHand
  <1>3. Entries(mem', tg', news, missed, k, op)
    BY <1>2 DEF Entries
  <1>4. item.op = "redo" \/ Tracks(mem[k], agents[k], tg, timers \cup due, k, item.op) =>
           Tracks(mem'[k], agents'[k], tg', timers' \cup due, k, op)
    OBVIOUS
  <1> QED
    BY <1>1, <1>3, <1>4, OneAgent

\* What an item may leave for its agent.
LEMMA DoFollows ==
    ASSUME NEW o \in Follows, NEW k \in Keys
    PROVE  AtMost(<<Do(o, k)>>) /\ <<Do(o, k)>>[1].key = k /\ <<Do(o, k)>>[1].op = o
           /\ <<Do(o, k)>> # <<>>
  <1>1. ItemOK(Do(o, k)) /\ Do(o, k).op = o /\ Do(o, k).key = k
    BY DoItem DEF Follows, Ops
  <1> QED
    BY <1>1 DEF AtMost, ItemOK

\* The name the bot writes is the full one.
LEMMA DisplayFull == ASSUME NEW n PROVE Display(n)[2] = "full"
  BY DEF Display

\* An entry with the status of a running agent is live.
LEMMA LiveStatus == ASSUME NEW a \in Look, NEW e, e # None, e.status = a.status PROVE Live(e)
  BY MirrorAssumption DEF Look, Live

\* revive, second half: the topic gets icon and name, whatever it had.
LEMMA RefreshSettles ==
    ASSUME IInv, Calm, CalmInv, todo # <<>>, Aside, UNCHANGED reg, RefreshItem PROVE CalmInv'
  <1> PICK k : k = item.key
    OBVIOUS
  <1>1. item.op = "refresh"
    BY DEF RefreshItem
  <1>2. k \in Keys /\ agents[k] # None /\ mem[k] # None /\ ~mem[k].muted
    BY <1>1, ItemKnown DEF Whole
  <1>3. PICK T : T = tg[mem[k].thread]
    OBVIOUS
  <1>4. PICK e : e = mem[k]
    OBVIOUS
  <1>5. PICK a : a = agents[k]
    OBVIOUS
  <1>6. /\ e \in Entry /\ T \in Topic /\ T.exists /\ Entered(e, "refresh")
        /\ e.thread \notin missed => Shows(e, T, news, "refresh")
    BY <1>1, <1>2, <1>3, <1>4, AtHand DEF Entries
  <1>7. a \in Look
    BY <1>2, <1>5 DEF IInv, TypeOK
  <1>8. Display(a.name) \in TopicName /\ Display(a.name)[2] = "full" /\ a.status \in Statuses
    BY <1>7, Dressed, DisplayFull
  <1>9. PICK n : n = IF Display(a.name) # e.name THEN Display(a.name) ELSE T.name
    OBVIOUS
  <1>10. PICK after : after = [T EXCEPT !.name = n, !.status = a.status]
    OBVIOUS
  <1>11. PICK entry : entry = [e EXCEPT !.name = Display(a.name), !.status = a.status]
    OBVIOUS
  <1>12. /\ entry \in Entry /\ entry.thread = e.thread /\ entry.name = Display(a.name)
         /\ entry.status = a.status /\ entry.closed = e.closed /\ entry.muted = e.muted
    BY <1>6, <1>8, <1>11 DEF Entry
  <1>13. after.exists /\ after.name = n /\ after.status = a.status /\ after.closed = T.closed
    BY <1>6, <1>10 DEF Topic
  <1>14. entry # None /\ Live(entry)
    BY <1>7, <1>12, NoneIsApart, LiveStatus
  <1>15. Calls(k, after, entry, <<>>)
    BY <1>3, <1>4, <1>5, <1>9, <1>10, <1>11 DEF RefreshItem
  <1>16. Entered(entry, "idle")
    BY <1>6, <1>12, <1>14 DEF Entered
  <1>17. ASSUME e.thread \notin missed PROVE Shows(entry, after, news, "idle")
    <2>1. Shows(e, T, news, "refresh")
      BY <1>6, <1>17
    <2> QED
      BY <1>8, <1>9, <1>12, <1>13, <1>14, <2>1 DEF Shows
  <1>18. Tracks(entry, a, tg, timers \cup due, k, "idle")
    BY <1>7, <1>12, <1>14, NoneIsApart DEF Tracks
  <1>19. AtMost(<<>>)
    BY DEF AtMost
  <1>20. item.op \notin {"pass", "learn", "snap", "redo"} \cup Reports
    BY <1>1 DEF Reports
  <1> QED
    BY <1>2, <1>4, <1>5, <1>12, <1>13, <1>15, <1>16, <1>17, <1>18, <1>19, <1>20, CalmCall

\* What an item with no topic to write ends with.
LEMMA CalmOff ==
    ASSUME IInv, CalmInv, todo # <<>>, Aside, UNCHANGED reg, NEW k \in Keys, k = item.key, Moves(<<>>),
           item.op \notin {"pass", "learn", "snap", "redo", "refresh", "finish", "create", "make"} \cup Reports,
           item.op = "close" => mem[k] = None \/ mem[k].closed,
           item.op = "exit" => mem[k] = None,
           item.op = "edit" => ~(agents[k] # None /\ mem[k] = None),
           item.op = "edit" /\ agents[k] # None => mem[k].muted \/ ~Differs(k)
    PROVE  CalmInv'
  <1>1. AtMost(<<>>) /\ Continue(<<>>) /\ UNCHANGED <<mem, disk, tg, agents, timers>>
    BY DEF AtMost, Moves
  <1>2. Entries(mem, tg, news, missed, k, item.op)
    BY AtHand
  <1>3. mem[k] # None => /\ Entered(mem[k], "idle")
                         /\ mem[k].thread \notin missed => Shows(mem[k], tg[mem[k].thread], news, "idle")
    BY <1>2 DEF Entries, Entered, Shows
  <1>4. Tracks(mem[k], agents[k], tg, timers \cup due, k, item.op) =>
          Tracks(mem[k], agents[k], tg, timers \cup due, k, "idle")
    BY DEF Tracks, Differs
  <1> QED
    BY <1>1, <1>3, <1>4, CalmMove

\* edit: the entry follows the agent, a forced one the topic as well.
LEMMA EditSettles ==
    ASSUME IInv, Calm, CalmInv, todo # <<>>, Aside, UNCHANGED reg, EditItem PROVE CalmInv'
  <1> PICK k : k = item.key
    OBVIOUS
  <1>1. item.op = "edit"
    BY DEF EditItem
  <1>2. k \in Keys /\ ~Blocked
    BY <1>1, ItemKnown, CalmFree DEF Whole
  <1>3. PICK T : T = tg[mem[k].thread]
    OBVIOUS
  <1>4. PICK e : e = mem[k]
    OBVIOUS
  <1>5. PICK a : a = agents[k]
    OBVIOUS
  <1>6. mem[k] # None => /\ e \in Entry /\ T \in Topic /\ T.exists /\ Entered(e, "edit")
                         /\ e.thread \notin missed => Shows(e, T, news, "edit")
    BY <1>1, <1>2, <1>3, <1>4, AtHand DEF Entries
  <1>7. item.op \notin {"pass", "learn", "snap", "redo", "refresh", "finish", "create", "make"} \cup Reports
    BY <1>1 DEF Reports
  <1>8. CASE a = None /\ Moves(<<>>)
    BY <1>1, <1>2, <1>5, <1>7, <1>8, CalmOff
  <1>9. CASE a # None /\ e = None /\ Moves(<<Do("create", k)>>)
    <2>1. /\ AtMost(<<Do("create", k)>>) /\ <<Do("create", k)>>[1].key = k
          /\ <<Do("create", k)>>[1].op = "create" /\ <<Do("create", k)>> # <<>> /\ "create" \in Follows
      BY <1>2, DoFollows DEF Follows
    <2>2. PICK f : f = <<Do("create", k)>>
      OBVIOUS
    <2>3. Continue(f) /\ UNCHANGED <<mem, disk, tg, agents, timers>>
      BY <1>9, <2>2 DEF Moves
    <2>4. Tracks(mem[k], agents[k], tg, timers' \cup due, k, "create")
      BY DEF Tracks
    <2> QED
      BY <1>2, <1>4, <1>7, <1>9, <2>1, <2>2, <2>3, <2>4, CalmMove
  <1>10. CASE a # None /\ e # None /\ ~e.muted /\ ~Differs(k) /\ Moves(<<>>)
    BY <1>1, <1>2, <1>4, <1>5, <1>7, <1>10, CalmOff
  <1>11. CASE a # None /\ e # None /\ e.muted /\ Moves(<<>>)
    BY <1>1, <1>2, <1>4, <1>5, <1>7, <1>11, CalmOff
  <1>12. CASE a # None /\ e # None /\ Live(e) /\ Edits(k, item.force)
    <2>1. a \in Look
      BY <1>2, <1>5, <1>12 DEF IInv, TypeOK
    <2>2. Display(a.name) \in TopicName /\ Display(a.name)[2] = "full" /\ a.status \in Statuses
      BY <2>1, Dressed, DisplayFull
    <2>3. PICK n : n = IF item.force \/ Display(a.name) # e.name THEN Display(a.name) ELSE T.name
      OBVIOUS
    <2>4. PICK after : after = [T EXCEPT !.name = n, !.status = a.status]
      OBVIOUS
    <2>5. PICK entry : entry = [e EXCEPT !.name = Display(a.name), !.status = a.status]
      OBVIOUS
    <2>6. /\ entry \in Entry /\ entry.thread = e.thread /\ entry.name = Display(a.name)
          /\ entry.status = a.status /\ entry.closed = e.closed /\ entry.muted = e.muted
      BY <1>4, <1>6, <1>12, <2>2, <2>5 DEF Entry
    <2>7. after.exists /\ after.name = n /\ after.status = a.status /\ after.closed = T.closed
      BY <1>4, <1>6, <1>12, <2>4 DEF Topic
    <2>8. entry # None /\ Live(entry)
      BY <2>1, <2>6, NoneIsApart, LiveStatus
    <2>9. Calls(k, after, entry, <<>>)
      <3>1. after = [T EXCEPT !.name = IF item.force \/ Display(a.name) # e.name THEN Display(a.name) ELSE @,
                              !.status = a.status]
        BY <2>3, <2>4
      <3> QED
        BY <1>3, <1>4, <1>5, <1>12, <2>5, <3>1 DEF Edits
    <2>10. Entered(entry, "idle")
      BY <1>4, <1>6, <1>12, <2>6, <2>8 DEF Entered
    <2>11. ASSUME e.thread \notin missed PROVE Shows(entry, after, news, "idle")
      <3>1. Shows(e, T, news, "edit")
        BY <1>4, <1>6, <1>12, <2>11
      <3> QED
        BY <1>12, <2>2, <2>3, <2>6, <2>7, <2>8, <3>1 DEF Shows
    <2>12. Tracks(entry, a, tg, timers \cup due, k, "idle")
      BY <1>12, <2>6, <2>8 DEF Tracks
    <2>13. AtMost(<<>>)
      BY DEF AtMost
    <2> QED
      BY <1>2, <1>4, <1>5, <1>7, <1>12, <2>6, <2>7, <2>9, <2>10, <2>11, <2>12, <2>13, CalmCall
  <1>13. Differs(k) => Live(e)
    BY <1>4 DEF Differs
  <1>14. \/ a = None /\ Moves(<<>>)
         \/ a # None /\ e = None /\ Moves(<<Do("create", k)>>)
         \/ /\ a # None /\ e # None /\ Moves(<<>>)
            /\ (e.muted /\ ~item.force) \/ ~Differs(k)
         \/ a # None /\ e # None /\ Live(e) /\ Edits(k, item.force)
    BY <1>2, <1>4, <1>5, <1>13 DEF EditItem
  <1> QED
    BY <1>8, <1>9, <1>10, <1>11, <1>12, <1>14

\* After a handler's last item nothing is at hand.
LEMMA NoMore ==
    AtMost(<<>>) /\ "idle" = IF <<>> = <<>> THEN "idle" ELSE <<>>[1].op
  BY DEF AtMost

\* exit and finish both begin with the finished marker.
LEMMA MarkSettles ==
    ASSUME IInv, Calm, CalmInv, todo # <<>>, Aside, UNCHANGED reg, NEW k \in Keys, k = item.key,
           mem[k] # None, ~mem[k].muted, ~mem[k].closed, item.op \in {"exit", "finish"},
           Calls(k, [tg[mem[k].thread] EXCEPT !.status = "exited"], [mem[k] EXCEPT !.status = "exited"],
                 <<Do("close", k)>>)
    PROVE  CalmInv'
  <1>1. PICK T : T = tg[mem[k].thread]
    OBVIOUS
  <1>2. PICK e : e = mem[k]
    OBVIOUS
  <1>3. /\ e \in Entry /\ T \in Topic /\ T.exists
        /\ e.thread \notin missed => Shows(e, T, news, item.op)
    BY <1>1, <1>2, AtHand DEF Entries
  <1>4. PICK after : after = [T EXCEPT !.status = "exited"]
    OBVIOUS
  <1>5. PICK entry : entry = [e EXCEPT !.status = "exited"]
    OBVIOUS
  <1>6. /\ entry \in Entry /\ entry.thread = e.thread /\ entry.name = e.name
        /\ entry.status = "exited" /\ entry.closed = e.closed /\ entry.muted = e.muted
    BY <1>3, <1>5 DEF Entry
  <1>7. after.exists /\ after.name = T.name /\ after.status = "exited" /\ after.closed = T.closed
    BY <1>3, <1>4 DEF Topic
  <1>8. ~Live(entry) /\ entry # None
    BY <1>6, NoneIsApart DEF Live
  <1>9. Calls(k, after, entry, <<Do("close", k)>>)
    BY <1>1, <1>2, <1>4, <1>5
  <1>10. Entered(entry, "close")
    BY <1>2, <1>6, <1>8 DEF Entered
  <1>11. ASSUME e.thread \notin missed PROVE Shows(entry, after, news, "close")
    BY <1>2, <1>3, <1>6, <1>7, <1>8, <1>11 DEF Shows
  <1>12. Tracks(e, agents[k], tg, timers \cup due, k, item.op) =>
           Tracks(entry, agents[k], tg, timers \cup due, k, "close")
    BY <1>8 DEF Tracks
  <1>13. /\ AtMost(<<Do("close", k)>>) /\ <<Do("close", k)>>[1].key = k
         /\ <<Do("close", k)>>[1].op = "close" /\ <<Do("close", k)>> # <<>> /\ "close" \in Follows
    BY DoFollows DEF Follows
  <1>14. item.op \notin {"pass", "learn", "snap", "redo"} \cup Reports
    BY DEF Reports
  <1>15. PICK f : f = <<Do("close", k)>>
    OBVIOUS
  <1>16. "close" = IF f = <<>> THEN "idle" ELSE f[1].op
    BY <1>13, <1>15
  <1> QED
    BY <1>2, <1>6, <1>7, <1>9, <1>10, <1>11, <1>12, <1>13, <1>14, <1>15, <1>16, CalmCall

\* exit: what the entry and the topic still lack, the close after it gives them.
LEMMA ExitSettles ==
    ASSUME IInv, Calm, CalmInv, todo # <<>>, Aside, UNCHANGED reg, ExitItem PROVE CalmInv'
  <1> PICK k : k = item.key
    OBVIOUS
  <1>1. item.op = "exit"
    BY DEF ExitItem
  <1>2. k \in Keys /\ ~Blocked
    BY <1>1, ItemKnown, CalmFree DEF Whole
  <1>3. PICK T : T = tg[mem[k].thread]
    OBVIOUS
  <1>4. PICK e : e = mem[k]
    OBVIOUS
  <1>5. mem[k] # None => /\ e \in Entry /\ T \in Topic /\ T.exists /\ Entered(e, "exit")
                         /\ e.thread \notin missed => Shows(e, T, news, "exit")
    BY <1>1, <1>2, <1>3, <1>4, AtHand DEF Entries
  <1>6. item.op \notin {"pass", "learn", "snap", "redo", "refresh", "finish", "create", "make"} \cup Reports
    BY <1>1 DEF Reports
  <1>7. CASE e = None /\ Moves(<<>>)
    BY <1>1, <1>2, <1>4, <1>6, <1>7, CalmOff
  <1>8. CASE /\ e # None /\ e.muted
             /\ mem' = [mem EXCEPT ![k].status = "exited", ![k].closed = TRUE] /\ Save
             /\ Continue(<<>>)
             /\ UNCHANGED <<tg, failed, agents, timers>>
    <2>1. PICK entry : entry = [e EXCEPT !.status = "exited", !.closed = TRUE]
      OBVIOUS
    <2>2. /\ entry \in Entry /\ entry.thread = e.thread /\ entry.name = e.name
          /\ entry.status = "exited" /\ entry.closed /\ entry.muted
      BY <1>4, <1>5, <1>8, <2>1 DEF Entry
    <2>3. mem' = [mem EXCEPT ![k] = entry] /\ disk' = mem'
      <3>1. mem' = [mem EXCEPT ![k] = [e EXCEPT !.status = "exited", !.closed = TRUE]]
        BY <1>2, <1>4, <1>8
      <3> QED
        BY <1>8, <2>1, <3>1, CalmSave
    <2>4. mem'[k] = entry /\ \A j \in Keys \ {k} : mem'[j] = mem[j]
      BY <1>2, <2>3 DEF IInv, TypeOK
    <2>5. Spares(k)
      BY <1>8, <2>4 DEF Spares
    <2>6. ~Live(entry) /\ entry # None
      BY <2>2, NoneIsApart DEF Live
    <2>7. Entered(entry, "idle")
      BY <2>2, <2>6 DEF Entered
    <2>8. e.thread \notin missed => Shows(entry, T, news, "idle")
      BY <1>4, <1>5, <1>8, <2>2, <2>6 DEF Shows
    <2>9. Entries(mem', tg', news, missed, k, "idle")
      BY <1>3, <1>4, <1>5, <1>8, <2>2, <2>4, <2>7, <2>8 DEF Entries
    <2>10. Tracks(mem[k], agents[k], tg, timers \cup due, k, item.op) =>
             Tracks(mem'[k], agents'[k], tg', timers' \cup due, k, "idle")
      BY <1>1, <1>8, <2>4, <2>6 DEF Tracks
    <2>11. AtMost(<<>>) /\ Continue(<<>>)
      BY <1>8, NoMore
    <2> QED
      BY <1>2, <1>6, <1>8, <2>3, <2>5, <2>9, <2>10, <2>11, OneAgent
  <1>9. CASE /\ e # None /\ ~e.muted /\ Live(e)
             /\ Calls(k, [tg[e.thread] EXCEPT !.status = "exited"], [e EXCEPT !.status = "exited"],
                      <<Do("close", k)>>)
    <2>1. ~e.closed
      BY <1>4, <1>5, <1>9 DEF Entered
    <2> QED
      BY <1>1, <1>2, <1>4, <1>9, <2>1, MarkSettles
  <1>10. CASE e # None /\ ~e.muted /\ ~Live(e) /\ Moves(<<Do("close", k)>>)
    <2>1. /\ AtMost(<<Do("close", k)>>) /\ <<Do("close", k)>>[1].key = k
          /\ <<Do("close", k)>>[1].op = "close" /\ <<Do("close", k)>> # <<>> /\ "close" \in Follows
      BY <1>2, DoFollows DEF Follows
    <2>2. PICK f : f = <<Do("close", k)>>
      OBVIOUS
    <2>3. Continue(f) /\ UNCHANGED <<mem, disk, tg, agents, timers>>
      BY <1>10, <2>2 DEF Moves
    <2>4. Entered(e, "close") /\ (e.thread \notin missed => Shows(e, T, news, "close"))
      BY <1>4, <1>5, <1>10 DEF Entered, Shows
    <2>5. Tracks(mem[k], agents[k], tg, timers \cup due, k, item.op) =>
            Tracks(mem[k], agents[k], tg, timers' \cup due, k, "close")
      BY <1>1, <1>4, <1>10 DEF Tracks
    <2>6. "close" = IF f = <<>> THEN "idle" ELSE f[1].op
      BY <2>1, <2>2
    <2>7. item.op # "redo" /\ timers' \in {timers, timers \ {k}}
      BY <1>1, <2>3
    <2> QED
      BY <1>2, <1>3, <1>4, <1>6, <2>1, <2>2, <2>3, <2>4, <2>5, <2>6, <2>7, CalmMove
  <1> QED
    BY <1>2, <1>4, <1>7, <1>8, <1>9, <1>10 DEF ExitItem

\* finish: the topic that was reopened is finished again.
LEMMA FinishSettles ==
    ASSUME IInv, Calm, CalmInv, todo # <<>>, Aside, UNCHANGED reg, FinishItem PROVE CalmInv'
  <1>1. item.op = "finish" /\ ~Blocked
    BY CalmFree DEF FinishItem
  <1>2. item.key \in Keys
    BY <1>1, ItemKnown DEF Whole
  <1>3. mem[item.key] = None \/ ~mem[item.key].muted
    BY <1>1, ItemKnown
  <1>4. mem[item.key] # None => ~mem[item.key].closed
    BY <1>1, <1>2, AtHand DEF Entries, Entered
  <1> QED
    BY <1>1, <1>2, <1>3, <1>4, MarkSettles DEF FinishItem

\* close: the topic of an ended agent closes, and its entry says so.
LEMMA CloseSettles ==
    ASSUME IInv, Calm, CalmInv, todo # <<>>, Aside, UNCHANGED reg, CloseItem PROVE CalmInv'
  <1> PICK k : k = item.key
    OBVIOUS
  <1>1. item.op = "close"
    BY DEF CloseItem
  <1>2. k \in Keys /\ ~Blocked /\ ~Live(mem[k])
    BY <1>1, ItemKnown, CalmFree DEF Whole
  <1>3. item.op \notin {"pass", "learn", "snap", "redo", "refresh", "finish", "create", "make"} \cup Reports
    BY <1>1 DEF Reports
  <1>4. CASE (mem[k] = None \/ mem[k].closed) /\ Moves(<<>>)
    BY <1>1, <1>2, <1>3, <1>4, CalmOff
  <1>5. CASE /\ mem[k] # None
             /\ Calls(k, [tg[mem[k].thread] EXCEPT !.closed = TRUE], [mem[k] EXCEPT !.closed = TRUE], <<>>)
    <2>1. PICK T : T = tg[mem[k].thread]
      OBVIOUS
    <2>2. PICK e : e = mem[k]
      OBVIOUS
    <2>3. /\ e \in Entry /\ T \in Topic /\ T.exists
          /\ e.thread \notin missed => Shows(e, T, news, "close")
      BY <1>1, <1>2, <1>5, <2>1, <2>2, AtHand DEF Entries
    <2>4. PICK after : after = [T EXCEPT !.closed = TRUE]
      OBVIOUS
    <2>5. PICK entry : entry = [e EXCEPT !.closed = TRUE]
      OBVIOUS
    <2>6. /\ entry \in Entry /\ entry.thread = e.thread /\ entry.name = e.name
          /\ entry.status = e.status /\ entry.closed /\ entry.muted = e.muted
      BY <2>3, <2>5 DEF Entry
    <2>7. after.exists /\ after.name = T.name /\ after.status = T.status /\ after.closed
      BY <2>3, <2>4 DEF Topic
    <2>8. ~Live(entry) /\ entry # None /\ ~Live(e)
      BY <1>2, <1>5, <2>2, <2>6, NoneIsApart DEF Live
    <2>9. Calls(k, after, entry, <<>>)
      BY <1>5, <2>1, <2>2, <2>4, <2>5
    <2>10. Entered(entry, "idle")
      BY <2>6, <2>8 DEF Entered
    <2>11. ASSUME e.thread \notin missed PROVE Shows(entry, after, news, "idle")
      BY <2>3, <2>6, <2>7, <2>8, <2>11 DEF Shows
    <2>12. Tracks(e, agents[k], tg, timers \cup due, k, "close") =>
             Tracks(entry, agents[k], tg, timers \cup due, k, "idle")
      BY <1>5, <2>2, <2>6, <2>8 DEF Tracks
    <2> QED
      BY <1>1, <1>2, <1>3, <1>5, <2>2, <2>6, <2>7, <2>9, <2>10, <2>11, <2>12, NoMore, CalmCall
  <1> QED
    BY <1>2, <1>4, <1>5 DEF CloseItem

\* Between most items the topic of their agent stays settled.
LEMMA Onwards ==
    ASSUME NEW e, NEW T, NEW w, NEW op, NEW next, op \notin {"refresh", "finish", "close"},
           next \notin {"refresh", "finish"}
    PROVE  (Shows(e, T, w, op) => Shows(e, T, w, next)) /\ (Entered(e, op) => Entered(e, next))
  BY DEF Shows, Entered

\* create and revive: the topic reopens, or a new one is to be made.
LEMMA CreateSettles ==
    ASSUME IInv, Calm, CalmInv, todo # <<>>, Aside, UNCHANGED reg, CreateItem PROVE CalmInv'
  <1> PICK k : k = item.key
    OBVIOUS
  <1>1. item.op = "create"
    BY DEF CreateItem
  <1>2. k \in Keys /\ ~Blocked /\ ~Live(mem[k])
    BY <1>1, ItemKnown, CalmFree DEF Whole
  <1>3. PICK T : T = tg[mem[k].thread]
    OBVIOUS
  <1>4. PICK e : e = mem[k]
    OBVIOUS
  <1>5. mem[k] # None => /\ e \in Entry /\ T \in Topic /\ T.exists /\ Entered(e, "create")
                         /\ e.thread \notin missed => Shows(e, T, news, "create")
    BY <1>1, <1>2, <1>3, <1>4, AtHand DEF Entries
  <1>6. mem[k] # None => e.closed
    BY <1>2, <1>4, <1>5 DEF Entered
  <1>7. item.op \notin {"pass", "learn", "snap", "redo"} \cup Reports
    BY <1>1 DEF Reports
  <1>8. CASE mem[k] = None /\ Moves(<<Do("make", k)>>)
    <2>1. /\ AtMost(<<Do("make", k)>>) /\ <<Do("make", k)>>[1].key = k
          /\ <<Do("make", k)>>[1].op = "make" /\ <<Do("make", k)>> # <<>> /\ "make" \in Follows
      BY <1>2, DoFollows DEF Follows
    <2>2. PICK f : f = <<Do("make", k)>>
      OBVIOUS
    <2>3. Continue(f) /\ UNCHANGED <<mem, disk, tg, agents, timers>>
      BY <1>8, <2>2 DEF Moves
    <2>4. Tracks(mem[k], agents[k], tg, timers' \cup due, k, "make")
      BY DEF Tracks
    <2> QED
      BY <1>2, <1>7, <1>8, <2>1, <2>2, <2>3, <2>4, CalmMove
  <1>9. CASE /\ mem[k] # None
             /\ Calls(k, [T EXCEPT !.closed = FALSE], [e EXCEPT !.closed = FALSE, !.muted = FALSE],
                      <<Do("refresh", k)>>)
    <2>1. PICK after : after = [T EXCEPT !.closed = FALSE]
      OBVIOUS
    <2>2. PICK entry : entry = [e EXCEPT !.closed = FALSE, !.muted = FALSE]
      OBVIOUS
    <2>3. /\ entry \in Entry /\ entry.thread = e.thread /\ entry.name = e.name
          /\ entry.status = e.status /\ ~entry.closed /\ ~entry.muted
      BY <1>5, <1>9, <2>2 DEF Entry
    <2>4. after.exists /\ after.name = T.name /\ after.status = T.status /\ ~after.closed
      BY <1>5, <1>9, <2>1 DEF Topic
    <2>5. /\ AtMost(<<Do("refresh", k)>>) /\ <<Do("refresh", k)>>[1].key = k
          /\ <<Do("refresh", k)>>[1].op = "refresh" /\ <<Do("refresh", k)>> # <<>> /\ "refresh" \in Follows
      BY <1>2, DoFollows DEF Follows
    <2>6. PICK f : f = <<Do("refresh", k)>>
      OBVIOUS
    <2>7. Calls(k, after, entry, f)
      BY <1>9, <2>1, <2>2, <2>6
    <2>8. Entered(entry, "refresh")
      BY <2>3 DEF Entered
    <2>9. ASSUME e.thread \notin missed PROVE Shows(entry, after, news, "refresh")
      BY <1>5, <1>9, <2>3, <2>4, <2>9 DEF Shows
    <2>10. Tracks(entry, agents[k], tg, timers \cup due, k, "refresh")
      BY DEF Tracks
    <2>11. "refresh" = IF f = <<>> THEN "idle" ELSE f[1].op
      BY <2>5, <2>6
    <2> QED
      BY <1>2, <1>4, <1>7, <1>9, <2>3, <2>4, <2>5, <2>6, <2>7, <2>8, <2>9, <2>10, <2>11, CalmCall
  <1> QED
    BY <1>2, <1>3, <1>4, <1>5, <1>6, <1>8, <1>9 DEF CreateItem

\* The sweep: the entry goes, and no agent wants it.
LEMMA DeleteSettles ==
    ASSUME IInv, Calm, CalmInv, todo # <<>>, Aside, UNCHANGED reg, DeleteItem PROVE CalmInv'
  <1> PICK k : k = item.key
    OBVIOUS
  <1>1. item.op = "delete"
    BY DEF DeleteItem
  <1>2. k \in Keys /\ mem[k] # None /\ ~Live(mem[k])
    BY <1>1, ItemKnown DEF Whole
  <1>3. PICK after : after = [tg[mem[k].thread] EXCEPT !.exists = FALSE]
    OBVIOUS
  <1>4. Calls(k, after, None, <<>>)
    BY <1>3 DEF DeleteItem
  <1>5. /\ tg' = [tg EXCEPT ![mem[k].thread] = after] /\ mem' = [mem EXCEPT ![k] = None]
        /\ disk' = mem' /\ Continue(<<>>) /\ UNCHANGED <<agents, timers>>
    BY <1>2, <1>4, CalmCalls
  <1>6. Spares(k) /\ mem'[k] = None /\ Len(tg') = Len(tg)
    BY ONLY <1>5, IInv, <1>2, WriteSpares
  <1>7. Entries(mem', tg', news, missed, k, "idle")
    BY <1>6 DEF Entries
  <1>8. Tracks(mem[k], agents[k], tg, timers \cup due, k, item.op) =>
          Tracks(mem'[k], agents'[k], tg', timers' \cup due, k, "idle")
    BY <1>1, <1>2, <1>5, <1>6 DEF Tracks
  <1>9. item.op \notin {"pass", "learn", "snap", "redo"} \cup Reports
    BY <1>1 DEF Reports
  <1> QED
    BY <1>2, <1>5, <1>6, <1>7, <1>8, <1>9, NoMore, OneAgent

\* The pass comes to one agent and hands it to create, edit or exit.
LEMMA RedoSettles ==
    ASSUME IInv, Calm, CalmInv, todo # <<>>, Aside, UNCHANGED reg, RedoItem PROVE CalmInv'
  <1> PICK k : k = item.key
    OBVIOUS
  <1>1. item.op = "redo"
    BY DEF RedoItem
  <1>2. k \in Keys /\ item \in Item
    BY <1>1, ItemKnown DEF Whole
  <1>3. item.op \notin {"pass", "learn", "snap"} \cup Reports
    BY <1>1 DEF Reports
  <1>4. PICK f : f = IF ~Live(mem[k]) THEN <<Do("create", k)>>
                     ELSE <<IF agents[k] = None THEN Do("exit", k) ELSE [item EXCEPT !.op = "edit"]>>
    OBVIOUS
  <1>5. /\ Continue(f) /\ UNCHANGED <<mem, disk, tg, agents>> /\ timers' \in {timers, timers \ {k}}
        /\ Live(mem[k]) \/ agents[k] # None
    BY <1>4 DEF RedoItem, Moves
  <1>6. /\ AtMost(f) /\ f # <<>> /\ f[1].key = k /\ f[1].op \in {"create", "exit", "edit"}
        /\ f[1].op = "exit" => agents[k] = None
        /\ f[1].op = "edit" => agents[k] # None /\ Live(mem[k])
    <2>1. CASE ~Live(mem[k])
      <3>1. f = <<Do("create", k)>>
        BY <1>4, <2>1
      <3> QED
        BY <1>2, <3>1, DoFollows DEF Follows
    <2>2. CASE Live(mem[k]) /\ agents[k] = None
      <3>1. f = <<Do("exit", k)>>
        BY <1>4, <2>2
      <3> QED
        BY <1>2, <2>2, <3>1, DoFollows DEF Follows
    <2>3. CASE Live(mem[k]) /\ agents[k] # None
      <3>1. PICK x : x = [item EXCEPT !.op = "edit"]
        OBVIOUS
      <3>2. x \in Item /\ x.op = "edit" /\ x.key = k
        BY <1>2, <3>1 DEF Item, Ops
      <3>3. f = <<x>>
        BY <1>4, <2>3, <3>1
      <3> QED
        BY <2>3, <3>2, <3>3 DEF AtMost
    <2> QED
      BY <2>1, <2>2, <2>3
  <1>7. PICK op : op = f[1].op
    OBVIOUS
  <1>8. op = IF f = <<>> THEN "idle" ELSE f[1].op
    BY <1>6, <1>7
  <1>9. Entries(mem, tg, news, missed, k, "redo")
    BY <1>1, <1>2, AtHand
  <1>10. mem[k] # None => /\ Entered(mem[k], op)
                          /\ mem[k].thread \notin missed => Shows(mem[k], tg[mem[k].thread], news, op)
    BY <1>6, <1>7, <1>9, Onwards DEF Entries
  <1>11. Tracks(mem[k], agents[k], tg, timers' \cup due, k, op)
    BY <1>5, <1>6, <1>7 DEF Tracks
  <1>12. f # <<>> => f[1].key = k /\ f[1].op \in Follows
    BY <1>6 DEF Follows
  <1> QED
    BY <1>2, <1>3, <1>5, <1>6, <1>8, <1>10, <1>11, <1>12, CalmMove

\* Handle: the reconciler learns of an agent, and an item or a timer follows.
LEMMA HandleSettles ==
    ASSUME IInv, Calm, CalmInv, todo # <<>>, Aside, UNCHANGED reg, HandleEvent PROVE CalmInv'
  <1> PICK k : k = item.key
    OBVIOUS
  <1>1. item.op \in Reports /\ item.op \notin {"pass", "learn", "snap", "redo", "refresh", "finish", "close"}
    BY DEF HandleEvent, Reports
  <1>2. k \in Keys /\ item \in Item /\ (item.op \in {"appeared", "changed"} => item.look # None)
    BY <1>1, ItemKnown DEF Whole, Reports
  <1>3. item.op = "gone" => item.look = None
    <2>1. item = todo[1] /\ 1 \in 1..Len(todo)
      BY DEF item, IInv, TypeOK
    <2> QED
      BY <2>1 DEF CalmInv, Phases
  <1>4. agents' = [agents EXCEPT ![k] = item.look] /\ UNCHANGED <<mem, disk, tg, failed, trouble>>
    BY DEF HandleEvent
  <1>5. agents'[k] = item.look /\ \A j \in Keys \ {k} : agents'[j] = agents[j]
    BY <1>2, <1>4 DEF IInv, TypeOK
  <1>6. Entries(mem, tg, news, missed, k, item.op) /\ disk' = mem'
    BY <1>2, <1>4, AtHand DEF CalmInv
  <1>7. ASSUME NEW o \in {"exit", "create", "edit", "idle"} PROVE Entries(mem', tg', news, missed, k, o)
    BY <1>1, <1>4, <1>6, Onwards DEF Entries
  <1>8. ASSUME NEW o \in {"exit", "create", "edit"}, Continue(<<Do(o, k)>>), timers' \in {timers, timers \ {k}},
               Tracks(mem[k], item.look, tg, timers' \cup due, k, o)
        PROVE  CalmInv'
    <2>1. /\ AtMost(<<Do(o, k)>>) /\ <<Do(o, k)>>[1].key = k
          /\ <<Do(o, k)>>[1].op = o /\ <<Do(o, k)>> # <<>> /\ o \in Follows
      BY <1>2, DoFollows DEF Follows
    <2>2. PICK f : f = <<Do(o, k)>>
      OBVIOUS
    <2>3. o = IF f = <<>> THEN "idle" ELSE f[1].op
      BY <2>1, <2>2
    <2>4. Spares(k)
      BY <1>4, <1>5, <1>8 DEF Spares
    <2>5. Tracks(mem'[k], agents'[k], tg', timers' \cup due, k, o)
      BY <1>4, <1>5, <1>8
    <2> QED
      BY <1>1, <1>2, <1>4, <1>6, <1>7, <1>8, <2>1, <2>2, <2>3, <2>4, <2>5, OneAgent
  <1>9. CASE item.op = "gone" /\ timers' = timers \ {k} /\ Continue(<<Do("exit", k)>>)
    <2>1. Tracks(mem[k], item.look, tg, timers' \cup due, k, "exit")
      BY <1>3, <1>9 DEF Tracks
    <2> QED
      BY <1>8, <1>9, <2>1
  <1>10. CASE Continue(<<Do("create", k)>>) /\ UNCHANGED timers
    <2>1. Tracks(mem[k], item.look, tg, timers' \cup due, k, "create")
      BY DEF Tracks
    <2> QED
      BY <1>8, <1>10, <2>1
  <1>11. CASE item.op = "appeared" /\ Live(mem[k]) /\ Continue(<<Do("edit", k)>>) /\ UNCHANGED timers
    <2>1. Tracks(mem[k], item.look, tg, timers' \cup due, k, "edit")
      BY <1>2, <1>11 DEF Tracks
    <2> QED
      BY <1>8, <1>11, <2>1
  <1>12. CASE item.op = "changed" /\ Live(mem[k]) /\ timers' = timers \cup {k} /\ Continue(<<>>)
    <2>1. Tracks(mem'[k], agents'[k], tg', timers' \cup due, k, "idle")
      BY <1>2, <1>4, <1>5, <1>12 DEF Tracks
    <2>2. Spares(k)
      BY <1>4, <1>5, <1>12 DEF Spares
    <2> QED
      BY <1>1, <1>2, <1>4, <1>6, <1>7, <1>12, <2>1, <2>2, NoMore, OneAgent
  <1> QED
    BY <1>9, <1>10, <1>11, <1>12 DEF HandleEvent

\* createTopic succeeds, or the group is full.
LEMMA MakeSettles ==
    ASSUME IInv, IInv', Calm, CalmInv, todo # <<>>, Aside, UNCHANGED reg, MakeItem PROVE CalmInv'
  <1> PICK k : k = item.key
    OBVIOUS
  <1>1. item.op = "make" /\ item.op \notin {"pass", "learn", "snap", "redo"} \cup Reports
    BY DEF MakeItem, Reports
  <1>2. TypeOK /\ Mapped /\ k \in Keys /\ agents[k] # None /\ mem[k] = None
    BY <1>1, ItemKnown DEF Whole
  <1>3. PICK a : a = agents[k]
    OBVIOUS
  <1>4. a \in Look /\ Display(a.name) \in TopicName /\ a.status \in Statuses /\ Display(a.name)[2] = "full"
    BY <1>2, <1>3, Dressed, DisplayFull DEF TypeOK
  <1>5. PICK topic : topic = [key |-> k, name |-> Display(a.name), status |-> a.status,
                              closed |-> FALSE, exists |-> TRUE]
    OBVIOUS
  <1>6. /\ topic \in Topic /\ topic.exists /\ topic.name = Display(a.name) /\ topic.status = a.status
        /\ ~topic.closed
    BY <1>2, <1>4, <1>5 DEF Topic
  <1>7. UNCHANGED <<agents, timers>> /\ Continue(<<>>)
    BY DEF MakeItem
  <1>8. PICK entry : entry = [thread |-> Len(tg'), name |-> Display(a.name), status |-> a.status,
                              closed |-> FALSE, muted |-> FALSE]
    OBVIOUS
  <1>9. PICK n \in {0, 1} :
          /\ Len(tg) + n <= MaxThreads
          /\ More(tg, tg', n, topic)
          /\ \/ n = 1 /\ mem' = [mem EXCEPT ![k] = entry] /\ disk' = mem'
             \/ n = 0 /\ Len(tg) = MaxThreads /\ UNCHANGED <<mem, disk>>
    <2>1. ~Faults
      BY DEF Calm
    <2>2. PICK n \in 0..MaxTries :
          /\ Len(tg) + n <= MaxThreads
          /\ tg' = tg \o [i \in 1..n |-> topic]
          /\ \/ n = 1 /\ mem' = [mem EXCEPT ![k] = entry] /\ Save
             \/ n = 0 /\ Len(tg) = MaxThreads /\ UNCHANGED <<mem, disk>>
      BY <1>3, <1>5, <1>8, <2>1 DEF MakeItem
    <2> QED
      BY <2>2, CalmSave DEF More
  <1>10. /\ Len(tg') = Len(tg) + n
         /\ \A t \in 1..Len(tg) : t \in 1..Len(tg') /\ tg'[t] = tg[t]
         /\ \A t \in 1..Len(tg') : t \in 1..Len(tg) \/ (t > Len(tg) /\ tg'[t] = topic)
    <2>1. tg \in Seq(Topic) /\ n \in Nat
      BY <1>2 DEF TypeOK
    <2> QED
      BY ONLY <1>6, <1>9, <2>1, MoreTopics
  <1>11. Len(tg) \in Nat /\ MaxThreads \in Nat
    BY <1>2, MirrorAssumption DEF TypeOK
  <1>12. /\ \A j \in Keys \ {k} : mem'[j] = mem[j]
         /\ mem'[k] = IF n = 1 THEN entry ELSE None
    BY <1>2, <1>9 DEF TypeOK
  <1>13. Spares(k)
    <2>1. \A j \in Keys \ {k} : mem[j] # None => tg'[mem[j].thread] = tg[mem[j].thread]
      BY <1>2, <1>10 DEF Mapped, Links
    <2>2. Len(tg) = MaxThreads => Len(tg') = MaxThreads
      BY <1>9, <1>10, <1>11
    <2> QED
      BY <1>7, <1>12, <2>1, <2>2 DEF Spares
  <1>14. disk' = mem'
    BY <1>9 DEF CalmInv
  <1>15. Entries(mem', tg', news, missed, k, "idle") /\ Tracks(mem'[k], agents'[k], tg', timers' \cup due, k, "idle")
    <2>1. CASE n = 0
      <3>1. mem'[k] = None /\ Len(tg') = MaxThreads
        BY <1>9, <1>10, <1>11, <1>12, <2>1
      <3> QED
        BY <3>1 DEF Entries, Tracks
    <2>2. CASE n = 1
      <3>1. Len(tg') \in 1..Len(tg') /\ ~(Len(tg') \in 1..Len(tg))
        BY <1>10, <1>11, <2>2
      <3>2. tg'[Len(tg')] = topic
        BY <1>10, <3>1
      <3>3. entry.thread = Len(tg') /\ entry.name = topic.name /\ entry.status = topic.status
            /\ ~entry.closed /\ ~entry.muted
        BY <1>6, <1>8
      <3>4. entry # None
        <4>1. Len(tg') \in 1..MaxThreads
          BY <1>9, <1>10, <1>11, <2>2
        <4>2. entry \in Entry
          BY <1>4, <1>8, <4>1 DEF Entry
        <4> QED
          BY <4>2, NoneIsApart
      <3>5. Live(entry)
        BY <1>4, <1>6, <3>3, <3>4, LiveStatus
      <3>6. Entered(entry, "idle")
        BY <3>3, <3>5 DEF Entered
      <3>7. Shows(entry, topic, news, "idle")
        BY <1>4, <1>6, <3>3, <3>5 DEF Shows
      <3>8. Tracks(entry, a, tg', timers' \cup due, k, "idle")
        BY <1>4, <1>6, <3>3, <3>4, <3>5, NoneIsApart DEF Tracks
      <3> QED
        BY <1>3, <1>6, <1>7, <1>12, <2>2, <3>2, <3>3, <3>6, <3>7, <3>8 DEF Entries
    <2> QED
      BY <2>1, <2>2
  <1> QED
    BY <1>1, <1>2, <1>7, <1>13, <1>14, <1>15, NoMore, OneAgent

\* The handler after an item that left a list of waiting items.
LEMMA LongTurn ==
    ASSUME IInv, Phases, todo # <<>>, NEW f \in Seq(Item), Continue(f),
           \A i \in 1..Len(f) : f[i].op \in Waits
    PROVE  /\ todo' \in Seq(Item)
           /\ \A i \in 1..Len(todo') : /\ todo'[i].op \in Waits
                                       /\ \/ \E j \in 1..Len(f) : todo'[i] = f[j]
                                          \/ \E j \in 2..Len(todo) : todo'[i] = todo[j]
           /\ \A j \in 1..Len(f) : \E i \in 1..Len(todo') : todo'[i] = f[j]
           /\ \A k \in Keys : OpOf(todo', k) \in Waits \cup {"idle"}
           /\ Passes(todo) /\ item.op # "pass" => Passes(todo')
           /\ \A k \in Keys : Will(todo, k) /\ item.op \notin {"pass", "redo"} => Will(todo', k)
  <1>1. todo \in Seq(Item) /\ item = todo[1]
    BY DEF IInv, TypeOK, item
  <1>2. PICK s : s = todo
    OBVIOUS
  <1>3. PICK q : q = todo'
    OBVIOUS
  <1>4. q = f \o Tail(s) /\ s \in Seq(Item) /\ s # <<>>
    BY <1>1, <1>2, <1>3 DEF Continue, rest
  <1>5. /\ q \in Seq(Item) /\ Len(q) = Len(f) + Len(s) - 1 /\ Len(f) \in Nat /\ Len(s) \in Nat \ {0}
        /\ \A i \in 1..Len(f) : i \in 1..Len(q) /\ q[i] = f[i]
        /\ \A i \in 2..Len(s) : i + Len(f) - 1 \in 1..Len(q) /\ q[i + Len(f) - 1] = s[i]
        /\ \A i \in 1..Len(q) : \/ i \in 1..Len(f) /\ q[i] = f[i]
                                \/ \E j \in 2..Len(s) : i = j + Len(f) - 1 /\ q[i] = s[j]
    BY ONLY <1>4, f \in Seq(Item), Resumed
  <1>6. \A j \in 2..Len(s) : s[j].op \in Waits
    BY <1>2 DEF Phases
  <1>7. \A i \in 1..Len(q) : \/ \E j \in 1..Len(f) : q[i] = f[j]
                             \/ \E j \in 2..Len(s) : q[i] = s[j]
    BY <1>5
  <1>8. \A i \in 1..Len(q) : q[i].op \in Waits
    BY <1>6, <1>7
  <1>9. \A k \in Keys : OpOf(q, k) \in Waits \cup {"idle"}
    <2>1. q # <<>> => 1 \in 1..Len(q)
      BY <1>5
    <2> QED
      BY <1>8, <2>1 DEF OpOf
  <1>10. \A j \in 2..Len(s) : \E i \in 1..Len(q) : q[i] = s[j]
    BY <1>5
  <1>11. \A j \in 1..Len(s) : j = 1 \/ j \in 2..Len(s)
    BY <1>5
  <1>12. Passes(s) /\ s[1].op # "pass" => Passes(q)
    BY <1>10, <1>11 DEF Passes
  <1>13. \A k \in Keys : Will(s, k) /\ s[1].op \notin {"pass", "redo"} => Will(q, k)
    BY <1>10, <1>11, <1>12 DEF Will
  <1>14. \A j \in 1..Len(f) : \E i \in 1..Len(q) : q[i] = f[j]
    BY <1>5
  <1> QED
    BY <1>1, <1>2, <1>3, <1>5, <1>7, <1>8, <1>9, <1>12, <1>13, <1>14

\* What an item about no agent may leave.
Leaves == {"edit", "redo", "unclosed", "prune"}

\* An item about no agent, at the start or the end of the daemon: it forgets finished
\* entries at most, and a pass sees to every agent.
LEMMA WholeSettles ==
    ASSUME IInv, CalmInv, todo # <<>>, Aside, item.op \in Whole, NEW f \in Seq(Item), Continue(f),
           \A i \in 1..Len(f) : f[i].op \in Leaves, UNCHANGED tg, disk' = mem', timers' \subseteq timers,
           \A k \in Keys : mem'[k] = mem[k] \/ (mem'[k] = None /\ ~Live(mem[k])),
           item.op = "pass" =>
             /\ agents' = reg'
             /\ \A k \in Keys : Will(todo', k) \/ Tracks(mem'[k], agents'[k], tg', timers' \cup due', k, "idle"),
           item.op # "pass" => agents' = agents /\ (item.op = "learn" \/ reg' = reg)
    PROVE  CalmInv'
  <1>1. Phases /\ todo \in Seq(Item) /\ item = todo[1] /\ 1 \in 1..Len(todo)
    BY DEF CalmInv, IInv, TypeOK, item
  <1>2. /\ todo' \in Seq(Item)
        /\ \A i \in 1..Len(todo') : /\ todo'[i].op \in Waits
                                    /\ \/ \E j \in 1..Len(f) : todo'[i] = f[j]
                                       \/ \E j \in 2..Len(todo) : todo'[i] = todo[j]
        /\ \A k \in Keys : OpOf(todo', k) \in Waits \cup {"idle"}
        /\ Passes(todo) /\ item.op # "pass" => Passes(todo')
        /\ \A k \in Keys : Will(todo, k) /\ item.op \notin {"pass", "redo"} => Will(todo', k)
    <2>1. \A i \in 1..Len(f) : f[i].op \in Waits
      BY DEF Leaves, Waits
    <2> QED
      BY ONLY <1>1, <2>1, IInv, todo # <<>>, f \in Seq(Item), Continue(f), LongTurn
  <1>3. UNCHANGED <<events, proc, due, gates, signals, news, missed>>
    BY DEF Aside, control
  <1>4. item.op \in Waits \cup {"list", "flush"} /\ item.op # "redo" /\ proc \notin {"up", "down"}
    BY <1>1 DEF Phases, Whole, Waits
  <1>5. \A j \in 2..Len(todo) : j \in 1..Len(todo)
    BY <1>1
  <1>6. Phases'
    <2>1. \A i \in 2..Len(todo') : i \in 1..Len(todo')
      BY <1>2
    <2>2. \A i \in 1..Len(todo') : todo'[i].op \notin {"snap", "gone"} \cup Reports
      BY <1>2 DEF Waits, Reports
    <2>3. ASSUME NEW i \in 1..Len(todo'), todo'[i].op = "learn" PROVE Passes(todo')
      <3>1. PICK j \in 2..Len(todo) : todo'[i] = todo[j]
        BY <1>2, <2>3 DEF Leaves
      <3>2. Passes(todo)
        BY <1>1, <1>5, <2>3, <3>1 DEF Phases
      <3>3. item.op # "pass"
        <4>1. \A m \in 2..Len(todo) : todo[m].op \in {"snap", "learn"} => todo[1].op = "list"
          BY DEF IInv, Handler, Shape
        <4> QED
          BY <1>1, <2>3, <3>1, <4>1
      <3> QED
        BY <1>2, <3>2, <3>3
    <2>4. ASSUME proc = "starting"
          PROVE  /\ events' = <<>> /\ timers' = {} /\ due' = {} /\ (agents' = reg' \/ Passes(todo'))
      <3>1. events = <<>> /\ timers = {} /\ due = {} /\ (agents = reg \/ Passes(todo))
        BY <1>1, <2>4 DEF Phases
      <3>2. item.op = "learn" => Passes(todo)
        BY <1>1 DEF Phases
      <3> QED
        BY <1>2, <1>3, <3>1, <3>2
    <2> QED
      BY <1>2, <1>3, <1>4, <2>1, <2>2, <2>3, <2>4 DEF Phases
  <1>7. ASSUME NEW k \in Keys PROVE Agrees(k)'
    <2>1. Agrees(k)
      BY DEF CalmInv
    <2>2. PICK o : o = OpOf(todo, k)
      OBVIOUS
    <2>3. o \in Waits \cup Reports \cup {"list", "flush", "idle"}
      BY <1>1, <1>4, <2>2 DEF OpOf
    <2>4. Entries(mem, tg, news, missed, k, "idle")
      BY <2>1, <2>2, <2>3, EntriesWait DEF Agrees
    <2>5. Entries(mem', tg', news', missed', k, "idle")
      BY <1>3, <2>4 DEF Entries
    <2>6. Entries(mem', tg', news', missed', k, OpOf(todo', k))
      BY <1>2, <2>5, EntriesWait
    <2>7. ASSUME proc = "starting", ~Will(todo', k)
          PROVE  Tracks(mem'[k], agents'[k], tg', timers' \cup due', k, OpOf(todo', k))
      <3>1. Tracks(mem'[k], agents'[k], tg', timers' \cup due', k, "idle")
        <4>1. CASE item.op = "pass"
          BY <2>7, <4>1
        <4>2. CASE item.op # "pass"
          <5>1. ~Will(todo, k)
            BY <1>2, <1>4, <2>7, <4>2
          <5>2. Tracks(mem[k], agents[k], tg, timers \cup due, k, o)
            BY <2>1, <2>2, <2>7, <5>1 DEF Agrees, Tracking
          <5>3. timers = {} /\ due = {}
            BY <1>1, <2>7 DEF Phases
          <5>4. timers' \cup due' = timers \cup due
            BY <1>3, <5>3
          <5>5. o \notin {"create", "make", "refresh", "exit", "finish", "edit"}
            BY <1>1, <2>2 DEF OpOf, Whole
          <5>6. Tracks(mem[k], agents[k], tg, timers \cup due, k, "idle")
            BY <5>2, <5>5 DEF Tracks
          <5> QED
            BY <4>2, <5>4, <5>6 DEF Tracks
        <4> QED
          BY <4>1, <4>2
      <3> QED
        BY <1>2, <3>1, TracksWait
    <2> QED
      BY <1>3, <1>4, <2>6, <2>7 DEF Agrees, Tracking
  <1>8. /\ gates' = {} /\ signals' = {} /\ disk' = mem'
        /\ \A i \in 1..Len(events') : events'[i].op = "gone" => events'[i].look = None
        /\ \A i \in 1..Len(news') : news'[i].op = "renamed" => news'[i].name \in Typed
    BY <1>3 DEF CalmInv
  <1> QED
    BY <1>6, <1>7, <1>8 DEF CalmInv

\* The flush turns armed timers into edits.
LEMMA FlushSettles ==
    ASSUME IInv, CalmInv, todo # <<>>, Aside, UNCHANGED reg, FlushItem PROVE CalmInv'
  <1>1. item.op = "flush" /\ item.op \in Whole /\ item.op # "pass"
    BY DEF FlushItem, Whole
  <1>2. timers \in SUBSET Keys
    BY DEF IInv, TypeOK
  <1>3. PICK f : f = SetToSeq(Plain("edit", timers, FALSE))
    OBVIOUS
  <1>4. Continue(f) /\ UNCHANGED <<mem, disk, tg, agents>> /\ timers' \subseteq timers
    BY <1>3 DEF FlushItem, Plain, Do
  <1>5. Listing(f, "edit", timers)
    BY <1>2, <1>3, PlainList DEF Ops
  <1>6. f \in Seq(Item) /\ \A i \in 1..Len(f) : f[i].op \in Leaves
    BY <1>5 DEF Listing, Leaves
  <1>7. disk' = mem' /\ \A k \in Keys : mem'[k] = mem[k]
    BY <1>4 DEF CalmInv
  <1> QED
    BY <1>1, <1>4, <1>6, <1>7, WholeSettles

\* An item about no agent that leaves nothing.
LEMMA WholeEnds ==
    ASSUME IInv, CalmInv, todo # <<>>, Aside, item.op \in Whole, item.op # "pass", Continue(<<>>),
           UNCHANGED <<tg, agents, timers>>, disk' = mem', item.op = "learn" \/ reg' = reg,
           \A k \in Keys : mem'[k] = mem[k] \/ (mem'[k] = None /\ ~Live(mem[k]))
    PROVE  CalmInv'
  <1>1. <<>> \in Seq(Item) /\ \A i \in 1..Len(<<>>) : <<>>[i].op \in Leaves
    OBVIOUS
  <1> QED
    BY <1>1, WholeSettles

\* No finished entry was left unclosed.
LEMMA UnclosedSettles ==
    ASSUME IInv, CalmInv, todo # <<>>, Aside, UNCHANGED reg, UnclosedItem PROVE CalmInv'
  <1>1. item.op = "unclosed" /\ item.op \in Whole /\ item.op # "pass" /\ item = todo[1]
    BY DEF UnclosedItem, Whole, IInv, TypeOK, item
  <1>2. ASSUME NEW k \in Keys, mem[k] # None, ~Live(mem[k]) PROVE mem[k].closed
    <2>1. OpOf(todo, k) \in {"unclosed", "idle"}
      BY <1>1 DEF OpOf
    <2> QED
      BY <1>2, <2>1 DEF CalmInv, Agrees, Entries, Entered
  <1>3. PICK S : S = {Do("close", k) : k \in
                        {j \in Keys : mem[j] # None /\ ~Live(mem[j]) /\ ~mem[j].closed /\ ~mem[j].muted}}
    OBVIOUS
  <1>4. S = {}
    BY <1>2, <1>3
  <1>5. PICK f : f = SetToSeq(S)
    OBVIOUS
  <1>6. f = <<>>
    <2>1. IsFiniteSet(S)
      BY <1>4, FS_EmptySet
    <2>2. f \in Seq(S) /\ \A i \in 1..Len(f) : f[i] \in S
      BY ONLY <1>5, <2>1, ListOf
    <2> QED
      BY <1>4, <2>2
  <1>7. Moves(<<>>)
    BY <1>3, <1>5, <1>6 DEF UnclosedItem
  <1>8. Continue(<<>>) /\ UNCHANGED <<mem, disk, tg, agents, timers>>
    BY <1>7 DEF Moves
  <1> QED
    BY <1>1, <1>8, WholeEnds DEF CalmInv

\* Only entries of ended agents are forgotten.
LEMMA PruneSettles ==
    ASSUME IInv, Calm, CalmInv, todo # <<>>, Aside, UNCHANGED reg, PruneItem PROVE CalmInv'
  <1>1. item.op = "prune" /\ item.op \in Whole /\ item.op # "pass"
    BY DEF PruneItem, Whole
  <1>2. CASE Moves(<<>>)
    <2>1. Continue(<<>>) /\ UNCHANGED <<mem, disk, tg, agents, timers>>
      BY <1>2 DEF Moves
    <2> QED
      BY <1>1, <2>1, WholeEnds DEF CalmInv
  <1>3. ASSUME NEW gone \in SUBSET {k \in Keys : mem[k] # None /\ ~Live(mem[k])},
               mem' = [k \in Keys |-> IF k \in gone THEN None ELSE mem[k]], Save, Continue(<<>>),
               UNCHANGED <<tg, agents, timers>>
        PROVE  CalmInv'
    <2>1. \A k \in Keys : mem'[k] = mem[k] \/ (mem'[k] = None /\ ~Live(mem[k]))
      BY <1>3
    <2>2. disk' = mem'
      BY <1>3, CalmSave
    <2> QED
      BY <1>1, <1>3, <2>1, <2>2, WholeEnds
  <1> QED
    BY <1>2, <1>3 DEF PruneItem

\* The start asks for the agents ...
LEMMA ListSettles ==
    ASSUME IInv, Calm, CalmInv, todo # <<>>, Aside, ListItem PROVE CalmInv'
  <1>1. item.op = "list" /\ item.op \in Whole /\ item.op # "pass" /\ UNCHANGED reg
    BY DEF ListItem, Whole
  <1>2. Moves(<<>>)
    BY DEF ListItem, Calm
  <1>3. Continue(<<>>) /\ UNCHANGED <<mem, disk, tg, agents, timers>>
    BY <1>2 DEF Moves
  <1> QED
    BY <1>1, <1>3, WholeEnds DEF CalmInv

\* ... and learns them for the pass that follows.
LEMMA SnapSettles ==
    ASSUME IInv, CalmInv, todo # <<>>, Aside, SnapItem PROVE CalmInv'
  <1>1. item = todo[1] /\ 1 \in 1..Len(todo)
    BY DEF IInv, TypeOK, item
  <1>2. item.op = "learn" /\ item.op \in Whole /\ item.op # "pass"
    BY <1>1 DEF CalmInv, Phases, SnapItem, Whole
  <1>3. Moves(<<>>)
    BY <1>2 DEF SnapItem
  <1>4. Continue(<<>>) /\ UNCHANGED <<mem, disk, tg, agents, timers>>
    BY <1>3 DEF Moves
  <1> QED
    BY <1>2, <1>4, WholeEnds DEF CalmInv

\* A pass has an item for every agent but those that need none.
LEMMA PassSettles ==
    ASSUME IInv, CalmInv, todo # <<>>, Aside, UNCHANGED reg, PassItem PROVE CalmInv'
  <1>1. item.op = "pass" /\ item.op \in Whole
    BY DEF PassItem, Whole
  <1>2. ~Blocked
    BY CalmFree
  <1>3. PICK f \in Seq(Item) : PassItems(f) /\ Continue(f) /\ agents' = reg
    <2>1. CASE Held
      <3>1. failed' = TRUE /\ failed' = FALSE
        BY <1>2, <2>1 DEF PassItem, Held
      <3> QED
        BY <3>1
    <2> QED
      BY <2>1, PassMakes
  <1>4. UNCHANGED <<mem, disk, tg, timers>>
    BY <1>2 DEF PassItem
  <1>5. \A i \in 1..Len(f) : f[i].op \in Leaves
    BY <1>3 DEF PassItems, Leaves
  <1>6. \A j \in 1..Len(f) : \E i \in 1..Len(todo') : todo'[i] = f[j]
    <2>1. \A i \in 1..Len(f) : f[i].op \in Waits
      BY <1>5 DEF Leaves, Waits
    <2>2. Phases
      BY DEF CalmInv
    <2>3. Continue(f)
      BY <1>3
    <2> QED
      BY ONLY <2>1, <2>2, <2>3, IInv, todo # <<>>, f \in Seq(Item), LongTurn
  <1>7. ASSUME NEW k \in Keys
        PROVE  Will(todo', k) \/ Tracks(mem'[k], agents'[k], tg', timers' \cup due', k, "idle")
    <2>1. CASE reg[k] # None \/ (Live(mem[k]) /\ ~mem[k].muted)
      <3>1. PICK i \in 1..Len(f) : f[i].op = "redo" /\ f[i].key = k
        BY <1>3, <2>1 DEF PassItems
      <3>2. PICK j \in 1..Len(todo') : todo'[j] = f[i]
        BY <1>6
      <3> QED
        BY <3>1, <3>2 DEF Will
    <2>2. CASE reg[k] = None /\ ~(Live(mem[k]) /\ ~mem[k].muted)
      <3>1. agents'[k] = None /\ mem'[k] = mem[k]
        BY <1>3, <1>4, <2>2
      <3> QED
        BY <2>2, <3>1 DEF Tracks
    <2> QED
      BY <2>1, <2>2
  <1>8. disk' = mem' /\ agents' = reg' /\ timers' \subseteq timers
    BY <1>3, <1>4 DEF CalmInv
  <1> QED
    BY <1>1, <1>3, <1>4, <1>5, <1>7, <1>8, WholeSettles

\* Every item of a handler.
LEMMA StepSettles == ASSUME IInv, IInv', Calm, CalmInv, Step PROVE CalmInv'
  <1>1. todo # <<>> /\ Aside
    BY DEF Step, Aside
  <1>2. CASE UNCHANGED registry
    <2>1. UNCHANGED reg
      BY <1>2 DEF registry
    <2>2. \/ HandleEvent \/ CreateItem \/ RefreshItem \/ EditItem \/ ExitItem \/ CloseItem
          \/ FinishItem \/ DeleteItem \/ FlushItem \/ PassItem \/ RedoItem \/ UnclosedItem
          \/ MakeItem \/ PruneItem \/ ListItem \/ SnapItem
      BY DEF Step
    <2> QED
      BY <1>1, <2>1, <2>2, HandleSettles, CreateSettles, RefreshSettles, EditSettles, ExitSettles,
         CloseSettles, FinishSettles, DeleteSettles, FlushSettles, PassSettles, RedoSettles,
         UnclosedSettles, MakeSettles, PruneSettles, ListSettles, SnapSettles
  <1>3. CASE ListItem \/ SnapItem
    BY <1>1, <1>3, ListSettles, SnapSettles
  <1> QED
    BY <1>2, <1>3 DEF Step

(* Around the handlers *)

\* What CalmInv looks at stays as it is.
LEMMA CalmSame ==
    ASSUME CalmInv, UNCHANGED <<reg, events, proc, mem, disk, agents, gates, signals, todo, tg, news, missed>>,
           UNCHANGED <<timers, due>> \/ (proc # "starting" /\ timers' \cup due' = timers \cup due)
    PROVE  CalmInv'
  <1>1. timers' \cup due' = timers \cup due
    OBVIOUS
  <1>2. Phases'
    BY DEF CalmInv, Phases, Knows
  <1>3. \A k \in Keys : Agrees(k)'
    BY <1>1 DEF CalmInv, Agrees, Tracking
  <1> QED
    BY <1>2, <1>3 DEF CalmInv

\* The handler of an idle loop begins or ends: what is said of an agent stays.
LEMMA AgreesOn ==
    ASSUME NEW k \in Keys, Agrees(k), UNCHANGED <<mem, tg, news, missed, agents>>, todo = <<>>,
           OpOf(todo', k) \in Waits \cup Reports \cup {"list", "flush", "idle"},
           proc' \in {"starting", "up"} => proc \in {"starting", "up"},
           proc' \in {"starting", "up"} /\ k \in timers \cup due
              => k \in timers' \cup due' \/ OpOf(todo', k) = "edit"
    PROVE  Agrees(k)'
  <1>1. OpOf(todo, k) = "idle" /\ ~Will(todo, k)
    BY DEF OpOf, Will, Passes
  <1>2. PICK o : o = OpOf(todo', k)
    OBVIOUS
  <1>3. Entries(mem', tg', news', missed', k, o)
    <2>1. Entries(mem, tg, news, missed, k, "idle")
      BY <1>1 DEF Agrees
    <2>2. Entries(mem, tg, news, missed, k, o)
      BY <1>2, <2>1, EntriesWait
    <2> QED
      BY <2>2
  <1>4. ASSUME proc' \in {"starting", "up"}
        PROVE  Tracks(mem'[k], agents'[k], tg', timers' \cup due', k, o)
    <2>1. Tracks(mem[k], agents[k], tg, timers \cup due, k, "idle")
      BY <1>1, <1>4 DEF Agrees, Tracking
    <2>2. o \notin {"create", "make", "refresh", "exit", "finish", "close"}
      BY <1>2 DEF Waits, Reports
    <2>3. k \in timers \cup due => k \in timers' \cup due' \/ o = "edit"
      BY <1>2, <1>4
    <2> QED
      BY <2>1, <2>2, <2>3 DEF Tracks
  <1> QED
    BY <1>2, <1>3, <1>4 DEF Agrees, Tracking

\* A handler of one item.
LEMMA OneItemNow ==
    ASSUME NEW x, todo' = <<x>>
    PROVE  /\ Len(todo') = 1 /\ todo'[1] = x /\ (\A i \in 1..Len(todo') : todo'[i] = x)
           /\ 2..Len(todo') = {}
           /\ \A k \in Keys : OpOf(todo', k) = IF x.key = k THEN x.op ELSE "idle"
  BY DEF OpOf

\* The loop takes one item.
LEMMA TakesOne ==
    ASSUME CalmInv, Idle, NEW x, todo' = <<x>>, x.op \notin Whole \cup {"gone"} \/ (x.op = "gone" /\ x.look = None),
           UNCHANGED <<proc, disk, mem, gates, signals>>, \A k \in Keys : Knows(k)' /\ Agrees(k)',
           \A i \in 1..Len(events') : events'[i].op = "gone" => events'[i].look = None,
           \A i \in 1..Len(news') : news'[i].op = "renamed" => news'[i].name \in Typed
    PROVE  CalmInv'
  <1>1. /\ Len(todo') = 1 /\ todo'[1] = x /\ (\A i \in 1..Len(todo') : todo'[i] = x)
        /\ 2..Len(todo') = {}
    BY OneItemNow
  <1>2. x.op \notin Whole
    BY DEF Whole
  <1>3. Phases'
    BY <1>1, <1>2 DEF Phases, Idle, Whole
  <1> QED
    BY <1>3 DEF CalmInv

\* An event is what the registry knew last of its agent.
LEMMA TakeSettles == ASSUME IInv, CalmInv, TakeEvent PROVE CalmInv'
  <1>1. PICK x : x = events[1]
    OBVIOUS
  <1>2. PICK w : w = events
    OBVIOUS
  <1>3. PICK r : r = events'
    OBVIOUS
  <1>4. w \in Seq(Item) /\ w # <<>> /\ r = Tail(w)
    BY <1>2, <1>3 DEF TakeEvent, IInv, TypeOK
  <1>5. /\ r \in Seq(Item) /\ Len(w) \in Nat \ {0} /\ Len(r) = Len(w) - 1
        /\ \A i \in 1..Len(r) : i + 1 \in 1..Len(w) /\ r[i] = w[i + 1]
        /\ 1 \in 1..Len(w) /\ Head(w) = w[1]
        /\ \A i \in 1..Len(w) : i = 1 \/ (i - 1 \in 1..Len(r) /\ w[i] = r[i - 1])
    BY <1>4
  <1>6. /\ todo' = <<x>> /\ todo = <<>> /\ Idle
        /\ UNCHANGED <<reg, proc, mem, disk, agents, timers, due, gates, signals, tg, news, missed>>
    BY <1>1, <1>2, <1>5 DEF TakeEvent, Idle, registry, mirror, control, world
  <1>7. x.op \in Reports /\ x.op \notin Whole /\ (x.op = "gone" => x.look = None)
    BY <1>1, <1>2, <1>5 DEF IInv, Waiting, CalmInv, Reports, Whole
  <1>8. todo'[1] = x /\ \A k \in Keys : OpOf(todo', k) = IF x.key = k THEN x.op ELSE "idle"
    BY <1>6, OneItemNow
  <1>9. ASSUME NEW k \in Keys PROVE Knows(k)'
    <2>1. Knows(k)
      BY <1>6 DEF CalmInv, Phases, Idle
    <2>2. OpOf(todo, k) \notin Reports
      BY <1>6 DEF OpOf, Reports
    <2>3. ASSUME NEW i \in 1..Len(r), r[i].key = k, \A j \in 1..Len(r) : i < j => r[j].key # k
          PROVE  r[i].look = reg[k]
      <3>1. i + 1 \in 1..Len(w) /\ r[i] = w[i + 1]
        BY <1>5
      <3>2. ASSUME NEW j \in 1..Len(w), i + 1 < j PROVE w[j].key # k
        <4>1. j # 1 /\ j - 1 \in 1..Len(r) /\ i < j - 1 /\ w[j] = r[j - 1]
          BY <1>5, <3>2
        <4> QED
          BY <2>3, <4>1
      <3> QED
        BY <1>2, <2>1, <2>3, <3>1, <3>2 DEF Knows
    <2>4. ASSUME \A i \in 1..Len(r) : r[i].key # k
          PROVE  IF OpOf(todo', k) \in Reports THEN todo'[1].look = reg[k] ELSE agents[k] = reg[k]
      <3>1. \A j \in 1..Len(w) : 1 < j => w[j].key # k
        BY <1>5, <2>4
      <3>2. CASE x.key = k
        <4>1. x.look = reg[k]
          BY <1>1, <1>2, <1>5, <2>1, <3>1, <3>2 DEF Knows
        <4> QED
          BY <1>7, <1>8, <3>2, <4>1
      <3>3. CASE x.key # k
        <4>1. \A i \in 1..Len(w) : w[i].key # k
          BY <1>1, <1>2, <1>5, <3>1, <3>3
        <4>2. agents[k] = reg[k]
          BY <1>2, <2>1, <2>2, <4>1 DEF Knows
        <4>3. OpOf(todo', k) \notin Reports
          BY <1>8, <3>3 DEF Reports
        <4> QED
          BY <4>2, <4>3
      <3> QED
        BY <3>2, <3>3
    <2> QED
      BY <1>3, <1>6, <2>3, <2>4 DEF Knows
  <1>10. ASSUME NEW k \in Keys PROVE Agrees(k)'
    <2>1. Agrees(k) /\ OpOf(todo', k) \in Reports \cup {"idle"}
      BY <1>7, <1>8 DEF CalmInv
    <2> QED
      BY <1>6, <2>1, AgreesOn
  <1>11. \A i \in 1..Len(r) : r[i].op = "gone" => r[i].look = None
    BY <1>2, <1>5 DEF CalmInv
  <1>12. \A i \in 1..Len(news') : news'[i].op = "renamed" => news'[i].name \in Typed
    BY <1>6 DEF CalmInv
  <1> QED
    BY <1>3, <1>6, <1>7, <1>9, <1>10, <1>11, <1>12, TakesOne

\* The registry knows of an agent what it knew before, and the loop has nothing in hand.
LEMMA KnowsOn ==
    ASSUME NEW k \in Keys, Knows(k), UNCHANGED <<reg, events, agents>>, OpOf(todo, k) \notin Reports,
           OpOf(todo', k) \notin Reports
    PROVE  Knows(k)'
  BY DEF Knows

\* A timer's edit.
LEMMA FireSettles == ASSUME IInv, CalmInv, NEW k \in Keys, Fire(k) PROVE CalmInv'
  <1>1. PICK x : x = Do("edit", k)
    OBVIOUS
  <1>2. x.op = "edit" /\ x.key = k
    BY <1>1 DEF Do
  <1>3. /\ todo' = <<x>> /\ todo = <<>> /\ Idle /\ timers' = timers /\ due' = due \ {k}
        /\ UNCHANGED <<reg, events, proc, mem, disk, agents, gates, signals, tg, news, missed>>
    BY <1>1 DEF Fire, Idle, registry, mirror, control, world
  <1>4. \A j \in Keys : OpOf(todo', j) = IF j = k THEN "edit" ELSE "idle"
    BY <1>2, <1>3, OneItemNow
  <1>5. ASSUME NEW j \in Keys PROVE Knows(j)' /\ Agrees(j)'
    <2>1. Knows(j) /\ Agrees(j)
      BY <1>3 DEF CalmInv, Phases, Idle
    <2>2. OpOf(todo, j) \notin Reports /\ OpOf(todo', j) \notin Reports
      BY <1>3, <1>4 DEF OpOf, Reports
    <2>3. OpOf(todo', j) \in Waits \cup {"idle"}
      BY <1>4 DEF Waits
    <2>4. j \in timers \cup due => j \in timers' \cup due' \/ OpOf(todo', j) = "edit"
      BY <1>3, <1>4
    <2> QED
      BY <1>3, <2>1, <2>2, <2>3, <2>4, KnowsOn, AgreesOn
  <1>6. /\ \A i \in 1..Len(events') : events'[i].op = "gone" => events'[i].look = None
        /\ \A i \in 1..Len(news') : news'[i].op = "renamed" => news'[i].name \in Typed
    BY <1>3 DEF CalmInv
  <1> QED
    BY <1>2, <1>3, <1>5, <1>6, TakesOne DEF Whole

\* The sweep deletes topics of agents that ended.
LEMMA SweepSettles == ASSUME IInv, CalmInv, Sweep PROVE CalmInv'
  <1>1. PICK old \in SUBSET Keys : todo' = SetToSeq({Do("delete", k) : k \in old})
    BY DEF Sweep
  <1>2. PICK s : s = SetToSeq(Plain("delete", old, FALSE))
    OBVIOUS
  <1>3. todo' = s
    BY <1>1, <1>2 DEF Plain, Do
  <1>4. s \in Seq(Item) /\ \A i \in 1..Len(s) : s[i].op = "delete"
    <2>1. Listing(s, "delete", old)
      BY <1>2, PlainList DEF Ops
    <2> QED
      BY <2>1 DEF Listing
  <1>5. /\ proc = "up" /\ todo = <<>>
        /\ UNCHANGED <<reg, events, proc, mem, disk, agents, timers, due, gates, signals, tg, news, missed>>
    BY DEF Sweep, Idle, registry, mirror, control, world
  <1>6. (s # <<>> => 1 \in 1..Len(s)) /\ \A i \in 2..Len(s) : i \in 1..Len(s)
    BY <1>4
  <1>7. \A k \in Keys : OpOf(todo', k) \in {"delete", "idle"}
    BY <1>3, <1>4, <1>6 DEF OpOf
  <1>8. ASSUME NEW k \in Keys PROVE Knows(k)' /\ Agrees(k)'
    <2>1. Knows(k) /\ Agrees(k)
      BY <1>5 DEF CalmInv, Phases
    <2>2. OpOf(todo, k) \notin Reports /\ OpOf(todo', k) \notin Reports /\ OpOf(todo', k) \in Waits \cup {"idle"}
      BY <1>5, <1>7 DEF OpOf, Reports, Waits
    <2> QED
      BY <1>5, <2>1, <2>2, KnowsOn, AgreesOn
  <1>9. Phases'
    BY <1>3, <1>4, <1>5, <1>6, <1>8 DEF Phases, Waits, Whole
  <1> QED
    BY <1>5, <1>8, <1>9 DEF CalmInv

\* The daemon's loop begins, is told to end, and ends.
LEMMA LifeSettles == ASSUME IInv, CalmInv, Started \/ Shutdown \/ Stopped PROVE CalmInv'
  <1>1. /\ todo = <<>>
        /\ UNCHANGED <<reg, events, mem, disk, agents, timers, due, gates, signals, tg, news, missed>>
    BY DEF Started, Shutdown, Stopped, Idle, registry, mirror, control, world
  <1>2. \/ todo' = <<>> /\ ((proc = "starting" /\ proc' = "up") \/ proc' = "down")
        \/ todo' = <<Do("flush", None)>> /\ proc' = "halting"
    BY <1>1 DEF Started, Shutdown, Stopped
  <1>3. \A k \in Keys : OpOf(todo', k) \in {"flush", "idle"}
    <2>1. CASE todo' = <<>>
      BY <2>1 DEF OpOf
    <2>2. CASE todo' = <<Do("flush", None)>>
      <3>1. Do("flush", None).op = "flush"
        BY DEF Do
      <3> QED
        BY <2>2, <3>1, OneItemNow
    <2> QED
      BY <1>2, <2>1, <2>2
  <1>4. ASSUME NEW k \in Keys PROVE Agrees(k)'
    <2>1. Agrees(k)
      BY DEF CalmInv
    <2> QED
      BY <1>1, <1>2, <1>3, <2>1, AgreesOn
  <1>5. Phases'
    <2>1. CASE todo' = <<>> /\ proc' = "down"
      BY <2>1 DEF Phases
    <2>2. CASE todo' = <<>> /\ proc = "starting" /\ proc' = "up"
      <3>1. events = <<>> /\ agents = reg
        BY <1>1, <2>2 DEF CalmInv, Phases, Passes
      <3>2. \A k \in Keys : OpOf(todo', k) \notin Reports
        BY <2>2 DEF OpOf, Reports
      <3>3. \A k \in Keys : Knows(k)'
        BY <1>1, <3>1, <3>2 DEF Knows
      <3> QED
        BY <2>2, <3>3 DEF Phases
    <2>3. CASE todo' = <<Do("flush", None)>> /\ proc' = "halting"
      <3>1. Do("flush", None).op = "flush"
        BY DEF Do
      <3>2. (\A i \in 1..Len(todo') : todo'[i].op = "flush") /\ 2..Len(todo') = {}
        BY <2>3, <3>1, OneItemNow
      <3> QED
        BY <2>3, <3>2 DEF Phases
    <2> QED
      BY <1>2, <2>1, <2>2, <2>3
  <1> QED
    BY <1>1, <1>4, <1>5 DEF CalmInv

\* The list q reports of the agents S, and of no others, what they are now (new).
Reporting(q, S, new) ==
    /\ q \in Seq(Item)
    /\ \A i \in 1..Len(q) : /\ q[i].key \in S /\ q[i].look = new[q[i].key]
                            /\ q[i].op = "gone" => q[i].look = None
    /\ \A k \in S : \E i \in 1..Len(q) : q[i].key = k

\* One kind of report.
LEMMA AboutAll ==
    ASSUME NEW S \in SUBSET Keys, NEW o \in Ops, NEW new \in [Keys -> Look \cup {None}],
           o = "gone" => \A k \in S : new[k] = None
    PROVE  Reporting(SetToSeq(About(o, S, new)), S, new)
  <1> PICK q : q = SetToSeq(About(o, S, new))
    OBVIOUS
  <1>0. PICK T : T = About(o, S, new)
    OBVIOUS
  <1> DEFINE F == [k \in S |-> [op |-> o, key |-> k, look |-> new[k], force |-> FALSE]]
  <1>1. F \in [S -> T] /\ \A x \in T : \E k \in S : F[k] = x
    BY <1>0 DEF About
  <1>2. IsFiniteSet(T)
    <2> HIDE DEF F
    <2> QED BY <1>1, FewItems
  <1>3. \A x \in T : \E k \in S : x = [op |-> o, key |-> k, look |-> new[k], force |-> FALSE]
    BY <1>0 DEF About
  <1>4. \A k \in S : [op |-> o, key |-> k, look |-> new[k], force |-> FALSE] \in Item
    BY DEF Item
  <1>5. T \subseteq Item
    BY <1>3, <1>4
  <1>6. \A x \in T : x.key \in S /\ x.op = o /\ x.look = new[x.key]
    BY <1>3
  <1>7. q \in Seq(T) /\ \A i \in 1..Len(q) : q[i] \in T
    BY ONLY <1>0, <1>2, ListOf, q = SetToSeq(About(o, S, new))
  <1>8. ASSUME NEW k \in S PROVE \E i \in 1..Len(q) : q[i].key = k
    <2>1. PICK x \in T : x = [op |-> o, key |-> k, look |-> new[k], force |-> FALSE]
      BY <1>0 DEF About
    <2>2. \E i \in 1..Len(q) : q[i] = x
      BY ONLY <1>0, <1>2, ListAll, x \in T, q = SetToSeq(About(o, S, new))
    <2>3. x.key = k
      BY <2>1
    <2> QED
      BY <2>2, <2>3
  <1>9. q \in Seq(Item)
    BY <1>5, <1>7
  <1>10. \A i \in 1..Len(q) : /\ q[i].key \in S /\ q[i].look = new[q[i].key]
                              /\ q[i].op = "gone" => q[i].look = None
    BY <1>6, <1>7
  <1> QED
    BY <1>8, <1>9, <1>10 DEF Reporting

\* Reports about some agents, and about others behind.
LEMMA ReportingJoined ==
    ASSUME NEW s, NEW S, NEW t, NEW R, NEW new, Reporting(s, S, new), Reporting(t, R, new)
    PROVE  Reporting(s \o t, S \cup R, new)
  <1>1. PICK q : q = s \o t
    OBVIOUS
  <1>2. s \in Seq(Item) /\ t \in Seq(Item)
    BY DEF Reporting
  <1>3. /\ q \in Seq(Item) /\ Len(q) = Len(s) + Len(t) /\ Len(s) \in Nat /\ Len(t) \in Nat
        /\ \A i \in 1..Len(s) : i \in 1..Len(q) /\ q[i] = s[i]
        /\ \A i \in 1..Len(t) : Len(s) + i \in 1..Len(q) /\ q[Len(s) + i] = t[i]
        /\ \A i \in 1..Len(q) : \/ i \in 1..Len(s) /\ q[i] = s[i]
                                \/ \E j \in 1..Len(t) : i = Len(s) + j /\ q[i] = t[j]
    BY ONLY <1>1, <1>2, Behind
  <1>4. \A i \in 1..Len(q) : /\ q[i].key \in S \cup R /\ q[i].look = new[q[i].key]
                             /\ q[i].op = "gone" => q[i].look = None
    <2> SUFFICES ASSUME NEW i \in 1..Len(q)
                 PROVE  /\ q[i].key \in S \cup R /\ q[i].look = new[q[i].key]
                        /\ q[i].op = "gone" => q[i].look = None
      OBVIOUS
    <2>1. CASE i \in 1..Len(s) /\ q[i] = s[i]
      BY <2>1 DEF Reporting
    <2>2. CASE \E j \in 1..Len(t) : i = Len(s) + j /\ q[i] = t[j]
      <3>1. PICK j \in 1..Len(t) : q[i] = t[j]
        BY <2>2
      <3> QED
        BY <3>1 DEF Reporting
    <2> QED
      BY <1>3, <2>1, <2>2
  <1>5. ASSUME NEW k \in S \cup R PROVE \E i \in 1..Len(q) : q[i].key = k
    <2>1. CASE k \in S
      <3>1. PICK i \in 1..Len(s) : s[i].key = k
        BY <2>1 DEF Reporting
      <3> QED
        BY <1>3, <3>1
    <2>2. CASE k \in R
      <3>1. PICK i \in 1..Len(t) : t[i].key = k
        BY <2>2 DEF Reporting
      <3>2. Len(s) + i \in 1..Len(q) /\ q[Len(s) + i] = t[i]
        BY <1>3
      <3> QED
        BY <3>1, <3>2
    <2> QED
      BY <2>1, <2>2
  <1> QED
    BY <1>1, <1>3, <1>4, <1>5 DEF Reporting

\* Diff reports the agents that changed, as they are now.
LEMMA DiffTells ==
    ASSUME NEW old, NEW new \in [Keys -> Look \cup {None}]
    PROVE  Reporting(Diff(old, new), {k \in Keys : old[k] # new[k]}, new)
  <1>1. PICK SG \in SUBSET Keys : SG = {k \in Keys : old[k] # None /\ new[k] = None}
    OBVIOUS
  <1>2. PICK SA \in SUBSET Keys : SA = {k \in Keys : old[k] = None /\ new[k] # None}
    OBVIOUS
  <1>3. PICK SC \in SUBSET Keys : SC = {k \in Keys : old[k] # None /\ new[k] # None /\ old[k] # new[k]}
    OBVIOUS
  <1>4. \A k \in SG : new[k] = None
    BY <1>1
  <1>5. "gone" \in Ops /\ "appeared" \in Ops /\ "changed" \in Ops
    BY DEF Ops
  <1>6. Reporting(SetToSeq(About("gone", SG, new)), SG, new)
    BY ONLY <1>4, <1>5, AboutAll, SG \in SUBSET Keys, new \in [Keys -> Look \cup {None}]
  <1>7. Reporting(SetToSeq(About("appeared", SA, new)), SA, new)
    BY ONLY <1>5, AboutAll, SA \in SUBSET Keys, new \in [Keys -> Look \cup {None}]
  <1>8. Reporting(SetToSeq(About("changed", SC, new)), SC, new)
    BY ONLY <1>5, AboutAll, SC \in SUBSET Keys, new \in [Keys -> Look \cup {None}]
  <1>9. Diff(old, new) = (SetToSeq(About("gone", SG, new)) \o SetToSeq(About("appeared", SA, new)))
                           \o SetToSeq(About("changed", SC, new))
    BY <1>1, <1>2, <1>3 DEF Diff, About
  <1>10. Reporting(Diff(old, new), (SG \cup SA) \cup SC, new)
    <2>1. PICK p : p = SetToSeq(About("gone", SG, new))
      OBVIOUS
    <2>2. PICK q : q = SetToSeq(About("appeared", SA, new))
      OBVIOUS
    <2>3. PICK r : r = SetToSeq(About("changed", SC, new))
      OBVIOUS
    <2>4. Reporting(p, SG, new) /\ Reporting(q, SA, new) /\ Reporting(r, SC, new)
      BY <1>6, <1>7, <1>8, <2>1, <2>2, <2>3
    <2>5. PICK S : S = SG \cup SA
      OBVIOUS
    <2>6. PICK pq : pq = p \o q
      OBVIOUS
    <2>7. Reporting(p \o q, SG \cup SA, new)
      BY ONLY <2>4, ReportingJoined
    <2>8. Reporting(pq, S, new)
      BY <2>5, <2>6, <2>7
    <2>9. Reporting(pq \o r, S \cup SC, new)
      BY ONLY <2>4, <2>8, ReportingJoined
    <2> QED
      BY <1>9, <2>1, <2>2, <2>3, <2>5, <2>6, <2>9
  <1>11. (SG \cup SA) \cup SC = {k \in Keys : old[k] # new[k]}
    BY <1>1, <1>2, <1>3
  <1> QED
    BY <1>10, <1>11

\* The registry changes, and reports what changed behind what waits.
LEMMA MoreEvents ==
    ASSUME IInv, CalmInv, proc = "up", NEW q, NEW S \in SUBSET Keys, Reporting(q, S, reg'),
           events' = events \o q, \A k \in Keys \ S : reg'[k] = reg[k],
           UNCHANGED <<proc, mem, disk, agents, timers, due, gates, signals, todo, tg, news, missed>>
    PROVE  CalmInv'
  <1>1. PICK w : w = events
    OBVIOUS
  <1>2. PICK r : r = events'
    OBVIOUS
  <1>3. w \in Seq(Item) /\ q \in Seq(Item) /\ r = w \o q
    BY <1>1, <1>2 DEF IInv, TypeOK, Reporting
  <1>4. /\ r \in Seq(Item) /\ Len(r) = Len(w) + Len(q) /\ Len(w) \in Nat /\ Len(q) \in Nat
        /\ \A i \in 1..Len(w) : i \in 1..Len(r) /\ r[i] = w[i]
        /\ \A i \in 1..Len(q) : Len(w) + i \in 1..Len(r) /\ r[Len(w) + i] = q[i]
        /\ \A i \in 1..Len(r) : \/ i \in 1..Len(w) /\ r[i] = w[i]
                                \/ \E j \in 1..Len(q) : i = Len(w) + j /\ r[i] = q[j]
    BY ONLY <1>3, Behind
  <1>5. ASSUME NEW k \in Keys PROVE Knows(k)'
    <2>1. Knows(k)
      BY DEF CalmInv, Phases
    <2>2. ASSUME NEW i \in 1..Len(r), r[i].key = k, \A j \in 1..Len(r) : i < j => r[j].key # k
          PROVE  r[i].look = reg'[k]
      <3>1. CASE i \in 1..Len(w) /\ r[i] = w[i]
        <4>1. k \notin S
          <5> SUFFICES ASSUME k \in S PROVE FALSE
            OBVIOUS
          <5>1. PICK j \in 1..Len(q) : q[j].key = k
            BY DEF Reporting
          <5>2. Len(w) + j \in 1..Len(r) /\ r[Len(w) + j].key = k /\ i < Len(w) + j
            BY <1>4, <3>1, <5>1
          <5> QED
            BY <2>2, <5>2
        <4>2. \A j \in 1..Len(w) : i < j => w[j].key # k
          BY <1>4, <2>2
        <4>3. w[i].look = reg[k]
          BY <1>1, <2>1, <2>2, <3>1, <4>2 DEF Knows
        <4> QED
          BY <3>1, <4>1, <4>3
      <3>2. CASE \E j \in 1..Len(q) : i = Len(w) + j /\ r[i] = q[j]
        BY <2>2, <3>2 DEF Reporting
      <3> QED
        BY <1>4, <3>1, <3>2
    <2>3. ASSUME \A i \in 1..Len(r) : r[i].key # k
          PROVE  IF OpOf(todo, k) \in Reports THEN todo[1].look = reg'[k] ELSE agents[k] = reg'[k]
      <3>1. k \notin S
        <4> SUFFICES ASSUME k \in S PROVE FALSE
          OBVIOUS
        <4>1. PICK j \in 1..Len(q) : q[j].key = k
          BY DEF Reporting
        <4>2. Len(w) + j \in 1..Len(r) /\ r[Len(w) + j].key = k
          BY <1>4, <4>1
        <4> QED
          BY <2>3, <4>2
      <3>2. \A i \in 1..Len(w) : w[i].key # k
        BY <1>4, <2>3
      <3> QED
        BY <1>1, <2>1, <3>1, <3>2 DEF Knows
    <2> QED
      BY <1>2, <2>2, <2>3 DEF Knows
  <1>6. \A i \in 1..Len(events') : events'[i].op = "gone" => events'[i].look = None
    BY <1>1, <1>2, <1>4 DEF CalmInv, Reporting
  <1>7. Phases'
    BY <1>5 DEF CalmInv, Phases
  <1>8. \A k \in Keys : Agrees(k)'
    BY DEF CalmInv, Agrees
  <1> QED
    BY <1>6, <1>7, <1>8 DEF CalmInv

\* The registry applies an answer.
LEMMA ApplySettles == ASSUME IInv, CalmInv, Apply PROVE CalmInv'
  <1>1. /\ proc = "up" /\ listed["run"] \in [Keys -> Look \cup {None}] /\ reg' = listed["run"]
        /\ UNCHANGED <<proc, mem, disk, agents, timers, due, gates, signals, todo, tg, news, missed>>
    BY DEF IInv, TypeOK, Apply, control, world
  <1>2. PICK q : q = Diff(reg, reg')
    OBVIOUS
  <1>3. events' = events \o q
    BY <1>2 DEF Apply
  <1>4. PICK S \in SUBSET Keys : S = {k \in Keys : reg[k] # reg'[k]}
    OBVIOUS
  <1>5. Reporting(q, S, reg')
    BY <1>1, <1>2, <1>4, DiffTells
  <1>6. \A k \in Keys \ S : reg'[k] = reg[k]
    BY <1>4
  <1> QED
    BY <1>1, <1>3, <1>5, <1>6, MoreEvents

\* The registry learns a status from the socket.
LEMMA StatusSettles == ASSUME IInv, CalmInv, NEW k \in Keys, StatusEvent(k) PROVE CalmInv'
  <1>1. /\ proc = "up" /\ reg[k] \in Look /\ herdr[k] \in Look
        /\ reg' = [reg EXCEPT ![k].status = herdr[k].status]
        /\ UNCHANGED <<proc, mem, disk, agents, timers, due, gates, signals, todo, tg, news, missed>>
    BY DEF IInv, TypeOK, StatusEvent, control, world
  <1>2. PICK look : look = [reg[k] EXCEPT !.status = herdr[k].status]
    OBVIOUS
  <1>3. look \in Look
    BY <1>1, <1>2 DEF Look
  <1>4. reg'[k] = look /\ \A j \in Keys \ {k} : reg'[j] = reg[j]
    BY <1>1, <1>2 DEF IInv, TypeOK
  <1>5. PICK d : d = Do("changed", k)
    OBVIOUS
  <1>6. PICK x : x = [d EXCEPT !.look = look]
    OBVIOUS
  <1>7. x \in Item /\ x.op = "changed" /\ x.key = k /\ x.look = look
    <2>1. d \in Item /\ d.op = "changed" /\ d.key = k
      BY <1>5 DEF Do, Item, Ops
    <2> QED
      BY <1>3, <1>6, <2>1 DEF Item
  <1>8. events' = events \o <<x>>
    <2>1. [Do("changed", k) EXCEPT !.look = reg'[k]] = x
      BY <1>4, <1>5, <1>6
    <2>2. events' = Append(events, x)
      BY <2>1 DEF StatusEvent
    <2>3. events \in Seq(Item)
      BY DEF IInv, TypeOK
    <2> QED
      BY <1>7, <2>2, <2>3
  <1>9. PICK q : q = <<x>>
    OBVIOUS
  <1>10. q \in Seq(Item) /\ Len(q) = 1 /\ q[1] = x /\ 1 \in 1..Len(q) /\ \A i \in 1..Len(q) : q[i] = x
    BY <1>7, <1>9
  <1>11. Reporting(q, {k}, reg')
    BY <1>4, <1>7, <1>10 DEF Reporting
  <1>12. {k} \in SUBSET Keys
    OBVIOUS
  <1> QED
    BY <1>1, <1>4, <1>8, <1>9, <1>11, <1>12, MoreEvents

\* An update about another topic says nothing of this one.
LEMMA NewsPast ==
    ASSUME NEW w \in Seq(News), w # <<>>, NEW r, r = Tail(w), NEW e, NEW T, NEW op,
           w[1].thread # e.thread, Shows(e, T, w, op)
    PROVE  Shows(e, T, r, op)
  <1>1. ASSUME NEW ops
        PROVE  /\ Hears(w, e.thread, ops) => Hears(r, e.thread, ops)
               /\ \A i \in 1..Len(r) : LastSaid(r, i, e.thread, ops) =>
                    i + 1 \in 1..Len(w) /\ r[i] = w[i + 1] /\ LastSaid(w, i + 1, e.thread, ops)
    <2>1. ~Says(w, 1, e.thread, ops)
      BY DEF Says
    <2>2. PICK t : t = e.thread
      OBVIOUS
    <2>3. /\ Hears(w, t, ops) <=> Hears(r, t, ops) \/ Says(w, 1, t, ops)
          /\ \A i \in 1..Len(r) : LastSaid(r, i, t, ops) =>
               i + 1 \in 1..Len(w) /\ r[i] = w[i + 1] /\ LastSaid(w, i + 1, t, ops)
      BY HeardLess
    <2> QED
      BY <2>1, <2>2, <2>3
  <1> QED
    BY <1>1 DEF Shows

\* An update is taken: the entry of its agent k becomes what it says, with op next.
LEMMA UpdateSettles ==
    ASSUME IInv, CalmInv, Idle, news # <<>>, NEW k \in Keys, mem[k] # None, mem[k].thread = news[1].thread,
           news' = Tail(news), NEW entry \in Entry, mem' = [mem EXCEPT ![k] = entry], disk' = mem',
           entry.thread = mem[k].thread, UNCHANGED <<agents, reg, events, proc, due, tg, gates, signals>>,
           \A j \in Keys \ {k} : j \in timers => j \in timers', missed \subseteq missed',
           NEW op \in {"idle", "edit", "finish"},
           IF op = "idle" THEN todo' = <<>> ELSE \E x : todo' = <<x>> /\ x.key = k /\ x.op = op,
           Entered(entry, op), entry.thread \notin missed' => Shows(entry, tg[entry.thread], news', op),
           Tracks(entry, agents[k], tg, timers' \cup due, k, op)
    PROVE  CalmInv'
  <1>1. /\ news \in Seq(News) /\ proc = "up" /\ todo = <<>>
        /\ mem \in [Keys -> Entry \cup {None}]
    BY DEF IInv, TypeOK, Idle
  <1>2. mem'[k] = entry /\ \A j \in Keys \ {k} : mem'[j] = mem[j]
    BY <1>1
  <1>3. OpOf(todo', k) = op /\ \A j \in Keys \ {k} : OpOf(todo', j) = "idle"
    BY OneItemNow DEF OpOf
  <1>4. \A j \in Keys : OpOf(todo', j) \notin Reports /\ OpOf(todo, j) \notin Reports
    BY <1>1, <1>3 DEF OpOf, Reports
  <1>5. ASSUME NEW j \in Keys PROVE Knows(j)'
    <2>1. Knows(j)
      BY <1>1 DEF CalmInv, Phases
    <2> QED
      BY <1>4, <2>1, KnowsOn
  <1>6. Phases'
    <2>1. \/ todo' = <<>>
          \/ 2..Len(todo') = {} /\ \A i \in 1..Len(todo') : todo'[i].op \in {"edit", "finish"}
      BY OneItemNow
    <2> QED
      BY <1>1, <1>5, <2>1 DEF Phases, Whole
  <1>7. ASSUME NEW j \in Keys, j # k PROVE Agrees(j)'
    <2>1. Agrees(j) /\ OpOf(todo, j) = "idle" /\ OpOf(todo', j) = "idle" /\ ~Will(todo, j)
      BY <1>1, <1>3, <1>7 DEF CalmInv, OpOf, Will, Passes
    <2>2. mem'[j] = mem[j]
      BY <1>2, <1>7
    <2>3. ASSUME mem[j] # None, mem[j].thread \notin missed'
          PROVE  Shows(mem[j], tg[mem[j].thread], news', "idle")
      <3>1. Shows(mem[j], tg[mem[j].thread], news, "idle")
        BY <2>1, <2>3 DEF Agrees, Entries
      <3>2. news[1].thread # mem[j].thread
        BY <1>7, <2>3, Apart
      <3> QED
        BY <1>1, <3>1, <3>2, NewsPast
    <2>4. Entries(mem', tg', news', missed', j, OpOf(todo', j))
      BY <2>1, <2>2, <2>3 DEF Agrees, Entries
    <2>5. Tracks(mem[j], agents[j], tg, timers \cup due, j, "idle")
      BY <1>1, <2>1 DEF Agrees, Tracking
    <2>6. j \in timers \cup due => j \in timers' \cup due'
      BY <1>7
    <2>7. Tracks(mem'[j], agents'[j], tg', timers' \cup due', j, OpOf(todo', j))
      BY <2>1, <2>2, <2>5, <2>6, TracksWait
    <2> QED
      BY <2>4, <2>7 DEF Agrees, Tracking
  <1>8. Agrees(k)'
    <2>1. tg[mem[k].thread].exists
      BY DEF CalmInv, Agrees, Entries
    <2>2. Entries(mem', tg', news', missed', k, OpOf(todo', k))
      BY <1>2, <1>3, <2>1 DEF Entries
    <2> QED
      BY <1>2, <1>3, <2>2 DEF Agrees, Tracking
  <1>9. \A i \in 1..Len(news') : news'[i].op = "renamed" => news'[i].name \in Typed
    <2>1. \A i \in 1..Len(Tail(news)) : i + 1 \in 1..Len(news) /\ Tail(news)[i] = news[i + 1]
      BY <1>1
    <2> QED
      BY <2>1 DEF CalmInv
  <1> QED
    BY <1>6, <1>7, <1>8, <1>9 DEF CalmInv

\* What an update finds.
LEMMA UpdateFinds ==
    ASSUME IInv, CalmInv, Idle, news # <<>>, NEW k \in Keys, k \in Linked(Head(news).thread)
    PROVE  /\ TypeOK /\ mem[k] # None /\ mem[k] \in Entry /\ Head(news) = news[1] /\ news[1] \in News
           /\ mem[k].thread = news[1].thread /\ tg[mem[k].thread] \in Topic
           /\ Entered(mem[k], "idle") /\ news \in Seq(News)
           /\ news[1].op = "renamed" => news[1].name \in Typed
           /\ mem[k].thread \notin missed => Shows(mem[k], tg[mem[k].thread], news, "idle")
           /\ Tracks(mem[k], agents[k], tg, timers \cup due, k, "idle")
  <1>1. TypeOK /\ Mapped /\ mem[k] # None /\ mem[k].thread = Head(news).thread
    BY DEF IInv, Linked
  <1>2. mem[k] \in Entry /\ news \in Seq(News) /\ tg[mem[k].thread] \in Topic
    BY <1>1, TopicKnown DEF TypeOK
  <1>3. Head(news) = news[1] /\ 1 \in 1..Len(news) /\ news[1] \in News
    BY <1>2
  <1>4. Agrees(k) /\ OpOf(todo, k) = "idle" /\ ~Will(todo, k) /\ proc = "up"
    BY DEF CalmInv, OpOf, Will, Passes, Idle
  <1>5. news[1].op = "renamed" => news[1].name \in Typed
    BY <1>3 DEF CalmInv
  <1> QED
    BY <1>1, <1>2, <1>3, <1>4, <1>5 DEF Agrees, Entries, Tracking

\* An operator closed the topic: its entry is muted, or was closed before.
LEMMA ClosedSettles ==
    ASSUME IInv, Calm, CalmInv, NEW k \in Keys, OnTopicClosed(k) PROVE CalmInv'
  <1>1. /\ Idle /\ news # <<>> /\ Head(news).op = "closed" /\ k \in Linked(Head(news).thread)
        /\ news' = Tail(news) /\ disk' = mem' /\ todo' = <<>>
        /\ UNCHANGED <<agents, reg, events, proc, due, timers, tg, gates, signals, missed>>
    BY CalmSave DEF OnTopicClosed, Idle, registry, control
  <1>2. PICK e : e = mem[k]
    OBVIOUS
  <1>3. PICK T : T = tg[e.thread]
    OBVIOUS
  <1>4. /\ TypeOK /\ e # None /\ e \in Entry /\ e.thread = news[1].thread /\ news[1].op = "closed"
        /\ Entered(e, "idle") /\ news \in Seq(News)
        /\ e.thread \notin missed => Shows(e, T, news, "idle")
        /\ Tracks(e, agents[k], tg, timers \cup due, k, "idle")
    BY <1>1, <1>2, <1>3, UpdateFinds
  <1>5. PICK entry : entry = IF Live(e) THEN [e EXCEPT !.muted = TRUE] ELSE [e EXCEPT !.closed = TRUE]
    OBVIOUS
  <1>6. mem' = [mem EXCEPT ![k] = entry]
    BY <1>2, <1>4, <1>5 DEF OnTopicClosed, TypeOK
  <1>7. /\ entry \in Entry /\ entry.thread = e.thread /\ entry.name = e.name /\ entry.status = e.status
        /\ Live(e) => entry.muted /\ entry.closed = e.closed
        /\ ~Live(e) => entry.closed /\ entry.muted = e.muted
    BY <1>4, <1>5 DEF Entry
  <1>8. entry # None /\ (Live(entry) <=> Live(e))
    BY <1>4, <1>7, NoneIsApart DEF Live
  <1>9. PICK r : r = news'
    OBVIOUS
  <1>10. ASSUME NEW ops
         PROVE  /\ Hears(news, e.thread, ops) => Hears(r, e.thread, ops) \/ Says(news, 1, e.thread, ops)
                /\ \A i \in 1..Len(r) : LastSaid(r, i, e.thread, ops) =>
                     i + 1 \in 1..Len(news) /\ r[i] = news[i + 1] /\ LastSaid(news, i + 1, e.thread, ops)
    <2>1. PICK t : t = e.thread
      OBVIOUS
    <2>2. /\ Hears(news, t, ops) <=> Hears(r, t, ops) \/ Says(news, 1, t, ops)
          /\ \A i \in 1..Len(r) : LastSaid(r, i, t, ops) =>
               i + 1 \in 1..Len(news) /\ r[i] = news[i + 1] /\ LastSaid(news, i + 1, t, ops)
      BY <1>1, <1>4, <1>9, HeardLess
    <2> QED
      BY <2>1, <2>2
  <1>11. ~Says(news, 1, e.thread, Renaming) /\ ~Says(news, 1, e.thread, {"reopened"})
    BY <1>4 DEF Says, Renaming
  <1>12. ASSUME e.thread \notin missed PROVE Shows(entry, T, r, "idle")
    <2>1. Shows(e, T, news, "idle")
      BY <1>4, <1>12
    <2> QED
      BY <1>7, <1>8, <1>10, <1>11, <2>1 DEF Shows
  <1>13. Entered(entry, "idle")
    BY <1>4, <1>7, <1>8 DEF Entered
  <1>14. Tracks(entry, agents[k], tg, timers \cup due, k, "idle")
    BY <1>4, <1>7, <1>8 DEF Tracks
  <1> QED
    BY <1>1, <1>2, <1>3, <1>4, <1>6, <1>7, <1>9, <1>12, <1>13, <1>14, UpdateSettles

\* An operator reopened the topic: an edit or the finish follows.
LEMMA ReopenedSettles ==
    ASSUME IInv, Calm, CalmInv, NEW k \in Keys, OnTopicReopened(k) PROVE CalmInv'
  <1>1. /\ Idle /\ news # <<>> /\ Head(news).op = "reopened" /\ k \in Linked(Head(news).thread)
        /\ news' = Tail(news) /\ disk' = mem'
        /\ UNCHANGED <<agents, reg, events, proc, due, tg, gates, signals, missed>>
    BY CalmSave DEF OnTopicReopened, Idle, registry, control
  <1>2. PICK e : e = mem[k]
    OBVIOUS
  <1>3. PICK T : T = tg[e.thread]
    OBVIOUS
  <1>4. /\ TypeOK /\ e # None /\ e \in Entry /\ e.thread = news[1].thread /\ news[1].op = "reopened"
        /\ Entered(e, "idle") /\ news \in Seq(News)
        /\ e.thread \notin missed => Shows(e, T, news, "idle")
        /\ Tracks(e, agents[k], tg, timers \cup due, k, "idle")
    BY <1>1, <1>2, <1>3, UpdateFinds
  <1>5. PICK entry : entry = [e EXCEPT !.muted = FALSE, !.closed = FALSE]
    OBVIOUS
  <1>6. mem' = [mem EXCEPT ![k] = entry]
    BY <1>2, <1>4, <1>5 DEF OnTopicReopened, TypeOK
  <1>7. /\ entry \in Entry /\ entry.thread = e.thread /\ entry.name = e.name /\ entry.status = e.status
        /\ ~entry.muted /\ ~entry.closed
    BY <1>4, <1>5 DEF Entry
  <1>8. entry # None /\ (Live(entry) <=> Live(e))
    BY <1>4, <1>7, NoneIsApart DEF Live
  <1>9. PICK r : r = news'
    OBVIOUS
  <1>10. ASSUME NEW ops
         PROVE  /\ Hears(news, e.thread, ops) => Hears(r, e.thread, ops) \/ Says(news, 1, e.thread, ops)
                /\ \A i \in 1..Len(r) : LastSaid(r, i, e.thread, ops) =>
                     i + 1 \in 1..Len(news) /\ r[i] = news[i + 1] /\ LastSaid(news, i + 1, e.thread, ops)
                /\ Says(news, 1, e.thread, ops) /\ ~Hears(r, e.thread, ops) => LastSaid(news, 1, e.thread, ops)
                /\ 1 \in 1..Len(news)
    <2>1. PICK t : t = e.thread
      OBVIOUS
    <2>2. /\ Hears(news, t, ops) <=> Hears(r, t, ops) \/ Says(news, 1, t, ops)
          /\ \A i \in 1..Len(r) : LastSaid(r, i, t, ops) =>
               i + 1 \in 1..Len(news) /\ r[i] = news[i + 1] /\ LastSaid(news, i + 1, t, ops)
          /\ Says(news, 1, t, ops) /\ ~Hears(r, t, ops) => LastSaid(news, 1, t, ops)
          /\ 1 \in 1..Len(news)
      BY <1>1, <1>4, <1>9, HeardLess
    <2> QED
      BY <2>1, <2>2
  <1>11. ~Says(news, 1, e.thread, Renaming) /\ Says(news, 1, e.thread, Toggling)
    BY <1>4 DEF Says, Renaming, Toggling
  <1>12. ASSUME e.thread \notin missed, NEW op \in {"edit", "finish"}, Live(e) \/ op = "finish"
         PROVE  Shows(entry, T, r, op)
    <2>1. Shows(e, T, news, "idle")
      BY <1>4, <1>12
    <2>2. ASSUME Live(e), T.closed
          PROVE  /\ \A i \in 1..Len(r) : LastSaid(r, i, e.thread, Toggling) => r[i].op = "closed"
                 /\ Hears(r, e.thread, Toggling)
      <3>1. \A i \in 1..Len(news) : LastSaid(news, i, e.thread, Toggling) => news[i].op = "closed"
        BY <2>1, <2>2 DEF Shows
      <3>2. ~LastSaid(news, 1, e.thread, Toggling)
        BY <1>4, <1>10, <3>1
      <3> QED
        BY <1>10, <1>11, <3>1, <3>2
    <2> QED
      BY <1>7, <1>8, <1>10, <1>11, <1>12, <2>1, <2>2 DEF Shows
  <1>13. ASSUME NEW op \in {"edit", "finish"}, Live(e) \/ op = "finish" PROVE Entered(entry, op)
    BY <1>7, <1>8, <1>13 DEF Entered
  <1>14. CASE agents[k] # None /\ timers' = timers \ {k} /\ todo' = <<[Do("edit", k) EXCEPT !.force = TRUE]>>
    <2>1. PICK x : x = [Do("edit", k) EXCEPT !.force = TRUE]
      OBVIOUS
    <2>2. x.op = "edit" /\ x.key = k
      BY <2>1 DEF Do
    <2>3. Live(e)
      BY <1>4, <1>14 DEF Tracks
    <2>4. Tracks(entry, agents[k], tg, timers' \cup due, k, "edit")
      BY <1>8, <1>14, <2>3 DEF Tracks
    <2>5. \E y : todo' = <<y>> /\ y.key = k /\ y.op = "edit"
      BY <1>14, <2>1, <2>2
    <2>6. \A j \in Keys \ {k} : j \in timers => j \in timers'
      BY <1>14
    <2>7. Entered(entry, "edit") /\ (e.thread \notin missed => Shows(entry, T, r, "edit"))
      BY <1>12, <1>13, <2>3
    <2> QED
      BY <1>1, <1>2, <1>3, <1>4, <1>6, <1>7, <1>9, <2>4, <2>5, <2>6, <2>7, UpdateSettles
  <1>15. CASE agents[k] = None /\ timers' = timers /\ todo' = <<Do("finish", k)>>
    <2>1. PICK x : x = Do("finish", k)
      OBVIOUS
    <2>2. x.op = "finish" /\ x.key = k
      BY <2>1 DEF Do
    <2>4. Tracks(entry, agents[k], tg, timers' \cup due, k, "finish")
      BY <1>15 DEF Tracks
    <2>5. \E y : todo' = <<y>> /\ y.key = k /\ y.op = "finish"
      BY <1>15, <2>1, <2>2
    <2>6. \A j \in Keys \ {k} : j \in timers => j \in timers'
      BY <1>15
    <2>7. Entered(entry, "finish") /\ (e.thread \notin missed => Shows(entry, T, r, "finish"))
      BY <1>12, <1>13
    <2> QED
      BY <1>1, <1>2, <1>3, <1>4, <1>6, <1>7, <1>9, <2>4, <2>5, <2>6, <2>7, UpdateSettles
  <1> QED
    BY <1>14, <1>15 DEF OnTopicReopened

\* An operator typed a name: the label it already is, so only the entry takes it and
\* a timer settles the topic.
LEMMA RenamedSettles ==
    ASSUME IInv, Calm, CalmInv, NEW k \in Keys, OnTopicRenamed(k) PROVE CalmInv'
  <1> PICK typed : typed = Head(news).name
    OBVIOUS
  <1>1. /\ Idle /\ news # <<>> /\ Head(news).op = "renamed" /\ k \in Linked(Head(news).thread)
        /\ news' = Tail(news) /\ todo' = <<>>
        /\ UNCHANGED <<reg, events, proc, due, tg, gates, signals>>
    BY DEF OnTopicRenamed, Idle, registry, control
  <1>2. PICK e : e = mem[k]
    OBVIOUS
  <1>3. PICK T : T = tg[e.thread]
    OBVIOUS
  <1>4. /\ TypeOK /\ e # None /\ e \in Entry /\ e.thread = news[1].thread /\ news[1].op = "renamed"
        /\ T \in Topic /\ typed = news[1].name /\ typed \in Typed
        /\ Entered(e, "idle") /\ news \in Seq(News)
        /\ e.thread \notin missed => Shows(e, T, news, "idle")
        /\ Tracks(e, agents[k], tg, timers \cup due, k, "idle")
    BY <1>1, <1>2, <1>3, UpdateFinds
  <1>5. PICK r : r = news'
    OBVIOUS
  <1>6. typed \in TopicName /\ (\A n \in Names : typed[1] = n) /\ k \notin Custom
    BY <1>4, MirrorAssumption DEF Calm
  <1>7. CASE /\ ~(agents[k] # None /\ Live(mem[k]))
             /\ missed' = missed \cup {mem[k].thread} /\ UNCHANGED <<mem, disk, agents, timers>>
    <2>1. mem' = [mem EXCEPT ![k] = e] /\ disk' = mem'
      BY <1>2, <1>4, <1>7 DEF TypeOK, CalmInv
    <2> QED
      BY <1>1, <1>2, <1>4, <1>7, <2>1, UpdateSettles
  <1>8. CASE /\ agents[k] # None /\ Live(mem[k])
             /\ agents' = [agents EXCEPT ![k].name = typed[1]]
             /\ mem' = [mem EXCEPT ![k].name = typed] /\ Save
             /\ timers' = timers \cup {k} /\ UNCHANGED missed
    <2>1. PICK a : a = agents[k]
      OBVIOUS
    <2>2. a \in Look /\ a.name \in Names
      BY <1>4, <1>8, <2>1 DEF TypeOK, Look
    <2>3. a.name = typed[1]
      BY <1>6, <2>2
    <2>4. [a EXCEPT !.name = typed[1]] = a
      BY <2>2, <2>3 DEF Look
    <2>5. UNCHANGED agents
      BY <1>4, <1>8, <2>1, <2>4 DEF TypeOK
    <2>6. PICK entry : entry = [e EXCEPT !.name = typed]
      OBVIOUS
    <2>7. mem' = [mem EXCEPT ![k] = entry] /\ disk' = mem'
      BY <1>2, <1>4, <1>8, <2>6, CalmSave DEF TypeOK
    <2>8. /\ entry \in Entry /\ entry.thread = e.thread /\ entry.name = typed /\ entry.status = e.status
          /\ entry.muted = e.muted /\ entry.closed = e.closed
      BY <1>4, <1>6, <2>6 DEF Entry
    <2>9. entry # None /\ Live(entry) /\ Live(e)
      BY <1>2, <1>4, <1>8, <2>8, NoneIsApart DEF Live
    <2>10. ASSUME NEW ops
           PROVE  /\ Hears(news, e.thread, ops) => Hears(r, e.thread, ops) \/ Says(news, 1, e.thread, ops)
                  /\ \A i \in 1..Len(r) : LastSaid(r, i, e.thread, ops) =>
                       i + 1 \in 1..Len(news) /\ r[i] = news[i + 1] /\ LastSaid(news, i + 1, e.thread, ops)
                  /\ Says(news, 1, e.thread, ops) /\ ~Hears(r, e.thread, ops) => LastSaid(news, 1, e.thread, ops)
                  /\ 1 \in 1..Len(news)
      <3>1. PICK t : t = e.thread
        OBVIOUS
      <3>2. /\ Hears(news, t, ops) <=> Hears(r, t, ops) \/ Says(news, 1, t, ops)
            /\ \A i \in 1..Len(r) : LastSaid(r, i, t, ops) =>
                 i + 1 \in 1..Len(news) /\ r[i] = news[i + 1] /\ LastSaid(news, i + 1, t, ops)
            /\ Says(news, 1, t, ops) /\ ~Hears(r, t, ops) => LastSaid(news, 1, t, ops)
            /\ 1 \in 1..Len(news)
        BY <1>1, <1>4, <1>5, HeardLess
      <3> QED
        BY <3>1, <3>2
    <2>11. Says(news, 1, e.thread, Renaming) /\ ~Says(news, 1, e.thread, Toggling)
      BY <1>4 DEF Says, Renaming, Toggling
    <2>12. ASSUME e.thread \notin missed PROVE Shows(entry, T, r, "idle")
      <3>1. Shows(e, T, news, "idle")
        BY <1>4, <2>12
      <3>2. T.name = typed \/ typed[2] = "bare" \/ Hears(r, e.thread, Renaming)
        <4> SUFFICES ASSUME typed[2] # "bare", ~Hears(r, e.thread, Renaming) PROVE T.name = typed
          OBVIOUS
        <4>1. typed = T.name \/ T.name[2] = "full"
          BY <1>4, <2>10, <2>11, <3>1 DEF Shows
        <4>2. T.name \in TopicName
          BY <1>4 DEF Topic
        <4>3. T.name[2] = "full" => typed[2] = T.name[2] /\ typed[1] = T.name[1]
          BY <1>6, <4>2 DEF TopicName
        <4> QED
          BY <1>6, <4>1, <4>2, <4>3 DEF TopicName
      <3> QED
        BY <2>8, <2>9, <2>10, <2>11, <3>1, <3>2 DEF Shows
    <2>13. Entered(entry, "idle")
      BY <1>4, <2>8, <2>9 DEF Entered
    <2>14. Tracks(entry, agents[k], tg, timers' \cup due, k, "idle")
      BY <1>8, <2>9 DEF Tracks
    <2>15. \A j \in Keys \ {k} : j \in timers => j \in timers'
      BY <1>8
    <2> QED
      BY <1>1, <1>2, <1>3, <1>4, <1>5, <1>8, <2>5, <2>7, <2>8, <2>12, <2>13, <2>14, <2>15, UpdateSettles
  <1>9. ASSUME agents[k] # None PROVE agents[k].name = typed[1]
    BY <1>4, <1>6, <1>9 DEF TypeOK, Look
  <1> QED
    BY <1>6, <1>7, <1>8, <1>9 DEF OnTopicRenamed

\* An update about a topic without an entry.
LEMMA UnknownSettles == ASSUME IInv, CalmInv, NewsUnknown PROVE CalmInv'
  <1>1. /\ news \in Seq(News) /\ news # <<>> /\ news' = Tail(news) /\ todo' = todo
        /\ UNCHANGED <<reg, events, proc, mem, disk, agents, timers, due, gates, signals, tg, missed>>
    BY DEF IInv, TypeOK, NewsUnknown, registry, mirror, control
  <1>2. \A k \in Keys : mem[k] # None => mem[k].thread # news[1].thread
    BY <1>1 DEF NewsUnknown, Linked
  <1>3. ASSUME NEW k \in Keys PROVE Agrees(k)'
    <2>1. Agrees(k)
      BY DEF CalmInv
    <2>2. PICK o : o = OpOf(todo, k)
      OBVIOUS
    <2>3. ASSUME mem[k] # None, mem[k].thread \notin missed
          PROVE  Shows(mem[k], tg[mem[k].thread], news', o)
      <3>1. Shows(mem[k], tg[mem[k].thread], news, o)
        BY <2>1, <2>2, <2>3 DEF Agrees, Entries
      <3>2. news[1].thread # mem[k].thread
        BY <1>2, <2>3
      <3> QED
        BY <1>1, <3>1, <3>2, NewsPast
    <2> QED
      BY <1>1, <2>1, <2>2, <2>3 DEF Agrees, Entries, Tracking
  <1>4. Phases'
    BY <1>1 DEF CalmInv, Phases, Knows
  <1>5. \A i \in 1..Len(news') : news'[i].op = "renamed" => news'[i].name \in Typed
    <2>1. \A i \in 1..Len(Tail(news)) : i + 1 \in 1..Len(news) /\ Tail(news)[i] = news[i + 1]
      BY <1>1
    <2> QED
      BY <1>1, <2>1 DEF CalmInv
  <1> QED
    BY <1>1, <1>3, <1>4, <1>5 DEF CalmInv

\* The start: what waited at Telegram is dropped, and a pass is to come.
LEMMA BootSettles == ASSUME IInv, Calm, CalmInv, Boot PROVE CalmInv'
  <1>1. /\ proc = "down" /\ proc' = "starting" /\ mem' = disk /\ reg' = agents' /\ timers' = {} /\ due' = {}
        /\ events' = <<>> /\ news' = <<>> /\ signals' = {} /\ UNCHANGED <<tg, disk>>
        /\ missed' = missed \cup {news[i].thread : i \in DOMAIN news}
    BY DEF Boot
  <1>2. mem' = mem /\ gates' = {}
    BY <1>1 DEF CalmInv, Calm, Boot
  <1>3. PICK x1 : x1 = Do("list", None)
    OBVIOUS
  <1>4. PICK x2 : x2 = Do("learn", None)
    OBVIOUS
  <1>5. PICK x3 : x3 = Do("pass", None)
    OBVIOUS
  <1>6. PICK s : s = todo'
    OBVIOUS
  <1>7. /\ Len(s) = 3 /\ s[1] = x1 /\ s[2] = x2 /\ s[3] = x3 /\ s # <<>>
        /\ x1.op = "list" /\ x1.key = None /\ x2.op = "learn" /\ x3.op = "pass"
        /\ 3 \in 1..Len(s) /\ (\A i \in 1..Len(s) : s[i] \in {x1, x2, x3})
        /\ \A i \in 2..Len(s) : s[i] \in {x2, x3}
    <2>1. s = <<x1, x2, x3>>
      BY <1>3, <1>4, <1>5, <1>6 DEF Boot
    <2>2. /\ Len(s) = 3 /\ s[1] = x1 /\ s[2] = x2 /\ s[3] = x3 /\ s # <<>>
      BY <2>1
    <2>3. x1.op = "list" /\ x1.key = None /\ x2.op = "learn" /\ x3.op = "pass"
      BY <1>3, <1>4, <1>5 DEF Do
    <2>4. /\ 3 \in 1..Len(s) /\ (\A i \in 1..Len(s) : i = 1 \/ i = 2 \/ i = 3)
          /\ \A i \in 2..Len(s) : i = 2 \/ i = 3
      BY <2>2
    <2> QED
      BY <2>2, <2>3, <2>4
  <1>8. Passes(todo')
    BY <1>6, <1>7 DEF Passes
  <1>9. Phases'
    BY <1>1, <1>6, <1>7, <1>8 DEF Phases, Waits, Reports
  <1>10. \A k \in Keys : OpOf(todo', k) = "idle"
    BY <1>6, <1>7, MirrorAssumption DEF OpOf
  <1>11. ASSUME NEW k \in Keys PROVE Agrees(k)'
    <2>1. Agrees(k) /\ OpOf(todo, k) = "idle"
      BY <1>1 DEF CalmInv, Phases, OpOf
    <2>2. ASSUME mem[k] # None, mem[k].thread \notin missed'
          PROVE  Shows(mem[k], tg[mem[k].thread], news', "idle")
      <3>1. Shows(mem[k], tg[mem[k].thread], news, "idle")
        BY <1>1, <2>1, <2>2 DEF Agrees, Entries
      <3>2. DOMAIN news = 1..Len(news)
        BY DEF IInv, TypeOK
      <3>3. \A ops : ~Hears(news, mem[k].thread, ops)
        BY <1>1, <2>2, <3>2 DEF Hears, Says
      <3>4. \A ops, i : i \in 1..Len(news') => FALSE
        BY <1>1
      <3> QED
        BY <3>1, <3>3, <3>4 DEF Shows
    <2>3. Will(todo', k)
      BY <1>8 DEF Will
    <2> QED
      BY <1>1, <1>2, <1>10, <2>1, <2>2, <2>3 DEF Agrees, Entries, Tracking
  <1>12. \A i : i \in 1..Len(<<>>) => FALSE
    OBVIOUS
  <1> QED
    BY <1>1, <1>2, <1>9, <1>11, <1>12 DEF CalmInv

\* The updates q are the updates w and x.
Longer(q, w, x) == w \in Seq(News) /\ x \in News /\ q = Append(w, x)

\* What is said in the longer list.
LEMMA HeardMore ==
    ASSUME NEW w, NEW x, NEW q, Longer(q, w, x), NEW t, NEW ops
    PROVE  /\ Hears(w, t, ops) => Hears(q, t, ops)
           /\ x.thread = t /\ x.op \in ops => Hears(q, t, ops)
           /\ \A i \in 1..Len(q) : LastSaid(q, i, t, ops) =>
                \/ q[i] = x /\ x.op \in ops /\ x.thread = t
                \/ i \in 1..Len(w) /\ q[i] = w[i] /\ LastSaid(w, i, t, ops)
                   /\ (x.thread # t \/ x.op \notin ops)
  <1>1. /\ q \in Seq(News) /\ Len(w) \in Nat /\ Len(q) = Len(w) + 1 /\ q[Len(q)] = x
        /\ Len(q) \in 1..Len(q)
        /\ \A i \in 1..Len(w) : i \in 1..Len(q) /\ q[i] = w[i] /\ i < Len(q)
        /\ \A i \in 1..Len(q) : i = Len(q) \/ i \in 1..Len(w)
    BY DEF Longer
  <1>2. \A i \in 1..Len(w) : Says(q, i, t, ops) <=> Says(w, i, t, ops)
    BY <1>1 DEF Says
  <1>3. Hears(w, t, ops) => Hears(q, t, ops)
    BY <1>1, <1>2 DEF Hears
  <1>4. Says(q, Len(q), t, ops) <=> x.thread = t /\ x.op \in ops
    BY <1>1 DEF Says
  <1>5. x.thread = t /\ x.op \in ops => Hears(q, t, ops)
    BY <1>1, <1>4 DEF Hears
  <1>6. ASSUME NEW i \in 1..Len(q), LastSaid(q, i, t, ops)
        PROVE  \/ q[i] = x /\ x.op \in ops /\ x.thread = t
               \/ i \in 1..Len(w) /\ q[i] = w[i] /\ LastSaid(w, i, t, ops)
                  /\ (x.thread # t \/ x.op \notin ops)
    <2>1. CASE i = Len(q)
      BY <1>1, <1>4, <1>6, <2>1 DEF LastSaid
    <2>2. CASE i \in 1..Len(w)
      <3>1. ~Says(q, Len(q), t, ops)
        BY <1>1, <1>6, <2>2 DEF LastSaid
      <3>2. LastSaid(w, i, t, ops)
        BY <1>1, <1>2, <1>6, <2>2 DEF LastSaid
      <3> QED
        BY <1>1, <1>4, <2>2, <3>1, <3>2
    <2> QED
      BY <1>1, <2>1, <2>2
  <1> QED
    BY <1>1, <1>3, <1>5, <1>6

\* An update about another topic changes nothing for this one.
LEMMA ElsewhereShows ==
    ASSUME NEW w, NEW x, NEW q, Longer(q, w, x), NEW e, NEW T, NEW op,
           x.thread # e.thread, Shows(e, T, w, op)
    PROVE  Shows(e, T, q, op)
  <1>1. PICK t : t = e.thread
    OBVIOUS
  <1>2. ASSUME NEW ops
        PROVE  /\ Hears(w, t, ops) => Hears(q, t, ops)
               /\ \A i \in 1..Len(q) : LastSaid(q, i, t, ops) =>
                    i \in 1..Len(w) /\ q[i] = w[i] /\ LastSaid(w, i, t, ops)
    <2>1. /\ Hears(w, t, ops) => Hears(q, t, ops)
          /\ x.thread = t /\ x.op \in ops => Hears(q, t, ops)
          /\ \A i \in 1..Len(q) : LastSaid(q, i, t, ops) =>
               \/ q[i] = x /\ x.op \in ops /\ x.thread = t
               \/ i \in 1..Len(w) /\ q[i] = w[i] /\ LastSaid(w, i, t, ops)
                  /\ (x.thread # t \/ x.op \notin ops)
      BY HeardMore
    <2> QED
      BY <1>1, <2>1
  <1> QED
    BY <1>1, <1>2 DEF Shows

\* Of what an operator does to a topic the update settles it.
LEMMA TypedShows ==
    ASSUME NEW w, NEW x, NEW q, Longer(q, w, x), NEW e, NEW T, NEW T2, NEW op,
           x.thread = e.thread, Shows(e, T, w, op), T2.status = T.status,
           \/ x.op = "closed" /\ T2.closed /\ T2.name = T.name
           \/ x.op = "reopened" /\ ~T2.closed /\ T2.name = T.name
           \/ x.op = "renamed" /\ T2.closed = T.closed /\ T2.name = x.name
    PROVE  Shows(e, T2, q, op)
  <1>1. PICK t : t = e.thread
    OBVIOUS
  <1>2. ASSUME NEW ops
        PROVE  /\ Hears(w, t, ops) => Hears(q, t, ops)
               /\ x.op \in ops => Hears(q, t, ops)
               /\ \A i \in 1..Len(q) : LastSaid(q, i, t, ops) =>
                    \/ q[i] = x /\ x.op \in ops
                    \/ i \in 1..Len(w) /\ q[i] = w[i] /\ LastSaid(w, i, t, ops) /\ x.op \notin ops
    <2>1. /\ Hears(w, t, ops) => Hears(q, t, ops)
          /\ x.thread = t /\ x.op \in ops => Hears(q, t, ops)
          /\ \A i \in 1..Len(q) : LastSaid(q, i, t, ops) =>
               \/ q[i] = x /\ x.op \in ops /\ x.thread = t
               \/ i \in 1..Len(w) /\ q[i] = w[i] /\ LastSaid(w, i, t, ops)
                  /\ (x.thread # t \/ x.op \notin ops)
      BY HeardMore
    <2> QED
      BY <1>1, <2>1
  <1>3. CASE x.op = "closed" /\ T2.closed /\ T2.name = T.name
    <2>1. x.op \in Toggling /\ x.op \notin Renaming
      BY <1>3 DEF Toggling, Renaming
    <2> QED
      BY <1>1, <1>2, <1>3, <2>1 DEF Shows
  <1>4. CASE x.op = "reopened" /\ ~T2.closed /\ T2.name = T.name
    <2>1. x.op \in {"reopened"} /\ x.op \notin Renaming
      BY <1>4 DEF Renaming
    <2> QED
      BY <1>1, <1>2, <1>4, <2>1 DEF Shows
  <1>5. CASE x.op = "renamed" /\ T2.closed = T.closed /\ T2.name = x.name
    <2>1. x.op \notin Toggling /\ x.op \in Renaming
      BY <1>5 DEF Toggling, Renaming
    <2> QED
      BY <1>1, <1>2, <1>5, <2>1 DEF Shows
  <1> QED
    BY <1>3, <1>4, <1>5

\* An operator does something to a topic.
LEMMA HandSettles ==
    ASSUME IInv, Calm, CalmInv, NEW t \in 1..Len(tg), ByHand(t) PROVE CalmInv'
  <1>1. /\ TypeOK /\ tg \in Seq(Topic) /\ news \in Seq(News) /\ tg[t] \in Topic /\ Len(tg) <= MaxThreads
        /\ tg[t].exists /\ \A n \in Typed : n \in TopicName
        /\ UNCHANGED <<reg, events, proc, mem, disk, agents, timers, due, gates, signals, todo>>
    BY MirrorAssumption DEF IInv, TypeOK, Mapped, ByHand, registry, mirror, control
  <1>2. PICK T : T = tg[t]
    OBVIOUS
  <1>3. PICK op, name, T2 :
          /\ tg' = [tg EXCEPT ![t] = T2] /\ Tells(op, t, name) /\ T2.exists /\ T2.status = T.status
          /\ \/ op = "closed" /\ T2.closed /\ T2.name = T.name /\ name = None
             \/ op = "reopened" /\ ~T2.closed /\ T2.name = T.name /\ name = None
             \/ op = "renamed" /\ T2.closed = T.closed /\ T2.name = name /\ name \in Typed
    <2>1. CASE tg' = [tg EXCEPT ![t].closed = TRUE] /\ Tells("closed", t, None)
      <3>1. PICK T2 : T2 = [T EXCEPT !.closed = TRUE]
        OBVIOUS
      <3>2. T2.exists /\ T2.status = T.status /\ T2.closed /\ T2.name = T.name
        BY <1>1, <1>2, <3>1 DEF Topic
      <3>3. tg' = [tg EXCEPT ![t] = T2]
        BY <1>2, <2>1, <3>1
      <3> QED
        BY <2>1, <3>2, <3>3
    <2>2. CASE tg' = [tg EXCEPT ![t].closed = FALSE] /\ Tells("reopened", t, None)
      <3>1. PICK T2 : T2 = [T EXCEPT !.closed = FALSE]
        OBVIOUS
      <3>2. T2.exists /\ T2.status = T.status /\ ~T2.closed /\ T2.name = T.name
        BY <1>1, <1>2, <3>1 DEF Topic
      <3>3. tg' = [tg EXCEPT ![t] = T2]
        BY <1>2, <2>2, <3>1
      <3> QED
        BY <2>2, <3>2, <3>3
    <2>3. ASSUME NEW n \in Typed, tg' = [tg EXCEPT ![t].name = n] /\ Tells("renamed", t, n)
          PROVE  \E T2 : /\ tg' = [tg EXCEPT ![t] = T2] /\ T2.exists /\ T2.status = T.status
                         /\ T2.closed = T.closed /\ T2.name = n
      <3>1. PICK T2 : T2 = [T EXCEPT !.name = n]
        OBVIOUS
      <3>2. T2.exists /\ T2.status = T.status /\ T2.closed = T.closed /\ T2.name = n
        BY <1>1, <1>2, <3>1 DEF Topic
      <3>3. tg' = [tg EXCEPT ![t] = T2]
        BY <1>2, <2>3, <3>1
      <3> QED
        BY <3>2, <3>3
    <2>4. "delete" \notin Hands
      BY DEF Calm
    <2> QED
      BY <2>1, <2>2, <2>3, <2>4 DEF ByHand
  <1>4. /\ Len(tg') = Len(tg) /\ tg'[t] = T2 /\ \A u \in 1..Len(tg) : u # t => tg'[u] = tg[u]
    BY <1>1, <1>3
  <1>5. PICK x : x = [op |-> op, thread |-> t, name |-> name]
    OBVIOUS
  <1>6. x \in News /\ x.op = op /\ x.thread = t /\ x.name = name
    <2>1. t \in 1..MaxThreads
      BY <1>1, MirrorAssumption
    <2>2. op \in {"closed", "reopened", "renamed"} /\ name \in TopicName \cup {None}
      BY <1>1, <1>3
    <2> QED
      BY <1>5, <2>1, <2>2 DEF News
  <1>7. \/ missed' = missed \cup {t} /\ news' = news
        \/ missed' = missed /\ news' = Append(news, x)
    BY <1>3, <1>5 DEF Tells
  <1>8. ASSUME NEW k \in Keys PROVE Agrees(k)'
    <2>1. Agrees(k)
      BY DEF CalmInv
    <2>2. PICK o : o = OpOf(todo, k)
      OBVIOUS
    <2>3. PICK e : e = mem[k]
      OBVIOUS
    <2>4. e # None => e.thread \in 1..Len(tg)
      BY <2>3, TopicKnown DEF IInv
    <2>5. e # None => tg[e.thread].exists /\ Entered(e, o)
      BY <2>1, <2>2, <2>3 DEF Agrees, Entries
    <2>6. e # None => tg'[e.thread].exists
      BY <1>3, <1>4, <2>4, <2>5
    <2>7. ASSUME e # None, e.thread \notin missed' PROVE Shows(e, tg'[e.thread], news', o)
      <3>1. Shows(e, tg[e.thread], news, o)
        BY <1>7, <2>1, <2>2, <2>3, <2>7 DEF Agrees, Entries
      <3>2. CASE e.thread # t
        <4>1. tg'[e.thread] = tg[e.thread]
          BY <1>4, <2>4, <2>7, <3>2
        <4>2. PICK q : q = news'
          OBVIOUS
        <4>3. CASE q = news
          BY <3>1, <4>1, <4>2, <4>3
        <4>4. CASE q = Append(news, x)
          <5>1. PICK U : U = tg[e.thread]
            OBVIOUS
          <5>2. Shows(e, U, q, o)
            BY <1>1, <1>6, <3>1, <3>2, <4>4, <5>1, ElsewhereShows DEF Longer
          <5> QED
            BY <4>1, <4>2, <5>1, <5>2
        <4> QED
          BY <1>7, <4>2, <4>3, <4>4
      <3>3. CASE e.thread = t
        <4>1. tg'[e.thread] = T2 /\ tg[e.thread] = T
          BY <1>2, <1>4, <3>3
        <4>2. PICK q : q = news'
          OBVIOUS
        <4>3. q = Append(news, x)
          BY <1>7, <2>7, <3>3, <4>2
        <4>4. \/ x.op = "closed" /\ T2.closed /\ T2.name = T.name
              \/ x.op = "reopened" /\ ~T2.closed /\ T2.name = T.name
              \/ x.op = "renamed" /\ T2.closed = T.closed /\ T2.name = x.name
          BY <1>3, <1>6
        <4>5. Longer(q, news, x) /\ x.thread = e.thread /\ Shows(e, T, news, o) /\ T2.status = T.status
          BY <1>1, <1>3, <1>6, <3>1, <3>3, <4>1, <4>3 DEF Longer
        <4>6. Shows(e, T2, q, o)
          BY <4>4, <4>5, TypedShows
        <4> QED
          BY <4>1, <4>2, <4>6
      <3> QED
        BY <3>2, <3>3
    <2>8. Entries(mem, tg', news', missed', k, o)
      BY <2>3, <2>5, <2>6, <2>7 DEF Entries
    <2>9. proc \in {"starting", "up"} => Tracking(mem, agents, tg', timers \cup due, todo, k)
      BY <1>4, <2>1 DEF Agrees, Tracking, Tracks
    <2> QED
      BY <1>1, <2>2, <2>8, <2>9 DEF Agrees
  <1>9. Phases'
    BY <1>1 DEF CalmInv, Phases, Knows
  <1>10. \A i \in 1..Len(news') : news'[i].op = "renamed" => news'[i].name \in Typed
    <2>1. PICK q : q = news'
      OBVIOUS
    <2>2. CASE q = news
      BY <2>1, <2>2 DEF CalmInv
    <2>3. CASE q = Append(news, x)
      <3>1. \A i \in 1..Len(q) : q[i] = x \/ (i \in 1..Len(news) /\ q[i] = news[i])
        BY <1>1, <1>6, <2>3
      <3>2. x.op = "renamed" => x.name \in Typed
        BY <1>3, <1>6
      <3> QED
        BY <2>1, <3>1, <3>2 DEF CalmInv
    <2> QED
      BY <1>7, <2>1, <2>2, <2>3
  <1> QED
    BY <1>1, <1>8, <1>9, <1>10 DEF CalmInv

\* Nothing waits, nothing is mapped.
LEMMA InitSettles == ASSUME Init PROVE CalmInv
  <1>1. /\ gates = {} /\ signals = {} /\ disk = mem /\ proc = "down" /\ todo = <<>>
        /\ events = <<>> /\ news = <<>> /\ \A k \in Keys : mem[k] = None
    BY DEF Init, Absent
  <1>2. \A i : i \in 1..Len(<<>>) => FALSE
    OBVIOUS
  <1>3. Phases
    BY <1>1, <1>2 DEF Phases
  <1>4. \A k \in Keys : Agrees(k)
    BY <1>1 DEF Agrees, Entries
  <1> QED
    BY <1>1, <1>2, <1>3, <1>4 DEF CalmInv

\* Every action of a calm daemon and of its world keeps something on its way.
LEMMA NextSettles == ASSUME IInv, IInv', Calm, CalmInv, [Next]_vars PROVE CalmInv'
  <1>1. CASE Step
    BY <1>1, StepSettles
  <1>2. CASE List \/ (\E k \in Keys : HerdrChanges(k)) \/ UNCHANGED vars
    <2>1. UNCHANGED <<reg, events, proc, mem, disk, agents, timers, due, gates, signals, todo, tg, news, missed>>
      BY <1>2 DEF List, HerdrChanges, vars, registry, mirror, control, world
    <2> QED
      BY <2>1, CalmSame
  <1>3. CASE \E k \in Keys : TimerFires(k)
    <2>1. UNCHANGED <<reg, events, proc, mem, disk, agents, gates, signals, todo, tg, news, missed>>
      BY <1>3 DEF TimerFires, registry, control, world
    <2>2. proc # "starting" /\ timers' \cup due' = timers \cup due
      BY <1>3 DEF TimerFires
    <2> QED
      BY <2>1, <2>2, CalmSame
  <1>4. CASE Apply \/ \E k \in Keys : StatusEvent(k)
    BY <1>4, ApplySettles, StatusSettles
  <1>5. CASE TakeEvent \/ NewsUnknown \/ Sweep \/ Boot \/ Started \/ Shutdown \/ Stopped
    BY <1>5, TakeSettles, UnknownSettles, SweepSettles, BootSettles, LifeSettles
  <1>6. CASE \E k \in Keys : Fire(k) \/ OnTopicClosed(k) \/ OnTopicReopened(k) \/ OnTopicRenamed(k)
    BY <1>6, FireSettles, ClosedSettles, ReopenedSettles, RenamedSettles
  <1>7. CASE \E t \in 1..Len(tg) : ByHand(t)
    BY <1>7, HandSettles
  <1>8. gates = {} /\ signals = {} /\ Gates = {} /\ ~Faults
    BY DEF Calm, CalmInv
  <1>9. CASE \/ RightsChanged \/ Crash \/ Desk \/ Option \/ Resync
             \/ \E s \in {"catchup", "resync"} : TakeSignal(s)
    BY <1>8, <1>9 DEF RightsChanged, Crash, Desk, Option, Resync, TakeSignal
  <1> QED
    BY <1>1, <1>2, <1>3, <1>4, <1>5, <1>6, <1>7, <1>9 DEF Next

\* With nothing on its way, nothing is unlike.
LEMMA QuietSettled == ASSUME IInv, CalmInv PROVE Settled
  <1> SUFFICES ASSUME Quiet, NEW k \in Keys
               PROVE  \/ mem[k] # None /\ (mem[k].muted \/ mem[k].thread \in missed)
                      \/ mem[k] = None /\ Len(tg) = MaxThreads
                      \/ /\ herdr[k] # None /\ mem[k] # None
                         /\ tg[mem[k].thread] = [key |-> k, name |-> Display(herdr[k].name),
                                                 status |-> herdr[k].status, closed |-> FALSE,
                                                 exists |-> TRUE]
                      \/ /\ herdr[k] = None
                         /\ mem[k] # None => /\ tg[mem[k].thread].closed
                                             /\ tg[mem[k].thread].status = "exited"
    BY DEF Settled
  <1>1. /\ proc = "up" /\ todo = <<>> /\ events = <<>> /\ news = <<>> /\ timers \cup due = {} /\ reg = herdr
    BY DEF Quiet, Idle
  <1>2. \A i : i \in 1..Len(<<>>) => FALSE
    OBVIOUS
  <1>3. OpOf(todo, k) = "idle" /\ ~Will(todo, k)
    BY <1>1, <1>2 DEF OpOf, Will, Passes
  <1>4. agents[k] = herdr[k]
    <2>1. Knows(k)
      BY <1>1 DEF CalmInv, Phases
    <2> QED
      BY <1>1, <1>2, <1>3, <2>1 DEF Knows, Reports
  <1>5. PICK e : e = mem[k]
    OBVIOUS
  <1>6. PICK a : a = herdr[k]
    OBVIOUS
  <1>7. Entries(mem, tg, news, missed, k, "idle") /\ Tracks(e, a, tg, {}, k, "idle")
    BY <1>1, <1>3, <1>4, <1>5, <1>6 DEF CalmInv, Agrees, Tracking
  <1>8. CASE e = None
    BY <1>5, <1>6, <1>7, <1>8 DEF Tracks, Live
  <1>9. CASE e # None /\ (e.muted \/ e.thread \in missed)
    BY <1>5, <1>9
  <1>10. CASE e # None /\ ~e.muted /\ e.thread \notin missed
    <2>1. PICK T : T = tg[e.thread]
      OBVIOUS
    <2>2. e \in Entry /\ T \in Topic /\ T.key = k /\ a \in Look \cup {None}
      BY <1>5, <1>6, <1>10, <2>1, TopicKnown DEF IInv, TypeOK
    <2>3. T.exists /\ Entered(e, "idle") /\ Shows(e, T, news, "idle")
      BY <1>5, <1>7, <1>10, <2>1 DEF Entries
    <2>4. \A t, ops : ~Hears(news, t, ops)
      BY <1>1, <1>2 DEF Hears
    <2>5. T.status = e.status /\ (Live(e) => ~T.closed) /\ (~Live(e) => T.closed)
          /\ (T.name = e.name \/ e.name[2] = "bare")
      BY <1>10, <2>3, <2>4 DEF Shows
    <2>6. CASE a = None
      <3>1. ~Live(e)
        BY <1>7, <1>10, <2>6 DEF Tracks
      <3>2. e.status = "exited"
        BY <1>10, <3>1 DEF Live
      <3> QED
        BY <1>5, <1>6, <2>1, <2>5, <2>6, <3>1, <3>2
    <2>7. CASE a # None
      <3>1. Live(e) /\ e.name = Display(a.name) /\ e.status = a.status
        BY <1>7, <1>10, <2>7 DEF Tracks
      <3>2. T.name = Display(a.name) /\ T.status = a.status /\ T.closed = FALSE /\ T.exists = TRUE
        BY <2>2, <2>3, <2>5, <3>1, DisplayFull DEF Topic
      <3>3. T = [key |-> k, name |-> Display(a.name), status |-> a.status, closed |-> FALSE, exists |-> TRUE]
        BY <2>2, <3>2 DEF Topic
      <3> QED
        BY <1>5, <1>6, <1>10, <2>1, <2>7, <3>3
    <2> QED
      BY <2>6, <2>7
  <1> QED
    BY <1>8, <1>9, <1>10

\* When a calm daemon has nothing left to do (daemon.go, Run), Telegram shows Herdr,
\* whatever order events, timers, updates, restarts and operators came in.
THEOREM SpecSettled == ASSUME Calm PROVE Spec => []Settled
  <1>1. Init => IInv /\ CalmInv
    BY InitIInv, InitSettles
  <1>2. IInv /\ CalmInv /\ [Next]_vars => (IInv /\ CalmInv)'
    BY NextIInv, NextSettles
  <1>3. IInv /\ CalmInv => Settled
    BY QuietSettled
  <1> QED
    BY <1>1, <1>2, <1>3, PTL DEF Spec
=============================================================================
