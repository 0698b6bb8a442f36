--------------------------- MODULE DesktopProofs ----------------------------
(***************************************************************************)
(* The properties of the node selection, of a saved profile file, of the   *)
(* enhancement pipeline, of the backups and of the updater, for any number *)
(* of callers, steps and values.                                           *)
(***************************************************************************)
EXTENDS Selection, Editor, Enhance, AutoBackup, Backup, WebDav, Updater,
        FiniteSetTheorems, FunctionTheorems, WellFoundedInduction, TLAPS

-----------------------------------------------------------------------------
(* Lists and places: every set of places of a list has an order, and what  *)
(* is kept of a list is what was at those places.                          *)

Increasing(at) == \A i, j \in DOMAIN at : i < j => at[i] < at[j]
Ordered(places) == \E at \in [1..Cardinality(places) -> places] : Increasing(at)

LEMMA NoneOrdered == Ordered({})
<1>1. Cardinality({}) = 0
  BY FS_EmptySet
<1>2. 1..0 = {}
  OBVIOUS
<1>3. [i \in {} |-> 0] \in [{} -> {}]
  OBVIOUS
<1>4. Increasing([i \in {} |-> 0])
  BY DEF Increasing
<1> QED  BY <1>1, <1>2, <1>3, <1>4 DEF Ordered

LEMMA OneMoreOrdered ==
  ASSUME NEW n \in Nat, NEW places \in SUBSET (1..n), Ordered(places)
  PROVE  Ordered(places \union {n + 1})
<1> DEFINE c == Cardinality(places)
           more == places \union {n + 1}
<1>1. c \in Nat /\ Cardinality(more) = c + 1
  <2>1. IsFiniteSet(1..n)
    BY FS_Interval
  <2>2. IsFiniteSet(places)
    BY <2>1, FS_Subset
  <2>3. n + 1 \notin places
    OBVIOUS
  <2> QED  BY <2>2, <2>3, FS_AddElement, FS_CardinalityType
<1> HIDE DEF c, more
<1>2. PICK at \in [1..c -> places] : Increasing(at)
  BY DEF Ordered, c
<1> DEFINE next == [i \in 1..(c + 1) |-> IF i = c + 1 THEN n + 1 ELSE at[i]]
<1>3. \A i \in 1..(c + 1) : i # c + 1 => i \in 1..c
  BY <1>1
<1>4. next \in [1..(c + 1) -> more]
  BY <1>2, <1>3 DEF more
<1>5. \A i, j \in 1..(c + 1) : i < j => next[i] < next[j]
  <2> SUFFICES ASSUME NEW i \in 1..(c + 1), NEW j \in 1..(c + 1), i < j
               PROVE  next[i] < next[j]
    OBVIOUS
  <2>1. i \in 1..c /\ next[i] = at[i] /\ at[i] \in places
    BY <1>1, <1>2
  <2>2. CASE j = c + 1
    <3>1. next[j] = n + 1
      BY <2>2
    <3>2. at[i] \in 1..n
      BY <2>1
    <3> HIDE DEF next
    <3> QED  BY <2>1, <3>1, <3>2
  <2>3. CASE j # c + 1
    BY <1>2, <1>3, <2>1, <2>3 DEF Increasing
  <2> QED  BY <2>2, <2>3
<1>6. DOMAIN next = 1..(c + 1)
  OBVIOUS
<1> HIDE DEF next
<1>7. Increasing(next)
  BY <1>5, <1>6 DEF Increasing
<1> QED  BY <1>1, <1>4, <1>7 DEF Ordered, more

\* A set of numbers that is not empty has a least one.
LEMMA LeastNumber ==
  ASSUME NEW T \in SUBSET Nat, T # {}
  PROVE  \E n \in T : \A m \in T : n <= m
<1> DEFINE F == {0..n : n \in T}
<1>1. ASSUME NEW n \in T PROVE IsFiniteSet(0..n) /\ 0..n \subseteq Nat
  <2>1. n \in Int /\ 0 \in Int
    OBVIOUS
  <2>2. IsFiniteSet(0..n)
    BY <2>1, FS_Interval, Zenon
  <2> QED BY <2>2
<1>2. F # {} /\ F \subseteq FiniteSubsetsOf(Nat)
  BY <1>1 DEF FiniteSubsetsOf
<1>3. PICK x \in F : \A y \in F : <<y, x>> \notin StrictSubsetOrdering(Nat)
  <2>1. IsWellFoundedOn(StrictSubsetOrdering(Nat), FiniteSubsetsOf(Nat))
    BY FS_StrictSubsetOrderingWellFounded, Zenon
  <2> HIDE DEF F
  <2> QED BY <1>2, <2>1, WFMin, Zenon
<1>4. PICK n \in T : x = 0..n
  OBVIOUS
<1>5. ASSUME NEW m \in T, m < n PROVE FALSE
  <2>1. 0..m \in F /\ 0..m \subseteq x /\ 0..m # x /\ x \subseteq Nat
    <3>1. n \in 0..n /\ n \notin 0..m
      BY <1>5
    <3> QED BY <1>4, <1>5, <3>1
  <2> QED BY <2>1, <1>3 DEF StrictSubsetOrdering
<1> QED BY <1>5

\* By the least number: if some set of places had no order, so had one whose
\* places go up to the least bound there is.
LEMMA PlacesAreOrdered ==
  ASSUME NEW n \in Nat, NEW places \in SUBSET (1..n)
  PROVE  Ordered(places)
<1> DEFINE bad == {m \in Nat : \E p \in SUBSET (1..m) : ~Ordered(p)}
<1>1. bad = {}
  <2> SUFFICES ASSUME bad # {} PROVE FALSE
    OBVIOUS
  <2>1. PICK m \in bad : \A k \in bad : m <= k
    <3> HIDE DEF bad
    <3>1. bad \in SUBSET Nat
      BY DEF bad
    <3> QED  BY <3>1, LeastNumber
  <2>2. PICK p \in SUBSET (1..m) : ~Ordered(p)
    BY <2>1
  <2>3. m # 0
    <3> SUFFICES ASSUME m = 0 PROVE FALSE
      OBVIOUS
    <3>1. p = {}
      BY <2>2
    <3> QED  BY <2>2, <3>1, NoneOrdered
  <2>4. m \in Nat /\ m - 1 \in Nat /\ m - 1 \notin bad
    <3>1. m \in Nat
      OBVIOUS
    <3> HIDE DEF bad
    <3> QED  BY <2>1, <2>3, <3>1
  <2>5. p \ {m} \in SUBSET (1..(m - 1))
    BY <2>2, <2>4
  <2>6. Ordered(p \ {m})
    BY <2>4, <2>5
  <2>7. CASE m \notin p
    <3>1. p \ {m} = p
      BY <2>7
    <3> QED  BY <2>2, <2>6, <3>1
  <2>8. CASE m \in p
    <3>1. (p \ {m}) \union {(m - 1) + 1} = p
      BY <2>4, <2>8
    <3>2. Ordered((p \ {m}) \union {(m - 1) + 1})
      BY <2>4, <2>5, <2>6, OneMoreOrdered
    <3> QED  BY <2>2, <3>1, <3>2
  <2> QED  BY <2>7, <2>8
<1> QED  BY <1>1

LEMMA InOrderIs ==
  ASSUME NEW n \in Nat, NEW places \in SUBSET (1..n)
  PROVE  /\ Cardinality(places) \in Nat
         /\ InOrder(places) \in [1..Cardinality(places) -> places]
         /\ \A i \in places : \E k \in 1..Cardinality(places) :
              InOrder(places)[k] = i
<1> DEFINE c == Cardinality(places)
           at == InOrder(places)
<1>1. IsFiniteSet(places) /\ c \in Nat
  <2>1. IsFiniteSet(1..n)
    BY FS_Interval
  <2> QED  BY <2>1, FS_Subset, FS_CardinalityType
<1>2. at \in [1..c -> places] /\ Increasing(at)
  <2>1. Ordered(places)
    BY PlacesAreOrdered
  <2> QED  BY <2>1 DEF Ordered, Increasing, InOrder
<1>3. places \subseteq Nat
  OBVIOUS
<1> HIDE DEF at, c
<1>4. at \in Injection(1..c, places)
  <2> SUFFICES ASSUME NEW i \in 1..c, NEW j \in 1..c, i # j
               PROVE  at[i] # at[j]
    BY <1>2 DEF Injection, IsInjective
  <2>1. i < j \/ j < i
    BY <1>1
  <2>2. DOMAIN at = 1..c /\ at[i] \in Nat /\ at[j] \in Nat
    BY <1>2, <1>3
  <2> QED  BY <1>2, <2>1, <2>2 DEF Increasing
<1>5. Cardinality(1..c) = c
  BY <1>1, FS_Interval
<1>6. at \in Surjection(1..c, places)
  BY <1>1, <1>4, <1>5, FS_Injection DEF c
<1> QED  BY <1>1, <1>2, <1>6 DEF Surjection, at, c

LEMMA KeptIs ==
  ASSUME NEW R, NEW list \in Seq(R), NEW places \in SUBSET DOMAIN list
  PROVE  /\ Kept(list, places) \in Seq(R)
         /\ ToSet(Kept(list, places)) = {list[i] : i \in places}
<1> DEFINE c == Cardinality(places)
           at == InOrder(places)
           kept == Kept(list, places)
<1>1. /\ c \in Nat /\ at \in [1..c -> places]
      /\ \A i \in places : \E k \in 1..c : at[k] = i
  <2>1. Len(list) \in Nat /\ places \in SUBSET (1..Len(list))
    OBVIOUS
  <2> QED  BY <2>1, InOrderIs, Zenon
<1>2. kept = [i \in 1..c |-> list[at[i]]]
  BY DEF Kept
<1> HIDE DEF at, c
<1>3. \A i \in 1..c : list[at[i]] \in R
  BY <1>1
<1>4. kept \in Seq(R) /\ DOMAIN kept = 1..c
  BY <1>1, <1>2, <1>3
<1>5. ToSet(kept) = {list[i] : i \in places}
  <2>1. \A i \in 1..c : kept[i] = list[at[i]] /\ at[i] \in places
    BY <1>1, <1>2
  <2>2. ToSet(kept) = {kept[i] : i \in 1..c}
    BY <1>4 DEF ToSet
  <2> HIDE DEF kept
  <2> QED  BY <1>1, <2>1, <2>2
<1> QED  BY <1>4, <1>5

-----------------------------------------------------------------------------
(* What the operators of reconcile_selected_nodes give.                    *)

Snapshots == [Groups -> Group \union {Nobody}]

\* The records in force: one for a group.
LEMMA UniqueIs ==
  ASSUME NEW records \in Seq(Record)
  PROVE  /\ Unique(records) \subseteq Record
              /\ Unique(records) \subseteq ToSet(records)
         /\ \A r \in Unique(records) : r.name \in Groups
         /\ \A r, q \in Unique(records) : r.name = q.name => r = q
<1>1. \A i \in DOMAIN records : i \in Nat /\ records[i] \in Record
  OBVIOUS
<1>2. LastPlaces(records) \subseteq DOMAIN records
  BY DEF LastPlaces
<1>3. Unique(records) \subseteq Record
        /\ Unique(records) \subseteq ToSet(records)
  BY <1>1, <1>2 DEF Unique, ToSet
<1>4. \A r \in Unique(records) : r.name # Nobody
  BY DEF Unique, LastPlaces
<1>5. ASSUME NEW r \in Unique(records), NEW q \in Unique(records), r.name = q.name
      PROVE  r = q
  <2>1. PICK i \in LastPlaces(records) : r = records[i]
    BY DEF Unique
  <2>2. PICK j \in LastPlaces(records) : q = records[j]
    BY DEF Unique
  <2>3. i \in Nat /\ j \in Nat
    BY <1>1, <1>2
  <2>4. ~(i < j) /\ ~(j < i)
    BY <1>5, <2>1, <2>2 DEF LastPlaces
  <2> QED  BY <2>1, <2>2, <2>3, <2>4
<1> QED  BY <1>3, <1>4, <1>5 DEF Record

LEMMA RemainingIs ==
  ASSUME NEW records \in Seq(Record), NEW snapshot, NEW completed
  PROVE  /\ Remaining(records, snapshot, completed) \in Seq(Record)
         /\ ToSet(Remaining(records, snapshot, completed)) =
              {r \in Unique(records) : Activated(r, snapshot) /\ r \notin completed}
<1> DEFINE places == {i \in LastPlaces(records) :
                        Activated(records[i], snapshot)
                          /\ records[i] \notin completed}
<1>1. places \in SUBSET DOMAIN records
  BY DEF LastPlaces
<1>2. Remaining(records, snapshot, completed) = Kept(records, places)
  BY DEF Remaining
<1>3. {records[i] : i \in places} =
        {r \in Unique(records) : Activated(r, snapshot) /\ r \notin completed}
  BY DEF Unique
<1> HIDE DEF places
<1> QED  BY <1>1, <1>2, <1>3, KeptIs, Zenon

\* A record is kept as it is, dropped, or given the node the group is at.
LEMMA ReconciledIs ==
  ASSUME NEW r \in Record, r.name \in Groups,
         NEW previous \in Snapshots \union {Nobody}, NEW snapshot \in Snapshots,
         NEW after, after = Reconciled(r, previous, snapshot)
  PROVE  /\ after \in Record \union {Nobody}
         /\ after # Nobody /\ after # r =>
              /\ after.name = r.name /\ snapshot[r.name] # Nobody
              /\ after.now = snapshot[r.name].now
              /\ ~snapshot[r.name].selectable \/ Missing(snapshot, r.name, r.now)
         /\ after # r /\ r.now # Nobody =>
              \/ snapshot[r.name] # Nobody /\ ~snapshot[r.name].selectable
              \/ /\ previous # Nobody /\ Missing(previous, r.name, r.now)
                 /\ Missing(snapshot, r.name, r.now)
<1> DEFINE g == snapshot[r.name]
           instead == IF g.now \in g.all THEN [r EXCEPT !.now = g.now] ELSE Nobody
<1>1. g \in Group \union {Nobody}
        /\ (previous # Nobody => previous[r.name] \in Group \union {Nobody})
  BY DEF Snapshots
<1>2. g # Nobody => g.now \in Nodes \union {Nobody} /\ g.all \subseteq Nodes
  BY <1>1 DEF Group
<1>3. g # Nobody => instead \in Record \union {Nobody}
  BY <1>2 DEF Record
<1>4. instead # Nobody => instead.name = r.name /\ instead.now = g.now
  BY DEF Record
<1>5. CASE r.now = Nobody
  BY <1>5 DEF Reconciled
<1>6. CASE r.now # Nobody /\ g = Nobody
  <2>1. after = IF previous # Nobody /\ previous[r.name] = Nobody THEN Nobody ELSE r
    BY <1>6 DEF Reconciled
  <2> QED  BY <1>6, <2>1 DEF Missing
<1>7. CASE r.now # Nobody /\ g # Nobody /\ g.all = {}
  <2>1. after = r
    BY <1>7 DEF Reconciled
  <2> QED  BY <1>7, <2>1
<1>8. CASE r.now # Nobody /\ g # Nobody /\ g.all # {}
  <2>1. after = IF ~g.selectable
                THEN IF instead = Nobody /\ r.now \in g.all THEN r ELSE instead
                ELSE IF r.now \in g.all \/ ~ConfirmedMissing(previous, r) THEN r
                ELSE instead
    BY <1>8 DEF Reconciled
  <2>2. ConfirmedMissing(previous, r) =>
          previous # Nobody /\ Missing(previous, r.name, r.now)
    BY DEF ConfirmedMissing, Missing
  <2>3. r.now \notin g.all => Missing(snapshot, r.name, r.now)
    BY DEF Missing
  <2> HIDE DEF instead
  <2> QED  BY <1>3, <1>4, <1>8, <2>1, <2>2, <2>3
<1> QED  BY <1>5, <1>6, <1>7, <1>8

LEMMA PlanIs ==
  ASSUME NEW records \in Seq(Record),
         NEW previous \in Snapshots \union {Nobody}, NEW snapshot \in Snapshots
  PROVE  /\ Plan(records, previous, snapshot) \in Seq(Record)
         /\ ToSet(Plan(records, previous, snapshot)) =
              {Reconciled(r, previous, snapshot) : r \in Unique(records)} \ {Nobody}
<1> DEFINE After(r) == Reconciled(r, previous, snapshot)
           places == {i \in LastPlaces(records) : After(records[i]) # Nobody}
           kept == Kept(records, places)
           plan == Plan(records, previous, snapshot)
<1>1. places \in SUBSET DOMAIN records
  BY DEF LastPlaces
<1>2. kept \in Seq(Record) /\ ToSet(kept) = {records[i] : i \in places}
  BY <1>1, KeptIs, Zenon
<1>3. {records[i] : i \in places} = {r \in Unique(records) : After(r) # Nobody}
  BY DEF Unique
<1>4. plan = [i \in DOMAIN kept |-> After(kept[i])]
  BY DEF Plan
<1>5. \A r \in Unique(records) : After(r) \in Record \union {Nobody}
  BY UniqueIs, ReconciledIs
<1> HIDE DEF After, places, kept, plan
<1>6. DOMAIN kept = 1..Len(kept) /\ Len(kept) \in Nat
  BY <1>2
<1>7. \A i \in DOMAIN kept :
        kept[i] \in Unique(records) /\ After(kept[i]) # Nobody
          /\ After(kept[i]) \in Record
  BY <1>2, <1>3, <1>5 DEF ToSet
<1>8. plan \in Seq(Record)
  BY <1>4, <1>6, <1>7
<1>9. ToSet(plan) = {After(r) : r \in Unique(records)} \ {Nobody}
  <2>1. ToSet(plan) = {After(kept[i]) : i \in DOMAIN kept}
    BY <1>4 DEF ToSet
  <2>2. \A r \in Unique(records) : After(r) # Nobody =>
          \E i \in DOMAIN kept : kept[i] = r
    BY <1>2, <1>3 DEF ToSet
  <2> QED  BY <1>7, <2>1, <2>2
<1> QED  BY <1>8, <1>9 DEF plan, After

-----------------------------------------------------------------------------
(* The tasks, one at a time.                                               *)

TaskStages == {"none", "await", "fetch", "apply", "selecting", "refetch",
               "reapply", "reselecting", "persist", "done"}
Planned == {"apply", "selecting", "reapply", "reselecting", "persist"}
Idle == {"none", "await", "done"}

TaskOf == [pc : TaskStages, uid : SwitchTo \union {Nobody}, wanted : Seq(Record),
           looks : Seq(Snapshots), plan : Seq(Record), todo : Seq(Record),
           completed : SUBSET Record]

\* What the task had seen before it looked last.
Before(t) == IF Len(t.looks) = 1 THEN Nobody ELSE t.looks[1]

\* The plan is the one of the last look, and what is left to do is in force.
SoundTask(t) ==
  /\ t.pc \in {"none", "await", "fetch"} => t.looks = <<>> /\ t.completed = {}
  /\ t.pc \in {"apply", "selecting", "refetch"} => Len(t.looks) = 1
  /\ t.pc \in {"reapply", "reselecting"} => Len(t.looks) = 2
  /\ t.pc = "persist" => Len(t.looks) \in 1..2 /\ t.todo = <<>>
  /\ t.pc \in {"selecting", "reselecting"} => t.todo # <<>>
  /\ t.pc \in Planned => /\ t.plan = Plan(t.wanted, Before(t), Last(t.looks))
                         /\ ToSet(t.todo) \subseteq Unique(t.wanted)
  /\ t.completed \subseteq Unique(t.wanted)

SelectionTypes ==
  /\ shown \in SwitchTo /\ selected \in [SwitchTo -> Seq(Record)]
  /\ offered \in Snapshots
  /\ generation \in 0..MaxSwitches
  /\ tasks \in [Generations -> TaskOf]
  /\ choosing \in Record \union {Nobody}
  /\ disturbed \in BOOLEAN

AllSound == \A n \in Generations : SoundTask(tasks[n])

\* No task starts before the one before it is done.
InTurn ==
  \A n \in Generations :
    /\ n > generation => tasks[n].pc = "none"
    /\ tasks[n].pc \notin {"none", "await"} =>
         \A m \in Generations : m < n => tasks[m].pc = "done"

LEMMA HeadAndTail ==
  ASSUME NEW R, NEW list \in Seq(R), list # <<>>
  PROVE  /\ Tail(list) \in Seq(R) /\ Head(list) \in R
         /\ ToSet(list) = {Head(list)} \union ToSet(Tail(list))
<1>1. /\ Len(list) \in Nat /\ Len(list) >= 1
      /\ DOMAIN list = 1..Len(list) /\ DOMAIN Tail(list) = 1..(Len(list) - 1)
      /\ Head(list) = list[1]
  OBVIOUS
<1>2. \A i \in 1..(Len(list) - 1) : Tail(list)[i] = list[i + 1]
        /\ i + 1 \in 1..Len(list)
  BY <1>1
<1>3. \A i \in 1..Len(list) : i # 1 =>
        i - 1 \in 1..(Len(list) - 1) /\ (i - 1) + 1 = i
  BY <1>1
<1>4. \A i \in 1..Len(list) : i # 1 => Tail(list)[i - 1] = list[i]
  <2> SUFFICES ASSUME NEW i \in 1..Len(list), i # 1
               PROVE  Tail(list)[i - 1] = list[i]
    OBVIOUS
  <2>1. i - 1 \in 1..(Len(list) - 1) /\ (i - 1) + 1 = i
    BY <1>1
  <2> QED  BY <1>2, <2>1
<1>5. ToSet(list) \subseteq {Head(list)} \union ToSet(Tail(list))
  <2> SUFFICES ASSUME NEW i \in 1..Len(list)
               PROVE  list[i] \in {Head(list)} \union ToSet(Tail(list))
    BY <1>1 DEF ToSet
  <2>1. CASE i = 1
    BY <1>1, <2>1
  <2>2. CASE i # 1
    <3>1. i - 1 \in DOMAIN Tail(list) /\ Tail(list)[i - 1] = list[i]
      BY <1>1, <1>3, <1>4, <2>2
    <3> QED  BY <3>1 DEF ToSet
  <2> QED  BY <2>1, <2>2
<1>6. ToSet(Tail(list)) \subseteq ToSet(list) /\ Head(list) \in ToSet(list)
  BY <1>1, <1>2 DEF ToSet
<1> QED  BY <1>5, <1>6

LEMMA NothingInForce == Unique(<<>>) = {} /\ ToSet(<<>>) = {}
<1>1. DOMAIN <<>> = {}
  OBVIOUS
<1> QED  BY <1>1 DEF Unique, LastPlaces, ToSet

LEMMA NoTaskIsSound ==
  /\ NoTask \in TaskOf /\ NoTask.pc = "none" /\ SoundTask(NoTask)
  /\ [NoTask EXCEPT !.pc = "done"] \in TaskOf
  /\ [NoTask EXCEPT !.pc = "done"].pc = "done"
  /\ SoundTask([NoTask EXCEPT !.pc = "done"])
<1>1. <<>> \in Seq(Record) /\ <<>> \in Seq(Snapshots)
  OBVIOUS
<1>2. NoTask \in TaskOf
  <2>1. NoTask.wanted \in Seq(Record) /\ NoTask.plan \in Seq(Record)
          /\ NoTask.todo \in Seq(Record)
    BY DEF NoTask
  <2> QED  BY <1>1 DEF NoTask, TaskOf, TaskStages
<1>3. NoTask.pc = "none" /\ NoTask.looks = <<>> /\ NoTask.completed = {}
  BY DEF NoTask
<1> DEFINE x == [NoTask EXCEPT !.pc = "done"]
<1>4. /\ x \in TaskOf /\ x.pc = "done" /\ x.looks = <<>> /\ x.completed = {}
  BY <1>2, <1>3 DEF TaskOf, TaskStages
<1> HIDE DEF x
<1>5. SoundTask(x) /\ SoundTask(NoTask)
  BY <1>3, <1>4 DEF SoundTask, Planned
<1> QED  BY <1>2, <1>3, <1>4, <1>5 DEF x

LEMMA SelectionInitHolds ==
  ASSUME SelectionInit
  PROVE  SelectionTypes /\ AllSound /\ InTurn
<1>1. NoTask.pc = "none"
  BY NoTaskIsSound
<1>2. NoTask \in TaskOf /\ SoundTask(NoTask)
  BY NoTaskIsSound
<1>3. SelectionTypes
  <2>1. tasks \in [Generations -> TaskOf]
    BY <1>2 DEF SelectionInit
  <2>2. generation \in 0..MaxSwitches
    BY SelectionAssumption DEF SelectionInit
  <2>3. offered \in Snapshots
    BY DEF SelectionInit, Snapshots
  <2> QED  BY <2>1, <2>2, <2>3, SelectionAssumption
              DEF SelectionInit, SelectionTypes
<1> QED  BY <1>1, <1>2, <1>3 DEF SelectionInit, AllSound, InTurn

-----------------------------------------------------------------------------
(* A step of a task: of its own entry it makes another sound one.          *)

Started(n) == tasks[n].pc = "await" => Awaited(n)

\* Task n goes on as x, and nobody else does anything.
StepsTo(n, x) ==
  /\ x \in TaskOf /\ SoundTask(x) /\ x.pc \notin {"none", "await"}
  /\ tasks' = [tasks EXCEPT ![n] = x]
  /\ tasks[n].pc \notin {"none", "done"} /\ Started(n)

Quiet == shown' = shown /\ generation' = generation /\ choosing' = choosing
Calm == Quiet /\ selected' = selected /\ offered' = offered
  /\ disturbed' = disturbed

LEMMA EndSteps ==
  ASSUME SelectionTypes, NEW n \in Generations, End(n),
         tasks[n].pc \notin {"none", "done"}, Started(n)
  PROVE  \E x : StepsTo(n, x) /\ x.pc = "done"
<1> DEFINE x == [NoTask EXCEPT !.pc = "done"]
<1>1. x \in TaskOf /\ SoundTask(x) /\ x.pc = "done"
  BY NoTaskIsSound
<1>2. tasks' = [tasks EXCEPT ![n] = x]
  BY DEF End
<1> HIDE DEF x
<1> QED  BY <1>1, <1>2 DEF StepsTo

LEMMA StartSteps ==
  ASSUME SelectionTypes, AllSound, NEW n \in Generations, StartTask(n)
  PROVE  \E x : /\ StepsTo(n, x) /\ Calm
                /\ \/ x.pc = "done" /\ (IsCurrent(n) => selected[shown] = <<>>)
                   \/ /\ x.pc = "fetch" /\ x.uid = shown
                      /\ x.wanted = selected[shown] /\ x.completed = {}
<1>1. tasks[n].pc = "await" /\ Started(n) /\ Calm
  BY DEF StartTask, AtTask, Started, Calm, Quiet
<1>2. CASE ~IsCurrent(n) \/ selected[shown] = <<>>
  <2>1. End(n)
    BY <1>2 DEF StartTask
  <2>2. PICK x : StepsTo(n, x) /\ x.pc = "done"
    BY <1>1, <2>1, EndSteps
  <2> QED  BY <1>1, <1>2, <2>2
<1>3. CASE ~(~IsCurrent(n) \/ selected[shown] = <<>>)
  <2> DEFINE t == tasks[n]
             x == [t EXCEPT !.pc = "fetch", !.uid = shown, !.wanted = selected[shown]]
  <2>1. t \in TaskOf /\ SoundTask(t) /\ shown \in SwitchTo
          /\ selected[shown] \in Seq(Record)
    BY DEF SelectionTypes, AllSound
  <2>2. t.looks = <<>> /\ t.completed = {}
    BY <1>1, <2>1 DEF SoundTask
  <2>3. /\ x \in TaskOf /\ x.pc = "fetch" /\ x.uid = shown
             /\ x.wanted = selected[shown]
        /\ x.looks = t.looks /\ x.completed = t.completed
    BY <2>1 DEF TaskOf, TaskStages
  <2>4. tasks' = [tasks EXCEPT ![n] = x]
    <3>1. tasks' = [tasks EXCEPT ![n].pc = "fetch", ![n].uid = shown,
                                 ![n].wanted = selected[shown]]
      BY <1>3 DEF StartTask
    <3>2. tasks \in [Generations -> TaskOf]
      BY DEF SelectionTypes
    <3> QED  BY <3>1, <3>2
  <2> HIDE DEF x
  <2>5. SoundTask(x)
    BY <2>2, <2>3 DEF SoundTask, Planned
  <2>6. StepsTo(n, x)
    BY <1>1, <2>3, <2>4, <2>5 DEF StepsTo
  <2> QED  BY <1>1, <2>2, <2>3, <2>6
<1> QED  BY <1>2, <1>3

Same(t, x) ==
  /\ x.uid = t.uid /\ x.wanted = t.wanted /\ x.looks = t.looks
  /\ x.plan = t.plan /\ x.todo = t.todo /\ x.completed = t.completed

LEMMA MoveSteps ==
  ASSUME SelectionTypes, AllSound, NEW n \in Generations, NEW label \in TaskStages,
         Move(n, label), tasks[n].pc \in {"apply", "reapply"},
         \/ label = "selecting" /\ tasks[n].pc = "apply" /\ tasks[n].todo # <<>>
         \/ label = "reselecting" /\ tasks[n].pc = "reapply"
              /\ tasks[n].todo # <<>>
         \/ label = "refetch" /\ tasks[n].pc = "apply"
         \/ label = "persist" /\ tasks[n].todo = <<>>
  PROVE  \E x : StepsTo(n, x) /\ x.pc = label /\ Same(tasks[n], x)
<1> DEFINE t == tasks[n]
           x == [t EXCEPT !.pc = label]
<1>1. t \in TaskOf /\ SoundTask(t)
  BY DEF SelectionTypes, AllSound
<1>2. x \in TaskOf /\ x.pc = label /\ Same(t, x)
  BY <1>1 DEF TaskOf, Same
<1>3. tasks' = [tasks EXCEPT ![n] = x]
  BY DEF Move
<1>4. Started(n)
  BY DEF Started
<1> HIDE DEF x, t
<1>5. Before(x) = Before(t) /\ Last(x.looks) = Last(t.looks)
  BY <1>2 DEF Same, Before
<1>6. /\ t.plan = Plan(t.wanted, Before(t), Last(t.looks))
      /\ ToSet(t.todo) \subseteq Unique(t.wanted)
      /\ t.completed \subseteq Unique(t.wanted)
      /\ t.pc = "apply" => Len(t.looks) = 1
      /\ t.pc = "reapply" => Len(t.looks) = 2
  BY <1>1 DEF SoundTask, Planned, t
<1>7. SoundTask(x)
  BY <1>2, <1>5, <1>6 DEF SoundTask, Planned, Same, t
<1> QED  BY <1>2, <1>3, <1>4, <1>7 DEF StepsTo, t

LEMMA SendSteps ==
  ASSUME SelectionTypes, AllSound, NEW n \in Generations, Send(n)
  PROVE  \E x : /\ StepsTo(n, x) /\ Calm
                /\ \/ x.pc = "done" /\ ~IsCurrent(n)
                   \/ x.pc \in Planned /\ Same(tasks[n], x)
                        /\ tasks[n].pc \in Planned
<1>1. tasks[n].pc \in {"apply", "reapply"} /\ tasks[n].todo # <<>> /\ Calm
  BY DEF Send, Calm, Quiet
<1>2. Started(n)
  BY <1>1 DEF Started
<1>3. CASE ~IsCurrent(n)
  <2>1. End(n)
    BY <1>3 DEF Send
  <2> QED  BY <1>1, <1>2, <1>3, <2>1, EndSteps
<1>4. CASE IsCurrent(n)
  <2> DEFINE label == IF AtTask(n, "apply") THEN "selecting" ELSE "reselecting"
  <2>1. Move(n, label)
    BY <1>4 DEF Send
  <2>2. /\ label \in TaskStages /\ label \in Planned
        /\ \/ label = "selecting" /\ tasks[n].pc = "apply"
           \/ label = "reselecting" /\ tasks[n].pc = "reapply"
    BY <1>1 DEF AtTask, TaskStages, Planned
  <2> HIDE DEF label
  <2>3. PICK x : StepsTo(n, x) /\ x.pc = label /\ Same(tasks[n], x)
    BY <1>1, <2>1, <2>2, MoveSteps
  <2> QED  BY <1>1, <2>2, <2>3 DEF Planned
<1> QED  BY <1>3, <1>4

LEMMA AppliedSteps ==
  ASSUME SelectionTypes, AllSound, NEW n \in Generations, Applied(n)
  PROVE  \E x : /\ StepsTo(n, x) /\ Calm /\ tasks[n].pc \in {"apply", "reapply"}
                /\ tasks[n].todo = <<>>
                /\ \/ x.pc = "done" /\ ~IsCurrent(n)
                   \/ x.pc = "done" /\ tasks[n].plan = tasks[n].wanted
                   \/ x.pc \in {"refetch", "persist"} /\ Same(tasks[n], x)
<1>1. tasks[n].pc \in {"apply", "reapply"} /\ tasks[n].todo = <<>> /\ Calm
  BY DEF Applied, Calm, Quiet
<1>2. Started(n)
  BY <1>1 DEF Started
<1>3. \/ End(n) /\ (~IsCurrent(n) \/ tasks[n].plan = tasks[n].wanted)
      \/ Move(n, "refetch") /\ tasks[n].pc = "apply"
      \/ Move(n, "persist")
  BY DEF Applied, AtTask
<1>4. CASE End(n) /\ (~IsCurrent(n) \/ tasks[n].plan = tasks[n].wanted)
  <2>1. PICK x : StepsTo(n, x) /\ x.pc = "done"
    BY <1>1, <1>2, <1>4, EndSteps
  <2> QED  BY <1>1, <1>4, <2>1
<1>5. CASE Move(n, "refetch") /\ tasks[n].pc = "apply"
  <2>1. PICK x : StepsTo(n, x) /\ x.pc = "refetch" /\ Same(tasks[n], x)
    BY <1>1, <1>5, MoveSteps DEF TaskStages
  <2> QED  BY <1>1, <2>1
<1>6. CASE Move(n, "persist")
  <2>1. PICK x : StepsTo(n, x) /\ x.pc = "persist" /\ Same(tasks[n], x)
    BY <1>1, <1>6, MoveSteps DEF TaskStages
  <2> QED  BY <1>1, <2>1
<1> QED  BY <1>3, <1>4, <1>5, <1>6

LEMMA FetchSteps ==
  ASSUME SelectionTypes, AllSound, NEW n \in Generations,
         FetchFirst(n) \/ FetchSecond(n)
  PROVE  \E x : /\ StepsTo(n, x) /\ Calm
                /\ \/ x.pc = "done" /\ ~IsCurrent(n)
                   \/ /\ tasks[n].pc \in {"fetch", "refetch"}
                      /\ x.pc \in {"apply", "reapply"}
                      /\ x.uid = tasks[n].uid /\ x.wanted = tasks[n].wanted
                      /\ x.completed = tasks[n].completed
                      /\ x.todo = Remaining(x.wanted, offered, x.completed)
                      /\ Before(x) \in Snapshots \union {Nobody}
                      /\ x.plan = Plan(x.wanted, Before(x), offered)
<1>1. PICK label \in {"fetch", "refetch"}, next \in {"apply", "reapply"} :
        Fetch(n, label, next) /\ (label = "fetch" <=> next = "apply")
  BY DEF FetchFirst, FetchSecond
<1>2. tasks[n].pc = label /\ Calm
  BY <1>1 DEF Fetch, AtTask, Calm, Quiet
<1>3. Started(n)
  BY <1>1, <1>2 DEF Started
<1>4. CASE ~IsCurrent(n)
  <2>1. End(n)
    BY <1>1, <1>4 DEF Fetch
  <2> QED  BY <1>1, <1>2, <1>3, <1>4, <2>1, EndSteps
<1>5. CASE IsCurrent(n)
  <2> DEFINE t == tasks[n]
             previous == IF label = "fetch" THEN Nobody ELSE t.looks[1]
             plan == Plan(t.wanted, previous, offered)
             todo == Remaining(t.wanted, offered, t.completed)
             x == [t EXCEPT !.pc = next, !.looks = Append(@, offered),
                            !.plan = plan, !.todo = todo]
  <2>1. tasks' = [tasks EXCEPT ![n] = x]
    BY <1>1, <1>5 DEF Fetch
  <2>2. t \in TaskOf /\ SoundTask(t) /\ offered \in Snapshots
    BY DEF SelectionTypes, AllSound
  <2>3. /\ t.wanted \in Seq(Record) /\ t.looks \in Seq(Snapshots)
        /\ t.pc = label
    BY <1>2, <2>2 DEF TaskOf
  <2>4. /\ label = "fetch" => t.looks = <<>>
        /\ label = "refetch" => Len(t.looks) = 1
        /\ t.completed \subseteq Unique(t.wanted)
    BY <2>2, <2>3 DEF SoundTask
  <2>5. previous \in Snapshots \union {Nobody}
    BY <1>1, <2>3, <2>4
  <2> HIDE DEF previous
  <2>6. plan \in Seq(Record)
    BY <2>2, <2>3, <2>5, PlanIs
  <2>7. todo \in Seq(Record) /\ ToSet(todo) \subseteq Unique(t.wanted)
    BY <2>3, RemainingIs
  <2>8. Append(t.looks, offered) \in Seq(Snapshots)
    BY <2>2, <2>3
  <2> HIDE DEF plan, todo
  <2>9. next \in TaskStages
    BY <1>1 DEF TaskStages
  <2>10. /\ x \in TaskOf /\ x.pc = next /\ x.uid = t.uid /\ x.wanted = t.wanted
         /\ x.looks = Append(t.looks, offered) /\ x.plan = plan /\ x.todo = todo
         /\ x.completed = t.completed
    BY <2>2, <2>6, <2>7, <2>8, <2>9 DEF TaskOf
  <2> HIDE DEF x, t
  <2>11. /\ Last(x.looks) = offered
         /\ label = "fetch" => Len(x.looks) = 1
         /\ label = "refetch" => Len(x.looks) = 2 /\ x.looks[1] = t.looks[1]
    BY <2>3, <2>4, <2>10 DEF Last
  <2>12. Before(x) = previous
    BY <1>1, <2>11 DEF Before, previous
  <2>13. SoundTask(x)
    BY <1>1, <2>4, <2>7, <2>10, <2>11, <2>12 DEF SoundTask, Planned, plan
  <2>14. StepsTo(n, x)
    BY <1>1, <1>3, <2>1, <2>3, <2>10, <2>13 DEF StepsTo, t
  <2> QED  BY <1>1, <1>2, <2>5, <2>10, <2>12, <2>14 DEF plan, todo, t
<1> QED  BY <1>4, <1>5

LEMMA AnsweredSteps ==
  ASSUME SelectionTypes, AllSound, NEW n \in Generations,
         tasks[n].pc \in {"selecting", "reselecting"},
         NEW completed,
         completed \ {Head(tasks[n].todo)} \subseteq tasks[n].completed,
         Answered(n, completed)
  PROVE  \E x : /\ StepsTo(n, x)
                /\ \/ x.pc = "done" /\ ~IsCurrent(n)
                   \/ /\ x.pc \in {"apply", "reapply"}
                      /\ x.uid = tasks[n].uid /\ x.wanted = tasks[n].wanted
                      /\ x.plan = tasks[n].plan
                      /\ x.todo = Tail(tasks[n].todo)
                      /\ x.completed = completed
<1>1. Started(n) /\ tasks[n].pc \notin {"none", "done"}
  BY DEF Started
<1>2. CASE ~IsCurrent(n)
  <2>1. End(n)
    BY <1>2 DEF Answered
  <2> QED  BY <1>1, <1>2, <2>1, EndSteps
<1>3. CASE IsCurrent(n)
  <2> DEFINE t == tasks[n]
             next == IF t.pc = "selecting" THEN "apply" ELSE "reapply"
             x == [t EXCEPT !.pc = next, !.todo = Tail(t.todo), !.completed = completed]
  <2>1. tasks \in [Generations -> TaskOf] /\ t \in TaskOf /\ SoundTask(t)
    BY DEF SelectionTypes, AllSound
  <2>2. tasks' = [tasks EXCEPT ![n] = x]
    <3>1. tasks' = [tasks EXCEPT
             ![n].pc = IF @ = "selecting" THEN "apply" ELSE "reapply",
             ![n].todo = Tail(@), ![n].completed = completed]
      BY <1>3 DEF Answered
    <3> QED  BY <2>1, <3>1
  <2>3. /\ t.pc = "selecting" => Len(t.looks) = 1
        /\ t.pc = "reselecting" => Len(t.looks) = 2
        /\ t.plan = Plan(t.wanted, Before(t), Last(t.looks))
        /\ ToSet(t.todo) \subseteq Unique(t.wanted) /\ t.todo # <<>>
        /\ t.completed \subseteq Unique(t.wanted)
    BY <2>1 DEF SoundTask, Planned
  <2>4. t.todo \in Seq(Record) /\ t.wanted \in Seq(Record)
    BY <2>1 DEF TaskOf
  <2>5. /\ Tail(t.todo) \in Seq(Record)
        /\ ToSet(t.todo) = {Head(t.todo)} \union ToSet(Tail(t.todo))
    BY <2>3, <2>4, HeadAndTail
  <2>6. completed \subseteq Unique(t.wanted)
          /\ Unique(t.wanted) \subseteq Record
    BY <2>3, <2>4, <2>5, UniqueIs
  <2>7. /\ x \in TaskOf /\ x.pc = next /\ x.uid = t.uid /\ x.wanted = t.wanted
        /\ x.looks = t.looks /\ x.plan = t.plan /\ x.todo = Tail(t.todo)
        /\ x.completed = completed
    BY <2>1, <2>5, <2>6 DEF TaskOf, TaskStages
  <2> HIDE DEF x, t
  <2>8. Before(x) = Before(t)
    BY <2>7 DEF Before
  <2>9. SoundTask(x)
    BY <2>3, <2>5, <2>6, <2>7, <2>8 DEF SoundTask, Planned, t
  <2>10. StepsTo(n, x)
    BY <1>1, <2>2, <2>7, <2>9 DEF StepsTo
  <2> QED  BY <2>7, <2>10 DEF t
<1> QED  BY <1>2, <1>3

LEMMA LostSteps ==
  ASSUME SelectionTypes, AllSound, NEW n \in Generations, Lost(n)
  PROVE  \E x : /\ StepsTo(n, x) /\ Quiet /\ disturbed'
                /\ offered' = offered /\ selected' = selected
<1>1. /\ Quiet /\ disturbed' /\ offered' = offered /\ selected' = selected
      /\ tasks[n].pc \in {"selecting", "reselecting"}
      /\ Answered(n, tasks[n].completed)
  BY DEF Lost, Quiet
<1> QED  BY <1>1, AnsweredSteps

LEMMA FailSteps ==
  ASSUME SelectionTypes, AllSound, NEW n \in Generations, TaskFails(n)
  PROVE  \E x : /\ StepsTo(n, x) /\ Quiet /\ disturbed'
                /\ offered' = offered /\ selected' = selected
<1>1. /\ Quiet /\ disturbed' /\ offered' = offered /\ selected' = selected
      /\ tasks[n].pc \in {"fetch", "refetch", "persist"} /\ End(n)
  BY DEF TaskFails, Quiet
<1>2. Started(n)
  BY <1>1 DEF Started
<1> QED  BY <1>1, <1>2, EndSteps

LEMMA PersistSteps ==
  ASSUME SelectionTypes, AllSound, NEW n \in Generations, Persist(n)
  PROVE  \E x : /\ StepsTo(n, x) /\ Quiet /\ x.pc = "done"
           /\ tasks[n].pc = "persist"
                /\ offered' = offered /\ disturbed' = disturbed
                /\ selected' \in [SwitchTo -> Seq(Record)]
                /\ \/ Unchanged(n) /\ selected'[shown] = tasks[n].plan
                   \/ ~Unchanged(n) /\ selected' = selected
<1>1. /\ Quiet /\ offered' = offered /\ disturbed' = disturbed
      /\ tasks[n].pc = "persist" /\ End(n)
  BY DEF Persist, AtTask, Quiet
<1>2. Started(n)
  BY <1>1 DEF Started
<1>3. /\ selected \in [SwitchTo -> Seq(Record)] /\ shown \in SwitchTo
      /\ tasks[n].plan \in Seq(Record)
  BY DEF SelectionTypes, TaskOf
<1>4. selected' = IF Unchanged(n) THEN [selected EXCEPT ![shown] = tasks[n].plan]
                  ELSE selected
  BY DEF Persist
<1>5. PICK x : StepsTo(n, x) /\ x.pc = "done"
  BY <1>1, <1>2, EndSteps
<1>6. /\ selected' \in [SwitchTo -> Seq(Record)]
      /\ \/ Unchanged(n) /\ selected'[shown] = tasks[n].plan
         \/ ~Unchanged(n) /\ selected' = selected
  BY <1>3, <1>4
<1> QED  BY <1>1, <1>5, <1>6

LEMMA LandSteps ==
  ASSUME SelectionTypes, AllSound, NEW n \in Generations, Land(n)
  PROVE  \E x, accepted :
           /\ StepsTo(n, x) /\ Quiet /\ selected' = selected
                /\ disturbed' = disturbed
           /\ offered' \in Snapshots
           /\ tasks[n].pc \in Planned /\ tasks[n].todo # <<>>
           /\ LET r == Head(tasks[n].todo)
              IN /\ accepted = ~Missing(offered, r.name, r.now)
                 /\ offered' = IF accepted THEN [offered EXCEPT ![r.name].now = r.now]
                               ELSE offered
                 /\ \/ x.pc = "done" /\ ~IsCurrent(n)
                    \/ /\ x.pc \in {"apply", "reapply"}
                       /\ x.uid = tasks[n].uid /\ x.wanted = tasks[n].wanted
                       /\ x.plan = tasks[n].plan
                       /\ x.todo = Tail(tasks[n].todo)
                       /\ x.completed = tasks[n].completed
                                          \union (IF accepted THEN {r} ELSE {})
<1> DEFINE r == Head(tasks[n].todo)
           accepted == ~Missing(offered, r.name, r.now)
           completed == tasks[n].completed \union (IF accepted THEN {r} ELSE {})
<1>1. /\ Quiet /\ selected' = selected /\ disturbed' = disturbed
      /\ tasks[n].pc \in {"selecting", "reselecting"}
      /\ Answered(n, completed)
      /\ offered' = IF accepted THEN [offered EXCEPT ![r.name].now = r.now] ELSE offered
  BY DEF Land, Quiet
<1>2. tasks[n].todo # <<>> /\ tasks[n].pc \in Planned /\ r.name \in Groups
        /\ r \in Record
  <2>1. tasks[n].todo # <<>> /\ tasks[n].pc \in Planned
        /\ ToSet(tasks[n].todo) \subseteq Unique(tasks[n].wanted)
    BY <1>1 DEF AllSound, SoundTask, Planned
  <2>2. tasks[n].todo \in Seq(Record) /\ tasks[n].wanted \in Seq(Record)
    BY DEF SelectionTypes, TaskOf
  <2>3. r \in ToSet(tasks[n].todo)
    BY <2>1, <2>2, HeadAndTail
  <2> QED  BY <2>1, <2>2, <2>3, UniqueIs
<1>3. completed \ {r} \subseteq tasks[n].completed
  OBVIOUS
<1> HIDE DEF completed
<1>4. PICK x : /\ StepsTo(n, x)
               /\ \/ x.pc = "done" /\ ~IsCurrent(n)
                  \/ /\ x.pc \in {"apply", "reapply"}
                     /\ x.uid = tasks[n].uid /\ x.wanted = tasks[n].wanted
                     /\ x.plan = tasks[n].plan
                     /\ x.todo = Tail(tasks[n].todo)
                     /\ x.completed = completed
  BY <1>1, <1>3, AnsweredSteps
<1>5. offered' \in Snapshots
  <2>1. CASE ~accepted
    BY <1>1, <2>1 DEF SelectionTypes
  <2>2. CASE accepted
    <3>1. /\ offered \in Snapshots /\ offered[r.name] \in Group
          /\ r.now \in Nodes \union {Nobody}
      BY <1>2, <2>2 DEF SelectionTypes, Snapshots, Missing, Record
    <3>2. [offered[r.name] EXCEPT !.now = r.now] \in Group
      BY <3>1 DEF Group
    <3>3. offered' = [offered EXCEPT ![r.name] = [offered[r.name] EXCEPT !.now = r.now]]
      BY <1>1, <2>2, <3>1 DEF Snapshots
    <3> QED  BY <1>2, <3>1, <3>2, <3>3 DEF Snapshots
  <2> QED  BY <2>1, <2>2
<1>6. WITNESS x, accepted
<1> QED  BY <1>1, <1>2, <1>4, <1>5 DEF completed

-----------------------------------------------------------------------------
(* The task of the last switch, as long as nobody disturbs it.             *)

\* What was selected is still selected.
Followed(completed, o) == \A r \in completed : o[r.name].now = r.now

\* What is in force is selected wherever it can be, or still to be.
WillFollow(t, o) ==
  \A r \in Unique(t.wanted) :
    \/ Missing(o, r.name, r.now) \/ ~o[r.name].selectable
    \/ r \in ToSet(t.todo) \/ o[r.name].now = r.now

\* A record that is to be repaired gets the node its group is at, and no
\* request moves that group.
PlanFollows(t, o) ==
  \A p \in ToSet(t.plan) :
    \/ p \in Unique(t.wanted)
    \/ p.name \in Groups /\ o[p.name].now = p.now
       /\ \A r \in ToSet(t.todo) : r.name # p.name

OnItsWay(t, o) ==
  /\ Followed(t.completed, o)
  /\ t.pc \in Planned => WillFollow(t, o) /\ PlanFollows(t, o)

LastAtWork == generation > 0 /\ ~disturbed /\ tasks[generation].pc \notin Idle

LastTaskRight ==
  LastAtWork =>
    /\ tasks[generation].uid = shown
    /\ tasks[generation].wanted = selected[shown]
    /\ OnItsWay(tasks[generation], offered)

SelectionInv ==
  SelectionTypes /\ AllSound /\ InTurn /\ LastTaskRight /\ SelectionApplied

\* The first look, or the second: what has to be selected is found.
LEMMA FetchFollows ==
  ASSUME NEW t \in TaskOf, NEW o \in Snapshots,
         t.todo = Remaining(t.wanted, o, t.completed),
         Before(t) \in Snapshots \union {Nobody},
         t.plan = Plan(t.wanted, Before(t), o),
         Followed(t.completed, o)
  PROVE  WillFollow(t, o) /\ PlanFollows(t, o)
<1>1. t.wanted \in Seq(Record)
  BY DEF TaskOf
<1>2. ToSet(t.todo) = {r \in Unique(t.wanted) : Activated(r, o) /\ r \notin t.completed}
  BY <1>1, RemainingIs
<1>3. \A g \in Groups : o[g] # Nobody => Nobody \notin o[g].all
  BY SelectionAssumption DEF Snapshots, Group
<1>4. /\ Unique(t.wanted) \subseteq Record
      /\ \A r \in Unique(t.wanted) : r.name \in Groups
      /\ \A r, q \in Unique(t.wanted) : r.name = q.name => r = q
  BY <1>1, UniqueIs
<1>5. WillFollow(t, o)
  <2> SUFFICES ASSUME NEW r \in Unique(t.wanted), ~Missing(o, r.name, r.now),
                      o[r.name].selectable, o[r.name].now # r.now
               PROVE  r \in ToSet(t.todo)
    BY DEF WillFollow
  <2>1. r.now # Nobody
    BY <1>3, <1>4 DEF Missing
  <2>2. Activated(r, o)
    BY <2>1 DEF Activated
  <2>3. r \notin t.completed
    BY DEF Followed
  <2> QED  BY <1>2, <2>2, <2>3
<1>6. PlanFollows(t, o)
  <2> SUFFICES ASSUME NEW p \in ToSet(t.plan), p \notin Unique(t.wanted)
               PROVE  p.name \in Groups /\ o[p.name].now = p.now
                      /\ \A r \in ToSet(t.todo) : r.name # p.name
    BY DEF PlanFollows
  <2>1. PICK q \in Unique(t.wanted) : p = Reconciled(q, Before(t), o)
          /\ p # Nobody
    BY <1>1, PlanIs
  <2>2. p # q /\ q \in Record /\ q.name \in Groups
    BY <1>4, <2>1
  <2>3. /\ p.name = q.name /\ p.now = o[q.name].now
        /\ ~o[q.name].selectable \/ Missing(o, q.name, q.now)
    BY <2>1, <2>2, ReconciledIs
  <2>4. ~Activated(q, o)
    BY <2>3 DEF Activated
  <2>5. ASSUME NEW r \in ToSet(t.todo), r.name = p.name PROVE FALSE
    BY <1>2, <1>4, <2>1, <2>3, <2>4, <2>5
  <2> QED  BY <2>2, <2>3, <2>5
<1> QED  BY <1>5, <1>6

\* One request: what is selected in another group stays.
LEMMA LandFollows ==
  ASSUME NEW t \in TaskOf, SoundTask(t), t.pc \in Planned, t.todo # <<>>,
         NEW o \in Snapshots, OnItsWay(t, o),
         NEW x \in TaskOf, NEW accepted, NEW after, NEW r, r = Head(t.todo),
         accepted = ~Missing(o, r.name, r.now),
         after = IF accepted THEN [o EXCEPT ![r.name].now = r.now] ELSE o,
         x.wanted = t.wanted, x.plan = t.plan, x.todo = Tail(t.todo),
         x.completed = t.completed \union (IF accepted THEN {r} ELSE {})
  PROVE  OnItsWay(x, after)
<1>1. t.wanted \in Seq(Record) /\ t.todo \in Seq(Record)
        /\ t.plan \in Seq(Record)
  BY DEF TaskOf
<1>2. /\ Unique(t.wanted) \subseteq Record
      /\ \A q \in Unique(t.wanted) : q.name \in Groups
      /\ \A q, s \in Unique(t.wanted) : s.name = q.name => s = q
  BY <1>1, UniqueIs
<1>3. ToSet(t.todo) = {r} \union ToSet(x.todo)
  BY <1>1, HeadAndTail
<1>4. ToSet(t.todo) \subseteq Unique(t.wanted)
        /\ t.completed \subseteq Unique(t.wanted)
  BY DEF SoundTask
<1>5. r \in Unique(t.wanted) /\ r.name \in Groups
        /\ ToSet(x.todo) \subseteq Unique(t.wanted)
  BY <1>2, <1>3, <1>4
<1>6. WillFollow(t, o) /\ PlanFollows(t, o) /\ Followed(t.completed, o)
  BY DEF OnItsWay
<1>7. /\ \A g \in Groups : g # r.name \/ ~accepted => after[g] = o[g]
      /\ accepted => /\ after[r.name].now = r.now
                     /\ after[r.name].selectable = o[r.name].selectable
                     /\ after[r.name].all = o[r.name].all
                     /\ after[r.name] # Nobody /\ o[r.name] # Nobody
  <2>1. CASE ~accepted
    BY <2>1
  <2>2. CASE accepted
    <3>1. o[r.name] \in Group /\ r.now \in Nodes \union {Nobody}
      BY <1>2, <1>5, <2>2 DEF Snapshots, Missing, Record
    <3>2. after = [o EXCEPT ![r.name] = [o[r.name] EXCEPT !.now = r.now]]
      BY <1>5, <2>2, <3>1 DEF Snapshots
    <3>3. after[r.name] = [o[r.name] EXCEPT !.now = r.now]
      BY <1>5, <3>2 DEF Snapshots
    <3>4. /\ after[r.name] \in Group /\ after[r.name].now = r.now
          /\ after[r.name].selectable = o[r.name].selectable
          /\ after[r.name].all = o[r.name].all
      BY <3>1, <3>3 DEF Group
    <3>5. Nobody \notin Group
      BY SelectionAssumption
    <3>6. \A g \in Groups : g # r.name => after[g] = o[g]
      BY <3>2 DEF Snapshots
    <3> QED  BY <3>1, <3>4, <3>5, <3>6
  <2> QED  BY <2>1, <2>2
<1>8. \A q \in Unique(t.wanted) :
        /\ Missing(after, q.name, q.now) <=> Missing(o, q.name, q.now)
        /\ after[q.name].selectable = o[q.name].selectable
  <2> SUFFICES ASSUME NEW q \in Unique(t.wanted)
               PROVE  /\ Missing(after, q.name, q.now) <=> Missing(o, q.name, q.now)
                      /\ after[q.name].selectable = o[q.name].selectable
    OBVIOUS
  <2>1. CASE q.name # r.name \/ ~accepted
    <3>1. after[q.name] = o[q.name]
      BY <1>2, <1>7, <2>1
    <3> QED  BY <3>1 DEF Missing
  <2>2. CASE q.name = r.name /\ accepted
    BY <1>7, <2>2 DEF Missing
  <2> QED  BY <2>1, <2>2
<1>9. \A q \in Unique(t.wanted) : o[q.name].now = q.now =>
        after[q.name].now = q.now
  <2> SUFFICES ASSUME NEW q \in Unique(t.wanted), o[q.name].now = q.now
               PROVE  after[q.name].now = q.now
    OBVIOUS
  <2>1. CASE q = r /\ accepted
    BY <1>7, <2>1
  <2>2. CASE ~(q = r /\ accepted)
    <3>1. after[q.name] = o[q.name]
      BY <1>2, <1>5, <1>7, <2>2
    <3> QED  BY <3>1
  <2> QED  BY <2>1, <2>2
<1>10. Followed(x.completed, after)
  <2> SUFFICES ASSUME NEW q \in x.completed PROVE after[q.name].now = q.now
    BY DEF Followed
  <2>1. CASE q \in t.completed
    BY <1>4, <1>6, <1>9, <2>1 DEF Followed
  <2>2. CASE q \notin t.completed
    <3>1. accepted /\ q = r
      BY <2>2
    <3> QED  BY <1>7, <3>1
  <2> QED  BY <2>1, <2>2
<1>11. WillFollow(x, after)
  <2> SUFFICES ASSUME NEW q \in Unique(t.wanted)
               PROVE  \/ Missing(after, q.name, q.now) \/ ~after[q.name].selectable
                      \/ q \in ToSet(x.todo) \/ after[q.name].now = q.now
    BY DEF WillFollow
  <2>1. \/ Missing(o, q.name, q.now) \/ ~o[q.name].selectable
        \/ q \in ToSet(t.todo) \/ o[q.name].now = q.now
    BY <1>6 DEF WillFollow
  <2>2. CASE q = r
    BY <1>7, <1>8, <2>2
  <2>3. CASE q # r
    BY <1>3, <1>8, <1>9, <2>1, <2>3
  <2> QED  BY <2>2, <2>3
<1>12. PlanFollows(x, after)
  <2> SUFFICES ASSUME NEW p \in ToSet(t.plan), p \notin Unique(t.wanted)
               PROVE  p.name \in Groups /\ after[p.name].now = p.now
                      /\ \A q \in ToSet(x.todo) : q.name # p.name
    BY DEF PlanFollows
  <2>1. p.name \in Groups /\ o[p.name].now = p.now
        /\ \A q \in ToSet(t.todo) : q.name # p.name
    BY <1>6 DEF PlanFollows
  <2>2. p.name # r.name
    BY <1>3, <2>1
  <2>3. after[p.name] = o[p.name]
    BY <1>7, <2>1, <2>2
  <2> QED  BY <1>3, <2>1, <2>3
<1> QED  BY <1>10, <1>11, <1>12 DEF OnItsWay

\* What the last task leaves when it is done.
AllApplied(records, o) ==
  \A g \in Groups, node \in Nodes :
    Chosen(records, g, node) /\ ~Missing(o, g, node) /\ o[g].selectable =>
      o[g].now = node

LEMMA AppliedWhenDone ==
  ASSUME NEW records, NEW o,
         \A r \in Unique(records) :
           Missing(o, r.name, r.now) \/ ~o[r.name].selectable \/ o[r.name].now = r.now
  PROVE  AllApplied(records, o)
BY DEF AllApplied, Chosen

LEMMA SelectionAppliedIs ==
  SelectionApplied <=>
    (generation > 0 /\ tasks[generation].pc = "done" /\ ~disturbed =>
       AllApplied(selected[shown], offered))
BY DEF SelectionApplied, AllApplied, AtTask

LEMMA PlanApplies ==
  ASSUME NEW t \in TaskOf, NEW o, t.todo = <<>>, WillFollow(t, o)
  PROVE  /\ AllApplied(t.wanted, o)
         /\ PlanFollows(t, o) => AllApplied(t.plan, o)
<1>1. \A r \in Unique(t.wanted) :
        Missing(o, r.name, r.now) \/ ~o[r.name].selectable \/ o[r.name].now = r.now
  BY NothingInForce DEF WillFollow
<1>2. AllApplied(t.wanted, o)
  BY <1>1, AppliedWhenDone
<1>3. ASSUME PlanFollows(t, o) PROVE AllApplied(t.plan, o)
  <2>1. t.plan \in Seq(Record)
    BY DEF TaskOf
  <2>2. \A r \in Unique(t.plan) : r \in ToSet(t.plan)
    BY <2>1, UniqueIs
  <2>3. \A r \in Unique(t.plan) :
          Missing(o, r.name, r.now) \/ ~o[r.name].selectable \/ o[r.name].now = r.now
    BY <1>1, <1>3, <2>2 DEF PlanFollows
  <2> QED  BY <2>3, AppliedWhenDone
<1> QED  BY <1>2, <1>3

-----------------------------------------------------------------------------
(* Every step of a task keeps the others, and keeps the turn.              *)

LEMMA StepsKeep ==
  ASSUME SelectionTypes, AllSound, InTurn, Quiet,
         NEW n \in Generations, NEW x, StepsTo(n, x)
  PROVE  /\ tasks' \in [Generations -> TaskOf] /\ tasks'[n] = x
         /\ \A m \in Generations : m # n => tasks'[m] = tasks[m]
         /\ AllSound' /\ InTurn'
<1>1. /\ tasks \in [Generations -> TaskOf] /\ x \in TaskOf
      /\ tasks' = [tasks EXCEPT ![n] = x]
  BY DEF SelectionTypes, StepsTo
<1>2. tasks' \in [Generations -> TaskOf] /\ tasks'[n] = x
  BY <1>1
<1>3. \A m \in Generations : m # n => tasks'[m] = tasks[m]
  BY <1>1
<1>4. AllSound'
  BY <1>2, <1>3 DEF AllSound, StepsTo
<1>5. /\ x.pc \notin {"none", "await"} /\ tasks[n].pc \notin {"none", "done"}
      /\ tasks[n].pc = "await" => Awaited(n)
  BY DEF StepsTo, Started
<1>6. n \in Nat /\ MaxSwitches \in Nat /\ generation \in Nat
        /\ ~(n > generation)
  BY <1>5, SelectionAssumption DEF Generations, SelectionTypes, InTurn
<1>7. \A m \in Generations : m < n => tasks[m].pc = "done"
  <2>1. CASE tasks[n].pc # "await"
    BY <1>5, <2>1 DEF InTurn
  <2>2. CASE tasks[n].pc = "await"
    <3> SUFFICES ASSUME NEW m \in Generations, m < n PROVE tasks[m].pc = "done"
      OBVIOUS
    <3>1. n > 1 /\ n - 1 \in Generations /\ m \in Nat
      BY <1>6 DEF Generations
    <3>2. tasks[n - 1].pc = "done"
      BY <1>5, <2>2, <3>1 DEF Awaited, AtTask
    <3>3. m = n - 1 \/ m < n - 1
      BY <1>6, <3>1
    <3> QED  BY <3>1, <3>2, <3>3 DEF InTurn
  <2> QED  BY <2>1, <2>2
<1>8. InTurn'
  <2> SUFFICES ASSUME NEW k \in Generations
               PROVE  /\ k > generation => tasks'[k].pc = "none"
                      /\ tasks'[k].pc \notin {"none", "await"} =>
                           \A m \in Generations : m < k => tasks'[m].pc = "done"
    BY DEF InTurn, Quiet
  <2>1. k > generation => tasks'[k].pc = "none"
    BY <1>3, <1>6 DEF InTurn
  <2>2. CASE k = n
    <3>1. \A m \in Generations : m < k => m # n
      BY <1>6, <2>2
    <3> QED  BY <1>3, <1>7, <2>1, <2>2, <3>1
  <2>3. CASE k # n
    <3>1. tasks'[k] = tasks[k]
      BY <1>3, <2>3
    <3>2. ASSUME tasks[k].pc \notin {"none", "await"}, NEW m \in Generations, m < k
          PROVE  tasks'[m].pc = "done"
      <4>1. tasks[m].pc = "done"
        BY <3>2 DEF InTurn
      <4>2. m # n
        BY <1>5, <4>1
      <4> QED  BY <1>3, <4>1, <4>2
    <3> QED  BY <2>1, <3>1, <3>2
  <2> QED  BY <2>2, <2>3
<1> QED  BY <1>2, <1>3, <1>4, <1>8

\* An earlier task acts only while the last one still awaits it.
LEMMA EarlierActsBefore ==
  ASSUME SelectionTypes, InTurn, NEW n \in Generations, NEW x, StepsTo(n, x),
         ~IsCurrent(n)
  PROVE  generation \in Generations
           /\ tasks[generation].pc \in {"none", "await"}
<1>1. n \in Nat /\ MaxSwitches \in Nat /\ generation \in 0..MaxSwitches
        /\ ~(n > generation)
  BY SelectionAssumption DEF Generations, SelectionTypes, InTurn, StepsTo
<1>2. n < generation /\ generation \in Generations
  BY <1>1 DEF Generations, IsCurrent
<1> QED  BY <1>2 DEF InTurn, StepsTo

LEMMA StepsGive ==
  ASSUME SelectionInv, Quiet, NEW n \in Generations, NEW x, StepsTo(n, x),
         offered' \in Snapshots, selected' \in [SwitchTo -> Seq(Record)],
         disturbed' \in BOOLEAN,
         IsCurrent(n) /\ ~disturbed' =>
           /\ x.pc = "done" => AllApplied(selected'[shown], offered')
           /\ x.pc # "done" => /\ x.uid = shown /\ x.wanted = selected'[shown]
                               /\ OnItsWay(x, offered')
  PROVE  SelectionInv'
<1>1. SelectionTypes /\ AllSound /\ InTurn
  BY DEF SelectionInv
<1>2. /\ tasks' \in [Generations -> TaskOf] /\ tasks'[n] = x
      /\ \A m \in Generations : m # n => tasks'[m] = tasks[m]
      /\ AllSound' /\ InTurn'
  BY <1>1, StepsKeep
<1>3. SelectionTypes'
  BY <1>1, <1>2 DEF SelectionTypes, Quiet
<1>4. shown' = shown /\ generation' = generation
  BY DEF Quiet
<1>5. CASE ~IsCurrent(n)
  <2>1. generation \in Generations /\ tasks[generation].pc \in {"none", "await"}
    BY <1>1, <1>5, EarlierActsBefore
  <2>2. tasks'[generation].pc \in {"none", "await"}
    BY <1>2, <1>5, <2>1 DEF IsCurrent
  <2>3. LastTaskRight' /\ SelectionApplied'
    BY <1>4, <2>2 DEF LastTaskRight, LastAtWork, Idle, SelectionApplied, AtTask
  <2> QED  BY <1>2, <1>3, <2>3 DEF SelectionInv
<1>6. CASE IsCurrent(n)
  <2>1. tasks'[generation'] = x
    BY <1>2, <1>4, <1>6 DEF IsCurrent
  <2>2. LastTaskRight'
    BY <1>4, <1>6, <2>1 DEF LastTaskRight, LastAtWork, Idle
  <2>3. SelectionApplied'
    BY <1>4, <1>6, <2>1, SelectionAppliedIs
       DEF SelectionApplied, AllApplied, AtTask
  <2> QED  BY <1>2, <1>3, <2>2, <2>3 DEF SelectionInv
<1> QED  BY <1>5, <1>6

\* What is known of the last task when it acts.
LEMMA LastIsRight ==
  ASSUME SelectionInv, NEW n \in Generations, NEW x, StepsTo(n, x),
         IsCurrent(n), ~disturbed, tasks[n].pc # "await"
  PROVE  /\ tasks[n] \in TaskOf /\ SoundTask(tasks[n])
         /\ tasks[n].uid = shown /\ tasks[n].wanted = selected[shown]
         /\ OnItsWay(tasks[n], offered)
<1>1. tasks[n] \in TaskOf /\ SoundTask(tasks[n])
  BY DEF SelectionInv, SelectionTypes, AllSound
<1>2. generation > 0 /\ generation = n
  BY SelectionAssumption DEF IsCurrent, Generations
<1>3. LastAtWork
  BY <1>2 DEF LastAtWork, Idle, StepsTo
<1> QED  BY <1>1, <1>2, <1>3 DEF SelectionInv, LastTaskRight

LEMMA CalmSteps ==
  ASSUME SelectionInv, NEW n \in Generations, NEW x, StepsTo(n, x), Calm,
         IsCurrent(n) /\ ~disturbed =>
           /\ x.pc = "done" => AllApplied(selected[shown], offered)
           /\ x.pc # "done" => /\ x.uid = shown /\ x.wanted = selected[shown]
                               /\ OnItsWay(x, offered)
  PROVE  SelectionInv'
<1>1. /\ Quiet /\ offered' = offered /\ selected' = selected
           /\ disturbed' = disturbed
  BY DEF Calm
<1>2. /\ offered' \in Snapshots /\ selected' \in [SwitchTo -> Seq(Record)]
      /\ disturbed' \in BOOLEAN
  BY <1>1 DEF SelectionInv, SelectionTypes
<1> QED  BY <1>1, <1>2, StepsGive

LEMMA DisturbedSteps ==
  ASSUME SelectionInv, NEW n \in Generations, NEW x, StepsTo(n, x), Quiet, disturbed',
         offered' = offered, selected' = selected, disturbed' \in BOOLEAN
  PROVE  SelectionInv'
<1>1. offered' \in Snapshots /\ selected' \in [SwitchTo -> Seq(Record)]
  BY DEF SelectionInv, SelectionTypes
<1> QED  BY <1>1, StepsGive

LEMMA SameIsOnItsWay ==
  ASSUME NEW t \in TaskOf, NEW x, NEW o, OnItsWay(t, o), Same(t, x), t.pc \in Planned
  PROVE  OnItsWay(x, o)
BY DEF OnItsWay, Same, WillFollow, PlanFollows

LEMMA SelectionTaskHolds ==
  ASSUME SelectionInv, NEW n \in Generations, Task(n)
  PROVE  SelectionInv'
<1>1. SelectionTypes /\ AllSound /\ InTurn
  BY DEF SelectionInv
<1>2. CASE StartTask(n)
  <2>1. PICK x : /\ StepsTo(n, x) /\ Calm
                 /\ \/ x.pc = "done" /\ (IsCurrent(n) => selected[shown] = <<>>)
                    \/ /\ x.pc = "fetch" /\ x.uid = shown
                       /\ x.wanted = selected[shown] /\ x.completed = {}
    BY <1>1, <1>2, StartSteps
  <2>2. ASSUME selected[shown] = <<>> PROVE AllApplied(selected[shown], offered)
    BY <2>2, NothingInForce, AppliedWhenDone
  <2>3. ASSUME x.pc = "fetch", x.completed = {} PROVE OnItsWay(x, offered)
    BY <2>3 DEF OnItsWay, Followed, Planned
  <2> QED  BY <2>1, <2>2, <2>3, CalmSteps
<1>3. CASE FetchFirst(n) \/ FetchSecond(n)
  <2>1. PICK x : /\ StepsTo(n, x) /\ Calm
                 /\ \/ x.pc = "done" /\ ~IsCurrent(n)
                    \/ /\ tasks[n].pc \in {"fetch", "refetch"}
                       /\ x.pc \in {"apply", "reapply"}
                       /\ x.uid = tasks[n].uid /\ x.wanted = tasks[n].wanted
                       /\ x.completed = tasks[n].completed
                       /\ x.todo = Remaining(x.wanted, offered, x.completed)
                       /\ Before(x) \in Snapshots \union {Nobody}
                       /\ x.plan = Plan(x.wanted, Before(x), offered)
    BY <1>1, <1>3, FetchSteps
  <2>2. ASSUME IsCurrent(n), ~disturbed
        PROVE  /\ x.pc # "done" /\ x.uid = shown /\ x.wanted = selected[shown]
               /\ OnItsWay(x, offered)
    <3>1. /\ x.uid = shown /\ x.wanted = selected[shown]
          /\ Followed(x.completed, offered)
      BY <2>1, <2>2, LastIsRight DEF OnItsWay
    <3>2. x \in TaskOf /\ offered \in Snapshots
      BY <1>1, <2>1 DEF StepsTo, SelectionTypes
    <3>3. WillFollow(x, offered) /\ PlanFollows(x, offered)
      BY <2>1, <2>2, <3>1, <3>2, FetchFollows
    <3> QED  BY <2>1, <2>2, <3>1, <3>3 DEF OnItsWay
  <2> QED  BY <2>1, <2>2, CalmSteps
<1>4. CASE Send(n)
  <2>1. PICK x : /\ StepsTo(n, x) /\ Calm
                 /\ \/ x.pc = "done" /\ ~IsCurrent(n)
                    \/ x.pc \in Planned /\ Same(tasks[n], x)
                         /\ tasks[n].pc \in Planned
    BY <1>1, <1>4, SendSteps
  <2>2. ASSUME IsCurrent(n), ~disturbed
        PROVE  /\ x.pc # "done" /\ x.uid = shown /\ x.wanted = selected[shown]
               /\ OnItsWay(x, offered)
    <3>1. tasks[n].pc # "await" /\ x.pc # "done"
      BY <2>1, <2>2 DEF Planned
    <3>2. /\ tasks[n] \in TaskOf /\ OnItsWay(tasks[n], offered)
          /\ tasks[n].uid = shown /\ tasks[n].wanted = selected[shown]
      BY <2>1, <2>2, <3>1, LastIsRight
    <3>3. OnItsWay(x, offered)
      BY <2>1, <2>2, <3>2, SameIsOnItsWay
    <3> QED  BY <2>1, <2>2, <3>1, <3>2, <3>3 DEF Same
  <2> QED  BY <2>1, <2>2, CalmSteps
<1>5. CASE Land(n)
  <2>1. PICK x, accepted :
           /\ StepsTo(n, x) /\ Quiet /\ selected' = selected
                /\ disturbed' = disturbed
           /\ offered' \in Snapshots
           /\ tasks[n].pc \in Planned /\ tasks[n].todo # <<>>
           /\ LET r == Head(tasks[n].todo)
              IN /\ accepted = ~Missing(offered, r.name, r.now)
                 /\ offered' = IF accepted THEN [offered EXCEPT ![r.name].now = r.now]
                               ELSE offered
                 /\ \/ x.pc = "done" /\ ~IsCurrent(n)
                    \/ /\ x.pc \in {"apply", "reapply"}
                       /\ x.uid = tasks[n].uid /\ x.wanted = tasks[n].wanted
                       /\ x.plan = tasks[n].plan
                       /\ x.todo = Tail(tasks[n].todo)
                       /\ x.completed = tasks[n].completed
                                          \union (IF accepted THEN {r} ELSE {})
    BY <1>1, <1>5, LandSteps
  <2>2. ASSUME IsCurrent(n), ~disturbed
        PROVE  /\ x.pc # "done" /\ x.uid = shown /\ x.wanted = selected[shown]
               /\ OnItsWay(x, offered')
    <3>1. tasks[n].pc # "await" /\ x.pc # "done"
      BY <2>1, <2>2 DEF Planned
    <3>2. /\ tasks[n] \in TaskOf /\ SoundTask(tasks[n])
               /\ OnItsWay(tasks[n], offered)
          /\ tasks[n].uid = shown /\ tasks[n].wanted = selected[shown]
      BY <2>1, <2>2, <3>1, LastIsRight
    <3>3. x \in TaskOf /\ offered \in Snapshots
      BY <1>1, <2>1 DEF StepsTo, SelectionTypes
    <3>4. OnItsWay(x, offered')
      BY <2>1, <2>2, <3>2, <3>3, LandFollows
    <3> QED  BY <2>1, <2>2, <3>1, <3>2, <3>4
  <2>3. selected' \in [SwitchTo -> Seq(Record)] /\ disturbed' \in BOOLEAN
    BY <1>1, <2>1 DEF SelectionTypes
  <2> QED  BY <2>1, <2>2, <2>3, StepsGive
<1>6. CASE Lost(n)
  <2>1. disturbed' \in BOOLEAN
    BY <1>6 DEF Lost
  <2> QED  BY <1>1, <1>6, <2>1, LostSteps, DisturbedSteps
<1>7. CASE TaskFails(n)
  <2>1. disturbed' \in BOOLEAN
    BY <1>7 DEF TaskFails
  <2> QED  BY <1>1, <1>7, <2>1, FailSteps, DisturbedSteps
<1>8. CASE Applied(n)
  <2>1. PICK x : /\ StepsTo(n, x) /\ Calm
          /\ tasks[n].pc \in {"apply", "reapply"}
                 /\ tasks[n].todo = <<>>
                 /\ \/ x.pc = "done" /\ ~IsCurrent(n)
                    \/ x.pc = "done" /\ tasks[n].plan = tasks[n].wanted
                    \/ x.pc \in {"refetch", "persist"} /\ Same(tasks[n], x)
    BY <1>1, <1>8, AppliedSteps
  <2>2. ASSUME IsCurrent(n), ~disturbed
        PROVE  /\ x.pc = "done" => AllApplied(selected[shown], offered)
               /\ x.pc # "done" =>
                    /\ x.uid = shown /\ x.wanted = selected[shown]
                                   /\ OnItsWay(x, offered)
    <3>1. tasks[n].pc # "await" /\ tasks[n].pc \in Planned
      BY <2>1 DEF Planned
    <3>2. /\ tasks[n] \in TaskOf /\ OnItsWay(tasks[n], offered)
          /\ tasks[n].uid = shown /\ tasks[n].wanted = selected[shown]
      BY <2>1, <2>2, <3>1, LastIsRight
    <3>3. AllApplied(selected[shown], offered)
      BY <2>1, <3>1, <3>2, PlanApplies DEF OnItsWay
    <3>4. CASE x.pc = "done"
      BY <3>3, <3>4
    <3>5. CASE x.pc # "done"
      <4>1. Same(tasks[n], x)
        BY <2>1, <3>5
      <4> QED  BY <3>1, <3>2, <3>5, <4>1, SameIsOnItsWay DEF Same
    <3> QED  BY <3>4, <3>5
  <2> QED  BY <2>1, <2>2, CalmSteps
<1>9. CASE Persist(n)
  <2>1. PICK x : /\ StepsTo(n, x) /\ Quiet /\ x.pc = "done"
          /\ tasks[n].pc = "persist"
                 /\ offered' = offered /\ disturbed' = disturbed
                 /\ selected' \in [SwitchTo -> Seq(Record)]
                 /\ \/ Unchanged(n) /\ selected'[shown] = tasks[n].plan
                    \/ ~Unchanged(n) /\ selected' = selected
    BY <1>1, <1>9, PersistSteps
  <2>2. ASSUME IsCurrent(n), ~disturbed
        PROVE  AllApplied(selected'[shown], offered')
    <3>1. tasks[n].pc # "await" /\ tasks[n].pc \in Planned
      BY <2>1 DEF Planned
    <3>2. /\ tasks[n] \in TaskOf /\ SoundTask(tasks[n])
               /\ OnItsWay(tasks[n], offered)
          /\ tasks[n].uid = shown /\ tasks[n].wanted = selected[shown]
      BY <2>1, <2>2, <3>1, LastIsRight
    <3>3. Unchanged(n)
      BY <2>2, <3>2 DEF Unchanged
    <3>4. tasks[n].todo = <<>>
      BY <2>1, <3>2 DEF SoundTask
    <3>5. AllApplied(tasks[n].plan, offered)
      BY <3>1, <3>2, <3>4, PlanApplies DEF OnItsWay
    <3> QED  BY <2>1, <3>3, <3>5
  <2>3. offered' \in Snapshots /\ disturbed' \in BOOLEAN
    BY <1>1, <2>1 DEF SelectionTypes
  <2> QED  BY <2>1, <2>2, <2>3, StepsGive
<1> QED  BY <1>2, <1>3, <1>4, <1>5, <1>6, <1>7, <1>8, <1>9 DEF Task

-----------------------------------------------------------------------------
(* The steps of the others.                                                *)

LEMMA SwitchHolds ==
  ASSUME SelectionInv, NEW u \in SwitchTo, NEW shape \in Shapes,
         SwitchAndActivate(u, shape)
  PROVE  SelectionInv'
<1> DEFINE n == generation + 1
           x == [tasks[n] EXCEPT !.pc = "await"]
<1>1. SelectionTypes /\ AllSound /\ InTurn
  BY DEF SelectionInv
<1>2. /\ generation < MaxSwitches /\ shown' = u /\ offered' = shape
      /\ generation' = n /\ tasks' = [tasks EXCEPT ![n].pc = "await"]
      /\ disturbed' = FALSE /\ selected' = selected /\ choosing' = choosing
  BY DEF SwitchAndActivate
<1>3. generation \in Nat /\ n \in Generations /\ n > generation
        /\ n \in 0..MaxSwitches
  BY <1>1, <1>2, SelectionAssumption DEF SelectionTypes, Generations
<1>4. tasks[n] \in TaskOf /\ SoundTask(tasks[n]) /\ tasks[n].pc = "none"
  BY <1>1, <1>3 DEF SelectionTypes, AllSound, InTurn
<1>5. /\ x \in TaskOf /\ x.pc = "await" /\ x.looks = tasks[n].looks
      /\ x.completed = tasks[n].completed
  BY <1>4 DEF TaskOf, TaskStages
<1>6. tasks \in [Generations -> TaskOf] /\ tasks' = [tasks EXCEPT ![n] = x]
  BY <1>1, <1>2 DEF SelectionTypes
<1> HIDE DEF x
<1>7. SoundTask(x)
  BY <1>4, <1>5 DEF SoundTask, Planned
<1>8. /\ tasks' \in [Generations -> TaskOf] /\ tasks'[n] = x
      /\ \A m \in Generations : m # n => tasks'[m] = tasks[m]
  BY <1>3, <1>5, <1>6
<1>9. SelectionTypes'
  <2>1. shape \in Snapshots
    BY SelectionAssumption DEF Snapshots
  <2> QED  BY <1>1, <1>2, <1>3, <1>8, <2>1 DEF SelectionTypes
<1>10. AllSound'
  BY <1>1, <1>7, <1>8 DEF AllSound
<1>11. InTurn'
  <2> SUFFICES ASSUME NEW k \in Generations
               PROVE  /\ k > n => tasks'[k].pc = "none"
                      /\ tasks'[k].pc \notin {"none", "await"} =>
                           \A m \in Generations : m < k => tasks'[m].pc = "done"
    BY <1>2 DEF InTurn
  <2>1. k \in Nat
    BY DEF Generations
  <2>2. CASE k = n
    BY <1>3, <1>5, <1>8, <2>2
  <2>3. CASE k # n
    <3>1. tasks'[k] = tasks[k]
      BY <1>8, <2>3
    <3>2. k > n => tasks[k].pc = "none"
      BY <1>1, <1>3, <2>1 DEF InTurn
    <3>3. ASSUME tasks[k].pc \notin {"none", "await"}, NEW m \in Generations, m < k
          PROVE  tasks'[m].pc = "done"
      <4>1. tasks[m].pc = "done"
        BY <1>1, <3>3 DEF InTurn
      <4>2. m # n
        BY <1>4, <4>1
      <4> QED  BY <1>8, <4>1, <4>2
    <3> QED  BY <3>1, <3>2, <3>3
  <2> QED  BY <2>2, <2>3
<1>12. tasks'[generation'].pc = "await"
  BY <1>2, <1>5, <1>8
<1>13. LastTaskRight' /\ SelectionApplied'
  BY <1>12 DEF LastTaskRight, LastAtWork, Idle, SelectionApplied, AtTask
<1> QED  BY <1>9, <1>10, <1>11, <1>13 DEF SelectionInv

\* Whoever interferes is in the history, and the tasks are left alone.
LEMMA InterferenceHolds ==
  ASSUME SelectionInv, disturbed', SelectionTypes',
         tasks' = tasks, generation' = generation
  PROVE  SelectionInv'
<1>1. AllSound' /\ InTurn'
  BY DEF SelectionInv, AllSound, InTurn
<1>2. LastTaskRight' /\ SelectionApplied'
  BY DEF LastTaskRight, LastAtWork, SelectionApplied
<1> QED  BY <1>1, <1>2 DEF SelectionInv

LEMMA OfferHolds ==
  ASSUME SelectionInv, NEW shape \in Shapes, Offer(shape)
  PROVE  SelectionInv'
<1>1. shape \in Snapshots
  BY SelectionAssumption DEF Snapshots
<1>2. SelectionTypes'
  BY <1>1 DEF Offer, SelectionInv, SelectionTypes
<1> QED  BY <1>2, InterferenceHolds DEF Offer

LEMMA ChooseHolds ==
  ASSUME SelectionInv, NEW g \in Groups, NEW node \in Nodes, Choose(g, node)
  PROVE  SelectionInv'
<1>1. SelectionTypes
  BY DEF SelectionInv
<1>2. offered \in Snapshots /\ offered[g] \in Group
  BY <1>1 DEF Choose, Missing, SelectionTypes, Snapshots
<1>3. [offered[g] EXCEPT !.now = node] \in Group
  BY <1>2 DEF Group
<1>4. offered' = [offered EXCEPT ![g] = [offered[g] EXCEPT !.now = node]]
  BY <1>2 DEF Choose, Snapshots
<1>5. offered' \in Snapshots
  BY <1>2, <1>3, <1>4 DEF Snapshots
<1>6. [name |-> g, now |-> node] \in Record
  BY DEF Record
<1>7. SelectionTypes'
  BY <1>1, <1>5, <1>6 DEF Choose, SelectionTypes
<1> QED  BY <1>7, InterferenceHolds DEF Choose

LEMMA SaveChoiceHolds ==
  ASSUME SelectionInv, SaveChoice
  PROVE  SelectionInv'
<1>1. SelectionTypes
  BY DEF SelectionInv
<1> DEFINE records == selected[shown]
           places == {i \in DOMAIN records : records[i].name # choosing.name}
           saved == Append(Kept(records, places), choosing)
<1>2. records \in Seq(Record) /\ choosing \in Record
  BY <1>1 DEF SaveChoice, SelectionTypes
<1>3. Kept(records, places) \in Seq(Record)
  <2>1. places \in SUBSET DOMAIN records
    OBVIOUS
  <2> HIDE DEF places, records
  <2> QED  BY <1>2, <2>1, KeptIs
<1>4. selected' = [selected EXCEPT ![shown] = saved]
  BY DEF SaveChoice
<1>5. saved \in Seq(Record)
  <2> HIDE DEF places, records
  <2> QED  BY <1>2, <1>3
<1> HIDE DEF saved
<1>6. SelectionTypes'
  BY <1>1, <1>4, <1>5 DEF SaveChoice, SelectionTypes
<1> QED  BY <1>6, InterferenceHolds DEF SaveChoice

LEMMA SelectionNextHolds ==
  ASSUME SelectionInv, SelectionNext
  PROVE  SelectionInv'
BY SwitchHolds, SelectionTaskHolds, OfferHolds, ChooseHolds, SaveChoiceHolds
   DEF SelectionNext

LEMMA SelectionStays ==
  ASSUME SelectionInv, UNCHANGED selectionVars
  PROVE  SelectionInv'
<1>1. SelectionTypes' /\ AllSound' /\ InTurn' /\ LastTaskRight'
        /\ SelectionApplied'
  BY DEF selectionVars, SelectionInv, SelectionTypes, AllSound, InTurn,
         LastTaskRight, LastAtWork, SelectionApplied, AtTask
<1> QED  BY <1>1 DEF SelectionInv

LEMMA SelectionIsInv == SelectionSpec => []SelectionInv
<1>1. ASSUME SelectionInit PROVE SelectionInv
  <2>1. generation = 0
    BY <1>1 DEF SelectionInit
  <2>2. LastTaskRight /\ SelectionApplied
    BY <2>1 DEF LastTaskRight, LastAtWork, SelectionApplied
  <2> QED  BY <1>1, <2>2, SelectionInitHolds DEF SelectionInv
<1>2. SelectionInv /\ [SelectionNext]_selectionVars => SelectionInv'
  BY SelectionNextHolds, SelectionStays
<1> QED  BY <1>1, <1>2, PTL DEF SelectionSpec

\* The core has selected what the records say once the last task is done
\* undisturbed (the whole of activate_selected_nodes, config/profiles.rs).
THEOREM RecordsAreSelected == SelectionSpec => []SelectionApplied
<1>1. SelectionInv => SelectionApplied
  BY DEF SelectionInv
<1> QED  BY <1>1, SelectionIsInv, PTL

-----------------------------------------------------------------------------
(* No choice is taken back that the core still offered.                    *)

Survives(n) ==
  AtTask(n, "persist") /\ ~AtTask(n, "persist")' =>
    \A r \in Unique(selected[shown]) :
      \/ r.now = Nobody
      \/ r \in ToSet(selected'[shown])
      \/ /\ r \in ToSet(tasks[n].wanted)
         /\ selected[shown] = tasks[n].wanted
         /\ \/ /\ Len(tasks[n].looks) = 2
               /\ \A i \in 1..2 : Missing(tasks[n].looks[i], r.name, r.now)
            \/ ~Last(tasks[n].looks)[r.name].selectable

LEMMA LeftAlone ==
  ASSUME SelectionTypes, NEW n \in Generations, selected' = selected
  PROVE  Survives(n)
<1>1. selected[shown] \in Seq(Record)
  BY DEF SelectionTypes
<1>2. \A r \in Unique(selected[shown]) : r \in ToSet(selected[shown])
  BY <1>1, UniqueIs
<1> QED  BY <1>2 DEF Survives

LEMMA PersistSurvives ==
  ASSUME SelectionInv, NEW n \in Generations, Persist(n)
  PROVE  Survives(n)
<1>1. SelectionTypes /\ AllSound
  BY DEF SelectionInv
<1>2. /\ tasks[n].pc = "persist"
      /\ \/ Unchanged(n) /\ selected'[shown] = tasks[n].plan
         \/ ~Unchanged(n) /\ selected' = selected
  BY <1>1, PersistSteps
<1>3. CASE selected' = selected
  BY <1>1, <1>3, LeftAlone
<1>4. CASE Unchanged(n) /\ selected'[shown] = tasks[n].plan
  <2> DEFINE t == tasks[n]
             before == Before(t)
             last == Last(t.looks)
  <2>1. /\ t \in TaskOf /\ SoundTask(t) /\ selected[shown] = t.wanted
        /\ t.wanted \in Seq(Record) /\ t.looks \in Seq(Snapshots)
    BY <1>1, <1>4 DEF SelectionTypes, AllSound, TaskOf, Unchanged
  <2>2. t.plan = Plan(t.wanted, before, last) /\ Len(t.looks) \in 1..2
    BY <1>2, <2>1 DEF SoundTask, Planned
  <2>3. /\ before \in Snapshots \union {Nobody} /\ last \in Snapshots
        /\ last = t.looks[Len(t.looks)]
        /\ before # Nobody => Len(t.looks) = 2 /\ before = t.looks[1]
    <3>1. ASSUME NEW looks \in Seq(Snapshots), Len(looks) \in 1..2
          PROVE  /\ looks[1] \in Snapshots /\ looks[Len(looks)] \in Snapshots
                 /\ Len(looks) # 1 => Len(looks) = 2
      BY <3>1
    <3> HIDE DEF t
    <3> QED  BY <2>1, <2>2, <3>1 DEF Before, Last
  <2> HIDE DEF t, before, last
  <2>4. /\ Unique(t.wanted) \subseteq Record
             /\ Unique(t.wanted) \subseteq ToSet(t.wanted)
        /\ \A r \in Unique(t.wanted) : r.name \in Groups
    BY <2>1, UniqueIs
  <2>5. ASSUME NEW r \in Unique(t.wanted), r.now # Nobody, r \notin ToSet(t.plan)
        PROVE  /\ r \in ToSet(t.wanted)
               /\ \/ /\ Len(t.looks) = 2
                     /\ \A i \in 1..2 : Missing(t.looks[i], r.name, r.now)
                  \/ ~last[r.name].selectable
    <3>1. r # Nobody /\ r \in Record /\ r.name \in Groups
      BY <2>4, SelectionAssumption
    <3>2. Reconciled(r, before, last) # r
      <4>1. ToSet(t.plan) =
              {Reconciled(q, before, last) : q \in Unique(t.wanted)} \ {Nobody}
        <5>1. ToSet(Plan(t.wanted, before, last)) =
                {Reconciled(q, before, last) : q \in Unique(t.wanted)} \ {Nobody}
          <6>1. /\ t.wanted \in Seq(Record) /\ last \in Snapshots
                /\ before \in Snapshots \union {Nobody}
            BY <2>1, <2>3
          <6> QED  BY <6>1, PlanIs, Zenon
        <5> QED  BY <2>2, <5>1
      <4> QED  BY <2>5, <3>1, <4>1
    <3>3. \/ last[r.name] # Nobody /\ ~last[r.name].selectable
          \/ /\ before # Nobody /\ Missing(before, r.name, r.now)
             /\ Missing(last, r.name, r.now)
      BY <2>3, <2>5, <3>1, <3>2, ReconciledIs
    <3>4. ASSUME before # Nobody, Missing(before, r.name, r.now),
                 Missing(last, r.name, r.now)
          PROVE  Len(t.looks) = 2 /\ \A i \in 1..2 :
                   Missing(t.looks[i], r.name, r.now)
      <4>1. Len(t.looks) = 2 /\ before = t.looks[1] /\ last = t.looks[2]
        BY <2>3, <3>4
      <4> QED  BY <3>4, <4>1
    <3> QED  BY <2>4, <3>3, <3>4
  <2> QED  BY <1>4, <2>1, <2>5 DEF Survives, t, last
<1> QED  BY <1>2, <1>3, <1>4

LEMMA StepSurvives ==
  ASSUME SelectionInv, SelectionNext, NEW n \in Generations
  PROVE  Survives(n)
<1>1. SelectionTypes
  BY DEF SelectionInv
<1>2. CASE selected' = selected
  BY <1>1, <1>2, LeftAlone
<1>3. CASE SaveChoice
  BY <1>3 DEF SaveChoice, Survives, AtTask
<1>4. ASSUME NEW m \in Generations, Persist(m) PROVE Survives(n)
  <2>1. CASE m = n
    BY <1>4, <2>1, PersistSurvives
  <2>2. CASE m # n
    <3>1. tasks'[n] = tasks[n]
      BY <1>1, <1>4, <2>2 DEF SelectionTypes, Persist, End
    <3> QED  BY <3>1 DEF Survives, AtTask
  <2> QED  BY <2>1, <2>2
<1>5. selected' = selected \/ SaveChoice \/ \E m \in Generations : Persist(m)
  <2>1. ASSUME NEW m \in Generations, Task(m)
                 PROVE selected' = selected \/ Persist(m)
    BY <2>1 DEF Task, StartTask, FetchFirst, FetchSecond, Fetch, Send, Land,
       Lost,
                Applied, TaskFails
  <2>2. ASSUME NEW u \in SwitchTo, NEW shape \in Shapes, SwitchAndActivate(u, shape)
        PROVE  selected' = selected
    BY <2>2 DEF SwitchAndActivate
  <2>3. ASSUME NEW shape \in Shapes, Offer(shape) PROVE selected' = selected
    BY <2>3 DEF Offer
  <2>4. ASSUME NEW g \in Groups, NEW node \in Nodes, Choose(g, node)
        PROVE  selected' = selected
    BY <2>4 DEF Choose
  <2> QED  BY <2>1, <2>2, <2>3, <2>4 DEF SelectionNext
<1> QED  BY <1>2, <1>3, <1>4, <1>5

\* A saved choice the core still offers is not taken back by a task that
\* persists what it found (persist_reconciled_selected).
THEOREM ChoicesAreKept == SelectionSpec => ChoicesSurvive
<1>1. ASSUME SelectionInv, [SelectionNext]_selectionVars
      PROVE  [\A n \in Generations : Survives(n)]_selectionVars
  BY <1>1, StepSurvives
<1>2. [\A n \in Generations : Survives(n)]_selectionVars <=>
        [\A n \in Generations :
       AtTask(n, "persist") /\ ~AtTask(n, "persist")' =>
         \A r \in Unique(selected[shown]) :
           \/ r.now = Nobody
           \/ r \in ToSet(selected'[shown])
           \/ /\ r \in ToSet(tasks[n].wanted)
              /\ selected[shown] = tasks[n].wanted
              /\ \/ /\ Len(tasks[n].looks) = 2
                    /\ \A i \in 1..2 : Missing(tasks[n].looks[i], r.name, r.now)
                 \/ ~Last(tasks[n].looks)[r.name].selectable]_selectionVars
  BY DEF Survives
<1> QED  BY <1>1, <1>2, SelectionIsInv, PTL DEF SelectionSpec, ChoicesSurvive

-----------------------------------------------------------------------------
(* Saving an edited file: unless two saves of one file overlapped, every   *)
(* file is right or on trial, what a save would write back is right, and   *)
(* what it tries out passed; as long as nothing slipped, the core has what *)
(* is in the files of its profile, those on trial apart.  All this is said *)
(* of the files no write of which has failed.                              *)

Trials == {"check", "update", "generate", "apply", "restore"}
OnTrial(f) == \E s \in Savers : stage[s] \in Trials /\ file[s] = f
Right(f, c) == c \in Passes \/ (c = Absent /\ f \in Unwritten)

EditorTypes ==
  /\ DOMAIN stage = Editors /\ DOMAIN read = Editors
  /\ DOMAIN content = Files
  /\ DOMAIN file = Savers /\ DOMAIN original = Savers
  /\ DOMAIN affects = Savers /\ DOMAIN looked = Savers
  /\ stage[Other] \in {"idle", "generate", "apply"}

\* Who generates or applies is in update_config, and generates for the current
\* profile; a switch that is tried out is Other's.
OneUpdate ==
  /\ \A s \in Editors : stage[s] \in {"generate", "apply"} <=> busy = s
  /\ \A s \in Editors : AtStage(s, "apply") => DOMAIN read[s] = Used(chosen)
  /\ busy # Other => former = chosen

\* What a save looked up.
LookedUp ==
  \A s \in Savers :
    ~AtStage(s, "idle") =>
      /\ file[s] \in Files
      /\ affects[s] <=> file[s] \in Used(looked[s])

FilesApart ==
  \A s, t \in Savers :
    s # t /\ ~AtStage(s, "idle") /\ ~AtStage(t, "idle") => file[s] # file[t]
FilesRight ==
  \A f \in Files \ damaged : OnTrial(f) \/ Right(f, content[f])
OriginalsRight ==
  \A s \in Savers :
    stage[s] \in {"write"} \union Trials =>
      file[s] \in damaged \/ Right(file[s], original[s])
TriedPassed ==
  \A s \in Savers :
    stage[s] \in {"update", "generate", "apply"} =>
      Right(file[s], content[file[s]])

CoreFollows ==
  /\ DOMAIN running = Used(former)
  /\ \A f \in Used(former) \ damaged : OnTrial(f) \/ running[f] = content[f]

EditorInv ==
  /\ EditorTypes /\ OneUpdate /\ LookedUp
  /\ "overlap" \notin slips =>
       FilesApart /\ FilesRight /\ OriginalsRight /\ TriedPassed
  /\ slips = {} => CoreFollows

LEMMA EditorInitHolds == EditorInit => EditorInv
<1> SUFFICES ASSUME EditorInit PROVE EditorInv
  OBVIOUS
<1> DEFINE good == CHOOSE c \in Passes \intersect Runs : TRUE
<1>1. good \in Passes
  BY EditorAssumption
<1>2. content = [f \in Files |-> IF f \in Unwritten THEN Absent ELSE good]
  BY DEF EditorInit
<1> HIDE DEF good
<1>3. FilesRight
  BY <1>1, <1>2 DEF FilesRight, Right
<1>4. CoreFollows
  BY DEF EditorInit, CoreFollows, Given
<1> QED  BY <1>3, <1>4, EditorAssumption
  DEF EditorInit, EditorInv, EditorTypes, OneUpdate, FilesApart, OriginalsRight,
      TriedPassed, LookedUp, AtStage, Editors, Trials

TypeParts == EditorTypes /\ LookedUp

LEMMA EditorTypesHold == EditorInv /\ [EditorNext]_editorVars =>
  TypeParts'
<1> SUFFICES ASSUME EditorInv, [EditorNext]_editorVars
             PROVE  TypeParts'
  OBVIOUS
<1>0. \/ UNCHANGED editorVars
      \/ \E s \in Savers :
           \/ \E f \in Files, c \in Contents : Save(s, f, c)
           \/ \/ ReadOriginal(s) \/ ReadFails(s) \/ WriteEdited(s)
              \/ WriteEditedFails(s) \/ CheckFails(s) \/ RestoreOriginal(s)
              \/ RestoreFails(s)
           \/ CheckFile(s) \/ EnterUpdate(s)
      \/ \E p \in Profiles : OtherUpdate(p)
      \/ \E s \in Editors : Updating(s)
  BY DEF EditorNext, Saving
<1> USE EditorAssumption
      DEF EditorInv, EditorTypes, LookedUp, Editors, AtStage, ToStage, Leave
<1>1. CASE UNCHANGED editorVars
  BY <1>1 DEF editorVars, TypeParts
<1>2. ASSUME NEW s \in Savers, NEW f \in Files, NEW c \in Contents, Save(s, f, c)
      PROVE  TypeParts'
  BY <1>2 DEF TypeParts, Save, AffectsRuntime, Used
<1>3. ASSUME NEW s \in Savers,
             ReadOriginal(s) \/ ReadFails(s) \/ WriteEdited(s)
               \/ WriteEditedFails(s) \/ CheckFails(s) \/ RestoreOriginal(s)
               \/ RestoreFails(s)
      PROVE  TypeParts'
  <2>1. \E label \in {"write", "check", "restore", "idle"} :
          stage' = [stage EXCEPT ![s] = label]
    BY <1>3 DEF ReadOriginal, ReadFails, WriteEdited, WriteEditedFails, WriteTo,
       CheckFails, RestoreOriginal, RestoreFails
  <2>2. UNCHANGED <<file, affects, looked, read>> /\ stage[s] # "idle"
    BY <1>3 DEF ReadOriginal, ReadFails, WriteEdited, WriteEditedFails, WriteTo,
       CheckFails, RestoreOriginal, RestoreFails
  <2>3. DOMAIN content' = Files /\ DOMAIN original' = Savers
    BY <1>3 DEF ReadOriginal, ReadFails, WriteEdited, WriteEditedFails, WriteTo,
       CheckFails, RestoreOriginal, RestoreFails
  <2> QED  BY <2>1, <2>2, <2>3 DEF TypeParts, Used
<1>7. ASSUME NEW s \in Savers, EnterUpdate(s)
      PROVE  TypeParts'
  BY <1>7 DEF TypeParts, EnterUpdate, Used
<1>4. ASSUME NEW s \in Savers, CheckFile(s)
      PROVE  TypeParts'
  BY <1>4 DEF TypeParts, CheckFile
<1>5. ASSUME NEW p \in Profiles, OtherUpdate(p)
      PROVE  TypeParts'
  BY <1>5 DEF TypeParts, OtherUpdate
<1>6. ASSUME NEW s \in Editors, Updating(s)
      PROVE  TypeParts'
  BY <1>6 DEF TypeParts, Updating, GenerateFrom, GiveToCore, UpdateError, TakeBack
<1> QED  BY ONLY <1>0, <1>1, <1>2, <1>3, <1>4, <1>5, <1>6, <1>7

LEMMA OneUpdateHolds == EditorInv /\ [EditorNext]_editorVars => OneUpdate'
<1> SUFFICES ASSUME EditorInv, [EditorNext]_editorVars PROVE OneUpdate'
  OBVIOUS
<1> USE EditorAssumption
    DEF EditorInv, EditorTypes, OneUpdate, Editors, AtStage, ToStage, Leave
<1>1. CASE UNCHANGED editorVars
  BY <1>1 DEF editorVars
<1>2. ASSUME NEW s \in Savers, NEW f \in Files, NEW c \in Contents, Save(s, f, c)
      PROVE  OneUpdate'
  BY <1>2 DEF Save
<1>3. ASSUME NEW s \in Savers,
             ReadOriginal(s) \/ ReadFails(s) \/ WriteEdited(s)
               \/ WriteEditedFails(s) \/ CheckFails(s) \/ RestoreOriginal(s)
               \/ RestoreFails(s)
      PROVE  OneUpdate'
  BY <1>3 DEF ReadOriginal, ReadFails, WriteEdited, WriteEditedFails, WriteTo,
       CheckFails, RestoreOriginal, RestoreFails
<1>4. ASSUME NEW s \in Savers, CheckFile(s)
      PROVE  OneUpdate'
  BY <1>4 DEF CheckFile
<1>7. ASSUME NEW s \in Savers, EnterUpdate(s)
      PROVE  OneUpdate'
  <2>1. CASE busy # Absent
    BY <1>7, <2>1 DEF EnterUpdate
  <2>2. CASE busy = Absent
    BY <1>7, <2>2 DEF EnterUpdate
  <2> QED  BY <2>1, <2>2
<1>5. ASSUME NEW p \in Profiles, OtherUpdate(p)
      PROVE  OneUpdate'
  BY <1>5 DEF OtherUpdate
<1>6. ASSUME NEW s \in Editors, Updating(s)
      PROVE  OneUpdate'
  <2>1. CASE GenerateFrom(s)
    BY <2>1 DEF GenerateFrom, Given
  <2>2. CASE GiveToCore(s) \/ UpdateError(s)
    <3>1. AtStage(s, "apply") /\ busy = s /\ read' = read /\ busy' = Absent
      BY <2>2 DEF GiveToCore, UpdateError
    <3>2. s # Other => chosen' = chosen
      BY <2>2 DEF GiveToCore, UpdateError, TakeBack
    <3>3. \E label \in {"idle", "restore"} : stage' = [stage EXCEPT ![s] = label]
      BY <2>2 DEF GiveToCore, UpdateError, TakeBack
    <3>4. former' = chosen'
      <4>1. s # Other => former = chosen
        BY <3>1
      <4>2. CASE former' = former
        BY <2>2, <3>2, <4>1, <4>2 DEF GiveToCore, UpdateError, TakeBack
      <4>3. CASE former' = chosen /\ chosen' = chosen
        BY <4>3
      <4> QED  BY <2>2, <4>2, <4>3 DEF GiveToCore, UpdateError
    <3>5. \A t \in Editors : ~(stage'[t] \in {"generate", "apply"})
      BY <3>1, <3>3
    <3> QED  BY <3>1, <3>4, <3>5
  <2> QED  BY <1>6, <2>1, <2>2 DEF Updating
<1> QED  BY <1>1, <1>2, <1>3, <1>4, <1>5, <1>6, <1>7 DEF EditorNext, Saving

RightParts == FilesApart /\ FilesRight /\ OriginalsRight /\ TriedPassed

LEMMA RightHolds ==
  EditorInv /\ [EditorNext]_editorVars /\ "overlap" \notin slips' => RightParts'
<1> SUFFICES ASSUME EditorInv, [EditorNext]_editorVars, "overlap" \notin slips'
             PROVE  RightParts'
  OBVIOUS
<1> USE EditorAssumption
    DEF EditorInv, EditorTypes, RightParts, FilesApart, FilesRight, OriginalsRight,
        TriedPassed, OnTrial, Right, Trials, Editors, AtStage, ToStage, Leave, SlipIf
<1>1. CASE UNCHANGED editorVars
  BY <1>1 DEF editorVars
<1>2. ASSUME NEW s \in Savers, NEW f \in Files, NEW c \in Contents, Save(s, f, c)
      PROVE  RightParts'
  BY <1>2 DEF Save
<1>3. ASSUME NEW s \in Savers, ReadOriginal(s) \/ ReadFails(s)
      PROVE  RightParts'
  BY <1>3 DEF ReadOriginal, ReadFails, LookedUp
<1>4. ASSUME NEW s \in Savers, WriteEdited(s)
      PROVE  RightParts'
  BY <1>4 DEF WriteEdited
<1>10. ASSUME NEW s \in Savers, WriteEditedFails(s) \/ RestoreFails(s)
       PROVE  RightParts'
  <2>1. /\ stage[s] \in {"write", "restore"} /\ stage' = [stage EXCEPT ![s] = "idle"]
        /\ \E c : content' = [content EXCEPT ![file[s]] = c]
        /\ damaged' = damaged \union {file[s]}
        /\ UNCHANGED <<file, original, slips>>
    BY <1>10 DEF WriteEditedFails, RestoreFails, WriteTo
  <2> QED  BY <2>1
<1>5. ASSUME NEW s \in Savers, CheckFile(s)
      PROVE  RightParts'
  BY <1>5 DEF CheckFile
<1>6. ASSUME NEW s \in Savers, CheckFails(s) \/ EnterUpdate(s)
      PROVE  RightParts'
  BY <1>6 DEF CheckFails, EnterUpdate
<1>7. ASSUME NEW s \in Savers, RestoreOriginal(s)
      PROVE  RightParts'
  BY <1>7 DEF RestoreOriginal
<1>8. ASSUME NEW p \in Profiles, OtherUpdate(p)
      PROVE  RightParts'
  BY <1>8 DEF OtherUpdate
<1>9. ASSUME NEW s \in Editors, Updating(s)
      PROVE  RightParts'
  BY <1>9 DEF Updating, GenerateFrom, GiveToCore, UpdateError, TakeBack
<1> QED  BY <1>1, <1>2, <1>3, <1>4, <1>5, <1>6, <1>7, <1>8, <1>9, <1>10
            DEF EditorNext, Saving

LEMMA CoreFollowsHolds ==
  EditorInv /\ [EditorNext]_editorVars /\ slips' = {} => CoreFollows'
<1> SUFFICES ASSUME EditorInv, [EditorNext]_editorVars, slips' = {}
             PROVE  CoreFollows'
  OBVIOUS
<1> USE EditorAssumption
    DEF EditorInv, EditorTypes, LookedUp, OneUpdate, CoreFollows, OnTrial, Trials, Editors,
        AtStage, ToStage, Leave, SlipIf
<1>1. CASE UNCHANGED editorVars
  BY <1>1 DEF editorVars
<1>2. ASSUME NEW s \in Savers, NEW f \in Files, NEW c \in Contents, Save(s, f, c)
      PROVE  CoreFollows'
  BY <1>2 DEF Save
<1>3. ASSUME NEW s \in Savers,
             ReadOriginal(s) \/ ReadFails(s) \/ CheckFails(s) \/ EnterUpdate(s)
      PROVE  CoreFollows'
  BY <1>3 DEF ReadOriginal, ReadFails, CheckFails, EnterUpdate
<1>10. ASSUME NEW s \in Savers, WriteEditedFails(s) \/ RestoreFails(s)
       PROVE  CoreFollows'
  <2>1. /\ stage' = [stage EXCEPT ![s] = "idle"]
        /\ \E c : content' = [content EXCEPT ![file[s]] = c]
        /\ damaged' = damaged \union {file[s]}
        /\ UNCHANGED <<file, running, former, slips>>
    BY <1>10 DEF WriteEditedFails, RestoreFails, WriteTo
  <2> QED  BY <2>1
<1>4. ASSUME NEW s \in Savers, WriteEdited(s)
      PROVE  CoreFollows'
  BY <1>4 DEF WriteEdited
<1>5. ASSUME NEW s \in Savers, CheckFile(s)
      PROVE  CoreFollows'
  BY <1>5 DEF CheckFile
<1>6. ASSUME NEW s \in Savers, RestoreOriginal(s)
      PROVE  CoreFollows'
  BY <1>6 DEF RestoreOriginal
<1>7. ASSUME NEW p \in Profiles, OtherUpdate(p)
      PROVE  CoreFollows'
  BY <1>7 DEF OtherUpdate
<1>8. ASSUME NEW s \in Editors, GenerateFrom(s) \/ UpdateError(s)
      PROVE  CoreFollows'
  BY <1>8 DEF GenerateFrom, UpdateError
<1>9. ASSUME NEW s \in Editors, GiveToCore(s)
      PROVE  CoreFollows'
  BY <1>9 DEF GiveToCore, TakeBack, Given
<1> QED  BY <1>1, <1>2, <1>3, <1>4, <1>5, <1>6, <1>7, <1>8, <1>9, <1>10
  DEF EditorNext, Saving, Updating

LEMMA EditorNextHolds == EditorInv /\ [EditorNext]_editorVars => EditorInv'
  BY EditorTypesHold, OneUpdateHolds, RightHolds, CoreFollowsHolds
  DEF EditorInv, RightParts, TypeParts

\* When every save has ended, however they and other updates overlapped, no
\* rejected file is left and the core runs the files of the current profile,
\* but for the files a write of which has failed and the slips the property
\* names (save_profile_file), for any number of saves, profiles, extensions and
\* contents.
THEOREM EveryEditSettles == EditorSpec => []EditsSettle
<1>1. EditorInv => EditsSettle
  BY EditorAssumption
  DEF EditorInv, EditsSettle, EditorTypes, OneUpdate, FilesRight, CoreFollows, OnTrial,
      Right, Trials, AtStage, Editors, Given
<1> QED  BY <1>1, EditorInitHolds, EditorNextHolds, PTL DEF EditorSpec

-----------------------------------------------------------------------------
(* The generation of the configuration: the control plane is what the      *)
(* app's settings say from the defaults to the snapshot, the snapshot is   *)
(* from there to the end, and the end puts it back.                        *)

\* The top of a configuration, or a snapshot of it, says what is decreed, where
\* no other spelling of the subscription was taken.
SaysDecreed(block) ==
  \A k \in CONTROL_PLANE_KEYS \ overruled : Lookup(block, k, NoValue) = Decreed(k)

DnsWanted ==
  switches.dns /\ Lookup(dns_file, "ipv6", NoValue) # NoValue

EnhanceTypes ==
  /\ IsConfiguration(config)
  /\ clash_config \in [CONTROL_PLANE_KEYS -> Values]
  /\ dns_file = NoValue \/ IsBlock(dns_file)

FirstSteps == {"items", "defaults", "builtin"}
AppsSteps == {"tun", "dns", "snapshot"}
UsersSteps == {"global merge", "global script", "merge", "script", "enforce"}

Decided ==
  /\ step \in FirstSteps => ~guarded /\ overruled = {}
  /\ step = "builtin" =>
       \A k \in CONTROL_PLANE_KEYS :
         Lookup(config.top, k, NoValue) = Decreed(k)
  /\ step \in AppsSteps => SaysDecreed(config.top)
  /\ step = "snapshot" /\ DnsWanted => config.dns = EnsureFakeIpRange6(dns_file)

Remembered ==
  step \in UsersSteps =>
    /\ IsBlock(control_plane)
         /\ DOMAIN control_plane \subseteq CONTROL_PLANE_KEYS
    /\ SaysDecreed(control_plane)
    /\ DnsWanted => dns_ipv6 = dns_file.ipv6

EnhanceInv == EnhanceTypes /\ Decided /\ Remembered /\ ControlPlaneKept

\* A mapping is not the absence of one, and no value in it is.
LEMMA BlockIsThere ==
  ASSUME NEW b, IsBlock(b)
  PROVE  b # NoValue /\ \A k \in DOMAIN b : b[k] \in Values /\ b[k] # NoValue
  BY EnhanceAssumption DEF IsBlock

\* Putting one mapping over another, and taking keys out.
LEMMA ExtendedIsBlock ==
  ASSUME NEW f, NEW g, IsBlock(f), IsBlock(g)
  PROVE  /\ IsBlock(Extended(g, f))
         /\ \A k, d : Lookup(Extended(g, f), k, d) =
                        IF k \in DOMAIN f THEN f[k] ELSE Lookup(g, k, d)
<1>1. PICK F \in SUBSET AllKeys : f \in [F -> Values]
  BY DEF IsBlock
<1>2. PICK G \in SUBSET AllKeys : g \in [G -> Values]
  BY DEF IsBlock
<1>3. Extended(g, f) = [x \in F \union G |-> IF x \in F THEN f[x] ELSE g[x]]
  BY <1>1, <1>2 DEF Extended
<1>4. Extended(g, f) \in [F \union G -> Values]
  BY <1>1, <1>2, <1>3
<1>5. IsBlock(Extended(g, f))
  BY <1>4 DEF IsBlock
<1>6. Extended(g, f) # NoValue /\ g # NoValue
  BY <1>5, BlockIsThere
<1> QED  BY <1>1, <1>2, <1>3, <1>5, <1>6 DEF Lookup

LEMMA WithoutIsBlock ==
  ASSUME NEW f, NEW S, IsBlock(f)
  PROVE  /\ IsBlock(Without(f, S))
         /\ \A k, d : Lookup(Without(f, S), k, d) =
                        IF k \in S THEN d ELSE Lookup(f, k, d)
<1>1. PICK F \in SUBSET AllKeys : f \in [F -> Values]
  BY DEF IsBlock
<1>2. Without(f, S) = [x \in F \ S |-> f[x]]
  BY <1>1 DEF Without
<1>3. Without(f, S) \in [F \ S -> Values]
  BY <1>1, <1>2
<1>4. IsBlock(Without(f, S))
  BY <1>3 DEF IsBlock
<1>5. Without(f, S) # NoValue /\ f # NoValue
  BY <1>4, BlockIsThere
<1> QED  BY <1>1, <1>2, <1>4, <1>5 DEF Lookup

\* A mapping of one key, and a mapping with one key set.
LEMMA OneKeyIsBlock ==
  ASSUME NEW b, NEW k \in AllKeys, NEW v \in Values, b = [x \in {k} |-> v]
  PROVE  IsBlock(b)
<1>1. b \in [{k} -> Values]
  OBVIOUS
<1> QED  BY <1>1 DEF IsBlock

LEMMA SettingIsBlock ==
  ASSUME NEW f, NEW b, NEW k, NEW v \in Values, IsBlock(f), b = [f EXCEPT ![k] = v]
  PROVE  IsBlock(b)
<1>1. PICK F \in SUBSET AllKeys : f \in [F -> Values]
  BY DEF IsBlock
<1>2. b \in [F -> Values]
  BY <1>1
<1> QED  BY <1>2 DEF IsBlock

LEMMA EnhanceInitHolds == EnhanceInit => EnhanceInv
  BY EnhanceAssumption
  DEF EnhanceInit, EnhanceInv, EnhanceTypes, Decided, Remembered, ControlPlaneKept,
      AppsSteps, FirstSteps, UsersSteps

LEMMA MergeGivesConfiguration ==
  ASSUME NEW m, NEW c, IsBlock(m.top), IsBlock(c.top), IsBlock(c.other)
  PROVE  IsConfiguration(DeepMerge(m, c))
<1> DEFINE merged == DeepMerge(m, c)
<1>1. IsBlock(Extended(c.top, m.top))
  BY ExtendedIsBlock
<1>2. /\ merged.top = Extended(c.top, m.top) /\ merged.other = c.other
      /\ {"top", "other", "dns"} \subseteq DOMAIN merged
  BY DEF DeepMerge
<1> QED  BY <1>1, <1>2 DEF IsConfiguration

\* Making the keys lower case changes those of which another spelling is taken.
LEMMA LowercaseGivesConfiguration ==
  ASSUME NEW c, IsConfiguration(c), NEW taken
  PROVE  /\ IsConfiguration(UseLowercase(c, taken))
         /\ \A k, d : k \notin taken =>
              Lookup(UseLowercase(c, taken).top, k, d) = Lookup(c.top, k, d)
<1> DEFINE none == Without(c.other, DOMAIN c.other)
           put == Without(c.other, DOMAIN c.other \ taken)
           lower == UseLowercase(c, taken)
<1>1. /\ IsBlock(c.top) /\ IsBlock(c.other)
      /\ {"top", "other", "dns"} \subseteq DOMAIN c
  BY DEF IsConfiguration
<1>2. IsBlock(none) /\ IsBlock(put)
  BY <1>1, WithoutIsBlock
<1>3. DOMAIN put \subseteq taken
  BY DEF Without
<1>4. lower.top = Extended(c.top, put) /\ lower.other = none
        /\ DOMAIN lower = DOMAIN c
  BY <1>1 DEF UseLowercase
<1> HIDE DEF none, put, lower
<1>5. /\ IsBlock(Extended(c.top, put))
      /\ \A k, d : Lookup(Extended(c.top, put), k, d) =
                     IF k \in DOMAIN put THEN put[k] ELSE Lookup(c.top, k, d)
  BY <1>1, <1>2, ExtendedIsBlock
<1>6. IsConfiguration(lower)
  BY <1>1, <1>2, <1>4, <1>5 DEF IsConfiguration
<1> QED  BY <1>3, <1>4, <1>5, <1>6 DEF lower

LEMMA ScriptGivesConfiguration ==
  ASSUME NEW c, IsConfiguration(c), NEW s \in Scripts, s # NoValue
  PROVE  IsConfiguration(UseScript(s, c))
<1> DEFINE left == [c EXCEPT
                      !.top = Without(@, s.drop),
                      !.dns = IF "dns" \in s.drop THEN NoValue ELSE @,
                      !.providers = IF "providers" \in s.drop THEN {} ELSE @]
<1>1. UseScript(s, c) = DeepMerge(s.put, left)
  BY DEF UseScript
<1>2. left.top = Without(c.top, s.drop) /\ left.other = c.other
  BY DEF IsConfiguration
<1>3. IsBlock(s.put.top) /\ IsBlock(c.top) /\ IsBlock(c.other)
  BY EnhanceAssumption DEF IsConfiguration
<1> HIDE DEF left
<1>4. IsBlock(left.top)
  BY <1>2, <1>3, WithoutIsBlock
<1> QED  BY <1>1, <1>2, <1>3, <1>4, MergeGivesConfiguration

\* The steps before and after the snapshot that do not touch what was decided.
LEMMA ItemsHold ==
  EnhanceInv
    /\ (ProcessSeqItems \/ ProcessGlobalItems \/ ProcessProfileItems) =>
    EnhanceInv'
<1> SUFFICES ASSUME EnhanceInv,
                    ProcessSeqItems \/ ProcessGlobalItems \/ ProcessProfileItems
             PROVE  EnhanceInv'
  OBVIOUS
<1> USE DEF EnhanceInv, EnhanceTypes, Decided, Remembered, ControlPlaneKept,
            AppsSteps, FirstSteps, UsersSteps, inputs, builtin, snapshots
<1>1. CASE ProcessSeqItems
  <2>1. PICK p \in ProxyItems, g \in GroupItems :
          config' = UseGroups(g, UseProxies(p, config))
    BY <1>1 DEF ProcessSeqItems
  <2>2. /\ config'.top = config.top /\ config'.other = config.other
        /\ DOMAIN config' = DOMAIN config
    BY <2>1 DEF UseGroups, UseProxies, IsConfiguration
  <2>3. IsConfiguration(config')
    BY <2>2 DEF IsConfiguration
  <2> QED  BY <1>1, <2>3 DEF ProcessSeqItems
<1>2. ASSUME NEW m \in Merges
      PROVE  IsConfiguration(DeepMerge(m, config))
  BY EnhanceAssumption, MergeGivesConfiguration DEF IsConfiguration
<1>3. ASSUME NEW s \in Scripts, NEW taken,
             config' \in IF s = NoValue
                         THEN {config, UseLowercase(config, taken)}
                         ELSE {UseScript(s, UseLowercase(config, taken))}
      PROVE  IsConfiguration(config')
  <2>1. IsConfiguration(UseLowercase(config, taken))
    BY LowercaseGivesConfiguration
  <2>2. CASE s = NoValue
    BY <1>3, <2>1, <2>2
  <2>3. CASE s # NoValue
    BY <1>3, <2>1, <2>3, ScriptGivesConfiguration
  <2> QED  BY <2>2, <2>3
<1>4. CASE ProcessGlobalItems \/ ProcessProfileItems
  <2>1. IsConfiguration(config')
    BY <1>4, <1>2, <1>3
       DEF ProcessGlobalItems, ProcessProfileItems, Merge, Script
  <2>2. step \in UsersSteps /\ step' \in UsersSteps
          /\ UNCHANGED <<inputs, snapshots>>
    BY <1>4 DEF ProcessGlobalItems, ProcessProfileItems, Merge, Script
  <2>3. Remembered'
    BY <2>2 DEF SaysDecreed, Decreed, DnsWanted, Lookup
  <2> QED  BY <2>1, <2>2, <2>3
<1> QED  BY <1>1, <1>4

LEMMA DefaultsHold == EnhanceInv /\ MergeDefaultConfig => EnhanceInv'
<1> SUFFICES ASSUME EnhanceInv, MergeDefaultConfig PROVE EnhanceInv'
  OBVIOUS
<1> DEFINE given == IF switches.controller THEN clash_config
                    ELSE [clash_config EXCEPT !.external_controller = ""]
           off == IF switches.socks THEN {} ELSE {"socks_port"}
<1>1. given \in [CONTROL_PLANE_KEYS -> Values]
  <2>1. clash_config \in [CONTROL_PLANE_KEYS -> Values] /\ "" \in Values
    BY EnhanceAssumption DEF EnhanceInv, EnhanceTypes
  <2> QED  BY <2>1
<1>2. IsBlock(given) /\ IsBlock(config.top)
  BY <1>1 DEF IsBlock, AllKeys, EnhanceInv, EnhanceTypes, IsConfiguration
<1>3. config' = [config EXCEPT !.top = Without(Extended(@, given), off)]
  BY DEF MergeDefaultConfig, MergeDefault
<1>4. \A k \in CONTROL_PLANE_KEYS :
        given[k] = IF k = "external_controller" /\ ~switches.controller THEN ""
                   ELSE clash_config[k]
  BY DEF EnhanceInv, EnhanceTypes, CONTROL_PLANE_KEYS
<1> HIDE DEF given, off
<1>5. /\ IsBlock(Without(Extended(config.top, given), off))
      /\ \A k \in CONTROL_PLANE_KEYS :
           Lookup(Without(Extended(config.top, given), off), k, NoValue) =
             IF k \in off THEN NoValue ELSE given[k]
  BY <1>1, <1>2, ExtendedIsBlock, WithoutIsBlock
<1>6. config'.top = Without(Extended(config.top, given), off)
        /\ IsConfiguration(config')
  BY <1>3, <1>5 DEF EnhanceInv, EnhanceTypes, IsConfiguration
<1>7. step' = "builtin" /\ UNCHANGED inputs
  BY DEF MergeDefaultConfig
<1>8. step = "defaults" /\ ~guarded /\ overruled = {}
  BY DEF MergeDefaultConfig, EnhanceInv, Decided, FirstSteps
<1>10. \A k \in CONTROL_PLANE_KEYS :
         Lookup(config'.top, k, NoValue) = Decreed(k)
  BY <1>4, <1>5, <1>6, <1>8 DEF Decreed, off, CONTROL_PLANE_KEYS
<1>9. \A k \in CONTROL_PLANE_KEYS : Decreed(k)' = Decreed(k)
  BY <1>7 DEF inputs, builtin, Decreed
<1> QED  BY <1>6, <1>7, <1>8, <1>9, <1>10
  DEF EnhanceInv, EnhanceTypes, Decided, Remembered, ControlPlaneKept, AppsSteps,
      FirstSteps, UsersSteps, inputs, builtin

LEMMA BuiltinHolds == EnhanceInv /\ ApplyBuiltinScripts => EnhanceInv'
<1> SUFFICES ASSUME EnhanceInv, ApplyBuiltinScripts PROVE EnhanceInv'
  OBVIOUS
<1>1. step = "builtin" /\ step' = "tun"
        /\ UNCHANGED <<switches, clash_config, dns_file>>
  BY DEF ApplyBuiltinScripts
<1>2. /\ IsConfiguration(config) /\ ~guarded /\ overruled = {}
      /\ \A k \in CONTROL_PLANE_KEYS : Lookup(config.top, k, NoValue) = Decreed(k)
  BY <1>1 DEF EnhanceInv, EnhanceTypes, Decided, FirstSteps
<1>3. clash_config.mode \in Values
  BY DEF EnhanceInv, EnhanceTypes, CONTROL_PLANE_KEYS
<1> DEFINE lower == UseLowercase(config, overruled')
<1>4. /\ IsConfiguration(lower)
      /\ \A k, d : k \notin overruled' =>
           Lookup(lower.top, k, d) = Lookup(config.top, k, d)
  BY <1>2, LowercaseGivesConfiguration
<1> HIDE DEF lower
<1>5. \A k \in CONTROL_PLANE_KEYS :
        Decreed(k)' = IF k = "mode" /\ guarded' THEN MetaGuard(clash_config.mode)
                      ELSE Decreed(k)
  BY <1>1, <1>2 DEF Decreed, CONTROL_PLANE_KEYS
<1>6. IsConfiguration(config')
        /\ \A k \in CONTROL_PLANE_KEYS \ overruled' :
             Lookup(config'.top, k, NoValue) = Decreed(k)'
  <2>1. CASE config' = config /\ UNCHANGED builtin
    BY <1>2, <1>5, <2>1 DEF builtin
  <2>2. CASE config' = lower /\ ~guarded'
    BY <1>2, <1>4, <1>5, <2>2
  <2>3. CASE config' = WithModeGuarded(lower) /\ guarded'
    <3>1. IsBlock(lower.top) /\ lower.top # NoValue
      BY <1>4, BlockIsThere DEF IsConfiguration
    <3>2. CASE "mode" \notin DOMAIN lower.top
      <4>1. config' = lower
        BY <2>3, <3>2 DEF WithModeGuarded
      <4>2. "mode" \in overruled'
        <5> SUFFICES ASSUME "mode" \notin overruled' PROVE FALSE
          OBVIOUS
        <5>1. Lookup(lower.top, "mode", NoValue) = Decreed("mode")
          BY <1>2, <1>4 DEF CONTROL_PLANE_KEYS
        <5>2. Decreed("mode") = clash_config.mode
          BY <1>2 DEF Decreed
        <5>3. Lookup(lower.top, "mode", NoValue) = NoValue
          BY <3>2 DEF Lookup
        <5> QED  BY <1>3, <5>1, <5>2, <5>3, EnhanceAssumption
      <4> QED  BY <1>2, <1>4, <1>5, <4>1, <4>2
    <3>3. CASE "mode" \in DOMAIN lower.top
      <4> DEFINE mode == MetaGuard(lower.top["mode"])
      <4>1. config' = [lower EXCEPT !.top = [@ EXCEPT !["mode"] = mode]]
        BY <2>3, <3>3 DEF WithModeGuarded
      <4>2. lower.top["mode"] \in Values
        BY <3>1, <3>3, BlockIsThere
      <4>3. mode \in Values
        BY <4>2, EnhanceAssumption DEF MetaGuard
      <4>4. "mode" \notin overruled' => mode = MetaGuard(clash_config.mode)
        <5> SUFFICES ASSUME "mode" \notin overruled'
                     PROVE  mode = MetaGuard(clash_config.mode)
          OBVIOUS
        <5>1. Lookup(lower.top, "mode", NoValue) = Decreed("mode")
          BY <1>2, <1>4 DEF CONTROL_PLANE_KEYS
        <5>2. Decreed("mode") = clash_config.mode
          BY <1>2 DEF Decreed
        <5>3. Lookup(lower.top, "mode", NoValue) = lower.top["mode"]
          BY <3>1, <3>3 DEF Lookup
        <5> QED  BY <5>1, <5>2, <5>3
      <4> HIDE DEF mode
      <4>5. config'.top = [lower.top EXCEPT !["mode"] = mode]
              /\ config'.other = lower.other /\ DOMAIN config' = DOMAIN lower
        BY <1>4, <4>1 DEF IsConfiguration
      <4>6. IsBlock(config'.top) /\ config'.top # NoValue
        BY <3>1, <4>3, <4>5, SettingIsBlock, BlockIsThere
      <4>7. IsConfiguration(config')
        BY <1>4, <4>5, <4>6 DEF IsConfiguration
      <4>8. ASSUME NEW k \in CONTROL_PLANE_KEYS \ overruled'
            PROVE  Lookup(config'.top, k, NoValue) = Decreed(k)'
        <5>1. CASE k = "mode"
          <6>1. Lookup(config'.top, k, NoValue) = mode
            BY <3>3, <4>5, <4>6, <5>1 DEF Lookup
          <6> QED  BY <1>5, <2>3, <4>4, <4>8, <5>1, <6>1
        <5>2. CASE k # "mode"
          <6>1. Lookup(config'.top, k, NoValue) = Lookup(lower.top, k, NoValue)
            BY <3>1, <4>5, <4>6, <5>2 DEF Lookup
          <6> QED  BY <1>2, <1>4, <1>5, <4>8, <5>2, <6>1
        <5> QED  BY <5>1, <5>2
      <4> QED  BY <4>7, <4>8
    <3> QED  BY <3>2, <3>3
  <2> QED  BY <2>1, <2>2, <2>3 DEF ApplyBuiltinScripts, lower
<1> QED  BY <1>1, <1>6
  DEF EnhanceInv, EnhanceTypes, Decided, Remembered, ControlPlaneKept, AppsSteps,
      FirstSteps, UsersSteps, SaysDecreed

LEMMA TunHolds == EnhanceInv /\ UseTun => EnhanceInv'
<1> SUFFICES ASSUME EnhanceInv, UseTun PROVE EnhanceInv'
  OBVIOUS
<1>1. step = "tun" /\ step' = "dns" /\ UNCHANGED inputs
  BY DEF UseTun
<1>2. IsConfiguration(config) /\ IsBlock(config.top) /\ SaysDecreed(config.top)
  BY <1>1 DEF EnhanceInv, EnhanceTypes, Decided, IsConfiguration, AppsSteps
<1> DEFINE tun == [tun |-> IF switches.tun THEN "true" ELSE "false"]
<1>3. /\ config'.top = Extended(config.top, tun) /\ config'.other = config.other
      /\ DOMAIN config' = DOMAIN config
  BY <1>2 DEF UseTun, IsConfiguration
<1>4. DOMAIN tun = {"tun"} /\ IsBlock(tun)
  <2> DEFINE v == IF switches.tun THEN "true" ELSE "false"
  <2>1. DOMAIN tun = {"tun"} /\ tun["tun"] = v
          /\ tun = [x \in DOMAIN tun |-> tun[x]]
    OBVIOUS
  <2>2. v \in Values /\ "tun" \in AllKeys
    BY EnhanceAssumption DEF AllKeys
  <2> HIDE DEF tun, v
  <2>3. tun = [x \in {"tun"} |-> v]
    BY <2>1
  <2>4. IsBlock(tun)
    BY <2>2, <2>3, OneKeyIsBlock
  <2> QED  BY <2>1, <2>4
<1> HIDE DEF tun
<1>5. IsBlock(config'.top) /\ SaysDecreed(config'.top)
  BY <1>2, <1>3, <1>4, ExtendedIsBlock DEF SaysDecreed, CONTROL_PLANE_KEYS
<1>6. \A k \in CONTROL_PLANE_KEYS : Decreed(k)' = Decreed(k)
  BY <1>1 DEF inputs, builtin, Decreed
<1> QED  BY <1>1, <1>2, <1>3, <1>5, <1>6
  DEF EnhanceInv, EnhanceTypes, Decided, Remembered, ControlPlaneKept, AppsSteps,
      FirstSteps, UsersSteps, inputs, builtin, SaysDecreed, IsConfiguration

LEMMA DnsHolds == EnhanceInv /\ ApplyDnsSettings => EnhanceInv'
<1> SUFFICES ASSUME EnhanceInv, ApplyDnsSettings PROVE EnhanceInv'
  OBVIOUS
<1>1. step = "dns" /\ step' = "snapshot" /\ UNCHANGED inputs
  BY DEF ApplyDnsSettings
<1>2. config'.top = config.top /\ IsConfiguration(config')
        /\ SaysDecreed(config.top)
  BY <1>1 DEF EnhanceInv, EnhanceTypes, Decided, IsConfiguration, AppsSteps,
     ApplyDnsSettings
<1>3. DnsWanted => config'.dns = EnsureFakeIpRange6(dns_file)
  BY DEF DnsWanted, ApplyDnsSettings, Lookup, EnhanceInv, EnhanceTypes,
     IsConfiguration
<1>4. \A k \in CONTROL_PLANE_KEYS : Decreed(k)' = Decreed(k)
  BY <1>1 DEF inputs, builtin, Decreed
<1>5. DnsWanted' = DnsWanted
        /\ EnsureFakeIpRange6(dns_file)' = EnsureFakeIpRange6(dns_file)
  BY <1>1 DEF inputs, builtin, DnsWanted, EnsureFakeIpRange6, FakeIp, Lookup
<1> QED  BY <1>1, <1>2, <1>3, <1>4, <1>5
  DEF EnhanceInv, EnhanceTypes, Decided, Remembered, ControlPlaneKept, AppsSteps,
      FirstSteps, UsersSteps, inputs, builtin, SaysDecreed

LEMMA SnapshotHolds == EnhanceInv /\ SnapshotControlPlane => EnhanceInv'
<1> SUFFICES ASSUME EnhanceInv, SnapshotControlPlane PROVE EnhanceInv'
  OBVIOUS
<1>1. step = "snapshot" /\ step' = "global merge"
        /\ UNCHANGED <<inputs, config>>
  BY DEF SnapshotControlPlane
<1>2. IsConfiguration(config) /\ IsBlock(config.top) /\ SaysDecreed(config.top)
  BY <1>1 DEF EnhanceInv, EnhanceTypes, Decided, IsConfiguration, AppsSteps
<1>3. control_plane' = Without(config.top, DOMAIN config.top \ CONTROL_PLANE_KEYS)
  BY DEF SnapshotControlPlane
<1>4. /\ IsBlock(control_plane')
           /\ DOMAIN control_plane' \subseteq CONTROL_PLANE_KEYS
      /\ SaysDecreed(control_plane')
  <2> DEFINE other == DOMAIN config.top \ CONTROL_PLANE_KEYS
  <2>1. DOMAIN control_plane' \subseteq CONTROL_PLANE_KEYS
    BY <1>3 DEF Without
  <2> HIDE DEF other
  <2>2. IsBlock(control_plane')
    BY <1>2, <1>3, WithoutIsBlock DEF other
  <2>3. \A k \in CONTROL_PLANE_KEYS :
          Lookup(control_plane', k, NoValue) = Lookup(config.top, k, NoValue)
    BY <1>2, <1>3, WithoutIsBlock DEF other
  <2> QED  BY <1>2, <2>1, <2>2, <2>3 DEF SaysDecreed
<1>5. DnsWanted => dns_ipv6' = dns_file.ipv6
  <2> SUFFICES ASSUME DnsWanted PROVE dns_ipv6' = dns_file.ipv6
    OBVIOUS
  <2>1. IsBlock(dns_file) /\ dns_file # NoValue /\ "ipv6" \in DOMAIN dns_file
    BY DEF DnsWanted, Lookup, EnhanceInv, EnhanceTypes
  <2>2. config.dns = EnsureFakeIpRange6(dns_file)
    BY <1>1 DEF EnhanceInv, Decided
  <2>3. IsBlock([range6 |-> "app"])
    <3> DEFINE b == [range6 |-> "app"]
    <3>1. DOMAIN b = {"range6"} /\ b["range6"] = "app"
            /\ b = [x \in DOMAIN b |-> b[x]]
      OBVIOUS
    <3>3. "app" \in Values /\ "range6" \in AllKeys
      BY EnhanceAssumption DEF AllKeys
    <3> HIDE DEF b
    <3>4. b = [x \in {"range6"} |-> "app"]
      BY <3>1
    <3>2. IsBlock(b)
      BY <3>3, <3>4, OneKeyIsBlock
    <3> QED  BY <3>2 DEF b
  <2>4. Lookup(Extended([range6 |-> "app"], dns_file), "ipv6", NoValue) = dns_file.ipv6
    BY <2>1, <2>3, ExtendedIsBlock
  <2>5. Lookup(config.dns, "ipv6", NoValue) = dns_file.ipv6
    BY <2>1, <2>2, <2>4 DEF EnsureFakeIpRange6, Lookup
  <2> QED  BY <2>5 DEF SnapshotControlPlane, DnsWanted
<1>6. \A k \in CONTROL_PLANE_KEYS : Decreed(k)' = Decreed(k)
  BY <1>1 DEF inputs, builtin, Decreed
<1>7. DnsWanted' = DnsWanted
  BY <1>1 DEF inputs, builtin, DnsWanted, Lookup
<1> QED  BY <1>1, <1>2, <1>4, <1>5, <1>6, <1>7
  DEF EnhanceInv, EnhanceTypes, Decided, Remembered, ControlPlaneKept, AppsSteps,
      FirstSteps, UsersSteps, inputs, builtin, SaysDecreed

LEMMA EnforceHolds == EnhanceInv /\ Enforce => EnhanceInv'
<1> SUFFICES ASSUME EnhanceInv, Enforce PROVE EnhanceInv'
  OBVIOUS
<1>1. step = "enforce" /\ step' = "groups" /\ UNCHANGED inputs
  BY DEF Enforce
<1> DEFINE away == CONTROL_PLANE_KEYS \ DOMAIN control_plane
           top == Extended(Without(config.top, away), control_plane)
           first == EnforceControlPlane(config)
           second == EnforceDnsIpv6(first)
<1>2. /\ IsConfiguration(config) /\ IsBlock(config.top)
      /\ IsBlock(control_plane)
           /\ DOMAIN control_plane \subseteq CONTROL_PLANE_KEYS
      /\ SaysDecreed(control_plane)
      /\ DnsWanted => dns_ipv6 = dns_file.ipv6
  BY <1>1 DEF EnhanceInv, EnhanceTypes, Remembered, UsersSteps, IsConfiguration
<1>3. IsBlock(Without(config.top, away))
  BY <1>2, WithoutIsBlock
<1>4. IsBlock(top)
  BY <1>2, <1>3, ExtendedIsBlock
<1>5. SaysDecreed(top)
  <2> SUFFICES ASSUME NEW k \in CONTROL_PLANE_KEYS \ overruled
               PROVE  Lookup(top, k, NoValue) = Decreed(k)
    BY DEF SaysDecreed
  <2>1. Lookup(control_plane, k, NoValue) = Decreed(k)
          /\ control_plane # NoValue
    BY <1>2, BlockIsThere DEF SaysDecreed
  <2>2. CASE k \in DOMAIN control_plane
    BY <1>2, <1>3, <2>1, <2>2, ExtendedIsBlock DEF Lookup
  <2>3. CASE k \notin DOMAIN control_plane
    <3>1. Lookup(top, k, NoValue) = Lookup(Without(config.top, away), k, NoValue)
      BY <1>2, <1>3, <2>3, ExtendedIsBlock
    <3>2. Lookup(Without(config.top, away), k, NoValue) = NoValue
      BY <1>2, <2>3, WithoutIsBlock
    <3>3. Decreed(k) = NoValue
      BY <2>1, <2>3 DEF Lookup
    <3> QED  BY <3>1, <3>2, <3>3
  <2> QED  BY <2>2, <2>3
<1>6. first = [config EXCEPT !.top = top]
  BY DEF EnforceControlPlane
<1> HIDE DEF top, first
<1>7. /\ first.top = top /\ DOMAIN first = DOMAIN config
      /\ first.dns = config.dns /\ first.other = config.other
  BY <1>2, <1>6 DEF IsConfiguration
<1>8. second.top = top /\ second.other = config.other
        /\ DOMAIN second = DOMAIN config
  BY <1>2, <1>7 DEF EnforceDnsIpv6, IsConfiguration
<1>9. DnsWanted /\ second.dns # NoValue => second.dns.ipv6 = dns_file.ipv6
  <2> SUFFICES ASSUME DnsWanted, second.dns # NoValue
               PROVE  second.dns.ipv6 = dns_file.ipv6
    OBVIOUS
  <2>1. dns_ipv6 # NoValue /\ dns_ipv6 = dns_file.ipv6
    BY <1>2 DEF DnsWanted, Lookup
  <2>2. first.dns # NoValue
    BY DEF EnforceDnsIpv6
  <2>3. second = [first EXCEPT !.dns = Extended(@, [ipv6 |-> dns_ipv6])]
    BY <2>1, <2>2 DEF EnforceDnsIpv6
  <2>4. second.dns = Extended(first.dns, [ipv6 |-> dns_ipv6])
    BY <1>2, <1>7, <2>3 DEF IsConfiguration
  <2> QED  BY <2>1, <2>4 DEF Extended
<1> HIDE DEF second
<1>10. config' = EnsureLanBindAddress(second)
  BY DEF Enforce, second, first
<1>11. top # NoValue
  BY <1>4, BlockIsThere
<1>12. /\ IsBlock(config'.top) /\ SaysDecreed(config'.top)
       /\ DOMAIN config' = DOMAIN config /\ config'.dns = second.dns
       /\ config'.other = config.other
       /\ Lookup(config'.top, "allow_lan", "false") = "true" =>
            Lookup(config'.top, "bind_address", "*") # "loopback"
  <2> DEFINE lan == Lookup(top, "allow_lan", "false") = "true"
             bound == Lookup(top, "bind_address", "*") = "loopback"
  <2>1. CASE lan /\ bound
    <3>1. config' = [second EXCEPT !.top = [@ EXCEPT !["bind_address"] = "*"]]
      BY <1>8, <1>10, <2>1 DEF EnsureLanBindAddress
    <3>2. /\ config'.top = [top EXCEPT !["bind_address"] = "*"]
          /\ DOMAIN config' = DOMAIN config /\ config'.dns = second.dns
          /\ config'.other = config.other
      BY <1>2, <1>8, <3>1 DEF IsConfiguration
    <3>3. IsBlock(config'.top)
      BY <1>4, <3>2, SettingIsBlock, EnhanceAssumption
    <3>4. config'.top # NoValue
      BY <3>3, BlockIsThere
    <3>5. SaysDecreed(config'.top)
      BY <1>5, <1>11, <3>2, <3>4 DEF SaysDecreed, Lookup, CONTROL_PLANE_KEYS
    <3>6. Lookup(config'.top, "bind_address", "*") # "loopback"
      BY <3>2 DEF Lookup
    <3> QED  BY <3>2, <3>3, <3>5, <3>6
  <2>2. CASE ~(lan /\ bound)
    <3>1. config' = second
      BY <1>8, <1>10, <2>2 DEF EnsureLanBindAddress
    <3>2. Lookup(top, "allow_lan", "false") = "true" =>
            Lookup(top, "bind_address", "*") # "loopback"
      BY <2>2
    <3> QED  BY <1>4, <1>5, <1>8, <3>1, <3>2
  <2> QED  BY <2>1, <2>2
<1>14. \A k \in CONTROL_PLANE_KEYS : Decreed(k)' = Decreed(k)
  BY <1>1 DEF inputs, builtin, Decreed
<1>15. DnsWanted' = DnsWanted
  BY <1>1 DEF inputs, builtin, DnsWanted, Lookup
<1>16. ControlPlaneKept'
  BY <1>1, <1>9, <1>12, <1>14, <1>15
  DEF ControlPlaneKept, SaysDecreed, DnsWanted, inputs, builtin
<1> QED  BY <1>1, <1>2, <1>12, <1>16
  DEF EnhanceInv, EnhanceTypes, Decided, Remembered, AppsSteps, FirstSteps,
      UsersSteps, inputs, builtin, IsConfiguration

LEMMA CleanupHolds == EnhanceInv /\ CleanupProxyGroups => EnhanceInv'
<1> SUFFICES ASSUME EnhanceInv, CleanupProxyGroups PROVE EnhanceInv'
  OBVIOUS
<1>1. step = "groups" /\ step' = "done" /\ UNCHANGED inputs
  BY DEF CleanupProxyGroups
<1>2. /\ DOMAIN config' = DOMAIN config
      /\ config'.top = config.top /\ config'.dns = config.dns
      /\ config'.other = config.other
  BY DEF CleanupProxyGroups, EnhanceInv, EnhanceTypes, IsConfiguration
<1>3. \A k \in CONTROL_PLANE_KEYS : Decreed(k)' = Decreed(k)
  BY <1>1 DEF inputs, builtin, Decreed
<1>4. ControlPlaneKept'
  BY <1>1, <1>2, <1>3 DEF EnhanceInv, ControlPlaneKept, inputs, builtin, Lookup
<1> QED  BY <1>1, <1>2, <1>4
  DEF EnhanceInv, EnhanceTypes, Decided, Remembered, AppsSteps, FirstSteps,
      UsersSteps, inputs, builtin, IsConfiguration

LEMMA EnhanceNextHolds == EnhanceInv /\ [EnhanceNext]_enhanceVars => EnhanceInv'
<1>1. EnhanceInv /\ UNCHANGED enhanceVars => EnhanceInv'
  <2> SUFFICES ASSUME EnhanceInv, UNCHANGED enhanceVars PROVE EnhanceInv'
    OBVIOUS
  <2>1. \A k : Decreed(k)' = Decreed(k)
    BY DEF enhanceVars, Decreed
  <2>2. EnhanceTypes'
    BY DEF enhanceVars, EnhanceInv, EnhanceTypes, IsConfiguration
  <2>3. Decided'
    BY <2>1 DEF enhanceVars, EnhanceInv, Decided, FirstSteps, AppsSteps,
       SaysDecreed, DnsWanted, EnsureFakeIpRange6, FakeIp, Lookup
  <2>4. Remembered'
    BY <2>1 DEF enhanceVars, EnhanceInv, Remembered, UsersSteps, SaysDecreed,
       DnsWanted, Lookup
  <2>5. ControlPlaneKept'
    BY <2>1 DEF enhanceVars, EnhanceInv, ControlPlaneKept, Lookup
  <2> QED  BY <2>2, <2>3, <2>4, <2>5 DEF EnhanceInv
<1> QED  BY <1>1, ItemsHold, DefaultsHold, BuiltinHolds, TunHolds, DnsHolds,
            SnapshotHolds, EnforceHolds, CleanupHolds DEF EnhanceNext

\* Whatever merges and scripts contain and whichever of them fail, the control
\* plane the core is given is the one of the app's settings (enhance), but for
\* the keys of which the built-in scripts took another spelling of the
\* subscription; for every subscription, config.yaml, DNS page, merge and script.
THEOREM AppKeepsControl == EnhanceSpec => []ControlPlaneKept
<1>1. EnhanceInv => ControlPlaneKept
  BY DEF EnhanceInv
<1> QED  BY <1>1, EnhanceInitHolds, EnhanceNextHolds, PTL DEF EnhanceSpec

-----------------------------------------------------------------------------
(* Automatic backups: who makes one holds exec_lock, and has seen under it *)
(* that the last one is long ago; every file but the one just made is no   *)
(* younger than last_backup.                                               *)

Making(t) == abPc[t] \in {"make", "made"}

AutoInv ==
  /\ clock \in Nat \ {0} /\ last_backup \in 0..clock
       /\ autoFiles \subseteq 1..clock
  /\ DOMAIN abPc = Triggers
  /\ \A t \in Triggers : Making(t) => exec_lock = t
  /\ (\A t \in Triggers : ~AbAt(t, "made")) =>
       \A f \in autoFiles \ unrecorded : f <= last_backup
  /\ \A t \in Triggers : AbAt(t, "make") => should_run_now
  /\ BackupsApart

LEMMA AutoInitHolds == AutoInit => AutoInv
  BY DEF AutoInit, AutoInv, Making, AbAt, BackupsApart, Triggers

LEMMA AutoNextHolds == AutoInv /\ [AutoNext]_autoVars => AutoInv'
<1> SUFFICES ASSUME AutoInv, [AutoNext]_autoVars PROVE AutoInv'
  OBVIOUS
<1> USE AutoBackupAssumption DEF AutoInv, AbAt, AbTo
<1>1. CASE UNCHANGED autoVars
  BY <1>1 DEF autoVars, Making, should_run_now, BackupsApart
<1>2. CASE AbTick
  BY <1>2 DEF AbTick, execVars, Making, should_run_now, BackupsApart
<1>3. CASE LoadSettings \/ HearChange \/ (\E loaded \in abLoaded : SendSettings(loaded))
           \/ (\E new \in ABSettings : PatchSchedule(new))
  <2>1. UNCHANGED <<clock, execVars, abPc>>
    BY <1>3 DEF LoadSettings, HearChange, SendSettings, PatchSchedule
  <2> QED  BY <2>1 DEF execVars, Making, should_run_now, BackupsApart
<1>4. CASE SleeperWakes
  BY <1>4 DEF SleeperWakes, execVars, Making, should_run_now, BackupsApart,
     Triggers
<1>5. ASSUME NEW c \in Changes, TriggerChange(c)
      PROVE  AutoInv'
  BY <1>5 DEF TriggerChange, execVars, Making, should_run_now, BackupsApart,
     Triggers
<1>6. ASSUME NEW t \in Triggers, CheckTrigger(t)
      PROVE  AutoInv'
  BY <1>6 DEF CheckTrigger, AbReturn, execVars, Making, should_run_now,
     BackupsApart
<1>7. ASSUME NEW t \in Triggers, LockBackup(t)
      PROVE  AutoInv'
  BY <1>7 DEF LockBackup, StillNeeded, AbReturn, Making, should_run_now,
     BackupsApart
<1>8. ASSUME NEW t \in Triggers, MakeBackup(t)
      PROVE  AutoInv'
  <2>1. /\ clock' = clock /\ last_backup' = last_backup
             /\ exec_lock' = exec_lock
        /\ autoFiles' = autoFiles \union {clock}
        /\ unrecorded' = unrecorded \ {clock}
        /\ abPc[t] = "make" /\ abPc' = [abPc EXCEPT ![t] = "made"]
    BY <1>8 DEF MakeBackup
  <2>2. \A q \in Triggers : Making(q) => q = t
    BY <2>1 DEF Making
  <2>3. \A f \in autoFiles \ unrecorded : f <= last_backup
    BY <2>1, <2>2 DEF Making
  <2>4. BackupsApart'
    BY <2>1, <2>3 DEF BackupsApart, should_run_now
  <2> QED  BY <2>1, <2>2, <2>4 DEF Making, should_run_now
<1>9. ASSUME NEW t \in Triggers, BackupFails(t)
      PROVE  AutoInv'
  <2>1. /\ clock' = clock /\ last_backup' = last_backup /\ exec_lock' = Free
        /\ autoFiles' \in {autoFiles, autoFiles \union {clock}}
        /\ autoFiles' \ unrecorded' \subseteq autoFiles \ unrecorded
        /\ abPc[t] = "make" /\ abPc' = [abPc EXCEPT ![t] = "idle"]
    BY <1>9 DEF BackupFails, AbReturn
  <2>2. \A q \in Triggers : Making(q) => q = t
    BY <2>1 DEF Making
  <2>3. \A f \in autoFiles' \ unrecorded' : f <= last_backup
    BY <2>1, <2>2 DEF Making
  <2> QED  BY <2>1, <2>2, <2>3 DEF Making, should_run_now, BackupsApart
<1>10. ASSUME NEW t \in Triggers, RecordBackup(t)
       PROVE  AutoInv'
  <2>1. autoFiles' \subseteq autoFiles /\ unrecorded' = unrecorded
    BY <1>10 DEF RecordBackup, Cleaned
  <2>2. /\ clock' = clock /\ last_backup' = clock
        /\ abPc[t] = "made" /\ abPc' = [abPc EXCEPT ![t] = "idle"]
    BY <1>10 DEF RecordBackup, AbReturn
  <2>3. \A q \in Triggers \ {t} : ~Making(q)
    BY <2>2 DEF Making
  <2> QED  BY <2>1, <2>2, <2>3 DEF Making, should_run_now, BackupsApart
<1> QED
  BY <1>1, <1>2, <1>3, <1>4, <1>5, <1>6, <1>7, <1>8, <1>9, <1>10
     DEF AutoNext, ExecuteTrigger

\* Two automatic backups are a MinInterval apart however many triggers come at
\* once and however long the program runs: the time is checked again under
\* exec_lock (execute_trigger in module/auto_backup.rs).
THEOREM AutoBackupsApart == AutoSpec => []BackupsApart
<1>1. AutoInv => BackupsApart
  BY DEF AutoInv
<1> QED  BY <1>1, AutoInitHolds, AutoNextHolds, PTL DEF AutoSpec

-----------------------------------------------------------------------------
(* Restoring a backup: what nobody touched is the archive's from the step  *)
(* that unpacks it, or loads it, onwards; of what was loaded the default   *)
(* may have taken the place, in the end in the file too.                   *)

Extracted(s) ==
  {"finalize", "save", "clash", "profiles", "verge", "done", "ended"} \union
  (CASE s = "clash" -> {"verge.yaml", "profiles.yaml"}
     [] s = "verge" -> {"profiles.yaml"}
     [] OTHER -> {})

Loaded(s) ==
  {"done", "ended"} \union
  (CASE s = "clash" -> {"profiles", "verge"}
     [] s = "profiles" -> {"verge"}
     [] OTHER -> {})

RestoreInv ==
  /\ DOMAIN onDisk = Stores /\ DOMAIN inMemory = Stores
       /\ DOMAIN writing = Stores
  /\ defaulted \subseteq Stores \ {"verge"}
  /\ restorePc # "idle" =>
       \A s \in Stores \ touched :
         /\ writing[s] = Nothing
         /\ restorePc \in Extracted(s) =>
              onDisk[s] = "archive" \/ (restorePc = "ended" /\ s \in defaulted)
         /\ restorePc \in Loaded(s) => inMemory[s] = "archive" \/ s \in defaulted
  /\ "verge" \notin touched /\ restorePc \in {"save", "clash", "profiles", "verge"} =>
       restored = "archive"

LEMMA RestoreNextHolds == RestoreInv /\ [BackupNext]_backupVars => RestoreInv'
<1> SUFFICES ASSUME RestoreInv, [BackupNext]_backupVars PROVE RestoreInv'
  OBVIOUS
<1> USE DEF RestoreInv, RestoreStep, RestoreTo, history
<1>1. CASE UNCHANGED backupVars
  BY <1>1 DEF backupVars
<1>2. ASSUME NEW s \in Stores, ChangeStore(s) \/ WriteStore(s)
      PROVE  RestoreInv'
  BY <1>2 DEF ChangeStore, WriteStore
<1>3. CASE SaveAll
  BY <1>3 DEF SaveAll, Extracted, Loaded
<1>4. CASE BeginRestore
  BY <1>4 DEF BeginRestore, Extracted, Loaded
<1>5. CASE Extract
  BY <1>5 DEF Extract, ExtractTo, Extracted, Loaded, Stores
<1>6. CASE ReadVerge \/ SaveVerge \/ RestoreEnds
  BY <1>6 DEF ReadVerge, SaveVerge, RestoreEnds, Extracted, Loaded, Stores
<1>7. CASE LoadRestored
  BY <1>7 DEF LoadRestored, Load, LoadInto, LoadDefault, Reloads, Extracted, Loaded,
              Stores
<1>8. CASE ApplyVerge
  BY <1>8 DEF ApplyVerge, Extracted, Loaded, Stores
<1> QED
  BY <1>1, <1>2, <1>3, <1>4, <1>5, <1>6, <1>7, <1>8 DEF BackupNext, Restore

\* A restore that succeeded is in memory and on disk, and survives the save at
\* the end of the program, for every configuration nobody touched meanwhile and
\* of which the default did not take the place
\* (restore_local_backup and restore_webdav_backup in feat/backup.rs).
THEOREM RestoredIsKept == BackupSpec => []RestartKeepsRestored
<1>1. BackupInit => RestoreInv
  BY DEF BackupInit, RestoreInv
<1>2. RestoreInv => RestartKeepsRestored
  BY DEF RestoreInv, RestartKeepsRestored, Extracted, Loaded
<1> QED  BY <1>1, <1>2, RestoreNextHolds, PTL DEF BackupSpec

-----------------------------------------------------------------------------
(* WebDAV: a command no save came between uses the account of the settings *)

UsesCurrent ==
  accountSave = "done" =>
    \A c \in DavCallers \ davLate : davPc[c] # "idle" => davUses[c] = account

DavInv ==
  /\ account \in Nat \ {0}
  /\ DOMAIN davClients = DavOps
  /\ DOMAIN davPc = DavCallers /\ DOMAIN davUses = DavCallers
  /\ UsesCurrent
  /\ accountSave = "done" /\ ~davMixed => davConfig \in {0, account}
  /\ ClientIsCurrent

LEMMA DavNextHolds == DavInv /\ [DavNext]_davVars => DavInv'
<1> SUFFICES ASSUME DavInv, [DavNext]_davVars PROVE DavInv'
  OBVIOUS
<1> USE DEF DavInv, UsesCurrent, ClientIsCurrent, DavTo
<1>1. CASE UNCHANGED davVars
  BY <1>1 DEF davVars
<1>2. CASE ChangeAccount \/ SaveAccountFails
  BY <1>2 DEF ChangeAccount, SaveAccountFails
<1>3. CASE SaveAccount \/ UploadFails
  BY <1>3 DEF SaveAccount, UploadFails, AfterSave, Forget
<1>4. ASSUME NEW c \in DavCallers, NEW op \in DavOps, CallDav(c, op)
      PROVE  DavInv'
  BY <1>4 DEF CallDav
<1>5. ASSUME NEW c \in DavCallers, NoteAccount(c)
      PROVE  DavInv'
  BY <1>5 DEF NoteAccount
<1>6. ASSUME NEW c \in DavCallers, KeepNewClient(c)
      PROVE  DavInv'
  BY <1>6 DEF KeepNewClient
<1>7. ASSUME NEW c \in DavCallers, DavFails(c)
      PROVE  DavInv'
  BY <1>7 DEF DavFails, Forget
<1> QED  BY <1>1, <1>2, <1>3, <1>4, <1>5, <1>6, <1>7 DEF DavNext, Dav

\* A WebDAV client that is kept is one of the account that was saved, unless a
\* command was under way when it was saved (get_client and reset in
\* core/backup.rs).
THEOREM DavClientIsCurrent == DavSpec => []ClientIsCurrent
<1>1. DavInit => DavInv
  BY DEF DavInit, DavInv, UsesCurrent, ClientIsCurrent
<1>2. DavInv => ClientIsCurrent
  BY DEF DavInv
<1> QED  BY <1>1, <1>2, DavNextHolds, PTL DEF DavSpec

-----------------------------------------------------------------------------
(* The silent updater: the installer in the cache is never older than the  *)
(* record next to it, and the server never older than the installer.  What *)
(* the start has read is what the cache holds.                             *)

UpdaterTypes ==
  /\ released \in Nat /\ program \in Nat /\ current_version \in Nat
  /\ meta \in Nat /\ fetched \in Nat /\ lateInstall \in Nat
  /\ bin \in [version : Nat, whole : BOOLEAN]

Cache ==
  /\ meta <= fetched /\ bin.version <= fetched /\ fetched <= released
  /\ bin.version = 0 => bin = NoBin
  /\ meta # 0 /\ bin # NoBin =>
       /\ meta <= bin.version
       /\ bin.version = meta => bin.whole \/ rewritten

Progress ==
  /\ upPc \in {"download", "bin"} => fetched # 0
  /\ upPc \in {"meta", "record"} => fetched # 0 /\ bin = Bin(fetched, TRUE)
  /\ upPc \in {"read", "check", "install"} =>
       cached_version = meta /\ meta > current_version
  /\ upPc \in {"check", "install"} => bytes = bin /\ bin # NoBin
  /\ UpAt("install") => bin.version = meta

UpdaterInv == UpdaterTypes /\ Cache /\ Progress

\* Whatever is left of the cache, nothing more is done with it.
LEMMA CacheDeleted ==
  ASSUME UpdaterInv, DeleteCache, upPc' \in {"background", "off"},
         UNCHANGED <<released, lateInstall, processVars>>,
         program' \in {program, bin.version}
  PROVE  UpdaterInv'
<1> USE DEF UpdaterInv, UpdaterTypes, Cache, Progress, UpAt, Bin, NoBin
<1>1. bin' \in {NoBin, bin} /\ meta' \in {0, meta} /\ rewritten' = rewritten
  BY DEF DeleteCache
<1>2. NoBin \in [version : Nat, whole : BOOLEAN] /\ NoBin.version = 0
  OBVIOUS
<1>3. UpdaterTypes'
  BY <1>1, <1>2 DEF processVars
<1>4. Cache'
  <2>1. CASE bin' = NoBin
    BY <1>1, <2>1 DEF processVars
  <2>2. CASE bin' = bin
    BY <1>1, <2>2 DEF processVars
  <2> QED  BY <1>1, <2>1, <2>2
<1>5. Progress'
  OBVIOUS
<1> QED  BY <1>3, <1>4, <1>5

LEMMA UpdaterNextHolds == UpdaterInv /\ [UpdaterNext]_updaterVars => UpdaterInv'
<1> SUFFICES ASSUME UpdaterInv, [UpdaterNext]_updaterVars PROVE UpdaterInv'
  OBVIOUS
<1> USE DEF UpdaterInv, UpdaterTypes, Cache, Progress, UpAt, UpTo, Bin, NoBin
<1>1. CASE UNCHANGED updaterVars
  BY <1>1 DEF updaterVars
<1>2. CASE Release \/ InstallByHand \/ Ends \/ Starts \/ EndLateInstall
  BY <1>2 DEF Release, InstallByHand, Ends, Starts, EndLateInstall,
              worldVars, processVars, cacheVars
<1>3. CASE NoCache \/ AskUserToInstall \/ ReadCacheBytes \/ CheckServerFails
  BY <1>3 DEF NoCache, AskUserToInstall, ReadCacheBytes, CheckServerFails,
              worldVars, processVars, cacheVars
<1>4. CASE CacheIsOld \/ BytesUnreadable \/ InstallUpdate
  <2>1. /\ DeleteCache /\ upPc' \in {"background", "off"}
        /\ UNCHANGED <<released, lateInstall, processVars>>
        /\ program' \in {program, bin.version}
    BY <1>4 DEF CacheIsOld, BytesUnreadable, InstallUpdate, worldVars
  <2> QED  BY <2>1, CacheDeleted
<1>5. CASE CheckServer
  <2>1. CASE ServerAgrees
    \* meta <= bin.version <= fetched <= released = meta
    BY <1>5, <2>1
       DEF CheckServer, ServerAgrees, worldVars, processVars, cacheVars
  <2>2. CASE ~ServerAgrees
    BY <1>5, <2>2, CacheDeleted DEF CheckServer, worldVars
  <2> QED  BY <2>1, <2>2
<1>6. CASE InstallFails
  <2>1. lateInstall' \in {0, bin.version} /\ upPc' = "background"
        /\ UNCHANGED <<released, program, cacheVars, processVars>>
    BY <1>6 DEF InstallFails
  <2> QED  BY <2>1 DEF cacheVars, processVars
<1>7. CASE Check \/ DownloadFails \/ WriteFails
  BY <1>7 DEF Check, DownloadFails, WriteFails, worldVars, processVars,
     cacheVars
<1>8. CASE BeginBin \/ EndBin
  <2>1. CASE BeginBin
    <3>1. /\ bin' = [version |-> fetched, whole |-> FALSE]
          /\ rewritten' = (meta = fetched) /\ upPc' = "bin"
          /\ UNCHANGED <<worldVars, processVars, meta>>
      BY <2>1 DEF BeginBin
    <3>2. fetched # 0 /\ bin'.version = fetched
      BY <2>1, <3>1 DEF BeginBin
    <3>a. meta = fetched => rewritten'
      BY <3>1, Zenon
    <3>3. UpdaterTypes'
      BY <3>1 DEF worldVars, processVars
    <3>4. Cache'
      <4>1. UNCHANGED <<released, meta, fetched>>
        BY <3>1 DEF worldVars, processVars
      <4>2. fetched \in Nat /\ bin' # NoBin
        BY <3>1, <3>2
      <4> QED  BY <3>2, <3>a, <4>1, <4>2
    <3>5. Progress'
      BY <3>1, <3>2 DEF processVars
    <3> QED  BY <3>3, <3>4, <3>5
  <2>2. CASE EndBin
    BY <1>8, <2>2 DEF EndBin, worldVars, processVars
  <2> QED  BY <1>8, <2>1, <2>2
<1>9. CASE BeginMeta \/ EndMeta
  BY <1>9 DEF BeginMeta, EndMeta, worldVars, processVars
<1> QED
  BY <1>1, <1>2, <1>3, <1>4, <1>5, <1>6, <1>7, <1>8, <1>9
  DEF UpdaterNext, TryInstallOnStartup, CheckAndDownload

\* The bytes that are installed are of the version the user was asked about,
\* and all of it unless the same version was downloaded again
\* (try_install_on_startup and write_cache in core/updater.rs).
THEOREM AskedIsInstalled == UpdaterSpec => []InstallsWhatWasAsked
<1>1. UpdaterInit => UpdaterInv
  BY DEF UpdaterInit, UpdaterInv, UpdaterTypes, Cache, Progress, UpAt, Bin,
     NoBin
<1>2. UpdaterInv => InstallsWhatWasAsked
  BY DEF UpdaterInv, UpdaterTypes, Cache, Progress, InstallsWhatWasAsked, UpAt
<1> QED  BY <1>1, <1>2, UpdaterNextHolds, PTL DEF UpdaterSpec
=============================================================================
