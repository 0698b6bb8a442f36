---------------------------- MODULE TimerProofs -----------------------------
(***************************************************************************)
(* Proofs about Timer.  The inductive invariant adds to the properties     *)
(* that a caller about to commit has an edit, that refreshes exclude each  *)
(* other, and what a refresh about to publish has read.                    *)
(***************************************************************************)
EXTENDS Timer, TLAPS

USE IntervalsAssumption, NoneAssumption, BoundsAssumption

HasEdit == \A c \in Procs : pc[c] = "commit" => edit[c] \in Edit

RefreshesExclude ==
  /\ \A c \in Procs : pc[c] \in {"gen", "publish"} => refresh_lock = c
  /\ \A c \in Procs : pc[c] = "publish" /\ ~unread => new_map[c] = wanted

-----------------------------------------------------------------------------
(* What the operations of the scheduler do to its state.                   *)

\* A first element that is taken away leaves the others one place earlier.
LEMMA TailShifts ==
  ASSUME commands \in Seq(Command), commands # <<>>, commands' = Tail(commands)
  PROVE  /\ Head(commands) \in Command
         /\ Head(commands) = commands[1]
         /\ commands' \in Seq(Command)
         /\ Len(commands') = Len(commands) - 1
         /\ \A i \in 1..Len(commands') : commands'[i] = commands[i + 1]
         /\ \A i \in 2..Len(commands) :
              i - 1 \in 1..Len(commands') /\ commands'[i - 1] = commands[i]
<1>1. Len(commands) \in Nat \ {0}
  OBVIOUS
<1>2. Len(commands') = Len(commands) - 1 /\ commands' \in Seq(Command)
  OBVIOUS
<1>3. \A i \in 1..Len(commands') : commands'[i] = commands[i + 1]
  OBVIOUS
<1>4. Head(commands) = commands[1] /\ commands[1] \in Command
  BY <1>1
<1>5. ASSUME NEW i \in 2..Len(commands)
      PROVE  i - 1 \in 1..Len(commands') /\ commands'[i - 1] = commands[i]
  BY <1>1, <1>2, <1>3
<1> QED
  BY <1>2, <1>3, <1>4, <1>5

\* Where nothing is put into the queue, what is not removed stays.
LEMMA DequeueEffect ==
  ASSUME queue \in [Keys -> Uids \union {None}],
         early \in [Keys -> SUBSET Runs],
         NEW gone, Requeue(gone, {}, <<>>)
  PROVE  /\ queue' \in [Keys -> Uids \union {None}]
         /\ early' \in [Keys -> SUBSET Runs]
         /\ \A k \in Keys : queue'[k] = IF k \in gone THEN None ELSE queue[k]
<1>1. DOMAIN <<>> = {}
  OBVIOUS
<1> QED
  BY <1>1 DEF Requeue

\* apply_timer_map: the tasks it keeps are those of the map, with its
\* intervals; a new entry is one of its profile's.
LEMMA ApplyEffect ==
  ASSUME TypeOK, NEW map \in Map, ApplyTimerMap(map)
  PROVE  /\ tasks' \in [Uids -> Task \union {None}]
         /\ queue' \in [Keys -> Uids \union {None}]
         /\ early' \in [Keys -> SUBSET Runs]
         /\ runs' = runs
         /\ \A u \in Uids : tasks'[u] # None <=> map[u] # 0
         /\ \A u \in Uids : map[u] # 0 =>
              /\ tasks'[u].interval = map[u]
              /\ tasks'[u].running <=> u \in Known /\ tasks[u].running
              /\ u \notin Entering(map) => u \in Known /\ tasks'[u].key = tasks[u].key
              /\ u \in Entering(map) =>
                   tasks'[u].key \in Keys /\ queue'[tasks'[u].key] = u
         /\ \A k \in Keys :
              queue[k] # None /\ k \notin KeysOf(Gone(map)) => queue'[k] = queue[k]
<1> DEFINE Free == FreeKeys \union KeysOf(Gone(map))
<1>1. PICK key \in [Entering(map) -> Free] :
        /\ Distinct(key)
        /\ Requeue(KeysOf(Gone(map)), KeysOf(Changed(map)), key)
        /\ tasks' = [u \in Uids |->
             IF u \notin (Known \ Gone(map)) \union Entering(map) THEN None
             ELSE [key |-> IF u \in Entering(map) THEN key[u] ELSE tasks[u].key,
                   interval |-> map[u],
                   running |-> u \in Known /\ tasks[u].running]]
  BY DEF ApplyTimerMap
<1>2. /\ Entering(map) \in SUBSET Uids
      /\ \A u \in Entering(map) : map[u] # 0
      /\ \A u \in Uids : map[u] # 0 => u \in (Known \ Gone(map)) \union Entering(map)
      /\ \A u \in Known \ Gone(map) : map[u] # 0
  BY DEF Entering, Gone, Changed, Known
<1>3. Free \subseteq Keys
  <2>1. \A u \in Known : tasks[u].key \in Keys \union {None}
    BY DEF TypeOK, Known, Task
  <2> QED
    BY <2>1 DEF FreeKeys, KeysOf, Gone
<1>4. key \in [Entering(map) -> Keys]
  <2>1. \A u \in Entering(map) : key[u] \in Keys
    BY <1>1, <1>3
  <2> QED
    BY <1>1, <2>1
<1>5. /\ queue' \in [Keys -> Uids \union {None}]
      /\ early' \in [Keys -> SUBSET Runs]
      /\ \A u \in Entering(map) : queue'[key[u]] = u
      /\ \A k \in Keys : (\A u \in Entering(map) : key[u] # k) =>
           queue'[k] = IF k \in KeysOf(Gone(map)) THEN None ELSE queue[k]
  <2> DEFINE put == {key[u] : u \in DOMAIN key}
             gone == KeysOf(Gone(map))
  <2>1. DOMAIN key = Entering(map)
    BY <1>1
  <2>2. queue' = [k \in Keys |->
           IF k \in put THEN CHOOSE u \in DOMAIN key : key[u] = k
           ELSE IF k \in gone THEN None ELSE queue[k]]
    BY <1>1 DEF Requeue
  <2>3. ASSUME NEW u \in Entering(map)
        PROVE  queue'[key[u]] = u
    <3>1. key[u] \in Keys /\ key[u] \in put
      BY <1>4, <2>1
    <3>2. queue'[key[u]] = CHOOSE v \in DOMAIN key : key[v] = key[u]
      BY <2>2, <3>1
    <3>3. \A v \in Entering(map) : key[v] = key[u] => v = u
      BY <1>1, <2>1 DEF Distinct
    <3> QED
      BY <2>1, <3>2, <3>3
  <2>4. ASSUME NEW k \in Keys, \A u \in Entering(map) : key[u] # k
        PROVE  queue'[k] = IF k \in gone THEN None ELSE queue[k]
    BY <2>1, <2>2, <2>4
  <2>5. queue' \in [Keys -> Uids \union {None}]
    <3>1. ASSUME NEW k \in Keys
          PROVE  queue'[k] \in Uids \union {None}
      <4>1. CASE \E u \in Entering(map) : key[u] = k
        BY <1>2, <2>3, <4>1
      <4>2. CASE \A u \in Entering(map) : key[u] # k
        BY <2>4, <4>2 DEF TypeOK
      <4> QED
        BY <4>1, <4>2
    <3> QED
      BY <2>2, <3>1
  <2>6. early' \in [Keys -> SUBSET Runs]
    <3>1. Flying \in SUBSET Runs
      BY DEF Flying
    <3> QED
      BY <1>1, <3>1 DEF Requeue, TypeOK
  <2> QED
    BY <2>3, <2>4, <2>5, <2>6
<1>6. ASSUME NEW u \in Uids, map[u] # 0
      PROVE  /\ tasks'[u].key = IF u \in Entering(map) THEN key[u] ELSE tasks[u].key
             /\ tasks'[u].interval = map[u]
             /\ tasks'[u].running <=> u \in Known /\ tasks[u].running
             /\ tasks'[u] \in Task
  <2> DEFINE r == u \in Known /\ tasks[u].running
  <2>1. r \in BOOLEAN
    OBVIOUS
  <2>2. tasks'[u] = [key |-> IF u \in Entering(map) THEN key[u] ELSE tasks[u].key,
                    interval |-> map[u], running |-> r]
    BY <1>1, <1>2, <1>6
  <2>3. map[u] \in Intervals
    BY <1>6 DEF Map
  <2>4. u \in Entering(map) => key[u] \in Keys
    BY <1>4
  <2>5. u \notin Entering(map) => tasks[u].key \in Keys \union {None}
    BY <1>2, <1>6 DEF TypeOK, Known, Task
  <2> HIDE DEF r
  <2>6. /\ tasks'[u].key = IF u \in Entering(map) THEN key[u] ELSE tasks[u].key
        /\ tasks'[u].interval = map[u]
        /\ tasks'[u].running = r
    BY <2>2
  <2>7. tasks'[u] \in Task
    BY <2>1, <2>2, <2>3, <2>4, <2>5 DEF Task
  <2> QED
    BY <2>6, <2>7 DEF r
<1>7. ASSUME NEW u \in Uids, map[u] = 0
      PROVE  tasks'[u] = None
  BY <1>1, <1>2, <1>7
<1>8. tasks' \in [Uids -> Task \union {None}]
  <2>1. \A u \in Uids : tasks'[u] \in Task \union {None}
    BY <1>6, <1>7
  <2> QED
    BY <1>1, <2>1
<1>9. \A u \in Uids : tasks'[u] # None <=> map[u] # 0
  BY <1>6, <1>7
<1>10. ASSUME NEW u \in Uids, map[u] # 0
       PROVE  /\ tasks'[u].interval = map[u]
              /\ tasks'[u].running <=> u \in Known /\ tasks[u].running
              /\ u \notin Entering(map) => u \in Known /\ tasks'[u].key = tasks[u].key
              /\ u \in Entering(map) =>
                   tasks'[u].key \in Keys /\ queue'[tasks'[u].key] = u
  <2>1. /\ tasks'[u].key = IF u \in Entering(map) THEN key[u] ELSE tasks[u].key
        /\ tasks'[u].interval = map[u]
        /\ tasks'[u].running <=> u \in Known /\ tasks[u].running
    BY <1>6, <1>10
  <2>2. u \notin Entering(map) => u \in Known
    BY <1>2, <1>10
  <2>3. u \in Entering(map) => key[u] \in Keys /\ queue'[key[u]] = u
    BY <1>4, <1>5
  <2> QED
    BY <2>1, <2>2, <2>3
<1>11. ASSUME NEW k \in Keys, queue[k] # None, k \notin KeysOf(Gone(map))
       PROVE  queue'[k] = queue[k]
  <2>1. \A u \in Entering(map) : key[u] # k
    BY <1>1, <1>11 DEF FreeKeys
  <2> QED
    BY <1>5, <1>11, <2>1
<1>12. runs' = runs
  BY DEF ApplyTimerMap
<1> HIDE DEF Free
<1> QED
  BY <1>5, <1>8, <1>9, <1>10, <1>11, <1>12

\* run_task_now: at most the entry of that profile goes, and then an update of
\* it starts.
LEMMA RunNowEffect ==
  ASSUME TypeOK, NEW u \in Uids, RunTaskNow(u)
  PROVE  /\ tasks' \in [Uids -> Task \union {None}]
         /\ queue' \in [Keys -> Uids \union {None}]
         /\ early' \in [Keys -> SUBSET Runs]
         /\ runs' \in [Runs -> Uids \union {None}]
         /\ \A v \in Uids \ {u} : tasks'[v] = tasks[v]
         /\ \/ tasks' = tasks
            \/ /\ tasks[u] # None /\ tasks'[u] # None
               /\ tasks'[u].key = None /\ tasks'[u].running = TRUE
               /\ tasks'[u].interval = tasks[u].interval
               /\ \E r \in Runs : runs'[r] = u
         /\ \A k \in Keys :
              \/ queue'[k] = queue[k]
              \/ u \in Known /\ tasks[u].key = k /\ tasks'[u].key = None
         /\ \A r \in Runs : runs[r] # None => runs'[r] = runs[r]
<1>1. CASE ~(tasks[u] # None /\ ~tasks[u].running)
  BY <1>1 DEF RunTaskNow, scheduler, TypeOK
<1>2. CASE tasks[u] # None /\ ~tasks[u].running
  <2>1. /\ StartRun(u)
        /\ tasks' = [tasks EXCEPT ![u].running = TRUE, ![u].key = None]
        /\ Requeue(KeysOf({u}), {}, <<>>)
    BY <1>2 DEF RunTaskNow
  <2>2. tasks[u] \in Task
    BY <1>2 DEF TypeOK
  <2>3. /\ tasks'[u] \in Task
        /\ tasks'[u].key = None /\ tasks'[u].running = TRUE
        /\ tasks'[u].interval = tasks[u].interval
    BY <2>1, <2>2 DEF Task, TypeOK
  <2>4. tasks' \in [Uids -> Task \union {None}]
        /\ \A v \in Uids \ {u} : tasks'[v] = tasks[v]
    BY <2>1, <2>3 DEF TypeOK
  <2>5. /\ queue' \in [Keys -> Uids \union {None}]
        /\ early' \in [Keys -> SUBSET Runs]
        /\ \A k \in Keys : queue'[k] = IF k \in KeysOf({u}) THEN None ELSE queue[k]
    BY <2>1, DequeueEffect DEF TypeOK
  <2>6. \A k \in Keys : k \in KeysOf({u}) => tasks[u].key = k
    BY DEF KeysOf
  <2>7. /\ runs' \in [Runs -> Uids \union {None}]
        /\ \E r \in Runs : runs'[r] = u
        /\ \A r \in Runs : runs[r] # None => runs'[r] = runs[r]
    BY <2>1 DEF StartRun, TypeOK
  <2> QED
    BY <1>2, <2>3, <2>4, <2>5, <2>6, <2>7 DEF Known
<1> QED
  BY <1>1, <1>2

\* finish_task: the profile gets a free key and is no longer running.
LEMMA FinishEffect ==
  ASSUME TypeOK, NEW u \in Uids, FinishTask(u)
  PROVE  /\ tasks' \in [Uids -> Task \union {None}]
         /\ queue' \in [Keys -> Uids \union {None}]
         /\ early' \in [Keys -> SUBSET Runs]
         /\ runs' = runs
         /\ \A v \in Uids \ {u} : tasks'[v] = tasks[v]
         /\ \/ tasks[u] = None /\ tasks'[u] = None
            \/ /\ tasks[u] # None /\ tasks'[u] # None
               /\ tasks'[u].key \in Keys /\ queue'[tasks'[u].key] = u
               /\ tasks'[u].running = FALSE
               /\ tasks'[u].interval = tasks[u].interval
         /\ \A k \in Keys : queue[k] # None => queue'[k] = queue[k]
<1>1. CASE tasks[u] = None
  BY <1>1 DEF FinishTask, scheduler, TypeOK
<1>2. CASE tasks[u] # None
  <2>1. PICK k \in FreeKeys :
          /\ Requeue({}, {}, [v \in {u} |-> k])
          /\ tasks' = [tasks EXCEPT ![u].running = FALSE, ![u].key = k]
    BY <1>2 DEF FinishTask
  <2>2. tasks[u] \in Task /\ k \in Keys /\ queue[k] = None
    BY <1>2 DEF TypeOK, FreeKeys
  <2>3. /\ tasks'[u] \in Task
        /\ tasks'[u].key = k /\ tasks'[u].running = FALSE
        /\ tasks'[u].interval = tasks[u].interval
    BY <2>1, <2>2 DEF Task, TypeOK
  <2>4. tasks' \in [Uids -> Task \union {None}]
        /\ \A v \in Uids \ {u} : tasks'[v] = tasks[v]
    BY <2>1, <2>3 DEF TypeOK
  <2>5. /\ DOMAIN [v \in {u} |-> k] = {u}
        /\ {[v \in {u} |-> k][w] : w \in {u}} = {k}
        /\ (CHOOSE w \in {u} : [v \in {u} |-> k][w] = k) = u
    OBVIOUS
  <2>6. /\ queue' = [l \in Keys |-> IF l = k THEN u ELSE queue[l]]
        /\ early' = [l \in Keys |-> IF l = k THEN Flying ELSE early[l]]
    BY <2>1, <2>5 DEF Requeue
  <2>7. /\ queue' \in [Keys -> Uids \union {None}] /\ queue'[k] = u
        /\ early' \in [Keys -> SUBSET Runs]
        /\ \A l \in Keys : queue[l] # None => queue'[l] = queue[l]
    BY <2>2, <2>6 DEF TypeOK, Flying
  <2>8. runs' = runs
    BY <1>2 DEF FinishTask
  <2> QED
    BY <1>2, <2>2, <2>3, <2>4, <2>7, <2>8
<1> QED
  BY <1>1, <1>2

\* run_expired_task: the entry and the key of its profile go, and an update of
\* it is running then.
LEMMA ExpireEffect ==
  ASSUME TypeOK, NEW k \in Keys, Expire(k)
  PROVE  /\ queue[k] \in Uids
         /\ tasks' \in [Uids -> Task \union {None}]
         /\ queue' \in [Keys -> Uids \union {None}]
         /\ early' \in [Keys -> SUBSET Runs]
         /\ runs' \in [Runs -> Uids \union {None}]
         /\ \A v \in Uids \ {queue[k]} : tasks'[v] = tasks[v]
         /\ \/ tasks[queue[k]] = None /\ tasks'[queue[k]] = None
            \/ /\ tasks[queue[k]] # None /\ tasks'[queue[k]] # None
               /\ tasks'[queue[k]].key = None
               /\ tasks'[queue[k]].running = TRUE
               /\ tasks'[queue[k]].interval = tasks[queue[k]].interval
               /\ tasks[queue[k]].running \/ \E r \in Runs : runs'[r] = queue[k]
         /\ \A l \in Keys \ {k} : queue'[l] = queue[l]
         /\ \A r \in Runs : runs[r] # None => runs'[r] = runs[r]
<1> DEFINE u == queue[k]
<1>1. u \in Uids /\ Requeue({k}, {}, <<>>)
  BY DEF Expire, TypeOK
<1>2. /\ queue' \in [Keys -> Uids \union {None}]
      /\ early' \in [Keys -> SUBSET Runs]
      /\ \A l \in Keys \ {k} : queue'[l] = queue[l]
  BY <1>1, DequeueEffect DEF TypeOK
<1>3. CASE tasks[u] = None
  BY <1>1, <1>2, <1>3 DEF Expire, TypeOK
<1>4. CASE tasks[u] # None
  <2>1. /\ tasks' = [tasks EXCEPT ![u].key = None, ![u].running = TRUE]
        /\ IF tasks[u].running THEN runs' = runs ELSE StartRun(u)
    BY <1>4 DEF Expire
  <2>2. tasks[u] \in Task
    BY <1>1, <1>4 DEF TypeOK
  <2>3. /\ tasks'[u] \in Task
        /\ tasks'[u].key = None /\ tasks'[u].running = TRUE
        /\ tasks'[u].interval = tasks[u].interval
    BY <1>1, <2>1, <2>2 DEF Task, TypeOK
  <2>4. tasks' \in [Uids -> Task \union {None}]
        /\ \A v \in Uids \ {u} : tasks'[v] = tasks[v]
    BY <1>1, <2>1, <2>3 DEF TypeOK
  <2>5. /\ runs' \in [Runs -> Uids \union {None}]
        /\ tasks[u].running \/ \E r \in Runs : runs'[r] = u
        /\ \A r \in Runs : runs[r] # None => runs'[r] = runs[r]
    BY <1>1, <2>1 DEF StartRun, TypeOK
  <2> QED
    BY <1>1, <1>2, <1>4, <2>3, <2>4, <2>5
<1> QED
  BY <1>3, <1>4

-----------------------------------------------------------------------------
(* Type correctness.                                                       *)

LEMMA TypeInit == Init => TypeOK /\ HasEdit
<1> SUFFICES ASSUME Init PROVE TypeOK /\ HasEdit
  OBVIOUS
<1>1. Empty \in Map
  BY DEF Empty, Map
<1>2. commands \in Seq(Command)
  BY DEF Init
<1>3. changes \in 0..MaxChanges
  BY DEF Init
<1>4. pc \in [Procs -> Labels] /\ HasEdit
  BY DEF Init, Labels, HasEdit
<1> QED
  BY <1>1, <1>2, <1>3, <1>4 DEF Init, TypeOK

LEMMA TypeStep == TypeOK /\ HasEdit /\ [Next]_vars => TypeOK' /\ HasEdit'
<1> SUFFICES ASSUME TypeOK, HasEdit, [Next]_vars PROVE TypeOK' /\ HasEdit'
  OBVIOUS
<1> USE DEF TypeOK, HasEdit
<1>1. ASSUME NEW c \in Callers, NEW u \in Uids, NEW i \in Intervals \union {0},
             LookAndPatch(c, u, i) \/ Replace(c, u, i)
      PROVE  TypeOK' /\ HasEdit'
  <2>1. PICK refresh \in BOOLEAN : Prepare(c, u, i, refresh)
    BY <1>1 DEF LookAndPatch, Replace
  <2>2. [uid |-> u, interval |-> i, refresh |-> refresh] \in Edit
    BY DEF Edit
  <2>3. changes' \in 0..MaxChanges
    BY <2>1 DEF Prepare
  <2>4. edit' \in [Procs -> Edit \union {None}] /\ edit'[c] \in Edit
        /\ \A d \in Procs \ {c} : edit'[d] = edit[d]
    BY <2>1, <2>2 DEF Prepare, Procs
  <2>5. pc' \in [Procs -> Labels] /\ \A d \in Procs \ {c} : pc'[d] = pc[d]
    BY <2>1 DEF Prepare, Goto, Labels
  <2> QED
    BY <2>1, <2>3, <2>4, <2>5 DEF Prepare, refresher, scheduler
<1>2. ASSUME NEW c \in Callers, Commit(c)
      PROVE  TypeOK' /\ HasEdit'
  <2>1. c \in Procs /\ edit[c] \in Edit
    BY <1>2 DEF Commit, Goto, Procs
  <2>2. edit[c].uid \in Uids /\ edit[c].interval \in Intervals \union {0}
    BY <2>1 DEF Edit
  <2>3. wanted' \in Map /\ unread' \in BOOLEAN
    BY <1>2, <2>2 DEF Commit, Map
  <2>4. edit' \in [Procs -> Edit \union {None}] /\ \A d \in Procs \ {c} : edit'[d] = edit[d]
    BY <1>2 DEF Commit
  <2>5. /\ pc' \in [Procs -> Labels] /\ pc'[c] # "commit"
        /\ \A d \in Procs \ {c} : pc'[d] = pc[d]
    BY <1>2, <2>1 DEF Commit, Goto, Labels
  <2> QED
    BY <1>2, <2>3, <2>4, <2>5 DEF Commit, refresher, scheduler
<1>3. CASE InitTimer
  BY <1>3 DEF InitTimer, Goto, Labels, Procs, profiles, refresher, scheduler
<1>4. ASSUME NEW c \in Procs, Lock(c)
      PROVE  TypeOK' /\ HasEdit'
  BY <1>4 DEF Lock, Goto, Labels, profiles, scheduler
<1>5. ASSUME NEW c \in Procs, GenMap(c)
      PROVE  TypeOK' /\ HasEdit'
  BY <1>5 DEF GenMap, Goto, Labels, scheduler
<1>6. ASSUME NEW c \in Procs, Publish(c)
      PROVE  TypeOK' /\ HasEdit'
  <2>1. new_map[c] \in Map /\ Empty \in Map
    BY DEF Empty, Map
  <2>2. [type |-> "Apply", map |-> new_map[c]] \in Command
    BY <2>1 DEF Command
  <2>3. commands' \in Seq(Command)
    BY <1>6, <2>2 DEF Publish
  <2>4. new_map' \in [Procs -> Map] /\ timer_map' \in Map
    BY <1>6, <2>1 DEF Publish
  <2>5. /\ pc' \in [Procs -> Labels]
        /\ \A d \in Procs : pc'[d] = "commit" => pc[d] = "commit"
    BY <1>6 DEF Publish, Goto, Labels
  <2> QED
    BY <1>6, <2>3, <2>4, <2>5 DEF Publish, profiles, scheduler
<1>7. CASE Overdue
  BY <1>7 DEF Overdue, Goto, Labels, Procs, profiles, refresher, scheduler
<1>8. ASSUME NEW u \in Uids, SendRunNow(u)
      PROVE  TypeOK' /\ HasEdit'
  <2>1. [type |-> "RunNow", uid |-> u] \in Command
    BY DEF Command
  <2>2. commands' \in Seq(Command)
    BY <1>8, <2>1 DEF SendRunNow
  <2> QED
    BY <1>8, <2>2 DEF SendRunNow, profiles, refresher, scheduler
<1>9. CASE Receive
  <2>1. commands' \in Seq(Command) /\ Head(commands) \in Command
    BY <1>9, TailShifts DEF Receive
  <2>2. /\ tasks' \in [Uids -> Task \union {None}]
        /\ queue' \in [Keys -> Uids \union {None}]
        /\ early' \in [Keys -> SUBSET Runs]
        /\ runs' \in [Runs -> Uids \union {None}]
    <3>1. CASE Head(commands).type = "Apply" /\ ApplyTimerMap(Head(commands).map)
      <4>1. Head(commands).map \in Map
        BY <2>1, <3>1 DEF Command
      <4> QED
        BY <3>1, <4>1, ApplyEffect
    <3>2. CASE Head(commands).type = "RunNow" /\ RunTaskNow(Head(commands).uid)
      <4>1. Head(commands).uid \in Uids
        BY <2>1, <3>2 DEF Command
      <4> QED
        BY <3>2, <4>1, RunNowEffect
    <3>3. CASE Head(commands).type = "TaskFinished" /\ FinishTask(Head(commands).uid)
      <4>1. Head(commands).uid \in Uids
        BY <2>1, <3>3 DEF Command
      <4> QED
        BY <3>3, <4>1, FinishEffect
    <3> QED
      BY <1>9, <3>1, <3>2, <3>3 DEF Receive
  <2> QED
    BY <1>9, <2>1, <2>2 DEF Receive, profiles, refresher
<1>10. ASSUME NEW k \in Keys, Expire(k)
       PROVE  TypeOK' /\ HasEdit'
  BY <1>10, ExpireEffect DEF Expire, profiles, refresher
<1>11. ASSUME NEW r \in Runs, EndRun(r)
       PROVE  TypeOK' /\ HasEdit'
  <2>1. [type |-> "TaskFinished", uid |-> runs[r]] \in Command
    BY <1>11 DEF EndRun, Command
  <2>2. commands' \in Seq(Command)
    BY <1>11, <2>1 DEF EndRun
  <2>3. early' \in [Keys -> SUBSET Runs]
    BY <1>11 DEF EndRun
  <2> QED
    BY <1>11, <2>2, <2>3 DEF EndRun, profiles, refresher
<1>12. CASE UNCHANGED vars
  BY <1>12 DEF vars
<1> QED
  BY <1>1, <1>2, <1>3, <1>4, <1>5, <1>6, <1>7, <1>8, <1>9, <1>10, <1>11, <1>12
     DEF Next, Change, Refresh, InitRuns

\* Every variable keeps its type; a caller about to commit has something to
\* commit.
THEOREM Typing == Spec => []TypeOK
<1>1. TypeOK /\ HasEdit /\ [Next]_vars => (TypeOK /\ HasEdit)'
  BY TypeStep
<1> QED
  BY TypeInit, <1>1, PTL DEF Spec

-----------------------------------------------------------------------------
(* Keys are live.                                                          *)

LEMMA KeysStep == TypeOK /\ KeysAreLive /\ [Next]_vars => KeysAreLive'
<1> SUFFICES ASSUME TypeOK, KeysAreLive, [Next]_vars PROVE KeysAreLive'
  OBVIOUS
<1>1. \A u \in Known : tasks[u] \in Task /\ tasks[u].key \in Keys \union {None}
  BY DEF TypeOK, Known, Task
<1>2. CASE UNCHANGED <<queue, tasks>>
  BY <1>2 DEF KeysAreLive, Known
<1>3. CASE Receive
  <2>1. Head(commands) \in Command
    BY <1>3, TailShifts DEF Receive, TypeOK
  <2>2. CASE Head(commands).type = "Apply" /\ ApplyTimerMap(Head(commands).map)
    <3> DEFINE map == Head(commands).map
    <3>1. map \in Map
      BY <2>1, <2>2 DEF Command
    <3>2. /\ \A u \in Uids : tasks'[u] # None <=> map[u] # 0
          /\ \A u \in Uids : map[u] # 0 =>
               /\ u \notin Entering(map) => u \in Known /\ tasks'[u].key = tasks[u].key
               /\ u \in Entering(map) =>
                    tasks'[u].key \in Keys /\ queue'[tasks'[u].key] = u
          /\ \A k \in Keys :
               queue[k] # None /\ k \notin KeysOf(Gone(map)) => queue'[k] = queue[k]
      BY <2>2, <3>1, ApplyEffect
    <3>3. ASSUME NEW u \in Known', tasks'[u].key # None
          PROVE  queue'[tasks'[u].key] = u
      <4>1. u \in Uids /\ map[u] # 0
        BY <3>2, <3>3 DEF Known
      <4>2. CASE u \in Entering(map)
        BY <3>2, <4>1, <4>2
      <4>3. CASE u \notin Entering(map)
        <5>1. u \in Known /\ tasks'[u].key = tasks[u].key
          BY <3>2, <4>1, <4>3
        <5>2. tasks[u].key \in Keys /\ queue[tasks[u].key] = u
          BY <1>1, <3>3, <5>1 DEF KeysAreLive
        <5>3. tasks[u].key \notin KeysOf(Gone(map))
          BY <4>1, <5>2 DEF KeysOf, Gone, KeysAreLive
        <5> QED
          BY <3>2, <4>1, <5>1, <5>2, <5>3
      <4> QED
        BY <4>2, <4>3
    <3> QED
      BY <3>3 DEF KeysAreLive
  <2>3. CASE Head(commands).type = "RunNow" /\ RunTaskNow(Head(commands).uid)
    <3> DEFINE u == Head(commands).uid
    <3>1. u \in Uids
      BY <2>1, <2>3 DEF Command
    <3>2. /\ \A v \in Uids \ {u} : tasks'[v] = tasks[v]
          /\ tasks' = tasks \/ tasks'[u].key = None
          /\ \A k \in Keys :
               \/ queue'[k] = queue[k]
               \/ u \in Known /\ tasks[u].key = k /\ tasks'[u].key = None
      BY <2>3, <3>1, RunNowEffect
    <3>3. ASSUME NEW v \in Known', tasks'[v].key # None
          PROVE  queue'[tasks'[v].key] = v
      <4>1. tasks'[v] = tasks[v] /\ v \in Known
        BY <3>2, <3>3 DEF Known
      <4>2. tasks[v].key \in Keys /\ queue[tasks[v].key] = v
        BY <1>1, <3>3, <4>1 DEF KeysAreLive
      <4> QED
        BY <3>2, <3>3, <4>1, <4>2 DEF KeysAreLive
    <3> QED
      BY <3>3 DEF KeysAreLive
  <2>4. CASE Head(commands).type = "TaskFinished" /\ FinishTask(Head(commands).uid)
    <3> DEFINE u == Head(commands).uid
    <3>1. u \in Uids
      BY <2>1, <2>4 DEF Command
    <3>2. /\ \A v \in Uids \ {u} : tasks'[v] = tasks[v]
          /\ tasks'[u] = None \/ queue'[tasks'[u].key] = u
          /\ \A k \in Keys : queue[k] # None => queue'[k] = queue[k]
      BY <2>4, <3>1, FinishEffect
    <3>3. ASSUME NEW v \in Known', tasks'[v].key # None, v # u
          PROVE  queue'[tasks'[v].key] = v
      <4>1. tasks'[v] = tasks[v] /\ v \in Known /\ v \in Uids
        BY <3>2, <3>3 DEF Known
      <4>2. tasks[v].key \in Keys /\ queue[tasks[v].key] = v
        BY <1>1, <3>3, <4>1 DEF KeysAreLive
      <4> QED
        BY <3>2, <4>1, <4>2
    <3> QED
      BY <3>2, <3>3 DEF KeysAreLive, Known
  <2> QED
    BY <1>3, <2>2, <2>3, <2>4 DEF Receive
<1>4. ASSUME NEW k \in Keys, Expire(k)
      PROVE  KeysAreLive'
  <2>1. /\ \A v \in Uids \ {queue[k]} : tasks'[v] = tasks[v]
        /\ tasks'[queue[k]] = None \/ tasks'[queue[k]].key = None
        /\ \A l \in Keys \ {k} : queue'[l] = queue[l]
    BY <1>4, ExpireEffect
  <2>2. ASSUME NEW v \in Known', tasks'[v].key # None
        PROVE  queue'[tasks'[v].key] = v
    <3>1. v # queue[k] /\ tasks'[v] = tasks[v] /\ v \in Known
      BY <2>1, <2>2 DEF Known
    <3>2. tasks[v].key \in Keys /\ queue[tasks[v].key] = v
      BY <1>1, <2>2, <3>1 DEF KeysAreLive
    <3> QED
      BY <2>1, <3>1, <3>2
  <2> QED
    BY <2>2 DEF KeysAreLive
<1> QED
  BY <1>2, <1>3, <1>4 DEF Next, Change, Refresh, InitRuns, vars, scheduler,
     Prepare, LookAndPatch, Replace, Commit, InitTimer, Lock, GenMap, Publish,
     Overdue, SendRunNow, EndRun

\* The scheduler never gives the queue a key that is not that of an entry of
\* the profile it means: DelayQueue::remove and reset do not panic.
THEOREM QueueNeverPanics == Spec => []KeysAreLive
<1>1. Init => KeysAreLive
  BY DEF Init, KeysAreLive, Known
<1> QED
  BY <1>1, Typing, KeysStep, PTL DEF Spec

-----------------------------------------------------------------------------
(* No profile is forgotten.                                                *)

LEMMA ForgottenStep == TypeOK /\ NeverForgotten /\ [Next]_vars => NeverForgotten'
<1> SUFFICES ASSUME TypeOK, NeverForgotten, [Next]_vars PROVE NeverForgotten'
  OBVIOUS
<1>1. \A u \in Known : Remembered(u)
  BY DEF NeverForgotten
<1>2. SUFFICES \A u \in Known' : Remembered(u)'
  BY DEF NeverForgotten
<1>3. Len(commands) \in Nat /\ commands \in Seq(Command)
  BY DEF TypeOK
<1>4. ASSUME NEW e, commands' \in {commands, Append(commands, e)}, NEW u \in Uids,
             \E i \in Sent("TaskFinished") : commands[i].uid = u
      PROVE  Reports(u)'
  <2>1. PICK i \in Sent("TaskFinished") : commands[i].uid = u
    BY <1>4
  <2>2. i \in 1..Len(commands') /\ commands'[i] = commands[i]
    BY <1>3, <1>4, <2>1 DEF Sent
  <2> QED
    BY <2>1, <2>2 DEF Sent, Reports
<1>5. ASSUME UNCHANGED <<tasks, runs>>,
             NEW e, commands' \in {commands, Append(commands, e)}
      PROVE  \A u \in Known' : Remembered(u)'
  <2> SUFFICES ASSUME NEW u \in Known'
               PROVE  Remembered(u)'
    OBVIOUS
  <2>1. u \in Known /\ u \in Uids
    BY <1>5 DEF Known
  <2>2. Reports(u) => Reports(u)'
    BY <1>4, <1>5, <2>1 DEF Reports
  <2> QED
    BY <1>1, <1>5, <2>1, <2>2 DEF Remembered
<1>6. CASE Receive
  <2>1. /\ Head(commands) \in Command
        /\ Head(commands) = commands[1]
        /\ \A i \in 2..Len(commands) :
             i - 1 \in 1..Len(commands') /\ commands'[i - 1] = commands[i]
    BY <1>6, TailShifts DEF Receive, TypeOK
  <2>2. ASSUME NEW u \in Uids, Reports(u),
               \A r \in Runs : runs[r] # None => runs'[r] = runs[r],
               commands[1].type = "TaskFinished" => commands[1].uid # u
        PROVE  Reports(u)'
    <3>1. CASE \E r \in Runs : runs[r] = u
      BY <2>2, <3>1 DEF Reports
    <3>2. CASE \E i \in Sent("TaskFinished") : commands[i].uid = u
      <4>1. PICK i \in Sent("TaskFinished") : commands[i].uid = u
        BY <3>2
      <4>2. i \in 2..Len(commands)
        BY <1>3, <2>2, <4>1 DEF Sent
      <4>3. i - 1 \in Sent("TaskFinished")' /\ commands'[i - 1].uid = u
        BY <2>1, <4>1, <4>2 DEF Sent
      <4> QED
        BY <4>3 DEF Reports
    <3> QED
      BY <2>2, <3>1, <3>2 DEF Reports
  <2>3. CASE Head(commands).type = "Apply" /\ ApplyTimerMap(Head(commands).map)
    <3> DEFINE map == Head(commands).map
    <3>1. map \in Map
      BY <2>1, <2>3 DEF Command
    <3>2. /\ runs' = runs
          /\ \A u \in Uids : tasks'[u] # None <=> map[u] # 0
          /\ \A u \in Uids : map[u] # 0 =>
              /\ tasks'[u].running <=> u \in Known /\ tasks[u].running
              /\ u \notin Entering(map) => u \in Known /\ tasks'[u].key = tasks[u].key
              /\ u \in Entering(map) => tasks'[u].key \in Keys
      BY <2>3, <3>1, ApplyEffect
    <3>3. ASSUME NEW u \in Known'
          PROVE  Remembered(u)'
      <4>1. u \in Uids /\ map[u] # 0
        BY <3>2, <3>3 DEF Known
      <4>2. tasks'[u].running => Reports(u)'
        BY <1>1, <2>1, <2>2, <2>3, <3>2, <4>1 DEF Remembered
      <4>3. CASE u \in Entering(map)
        <5>1. u \in Known => ~tasks[u].running
          BY <4>3 DEF Entering
        <5> QED
          BY <3>2, <4>1, <4>2, <4>3, <5>1 DEF Remembered
      <4>4. CASE u \notin Entering(map)
        BY <1>1, <3>2, <4>1, <4>2, <4>4 DEF Remembered
      <4> QED
        BY <4>3, <4>4
    <3> QED
      BY <3>3
  <2>4. CASE Head(commands).type = "RunNow" /\ RunTaskNow(Head(commands).uid)
    <3> DEFINE u == Head(commands).uid
    <3>1. u \in Uids
      BY <2>1, <2>4 DEF Command
    <3>2. /\ \A v \in Uids \ {u} : tasks'[v] = tasks[v]
          /\ \/ tasks' = tasks
             \/ /\ tasks'[u].key = None /\ tasks'[u].running = TRUE
                /\ \E r \in Runs : runs'[r] = u
          /\ \A r \in Runs : runs[r] # None => runs'[r] = runs[r]
      BY <2>4, <3>1, RunNowEffect
    <3>3. ASSUME NEW v \in Known', tasks'[v] = tasks[v]
          PROVE  Remembered(v)'
      <4>1. v \in Known /\ v \in Uids
        BY <3>3 DEF Known
      <4> QED
        BY <1>1, <2>1, <2>2, <2>4, <3>2, <3>3, <4>1 DEF Remembered
    <3>4. ASSUME NEW v \in Known', tasks'[v].key = None,
                 tasks'[v].running = TRUE, \E r \in Runs : runs'[r] = v
          PROVE  Remembered(v)'
      BY <3>4 DEF Remembered, Reports
    <3> QED
      BY <3>2, <3>3, <3>4 DEF Known
  <2>5. CASE Head(commands).type = "TaskFinished" /\ FinishTask(Head(commands).uid)
    <3> DEFINE u == Head(commands).uid
    <3>1. u \in Uids
      BY <2>1, <2>5 DEF Command
    <3>2. /\ runs' = runs
          /\ \A v \in Uids \ {u} : tasks'[v] = tasks[v]
          /\ \/ tasks'[u] = None
             \/ tasks'[u].key \in Keys /\ tasks'[u].running = FALSE
      BY <2>5, <3>1, FinishEffect
    <3>3. ASSUME NEW v \in Known', v # u
          PROVE  Remembered(v)'
      <4>1. tasks'[v] = tasks[v] /\ v \in Known /\ v \in Uids
        BY <3>2, <3>3 DEF Known
      <4> QED
        BY <1>1, <2>1, <2>2, <2>5, <3>2, <3>3, <4>1 DEF Remembered
    <3>4. ASSUME NEW v \in Known', v = u
          PROVE  Remembered(v)'
      BY <3>2, <3>4 DEF Known, Remembered
    <3> QED
      BY <3>3, <3>4
  <2> QED
    BY <1>6, <2>3, <2>4, <2>5 DEF Receive
<1>7. ASSUME NEW k \in Keys, Expire(k)
      PROVE  \A u \in Known' : Remembered(u)'
  <2> DEFINE u == queue[k]
  <2>1. /\ u \in Uids /\ commands' = commands
        /\ \A v \in Uids \ {u} : tasks'[v] = tasks[v]
        /\ \/ tasks[u] = None /\ tasks'[u] = None
           \/ /\ tasks[u] # None
              /\ tasks'[u].key = None /\ tasks'[u].running = TRUE
              /\ tasks[u].running \/ \E r \in Runs : runs'[r] = u
        /\ \A r \in Runs : runs[r] # None => runs'[r] = runs[r]
    BY <1>7, ExpireEffect DEF Expire
  <2>2. ASSUME NEW v \in Uids, Reports(v)
        PROVE  Reports(v)'
    BY <2>1, <2>2 DEF Reports, Sent
  <2>3. ASSUME NEW v \in Known', v # u
        PROVE  Remembered(v)'
    <3>1. tasks'[v] = tasks[v] /\ v \in Known /\ v \in Uids
      BY <2>1, <2>3 DEF Known
    <3> QED
      BY <1>1, <2>2, <3>1 DEF Remembered
  <2>4. ASSUME NEW v \in Known', v = u
        PROVE  Remembered(v)'
    <3>1. /\ v \in Known /\ v \in Uids
          /\ tasks'[v].key = None /\ tasks'[v].running = TRUE
      BY <2>1, <2>4 DEF Known
    <3>2. CASE tasks[v].running
      BY <1>1, <2>1, <2>2, <3>1, <3>2 DEF Remembered
    <3>3. CASE \E r \in Runs : runs'[r] = v
      BY <3>1, <3>3 DEF Remembered, Reports
    <3> QED
      BY <2>1, <2>4, <3>1, <3>2, <3>3
  <2> QED
    BY <2>3, <2>4
<1>8. ASSUME NEW r \in Runs, EndRun(r)
      PROVE  \A u \in Known' : Remembered(u)'
  <2> DEFINE e == [type |-> "TaskFinished", uid |-> runs[r]]
  <2>1. tasks' = tasks /\ commands' = Append(commands, e)
        /\ \A q \in Runs \ {r} : runs'[q] = runs[q]
    BY <1>8 DEF EndRun
  <2>2. Len(commands) + 1 \in Sent("TaskFinished")'
        /\ commands'[Len(commands) + 1].uid = runs[r]
    BY <1>3, <2>1 DEF Sent
  <2>3. ASSUME NEW u \in Uids, Reports(u)
        PROVE  Reports(u)'
    <3>1. CASE runs[r] = u
      BY <2>2, <3>1 DEF Reports
    <3>2. CASE \E q \in Runs \ {r} : runs[q] = u
      BY <2>1, <3>2 DEF Reports
    <3>3. CASE \E i \in Sent("TaskFinished") : commands[i].uid = u
      BY <1>4, <2>1, <3>3
    <3> QED
      BY <2>3, <3>1, <3>2, <3>3 DEF Reports
  <2> QED
    BY <1>1, <2>1, <2>3 DEF Known, Remembered
<1>9. CASE \/ Change \/ InitTimer \/ InitRuns \/ UNCHANGED vars
           \/ \E c \in Procs : Refresh(c)
  <2>1. /\ UNCHANGED <<tasks, runs>>
        /\ \E e : commands' \in {commands, Append(commands, e)}
    BY <1>9 DEF Change, Refresh, InitRuns, vars, scheduler, Prepare,
       LookAndPatch,
       Replace, Commit, InitTimer, Lock, GenMap, Publish, Overdue, SendRunNow
  <2> QED
    BY <1>5, <2>1
<1> QED
  BY <1>6, <1>7, <1>8, <1>9 DEF Next

\* A profile the scheduler has is in the queue, or marked as running and then
\* an update of it has yet to end or to be heard of.
THEOREM NobodyForgotten == Spec => []NeverForgotten
<1>1. Init => NeverForgotten
  BY DEF Init, NeverForgotten, Known
<1> QED
  BY <1>1, Typing, ForgottenStep, PTL DEF Spec

-----------------------------------------------------------------------------
(* The scheduler converges.                                                *)

\* What timer_map has to do with the profiles.
ReadLast ==
  ~unread /\ (\A c \in Procs : pc[c] # "publish") => timer_map = wanted

\* What the scheduler has been told has to do with timer_map.
Told ==
  /\ Sent("Apply") = {} => Applied(timer_map)
  /\ \A i \in Sent("Apply") :
       (\A j \in Sent("Apply") : j <= i) => commands[i].map = timer_map

LEMMA ReadStep ==
  TypeOK /\ RefreshesExclude /\ ReadLast /\ [Next]_vars
    => RefreshesExclude' /\ ReadLast'
<1> SUFFICES ASSUME TypeOK, RefreshesExclude, ReadLast, [Next]_vars
             PROVE  RefreshesExclude' /\ ReadLast'
  OBVIOUS
<1> USE DEF TypeOK, RefreshesExclude, ReadLast
<1>1. ASSUME UNCHANGED <<refresh_lock, new_map, timer_map>>,
             unread' = (unread \/ wanted' # wanted),
             \A c \in Procs : pc'[c] # pc[c] =>
               /\ pc[c] \notin {"gen", "publish"}
               /\ pc'[c] \notin {"gen", "publish"}
      PROVE  RefreshesExclude' /\ ReadLast'
  <2>1. ~unread' => ~unread /\ wanted' = wanted
    BY <1>1
  <2>2. \A c \in Procs : /\ pc'[c] = "gen" <=> pc[c] = "gen"
                         /\ pc'[c] = "publish" <=> pc[c] = "publish"
    BY <1>1
  <2> QED
    BY <1>1, <2>1, <2>2
<1>2. CASE Change
  <2>1. ASSUME NEW c \in Callers,
               NEW u \in Uids, NEW i \in Intervals \union {0},
               LookAndPatch(c, u, i) \/ Replace(c, u, i)
        PROVE  RefreshesExclude' /\ ReadLast'
    <3>1. PICK refresh : Prepare(c, u, i, refresh)
      BY <2>1 DEF LookAndPatch, Replace
    <3> QED
      BY <1>1, <3>1 DEF Prepare, Goto, refresher, Procs
  <2>2. ASSUME NEW c \in Callers, Commit(c)
        PROVE  RefreshesExclude' /\ ReadLast'
    BY <1>1, <2>2 DEF Commit, Goto, refresher, Procs
  <2> QED
    BY <1>2, <2>1, <2>2 DEF Change
<1>3. CASE InitTimer \/ InitRuns
  BY <1>1, <1>3 DEF InitTimer, InitRuns, Overdue, SendRunNow, Goto, profiles,
     refresher, Labels
<1>4. ASSUME NEW c \in Procs, Lock(c)
      PROVE  RefreshesExclude' /\ ReadLast'
  BY <1>4 DEF Lock, Goto, profiles, Labels
<1>5. ASSUME NEW c \in Procs, GenMap(c)
      PROVE  RefreshesExclude' /\ ReadLast'
  <2>1. pc'[c] = "publish" /\ new_map'[c] = wanted'
    BY <1>5 DEF GenMap, Goto
  <2>2. \A d \in Procs \ {c} : pc'[d] \notin {"gen", "publish"}
    BY <1>5 DEF GenMap, Goto
  <2>3. refresh_lock' = c
    BY <1>5 DEF GenMap, Goto
  <2> QED
    BY <2>1, <2>2, <2>3
<1>6. ASSUME NEW c \in Procs, Publish(c)
      PROVE  RefreshesExclude' /\ ReadLast'
  <2>1. \A d \in Procs : pc'[d] \notin {"gen", "publish"}
    BY <1>6 DEF Publish, Goto
  <2>2. ~unread => new_map[c] = wanted
    BY <1>6 DEF Publish, Goto
  <2> QED
    BY <1>6, <2>1, <2>2 DEF Publish, profiles
<1>7. CASE \/ Receive \/ UNCHANGED vars
           \/ \E k \in Keys : Expire(k)
           \/ \E r \in Runs : EndRun(r)
  BY <1>1, <1>7 DEF Receive, Expire, EndRun, vars, profiles, refresher
<1> QED
  BY <1>2, <1>3, <1>4, <1>5, <1>6, <1>7 DEF Next, Refresh

LEMMA ToldStep == TypeOK /\ Told /\ [Next]_vars => Told'
<1> SUFFICES ASSUME TypeOK, Told, [Next]_vars PROVE Told'
  OBVIOUS
<1>1. /\ commands \in Seq(Command) /\ Len(commands) \in Nat
      /\ tasks \in [Uids -> Task \union {None}]
      /\ timer_map \in Map /\ new_map \in [Procs -> Map]
  BY DEF TypeOK
\* The tasks stay those they are, with the same intervals.
<1> DEFINE Same == \A u \in Uids : /\ tasks'[u] # None <=> tasks[u] # None
                                   /\ tasks[u] # None =>
                                        tasks'[u].interval = tasks[u].interval
<1>2. Same /\ timer_map' = timer_map => (Applied(timer_map) => Applied(timer_map)')
  BY DEF Applied, Known
<1>3. ASSUME NEW e \in Command, commands' = Append(commands, e)
      PROVE  /\ Len(commands') = Len(commands) + 1
             /\ commands'[Len(commands) + 1] = e
             /\ \A i \in 1..Len(commands) : commands'[i] = commands[i]
  BY <1>1, <1>3
<1>4. ASSUME Same, timer_map' = timer_map, NEW e \in Command,
             e.type # "Apply",
             commands' \in {commands, Append(commands, e)}
      PROVE  Told'
  <2>1. /\ Sent("Apply")' = Sent("Apply")
        /\ \A i \in Sent("Apply") : commands'[i] = commands[i]
    BY <1>1, <1>3, <1>4 DEF Sent
  <2> QED
    BY <1>2, <1>4, <2>1 DEF Told
<1>5. ASSUME UNCHANGED <<tasks, timer_map, commands>>
      PROVE  Told'
  BY <1>5 DEF Told, Sent, Applied, Known
<1>6. CASE \/ Change \/ InitTimer \/ Overdue \/ UNCHANGED vars
           \/ \E c \in Procs : Lock(c) \/ GenMap(c)
  BY <1>5, <1>6 DEF Change, LookAndPatch, Replace, Prepare, Commit, InitTimer,
     Overdue, Lock, GenMap, refresher, scheduler, vars
<1>7. ASSUME NEW u \in Uids, SendRunNow(u)
      PROVE  Told'
  <2> DEFINE e == [type |-> "RunNow", uid |-> u]
  <2>1. e \in Command /\ e.type # "Apply" /\ commands' = Append(commands, e)
    BY <1>7 DEF SendRunNow, Command
  <2>2. Same /\ timer_map' = timer_map
    BY <1>7 DEF SendRunNow, scheduler, refresher
  <2> HIDE DEF e
  <2> QED
    BY <1>4, <2>1, <2>2
<1>8. ASSUME NEW r \in Runs, EndRun(r)
      PROVE  Told'
  <2> DEFINE e == [type |-> "TaskFinished", uid |-> runs[r]]
  <2>1. runs[r] \in Uids
    BY <1>8 DEF EndRun, TypeOK
  <2>2. e \in Command /\ e.type # "Apply" /\ commands' = Append(commands, e)
    BY <1>8, <2>1 DEF EndRun, Command
  <2>3. Same /\ timer_map' = timer_map
    BY <1>8 DEF EndRun, refresher
  <2> HIDE DEF e
  <2> QED
    BY <1>4, <2>2, <2>3
<1>9. ASSUME NEW c \in Procs, Publish(c)
      PROVE  Told'
  <2>1. tasks' = tasks /\ timer_map' = new_map[c]
    BY <1>9 DEF Publish, scheduler
  <2>2. CASE timer_map = new_map[c]
    BY <1>5, <1>9, <2>1, <2>2 DEF Publish
  <2>3. CASE timer_map # new_map[c]
    <3> DEFINE e == [type |-> "Apply", map |-> new_map[c]]
    <3>1. e \in Command /\ e.type = "Apply" /\ e.map = new_map[c]
      BY <1>1 DEF Command
    <3>2. commands' = Append(commands, e)
      BY <1>9, <2>3 DEF Publish
    <3> HIDE DEF e
    <3>3. /\ Len(commands') = Len(commands) + 1
          /\ commands'[Len(commands) + 1] = e
      BY <1>3, <3>1, <3>2
    <3>4. Len(commands) + 1 \in Sent("Apply")'
      BY <1>1, <3>1, <3>3 DEF Sent
    <3>5. \A i \in Sent("Apply")' :
            (\A j \in Sent("Apply")' : j <= i) => i = Len(commands) + 1
      BY <1>1, <3>3, <3>4 DEF Sent
    <3> QED
      BY <2>1, <3>1, <3>3, <3>4, <3>5 DEF Told
  <2> QED
    BY <2>2, <2>3
<1>10. ASSUME NEW k \in Keys, Expire(k)
       PROVE  Told'
  <2>1. Same
    BY <1>10, ExpireEffect
  <2>2. UNCHANGED <<timer_map, commands>>
    BY <1>10 DEF Expire, refresher
  <2> QED
    BY <1>2, <2>1, <2>2 DEF Told, Sent
<1>11. CASE Receive
  <2>1. timer_map' = timer_map
    BY <1>11 DEF Receive, refresher
  <2>2. /\ Head(commands) \in Command
        /\ Head(commands) = commands[1]
        /\ Len(commands') = Len(commands) - 1
        /\ \A i \in 1..Len(commands') : commands'[i] = commands[i + 1]
        /\ \A i \in 2..Len(commands) :
             i - 1 \in 1..Len(commands') /\ commands'[i - 1] = commands[i]
        /\ Len(commands) \in Nat \ {0}
    BY <1>1, <1>11, TailShifts DEF Receive
  <2>3. \A i \in Sent("Apply")' : i + 1 \in Sent("Apply") /\ commands'[i] = commands[i + 1]
    BY <2>2 DEF Sent
  <2>4. \A i \in Sent("Apply") : i # 1 => i - 1 \in Sent("Apply")'
    BY <2>2 DEF Sent
  <2>5. ASSUME NEW i \in Sent("Apply")', \A j \in Sent("Apply")' : j <= i
        PROVE  commands'[i].map = timer_map'
    <3>1. ASSUME NEW j \in Sent("Apply")
          PROVE  j <= i + 1
      <4>1. i \in Nat /\ j \in Nat /\ i >= 1
        BY DEF Sent
      <4>2. CASE j = 1
        BY <4>1, <4>2
      <4>3. CASE j # 1
        <5>1. j - 1 <= i
          BY <2>4, <2>5, <4>3
        <5> QED
          BY <4>1, <5>1
      <4> QED
        BY <4>2, <4>3
    <3> QED
      BY <2>1, <2>3, <3>1 DEF Told
  <2>6. CASE Head(commands).type = "Apply" /\ ApplyTimerMap(Head(commands).map)
    <3> DEFINE map == Head(commands).map
    <3>1. map \in Map
      BY <2>2, <2>6 DEF Command
    <3>2. \A u \in Uids : /\ tasks'[u] # None <=> map[u] # 0
                          /\ map[u] # 0 => tasks'[u].interval = map[u]
      BY <2>6, <3>1, ApplyEffect
    <3>3. map = timer_map => Applied(timer_map)'
      BY <2>1, <3>2 DEF Applied, Known
    <3>4. Sent("Apply")' = {} => map = timer_map
      <4>1. 1 \in Sent("Apply")
        BY <2>2, <2>6 DEF Sent
      <4>2. Sent("Apply")' = {} => \A j \in Sent("Apply") : j = 1
        BY <2>4
      <4> QED
        BY <2>2, <4>1, <4>2 DEF Told
    <3> QED
      BY <2>5, <3>3, <3>4 DEF Told
  <2>7. CASE \/ Head(commands).type = "RunNow" /\ RunTaskNow(Head(commands).uid)
             \/ Head(commands).type = "TaskFinished" /\ FinishTask(Head(commands).uid)
    <3>1. Head(commands).uid \in Uids
      BY <2>2, <2>7 DEF Command
    <3>2. Same
      <4>1. CASE RunTaskNow(Head(commands).uid)
        BY <3>1, <4>1, RunNowEffect
      <4>2. CASE FinishTask(Head(commands).uid)
        BY <3>1, <4>2, FinishEffect
      <4> QED
        BY <2>7, <4>1, <4>2
    <3>3. Sent("Apply")' = {} => Sent("Apply") = {}
      BY <2>2, <2>4, <2>7 DEF Sent
    <3> QED
      BY <1>2, <2>1, <2>5, <3>2, <3>3 DEF Told
  <2> QED
    BY <1>11, <2>6, <2>7 DEF Receive
<1> QED
  BY <1>6, <1>7, <1>8, <1>9, <1>10, <1>11 DEF Next, Refresh, InitRuns

\* What the scheduler was last told, or has applied, is timer_map, and that is
\* what the profiles say unless a change of them has not been read.
THEOREM SchedulerConverges == Spec => []Converges
<1>1. Init => RefreshesExclude /\ ReadLast /\ Told
  BY DEF Init, RefreshesExclude, ReadLast, Told, Sent, Applied, Known, Empty
<1>2. Converges <=> Told /\ ReadLast
  BY DEF Converges, Told, ReadLast
<1> QED
  BY <1>1, <1>2, Typing, ReadStep, ToldStep, PTL DEF Spec
=============================================================================
