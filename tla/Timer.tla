------------------------------- MODULE Timer --------------------------------
(***************************************************************************)
(* The scheduler of subscription updates (core/timer.rs).                  *)
(*                                                                         *)
(* Commands change the profiles and call refresh, which reads the update   *)
(* intervals under refresh_lock, publishes them as timer_map and sends     *)
(* them to the scheduler.  The scheduler owns a DelayQueue and a map of    *)
(* tasks; it takes expired entries and commands in any order and starts    *)
(* one update after the other, each of which reports TaskFinished.         *)
(*                                                                         *)
(* A profile is its update interval, 0 if it is not to be updated (or does *)
(* not exist).  Of time only this is kept: an entry waits for a minute at  *)
(* least, an update takes 45 seconds at most.                              *)
(***************************************************************************)
EXTENDS Naturals, Sequences

CONSTANTS
  Uids,        \* profiles
  Intervals,   \* update intervals in minutes
  Callers,     \* commands that change profiles
  Boot,        \* the task that calls init
  Keys,        \* keys of the DelayQueue, a bound on its entries
  Runs,        \* updates in flight, a bound
  None,        \* no key, no task, no entry, no update, no holder, no edit
  MaxChanges,  \* bound: changes of profiles in a behaviour
  Failures     \* TRUE if a command may fail after its change of the profiles

Procs == Callers \union {Boot}
Map == [Uids -> Intervals \union {0}]
Empty == [u \in Uids |-> 0]
Edit == [uid : Uids, interval : Intervals \union {0}, refresh : BOOLEAN]
Task == [key : Keys \union {None}, interval : Intervals, running : BOOLEAN]
Command == [type : {"Apply"}, map : Map]
           \union [type : {"RunNow", "TaskFinished"}, uid : Uids]

ASSUME IntervalsAssumption == Intervals \subseteq Nat \ {0}
ASSUME NoneAssumption == None \notin Uids \union Keys \union Procs \union Task
ASSUME BoundsAssumption ==
  MaxChanges \in Nat /\ Failures \in BOOLEAN /\ Boot \notin Callers

VARIABLES
  wanted,        \* the update intervals in the committed profiles
  unread,        \* history: wanted changed after a refresh last read it
  changes,       \* changes so far, bounded by MaxChanges
  pc,            \* where each caller is
  edit,          \* the change a caller is about to commit
  refresh_lock,
  new_map,       \* what each refresh under way read
  timer_map,
  commands,      \* the unbounded channel
  overdue,       \* RunNow commands init has yet to send
  queue,         \* DelayQueue: the profile under each key
  early,         \* updates that were in flight when an entry was (re)set: it
                 \* outlasts them
  tasks,         \* the scheduler's map of TaskState
  runs           \* updates in flight

vars == <<wanted, unread, changes, pc, edit, refresh_lock, new_map, timer_map,
          commands, overdue, queue, early, tasks, runs>>
profiles == <<wanted, unread, changes>>
refresher == <<refresh_lock, new_map, timer_map>>
scheduler == <<queue, early, tasks, runs>>

Labels == {"idle", "commit", "lock", "gen", "publish", "overdue", "send"}

Init ==
  /\ wanted \in Map
  /\ unread = TRUE
  /\ changes = 0
  /\ pc = [c \in Procs |-> "idle"]
  /\ edit = [c \in Procs |-> None]
  /\ refresh_lock = None
  /\ new_map = [c \in Procs |-> Empty]
  /\ timer_map = Empty
  /\ commands = <<>>
  /\ overdue = {}
  /\ queue = [k \in Keys |-> None]
  /\ early = [k \in Keys |-> {}]
  /\ tasks = [u \in Uids |-> None]
  /\ runs = [r \in Runs |-> None]

Goto(c, from, to) ==
  /\ pc[c] = from
  /\ pc' = [pc EXCEPT ![c] = to]

-----------------------------------------------------------------------------
(* Commands that change profiles.                                          *)

\* What c is going to change, counted against the bound.
Prepare(c, u, i, refresh) ==
  /\ changes < MaxChanges
  /\ changes' = changes + 1
  /\ Goto(c, "idle", "commit")
  /\ edit' = [edit EXCEPT ![c] =
                [uid |-> u, interval |-> i, refresh |-> refresh]]
  /\ UNCHANGED <<wanted, unread, refresher, commands, overdue, scheduler>>

\* patch_profile looks at the profile before it waits for its turn to change
\* it, and decides there whether the timer needs a refresh.
LookAndPatch(c, u, i) == Prepare(c, u, i, wanted[u] # i)

\* An import and a deletion refresh, unless a step in between fails: saving
\* the list, or updating the core.
Replace(c, u, i) ==
  \E refresh \in IF Failures THEN BOOLEAN ELSE {TRUE} :
    Prepare(c, u, i, refresh)

Commit(c) ==
  /\ Goto(c, "commit", IF edit[c].refresh THEN "lock" ELSE "idle")
  /\ wanted' = [wanted EXCEPT ![edit[c].uid] = edit[c].interval]
  /\ unread' = (unread \/ wanted' # wanted)
  /\ edit' = [edit EXCEPT ![c] = None]
  /\ UNCHANGED <<changes, refresher, commands, overdue, scheduler>>

-----------------------------------------------------------------------------
(* init and refresh.                                                       *)

\* init spawns the scheduler and refreshes.
InitTimer ==
  /\ Goto(Boot, "idle", "lock")
  /\ UNCHANGED <<profiles, edit, refresher, commands, overdue, scheduler>>

\* Mutant of Lock: refreshes do not wait for each other.
LockNot(c) ==
  /\ Goto(c, "lock", "gen")
  /\ refresh_lock' = c
  /\ UNCHANGED <<profiles, edit, new_map, timer_map, commands, overdue,
                 scheduler>>

Lock(c) ==
  /\ refresh_lock = None
  /\ Goto(c, "lock", "gen")
  /\ refresh_lock' = c
  /\ UNCHANGED <<profiles, edit, new_map, timer_map, commands, overdue,
                 scheduler>>

GenMap(c) ==
  /\ Goto(c, "gen", "publish")
  /\ new_map' = [new_map EXCEPT ![c] = wanted]
  /\ unread' = FALSE
  /\ UNCHANGED <<wanted, changes, edit, refresh_lock, timer_map, commands,
                 overdue, scheduler>>

\* The scheduler is told only if something changed.
Publish(c) ==
  /\ Goto(c, "publish", IF c = Boot THEN "overdue" ELSE "idle")
  /\ refresh_lock' = None
  /\ timer_map' = new_map[c]
  /\ new_map' = [new_map EXCEPT ![c] = Empty]
  /\ commands' = IF timer_map = new_map[c] THEN commands
                 ELSE Append(commands, [type |-> "Apply", map |-> new_map[c]])
  /\ UNCHANGED <<profiles, edit, overdue, scheduler>>

\* init asks for the updates that fell due while the program did not run.
Overdue ==
  /\ Goto(Boot, "overdue", "send")
  /\ overdue' \in SUBSET {u \in Uids : wanted[u] # 0}
  /\ UNCHANGED <<profiles, edit, refresher, commands, scheduler>>

SendRunNow(u) ==
  /\ pc[Boot] = "send"
  /\ u \in overdue
  /\ overdue' = overdue \ {u}
  /\ commands' = Append(commands, [type |-> "RunNow", uid |-> u])
  /\ UNCHANGED <<profiles, pc, edit, refresher, scheduler>>

-----------------------------------------------------------------------------
(* The scheduler.                                                          *)

Scheduling == pc[Boot] # "idle"

Sent(type) == {i \in 1..Len(commands) : commands[i].type = type}

\* init and what it asked for start within the first minute, before anything
\* expires.
Booted == pc[Boot] = "send" /\ overdue = {} /\ Sent("RunNow") = {}

Known == {u \in Uids : tasks[u] # None}
KeysOf(S) == {tasks[u].key : u \in S} \ {None}
FreeKeys == {k \in Keys : queue[k] = None}
Flying == {r \in Runs : runs[r] # None}
Distinct(f) == \A x, y \in DOMAIN f : f[x] = f[y] => x = y

\* The queue without the entries under the keys `gone`, with those under the
\* keys `again` reset, and with entries for the profiles `key` is defined on.
Requeue(gone, again, key) ==
  LET put == {key[u] : u \in DOMAIN key} IN
  /\ queue' = [k \in Keys |->
       IF k \in put THEN CHOOSE u \in DOMAIN key : key[u] = k
       ELSE IF k \in gone THEN None ELSE queue[k]]
  /\ early' = [k \in Keys |->
       IF k \in put \union again THEN Flying
       ELSE IF k \in gone THEN {} ELSE early[k]]

Gone(map) == {u \in Known : map[u] = 0}

Changed(map) == {u \in Known : map[u] \notin {0, tasks[u].interval}}

\* The profiles apply_timer_map makes entries for: the new ones, and changed
\* ones that neither have an entry nor are being updated.
Entering(map) ==
  {u \in Uids \ Known : map[u] # 0}
  \union {u \in Changed(map) : tasks[u].key = None /\ ~tasks[u].running}

\* apply_timer_map, with insert_task and update_task_interval.
ApplyTimerMap(map) ==
  /\ \E key \in [Entering(map) -> FreeKeys \union KeysOf(Gone(map))] :
       /\ Distinct(key)
       /\ Requeue(KeysOf(Gone(map)), KeysOf(Changed(map)), key)
       /\ tasks' = [u \in Uids |->
            IF u \notin (Known \ Gone(map)) \union Entering(map) THEN None
            ELSE [key |-> IF u \in Entering(map) THEN key[u] ELSE tasks[u].key,
                  interval |-> map[u],
                  running |-> u \in Known /\ tasks[u].running]]
  /\ UNCHANGED runs

StartRun(u) ==
  \E r \in Runs : runs[r] = None /\ runs' = [runs EXCEPT ![r] = u]

\* run_task_now.
RunTaskNow(u) ==
  IF tasks[u] # None /\ ~tasks[u].running
    THEN /\ StartRun(u)
         /\ tasks' = [tasks EXCEPT ![u].running = TRUE, ![u].key = None]
         /\ Requeue(KeysOf({u}), {}, <<>>)
    ELSE UNCHANGED scheduler

\* Mutant of FinishTask: the profile is not scheduled again.
FinishOnly(u) ==
  IF tasks[u] # None
    THEN /\ tasks' = [tasks EXCEPT ![u].running = FALSE]
         /\ UNCHANGED <<queue, early, runs>>
    ELSE UNCHANGED scheduler

\* finish_task: whatever entry the profile has by now, it gets another one.
FinishTask(u) ==
  IF tasks[u] # None
    THEN /\ \E k \in FreeKeys :
              /\ Requeue({}, {}, [v \in {u} |-> k])
              /\ tasks' = [tasks EXCEPT ![u].running = FALSE, ![u].key = k]
         /\ UNCHANGED runs
    ELSE UNCHANGED scheduler

Receive ==
  /\ Scheduling
  /\ commands # <<>>
  /\ commands' = Tail(commands)
  /\ \/ Head(commands).type = "Apply" /\ ApplyTimerMap(Head(commands).map)
     \/ Head(commands).type = "RunNow" /\ RunTaskNow(Head(commands).uid)
     \/ Head(commands).type = "TaskFinished" /\ FinishTask(Head(commands).uid)
  /\ UNCHANGED <<profiles, pc, edit, refresher, overdue>>

\* Mutant of Expire: the key of the expired entry is kept.
ExpireKeepingKey(k) ==
  /\ Booted
  /\ queue[k] # None /\ early[k] = {}
  /\ Requeue({k}, {}, <<>>)
  /\ LET u == queue[k] IN
     IF tasks[u] # None
       THEN /\ tasks' = [tasks EXCEPT ![u].running = TRUE]
            /\ IF tasks[u].running THEN UNCHANGED runs ELSE StartRun(u)
       ELSE UNCHANGED <<tasks, runs>>
  /\ UNCHANGED <<profiles, pc, edit, refresher, commands, overdue>>

\* An entry expires: run_expired_task.
Expire(k) ==
  /\ Booted
  /\ queue[k] # None /\ early[k] = {}
  /\ Requeue({k}, {}, <<>>)
  /\ LET u == queue[k] IN
     IF tasks[u] # None
       THEN /\ tasks' = [tasks EXCEPT ![u].key = None, ![u].running = TRUE]
            /\ IF tasks[u].running THEN UNCHANGED runs ELSE StartRun(u)
       ELSE UNCHANGED <<tasks, runs>>
  /\ UNCHANGED <<profiles, pc, edit, refresher, commands, overdue>>

\* Mutant of EndRun: an update that fails or times out does not report.
EndSilently(r) ==
  /\ runs[r] # None
  /\ runs' = [runs EXCEPT ![r] = None]
  /\ early' = [k \in Keys |-> early[k] \ {r}]
  /\ \/ commands' = Append(commands, [type |-> "TaskFinished", uid |-> runs[r]])
     \/ UNCHANGED commands
  /\ UNCHANGED <<profiles, pc, edit, refresher, overdue, queue, tasks>>

\* An update ends, by its timeout at the latest.
EndRun(r) ==
  /\ runs[r] # None
  /\ runs' = [runs EXCEPT ![r] = None]
  /\ early' = [k \in Keys |-> early[k] \ {r}]
  /\ commands' = Append(commands, [type |-> "TaskFinished", uid |-> runs[r]])
  /\ UNCHANGED <<profiles, pc, edit, refresher, overdue, queue, tasks>>

-----------------------------------------------------------------------------

Change ==
  \E c \in Callers :
    \/ \E u \in Uids, i \in Intervals \union {0} :
         LookAndPatch(c, u, i) \/ Replace(c, u, i)
    \/ Commit(c)

Refresh(c) ==
  \/ Lock(c)
  \/ GenMap(c)
  \/ Publish(c)

InitRuns ==
  \/ Overdue
  \/ \E u \in Uids : SendRunNow(u)

Next ==
  \/ Change
  \/ InitTimer
  \/ \E c \in Procs : Refresh(c)
  \/ InitRuns
  \/ Receive
  \/ \E k \in Keys : Expire(k)
  \/ \E r \in Runs : EndRun(r)

Spec == Init /\ [][Next]_vars

\* The scheduler takes what is there in any order but forgets nothing, updates
\* end, and a refresh that waits for its lock gets it.  Nothing is assumed of
\* the commands that change profiles.
FairSpec ==
  /\ Spec
  /\ WF_vars(Receive)
  /\ \A k \in Keys : WF_vars(Expire(k))
  /\ \A r \in Runs : WF_vars(EndRun(r))
  /\ \A c \in Procs : WF_vars(Refresh(c))
  /\ WF_vars(InitTimer) /\ WF_vars(InitRuns)

-----------------------------------------------------------------------------

TypeOK ==
  /\ wanted \in Map
  /\ unread \in BOOLEAN
  /\ changes \in 0..MaxChanges
  /\ pc \in [Procs -> Labels]
  /\ edit \in [Procs -> Edit \union {None}]
  /\ refresh_lock \in Procs \union {None}
  /\ new_map \in [Procs -> Map]
  /\ timer_map \in Map
  /\ commands \in Seq(Command)
  /\ overdue \subseteq Uids
  /\ queue \in [Keys -> Uids \union {None}]
  /\ early \in [Keys -> SUBSET Runs]
  /\ tasks \in [Uids -> Task \union {None}]
  /\ runs \in [Runs -> Uids \union {None}]

\* DelayQueue panics, or touches the entry of another profile, when it is
\* given a key that is no longer in the queue: every key the scheduler keeps
\* is that of an entry of its profile.
KeysAreLive ==
  \A u \in Known : tasks[u].key # None => queue[tasks[u].key] = u

\* An update of u has not ended, or has not been heard of.
Reports(u) ==
  \/ \E r \in Runs : runs[r] = u
  \/ \E i \in Sent("TaskFinished") : commands[i].uid = u

Remembered(u) ==
  /\ tasks[u].key = None <=> tasks[u].running
  /\ tasks[u].running => Reports(u)

\* No profile is forgotten: a task without an entry is marked as running, and
\* a task marked as running will be scheduled again, for there is an update
\* that has not ended or a TaskFinished that has not been received, whatever
\* was removed and added again meanwhile.
NeverForgotten == \A u \in Known : Remembered(u)

Applied(map) ==
  /\ Known = {u \in Uids : map[u] # 0}
  /\ \A u \in Known : tasks[u].interval = map[u]

\* The scheduler converges to the profiles: the last Apply in the channel, or
\* without one the tasks themselves, are timer_map, and timer_map is what the
\* profiles say unless they changed after the last refresh read them or that
\* refresh has yet to publish.  Refreshes do not overtake each other.
Converges ==
  /\ Sent("Apply") = {} => Applied(timer_map)
  /\ \A i \in Sent("Apply") :
       (\A j \in Sent("Apply") : j <= i) => commands[i].map = timer_map
  /\ ~unread /\ (\A c \in Procs : pc[c] # "publish") => timer_map = wanted

\* The scheduler follows the profiles: when no command is under way, timer_map
\* is what they say.  The code does not keep it where patches overlap (README,
\* Disagreements).
FollowsProfiles ==
  pc[Boot] = "send" /\ (\A c \in Callers : pc[c] = "idle")
    => timer_map = wanted

\* A profile is not updated by the timer twice at the same time.  The code does
\* not keep it (README, Disagreements).
OneUpdateAtATime ==
  \A r1, r2 \in Runs : runs[r1] # None /\ runs[r1] = runs[r2] => r1 = r2

\* A profile that stays scheduled is updated again and again.
KeepsUpdating ==
  \A u \in Uids :
    (\E i \in Intervals : <>[](timer_map[u] = i))
      => []<>(\E r \in Runs : runs[r] = u)
=============================================================================
