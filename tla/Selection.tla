----------------------------- MODULE Selection -----------------------------
(***************************************************************************)
(* The nodes a user chose in the groups of a profile, given to the core    *)
(* again after the profile was switched (the second half of                *)
(* config/profiles.rs).                                                    *)
(*                                                                         *)
(* Every switch starts a task under a new generation.  It awaits the task  *)
(* before it, looks at the core's groups, selects what was chosen, looks a *)
(* second time if something was missing, and repairs the profile's         *)
(* records.  It gives up as soon as its generation is not the last one.    *)
(* The user selects nodes and saves the choice at any time.                *)
(***************************************************************************)
EXTENDS Naturals, Sequences, FiniteSets, SequencesExt

CONSTANTS
  Groups, Nodes, Nobody,  \* Nobody: no name, node, group or snapshot
  SwitchTo,      \* the profiles that can be switched to
  FirstChoices,  \* [SwitchTo -> Seq(Record)]: the records at the start
  Shapes,        \* what the core may offer: [Groups -> Group or Nobody]
  MaxSwitches,   \* bound: switches in a behaviour
  MaxChanges     \* bound: changes of the core's groups, choices, failures

Group == [selectable : BOOLEAN, all : SUBSET Nodes, now : Nodes \union {Nobody}]
Record == [name : Groups \union {Nobody}, now : Nodes \union {Nobody}]

ASSUME SelectionAssumption ==
  /\ FirstChoices \in [SwitchTo -> Seq(Record)]
  /\ Shapes \subseteq [Groups -> Group \union {Nobody}]
  /\ Nobody \notin Groups \union Nodes \union Group \union Record
  /\ Nobody \notin [Groups -> Group \union {Nobody}]
  /\ MaxSwitches \in Nat

VARIABLES
  shown,       \* IProfiles.current
  selected,    \* the records of every profile
  offered,     \* the groups of the core
  generation,  \* ACTIVATE_SELECTED_GENERATION
  tasks,       \* a task for every generation
  choosing,    \* the choice the user is about to save, or Nobody
  disturbed,   \* history: since the last switch something failed, or somebody
               \* else changed what the core offers or has selected
  changes      \* bounded by MaxChanges

selectionVars ==
  <<shown, selected, offered, generation, tasks, choosing, disturbed, changes>>

Generations == 1..MaxSwitches
NoTask == [pc |-> "none", uid |-> Nobody, wanted |-> <<>>, looks |-> <<>>,
           plan |-> <<>>, todo |-> <<>>, completed |-> {}]

SelectionInit ==
  /\ shown \in SwitchTo /\ selected = FirstChoices
  /\ offered = [g \in Groups |-> Nobody]
  /\ generation = 0
  /\ tasks = [n \in Generations |-> NoTask]
  /\ choosing = Nobody
  /\ disturbed = FALSE /\ changes = 0

-----------------------------------------------------------------------------
(* reconcile_selected_nodes.  A group without nodes is one whose provider  *)
(* has not answered yet.                                                   *)

IsRecord(r) == r.name # Nobody /\ r.now # Nobody

\* Is node missing from the group in this snapshot?
Missing(snapshot, g, node) ==
  snapshot[g] = Nobody \/ node \notin snapshot[g].all

\* selected_nodes_need_confirmation
NeedConfirmation(records, snapshot) ==
  \E r \in ToSet(records) : IsRecord(r) /\ Missing(snapshot, r.name, r.now)

\* What stays of a list when only these places do, in their order.
InOrder(places) ==
  CHOOSE at \in [1..Cardinality(places) -> places] :
    \A i, j \in DOMAIN at : i < j => at[i] < at[j]
Kept(list, places) ==
  LET at == InOrder(places) IN [i \in 1..Cardinality(places) |-> list[at[i]]]

\* Where the last record of every group is.
LastPlaces(records) ==
  {i \in DOMAIN records :
     /\ records[i].name # Nobody
     /\ \A j \in DOMAIN records : j > i => records[j].name # records[i].name}

Unique(records) == {records[i] : i \in LastPlaces(records)}

ConfirmedMissing(previous, r) ==
  /\ previous # Nobody /\ previous[r.name] # Nobody
  /\ previous[r.name].all # {} /\ r.now \notin previous[r.name].all

\* What becomes of a record: itself, another node, or Nobody.
Reconciled(r, previous, snapshot) ==
  LET g == snapshot[r.name]
      current == IF g.now \in g.all THEN [r EXCEPT !.now = g.now] ELSE Nobody
  IN CASE r.now = Nobody -> Nobody
       [] r.now # Nobody /\ g = Nobody ->
            IF previous # Nobody /\ previous[r.name] = Nobody THEN Nobody ELSE r
       [] r.now # Nobody /\ g # Nobody /\ g.all = {} -> r
       [] OTHER ->
            IF ~g.selectable
            THEN IF current = Nobody /\ r.now \in g.all THEN r ELSE current
            ELSE IF r.now \in g.all \/ ~ConfirmedMissing(previous, r) THEN r
            ELSE current

Plan(records, previous, snapshot) ==
  LET After(r) == Reconciled(r, previous, snapshot)
      kept == Kept(records,
                   {i \in LastPlaces(records) : After(records[i]) # Nobody})
  IN [i \in DOMAIN kept |-> After(kept[i])]

Activated(r, snapshot) ==
  /\ r.now # Nobody /\ ~Missing(snapshot, r.name, r.now)
  /\ snapshot[r.name].selectable /\ snapshot[r.name].now # r.now

\* The activations that are left.
Remaining(records, snapshot, completed) ==
  Kept(records,
       {i \in LastPlaces(records) :
          Activated(records[i], snapshot) /\ records[i] \notin completed})

-----------------------------------------------------------------------------
(* The tasks.                                                              *)

AtTask(n, label) == tasks[n].pc = label
IsCurrent(n) == n = generation

Move(n, label) == tasks' = [tasks EXCEPT ![n].pc = label]
End(n) == tasks' = [tasks EXCEPT ![n] = [NoTask EXCEPT !.pc = "done"]]

\* Mutant of Awaited: the task before may still be at work.
AwaitedNot(n) == TRUE

Awaited(n) == n > 1 => AtTask(n - 1, "done")

\* activate_selected_nodes, after the switch gave the core a profile.
SwitchAndActivate(u, shape) ==
  /\ generation < MaxSwitches
  /\ shown' = u /\ offered' = shape
  /\ generation' = generation + 1
  /\ tasks' = [tasks EXCEPT ![generation + 1].pc = "await"]
  /\ disturbed' = FALSE
  /\ UNCHANGED <<selected, choosing, changes>>

\* The task starts, and reads the records of the current profile.
StartTask(n) ==
  /\ AtTask(n, "await") /\ Awaited(n)
  /\ IF ~IsCurrent(n) \/ selected[shown] = <<>> THEN End(n)
     ELSE tasks' = [tasks EXCEPT ![n].pc = "fetch", ![n].uid = shown,
                                 ![n].wanted = selected[shown]]
  /\ UNCHANGED <<shown, selected, offered, generation, choosing, disturbed,
                 changes>>

\* A snapshot, and what is to be selected because of it that was not already.
Fetch(n, label, next) ==
  LET t == tasks[n]
      previous == IF label = "fetch" THEN Nobody ELSE t.looks[1]
  IN /\ AtTask(n, label)
     /\ IF ~IsCurrent(n) THEN End(n)
        ELSE tasks' = [tasks EXCEPT ![n] =
               [t EXCEPT !.pc = next, !.looks = Append(@, offered),
                         !.plan = Plan(t.wanted, previous, offered),
                         !.todo = Remaining(t.wanted, offered, t.completed)]]
     /\ UNCHANGED <<shown, selected, offered, generation, choosing, disturbed,
                    changes>>

FetchFirst(n) == Fetch(n, "fetch", "apply")
FetchSecond(n) == Fetch(n, "refetch", "reapply")

\* apply_activations: a request is sent only by the last generation.
Send(n) ==
  /\ tasks[n].pc \in {"apply", "reapply"} /\ tasks[n].todo # <<>>
  /\ IF ~IsCurrent(n) THEN End(n)
     ELSE Move(n, IF AtTask(n, "apply") THEN "selecting" ELSE "reselecting")
  /\ UNCHANGED <<shown, selected, offered, generation, choosing, disturbed,
                 changes>>

Answered(n, completed) ==
  IF ~IsCurrent(n) THEN End(n)
  ELSE tasks' = [tasks EXCEPT
         ![n].pc = IF @ = "selecting" THEN "apply" ELSE "reapply",
         ![n].todo = Tail(@), ![n].completed = completed]

\* The core selects the node, unless it has no such node any more.
Land(n) ==
  LET r == Head(tasks[n].todo)
      accepts == ~Missing(offered, r.name, r.now)
  IN /\ tasks[n].pc \in {"selecting", "reselecting"}
     /\ offered' = IF accepts THEN [offered EXCEPT ![r.name].now = r.now]
                   ELSE offered
     /\ Answered(n, tasks[n].completed \union (IF accepts THEN {r} ELSE {}))
     /\ UNCHANGED <<shown, selected, generation, choosing, disturbed, changes>>

\* The request failed or timed out: the next one is tried.
Lost(n) ==
  /\ tasks[n].pc \in {"selecting", "reselecting"}
  /\ changes < MaxChanges /\ changes' = changes + 1
  /\ disturbed' = TRUE
  /\ Answered(n, tasks[n].completed)
  /\ UNCHANGED <<shown, selected, offered, generation, choosing>>

\* Nothing is left to select: look again if something was missing, after a
\* while, or repair the records.
Applied(n) ==
  /\ tasks[n].pc \in {"apply", "reapply"} /\ tasks[n].todo = <<>>
  /\ IF ~IsCurrent(n) THEN End(n)
     ELSE IF AtTask(n, "apply")
             /\ NeedConfirmation(tasks[n].wanted, tasks[n].looks[1])
          THEN Move(n, "refetch")
     ELSE IF tasks[n].plan # tasks[n].wanted THEN Move(n, "persist")
     ELSE End(n)
  /\ UNCHANGED <<shown, selected, offered, generation, choosing, disturbed,
                 changes>>

\* Mutant of Unchanged: whatever the user saved meanwhile.
UnchangedOrNot(n) == IsCurrent(n) /\ shown = tasks[n].uid

Unchanged(n) ==
  IsCurrent(n) /\ shown = tasks[n].uid /\ selected[shown] = tasks[n].wanted

\* persist_reconciled_selected: one with_data_modify.
Persist(n) ==
  /\ AtTask(n, "persist")
  /\ selected' = IF Unchanged(n)
                 THEN [selected EXCEPT ![shown] = tasks[n].plan] ELSE selected
  /\ End(n)
  /\ UNCHANGED <<shown, offered, generation, choosing, disturbed, changes>>

\* The core does not answer, or the file cannot be written.
TaskFails(n) ==
  /\ tasks[n].pc \in {"fetch", "refetch", "persist"}
  /\ changes < MaxChanges /\ changes' = changes + 1
  /\ disturbed' = TRUE
  /\ End(n)
  /\ UNCHANGED <<shown, selected, offered, generation, choosing>>

Task(n) ==
  \/ StartTask(n) \/ FetchFirst(n) \/ FetchSecond(n) \/ Send(n) \/ Land(n)
  \/ Lost(n) \/ Applied(n) \/ Persist(n) \/ TaskFails(n)

-----------------------------------------------------------------------------
(* The rest of the world.                                                  *)

\* A provider answers, or takes nodes away.
Offer(shape) ==
  /\ shape # offered
  /\ changes < MaxChanges /\ changes' = changes + 1
  /\ offered' = shape /\ disturbed' = TRUE
  /\ UNCHANGED <<shown, selected, generation, tasks, choosing>>

\* The user selects a node in the core, and then saves the choice.
Choose(g, node) ==
  /\ choosing = Nobody /\ ~Missing(offered, g, node)
  /\ changes < MaxChanges /\ changes' = changes + 1
  /\ offered' = [offered EXCEPT ![g].now = node]
  /\ choosing' = [name |-> g, now |-> node]
  /\ disturbed' = TRUE
  /\ UNCHANGED <<shown, selected, generation, tasks>>

SaveChoice ==
  /\ choosing # Nobody
  /\ selected' = [selected EXCEPT ![shown] =
       Append(Kept(@, {i \in DOMAIN @ : @[i].name # choosing.name}), choosing)]
  /\ choosing' = Nobody /\ disturbed' = TRUE
  /\ UNCHANGED <<shown, offered, generation, tasks, changes>>

SelectionNext ==
  \/ \E u \in SwitchTo, shape \in Shapes : SwitchAndActivate(u, shape)
  \/ \E n \in Generations : Task(n)
  \/ \E shape \in Shapes : Offer(shape)
  \/ \E g \in Groups, node \in Nodes : Choose(g, node)
  \/ SaveChoice

SelectionSpec == SelectionInit /\ [][SelectionNext]_selectionVars

-----------------------------------------------------------------------------
(* Properties.                                                             *)

\* The choice in force: the last record of a group.
Chosen(records, g, node) ==
  \E r \in Unique(records) : r.name = g /\ r.now = node

\* Once the last task is done, if nothing failed and nobody interfered, the
\* core has selected what the profile's records say wherever it can: no
\* request of an earlier task arrives later.
SelectionApplied ==
  generation > 0 /\ AtTask(generation, "done") /\ ~disturbed =>
    \A g \in Groups, node \in Nodes :
      /\ Chosen(selected[shown], g, node)
      /\ ~Missing(offered, g, node) /\ offered[g].selectable
      => offered[g].now = node

\* A task never takes a choice back which was in the records when it persists
\* them, unless the node was missing from what the core offered both times it
\* looked (or nobody can select in that group); one saved while the task ran is
\* left alone, whatever the task found.
ChoicesSurvive ==
  [][\A n \in Generations :
       AtTask(n, "persist") /\ ~AtTask(n, "persist")' =>
         \A r \in Unique(selected[shown]) :
           \/ r.now = Nobody
           \/ r \in ToSet(selected'[shown])
           \/ /\ r \in ToSet(tasks[n].wanted)
              /\ selected[shown] = tasks[n].wanted
              /\ \/ /\ Len(tasks[n].looks) = 2
                    /\ \A i \in 1..2 : Missing(tasks[n].looks[i], r.name, r.now)
                 \/ ~Last(tasks[n].looks)[r.name].selectable]_selectionVars
=============================================================================
