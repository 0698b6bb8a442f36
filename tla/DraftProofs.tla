---------------------------- MODULE DraftProofs -----------------------------
(***************************************************************************)
(* Theorems about Draft, for every set of tasks and edits and every bound. *)
(***************************************************************************)
EXTENDS Draft, TLAPS

-----------------------------------------------------------------------------
(* Types, and what the identity of an Arc says about its value.            *)

\* A snapshot is made of its fields.
LEMMA ArcFields ==
  /\ \A i \in Nat, v \in SUBSET Changes : [id |-> i, val |-> v] \in Arc
  /\ \A a \in Arc : a.id \in Nat /\ a.val \in SUBSET Changes
BY DEF Arc

\* Adding a change to a value gives a value.
LEMMA AddChange ==
  ASSUME NEW v \in SUBSET Changes, NEW x \in Changes
  PROVE  v \union {x} \in SUBSET Changes
OBVIOUS

\* notify_one stores a notification when nobody is parked, and otherwise wakes
\* one parked task and touches no other.
LEMMA NotifyOneEffect ==
  ASSUME TypeOK, NEW t \in Tasks, NEW to \in Labels,
         pc[t] # "parked", NotifyOne(t, to)
  PROVE  /\ pc' \in [Tasks -> Labels] /\ stored' \in BOOLEAN
         /\ pc'[t] = to
         /\ \A u \in Tasks : u # t =>
              pc'[u] = pc[u] \/ (pc[u] = "parked" /\ pc'[u] = "woken")
         /\ \/ (Parked = {} /\ stored')
            \/ (stored' = stored /\ \E w \in Tasks : pc'[w] = "woken")
<1> USE DEF TypeOK
<1>1. CASE Parked = {}
  BY <1>1 DEF NotifyOne
<1>2. CASE Parked # {}
  <2>1. PICK w \in Tasks : /\ pc[w] = "parked"
                           /\ pc' = [pc EXCEPT ![t] = to, ![w] = "woken"]
    BY <1>2 DEF NotifyOne, Parked
  <2>2. w # t /\ "woken" \in Labels
    BY <2>1 DEF Labels
  <2>3. QED
    BY <1>2, <2>1, <2>2 DEF NotifyOne
<1>3. QED
  BY <1>1, <1>2

\* The initial cell has its types and a committed Arc older than the next.
LEMMA InitPointers == Init => TypeOK /\ PointerIsValue
<1> SUFFICES ASSUME Init PROVE TypeOK /\ PointerIsValue
  OBVIOUS
<1>1. {} \in SUBSET Changes
  OBVIOUS
<1>2. committed \in Arc /\ committed.id = 0
  BY <1>1, ArcFields DEF Init
<1>3. TypeOK
  BY <1>2 DEF Init, TypeOK, Labels
<1>4. PointerIsValue
  BY <1>2 DEF Init, PointerIsValue
<1>5. QED
  BY <1>3, <1>4

\* Every step keeps the types and the meaning of Arc identities: a new Arc
\* gets an identity nobody holds, and apply moves the draft's Arc, which no
\* with_data_modify can have snapshotted.
LEMMA NextPointers ==
  TypeOK /\ PointerIsValue /\ [Next]_vars => TypeOK' /\ PointerIsValue'
<1> SUFFICES ASSUME TypeOK, PointerIsValue, [Next]_vars
             PROVE  TypeOK' /\ PointerIsValue'
  OBVIOUS
<1> USE DEF TypeOK, PointerIsValue, Labels
<1>1. ASSUME NEW x \in Edits, EditDraft(x)
      PROVE  TypeOK' /\ PointerIsValue'
  <2>1. Latest \in Arc
    BY DEF Latest
  <2>2. Latest.val \union {x} \in SUBSET Changes
    BY <2>1, ArcFields, AddChange DEF Changes
  <2>3. CASE draft = None
    <3>1. /\ draft' = [id |-> nextId, val |-> Latest.val \union {x}]
          /\ nextId' = nextId + 1
      BY <1>1, <2>3 DEF EditDraft
    <3>2. draft' \in Arc /\ draft'.id = nextId
      BY <2>2, <3>1, ArcFields
    <3>3. QED
      BY <1>1, <3>1, <3>2, ArcFields DEF EditDraft
  <2>4. CASE draft # None
    <3>1. PICK i \in {nextId, draft.id} :
            /\ draft' = [id |-> i, val |-> Latest.val \union {x}]
            /\ nextId' = IF i = nextId THEN nextId + 1 ELSE nextId
      <4>1. draft.id # nextId
        BY <2>4, ArcFields
      <4>2. QED
        BY <1>1, <2>4, <4>1 DEF EditDraft
    <3>2. draft' \in Arc /\ draft'.id = i
      BY <2>2, <2>4, <3>1, ArcFields
    <3>3. QED
      BY <1>1, <2>4, <3>1, <3>2, ArcFields DEF EditDraft
  <2>5. QED
    BY <2>3, <2>4
<1>2. CASE Apply \/ Discard
  BY <1>2, ArcFields DEF Apply, Discard
<1>3. ASSUME NEW t \in Tasks, Commit(t)
      PROVE  TypeOK' /\ PointerIsValue'
  <2>1. pc[t] = "closure" /\ original_arc[t] \in Arc
    BY <1>3 DEF Commit, Goto
  <2>2. original_arc[t].val \union {t} \in SUBSET Changes
    BY <2>1, ArcFields, AddChange DEF Changes
  <2>3. committed' \in Arc /\ committed'.id = nextId
    BY <1>3, <2>2, ArcFields DEF Commit
  <2>4. QED
    BY <1>3, <2>3, ArcFields DEF Commit, Goto
<1>4. ASSUME NEW t \in Tasks, Call(t) \/ CancelWait(t)
      PROVE  TypeOK' /\ PointerIsValue'
  <2>1. CASE Call(t)
    BY <2>1 DEF Call, Goto, cell
  <2>2. CASE CancelWait(t) /\ pc[t] = "woken"
    <3>1. NotifyOne(t, "idle")
      BY <2>2 DEF CancelWait
    <3>2. QED
      BY <2>2, <3>1, NotifyOneEffect DEF CancelWait, cell
  <2>3. CASE CancelWait(t) /\ pc[t] # "woken"
    BY <2>3 DEF CancelWait, cell
  <2>4. QED
    BY <1>4, <2>1, <2>2, <2>3
<1>5. ASSUME NEW t \in Tasks, Step(t), ~Commit(t)
      PROVE  TypeOK' /\ PointerIsValue'
  <2>1. CASE Snapshot(t)
    BY <2>1, NoneAssumption DEF Snapshot, Goto, cell
  <2>2. CASE Release(t)
    BY <2>2 DEF Release, Goto, cell
  <2>3. CASE Notify(t)
    <3>1. NotifyOne(t, "idle") /\ pc[t] # "parked"
      BY <2>3 DEF Notify
    <3>2. QED
      BY <2>3, <3>1, NotifyOneEffect DEF Notify, cell
  <2>4. CASE ~Snapshot(t) /\ ~Release(t) /\ ~Notify(t)
    BY <1>5, <2>4 DEF Step, TryFast, TrySlow, TryAcquire, Resume,
       PollNotified, Conflict, Fail, Goto, cell
  <2>5. QED
    BY <2>1, <2>2, <2>3, <2>4
<1>6. CASE UNCHANGED vars
  BY <1>6 DEF vars
<1>7. QED
  BY <1>1, <1>2, <1>3, <1>4, <1>5, <1>6 DEF Next

\* The types of the cell, the permit and the tasks' locals are kept by every
\* operation of Draft<T>.
THEOREM Typing == Spec => []TypeOK
BY InitPointers, NextPointers, PTL DEF Spec

\* Arc::ptr_eq in with_data_modify compares values: neither an in-place edit
\* of the draft nor a reused Arc can make a stale snapshot look current.
THEOREM PointersCompareValues == Spec => []PointerIsValue
BY InitPointers, NextPointers, PTL DEF Spec

-----------------------------------------------------------------------------
(* The permit: exclusion and wakeups.                                      *)

\* The permit is exclusive, and its flag set exactly while a task holds it.
THEOREM Exclusion == Spec => []PermitExclusive
<1>1. Init => PermitExclusive
  BY DEF Init, PermitExclusive, Holds
<1>2. TypeOK /\ PermitExclusive /\ [Next]_vars => PermitExclusive'
  <2> SUFFICES ASSUME TypeOK, PermitExclusive, [Next]_vars
               PROVE  PermitExclusive'
    OBVIOUS
  <2> USE DEF TypeOK, PermitExclusive, Holds, Goto
  <2>1. ASSUME NEW x \in Edits, EditDraft(x) PROVE PermitExclusive'
    BY <2>1 DEF EditDraft
  <2>2. CASE Apply \/ Discard
    BY <2>2 DEF Apply, Discard
  <2>3. ASSUME NEW t \in Tasks, NotifyOne(t, "idle"), ~Holds(t),
               pc[t] # "parked", UNCHANGED data_modifying
        PROVE  PermitExclusive'
    <3>1. "idle" \in Labels
      BY DEF Labels
    <3>2. \A u \in Tasks : Holds(u)' <=> Holds(u)
      BY <2>3, <3>1, NotifyOneEffect
    <3>3. QED
      BY <2>3, <3>2
  <2>4. ASSUME NEW t \in Tasks, Call(t) \/ CancelWait(t)
        PROVE  PermitExclusive'
    BY <2>3, <2>4 DEF Call, CancelWait
  <2>5. ASSUME NEW t \in Tasks, TryFast(t) \/ TrySlow(t)
        PROVE  PermitExclusive'
    BY <2>5 DEF TryFast, TrySlow, TryAcquire
  <2>6. ASSUME NEW t \in Tasks, Release(t) PROVE PermitExclusive'
    BY <2>6 DEF Release
  <2>7. ASSUME NEW t \in Tasks, Resume(t) \/ PollNotified(t) \/ Notify(t)
        PROVE  PermitExclusive'
    BY <2>3, <2>7 DEF Resume, PollNotified, Notify
  <2>8. ASSUME NEW t \in Tasks,
               Snapshot(t) \/ Commit(t) \/ Conflict(t) \/ Fail(t)
        PROVE  PermitExclusive'
    BY <2>8 DEF Snapshot, Commit, Conflict, Fail
  <2>9. CASE UNCHANGED vars
    BY <2>9 DEF vars
  <2>10. QED
    BY <2>1, <2>2, <2>4, <2>5, <2>6, <2>7, <2>8, <2>9 DEF Next, Step
<1>3. QED
  BY <1>1, <1>2, Typing, PTL DEF Spec

\* A task never sleeps on a free permit with nobody left to wake it.
THEOREM NoWakeupIsLost == Spec => []NoLostWakeup
<1>1. Init => NoLostWakeup
  BY DEF Init, NoLostWakeup, Parked
<1>2. TypeOK /\ NoLostWakeup /\ [Next]_vars => NoLostWakeup'
  <2> SUFFICES ASSUME TypeOK, NoLostWakeup, [Next]_vars
               PROVE  NoLostWakeup'
    OBVIOUS
  <2> USE DEF TypeOK, NoLostWakeup, Goto, Parked
  <2>1. ASSUME NEW x \in Edits, EditDraft(x) PROVE NoLostWakeup'
    BY <2>1 DEF EditDraft
  <2>2. CASE Apply \/ Discard
    BY <2>2 DEF Apply, Discard
  <2>3. ASSUME NEW t \in Tasks, NotifyOne(t, "idle"), pc[t] # "parked"
        PROVE  NoLostWakeup'
    <3>1. "idle" \in Labels
      BY DEF Labels
    <3>2. QED
      BY <2>3, <3>1, NotifyOneEffect
  <2>4. ASSUME NEW t \in Tasks, Call(t) \/ CancelWait(t)
        PROVE  NoLostWakeup'
    BY <2>3, <2>4 DEF Call, CancelWait
  <2>5. ASSUME NEW t \in Tasks, TryFast(t) \/ TrySlow(t)
        PROVE  NoLostWakeup'
    BY <2>5 DEF TryFast, TrySlow, TryAcquire
  <2>6. ASSUME NEW t \in Tasks, Release(t) PROVE NoLostWakeup'
    BY <2>6 DEF Release
  <2>7. ASSUME NEW t \in Tasks, PollNotified(t) PROVE NoLostWakeup'
    BY <2>7 DEF PollNotified
  <2>8. ASSUME NEW t \in Tasks, Resume(t) \/ Notify(t) PROVE NoLostWakeup'
    BY <2>3, <2>8 DEF Resume, Notify
  <2>9. ASSUME NEW t \in Tasks,
               Snapshot(t) \/ Commit(t) \/ Conflict(t) \/ Fail(t)
        PROVE  NoLostWakeup'
    BY <2>9 DEF Snapshot, Commit, Conflict, Fail
  <2>10. CASE UNCHANGED vars
    BY <2>10 DEF vars
  <2>11. QED
    BY <2>1, <2>2, <2>4, <2>5, <2>6, <2>7, <2>8, <2>9, <2>10 DEF Next, Step
<1>3. QED
  BY <1>1, <1>2, Typing, PTL DEF Spec

-----------------------------------------------------------------------------
(* with_data_modify is atomic.                                             *)

\* While a with_data_modify awaits its closure only apply() can replace the
\* committed value: the other modifiers are kept out by the permit.
THEOREM ModifiersDoNotOvertake == Spec => OnlyApplyOvertakes
<1> DEFINE Overtakes(t) ==
      pc[t] = "closure" /\ pc'[t] = "closure" /\ committed' # committed
        => committed' = draft
<1>1. TypeOK /\ PermitExclusive /\ [Next]_vars
        => [\A t \in Tasks : Overtakes(t)]_vars
  <2> SUFFICES ASSUME TypeOK, PermitExclusive, [Next]_vars,
                      NEW t \in Tasks, pc[t] = "closure", pc'[t] = "closure",
                      committed' # committed
               PROVE  committed' = draft
    OBVIOUS
  <2>1. ASSUME NEW u \in Tasks, Commit(u) PROVE FALSE
    <3>1. u = t
      BY <2>1 DEF Commit, Goto, PermitExclusive, Holds
    <3>2. QED
      BY <2>1, <3>1 DEF Commit, Goto, TypeOK
  <2>2. CASE Apply
    BY <2>2 DEF Apply
  <2>3. CASE Discard \/ \E x \in Edits : EditDraft(x)
    BY <2>3 DEF Discard, EditDraft
  <2>4. ASSUME NEW u \in Tasks, Call(u) \/ CancelWait(u) \/ Step(u)
        PROVE  FALSE
    BY <2>1, <2>4 DEF Call, CancelWait, Step, TryFast, TrySlow, TryAcquire,
       Resume, PollNotified, Snapshot, Conflict, Fail, Release, Notify, cell
  <2>5. CASE UNCHANGED vars
    BY <2>5 DEF vars
  <2>6. QED
    BY <2>2, <2>3, <2>4, <2>5 DEF Next
<1>2. QED
  BY <1>1, Typing, Exclusion, PTL DEF Spec, OnlyApplyOvertakes

\* The cell with its permit, pointers and interleaved steps implements the
\* cell whose modification is one atomic step.
THEOREM CellIsAtomic == Spec => AtomicCell
<1> USE DEF Abs!Latest, Latest
<1>1. Init => Abs!Init
  BY DEF Init, Abs!Init
<1>2. TypeOK /\ PointerIsValue /\ [Next]_vars => [Abs!Next]_(Abs!avars)
  <2> SUFFICES ASSUME TypeOK, PointerIsValue, [Next]_vars
               PROVE  Abs!Next \/ UNCHANGED Abs!avars
    OBVIOUS
  <2> USE DEF TypeOK, Changes
  <2>1. ASSUME NEW x \in Edits, EditDraft(x) PROVE Abs!Edit(x)
    <3>0. Latest.val \union {x} \in SUBSET Changes
      BY ArcFields
    <3>1. draft' # None /\ draft'.val = Latest.val \union {x}
      <4>1. CASE draft = None
        BY <2>1, <4>1, <3>0, NoneAssumption, ArcFields DEF EditDraft
      <4>2. CASE draft # None
        <5>1. PICK i \in Nat : draft' = [id |-> i, val |-> Latest.val \union {x}]
          BY <2>1, <4>2, ArcFields DEF EditDraft
        <5>2. QED
          BY <5>1, <3>0, NoneAssumption, ArcFields
      <4>3. QED
        BY <4>1, <4>2
    <3>2. QED
      BY <2>1, <3>1 DEF EditDraft, Abs!Edit
  <2>2. CASE Apply
    BY <2>2 DEF Apply, Abs!Apply, Abs!Next
  <2>3. CASE Discard
    BY <2>3 DEF Discard, Abs!Discard, Abs!Next
  <2>4. ASSUME NEW t \in Tasks, Commit(t) PROVE Abs!Modify(t)
    <3>1. original_arc[t] = committed
      BY <2>4 DEF Commit, Goto, PointerIsValue
    <3>2. QED
      BY <2>4, <3>1 DEF Commit, Abs!Modify
  <2>5. ASSUME NEW t \in Tasks, Call(t) \/ CancelWait(t) \/ Step(t),
               ~Commit(t)
        PROVE  UNCHANGED Abs!avars
    BY <2>5 DEF Call, CancelWait, Step, TryFast, TrySlow, TryAcquire, Resume,
       PollNotified, Snapshot, Conflict, Fail, Release, Notify, cell, Abs!avars
  <2>6. CASE UNCHANGED vars
    BY <2>6 DEF vars, Abs!avars
  <2>7. QED
    BY <2>1, <2>2, <2>3, <2>4, <2>5, <2>6 DEF Next, Abs!Next
<1>3. QED
  BY <1>1, <1>2, Typing, PointersCompareValues, PTL
  DEF Spec, AtomicCell, Abs!Spec
=============================================================================
