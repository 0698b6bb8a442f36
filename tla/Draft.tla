------------------------------- MODULE Draft --------------------------------
(***************************************************************************)
(* Draft<T>, the two-slot configuration cell every store of the program is *)
(* kept in (crates/clash-verge-draft/src/lib.rs).                          *)
(*                                                                         *)
(* The committed value and the optional draft are reference-counted        *)
(* snapshots: a record of the identity of the Arc and of the changes the   *)
(* value holds.  edit_draft, apply and discard run under the data mutex    *)
(* and are one step each.  with_data_modify takes the modify permit,       *)
(* snapshots the committed value, awaits its closure without the mutex and *)
(* commits only if the snapshot is still the committed Arc; it can be      *)
(* dropped (cancelled) at each await.  The permit is an atomic flag and a  *)
(* tokio Notify.                                                           *)
(***************************************************************************)
EXTENDS Naturals

CONSTANTS
  Tasks,      \* callers of with_data_modify; a task's change is its name
  Edits,      \* changes made through edit_draft
  None,       \* the None of the draft slot, and of a local that is not live
  MaxArcs,    \* bound: Arcs allocated in a behaviour
  MaxCalls    \* bound: with_data_modify calls of one task

Changes == Tasks \union Edits
Arc == [id : Nat, val : SUBSET Changes]

ASSUME NoneAssumption == None \notin Arc
ASSUME BoundsAssumption == MaxArcs \in Nat /\ MaxCalls \in Nat

VARIABLES
  committed,       \* DraftData.0
  draft,           \* DraftData.1
  nextId,          \* identity the next allocated Arc gets
  data_modifying,  \* the permit flag
  stored,          \* the single permit a tokio Notify can store
  pc,              \* where each task is inside with_data_modify
  original_arc,    \* the snapshot each task took of the committed Arc
  calls            \* calls made so far, bounded by MaxCalls

vars == <<committed, draft, nextId, data_modifying, stored, pc,
          original_arc, calls>>
cell == <<committed, draft, nextId>>

Labels == {"idle", "fast", "yield", "slow", "poll", "parked", "woken",
           "acquired", "closure", "release", "notify"}

Init ==
  /\ committed = [id |-> 0, val |-> {}]
  /\ draft = None
  /\ nextId = 1
  /\ data_modifying = FALSE
  /\ stored = FALSE
  /\ pc = [t \in Tasks |-> "idle"]
  /\ original_arc = [t \in Tasks |-> None]
  /\ calls = [t \in Tasks |-> 0]

Goto(t, from, to) ==
  /\ pc[t] = from
  /\ pc' = [pc EXCEPT ![t] = to]

-----------------------------------------------------------------------------
(* The synchronous operations, each under the data mutex.                  *)

\* What latest_arc() returns.
Latest == IF draft = None THEN committed ELSE draft

\* Arc::make_mut copies a shared Arc: always when the draft is the committed
\* Arc, and when a reader still holds the draft; otherwise it edits in place.
EditDraft(x) ==
  /\ nextId < MaxArcs
  /\ \E shared \in {TRUE} \union (IF draft = None THEN {} ELSE {FALSE}) :
       /\ draft' = [id  |-> IF shared THEN nextId ELSE draft.id,
                    val |-> Latest.val \union {x}]
       /\ nextId' = IF shared THEN nextId + 1 ELSE nextId
  /\ UNCHANGED <<committed, data_modifying, stored, pc, original_arc, calls>>

Apply ==
  /\ draft # None
  /\ committed' = draft
  /\ draft' = None
  /\ UNCHANGED <<nextId, data_modifying, stored, pc, original_arc, calls>>

Discard ==
  /\ draft' = None
  /\ UNCHANGED <<committed, nextId, data_modifying, stored, pc, original_arc,
                 calls>>

-----------------------------------------------------------------------------
(* tokio::sync::Notify, as far as the permit uses it.  Which of the parked *)
(* tasks notify_one wakes is left open.                                    *)

Parked == {t \in Tasks : pc[t] = "parked"}

\* notify_one, called by t, which then is at label `to`.
NotifyOne(t, to) ==
  IF Parked = {}
    THEN /\ stored' = TRUE
         /\ pc' = [pc EXCEPT ![t] = to]
    ELSE /\ \E w \in Parked : pc' = [pc EXCEPT ![t] = to, ![w] = "woken"]
         /\ UNCHANGED stored

\* The first poll of a Notified: it takes a stored permit or parks the task.
PollNotified(t) ==
  /\ Goto(t, "poll", IF stored THEN "slow" ELSE "parked")
  /\ stored' = FALSE
  /\ UNCHANGED <<cell, data_modifying, original_arc, calls>>

-----------------------------------------------------------------------------
(* with_data_modify.                                                       *)

Call(t) ==
  /\ calls[t] < MaxCalls
  /\ calls' = [calls EXCEPT ![t] = @ + 1]
  /\ Goto(t, "idle", "fast")
  /\ UNCHANGED <<cell, data_modifying, stored, original_arc>>

\* Mutant of TryAcquire: a plain store instead of the compare-exchange.
AcquireAlways(t, from, otherwise) ==
  /\ Goto(t, from, "acquired")
  /\ data_modifying' = TRUE
  /\ UNCHANGED <<cell, stored, original_arc, calls>>

\* The compare-exchange; on failure the task goes on at `otherwise`.
TryAcquire(t, from, otherwise) ==
  /\ Goto(t, from, IF data_modifying THEN otherwise ELSE "acquired")
  /\ data_modifying' = TRUE
  /\ UNCHANGED <<cell, stored, original_arc, calls>>

TryFast(t) == TryAcquire(t, "fast", "yield")

\* Mutant of Resume: a notification is taken for the permit itself.
ResumeHolding(t) ==
  /\ pc[t] \in {"yield", "woken"}
  /\ pc' = [pc EXCEPT ![t] = IF pc[t] = "woken" THEN "acquired" ELSE "slow"]
  /\ UNCHANGED <<cell, data_modifying, stored, original_arc, calls>>

\* Back from yield_now, or woken: `notified` is created anew and the loop
\* tries the permit again before it awaits.
Resume(t) ==
  /\ pc[t] \in {"yield", "woken"}
  /\ pc' = [pc EXCEPT ![t] = "slow"]
  /\ UNCHANGED <<cell, data_modifying, stored, original_arc, calls>>

TrySlow(t) == TryAcquire(t, "slow", "poll")

Snapshot(t) ==
  /\ Goto(t, "acquired", "closure")
  /\ original_arc' = [original_arc EXCEPT ![t] = committed]
  /\ UNCHANGED <<cell, data_modifying, stored, calls>>

\* Mutant of Commit: the committed Arc is not compared with the snapshot.
CommitBlindly(t) ==
  /\ Goto(t, "closure", "release")
  /\ nextId < MaxArcs
  /\ committed' = [id |-> nextId, val |-> original_arc[t].val \union {t}]
  /\ nextId' = nextId + 1
  /\ UNCHANGED <<draft, data_modifying, stored, original_arc, calls>>

\* f(local) returned Ok and the committed Arc is the one snapshotted.
Commit(t) ==
  /\ Goto(t, "closure", "release")
  /\ nextId < MaxArcs
  /\ committed.id = original_arc[t].id
  /\ committed' = [id |-> nextId, val |-> original_arc[t].val \union {t}]
  /\ nextId' = nextId + 1
  /\ UNCHANGED <<draft, data_modifying, stored, original_arc, calls>>

\* f(local) returned Ok, but the committed Arc was replaced meanwhile.
Conflict(t) ==
  /\ Goto(t, "closure", "release")
  /\ committed.id # original_arc[t].id
  /\ UNCHANGED <<cell, data_modifying, stored, original_arc, calls>>

\* Mutant of Fail: the error path leaves the permit taken.
FailHolding(t) ==
  /\ Goto(t, "closure", "idle")
  /\ UNCHANGED <<cell, data_modifying, stored, original_arc, calls>>

\* f(local) returned Err, or the future was dropped while f was awaited.
Fail(t) ==
  /\ Goto(t, "closure", "release")
  /\ UNCHANGED <<cell, data_modifying, stored, original_arc, calls>>

\* Mutant of Release: the flag is cleared and nobody notified.
ReleaseSilently(t) ==
  /\ Goto(t, "release", "idle")
  /\ original_arc' = [original_arc EXCEPT ![t] = None]
  /\ data_modifying' = FALSE
  /\ UNCHANGED <<cell, stored, calls>>

\* The locals go first, then the permit: the flag before the notification.
Release(t) ==
  /\ Goto(t, "release", "notify")
  /\ original_arc' = [original_arc EXCEPT ![t] = None]
  /\ data_modifying' = FALSE
  /\ UNCHANGED <<cell, stored, calls>>

Notify(t) ==
  /\ pc[t] = "notify"
  /\ NotifyOne(t, "idle")
  /\ UNCHANGED <<cell, data_modifying, original_arc, calls>>

\* The future is dropped while it waits for the permit.  A Notified that was
\* chosen by notify_one and never polled again passes the notification on.
CancelWait(t) ==
  /\ \/ /\ pc[t] \in {"yield", "parked"}
        /\ pc' = [pc EXCEPT ![t] = "idle"]
        /\ UNCHANGED stored
     \/ /\ pc[t] = "woken"
        /\ NotifyOne(t, "idle")
  /\ UNCHANGED <<cell, data_modifying, original_arc, calls>>

-----------------------------------------------------------------------------

\* What a task does on its own once it called with_data_modify.
Step(t) ==
  \/ TryFast(t)
  \/ Resume(t)
  \/ TrySlow(t)
  \/ PollNotified(t)
  \/ Snapshot(t)
  \/ Commit(t)
  \/ Conflict(t)
  \/ Fail(t)
  \/ Release(t)
  \/ Notify(t)

Next ==
  \/ \E x \in Edits : EditDraft(x)
  \/ Apply
  \/ Discard
  \/ \E t \in Tasks : Call(t) \/ CancelWait(t) \/ Step(t)

Spec == Init /\ [][Next]_vars

\* The runtime polls every task that can run, and the closures return.  Whether
\* a task that looks finds the permit free is left to chance.
FairSpec == Spec /\ \A t \in Tasks : WF_vars(Step(t))

-----------------------------------------------------------------------------

TypeOK ==
  /\ committed \in Arc
  /\ draft \in Arc \union {None}
  /\ nextId \in Nat
  /\ data_modifying \in BOOLEAN
  /\ stored \in BOOLEAN
  /\ pc \in [Tasks -> Labels]
  /\ original_arc \in [Tasks -> Arc \union {None}]
  /\ calls \in [Tasks -> Nat]

Holds(t) == pc[t] \in {"acquired", "closure", "release"}

\* DataModifyPermit is exclusive: of the tasks that went through the
\* compare-exchange and have not dropped their permit there is at most one,
\* and the flag says whether there is one.
PermitExclusive ==
  /\ data_modifying <=> \E t \in Tasks : Holds(t)
  /\ \A t, u \in Tasks : Holds(t) /\ Holds(u) => t = u

\* No lost wakeup: while a task is parked on the Notify of a permit nobody
\* holds, or is about to park there, some task is on its way to try the permit
\* again or to notify, whatever the order in which the flag, the stored
\* notification, the first poll and the drop of a waiter come.
NoLostWakeup ==
  /\ stored => Parked = {}
  /\ ~data_modifying /\ (\E t \in Tasks : pc[t] \in {"poll", "parked"})
     => stored \/ \E t \in Tasks : pc[t] \in {"slow", "woken", "notify"}

\* Comparing pointers compares values: the draft never shares its Arc with the
\* committed slot or with a snapshot a with_data_modify still holds, so an
\* edit in place shows through neither, and a snapshot that is still the
\* committed Arc has the committed value.
PointerIsValue ==
  /\ committed.id < nextId
  /\ draft # None => draft.id < nextId /\ draft.id # committed.id
  /\ \A t \in Tasks : pc[t] = "closure" =>
       /\ original_arc[t] # None
       /\ original_arc[t].id < nextId
       /\ draft # None => draft.id # original_arc[t].id
       /\ original_arc[t].id = committed.id => original_arc[t] = committed

\* A with_data_modify that is in flight is overtaken by apply() only: the
\* committed Arc does not change under it in any other way, so its
\* "Optimistic lock failed" never comes from another with_data_modify.
OnlyApplyOvertakes ==
  [][\A t \in Tasks : pc[t] = "closure" /\ pc'[t] = "closure"
       /\ committed' # committed => committed' = draft]_vars

\* The value a successful with_data_modify commits is the value committed at
\* that moment plus its own change, and a failed or cancelled one leaves no
\* trace: the cell implements the one where modifying is one atomic step.
Abs == INSTANCE DraftAbs WITH
         committed <- committed.val,
         draft <- IF draft = None THEN {} ELSE {draft.val}
AtomicCell == Abs!Spec

\* Every call of with_data_modify returns, as long as calls stop coming: the fast
\* path takes the permit before a task that was woken for it looks, so a call
\* waits for others that began after it.  Each task has MaxCalls of them; without
\* that bound nothing in the cell keeps a task from being overtaken for ever.
\* What is shown is that no wake-up is lost on the way and that no permit is kept.
EveryCallReturns ==
  \A t \in Tasks : pc[t] # "idle" ~> pc[t] = "idle"
=============================================================================
