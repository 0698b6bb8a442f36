------------------------------ MODULE DraftAbs ------------------------------
(***************************************************************************)
(* What Draft<T> (crates/clash-verge-draft) promises its callers: a        *)
(* committed value and at most one draft of it, edited, applied, discarded *)
(* and modified in single steps.  A value is the set of changes it holds,  *)
(* so a change that gets lost is a change missing from the set.            *)
(***************************************************************************)
CONSTANT Changes

VARIABLES
  committed,  \* the set of changes of the committed value
  draft       \* the draft: the set of no value, or of one

avars == <<committed, draft>>

Init ==
  /\ committed = {}
  /\ draft = {}

\* What a reader of latest_arc() sees.
Latest == IF draft = {} THEN committed ELSE UNION draft

Edit(x) ==
  /\ draft' = {Latest \union {x}}
  /\ UNCHANGED committed

Apply ==
  /\ draft # {}
  /\ committed' = UNION draft
  /\ draft' = {}

Discard ==
  /\ draft' = {}
  /\ UNCHANGED committed

\* with_data_modify, from the read of the committed value to its
\* replacement, as one step: nothing that was committed is lost by it.
Modify(x) ==
  /\ committed' = committed \union {x}
  /\ UNCHANGED draft

Next ==
  \/ \E x \in Changes : Edit(x) \/ Modify(x)
  \/ Apply
  \/ Discard

Spec == Init /\ [][Next]_avars
=============================================================================
