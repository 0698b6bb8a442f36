--------------------------- MODULE RuntimeProofs ----------------------------
(***************************************************************************)
(* Proofs about RuntimeConfig.  What makes an update atomic is an account  *)
(* of how far it has come: what it may still assume of the draft, of what  *)
(* it read, of the file and of the core, as long as it was left alone.     *)
(***************************************************************************)
EXTENDS RuntimeConfig, TLAPS

\* What kind of call can be where.
Places ==
  /\ op[Boot] = "start"
  /\ pc[Boot] \notin {"touch", "enter", "edit", "reload", "apply", "discard"}
  /\ \A p \in Callers :
       /\ pc[p] \in {"touch", "enter", "edit", "validate", "check", "test",
                     "reload", "apply", "discard"} => op[p] \in Flagged
       /\ pc[p] \in {"edit", "validate", "check", "test", "reload", "apply",
                     "discard"} => op[p] \in Updates
       /\ pc[p] \in {"read", "save"} => lifecycle_lock = p \/ op[p] \in Updates
       /\ pc[p] = "generate" => op[p] \in Updates \union {"regenerate"}
       /\ pc[p] \notin {"default", "save_default", "verify"}
  /\ \A p \in Procs :
       /\ lifecycle_lock = p => pc[p] \in {"locked", "read", "save", "spawn"}
       /\ pc[p] \in {"locked", "spawn"} => lifecycle_lock = p

\* The flag excludes.
FlagHeld ==
  /\ \A p \in Procs : HasFlag(p) => config_update_in_progress
  /\ \A p, q \in Procs : HasFlag(p) /\ HasFlag(q) => p = q

\* An empty draft does not hide a configuration.
NothingHidden == draft = Missing => committed = Missing

\* How far an update that was left alone has come.
UpdateStage(p) ==
  /\ pc[p] \in {"validate", "check", "test"} => draft # None
  /\ pc[p] = "test" => buf[p] = draft
  /\ pc[p] \in {"read", "save", "reload", "lock", "locked", "spawn", "apply"} =>
       draft \in Valid
  /\ pc[p] = "save" => buf[p] = draft
  /\ pc[p] \in {"reload", "spawn"} => run_file = draft
  /\ pc[p] = "apply" => core \in {draft, None}

LeftAlone ==
  \A p \in Procs : alone[p] /\ HasFlag(p) /\ op[p] \in Updates => UpdateStage(p)

-----------------------------------------------------------------------------
(* Types.                                                                  *)

LEMMA InitTypes == Init => TypeOK
<1> SUFFICES ASSUME Init PROVE TypeOK
  OBVIOUS
<1> USE ConfigsAssumption, ProcsAssumption, KindsAssumption, SwitchesAssumption,
        MissingAssumption
<1>1. alone \in [Procs -> BOOLEAN]
  BY DEF Init
<1>2. /\ pc \in [Procs -> Labels]
      /\ op \in [Procs -> Flagged \union {"restart", "regenerate", "start"}]
  BY DEF Init, Labels
<1>3. buf \in [Procs -> Configs \union {None}]
  BY DEF Init
<1>4. /\ committed \in Configs \union {Missing}
      /\ draft \in Configs \union {Missing, None}
      /\ run_file \in Configs \union {None}
      /\ core \in Valid \union {None}
  BY DEF Init
<1>5. calls \in 0..MaxCalls
  BY DEF Init
<1>6. started \in BOOLEAN
  BY Zenon DEF Init
<1>7. QED
  BY <1>1, <1>2, <1>3, <1>4, <1>5, <1>6 DEF Init, TypeOK

LEMMA WhatIsLatest ==
  TypeOK => /\ Latest \in Configs \union {Missing}
            /\ AtHand \in Configs \union {Missing}
BY DEF TypeOK, Latest, AtHand

LEMMA NextTypes ==
  TypeOK /\ LateOK /\ [Next]_vars => TypeOK'
<1> SUFFICES ASSUME TypeOK, LateOK, [Next]_vars PROVE TypeOK'
  OBVIOUS
<1> USE ConfigsAssumption, ProcsAssumption, KindsAssumption, SwitchesAssumption,
        MissingAssumption,
        WhatIsLatest DEF TypeOK, Procs, Labels, Flagged, Updates, Generated, Goto, Interfere,
            HasFlag, Return, cell, world, locks
<1>1. ASSUME NEW p \in Callers, NEW kind \in Kinds, Call(p, kind)
      PROVE  TypeOK'
  BY <1>1 DEF Call
<1>2. ASSUME NEW p \in Callers, Timeout(p)
      PROVE  TypeOK'
  BY <1>2 DEF Timeout
<1>3. ASSUME NEW p \in Procs, Step(p)
      PROVE  TypeOK'
  <2>0. ASSUME FileFails(p) PROVE TypeOK'
    <3>1. config_update_in_progress' \in BOOLEAN
      BY <2>0 DEF FileFails, EndStart
    <3>2. pc' \in [Procs -> Labels] /\ lifecycle_lock' \in Procs \union {None}
      BY <2>0 DEF FileFails, EndStart
    <3>3. buf' \in [Procs -> Configs \union {None}]
      BY <2>0 DEF FileFails
    <3>4. QED
      BY <2>0, <3>1, <3>2, <3>3 DEF FileFails
  <2>1. CASE Touch(p)
    BY <2>1 DEF Touch, Edit
  <2>2. CASE Enter(p)
    <3>1. config_update_in_progress' \in BOOLEAN
      BY <2>2 DEF Enter
    <3>2. is_processing' \in BOOLEAN
      BY <2>2 DEF Enter
    <3>3. alone' \in [Procs -> BOOLEAN]
      BY <2>2 DEF Enter
    <3>4. buf' \in [Procs -> Configs \union {None}]
      BY <2>2 DEF Enter
    <3>5. pc' \in [Procs -> Labels] /\ lifecycle_lock' \in Procs \union {None}
      BY <2>2 DEF Enter
    <3>6. QED
      BY <2>2, <3>1, <3>2, <3>3, <3>4, <3>5 DEF Enter
  <2>3. CASE EditInUpdate(p)
    BY <2>3 DEF EditInUpdate, Edit
  <2>4. CASE Generate(p)
    BY <2>4 DEF Generate
  <2>5. CASE GenerateFails(p)
    BY <2>5 DEF GenerateFails
  <2>6. CASE Validate(p)
    BY <2>6 DEF Validate, Reject
  <2>7. CASE Check(p)
    <3>1. config_update_in_progress' \in BOOLEAN
      BY <2>7 DEF Check, Reject
    <3>2. is_processing' \in BOOLEAN
      BY <2>7 DEF Check, Reject
    <3>3. alone' \in [Procs -> BOOLEAN]
      BY <2>7 DEF Check, Reject
    <3>4. buf' \in [Procs -> Configs \union {None}]
      BY <2>7 DEF Check, Reject
    <3>5. pc' \in [Procs -> Labels] /\ lifecycle_lock' \in Procs \union {None}
      BY <2>7 DEF Check, Reject
    <3>6. QED
      BY <2>7, <3>1, <3>2, <3>3, <3>4, <3>5 DEF Check, Reject
  <2>8. CASE Test(p)
    <3>1. config_update_in_progress' \in BOOLEAN
      BY <2>8 DEF Test, Reject
    <3>2. is_processing' \in BOOLEAN
      BY <2>8 DEF Test, Reject
    <3>3. alone' \in [Procs -> BOOLEAN]
      BY <2>8 DEF Test, Reject
    <3>4. buf' \in [Procs -> Configs \union {None}]
      BY <2>8 DEF Test, Reject
    <3>5. pc' \in [Procs -> Labels] /\ lifecycle_lock' \in Procs \union {None}
      BY <2>8 DEF Test, Reject
    <3>6. QED
      BY <2>8, <3>1, <3>2, <3>3, <3>4, <3>5 DEF Test, Reject
  <2>9. CASE Read(p)
    <3>1. CASE AtHand = Missing
      BY <2>0, <2>9, <3>1 DEF Read
    <3>2. CASE AtHand # Missing
      BY <2>9, <3>2 DEF Read
    <3>3. QED
      BY <3>1, <3>2
  <2>10. CASE Save(p)
    <3>1. CASE FileFails(p)
      BY <2>0, <3>1
    <3>2. CASE ~FileFails(p)
      <4>1. pc[p] = "save" /\ run_file' = buf[p] /\ Interfere(p)
        BY <2>10, <3>2 DEF Save
      <4>2. /\ buf' = [buf EXCEPT ![p] = None]
            /\ \E l \in {"spawn", "validate", "reload"} : Goto(p, l)
            /\ UNCHANGED <<cell, core, started, locks, op, calls>>
        BY <2>10, <3>2 DEF Save
      <4>3. QED
        BY <4>1, <4>2
    <3>3. QED
      BY <3>1, <3>2
  <2>11. CASE Reload(p)
    BY <2>11 DEF Reload
  <2>12. CASE Lock(p)
    BY <2>12 DEF Lock
  <2>13. CASE StartAgain(p)
    BY <2>13 DEF StartAgain
  <2>14. CASE Stop(p)
    BY <2>14 DEF Stop
  <2>15. CASE StopFailed(p)
    <3>1. config_update_in_progress' \in BOOLEAN
      BY <2>15 DEF StopFailed, EndStart
    <3>2. pc' \in [Procs -> Labels] /\ lifecycle_lock' \in Procs \union {None}
      BY <2>15 DEF StopFailed, EndStart
    <3>3. core' \in Valid \union {None} /\ started' = FALSE
      BY <2>15 DEF StopFailed
    <3>4. alone' \in [Procs -> BOOLEAN]
      BY <2>15 DEF StopFailed
    <3>5. QED
      BY <2>15, <3>1, <3>2, <3>3, <3>4 DEF StopFailed
  <2>16. CASE Spawn(p)
    <3>1. config_update_in_progress' \in BOOLEAN
      BY <2>16 DEF Spawn, EndStart
    <3>2. pc' \in [Procs -> Labels] /\ lifecycle_lock' \in Procs \union {None}
      BY <2>16 DEF Spawn, EndStart
    <3>3. core' \in Valid \union {None} /\ started' = TRUE
      BY <2>16 DEF Spawn
    <3>4. alone' \in [Procs -> BOOLEAN]
      BY <2>16 DEF Spawn
    <3>5. QED
      BY <2>16, <3>1, <3>2, <3>3, <3>4 DEF Spawn
  <2>17. CASE SpawnFails(p)
    BY <2>0, <2>17 DEF SpawnFails
  <2>18. CASE Apply(p)
    BY <2>18 DEF Apply
  <2>19. CASE Discard(p)
    BY <2>19 DEF Discard
  <2>20. QED
    BY <1>3, <2>1, <2>2, <2>3, <2>4, <2>5, <2>6, <2>7, <2>8, <2>9, <2>10,
       <2>11, <2>12, <2>13, <2>14, <2>15, <2>16, <2>17, <2>18, <2>19 DEF Step
<1>4. CASE UseDefault
  BY <1>4 DEF UseDefault
<1>5. CASE SaveDefault
  <2>1. \/ alone' = [q \in Procs |-> q = Boot /\ alone[q]]
        \/ alone' = alone
    BY <1>5 DEF SaveDefault
  <2>2. alone' \in [Procs -> BOOLEAN]
    <3>1. CASE alone' = [q \in Procs |-> q = Boot /\ alone[q]]
      BY <3>1
    <3>2. CASE alone' = alone
      BY <3>2
    <3>3. QED
      BY <2>1, <3>1, <3>2
  <2>3. run_file' \in Configs \union {None} /\ pc' \in [Procs -> Labels]
    BY <1>5 DEF SaveDefault
  <2>4. QED
    BY <1>5, <2>2, <2>3 DEF SaveDefault
<1>6. CASE Verify
  <2>1. draft' \in Configs \union {Missing, None}
    BY <1>6 DEF Verify
  <2>2. alone' \in [Procs -> BOOLEAN]
    <3>1. \/ alone' = [q \in Procs |-> q = Boot /\ alone[q]]
          \/ alone' = alone
      BY <1>6 DEF Verify
    <3>2. CASE alone' = [q \in Procs |-> q = Boot /\ alone[q]]
      BY <3>2
    <3>3. CASE alone' = alone
      BY <3>3
    <3>4. QED
      BY <3>1, <3>2, <3>3
  <2>3. pc' \in [Procs -> Labels]
    BY <1>6 DEF Verify
  <2>4. QED
    BY <1>6, <2>1, <2>2, <2>3 DEF Verify
<1>7. CASE CoreDies
  BY <1>7 DEF CoreDies
<1>8. ASSUME NEW write \in late, WriteLands(write)
      PROVE  TypeOK'
  <2>1. write[2] \in Configs \union {None}
    BY DEF LateOK
  <2>2. run_file' \in Configs \union {None}
    BY <1>8, <2>1 DEF WriteLands
  <2>3. buf' \in [Procs -> Configs \union {None}]
    BY <1>8, <2>1 DEF WriteLands
  <2>4. alone' \in [Procs -> BOOLEAN]
    BY <1>8 DEF WriteLands
  <2>5. QED
    BY <1>8, <2>2, <2>3, <2>4 DEF WriteLands
<1>9. CASE UNCHANGED vars
  BY <1>9 DEF vars
<1>10. QED
  BY <1>1, <1>2, <1>3, <1>4, <1>5, <1>6, <1>7, <1>8, <1>9 DEF Next, BootStep

LEMMA InitLate == Init => LateOK
BY DEF Init, LateOK

LEMMA NextLate ==
  TypeOK /\ LateOK /\ [Next]_vars => LateOK'
<1> SUFFICES ASSUME TypeOK, LateOK, [Next]_vars PROVE LateOK'
  OBVIOUS
<1>1. ASSUME NEW p \in Callers, Timeout(p)
      PROVE  LateOK'
  <2>1. AtHand \in Configs \union {Missing}
    BY WhatIsLatest
  <2>2. buf[p] \in Configs \union {None}
    BY DEF TypeOK, Procs
  <2>3. Timeouts
    BY <1>1 DEF Timeout
  <2>4. \/ late' = late \union {<<"run", buf[p]>>}
        \/ AtHand # Missing /\ late' = late \union {<<"check", AtHand>>}
        \/ late' = late
    BY <1>1 DEF Timeout
  <2>5. QED
    BY <2>1, <2>2, <2>3, <2>4 DEF LateOK
<1>2. ASSUME NEW write \in late, WriteLands(write)
      PROVE  LateOK'
  BY <1>2 DEF WriteLands, LateOK
<1>3. CASE UNCHANGED late
  BY <1>3 DEF LateOK
<1>4. QED
  BY <1>1, <1>2, <1>3 DEF Next, vars

\* Every operation keeps the types: the core never runs with what it does not
\* accept, and only an update that was dropped leaves a write behind
\* (core/manager/config.rs, utils/help.rs).
THEOREM Typing == Spec => [](TypeOK /\ LateOK)
<1>1. QED
  BY InitTypes, InitLate, NextTypes, NextLate, PTL DEF Spec

-----------------------------------------------------------------------------
(* Who is where.                                                           *)

LEMMA InitPlaces == Init => Places /\ FlagHeld /\ NothingHidden
<1> SUFFICES ASSUME Init PROVE Places /\ FlagHeld /\ NothingHidden
  OBVIOUS
<1> USE ConfigsAssumption, ProcsAssumption, KindsAssumption, SwitchesAssumption,
        MissingAssumption
<1>1. \A p \in Procs : pc[p] = "idle" \/ (p = Boot /\ pc[p] = "generate")
  BY DEF Init, Procs
<1>2. \A p \in Procs : op[p] = "start"
  BY DEF Init
<1>3. Places
  BY <1>1, <1>2 DEF Places, Init, Procs
<1>4. FlagHeld
  BY <1>1, <1>2 DEF FlagHeld, HasFlag, Flagged, Updates
<1>5. NothingHidden
  BY DEF Init, NothingHidden
<1>6. QED
  BY <1>3, <1>4, <1>5

LEMMA NextPlaces ==
  TypeOK /\ Places /\ [Next]_vars => Places'
<1> SUFFICES ASSUME TypeOK, Places, [Next]_vars PROVE Places'
  OBVIOUS
<1> USE ConfigsAssumption, ProcsAssumption, KindsAssumption, SwitchesAssumption,
        MissingAssumption DEF TypeOK, Places, Procs, Flagged, Updates, Goto, Return, cell, world,
            locks
<1>1. ASSUME NEW p \in Callers, NEW kind \in Kinds, Call(p, kind)
      PROVE  Places'
  BY <1>1 DEF Call
<1>2. ASSUME NEW p \in Callers, Timeout(p)
      PROVE  Places'
  BY <1>2 DEF Timeout
<1>3. ASSUME NEW p \in Procs, Step(p)
      PROVE  Places'
  <2>1. CASE Touch(p)
    BY <2>1 DEF Touch, Edit
  <2>2. CASE Enter(p)
    BY <2>2 DEF Enter
  <2>3. CASE EditInUpdate(p)
    BY <2>3 DEF EditInUpdate, Edit
  <2>4. CASE Generate(p)
    BY <2>4 DEF Generate
  <2>5. CASE GenerateFails(p)
    BY <2>5 DEF GenerateFails
  <2>6. CASE Validate(p)
    BY <2>6 DEF Validate, Reject
  <2>7. CASE Check(p)
    BY <2>7 DEF Check, Reject
  <2>8. CASE Test(p)
    BY <2>8 DEF Test, Reject
  <2>9. CASE Read(p)
    BY <2>9 DEF Read, FileFails, EndStart
  <2>10. CASE Save(p)
    BY <2>10 DEF Save, FileFails, EndStart
  <2>11. CASE Reload(p)
    BY <2>11 DEF Reload
  <2>12. CASE Lock(p)
    BY <2>12 DEF Lock
  <2>13. CASE StartAgain(p)
    BY <2>13 DEF StartAgain
  <2>14. CASE Stop(p)
    BY <2>14 DEF Stop
  <2>15. CASE StopFailed(p)
    BY <2>15 DEF StopFailed, EndStart
  <2>16. CASE Spawn(p)
    BY <2>16 DEF Spawn, EndStart
  <2>17. CASE SpawnFails(p)
    BY <2>17 DEF SpawnFails, FileFails, EndStart
  <2>18. CASE Apply(p)
    BY <2>18 DEF Apply
  <2>19. CASE Discard(p)
    BY <2>19 DEF Discard
  <2>20. QED
    BY <1>3, <2>1, <2>2, <2>3, <2>4, <2>5, <2>6, <2>7, <2>8, <2>9, <2>10,
       <2>11, <2>12, <2>13, <2>14, <2>15, <2>16, <2>17, <2>18, <2>19 DEF Step
<1>4. CASE UseDefault
  BY <1>4 DEF UseDefault
<1>5. CASE SaveDefault
  BY <1>5 DEF SaveDefault
<1>6. CASE Verify
  BY <1>6 DEF Verify
<1>7. CASE CoreDies
  BY <1>7 DEF CoreDies
<1>8. ASSUME NEW write \in late, WriteLands(write)
      PROVE  Places'
  BY <1>8 DEF WriteLands
<1>9. CASE UNCHANGED vars
  BY <1>9 DEF vars
<1>10. QED
  BY <1>1, <1>2, <1>3, <1>4, <1>5, <1>6, <1>7, <1>8, <1>9 DEF Next, BootStep

LEMMA NextFlag ==
  TypeOK /\ Places /\ FlagHeld /\ [Next]_vars => FlagHeld'
<1> SUFFICES ASSUME TypeOK, Places, FlagHeld, [Next]_vars PROVE FlagHeld'
  OBVIOUS
<1> USE ConfigsAssumption, ProcsAssumption, KindsAssumption, SwitchesAssumption,
        MissingAssumption DEF TypeOK, Places, FlagHeld, HasFlag, Procs, Flagged, Updates, Goto,
            Return, cell, world, locks
<1>1. ASSUME NEW p \in Callers, NEW kind \in Kinds, Call(p, kind)
      PROVE  FlagHeld'
  BY <1>1 DEF Call
<1>2. ASSUME NEW p \in Callers, Timeout(p)
      PROVE  FlagHeld'
  BY <1>2 DEF Timeout
<1>3. ASSUME NEW p \in Procs, Step(p)
      PROVE  FlagHeld'
  <2>1. CASE Touch(p)
    BY <2>1 DEF Touch, Edit
  <2>2. CASE Enter(p)
    BY <2>2 DEF Enter
  <2>3. CASE EditInUpdate(p)
    BY <2>3 DEF EditInUpdate, Edit
  <2>4. CASE Generate(p)
    BY <2>4 DEF Generate
  <2>5. CASE GenerateFails(p)
    BY <2>5 DEF GenerateFails
  <2>6. CASE Validate(p)
    BY <2>6 DEF Validate, Reject
  <2>7. CASE Check(p)
    BY <2>7 DEF Check, Reject
  <2>8. CASE Test(p)
    BY <2>8 DEF Test, Reject
  <2>9. CASE Read(p)
    BY <2>9 DEF Read, FileFails, EndStart
  <2>10. CASE Save(p)
    BY <2>10 DEF Save, FileFails, EndStart
  <2>11. CASE Reload(p)
    BY <2>11 DEF Reload
  <2>12. CASE Lock(p)
    BY <2>12 DEF Lock
  <2>13. CASE StartAgain(p)
    BY <2>13 DEF StartAgain
  <2>14. CASE Stop(p)
    BY <2>14 DEF Stop
  <2>15. CASE StopFailed(p)
    BY <2>15 DEF StopFailed, EndStart
  <2>16. CASE Spawn(p)
    BY <2>16 DEF Spawn, EndStart
  <2>17. CASE SpawnFails(p)
    BY <2>17 DEF SpawnFails, FileFails, EndStart
  <2>18. CASE Apply(p)
    BY <2>18 DEF Apply
  <2>19. CASE Discard(p)
    BY <2>19 DEF Discard
  <2>20. QED
    BY <1>3, <2>1, <2>2, <2>3, <2>4, <2>5, <2>6, <2>7, <2>8, <2>9, <2>10,
       <2>11, <2>12, <2>13, <2>14, <2>15, <2>16, <2>17, <2>18, <2>19 DEF Step
<1>4. CASE UseDefault
  BY <1>4 DEF UseDefault
<1>5. CASE SaveDefault
  BY <1>5 DEF SaveDefault
<1>6. CASE Verify
  BY <1>6 DEF Verify
<1>7. CASE CoreDies
  BY <1>7 DEF CoreDies
<1>8. ASSUME NEW write \in late, WriteLands(write)
      PROVE  FlagHeld'
  BY <1>8 DEF WriteLands
<1>9. CASE UNCHANGED vars
  BY <1>9 DEF vars
<1>10. QED
  BY <1>1, <1>2, <1>3, <1>4, <1>5, <1>6, <1>7, <1>8, <1>9 DEF Next, BootStep

LEMMA NextHidden ==
  TypeOK /\ NothingHidden /\ [Next]_vars => NothingHidden'
<1> SUFFICES ASSUME TypeOK, NothingHidden, [Next]_vars PROVE NothingHidden'
  OBVIOUS
<1> USE ConfigsAssumption, ProcsAssumption, KindsAssumption, SwitchesAssumption,
        MissingAssumption DEF TypeOK, NothingHidden, Generated, Latest, cell, world, locks
<1>1. ASSUME NEW p \in Callers, NEW kind \in Kinds, Call(p, kind)
      PROVE  NothingHidden'
  BY <1>1 DEF Call
<1>2. ASSUME NEW p \in Callers, Timeout(p)
      PROVE  NothingHidden'
  BY <1>2 DEF Timeout
<1>3. ASSUME NEW p \in Procs, Step(p)
      PROVE  NothingHidden'
  <2>1. CASE Touch(p)
    BY <2>1 DEF Touch, Edit
  <2>2. CASE Enter(p)
    BY <2>2 DEF Enter
  <2>3. CASE EditInUpdate(p)
    BY <2>3 DEF EditInUpdate, Edit
  <2>4. CASE Generate(p)
    BY <2>4 DEF Generate
  <2>5. CASE GenerateFails(p)
    BY <2>5 DEF GenerateFails
  <2>6. CASE Validate(p)
    BY <2>6 DEF Validate, Reject
  <2>7. CASE Check(p)
    BY <2>7 DEF Check, Reject
  <2>8. CASE Test(p)
    BY <2>8 DEF Test, Reject
  <2>9. CASE Read(p)
    BY <2>9 DEF Read, FileFails, EndStart
  <2>10. CASE Save(p)
    BY <2>10 DEF Save, FileFails, EndStart
  <2>11. CASE Reload(p)
    BY <2>11 DEF Reload
  <2>12. CASE Lock(p)
    BY <2>12 DEF Lock
  <2>13. CASE StartAgain(p)
    BY <2>13 DEF StartAgain
  <2>14. CASE Stop(p)
    BY <2>14 DEF Stop
  <2>15. CASE StopFailed(p)
    BY <2>15 DEF StopFailed, EndStart
  <2>16. CASE Spawn(p)
    BY <2>16 DEF Spawn, EndStart
  <2>17. CASE SpawnFails(p)
    BY <2>17 DEF SpawnFails, FileFails, EndStart
  <2>18. CASE Apply(p)
    BY <2>18 DEF Apply
  <2>19. CASE Discard(p)
    BY <2>19 DEF Discard
  <2>20. QED
    BY <1>3, <2>1, <2>2, <2>3, <2>4, <2>5, <2>6, <2>7, <2>8, <2>9, <2>10,
       <2>11, <2>12, <2>13, <2>14, <2>15, <2>16, <2>17, <2>18, <2>19 DEF Step
<1>4. CASE UseDefault
  BY <1>4 DEF UseDefault
<1>5. CASE SaveDefault
  BY <1>5 DEF SaveDefault
<1>6. CASE Verify
  BY <1>6 DEF Verify
<1>7. CASE CoreDies
  BY <1>7 DEF CoreDies
<1>8. ASSUME NEW write \in late, WriteLands(write)
      PROVE  NothingHidden'
  BY <1>8 DEF WriteLands
<1>9. CASE UNCHANGED vars
  BY <1>9 DEF vars
<1>10. QED
  BY <1>1, <1>2, <1>3, <1>4, <1>5, <1>6, <1>7, <1>8, <1>9 DEF Next, BootStep

-----------------------------------------------------------------------------
(* What an update may assume.                                              *)

LEMMA InitAlone == Init => LeftAlone
BY ProcsAssumption DEF Init, LeftAlone, HasFlag, Flagged, Updates

LEMMA NextAlone ==
  TypeOK /\ Places /\ NothingHidden /\ LeftAlone /\ [Next]_vars => LeftAlone'
<1> SUFFICES ASSUME TypeOK, Places, NothingHidden, LeftAlone, [Next]_vars PROVE LeftAlone'
  OBVIOUS
<1> USE ConfigsAssumption, ProcsAssumption, KindsAssumption, SwitchesAssumption,
        MissingAssumption DEF TypeOK, Places, NothingHidden, LeftAlone, UpdateStage, HasFlag, Procs,
            Flagged, Updates, Generated, Latest, AtHand, Goto, Return, Interfere,
            cell, world, locks
<1>1. ASSUME NEW p \in Callers, NEW kind \in Kinds, Call(p, kind)
      PROVE  LeftAlone'
  BY <1>1 DEF Call
<1>2. ASSUME NEW p \in Callers, Timeout(p)
      PROVE  LeftAlone'
  BY <1>2 DEF Timeout
<1>3. ASSUME NEW p \in Procs, Step(p)
      PROVE  LeftAlone'
  <2>1. CASE Touch(p)
    BY <2>1 DEF Touch, Edit
  <2>2. CASE Enter(p)
    BY <2>2 DEF Enter
  <2>3. CASE EditInUpdate(p)
    <3>1. draft' # None
      BY <2>3 DEF EditInUpdate, Edit
    <3>2. pc' = [pc EXCEPT ![p] = "validate"] /\ UNCHANGED op
      BY <2>3 DEF EditInUpdate, Edit
    <3>3. \A q \in Procs : alone'[q] => q = p
      BY <2>3 DEF EditInUpdate, Edit
    <3>4. QED
      BY <3>1, <3>2, <3>3
  <2>4. CASE Generate(p)
    <3>1. draft' # None /\ UNCHANGED op
      BY <2>4 DEF Generate
    <3>2. \E l \in {"read", "lock", "validate"} :
             /\ pc' = [pc EXCEPT ![p] = l]
             /\ op[p] \in Updates => l = "validate"
      BY <2>4 DEF Generate
    <3>3. \A q \in Procs : alone'[q] => q = p
      BY <2>4 DEF Generate
    <3>4. QED
      BY <3>1, <3>2, <3>3
  <2>5. CASE GenerateFails(p)
    BY <2>5 DEF GenerateFails
  <2>6. CASE Validate(p)
    BY <2>6 DEF Validate, Reject
  <2>7. CASE Check(p)
    BY <2>7 DEF Check, Reject
  <2>8. CASE Test(p)
    BY <2>8 DEF Test, Reject
  <2>9. CASE Read(p)
    BY <2>9 DEF Read, FileFails, EndStart
  <2>10. CASE Save(p)
    <3>1. CASE FileFails(p)
      BY <2>10, <3>1 DEF Save, FileFails, EndStart
    <3>2. CASE ~FileFails(p)
      <4>1. \A q \in Procs : alone'[q] => q = p /\ alone[p]
        <5>1. alone' = [q \in Procs |-> q = p /\ alone[q]]
          BY <2>10, <3>2 DEF Save
        <5>2. QED
          BY <5>1
      <4>2. /\ pc[p] = "save" /\ run_file' = buf[p]
            /\ \E l \in {"spawn", "validate", "reload"} :
                 /\ pc' = [pc EXCEPT ![p] = l]
                 /\ p \in Callers => l # "validate"
            /\ UNCHANGED <<draft, op>>
        BY <2>10, <3>2 DEF Save
      <4>3. QED
        BY <4>1, <4>2
    <3>3. QED
      BY <3>1, <3>2
  <2>11. CASE Reload(p)
    BY <2>11 DEF Reload
  <2>12. CASE Lock(p)
    BY <2>12 DEF Lock
  <2>13. CASE StartAgain(p)
    BY <2>13 DEF StartAgain
  <2>14. CASE Stop(p)
    BY <2>14 DEF Stop
  <2>15. CASE StopFailed(p)
    BY <2>15 DEF StopFailed, EndStart
  <2>16. CASE Spawn(p)
    <3>1. \A q \in Procs : alone'[q] => q = p /\ alone[p]
      BY <2>16 DEF Spawn
    <3>2. /\ pc[p] = "spawn" /\ core' \in {run_file, None}
          /\ \E l \in {"apply", "idle"} : pc' = [pc EXCEPT ![p] = l]
          /\ UNCHANGED <<draft, op>>
      BY <2>16 DEF Spawn, EndStart
    <3>3. QED
      BY <3>1, <3>2
  <2>17. CASE SpawnFails(p)
    BY <2>17 DEF SpawnFails, FileFails, EndStart
  <2>18. CASE Apply(p)
    BY <2>18 DEF Apply
  <2>19. CASE Discard(p)
    BY <2>19 DEF Discard
  <2>20. QED
    BY <1>3, <2>1, <2>2, <2>3, <2>4, <2>5, <2>6, <2>7, <2>8, <2>9, <2>10,
       <2>11, <2>12, <2>13, <2>14, <2>15, <2>16, <2>17, <2>18, <2>19 DEF Step
<1>4. CASE UseDefault
  BY <1>4 DEF UseDefault
<1>5. CASE SaveDefault
  <2>1. /\ \A q \in Callers : ~alone'[q] \/ UNCHANGED <<run_file, alone>>
        /\ pc' = [pc EXCEPT ![Boot] = "verify"]
        /\ UNCHANGED <<draft, core, buf, op>>
    BY <1>5 DEF SaveDefault
  <2>2. QED
    BY <2>1
<1>6. CASE Verify
  BY <1>6 DEF Verify
<1>7. CASE CoreDies
  BY <1>7 DEF CoreDies
<1>8. ASSUME NEW write \in late, WriteLands(write)
      PROVE  LeftAlone'
  BY <1>8 DEF WriteLands
<1>9. CASE UNCHANGED vars
  BY <1>9 DEF vars
<1>10. QED
  BY <1>1, <1>2, <1>3, <1>4, <1>5, <1>6, <1>7, <1>8, <1>9 DEF Next, BootStep

\* What an update commits is valid, and what the core runs if it runs, unless
\* somebody interfered; from the generation on, through the validation, the
\* reload and a restart.
THEOREM Applied == Spec => []AppliesWhatRuns
<1>1. TypeOK /\ Places /\ FlagHeld /\ NothingHidden /\ [Next]_vars
        => (Places /\ FlagHeld /\ NothingHidden)'
  BY NextPlaces, NextFlag, NextHidden
<1>2. Places /\ LeftAlone => AppliesWhatRuns
  BY DEF Places, LeftAlone, UpdateStage, HasFlag, AppliesWhatRuns, Procs,
         Flagged, Updates
<1>3. QED
  BY Typing, InitPlaces, InitAlone, <1>1, NextAlone, <1>2, PTL DEF Spec

-----------------------------------------------------------------------------
(* Updates alone.                                                          *)

\* Only updates that do not write the cell before they have the flag, that are
\* not dropped, and whose restarts do stop the core.
OnlyUpdates ==
  Kinds \subseteq {"update", "chain"} /\ AfterBoot /\ ~Timeouts /\ ~StopFails

\* Then the one that has the flag is alone.
Quiet ==
  /\ pc[Boot] = "idle"
  /\ \A p \in Procs :
       /\ pc[p] # "idle" => op[p] \in {"update", "chain"}
       /\ pc[p] # "touch"
       /\ HasFlag(p) => alone[p]

\* The core runs what is committed, unless an update has made it reload, is
\* going to restart it, or has done so.
CoreKnown ==
  /\ \A p \in Procs :
       lifecycle_lock = p /\ pc[p] \in {"read", "save", "spawn"} => core = None
  /\ (\A p \in Procs : pc[p] \notin {"lock", "locked", "apply"})
       => (committed # Missing /\ core # None => core = committed)

LEMMA InitQuiet == OnlyUpdates /\ Init => Quiet /\ CoreKnown
BY ProcsAssumption
   DEF OnlyUpdates, Init, Quiet, CoreKnown, HasFlag, Procs

LEMMA NextQuiet ==
  OnlyUpdates /\ TypeOK /\ Places /\ FlagHeld /\ Quiet /\ LateOK /\ [Next]_vars => Quiet'
<1> SUFFICES ASSUME OnlyUpdates, TypeOK, Places, FlagHeld, Quiet, LateOK, [Next]_vars PROVE Quiet'
  OBVIOUS
<1> USE ConfigsAssumption, ProcsAssumption, KindsAssumption, SwitchesAssumption,
        MissingAssumption DEF TypeOK, Places, FlagHeld, Quiet, HasFlag, Procs, Flagged, Updates,
            Generated, Goto, Return, Interfere, cell, world, locks, OnlyUpdates
<1>1. ASSUME NEW p \in Callers, NEW kind \in Kinds, Call(p, kind)
      PROVE  Quiet'
  BY <1>1 DEF Call
<1>2. ASSUME NEW p \in Callers, Timeout(p)
      PROVE  Quiet'
  BY <1>2 DEF Timeout
<1>3. ASSUME NEW p \in Procs, Step(p)
      PROVE  Quiet'
  <2>1. CASE Touch(p)
    BY <2>1 DEF Touch
  <2>2. CASE Enter(p)
    BY <2>2 DEF Enter
  <2>3. CASE EditInUpdate(p)
    BY <2>3 DEF EditInUpdate, Edit
  <2>4. CASE Generate(p)
    BY <2>4 DEF Generate
  <2>5. CASE GenerateFails(p)
    BY <2>5 DEF GenerateFails
  <2>6. CASE Validate(p)
    BY <2>6 DEF Validate, Reject
  <2>7. CASE Check(p)
    BY <2>7 DEF Check, Reject
  <2>8. CASE Test(p)
    BY <2>8 DEF Test, Reject
  <2>9. CASE Read(p)
    BY <2>9 DEF Read, FileFails, EndStart
  <2>10. CASE Save(p)
    BY <2>10 DEF Save, FileFails, EndStart
  <2>11. CASE Reload(p)
    BY <2>11 DEF Reload
  <2>12. CASE Lock(p)
    BY <2>12 DEF Lock
  <2>13. CASE StartAgain(p)
    BY <2>13 DEF StartAgain
  <2>14. CASE Stop(p)
    BY <2>14 DEF Stop
  <2>15. CASE StopFailed(p)
    BY <2>15 DEF StopFailed, EndStart
  <2>16. CASE Spawn(p)
    BY <2>16 DEF Spawn, EndStart
  <2>17. CASE SpawnFails(p)
    BY <2>17 DEF SpawnFails, FileFails, EndStart
  <2>18. CASE Apply(p)
    BY <2>18 DEF Apply
  <2>19. CASE Discard(p)
    BY <2>19 DEF Discard
  <2>20. QED
    BY <1>3, <2>1, <2>2, <2>3, <2>4, <2>5, <2>6, <2>7, <2>8, <2>9, <2>10,
       <2>11, <2>12, <2>13, <2>14, <2>15, <2>16, <2>17, <2>18, <2>19 DEF Step
<1>4. CASE UseDefault
  BY <1>4 DEF UseDefault
<1>5. CASE SaveDefault
  BY <1>5 DEF SaveDefault
<1>6. CASE Verify
  BY <1>6 DEF Verify
<1>7. CASE CoreDies
  BY <1>7 DEF CoreDies
<1>8. ASSUME NEW write \in late, WriteLands(write)
      PROVE  Quiet'
  BY <1>8 DEF WriteLands, LateOK
<1>9. CASE UNCHANGED vars
  BY <1>9 DEF vars
<1>10. QED
  BY <1>1, <1>2, <1>3, <1>4, <1>5, <1>6, <1>7, <1>8, <1>9 DEF Next, BootStep

LEMMA NextCore ==
  OnlyUpdates /\ TypeOK /\ Places /\ FlagHeld /\ Quiet /\ LeftAlone /\ CoreKnown /\ [Next]_vars => CoreKnown'
<1> SUFFICES ASSUME OnlyUpdates, TypeOK, Places, FlagHeld, Quiet, LeftAlone, CoreKnown, [Next]_vars PROVE CoreKnown'
  OBVIOUS
<1> USE ConfigsAssumption, ProcsAssumption, KindsAssumption, SwitchesAssumption,
        MissingAssumption DEF TypeOK, Places, FlagHeld, Quiet, HasFlag, Procs, Flagged, Updates,
            Generated, Goto, Return, Interfere, cell, world, locks,
            OnlyUpdates, CoreKnown
<1>1. ASSUME NEW p \in Callers, NEW kind \in Kinds, Call(p, kind)
      PROVE  CoreKnown'
  BY <1>1 DEF Call
<1>2. ASSUME NEW p \in Callers, Timeout(p)
      PROVE  CoreKnown'
  BY <1>2 DEF Timeout
<1>3. ASSUME NEW p \in Procs, Step(p)
      PROVE  CoreKnown'
  <2>1. CASE Touch(p)
    BY <2>1 DEF Touch, Edit
  <2>2. CASE Enter(p)
    BY <2>2 DEF Enter
  <2>3. CASE EditInUpdate(p)
    BY <2>3 DEF EditInUpdate, Edit
  <2>4. CASE Generate(p)
    BY <2>4 DEF Generate
  <2>5. CASE GenerateFails(p)
    BY <2>5 DEF GenerateFails
  <2>6. CASE Validate(p)
    BY <2>6 DEF Validate, Reject
  <2>7. CASE Check(p)
    BY <2>7 DEF Check, Reject
  <2>8. CASE Test(p)
    BY <2>8 DEF Test, Reject
  <2>9. CASE Read(p)
    BY <2>9 DEF Read, FileFails, EndStart
  <2>10. CASE Save(p)
    BY <2>10 DEF Save, FileFails, EndStart
  <2>11. CASE Reload(p)
    BY <2>11 DEF Reload
  <2>12. CASE Lock(p)
    BY <2>12 DEF Lock
  <2>13. CASE StartAgain(p)
    BY <2>13 DEF StartAgain
  <2>14. CASE Stop(p)
    BY <2>14 DEF Stop
  <2>15. CASE StopFailed(p)
    BY <2>15 DEF StopFailed, EndStart
  <2>16. CASE Spawn(p)
    BY <2>16 DEF Spawn, EndStart
  <2>17. CASE SpawnFails(p)
    BY <2>17 DEF SpawnFails, FileFails, EndStart
  <2>18. CASE Apply(p)
    <3>1. HasFlag(p) /\ p \in Callers /\ op[p] \in Updates /\ alone[p]
      BY <2>18 DEF Apply
    <3>2. draft \in Valid /\ core \in {draft, None}
      BY <2>18, <3>1 DEF Apply, LeftAlone, UpdateStage
    <3>3. committed' = draft /\ UNCHANGED core
      BY <2>18, <3>2 DEF Apply
    <3>4. \A q \in Procs : lifecycle_lock' = q => lifecycle_lock = q /\ q # p
      BY <2>18 DEF Apply
    <3>5. \A q \in Procs : q # p => pc'[q] = pc[q]
      BY <2>18 DEF Apply
    <3>6. QED
      BY <3>2, <3>3, <3>4, <3>5
  <2>19. CASE Discard(p)
    BY <2>19 DEF Discard
  <2>20. QED
    BY <1>3, <2>1, <2>2, <2>3, <2>4, <2>5, <2>6, <2>7, <2>8, <2>9, <2>10,
       <2>11, <2>12, <2>13, <2>14, <2>15, <2>16, <2>17, <2>18, <2>19 DEF Step
<1>4. CASE UseDefault
  BY <1>4 DEF UseDefault
<1>5. CASE SaveDefault
  BY <1>5 DEF SaveDefault
<1>6. CASE Verify
  BY <1>6 DEF Verify
<1>7. CASE CoreDies
  BY <1>7 DEF CoreDies
<1>8. ASSUME NEW write \in late, WriteLands(write)
      PROVE  CoreKnown'
  BY <1>8 DEF WriteLands
<1>9. CASE UNCHANGED vars
  BY <1>9 DEF vars
<1>10. QED
  BY <1>1, <1>2, <1>3, <1>4, <1>5, <1>6, <1>7, <1>8, <1>9 DEF Next, BootStep

\* Where only updates write the cell and the file: an update has either
\* happened, in the cell and in the core, or it has not happened in either.
UpdatesAreAtomic ==
  ~config_update_in_progress /\ committed # Missing /\ core # None
    => core = committed

\* Where nothing but updates writes the cell, the file and the core, an update
\* has happened in the cell and in the core, or in neither, whenever none is
\* running: what failed is rolled back in both.
THEOREM Atomic ==
  ASSUME OnlyUpdates
  PROVE  Spec => []UpdatesAreAtomic
<1> DEFINE Accounts ==
      TypeOK /\ LateOK /\ Places /\ FlagHeld /\ NothingHidden /\ LeftAlone
<1>1. Init => Accounts /\ Quiet /\ CoreKnown
  BY InitTypes, InitLate, InitPlaces, InitAlone, InitQuiet
<1>2. Accounts /\ Quiet /\ CoreKnown /\ [Next]_vars
        => (Accounts /\ Quiet /\ CoreKnown)'
  BY NextTypes, NextLate, NextPlaces, NextFlag, NextHidden, NextAlone, NextQuiet,
     NextCore
<1>3. Accounts /\ Quiet /\ CoreKnown => UpdatesAreAtomic
  BY DEF FlagHeld, Quiet, CoreKnown, UpdatesAreAtomic, HasFlag, Flagged,
         Updates
<1>4. QED
  BY <1>1, <1>2, <1>3, PTL DEF Spec

\* The configuration shown and the one the core runs with change together, in
\* one step, as RuntimeAbs has it.
LEMMA StepsAreAbstract ==
  OnlyUpdates /\ TypeOK /\ Places /\ FlagHeld /\ Quiet /\ LeftAlone /\ CoreKnown /\ [Next]_vars => [Abs!Next]_<<Running, Shown>>
<1> SUFFICES ASSUME OnlyUpdates, TypeOK, Places, FlagHeld, Quiet, LeftAlone, CoreKnown, [Next]_vars PROVE [Abs!Next]_<<Running, Shown>>
  OBVIOUS
<1> USE ConfigsAssumption, ProcsAssumption, KindsAssumption, SwitchesAssumption,
        MissingAssumption DEF TypeOK, Places, FlagHeld, Quiet, HasFlag, Procs, Flagged, Updates,
            Generated, Goto, Return, Interfere, cell, world, locks,
            OnlyUpdates, CoreKnown, Running, Shown, Restarting, Abs!Next,
            Abs!Update, Abs!Lose
<1>1. ASSUME NEW p \in Callers, NEW kind \in Kinds, Call(p, kind)
      PROVE  [Abs!Next]_<<Running, Shown>>
  BY <1>1 DEF Call
<1>2. ASSUME NEW p \in Callers, Timeout(p)
      PROVE  [Abs!Next]_<<Running, Shown>>
  BY <1>2 DEF Timeout
<1>3. ASSUME NEW p \in Procs, Step(p)
      PROVE  [Abs!Next]_<<Running, Shown>>
  <2>1. CASE Touch(p)
    BY <2>1 DEF Touch, Edit
  <2>2. CASE Enter(p)
    BY <2>2 DEF Enter
  <2>3. CASE EditInUpdate(p)
    BY <2>3 DEF EditInUpdate, Edit
  <2>4. CASE Generate(p)
    BY <2>4 DEF Generate
  <2>5. CASE GenerateFails(p)
    BY <2>5 DEF GenerateFails
  <2>6. CASE Validate(p)
    BY <2>6 DEF Validate, Reject
  <2>7. CASE Check(p)
    BY <2>7 DEF Check, Reject
  <2>8. CASE Test(p)
    BY <2>8 DEF Test, Reject
  <2>9. CASE Read(p)
    BY <2>9 DEF Read, FileFails, EndStart
  <2>10. CASE Save(p)
    BY <2>10 DEF Save, FileFails, EndStart
  <2>11. CASE Reload(p)
    <3>1. HasFlag(p) /\ op[p] \in Updates /\ alone[p]
      BY <2>11 DEF Reload
    <3>2. \A q \in Procs : q # p => pc[q] # "apply" /\ ~Restarting(q)
      BY <3>1
    <3>3. \A q \in Procs : q # p => pc'[q] # "apply" /\ ~Restarting(q)'
      BY <2>11, <3>2 DEF Reload
    <3>4. run_file = draft /\ draft \in Valid
      BY <2>11, <3>1 DEF Reload, LeftAlone, UpdateStage
    <3>5. Shown = committed /\ committed' = committed /\ draft' = draft
      BY <2>11, <3>2 DEF Reload
    <3>6. CASE pc'[p] = "apply"
      <4>1. core' = draft
        BY <2>11, <3>4, <3>6 DEF Reload
      <4>2. Running' = draft
        BY <2>11, <3>3, <3>6, <4>1 DEF Reload
      <4>3. Shown' = draft
        BY <3>5, <3>6
      <4>4. QED
        BY <3>4, <4>2, <4>3
    <3>7. CASE pc'[p] = "lock"
      <4>1. Running' = None
        BY <2>11, <3>1, <3>7 DEF Reload
      <4>2. Shown' = committed
        BY <3>3, <3>5, <3>7
      <4>3. QED
        BY <3>5, <4>1, <4>2
    <3>8. QED
      BY <2>11, <3>6, <3>7 DEF Reload
  <2>12. CASE Lock(p)
    BY <2>12 DEF Lock
  <2>13. CASE StartAgain(p)
    BY <2>13 DEF StartAgain
  <2>14. CASE Stop(p)
    BY <2>14 DEF Stop
  <2>15. CASE StopFailed(p)
    BY <2>15 DEF StopFailed, EndStart
  <2>16. CASE Spawn(p)
    <3>1. HasFlag(p) /\ op[p] \in Updates /\ alone[p]
      BY <2>16 DEF Spawn, EndStart
    <3>2. \A q \in Procs : q # p => pc[q] # "apply" /\ ~Restarting(q)
      BY <3>1
    <3>3. \A q \in Procs : q # p => pc'[q] # "apply" /\ ~Restarting(q)'
      BY <2>16, <3>2 DEF Spawn, EndStart
    <3>4. run_file = draft /\ draft \in Valid
      BY <2>16, <3>1 DEF Spawn, LeftAlone, UpdateStage
    <3>5. pc'[p] = "apply" /\ lifecycle_lock' = None /\ core' = draft
      BY <2>16, <3>1, <3>4 DEF Spawn, EndStart
    <3>6. draft' = draft
      BY <2>16 DEF Spawn
    <3>7. Running' = draft
      BY <3>3, <3>5
    <3>8. Shown' = draft
      BY <3>5, <3>6
    <3>9. QED
      BY <3>4, <3>7, <3>8
  <2>17. CASE SpawnFails(p)
    BY <2>17 DEF SpawnFails, FileFails, EndStart
  <2>18. CASE Apply(p)
    <3>1. HasFlag(p) /\ op[p] \in Updates /\ alone[p]
      BY <2>18 DEF Apply
    <3>2. \A q \in Procs : q # p => pc[q] # "apply" /\ ~Restarting(q)
      BY <3>1
    <3>3. \A q \in Procs : q # p => pc'[q] # "apply" /\ ~Restarting(q)'
      BY <2>18, <3>2 DEF Apply
    <3>4. draft \in Valid
      BY <2>18, <3>1 DEF Apply, LeftAlone, UpdateStage
    <3>5. /\ committed' = draft /\ UNCHANGED core
          /\ pc[p] = "apply" /\ pc'[p] = "idle" /\ lifecycle_lock # p
      BY <2>18, <3>4 DEF Apply
    <3>6. Running = core /\ Shown = draft
      BY <3>2, <3>5
    <3>7. \A q \in Procs : lifecycle_lock' = q => lifecycle_lock = q
      BY <2>18 DEF Apply
    <3>8. \A q \in Procs : ~Restarting(q)' /\ pc'[q] # "apply"
      BY <3>3, <3>5, <3>7
    <3>9. Running' = core /\ Shown' = draft
      BY <3>5, <3>8
    <3>10. QED
      BY <3>6, <3>9
  <2>19. CASE Discard(p)
    BY <2>19 DEF Discard
  <2>20. QED
    BY <1>3, <2>1, <2>2, <2>3, <2>4, <2>5, <2>6, <2>7, <2>8, <2>9, <2>10,
       <2>11, <2>12, <2>13, <2>14, <2>15, <2>16, <2>17, <2>18, <2>19 DEF Step
<1>4. CASE UseDefault
  BY <1>4 DEF UseDefault
<1>5. CASE SaveDefault
  BY <1>5 DEF SaveDefault
<1>6. CASE Verify
  BY <1>6 DEF Verify
<1>7. CASE CoreDies
  BY <1>7 DEF CoreDies
<1>8. ASSUME NEW write \in late, WriteLands(write)
      PROVE  [Abs!Next]_<<Running, Shown>>
  BY <1>8 DEF WriteLands
<1>9. CASE UNCHANGED vars
  BY <1>9 DEF vars
<1>10. QED
  BY <1>1, <1>2, <1>3, <1>4, <1>5, <1>6, <1>7, <1>8, <1>9 DEF Next, BootStep

\* Updates alone implement the abstract configuration.
THEOREM Implements ==
  ASSUME OnlyUpdates
  PROVE  Spec => OneState
<1> DEFINE Accounts ==
      TypeOK /\ LateOK /\ Places /\ FlagHeld /\ NothingHidden /\ LeftAlone
<1>1. Init => Accounts /\ Quiet /\ CoreKnown
  BY InitTypes, InitLate, InitPlaces, InitAlone, InitQuiet
<1>2. Accounts /\ Quiet /\ CoreKnown /\ [Next]_vars
        => (Accounts /\ Quiet /\ CoreKnown)'
  BY NextTypes, NextLate, NextPlaces, NextFlag, NextHidden, NextAlone, NextQuiet,
     NextCore
<1>3. Init => Abs!Init
  <2> SUFFICES ASSUME Init PROVE Abs!Init
    OBVIOUS
  <2>1. \A p \in Procs : pc[p] = "idle" /\ lifecycle_lock # p
    BY ProcsAssumption DEF Init, OnlyUpdates
  <2>2. Running = core /\ Shown = committed
    BY <2>1 DEF Running, Shown, Restarting
  <2>3. QED
    BY <2>2, InitTypes DEF Init, Abs!Init, TypeOK
<1>4. Accounts /\ Quiet /\ CoreKnown /\ [Next]_vars
        => [Abs!Next]_<<Running, Shown>>
  BY StepsAreAbstract
<1>5. QED
  BY <1>1, <1>2, <1>3, <1>4, PTL DEF Spec, OneState, Abs!Spec

-----------------------------------------------------------------------------
(* The boot.                                                               *)

\* How far a boot that was left alone has come.
BootStage ==
  LET waits == {"verify", "lock", "locked"}
      locked == lifecycle_lock = Boot
      at == pc[Boot]
  IN /\ at \in {"read", "save", "validate", "check", "test"} => draft \in Configs
     /\ at \in {"validate", "check", "test"} => run_file = draft
     /\ at \in {"save", "test"} => buf[Boot] = draft
     /\ at = "save_default" => draft = Default
     /\ at \in waits \union {"spawn"} => draft \in Valid
     /\ at \in {"read", "save"} /\ locked => draft \in Valid
     /\ at = "spawn" => run_file = draft

BootAlone == Default \in Valid /\ alone[Boot] => BootStage

LEMMA InitBoot == Init => BootAlone
BY ProcsAssumption DEF Init, BootAlone, BootStage, Procs

LEMMA NextBoot ==
  TypeOK /\ Places /\ BootAlone /\ [Next]_vars => BootAlone'
<1> SUFFICES ASSUME TypeOK, Places, BootAlone, [Next]_vars PROVE BootAlone'
  OBVIOUS
<1> USE ConfigsAssumption, ProcsAssumption, KindsAssumption, SwitchesAssumption,
        MissingAssumption DEF TypeOK, Places, BootAlone, BootStage, HasFlag, Procs,
            Flagged, Updates, Generated, Latest, AtHand, Goto, Return, Interfere,
            cell, world, locks
<1>1. ASSUME NEW p \in Callers, NEW kind \in Kinds, Call(p, kind)
      PROVE  BootAlone'
  BY <1>1 DEF Call
<1>2. ASSUME NEW p \in Callers, Timeout(p)
      PROVE  BootAlone'
  BY <1>2 DEF Timeout
<1>3. ASSUME NEW p \in Procs, Step(p)
      PROVE  BootAlone'
  <2>1. CASE Touch(p)
    BY <2>1 DEF Touch, Edit
  <2>2. CASE Enter(p)
    BY <2>2 DEF Enter
  <2>3. CASE EditInUpdate(p)
    BY <2>3 DEF EditInUpdate, Edit
  <2>4. CASE Generate(p)
    BY <2>4 DEF Generate
  <2>5. CASE GenerateFails(p)
    BY <2>5 DEF GenerateFails
  <2>6. CASE Validate(p)
    BY <2>6 DEF Validate, Reject
  <2>7. CASE Check(p)
    BY <2>7 DEF Check, Reject
  <2>8. CASE Test(p)
    BY <2>8 DEF Test, Reject
  <2>9. CASE Read(p)
    BY <2>9 DEF Read, FileFails, EndStart
  <2>10. CASE Save(p)
    <3>1. CASE FileFails(p)
      BY <2>10, <3>1 DEF Save, FileFails, EndStart
    <3>2. CASE ~FileFails(p)
      <4>1. alone' = [q \in Procs |-> q = p /\ alone[q]]
        BY <2>10, <3>2 DEF Save
      <4>2. alone'[Boot] => p = Boot /\ alone[Boot]
        BY <4>1
      <4>3. /\ pc[p] = "save" /\ run_file' = buf[p]
            /\ p = Boot => pc' = [pc EXCEPT ![p] = IF lifecycle_lock = Boot
                                                THEN "spawn" ELSE "validate"]
            /\ UNCHANGED <<draft, lifecycle_lock>>
        BY <2>10, <3>2 DEF Save
      <4>4. QED
        BY <4>2, <4>3
    <3>3. QED
      BY <3>1, <3>2
  <2>11. CASE Reload(p)
    BY <2>11 DEF Reload
  <2>12. CASE Lock(p)
    BY <2>12 DEF Lock
  <2>13. CASE StartAgain(p)
    BY <2>13 DEF StartAgain
  <2>14. CASE Stop(p)
    BY <2>14 DEF Stop
  <2>15. CASE StopFailed(p)
    BY <2>15 DEF StopFailed, EndStart
  <2>16. CASE Spawn(p)
    BY <2>16 DEF Spawn, EndStart
  <2>17. CASE SpawnFails(p)
    BY <2>17 DEF SpawnFails, FileFails, EndStart
  <2>18. CASE Apply(p)
    BY <2>18 DEF Apply
  <2>19. CASE Discard(p)
    BY <2>19 DEF Discard
  <2>20. QED
    BY <1>3, <2>1, <2>2, <2>3, <2>4, <2>5, <2>6, <2>7, <2>8, <2>9, <2>10,
       <2>11, <2>12, <2>13, <2>14, <2>15, <2>16, <2>17, <2>18, <2>19 DEF Step
<1>4. CASE UseDefault
  BY <1>4 DEF UseDefault
<1>5. CASE SaveDefault
  BY <1>5 DEF SaveDefault
<1>6. CASE Verify
  BY <1>6 DEF Verify
<1>7. CASE CoreDies
  BY <1>7 DEF CoreDies
<1>8. ASSUME NEW write \in late, WriteLands(write)
      PROVE  BootAlone'
  BY <1>8 DEF WriteLands
<1>9. CASE UNCHANGED vars
  BY <1>9 DEF vars
<1>10. QED
  BY <1>1, <1>2, <1>3, <1>4, <1>5, <1>6, <1>7, <1>8, <1>9 DEF Next, BootStep

\* If nobody interfered, the boot starts the core with a valid configuration,
\* the generated one or the default one, whichever way it came there.
THEOREM BootsValid == Spec => []BootStartsValid
<1>1. BootAlone => BootStartsValid
  BY DEF BootAlone, BootStage, BootStartsValid
<1>2. TypeOK /\ Places /\ [Next]_vars => Places'
  BY NextPlaces
<1>3. QED
  BY Typing, InitPlaces, <1>2, InitBoot, NextBoot, <1>1, PTL DEF Spec


=============================================================================
