--------------------------- MODULE RuntimeConfig ----------------------------
(***************************************************************************)
(* The configuration the core runs with (core/manager/config.rs,           *)
(* config/config.rs, core/validate.rs).                                    *)
(*                                                                         *)
(* An update generates a configuration into the draft of a Draft cell,     *)
(* lets a second core validate the file it is written to, writes it to the *)
(* file the core reads, makes the core reload it, or restarts the core,    *)
(* and commits the draft; a failure discards it.  The update flag excludes *)
(* updates from each other, lifecycle_lock restarts; but the cell and the  *)
(* file are also written by commands that hold neither, and by the boot.   *)
(*                                                                         *)
(* A configuration is a value.  What the core does is its configuration,   *)
(* none if no core runs; Lifecycle has how it is started and stopped.      *)
(***************************************************************************)
EXTENDS Naturals

CONSTANTS
  Callers,    \* commands, timer tasks, deep links
  Boot,       \* the setup task
  Configs,    \* configurations
  Valid,      \* those the core accepts
  Default,    \* the one made of the clash settings alone
  None,       \* no configuration, no draft, no holder
  Kinds,      \* what the callers do
  AfterBoot,  \* TRUE if the boot is over in the initial state
  Timeouts,   \* TRUE if a timeout may drop an update
  Faults,     \* TRUE if generating, writing a file or validating may fail
  StopFails,  \* TRUE if the service may fail to stop the core
  MaxCalls    \* bound: calls in a behaviour

Updates == {"update", "touch", "chain"}
Flagged == Updates \union {"handoff"}
Procs == Callers \union {Boot}
Generated == Configs \ {Default}

ASSUME ConfigsAssumption ==
  Valid \subseteq Configs /\ Default \in Configs /\ None \notin Configs
ASSUME ProcsAssumption == Boot \notin Callers /\ None \notin Procs
ASSUME KindsAssumption == 
  Kinds \subseteq Flagged \union {"restart", "regenerate", "start"}
ASSUME SwitchesAssumption ==
  /\ AfterBoot \in BOOLEAN /\ Timeouts \in BOOLEAN
  /\ Faults \in BOOLEAN /\ StopFails \in BOOLEAN
  /\ MaxCalls \in Nat

\* An IRuntime without a config, which a draft can be.
Missing == "missing"
ASSUME MissingAssumption == Missing \notin Configs \union {None}

VARIABLES
  committed,      \* the committed runtime configuration, or Missing
  draft,          \* its draft, or None
  run_file,       \* the file the core reads
  core,           \* the configuration of the running core, or None
  started,        \* running_mode # NotRunning
  config_update_in_progress,
  is_processing,  \* the flag of the validator
  lifecycle_lock,
  pc, op,
  buf,            \* what each process read of the cell to write to a file
  late,           \* writes of updates that were dropped, <<file, configuration>>
  alone,          \* history: nobody else has written the cell or the file or
                  \* restarted the core since the process took the flag, or the boot began
  calls           \* calls so far, bounded by MaxCalls

vars == <<committed, draft, run_file, core, started, config_update_in_progress,
          is_processing, lifecycle_lock, pc, op, buf, late, alone, calls>>
cell == <<committed, draft>>
world == <<run_file, core, started>>
locks == <<config_update_in_progress, is_processing, lifecycle_lock>>

Labels == {"idle", "touch", "enter", "generate", "edit", "validate", "check",
           "test", "read", "save", "reload", "lock", "locked", "spawn", "apply",
           "discard", "default", "save_default", "verify"}

Latest == IF draft = None THEN committed ELSE draft

\* generate_file falls back to the committed configuration.
AtHand == IF Latest # Missing THEN Latest ELSE committed

Init ==
  /\ committed = Missing
  /\ config_update_in_progress = FALSE
  /\ is_processing = FALSE
  /\ lifecycle_lock = None
  /\ op = [p \in Procs |-> "start"]
  /\ buf = [p \in Procs |-> None]
  /\ late = {}
  /\ alone = [p \in Procs |-> p = Boot /\ ~AfterBoot]
  /\ calls = 0
  /\ IF AfterBoot
       THEN /\ draft \in Valid
            /\ run_file = draft /\ core = draft /\ started = TRUE
            /\ pc = [p \in Procs |-> "idle"]
       ELSE /\ draft = None
            /\ run_file = None /\ core = None /\ started = FALSE
            /\ pc = [p \in Procs |-> IF p = Boot THEN "generate" ELSE "idle"]

Goto(p, l) == pc' = [pc EXCEPT ![p] = l]

\* p writes the cell, the file or the core: no other update is alone.
Interfere(p) == alone' = [q \in Procs |-> q = p /\ alone[q]]

HasFlag(p) ==
  op[p] \in Flagged /\ pc[p] \notin {"idle", "touch", "enter"}

\* The call of p returns, and what it holds is dropped.
Return(p) ==
  /\ Goto(p, "idle")
  /\ config_update_in_progress' = (config_update_in_progress /\ ~HasFlag(p))
  /\ lifecycle_lock' = IF lifecycle_lock = p THEN None ELSE lifecycle_lock

\* A start or restart is over: an update goes on at l.
EndStart(p, l) ==
  IF op[p] \in Updates
    THEN /\ Goto(p, l)
         /\ lifecycle_lock' = None
         /\ UNCHANGED config_update_in_progress
    ELSE Return(p)

-----------------------------------------------------------------------------
(* Calls.                                                                  *)

Call(p, kind) ==
  /\ pc[p] = "idle"
  /\ calls < MaxCalls
  /\ calls' = calls + 1
  /\ op' = [op EXCEPT ![p] = kind]
  /\ Goto(p, IF kind = "touch" THEN "touch"
             ELSE IF kind \in Flagged THEN "enter"
             ELSE IF kind = "regenerate" THEN "generate" ELSE "lock")
  /\ UNCHANGED <<cell, world, locks, buf, alone>>

\* A change of the latest configuration, which does nothing if it is missing or
\* if patch_config does not look at what was changed.
Edit(p) ==
  /\ IF Latest = Missing THEN draft' = Missing
     ELSE draft' \in Generated \union {Latest}
  /\ Interfere(p)
  /\ UNCHANGED <<committed, world, locks, op, buf, calls>>

\* patch_clash and apply_dns_config edit the draft before they ask for an
\* update.
Touch(p) ==
  /\ pc[p] = "touch"
  /\ Edit(p)
  /\ Goto(p, "enter")

\* Mutant of Enter: updates do not exclude each other.
EnterAnyway(p) ==
  /\ pc[p] = "enter"
  /\ config_update_in_progress' = TRUE
  /\ alone' = [alone EXCEPT ![p] = TRUE]
  /\ Goto(p, IF op[p] = "chain" THEN "edit"
             ELSE IF op[p] = "handoff" THEN "lock" ELSE "generate")
  /\ UNCHANGED <<cell, world, is_processing, lifecycle_lock, op, buf, calls>>

\* try_start_config_update, or Busy.
Enter(p) ==
  /\ pc[p] = "enter"
  /\ UNCHANGED <<cell, world, is_processing, lifecycle_lock, op, buf, calls>>
  /\ IF config_update_in_progress
       THEN Goto(p, "idle") /\ UNCHANGED <<config_update_in_progress, alone>>
       ELSE /\ config_update_in_progress' = TRUE
            /\ alone' = [alone EXCEPT ![p] = TRUE]
            /\ Goto(p, IF op[p] = "chain" THEN "edit"
                       ELSE IF op[p] = "handoff" THEN "lock" ELSE "generate")

EditInUpdate(p) ==
  /\ pc[p] = "edit"
  /\ Edit(p)
  /\ Goto(p, "validate")

-----------------------------------------------------------------------------
(* Config::generate and the validation.                                    *)

Generate(p) ==
  /\ pc[p] = "generate"
  /\ draft' \in Generated
  /\ Interfere(p)
  /\ Goto(p, IF p = Boot THEN "read"
             ELSE IF op[p] = "regenerate" THEN "lock" ELSE "validate")
  /\ UNCHANGED <<committed, world, locks, op, buf, calls>>

GenerateFails(p) ==
  /\ Faults
  /\ pc[p] = "generate"
  /\ Goto(p, IF p = Boot THEN "default"
             ELSE IF op[p] = "regenerate" THEN "idle" ELSE "discard")
  /\ UNCHANGED <<cell, world, locks, op, buf, alone, calls>>

\* The configuration was not found valid, or not examined.
Reject(p) == Goto(p, IF p = Boot THEN "default" ELSE "discard")

\* try_start of the validator, or Busy.
Validate(p) ==
  /\ pc[p] = "validate"
  /\ IF is_processing THEN Reject(p) ELSE Goto(p, "check")
  /\ is_processing' = TRUE
  /\ UNCHANGED <<cell, world, config_update_in_progress, lifecycle_lock, op,
                 buf, alone, calls>>

\* The file that is going to be validated.
Check(p) ==
  /\ pc[p] = "check"
  /\ \/ AtHand # Missing /\ buf' = [buf EXCEPT ![p] = AtHand]
        /\ Goto(p, "test") /\ UNCHANGED is_processing
     \/ (AtHand = Missing \/ Faults) /\ Reject(p)
        /\ is_processing' = FALSE /\ UNCHANGED buf
  /\ UNCHANGED <<cell, world, config_update_in_progress, lifecycle_lock, op,
                 alone, calls>>

\* What the core says of the file.
Test(p) ==
  /\ pc[p] = "test"
  /\ is_processing' = FALSE
  /\ \/ buf[p] \in Valid
        /\ Goto(p, IF p = Boot THEN "verify" ELSE "read")
     \/ (buf[p] \notin Valid \/ Faults) /\ Reject(p)
  /\ buf' = [buf EXCEPT ![p] = None]
  /\ UNCHANGED <<cell, world, config_update_in_progress, lifecycle_lock, op,
                 alone, calls>>

-----------------------------------------------------------------------------
(* generate_file(Run): by the boot, an update, or a start of the core.     *)

\* Mutant of FileFails: the lock is kept on the way out.
FileFailsHolding(p) ==
  /\ IF lifecycle_lock = p THEN Goto(p, IF op[p] \in Updates THEN "discard" ELSE "idle")
     ELSE IF p = Boot THEN Goto(p, "default") ELSE Goto(p, "idle")
  /\ buf' = [buf EXCEPT ![p] = None]
  /\ UNCHANGED <<cell, world, locks, op, alone, calls>>

\* If the file was needed to start the core for an update, the draft is
\* discarded; otherwise it is left to whoever comes next.
FileFails(p) ==
  /\ IF lifecycle_lock = p THEN EndStart(p, "discard")
     ELSE IF p = Boot THEN Goto(p, "default")
          /\ UNCHANGED <<config_update_in_progress, lifecycle_lock>>
     ELSE Return(p)
  /\ buf' = [buf EXCEPT ![p] = None]
  /\ UNCHANGED <<cell, world, is_processing, op, alone, calls>>

Read(p) ==
  /\ pc[p] = "read"
  /\ IF AtHand = Missing THEN FileFails(p)
     ELSE /\ buf' = [buf EXCEPT ![p] = AtHand]
          /\ Goto(p, "save")
          /\ UNCHANGED <<cell, world, locks, op, alone, calls>>

Save(p) ==
  /\ pc[p] = "save"
  /\ \/ /\ run_file' = buf[p]
        /\ buf' = [buf EXCEPT ![p] = None]
        /\ Interfere(p)
        /\ Goto(p, IF lifecycle_lock = p THEN "spawn"
                   ELSE IF p = Boot THEN "validate" ELSE "reload")
        /\ UNCHANGED <<cell, core, started, locks, op, calls>>
     \/ Faults /\ FileFails(p)

-----------------------------------------------------------------------------
(* Making the core use the file.                                           *)

\* Mutant of Reload: an error of the core is ignored.
ReloadIgnored(p) ==
  /\ pc[p] = "reload"
  /\ core' \in {core} \union ({run_file} \intersect Valid)
  /\ core = None => core' = None
  /\ Interfere(p)
  /\ Goto(p, "apply")
  /\ UNCHANGED <<cell, run_file, started, locks, op, buf, calls>>

\* The core reads the file and answers; its answer, or the request, may get
\* lost, and then it is restarted.
Reload(p) ==
  /\ pc[p] = "reload"
  /\ \/ /\ core # None /\ run_file \in Valid
        /\ core' = run_file
        /\ Goto(p, "apply") \/ Goto(p, "lock")
     \/ UNCHANGED core /\ Goto(p, "lock")
  /\ Interfere(p)
  /\ UNCHANGED <<cell, run_file, started, locks, op, buf, calls>>

Lock(p) ==
  /\ pc[p] = "lock"
  /\ lifecycle_lock = None
  /\ lifecycle_lock' = p
  /\ Goto(p, "locked")
  /\ UNCHANGED <<cell, world, config_update_in_progress, is_processing, op,
                 buf, alone, calls>>

\* A start while a core is running does nothing.
StartAgain(p) ==
  /\ pc[p] = "locked"
  /\ op[p] = "start" /\ started
  /\ Return(p)
  /\ UNCHANGED <<cell, world, is_processing, op, buf, alone, calls>>

\* The core is stopped before it is started.
Stop(p) ==
  /\ pc[p] = "locked"
  /\ op[p] = "start" => ~started
  /\ core' = None
  /\ started' = FALSE
  /\ Interfere(p)
  /\ Goto(p, "read")
  /\ UNCHANGED <<cell, run_file, locks, op, buf, calls>>

\* A restart: the service did not stop the core, or did not say so.
StopFailed(p) ==
  /\ StopFails
  /\ pc[p] = "locked"
  /\ op[p] # "start" /\ started
  /\ core' \in {core, None}
  /\ started' = FALSE
  /\ Interfere(p)
  /\ EndStart(p, "discard")
  /\ UNCHANGED <<cell, run_file, is_processing, op, buf, calls>>

\* A core that does not accept its file terminates.
Spawn(p) ==
  /\ pc[p] = "spawn"
  /\ core' = IF run_file \in Valid THEN run_file ELSE None
  /\ started' = TRUE
  /\ Interfere(p)
  /\ EndStart(p, "apply")
  /\ UNCHANGED <<cell, run_file, is_processing, op, buf, calls>>

SpawnFails(p) ==
  /\ pc[p] = "spawn"
  /\ FileFails(p)

Apply(p) ==
  /\ pc[p] = "apply"
  /\ IF draft = None THEN UNCHANGED cell
     ELSE committed' = draft /\ draft' = None
  /\ Interfere(p)
  /\ Return(p)
  /\ UNCHANGED <<world, is_processing, op, buf, calls>>

Discard(p) ==
  /\ pc[p] = "discard"
  /\ draft' = None
  /\ Interfere(p)
  /\ Return(p)
  /\ UNCHANGED <<committed, world, is_processing, op, buf, calls>>

\* The 30 seconds of a profile switch are over: the update is dropped, where
\* it waits for a file, a process, the core or the lock.  The core may already
\* have taken the file, and a start that was dropped leaves its mode set.
\* A write that was under way may still land, but not at once: a thread of its
\* own makes it.
Timeout(p) ==
  /\ Timeouts
  /\ op[p] = "update" /\ HasFlag(p) /\ pc[p] \notin {"apply", "discard"}
  /\ \/ UNCHANGED core
     \/ /\ pc[p] = "spawn" \/ (pc[p] = "reload" /\ core # None)
        /\ core' \in {run_file} \intersect Valid
  /\ \/ UNCHANGED started
     \/ /\ lifecycle_lock = p /\ pc[p] \in {"read", "save", "spawn"}
        /\ started' = TRUE
  /\ Interfere(p)
  /\ Return(p)
  /\ is_processing' = (is_processing /\ pc[p] \notin {"check", "test"})
  /\ buf' = [buf EXCEPT ![p] = None]
  /\ late' = late \union
       CASE pc[p] = "save" -> {<<"run", buf[p]>>}
         [] pc[p] = "check" /\ AtHand # Missing -> {<<"check", AtHand>>}
         [] OTHER -> {}
  /\ UNCHANGED <<cell, run_file, op, calls>>

\* In the file the core reads, or in the one that is being validated.
WriteLands(write) ==
  /\ late' = late \ {write}
  /\ \/ write[1] = "run" /\ run_file' = write[2] /\ UNCHANGED buf
     \/ /\ write[1] = "check" /\ UNCHANGED run_file
        /\ buf' = [p \in Procs |-> IF pc[p] = "test" THEN write[2] ELSE buf[p]]
  /\ alone' = [p \in Procs |-> FALSE]
  /\ UNCHANGED <<cell, core, started, locks, pc, op, calls>>

-----------------------------------------------------------------------------
(* The boot.                                                               *)

\* Mutant of UseDefault: the default configuration does not become the draft.
UseDefaultFile ==
  /\ pc[Boot] = "default"
  /\ Goto(Boot, "save_default")
  /\ UNCHANGED <<cell, world, locks, op, buf, alone, calls>>

UseDefault ==
  /\ pc[Boot] = "default"
  /\ draft' = Default
  /\ Interfere(Boot)
  /\ Goto(Boot, "save_default")
  /\ UNCHANGED <<committed, world, locks, op, buf, calls>>

SaveDefault ==
  /\ pc[Boot] = "save_default"
  /\ \/ run_file' = Default /\ Interfere(Boot)
     \/ Faults /\ UNCHANGED <<run_file, alone>>
  /\ Goto(Boot, "verify")
  /\ UNCHANGED <<cell, core, started, locks, op, buf, calls>>

\* verify_config_initialization, and then the core is started.
Verify ==
  /\ pc[Boot] = "verify"
  /\ \/ Latest = Missing /\ draft' \in Generated /\ Interfere(Boot)
     \/ (Latest # Missing \/ Faults) /\ UNCHANGED <<draft, alone>>
  /\ Goto(Boot, "lock")
  /\ UNCHANGED <<committed, world, locks, op, buf, calls>>

-----------------------------------------------------------------------------

\* What a process does once it was called.
Step(p) ==
  \/ Touch(p)
  \/ Enter(p)
  \/ EditInUpdate(p)
  \/ Generate(p)
  \/ GenerateFails(p)
  \/ Validate(p)
  \/ Check(p)
  \/ Test(p)
  \/ Read(p)
  \/ Save(p)
  \/ Reload(p)
  \/ Lock(p)
  \/ StartAgain(p)
  \/ Stop(p)
  \/ StopFailed(p)
  \/ Spawn(p)
  \/ SpawnFails(p)
  \/ Apply(p)
  \/ Discard(p)

BootStep ==
  \/ UseDefault
  \/ SaveDefault
  \/ Verify

\* The core terminates on its own.
CoreDies ==
  /\ core # None
  /\ core' = None
  /\ UNCHANGED <<cell, run_file, started, locks, pc, op, buf, alone, calls>>

Next ==
  \/ /\ UNCHANGED late
     /\ \/ \E p \in Callers, kind \in Kinds : Call(p, kind)
        \/ \E p \in Procs : Step(p)
        \/ BootStep
        \/ CoreDies
  \/ \E p \in Callers : Timeout(p)
  \/ \E write \in late : WriteLands(write)

Spec == Init /\ [][Next]_vars

\* Every future that can make progress is polled, and lifecycle_lock serves
\* its waiters in turn.  Nothing is assumed of calls, timeouts and late
\* writes.
FairSpec ==
  /\ Spec
  /\ \A p \in Procs : /\ WF_vars(Step(p) /\ UNCHANGED late)
                       /\ SF_vars(Lock(p) /\ UNCHANGED late)
  /\ WF_vars(BootStep /\ UNCHANGED late)

-----------------------------------------------------------------------------

TypeOK ==
  /\ committed \in Configs \union {Missing}
  /\ draft \in Configs \union {Missing, None}
  /\ run_file \in Configs \union {None}
  /\ core \in Valid \union {None}
  /\ started \in BOOLEAN
  /\ config_update_in_progress \in BOOLEAN
  /\ is_processing \in BOOLEAN
  /\ lifecycle_lock \in Procs \union {None}
  /\ pc \in [Procs -> Labels]
  /\ op \in [Procs -> Flagged \union {"restart", "regenerate", "start"}]
  /\ buf \in [Procs -> Configs \union {None}]
  /\ alone \in [Procs -> BOOLEAN]
  /\ calls \in 0..MaxCalls

\* Only an update that was dropped leaves a write behind.
LateOK ==
  /\ late \subseteq {"run", "check"} \X (Configs \union {None})
  /\ late # {} => Timeouts

\* What an update commits is what the core runs, if it runs, and was found
\* valid, unless somebody else wrote the cell or the file or restarted the core
\* meanwhile, the write of an update that was dropped included (late); this is
\* not lost on the way from the reload that failed to the restart.
AppliesWhatRuns ==
  \A p \in Procs : pc[p] = "apply" /\ alone[p] =>
    draft \in Valid /\ core \in {draft, None}

\* The boot starts the core with a valid configuration, its own or the default
\* one, unless somebody wrote the cell, the file or the core meanwhile, or the
\* write of an update that was dropped came then (late).
BootStartsValid ==
  Default \in Valid /\ pc[Boot] = "spawn" /\ alone[Boot]
    => run_file = draft /\ run_file \in Valid

\* The cell and the core as one state, which changes in one step: while an
\* update restarts the core there is none, and its draft counts as committed
\* as soon as the core has taken it.
Restarting(p) == op[p] \in Updates /\ (lifecycle_lock = p \/ pc[p] = "lock")
Running == IF \E p \in Procs : Restarting(p) THEN None ELSE core
Shown == IF \E p \in Procs : pc[p] = "apply" THEN draft ELSE committed
Abs == INSTANCE RuntimeAbs WITH running <- Running, shown <- Shown
OneState == Abs!Spec

\* Once the boot is over there is a configuration to start the core with.
CoreCanRestart == pc[Boot] = "idle" => AtHand # Missing

\* The default configuration is only used if another one was not valid.  The
\* boot does not keep it (README, Disagreements).
DefaultIsForInvalid == ~Faults /\ Valid = Configs => core # Default

\* The flags and the lock are never waited for in a circle.
EveryCallEnds == \A p \in Procs : pc[p] # "idle" ~> pc[p] = "idle"
=============================================================================
