----------------------------- MODULE Profiles ------------------------------
(***************************************************************************)
(* The profile list (config/profiles.rs, config/prfitem.rs) and the        *)
(* commands that change it (cmd/profile.rs, feat/profile.rs,               *)
(* utils/resolve/scheme.rs).                                               *)
(*                                                                         *)
(* The list lives in a Draft cell.  A switch edits the draft and keeps it  *)
(* while the core is updated; everything else goes through                 *)
(* with_data_modify: take the permit, change a copy of what is committed   *)
(* (files and profiles.yaml are written on the way), put the copy back     *)
(* unless somebody applied a draft meanwhile.  A deep link and the exit    *)
(* write profiles.yaml without the permit.                                 *)
(*                                                                         *)
(* An import creates a profile and its extensions (merge, script, rules,   *)
(* proxies, groups), which are treated alike: one of them stands for all.  *)
(* mishaps is a history variable: what happened that the code does not     *)
(* repair.  Every property names the mishaps that would excuse it.         *)
(***************************************************************************)
EXTENDS Naturals, Sequences, SequencesExt

CONSTANTS
  Mains,     \* profiles a user can switch to (remote, local)
  ExtOf,     \* the extension that is created with a profile
  Callers,   \* commands, deep links and timers under way
  Kinds,     \* what callers do
  First,     \* the profiles at the start, in order
  Null,      \* no profile, no draft, nobody
  MaxCalls   \* bound: calls in a behaviour

Exts == {ExtOf[m] : m \in Mains}
Uids == Mains \union Exts
AllKinds == {"switch", "import", "link", "delete", "reorder", "patch",
             "update", "cleanup", "exit"}
Jobs == {"append_ext", "append", "delete", "reorder", "patch", "update_item",
         "commit_current", "save"}

ASSUME ProfilesAssumption ==
  /\ Null \notin Uids \union Callers
  /\ Null \notin [current : Mains \union {Null}, items : Seq(Uids)]
  /\ ExtOf \in [Mains -> Exts] /\ Mains \intersect Exts = {}
  /\ IsInjective(ExtOf)
  /\ Kinds \subseteq AllKinds /\ MaxCalls \in Nat
  /\ First \in Seq(Mains) /\ IsInjective(First)

VARIABLES
  committed,  \* IProfiles: the current profile and the items
  draft,      \* the same, or Null
  disk,       \* profiles.yaml
  files,      \* the profiles' own files
  core,       \* the profile the core was last given
  switching,  \* CURRENT_SWITCHING_PROFILE
  updating,   \* who is in update_config
  permit,     \* who is in with_data_modify
  copy,       \* what the holder of the permit works on
  overtaken,  \* a draft was applied since the permit was taken
  pc, kind,   \* where a caller is and what it was called for
  arg,        \* the profiles it was called with
  job,        \* the closure it is to run in with_data_modify
  seen,       \* the profile that was current when it looked
  held,       \* the list a caller read to write or to clean up by
  calls,      \* calls so far, bounded by MaxCalls
  mishaps     \* history

cell == <<committed, draft>>
store == <<disk, files>>
modify == <<permit, copy, overtaken>>
coreVars == <<core, updating>>
callers == <<pc, kind, arg, job, seen, held>>
vars == <<cell, store, coreVars, switching, modify, callers, calls, mishaps>>

ListOf(ms) == ms \o [i \in DOMAIN ms |-> ExtOf[ms[i]]]
Blank == [current |-> Null, items |-> <<>>]
Latest == IF draft = Null THEN committed ELSE draft
Has(list, u) == u \in ToSet(list.items)

Init ==
  /\ committed = [current |-> IF First = <<>> THEN Null ELSE First[1],
                  items |-> ListOf(First)]
  /\ draft = Null
  /\ disk = committed
  /\ files = ToSet(committed.items)
  /\ core = committed.current
  /\ switching = FALSE
  /\ updating = Null
  /\ permit = Null /\ copy = Blank /\ overtaken = FALSE
  /\ pc = [c \in Callers |-> "idle"]
  /\ kind = [c \in Callers |-> Null]
  /\ arg = [c \in Callers |-> <<>>]
  /\ job = [c \in Callers |-> Null]
  /\ seen = [c \in Callers |-> Null]
  /\ held = [c \in Callers |-> Blank]
  /\ calls = 0
  /\ mishaps = {}

-----------------------------------------------------------------------------
(* Helpers: where a caller goes next.                                      *)

At(c, label) == pc[c] = label
Main(c) == arg[c][1]

Goto(c, label) ==
  /\ pc' = [pc EXCEPT ![c] = label]
  /\ UNCHANGED <<kind, arg, job, seen, held>>

\* A caller that is done leaves nothing behind.
Finish(c) ==
  /\ pc' = [pc EXCEPT ![c] = "idle"]
  /\ kind' = [kind EXCEPT ![c] = Null]
  /\ arg' = [arg EXCEPT ![c] = <<>>]
  /\ job' = [job EXCEPT ![c] = Null]
  /\ seen' = [seen EXCEPT ![c] = Null]
  /\ held' = [held EXCEPT ![c] = Blank]

\* Next is a closure j for with_data_modify.
Modify(c, j) ==
  /\ pc' = [pc EXCEPT ![c] = "want"]
  /\ job' = [job EXCEPT ![c] = j]
  /\ UNCHANGED <<kind, arg, seen, held>>

Mishap(m) == mishaps' = mishaps \union {m}
MishapIf(P, m) == IF P THEN Mishap(m) ELSE UNCHANGED mishaps

\* Draft::apply.  A with_data_modify under way notices it.
ApplyDraft ==
  /\ committed' = Latest
  /\ draft' = Null
  /\ overtaken' = (overtaken \/ draft # Null)

-----------------------------------------------------------------------------
(* Calls.                                                                  *)

Begin(c, k, ms) ==
  /\ At(c, "idle") /\ calls < MaxCalls /\ k \in Kinds
  /\ calls' = calls + 1
  /\ kind' = [kind EXCEPT ![c] = k]
  /\ arg' = [arg EXCEPT ![c] = ms]

\* The identities that imports have drawn and not shown to anybody yet.
Drawn ==
  {Main(c) : c \in {d \in Callers :
     /\ kind[d] \in {"import", "link"} /\ job[d] \in {"append_ext", "append"}
     /\ pc[d] \in {"want", "work", "commit"}}}

\* patch_profiles_config: one switch at a time, a second one is Busy.  The
\* profile was in a list the user saw, and need not be in the list any more.
\* The current profile is read to be restored if the switch fails.
CallSwitch(c, m) ==
  /\ ~switching /\ m \notin Drawn
  /\ Begin(c, "switch", <<m>>)
  /\ switching' = TRUE
  /\ pc' = [pc EXCEPT ![c] = "edit"]
  /\ seen' = [seen EXCEPT ![c] = committed.current]
  /\ UNCHANGED <<job, held, committed, mishaps>>

\* PrfItem::from_url, from_local: what was downloaded (or given) becomes a
\* profile with an identity (help::get_uid) and a file nobody has.
Named(list) == ToSet(list.items) \union {list.current}
UsedBy(c) == ToSet(arg[c]) \union {seen[c]} \union Named(held[c])
InUse ==
  files \union {core}
    \union (UNION {Named(list) : list \in {committed, Latest, copy, disk}})
    \union (UNION {UsedBy(c) : c \in Callers})

Created(m) == {m, ExtOf[m]} \cap InUse = {}

\* import_profile, create_profile and, of a deep link, import_subscription.
\* The extensions are appended first.
CallImport(c, k, m) ==
  /\ k \in {"import", "link"} /\ Created(m)
  /\ Begin(c, k, <<m>>)
  /\ pc' = [pc EXCEPT ![c] = "want"]
  /\ job' = [job EXCEPT ![c] = "append_ext"]
  /\ seen' = [seen EXCEPT ![c] = Latest.current]
  /\ UNCHANGED <<switching, held, committed, mishaps>>

\* A command that is one closure; the profiles it names were in a list the
\* user saw, and need not be in the list any more.
CallModify(c, k, ms) ==
  /\ Begin(c, k, ms)
  /\ pc' = [pc EXCEPT ![c] = "want"]
  /\ job' = [job EXCEPT ![c] = k]
  /\ UNCHANGED <<switching, seen, held, committed, mishaps>>

CallDelete(c, m) == CallModify(c, "delete", <<m>>)
CallPatch(c, m) == CallModify(c, "patch", <<m>>)
CallReorder(c, m, n) == m # n /\ CallModify(c, "reorder", <<m, n>>)

\* perform_profile_update: download with the profile's options, then through
\* the core, then through the system proxy.  If all fail the list stays, and
\* the core is updated all the same if the profile is current.
Fetch(c, m) ==
  \/ /\ pc' = [pc EXCEPT ![c] = "want"]
     /\ job' = [job EXCEPT ![c] = "update_item"]
  \/ /\ Latest.current = m
     /\ pc' = [pc EXCEPT ![c] = "update"]
     /\ UNCHANGED job

\* update_profile: whether the profile is one to update, and is current, is
\* decided before the download.
CallUpdate(c, m) ==
  /\ Has(Latest, m)
  /\ Begin(c, "update", <<m>>)
  /\ seen' = [seen EXCEPT ![c] = Latest.current]
  /\ Fetch(c, m)
  /\ UNCHANGED <<switching, held, committed, mishaps>>

\* cleanup_orphaned_files, by the boot, and apply_all_and_save_file, on quit,
\* restart and shutdown.  The latter makes the draft of a switch the list:
\* what was committed since the draft was made is lost.
CallCleanup(c) ==
  /\ Begin(c, "cleanup", <<>>)
  /\ pc' = [pc EXCEPT ![c] = "clean"]
  /\ held' = [held EXCEPT ![c] = committed]
  /\ UNCHANGED <<switching, job, seen, committed, mishaps>>

CallExit(c) ==
  /\ Begin(c, "exit", <<>>)
  /\ pc' = [pc EXCEPT ![c] = "read"]
  /\ ApplyDraft
  /\ MishapIf(Latest # committed, "overwritten")
  /\ UNCHANGED <<switching, job, seen, held>>

Call(c) ==
  /\ \/ /\ \/ \E m \in Mains : \/ CallSwitch(c, m) \/ CallUpdate(c, m)
                               \/ CallDelete(c, m) \/ CallPatch(c, m)
           \/ \E m \in Mains, k \in Kinds : CallImport(c, k, m)
           \/ \E m, n \in Mains : CallReorder(c, m, n)
           \/ CallCleanup(c)
        /\ UNCHANGED <<draft, overtaken>>
     \/ CallExit(c)
  /\ UNCHANGED <<store, coreVars, permit, copy>>

-----------------------------------------------------------------------------
(* with_data_modify.                                                       *)

Take(c) ==
  /\ At(c, "want") /\ permit = Null
  /\ permit' = c
  /\ copy' = committed
  /\ overtaken' = FALSE
  /\ Goto(c, "work")
  /\ UNCHANGED <<cell, store, coreVars, switching, calls, mishaps>>

\* Mutant of Fail: the permit is kept.
FailHolding(c) ==
  /\ switching' = (switching /\ kind[c] # "switch")
  /\ Finish(c)
  /\ UNCHANGED <<cell, coreVars, modify, calls>>

\* Mutant of Fail: the flag is given back where the switch ends well, and not
\* by defer!.
FailFlagged(c) ==
  /\ permit' = Null /\ copy' = Blank
  /\ draft' = IF kind[c] = "link" /\ job[c] = "append" THEN Null ELSE draft
  /\ Finish(c)
  /\ UNCHANGED <<switching, committed, coreVars, overtaken, calls>>

\* The closure or the optimistic check failed: the command ends.  A deep link
\* that could not append its profile discards the draft, whosever it is; a
\* switch gives back its flag.
Fail(c) ==
  /\ permit' = Null /\ copy' = Blank
  /\ draft' = IF kind[c] = "link" /\ job[c] = "append" THEN Null ELSE draft
  /\ switching' = (switching /\ kind[c] # "switch")
  /\ Finish(c)
  /\ UNCHANGED <<committed, coreVars, overtaken, calls>>

\* The closures.  new is what becomes of the copy, saves whether the closure
\* writes profiles.yaml.
Closure(c, j, new, saves) ==
  /\ At(c, "work") /\ job[c] = j
  /\ copy' = new
  /\ disk' = IF saves THEN new ELSE disk
  /\ Goto(c, "commit")
  /\ UNCHANGED <<cell, coreVars, switching, permit, overtaken, calls>>

\* append_item writes the file and pushes the item; the first profile becomes
\* the current one.  An import leaves it to the user interface to give that to
\* the core.
AppendItem(c, j, u) ==
  /\ Closure(c, j,
       [current |-> IF copy.current = Null /\ u \in Mains THEN u
                    ELSE copy.current,
        items |-> Append(copy.items, u)], FALSE)
  /\ files' = files \union {u}
  /\ MishapIf(copy.current = Null /\ u \in Mains, "adopted")

\* The extensions, by from_url and from_local, and the profile itself.
AppendExtension(c) == AppendItem(c, "append_ext", ExtOf[Main(c)])
AppendMain(c) == AppendItem(c, "append", Main(c))

Position(items, u) == CHOOSE i \in DOMAIN items : items[i] = u

\* take_item_file_by_uid
TakeOut(items, u) ==
  IF u \in ToSet(items) THEN RemoveAt(items, Position(items, u)) ELSE items

FirstMain(items) ==
  LET mains == {i \in DOMAIN items : items[i] \in Mains}
  IN IF mains = {} THEN Null ELSE items[Min(mains)]

\* Mutant of Deleted: the extension stays in the list without its file.
DeletedAlone(list, m) ==
  LET left == TakeOut(list.items, m)
  IN [items |-> left,
      current |-> IF list.current \in {m, Null} THEN FirstMain(left)
                  ELSE list.current]

Deleted(list, m) ==
  LET left == TakeOut(TakeOut(list.items, m), ExtOf[m])
  IN [items |-> left,
      current |-> IF list.current \in {m, Null} THEN FirstMain(left)
                  ELSE list.current]

DeleteItem(c) ==
  /\ At(c, "work") /\ job[c] = "delete" /\ Has(copy, Main(c))
  /\ Closure(c, "delete", Deleted(copy, Main(c)), TRUE)
  /\ files' = files \ {Main(c), ExtOf[Main(c)]}
  /\ UNCHANGED mishaps

\* reorder takes the items out and, if it does not find both profiles, returns
\* Ok without putting them back.
Moved(items, a, b) == InsertAt(TakeOut(items, a), Position(items, b), a)

Reorder(c) ==
  LET known == ToSet(arg[c]) \subseteq ToSet(copy.items)
      items == IF known THEN Moved(copy.items, arg[c][1], arg[c][2]) ELSE <<>>
  IN /\ Closure(c, "reorder", [copy EXCEPT !.items = items], known)
     /\ MishapIf(~known, "misordered")
     /\ UNCHANGED files

\* patch_item and update_item change fields of an item which the properties do
\* not tell apart; the latter writes the profile's file too.
PatchItem(c) ==
  /\ At(c, "work") /\ job[c] = "patch" /\ Has(copy, Main(c))
  /\ Closure(c, "patch", copy, TRUE)
  /\ UNCHANGED <<files, mishaps>>

UpdateItem(c) ==
  /\ At(c, "work") /\ job[c] = "update_item" /\ Has(copy, Main(c))
  /\ Closure(c, "update_item", copy, TRUE)
  /\ files' = files \union {Main(c)}
  /\ UNCHANGED mishaps

\* Mutant of CommitCurrent: whatever the list has become.
CommitAnyway(c) ==
  /\ Closure(c, "commit_current", [copy EXCEPT !.current = Main(c)], FALSE)
  /\ UNCHANGED <<files, mishaps>>

\* commit_current_profile, by patch_config: only a profile in the list.
CommitCurrent(c) ==
  /\ Closure(c, "commit_current",
       IF Has(copy, Main(c)) THEN [copy EXCEPT !.current = Main(c)] ELSE copy,
       FALSE)
  /\ MishapIf(~Has(copy, Main(c)), "gone")
  /\ UNCHANGED files

SaveFile(c) ==
  /\ Closure(c, "save", copy, TRUE)
  /\ UNCHANGED <<files, mishaps>>

\* delete_item, patch_item and update_item of a profile that is gone.
NotFound(c) ==
  /\ At(c, "work") /\ job[c] \in {"delete", "patch", "update_item"}
  /\ ~Has(copy, Main(c))
  /\ Fail(c)
  /\ UNCHANGED <<store, mishaps>>

\* profiles.yaml could not be written: it is as it was or cut short, which
\* IProfiles::new reads as a list of nothing.
Unwritten == disk' \in {disk, Blank}

\* A file could not be written; delete_item has removed some by then.
WriteFails(c) ==
  /\ At(c, "work") /\ job[c] # "commit_current"
  /\ Fail(c)
  /\ IF job[c] \in {"append_ext", "append"} THEN UNCHANGED disk ELSE Unwritten
  /\ files' = IF job[c] = "delete" /\ Has(copy, Main(c))
              THEN files \ {Main(c), ExtOf[Main(c)]} ELSE files
  /\ Mishap("fault")

Work(c) ==
  \/ AppendExtension(c) \/ AppendMain(c) \/ DeleteItem(c)
  \/ Reorder(c) \/ PatchItem(c) \/ UpdateItem(c) \/ CommitCurrent(c)
  \/ SaveFile(c) \/ NotFound(c) \/ WriteFails(c)

\* What a command does after its closure was committed: append the extension,
\* then the profile, then save.
ContinueImport(c) ==
  CASE job[c] = "append_ext" -> Modify(c, "append")
    [] job[c] = "append" -> Modify(c, "save")
    [] OTHER -> Finish(c)

\* A deep link saves the list without the permit.
ContinueLink(c) ==
  IF job[c] = "append_ext" THEN Modify(c, "append") ELSE Goto(c, "read")

\* delete_item tells whether the profile was current (or none was): then the
\* core is updated once the list is saved.
ContinueDelete(c) ==
  CASE job[c] = "delete" ->
         /\ pc' = [pc EXCEPT ![c] = "want"]
         /\ job' = [job EXCEPT ![c] = "save"]
         /\ seen' = [seen EXCEPT ![c] =
                       IF committed.current \in {Main(c), Null} THEN Main(c)
                       ELSE Null]
         /\ UNCHANGED <<kind, arg, held>>
    [] job[c] = "save" /\ seen[c] = Main(c) -> Goto(c, "update")
    [] OTHER -> Finish(c)

ContinueUpdate(c) ==
  IF seen[c] = Main(c) THEN Goto(c, "update") ELSE Finish(c)

\* Mutant of ContinueSwitch: the list is not saved.
ContinueUnsaved(c) == Finish(c)

\* handle_success saves the list.
ContinueSwitch(c) ==
  IF job[c] = "commit_current" THEN Modify(c, "save") ELSE Finish(c)

Continue(c) ==
  CASE kind[c] = "import" -> ContinueImport(c)
    [] kind[c] = "link" -> ContinueLink(c)
    [] kind[c] = "delete" -> ContinueDelete(c)
    [] kind[c] = "update" -> ContinueUpdate(c)
    [] kind[c] = "switch" -> ContinueSwitch(c)
    [] OTHER -> Finish(c)

\* A switch ends, and gives back its flag, with the save.
Commit(c) ==
  /\ At(c, "commit") /\ ~overtaken
  /\ committed' = copy
  /\ permit' = Null /\ copy' = Blank
  /\ Continue(c)
  /\ switching' = (switching /\ ~(kind[c] = "switch" /\ job[c] = "save"))
  /\ UNCHANGED <<draft, store, coreVars, overtaken, calls, mishaps>>

\* The optimistic check: a draft was applied since the copy was made.  What
\* the closure did to the files is not undone.
Overtaken(c) ==
  /\ At(c, "commit") /\ overtaken
  /\ Fail(c)
  /\ Mishap("overtaken")
  /\ UNCHANGED store

-----------------------------------------------------------------------------
(* The switch.                                                             *)

\* patch_config on the draft: only a profile in the list.
Draft(m) ==
  draft' = IF Has(Latest, m) THEN [Latest EXCEPT !.current = m] ELSE Latest

EditDraft(c) ==
  /\ At(c, "edit")
  /\ Draft(Main(c))
  /\ Goto(c, "update")
  /\ UNCHANGED <<committed, store, coreVars, switching, modify, calls, mishaps>>

\* Mutant of Succeed: the draft is forgotten.
SucceedKeeping(c) ==
  /\ At(c, "success")
  /\ Modify(c, "commit_current")
  /\ UNCHANGED <<cell, store, coreVars, switching, modify, calls, mishaps>>

\* handle_success: the draft goes, the profile is committed on its own.
Succeed(c) ==
  /\ At(c, "success")
  /\ draft' = Null
  /\ Modify(c, "commit_current")
  /\ UNCHANGED <<committed, store, coreVars, switching, modify, calls, mishaps>>

\* discard_and_restore: discard, then a draft with the previous profile,
\* which is applied in a further step.
DiscardDraft(c) ==
  /\ At(c, "failure")
  /\ draft' = Null
  /\ IF seen[c] = Null THEN Finish(c) ELSE Goto(c, "restore")
  /\ switching' = (seen[c] # Null)
  /\ UNCHANGED <<committed, store, coreVars, modify, calls, mishaps>>

Restore(c) ==
  /\ At(c, "restore")
  /\ Draft(seen[c])
  /\ Goto(c, "apply")
  /\ UNCHANGED <<committed, store, coreVars, switching, modify, calls, mishaps>>

\* The switch is over; a task of its own saves the list.
Apply(c) ==
  /\ At(c, "apply")
  /\ ApplyDraft
  /\ MishapIf(Latest.items # committed.items, "overwritten")
  /\ switching' = FALSE
  /\ pc' = [pc EXCEPT ![c] = "want"]
  /\ job' = [job EXCEPT ![c] = "save"]
  /\ kind' = [kind EXCEPT ![c] = "restore"]
  /\ UNCHANGED <<store, coreVars, permit, copy, arg, seen, held, calls>>

-----------------------------------------------------------------------------
(* The core's update, seen from here: somebody else's update makes it Busy *)
(* and it takes the profile that is current when it generates.             *)

\* What the caller does with an outcome that is not Valid.
Refused(c) == IF kind[c] = "switch" THEN Goto(c, "failure") ELSE Finish(c)

UpdateBusy(c) ==
  /\ At(c, "update") /\ updating # Null
  /\ Refused(c)
  /\ MishapIf(kind[c] # "switch", "refused")
  /\ UNCHANGED <<cell, store, coreVars, switching, modify, calls>>

UpdateStart(c) ==
  /\ At(c, "update") /\ updating = Null
  /\ updating' = c
  /\ Goto(c, "updating")
  /\ UNCHANGED <<cell, store, core, switching, modify, calls, mishaps>>

\* What is generated is the latest: anybody's update gives the core the draft
\* of a switch, or, once that is discarded and until its profile is committed,
\* the profile it switched from.
UpdateValid(c) ==
  /\ At(c, "updating")
  /\ core' = Latest.current
  /\ updating' = Null
  /\ IF kind[c] = "switch" THEN Goto(c, "success") ELSE Finish(c)
  /\ MishapIf(kind[c] # "switch" /\ switching, "crossed")
  /\ UNCHANGED <<cell, store, switching, modify, calls>>

\* The configuration is not valid, or an error: apply_config fails when the
\* core has taken the reload, its answer is lost and the restart fails too.
UpdateFails(c) ==
  /\ At(c, "updating")
  /\ core' \in {core, Latest.current}
  /\ updating' = Null
  /\ Refused(c)
  /\ IF kind[c] # "switch" THEN Mishap("refused")
     ELSE MishapIf(core' # core, "unanswered")
  /\ UNCHANGED <<cell, store, switching, modify, calls>>

\* A switch is given 30 seconds; then the core may have the profile all the
\* same.
UpdateTimeout(c) ==
  /\ At(c, "updating") /\ kind[c] = "switch"
  /\ core' \in {core, Latest.current}
  /\ updating' = Null
  /\ Refused(c)
  /\ MishapIf(core' # core, "timeout")
  /\ UNCHANGED <<cell, store, switching, modify, calls>>

-----------------------------------------------------------------------------
(* The files, without the permit: a deep link and the exit write           *)
(* profiles.yaml, the boot removes what no profile owns.                   *)

ReadList(c) ==
  /\ At(c, "read")
  /\ pc' = [pc EXCEPT ![c] = "write"]
  /\ held' = [held EXCEPT ![c] = committed]
  /\ UNCHANGED <<cell, store, coreVars, switching, modify, kind, arg, job, seen,
                 calls, mishaps>>

\* post_import_updates: the core is updated if the profile is the first.
WriteList(c) ==
  /\ At(c, "write")
  /\ disk' = held[c]
  /\ MishapIf(held[c] # committed \/ permit # Null, "stale_write")
  /\ IF kind[c] = "link" /\ seen[c] = Null /\ Latest.current = Main(c)
     THEN Goto(c, "update") ELSE Finish(c)
  /\ UNCHANGED <<cell, files, coreVars, switching, modify, calls>>

\* save_file fails: the exit logs it, a deep link returns.
WriteListFails(c) ==
  /\ At(c, "write")
  /\ Unwritten
  /\ Mishap("fault")
  /\ Finish(c)
  /\ UNCHANGED <<cell, files, coreVars, switching, modify, calls>>

\* The list was read before the files are: the file of an import between the
\* two is taken for a left-over.
Cleanup(c) ==
  LET orphans == files \ ToSet(held[c].items)
  IN /\ At(c, "clean")
     /\ files' = files \ orphans
     /\ MishapIf(orphans \cap ToSet(committed.items \o copy.items) # {}, "swept")
     /\ Finish(c)
     /\ UNCHANGED <<cell, disk, coreVars, switching, modify, calls>>

-----------------------------------------------------------------------------
Switch(c) ==
  \/ EditDraft(c) \/ Succeed(c) \/ DiscardDraft(c) \/ Restore(c) \/ Apply(c)

Update(c) ==
  \/ UpdateBusy(c) \/ UpdateStart(c) \/ UpdateValid(c) \/ UpdateFails(c)
  \/ UpdateTimeout(c)

Step(c) ==
  \/ Take(c) \/ Work(c) \/ Commit(c) \/ Overtaken(c)
  \/ Switch(c) \/ Update(c) \/ ReadList(c) \/ WriteList(c)
  \/ WriteListFails(c) \/ Cleanup(c)

Next == \E c \in Callers : Call(c) \/ Step(c)

Spec == Init /\ [][Next]_vars

\* Every future is polled again.  Nothing is asked of the permit: a caller that
\* waits for it is overtaken by others, of whom there are MaxCalls at most.
FairSpec == Spec /\ \A c \in Callers : WF_vars(Step(c))

-----------------------------------------------------------------------------
(* Properties.                                                             *)

Lists == [current : Mains \union {Null}, items : Seq(Uids)]
Labels == {"idle", "want", "work", "commit", "edit", "update", "updating",
           "success", "failure", "restore", "apply", "read", "write", "clean"}

TypeOK ==
  /\ {committed, disk, copy} \subseteq Lists
  /\ draft \in Lists \union {Null}
  /\ files \subseteq Uids
  /\ core \in Mains \union {Null}
  /\ switching \in BOOLEAN /\ overtaken \in BOOLEAN
  /\ {updating, permit} \subseteq Callers \union {Null}
  /\ pc \in [Callers -> Labels]
  /\ kind \in [Callers -> AllKinds \union {"restore", Null}]
  /\ arg \in [Callers -> Seq(Mains)]
  /\ job \in [Callers -> Jobs \union {Null}]
  /\ seen \in [Callers -> Mains \union {Null}]
  /\ held \in [Callers -> Lists]
  /\ calls \in 0..MaxCalls

Excused(ms) == mishaps \cap ms # {}
Quiet == \A c \in Callers : At(c, "idle")

\* Whatever the commands do to the list, and however they overlap, the current
\* profile is one of the items, in memory and in profiles.yaml, and no item is
\* there twice; except after a reorder of a profile that is gone.
Sound(list) ==
  /\ list.current # Null => Has(list, list.current)
  /\ IsInjective(list.items)

CurrentExists ==
  /\ ~Excused({"misordered"}) => Sound(committed) /\ Sound(disk)
  /\ draft # Null /\ ~Excused({"misordered"}) => Sound(draft)

\* An item in the list has its file, unless it is just being deleted; or a
\* deletion failed half way, was overtaken or overwritten, or the boot swept
\* the file away.
Doomed ==
  UNION {{Main(c), ExtOf[Main(c)]} :
           c \in {d \in Callers : At(d, "commit") /\ job[d] = "delete"}}

FilesExist ==
  Excused({"fault", "overtaken", "overwritten", "swept"})
  \/ ToSet(committed.items) \ Doomed \subseteq files

\* When nothing is under way, profiles.yaml is what is committed.
DiskFollows ==
  Quiet /\ ~Excused({"fault", "misordered", "stale_write"})
    => disk = committed

\* When nothing is under way, the core has the profile that is current, unless
\* an update was refused, ran into its timeout, failed with the new profile in
\* the core (unanswered) or generated for the draft of somebody's switch
\* (crossed); a switch went to a profile that is gone; or a commit of the list
\* was lost or made without the core.
CurrentRuns ==
  Quiet /\ ~Excused({"fault", "overtaken", "overwritten", "gone", "adopted",
                      "refused", "timeout", "unanswered", "crossed"})
    => core = committed.current

\* Putting the profiles into another order keeps the profiles (reorder,
\* cmd/profile.rs "reorder_profile").
ReorderKeepsProfiles ==
  [][\A c \in Callers :
       At(c, "commit") /\ job[c] = "reorder" /\ ~At(c, "commit")'
         => ToSet(committed'.items) = ToSet(committed.items)]_vars

\* What a command takes it has only as long as it works on it, whichever way it
\* ends: the permit belongs to who is in with_data_modify, the update flag to
\* who is in update_config, and the switching flag and the draft to a switch
\* that is under way.
GivenBack ==
  /\ permit # Null => pc[permit] \in {"work", "commit"}
  /\ updating # Null => At(updating, "updating")
  /\ switching \/ draft # Null => \E c \in Callers : kind[c] = "switch"

\* Every command ends, however it is overtaken at the permit by others, as long
\* as no more are called (MaxCalls): then nothing is under way.
EveryCommandEnds == []<>Quiet
=============================================================================
