--------------------------- MODULE SettingsProofs ---------------------------
(***************************************************************************)
(* PatchesKept for any callers and any sets of patches.                    *)
(*                                                                         *)
(* What was promised is committed because what is on its way to be         *)
(* promised is in the draft, or committed already, and no step makes the   *)
(* draft or what is committed older: every write has a number of its own,  *)
(* and a draft begins from what is committed.                              *)
(***************************************************************************)
EXTENDS Settings, TLAPS

Mine(s) == Keys(s) \ {"mode"}
Latest(s) == IF pending[s] = NoDraft THEN cell[s] ELSE pending[s]
Values(s) == [Keys(s) -> 0..writes]

SettingsTypes ==
  /\ writes \in Nat
  /\ DOMAIN cell = SettingStores /\ DOMAIN pending = SettingStores
  /\ DOMAIN promised = SettingStores
  /\ \A s \in SettingStores :
       /\ cell[s] \in Values(s) /\ promised[s] \in Values(s)
       /\ Latest(s) \in Values(s)
  /\ settingPc \in [PatchCallers -> {"idle", "steps", "follow", "save"}]
  /\ patch = [c \in PatchCallers |-> patch[c]]
  /\ \A c \in PatchCallers :
       /\ DOMAIN patch[c] = {"store", "keys", "value", "steps"}
       /\ patch[c].store \in SettingStores
       /\ patch[c].keys \subseteq Keys(patch[c].store)
       /\ patch[c].value \in 0..writes

DraftIsNewer ==
  \A s \in SettingStores : \A k \in Mine(s) : cell[s][k] <= Latest(s)[k]

OnTheWay ==
  \A c \in PatchCallers : PatchAt(c, "steps") =>
    \A k \in patch[c].keys \ {"mode"} : patch[c].value <= Latest(StoreOf(c))[k]

Committed ==
  \A c \in PatchCallers : PatchAt(c, "save") =>
    \A k \in patch[c].keys \ {"mode"} : patch[c].value <= cell[StoreOf(c)][k]

FollowsMode ==
  \A c \in PatchCallers : PatchAt(c, "follow") => patch[c].keys = {"mode"} /\ StoreOf(c) = "clash"

SettingsInv ==
  SettingsTypes /\ DraftIsNewer /\ OnTheWay /\ Committed /\ FollowsMode /\ PatchesKept

-----------------------------------------------------------------------------
(* The settings of a store.                                                *)

LEMMA StoresAndKeys ==
  /\ SettingStores = {"clash", "verge"}
  /\ Keys("clash") = ClashKeys /\ Keys("verge") = VergeKeys
  /\ \A s \in SettingStores : Keys(s) # {} /\ Mine(s) \subseteq Keys(s)
  BY DEF SettingStores, Keys, ClashKeys, VergeKeys, Mine

\* Settings are no empty draft: they have keys.
LEMMA SettingsAreADraft ==
  ASSUME NEW s \in SettingStores, NEW T, NEW d \in [Keys(s) -> T]
  PROVE  d # NoDraft
<1>1. DOMAIN d # {}  BY StoresAndKeys
<1>2. DOMAIN NoDraft = {}  BY DEF NoDraft
<1> QED  BY <1>1, <1>2

-----------------------------------------------------------------------------
(* A step of one caller, and what it must not do: make anything older.     *)

Others(c) ==
  \A d \in PatchCallers \ {c} : patch'[d] = patch[d] /\ settingPc'[d] = settingPc[d]

Grows ==
  \A s \in SettingStores : \A k \in Mine(s) :
    /\ cell[s][k] <= cell'[s][k] /\ Latest(s)[k] <= Latest(s)'[k]
    /\ cell'[s][k] <= Latest(s)'[k]

OwnPart(c) ==
  \A s \in SettingStores : patch'[c].store = s =>
    /\ settingPc'[c] = "steps" =>
         \A k \in patch'[c].keys \ {"mode"} : patch'[c].value <= Latest(s)'[k]
    /\ settingPc'[c] = "save" =>
         \A k \in patch'[c].keys \ {"mode"} : patch'[c].value <= cell'[s][k]
    /\ settingPc'[c] = "follow" => patch'[c].keys = {"mode"} /\ s = "clash"

LEMMA CallerStep ==
  ASSUME NEW c \in PatchCallers, SettingsInv, SettingsTypes', Others(c), Grows,
         OwnPart(c), PatchesKept'
  PROVE  SettingsInv'
<1> USE DEF SettingsInv
<1>1. DraftIsNewer'
  BY DEF DraftIsNewer, Grows, Mine
<1>2. ASSUME NEW d \in PatchCallers \ {c}
      PROVE  /\ StoreOf(d) \in SettingStores
             /\ patch[d].keys \ {"mode"} \subseteq Mine(StoreOf(d))
             /\ patch'[d] = patch[d] /\ settingPc'[d] = settingPc[d]
             /\ StoreOf(d)' = StoreOf(d)
  BY <1>2 DEF SettingsTypes, StoreOf, Mine, Others
<1>3. OnTheWay'
  <2> SUFFICES ASSUME NEW d \in PatchCallers, settingPc'[d] = "steps",
                      NEW k \in patch'[d].keys \ {"mode"}
               PROVE  patch'[d].value <= Latest(StoreOf(d))'[k]
    BY DEF OnTheWay, PatchAt
  <2> patch'[d].store \in SettingStores
    BY DEF SettingsTypes
  <2>1. CASE d = c
    BY <2>1 DEF OwnPart, StoreOf
  <2>2. CASE d # c
    <3>1. patch[d].value <= Latest(StoreOf(d))[k]
      BY <2>2, <1>2 DEF OnTheWay, PatchAt
    <3>2. Latest(StoreOf(d))[k] <= Latest(StoreOf(d))'[k]
      BY <2>2, <1>2 DEF Grows
    <3>3. /\ Latest(StoreOf(d))[k] \in Nat /\ Latest(StoreOf(d))'[k] \in Nat
          /\ patch[d].value \in Nat
      BY <2>2, <1>2 DEF SettingsTypes, Values, Mine
    <3> QED  BY <2>2, <1>2, <3>1, <3>2, <3>3
  <2> QED  BY <2>1, <2>2
<1>4. Committed'
  <2> SUFFICES ASSUME NEW d \in PatchCallers, settingPc'[d] = "save",
                      NEW k \in patch'[d].keys \ {"mode"}
               PROVE  patch'[d].value <= cell'[StoreOf(d)'][k]
    BY DEF Committed, PatchAt
  <2> patch'[d].store \in SettingStores
    BY DEF SettingsTypes
  <2>1. CASE d = c
    BY <2>1 DEF OwnPart, StoreOf
  <2>2. CASE d # c
    <3>1. patch[d].value <= cell[StoreOf(d)][k]
      BY <2>2, <1>2 DEF Committed, PatchAt
    <3>2. cell[StoreOf(d)][k] <= cell'[StoreOf(d)][k]
      BY <2>2, <1>2 DEF Grows
    <3>3. /\ cell[StoreOf(d)][k] \in Nat /\ cell'[StoreOf(d)][k] \in Nat
          /\ patch[d].value \in Nat
      BY <2>2, <1>2 DEF SettingsTypes, Values, Mine
    <3> QED  BY <2>2, <1>2, <3>1, <3>2, <3>3
  <2> QED  BY <2>1, <2>2
<1>5. FollowsMode'
  BY <1>2 DEF FollowsMode, PatchAt, OwnPart, SettingsTypes, StoreOf
<1> QED  BY <1>1, <1>3, <1>4, <1>5

PatchType(r, n) ==
  /\ DOMAIN r = {"store", "keys", "value", "steps"}
  /\ r.store \in SettingStores /\ r.keys \subseteq Keys(r.store) /\ r.value \in 0..n

CellTypes ==
  \A s \in SettingStores :
    /\ cell'[s] \in Values(s)' /\ promised'[s] \in Values(s)' /\ Latest(s)' \in Values(s)'

LEMMA CallerTypes ==
  ASSUME NEW c \in PatchCallers, SettingsTypes, writes' \in {writes, writes + 1},
         DOMAIN cell' = SettingStores, DOMAIN pending' = SettingStores,
         DOMAIN promised' = SettingStores, CellTypes,
         NEW label \in {"idle", "steps", "follow", "save"}, PatchTo(c, label),
         NEW r, PatchType(r, writes'), patch' = [patch EXCEPT ![c] = r]
  PROVE  SettingsTypes' /\ Others(c) /\ patch'[c] = r /\ settingPc'[c] = label
<1>1. /\ patch'[c] = r /\ settingPc'[c] = label /\ Others(c)
      /\ patch' = [d \in PatchCallers |-> patch'[d]]
      /\ settingPc' \in [PatchCallers -> {"idle", "steps", "follow", "save"}]
  BY DEF SettingsTypes, PatchTo, Others
<1>2. ASSUME NEW d \in PatchCallers
      PROVE  PatchType(patch'[d], writes')
  <2>1. CASE d = c  BY <2>1, <1>1
  <2>2. CASE d # c
    <3>1. PatchType(patch[d], writes)  BY DEF SettingsTypes, PatchType
    <3>2. patch'[d] = patch[d]  BY <2>2, <1>1 DEF Others
    <3>3. 0..writes \subseteq 0..writes'  BY DEF SettingsTypes
    <3> QED  BY <3>1, <3>2, <3>3 DEF PatchType
  <2> QED  BY <2>1, <2>2
<1>3. writes' \in Nat  BY DEF SettingsTypes
<1> QED  BY <1>1, <1>2, <1>3 DEF SettingsTypes, CellTypes, PatchType

\* What is committed and the draft stay; at most a number is taken.
LEMMA CellsStay ==
  ASSUME SettingsInv, UNCHANGED <<cell, pending>>, writes' \in {writes, writes + 1}
  PROVE  /\ Grows
         /\ \A s \in SettingStores :
              /\ Latest(s)' = Latest(s)
              /\ cell'[s] \in Values(s)' /\ Latest(s)' \in Values(s)'
         /\ \A s \in SettingStores : promised[s] \in Values(s)'
<1>1. \A s \in SettingStores : Latest(s)' = Latest(s)
  BY DEF Latest
<1>2. 0..writes \subseteq 0..writes'
  BY DEF SettingsInv, SettingsTypes
<1>3. \A s \in SettingStores : \A v \in Values(s) : v \in Values(s)'
  BY <1>2 DEF Values
<1>4. Grows
  <2> SUFFICES ASSUME NEW s \in SettingStores, NEW k \in Mine(s)
               PROVE  /\ cell[s][k] <= cell[s][k] /\ Latest(s)[k] <= Latest(s)[k]
                      /\ cell[s][k] <= Latest(s)[k]
    BY <1>1 DEF Grows
  <2>1. cell[s][k] \in Nat /\ Latest(s)[k] \in Nat
    BY DEF SettingsInv, SettingsTypes, Values, Mine
  <2> QED  BY <2>1 DEF SettingsInv, DraftIsNewer
<1> QED  BY <1>1, <1>3, <1>4 DEF SettingsInv, SettingsTypes

LEMMA NoPatchType ==
  ASSUME NEW n \in Nat
  PROVE  PatchType(NoPatch, n) /\ NoPatch.keys = {}
  BY StoresAndKeys DEF PatchType, NoPatch

-----------------------------------------------------------------------------
(* The steps.                                                              *)

LEMMA NothingMoves ==
  ASSUME SettingsInv,
         UNCHANGED <<cell, pending, patch, settingPc, promised, writes>>
  PROVE  SettingsInv'
<1>1. \A s : Latest(s)' = Latest(s) /\ Values(s)' = Values(s)
  BY DEF Latest, Values
<1> QED
  BY <1>1 DEF SettingsInv, SettingsTypes, DraftIsNewer, OnTheWay, Committed,
     FollowsMode,
              PatchesKept, PatchAt, StoreOf

\* A caller that leaves without an answer of Ok.
LEMMA CallerLeaves ==
  ASSUME NEW c \in PatchCallers, SettingsInv, PatchTo(c, "idle"),
         patch' = [patch EXCEPT ![c] = NoPatch],
         UNCHANGED <<cell, pending, promised, writes>>
  PROVE  SettingsInv'
<1>1. Grows /\ CellTypes
  BY CellsStay DEF CellTypes
<1>2. SettingsTypes' /\ Others(c) /\ patch'[c] = NoPatch /\ settingPc'[c] = "idle"
  BY <1>1, NoPatchType, CallerTypes DEF SettingsInv, SettingsTypes
<1>3. OwnPart(c) /\ PatchesKept'
  BY <1>2 DEF OwnPart, PatchesKept, SettingsInv
<1> QED  BY <1>1, <1>2, <1>3, CallerStep

\* A caller that leaves with Ok: what it wrote is committed.
LEMMA CallerIsAnswered ==
  ASSUME NEW c \in PatchCallers, SettingsInv, PatchAt(c, "save"), PatchTo(c, "idle"),
         NEW s \in SettingStores, s = StoreOf(c),
         promised' = [promised EXCEPT ![s] = Keeping(@, patch[c])],
         patch' = [patch EXCEPT ![c] = NoPatch],
         UNCHANGED <<cell, pending, writes>>
  PROVE  SettingsInv'
<1>1. /\ promised[s] \in [Keys(s) -> 0..writes] /\ patch[c].value \in 0..writes
      /\ writes \in Nat /\ DOMAIN promised = SettingStores
  BY DEF SettingsInv, SettingsTypes, Values
<1>2. /\ promised'[s] \in [Keys(s) -> 0..writes]
      /\ \A k \in Keys(s) : promised'[s][k] =
           IF k \in patch[c].keys /\ patch[c].value > promised[s][k]
           THEN patch[c].value ELSE promised[s][k]
  <2>1. promised'[s] = Keeping(promised[s], patch[c])
    BY <1>1
  <2> DEFINE D == Keys(s)
             data == promised[s]
             p == patch[c]
  <2>2. data \in [D -> 0..writes] /\ p.value \in 0..writes /\ writes \in Nat
    BY <1>1
  <2> HIDE DEF D, data, p
  <2>3. /\ Keeping(data, p) \in [D -> 0..writes]
        /\ \A k \in D : Keeping(data, p)[k] =
             IF k \in p.keys /\ p.value > data[k] THEN p.value ELSE data[k]
    BY <2>2 DEF Keeping
  <2> QED  BY <2>1, <2>3 DEF D, data, p
<1>3. \A t \in SettingStores \ {s} : promised'[t] = promised[t]
  BY <1>1
<1>4. Grows /\ CellTypes
  BY <1>2, <1>3, CellsStay DEF CellTypes, Values
<1>5. SettingsTypes' /\ Others(c) /\ patch'[c] = NoPatch /\ settingPc'[c] = "idle"
  BY <1>1, <1>4, NoPatchType, CallerTypes DEF SettingsInv, SettingsTypes
<1>6. OwnPart(c)
  BY <1>5 DEF OwnPart
<1>7. PatchesKept'
  <2> SUFFICES ASSUME NEW t \in SettingStores, NEW k \in Keys(t) \ {"mode"}
               PROVE  cell[t][k] >= promised'[t][k]
    BY DEF PatchesKept
  <2>1. CASE t # s
    BY <2>1, <1>3 DEF SettingsInv, PatchesKept
  <2>2. CASE t = s
    <3>1. k \in patch[c].keys => patch[c].value <= cell[s][k]
      BY <2>2 DEF SettingsInv, Committed
    <3>2. cell[s][k] >= promised[s][k] /\ cell[s][k] \in Nat
      BY <2>2 DEF SettingsInv, PatchesKept, SettingsTypes, Values
    <3> QED  BY <2>2, <1>1, <1>2, <3>1, <3>2
  <2> QED  BY <2>1, <2>2
<1> QED  BY <1>4, <1>5, <1>6, <1>7, CallerStep

\* The draft is edited: a patch of the store s begins.
LEMMA CallerPatches ==
  ASSUME NEW c \in PatchCallers, SettingsInv, PatchTo(c, "steps"),
         NEW s \in SettingStores, NEW keys \in SUBSET Keys(s), writes' = writes + 1,
         NEW steps,
         patch' = [patch EXCEPT ![c] =
           [store |-> s, keys |-> keys, value |-> writes', steps |-> steps]],
         EditPending(s, keys, writes'),
         UNCHANGED <<cell, promised>>
  PROVE  SettingsInv'
<1> DEFINE r == [store |-> s, keys |-> keys, value |-> writes', steps |-> steps]
<1>1. /\ writes \in Nat /\ writes' \in Nat /\ writes <= writes'
      /\ \A t \in SettingStores : \A v \in Values(t) : v \in Values(t)'
      /\ DOMAIN pending = SettingStores /\ DOMAIN pending' = SettingStores
  <2>1. writes \in Nat /\ DOMAIN pending = SettingStores
    BY DEF SettingsInv, SettingsTypes
  <2>2. 0..writes \subseteq 0..writes'
    BY <2>1
  <2> QED  BY <2>1, <2>2 DEF Values, EditPending
<1>2. pending'[s] = Patched(Latest(s), keys, writes')
  BY <1>1 DEF EditPending, Latest
<1>3. Latest(s) \in [Keys(s) -> 0..writes'] /\ writes' \in 0..writes'
  BY <1>1 DEF SettingsInv, SettingsTypes, Values
<1>4. /\ pending'[s] \in [Keys(s) -> 0..writes']
      /\ \A k \in Keys(s) : pending'[s][k] = IF k \in keys THEN writes' ELSE Latest(s)[k]
  <2> DEFINE data == Latest(s)
             n == writes'
             D == Keys(s)
  <2>1. data \in [D -> 0..n] /\ n \in 0..n /\ n \in Nat
    BY <1>1, <1>3
  <2> HIDE DEF data, n, D
  <2>2. /\ Patched(data, keys, n) \in [D -> 0..n]
        /\ \A k \in D : Patched(data, keys, n)[k] = IF k \in keys THEN n ELSE data[k]
    BY <2>1 DEF Patched
  <2> QED  BY <1>2, <2>2 DEF data, n, D
<1>5. Latest(s)' = pending'[s]
  BY <1>4, SettingsAreADraft DEF Latest
<1>6. \A t \in SettingStores \ {s} : Latest(t)' = Latest(t)
  BY <1>1 DEF EditPending, Latest
<1>7. CellTypes
  BY <1>1, <1>4, <1>5, <1>6 DEF CellTypes, SettingsInv, SettingsTypes, Values
<1>8. Grows
  <2> SUFFICES ASSUME NEW t \in SettingStores, NEW k \in Mine(t)
               PROVE  /\ cell[t][k] <= cell[t][k] /\ Latest(t)[k] <= Latest(t)'[k]
                      /\ cell[t][k] <= Latest(t)'[k]
    BY DEF Grows
  <2>1. /\ cell[t][k] \in Nat /\ Latest(t)[k] \in 0..writes /\ cell[t][k] <= Latest(t)[k]
    BY DEF SettingsInv, SettingsTypes, Values, DraftIsNewer, Mine
  <2>2. Latest(t)'[k] = Latest(t)[k] \/ Latest(t)'[k] = writes'
    BY <1>4, <1>5, <1>6 DEF Mine
  <2> QED  BY <1>1, <2>1, <2>2
<1>9. PatchType(r, writes')
  BY <1>3 DEF PatchType
<1>10. SettingsTypes' /\ Others(c) /\ patch'[c] = r /\ settingPc'[c] = "steps"
  <2> HIDE DEF r
  <2>1. patch' = [patch EXCEPT ![c] = r]
    BY DEF r
  <2> QED  BY <1>1, <1>7, <1>9, <2>1, CallerTypes DEF SettingsInv, SettingsTypes
<1>11. OwnPart(c)
  <2> SUFFICES ASSUME NEW k \in keys \ {"mode"}
               PROVE  writes' <= Latest(s)'[k]
    BY <1>10 DEF OwnPart
  <2> QED  BY <1>1, <1>4, <1>5
<1>12. PatchesKept'
  BY DEF PatchesKept, SettingsInv
<1> QED  BY <1>8, <1>10, <1>11, <1>12, CallerStep

\* The draft of the store s becomes what is committed: by a patch that is done
\* (data is the latest) or by one of the mode (data is the latest but for it).
LEMMA CallerCommits ==
  ASSUME NEW c \in PatchCallers, SettingsInv, PatchTo(c, "save"),
         NEW s \in SettingStores, s = StoreOf(c),
         NEW data \in [Keys(s) -> 0..writes],
         \A k \in Mine(s) : data[k] = Latest(s)[k],
         PatchAt(c, "steps") \/ PatchAt(c, "follow"),
         cell' = [cell EXCEPT ![s] = data],
         pending' = [pending EXCEPT ![s] = NoDraft],
         UNCHANGED <<patch, promised, writes>>
  PROVE  SettingsInv'
<1>1. /\ DOMAIN cell = SettingStores /\ DOMAIN pending = SettingStores
      /\ DOMAIN promised = SettingStores
      /\ patch[c].keys \subseteq Keys(s)
      /\ patch[c].value \in 0..writes /\ PatchType(patch[c], writes)
      /\ patch = [d \in PatchCallers |-> patch[d]]
  BY DEF SettingsInv, SettingsTypes, StoreOf, PatchType
<1>2. cell'[s] = data /\ Latest(s)' = data
  BY <1>1 DEF Latest
<1>3. \A t \in SettingStores \ {s} : cell'[t] = cell[t] /\ Latest(t)' = Latest(t)
  BY <1>1 DEF Latest
<1>4. CellTypes
  BY <1>2, <1>3 DEF CellTypes, SettingsInv, SettingsTypes, Values
<1>5. Grows
  <2> SUFFICES ASSUME NEW t \in SettingStores, NEW k \in Mine(t)
               PROVE  /\ cell[t][k] <= cell'[t][k] /\ Latest(t)[k] <= Latest(t)'[k]
                      /\ cell'[t][k] <= Latest(t)'[k]
    BY DEF Grows
  <2>1. /\ cell[t][k] \in Nat /\ Latest(t)[k] \in Nat /\ cell[t][k] <= Latest(t)[k]
    BY DEF SettingsInv, SettingsTypes, Values, DraftIsNewer, Mine
  <2> QED  BY <1>2, <1>3, <2>1
<1>6. SettingsTypes' /\ Others(c) /\ patch'[c] = patch[c] /\ settingPc'[c] = "save"
  <2>1. DOMAIN cell' = SettingStores /\ DOMAIN pending' = SettingStores
    BY <1>1
  <2>2. writes' \in {writes, writes + 1} /\ PatchType(patch[c], writes')
    BY <1>1
  <2> DEFINE r == patch[c]
  <2>3. PatchType(r, writes') /\ patch' = [patch EXCEPT ![c] = r] /\ r = patch[c]
    BY <1>1, <2>2
  <2> HIDE DEF r
  <2> QED  BY <1>1, <1>4, <2>1, <2>2, <2>3, CallerTypes DEF SettingsInv
<1>7. OwnPart(c)
  <2> SUFFICES ASSUME NEW k \in patch[c].keys \ {"mode"}
               PROVE  patch[c].value <= data[k]
    BY <1>2, <1>6 DEF OwnPart, StoreOf
  <2>1. PatchAt(c, "steps")
    BY DEF SettingsInv, FollowsMode
  <2> QED  BY <1>1, <2>1 DEF SettingsInv, OnTheWay, Mine
<1>8. PatchesKept'
  <2> SUFFICES ASSUME NEW t \in SettingStores, NEW k \in Mine(t)
               PROVE  cell'[t][k] >= promised[t][k]
    BY DEF PatchesKept, Mine
  <2>1. /\ cell[t][k] \in Nat /\ cell'[t][k] \in Nat /\ promised[t][k] \in Nat
        /\ cell[t][k] >= promised[t][k]
    BY <1>4 DEF SettingsInv, SettingsTypes, CellTypes, Values, PatchesKept, Mine
  <2> QED  BY <2>1, <1>5 DEF Grows
<1> QED  BY <1>5, <1>6, <1>7, <1>8, CallerStep

-----------------------------------------------------------------------------
(* The theorem.                                                            *)

LEMMA InitIsKept == SettingsInit => SettingsInv
<1> SUFFICES ASSUME SettingsInit PROVE SettingsInv
  OBVIOUS
<1> USE DEF SettingsInit
<1>1. \A s \in SettingStores :
        /\ cell[s] = Untouched(s) /\ promised[s] = Untouched(s)
        /\ Latest(s) = Untouched(s)
  BY DEF Latest
<1>2. \A s \in SettingStores : Untouched(s) \in [Keys(s) -> 0..0]
  BY DEF Untouched
<1>3. \A s \in SettingStores : \A k \in Keys(s) : Untouched(s)[k] = 0
  BY DEF Untouched
<1>4. \A c \in PatchCallers : patch[c] = NoPatch /\ settingPc[c] = "idle"
  OBVIOUS
<1>5. SettingsTypes
  <2>1. /\ writes = 0 /\ DOMAIN cell = SettingStores /\ DOMAIN pending = SettingStores
        /\ DOMAIN promised = SettingStores
        /\ patch = [c \in PatchCallers |-> patch[c]]
        /\ settingPc \in [PatchCallers -> {"idle", "steps", "follow", "save"}]
    OBVIOUS
  <2> QED  BY <2>1, <1>1, <1>2, <1>4, NoPatchType
              DEF SettingsTypes, Values, PatchType
<1>6. DraftIsNewer /\ PatchesKept
  BY <1>1, <1>3, StoresAndKeys DEF DraftIsNewer, PatchesKept, Mine
<1>7. OnTheWay /\ Committed /\ FollowsMode
  BY <1>4 DEF OnTheWay, Committed, FollowsMode, PatchAt, StoreOf
<1> QED  BY <1>5, <1>6, <1>7 DEF SettingsInv

\* A step of the patch in work, or its failure.
LEMMA StepIsKept ==
  ASSUME NEW c \in PatchCallers, SettingsInv, DoStep(c)
  PROVE  SettingsInv'
<1> DEFINE r == [patch[c] EXCEPT !.steps = Tail(@)]
<1>1. UNCHANGED <<cell, pending, settingPc, promised, writes>> /\ PatchAt(c, "steps")
  BY DEF DoStep
<1>2. patch' = [patch EXCEPT ![c] = r]
  BY DEF DoStep
<1>3. PatchType(r, writes') /\ r.keys = patch[c].keys /\ r.value = patch[c].value
      /\ r.store = patch[c].store
  BY <1>1 DEF PatchType, SettingsInv, SettingsTypes
<1> HIDE DEF r
<1>4. Grows /\ CellTypes
  BY <1>1, CellsStay DEF CellTypes
<1>5. PatchTo(c, "steps")
  BY <1>1 DEF PatchTo, PatchAt, SettingsInv, SettingsTypes
<1>6. SettingsTypes' /\ Others(c) /\ patch'[c] = r /\ settingPc'[c] = "steps"
  BY <1>1, <1>2, <1>3, <1>4, <1>5, CallerTypes DEF SettingsInv, SettingsTypes
<1>7. OwnPart(c)
  <2>1. \A s \in SettingStores : Latest(s)' = Latest(s)
    BY <1>1, CellsStay
  <2> QED  BY <1>1, <1>3, <1>6, <2>1 DEF OwnPart, SettingsInv, OnTheWay, StoreOf
<1>8. PatchesKept'
  BY <1>1 DEF PatchesKept, SettingsInv
<1> QED  BY <1>4, <1>6, <1>7, <1>8, CallerStep

\* The core is asked for a mode: a number is taken, nothing is edited.
LEMMA AskIsKept ==
  ASSUME NEW c \in PatchCallers, SettingsInv, AskCore(c)
  PROVE  SettingsInv'
<1> DEFINE r == [store |-> "clash", keys |-> {"mode"}, value |-> writes', steps |-> <<>>]
<1>1. UNCHANGED <<cell, pending, promised>> /\ writes' = writes + 1 /\ writes \in Nat
      /\ PatchTo(c, "follow")
  BY DEF AskCore, SettingsInv, SettingsTypes
<1>2. patch' = [patch EXCEPT ![c] = r]
  BY DEF AskCore
<1>3. PatchType(r, writes') /\ r.keys = {"mode"} /\ r.store = "clash"
  BY <1>1, StoresAndKeys DEF PatchType, ClashKeys
<1> HIDE DEF r
<1>4. Grows /\ CellTypes
  BY <1>1, CellsStay DEF CellTypes
<1>5. SettingsTypes' /\ Others(c) /\ patch'[c] = r /\ settingPc'[c] = "follow"
  BY <1>1, <1>2, <1>3, <1>4, CallerTypes DEF SettingsInv, SettingsTypes
<1>6. OwnPart(c) /\ PatchesKept'
  BY <1>1, <1>3, <1>5 DEF OwnPart, PatchesKept, SettingsInv
<1> QED  BY <1>4, <1>5, <1>6, CallerStep

\* The mode follows the core: the other settings of the draft are committed too.
LEMMA FollowIsKept ==
  ASSUME NEW c \in PatchCallers, SettingsInv, FollowCore(c)
  PROVE  SettingsInv'
<1> DEFINE data == Patched(Latest("clash"), {"mode"}, patch[c].value)
<1>1. /\ Latest("clash") \in [Keys("clash") -> 0..writes] /\ patch[c].value \in 0..writes
      /\ DOMAIN cell = SettingStores /\ "clash" \in SettingStores
  BY StoresAndKeys DEF SettingsInv, SettingsTypes, Values
<1>2. /\ data \in [Keys("clash") -> 0..writes]
      /\ \A k \in Mine("clash") : data[k] = Latest("clash")[k]
  BY <1>1 DEF Patched, Mine
<1>3. cell' = [cell EXCEPT !["clash"] = data]
  BY <1>1 DEF FollowCore, Latest
<1>4. StoreOf(c) = "clash" /\ PatchAt(c, "follow")
  BY DEF FollowCore, SettingsInv, FollowsMode
<1>5. /\ PatchTo(c, "save") /\ UNCHANGED <<patch, promised, writes>>
      /\ pending' = [pending EXCEPT !["clash"] = NoDraft]
  BY DEF FollowCore
<1> HIDE DEF data
<1> QED  BY <1>1, <1>2, <1>3, <1>4, <1>5, CallerCommits

\* Every patch that is committed, as the latest.
LEMMA CommitIsKept ==
  ASSUME NEW c \in PatchCallers, SettingsInv, CommitPatch(c)
  PROVE  SettingsInv'
<1> DEFINE s == StoreOf(c)
           data == Latest(s)
<1>1. /\ s \in SettingStores /\ data \in [Keys(s) -> 0..writes]
      /\ DOMAIN cell = SettingStores
  BY DEF SettingsInv, SettingsTypes, Values, StoreOf
<1>2. cell' = [cell EXCEPT ![s] = data] /\ pending' = [pending EXCEPT ![s] = NoDraft]
  BY <1>1 DEF CommitPatch, Commit, Latest
<1>3. /\ PatchAt(c, "steps") /\ PatchTo(c, "save")
      /\ UNCHANGED <<patch, promised, writes>>
  BY DEF CommitPatch
<1>4. s = StoreOf(c) /\ \A k \in Mine(s) : data[k] = Latest(s)[k]
  OBVIOUS
<1> HIDE DEF s, data
<1> QED  BY <1>1, <1>2, <1>3, <1>4, CallerCommits

LEMMA PatchIsKept ==
  ASSUME NEW c \in PatchCallers, SettingsInv, PatchClash(c) \/ PatchVerge(c)
  PROVE  SettingsInv'
<1>1. CASE PatchClash(c)
  <2>1. PICK keys \in ClashPatches :
          /\ patch' = [patch EXCEPT ![c] =
               [store |-> "clash", keys |-> keys, value |-> writes',
                steps |-> ClashSteps(keys)]]
          /\ EditPending("clash", keys, writes')
    BY <1>1 DEF PatchClash
  <2>2. "clash" \in SettingStores /\ keys \in SUBSET Keys("clash")
    BY PatchesAssumption, StoresAndKeys
  <2>3. PatchTo(c, "steps") /\ writes' = writes + 1 /\ UNCHANGED <<cell, promised>>
    BY <1>1 DEF PatchClash
  <2> QED  BY <2>1, <2>2, <2>3, CallerPatches
<1>2. CASE PatchVerge(c)
  <2>1. PICK keys \in VergePatches :
          /\ patch' = [patch EXCEPT ![c] =
               [store |-> "verge", keys |-> keys, value |-> writes',
                steps |-> VergeSteps(keys)]]
          /\ EditPending("verge", keys, writes')
    BY <1>2 DEF PatchVerge
  <2>2. "verge" \in SettingStores /\ keys \in SUBSET Keys("verge")
    BY PatchesAssumption, StoresAndKeys
  <2>3. PatchTo(c, "steps") /\ writes' = writes + 1 /\ UNCHANGED <<cell, promised>>
    BY <1>2 DEF PatchVerge
  <2> QED  BY <2>1, <2>2, <2>3, CallerPatches
<1> QED  BY <1>1, <1>2

LEMMA NextIsKept == SettingsInv /\ [SettingsNext]_settingsVars => SettingsInv'
<1> SUFFICES ASSUME SettingsInv, [SettingsNext]_settingsVars
             PROVE  SettingsInv'
  OBVIOUS
<1>1. CASE ServiceChanges \/ UNCHANGED settingsVars
  BY <1>1, NothingMoves DEF ServiceChanges, settingsVars
<1>2. ASSUME NEW c \in PatchCallers, PatchClash(c) \/ PatchVerge(c)
      PROVE  SettingsInv'
  BY <1>2, PatchIsKept
<1>3. ASSUME NEW c \in PatchCallers, AskCore(c)
      PROVE  SettingsInv'
  BY <1>3, AskIsKept
<1>4. ASSUME NEW c \in PatchCallers, FollowCore(c)
      PROVE  SettingsInv'
  BY <1>4, FollowIsKept
<1>5. ASSUME NEW c \in PatchCallers, DoStep(c)
      PROVE  SettingsInv'
  BY <1>5, StepIsKept
<1>6. ASSUME NEW c \in PatchCallers, StepFails(c) \/ SaveSettingsFails(c)
      PROVE  SettingsInv'
  BY <1>6, CallerLeaves DEF StepFails, LeaveFailed, SaveSettingsFails
<1>7. ASSUME NEW c \in PatchCallers, CommitPatch(c)
      PROVE  SettingsInv'
  BY <1>7, CommitIsKept
<1>8. ASSUME NEW c \in PatchCallers, SaveSettings(c)
      PROVE  SettingsInv'
  <2>1. StoreOf(c) \in SettingStores
    BY DEF SettingsInv, SettingsTypes, StoreOf
  <2> QED  BY <1>8, <2>1, CallerIsAnswered DEF SaveSettings
<1>9. ASSUME NEW c \in PatchCallers, SkipSave(c)
      PROVE  SettingsInv'
  <2> DEFINE s == "verge"
  <2>1. s \in SettingStores /\ s = StoreOf(c) /\ PatchAt(c, "save") /\ PatchTo(c, "idle")
    BY <1>9, StoresAndKeys DEF SkipSave
  <2>2. promised' = [promised EXCEPT ![s] = Keeping(@, patch[c])]
    BY <1>9 DEF SkipSave
  <2>3. patch' = [patch EXCEPT ![c] = NoPatch] /\ UNCHANGED <<cell, pending, writes>>
    BY <1>9 DEF SkipSave
  <2> HIDE DEF s
  <2> QED  BY <2>1, <2>2, <2>3, CallerIsAnswered
<1> QED
  BY <1>1, <1>2, <1>3, <1>4, <1>5, <1>6, <1>7, <1>8, <1>9 DEF SettingsNext

\* What patch_clash and patch_verge answered with Ok stays committed until a
\* later patch writes the same key, for any number of callers and any patches:
\* a caller that fails leaves the draft to the others (feat/config.rs).
THEOREM PatchesAreKept == SettingsSpec => []PatchesKept
<1>1. SettingsInv => PatchesKept
  BY DEF SettingsInv
<1> QED  BY <1>1, InitIsKept, NextIsKept, PTL DEF SettingsSpec
=============================================================================
