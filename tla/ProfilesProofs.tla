--------------------------- MODULE ProfilesProofs ---------------------------
(***************************************************************************)
(* The profile list for any number of profiles, callers and calls: what    *)
(* the list, profiles.yaml, the files and the core have to do with each    *)
(* other, up to the mishaps the code does not repair.                      *)
(*                                                                         *)
(* ProfilesInv is the inductive invariant: first where a caller can be and *)
(* who holds the permit, the switch and the draft (Control); then that an  *)
(* import is of something new (Fresh), what the holder of the permit works *)
(* on (CopyKnown), and one part for each property.                         *)
(***************************************************************************)
EXTENDS Profiles, FiniteSetTheorems, SequenceTheorems, TLAPS

Modifying == {"want", "work", "commit"}
Switching == {"edit", "success", "failure", "restore", "apply"}

-----------------------------------------------------------------------------
(* Who can be where.                                                       *)

Active(c) == ~At(c, "idle")
Is(c, k) == Active(c) /\ kind[c] = k
Imports(c) == Is(c, "import") \/ Is(c, "link")
Modifies(c) == pc[c] \in Modifying

JobsOf(k) ==
  CASE k = "import" -> {"append_ext", "append", "save"}
    [] k = "link" -> {"append_ext", "append"}
    [] k = "delete" -> {"delete", "save"}
    [] k = "update" -> {"update_item"}
    [] k = "switch" -> {"commit_current", "save"}
    [] k = "restore" -> {"save"}
    [] OTHER -> {k}

Places ==
  \A c \in Callers :
    /\ Active(c) => kind[c] \in AllKinds \union {"restore"}
    /\ Modifies(c) =>
         job[c] \in JobsOf(kind[c]) /\ kind[c] \notin {"cleanup", "exit"}
    /\ pc[c] \in Switching => kind[c] = "switch"
    /\ pc[c] \in {"update", "updating"} =>
         kind[c] \in {"switch", "delete", "update", "link"}
    /\ pc[c] \in {"read", "write"} => kind[c] \in {"link", "exit"}
    /\ At(c, "clean") => kind[c] = "cleanup"

\* Calls are about a profile, a reorder about two.
Arguments ==
  \A c \in Callers :
    /\ Active(c) /\ kind[c] \notin {"cleanup", "exit"} => arg[c] # <<>>
    /\ Is(c, "reorder") => Len(arg[c]) = 2 /\ arg[c][1] # arg[c][2]

HoldsPermit == \A c \in Callers : pc[c] \in {"work", "commit"} <=> permit = c

OneSwitch ==
  \A c, d \in Callers : Is(c, "switch") =>
    switching /\ (Is(d, "switch") => c = d)

\* The flags belong to somebody.
Flags ==
  /\ updating # Null => At(updating, "updating")
  /\ switching => \E c \in Callers : Is(c, "switch")

DraftOfSwitch ==
  draft # Null =>
    \E c \in Callers :
      Is(c, "switch")
        /\ pc[c] \in {"update", "updating", "success", "failure", "apply"}

Control == TypeOK /\ Places /\ Arguments /\ HoldsPermit /\ OneSwitch
  /\ DraftOfSwitch /\ Flags

-----------------------------------------------------------------------------
(* What is imported is new.                                                *)

\* What the closure of an import appends, and what the import has not appended
\* when the closure begins.
Own(c) == IF job[c] = "append_ext" THEN ExtOf[Main(c)] ELSE Main(c)
Unlisted(c) == IF job[c] = "append_ext" THEN {ExtOf[Main(c)], Main(c)} ELSE {Main(c)}
Appends(c) == Imports(c) /\ Modifies(c) /\ job[c] # "save"

Fresh ==
  /\ \A c \in Callers : Appends(c) =>
       /\ Unlisted(c) \cap (Named(committed) \union Named(Latest)) = {}
       /\ (Unlisted(c) \ (IF At(c, "commit") THEN {Own(c)} ELSE {})) \cap Named(copy) = {}
       /\ \A d \in Callers : Is(d, "switch") =>
            Main(c) \notin {Main(d), seen[d]}
  /\ \A c, d \in Callers : Imports(c) /\ Imports(d) /\ c # d =>
       Main(c) # Main(d)

-----------------------------------------------------------------------------
(* What the holder of the permit works on.                                 *)

WorksOnCommitted == \A c \in Callers : At(c, "work") /\ ~overtaken =>
  copy = committed

Worked(c) ==
  /\ ToSet(copy.items) \subseteq
       ToSet(committed.items) \union (IF Appends(c) THEN {Own(c)} ELSE {})
  /\ copy.current = committed.current \/ job[c] \in {"append", "delete", "commit_current"}
  /\ job[c] = "append" =>
       \/ "adopted" \in mishaps
       \/ copy.current = committed.current /\ committed.current # Null
  /\ job[c] = "delete" =>
       /\ Main(c) \in ToSet(committed.items) /\ Main(c) \notin ToSet(copy.items)
       /\ committed.current \in {Main(c), Null} \/ copy.current = committed.current
  /\ job[c] = "commit_current" =>
       \/ "gone" \in mishaps
       \/ copy.current = Main(c) /\ Main(c) \in ToSet(committed.items)

CopyKnown ==
  /\ WorksOnCommitted
  /\ \A c \in Callers : At(c, "commit") /\ ~overtaken => Worked(c)

-----------------------------------------------------------------------------
(* The parts of the four properties.                                       *)

\* No list has a profile twice; each has its current one, until a reorder went
\* wrong.
Kept(list) == IsInjective(list.items)
  /\ (Excused({"misordered"}) \/ Sound(list))

AllSound ==
  /\ Kept(committed) /\ Kept(Latest) /\ Kept(copy) /\ Kept(disk)
  /\ \A c \in Callers : Kept(held[c])

FilesThere ==
  ~Excused({"fault", "overtaken", "overwritten", "swept"}) =>
    /\ ToSet(committed.items) \ Doomed \subseteq files
    /\ \A c \in Callers : At(c, "commit") /\ ~overtaken =>
         ToSet(copy.items) \subseteq files

\* Who is going to write profiles.yaml.
Writes(c) ==
  \/ pc[c] \in {"want", "work"} /\ job[c] \in {"append", "save"}
  \/ pc[c] \in {"read", "write"}

DiskOwed ==
  ~Excused({"fault", "misordered", "stale_write"}) =>
    /\ permit # Null /\ overtaken => \E d \in Callers : d # permit /\ Writes(d)
    /\ (\A c \in Callers : ~At(c, "commit")) /\ ~(permit # Null /\ overtaken)
         => disk = committed \/ \E d \in Callers : Writes(d)
    /\ \A c \in Callers : At(c, "commit") /\ ~overtaken =>
         disk = copy \/ job[c] \in {"append_ext", "append", "commit_current"}

CoreMishaps ==
  {"fault", "overtaken", "overwritten", "gone", "adopted", "refused", "timeout",
   "unanswered", "crossed"}

\* The profile a switch came from is current, or gone.
SeenKnown(c) ==
  pc[c] \in {"edit", "update", "updating", "failure", "restore"}
    /\ seen[c] # Null =>
    committed.current = seen[c] \/ ~Has(committed, seen[c])

\* The profile a switch goes to is in the draft, then in the core; or gone.
TargetKnown(c) ==
  /\ pc[c] \in {"update", "updating"} =>
       Latest.current = Main(c) \/ ~Has(committed, Main(c))
  /\ At(c, "success") \/ (Modifies(c) /\ job[c] = "commit_current") =>
       core = Main(c) \/ ~Has(committed, Main(c))

\* A draft about to be applied changes nothing, or overwrites something.
RestoreKnown(c) ==
  At(c, "apply") /\ draft # Null =>
    \/ \E u \in ToSet(draft.items) : ~Has(committed, u)
    \/ /\ draft.current = committed.current
       /\ \A m \in Mains :
            Has(committed, m) /\ committed.current \in {m, Null} =>
              Has(draft, m)

\* Who is going to give the core another profile, or has done so and is going
\* to commit it.
Owes(c) ==
  \/ /\ Is(c, "delete") /\ job[c] = "save" /\ seen[c] = Main(c)
     /\ pc[c] \in Modifying \union {"update", "updating"}
  \/ /\ Is(c, "switch")
     /\ At(c, "success") \/ (Modifies(c) /\ job[c] = "commit_current")

CoreOwed ==
  ~Excused(CoreMishaps) =>
    /\ \A c \in Callers :
         Is(c, "switch") => SeenKnown(c) /\ TargetKnown(c) /\ RestoreKnown(c)
    /\ core = committed.current \/ \E c \in Callers : Owes(c)

ProfilesInv ==
  Control /\ Fresh /\ CopyKnown /\ AllSound /\ FilesThere /\ DiskOwed
    /\ CoreOwed

-----------------------------------------------------------------------------
(* Lists: what the operators on sequences do to the items.                 *)

\* A set of numbers that is not empty has a least one.
LEMMA LeastNatural ==
  ASSUME NEW T \in SUBSET Nat, T # {}
  PROVE  \E n \in T : \A m \in T : n <= m
<1> DEFINE F == {0..n : n \in T}
<1>1. ASSUME NEW n \in T PROVE IsFiniteSet(0..n) /\ 0..n \subseteq Nat
  <2>1. n \in Int /\ 0 \in Int
    OBVIOUS
  <2>2. IsFiniteSet(0..n)
    BY <2>1, FS_Interval, Zenon
  <2> QED BY <2>2
<1>2. F # {} /\ F \subseteq FiniteSubsetsOf(Nat)
  BY <1>1 DEF FiniteSubsetsOf
<1>3. PICK x \in F : \A y \in F : <<y, x>> \notin StrictSubsetOrdering(Nat)
  <2>1. IsWellFoundedOn(StrictSubsetOrdering(Nat), FiniteSubsetsOf(Nat))
    BY FS_StrictSubsetOrderingWellFounded, Zenon
  <2> HIDE DEF F
  <2> QED BY <1>2, <2>1, WFMin, Zenon
<1>4. PICK n \in T : x = 0..n
  OBVIOUS
<1>5. ASSUME NEW m \in T, m < n PROVE FALSE
  <2>1. 0..m \in F /\ 0..m \subseteq x /\ 0..m # x /\ x \subseteq Nat
    <3>1. n \in 0..n /\ n \notin 0..m
      BY <1>5
    <3> QED BY <1>4, <1>5, <3>1
  <2> QED BY <2>1, <1>3 DEF StrictSubsetOrdering
<1> QED BY <1>5

\* The items of a list are what is at its places.
LEMMA ToSetIndex ==
  ASSUME NEW S, NEW s \in Seq(S)
  PROVE  /\ ToSet(s) \subseteq S
         /\ \A x : x \in ToSet(s) <=> \E i \in 1..Len(s) : s[i] = x
BY DEF ToSet

\* Position finds an item of the list (iter().position in profiles.rs).
LEMMA IsPosition ==
  ASSUME NEW S, NEW s \in Seq(S), NEW u \in ToSet(s)
  PROVE  Position(s, u) \in 1..Len(s) /\ s[Position(s, u)] = u
<1>1. \E i \in DOMAIN s : s[i] = u
  BY DEF ToSet
<1>2. Position(s, u) \in DOMAIN s /\ s[Position(s, u)] = u
  BY <1>1, Zenon DEF Position
<1> QED BY <1>2

\* Appending adds one item, and no second one if it was not there.
LEMMA AppendedList ==
  ASSUME NEW S, NEW s \in Seq(S), NEW u \in S
  PROVE  /\ Append(s, u) \in Seq(S)
         /\ ToSet(Append(s, u)) = ToSet(s) \union {u}
         /\ IsInjective(s) /\ u \notin ToSet(s) => IsInjective(Append(s, u))
<1> DEFINE t == Append(s, u)
<1>1. /\ t \in Seq(S) /\ Len(t) = Len(s) + 1 /\ Len(s) \in Nat
      /\ \A i \in 1..Len(s) : t[i] = s[i]
      /\ t[Len(s) + 1] = u
  BY AppendProperties
<1> HIDE DEF t
<1>2. DOMAIN t = 1..(Len(s) + 1) /\ DOMAIN s = 1..Len(s)
  BY <1>1
<1>3. ToSet(t) = ToSet(s) \union {u}
  BY <1>1, <1>2 DEF ToSet
<1>4. ASSUME IsInjective(s), u \notin ToSet(s) PROVE IsInjective(t)
  BY <1>1, <1>2, <1>4 DEF IsInjective, ToSet
<1> QED BY <1>1, <1>3, <1>4 DEF t

\* Removing a place moves what is behind it.
LEMMA WithoutIndex ==
  ASSUME NEW S, NEW s \in Seq(S), NEW k \in 1..Len(s)
  PROVE  /\ RemoveAt(s, k) \in Seq(S)
         /\ Len(RemoveAt(s, k)) = Len(s) - 1
         /\ \A i \in 1..(Len(s) - 1) :
              RemoveAt(s, k)[i] = IF i < k THEN s[i] ELSE s[i + 1]
<1> DEFINE l == SubSeq(s, 1, k - 1)
           r == SubSeq(s, k + 1, Len(s))
<1>1. Len(s) \in Nat /\ k \in Nat /\ k >= 1 /\ k <= Len(s)
        /\ \A i \in 1..Len(s) : s[i] \in S
  OBVIOUS
<1>2. l \in Seq(S) /\ Len(l) = k - 1 /\ \A i \in 1..(k - 1) : l[i] = s[i]
  <2>1. k - 1 \in Int /\ 1 \in Int /\ \A i \in 1..(k - 1) : s[i] \in S
    BY <1>1
  <2> QED BY <1>1, <2>1, SubSeqProperties
<1>3. r \in Seq(S) /\ Len(r) = Len(s) - k /\ \A i \in 1..(Len(s) - k) :
        r[i] = s[k + i]
  <2>1. k + 1 \in Int /\ Len(s) \in Int /\ \A i \in (k + 1)..Len(s) : s[i] \in S
    BY <1>1
  <2> QED BY <1>1, <2>1, SubSeqProperties
<1>4. RemoveAt(s, k) = l \o r
  BY DEF RemoveAt
<1> HIDE DEF l, r
<1>5. /\ l \o r \in Seq(S) /\ Len(l \o r) = Len(l) + Len(r)
      /\ \A i \in 1..(Len(l) + Len(r)) : (l \o r)[i] = IF i <= Len(l) THEN l[i] ELSE r[i - Len(l)]
  BY <1>2, <1>3, ConcatProperties
<1> QED BY <1>1, <1>2, <1>3, <1>4, <1>5

\* take_item_file_by_uid takes an item out, all of it if it is there once.
LEMMA WithoutItem ==
  ASSUME NEW S, NEW s \in Seq(S), NEW u
  PROVE  /\ TakeOut(s, u) \in Seq(S)
         /\ ToSet(TakeOut(s, u)) \subseteq ToSet(s)
         /\ ToSet(s) \subseteq ToSet(TakeOut(s, u)) \union {u}
         /\ IsInjective(s) =>
              IsInjective(TakeOut(s, u))
                /\ ToSet(TakeOut(s, u)) = ToSet(s) \ {u}
<1>1. CASE u \notin ToSet(s)
  BY <1>1, Zenon DEF TakeOut
<1>2. CASE u \in ToSet(s)
  <2> DEFINE k == Position(s, u)
             t == RemoveAt(s, k)
  <2>1. k \in 1..Len(s) /\ s[k] = u
    BY <1>2, IsPosition
  <2>2. TakeOut(s, u) = t
    BY <1>2 DEF TakeOut
  <2> HIDE DEF k
  <2>3. /\ t \in Seq(S) /\ Len(t) = Len(s) - 1 /\ Len(s) \in Nat
        /\ \A i \in 1..(Len(s) - 1) : t[i] = IF i < k THEN s[i] ELSE s[i + 1]
    BY <2>1, WithoutIndex
  <2> HIDE DEF t
  <2>4. DOMAIN t = 1..(Len(s) - 1) /\ DOMAIN s = 1..Len(s)
    BY <2>3
  <2>5. ToSet(t) \subseteq ToSet(s)
    BY <2>1, <2>3, <2>4 DEF ToSet
  <2>6. ASSUME NEW i \in 1..Len(s), i # k PROVE s[i] \in ToSet(t)
    <3> DEFINE j == IF i < k THEN i ELSE i - 1
    <3>1. j \in 1..(Len(s) - 1) /\ t[j] = s[i]
      BY <2>1, <2>3, <2>6
    <3> QED BY <3>1, <2>4 DEF ToSet
  <2>7. ASSUME IsInjective(s) PROVE IsInjective(t) /\ u \notin ToSet(t)
    <3>1. \A i, j \in 1..Len(s) : s[i] = s[j] => i = j
      BY <2>4, <2>7 DEF IsInjective
    <3>2. IsInjective(t)
      BY <2>1, <2>3, <2>4, <3>1 DEF IsInjective
    <3>3. \A i \in 1..(Len(s) - 1) : t[i] # u
      BY <2>1, <2>3, <3>1
    <3> QED BY <2>4, <3>2, <3>3 DEF ToSet
  <2>8. ToSet(s) \subseteq ToSet(t) \union {u}
    BY <2>1, <2>6, <2>4 DEF ToSet
  <2> QED BY <2>2, <2>3, <2>5, <2>7, <2>8
<1> QED BY <1>1, <1>2

\* Inserting at a place moves what was there and behind.
LEMMA WithIndex ==
  ASSUME NEW S, NEW s \in Seq(S), NEW k \in 1..(Len(s) + 1), NEW u \in S
  PROVE  /\ InsertAt(s, k, u) \in Seq(S)
         /\ Len(InsertAt(s, k, u)) = Len(s) + 1
         /\ \A i \in 1..(Len(s) + 1) :
              InsertAt(s, k, u)[i] =
                IF i < k THEN s[i] ELSE IF i = k THEN u ELSE s[i - 1]
<1> DEFINE l == SubSeq(s, 1, k - 1)
           m == l \o <<u>>
           r == SubSeq(s, k, Len(s))
<1>1. Len(s) \in Nat /\ k \in Nat /\ k >= 1 /\ k <= Len(s) + 1
        /\ \A i \in 1..Len(s) : s[i] \in S
  OBVIOUS
<1>2. l \in Seq(S) /\ Len(l) = k - 1 /\ \A i \in 1..(k - 1) : l[i] = s[i]
  <2>1. k - 1 \in Int /\ 1 \in Int /\ \A i \in 1..(k - 1) : s[i] \in S
    BY <1>1
  <2> QED BY <1>1, <2>1, SubSeqProperties
<1>3. r \in Seq(S) /\ Len(r) = Len(s) - k + 1 /\ \A i \in 1..(Len(s) - k + 1) :
        r[i] = s[k + i - 1]
  <2>1. k \in Int /\ Len(s) \in Int /\ \A i \in k..Len(s) : s[i] \in S
    BY <1>1
  <2> QED BY <1>1, <2>1, SubSeqProperties
<1>4. InsertAt(s, k, u) = m \o r
  BY DEF InsertAt
<1> HIDE DEF l, r
<1>5. /\ m \in Seq(S) /\ Len(m) = k
      /\ \A i \in 1..k : m[i] = IF i < k THEN s[i] ELSE u
  <2>1. <<u>> \in Seq(S) /\ Len(<<u>>) = 1 /\ <<u>>[1] = u
    OBVIOUS
  <2>2. /\ m \in Seq(S) /\ Len(m) = Len(l) + 1
        /\ \A i \in 1..(Len(l) + 1) : m[i] = IF i <= Len(l) THEN l[i] ELSE <<u>>[i - Len(l)]
    BY <1>2, <2>1, ConcatProperties
  <2> HIDE DEF m
  <2> QED BY <1>1, <1>2, <2>1, <2>2
<1> HIDE DEF m
<1>6. /\ m \o r \in Seq(S) /\ Len(m \o r) = Len(m) + Len(r)
      /\ \A i \in 1..(Len(m) + Len(r)) : (m \o r)[i] = IF i <= Len(m) THEN m[i] ELSE r[i - Len(m)]
  BY <1>3, <1>5, ConcatProperties
<1> QED BY <1>1, <1>3, <1>4, <1>5, <1>6

\* IProfiles::reorder of two profiles in the list keeps every item.
LEMMA MovedItem ==
  ASSUME NEW S, NEW s \in Seq(S), NEW a \in ToSet(s), NEW b \in ToSet(s)
  PROVE  /\ Moved(s, a, b) \in Seq(S)
         /\ ToSet(Moved(s, a, b)) \subseteq ToSet(s)
         /\ IsInjective(s) =>
              IsInjective(Moved(s, a, b)) /\ ToSet(Moved(s, a, b)) = ToSet(s)
<1> DEFINE k == Position(s, b)
           r == TakeOut(s, a)
           t == InsertAt(r, k, a)
<1>1. k \in 1..Len(s) /\ a \in S
  BY IsPosition, ToSetIndex
<1>2. /\ r \in Seq(S) /\ ToSet(r) \subseteq ToSet(s)
      /\ IsInjective(s) => IsInjective(r) /\ ToSet(r) = ToSet(s) \ {a}
  BY WithoutItem
<1>3. Len(r) = Len(s) - 1
  BY IsPosition, WithoutIndex DEF TakeOut
<1>4. Moved(s, a, b) = t
  BY DEF Moved
<1> HIDE DEF k, r
<1>5. k \in 1..(Len(r) + 1) /\ Len(r) \in Nat /\ DOMAIN r = 1..Len(r)
  BY <1>1, <1>2, <1>3
<1>6. /\ t \in Seq(S) /\ Len(t) = Len(r) + 1
      /\ \A i \in 1..(Len(r) + 1) : t[i] = IF i < k THEN r[i] ELSE IF i = k THEN a ELSE r[i - 1]
  <2>1. r \in Seq(S) /\ k \in 1..(Len(r) + 1) /\ a \in S
    BY <1>1, <1>2, <1>5
  <2> QED BY <2>1, WithIndex
<1> HIDE DEF t
<1>7. DOMAIN t = 1..(Len(r) + 1)
  BY <1>5, <1>6
<1>8. ToSet(t) \subseteq ToSet(s)
  <2>1. \A i \in 1..(Len(r) + 1) : i >= k => i = k \/ i - 1 \in 1..Len(r)
    BY <1>5
  <2>2. \A i \in 1..(Len(r) + 1) : i < k => i \in 1..Len(r)
    BY <1>5
  <2>3. \A i \in 1..(Len(r) + 1) : t[i] = a \/ \E j \in 1..Len(r) : t[i] = r[j]
    BY <1>5, <1>6, <2>1, <2>2
  <2>4. ToSet(t) \subseteq ToSet(r) \union {a}
    BY <1>5, <1>7, <2>3 DEF ToSet
  <2>5. a \in ToSet(s)
    OBVIOUS
  <2> QED BY <1>2, <2>4, <2>5
<1>9. ASSUME IsInjective(s) PROVE IsInjective(t) /\ ToSet(s) \subseteq ToSet(t)
  <2>1. \A i \in 1..Len(r) : r[i] # a
    BY <1>2, <1>5, <1>9 DEF ToSet
  <2>2. \A i, j \in 1..Len(r) : r[i] = r[j] => i = j
    BY <1>2, <1>5, <1>9 DEF IsInjective
  <2>3. IsInjective(t)
    <3> DEFINE old(i) == IF i < k THEN i ELSE i - 1
    <3>1. /\ t[k] = a
          /\ \A i \in (1..(Len(r) + 1)) \ {k} : old(i) \in 1..Len(r)
               /\ t[i] = r[old(i)]
      BY <1>5, <1>6
    <3>2. \A i, j \in (1..(Len(r) + 1)) \ {k} : old(i) = old(j) => i = j
      BY <1>5
    <3> HIDE DEF old
    <3>3. \A i, j \in 1..(Len(r) + 1) : t[i] = t[j] => i = j
      BY <2>1, <2>2, <3>1, <3>2
    <3> QED BY <1>7, <3>3 DEF IsInjective
  <2>4. ASSUME NEW i \in 1..Len(r) PROVE r[i] \in ToSet(t)
    <3> DEFINE j == IF i < k THEN i ELSE i + 1
    <3>1. j \in 1..(Len(r) + 1) /\ t[j] = r[i]
      BY <1>5, <1>6
    <3> QED BY <3>1, <1>7 DEF ToSet
  <2>5. a \in ToSet(t)
    BY <1>5, <1>6, <1>7 DEF ToSet
  <2>6. ToSet(r) \subseteq ToSet(t)
    BY <1>5, <2>4 DEF ToSet
  <2>7. ToSet(s) \subseteq ToSet(t)
    BY <1>2, <1>9, <2>5, <2>6
  <2> QED BY <2>3, <2>7
<1> QED
  <2>1. IsInjective(s) => ToSet(t) = ToSet(s)
    BY <1>8, <1>9
  <2> QED BY <1>4, <1>6, <1>8, <1>9, <2>1

\* The profile a deletion makes the current one is in what is left.
LEMMA FirstMainInList ==
  ASSUME NEW S, NEW s \in Seq(S)
  PROVE  FirstMain(s) # Null =>
           FirstMain(s) \in Mains /\ FirstMain(s) \in ToSet(s)
<1> DEFINE mains == {i \in DOMAIN s : s[i] \in Mains}
<1>1. CASE mains = {}
  BY <1>1 DEF FirstMain
<1>2. CASE mains # {}
  <2>1. mains \in SUBSET Nat /\ DOMAIN s \subseteq Nat
    OBVIOUS
  <2>2. \E n \in mains : \A m \in mains : n <= m
    <3> HIDE DEF mains
    <3> QED BY <1>2, <2>1, LeastNatural
  <2>3. Min(mains) \in mains
    <3> HIDE DEF mains
    <3> QED BY <2>2 DEF Min
  <2>4. FirstMain(s) = s[Min(mains)]
    BY <1>2 DEF FirstMain
  <2> QED BY <2>3, <2>4 DEF ToSet
<1> QED BY <1>1, <1>2

\* Profiles, extensions, callers and Null are told apart.
LEMMA Identities ==
  /\ Null \notin Uids \union Callers /\ Null \notin Lists
  /\ ExtOf \in [Mains -> Exts] /\ Mains \intersect Exts = {}
  /\ \A m, n \in Mains : ExtOf[m] = ExtOf[n] => m = n
  /\ Blank \in Lists
BY ProfilesAssumption DEF Lists, IsInjective, Blank, Uids

\* The list at the start has nothing twice, and its current profile.
LEMMA FirstList ==
  /\ ListOf(First) \in Seq(Uids) /\ IsInjective(ListOf(First))
  /\ First # <<>> => First[1] \in Mains /\ First[1] \in ToSet(ListOf(First))
<1> DEFINE n == Len(First)
           exts == [i \in DOMAIN First |-> ExtOf[First[i]]]
           all == First \o exts
<1>1. /\ First \in Seq(Uids) /\ exts \in Seq(Uids)
      /\ n \in Nat /\ DOMAIN First = 1..n /\ Len(exts) = n
      /\ \A i \in 1..n : First[i] \in Mains /\ exts[i] = ExtOf[First[i]]
  BY ProfilesAssumption DEF Uids
<1>2. \A i, j \in 1..n : First[i] = First[j] => i = j
  BY <1>1, ProfilesAssumption DEF IsInjective
<1>3. \A i, j \in 1..n : exts[i] = exts[j] => i = j
  BY <1>1, <1>2, Identities
<1>4. \A i, j \in 1..n : First[i] # exts[j]
  BY <1>1, Identities
<1> HIDE DEF exts, n
<1>5. /\ all \in Seq(Uids) /\ Len(all) = n + n
      /\ \A i \in 1..(n + n) : all[i] = IF i <= n THEN First[i] ELSE exts[i - n]
  <2>1. /\ all \in Seq(Uids) /\ Len(all) = Len(First) + Len(exts)
        /\ \A i \in 1..(Len(First) + Len(exts)) :
             all[i] = IF i <= Len(First) THEN First[i] ELSE exts[i - Len(First)]
    BY <1>1, ConcatProperties
  <2>2. Len(First) = n /\ Len(exts) = n
    BY <1>1 DEF n
  <2> QED BY <2>1, <2>2, Zenon
<1>6. ListOf(First) = all
  BY DEF ListOf, exts
<1> HIDE DEF all
<1>7. DOMAIN all = 1..(n + n)
  BY <1>1, <1>5
<1>8. IsInjective(all)
  BY <1>1, <1>2, <1>3, <1>4, <1>5, <1>7 DEF IsInjective
<1>9. ASSUME First # <<>> PROVE 1 \in 1..n /\ First[1] = all[1]
  BY <1>1, <1>5, <1>9, ProfilesAssumption DEF n
<1>10. First # <<>> => First[1] \in Mains /\ First[1] \in ToSet(all)
  BY <1>1, <1>7, <1>9 DEF ToSet
<1> QED BY <1>5, <1>6, <1>8, <1>10

\* What delete_item leaves.
LEMMA DeletedList ==
  ASSUME NEW l \in Lists, NEW m \in Mains
  PROVE  /\ Deleted(l, m) \in Lists
         /\ ToSet(Deleted(l, m).items) \subseteq ToSet(l.items)
         /\ ToSet(l.items) \subseteq ToSet(Deleted(l, m).items) \union {m, ExtOf[m]}
         /\ l.current \in {m, Null} \/ Deleted(l, m).current = l.current
         /\ Deleted(l, m).current # Null /\ l.current \in {m, Null} =>
              Has(Deleted(l, m), Deleted(l, m).current)
         /\ IsInjective(l.items) =>
              /\ IsInjective(Deleted(l, m).items)
              /\ ToSet(Deleted(l, m).items) = ToSet(l.items) \ {m, ExtOf[m]}
         /\ Sound(l) => Sound(Deleted(l, m))
<1> DEFINE one == TakeOut(l.items, m)
           two == TakeOut(one, ExtOf[m])
           d == Deleted(l, m)
<1>1. l.items \in Seq(Uids) /\ l.current \in Mains \union {Null}
  BY DEF Lists
<1>2. /\ one \in Seq(Uids) /\ ToSet(one) \subseteq ToSet(l.items)
      /\ ToSet(l.items) \subseteq ToSet(one) \union {m}
      /\ IsInjective(l.items) =>
           IsInjective(one) /\ ToSet(one) = ToSet(l.items) \ {m}
  BY <1>1, WithoutItem
<1> HIDE DEF one
<1>3. /\ two \in Seq(Uids) /\ ToSet(two) \subseteq ToSet(one)
      /\ ToSet(one) \subseteq ToSet(two) \union {ExtOf[m]}
      /\ IsInjective(one) =>
           IsInjective(two) /\ ToSet(two) = ToSet(one) \ {ExtOf[m]}
  BY <1>2, WithoutItem
<1>4. d = [items |-> two,
           current |-> IF l.current \in {m, Null} THEN FirstMain(two) ELSE l.current]
  BY DEF Deleted, one
<1> HIDE DEF two, d
<1>5. FirstMain(two) # Null =>
        FirstMain(two) \in Mains /\ FirstMain(two) \in ToSet(two)
  BY <1>3, FirstMainInList
<1>6. /\ d.items = two
      /\ d.current = IF l.current \in {m, Null} THEN FirstMain(two) ELSE l.current
  BY <1>4
<1>7. d \in Lists
  BY <1>1, <1>3, <1>4, <1>5 DEF Lists
<1>8. d.current # Null /\ l.current \in {m, Null} => Has(d, d.current)
  BY <1>5, <1>6 DEF Has
<1>9. IsInjective(l.items) =>
        IsInjective(two) /\ ToSet(two) = ToSet(l.items) \ {m, ExtOf[m]}
  BY <1>2, <1>3
<1>10. Sound(l) => Sound(d)
  <2> SUFFICES ASSUME Sound(l) PROVE Sound(d)
    OBVIOUS
  <2>1. IsInjective(two) /\ ToSet(two) = ToSet(l.items) \ {m, ExtOf[m]}
    BY <1>9 DEF Sound
  <2>2. l.current # m /\ l.current # Null => l.current # ExtOf[m]
    BY <1>1, Identities
  <2>3. d.current # Null => Has(d, d.current)
    BY <1>6, <1>8, <2>1, <2>2 DEF Has, Sound
  <2> QED BY <1>6, <2>1, <2>3 DEF Sound
<1> QED BY <1>2, <1>3, <1>6, <1>7, <1>8, <1>9, <1>10 DEF d

-----------------------------------------------------------------------------
(* Types.                                                                  *)

CallersTyped ==
  /\ pc \in [Callers -> Labels]
  /\ kind \in [Callers -> AllKinds \union {"restore", Null}]
  /\ arg \in [Callers -> Seq(Mains)]
  /\ job \in [Callers -> Jobs \union {Null}]
  /\ seen \in [Callers -> Mains \union {Null}]
  /\ held \in [Callers -> Lists]

\* Wherever a caller goes next.
LEMMA MovesTyped ==
  ASSUME CallersTyped, NEW c \in Callers
  PROVE  /\ \A l \in Labels : Goto(c, l) => CallersTyped'
         /\ \A j \in Jobs : Modify(c, j) => CallersTyped'
         /\ Finish(c) => CallersTyped'
<1>1. Blank \in Lists /\ <<>> \in Seq(Mains)
  BY Identities
<1>2. {"idle", "want"} \subseteq Labels
  BY DEF Labels
<1>3. ASSUME NEW l \in Labels, Goto(c, l) PROVE CallersTyped'
  BY <1>3 DEF CallersTyped, Goto
<1>4. ASSUME NEW j \in Jobs, Modify(c, j) PROVE CallersTyped'
  BY <1>2, <1>4 DEF CallersTyped, Modify
<1>5. ASSUME Finish(c) PROVE CallersTyped'
  BY <1>1, <1>2, <1>5 DEF CallersTyped, Finish
<1> QED BY <1>3, <1>4, <1>5

LEMMA BeginTyped ==
  ASSUME CallersTyped, NEW c \in Callers, NEW k, NEW ms \in Seq(Mains), Begin(c, k, ms)
  PROVE  /\ kind' \in [Callers -> AllKinds \union {"restore", Null}]
         /\ arg' \in [Callers -> Seq(Mains)]
         /\ calls \in 0..MaxCalls => calls' \in 0..MaxCalls
BY ProfilesAssumption DEF CallersTyped, Begin

LEMMA CallTyped == ASSUME Control, NEW c \in Callers, Call(c) PROVE TypeOK'
<1> DEFINE Rest == UNCHANGED <<store, coreVars, permit, copy>>
           Same == UNCHANGED <<draft, overtaken>>
<1>1. TypeOK /\ CallersTyped
  BY DEF Control, TypeOK, CallersTyped
<1>2. <<>> \in Seq(Mains) /\ \A m, n \in Mains : <<m>> \in Seq(Mains)
        /\ <<m, n>> \in Seq(Mains)
  OBVIOUS
<1>3. {"want", "edit", "update", "clean", "read"} \subseteq Labels
  BY DEF Labels
<1>4. {"append_ext", "update_item", "delete", "patch", "reorder"} \subseteq Jobs
  BY DEF Jobs
<1>5. ASSUME CallersTyped', calls' \in 0..MaxCalls, committed' \in Lists,
             draft' \in Lists \union {Null},
             switching' \in BOOLEAN, overtaken' \in BOOLEAN, Rest
      PROVE  TypeOK'
  BY <1>1, <1>5 DEF TypeOK, CallersTyped, store, coreVars
<1>6. ASSUME NEW m \in Mains, CallSwitch(c, m), Same, Rest PROVE TypeOK'
  <2>1. Begin(c, "switch", <<m>>) /\ committed.current \in Mains \union {Null}
    BY <1>1, <1>6 DEF CallSwitch, TypeOK, Lists
  <2>2. CallersTyped' /\ calls' \in 0..MaxCalls
    BY <1>1, <1>2, <1>3, <1>6, <2>1, BeginTyped
       DEF CallSwitch, CallersTyped, TypeOK
  <2> QED BY <1>1, <1>5, <1>6, <2>2 DEF CallSwitch, TypeOK
<1>7. ASSUME NEW m \in Mains, CallUpdate(c, m), Same, Rest PROVE TypeOK'
  <2>1. Begin(c, "update", <<m>>) /\ Latest.current \in Mains \union {Null}
    BY <1>1, <1>7 DEF CallUpdate, TypeOK, Lists, Latest
  <2>2. CallersTyped' /\ calls' \in 0..MaxCalls
    BY <1>1, <1>2, <1>3, <1>4, <1>7, <2>1, BeginTyped
       DEF CallUpdate, Fetch, CallersTyped,
       TypeOK
  <2> QED BY <1>1, <1>5, <1>7, <2>2 DEF CallUpdate, TypeOK
<1>8. ASSUME NEW k \in {"delete", "patch", "reorder"}, NEW ms \in Seq(Mains), CallModify(c,
             k, ms), Same, Rest
      PROVE  TypeOK'
  <2>1. Begin(c, k, ms)
    BY <1>8 DEF CallModify
  <2>2. CallersTyped' /\ calls' \in 0..MaxCalls
    BY <1>1, <1>3, <1>4, <1>8, <2>1, BeginTyped
       DEF CallModify, CallersTyped, TypeOK
  <2> QED BY <1>1, <1>5, <1>8, <2>2 DEF CallModify, TypeOK
<1>9. ASSUME NEW k \in Kinds, NEW m \in Mains, CallImport(c, k, m), Same, Rest
               PROVE TypeOK'
  <2>1. Begin(c, k, <<m>>) /\ Latest.current \in Mains \union {Null}
    BY <1>1, <1>9 DEF CallImport, TypeOK, Lists, Latest
  <2>2. CallersTyped' /\ calls' \in 0..MaxCalls
    BY <1>1, <1>2, <1>3, <1>4, <1>9, <2>1, BeginTyped
       DEF CallImport, CallersTyped, TypeOK
  <2> QED BY <1>1, <1>5, <1>9, <2>2 DEF CallImport, TypeOK
<1>10. ASSUME CallCleanup(c), Same, Rest PROVE TypeOK'
  <2>1. Begin(c, "cleanup", <<>>)
    BY <1>10 DEF CallCleanup
  <2>2. CallersTyped' /\ calls' \in 0..MaxCalls
    BY <1>1, <1>2, <1>3, <1>10, <2>1, BeginTyped
       DEF CallCleanup, CallersTyped, TypeOK
  <2> QED BY <1>1, <1>5, <1>10, <2>2 DEF CallCleanup, TypeOK
<1>11. ASSUME CallExit(c), Rest PROVE TypeOK'
  <2>1. Begin(c, "exit", <<>>)
    BY <1>11 DEF CallExit
  <2>2. CallersTyped' /\ calls' \in 0..MaxCalls
    BY <1>1, <1>2, <1>3, <1>11, <2>1, BeginTyped
       DEF CallExit, CallersTyped, TypeOK
  <2> QED BY <1>1, <1>5, <1>11, <2>2 DEF CallExit, ApplyDraft, TypeOK, Latest
<1> QED
  BY <1>2, <1>6, <1>7, <1>8, <1>9, <1>10, <1>11
     DEF Call, CallDelete, CallPatch, CallReorder

LEMMA ClosureTyped ==
  ASSUME TypeOK, NEW c \in Callers, NEW j, NEW new \in Lists, NEW saves,
         Closure(c, j, new, saves), files' \subseteq Uids
  PROVE  TypeOK'
<1>1. CallersTyped'
  BY MovesTyped DEF TypeOK, CallersTyped, Labels, Closure
<1> QED BY <1>1 DEF TypeOK, CallersTyped, Closure, cell, coreVars

LEMMA FailTyped ==
  ASSUME TypeOK, NEW c \in Callers, Fail(c), disk' \in Lists, files' \subseteq Uids
  PROVE  TypeOK'
<1>1. CallersTyped' /\ Blank \in Lists
  BY MovesTyped, Identities DEF TypeOK, CallersTyped, Fail
<1> QED BY <1>1 DEF TypeOK, CallersTyped, Fail, coreVars

\* The callers whose call has an argument.
LEMMA HasMain ==
  ASSUME Control, NEW c \in Callers, Active(c), kind[c] \notin {"cleanup", "exit"}
  PROVE  Main(c) \in Mains /\ ExtOf[Main(c)] \in Exts
           /\ Main(c) \in ToSet(arg[c])
<1>1. arg[c] # <<>> /\ arg[c] \in Seq(Mains)
  BY DEF Control, Arguments, TypeOK
<1>2. 1 \in DOMAIN arg[c] /\ arg[c][1] \in Mains
  BY <1>1
<1> QED BY <1>2, Identities DEF Main, ToSet

LEMMA WorkTyped == ASSUME Control, NEW c \in Callers, Work(c) PROVE TypeOK'
<1>1. TypeOK /\ copy \in Lists /\ files \subseteq Uids
  BY DEF Control, TypeOK
<1>2. At(c, "work") /\ Active(c) /\ Modifies(c)
  BY DEF Work, AppendExtension, AppendMain, AppendItem, DeleteItem, Reorder,
     PatchItem,
     UpdateItem, CommitCurrent, SaveFile, Closure, NotFound, WriteFails, At, Active,
     Modifies, Modifying
<1>3. /\ Main(c) \in Mains /\ ExtOf[Main(c)] \in Exts /\ Main(c) \in Uids
      /\ ExtOf[Main(c)] \in Uids
  <2>1. kind[c] \notin {"cleanup", "exit"}
    BY <1>2 DEF Control, Places
  <2> QED BY <1>2, <2>1, HasMain DEF Uids
<1>4. ASSUME NEW j, NEW u \in Uids, AppendItem(c, j, u) PROVE TypeOK'
  <2> DEFINE new == [current |-> IF copy.current = Null /\ u \in Mains THEN u ELSE copy.current,
                     items |-> Append(copy.items, u)]
  <2>1. new \in Lists
    BY <1>1, AppendedList DEF Lists
  <2>2. Closure(c, j, new, FALSE) /\ files' \subseteq Uids
    BY <1>1, <1>4 DEF AppendItem
  <2> QED BY <1>1, <2>1, <2>2, ClosureTyped
<1>5. CASE DeleteItem(c)
  BY <1>1, <1>3, <1>5, DeletedList, ClosureTyped DEF DeleteItem
<1>6. CASE Reorder(c)
  <2> DEFINE known == ToSet(arg[c]) \subseteq ToSet(copy.items)
             items == IF known THEN Moved(copy.items, arg[c][1], arg[c][2]) ELSE <<>>
  <2>1. ASSUME known PROVE items \in Seq(Uids)
    <3>1. Len(arg[c]) = 2 /\ arg[c] \in Seq(Mains)
      BY <1>1, <1>2, <1>6
         DEF Control, Arguments, Places, Reorder, Closure, Is, TypeOK,
         JobsOf, Modifies, Modifying
    <3>2. arg[c][1] \in ToSet(copy.items) /\ arg[c][2] \in ToSet(copy.items)
      <4>1. arg[c][1] \in ToSet(arg[c]) /\ arg[c][2] \in ToSet(arg[c])
        BY <3>1 DEF ToSet
      <4> QED BY <2>1, <4>1
    <3> QED BY <1>1, <2>1, <3>2, MovedItem DEF Lists
  <2>2. items \in Seq(Uids)
    BY <2>1
  <2>3. [copy EXCEPT !.items = items] \in Lists
    <3> HIDE DEF items
    <3> QED BY <1>1, <2>2 DEF Lists
  <2> QED BY <1>1, <1>6, <2>3, ClosureTyped DEF Reorder
<1>7. CASE PatchItem(c) \/ UpdateItem(c) \/ SaveFile(c)
  BY <1>1, <1>3, <1>7, ClosureTyped DEF PatchItem, UpdateItem, SaveFile
<1>8. CASE CommitCurrent(c)
  <2>1. [copy EXCEPT !.current = Main(c)] \in Lists
    BY <1>1, <1>3 DEF Lists
  <2> QED BY <1>1, <1>8, <2>1, ClosureTyped DEF CommitCurrent
<1>9. CASE NotFound(c)
  <2>1. Fail(c) /\ disk' = disk /\ files' = files
    BY <1>9 DEF NotFound, store
  <2>2. disk' \in Lists
    BY <1>1, <2>1 DEF TypeOK
  <2> QED BY <1>1, <2>1, <2>2, FailTyped
<1>10. CASE WriteFails(c)
  <2>1. disk' \in Lists
    BY <1>1, <1>10, Identities DEF WriteFails, Unwritten, TypeOK
  <2>2. Fail(c) /\ files' \subseteq files
    BY <1>10 DEF WriteFails
  <2> QED BY <1>1, <2>1, <2>2, FailTyped
<1> QED
  BY <1>10, <1>3, <1>4, <1>5, <1>6, <1>7, <1>8, <1>9
     DEF Work, AppendExtension, AppendMain

LEMMA CommitTyped == ASSUME Control, NEW c \in Callers, Commit(c) PROVE TypeOK'
<1>1. TypeOK /\ CallersTyped
  BY DEF Control, TypeOK, CallersTyped
<1>2. Modifies(c) /\ Active(c) /\ Blank \in Lists
  BY Identities DEF Commit, Modifies, Modifying, Active, At
<1>3. Main(c) \in Mains
  BY <1>2, HasMain DEF Control, Places
<1>4. {"want", "read", "update"} \subseteq Labels
        /\ {"append", "save"} \subseteq Jobs
  BY DEF Labels, Jobs
<1>5. CASE ContinueImport(c) \/ ContinueLink(c) \/ ContinueUpdate(c)
           \/ ContinueSwitch(c) \/ Finish(c)
  <2>1. CallersTyped'
    BY <1>1, <1>4, <1>5, MovesTyped
       DEF ContinueImport, ContinueLink, ContinueUpdate,
       ContinueSwitch
  <2> QED BY <1>1, <1>2, <2>1 DEF TypeOK, CallersTyped, Commit, store, coreVars
<1>6. CASE ContinueDelete(c)
  <2>1. CASE job[c] = "delete"
    <3>1. CallersTyped'
      <4> DEFINE was == IF committed.current \in {Main(c), Null} THEN Main(c) ELSE Null
      <4>1. /\ pc' = [pc EXCEPT ![c] = "want"]
                 /\ job' = [job EXCEPT ![c] = "save"]
            /\ seen' = [seen EXCEPT ![c] = was]
            /\ UNCHANGED <<kind, arg, held>>
        BY <1>6, <2>1 DEF ContinueDelete, Goto, Finish
      <4>2. was \in Mains \union {Null}
        BY <1>3
      <4> HIDE DEF was
      <4> QED BY <1>1, <1>4, <4>1, <4>2 DEF CallersTyped
    <3> QED BY <1>1, <1>2, <3>1
               DEF TypeOK, CallersTyped, Commit, store, coreVars
  <2>2. CASE job[c] # "delete"
    <3>1. CallersTyped'
      BY <1>1, <1>4, <1>6, <2>2, MovesTyped DEF ContinueDelete
    <3> QED BY <1>1, <1>2, <3>1
               DEF TypeOK, CallersTyped, Commit, store, coreVars
  <2> QED BY <2>1, <2>2
<1> QED BY <1>5, <1>6 DEF Commit, Continue

LEMMA StepTyped == ASSUME Control, NEW c \in Callers, Step(c) PROVE TypeOK'
<1>1. TypeOK /\ CallersTyped /\ Blank \in Lists /\ Latest \in Lists
        /\ Null \notin Lists
  BY Identities DEF Control, TypeOK, CallersTyped, Latest
<1>2. Labels = Labels \union {"edit", "update", "updating", "success", "failure", "restore",
                              "apply", "read", "write", "clean", "work", "want"}
  BY DEF Labels
<1>3. {"commit_current", "save"} \subseteq Jobs
  BY DEF Jobs
<1>4. CASE Take(c)
  <2>1. CallersTyped'
    BY <1>1, <1>2, <1>4, MovesTyped DEF Take
  <2> QED BY <1>1, <1>4, <2>1
             DEF Take, TypeOK, CallersTyped, cell, store, coreVars
<1>5. CASE Overtaken(c)
  BY <1>1, <1>5, FailTyped DEF Overtaken, TypeOK, store
<1>6. CASE Switch(c)
  <2>1. Active(c) /\ kind[c] = "switch"
    BY <1>6 DEF Control, Places, Switching, Active, At, Switch, EditDraft,
       Succeed,
       DiscardDraft, Restore, Apply
  <2>2. Main(c) \in Mains /\ seen[c] \in Mains \union {Null}
    BY <1>1, <2>1, HasMain DEF TypeOK
  <2>3. \A m \in Mains : [Latest EXCEPT !.current = m] \in Lists
    BY <1>1 DEF Lists
  <2>4. CASE EditDraft(c)
    <3>1. CallersTyped' /\ draft' \in Lists
      BY <1>1, <1>2, <2>2, <2>3, <2>4, MovesTyped DEF EditDraft, Draft
    <3> QED BY <1>1, <2>4, <3>1
               DEF EditDraft, TypeOK, CallersTyped, store, coreVars, modify
  <2>5. CASE Succeed(c)
    <3>1. CallersTyped'
      BY <1>1, <1>3, <2>5, MovesTyped DEF Succeed
    <3> QED BY <1>1, <2>5, <3>1
               DEF Succeed, TypeOK, CallersTyped, store, coreVars, modify
  <2>6. CASE DiscardDraft(c)
    <3>1. CallersTyped'
      BY <1>1, <1>2, <2>6, MovesTyped DEF DiscardDraft
    <3> QED BY <1>1, <2>6, <3>1
               DEF DiscardDraft, TypeOK, CallersTyped, store, coreVars,
               modify
  <2>7. CASE Restore(c)
    <3>1. CallersTyped' /\ draft' \in Lists \union {Null}
      <4>1. seen[c] = Null => [Latest EXCEPT !.current = seen[c]] \in Lists
        BY <1>1 DEF Lists
      <4> QED BY <1>1, <1>2, <2>2, <2>3, <2>7, <4>1, MovesTyped
                 DEF Restore, Draft
    <3> QED BY <1>1, <2>7, <3>1
               DEF Restore, TypeOK, CallersTyped, store, coreVars, modify
  <2>8. CASE Apply(c)
    BY <1>1, <1>2, <1>3, <2>8
       DEF Apply, ApplyDraft, TypeOK, CallersTyped, store, coreVars
  <2> QED BY <1>6, <2>4, <2>5, <2>6, <2>7, <2>8 DEF Switch
<1>7. CASE Update(c)
  <2>1. CallersTyped'
    BY <1>1, <1>2, <1>7, MovesTyped
       DEF Update, UpdateBusy, UpdateStart, UpdateValid,
       UpdateFails, UpdateTimeout, Refused
  <2>2. /\ UNCHANGED <<cell, store, switching, modify, calls>>
        /\ core' \in {core, Latest.current} /\ updating' \in {updating, Null, c}
    BY <1>7 DEF Update, UpdateBusy, UpdateStart, UpdateValid, UpdateFails,
       UpdateTimeout,
       coreVars
  <2>3. Latest.current \in Mains \union {Null}
    BY <1>1 DEF Lists
  <2> QED BY <1>1, <2>1, <2>2, <2>3
             DEF TypeOK, CallersTyped, cell, store, modify
<1>8. CASE ReadList(c)
  BY <1>1, <1>2, <1>8
     DEF ReadList, TypeOK, CallersTyped, cell, store, coreVars, modify
<1>9. CASE WriteList(c) \/ WriteListFails(c)
  <2>1. CallersTyped'
    BY <1>1, <1>2, <1>9, MovesTyped DEF WriteList, WriteListFails, Unwritten
  <2> QED BY <1>1, <1>9, <2>1
             DEF WriteList, WriteListFails, Unwritten, TypeOK, CallersTyped, cell, coreVars, modify
<1>10. CASE Cleanup(c)
  <2>1. CallersTyped'
    BY <1>1, <1>10, MovesTyped DEF Cleanup
  <2> QED BY <1>1, <1>10, <2>1
             DEF Cleanup, TypeOK, CallersTyped, cell, coreVars, modify
<1> QED
  BY <1>4, <1>5, <1>6, <1>7, <1>8, <1>9, <1>10, WorkTyped, CommitTyped DEF Step

-----------------------------------------------------------------------------
(* Where the callers are, and the permit.                                  *)

\* What every call and every closure does to the callers.
Started(c, k, ms, l) ==
  /\ At(c, "idle") /\ UNCHANGED permit
  /\ pc' = [pc EXCEPT ![c] = l]
  /\ kind' = [kind EXCEPT ![c] = k]
  /\ arg' = [arg EXCEPT ![c] = ms]
  /\ IF k \in {"cleanup", "exit"} THEN ms = <<>> ELSE ms # <<>>
  /\ k = "reorder" => Len(ms) = 2 /\ ms[1] # ms[2]

StartsSwitch(c) ==
  /\ \E ms : Started(c, "switch", ms, "edit")
  /\ ~switching /\ switching' /\ UNCHANGED <<job, draft>>

StartsClosure(c) ==
  /\ \E k \in {"import", "link", "delete", "patch", "reorder", "update"} :
       \E ms :
       /\ Started(c, k, ms, "want")
       /\ \E j \in JobsOf(k) : job' = [job EXCEPT ![c] = j]
  /\ UNCHANGED <<switching, draft>>

StartsOther(c) ==
  /\ \/ (\E ms : Started(c, "update", ms, "update")) /\ UNCHANGED draft
     \/ Started(c, "cleanup", <<>>, "clean") /\ UNCHANGED draft
     \/ Started(c, "exit", <<>>, "read") /\ draft' = Null
  /\ UNCHANGED <<switching, job>>

\* A call is the start of a switch, of a closure, or of something else.
LEMMA CallShape ==
  ASSUME NEW c \in Callers, Call(c)
  PROVE  StartsSwitch(c) \/ StartsClosure(c) \/ StartsOther(c)
<1> USE DEF Begin, Started
<1>1. ASSUME NEW m \in Mains, CallSwitch(c, m), UNCHANGED <<draft, permit>>
      PROVE  StartsSwitch(c)
  BY <1>1 DEF CallSwitch, StartsSwitch
<1>2. ASSUME NEW m \in Mains, CallUpdate(c, m), UNCHANGED <<draft, permit>>
      PROVE  StartsClosure(c) \/ StartsOther(c)
  <2>1. CASE pc' = [pc EXCEPT ![c] = "update"] /\ UNCHANGED job
    BY <1>2, <2>1 DEF CallUpdate, StartsOther
  <2>2. CASE pc' = [pc EXCEPT ![c] = "want"]
               /\ job' = [job EXCEPT ![c] = "update_item"]
    <3>1. Started(c, "update", <<m>>, "want")
            /\ "update_item" \in JobsOf("update")
      BY <1>2, <2>2 DEF CallUpdate, JobsOf
    <3> QED BY <1>2, <2>2, <3>1 DEF CallUpdate, StartsClosure
  <2> QED BY <1>2, <2>1, <2>2 DEF CallUpdate, Fetch
<1>3. ASSUME NEW k \in {"delete", "patch", "reorder"}, NEW ms, CallModify(c, k, ms),
             UNCHANGED <<draft, permit>>,
             ms # <<>>, k = "reorder" => Len(ms) = 2 /\ ms[1] # ms[2]
      PROVE  StartsClosure(c)
  <2>1. Started(c, k, ms, "want") /\ k \in JobsOf(k)
    BY <1>3 DEF CallModify, JobsOf
  <2> QED BY <1>3, <2>1 DEF CallModify, StartsClosure
<1>4. ASSUME NEW k \in Kinds, NEW m \in Mains, CallImport(c, k, m), UNCHANGED <<draft, permit>>
      PROVE  StartsClosure(c)
  <2>1. Started(c, k, <<m>>, "want") /\ "append_ext" \in JobsOf(k)
          /\ k \in {"import", "link"}
    BY <1>4 DEF CallImport, JobsOf
  <2> QED BY <1>4, <2>1 DEF CallImport, StartsClosure
<1>5. ASSUME CallCleanup(c), UNCHANGED <<draft, permit>> PROVE StartsOther(c)
  BY <1>5 DEF CallCleanup, StartsOther
<1>6. ASSUME CallExit(c), UNCHANGED permit PROVE StartsOther(c)
  BY <1>6 DEF CallExit, ApplyDraft, StartsOther
<1>7. \A m, n \in Mains : m # n =>
        <<m>> # <<>> /\ <<m, n>> # <<>> /\ Len(<<m, n>>) = 2
          /\ <<m, n>>[1] # <<m, n>>[2]
  OBVIOUS
<1> QED
  <2>1. UNCHANGED permit
    BY DEF Call
  <2>2. CASE CallExit(c)
    BY <1>6, <2>1, <2>2
  <2>3. CASE ~CallExit(c)
    <3>1. UNCHANGED <<draft, permit>>
      BY <2>1, <2>3 DEF Call
    <3> QED BY <1>1, <1>2, <1>3, <1>4, <1>5, <1>7, <2>3, <3>1
               DEF Call, CallDelete,
               CallPatch, CallReorder
  <2> QED BY <2>2, <2>3

\* A closure ends at its commit, or the command fails.
LEMMA WorkShape ==
  ASSUME NEW c, Work(c)
  PROVE  /\ At(c, "work")
         /\ \/ /\ Goto(c, "commit")
               /\ UNCHANGED <<cell, coreVars, switching, permit, overtaken, calls>>
            \/ Fail(c) /\ disk' \in {disk, Blank}
BY DEF Unwritten, Work, AppendExtension, AppendMain, AppendItem, DeleteItem, Reorder,
   PatchItem,
   UpdateItem, CommitCurrent, SaveFile, Closure, NotFound, WriteFails, store

\* Every command stays on its path.
LEMMA PlacesHold ==
  ASSUME Control, NEW c \in Callers, Call(c) \/ Step(c) PROVE Places'
<1>1. Places /\ CallersTyped /\ Null \notin Callers
  BY Identities DEF Control, TypeOK, CallersTyped
<1> USE <1>1 DEF Places, CallersTyped, Active, Modifies, Modifying, Switching, At, Goto,
                 Finish, Modify,
                 callers, JobsOf
<1>2. CASE Call(c)
  <2>1. CASE StartsSwitch(c)
    BY <2>1 DEF StartsSwitch, Started, AllKinds
  <2>2. CASE StartsClosure(c)
    BY <2>2 DEF StartsClosure, Started, AllKinds
  <2>3. CASE StartsOther(c)
    BY <2>3 DEF StartsOther, Started, AllKinds
  <2> QED BY <1>2, <2>1, <2>2, <2>3, CallShape
<1>3. CASE Work(c)
  BY <1>3, WorkShape DEF Fail
<1>4. CASE Commit(c)
  <2>1. At(c, "commit") /\ Continue(c)
    BY <1>4 DEF Commit
  <2>2. CASE kind[c] = "import"
    BY <2>1, <2>2 DEF Continue, ContinueImport
  <2>3. CASE kind[c] = "link"
    BY <2>1, <2>3 DEF Continue, ContinueLink
  <2>4. CASE kind[c] = "delete"
    BY <2>1, <2>4 DEF Continue, ContinueDelete
  <2>5. CASE kind[c] = "update"
    BY <2>1, <2>5 DEF Continue, ContinueUpdate
  <2>6. CASE kind[c] = "switch"
    BY <2>1, <2>6 DEF Continue, ContinueSwitch
  <2>7. CASE kind[c] \notin {"import", "link", "delete", "update", "switch"}
    <3>1. Finish(c)
      BY <2>1, <2>7 DEF Continue
    <3> QED BY <3>1
  <2> QED BY <2>2, <2>3, <2>4, <2>5, <2>6, <2>7
<1>5. CASE Take(c) \/ Overtaken(c)
  BY <1>5 DEF Take, Overtaken, Fail
<1>6. CASE Switch(c)
  BY <1>6 DEF Switch, EditDraft, Succeed, DiscardDraft, Restore, Apply
<1>7. CASE Update(c)
  BY <1>7 DEF Update, UpdateBusy, UpdateStart, UpdateValid, UpdateFails,
     UpdateTimeout,
     Refused
<1>8. CASE ReadList(c) \/ WriteList(c) \/ WriteListFails(c) \/ Cleanup(c)
  BY <1>8 DEF ReadList, WriteList, WriteListFails, Unwritten, Cleanup
<1> QED  BY <1>2, <1>3, <1>4, <1>5, <1>6, <1>7, <1>8 DEF Step

LEMMA ArgumentsHold ==
  ASSUME Control, NEW c \in Callers, Call(c) \/ Step(c) PROVE Arguments'
<1>1. Places /\ Arguments /\ CallersTyped
  BY DEF Control, TypeOK, CallersTyped
<1> USE <1>1
      DEF Places, Arguments, CallersTyped, Active, Is, Modifies, Modifying,
                 Switching, At, Goto, Finish,
                 Modify, callers
<1>2. CASE Call(c)
  BY <1>2, CallShape DEF StartsSwitch, StartsClosure, StartsOther, Started
<1>3. CASE Work(c)
  <2>1. At(c, "work") /\ (Goto(c, "commit") \/ Finish(c))
    BY <1>3, WorkShape DEF Fail
  <2>2. CASE Goto(c, "commit")
    BY <2>1, <2>2
  <2>3. CASE Finish(c)
    BY <2>1, <2>3
  <2> QED BY <2>1, <2>2, <2>3
<1>4. CASE Commit(c)
  BY <1>4 DEF Commit, Continue, ContinueImport, ContinueLink, ContinueDelete,
     ContinueUpdate, ContinueSwitch
<1>5. CASE Take(c) \/ Overtaken(c)
  BY <1>5 DEF Take, Overtaken, Fail
<1>6. CASE Switch(c)
  BY <1>6 DEF Switch, EditDraft, Succeed, DiscardDraft, Restore, Apply
<1>7. CASE Update(c)
  BY <1>7 DEF Update, UpdateBusy, UpdateStart, UpdateValid, UpdateFails,
     UpdateTimeout,
     Refused
<1>8. CASE ReadList(c) \/ WriteList(c) \/ WriteListFails(c) \/ Cleanup(c)
  BY <1>8 DEF ReadList, WriteList, WriteListFails, Unwritten, Cleanup
<1> QED  BY <1>2, <1>3, <1>4, <1>5, <1>6, <1>7, <1>8 DEF Step

\* The permit is with the one caller in its closure or at its commit.
LEMMA HoldsPermitHolds ==
  ASSUME Control, NEW c \in Callers, Call(c) \/ Step(c) PROVE HoldsPermit'
<1>1. Places /\ HoldsPermit /\ CallersTyped /\ Null \notin Callers
  BY Identities DEF Control, TypeOK, CallersTyped
<1> USE <1>1 DEF Places, HoldsPermit, CallersTyped, At, Goto, Finish, Modify, callers, modify
<1>2. CASE Call(c)
  <2>1. /\ pc[c] = "idle" /\ permit' = permit
        /\ \E l \in {"edit", "want", "update", "clean", "read"} :
             pc' = [pc EXCEPT ![c] = l]
    BY <1>2, CallShape DEF StartsSwitch, StartsClosure, StartsOther, Started
  <2> QED BY <2>1
<1>3. CASE Work(c)
  BY <1>3, WorkShape DEF Fail
<1>4. CASE Commit(c)
  <2>1. /\ pc[c] = "commit" /\ permit' = Null
        /\ \E l \in {"idle", "want", "update", "read"} :
             pc' = [pc EXCEPT ![c] = l]
    BY <1>4 DEF Commit, Continue, ContinueImport, ContinueLink, ContinueDelete,
       ContinueUpdate, ContinueSwitch
  <2> QED BY <2>1
<1>5. CASE Take(c) \/ Overtaken(c)
  BY <1>5 DEF Take, Overtaken, Fail
<1>6. CASE Switch(c)
  BY <1>6 DEF Switch, EditDraft, Succeed, DiscardDraft, Restore, Apply
<1>7. CASE Update(c)
  BY <1>7 DEF Update, UpdateBusy, UpdateStart, UpdateValid, UpdateFails,
     UpdateTimeout,
     Refused
<1>8. CASE ReadList(c) \/ WriteList(c) \/ WriteListFails(c) \/ Cleanup(c)
  BY <1>8 DEF ReadList, WriteList, WriteListFails, Unwritten, Cleanup
<1> QED  BY <1>2, <1>3, <1>4, <1>5, <1>6, <1>7, <1>8 DEF Step

-----------------------------------------------------------------------------
(* One switch, and its draft.                                              *)

\* CURRENT_SWITCHING_PROFILE lets one switch through, which gives it back last.
LEMMA OneSwitchHolds ==
  ASSUME Control, NEW c \in Callers, Call(c) \/ Step(c) PROVE OneSwitch'
<1> DEFINE IsSwitch(d) == Is(d, "switch")
<1>1. Places /\ CallersTyped
  BY DEF Control, TypeOK, CallersTyped
<1>2. \A d, e \in Callers : IsSwitch(d) => switching /\ (IsSwitch(e) => d = e)
  BY DEF Control, OneSwitch
<1> USE <1>1 DEF CallersTyped, Active, Is, At, Goto, Finish, Modify, callers
<1>3. SUFFICES \/ /\ \A d \in Callers : IsSwitch(d)' => IsSwitch(d)
                  /\ \/ UNCHANGED switching
                     \/ \A d \in Callers : ~IsSwitch(d)'
               \/ StartsSwitch(c)
  <2>1. CASE StartsSwitch(c)
    <3>1. \A d \in Callers : ~IsSwitch(d) /\ (IsSwitch(d)' => d = c)
            /\ switching'
      BY <1>2, <2>1 DEF StartsSwitch, Started
    <3> QED BY <3>1 DEF OneSwitch
  <2>2. CASE ~StartsSwitch(c)
    <3>1. \A d \in Callers : IsSwitch(d)' => IsSwitch(d)
      BY <1>3, <2>2
    <3>2. (\A d \in Callers : ~IsSwitch(d)') \/ UNCHANGED switching
      BY <1>3, <2>2
    <3> HIDE DEF IsSwitch
    <3>3. \A d, e \in Callers : IsSwitch(d)' =>
            switching' /\ (IsSwitch(e)' => d = e)
      BY <1>2, <3>1, <3>2
    <3> QED BY <3>3 DEF OneSwitch, IsSwitch
  <2> QED BY <2>1, <2>2
<1>4. CASE Call(c)
  BY <1>4, CallShape DEF StartsClosure, StartsOther, Started
\* Whoever gives back the flag is the switch, and ends.
<1>5. ASSUME \A d \in Callers \ {c} : pc'[d] = pc[d] /\ kind'[d] = kind[d],
             kind'[c] = kind[c] \/ ~IsSwitch(c)', pc[c] # "idle",
             switching' = switching \/ (kind[c] = "switch" /\ ~IsSwitch(c)')
      PROVE  /\ \A d \in Callers : IsSwitch(d)' => IsSwitch(d)
             /\ UNCHANGED switching \/ \A d \in Callers : ~IsSwitch(d)'
  <2>1. \A d \in Callers : IsSwitch(d)' => IsSwitch(d)
    BY <1>5
  <2>2. ASSUME kind[c] = "switch", ~IsSwitch(c)' PROVE \A d \in Callers :
                 ~IsSwitch(d)'
    <3>1. \A d \in Callers : IsSwitch(d) => d = c
      BY <1>2, <1>5, <2>2
    <3> QED BY <2>1, <2>2, <3>1
  <2> QED BY <1>5, <2>1, <2>2
<1>6. ASSUME Fail(c), pc[c] # "idle"
      PROVE  /\ \A d \in Callers \ {c} : pc'[d] = pc[d] /\ kind'[d] = kind[d]
             /\ ~IsSwitch(c)' /\ (switching' = switching \/ kind[c] = "switch")
  <2>1. switching \in BOOLEAN
    BY DEF Control, TypeOK
  <2> QED BY <1>6, <2>1 DEF Fail
<1>7. CASE Work(c)
  <2>1. CASE Goto(c, "commit") /\ UNCHANGED switching
    BY <1>7, <2>1, WorkShape
  <2>2. CASE Fail(c)
    BY <1>5, <1>6, <1>7, <2>2, WorkShape
  <2> QED BY <1>7, <2>1, <2>2, WorkShape
<1>8. CASE Overtaken(c)
  BY <1>5, <1>6, <1>8 DEF Overtaken
<1>9. CASE Commit(c)
  <2>1. /\ \A d \in Callers \ {c} : pc'[d] = pc[d] /\ kind'[d] = kind[d]
        /\ pc[c] = "commit"
    BY <1>9 DEF Commit, Continue, ContinueImport, ContinueLink, ContinueDelete,
       ContinueUpdate, ContinueSwitch
  <2>2. kind'[c] = kind[c] \/ ~IsSwitch(c)'
    BY <1>9 DEF Commit, Continue, ContinueImport, ContinueLink, ContinueDelete,
       ContinueUpdate, ContinueSwitch
  <2>3. CASE kind[c] = "switch" /\ job[c] = "save"
    <3>1. ~IsSwitch(c)'
      BY <1>9, <2>3 DEF Commit, Continue, ContinueSwitch
    <3> QED BY <1>5, <2>1, <2>2, <2>3, <3>1
  <2>4. CASE ~(kind[c] = "switch" /\ job[c] = "save")
    <3>1. switching' = switching
      BY <1>9, <2>4 DEF Commit, Control, TypeOK
    <3> QED BY <1>5, <2>1, <2>2, <3>1
  <2> QED BY <2>3, <2>4
<1>10. CASE Switch(c)
  <2>1. /\ \A d \in Callers \ {c} : pc'[d] = pc[d] /\ kind'[d] = kind[d]
        /\ pc[c] \in Switching
        /\ kind'[c] = kind[c] \/ ~IsSwitch(c)'
    BY <1>10 DEF Switch, EditDraft, Succeed, DiscardDraft, Restore, Apply,
       Switching
  <2>2. kind[c] = "switch" /\ pc[c] # "idle" /\ switching
    BY <1>2, <2>1 DEF Places, Switching
  <2>3. switching' = switching \/ ~IsSwitch(c)'
    BY <1>10, <2>2 DEF Switch, EditDraft, Succeed, DiscardDraft, Restore, Apply
  <2> QED BY <1>5, <2>1, <2>2, <2>3
<1>11. CASE Take(c) \/ Update(c) \/ ReadList(c) \/ WriteList(c) \/ WriteListFails(c) \/ Cleanup(c)
  BY <1>11 DEF Take, Update, UpdateBusy, UpdateStart, UpdateValid, UpdateFails,
     UpdateTimeout, Refused, ReadList, WriteList, WriteListFails, Unwritten, Cleanup
<1> QED  BY <1>4, <1>7, <1>8, <1>9, <1>10, <1>11 DEF Step

\* A draft is there only while the switch that made it can still drop it.
LEMMA DraftOfSwitchHolds ==
  ASSUME Control, NEW c \in Callers, Call(c) \/ Step(c) PROVE DraftOfSwitch'
<1> DEFINE Drafts == {"update", "updating", "success", "failure", "apply"}
           Draws(d) == Is(d, "switch") /\ pc[d] \in Drafts
<1>1. Places /\ CallersTyped /\ OneSwitch
  BY DEF Control, TypeOK, CallersTyped
<1>2. draft # Null => \E d \in Callers : Draws(d)
  BY DEF Control, DraftOfSwitch
<1> USE <1>1 DEF CallersTyped, Active, Is, At, Goto, Finish, Modify, callers
<1>3. SUFFICES \/ draft' = Null \/ Draws(c)'
               \/ UNCHANGED draft /\ (\A d \in Callers : Draws(d) => Draws(d)')
  BY <1>2, <1>3, Zenon DEF DraftOfSwitch, Draws, Drafts, Is
<1>4. CASE Call(c)
  BY <1>4, CallShape DEF StartsSwitch, StartsClosure, StartsOther, Started
<1>5. CASE Work(c)
  BY <1>5, WorkShape DEF Fail, cell
<1>6. CASE Overtaken(c)
  BY <1>6 DEF Overtaken, Fail
<1>7. CASE Commit(c)
  <2>1. /\ \A d \in Callers \ {c} : pc'[d] = pc[d] /\ kind'[d] = kind[d]
        /\ pc[c] = "commit" /\ UNCHANGED draft
    BY <1>7 DEF Commit, Continue, ContinueImport, ContinueLink, ContinueDelete,
       ContinueUpdate, ContinueSwitch
  <2> QED BY <2>1
<1>8. CASE Switch(c)
  BY <1>8 DEF Switch, EditDraft, Succeed, DiscardDraft, Restore, Apply,
     ApplyDraft, Places,
     Switching
<1>9. CASE Update(c)
  BY <1>9 DEF Update, UpdateBusy, UpdateStart, UpdateValid, UpdateFails,
     UpdateTimeout,
     Refused, cell
<1>10. CASE Take(c) \/ ReadList(c) \/ WriteList(c) \/ WriteListFails(c) \/ Cleanup(c)
  BY <1>10 DEF Take, ReadList, WriteList, WriteListFails, Unwritten, Cleanup, cell
<1> QED  BY <1>4, <1>5, <1>6, <1>7, <1>8, <1>9, <1>10 DEF Step

-----------------------------------------------------------------------------
(* A step changes its own caller only.                                     *)

\* A caller moves alone.
LEMMA OthersStay ==
  ASSUME CallersTyped, NEW c \in Callers, Call(c) \/ Step(c), NEW d \in Callers, d # c
  PROVE  /\ pc'[d] = pc[d] /\ kind'[d] = kind[d] /\ arg'[d] = arg[d]
         /\ job'[d] = job[d] /\ seen'[d] = seen[d] /\ held'[d] = held[d]
<1> USE DEF CallersTyped, Goto, Finish, Modify, callers
<1>1. CASE Call(c)
  BY <1>1 DEF Call, CallSwitch, CallUpdate, CallDelete, CallPatch, CallReorder,
     CallImport,
     CallCleanup, CallExit, CallModify, Fetch, Begin
<1>2. CASE Work(c)
  BY <1>2, WorkShape DEF Fail
<1>3. CASE Commit(c)
  BY <1>3 DEF Commit, Continue, ContinueImport, ContinueLink, ContinueDelete,
     ContinueUpdate, ContinueSwitch
<1>4. CASE Take(c) \/ Overtaken(c)
  BY <1>4 DEF Take, Overtaken, Fail
<1>5. CASE Switch(c)
  BY <1>5 DEF Switch, EditDraft, Succeed, DiscardDraft, Restore, Apply
<1>6. CASE Update(c)
  BY <1>6 DEF Update, UpdateBusy, UpdateStart, UpdateValid, UpdateFails,
     UpdateTimeout,
     Refused
<1>7. CASE ReadList(c) \/ WriteList(c) \/ WriteListFails(c) \/ Cleanup(c)
  BY <1>7 DEF ReadList, WriteList, WriteListFails, Unwritten, Cleanup
<1> QED  BY <1>1, <1>2, <1>3, <1>4, <1>5, <1>6, <1>7 DEF Step

\* A flag is with the command that took it: who ends gives it back.
LEMMA FlagsHold ==
  ASSUME Control, NEW c \in Callers, Call(c) \/ Step(c) PROVE Flags'
<1> DEFINE Held == \/ updating' = Null
                   \/ updating' = c /\ pc'[c] = "updating"
                   \/ updating' = updating /\ pc[c] # "updating"
           Swaps == \/ ~switching'
                    \/ Is(c, "switch")'
                    \/ switching' = switching /\ ~Is(c, "switch")
<1>1. /\ Places /\ CallersTyped /\ Flags /\ switching \in BOOLEAN
      /\ updating \in Callers \union {Null} /\ Null \notin Callers
  BY Identities DEF Control, TypeOK, CallersTyped
<1>2. SUFFICES Held /\ Swaps
  <2>1. ASSUME updating' # Null PROVE At(updating, "updating")'
    <3>1. CASE updating' = c /\ pc'[c] = "updating"
      BY <3>1 DEF At
    <3>2. CASE updating' = updating /\ pc[c] # "updating"
      <4>1. updating \in Callers /\ updating # c /\ pc[updating] = "updating"
        BY <1>1, <2>1, <3>2 DEF Flags, At
      <4> QED BY <1>1, <3>2, <4>1, OthersStay DEF At
    <3> QED BY <1>2, <2>1, <3>1, <3>2
  <2>2. ASSUME switching' PROVE \E d \in Callers : Is(d, "switch")'
    <3>1. CASE switching' = switching /\ ~Is(c, "switch")
      <4>1. PICK d \in Callers : Is(d, "switch") /\ d # c
        BY <1>1, <2>2, <3>1 DEF Flags
      <4> QED BY <1>1, <4>1, OthersStay DEF Is, Active, At
    <3> QED BY <1>2, <2>2, <3>1
  <2> QED BY <2>1, <2>2 DEF Flags
<1> USE <1>1 DEF CallersTyped, Active, Is, At, Goto, Finish, Modify, callers,
                 coreVars
<1>3. CASE Call(c)
  <2>1. UNCHANGED updating /\ pc[c] = "idle"
    BY <1>3, CallShape
       DEF Call, StartsSwitch, StartsClosure, StartsOther, Started
  <2>2. Swaps
    BY <1>3, <2>1, CallShape DEF StartsSwitch, StartsClosure, StartsOther, Started
  <2> QED BY <2>1, <2>2
<1>4. CASE Work(c)
  BY <1>4, WorkShape DEF Fail
<1>5. CASE Overtaken(c)
  BY <1>5 DEF Overtaken, Fail
<1>6. CASE Commit(c)
  <2>1. UNCHANGED updating /\ pc[c] = "commit" /\ Continue(c)
        /\ switching' = (switching /\ ~(kind[c] = "switch" /\ job[c] = "save"))
    BY <1>6 DEF Commit
  <2>2. CASE kind[c] = "switch" /\ job[c] = "commit_current"
    <3>1. Modify(c, "save")
      BY <2>1, <2>2, Zenon DEF Continue, ContinueSwitch
    <3>2. pc'[c] = "want" /\ kind'[c] = "switch"
      BY <2>2, <3>1
    <3> QED BY <2>1, <3>2
  <2>3. CASE kind[c] = "switch" /\ job[c] # "commit_current"
    <3>1. job[c] = "save"
      BY <2>1, <2>3 DEF Places, Modifies, Modifying, JobsOf
    <3> QED BY <2>1, <2>3, <3>1
  <2>4. CASE kind[c] # "switch"
    BY <2>1, <2>4
  <2> QED BY <2>2, <2>3, <2>4
<1>7. CASE Switch(c)
  <2>1. UNCHANGED updating /\ pc[c] \in Switching
    BY <1>7 DEF Switch, EditDraft, Succeed, DiscardDraft, Restore, Apply,
       Switching
  <2>2. kind[c] = "switch" /\ pc[c] # "updating"
    BY <2>1 DEF Places, Switching
  <2>3. CASE EditDraft(c) \/ Succeed(c) \/ Restore(c)
    BY <2>2, <2>3 DEF EditDraft, Succeed, Restore
  <2>4. CASE DiscardDraft(c)
    BY <2>2, <2>4 DEF DiscardDraft
  <2>5. CASE Apply(c)
    BY <2>5 DEF Apply
  <2> QED BY <1>7, <2>1, <2>2, <2>3, <2>4, <2>5 DEF Switch
<1>8. CASE Update(c)
  BY <1>8 DEF Update, UpdateBusy, UpdateStart, UpdateValid, UpdateFails,
     UpdateTimeout, Refused
<1>9. CASE Take(c) \/ ReadList(c) \/ WriteList(c) \/ WriteListFails(c) \/ Cleanup(c)
  BY <1>9 DEF Take, ReadList, WriteList, WriteListFails, Cleanup, Places
<1> QED  BY <1>3, <1>4, <1>5, <1>6, <1>7, <1>8, <1>9 DEF Step

-----------------------------------------------------------------------------
(* What the closures make of the copy.                                     *)

\* Whoever is in its closure, or past it, is about a profile.
LEMMA Worker ==
  ASSUME Control, NEW c \in Callers, pc[c] \in {"work", "commit"}
  PROVE  /\ Active(c) /\ Modifies(c) /\ permit = c
         /\ job[c] \in JobsOf(kind[c])
         /\ kind[c] \in (AllKinds \union {"restore"}) \ {"cleanup", "exit"}
         /\ Main(c) \in Mains /\ ExtOf[Main(c)] \in Exts /\ Own(c) \in Uids
<1>1. /\ Active(c) /\ Modifies(c) /\ permit = c /\ job[c] \in JobsOf(kind[c])
      /\ kind[c] \in (AllKinds \union {"restore"}) \ {"cleanup", "exit"}
  BY DEF Control, Places, HoldsPermit, Modifies, Modifying, Active, At
<1> QED BY <1>1, HasMain DEF Own, Uids

\* append_item: one item more, and the first profile becomes the current one.
LEMMA Appended ==
  ASSUME Control, NEW c \in Callers, AppendExtension(c) \/ AppendMain(c)
  PROVE  /\ Appends(c) /\ job[c] \in {"append_ext", "append"}
              /\ Goto(c, "commit")
         /\ files' = files \union {Own(c)}
         /\ copy'.items = Append(copy.items, Own(c))
         /\ ToSet(copy'.items) = ToSet(copy.items) \union {Own(c)}
         /\ \/ copy'.current = copy.current
            \/ copy.current = Null /\ copy'.current = Own(c)
         /\ job[c] = "append" =>
              \/ "adopted" \in mishaps'
              \/ copy'.current = copy.current /\ copy.current # Null
         /\ job[c] = "append_ext" => copy'.current = copy.current
<1>1. /\ Active(c) /\ Modifies(c) /\ At(c, "work")
      /\ job[c] \in JobsOf(kind[c])
      /\ kind[c] \in (AllKinds \union {"restore"}) \ {"cleanup", "exit"}
      /\ Main(c) \in Mains /\ ExtOf[Main(c)] \in Exts /\ Own(c) \in Uids
  BY Worker DEF AppendExtension, AppendMain, AppendItem, Closure, At
<1>2. AppendItem(c, job[c], Own(c)) /\ job[c] \in {"append_ext", "append"}
  BY DEF AppendExtension, AppendMain, AppendItem, Closure, Own
<1>3. Appends(c)
  BY <1>1, <1>2 DEF Appends, Imports, Is, JobsOf, AllKinds
<1>4. /\ Goto(c, "commit") /\ files' = files \union {Own(c)}
      /\ copy'.items = Append(copy.items, Own(c))
      /\ copy'.current = IF copy.current = Null /\ Own(c) \in Mains THEN Own(c) ELSE copy.current
      /\ copy.current = Null /\ Own(c) \in Mains => "adopted" \in mishaps'
  BY <1>2 DEF AppendItem, Closure, MishapIf, Mishap
<1>5. copy.items \in Seq(Uids)
  BY DEF Control, TypeOK, Lists
<1>6. ToSet(copy'.items) = ToSet(copy.items) \union {Own(c)}
  BY <1>1, <1>4, <1>5, AppendedList
<1>7. job[c] = "append" => Own(c) \in Mains
  BY <1>1 DEF Own
<1>8. job[c] = "append_ext" => Own(c) \notin Mains
  BY <1>1, Identities DEF Own
<1> QED BY <1>2, <1>3, <1>4, <1>6, <1>7, <1>8

\* reorder: nothing new, nothing twice, nothing lost unless it went wrong.
LEMMA Reordered ==
  ASSUME Control, NEW c \in Callers, Reorder(c)
  PROVE  /\ copy'.current = copy.current
         /\ ToSet(copy'.items) \subseteq ToSet(copy.items)
         /\ IsInjective(copy.items) =>
              /\ IsInjective(copy'.items)
              /\ ToSet(copy'.items) = ToSet(copy.items) \/ "misordered" \in mishaps'
<1> DEFINE known == ToSet(arg[c]) \subseteq ToSet(copy.items)
           items == IF known THEN Moved(copy.items, arg[c][1], arg[c][2]) ELSE <<>>
<1>1. copy \in Lists /\ copy.items \in Seq(Uids) /\ arg[c] \in Seq(Mains)
  BY DEF Control, TypeOK, Lists
<1>2. copy'.items = items /\ copy'.current = copy.current
  BY <1>1 DEF Reorder, Closure, Lists
<1>3. CASE known
  <2>1. Len(arg[c]) = 2
    <3>1. pc[c] = "work" /\ job[c] = "reorder"
      BY DEF Reorder, Closure, At
    <3>2. Is(c, "reorder")
      BY <3>1, Worker DEF JobsOf, AllKinds, Is
    <3> QED BY <3>2 DEF Control, Arguments
  <2>2. arg[c][1] \in ToSet(copy.items) /\ arg[c][2] \in ToSet(copy.items)
    <3>1. arg[c][1] \in ToSet(arg[c]) /\ arg[c][2] \in ToSet(arg[c])
      BY <1>1, <2>1 DEF ToSet
    <3> QED BY <1>3, <3>1
  <2>3. /\ ToSet(items) \subseteq ToSet(copy.items)
        /\ IsInjective(copy.items) =>
             IsInjective(items) /\ ToSet(items) = ToSet(copy.items)
    BY <1>1, <1>3, <2>2, MovedItem
  <2> HIDE DEF items
  <2> QED BY <1>2, <2>3
<1>4. CASE ~known
  <2>1. IsInjective(<<>>) /\ ToSet(<<>>) = {}
    BY DEF IsInjective, ToSet
  <2>2. "misordered" \in mishaps'
    BY <1>4 DEF Reorder, MishapIf, Mishap
  <2> QED BY <1>2, <1>4, <2>1, <2>2
<1> QED BY <1>3, <1>4

-----------------------------------------------------------------------------
(* Where the profiles in a list come from.                                 *)

\* Where the profiles in a list come from.
LEMMA NamedOnCall ==
  ASSUME Control, NEW c \in Callers, Call(c)
  PROVE  /\ committed' \in {committed, Latest}
              /\ Latest' \in {committed, Latest}
         /\ copy' = copy
         /\ At(c, "idle")
<1>1. ASSUME UNCHANGED <<draft, overtaken>>, UNCHANGED committed
      PROVE  Latest' = Latest
  BY <1>1 DEF Latest
<1> QED
  BY <1>1 DEF Call, CallSwitch, CallUpdate, CallDelete, CallPatch, CallReorder,
     CallImport,
     CallCleanup, CallExit, CallModify, Begin, ApplyDraft, Latest

\* What a closure may add.
Added(c) ==
  (IF Appends(c) THEN {Own(c)} ELSE {}) \union (IF Is(c, "switch") THEN {Main(c)} ELSE {})

\* A closure names what its copy named, and what it adds.
LEMMA NamedOnWork ==
  ASSUME Control, NEW c \in Callers, Work(c)
  PROVE  /\ committed' = committed /\ Latest' \in {committed, Latest}
         /\ Named(copy') \subseteq Named(copy) \union {Null} \union Added(c)
<1>1. /\ copy \in Lists /\ committed' = committed /\ draft' \in {draft, Null}
      /\ pc[c] = "work"
  BY WorkShape DEF Control, TypeOK, Fail, cell, At
<1>2. SUFFICES Named(copy') \subseteq Named(copy) \union {Null} \union Added(c)
  BY <1>1 DEF Latest
<1>3. CASE AppendExtension(c) \/ AppendMain(c)
  BY <1>3, Appended DEF Named, Added
<1>4. CASE DeleteItem(c)
  <2>1. copy' = Deleted(copy, Main(c)) /\ Main(c) \in Mains
    BY <1>1, <1>4, Worker DEF DeleteItem, Closure
  <2>2. /\ ToSet(copy'.items) \subseteq ToSet(copy.items)
        /\ copy'.current \in {copy.current, Null} \/ Has(copy', copy'.current)
    BY <1>1, <2>1, DeletedList
  <2> QED BY <2>2 DEF Named, Has
<1>5. CASE Reorder(c)
  BY <1>5, Reordered DEF Named
<1>6. CASE PatchItem(c) \/ UpdateItem(c) \/ SaveFile(c)
  BY <1>6 DEF PatchItem, UpdateItem, SaveFile, Closure
<1>7. CASE CommitCurrent(c)
  <2>1. Is(c, "switch")
    BY <1>1, <1>7, Worker DEF CommitCurrent, Closure, JobsOf, AllKinds, Is
  <2>2. copy'.items = copy.items /\ copy'.current \in {copy.current, Main(c)}
    BY <1>1, <1>7 DEF CommitCurrent, Closure, Lists
  <2> QED BY <2>1, <2>2 DEF Named, Added
<1>8. CASE NotFound(c) \/ WriteFails(c)
  <2>1. copy' = Blank /\ ToSet(<<>>) = {}
    BY <1>8 DEF NotFound, WriteFails, Fail, ToSet
  <2> QED BY <2>1 DEF Named, Blank
<1> QED BY <1>3, <1>4, <1>5, <1>6, <1>7, <1>8 DEF Work

\* A step puts into the lists what is in one of them, or what a switch names.
LEMMA NamedOnStep ==
  ASSUME Control, NEW c \in Callers, Step(c)
  PROVE  LET all == Named(committed) \union Named(Latest)
                      \union (IF At(c, "commit") THEN Named(copy) ELSE {})
         IN /\ Named(committed') \subseteq all
            /\ Named(Latest') \subseteq
                 all \union (IF Is(c, "switch") THEN {Main(c), seen[c]} ELSE {})
            /\ Named(copy') \subseteq
                 Named(committed) \union Named(copy) \union {Null} \union Added(c)
<1>1. {committed, Latest, copy} \subseteq Lists /\ Places
  BY DEF Control, TypeOK, Latest
<1>2. Named(Blank) = {Null}
  BY DEF Named, Blank, ToSet
<1>3. CASE Work(c)
  BY <1>3, NamedOnWork
<1>4. CASE Take(c)
  <2>1. committed' = committed /\ Latest' = Latest /\ copy' = committed
    BY <1>4 DEF Take, cell, Latest
  <2> QED BY <2>1
<1>5. CASE Commit(c)
  <2>1. committed' = copy /\ Latest' \in {copy, Latest} /\ copy' = Blank
          /\ At(c, "commit")
    BY <1>5 DEF Commit, Latest
  <2> QED BY <1>2, <2>1
<1>6. CASE Overtaken(c)
  <2>1. committed' = committed /\ Latest' \in {committed, Latest}
          /\ copy' = Blank
    BY <1>6 DEF Overtaken, Fail, Latest
  <2> QED BY <1>2, <2>1
<1>7. CASE Switch(c)
  <2>1. Is(c, "switch") /\ copy' = copy
    BY <1>1, <1>7
       DEF Places, Switching, Is, Active, At, Switch, EditDraft, Succeed,
       DiscardDraft, Restore, Apply, modify
  <2>2. ASSUME NEW m \in Mains \union {Null}, Draft(m), committed' = committed
        PROVE  /\ Named(Latest') \subseteq Named(Latest) \union {m}
               /\ Named(committed') = Named(committed)
    <3>1. Null # draft'
      <4>1. draft' = Latest \/ draft' = [Latest EXCEPT !.current = m]
        BY <2>2 DEF Draft
      <4>2. draft' \in Lists
        BY <1>1, <4>1 DEF Lists
      <4> QED BY <4>2, Identities
    <3> QED BY <1>1, <2>2, <3>1 DEF Draft, Latest, Named, Lists
  <2>3. CASE EditDraft(c) \/ Restore(c)
    <3>1. Main(c) \in Mains /\ seen[c] \in Mains \union {Null}
      BY <2>1, HasMain DEF Control, TypeOK, Is
    <3> QED BY <2>1, <2>2, <2>3, <3>1 DEF EditDraft, Restore
  <2>4. CASE Succeed(c) \/ DiscardDraft(c)
    <3>1. committed' = committed /\ Latest' = committed
      BY <2>4 DEF Succeed, DiscardDraft, Latest
    <3> QED BY <2>1, <3>1
  <2>5. CASE Apply(c)
    <3>1. committed' = Latest /\ Latest' = Latest
      BY <2>5 DEF Apply, ApplyDraft, Latest
    <3> QED BY <2>1, <3>1
  <2> QED BY <1>7, <2>3, <2>4, <2>5 DEF Switch
<1>8. CASE Update(c) \/ ReadList(c) \/ WriteList(c) \/ WriteListFails(c) \/ Cleanup(c)
  <2>1. UNCHANGED <<committed, draft, copy>>
    BY <1>8 DEF Update, UpdateBusy, UpdateStart, UpdateValid, UpdateFails,
       UpdateTimeout,
       ReadList, WriteList, WriteListFails, Unwritten, Cleanup, cell, modify
  <2>2. Latest' = Latest
    BY <2>1 DEF Latest
  <2> QED BY <2>1, <2>2
<1> QED BY <1>3, <1>4, <1>5, <1>6, <1>7, <1>8 DEF Step

-----------------------------------------------------------------------------
(* What is imported stays new.                                             *)

\* The profiles of an import that are in no list.
LEMMA FreshMeans ==
  ASSUME Control, Fresh, NEW d \in Callers, Appends(d)
  PROVE  /\ Active(d) /\ Main(d) \in Mains /\ ExtOf[Main(d)] \in Exts
         /\ Unlisted(d) \subseteq {Main(d), ExtOf[Main(d)]}
         /\ Unlisted(d) \cap (Named(committed) \union Named(Latest)) = {}
         /\ ~At(d, "commit") => Unlisted(d) \cap Named(copy) = {}
         /\ \A e \in Callers : Is(e, "switch") =>
              Main(d) \notin {Main(e), seen[e]}
<1>1. Active(d) /\ kind[d] \notin {"cleanup", "exit"}
  BY DEF Appends, Imports, Is
<1> QED BY <1>1, HasMain DEF Fresh, Unlisted

\* An import is not touched by what the others do to the lists.
LEMMA FreshOthers ==
  ASSUME Control, Control', Fresh, NEW c \in Callers, Call(c) \/ Step(c),
         NEW d \in Callers, d # c, Appends(d)'
  PROVE  /\ Appends(d)
         /\ Unlisted(d)' \cap (Named(committed') \union Named(Latest')) = {}
         /\ (Unlisted(d) \ (IF At(d, "commit") THEN {Own(d)} ELSE {}))' \cap Named(copy') = {}
<1>1. /\ pc'[d] = pc[d] /\ kind'[d] = kind[d] /\ arg'[d] = arg[d]
           /\ job'[d] = job[d]
      /\ permit \in Callers \union {Null} /\ HoldsPermit /\ Places
  BY OthersStay DEF Control, TypeOK, CallersTyped
<1>2. /\ Appends(d) /\ Unlisted(d)' = Unlisted(d) /\ Own(d)' = Own(d)
      /\ At(d, "commit")' = At(d, "commit")
  BY <1>1 DEF Appends, Imports, Is, Active, At, Modifies, Unlisted, Own, Main
<1>3. /\ Main(d) \in Mains /\ ExtOf[Main(d)] \in Exts
      /\ Unlisted(d) \subseteq {Main(d), ExtOf[Main(d)]}
      /\ Unlisted(d) \cap (Named(committed) \union Named(Latest)) = {}
      /\ ~At(d, "commit") => Unlisted(d) \cap Named(copy) = {}
      /\ \A e \in Callers : Is(e, "switch") => Main(d) \notin {Main(e), seen[e]}
  BY <1>2, FreshMeans
<1> DEFINE Left == Unlisted(d) \ (IF At(d, "commit") THEN {Own(d)} ELSE {})
<1>4. Left \cap Named(copy) = {} /\ Left \subseteq Unlisted(d)
  BY <1>2 DEF Fresh
<1>5. SUFFICES
        /\ Unlisted(d) \cap (Named(committed') \union Named(Latest')) = {}
               /\ Left \cap Named(copy') = {}
  BY <1>2
<1>6. CASE Call(c)
  BY <1>3, <1>4, <1>6, NamedOnCall
<1>7. CASE Step(c)
  <2>1. At(c, "commit") => ~At(d, "commit")
    BY <1>1 DEF HoldsPermit, At
  <2>2. Unlisted(d) \subseteq Uids /\ Null \notin Uids
    BY <1>3, Identities DEF Uids
  <2>3. ASSUME Is(c, "switch") PROVE Unlisted(d) \cap {Main(c), seen[c]} = {}
    <3>1. Main(c) \in Mains /\ seen[c] \in Mains \union {Null}
      BY <2>3, HasMain DEF Is, Control, TypeOK
    <3>2. Main(d) \notin {Main(c), seen[c]}
      BY <1>3, <2>3
    <3>3. ExtOf[Main(d)] \notin {Main(c), seen[c]}
      BY <1>3, <2>2, <3>1, Identities DEF Uids
    <3> QED BY <1>3, <3>2, <3>3
  <2>4. ASSUME Appends(c) PROVE Own(c) \notin Unlisted(d)
    <3>1. Main(c) # Main(d) /\ Main(c) \in Mains
      BY <1>2, <2>4, FreshMeans DEF Fresh, Appends
    <3>2. ExtOf[Main(c)] # ExtOf[Main(d)]
      BY <1>3, <3>1, Identities
    <3> QED BY <1>3, <3>1, <3>2, Identities DEF Own
  <2>5. Unlisted(d) \cap Added(c) = {}
    BY <2>3, <2>4 DEF Added
  <2>6. Unlisted(d) \cap (Named(committed') \union Named(Latest')) = {}
    BY <1>3, <1>7, <2>1, <2>3, NamedOnStep
  <2>7. Left \cap Named(copy') = {}
    <3>1. Named(copy') \subseteq Named(committed) \union Named(copy) \union {Null} \union Added(c)
      BY <1>7, NamedOnStep
    <3> HIDE DEF Left
    <3> QED BY <1>3, <1>4, <2>2, <2>5, <3>1
  <2> QED BY <2>6, <2>7
<1> QED BY <1>6, <1>7

\* The same for the import that makes the step.
LEMMA FreshOwn ==
  ASSUME Control, Control', Fresh, NEW c \in Callers, Call(c) \/ Step(c), Appends(c)'
  PROVE  /\ Unlisted(c)' \cap (Named(committed') \union Named(Latest')) = {}
         /\ (Unlisted(c) \ (IF At(c, "commit") THEN {Own(c)} ELSE {}))' \cap Named(copy') = {}
<1>1. CallersTyped /\ Places /\ Null \notin Uids
  BY Identities DEF Control, TypeOK, CallersTyped
<1>2. CASE Call(c)
  <2>1. ASSUME NEW k \in Kinds, NEW m \in Mains, CallImport(c, k, m), UNCHANGED <<draft, copy>>
        PROVE  /\ Unlisted(c)' \cap (Named(committed') \union Named(Latest')) = {}
               /\ Unlisted(c)' \cap Named(copy') = {}
    <3>1. Unlisted(c)' = {ExtOf[m], m}
      <4>1. arg'[c] = <<m>> /\ job'[c] = "append_ext"
        BY <1>1, <2>1 DEF CallImport, Begin, CallersTyped
      <4> QED BY <4>1 DEF Unlisted, Main
    <3>2. {m, ExtOf[m]} \cap (Named(committed) \union Named(Latest) \union Named(copy)) = {}
      BY <2>1 DEF CallImport, Created, InUse
    <3>3. committed' = committed /\ Latest' = Latest /\ copy' = copy
      BY <2>1 DEF CallImport, Latest
    <3> QED BY <3>1, <3>2, <3>3
  <2>2. \E k \in Kinds, m \in Mains : CallImport(c, k, m)
          /\ UNCHANGED <<draft, copy>>
    <3>1. Call(c) /\ kind'[c] \in {"import", "link"}
      BY <1>2 DEF Appends, Imports, Is
    <3> QED BY <1>1, <3>1
               DEF Call, CallSwitch, CallUpdate, CallDelete, CallPatch,
               CallReorder, CallCleanup, CallExit, CallModify, Begin, CallersTyped
  <2> QED BY <2>1, <2>2
<1>3. CASE Step(c)
  <2>1. Imports(c)' /\ Modifies(c)' /\ job'[c] \in {"append_ext", "append"}
    BY DEF Appends, Control, Places, Imports, Is, JobsOf
  <2>2. CASE Take(c)
    <3>1. /\ Appends(c) /\ Unlisted(c)' = Unlisted(c) /\ ~At(c, "commit")'
          /\ committed' = committed /\ Latest' = Latest /\ copy' = committed
      BY <1>1, <2>1, <2>2
         DEF Take, CallersTyped, Goto, cell, Latest, Appends, Imports, Is,
         Active, At, Modifies, Modifying, Unlisted, Main
    <3> QED BY <3>1, FreshMeans
  <2>3. CASE Work(c)
    <3>1. At(c, "work") /\ Goto(c, "commit") /\ UNCHANGED cell
      <4>1. ~Fail(c)
        BY <1>1, <2>1 DEF Fail, Finish, CallersTyped, Imports, Is, Active, At
      <4> QED BY <2>3, <4>1, WorkShape
    <3>2. /\ Appends(c) /\ Unlisted(c)' = Unlisted(c) /\ Own(c)' = Own(c)
               /\ At(c, "commit")'
          /\ committed' = committed /\ Latest' = Latest
      BY <1>1, <2>1, <3>1
         DEF Goto, CallersTyped, cell, Latest, Appends, Imports, Is,
         Active, At, Modifies, Modifying, Unlisted, Own, Main
    <3>3. Named(copy') \subseteq Named(copy) \union {Null} \union {Own(c)}
      <4>1. ~Is(c, "switch")
        BY <3>2 DEF Appends, Imports, Is
      <4> QED BY <2>3, <3>2, <4>1, NamedOnWork DEF Added
    <3>4. /\ Unlisted(c) \cap (Named(committed) \union Named(Latest) \union Named(copy)) = {}
          /\ Unlisted(c) \subseteq Uids
      BY <3>1, <3>2, FreshMeans DEF Uids, At
    <3> QED BY <1>1, <3>2, <3>3, <3>4
  <2>4. CASE Commit(c)
    <3>1. /\ At(c, "commit") /\ Imports(c) /\ job[c] = "append_ext"
          /\ job'[c] = "append" /\ pc'[c] = "want" /\ arg' = arg
      BY <1>1, <2>1, <2>4 DEF Commit, Continue, ContinueImport, ContinueLink,
         ContinueDelete, ContinueUpdate, ContinueSwitch, Finish, Modify, Goto, CallersTyped,
         Imports, Is, Active, At, Modifies, Modifying
    <3>2. /\ Appends(c) /\ Unlisted(c)' = {Main(c)} /\ Own(c) = ExtOf[Main(c)]
          /\ Main(c) \in Unlisted(c) /\ ~At(c, "commit")'
      BY <3>1 DEF Appends, Modifies, Modifying, At, Unlisted, Own, Main
    <3>3. Main(c) \in Mains /\ Main(c) # ExtOf[Main(c)]
      BY <3>2, FreshMeans, Identities
    <3>4. Main(c) \notin Named(copy) \union Named(Latest)
      BY <3>1, <3>2, <3>3, FreshMeans DEF Fresh
    <3>5. /\ committed' = copy /\ Latest' \in {copy, Latest} /\ copy' = Blank
          /\ Main(c) \notin Named(Blank)
      BY <1>1, <2>4, <3>3 DEF Commit, Latest, Named, Blank, ToSet, Uids
    <3> QED BY <3>2, <3>4, <3>5
  <2>5. CASE Overtaken(c)
    BY <1>1, <2>1, <2>5
       DEF Overtaken, Fail, Finish, CallersTyped, Imports, Is, Active, At
  <2>6. CASE Switch(c)
    BY <1>1, <2>1, <2>6
       DEF Switch, EditDraft, Succeed, DiscardDraft, Restore, Apply,
       Finish, Goto, Modify, CallersTyped, Imports, Is, Active, At, Places, Switching
  <2>7. CASE Update(c)
    BY <1>1, <2>1, <2>7
       DEF Update, UpdateBusy, UpdateStart, UpdateValid, UpdateFails,
       UpdateTimeout, Refused, Finish, Goto, CallersTyped, Modifies, Modifying
  <2>8. CASE ReadList(c) \/ WriteList(c) \/ WriteListFails(c) \/ Cleanup(c)
    BY <1>1, <2>1, <2>8
       DEF ReadList, WriteList, WriteListFails, Unwritten, Cleanup, Finish, Goto, CallersTyped,
       Modifies, Modifying
  <2> QED BY <1>3, <2>2, <2>3, <2>4, <2>5, <2>6, <2>7, <2>8 DEF Step
<1> QED BY <1>2, <1>3

\* A command is the same until it ends, but for a switch that was restored.
LEMMA SameCommand ==
  ASSUME Control, NEW c \in Callers, Step(c), Active(c)'
  PROVE  /\ Active(c) /\ arg'[c] = arg[c]
         /\ kind'[c] = kind[c] \/ kind'[c] = "restore"
         /\ seen'[c] = seen[c] \/ kind[c] = "delete"
         /\ job'[c] = "append_ext" => job[c] = "append_ext"
<1>1. CallersTyped /\ Places
  BY DEF Control, TypeOK, CallersTyped
<1> USE <1>1 DEF CallersTyped, Goto, Finish, Modify, callers, Active, At
<1>2. CASE Work(c)
  BY <1>2, WorkShape DEF Fail
<1>3. CASE Commit(c)
  BY <1>3 DEF Commit, Continue, ContinueImport, ContinueLink, ContinueDelete,
     ContinueUpdate, ContinueSwitch
<1>4. CASE Take(c) \/ Overtaken(c)
  BY <1>4 DEF Take, Overtaken, Fail
<1>5. CASE Switch(c)
  BY <1>5 DEF Switch, EditDraft, Succeed, DiscardDraft, Restore, Apply
<1>6. CASE Update(c)
  BY <1>6 DEF Update, UpdateBusy, UpdateStart, UpdateValid, UpdateFails,
     UpdateTimeout,
     Refused
<1>7. CASE ReadList(c) \/ WriteList(c) \/ WriteListFails(c) \/ Cleanup(c)
  BY <1>7 DEF ReadList, WriteList, WriteListFails, Unwritten, Cleanup
<1> QED  BY <1>2, <1>3, <1>4, <1>5, <1>6, <1>7 DEF Step

\* An import under way that has something to append had it before.
LEMMA AppendsBefore ==
  ASSUME Control, NEW c \in Callers, Step(c), Appends(c)'
  PROVE  Appends(c) /\ Main(c)' = Main(c)
<1>1. /\ Active(c)' /\ Modifies(c)' /\ job'[c] # "save"
           /\ kind'[c] \in {"import", "link"}
      /\ CallersTyped /\ Places
  BY DEF Appends, Imports, Is, Control, TypeOK, CallersTyped
<1>2. Active(c) /\ arg'[c] = arg[c] /\ kind'[c] = kind[c]
  BY <1>1, SameCommand
<1>3. Modifies(c) /\ job[c] # "save"
  <2> USE <1>1, <1>2
        DEF CallersTyped, Goto, Finish, Modify, callers, Active, At, Modifies,
                         Modifying
  <2>1. CASE Take(c) \/ Overtaken(c) \/ Work(c)
    BY <2>1, WorkShape DEF Take, Overtaken, Fail
  <2>2. CASE Commit(c)
    BY <2>2 DEF Commit, Continue, ContinueImport, ContinueLink
  <2>3. CASE Switch(c)
    BY <2>3 DEF Switch, EditDraft, Succeed, DiscardDraft, Restore, Apply,
       Places, Switching
  <2>4. CASE Update(c)
    BY <2>4 DEF Update, UpdateBusy, UpdateStart, UpdateValid, UpdateFails,
       UpdateTimeout,
       Refused
  <2>5. CASE ReadList(c) \/ WriteList(c) \/ WriteListFails(c) \/ Cleanup(c)
    BY <2>5 DEF ReadList, WriteList, WriteListFails, Unwritten, Cleanup
  <2> QED  BY <2>1, <2>2, <2>3, <2>4, <2>5 DEF Step
<1> QED BY <1>1, <1>2, <1>3 DEF Appends, Imports, Is, Main

\* No step, of the import or of anybody else, puts the import into a list early.
LEMMA FreshHolds ==
  ASSUME Control, Control', Fresh, NEW c \in Callers, Call(c) \/ Step(c)
  PROVE  Fresh'
<1>1. CallersTyped
  BY DEF Control, TypeOK, CallersTyped
<1>2. ASSUME NEW d \in Callers, d # c
      PROVE  /\ Appends(d)' => Appends(d)
             /\ Main(d)' = Main(d) /\ seen'[d] = seen[d]
             /\ Is(d, "switch")' = Is(d, "switch") /\ Imports(d)' = Imports(d)
  BY <1>1, <1>2, OthersStay DEF Main, Is, Active, At, Imports, Appends, Modifies
<1>3. ASSUME NEW k \in Kinds, NEW m \in Mains, CallImport(c, k, m)
      PROVE  /\ Main(c)' = m /\ ~Is(c, "switch")'
             /\ \A d \in Callers : Imports(d) \/ Is(d, "switch") =>
                  m \notin {Main(d), seen[d]}
  <2>1. arg'[c] = <<m>> /\ kind'[c] = k /\ k # "switch" /\ m \notin InUse
    BY <1>1, <1>3 DEF CallImport, Begin, CallersTyped, Created
  <2>2. ASSUME NEW d \in Callers, Imports(d) \/ Is(d, "switch")
                 PROVE m \notin {Main(d),
               seen[d]}
    <3>1. Main(d) \in ToSet(arg[d])
      BY <2>2, HasMain DEF Imports, Is
    <3>2. UsedBy(d) \subseteq InUse
      <4>1. UsedBy(d) \in {UsedBy(e) : e \in Callers}
        BY DEF UsedBy
      <4>2. UNION {UsedBy(e) : e \in Callers} \subseteq InUse
        BY DEF InUse
      <4> QED BY <4>1, <4>2
    <3> QED BY <2>1, <3>1, <3>2 DEF UsedBy
  <2> QED BY <2>1, <2>2 DEF Main, Is
<1>4. ASSUME Call(c), Imports(c)'
      PROVE  \E k \in Kinds, m \in Mains : CallImport(c, k, m)
  <2>1. kind'[c] \in {"import", "link"}
    BY <1>4 DEF Imports, Is
  <2> QED BY <1>1, <1>4, <2>1
             DEF Call, CallSwitch, CallUpdate, CallDelete, CallPatch,
             CallReorder, CallCleanup, CallExit, CallModify, Begin, CallersTyped
<1>5. ASSUME Call(c), Is(c, "switch")'
      PROVE  Main(c)' \notin Drawn /\ seen'[c] \in Named(committed)
  <2>1. kind'[c] = "switch"
    BY <1>5 DEF Is
  <2>2. \E m \in Mains : CallSwitch(c, m)
    BY <1>1, <1>5, <2>1
       DEF Call, CallUpdate, CallDelete, CallPatch, CallReorder,
       CallImport, CallCleanup, CallExit, CallModify, Begin, CallersTyped
  <2> QED BY <1>1, <2>2 DEF CallSwitch, Begin, CallersTyped, Named, Main
<1>6. ASSUME Step(c), Imports(c)' PROVE Imports(c) /\ Main(c)' = Main(c)
  BY <1>6, SameCommand DEF Imports, Is, Main
<1>7. ASSUME Step(c), Is(c, "switch")'
      PROVE  Is(c, "switch") /\ Main(c)' = Main(c) /\ seen'[c] = seen[c]
  BY <1>7, SameCommand DEF Is, Main
<1>8. ASSUME NEW d \in Callers, NEW e \in Callers, Appends(d)', Is(e, "switch")'
      PROVE  Main(d)' \notin {Main(e)', seen'[e]}
  <2>1. Imports(d)' /\ d # e
    BY <1>8 DEF Appends, Imports, Is
  <2>2. CASE d # c /\ e # c
    BY <1>2, <1>8, <2>2 DEF Fresh
  <2>3. CASE d = c
    <3>1. Is(e, "switch") /\ Main(e)' = Main(e) /\ seen'[e] = seen[e]
      BY <1>2, <1>8, <2>1, <2>3
    <3>2. CASE Call(c)
      BY <1>3, <1>4, <2>1, <2>3, <3>1, <3>2
    <3>3. CASE Step(c)
      BY <1>8, <2>3, <3>1, <3>3, AppendsBefore DEF Fresh
    <3> QED BY <3>2, <3>3
  <2>4. CASE e = c
    <3>1. Appends(d) /\ Main(d)' = Main(d)
      BY <1>2, <1>8, <2>1, <2>4
    <3>2. CASE Call(c)
      <4>1. Unlisted(d) \cap Named(committed) = {} /\ Main(d) \in Unlisted(d)
        BY <3>1, FreshMeans DEF Unlisted
      <4>2. Main(d) \in Drawn
        <5>1. job[d] \in {"append_ext", "append"}
          BY <3>1 DEF Control, Places, JobsOf, Appends, Imports, Is
        <5> QED BY <3>1, <5>1
                   DEF Drawn, Appends, Imports, Is, Modifies, Modifying
      <4> QED BY <1>5, <1>8, <2>4, <3>1, <3>2, <4>1, <4>2
    <3>3. CASE Step(c)
      BY <1>7, <1>8, <2>4, <3>1, <3>3 DEF Fresh
    <3> QED BY <3>2, <3>3
  <2> QED BY <2>2, <2>3, <2>4
<1>9. ASSUME NEW d \in Callers, NEW e \in Callers, Imports(d)', Imports(e)', d # e
      PROVE  Main(d)' # Main(e)'
  <2>1. ASSUME NEW f \in Callers, f # c, Imports(f)', Imports(c)'
                 PROVE Main(f)' # Main(c)'
    <3>1. Imports(f) /\ Main(f)' = Main(f)
      BY <1>2, <2>1
    <3>2. CASE Call(c)
      BY <1>3, <1>4, <2>1, <3>1, <3>2
    <3>3. CASE Step(c)
      BY <1>6, <2>1, <3>1, <3>3 DEF Fresh
    <3> QED BY <3>2, <3>3
  <2>2. CASE d # c /\ e # c
    BY <1>2, <1>9, <2>2 DEF Fresh
  <2> QED BY <1>9, <2>1, <2>2
<1>10. ASSUME NEW d \in Callers, Appends(d)'
       PROVE  /\ Unlisted(d)' \cap (Named(committed') \union Named(Latest')) = {}
              /\ (Unlisted(d) \ (IF At(d, "commit") THEN {Own(d)} ELSE {}))' \cap Named(copy') = {}
  BY <1>10, FreshOthers, FreshOwn
<1> QED BY <1>8, <1>9, <1>10 DEF Fresh

-----------------------------------------------------------------------------
(* The lists stay in order.                                                *)

\* What went wrong is not forgotten.
LEMMA MishapsStay ==
  ASSUME NEW c \in Callers, Call(c) \/ Step(c) PROVE mishaps \subseteq mishaps'
<1>1. CASE Call(c)
  BY <1>1 DEF Call, CallSwitch, CallUpdate, CallDelete, CallPatch, CallReorder,
     CallImport,
     CallCleanup, CallExit, CallModify, Mishap, MishapIf
<1>2. CASE Work(c)
  BY <1>2 DEF Work, AppendExtension, AppendMain, AppendItem, DeleteItem,
     Reorder, PatchItem,
     UpdateItem, CommitCurrent, SaveFile, NotFound, WriteFails, Mishap, MishapIf
<1>3. CASE Switch(c)
  BY <1>3 DEF Switch, EditDraft, Succeed, DiscardDraft, Restore, Apply, Mishap,
     MishapIf
<1>4. CASE Update(c)
  BY <1>4 DEF Update, UpdateBusy, UpdateStart, UpdateValid, UpdateFails,
     UpdateTimeout,
     Mishap, MishapIf
<1>5. CASE Take(c) \/ Commit(c) \/ Overtaken(c) \/ ReadList(c) \/ WriteList(c) \/ WriteListFails(c) \/ Cleanup(c)
  BY <1>5 DEF Take, Commit, Overtaken, ReadList, WriteList, WriteListFails, Unwritten, Cleanup, Mishap,
     MishapIf
<1> QED BY <1>1, <1>2, <1>3, <1>4, <1>5 DEF Step

\* A list in order stays so, however much more goes wrong.
LEMMA KeptStays ==
  ASSUME NEW l, Kept(l), mishaps \subseteq mishaps'
  PROVE  \A k : k = l =>
           IsInjective(k.items) /\ (Excused({"misordered"})' \/ Sound(k))
BY DEF Kept, Excused

\* Every closure keeps the copy in order.
LEMMA WorkKeeps ==
  ASSUME Control, Fresh, Kept(copy), NEW c \in Callers, Work(c)
  PROVE  IsInjective(copy'.items) /\ (Excused({"misordered"})' \/ Sound(copy'))
<1>1. copy \in Lists /\ pc[c] = "work" /\ mishaps \subseteq mishaps'
  BY MishapsStay, WorkShape DEF Control, TypeOK, Step, At
<1>2. ASSUME copy' = copy
      PROVE  IsInjective(copy'.items)
               /\ (Excused({"misordered"})' \/ Sound(copy'))
  BY <1>1, <1>2, KeptStays
<1>3. CASE AppendExtension(c) \/ AppendMain(c)
  <2>1. Own(c) \notin ToSet(copy.items) /\ Own(c) \in Uids
    <3>1. Own(c) \in Unlisted(c)
      BY <1>3, Appended DEF Own, Unlisted
    <3> QED BY <1>1, <1>3, <3>1, Appended, Worker, FreshMeans DEF Named, At
  <2>2. /\ copy'.items = Append(copy.items, Own(c))
        /\ ToSet(copy'.items) = ToSet(copy.items) \union {Own(c)}
        /\ copy'.current \in {copy.current, Own(c)}
    BY <1>3, Appended
  <2>3. IsInjective(copy'.items)
    BY <1>1, <2>1, <2>2, AppendedList DEF Lists, Kept
  <2>4. Sound(copy) => Sound(copy')
    BY <2>2, <2>3 DEF Sound, Has
  <2> QED BY <1>1, <2>3, <2>4 DEF Kept, Excused
<1>4. CASE DeleteItem(c)
  <2>1. copy' = Deleted(copy, Main(c)) /\ Main(c) \in Mains
    BY <1>1, <1>4, Worker DEF DeleteItem, Closure
  <2> QED BY <1>1, <2>1, DeletedList DEF Kept, Excused
<1>5. CASE Reorder(c)
  <2>1. IsInjective(copy'.items)
    BY <1>5, Reordered DEF Kept
  <2>2. Sound(copy) => Sound(copy') \/ "misordered" \in mishaps'
    BY <1>5, <2>1, Reordered DEF Sound, Has
  <2> QED BY <1>1, <2>1, <2>2 DEF Kept, Excused
<1>6. CASE CommitCurrent(c)
  <2>1. /\ copy'.items = copy.items
        /\ copy' = copy \/ (copy'.current = Main(c) /\ Has(copy, Main(c)))
    <3>1. copy' = copy \/ (Has(copy, Main(c)) /\ copy' = [copy EXCEPT !.current = Main(c)])
      BY <1>6 DEF CommitCurrent, Closure
    <3> QED BY <1>1, <3>1 DEF Lists
  <2>2. Sound(copy) => Sound(copy')
    BY <2>1 DEF Sound, Has
  <2> QED BY <1>1, <2>1, <2>2 DEF Kept, Excused
<1>7. CASE PatchItem(c) \/ UpdateItem(c) \/ SaveFile(c)
  BY <1>2, <1>7 DEF PatchItem, UpdateItem, SaveFile, Closure
<1>8. CASE NotFound(c) \/ WriteFails(c)
  <2>1. copy' = Blank /\ IsInjective(Blank.items) /\ Sound(Blank)
    BY <1>8 DEF NotFound, WriteFails, Fail, Blank, IsInjective, Sound
  <2> QED BY <2>1
<1> QED BY <1>3, <1>4, <1>5, <1>6, <1>7, <1>8 DEF Work

\* Every list there is was in order before, or is the copy of a closure.
LEMMA AllSoundHolds ==
  ASSUME Control, Fresh, AllSound, NEW c \in Callers, Call(c) \/ Step(c)
  PROVE  AllSound'
<1> DEFINE Good(l) == IsInjective(l.items)
      /\ (Excused({"misordered"})' \/ Sound(l))
           Old == {committed, Latest, copy, disk, Blank} \union {held[d] : d \in Callers}
<1>1. /\ CallersTyped /\ mishaps \subseteq mishaps'
      /\ {committed, Latest, copy, disk} \subseteq Lists
  BY MishapsStay DEF Control, TypeOK, CallersTyped, Latest
<1>2. Good(Blank)
  BY DEF Blank, IsInjective, Sound
<1>3. \A l \in Old : Good(l)
  <2>1. \A l : Kept(l) => Good(l)
    BY <1>1, KeptStays
  <2> QED BY <1>2, <2>1 DEF AllSound
<1>4. SUFFICES /\ Good(committed') /\ Good(Latest') /\ Good(copy')
        /\ Good(disk')
               /\ \A d \in Callers : Good(held'[d])
  BY <1>4 DEF AllSound, Kept
<1>5. \A d \in Callers : held'[d] \in {committed, Blank, held[d]}
  <2> USE <1>1 DEF CallersTyped, Goto, Finish, Modify, callers
  <2>1. CASE Call(c)
    BY <2>1 DEF Call, CallSwitch, CallUpdate, CallDelete, CallPatch,
       CallReorder,
       CallImport, CallCleanup, CallExit, CallModify
  <2>2. CASE Work(c)
    BY <2>2, WorkShape DEF Fail
  <2>3. CASE Commit(c)
    BY <2>3 DEF Commit, Continue, ContinueImport, ContinueLink, ContinueDelete,
       ContinueUpdate, ContinueSwitch
  <2>4. CASE Switch(c)
    BY <2>4 DEF Switch, EditDraft, Succeed, DiscardDraft, Restore, Apply
  <2>5. CASE Update(c)
    BY <2>5 DEF Update, UpdateBusy, UpdateStart, UpdateValid, UpdateFails,
       UpdateTimeout,
       Refused
  <2>6. CASE Take(c) \/ Overtaken(c) \/ ReadList(c) \/ WriteList(c) \/ WriteListFails(c) \/ Cleanup(c)
    BY <2>6 DEF Take, Overtaken, Fail, ReadList, WriteList, WriteListFails, Unwritten, Cleanup
  <2> QED BY <2>1, <2>2, <2>3, <2>4, <2>5, <2>6 DEF Step
<1>6. \A d \in Callers : Good(held'[d])
  BY <1>3, <1>5
<1>7. ASSUME {committed', Latest', copy', disk'} \subseteq Old
      PROVE  Good(committed') /\ Good(Latest') /\ Good(copy') /\ Good(disk')
  BY <1>3, <1>7
<1>8. CASE Call(c)
  <2>1. {committed', Latest', copy', disk'} \subseteq Old
    BY <1>8, NamedOnCall DEF Call, store
  <2> QED BY <1>6, <1>7, <2>1
<1>9. CASE Work(c)
  <2>1. Good(copy') /\ {committed', Latest'} \subseteq Old
    BY <1>9, WorkKeeps, NamedOnWork DEF AllSound
  <2>2. disk' \in {disk, copy', Blank}
    BY <1>9 DEF Unwritten, Work, AppendExtension, AppendMain, AppendItem, DeleteItem,
       Reorder,
       PatchItem, UpdateItem, CommitCurrent, SaveFile, Closure, NotFound, WriteFails, store
  <2> QED BY <1>3, <1>6, <2>1, <2>2
<1>10. CASE EditDraft(c) \/ Restore(c)
  <2>1. ASSUME NEW m, Draft(m), committed' = committed, disk' = disk, copy' = copy
        PROVE  Good(committed') /\ Good(Latest') /\ Good(copy') /\ Good(disk')
    <3>1. draft' = Latest \/ (Has(Latest, m) /\ draft' = [Latest EXCEPT !.current = m])
      BY <2>1 DEF Draft
    <3>2. Latest' = committed \/ Latest' = draft'
      BY <2>1 DEF Latest
    <3>3. CASE Latest' \in {committed, Latest}
      BY <1>3, <2>1, <3>3
    <3>4. CASE Has(Latest, m) /\ Latest' = [Latest EXCEPT !.current = m]
      <4>1. Latest'.items = Latest.items /\ Latest'.current = m
        BY <1>1, <3>4 DEF Lists
      <4>2. Sound(Latest) => Sound(Latest')
        BY <3>4, <4>1 DEF Sound, Has
      <4>3. Good(Latest')
        BY <1>3, <4>1, <4>2
      <4> QED BY <1>3, <2>1, <4>3
    <3> QED BY <3>1, <3>2, <3>3, <3>4
  <2> QED BY <1>6, <1>10, <2>1 DEF EditDraft, Restore, store, modify
<1>11. CASE Take(c) \/ Commit(c) \/ Overtaken(c) \/ Succeed(c) \/ DiscardDraft(c)
            \/ Apply(c) \/ Update(c)
            \/ ReadList(c) \/ WriteList(c) \/ WriteListFails(c) \/ Cleanup(c)
  <2>1. {committed', Latest', copy', disk'} \subseteq Old
    BY <1>11 DEF Take, Commit, Overtaken, Fail, Succeed, DiscardDraft, Apply,
       ApplyDraft,
       Update, UpdateBusy, UpdateStart, UpdateValid, UpdateFails, UpdateTimeout, ReadList,
       WriteList, WriteListFails, Unwritten, Cleanup, Latest, cell, store, modify
  <2> QED BY <1>6, <1>7, <2>1
<1> QED BY <1>8, <1>9, <1>10, <1>11 DEF Step, Switch

-----------------------------------------------------------------------------
(* The copy stays what it was made of.                                     *)

\* Nobody changes what the holder of the permit works on; what is committed
\* changes only by applying a draft, which the holder will notice.
LEMMA HolderAlone ==
  ASSUME Control, NEW c \in Callers, Call(c) \/ Step(c),
         NEW d \in Callers, d # c, pc[d] \in {"work", "commit"}
  PROVE  /\ copy' = copy /\ permit' = permit
         /\ overtaken' \/ (committed' = committed /\ overtaken' = overtaken)
<1>1. permit = d /\ pc[c] \notin {"work", "commit"} /\ overtaken \in BOOLEAN
  BY DEF Control, HoldsPermit, TypeOK
<1>2. ASSUME ApplyDraft
      PROVE  overtaken' \/ (committed' = committed /\ overtaken' = overtaken)
  BY <1>1, <1>2 DEF ApplyDraft, Latest
<1>3. CASE Call(c)
  <2>1. copy' = copy /\ permit' = permit
    BY <1>3 DEF Call
  <2>2. CASE CallExit(c)
    BY <1>2, <2>1, <2>2 DEF CallExit
  <2>3. CASE ~CallExit(c)
    BY <1>3, <2>1, <2>3 DEF Call, CallSwitch, CallUpdate, CallDelete, CallPatch,
       CallReorder, CallImport, CallCleanup, CallModify
  <2> QED BY <2>2, <2>3
<1>4. ~Work(c) /\ ~Take(c) /\ ~Commit(c) /\ ~Overtaken(c)
  <2>1. permit # Null
    BY <1>1, Identities
  <2> QED BY <1>1, <2>1, WorkShape DEF At, Take, Commit, Overtaken
<1>5. CASE Apply(c)
  BY <1>2, <1>5 DEF Apply
<1>6. CASE EditDraft(c) \/ Succeed(c) \/ DiscardDraft(c) \/ Restore(c)
  BY <1>6 DEF EditDraft, Succeed, DiscardDraft, Restore, modify
<1>7. CASE Update(c) \/ ReadList(c) \/ WriteList(c) \/ WriteListFails(c) \/ Cleanup(c)
  BY <1>7 DEF Update, UpdateBusy, UpdateStart, UpdateValid, UpdateFails,
     UpdateTimeout,
     ReadList, WriteList, WriteListFails, Unwritten, Cleanup, cell, modify
<1> QED BY <1>3, <1>4, <1>5, <1>6, <1>7 DEF Step, Switch

\* Only the holder gets to its own closure and past it.
LEMMA HolderGoesOn ==
  ASSUME Control, NEW c \in Callers, Call(c) \/ Step(c), pc'[c] \in {"work", "commit"}
  PROVE  \/ Take(c) /\ At(c, "work")'
         \/ Work(c) /\ Goto(c, "commit") /\ At(c, "commit")'
<1>1. CallersTyped
  BY DEF Control, TypeOK, CallersTyped
<1> USE <1>1 DEF CallersTyped, Goto, Finish, Modify, At
<1>2. CASE Call(c)
  BY <1>2, CallShape DEF StartsSwitch, StartsClosure, StartsOther, Started
<1>3. CASE Work(c)
  BY <1>3, WorkShape DEF Fail
<1>4. CASE Take(c)
  BY <1>4 DEF Take
<1>5. CASE Commit(c)
  BY <1>5 DEF Commit, Continue, ContinueImport, ContinueLink, ContinueDelete,
     ContinueUpdate, ContinueSwitch
<1>6. CASE Overtaken(c)
  BY <1>6 DEF Overtaken, Fail
<1>7. CASE Switch(c)
  BY <1>7 DEF Switch, EditDraft, Succeed, DiscardDraft, Restore, Apply
<1>8. CASE Update(c)
  BY <1>8 DEF Update, UpdateBusy, UpdateStart, UpdateValid, UpdateFails,
     UpdateTimeout,
     Refused
<1>9. CASE ReadList(c) \/ WriteList(c) \/ WriteListFails(c) \/ Cleanup(c)
  BY <1>9 DEF ReadList, WriteList, WriteListFails, Unwritten, Cleanup
<1> QED BY <1>2, <1>3, <1>4, <1>5, <1>6, <1>7, <1>8, <1>9 DEF Step

\* What a closure makes of the list that is committed.
LEMMA WorkedHolds ==
  ASSUME Control, AllSound, NEW c \in Callers, Work(c), Goto(c, "commit"), copy = committed
  PROVE  Worked(c)'
<1>1. /\ copy \in Lists /\ committed \in Lists /\ arg[c] \in Seq(Mains)
      /\ mishaps \subseteq mishaps' /\ CallersTyped
  BY MishapsStay DEF Control, TypeOK, Step, CallersTyped
<1>2. At(c, "work") /\ committed' = committed /\ pc'[c] = "commit"
  <2>1. ~Fail(c)
    BY <1>1 DEF Fail, Finish, Goto, CallersTyped
  <2> QED BY <1>1, <2>1, WorkShape DEF cell, Goto, CallersTyped
<1>3. /\ job[c] \in JobsOf(kind[c]) /\ kind[c] \in AllKinds \union {"restore"}
      /\ Main(c) \in Mains
  BY <1>2, Worker DEF At
<1>4. /\ Main(c)' = Main(c) /\ job' = job /\ Own(c)' = Own(c)
           /\ Appends(c)' = Appends(c)
  BY <1>2 DEF Goto, Main, Own, Appends, Imports, Is, Active, Modifies,
     Modifying, At
<1>5. SUFFICES
        /\ ToSet(copy'.items) \subseteq
             ToSet(committed.items) \union (IF Appends(c) THEN {Own(c)} ELSE {})
        /\ copy'.current = committed.current \/ job[c] \in {"append", "delete", "commit_current"}
        /\ job[c] = "append" =>
             \/ "adopted" \in mishaps'
             \/ copy'.current = committed.current /\ committed.current # Null
        /\ job[c] = "delete" =>
             /\ Main(c) \in ToSet(committed.items)
                  /\ Main(c) \notin ToSet(copy'.items)
             /\ committed.current \in {Main(c), Null} \/ copy'.current = committed.current
        /\ job[c] = "commit_current" =>
             \/ "gone" \in mishaps'
             \/ copy'.current = Main(c) /\ Main(c) \in ToSet(committed.items)
  BY <1>2, <1>4 DEF Worked
<1>6. CASE AppendExtension(c) \/ AppendMain(c)
  BY <1>6, Appended
<1>7. CASE DeleteItem(c)
  <2>1. copy' = Deleted(copy, Main(c)) /\ job[c] = "delete"
          /\ Main(c) \in ToSet(copy.items)
    BY <1>7 DEF DeleteItem, Closure, Has
  <2>2. /\ ToSet(copy'.items) = ToSet(copy.items) \ {Main(c), ExtOf[Main(c)]}
        /\ copy.current \in {Main(c), Null} \/ copy'.current = copy.current
    BY <1>1, <1>3, <2>1, DeletedList DEF AllSound, Kept
  <2> QED BY <2>1, <2>2
<1>8. CASE Reorder(c) \/ PatchItem(c) \/ UpdateItem(c) \/ SaveFile(c)
  <2>1. /\ ToSet(copy'.items) \subseteq ToSet(copy.items)
             /\ copy'.current = copy.current
    BY <1>8, Reordered DEF PatchItem, UpdateItem, SaveFile, Closure
  <2>2. job[c] \in {"reorder", "patch", "update_item", "save"}
    BY <1>8 DEF Reorder, PatchItem, UpdateItem, SaveFile, Closure
  <2> QED BY <2>1, <2>2
<1>9. CASE CommitCurrent(c)
  <2>1. /\ job[c] = "commit_current"
        /\ copy' = IF Has(copy, Main(c)) THEN [copy EXCEPT !.current = Main(c)] ELSE copy
    BY <1>9 DEF CommitCurrent, Closure
  <2>2. copy'.items = copy.items
          /\ (Has(copy, Main(c)) => copy'.current = Main(c))
    BY <1>1, <2>1 DEF Lists
  <2>3. ~Has(copy, Main(c)) => "gone" \in mishaps'
    BY <1>9 DEF CommitCurrent, MishapIf, Mishap
  <2> QED BY <2>1, <2>2, <2>3 DEF Has
<1>10. CASE NotFound(c) \/ WriteFails(c)
  BY <1>1, <1>2, <1>10 DEF NotFound, WriteFails, Fail, Finish, CallersTyped
<1> QED BY <1>6, <1>7, <1>8, <1>9, <1>10 DEF Work

\* The copy changes by its holder's steps only.
LEMMA CopyKnownHolds ==
  ASSUME Control, AllSound, CopyKnown, NEW c \in Callers, Call(c) \/ Step(c)
  PROVE  CopyKnown'
<1>1. /\ CallersTyped /\ mishaps \subseteq mishaps'
      /\ overtaken \in BOOLEAN
  BY MishapsStay DEF Control, TypeOK, CallersTyped
<1>2. ASSUME NEW d \in Callers, d # c, pc'[d] \in {"work", "commit"}, ~overtaken'
      PROVE  /\ (At(d, "work") => copy = committed)'
             /\ (At(d, "commit") => Worked(d))'
  <2>1. /\ pc'[d] = pc[d] /\ kind'[d] = kind[d] /\ arg'[d] = arg[d]
             /\ job'[d] = job[d]
    BY <1>1, <1>2, OthersStay
  <2>2. copy' = copy /\ committed' = committed /\ ~overtaken
    BY <1>1, <1>2, <2>1, HolderAlone
  <2>3. /\ Main(d)' = Main(d) /\ Own(d)' = Own(d) /\ Appends(d)' = Appends(d)
        /\ At(d, "work")' = At(d, "work") /\ At(d, "commit")' = At(d, "commit")
    BY <2>1 DEF Main, Own, Appends, Imports, Is, Active, Modifies, At
  <2> QED BY <1>1, <2>1, <2>2, <2>3 DEF CopyKnown, WorksOnCommitted, Worked
<1>3. ASSUME pc'[c] \in {"work", "commit"}, ~overtaken'
      PROVE  /\ (At(c, "work") => copy = committed)'
             /\ (At(c, "commit") => Worked(c))'
  <2>1. CASE Take(c) /\ At(c, "work")'
    BY <2>1 DEF Take, cell, At
  <2>2. CASE Work(c) /\ Goto(c, "commit") /\ At(c, "commit")'
    <3>1. At(c, "work") /\ ~overtaken
      <4>1. ~Fail(c)
        BY <1>1, <2>2 DEF Fail, Finish, Goto, CallersTyped
      <4> QED BY <1>3, <2>2, <4>1, WorkShape
    <3>2. copy = committed
      BY <3>1 DEF CopyKnown, WorksOnCommitted
    <3> QED BY <2>2, <3>2, WorkedHolds DEF At
  <2> QED BY <1>3, <2>1, <2>2, HolderGoesOn
<1> QED BY <1>2, <1>3 DEF CopyKnown, WorksOnCommitted, At

-----------------------------------------------------------------------------
(* Items keep their files.                                                 *)

LEMMA ItemsOfBoth ==
  ASSUME NEW S, NEW s \in Seq(S), NEW t \in Seq(S)
  PROVE  ToSet(s) \union ToSet(t) \subseteq ToSet(s \o t)
<1>1. /\ s \o t \in Seq(S) /\ Len(s \o t) = Len(s) + Len(t)
      /\ \A i \in 1..(Len(s) + Len(t)) : (s \o t)[i] = IF i <= Len(s) THEN s[i] ELSE t[i - Len(s)]
  BY ConcatProperties
<1>2. DOMAIN (s \o t) = 1..(Len(s) + Len(t)) /\ Len(s) \in Nat /\ Len(t) \in Nat
  BY <1>1
<1>3. ASSUME NEW i \in 1..Len(s) PROVE s[i] \in ToSet(s \o t)
  <2>1. i \in 1..(Len(s) + Len(t)) /\ (s \o t)[i] = s[i]
    BY <1>1, <1>2
  <2> QED BY <1>2, <2>1 DEF ToSet
<1>4. ASSUME NEW i \in 1..Len(t) PROVE t[i] \in ToSet(s \o t)
  <2>1. i + Len(s) \in 1..(Len(s) + Len(t)) /\ (s \o t)[i + Len(s)] = t[i]
    BY <1>1, <1>2
  <2> QED BY <1>2, <2>1 DEF ToSet
<1>5. ToSet(s) \subseteq ToSet(s \o t)
  BY <1>3, ToSetIndex
<1>6. ToSet(t) \subseteq ToSet(s \o t)
  BY <1>4, ToSetIndex
<1> QED BY <1>5, <1>6

Dooms(c, u) == At(c, "commit") /\ job[c] = "delete"
  /\ u \in {Main(c), ExtOf[Main(c)]}

LEMMA DoomedMeans == \A u : u \in Doomed <=> \E c \in Callers : Dooms(c, u)
BY DEF Doomed, Dooms

\* A closure leaves every item its file, or is about to commit its deletion.
LEMMA FilesOnWork ==
  ASSUME Control, AllSound, CopyKnown, FilesThere, NEW c \in Callers, Work(c),
         ~Excused({"fault", "overtaken", "overwritten", "swept"})'
  PROVE  /\ \A u \in ToSet(committed.items) : u \in files' \/ Dooms(c, u)'
         /\ At(c, "commit")' /\ ~overtaken' =>
              ToSet(copy'.items) \subseteq files'
<1>1. /\ copy \in Lists /\ committed \in Lists /\ CallersTyped /\ At(c, "work")
  BY WorkShape DEF Control, TypeOK, CallersTyped
<1>2. ToSet(committed.items) \subseteq files
  <2>1. \A u : u \notin Doomed
    BY <1>1, DoomedMeans DEF Dooms, Control, HoldsPermit, At
  <2>2. ~Excused({"fault", "overtaken", "overwritten", "swept"})
    BY MishapsStay DEF Excused, Step
  <2> QED BY <2>1, <2>2 DEF FilesThere
<1>3. ~overtaken => ToSet(copy.items) \subseteq files
  BY <1>1, <1>2 DEF CopyKnown, WorksOnCommitted
<1>4. ASSUME Goto(c, "commit")
      PROVE  /\ overtaken' = overtaken
             /\ \A u : Dooms(c, u)' <=> job[c] = "delete"
                  /\ u \in {Main(c), ExtOf[Main(c)]}
  <2>1. ~Fail(c)
    BY <1>1, <1>4 DEF Fail, Finish, Goto, CallersTyped
  <2> QED BY <1>1, <1>4, <2>1, WorkShape DEF Goto, Dooms, At, Main, CallersTyped
<1>5. CASE AppendExtension(c) \/ AppendMain(c)
  BY <1>2, <1>3, <1>4, <1>5, Appended
<1>6. CASE DeleteItem(c)
  <2>1. /\ copy' = Deleted(copy, Main(c)) /\ job[c] = "delete"
             /\ Goto(c, "commit")
        /\ files' = files \ {Main(c), ExtOf[Main(c)]} /\ Main(c) \in Mains
    BY <1>1, <1>6, Worker DEF DeleteItem, Closure, At
  <2>2. ToSet(copy'.items) = ToSet(copy.items) \ {Main(c), ExtOf[Main(c)]}
    BY <1>1, <2>1, DeletedList DEF AllSound, Kept
  <2> QED BY <1>2, <1>3, <1>4, <2>1, <2>2
<1>7. CASE Reorder(c) \/ PatchItem(c) \/ UpdateItem(c) \/ SaveFile(c) \/ CommitCurrent(c)
  <2>1. files \subseteq files' /\ Goto(c, "commit")
    BY <1>7 DEF Reorder, PatchItem, UpdateItem, SaveFile, CommitCurrent, Closure
  <2>2. ToSet(copy'.items) \subseteq ToSet(copy.items)
    <3>1. CommitCurrent(c) => copy'.items = copy.items
      BY <1>1 DEF CommitCurrent, Closure, Lists
    <3> QED BY <1>7, <3>1, Reordered
               DEF PatchItem, UpdateItem, SaveFile, Closure
  <2> QED BY <1>2, <1>3, <1>4, <2>1, <2>2
<1>8. CASE NotFound(c) \/ WriteFails(c)
  <2>1. NotFound(c) /\ pc'[c] = "idle" /\ files' = files
    BY <1>1, <1>8
       DEF NotFound, WriteFails, Fail, Finish, CallersTyped, Mishap, Excused,
       store
  <2> QED BY <1>2, <2>1 DEF At
<1> QED BY <1>5, <1>6, <1>7, <1>8 DEF Work

\* No step takes the file of an item that stays.
LEMMA FilesThereHolds ==
  ASSUME Control, AllSound, CopyKnown, FilesThere, NEW c \in Callers, Call(c) \/ Step(c)
  PROVE  FilesThere'
<1> DEFINE Hurt == {"fault", "overtaken", "overwritten", "swept"}
<1>1. SUFFICES ASSUME ~Excused(Hurt)'
               PROVE  /\ \A u \in ToSet(committed'.items) :
                           u \in files' \/ \E d \in Callers : Dooms(d, u)'
                      /\ \A d \in Callers :
                           At(d, "commit")' /\ ~overtaken' =>
                             ToSet(copy'.items) \subseteq files'
  <2>1. \A u : u \in Doomed' <=> \E d \in Callers : Dooms(d, u)'
    BY DEF Doomed, Dooms
  <2> QED BY <1>1, <2>1 DEF FilesThere
<1>2. /\ \A u \in ToSet(committed.items) : u \in files \/ \E d \in Callers :
           Dooms(d, u)
      /\ \A d \in Callers : At(d, "commit") /\ ~overtaken =>
           ToSet(copy.items) \subseteq files
  <2>1. ~Excused(Hurt)
    BY <1>1, MishapsStay DEF Excused
  <2> QED BY <2>1, DoomedMeans DEF FilesThere
<1>3. {committed, Latest, copy} \subseteq Lists /\ CallersTyped /\ HoldsPermit
  BY DEF Control, TypeOK, Latest, CallersTyped
\* The others are about to delete what they were, and wait for nobody.
<1>4. ASSUME NEW d \in Callers, d # c
      PROVE  /\ At(d, "commit")' = At(d, "commit") /\ \A u :
                  Dooms(d, u)' = Dooms(d, u)
             /\ At(d, "commit") /\ ~overtaken' => copy' = copy /\ ~overtaken
  <2>1. pc'[d] = pc[d] /\ arg'[d] = arg[d] /\ job'[d] = job[d]
    BY <1>3, <1>4, OthersStay
  <2>2. At(d, "commit") /\ ~overtaken' => copy' = copy /\ ~overtaken
    BY <1>4, HolderAlone DEF At
  <2> QED BY <2>1, <2>2 DEF At, Dooms, Main
<1>5. CASE Work(c)
  <2>1. committed' = committed
    BY <1>5, NamedOnWork
  <2>2. \A d \in Callers : d # c => ~At(d, "commit")
    BY <1>3, <1>5, WorkShape DEF HoldsPermit, At
  <2> QED BY <1>1, <1>4, <1>5, <2>1, <2>2, FilesOnWork
<1>6. CASE Commit(c)
  <2>1. committed' = copy /\ files' = files /\ At(c, "commit") /\ ~overtaken
    BY <1>6 DEF Commit, store
  <2>2. \A d \in Callers : ~At(d, "commit")'
    <3>1. \A d \in Callers : d # c => ~At(d, "commit")
      BY <1>3, <2>1 DEF HoldsPermit, At
    <3>2. ~At(c, "commit")'
      BY <2>1, HolderGoesOn, WorkShape DEF At, Take
    <3> QED BY <1>4, <3>1, <3>2
  <2> QED BY <1>2, <2>1, <2>2
<1>7. CASE Overtaken(c)
  BY <1>1, <1>7 DEF Overtaken, Mishap, Excused
<1>8. CASE Cleanup(c)
  <2> DEFINE orphans == files \ ToSet(held[c].items)
  <2>1. /\ files' = files \ orphans /\ committed' = committed /\ copy' = copy
        /\ overtaken' = overtaken
        /\ ~At(c, "commit") /\ ~At(c, "commit")'
    BY <1>3, <1>8 DEF Cleanup, cell, modify, Finish, CallersTyped, At
  <2>2. orphans \cap ToSet(committed.items \o copy.items) = {}
    BY <1>1, <1>8 DEF Cleanup, MishapIf, Mishap, Excused
  <2>3. ToSet(committed.items) \union ToSet(copy.items)
          \subseteq ToSet(committed.items \o copy.items)
    BY <1>3, ItemsOfBoth DEF Lists
  <2> HIDE DEF orphans
  <2>4. \A u \in ToSet(committed'.items) : u \in files' \/ \E d \in Callers :
          Dooms(d, u)'
    BY <1>2, <1>4, <2>1, <2>2, <2>3 DEF Dooms
  <2> QED BY <1>2, <1>4, <2>1, <2>2, <2>3, <2>4
<1>9. CASE Call(c) \/ Take(c) \/ Switch(c) \/ Update(c) \/ ReadList(c) \/ WriteList(c) \/ WriteListFails(c)
  <2>1. files' = files /\ committed'.items = committed.items
    <3>1. CASE Call(c)
      BY <1>1, <3>1
         DEF Call, CallSwitch, CallUpdate, CallDelete, CallPatch, CallReorder,
         CallImport, CallCleanup, CallExit, CallModify, ApplyDraft, MishapIf, Mishap,
         Excused, store
    <3>2. CASE Switch(c)
      BY <1>1, <3>2
         DEF Switch, EditDraft, Succeed, DiscardDraft, Restore, Apply,
         ApplyDraft, MishapIf, Mishap, Excused, store
    <3> QED BY <1>9, <3>1, <3>2
               DEF Take, Update, UpdateBusy, UpdateStart, UpdateValid,
               UpdateFails, UpdateTimeout, ReadList, WriteList, WriteListFails, Unwritten, cell, store
  <2>2. ~At(c, "commit") /\ ~At(c, "commit")'
    BY <1>3, <1>9, CallShape
       DEF CallersTyped, StartsSwitch, StartsClosure, StartsOther,
       Started, Take, Switch, EditDraft, Succeed, DiscardDraft, Restore, Apply, Update,
       UpdateBusy, UpdateStart, UpdateValid, UpdateFails, UpdateTimeout, Refused, ReadList,
       WriteList, WriteListFails, Unwritten, Goto, Finish, Modify, At
  <2> QED BY <1>2, <1>4, <2>1, <2>2 DEF Dooms
<1> QED BY <1>5, <1>6, <1>7, <1>8, <1>9 DEF Step

-----------------------------------------------------------------------------
(* profiles.yaml follows.                                                  *)

\* Whoever changes the list writes it, or leaves somebody behind who will.
LEMMA DiskOwedHolds ==
  ASSUME Control, DiskOwed, NEW c \in Callers, Call(c) \/ Step(c)
  PROVE  DiskOwed'
<1> DEFINE Hurt == {"fault", "misordered", "stale_write"}
           Overdue == permit # Null /\ overtaken
<1>1. SUFFICES ASSUME ~Excused(Hurt)'
               PROVE  /\ Overdue' =>
                           \E d \in Callers : d # permit' /\ Writes(d)'
                      /\ (\A d \in Callers : ~At(d, "commit")') /\ ~Overdue'
                           => disk' = committed' \/ \E d \in Callers :
                             Writes(d)'
                      /\ \A d \in Callers : At(d, "commit")' /\ ~overtaken' =>
                           disk' = copy' \/ job'[d] \in {"append_ext", "append", "commit_current"}
  BY <1>1 DEF DiskOwed
<1>2. /\ Overdue => \E d \in Callers : d # permit /\ Writes(d)
      /\ (\A d \in Callers : ~At(d, "commit")) /\ ~Overdue
           => disk = committed \/ \E d \in Callers : Writes(d)
      /\ \A d \in Callers : At(d, "commit") /\ ~overtaken =>
           disk = copy \/ job[d] \in {"append_ext", "append", "commit_current"}
  <2>1. ~Excused(Hurt)
    BY <1>1, MishapsStay DEF Excused
  <2> QED BY <2>1 DEF DiskOwed
<1>3. /\ CallersTyped /\ HoldsPermit /\ Places
           /\ permit \in Callers \union {Null}
      /\ Null \notin Callers
  BY Identities DEF Control, TypeOK, CallersTyped
<1>4. ASSUME NEW d \in Callers, d # c
      PROVE  Writes(d)' = Writes(d) /\ At(d, "commit")' = At(d, "commit")
               /\ job'[d] = job[d]
  BY <1>3, <1>4, OthersStay DEF Writes, At
\* Nobody waits for c, or c still writes.
<1>5. ASSUME UNCHANGED <<committed, disk, copy, overtaken, permit>>,
             Writes(c) => Writes(c)', ~At(c, "commit"), ~At(c, "commit")'
      PROVE  /\ Overdue' => \E d \in Callers : d # permit' /\ Writes(d)'
             /\ (\A d \in Callers : ~At(d, "commit")') /\ ~Overdue'
                  => disk' = committed' \/ \E d \in Callers : Writes(d)'
             /\ \A d \in Callers : At(d, "commit")' /\ ~overtaken' =>
                  disk' = copy' \/ job'[d] \in {"append_ext", "append", "commit_current"}
  <2>1. \A d \in Callers : (Writes(d) => Writes(d)')
          /\ (At(d, "commit")' <=> At(d, "commit"))
    BY <1>4, <1>5
  <2>2. /\ Overdue' <=> Overdue
        /\ permit' = permit /\ committed' = committed /\ disk' = disk
             /\ copy' = copy
        /\ overtaken' = overtaken
    BY <1>5
  <2>3. \A d \in Callers : At(d, "commit")' => job'[d] = job[d]
    BY <1>4, <1>5
  <2> HIDE DEF Overdue
  <2>4. Overdue' => \E d \in Callers : d # permit' /\ Writes(d)'
    BY <1>2, <2>1, <2>2
  <2>5. (\A d \in Callers : ~At(d, "commit")') /\ ~Overdue'
          => disk' = committed' \/ \E d \in Callers : Writes(d)'
    BY <1>2, <2>1, <2>2
  <2>6. \A d \in Callers : At(d, "commit")' /\ ~overtaken' =>
                  disk' = copy' \/ job'[d] \in {"append_ext", "append", "commit_current"}
    BY <1>2, <2>1, <2>2, <2>3
  <2> QED BY <2>4, <2>5, <2>6
<1>6. ASSUME ApplyDraft, Writes(c)', ~At(c, "commit"), ~At(c, "commit")', permit # c,
             UNCHANGED <<disk, copy, permit>>
      PROVE  /\ Overdue' => \E d \in Callers : d # permit' /\ Writes(d)'
             /\ (\A d \in Callers : ~At(d, "commit")') /\ ~Overdue'
                  => disk' = committed' \/ \E d \in Callers : Writes(d)'
             /\ \A d \in Callers : At(d, "commit")' /\ ~overtaken' =>
                  disk' = copy' \/ job'[d] \in {"append_ext", "append", "commit_current"}
  <2>1. ~overtaken' => ~overtaken
    BY <1>6 DEF ApplyDraft, Control, TypeOK
  <2> QED BY <1>2, <1>4, <1>6, <2>1
<1>7. CASE Call(c)
  <2>1. At(c, "idle") /\ UNCHANGED <<disk, copy, permit>> /\ ~At(c, "commit")'
    BY <1>3, <1>7, CallShape
       DEF Call, store, StartsSwitch, StartsClosure, StartsOther,
       Started, At, CallersTyped
  <2>2. permit # c /\ ~Writes(c) /\ ~At(c, "commit")
    BY <1>3, <2>1 DEF HoldsPermit, At, Writes
  <2>3. CASE CallExit(c)
    <3>1. Writes(c)' /\ ApplyDraft
      BY <1>3, <2>3 DEF CallExit, Writes, CallersTyped
    <3> QED BY <1>6, <2>1, <2>2, <3>1
  <2>4. CASE ~CallExit(c)
    <3>1. UNCHANGED <<committed, overtaken>>
      BY <1>7, <2>4
         DEF Call, CallSwitch, CallUpdate, CallDelete, CallPatch, CallReorder,
         CallImport, CallCleanup, CallModify
    <3> QED BY <1>5, <2>1, <2>2, <3>1
  <2> QED BY <2>3, <2>4
<1>8. CASE Take(c)
  <2>1. /\ permit = Null /\ overtaken' = FALSE /\ UNCHANGED <<committed, disk>>
        /\ Writes(c) => Writes(c)'
        /\ ~At(c, "commit") /\ ~At(c, "commit")'
    BY <1>3, <1>8 DEF Take, Goto, Writes, At, cell, store, CallersTyped
  <2>2. \A d \in Callers : ~At(d, "commit")
    BY <1>3, <2>1 DEF HoldsPermit, At
  <2>3. \A d \in Callers : (Writes(d) => Writes(d)') /\ ~At(d, "commit")'
    BY <1>4, <2>1, <2>2
  <2> QED BY <1>2, <2>1, <2>2, <2>3
<1>9. CASE Work(c)
  <2>1. /\ At(c, "work") /\ permit = c /\ committed' = committed
             /\ overtaken' = overtaken
        /\ \A d \in Callers : ~At(d, "commit")
    BY <1>3, <1>9, WorkShape DEF HoldsPermit, At, Fail, cell
  <2>2. CASE Goto(c, "commit") /\ permit' = permit
    <3>1. At(c, "commit")' /\ job' = job
      BY <1>3, <2>2 DEF Goto, At, CallersTyped
    <3>2. disk' = copy' \/ job[c] \in {"append_ext", "append", "commit_current"}
      <4>1. ~NotFound(c) /\ ~WriteFails(c)
        BY <1>3, <3>1 DEF At, NotFound, WriteFails, Fail, Finish, CallersTyped
      <4>2. ASSUME NEW j, NEW new, Closure(c, j, new, TRUE) PROVE disk' = copy'
        BY <4>2 DEF Closure
      <4>3. CASE Reorder(c)
        <5>1. ToSet(arg[c]) \subseteq ToSet(copy.items)
          BY <1>1, <4>3 DEF Reorder, MishapIf, Mishap, Excused
        <5> QED BY <4>2, <4>3, <5>1 DEF Reorder
      <4>4. CASE DeleteItem(c) \/ PatchItem(c) \/ UpdateItem(c) \/ SaveFile(c)
        BY <4>2, <4>4 DEF DeleteItem, PatchItem, UpdateItem, SaveFile
      <4>5. CASE AppendExtension(c) \/ AppendMain(c) \/ CommitCurrent(c)
        BY <4>5 DEF AppendExtension, AppendMain, AppendItem, CommitCurrent,
           Closure
      <4> QED BY <1>9, <4>1, <4>3, <4>4, <4>5 DEF Work
    <3> QED BY <1>2, <1>4, <2>1, <2>2, <3>1, <3>2
  <2>3. CASE Fail(c)
    <3>1. ~WriteFails(c)
      BY <1>1 DEF WriteFails, Mishap, Excused
    <3>2. job[c] \in {"delete", "patch", "update_item"}
      <4>1. pc'[c] = "idle"
        BY <1>3, <2>3 DEF Fail, Finish, CallersTyped
      <4> QED BY <1>3, <1>9, <3>1, <4>1
                 DEF Work, AppendExtension, AppendMain, AppendItem,
                 DeleteItem, Reorder, PatchItem, UpdateItem, CommitCurrent, SaveFile,
                 NotFound, Closure, Goto, CallersTyped
    <3>3. permit' = Null /\ ~Writes(c) /\ ~At(c, "commit")'
      BY <1>3, <2>1, <2>3, <3>2 DEF Fail, Finish, Writes, At, CallersTyped
    <3>4. disk = committed \/ \E d \in Callers : d # c /\ Writes(d)
      BY <1>2, <1>3, <2>1, <3>3
    <3>5. disk' = disk
      <4>1. pc'[c] = "idle"
        BY <1>3, <2>3 DEF Fail, Finish, CallersTyped
      <4>2. NotFound(c)
        BY <1>3, <1>9, <3>1, <4>1
           DEF Work, AppendExtension, AppendMain, AppendItem,
           DeleteItem, Reorder, PatchItem, UpdateItem, CommitCurrent, SaveFile,
           Closure, Goto, CallersTyped
      <4> QED BY <4>2 DEF NotFound, store
    <3> QED BY <1>4, <2>1, <2>3, <3>3, <3>4, <3>5
  <2> QED BY <1>9, <2>2, <2>3, WorkShape
<1>10. CASE Commit(c)
  <2>1. /\ At(c, "commit") /\ permit = c /\ committed' = copy /\ disk' = disk
        /\ permit' = Null /\ ~overtaken
    BY <1>3, <1>10 DEF Commit, store, HoldsPermit, At
  <2>2. job[c] \in {"append_ext", "append", "commit_current"} => Writes(c)'
    <3>1. job[c] \in JobsOf(kind[c]) /\ Active(c)
      BY <1>3, <2>1 DEF Places, Modifies, Modifying, At, Active
    <3>2. kind[c] \in AllKinds \union {"restore"}
      BY <1>3, <3>1 DEF Places
    <3>3. ASSUME job[c] \in {"append_ext", "append", "commit_current"}
          PROVE  pc'[c] = "read" \/ (pc'[c] = "want" /\ job'[c] \in {"append", "save"})
      <4>1. kind[c] \in {"import", "link", "switch"}
        BY <3>1, <3>2, <3>3 DEF JobsOf, AllKinds
      <4>2. CASE kind[c] = "import"
        BY <1>3, <1>10, <3>1, <3>3, <4>2
           DEF Commit, Continue, ContinueImport, Modify, Goto,
           CallersTyped, JobsOf
      <4>3. CASE kind[c] = "link"
        BY <1>3, <1>10, <3>1, <3>3, <4>3
           DEF Commit, Continue, ContinueLink, Modify, Goto,
           CallersTyped, JobsOf
      <4>4. CASE kind[c] = "switch"
        BY <1>3, <1>10, <3>1, <3>3, <4>4
           DEF Commit, Continue, ContinueSwitch, Modify, Goto,
           CallersTyped, JobsOf
      <4> QED BY <4>1, <4>2, <4>3, <4>4
    <3> QED BY <3>3 DEF Writes
  <2>3. \A d \in Callers : ~At(d, "commit")'
    <3>1. \A d \in Callers : d # c => ~At(d, "commit")
      BY <1>3, <2>1 DEF HoldsPermit, At
    <3>2. ~At(c, "commit")'
      BY <2>1, HolderGoesOn, WorkShape DEF At, Take
    <3> QED BY <1>4, <3>1, <3>2
  <2> QED BY <1>2, <2>1, <2>2, <2>3
<1>11. CASE Overtaken(c)
  <2>1. /\ At(c, "commit") /\ permit = c /\ overtaken /\ permit' = Null
             /\ disk' = disk
        /\ ~At(c, "commit")'
    BY <1>3, <1>11
       DEF Overtaken, Fail, Finish, store, HoldsPermit, At, CallersTyped
  <2>2. \E d \in Callers : d # c /\ Writes(d)
    BY <1>2, <1>3, <2>1
  <2>3. \A d \in Callers : ~At(d, "commit")'
    BY <1>3, <1>4, <2>1 DEF HoldsPermit, At
  <2> QED BY <1>4, <2>1, <2>2, <2>3
<1>12. CASE Apply(c)
  <2>1. /\ ApplyDraft /\ Writes(c)' /\ ~At(c, "commit") /\ ~At(c, "commit")'
        /\ UNCHANGED <<disk, copy, permit>>
    BY <1>3, <1>12 DEF Apply, Writes, At, CallersTyped, store
  <2>2. permit # c
    BY <1>3, <1>12 DEF HoldsPermit, Apply, At
  <2> QED BY <1>6, <2>1, <2>2
<1>13. CASE EditDraft(c) \/ Succeed(c) \/ DiscardDraft(c) \/ Restore(c) \/ Update(c)
            \/ ReadList(c) \/ Cleanup(c)
  <2>1. UNCHANGED <<committed, disk, copy, overtaken, permit>>
    BY <1>13 DEF EditDraft, Succeed, DiscardDraft, Restore, Update, UpdateBusy,
       UpdateStart,
       UpdateValid, UpdateFails, UpdateTimeout, ReadList, Cleanup, cell, store, modify
  <2>2. (Writes(c) => Writes(c)') /\ ~At(c, "commit") /\ ~At(c, "commit")'
    BY <1>3, <1>13
       DEF EditDraft, Succeed, DiscardDraft, Restore, Update, UpdateBusy,
       UpdateStart, UpdateValid, UpdateFails, UpdateTimeout, ReadList, Cleanup, Refused,
       Goto, Finish, Modify, CallersTyped, Writes, At
  <2> QED BY <1>5, <2>1, <2>2
<1>14. CASE WriteList(c)
  <2>1. held[c] = committed /\ permit = Null
    BY <1>1, <1>14 DEF WriteList, MishapIf, Mishap, Excused
  <2>2. /\ disk' = committed' /\ permit' = Null /\ ~At(c, "commit")'
    BY <1>3, <1>14, <2>1
       DEF WriteList, cell, modify, Goto, Finish, At, CallersTyped
  <2>3. \A d \in Callers : ~At(d, "commit")'
    BY <1>3, <1>4, <2>1, <2>2 DEF HoldsPermit, At
  <2> QED BY <2>2, <2>3
<1>15. CASE WriteListFails(c)
  BY <1>1, <1>15 DEF WriteListFails, Mishap, Excused
<1> QED BY <1>7, <1>8, <1>9, <1>10, <1>11, <1>12, <1>13, <1>14, <1>15
           DEF Step, Switch

-----------------------------------------------------------------------------
(* The core follows.                                                       *)

\* A closure that is not a switch's adds what was imported, and changes the
\* current profile only if it deletes it.
LEMMA CommittedByOther ==
  ASSUME Control, Fresh, CopyKnown, NEW c \in Callers, Commit(c),
         kind[c] # "switch", ~Excused(CoreMishaps)'
  PROVE  /\ \A u : Has(committed', u) =>
              Has(committed, u) \/ (Appends(c) /\ u = Own(c))
         /\ \/ committed'.current = committed.current
            \/ /\ job[c] = "delete" /\ committed.current \in {Main(c), Null}
               /\ Main(c) \in Mains /\ Has(committed, Main(c))
                    /\ ~Has(committed', Main(c))
         /\ job[c] = "append" => committed.current # Null
<1>1. /\ Worked(c) /\ committed' = copy /\ At(c, "commit")
           /\ "adopted" \notin mishaps
  BY DEF Commit, CopyKnown, Excused, CoreMishaps
<1>2. Main(c) \in Mains /\ job[c] # "commit_current"
  BY <1>1, Worker DEF At, JobsOf, AllKinds
<1> QED BY <1>1, <1>2 DEF Worked, Has

\* While a switch is under way, somebody else's step leaves the cell as it is,
\* or commits; a draft may be gone that was what is committed.
LEMMA OtherSteps ==
  ASSUME Control, NEW c \in Callers, Call(c) \/ Step(c), ~Is(c, "switch"), switching,
         ~Excused(CoreMishaps)'
  PROVE  \/ Commit(c)
         \/ /\ committed' = committed /\ core' = core /\ Latest' = Latest
            /\ draft' \in {draft, Null}
<1>1. CallersTyped /\ Places
  BY DEF Control, TypeOK, CallersTyped
<1> USE DEF MishapIf, Mishap, Excused, CoreMishaps
<1>2. CASE CallExit(c) /\ UNCHANGED coreVars
  BY <1>2 DEF CallExit, ApplyDraft, Latest, coreVars
<1>3. CASE Call(c) /\ ~CallExit(c)
  BY <1>3 DEF Call, CallSwitch, CallUpdate, CallDelete, CallPatch, CallReorder,
     CallImport,
     CallCleanup, CallModify, coreVars, Latest
<1>4. CASE Work(c)
  <2>1. CASE NotFound(c)
    BY <2>1 DEF NotFound, Fail, coreVars, Latest
  <2>2. CASE ~NotFound(c)
    BY <1>4, <2>2
       DEF Work, AppendExtension, AppendMain, AppendItem, DeleteItem, Reorder,
       PatchItem, UpdateItem, CommitCurrent, SaveFile, Closure, WriteFails, coreVars, cell,
       Latest
  <2> QED BY <2>1, <2>2
<1>5. CASE Overtaken(c)
  BY <1>5 DEF Overtaken
<1>6. ~Switch(c)
  <2>1. Switch(c) => pc[c] \in Switching
    BY DEF Switch, EditDraft, Succeed, DiscardDraft, Restore, Apply, At,
       Switching
  <2> QED BY <1>1, <2>1 DEF Places, Is, Active, At, Switching
<1>7. CASE Update(c)
  <2>1. kind[c] # "switch"
    BY <1>1, <1>7 DEF Update, UpdateBusy, UpdateStart, UpdateValid, UpdateFails,
       UpdateTimeout, Is, Active, At
  <2> QED BY <1>7, <2>1
             DEF Update, UpdateBusy, UpdateStart, UpdateValid, UpdateFails,
             UpdateTimeout, cell, Latest
<1>8. CASE Take(c) \/ ReadList(c) \/ WriteList(c) \/ WriteListFails(c) \/ Cleanup(c)
  BY <1>8 DEF Take, ReadList, WriteList, WriteListFails, Unwritten, Cleanup, coreVars, cell, Latest
<1> QED BY <1>2, <1>3, <1>4, <1>5, <1>6, <1>7, <1>8 DEF Step, Call

\* What a switch knows stays true when somebody else goes on.
LEMMA SwitchUndisturbed ==
  ASSUME Control, Fresh, CopyKnown, NEW c \in Callers, Call(c) \/ Step(c),
         ~Excused(CoreMishaps)',
         NEW d \in Callers, d # c, Is(d, "switch"), SeenKnown(d), TargetKnown(d),
         RestoreKnown(d)
  PROVE  SeenKnown(d)' /\ TargetKnown(d)' /\ RestoreKnown(d)'
<1>1. /\ pc'[d] = pc[d] /\ kind'[d] = kind[d] /\ arg'[d] = arg[d]
           /\ job'[d] = job[d]
      /\ seen'[d] = seen[d]
  BY OthersStay DEF Control, TypeOK, CallersTyped
<1>2. switching /\ ~Is(c, "switch")
  BY DEF Control, OneSwitch
<1>3. Main(d) \in Mains /\ seen[d] \in Mains \union {Null} /\ Null \notin Mains
  <2>1. kind[d] \notin {"cleanup", "exit"} /\ Active(d)
    BY DEF Is
  <2> QED BY <2>1, HasMain, Identities DEF Control, TypeOK, Uids
<1> USE <1>1 DEF Main, At, Modifies
<1>4. CASE /\ committed' = committed /\ core' = core /\ Latest' = Latest
           /\ draft' \in {draft, Null}
  BY <1>4 DEF SeenKnown, TargetKnown, RestoreKnown, Has
<1>5. CASE Commit(c)
  <2>1. draft' = draft /\ core' = core /\ kind[c] # "switch"
    BY <1>2, <1>5 DEF Commit, coreVars, Is, Active
  <2>2. /\ \A u : Has(committed', u) =>
             Has(committed, u) \/ (Appends(c) /\ u = Own(c))
        /\ \/ committed'.current = committed.current
           \/ /\ job[c] = "delete" /\ committed.current \in {Main(c), Null}
              /\ Main(c) \in Mains /\ Has(committed, Main(c))
                   /\ ~Has(committed', Main(c))
        /\ job[c] = "append" => committed.current # Null
    BY <1>5, <2>1, CommittedByOther
  <2>3. Appends(c) => /\ Own(c) \notin Named(committed) \union Named(Latest)
                      /\ Own(c) \notin {Main(d), seen[d]}
                      /\ Own(c) \in Mains => job[c] = "append"
    <3>1. ASSUME Appends(c)
          PROVE  /\ Own(c) \in Unlisted(c) /\ Main(c) \notin {Main(d), seen[d]}
                 /\ Unlisted(c) \cap (Named(committed) \union Named(Latest)) = {}
                 /\ ExtOf[Main(c)] \in Exts
                      /\ job[c] \in {"append_ext", "append"}
      <4>1. job[c] \in {"append_ext", "append"}
        BY <3>1 DEF Appends, Imports, Is, Control, Places, JobsOf
      <4> QED BY <3>1, <4>1, FreshMeans DEF Own, Unlisted
    <3>2. Appends(c) /\ job[c] # "append" => Own(c) \notin Mains \union {Null}
      BY <3>1, Identities DEF Own, Uids
    <3> QED BY <1>3, <3>1, <3>2 DEF Own
  <2>4. ~Has(committed, Main(d)) => ~Has(committed', Main(d))
    BY <2>2, <2>3
  <2>5. ~Has(committed, seen[d]) => ~Has(committed', seen[d])
    BY <2>2, <2>3
  <2>6. \A m \in Mains : committed.current = m =>
          committed'.current = m \/ ~Has(committed', m)
    BY <1>3, <2>2
  <2>7. SeenKnown(d)'
    BY <1>3, <2>5, <2>6 DEF SeenKnown
  <2>8. TargetKnown(d)'
    <3>1. Latest.current = Main(d) =>
            Latest'.current = Main(d) \/ ~Has(committed', Main(d))
      BY <1>3, <2>1, <2>6 DEF Latest
    <3> QED BY <2>1, <2>4, <3>1 DEF TargetKnown
  <2>9. RestoreKnown(d)'
    <3>1. SUFFICES ASSUME At(d, "apply"), draft # Null
                   PROVE  \/ \E u \in ToSet(draft.items) : ~Has(committed', u)
                          \/ /\ draft.current = committed'.current
                             /\ \A m \in Mains :
                                  Has(committed', m)
                                    /\ committed'.current \in {m, Null}
                                    => Has(draft, m)
      BY <2>1, <3>1 DEF RestoreKnown
    <3>2. CASE \E u \in ToSet(draft.items) : ~Has(committed, u)
      <4>1. PICK u \in ToSet(draft.items) : ~Has(committed, u)
        BY <3>2
      <4>2. u \in Named(Latest)
        BY <3>1, <4>1 DEF Named, Latest
      <4> QED BY <2>2, <2>3, <4>1, <4>2
    <3>3. CASE /\ draft.current = committed.current
               /\ \A m \in Mains :
                    Has(committed, m) /\ committed.current \in {m, Null} =>
                      Has(draft, m)
      <4>1. CASE committed'.current = committed.current
        <5>1. ASSUME NEW m \in Mains, Has(committed', m), committed'.current \in {m,
                     Null} PROVE Has(committed, m)
          BY <2>2, <2>3, <4>1, <5>1 DEF Named
        <5> QED BY <3>3, <4>1, <5>1
      <4>2. CASE committed'.current # committed.current
        BY <2>2, <3>3, <4>2 DEF Has
      <4> QED BY <4>1, <4>2
    <3> QED BY <3>1, <3>2, <3>3 DEF RestoreKnown
  <2> QED BY <2>7, <2>8, <2>9
<1> QED BY <1>2, <1>4, <1>5, OtherSteps

\* A switch goes on with what it knows.
LEMMA SwitchGoesOn ==
  ASSUME Control, NEW c \in Callers, Step(c), ~Excused(CoreMishaps)',
         Is(c, "switch"), Is(c, "switch")', SeenKnown(c), TargetKnown(c), RestoreKnown(c)
  PROVE  SeenKnown(c)' /\ TargetKnown(c)' /\ RestoreKnown(c)'
<1>1. /\ CallersTyped /\ kind[c] = "switch" /\ Active(c) /\ Places
      /\ {committed, Latest} \subseteq Lists
  BY DEF Control, TypeOK, CallersTyped, Is, Latest
<1>2. draft # Null =>
        pc[c] \in {"update", "updating", "success", "failure", "apply"}
  BY DEF Control, DraftOfSwitch, OneSwitch
<1>3. Main(c)' = Main(c) /\ (seen'[c] = seen[c])
  BY SameCommand, <1>1 DEF Main, Is
<1>4. Main(c) \in Mains
  BY <1>1, HasMain
<1> USE <1>1, <1>3
      DEF CallersTyped, At, Modifies, Modifying, Goto, Finish, Modify
<1>5. CASE Take(c)
  BY <1>5 DEF Take, cell, coreVars, SeenKnown, TargetKnown, RestoreKnown, Has
<1>6. CASE Work(c)
  <2>1. At(c, "work") /\ pc'[c] = "commit" /\ UNCHANGED <<cell, coreVars, job>>
    BY <1>6, WorkShape DEF Fail, Is, Active
  <2> QED BY <2>1 DEF cell, coreVars, SeenKnown, TargetKnown, RestoreKnown, Has
<1>7. CASE Commit(c)
  <2>1. pc'[c] = "want" /\ job'[c] = "save"
    BY <1>7 DEF Commit, Continue, ContinueSwitch, Is, Active
  <2> QED BY <2>1 DEF SeenKnown, TargetKnown, RestoreKnown
<1>8. CASE Overtaken(c)
  BY <1>8 DEF Overtaken, Fail, Is, Active
<1>9. CASE EditDraft(c)
  <2>1. /\ pc[c] = "edit" /\ pc'[c] = "update" /\ committed' = committed
             /\ draft = Null
    BY <1>2, <1>9 DEF EditDraft
  <2>2. draft' = IF Has(committed, Main(c)) THEN [committed EXCEPT !.current = Main(c)]
                 ELSE committed
    BY <1>9, <2>1 DEF EditDraft, Draft, Latest
  <2>3. Has(committed, Main(c)) => draft'.current = Main(c) /\ draft' # Null
    BY <1>4, <2>2, Identities DEF Lists
  <2>4. Latest'.current = Main(c) \/ ~Has(committed, Main(c))
    BY <2>3 DEF Latest
  <2> QED BY <2>1, <2>4 DEF SeenKnown, TargetKnown, RestoreKnown
<1>10. CASE Succeed(c)
  BY <1>10 DEF Succeed, coreVars, SeenKnown, TargetKnown, RestoreKnown, Has
<1>11. CASE DiscardDraft(c)
  BY <1>11 DEF DiscardDraft, Is, Active, SeenKnown, TargetKnown, RestoreKnown,
     Has
<1>12. CASE Restore(c)
  <2>1. /\ pc[c] = "restore" /\ pc'[c] = "apply" /\ committed' = committed
             /\ draft = Null
    BY <1>2, <1>12 DEF Restore
  <2>2. draft' = IF Has(committed, seen[c]) THEN [committed EXCEPT !.current = seen[c]]
                 ELSE committed
    BY <1>12, <2>1 DEF Restore, Draft, Latest
  <2>3. draft'.items = committed.items
    BY <2>2 DEF Lists
  <2>4. draft'.current = committed.current
    <3>1. CASE Has(committed, seen[c])
      <4>1. seen[c] # Null
        BY <3>1, Identities, ToSetIndex DEF Has, Lists
      <4> QED BY <2>1, <2>2, <3>1, <4>1 DEF SeenKnown, Lists
    <3> QED BY <2>2, <3>1
  <2> QED BY <2>1, <2>3, <2>4 DEF SeenKnown, TargetKnown, RestoreKnown, Has
<1>13. CASE Apply(c)
  BY <1>13 DEF Apply, Is, Active
<1>14. CASE UpdateBusy(c) \/ UpdateStart(c) \/ UpdateFails(c) \/ UpdateTimeout(c)
  <2>1. /\ pc[c] \in {"update", "updating"}
             /\ pc'[c] \in {"updating", "failure"}
        /\ committed' = committed /\ draft' = draft
    BY <1>14 DEF UpdateBusy, UpdateStart, UpdateFails, UpdateTimeout, Refused,
       cell
  <2> QED BY <1>14, <2>1
             DEF SeenKnown, TargetKnown, RestoreKnown, Has, Latest, UpdateBusy,
             UpdateStart, UpdateFails, UpdateTimeout, Refused
<1>15. CASE UpdateValid(c)
  BY <1>15 DEF UpdateValid, cell, SeenKnown, TargetKnown, RestoreKnown, Has,
     Latest
<1>16. CASE ReadList(c) \/ WriteList(c) \/ WriteListFails(c) \/ Cleanup(c)
  BY <1>16 DEF ReadList, WriteList, WriteListFails, Unwritten, Cleanup, Places
<1> QED BY <1>5, <1>6, <1>7, <1>8, <1>9, <1>10, <1>11, <1>12, <1>13, <1>14,
           <1>15, <1>16
           DEF Step, Switch, Update

\* The core has what is committed, or somebody owes it.
LEMMA CoreFollows ==
  ASSUME Control, Fresh, CopyKnown, CoreOwed, NEW c \in Callers, Call(c) \/ Step(c),
         ~Excused(CoreMishaps)'
  PROVE  core' = committed'.current \/ \E d \in Callers : Owes(d)'
<1>1. /\ core = committed.current \/ \E d \in Callers : Owes(d)
      /\ Is(c, "switch") => SeenKnown(c) /\ TargetKnown(c) /\ RestoreKnown(c)
  <2>1. ~Excused(CoreMishaps)
    BY MishapsStay DEF Excused
  <2> QED BY <2>1 DEF CoreOwed
<1>2. CallersTyped /\ Places /\ (draft # Null => switching)
  BY DEF Control, TypeOK, CallersTyped, DraftOfSwitch, OneSwitch
<1>3. ASSUME NEW d \in Callers, d # c PROVE Owes(d)' <=> Owes(d)
  <2>1. /\ pc'[d] = pc[d] /\ kind'[d] = kind[d] /\ arg'[d] = arg[d]
             /\ job'[d] = job[d]
        /\ seen'[d] = seen[d]
    BY <1>2, <1>3, OthersStay
  <2> QED BY <2>1 DEF Owes, Is, Active, At, Modifies, Main
<1>4. ASSUME core' = core, committed'.current = committed.current, Owes(c) =>
               Owes(c)'
      PROVE  core' = committed'.current \/ \E d \in Callers : Owes(d)'
  BY <1>1, <1>3, <1>4
<1>5. ASSUME core' = core, committed' = committed,
             arg'[c] = arg[c], kind'[c] = kind[c], job'[c] = job[c], seen'[c] = seen[c],
             (Modifies(c) /\ Modifies(c)') \/ (pc[c] = "update" /\ pc'[c] = "updating")
      PROVE  core' = committed'.current \/ \E d \in Callers : Owes(d)'
  <2>1. Owes(c) => Owes(c)'
    BY <1>5 DEF Owes, Is, Active, At, Main, Modifies, Modifying
  <2> QED BY <1>4, <1>5, <2>1
<1> USE <1>2 DEF CallersTyped
<1>6. CASE Call(c)
  <2>1. core' = core /\ committed'.current = committed.current
    BY <1>6 DEF Call, CallSwitch, CallUpdate, CallDelete, CallPatch,
       CallReorder,
       CallImport, CallCleanup, CallExit, CallModify, ApplyDraft, MishapIf, Mishap, Excused,
       CoreMishaps, coreVars
  <2>2. ~Owes(c)
    BY <1>6, CallShape
       DEF StartsSwitch, StartsClosure, StartsOther, Started, Owes, Is,
       Active
  <2> QED BY <1>4, <2>1, <2>2
<1>7. CASE Take(c)
  BY <1>5, <1>7 DEF Take, Goto, cell, coreVars, At, Modifies, Modifying
<1>8. CASE Work(c)
  <2>1. /\ At(c, "work") /\ UNCHANGED <<committed, core>>
    BY <1>8, WorkShape DEF cell, coreVars, Fail
  <2>2. Owes(c) => Goto(c, "commit")
    <3>1. NotFound(c) => ~Owes(c)
      BY DEF NotFound, Owes, At
    <3>2. ~WriteFails(c)
      BY DEF WriteFails, Mishap, Excused, CoreMishaps
    <3> QED BY <1>8, <3>1, <3>2
               DEF Work, AppendExtension, AppendMain, AppendItem,
               DeleteItem, Reorder, PatchItem, UpdateItem, CommitCurrent, SaveFile, Closure
  <2>3. Owes(c) => Owes(c)'
    BY <2>1, <2>2 DEF Goto, Owes, Is, Active, At, Main, Modifies, Modifying
  <2> QED BY <1>4, <2>1, <2>3
<1>9. CASE Commit(c) /\ kind[c] # "switch"
  <2>1. /\ core' = core /\ At(c, "commit") /\ Continue(c)
        /\ \/ committed'.current = committed.current
           \/ job[c] = "delete" /\ committed.current \in {Main(c), Null}
    BY <1>9, CommittedByOther DEF Commit, coreVars
  <2>2. CASE Owes(c)
    <3>1. kind[c] = "delete" /\ job[c] = "save" /\ seen[c] = Main(c)
      BY <1>9, <2>2 DEF Owes, Is
    <3>2. Goto(c, "update")
      BY <2>1, <3>1 DEF Continue, ContinueDelete
    <3>3. Owes(c)'
      BY <3>1, <3>2 DEF Goto, Owes, Is, Active, At, Main
    <3> QED BY <3>3
  <2>3. CASE ~Owes(c) /\ committed'.current # committed.current
    <3>1. kind[c] = "delete"
      <4>1. /\ job[c] \in JobsOf(kind[c]) /\ kind[c] \notin {"cleanup", "exit"}
            /\ kind[c] \in AllKinds \union {"restore"}
        BY <2>1 DEF Places, Modifies, Modifying, At, Active
      <4> QED BY <2>1, <2>3, <4>1 DEF JobsOf, AllKinds
    <3>2. /\ pc'[c] = "want" /\ job'[c] = "save" /\ seen'[c] = Main(c)
               /\ kind'[c] = kind[c]
          /\ Main(c)' = Main(c)
      BY <2>1, <2>3, <3>1 DEF Continue, ContinueDelete, Main
    <3>3. Owes(c)'
      BY <3>1, <3>2 DEF Owes, Is, Active, At, Modifying
    <3> QED BY <3>3
  <2> QED BY <1>4, <2>1, <2>2, <2>3
<1>10. CASE Commit(c) /\ kind[c] = "switch"
  <2>1. /\ core' = core /\ At(c, "commit") /\ committed' = copy /\ Worked(c)
             /\ Is(c, "switch")
        /\ "gone" \notin mishaps
    BY <1>10 DEF Commit, coreVars, CopyKnown, Is, Active, At, Excused,
       CoreMishaps
  <2>2. CASE job[c] = "commit_current"
    <3>1. TargetKnown(c)
      BY <1>1, <2>1
    <3>2. core = Main(c)
      BY <2>1, <2>2, <3>1 DEF TargetKnown, Worked, Has, Modifies, Modifying, At
    <3> QED BY <2>1, <2>2, <3>2 DEF Worked
  <2>3. CASE job[c] = "save"
    BY <1>4, <2>1, <2>3 DEF Worked, Owes, Is, At
  <2> QED BY <1>10, <2>1, <2>2, <2>3 DEF Places, Modifies, Modifying, At, JobsOf
<1>11. CASE Apply(c)
  <2>1. At(c, "apply") /\ core' = core /\ committed' = Latest
          /\ Latest.items = committed.items
    BY <1>11 DEF Apply, ApplyDraft, MishapIf, Mishap, Excused, CoreMishaps,
       coreVars
  <2>2. Is(c, "switch") /\ ~Owes(c)
    BY <2>1 DEF Places, Is, Active, At, Switching, Owes, Modifying, Modifies
  <2>3. Latest.current = committed.current
    BY <1>1, <2>1, <2>2 DEF RestoreKnown, Latest, Has
  <2> QED BY <1>4, <2>1, <2>2, <2>3
<1>12. CASE EditDraft(c) \/ DiscardDraft(c) \/ Restore(c)
  <2>1. core' = core /\ committed' = committed
          /\ pc[c] \in {"edit", "failure", "restore"}
    BY <1>12 DEF EditDraft, DiscardDraft, Restore, coreVars, At
  <2>2. ~Owes(c)
    BY <2>1 DEF Places, Is, Active, At, Switching, Owes, Modifying, Modifies
  <2> QED BY <1>4, <2>1, <2>2
<1>13. CASE Succeed(c)
  <2>1. core' = core /\ committed' = committed /\ kind[c] = "switch"
    BY <1>13 DEF Succeed, coreVars, At, Places, Switching
  <2>2. Owes(c)'
    BY <1>13, <2>1
       DEF Succeed, Modify, Owes, Is, Active, At, Modifies, Modifying
  <2> QED BY <2>2
<1>14. CASE UpdateStart(c)
  BY <1>5, <1>14 DEF UpdateStart, Goto, cell, At, Owes, Modifies, Modifying
<1>15. CASE UpdateValid(c)
  <2>1. CASE kind[c] = "switch"
    <3>1. Owes(c)'
      BY <1>15, <2>1 DEF UpdateValid, Goto, Owes, Is, Active, At
    <3> QED BY <3>1
  <2>2. CASE kind[c] # "switch"
    <3>1. draft = Null
      BY <1>15, <2>2 DEF UpdateValid, MishapIf, Mishap, Excused, CoreMishaps
    <3> QED BY <1>15, <3>1 DEF UpdateValid, Latest, cell
  <2> QED BY <2>1, <2>2
<1>16. CASE UpdateBusy(c) \/ UpdateFails(c) \/ UpdateTimeout(c)
  <2>1. /\ core' = core /\ committed' = committed /\ kind[c] = "switch"
        /\ pc[c] \in {"update", "updating"}
    BY <1>16 DEF UpdateBusy, UpdateFails, UpdateTimeout, MishapIf, Mishap,
       Excused,
       CoreMishaps, coreVars, cell, At
  <2>2. ~Owes(c)
    BY <2>1 DEF Owes, Is, At, Modifies, Modifying
  <2> QED BY <1>4, <2>1, <2>2
<1>17. CASE ReadList(c) \/ WriteList(c) \/ WriteListFails(c) \/ Cleanup(c)
  <2>1. core' = core /\ committed' = committed
          /\ pc[c] \in {"read", "write", "clean"}
    BY <1>17 DEF ReadList, WriteList, WriteListFails, Unwritten, Cleanup, coreVars, cell, At
  <2>2. ~Owes(c)
    BY <2>1 DEF Owes, Is, At, Modifies, Modifying
  <2> QED BY <1>4, <2>1, <2>2
<1>18. ~Overtaken(c)
  BY DEF Overtaken, Mishap, Excused, CoreMishaps
<1> QED BY <1>6, <1>7, <1>8, <1>9, <1>10, <1>11, <1>12, <1>13, <1>14, <1>15,
           <1>16, <1>17,
           <1>18 DEF Step, Switch, Update

\* Whoever changes the current profile gives it to the core, or is about to.
LEMMA CoreOwedHolds ==
  ASSUME Control, Control', Fresh, CopyKnown, CoreOwed, NEW c \in Callers, Call(c) \/ Step(c)
  PROVE  CoreOwed'
<1>1. SUFFICES ASSUME ~Excused(CoreMishaps)'
               PROVE  /\ \A d \in Callers : Is(d, "switch")' =>
                           SeenKnown(d)' /\ TargetKnown(d)' /\ RestoreKnown(d)'
                      /\ core' = committed'.current \/ \E d \in Callers :
                           Owes(d)'
  BY <1>1 DEF CoreOwed
<1>2. \A d \in Callers : Is(d, "switch") =>
        SeenKnown(d) /\ TargetKnown(d) /\ RestoreKnown(d)
  <2>1. ~Excused(CoreMishaps)
    BY <1>1, MishapsStay DEF Excused
  <2> QED BY <2>1 DEF CoreOwed
<1>3. CallersTyped
  BY DEF Control, TypeOK, CallersTyped
<1>4. ASSUME NEW d \in Callers, d # c, Is(d, "switch")'
      PROVE  SeenKnown(d)' /\ TargetKnown(d)' /\ RestoreKnown(d)'
  <2>1. Is(d, "switch")
    BY <1>3, <1>4, OthersStay DEF Is, Active, At
  <2> QED BY <1>1, <1>2, <1>4, <2>1, SwitchUndisturbed
<1>5. ASSUME Is(c, "switch")'
      PROVE  SeenKnown(c)' /\ TargetKnown(c)' /\ RestoreKnown(c)'
  <2>1. CASE Step(c)
    <3>1. Is(c, "switch")
      BY <1>5, <2>1, SameCommand DEF Is
    <3> QED BY <1>1, <1>2, <1>5, <2>1, <3>1, SwitchGoesOn
  <2>2. CASE Call(c)
    <3>1. PICK m \in Mains : CallSwitch(c, m)
      BY <1>3, <1>5, <2>2, Zenon
         DEF Call, CallUpdate, CallDelete, CallPatch, CallReorder,
         CallImport, CallCleanup, CallExit, CallModify, Begin, Is, CallersTyped
    <3> QED BY <1>3, <3>1
               DEF CallSwitch, Begin, SeenKnown, TargetKnown, RestoreKnown, At,
               Modifies, Modifying, CallersTyped
  <2> QED BY <2>1, <2>2
<1> QED BY <1>1, <1>4, <1>5, CoreFollows

-----------------------------------------------------------------------------
(* The invariant and the theorems.                                         *)

LEMMA InitHolds == Init => ProfilesInv
<1> SUFFICES ASSUME Init PROVE ProfilesInv
  OBVIOUS
<1>1. /\ committed \in Lists /\ draft = Null /\ disk = committed
           /\ Latest = committed
      /\ IsInjective(committed.items) /\ Sound(committed)
  <2>1. committed = [current |-> IF First = <<>> THEN Null ELSE First[1], items |-> ListOf(First)]
    BY DEF Init
  <2>2. /\ committed.items = ListOf(First)
        /\ committed.current = IF First = <<>> THEN Null ELSE First[1]
    BY <2>1
  <2>3. committed \in Lists
    BY <2>1, <2>2, FirstList DEF Lists
  <2> QED BY <2>2, <2>3, FirstList DEF Init, Latest, Sound, Has
<1>2. Blank \in Lists /\ IsInjective(Blank.items) /\ Sound(Blank)
        /\ Blank.current = Null
  BY Identities DEF Blank, Sound, IsInjective
<1>3. \A c \in Callers : pc[c] = "idle" /\ held[c] = Blank
  BY DEF Init
<1>4. TypeOK
  <2>1. ToSet(committed.items) \subseteq Uids
    BY <1>1, ToSetIndex DEF Lists
  <2>2. committed.current \in Mains \union {Null}
    BY <1>1 DEF Lists
  <2>3. /\ pc \in [Callers -> Labels]
             /\ kind \in [Callers -> AllKinds \union {"restore", Null}]
        /\ arg \in [Callers -> Seq(Mains)]
             /\ job \in [Callers -> Jobs \union {Null}]
        /\ seen \in [Callers -> Mains \union {Null}]
             /\ held \in [Callers -> Lists]
    BY <1>2 DEF Init, Labels
  <2>4. calls \in 0..MaxCalls
    BY ProfilesAssumption DEF Init
  <2>5. /\ {committed, disk, copy} \subseteq Lists /\ files \subseteq Uids
        /\ core \in Mains \union {Null}
        /\ switching \in BOOLEAN /\ overtaken \in BOOLEAN
        /\ {updating, permit} \subseteq Callers \union {Null}
        /\ draft \in Lists \union {Null}
    BY <1>1, <1>2, <2>1, <2>2 DEF Init
  <2> QED BY <2>3, <2>4, <2>5 DEF TypeOK
<1>5. Places /\ Arguments /\ HoldsPermit /\ OneSwitch /\ DraftOfSwitch
        /\ Flags
  <2>1. permit = Null /\ Null \notin Callers
    BY Identities DEF Init
  <2> QED BY <1>1, <1>3, <2>1
             DEF Places, Arguments, HoldsPermit, OneSwitch, DraftOfSwitch,
             Flags, Init, Active, Is, At, Modifies, Modifying, Switching
<1>6. Fresh /\ CopyKnown
  BY <1>3 DEF Fresh, CopyKnown, WorksOnCommitted, Appends, Imports, Is, Active,
     At
<1>7. AllSound
  BY <1>1, <1>2, <1>3 DEF AllSound, Kept, Init
<1>8. FilesThere
  BY <1>3 DEF FilesThere, At, Init
<1>9. DiskOwed
  BY <1>1, <1>3 DEF DiskOwed, At, Init
<1>10. CoreOwed
  BY <1>3 DEF CoreOwed, Is, Active, At, Init
<1> QED BY <1>4, <1>5, <1>6, <1>7, <1>8, <1>9, <1>10 DEF ProfilesInv, Control

LEMMA StepHolds ==
  ASSUME ProfilesInv, NEW c \in Callers, Call(c) \/ Step(c)
  PROVE  ProfilesInv'
<1>1. Control /\ Fresh /\ CopyKnown /\ AllSound /\ FilesThere /\ DiskOwed
        /\ CoreOwed
  BY DEF ProfilesInv
<1>2. Control'
  <2>1. TypeOK'
    BY <1>1, CallTyped, StepTyped
  <2> QED BY <1>1, <2>1, PlacesHold, ArgumentsHold, HoldsPermitHolds,
             OneSwitchHolds,
             DraftOfSwitchHolds, FlagsHold DEF Control
<1> QED BY <1>1, <1>2, FreshHolds, CopyKnownHolds, AllSoundHolds,
           FilesThereHolds,
           DiskOwedHolds, CoreOwedHolds DEF ProfilesInv

LEMMA StutterHolds == ProfilesInv /\ UNCHANGED vars => ProfilesInv'
<1> SUFFICES ASSUME ProfilesInv, UNCHANGED vars PROVE ProfilesInv'
  OBVIOUS
<1> USE DEF vars, cell, store, coreVars, modify, callers
<1>1. Control'
  BY DEF ProfilesInv, Control, TypeOK, Places, Arguments, HoldsPermit,
     OneSwitch,
     DraftOfSwitch, Flags, Is, Active, At, Modifies
<1>2. Fresh' /\ CopyKnown'
  BY DEF ProfilesInv, Fresh, CopyKnown, WorksOnCommitted, Worked, Appends,
     Imports, Is,
     Active, At, Modifies, Own, Unlisted, Main, Latest
<1>3. AllSound' /\ FilesThere' /\ DiskOwed'
  BY DEF ProfilesInv, AllSound, Kept, Excused, Latest, FilesThere, Doomed, At,
     Main,
     DiskOwed, Writes
<1>4. CoreOwed'
  BY DEF ProfilesInv, CoreOwed, Excused, SeenKnown, TargetKnown, RestoreKnown,
     Owes, Is,
     Active, At, Modifies, Main, Latest, Has
<1> QED BY <1>1, <1>2, <1>3, <1>4 DEF ProfilesInv

\* The inductive invariant of cmd/profile.rs, config/profiles.rs and the Draft
\* cell, for any number of profiles, callers and calls.
THEOREM ProfilesInvariant == Spec => []ProfilesInv
<1>1. ProfilesInv /\ [Next]_vars => ProfilesInv'
  BY StepHolds, StutterHolds DEF Next
<1> QED BY <1>1, InitHolds, PTL DEF Spec

\* Type correctness: every list is one of known profiles and their extensions,
\* every caller at a place of its command.
THEOREM Typing == Spec => []TypeOK
<1>1. ProfilesInv => TypeOK
  BY DEF ProfilesInv, Control
<1> QED BY <1>1, ProfilesInvariant, PTL

\* The current profile is one of the items and no item is there twice, in memory
\* (IProfiles), in the draft of a switch and in profiles.yaml, however switch,
\* import, deletion, reorder and the exit overlap; up to a reorder of a profile
\* that is gone.
THEOREM CurrentIsInList == Spec => []CurrentExists
<1>1. ProfilesInv => CurrentExists
  BY DEF ProfilesInv, AllSound, Kept, Latest, CurrentExists
<1> QED BY <1>1, ProfilesInvariant, PTL

\* Every item has its file unless its deletion is about to be committed
\* (append_item, delete_item, cleanup_orphaned_files), up to a write that failed,
\* a closure that was overtaken, a list that was overwritten, or a sweep of what
\* was just imported.
THEOREM ItemsHaveFiles == Spec => []FilesExist
<1>1. ProfilesInv => FilesExist
  BY DEF ProfilesInv, FilesThere, FilesExist
<1> QED BY <1>1, ProfilesInvariant, PTL

\* When no command is under way, profiles.yaml is the list in memory: whoever
\* commits a change has saved it, or saves it before the command ends; up to a
\* failed write, a reorder gone wrong, or a write without the permit of a list
\* that was no longer the committed one.
THEOREM DiskIsCurrent == Spec => []DiskFollows
<1>1. ProfilesInv => DiskFollows
  <2> SUFFICES ASSUME ProfilesInv, Quiet, ~Excused({"fault", "misordered",
                      "stale_write"}) PROVE disk = committed
    BY DEF DiskFollows
  <2>1. \A c \in Callers : ~At(c, "commit") /\ ~Writes(c)
    BY DEF Quiet, At, Writes
  <2> QED BY <2>1 DEF ProfilesInv, DiskOwed
<1> QED BY <1>1, ProfilesInvariant, PTL

\* The permit of with_data_modify, the update flag, the switching flag and the
\* draft of a switch each belong to a command that is at work on them, whichever
\* way commands fail, are overtaken or run into their timeout.
THEOREM NothingKept == Spec => []GivenBack
<1>1. ProfilesInv => GivenBack
  BY DEF ProfilesInv, Control, HoldsPermit, Flags, DraftOfSwitch, Is, GivenBack,
     TypeOK
<1> QED BY <1>1, ProfilesInvariant, PTL

\* When no command is under way, the core has the profile that is current: a
\* switch and a deletion of the current profile end with both alike, and a switch
\* that fails leaves both as they were; up to the mishaps CurrentRuns names.
THEOREM CoreIsCurrent == Spec => []CurrentRuns
<1>1. ProfilesInv => CurrentRuns
  <2> SUFFICES ASSUME ProfilesInv, Quiet, ~Excused(CoreMishaps)
                        PROVE core = committed.current
    BY DEF CurrentRuns, CoreMishaps
  <2>1. \A c \in Callers : ~Owes(c)
    BY DEF Quiet, At, Owes, Is, Active
  <2> QED BY <2>1 DEF ProfilesInv, CoreOwed
<1> QED BY <1>1, ProfilesInvariant, PTL
=============================================================================
