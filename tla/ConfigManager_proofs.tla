------------------------ MODULE ConfigManager_proofs ------------------------
(***************************************************************************)
(* The configuration manager: memory and database hold the same profiles,  *)
(* the top level mirrors the active profile, an edit does what it says.    *)
(*                                                                         *)
(* normalizeTunnelProfiles is a loop over the profiles; that its result    *)
(* has distinct keys, and that it leaves alone a list whose keys are       *)
(* distinct already, is an induction over the length of the list, carried  *)
(* out through the smallest index at which it could fail (LeastNumber).    *)
(* Everything that is saved or loaded is then Normal, and the second       *)
(* normalisation, inside the transaction, changes nothing.                 *)
(*                                                                         *)
(* A copy that no save has overtaken is the edit of what is in memory, or  *)
(* the merge of that edit with it (ConfigCopies).  What such a copy means  *)
(* for the stored configuration is shown per kind of edit (EditMeans).     *)
(***************************************************************************)
EXTENDS ConfigManager, TLAPS, FiniteSetTheorems, WellFoundedInduction

-----------------------------------------------------------------------------
(***************************************************************************)
(* Keys and the loop that makes them distinct.                             *)
(***************************************************************************)
LEMMA LeastNumber ==
  ASSUME NEW S, S \subseteq Nat, S # {}
  PROVE  \E i \in S : \A j \in S : i <= j
<1> DEFINE less == OpToRel(<, Nat)
<1>1. IsWellFoundedOn(less, Nat)
  BY NatLessThanWellFounded
<1>2. \A x, y \in Nat : y < x => <<y, x>> \in less
  BY DEF OpToRel
<1> HIDE DEF less
<1>3. PICK i \in S : \A j \in S : ~(<<j, i>> \in less)
  BY <1>1, WFMin
<1>4. ASSUME NEW j \in S PROVE i <= j
  <2>1. i \in Nat /\ j \in Nat
    OBVIOUS
  <2>2. ~(j < i)
    BY <1>2, <1>3, <2>1
  <2> QED BY <2>1, <2>2
<1> QED BY <1>4

\* A property of 0..n that holds at 0 and passes from each number to the next.
LEMMA Climb ==
  ASSUME NEW n \in Nat, NEW Good, 0 \in Good, \A i \in 1..n : i - 1 \in Good => i \in Good
  PROVE  \A i \in 0..n : i \in Good
<1> DEFINE Bad == {i \in 0..n : i \notin Good}
<1> SUFFICES ASSUME Bad # {} PROVE FALSE
  OBVIOUS
<1>1. Bad \subseteq Nat
  OBVIOUS
<1>2. PICK k \in Bad : \A j \in Bad : k <= j
  BY <1>1, LeastNumber
<1>3. k \in 1..n /\ k - 1 \in 0..n /\ ~(k <= k - 1)
  <2>1. k \in 0..n /\ k # 0
    OBVIOUS
  <2> QED BY <2>1
<1>4. k - 1 \in Good
  BY <1>2, <1>3
<1> QED BY <1>3, <1>4

LEMMA KeysAreFinite ==
  ASSUME NEW q \in Seq(Profiles)
  PROVE  IsFiniteSet(KeysOf(q)) /\ KeysOf(q) \subseteq KeySpace
<1>1. DOMAIN q = 1..Len(q) /\ Len(q) \in Nat /\ \A i \in 1..Len(q) : q[i] \in Profiles
  OBVIOUS
<1>2. IsFiniteSet(1..Len(q))
  BY <1>1, FS_Interval
<1> DEFINE key == [i \in 1..Len(q) |-> q[i].key]
<1>3. key \in Surjection(1..Len(q), KeysOf(q))
  BY <1>1 DEF KeysOf, Surjection
<1>4. IsFiniteSet(KeysOf(q))
  BY <1>2, <1>3, FS_Surjection
<1>5. KeysOf(q) \subseteq KeySpace
  BY <1>1 DEF KeysOf, Profiles
<1> QED BY <1>4, <1>5

LEMMA AppendedKeys ==
  ASSUME NEW base \in KeySpace, NEW n \in Nat
  PROVE  /\ Append(base, n) \in KeySpace /\ Append(base, n) # NoKey
         /\ \A m \in Nat : Append(base, n) = Append(base, m) => n = m
<1>1. n \in {"default", "tunnel"} \cup Nat
  OBVIOUS
<1>2. /\ Append(base, n) \in KeySpace /\ Len(Append(base, n)) = Len(base) + 1 /\ Len(base) \in Nat
      /\ Append(base, n)[Len(base) + 1] = n
  BY <1>1 DEF KeySpace
<1>3. \A m \in Nat : Append(base, m)[Len(base) + 1] = m
  BY DEF KeySpace
<1>4. Append(base, n) # NoKey
  BY <1>2 DEF NoKey
<1> QED BY <1>2, <1>3, <1>4

LEMMA TwoMeet ==
  ASSUME NEW T, IsFiniteSet(T), NEW C, C = Cardinality(T), NEW f \in [2..(C + 2) -> T]
  PROVE  \E x, y \in 2..(C + 2) : x # y /\ f[x] = f[y]
<1>1. C \in Nat
  BY FS_CardinalityType
<1>2. PICK b \in Int : b = C + 2
  BY <1>1
<1>3. IsFiniteSet(2..b) /\ Cardinality(2..b) = IF 2 > b THEN 0 ELSE b - 2 + 1
  BY FS_Interval
<1>4. Cardinality(T) < Cardinality(2..b)
  BY <1>1, <1>2, <1>3
<1>5. f \in [2..b -> T]
  BY <1>2
<1>6. \E x, y \in 2..b : x # y /\ f[x] = f[y]
  BY <1>3, <1>4, <1>5, FS_PigeonHole
<1> QED BY <1>2, <1>6

\* One of the numbers up to |used| + 2 is free, by the pigeonhole principle.
LEMMA FreshKeyIsFresh ==
  ASSUME NEW base \in KeySpace, base # NoKey, NEW used, IsFiniteSet(used)
  PROVE  /\ FreshKey(base, used) \in KeySpace /\ FreshKey(base, used) # NoKey
         /\ FreshKey(base, used) \notin used
         /\ base \notin used => FreshKey(base, used) = base
<1>1. CASE base \notin used
  BY <1>1 DEF FreshKey
<1>2. CASE base \in used
  <2> DEFINE C == Cardinality(used)
             Free == {n \in 2..(C + 2) : Append(base, n) \notin used}
  <2>1. C \in Nat
    BY FS_CardinalityType
  <2>2. Free # {}
    <3> SUFFICES ASSUME Free = {} PROVE FALSE
      OBVIOUS
    <3> DEFINE f == [n \in 2..(C + 2) |-> Append(base, n)]
    <3>1. f \in [2..(C + 2) -> used]
      OBVIOUS
    <3>4. PICK x \in 2..(C + 2), y \in 2..(C + 2) : x # y /\ f[x] = f[y]
      <4> HIDE DEF f
      <4> QED BY <3>1, TwoMeet
    <3>5. x \in Nat /\ y \in Nat /\ Append(base, x) = Append(base, y)
      BY <2>1, <3>4
    <3> QED BY <3>4, <3>5, AppendedKeys
  <2>3. Free \subseteq Nat
    BY <2>1
  <2>4. PICK k \in Free : \A j \in Free : k <= j
    <3> HIDE DEF Free
    <3> QED BY <2>2, <2>3, LeastNumber
  <2>5. /\ k \in 2..(C + 2) /\ Append(base, k) \notin used
        /\ \A m \in 2..(k - 1) : Append(base, m) \in used
    <3>1. k \in Nat /\ k \in 2..(C + 2)
      BY <2>3
    <3>2. ASSUME NEW m \in 2..(k - 1) PROVE m \notin Free /\ m \in 2..(C + 2)
      <4>1. m \in 2..(C + 2) /\ ~(k <= m)
        BY <2>1, <3>1
      <4> QED BY <2>4, <4>1
    <3> QED BY <3>1, <3>2
  <2> DEFINE Chosen == CHOOSE n \in 2..(C + 2) : /\ Append(base, n) \notin used
                                                /\ \A m \in 2..(n - 1) : Append(base, m) \in used
  <2>6. Chosen \in 2..(C + 2) /\ Append(base, Chosen) \notin used
    BY <2>5
  <2>7. FreshKey(base, used) = Append(base, Chosen)
    BY <1>2 DEF FreshKey
  <2>8. Chosen \in Nat
    <3> HIDE DEF Chosen
    <3> QED BY <2>1, <2>6
  <2> HIDE DEF Chosen
  <2> QED BY <1>2, <2>6, <2>7, <2>8, AppendedKeys
<1> QED BY <1>1, <1>2


-----------------------------------------------------------------------------
\* Keys are there and different.
Distinct(q) == /\ \A i \in 1..Len(q) : q[i].key # NoKey
               /\ \A i, j \in 1..Len(q) : q[i].key = q[j].key => i = j

\* The loop of normalizeTunnelProfiles, one profile at a time.
Renamed(t, used) == [t EXCEPT !.key = FreshKey(@, used)]
UpToStep(q, i, before) == Append(before, Renamed(NormalProfile(q[i], i), KeysOf(before)))
IsUpTo(f, q, n) == f = [i \in 0..n |-> IF i = 0 THEN <<>> ELSE UpToStep(q, i, f[i - 1])]

LEMMA DistinctKeysIs ==
  ASSUME NEW q
  PROVE  DistinctKeys(q) = (CHOOSE f : IsUpTo(f, q, Len(q)))[Len(q)]
BY DEF DistinctKeys, IsUpTo, UpToStep, Renamed

LEMMA UpToValues ==
  ASSUME NEW f, NEW q, NEW n \in Nat, IsUpTo(f, q, n)
  PROVE  f[0] = <<>> /\ \A i \in 1..n : f[i] = UpToStep(q, i, f[i - 1])
<1>1. f = [i \in 0..n |-> IF i = 0 THEN <<>> ELSE UpToStep(q, i, f[i - 1])]
  BY DEF IsUpTo
<1>2. 0 \in 0..n /\ \A i \in 1..n : i \in 0..n /\ i # 0
  OBVIOUS
<1> QED BY <1>1, <1>2

LEMMA UpToExtends ==
  ASSUME NEW q, NEW n \in Nat \ {0}, NEW g, IsUpTo(g, q, n - 1)
  PROVE  \E f : IsUpTo(f, q, n)
<1> DEFINE f == [i \in 0..n |-> IF i < n THEN g[i] ELSE UpToStep(q, n, g[n - 1])]
<1>1. g[0] = <<>> /\ \A i \in 1..(n - 1) : g[i] = UpToStep(q, i, g[i - 1])
  BY UpToValues
<1>2. \A i \in 0..n : f[i] = IF i < n THEN g[i] ELSE UpToStep(q, n, g[n - 1])
  OBVIOUS
<1>3. ASSUME NEW i \in 0..n PROVE f[i] = IF i = 0 THEN <<>> ELSE UpToStep(q, i, f[i - 1])
  <2> HIDE DEF f
  <2>1. CASE i = 0
    <3>1. 0 \in 0..n /\ 0 < n
      OBVIOUS
    <3> QED BY <1>1, <1>2, <2>1, <3>1
  <2>2. CASE i # 0 /\ i < n
    <3>1. i \in 1..(n - 1) /\ i - 1 \in 0..n /\ i - 1 < n
      BY <2>2
    <3>2. f[i] = g[i] /\ f[i - 1] = g[i - 1]
      BY <1>2, <2>2, <3>1
    <3> QED BY <1>1, <2>2, <3>1, <3>2
  <2>3. CASE i = n
    <3>1. i # 0 /\ ~(i < n) /\ n - 1 \in 0..n /\ n - 1 < n
      BY <2>3
    <3>2. f[i] = UpToStep(q, n, g[n - 1]) /\ f[n - 1] = g[n - 1]
      BY <1>2, <3>1
    <3> QED BY <2>3, <3>1, <3>2
  <2>4. i < n \/ i = n
    OBVIOUS
  <2> QED BY <2>1, <2>2, <2>3, <2>4
<1>4. f = [i \in 0..n |-> IF i = 0 THEN <<>> ELSE UpToStep(q, i, f[i - 1])]
  BY <1>3
<1> HIDE DEF f
<1> QED BY <1>4 DEF IsUpTo

LEMMA UpToExists ==
  ASSUME NEW q, NEW n \in Nat
  PROVE  \E f : IsUpTo(f, q, n)
<1> DEFINE Good == {i \in 0..n : \E f : IsUpTo(f, q, i)}
<1>1. 0 \in Good
  <2>1. IsUpTo([i \in 0..0 |-> <<>>], q, 0)
    BY DEF IsUpTo
  <2> QED BY <2>1
<1>2. ASSUME NEW i \in 1..n, i - 1 \in Good PROVE i \in Good
  <2>1. PICK g : IsUpTo(g, q, i - 1)
    BY <1>2
  <2>2. i \in Nat \ {0} /\ i \in 0..n
    OBVIOUS
  <2>3. \E f : IsUpTo(f, q, i)
    BY <2>1, <2>2, UpToExtends
  <2> QED BY <2>2, <2>3
<1>3. \A i \in 0..n : i \in Good
  <2> HIDE DEF Good
  <2> QED BY <1>1, <1>2, Climb
<1>4. n \in 0..n
  OBVIOUS
<1> QED BY <1>3, <1>4

LEMMA DistinctKeysLast ==
  ASSUME NEW q, NEW n \in Nat, n = Len(q)
  PROVE  \E f : IsUpTo(f, q, n) /\ DistinctKeys(q) = f[n]
<1> DEFINE f == CHOOSE f : IsUpTo(f, q, n)
<1>1. IsUpTo(f, q, n)
  BY UpToExists
<1>2. DistinctKeys(q) = f[n]
  BY DistinctKeysIs
<1> HIDE DEF f
<1> QED BY <1>1, <1>2

\* One profile more.
LEMMA AppendedIsDistinct ==
  ASSUME NEW q \in Seq(Profiles), Distinct(q), NEW t \in Profiles, t.key # NoKey, t.key \notin KeysOf(q)
  PROVE  /\ Append(q, t) \in Seq(Profiles) /\ Len(Append(q, t)) = Len(q) + 1 /\ Len(q) \in Nat
         /\ Distinct(Append(q, t))
         /\ Append(q, t)[Len(q) + 1] = t /\ \A i \in 1..Len(q) : Append(q, t)[i] = q[i]
<1>1. /\ Append(q, t) \in Seq(Profiles) /\ Len(Append(q, t)) = Len(q) + 1 /\ Len(q) \in Nat
      /\ Append(q, t)[Len(q) + 1] = t /\ \A i \in 1..Len(q) : Append(q, t)[i] = q[i]
  OBVIOUS
<1>2. \A i \in 1..Len(Append(q, t)) : i \in 1..Len(q) \/ i = Len(q) + 1
  BY <1>1
<1>3. \A i \in 1..Len(q) : q[i].key # t.key
  BY DEF KeysOf
<1> QED BY <1>1, <1>2, <1>3 DEF Distinct

LEMMA NormalProfileIs ==
  ASSUME NEW t \in Profiles, NEW i \in Nat, i # 0
  PROVE  /\ NormalProfile(t, i) \in Profiles /\ NormalProfile(t, i).key # NoKey
         /\ t.key # NoKey => NormalProfile(t, i) = t
         /\ \A k \in KeySpace : [t EXCEPT !.key = k] \in Profiles /\ [t EXCEPT !.key = k].key = k
         /\ [t EXCEPT !.key = t.key] = t
<1>1. \A k \in KeySpace : [t EXCEPT !.key = k] \in Profiles /\ [t EXCEPT !.key = k].key = k
  BY DEF Profiles
<1>2. [t EXCEPT !.key = t.key] = t /\ t.key \in KeySpace
  BY DEF Profiles
<1>3. DefaultTunnelProfileKey \in KeySpace /\ DefaultTunnelProfileKey # NoKey
  BY DEF DefaultTunnelProfileKey, NoKey, KeySpace
<1>4. NumberedKey(i) \in KeySpace /\ NumberedKey(i) # NoKey
  <2>1. "tunnel" \in {"default", "tunnel"} \cup Nat /\ i \in {"default", "tunnel"} \cup Nat
    OBVIOUS
  <2> QED BY <2>1 DEF NumberedKey, NoKey, KeySpace
<1>5. CASE t.key # NoKey
  <2>1. NormalProfile(t, i) = t
    BY <1>2, <1>5 DEF NormalProfile
  <2> QED BY <1>1, <1>2, <1>5, <2>1
<1>6. CASE t.key = NoKey
  <2>1. PICK k \in KeySpace : k # NoKey /\ NormalProfile(t, i) = [t EXCEPT !.key = k]
    BY <1>3, <1>4, <1>6 DEF NormalProfile
  <2> QED BY <1>1, <1>2, <1>6, <2>1
<1> QED BY <1>5, <1>6


LEMMA OneMoreIsDistinct ==
  ASSUME NEW q \in Seq(Profiles), NEW i \in 1..Len(q), NEW before \in Seq(Profiles), Distinct(before),
         Len(before) = i - 1
  PROVE  /\ UpToStep(q, i, before) \in Seq(Profiles) /\ Len(UpToStep(q, i, before)) = i
         /\ Distinct(UpToStep(q, i, before))
         /\ (q[i].key # NoKey /\ q[i].key \notin KeysOf(before)) => UpToStep(q, i, before) = Append(before, q[i])
<1>1. i \in Nat /\ i # 0 /\ q[i] \in Profiles
  OBVIOUS
<1> DEFINE t == NormalProfile(q[i], i)
<1>2. t \in Profiles /\ t.key # NoKey /\ (q[i].key # NoKey => t = q[i])
  BY <1>1, NormalProfileIs
<1> HIDE DEF t
<1>3. t.key \in KeySpace
  BY <1>2 DEF Profiles
<1> DEFINE k == FreshKey(t.key, KeysOf(before))
<1>4. k \in KeySpace /\ k # NoKey /\ k \notin KeysOf(before) /\ (t.key \notin KeysOf(before) => k = t.key)
  BY <1>2, <1>3, KeysAreFinite, FreshKeyIsFresh
<1>5. Renamed(t, KeysOf(before)) = [t EXCEPT !.key = k]
  BY DEF Renamed
<1> HIDE DEF k
<1>6. PICK u \in Profiles : u = Renamed(t, KeysOf(before)) /\ u.key = k /\ (k = t.key => u = t)
  BY <1>1, <1>2, <1>4, <1>5, NormalProfileIs
<1>7. UpToStep(q, i, before) = Append(before, u)
  BY <1>6 DEF UpToStep, t
<1>8. /\ Append(before, u) \in Seq(Profiles) /\ Len(Append(before, u)) = Len(before) + 1
      /\ Distinct(Append(before, u))
  BY <1>4, <1>6, AppendedIsDistinct
<1>9. Len(before) + 1 = i
  OBVIOUS
<1> QED BY <1>2, <1>4, <1>6, <1>7, <1>8, <1>9

\* The keys of the result are different, and a list whose keys are different is
\* its own result.
LEMMA DistinctKeysWork ==
  ASSUME NEW q \in Seq(Profiles)
  PROVE  /\ DistinctKeys(q) \in Seq(Profiles) /\ Len(DistinctKeys(q)) = Len(q)
         /\ Distinct(DistinctKeys(q))
         /\ Distinct(q) => DistinctKeys(q) = q
<1> DEFINE n == Len(q)
<1>0. n \in Nat
  OBVIOUS
<1>1. PICK f : IsUpTo(f, q, n) /\ DistinctKeys(q) = f[n]
  BY <1>0, DistinctKeysLast
<1>2. f[0] = <<>> /\ \A i \in 1..n : f[i] = UpToStep(q, i, f[i - 1])
  BY <1>0, <1>1, UpToValues
<1> DEFINE Same(i) == \A j \in 1..i : f[i][j] = q[j]
           Good == {i \in 0..n : /\ f[i] \in Seq(Profiles) /\ Len(f[i]) = i /\ Distinct(f[i])
                                 /\ Distinct(q) => Same(i)}
<1>3. 0 \in Good
  <2>1. f[0] \in Seq(Profiles) /\ Len(f[0]) = 0
    BY <1>2
  <2>2. \A i \in 1..Len(f[0]) : FALSE
    BY <2>1
  <2>3. Distinct(f[0]) /\ Same(0)
    BY <2>2 DEF Distinct
  <2> QED BY <1>0, <2>1, <2>3
<1>4. ASSUME NEW i \in 1..n, i - 1 \in Good PROVE i \in Good
  <2> DEFINE before == f[i - 1]
  <2>1. /\ before \in Seq(Profiles) /\ Len(before) = i - 1 /\ Distinct(before)
        /\ Distinct(q) => \A j \in 1..(i - 1) : before[j] = q[j]
    BY <1>4
  <2>2. f[i] = UpToStep(q, i, before) /\ i \in 0..n /\ i \in 1..Len(q) /\ i \in Nat
    BY <1>2
  <2> HIDE DEF before
  <2>3. /\ f[i] \in Seq(Profiles) /\ Len(f[i]) = i /\ Distinct(f[i])
        /\ (q[i].key # NoKey /\ q[i].key \notin KeysOf(before)) => f[i] = Append(before, q[i])
    BY <2>1, <2>2, OneMoreIsDistinct
  <2>4. ASSUME Distinct(q) PROVE Same(i)
    <3>1. q[i].key # NoKey
      BY <2>2, <2>4 DEF Distinct
    <3>2. q[i].key \notin KeysOf(before)
      <4> SUFFICES ASSUME NEW j \in DOMAIN before, before[j].key = q[i].key PROVE FALSE
        BY DEF KeysOf
      <4>1. j \in 1..(i - 1) /\ j \in 1..Len(q) /\ j # i
        BY <2>1, <2>2
      <4> QED BY <2>1, <2>2, <2>4, <4>1 DEF Distinct
    <3>3. f[i] = Append(before, q[i]) /\ q[i] \in Profiles
      BY <2>2, <2>3, <3>1, <3>2
    <3>4. \A j \in 1..i : j \in 1..(i - 1) \/ j = Len(before) + 1
      BY <2>1
    <3>5. /\ \A j \in 1..Len(before) : Append(before, q[i])[j] = before[j]
          /\ Append(before, q[i])[Len(before) + 1] = q[i]
      BY <2>1, <3>3
    <3> QED BY <2>1, <2>4, <3>3, <3>4, <3>5
  <2> QED BY <2>2, <2>3, <2>4
<1>5. \A i \in 0..n : i \in Good
  <2> HIDE DEF Good, n
  <2> QED BY <1>0, <1>3, <1>4, Climb
<1>6. f[n] \in Seq(Profiles) /\ Len(f[n]) = n /\ Distinct(f[n]) /\ (Distinct(q) => Same(n))
  <2>1. n \in Good
    <3> HIDE DEF Good, n
    <3> QED BY <1>0, <1>5
  <2> QED BY <2>1
<1>7. Same(n) => f[n] = q
  <2> SUFFICES ASSUME Same(n) PROVE f[n] = q
    OBVIOUS
  <2>1. PICK p \in Seq(Profiles) : p = f[n]
    BY <1>6
  <2>2. Len(p) = Len(q) /\ \A j \in 1..Len(q) : p[j] = q[j]
    BY <1>6, <2>1
  <2>3. p = q
    BY <2>2
  <2> QED BY <2>1, <2>3
<1> QED BY <1>1, <1>6, <1>7

-----------------------------------------------------------------------------
(***************************************************************************)
(* Configurations: what normalising, mirroring and storing leave.          *)
(***************************************************************************)
\* A configuration as it is saved and loaded: profiles with different keys, one
\* of them active.
Normal(cfg) == /\ cfg \in Configs /\ cfg.tunnels # <<>> /\ Distinct(cfg.tunnels)
               /\ cfg.active \in KeysOf(cfg.tunnels)

LEMMA ConfigIs ==
  ASSUME NEW cfg \in Configs
  PROVE  /\ cfg.tunnels \in Seq(Profiles) /\ cfg.active \in KeySpace /\ cfg.setting \in Settings
         /\ cfg.manager \in BOOLEAN /\ cfg.ddns \in BOOLEAN
         /\ cfg = [tunnels |-> cfg.tunnels, active |-> cfg.active, setting |-> cfg.setting,
                   manager |-> cfg.manager, ddns |-> cfg.ddns]
BY DEF Configs

LEMMA ConfigMade ==
  ASSUME NEW q \in Seq(Profiles), NEW k \in KeySpace, NEW s \in Settings, NEW m \in BOOLEAN, NEW d \in BOOLEAN
  PROVE  [tunnels |-> q, active |-> k, setting |-> s, manager |-> m, ddns |-> d] \in Configs
BY DEF Configs

\* The list with one field set.
LEMMA ConfigExcept ==
  ASSUME NEW cfg \in Configs
  PROVE  /\ \A q \in Seq(Profiles) : [cfg EXCEPT !.tunnels = q] =
               [tunnels |-> q, active |-> cfg.active, setting |-> cfg.setting, manager |-> cfg.manager, ddns |-> cfg.ddns]
         /\ \A q \in Seq(Profiles), k \in KeySpace : [cfg EXCEPT !.tunnels = q, !.active = k] =
               [tunnels |-> q, active |-> k, setting |-> cfg.setting, manager |-> cfg.manager, ddns |-> cfg.ddns]
         /\ \A k \in KeySpace : [cfg EXCEPT !.active = k] =
               [tunnels |-> cfg.tunnels, active |-> k, setting |-> cfg.setting, manager |-> cfg.manager, ddns |-> cfg.ddns]
         /\ \A s \in Settings, m \in BOOLEAN : [cfg EXCEPT !.setting = s, !.manager = m] =
               [tunnels |-> cfg.tunnels, active |-> cfg.active, setting |-> s, manager |-> m, ddns |-> cfg.ddns]
<1>1. \A q : [cfg EXCEPT !.tunnels = q] =
               [tunnels |-> q, active |-> cfg.active, setting |-> cfg.setting, manager |-> cfg.manager, ddns |-> cfg.ddns]
  BY DEF Configs
<1>2. ASSUME NEW q, NEW k
      PROVE  [cfg EXCEPT !.tunnels = q, !.active = k] =
               [tunnels |-> q, active |-> k, setting |-> cfg.setting, manager |-> cfg.manager, ddns |-> cfg.ddns]
  <2> DEFINE g == [cfg EXCEPT !.tunnels = q]
  <2>1. g = [tunnels |-> q, active |-> cfg.active, setting |-> cfg.setting, manager |-> cfg.manager, ddns |-> cfg.ddns]
    BY DEF Configs
  <2> HIDE DEF g
  <2>2. [g EXCEPT !.active = k] =
               [tunnels |-> q, active |-> k, setting |-> cfg.setting, manager |-> cfg.manager, ddns |-> cfg.ddns]
    BY <2>1
  <2> QED BY <2>2 DEF g
<1>3. \A k : [cfg EXCEPT !.active = k] =
               [tunnels |-> cfg.tunnels, active |-> k, setting |-> cfg.setting, manager |-> cfg.manager, ddns |-> cfg.ddns]
  BY DEF Configs
<1>4. ASSUME NEW s, NEW m
      PROVE  [cfg EXCEPT !.setting = s, !.manager = m] =
               [tunnels |-> cfg.tunnels, active |-> cfg.active, setting |-> s, manager |-> m, ddns |-> cfg.ddns]
  <2> DEFINE g == [cfg EXCEPT !.setting = s]
  <2>1. g = [tunnels |-> cfg.tunnels, active |-> cfg.active, setting |-> s, manager |-> cfg.manager, ddns |-> cfg.ddns]
    BY DEF Configs
  <2> HIDE DEF g
  <2>2. [g EXCEPT !.manager = m] =
               [tunnels |-> cfg.tunnels, active |-> cfg.active, setting |-> s, manager |-> m, ddns |-> cfg.ddns]
    BY <2>1
  <2> QED BY <2>2 DEF g
<1> QED BY <1>1, <1>2, <1>3, <1>4

LEMMA ConfigStays ==
  ASSUME NEW cfg \in Configs, NEW q \in Seq(Profiles), NEW k \in KeySpace
  PROVE  /\ [cfg EXCEPT !.tunnels = q] \in Configs
         /\ [cfg EXCEPT !.tunnels = q, !.active = k] \in Configs
         /\ [cfg EXCEPT !.active = k] \in Configs
<1>1. [cfg EXCEPT !.tunnels = q] =
        [tunnels |-> q, active |-> cfg.active, setting |-> cfg.setting, manager |-> cfg.manager, ddns |-> cfg.ddns]
  BY ConfigExcept
<1>2. [cfg EXCEPT !.tunnels = q, !.active = k] =
        [tunnels |-> q, active |-> k, setting |-> cfg.setting, manager |-> cfg.manager, ddns |-> cfg.ddns]
  <2>1. \A r \in Seq(Profiles), n \in KeySpace : [cfg EXCEPT !.tunnels = r, !.active = n] =
           [tunnels |-> r, active |-> n, setting |-> cfg.setting, manager |-> cfg.manager, ddns |-> cfg.ddns]
    BY ConfigExcept
  <2> QED BY <2>1
<1>3. [cfg EXCEPT !.active = k] =
        [tunnels |-> cfg.tunnels, active |-> k, setting |-> cfg.setting, manager |-> cfg.manager, ddns |-> cfg.ddns]
  BY ConfigExcept
<1>4. \A r \in Seq(Profiles), n \in KeySpace :
        [tunnels |-> r, active |-> n, setting |-> cfg.setting, manager |-> cfg.manager, ddns |-> cfg.ddns] \in Configs
  BY ConfigIs, ConfigMade
<1>5. cfg.tunnels \in Seq(Profiles) /\ cfg.active \in KeySpace
  BY ConfigIs
<1> QED BY <1>1, <1>2, <1>3, <1>4, <1>5

LEMMA SeqIs ==
  ASSUME NEW q \in Seq(Profiles)
  PROVE  /\ DOMAIN q = 1..Len(q) /\ Len(q) \in Nat /\ \A i \in 1..Len(q) : q[i] \in Profiles
         /\ (q # <<>> <=> Len(q) # 0) /\ (q # <<>> => 1 \in 1..Len(q))
OBVIOUS

LEMMA IndexOfIs ==
  ASSUME NEW q \in Seq(Profiles), NEW k \in KeysOf(q)
  PROVE  /\ IndexOf(q, k) \in 1..Len(q) /\ q[IndexOf(q, k)].key = k
         /\ Distinct(q) => \A i \in 1..Len(q) : q[i].key = k => i = IndexOf(q, k)
<1>1. DOMAIN q = 1..Len(q)
  BY SeqIs
<1>2. \E i \in DOMAIN q : q[i].key = k
  BY DEF KeysOf
<1>3. IndexOf(q, k) \in DOMAIN q /\ q[IndexOf(q, k)].key = k
  BY <1>2 DEF IndexOf
<1> QED BY <1>1, <1>3 DEF Distinct

\* One profile replaced by another of the same key.
LEMMA ReplacedIs ==
  ASSUME NEW q \in Seq(Profiles), NEW i \in 1..Len(q), NEW t \in Profiles, t.key = q[i].key
  PROVE  /\ [q EXCEPT ![i] = t] \in Seq(Profiles) /\ Len([q EXCEPT ![i] = t]) = Len(q)
         /\ [q EXCEPT ![i] = t][i] = t
         /\ \A j \in 1..Len(q) : j # i => [q EXCEPT ![i] = t][j] = q[j]
         /\ \A j \in 1..Len(q) : [q EXCEPT ![i] = t][j].key = q[j].key
         /\ KeysOf([q EXCEPT ![i] = t]) = KeysOf(q)
         /\ Distinct(q) => Distinct([q EXCEPT ![i] = t])
<1> DEFINE r == [q EXCEPT ![i] = t]
<1>1. DOMAIN q = 1..Len(q) /\ Len(q) \in Nat /\ \A j \in 1..Len(q) : q[j] \in Profiles
  BY SeqIs
<1>2. r \in Seq(Profiles) /\ Len(r) = Len(q)
  OBVIOUS
<1>3. DOMAIN r = 1..Len(q) /\ r[i] = t /\ \A j \in 1..Len(q) : j # i => r[j] = q[j]
  BY <1>1
<1> HIDE DEF r
<1>4. \A j \in 1..Len(q) : r[j].key = q[j].key
  BY <1>3
<1>5. KeysOf(r) = KeysOf(q)
  BY <1>1, <1>3, <1>4 DEF KeysOf
<1>6. Distinct(q) => Distinct(r)
  BY <1>2, <1>4 DEF Distinct
<1> QED BY <1>2, <1>3, <1>4, <1>5, <1>6 DEF r

LEMMA DistinctNotEmpty ==
  ASSUME NEW q \in Seq(Profiles), q # <<>>
  PROVE  /\ q[1].key \in KeysOf(q) /\ q[1].key \in KeySpace /\ KeysOf(q) \subseteq KeySpace
         /\ \A i \in 1..Len(q) : q[i].key \in KeysOf(q)
<1>1. DOMAIN q = 1..Len(q) /\ 1 \in 1..Len(q) /\ \A i \in 1..Len(q) : q[i] \in Profiles
  BY SeqIs
<1> QED BY <1>1 DEF KeysOf, Profiles

LEMMA OneProfile ==
  ASSUME NEW t \in Profiles, t.key # NoKey
  PROVE  /\ <<t>> \in Seq(Profiles) /\ <<t>> # <<>> /\ Distinct(<<t>>) /\ Len(<<t>>) = 1 /\ <<t>>[1] = t
         /\ KeysOf(<<t>>) = {t.key}
<1>1. <<t>> \in Seq(Profiles) /\ <<t>> # <<>> /\ Len(<<t>>) = 1 /\ <<t>>[1] = t
  OBVIOUS
<1>2. DOMAIN <<t>> = {1} /\ 1..1 = {1}
  OBVIOUS
<1> QED BY <1>1, <1>2 DEF Distinct, KeysOf

LEMMA ProfileIs ==
  ASSUME NEW k \in KeySpace, NEW s \in Settings, NEW l \in BOOLEAN, NEW m \in BOOLEAN
  PROVE  /\ Profile(k, s, l, m) \in Profiles /\ Profile(k, s, l, m).key = k
         /\ Profile(k, s, l, m).setting = s /\ Profile(k, s, l, m).local = l
         /\ Profile(k, s, l, m).manager = m
BY DEF Profile, Profiles

LEMMA EnabledProfileIs ==
  ASSUME NEW k \in KeySpace, NEW s \in Settings, NEW m \in BOOLEAN
  PROVE  /\ Profile(k, s, TRUE, m) \in Profiles /\ Profile(k, s, TRUE, m).key = k
         /\ Profile(k, s, TRUE, m).setting = s /\ Profile(k, s, TRUE, m).local = TRUE
         /\ Profile(k, s, TRUE, m).manager = m
BY DEF Profile, Profiles

LEMMA DefaultKeyIs == DefaultTunnelProfileKey \in KeySpace /\ DefaultTunnelProfileKey # NoKey
BY DEF DefaultTunnelProfileKey, NoKey, KeySpace

\* The list normalizeTunnelProfiles makes.
Listed(cfg) == IF cfg.tunnels = <<>>
               THEN <<tunnelProfileFromTopLevel(cfg, DefaultTunnelProfileKey)>>
               ELSE DistinctKeys(cfg.tunnels)
ActiveIn(cfg, q) == IF cfg.active \in KeysOf(q) THEN cfg.active ELSE q[1].key

LEMMA ListedIs ==
  ASSUME NEW cfg \in Configs
  PROVE  /\ Listed(cfg) \in Seq(Profiles) /\ Listed(cfg) # <<>> /\ Distinct(Listed(cfg))
         /\ (cfg.tunnels # <<>> /\ Distinct(cfg.tunnels)) => Listed(cfg) = cfg.tunnels
<1>1. CASE cfg.tunnels = <<>>
  <2> DEFINE t == tunnelProfileFromTopLevel(cfg, DefaultTunnelProfileKey)
  <2>0. cfg.setting \in Settings /\ cfg.manager \in BOOLEAN
    BY ConfigIs
  <2>1. t \in Profiles /\ t.key # NoKey
    <3>1. t = Profile(DefaultTunnelProfileKey, cfg.setting, TRUE, cfg.manager)
      BY DEF tunnelProfileFromTopLevel
    <3> HIDE DEF t
    <3> QED BY <2>0, <3>1, DefaultKeyIs, EnabledProfileIs
  <2>2. Listed(cfg) = <<t>>
    BY <1>1 DEF Listed
  <2> HIDE DEF t
  <2> QED BY <1>1, <2>1, <2>2, OneProfile
<1>2. CASE cfg.tunnels # <<>>
  <2>1. Listed(cfg) = DistinctKeys(cfg.tunnels) /\ cfg.tunnels \in Seq(Profiles)
    BY <1>2, ConfigIs DEF Listed
  <2>2. /\ DistinctKeys(cfg.tunnels) \in Seq(Profiles) /\ Len(DistinctKeys(cfg.tunnels)) = Len(cfg.tunnels)
        /\ Distinct(DistinctKeys(cfg.tunnels))
        /\ Distinct(cfg.tunnels) => DistinctKeys(cfg.tunnels) = cfg.tunnels
    BY <2>1, DistinctKeysWork
  <2>3. DistinctKeys(cfg.tunnels) # <<>>
    BY <1>2, <2>1, <2>2, SeqIs
  <2> QED BY <2>1, <2>2, <2>3
<1> QED BY <1>1, <1>2

LEMMA NormalizedIs ==
  ASSUME NEW cfg \in Configs
  PROVE  /\ Normal(normalizeTunnelProfiles(cfg))
         /\ normalizeTunnelProfiles(cfg).tunnels = Listed(cfg)
         /\ normalizeTunnelProfiles(cfg).active = ActiveIn(cfg, Listed(cfg))
         /\ normalizeTunnelProfiles(cfg).setting = cfg.setting
         /\ normalizeTunnelProfiles(cfg).manager = cfg.manager
         /\ normalizeTunnelProfiles(cfg).ddns = cfg.ddns
         /\ Normal(cfg) => normalizeTunnelProfiles(cfg) = cfg
<1> DEFINE q == Listed(cfg)
           k == ActiveIn(cfg, q)
<1>1. /\ q \in Seq(Profiles) /\ q # <<>> /\ Distinct(q)
      /\ (cfg.tunnels # <<>> /\ Distinct(cfg.tunnels)) => q = cfg.tunnels
  BY ListedIs
<1>2. normalizeTunnelProfiles(cfg) = [cfg EXCEPT !.tunnels = q, !.active = k]
  BY DEF normalizeTunnelProfiles, Listed, ActiveIn
<1> HIDE DEF q
<1>3. k \in KeysOf(q) /\ k \in KeySpace /\ (cfg.active \in KeysOf(q) => k = cfg.active)
  BY <1>1, DistinctNotEmpty DEF ActiveIn
<1> HIDE DEF k
<1>4. normalizeTunnelProfiles(cfg) =
        [tunnels |-> q, active |-> k, setting |-> cfg.setting, manager |-> cfg.manager, ddns |-> cfg.ddns]
  <2>1. \A r \in Seq(Profiles), n \in KeySpace : [cfg EXCEPT !.tunnels = r, !.active = n] =
           [tunnels |-> r, active |-> n, setting |-> cfg.setting, manager |-> cfg.manager, ddns |-> cfg.ddns]
    BY ConfigExcept
  <2> QED BY <1>1, <1>2, <1>3, <2>1
<1>5. normalizeTunnelProfiles(cfg) \in Configs
  BY <1>1, <1>3, <1>4, ConfigIs, ConfigMade
<1>6. Normal(normalizeTunnelProfiles(cfg))
  BY <1>1, <1>3, <1>4, <1>5 DEF Normal
<1>7. ASSUME Normal(cfg) PROVE normalizeTunnelProfiles(cfg) = cfg
  <2>1. q = cfg.tunnels /\ k = cfg.active
    BY <1>1, <1>3, <1>7 DEF Normal
  <2> QED BY <1>4, <2>1, ConfigIs
<1> QED BY <1>4, <1>6, <1>7 DEF q, k

LEMMA ActiveProfileIs ==
  ASSUME NEW cfg, Normal(cfg)
  PROVE  /\ ActiveTunnelProfile(cfg) \in Profiles /\ ActiveTunnelProfile(cfg).key = cfg.active
         /\ ActiveTunnelProfile(cfg).setting \in Settings /\ ActiveTunnelProfile(cfg).manager \in BOOLEAN
         /\ ActiveTunnelProfile(cfg).local \in BOOLEAN
         /\ IndexOf(cfg.tunnels, cfg.active) \in 1..Len(cfg.tunnels)
         /\ cfg.active # NoKey /\ cfg.active \in KeySpace
<1>1. cfg \in Configs /\ cfg.tunnels \in Seq(Profiles) /\ cfg.active \in KeysOf(cfg.tunnels)
      /\ Distinct(cfg.tunnels) /\ cfg.active \in KeySpace
  BY ConfigIs DEF Normal
<1>2. /\ IndexOf(cfg.tunnels, cfg.active) \in 1..Len(cfg.tunnels)
      /\ cfg.tunnels[IndexOf(cfg.tunnels, cfg.active)].key = cfg.active
  BY <1>1, IndexOfIs
<1>3. ActiveTunnelProfile(cfg) \in Profiles /\ ActiveTunnelProfile(cfg).key = cfg.active
  BY <1>1, <1>2, SeqIs DEF ActiveTunnelProfile
<1>4. /\ ActiveTunnelProfile(cfg).setting \in Settings /\ ActiveTunnelProfile(cfg).manager \in BOOLEAN
      /\ ActiveTunnelProfile(cfg).local \in BOOLEAN
  BY <1>3 DEF Profiles
<1>5. cfg.active # NoKey
  BY <1>1, <1>2 DEF Distinct
<1> QED BY <1>1, <1>2, <1>3, <1>4, <1>5

\* The top-level fields are those of the active profile after it.
LEMMA AppliedIs ==
  ASSUME NEW cfg \in Configs
  PROVE  /\ Normal(applyActiveTunnelToTopLevel(cfg)) /\ Mirrored(applyActiveTunnelToTopLevel(cfg))
         /\ applyActiveTunnelToTopLevel(cfg).tunnels = Listed(cfg)
         /\ applyActiveTunnelToTopLevel(cfg).active = ActiveIn(cfg, Listed(cfg))
         /\ applyActiveTunnelToTopLevel(cfg).ddns = cfg.ddns
         /\ Normal(cfg) => /\ Essence(applyActiveTunnelToTopLevel(cfg)) = Essence(cfg)
                           /\ applyActiveTunnelToTopLevel(cfg).setting = ActiveTunnelProfile(cfg).setting
                           /\ ActiveTunnelProfile(applyActiveTunnelToTopLevel(cfg)) = ActiveTunnelProfile(cfg)
<1> DEFINE n == normalizeTunnelProfiles(cfg)
           a == applyActiveTunnelToTopLevel(cfg)
           s == ActiveTunnelProfile(n).setting
           m == ActiveTunnelProfile(n).manager
<1>1. /\ Normal(n) /\ n.tunnels = Listed(cfg) /\ n.active = ActiveIn(cfg, Listed(cfg))
      /\ n.ddns = cfg.ddns /\ (Normal(cfg) => n = cfg)
  BY NormalizedIs
<1>2. a = [n EXCEPT !.setting = s, !.manager = m]
  BY DEF applyActiveTunnelToTopLevel
<1> HIDE DEF n
<1>3. n \in Configs /\ s \in Settings /\ m \in BOOLEAN
  BY <1>1, ActiveProfileIs DEF Normal
<1> HIDE DEF s, m, a
<1>4. a = [tunnels |-> n.tunnels, active |-> n.active, setting |-> s, manager |-> m, ddns |-> n.ddns]
  BY <1>2, <1>3, ConfigExcept
<1>5. a \in Configs
  BY <1>3, <1>4, ConfigIs, ConfigMade
<1>6. a.tunnels = n.tunnels /\ a.active = n.active /\ a.setting = s /\ a.manager = m /\ a.ddns = n.ddns
  BY <1>4
<1>7. Normal(a)
  BY <1>1, <1>5, <1>6 DEF Normal
<1>8. ActiveTunnelProfile(a) = ActiveTunnelProfile(n)
  BY <1>6 DEF ActiveTunnelProfile
<1>9. Mirrored(a)
  BY <1>6, <1>8 DEF Mirrored, s, m
<1>10. ASSUME Normal(cfg)
       PROVE  Essence(a) = Essence(cfg) /\ a.setting = ActiveTunnelProfile(cfg).setting
              /\ ActiveTunnelProfile(a) = ActiveTunnelProfile(cfg)
  <2>1. n = cfg
    BY <1>1, <1>10
  <2> QED BY <1>6, <1>8, <2>1 DEF Essence, s
<1> QED BY <1>1, <1>6, <1>7, <1>9, <1>10 DEF a

\* The active profile replaced by one of the same key.
LEMMA ActiveReplaced ==
  ASSUME NEW n, Normal(n), NEW t \in Profiles, t.key = n.active,
         NEW r, r = [n EXCEPT !.tunnels[IndexOf(n.tunnels, n.active)] = t]
  PROVE  /\ Normal(r) /\ ActiveTunnelProfile(r) = t
         /\ r.active = n.active /\ r.setting = n.setting /\ r.manager = n.manager /\ r.ddns = n.ddns
         /\ Len(r.tunnels) = Len(n.tunnels)
<1> DEFINE i == IndexOf(n.tunnels, n.active)
           q == [n.tunnels EXCEPT ![i] = t]
<1>1. /\ n \in Configs /\ n.tunnels \in Seq(Profiles) /\ n.tunnels # <<>> /\ Distinct(n.tunnels)
      /\ n.active \in KeysOf(n.tunnels)
  BY ConfigIs DEF Normal
<1>2. i \in 1..Len(n.tunnels) /\ n.tunnels[i].key = n.active
  BY <1>1, IndexOfIs
<1>3. r = [n EXCEPT !.tunnels = q]
  <2>1. n = [tunnels |-> n.tunnels, active |-> n.active, setting |-> n.setting, manager |-> n.manager,
             ddns |-> n.ddns]
    BY <1>1, ConfigIs
  <2> QED BY <2>1
<1> HIDE DEF i
<1>4. /\ q \in Seq(Profiles) /\ Len(q) = Len(n.tunnels) /\ q[i] = t
      /\ KeysOf(q) = KeysOf(n.tunnels) /\ Distinct(q)
  BY <1>1, <1>2, ReplacedIs
<1> HIDE DEF q
<1>5. r = [tunnels |-> q, active |-> n.active, setting |-> n.setting, manager |-> n.manager, ddns |-> n.ddns]
  BY <1>1, <1>3, <1>4, ConfigExcept
<1>6. r \in Configs
  BY <1>1, <1>4, <1>5, ConfigIs, ConfigMade
<1>7. /\ r.tunnels = q /\ r.active = n.active /\ r.setting = n.setting /\ r.manager = n.manager
      /\ r.ddns = n.ddns
  BY <1>5
<1>8. q # <<>>
  BY <1>1, <1>4, SeqIs
<1>9. Normal(r)
  BY <1>1, <1>4, <1>6, <1>7, <1>8 DEF Normal
<1>10. IndexOf(q, n.active) = i
  <2>1. n.active \in KeysOf(q) /\ i \in 1..Len(q) /\ q[i].key = n.active
    BY <1>1, <1>2, <1>4
  <2> QED BY <1>4, <2>1, IndexOfIs
<1>11. ActiveTunnelProfile(r) = t
  BY <1>4, <1>7, <1>10 DEF ActiveTunnelProfile
<1> QED BY <1>4, <1>7, <1>9, <1>11

LEMMA SyncedIs ==
  ASSUME NEW cfg \in Configs
  PROVE  /\ Normal(syncActiveTunnelFromTopLevel(cfg)) /\ Mirrored(syncActiveTunnelFromTopLevel(cfg))
         /\ syncActiveTunnelFromTopLevel(cfg).setting = cfg.setting
         /\ syncActiveTunnelFromTopLevel(cfg).manager = cfg.manager
         /\ syncActiveTunnelFromTopLevel(cfg).ddns = cfg.ddns
         /\ syncActiveTunnelFromTopLevel(cfg).active = ActiveIn(cfg, Listed(cfg))
         /\ Len(syncActiveTunnelFromTopLevel(cfg).tunnels) = Len(Listed(cfg))
         /\ ActiveTunnelProfile(syncActiveTunnelFromTopLevel(cfg)).local = TRUE
<1> DEFINE n == normalizeTunnelProfiles(cfg)
           r == syncActiveTunnelFromTopLevel(cfg)
           t == Profile(n.active, cfg.setting, TRUE, cfg.manager)
<1>1. /\ Normal(n) /\ n.setting = cfg.setting /\ n.manager = cfg.manager /\ n.ddns = cfg.ddns
      /\ n.active = ActiveIn(cfg, Listed(cfg)) /\ n.tunnels = Listed(cfg)
  BY NormalizedIs
<1>2. r = [n EXCEPT !.tunnels[IndexOf(n.tunnels, n.active)] = t]
  BY DEF syncActiveTunnelFromTopLevel, tunnelProfileFromTopLevel
<1> HIDE DEF n, r
<1>3. n.active \in KeySpace /\ cfg.setting \in Settings /\ cfg.manager \in BOOLEAN
  BY <1>1, ActiveProfileIs, ConfigIs
<1>4. /\ t \in Profiles /\ t.key = n.active /\ t.setting = cfg.setting /\ t.manager = cfg.manager
      /\ t.local = TRUE
  BY <1>3, EnabledProfileIs
<1> HIDE DEF t
<1>5. /\ Normal(r) /\ ActiveTunnelProfile(r) = t /\ r.active = n.active
      /\ r.setting = n.setting /\ r.manager = n.manager /\ r.ddns = n.ddns
      /\ Len(r.tunnels) = Len(n.tunnels)
  BY <1>1, <1>2, <1>4, ActiveReplaced
<1> QED BY <1>1, <1>4, <1>5 DEF Mirrored, r

LEMMA ManagerSyncedIs ==
  ASSUME NEW cfg \in Configs
  PROVE  /\ Normal(syncActiveTunnelManagementFromTopLevel(cfg))
         /\ ActiveTunnelProfile(normalizeTunnelProfiles(cfg)).setting = cfg.setting
              => Mirrored(syncActiveTunnelManagementFromTopLevel(cfg))
<1> DEFINE n == normalizeTunnelProfiles(cfg)
           r == syncActiveTunnelManagementFromTopLevel(cfg)
           t == [ActiveTunnelProfile(n) EXCEPT !.manager = cfg.manager]
<1>1. Normal(n) /\ n.setting = cfg.setting /\ n.manager = cfg.manager /\ n.ddns = cfg.ddns
  BY NormalizedIs
<1>2. r = [n EXCEPT !.tunnels[IndexOf(n.tunnels, n.active)].manager = cfg.manager]
  BY DEF syncActiveTunnelManagementFromTopLevel
<1> HIDE DEF n, r
<1>3. ActiveTunnelProfile(n) \in Profiles /\ ActiveTunnelProfile(n).key = n.active /\ cfg.manager \in BOOLEAN
  BY <1>1, ActiveProfileIs, ConfigIs
<1>4. t \in Profiles /\ t.key = n.active /\ t.setting = ActiveTunnelProfile(n).setting /\ t.manager = cfg.manager
  BY <1>3 DEF Profiles
<1>5. r = [n EXCEPT !.tunnels[IndexOf(n.tunnels, n.active)] = t]
  <2> DEFINE i == IndexOf(n.tunnels, n.active)
  <2>1. n.tunnels[i] = ActiveTunnelProfile(n)
    BY DEF ActiveTunnelProfile
  <2> HIDE DEF i
  <2> QED BY <1>2, <2>1 DEF i
<1> HIDE DEF t
<1>6. /\ Normal(r) /\ ActiveTunnelProfile(r) = t
      /\ r.setting = n.setting /\ r.manager = n.manager
  BY <1>1, <1>4, <1>5, ActiveReplaced
<1> QED BY <1>1, <1>4, <1>6 DEF Mirrored, r, n

\* What an edit may leave in a copy that no save overtook, for its merge to end
\* mirrored: a mirrored configuration, the profiles as they were, or the
\* top-level fields as they were.
Fits(cfg, current) == \/ Normal(cfg) /\ Mirrored(cfg)
                      \/ cfg.tunnels = current.tunnels
                      \/ cfg.setting = current.setting /\ cfg.manager = current.manager

LEMMA MergedIs ==
  ASSUME NEW cfg \in Configs, NEW current, Normal(current)
  PROVE  /\ Normal(Merged(cfg, current))
         /\ (Fits(cfg, current) /\ Mirrored(current)) => Mirrored(Merged(cfg, current))
<1> DEFINE k == IF cfg.active = NoKey THEN current.active ELSE cfg.active
           new == [cfg EXCEPT !.active = k]
           m == Merged(cfg, current)
           edited == new.active = current.active /\ new.setting # current.setting
           managed == new.active = current.active /\ new.manager # current.manager
<1>1. m = IF edited THEN syncActiveTunnelFromTopLevel(new)
          ELSE IF managed THEN syncActiveTunnelManagementFromTopLevel(new)
          ELSE applyActiveTunnelToTopLevel(new)
  BY DEF Merged
<1>2. k \in KeySpace
  BY ConfigIs, ActiveProfileIs
<1>3. new = [tunnels |-> cfg.tunnels, active |-> k, setting |-> cfg.setting, manager |-> cfg.manager,
             ddns |-> cfg.ddns]
  BY <1>2, ConfigExcept
<1>k. (cfg.active # NoKey) => k = cfg.active
  OBVIOUS
<1> HIDE DEF new, m, k
<1>4. /\ new.tunnels = cfg.tunnels /\ new.active = k /\ new.setting = cfg.setting
      /\ new.manager = cfg.manager /\ new.ddns = cfg.ddns
  BY <1>3
<1>5. new \in Configs
  BY <1>2, <1>3, ConfigIs, ConfigMade
<1>6. Normal(m)
  BY <1>1, <1>5, AppliedIs, SyncedIs, ManagerSyncedIs
<1>7. ASSUME Fits(cfg, current), Mirrored(current) PROVE Mirrored(m)
  <2>1. CASE edited
    BY <1>1, <1>5, <2>1, SyncedIs
  <2>2. CASE ~edited /\ ~managed
    BY <1>1, <1>5, <2>2, AppliedIs
  <2>3. CASE ~edited /\ managed
    <3>1. new.setting = current.setting /\ new.active = current.active /\ m = syncActiveTunnelManagementFromTopLevel(new)
      BY <1>1, <2>3
    <3>2. CASE Normal(cfg) /\ Mirrored(cfg)
      <4>1. k = cfg.active
        BY <1>k, <3>2, ActiveProfileIs
      <4>2. new = cfg
        <5>1. cfg \in Configs
          OBVIOUS
        <5> QED BY <1>3, <4>1, <5>1, ConfigIs
      <4>3. normalizeTunnelProfiles(new) = cfg
        BY <1>5, <3>2, <4>2, NormalizedIs
      <4>4. ActiveTunnelProfile(cfg).setting = new.setting
        BY <3>2, <4>2 DEF Mirrored
      <4> QED BY <1>5, <3>1, <4>3, <4>4, ManagerSyncedIs
    <3>3. CASE cfg.tunnels = current.tunnels
      <4>1. Normal(new)
        BY <1>4, <1>5, <3>1, <3>3 DEF Normal
      <4>2. normalizeTunnelProfiles(new) = new
        BY <1>5, <4>1, NormalizedIs
      <4>3. ActiveTunnelProfile(new) = ActiveTunnelProfile(current)
        BY <1>4, <3>1, <3>3 DEF ActiveTunnelProfile
      <4>4. ActiveTunnelProfile(normalizeTunnelProfiles(new)).setting = new.setting
        BY <1>7, <3>1, <4>2, <4>3 DEF Mirrored
      <4> QED BY <1>5, <3>1, <4>4, ManagerSyncedIs
    <3>4. CASE cfg.setting = current.setting /\ cfg.manager = current.manager
      BY <1>4, <2>3, <3>4
    <3> QED BY <1>7, <3>2, <3>3, <3>4 DEF Fits
  <2> QED BY <2>1, <2>2, <2>3
<1> QED BY <1>6, <1>7 DEF m

LEMMA StoredIs ==
  ASSUME NEW cfg, Normal(cfg)
  PROVE  /\ Normal(Stored(cfg)) /\ Essence(Stored(cfg)) = Essence(cfg)
         /\ ActiveTunnelProfile(Stored(cfg)) = ActiveTunnelProfile(cfg)
<1>1. cfg \in Configs /\ cfg.tunnels # <<>>
  BY DEF Normal
<1>2. Stored(cfg) = applyActiveTunnelToTopLevel(cfg)
  BY <1>1 DEF Stored
<1> QED BY <1>1, <1>2, AppliedIs

LEMMA DefaultIs ==
  /\ DefaultConfig \in Configs /\ Normal(DefaultConfig) /\ DefaultConfig.setting = DefaultSetting
  /\ ActiveTunnelProfile(DefaultConfig).setting = DefaultSetting
<1> DEFINE t == Profile(DefaultTunnelProfileKey, DefaultSetting, TRUE, FALSE)
<1>1. t \in Profiles /\ t.key = DefaultTunnelProfileKey /\ t.key # NoKey /\ t.setting = DefaultSetting
  BY DefaultKeyIs, ProfileIs, SettingsAssumption
<1>2. DefaultConfig = [tunnels |-> <<t>>, active |-> DefaultTunnelProfileKey, setting |-> DefaultSetting,
                       manager |-> FALSE, ddns |-> FALSE]
  BY DEF DefaultConfig
<1> HIDE DEF t
<1>3. /\ <<t>> \in Seq(Profiles) /\ <<t>> # <<>> /\ Distinct(<<t>>) /\ Len(<<t>>) = 1 /\ <<t>>[1] = t
      /\ KeysOf(<<t>>) = {t.key}
  BY <1>1, OneProfile
<1>4. DefaultConfig \in Configs
  BY <1>2, <1>3, DefaultKeyIs, SettingsAssumption, ConfigMade
<1>5. /\ DefaultConfig.tunnels = <<t>> /\ DefaultConfig.active = DefaultTunnelProfileKey
      /\ DefaultConfig.setting = DefaultSetting
  BY <1>2
<1>6. Normal(DefaultConfig)
  BY <1>1, <1>3, <1>4, <1>5 DEF Normal
<1>7. ActiveTunnelProfile(DefaultConfig) = t
  <2>1. IndexOf(<<t>>, DefaultTunnelProfileKey) \in 1..1
    BY <1>1, <1>3, IndexOfIs
  <2>2. IndexOf(<<t>>, DefaultTunnelProfileKey) = 1
    BY <2>1
  <2> QED BY <1>3, <1>5, <2>2 DEF ActiveTunnelProfile
<1> QED BY <1>1, <1>4, <1>5, <1>6, <1>7

\* What the first boot stores and loads: the same configuration, mirrored, with
\* the settings it was given.
Booted(found) ==
  /\ found \in Configs
  /\ Normal(Stored(found)) /\ ActiveTunnelProfile(Stored(found)).setting = found.setting
  /\ Normal(applyActiveTunnelToTopLevel(found)) /\ Mirrored(applyActiveTunnelToTopLevel(found))
  /\ applyActiveTunnelToTopLevel(found).setting = found.setting
  /\ Essence(applyActiveTunnelToTopLevel(found)) = Essence(Stored(found))

LEMMA DefaultsBoot == Booted(DefaultConfig)
<1>1. /\ Normal(Stored(DefaultConfig)) /\ Essence(Stored(DefaultConfig)) = Essence(DefaultConfig)
      /\ ActiveTunnelProfile(Stored(DefaultConfig)) = ActiveTunnelProfile(DefaultConfig)
  BY DefaultIs, StoredIs
<1>2. /\ Normal(applyActiveTunnelToTopLevel(DefaultConfig))
      /\ Mirrored(applyActiveTunnelToTopLevel(DefaultConfig))
      /\ Essence(applyActiveTunnelToTopLevel(DefaultConfig)) = Essence(DefaultConfig)
      /\ applyActiveTunnelToTopLevel(DefaultConfig).setting = ActiveTunnelProfile(DefaultConfig).setting
  BY DefaultIs, AppliedIs
<1> QED BY <1>1, <1>2, DefaultIs DEF Booted

LEMMA LegacyBoots ==
  ASSUME NEW s \in Settings
  PROVE  Booted(LegacyConfig(s)) /\ LegacyConfig(s).setting = s
<1> DEFINE cfg == LegacyConfig(s)
           t == Profile(DefaultTunnelProfileKey, s, TRUE, FALSE)
           a == applyActiveTunnelToTopLevel(cfg)
           r == Stored(cfg)
<1>1. cfg = [tunnels |-> <<>>, active |-> NoKey, setting |-> s, manager |-> FALSE, ddns |-> FALSE]
  <2> DEFINE g == [DefaultConfig EXCEPT !.tunnels = <<>>, !.active = NoKey]
  <2>1. <<>> \in Seq(Profiles) /\ NoKey \in KeySpace
    BY DEF NoKey, KeySpace
  <2>2. \A q \in Seq(Profiles), k \in KeySpace : [DefaultConfig EXCEPT !.tunnels = q, !.active = k] =
          [tunnels |-> q, active |-> k, setting |-> DefaultConfig.setting,
           manager |-> DefaultConfig.manager, ddns |-> DefaultConfig.ddns]
    BY DefaultIs, ConfigExcept
  <2>3. g = [tunnels |-> <<>>, active |-> NoKey, setting |-> DefaultConfig.setting,
             manager |-> DefaultConfig.manager, ddns |-> DefaultConfig.ddns]
    BY <2>1, <2>2
  <2>4. DefaultConfig.manager = FALSE /\ DefaultConfig.ddns = FALSE
    BY DEF DefaultConfig
  <2>5. cfg = [g EXCEPT !.setting = s]
    BY DEF LegacyConfig
  <2> HIDE DEF g
  <2> QED BY <2>3, <2>4, <2>5
<1>2. /\ t \in Profiles /\ t.key = DefaultTunnelProfileKey /\ t.key # NoKey /\ t.setting = s
      /\ t.manager = FALSE
      /\ t = [key |-> DefaultTunnelProfileKey, setting |-> s, local |-> TRUE, manager |-> FALSE]
  BY DefaultKeyIs, ProfileIs DEF Profile
<1> HIDE DEF cfg, t
<1>3. cfg \in Configs
  <2>1. <<>> \in Seq(Profiles) /\ NoKey \in KeySpace
    BY DEF NoKey, KeySpace
  <2> QED BY <1>1, <2>1, ConfigMade
<1>4. cfg.tunnels = <<>> /\ cfg.active = NoKey /\ cfg.setting = s /\ cfg.manager = FALSE /\ cfg.ddns = FALSE
  BY <1>1
<1>5. Listed(cfg) = <<t>>
  BY <1>4 DEF Listed, tunnelProfileFromTopLevel, t
<1>6. /\ <<t>> \in Seq(Profiles) /\ <<t>> # <<>> /\ Len(<<t>>) = 1 /\ <<t>>[1] = t
      /\ KeysOf(<<t>>) = {t.key}
  BY <1>2, OneProfile
<1>7. ActiveIn(cfg, <<t>>) = DefaultTunnelProfileKey
  BY <1>2, <1>4, <1>6 DEF ActiveIn
<1>8. /\ Normal(a) /\ Mirrored(a) /\ a.tunnels = <<t>> /\ a.active = DefaultTunnelProfileKey /\ a.ddns = FALSE
  BY <1>3, <1>4, <1>5, <1>7, AppliedIs
<1>9. r = syncActiveTunnelFromTopLevel(cfg)
  BY <1>4 DEF Stored
<1> HIDE DEF a, r
<1>10. /\ Normal(r) /\ Mirrored(r) /\ r.setting = s /\ r.ddns = FALSE
       /\ r.active = DefaultTunnelProfileKey /\ Len(r.tunnels) = 1
  BY <1>3, <1>4, <1>5, <1>6, <1>7, <1>9, SyncedIs
\* A list of one profile.
<1>11. ASSUME NEW c, Normal(c), Len(c.tunnels) = 1
       PROVE  c.tunnels = <<ActiveTunnelProfile(c)>>
  <2>1. c.tunnels \in Seq(Profiles) /\ IndexOf(c.tunnels, c.active) \in 1..1
    BY <1>11, ConfigIs, ActiveProfileIs DEF Normal
  <2>2. IndexOf(c.tunnels, c.active) = 1
    BY <2>1
  <2>3. ActiveTunnelProfile(c) = c.tunnels[1]
    BY <2>2 DEF ActiveTunnelProfile
  <2> QED BY <1>11, <2>1, <2>3
<1>12. ActiveTunnelProfile(a) = t
  <2>1. <<t>> = <<ActiveTunnelProfile(a)>>
    BY <1>6, <1>8, <1>11
  <2> QED BY <2>1
<1>13. a.setting = s
  BY <1>2, <1>8, <1>12 DEF Mirrored
<1>14. ActiveTunnelProfile(r).setting = s
  BY <1>10 DEF Mirrored
<1>15. r.tunnels = <<t>>
  <2> DEFINE u == ActiveTunnelProfile(r)
  <2>1. u \in Profiles /\ u.key = DefaultTunnelProfileKey
    BY <1>10, ActiveProfileIs
  <2>2. u.setting = s /\ r.manager = u.manager
    BY <1>10, <1>14 DEF Mirrored
  <2>3. u.manager = FALSE /\ u.local = TRUE
    BY <1>3, <1>4, <1>9, <2>2, SyncedIs
  <2> HIDE DEF u
  <2>4. u = [key |-> u.key, setting |-> u.setting, local |-> u.local, manager |-> u.manager]
    BY <2>1 DEF Profiles
  <2>5. u = t
    BY <1>2, <2>1, <2>2, <2>3, <2>4
  <2> QED BY <1>10, <1>11, <2>5 DEF u
<1>16. Essence(a) = Essence(r)
  BY <1>8, <1>10, <1>15 DEF Essence
<1> QED BY <1>3, <1>4, <1>8, <1>10, <1>13, <1>14, <1>16 DEF Booted, cfg, a, r

-----------------------------------------------------------------------------
(***************************************************************************)
(* The edits.                                                              *)
(***************************************************************************)
LEMMA KeysAreKeys ==
  ASSUME NEW k \in Keys PROVE k \in KeySpace /\ k # NoKey
<1>1. CASE k = DefaultTunnelProfileKey
  BY <1>1, DefaultKeyIs
<1>2. ASSUME NEW i \in 2..MaxProfiles, k = NumberedKey(i) PROVE k \in KeySpace /\ k # NoKey
  <2>1. i \in Nat
    BY BoundsAssumption
  <2>2. "tunnel" \in {"default", "tunnel"} \cup Nat /\ i \in {"default", "tunnel"} \cup Nat
    BY <2>1
  <2> QED BY <1>2, <2>2 DEF NumberedKey, NoKey, KeySpace
<1> QED BY <1>1, <1>2 DEF Keys

LEMMA PutIs ==
  ASSUME NEW cfg, Normal(cfg), NEW t \in Profiles
  PROVE  Normal(PutProfile(cfg, t)) /\ Mirrored(PutProfile(cfg, t))
<1> DEFINE u == NormalProfile(t, Len(cfg.tunnels) + 1)
           put == IF u.key \in KeysOf(cfg.tunnels)
                  THEN [cfg EXCEPT !.tunnels[IndexOf(cfg.tunnels, u.key)] = u]
                  ELSE [cfg EXCEPT !.tunnels = Append(@, u)]
<1>1. PutProfile(cfg, t) = applyActiveTunnelToTopLevel(put)
  BY DEF PutProfile
<1>2. cfg \in Configs /\ cfg.tunnels \in Seq(Profiles) /\ Len(cfg.tunnels) + 1 \in Nat
      /\ Len(cfg.tunnels) + 1 # 0
  BY ConfigIs, SeqIs DEF Normal
<1>3. u \in Profiles
  BY <1>2, NormalProfileIs
<1> HIDE DEF u
<1>4. \A q \in Seq(Profiles) : [cfg EXCEPT !.tunnels = q] \in Configs
  BY <1>2, ConfigIs, ConfigStays
<1>5. CASE u.key \in KeysOf(cfg.tunnels)
  <2> DEFINE i == IndexOf(cfg.tunnels, u.key)
             q == [cfg.tunnels EXCEPT ![i] = u]
  <2>1. i \in 1..Len(cfg.tunnels) /\ u.key = cfg.tunnels[i].key
    BY <1>2, <1>5, IndexOfIs
  <2>2. put = [cfg EXCEPT !.tunnels = q]
    <3>1. cfg = [tunnels |-> cfg.tunnels, active |-> cfg.active, setting |-> cfg.setting,
                 manager |-> cfg.manager, ddns |-> cfg.ddns]
      BY <1>2, ConfigIs
    <3>2. put = [cfg EXCEPT !.tunnels[i] = u]
      BY <1>5
    <3> HIDE DEF i, put
    <3> QED BY <3>1, <3>2
  <2> HIDE DEF i, put
  <2>3. q \in Seq(Profiles)
    BY <1>2, <1>3, <2>1, ReplacedIs
  <2> HIDE DEF q
  <2>4. put \in Configs
    BY <1>4, <2>2, <2>3
  <2> QED BY <1>1, <2>4, AppliedIs
<1>6. CASE u.key \notin KeysOf(cfg.tunnels)
  <2>1. put = [cfg EXCEPT !.tunnels = Append(cfg.tunnels, u)]
    BY <1>6
  <2>2. Append(cfg.tunnels, u) \in Seq(Profiles)
    BY <1>2, <1>3
  <2> HIDE DEF put
  <2>3. put \in Configs
    BY <1>4, <2>1, <2>2
  <2> QED BY <1>1, <2>3, AppliedIs
<1> QED BY <1>5, <1>6

LEMMA DeletedIs ==
  ASSUME NEW cfg, Normal(cfg), NEW key \in KeysOf(cfg.tunnels), Len(cfg.tunnels) > 1
  PROVE  Normal(DeleteProfile(cfg, key)) /\ Mirrored(DeleteProfile(cfg, key))
<1> DEFINE at == IndexOf(cfg.tunnels, key)
           n == Len(cfg.tunnels) - 1
           rest == [i \in 1..n |-> cfg.tunnels[IF i < at THEN i ELSE i + 1]]
           k == IF cfg.active = key THEN rest[1].key ELSE cfg.active
           left == [cfg EXCEPT !.tunnels = rest, !.active = k]
<1>1. DeleteProfile(cfg, key) = applyActiveTunnelToTopLevel(left)
  BY DEF DeleteProfile
<1>2. cfg \in Configs /\ cfg.tunnels \in Seq(Profiles) /\ at \in 1..Len(cfg.tunnels) /\ Len(cfg.tunnels) \in Nat
      /\ \A i \in 1..Len(cfg.tunnels) : cfg.tunnels[i] \in Profiles
  BY ConfigIs, IndexOfIs, SeqIs DEF Normal
<1> HIDE DEF at
<1>3. n \in Nat /\ n >= 1
  BY <1>2
<1>4. \A i \in 1..n : (IF i < at THEN i ELSE i + 1) \in 1..Len(cfg.tunnels)
  BY <1>2
<1>5. \A i \in 1..n : cfg.tunnels[IF i < at THEN i ELSE i + 1] \in Profiles
  BY <1>2, <1>4
<1>6. rest \in Seq(Profiles) /\ Len(rest) = n
  <2> DEFINE g(i) == cfg.tunnels[IF i < at THEN i ELSE i + 1]
  <2>1. \A i \in 1..n : g(i) \in Profiles
    BY <1>5
  <2> HIDE DEF n, g
  <2>2. [i \in 1..n |-> g(i)] \in Seq(Profiles) /\ Len([i \in 1..n |-> g(i)]) = n
    BY <1>3, <2>1
  <2> QED BY <2>2 DEF g
<1> HIDE DEF rest
<1>7. rest # <<>>
  <2>1. Len(rest) # 0
    BY <1>3, <1>6
  <2> HIDE DEF n
  <2> QED BY <1>6, <2>1, SeqIs
<1>8. k \in KeySpace
  BY <1>2, <1>6, <1>7, DistinctNotEmpty, ConfigIs
<1> HIDE DEF k
<1>9. left \in Configs
  BY <1>2, <1>6, <1>8, ConfigStays
<1> HIDE DEF left
<1> QED BY <1>1, <1>9, AppliedIs

LEMMA ImportedIs ==
  ASSUME NEW cfg, Normal(cfg), NEW k \in KeySpace
  PROVE  ImportedProfile(cfg, k) \in Profiles
<1>1. cfg.tunnels \in Seq(Profiles)
  BY ConfigIs DEF Normal
<1> DEFINE m == k \in KeysOf(cfg.tunnels) /\ cfg.tunnels[IndexOf(cfg.tunnels, k)].manager
<1>2. m \in BOOLEAN
  <2>1. CASE k \in KeysOf(cfg.tunnels)
    <3>1. cfg.tunnels[IndexOf(cfg.tunnels, k)] \in Profiles
      BY <1>1, <2>1, IndexOfIs, SeqIs
    <3>2. cfg.tunnels[IndexOf(cfg.tunnels, k)].manager \in BOOLEAN
      BY <3>1 DEF Profiles
    <3> QED BY <3>2
  <2> QED BY <2>1
<1> HIDE DEF m
<1>3. Profile(k, DefaultSetting, FALSE, m) \in Profiles
  BY <1>2, SettingsAssumption, ProfileIs
<1> QED BY <1>3 DEF ImportedProfile, m

LEMMA KindsAre ==
  /\ \A e \in PutEdits : /\ e.kind = "put" /\ e.key \in Keys /\ e.setting \in Settings
                         /\ e.local \in BOOLEAN /\ e.manager \in BOOLEAN
  /\ \A e \in CreateEdits : e.kind = "create" /\ e.setting \in Settings
  /\ \A e \in DeleteEdits : e.kind = "delete" /\ e.key \in Keys
  /\ \A e \in ActivateEdits : e.kind = "activate" /\ e.key \in Keys
  /\ \A e \in PostEdits : e.kind = "post" /\ e.active \in {NoKey} \cup Keys /\ e.setting \in Settings
                          /\ e.manager \in BOOLEAN
  /\ \A e \in FeatureEdits : e.kind \in {"manager", "ddns"} /\ e.on \in BOOLEAN
  /\ \A e \in ImportEdits : /\ e.kind = "import"
                            /\ e.keys \in {<<DefaultTunnelProfileKey>>, <<NumberedKey(2), NumberedKey(2)>>}
                            /\ e.active \in {DefaultTunnelProfileKey, NumberedKey(2)}
BY DEF PutEdits, CreateEdits, DeleteEdits, ActivateEdits, PostEdits, FeatureEdits, ImportEdits

LEMMA SecondKeyIs == NumberedKey(2) \in KeySpace
<1>1. "tunnel" \in {"default", "tunnel"} \cup Nat /\ 2 \in {"default", "tunnel"} \cup Nat
  OBVIOUS
<1> QED BY <1>1 DEF NumberedKey, KeySpace

LEMMA ImportListIs ==
  ASSUME NEW cfg, Normal(cfg),
         NEW keys \in {<<DefaultTunnelProfileKey>>, <<NumberedKey(2), NumberedKey(2)>>}
  PROVE  [i \in DOMAIN keys |-> ImportedProfile(cfg, keys[i])] \in Seq(Profiles)
<1>1. NumberedKey(2) \in KeySpace /\ DefaultTunnelProfileKey \in KeySpace
  BY SecondKeyIs, DefaultKeyIs
<1>2. \A a, b \in KeySpace : <<a>> \in Seq(KeySpace) /\ <<a, b>> \in Seq(KeySpace)
  OBVIOUS
<1>x. keys \in Seq(KeySpace)
  BY <1>1, <1>2
<1>3. DOMAIN keys = 1..Len(keys) /\ Len(keys) \in Nat /\ \A i \in 1..Len(keys) : keys[i] \in KeySpace
  BY <1>x
<1>4. \A i \in 1..Len(keys) : ImportedProfile(cfg, keys[i]) \in Profiles
  BY <1>3, ImportedIs
<1>5. [i \in 1..Len(keys) |-> ImportedProfile(cfg, keys[i])] \in Seq(Profiles)
  BY <1>3, <1>4
<1> QED BY <1>3, <1>5

\* A copy after an edit is a configuration again, and it fits what it was taken
\* from.
LEMMA EditedIs ==
  ASSUME NEW cfg, Normal(cfg), NEW e \in Edits, Allowed(e, cfg)
  PROVE  Edited(e, cfg) \in Configs /\ Fits(Edited(e, cfg), cfg)
<1>0. cfg \in Configs
  BY DEF Normal
<1>1. CASE e \in PutEdits
  <2>1. e.kind = "put" /\ Profile(e.key, e.setting, e.local, e.manager) \in Profiles
    BY <1>1, KindsAre, KeysAreKeys, ProfileIs
  <2>2. Edited(e, cfg) = PutProfile(cfg, Profile(e.key, e.setting, e.local, e.manager))
    BY <2>1 DEF Edited
  <2> QED BY <2>1, <2>2, PutIs DEF Fits, Normal
<1>2. CASE e \in CreateEdits
  <2>1. e.kind = "create" /\ Profile(NoKey, e.setting, TRUE, TRUE) \in Profiles
    <3>1. NoKey \in KeySpace
      BY DEF NoKey, KeySpace
    <3> QED BY <1>2, <3>1, KindsAre, ProfileIs
  <2>2. Edited(e, cfg) = PutProfile(cfg, Profile(NoKey, e.setting, TRUE, TRUE))
    BY <2>1 DEF Edited
  <2> QED BY <2>1, <2>2, PutIs DEF Fits, Normal
<1>3. CASE e \in DeleteEdits
  <2>1. e.kind = "delete"
    BY <1>3, KindsAre
  <2>2. e.key \in KeysOf(cfg.tunnels) /\ Len(cfg.tunnels) > 1
    BY <2>1 DEF Allowed
  <2>3. Edited(e, cfg) = DeleteProfile(cfg, e.key)
    BY <2>1 DEF Edited
  <2> QED BY <2>2, <2>3, DeletedIs DEF Fits, Normal
<1>4. CASE e \in ActivateEdits
  <2>1. e.kind = "activate" /\ e.key \in KeySpace
    BY <1>4, KindsAre, KeysAreKeys
  <2>2. Edited(e, cfg) = applyActiveTunnelToTopLevel([cfg EXCEPT !.active = e.key])
    BY <2>1 DEF Edited
  <2>3. [cfg EXCEPT !.active = e.key] \in Configs
    BY <1>0, <2>1, ConfigIs, ConfigStays
  <2> QED BY <2>2, <2>3, AppliedIs DEF Fits, Normal
<1>5. CASE e \in PostEdits
  <2>1. e.kind = "post" /\ e.active \in KeySpace /\ e.setting \in Settings /\ e.manager \in BOOLEAN
    <3>1. NoKey \in KeySpace
      BY DEF NoKey, KeySpace
    <3> QED BY <1>5, <3>1, KindsAre, KeysAreKeys
  <2>2. Edited(e, cfg) = [cfg EXCEPT !.active = e.active, !.setting = e.setting, !.manager = e.manager]
    BY <2>1 DEF Edited
  <2> DEFINE g == [cfg EXCEPT !.active = e.active]
  <2>3. g = [tunnels |-> cfg.tunnels, active |-> e.active, setting |-> cfg.setting,
             manager |-> cfg.manager, ddns |-> cfg.ddns]
    BY <1>0, <2>1, ConfigExcept
  <2>4. Edited(e, cfg) = [g EXCEPT !.setting = e.setting, !.manager = e.manager]
    BY <2>2
  <2> HIDE DEF g
  <2>5. g \in Configs /\ g.tunnels = cfg.tunnels
    BY <1>0, <2>1, <2>3, ConfigIs, ConfigMade
  <2>6. Edited(e, cfg) = [tunnels |-> g.tunnels, active |-> g.active, setting |-> e.setting,
                          manager |-> e.manager, ddns |-> g.ddns]
    BY <2>1, <2>4, <2>5, ConfigExcept
  <2>7. Edited(e, cfg) \in Configs
    BY <2>1, <2>5, <2>6, ConfigIs, ConfigMade
  <2>8. Edited(e, cfg).tunnels = cfg.tunnels
    BY <2>5, <2>6
  <2> QED BY <2>7, <2>8 DEF Fits
<1>6. CASE e \in FeatureEdits
  <2>1. e.kind \in {"manager", "ddns"} /\ e.on \in BOOLEAN
    BY <1>6, KindsAre
  <2>2. cfg.ddns \in BOOLEAN /\ (cfg.ddns /\ e.on) \in BOOLEAN /\ cfg.manager \in BOOLEAN
    BY <1>0, ConfigIs
  <2>3. \A m \in BOOLEAN, d \in BOOLEAN :
           [tunnels |-> cfg.tunnels, active |-> cfg.active, setting |-> cfg.setting, manager |-> m, ddns |-> d]
             \in Configs
    BY <1>0, ConfigIs, ConfigMade
  <2>4. cfg = [tunnels |-> cfg.tunnels, active |-> cfg.active, setting |-> cfg.setting,
               manager |-> cfg.manager, ddns |-> cfg.ddns]
    BY <1>0, ConfigIs
  <2>5. \E m \in BOOLEAN, d \in BOOLEAN : Edited(e, cfg) =
           [tunnels |-> cfg.tunnels, active |-> cfg.active, setting |-> cfg.setting, manager |-> m, ddns |-> d]
    <3>1. CASE e.kind = "ddns"
      <4>1. Edited(e, cfg) = [cfg EXCEPT !.ddns = e.on]
        BY <3>1 DEF Edited
      <4>2. Edited(e, cfg) = [tunnels |-> cfg.tunnels, active |-> cfg.active, setting |-> cfg.setting,
                              manager |-> cfg.manager, ddns |-> e.on]
        BY <2>4, <4>1
      <4> QED BY <2>1, <2>2, <4>2
    <3>2. CASE e.kind = "manager"
      <4>1. Edited(e, cfg) = [cfg EXCEPT !.manager = e.on, !.ddns = cfg.ddns /\ e.on]
        BY <3>2 DEF Edited
      <4> DEFINE g == [cfg EXCEPT !.manager = e.on]
                 d == cfg.ddns /\ e.on
      <4>2. g = [tunnels |-> cfg.tunnels, active |-> cfg.active, setting |-> cfg.setting,
                 manager |-> e.on, ddns |-> cfg.ddns]
        BY <2>4
      <4>3. Edited(e, cfg) = [g EXCEPT !.ddns = d]
        BY <4>1
      <4>4. d \in BOOLEAN
        BY <2>2
      <4> HIDE DEF g, d
      <4>5. Edited(e, cfg) = [tunnels |-> cfg.tunnels, active |-> cfg.active, setting |-> cfg.setting,
                              manager |-> e.on, ddns |-> d]
        BY <4>2, <4>3
      <4> QED BY <2>1, <4>4, <4>5
    <3> QED BY <2>1, <3>1, <3>2
  <2>6. Edited(e, cfg) \in Configs /\ Edited(e, cfg).tunnels = cfg.tunnels
    BY <2>3, <2>5
  <2> QED BY <2>6 DEF Fits
<1>7. CASE e \in ImportEdits
  <2> DEFINE q == [i \in DOMAIN e.keys |-> ImportedProfile(cfg, e.keys[i])]
  <2>1. e.kind = "import" /\ q \in Seq(Profiles)
    BY <1>7, KindsAre, ImportListIs
  <2>2. e.active \in KeySpace
    BY <1>7, KindsAre, SecondKeyIs, DefaultKeyIs
  <2>3. Edited(e, cfg) = [cfg EXCEPT !.tunnels = q, !.active = e.active]
    BY <2>1 DEF Edited
  <2> HIDE DEF q
  <2>4. Edited(e, cfg) = [tunnels |-> q, active |-> e.active, setting |-> cfg.setting,
                          manager |-> cfg.manager, ddns |-> cfg.ddns]
    <3>1. \A r \in Seq(Profiles), n \in KeySpace : [cfg EXCEPT !.tunnels = r, !.active = n] =
            [tunnels |-> r, active |-> n, setting |-> cfg.setting, manager |-> cfg.manager, ddns |-> cfg.ddns]
      BY <1>0, ConfigExcept
    <3> QED BY <2>1, <2>2, <2>3, <3>1
  <2>5. Edited(e, cfg) \in Configs
    BY <1>0, <2>1, <2>2, <2>4, ConfigIs, ConfigMade
  <2>6. Edited(e, cfg).setting = cfg.setting /\ Edited(e, cfg).manager = cfg.manager
    BY <2>4
  <2> QED BY <2>5, <2>6 DEF Fits
<1> QED BY <1>1, <1>2, <1>3, <1>4, <1>5, <1>6, <1>7 DEF Edits

-----------------------------------------------------------------------------
(***************************************************************************)
(* What a save makes of an edit: the profiles by their keys.               *)
(***************************************************************************)
MapOf(q) == [k \in KeysOf(q) |-> q[IndexOf(q, k)]]

LEMMA MapIs ==
  ASSUME NEW q \in Seq(Profiles), Distinct(q)
  PROVE  /\ \A i \in 1..Len(q) : q[i].key \in KeysOf(q) /\ MapOf(q)[q[i].key] = q[i]
         /\ \A k \in KeysOf(q) : \E i \in 1..Len(q) : q[i].key = k /\ MapOf(q)[k] = q[i]
<1>1. ASSUME NEW i \in 1..Len(q) PROVE q[i].key \in KeysOf(q) /\ MapOf(q)[q[i].key] = q[i]
  <2>1. q[i].key \in KeysOf(q)
    BY SeqIs DEF KeysOf
  <2>2. i = IndexOf(q, q[i].key)
    BY <2>1, IndexOfIs
  <2> QED BY <2>1, <2>2 DEF MapOf
<1>2. ASSUME NEW k \in KeysOf(q) PROVE \E i \in 1..Len(q) : q[i].key = k /\ MapOf(q)[k] = q[i]
  BY IndexOfIs DEF MapOf
<1> QED BY <1>1, <1>2

\* One profile replaced by another of the same key.
LEMMA MapReplaced ==
  ASSUME NEW q \in Seq(Profiles), Distinct(q), NEW i \in 1..Len(q), NEW t \in Profiles, t.key = q[i].key
  PROVE  MapOf([q EXCEPT ![i] = t]) = [MapOf(q) EXCEPT ![t.key] = t]
<1> DEFINE r == [q EXCEPT ![i] = t]
<1>1. /\ r \in Seq(Profiles) /\ Len(r) = Len(q) /\ r[i] = t
      /\ \A j \in 1..Len(q) : j # i => r[j] = q[j]
      /\ KeysOf(r) = KeysOf(q) /\ Distinct(r)
  BY ReplacedIs
<1> HIDE DEF r
<1>2. ASSUME NEW k \in KeysOf(q) PROVE MapOf(r)[k] = IF k = t.key THEN t ELSE MapOf(q)[k]
  <2>1. PICK j \in 1..Len(q) : q[j].key = k /\ MapOf(q)[k] = q[j]
    BY MapIs
  <2>2. CASE j = i
    BY <1>1, <2>1, <2>2, MapIs
  <2>3. CASE j # i
    <3>1. k # t.key
      BY <2>1, <2>3 DEF Distinct
    <3>2. r[j] = q[j]
      BY <1>1, <2>3
    <3>3. MapOf(r)[r[j].key] = r[j]
      BY <1>1, MapIs
    <3> QED BY <2>1, <3>1, <3>2, <3>3
  <2> QED BY <2>2, <2>3
<1>3. MapOf(r) = [k \in KeysOf(q) |-> MapOf(r)[k]] /\ MapOf(q) = [k \in KeysOf(q) |-> MapOf(q)[k]]
  BY <1>1 DEF MapOf
<1>4. [MapOf(q) EXCEPT ![t.key] = t] = [k \in KeysOf(q) |-> IF k = t.key THEN t ELSE MapOf(q)[k]]
  BY <1>3
<1>5. MapOf(r) = [k \in KeysOf(q) |-> IF k = t.key THEN t ELSE MapOf(q)[k]]
  BY <1>2, <1>3
<1> QED BY <1>4, <1>5 DEF r

LEMMA MapAppended ==
  ASSUME NEW q \in Seq(Profiles), Distinct(q), NEW t \in Profiles, t.key # NoKey, t.key \notin KeysOf(q)
  PROVE  /\ KeysOf(Append(q, t)) = KeysOf(q) \cup {t.key}
         /\ MapOf(Append(q, t))[t.key] = t
         /\ \A k \in KeysOf(q) : MapOf(Append(q, t))[k] = MapOf(q)[k]
<1> DEFINE r == Append(q, t)
<1>1. /\ r \in Seq(Profiles) /\ Len(r) = Len(q) + 1 /\ Len(q) \in Nat /\ Distinct(r)
      /\ r[Len(q) + 1] = t /\ \A i \in 1..Len(q) : r[i] = q[i]
  BY AppendedIsDistinct
<1> HIDE DEF r
<1>2. 1..Len(r) = 1..Len(q) \cup {Len(q) + 1} /\ DOMAIN r = 1..Len(r) /\ DOMAIN q = 1..Len(q)
  BY <1>1
<1>3. KeysOf(r) = KeysOf(q) \cup {t.key}
  BY <1>1, <1>2 DEF KeysOf
<1>4. MapOf(r)[t.key] = t
  BY <1>1, <1>2, MapIs
<1>5. ASSUME NEW k \in KeysOf(q) PROVE MapOf(r)[k] = MapOf(q)[k]
  <2>1. PICK i \in 1..Len(q) : q[i].key = k /\ MapOf(q)[k] = q[i]
    BY MapIs
  <2>2. i \in 1..Len(r) /\ r[i] = q[i]
    BY <1>1, <1>2
  <2>3. MapOf(r)[r[i].key] = r[i]
    BY <1>1, <2>2, MapIs
  <2> QED BY <2>1, <2>2, <2>3
<1> QED BY <1>3, <1>4, <1>5 DEF r

\* One profile taken out, those behind it moved up.
Without(q, key) == [i \in 1..(Len(q) - 1) |-> q[IF i < IndexOf(q, key) THEN i ELSE i + 1]]

LEMMA MapShortened ==
  ASSUME NEW q \in Seq(Profiles), Distinct(q), NEW key \in KeysOf(q), Len(q) > 1
  PROVE  /\ Without(q, key) \in Seq(Profiles) /\ Without(q, key) # <<>> /\ Distinct(Without(q, key))
         /\ KeysOf(Without(q, key)) = KeysOf(q) \ {key}
         /\ \A k \in KeysOf(Without(q, key)) : MapOf(Without(q, key))[k] = MapOf(q)[k]
<1> DEFINE r == Without(q, key)
           at == IndexOf(q, key)
           n == Len(q) - 1
           from(i) == IF i < at THEN i ELSE i + 1
<1>1. /\ at \in 1..Len(q) /\ q[at].key = key /\ Len(q) \in Nat
      /\ \A i \in 1..Len(q) : q[i] \in Profiles
  BY IndexOfIs, SeqIs
<1>2. r = [i \in 1..n |-> q[from(i)]]
  BY DEF Without
<1> HIDE DEF at, r
<1>3. n \in Nat /\ n >= 1
  BY <1>1
<1>4. \A i \in 1..n : from(i) \in 1..Len(q) /\ from(i) # at
  BY <1>1
<1>5. \A i, j \in 1..n : from(i) = from(j) => i = j
  BY <1>1
<1>6. ASSUME NEW j \in 1..Len(q), j # at PROVE \E i \in 1..n : from(i) = j
  <2>1. CASE j < at
    <3>1. j \in 1..n /\ from(j) = j
      BY <1>1, <2>1
    <3> QED BY <3>1
  <2>2. CASE ~(j < at)
    <3>1. j - 1 \in 1..n /\ from(j - 1) = j
      BY <1>1, <1>6, <2>2
    <3> QED BY <3>1
  <2> QED BY <2>1, <2>2
<1> HIDE DEF n, from
<1>7. r \in Seq(Profiles) /\ Len(r) = n /\ \A i \in 1..n : r[i] = q[from(i)]
  <2>1. \A i \in 1..n : q[from(i)] \in Profiles
    BY <1>1, <1>4
  <2>2. [i \in 1..n |-> q[from(i)]] \in Seq(Profiles) /\ Len([i \in 1..n |-> q[from(i)]]) = n
    BY <1>3, <2>1
  <2> QED BY <1>2, <2>2
<1>8. r # <<>>
  <2>1. Len(r) # 0
    BY <1>3, <1>7
  <2> QED BY <1>7, <2>1, SeqIs
<1>9. Distinct(r)
  <2>1. \A i \in 1..n : r[i].key # NoKey
    BY <1>4, <1>7 DEF Distinct
  <2>2. ASSUME NEW i \in 1..n, NEW j \in 1..n, r[i].key = r[j].key PROVE i = j
    <3>1. q[from(i)].key = q[from(j)].key /\ from(i) \in 1..Len(q) /\ from(j) \in 1..Len(q)
      BY <1>4, <1>7, <2>2
    <3>2. from(i) = from(j)
      BY <3>1 DEF Distinct
    <3> QED BY <1>5, <3>2
  <2>3. \A i \in 1..Len(r) : r[i].key # NoKey
    BY <1>7, <2>1
  <2>4. \A i, j \in 1..Len(r) : r[i].key = r[j].key => i = j
    BY <1>7, <2>2
  <2> QED BY <2>3, <2>4 DEF Distinct
<1>10. DOMAIN r = 1..n /\ DOMAIN q = 1..Len(q)
  BY <1>7, SeqIs
<1>11. KeysOf(r) = KeysOf(q) \ {key}
  <2>1. ASSUME NEW k \in KeysOf(r) PROVE k \in KeysOf(q) \ {key}
    <3>1. PICK i \in 1..n : k = r[i].key
      BY <1>10 DEF KeysOf
    <3>2. k = q[from(i)].key /\ from(i) \in 1..Len(q) /\ from(i) # at
      BY <1>4, <1>7, <3>1
    <3>3. k # key
      BY <1>1, <3>2 DEF Distinct
    <3> QED BY <1>10, <3>2, <3>3 DEF KeysOf
  <2>2. ASSUME NEW k \in KeysOf(q) \ {key} PROVE k \in KeysOf(r)
    <3>1. PICK j \in 1..Len(q) : k = q[j].key
      BY <1>10 DEF KeysOf
    <3>2. j # at
      BY <1>1, <3>1
    <3>3. PICK i \in 1..n : from(i) = j
      BY <1>6, <3>2
    <3>4. k = r[i].key
      BY <1>7, <3>1, <3>3
    <3> QED BY <1>10, <3>4 DEF KeysOf
  <2> QED BY <2>1, <2>2
<1>12. ASSUME NEW k \in KeysOf(r) PROVE MapOf(r)[k] = MapOf(q)[k]
  <2>1. PICK i \in 1..n : r[i].key = k /\ MapOf(r)[k] = r[i]
    BY <1>7, <1>9, MapIs
  <2>2. r[i] = q[from(i)] /\ from(i) \in 1..Len(q)
    BY <1>4, <1>7
  <2>3. MapOf(q)[q[from(i)].key] = q[from(i)]
    BY <2>2, MapIs
  <2> QED BY <2>1, <2>2, <2>3
<1> QED BY <1>7, <1>8, <1>9, <1>11, <1>12 DEF r

LEMMA ProfileMapIs ==
  ASSUME NEW cfg, Normal(cfg)
  PROVE  /\ ProfileMap(cfg) = MapOf(cfg.tunnels) /\ DOMAIN ProfileMap(cfg) = KeysOf(cfg.tunnels)
         /\ cfg.active \in DOMAIN ProfileMap(cfg)
         /\ ProfileMap(cfg)[cfg.active] = ActiveTunnelProfile(cfg)
         /\ [ProfileMap(cfg) EXCEPT ![cfg.active] = ActiveTunnelProfile(cfg)] = ProfileMap(cfg)
<1>1. cfg.active \in KeysOf(cfg.tunnels)
  BY DEF Normal
<1>2. ProfileMap(cfg) = [k \in KeysOf(cfg.tunnels) |-> cfg.tunnels[IndexOf(cfg.tunnels, k)]]
  BY DEF ProfileMap
<1>3. ProfileMap(cfg)[cfg.active] = ActiveTunnelProfile(cfg)
  BY <1>1, <1>2 DEF ActiveTunnelProfile
<1> QED BY <1>1, <1>2, <1>3 DEF MapOf

\* The active profile replaced, in the map.
LEMMA ActiveMapped ==
  ASSUME NEW n, Normal(n), NEW t \in Profiles, t.key = n.active,
         NEW r, r = [n EXCEPT !.tunnels[IndexOf(n.tunnels, n.active)] = t]
  PROVE  Normal(r) /\ ProfileMap(r) = [ProfileMap(n) EXCEPT ![n.active] = t]
<1> DEFINE i == IndexOf(n.tunnels, n.active)
           q == [n.tunnels EXCEPT ![i] = t]
<1>1. n \in Configs /\ n.tunnels \in Seq(Profiles) /\ Distinct(n.tunnels) /\ n.active \in KeysOf(n.tunnels)
  BY ConfigIs DEF Normal
<1>2. i \in 1..Len(n.tunnels) /\ n.tunnels[i].key = n.active
  BY <1>1, IndexOfIs
<1>3. r = [n EXCEPT !.tunnels = q]
  <2>1. n = [tunnels |-> n.tunnels, active |-> n.active, setting |-> n.setting, manager |-> n.manager,
             ddns |-> n.ddns]
    BY <1>1, ConfigIs
  <2> QED BY <2>1
<1> HIDE DEF i
<1>4. MapOf(q) = [MapOf(n.tunnels) EXCEPT ![n.active] = t]
  <2>1. t.key = n.tunnels[i].key
    BY <1>2
  <2>2. MapOf(q) = [MapOf(n.tunnels) EXCEPT ![t.key] = t]
    BY <1>1, <1>2, <2>1, MapReplaced
  <2> QED BY <2>2
<1>5. q \in Seq(Profiles)
  BY <1>1, <1>2, ReplacedIs
<1> HIDE DEF q
<1>6. r.tunnels = q
  <2>1. r = [tunnels |-> q, active |-> n.active, setting |-> n.setting, manager |-> n.manager, ddns |-> n.ddns]
    BY <1>1, <1>3, <1>5, ConfigExcept
  <2> QED BY <2>1
<1>7. Normal(r)
  BY ActiveReplaced
<1> QED BY <1>4, <1>6, <1>7, ProfileMapIs

\* The same profiles, active key and DDNS switch.
Same(new, old) == ProfileMap(new) = ProfileMap(old) /\ new.active = old.active /\ new.ddns = old.ddns

LEMMA EssenceIsSame ==
  ASSUME NEW new, NEW old, Essence(new) = Essence(old) PROVE Same(new, old)
<1>1. new.tunnels = old.tunnels /\ new.active = old.active /\ new.ddns = old.ddns
  BY DEF Essence
<1> QED BY <1>1 DEF Same, ProfileMap

LEMMA SyncedMaps ==
  ASSUME NEW cfg, Normal(cfg), NEW r, r = syncActiveTunnelFromTopLevel(cfg)
  PROVE  /\ ProfileMap(r) = [ProfileMap(cfg) EXCEPT ![cfg.active] =
                               Profile(cfg.active, cfg.setting, TRUE, cfg.manager)]
         /\ r.active = cfg.active /\ r.ddns = cfg.ddns
<1> DEFINE t == Profile(cfg.active, cfg.setting, TRUE, cfg.manager)
<1>1. cfg \in Configs /\ normalizeTunnelProfiles(cfg) = cfg
  BY NormalizedIs DEF Normal
<1>2. r = [cfg EXCEPT !.tunnels[IndexOf(cfg.tunnels, cfg.active)] = t]
  BY <1>1 DEF syncActiveTunnelFromTopLevel, tunnelProfileFromTopLevel
<1>3. t \in Profiles /\ t.key = cfg.active
  <2>1. cfg.active \in KeySpace /\ cfg.setting \in Settings /\ cfg.manager \in BOOLEAN
    BY <1>1, ConfigIs
  <2> QED BY <2>1, EnabledProfileIs
<1> HIDE DEF t
<1>4. ProfileMap(r) = [ProfileMap(cfg) EXCEPT ![cfg.active] = t]
  BY <1>2, <1>3, ActiveMapped
<1>5. r.active = cfg.active /\ r.ddns = cfg.ddns
  BY <1>2, <1>3, ActiveReplaced
<1> QED BY <1>4, <1>5 DEF t

LEMMA ManagerSyncedMaps ==
  ASSUME NEW cfg, Normal(cfg), NEW r, r = syncActiveTunnelManagementFromTopLevel(cfg)
  PROVE  /\ ProfileMap(r) = [ProfileMap(cfg) EXCEPT ![cfg.active] =
                               Profile(cfg.active, ActiveTunnelProfile(cfg).setting,
                                       ActiveTunnelProfile(cfg).local, cfg.manager)]
         /\ r.active = cfg.active /\ r.ddns = cfg.ddns
<1> DEFINE a == ActiveTunnelProfile(cfg)
           t == Profile(cfg.active, a.setting, a.local, cfg.manager)
           i == IndexOf(cfg.tunnels, cfg.active)
<1>1. cfg \in Configs /\ normalizeTunnelProfiles(cfg) = cfg
  BY NormalizedIs DEF Normal
<1>2. r = [cfg EXCEPT !.tunnels[i].manager = cfg.manager]
  BY <1>1 DEF syncActiveTunnelManagementFromTopLevel
<1>3. a \in Profiles /\ a.key = cfg.active /\ a = cfg.tunnels[i]
  BY ActiveProfileIs DEF ActiveTunnelProfile
<1> HIDE DEF a
<1>4. t = [a EXCEPT !.manager = cfg.manager]
  <2>1. a = [key |-> a.key, setting |-> a.setting, local |-> a.local, manager |-> a.manager]
    BY <1>3 DEF Profiles
  <2>2. [a EXCEPT !.manager = cfg.manager] =
          [key |-> a.key, setting |-> a.setting, local |-> a.local, manager |-> cfg.manager]
    BY <2>1
  <2> QED BY <1>3, <2>2 DEF Profile
<1>5. t \in Profiles /\ t.key = cfg.active
  <2>1. a.setting \in Settings /\ a.local \in BOOLEAN
    BY <1>3 DEF Profiles
  <2> QED BY <1>1, <2>1, ConfigIs, ProfileIs
<1> HIDE DEF t
<1>6. r = [cfg EXCEPT !.tunnels[i] = t]
  <2> HIDE DEF i
  <2> QED BY <1>2, <1>3, <1>4
<1>7. ProfileMap(r) = [ProfileMap(cfg) EXCEPT ![cfg.active] = t]
  BY <1>5, <1>6, ActiveMapped
<1>8. r.active = cfg.active /\ r.ddns = cfg.ddns
  BY <1>5, <1>6, ActiveReplaced
<1> QED BY <1>7, <1>8 DEF t, a

LEMMA MirroredProfile ==
  ASSUME NEW cfg, Normal(cfg), Mirrored(cfg)
  PROVE  Profile(cfg.active, cfg.setting, ActiveTunnelProfile(cfg).local, cfg.manager) = ActiveTunnelProfile(cfg)
<1>1. /\ ActiveTunnelProfile(cfg) \in Profiles /\ ActiveTunnelProfile(cfg).key = cfg.active
      /\ ActiveTunnelProfile(cfg).setting = cfg.setting /\ ActiveTunnelProfile(cfg).manager = cfg.manager
  BY ActiveProfileIs DEF Mirrored
<1>2. ActiveTunnelProfile(cfg) =
        [key |-> ActiveTunnelProfile(cfg).key, setting |-> ActiveTunnelProfile(cfg).setting,
         local |-> ActiveTunnelProfile(cfg).local, manager |-> ActiveTunnelProfile(cfg).manager]
  BY <1>1 DEF Profiles
<1> QED BY <1>1, <1>2 DEF Profile

\* The merge of a copy that is mirrored already changes nothing in it, but for
\* one thing: if the setting at the top level is another one than in current and
\* the active profile is the same, the active profile is enabled.
Enabled(cfg) == Profile(cfg.active, cfg.setting, TRUE, cfg.manager)
IsEnabled(new, cfg) == /\ ProfileMap(new) = [ProfileMap(cfg) EXCEPT ![cfg.active] = Enabled(cfg)]
                       /\ new.active = cfg.active /\ new.ddns = cfg.ddns

LEMMA MergedMirrored ==
  ASSUME NEW cfg, Normal(cfg), Mirrored(cfg), NEW current, Normal(current)
  PROVE  IF cfg.active = current.active /\ cfg.setting # current.setting
         THEN IsEnabled(Merged(cfg, current), cfg)
         ELSE Same(Merged(cfg, current), cfg)
<1> DEFINE new == [cfg EXCEPT !.active = IF cfg.active = NoKey THEN current.active ELSE cfg.active]
           m == Merged(cfg, current)
<1>1. IF new.active = current.active /\ new.setting # current.setting
      THEN m = syncActiveTunnelFromTopLevel(new)
      ELSE \/ m = syncActiveTunnelManagementFromTopLevel(new)
           \/ m = applyActiveTunnelToTopLevel(new)
  BY DEF Merged
<1>2. cfg.active # NoKey /\ cfg \in Configs
  BY ActiveProfileIs DEF Normal
<1>3. new = cfg
  <2>1. new = [cfg EXCEPT !.active = cfg.active]
    BY <1>2
  <2> HIDE DEF new
  <2>2. new = [tunnels |-> cfg.tunnels, active |-> cfg.active, setting |-> cfg.setting,
               manager |-> cfg.manager, ddns |-> cfg.ddns]
    BY <1>2, <2>1, ConfigIs, ConfigExcept
  <2> QED BY <1>2, <2>2, ConfigIs
<1> HIDE DEF new, m
<1>4. ASSUME m = syncActiveTunnelFromTopLevel(cfg) PROVE IsEnabled(m, cfg)
  BY <1>4, SyncedMaps DEF IsEnabled, Enabled
<1>5. ASSUME m = syncActiveTunnelManagementFromTopLevel(cfg) PROVE Same(m, cfg)
  <2>1. ActiveTunnelProfile(cfg).setting = cfg.setting
    BY DEF Mirrored
  <2> QED BY <1>5, <2>1, ManagerSyncedMaps, MirroredProfile, ProfileMapIs DEF Same
<1>6. ASSUME m = applyActiveTunnelToTopLevel(cfg) PROVE Same(m, cfg)
  <2>1. Essence(m) = Essence(cfg)
    BY <1>2, <1>6, AppliedIs
  <2> QED BY <2>1, EssenceIsSame
<1> QED BY <1>1, <1>3, <1>4, <1>5, <1>6 DEF m

\* The merge of an edit of the top-level fields: it goes to the active profile.
LEMMA MergedTop ==
  ASSUME NEW current, Normal(current), Mirrored(current),
         NEW cfg \in Configs, cfg.tunnels = current.tunnels, cfg.active \in {NoKey, current.active}
  PROVE  /\ ProfileMap(Merged(cfg, current)) =
              [ProfileMap(current) EXCEPT ![current.active] =
                 Profile(current.active, cfg.setting,
                         ActiveTunnelProfile(current).local \/ cfg.setting # current.setting, cfg.manager)]
         /\ Merged(cfg, current).active = current.active /\ Merged(cfg, current).ddns = cfg.ddns
<1> DEFINE k == IF cfg.active = NoKey THEN current.active ELSE cfg.active
           new == [cfg EXCEPT !.active = k]
           m == Merged(cfg, current)
           l == ActiveTunnelProfile(current).local \/ cfg.setting # current.setting
           t == Profile(current.active, cfg.setting, l, cfg.manager)
<1>0. /\ cfg.setting # current.setting => l = TRUE
      /\ cfg.setting = current.setting => l = ActiveTunnelProfile(current).local
  BY ActiveProfileIs
<1> HIDE DEF l
<1>1. m = IF new.active = current.active /\ new.setting # current.setting
          THEN syncActiveTunnelFromTopLevel(new)
          ELSE IF new.active = current.active /\ new.manager # current.manager
          THEN syncActiveTunnelManagementFromTopLevel(new)
          ELSE applyActiveTunnelToTopLevel(new)
  BY DEF Merged
<1>2. k = current.active /\ k \in KeySpace
  BY ActiveProfileIs
<1> HIDE DEF k
<1>3. new = [tunnels |-> current.tunnels, active |-> current.active, setting |-> cfg.setting,
             manager |-> cfg.manager, ddns |-> cfg.ddns]
  <2>1. [cfg EXCEPT !.active = k] = [tunnels |-> cfg.tunnels, active |-> k, setting |-> cfg.setting,
                                     manager |-> cfg.manager, ddns |-> cfg.ddns]
    BY <1>2, ConfigExcept
  <2> QED BY <1>2, <2>1
<1> HIDE DEF new, m
<1>4. /\ new.tunnels = current.tunnels /\ new.active = current.active /\ new.setting = cfg.setting
      /\ new.manager = cfg.manager /\ new.ddns = cfg.ddns
  BY <1>3
<1>5. new \in Configs
  <2>1. current \in Configs
    BY DEF Normal
  <2> QED BY <1>3, <2>1, ConfigIs, ConfigMade
<1>6. Normal(new)
  BY <1>4, <1>5 DEF Normal
<1>7. ProfileMap(new) = ProfileMap(current) /\ ActiveTunnelProfile(new) = ActiveTunnelProfile(current)
  BY <1>4 DEF ProfileMap, ActiveTunnelProfile
<1>8. CASE new.setting # current.setting
  <2>1. m = syncActiveTunnelFromTopLevel(new)
    BY <1>1, <1>4, <1>8
  <2>2. /\ ProfileMap(m) = [ProfileMap(current) EXCEPT ![current.active] =
                               Profile(current.active, cfg.setting, TRUE, cfg.manager)]
        /\ m.active = current.active /\ m.ddns = cfg.ddns
    <3>1. /\ ProfileMap(m) = [ProfileMap(new) EXCEPT ![new.active] =
                                 Profile(new.active, new.setting, TRUE, new.manager)]
          /\ m.active = new.active /\ m.ddns = new.ddns
      BY <1>6, <2>1, SyncedMaps
    <3> QED BY <1>4, <1>7, <3>1
  <2>3. l = TRUE
    BY <1>0, <1>4, <1>8
  <2>4. t = Profile(current.active, cfg.setting, TRUE, cfg.manager)
    BY <2>3, Zenon
  <2> HIDE DEF t
  <2>5. ProfileMap(m) = [ProfileMap(current) EXCEPT ![current.active] = t]
    BY <2>2, <2>4
  <2> QED BY <2>2, <2>5 DEF m, l, t
<1>9. CASE new.setting = current.setting /\ new.manager # current.manager
  <2>1. m = syncActiveTunnelManagementFromTopLevel(new)
    BY <1>1, <1>4, <1>9
  <2>2. ActiveTunnelProfile(new).setting = cfg.setting
    BY <1>4, <1>7, <1>9 DEF Mirrored
  <2> QED BY <1>0, <1>4, <1>6, <1>7, <1>9, <2>1, <2>2, ManagerSyncedMaps DEF m, l
<1>10. CASE new.setting = current.setting /\ new.manager = current.manager
  <2>1. m = applyActiveTunnelToTopLevel(new)
    BY <1>1, <1>4, <1>10
  <2>2. Essence(m) = Essence(new)
    BY <1>5, <1>6, <2>1, AppliedIs
  <2>3. Same(m, new)
    BY <2>2, EssenceIsSame
  <2>4. t = ActiveTunnelProfile(current)
    BY <1>0, <1>4, <1>10, MirroredProfile
  <2> QED BY <1>4, <1>7, <2>3, <2>4, ProfileMapIs DEF Same, m, l
<1> QED BY <1>8, <1>9, <1>10

\* The merge of a copy that names another active profile: it only switches.
LEMMA MergedSwitch ==
  ASSUME NEW current, Normal(current),
         NEW cfg \in Configs, cfg.tunnels = current.tunnels, cfg.active \notin {NoKey, current.active}
  PROVE  /\ ProfileMap(Merged(cfg, current)) = ProfileMap(current)
         /\ Merged(cfg, current).active = Known(current, cfg.active)
<1> DEFINE new == [cfg EXCEPT !.active = IF cfg.active = NoKey THEN current.active ELSE cfg.active]
           m == Merged(cfg, current)
<1>1. m = IF new.active = current.active /\ new.setting # current.setting
          THEN syncActiveTunnelFromTopLevel(new)
          ELSE IF new.active = current.active /\ new.manager # current.manager
          THEN syncActiveTunnelManagementFromTopLevel(new)
          ELSE applyActiveTunnelToTopLevel(new)
  BY DEF Merged
<1>2. new = cfg
  <2>1. new = [cfg EXCEPT !.active = cfg.active]
    OBVIOUS
  <2> HIDE DEF new
  <2>2. new = [tunnels |-> cfg.tunnels, active |-> cfg.active, setting |-> cfg.setting,
               manager |-> cfg.manager, ddns |-> cfg.ddns]
    BY <2>1, ConfigIs, ConfigExcept
  <2> QED BY <2>2, ConfigIs
<1> HIDE DEF new, m
<1>3. m = applyActiveTunnelToTopLevel(cfg)
  BY <1>1, <1>2
<1>4. Listed(cfg) = current.tunnels
  BY ListedIs DEF Normal
<1>5. m.tunnels = current.tunnels /\ m.active = ActiveIn(cfg, current.tunnels)
  BY <1>3, <1>4, AppliedIs
<1>6. m.active = Known(current, cfg.active)
  BY <1>5 DEF ActiveIn, Known
<1> QED BY <1>5, <1>6 DEF ProfileMap, m

\* The profile as it is put into the list, and what the map then is.
PutAs(cfg, t) == NormalProfile(t, Len(cfg.tunnels) + 1)
IsPut(new, cfg, u) == /\ DOMAIN ProfileMap(new) = DOMAIN ProfileMap(cfg) \cup {u.key}
                      /\ ProfileMap(new)[u.key] = u
                      /\ \A k \in DOMAIN ProfileMap(cfg) : k # u.key => ProfileMap(new)[k] = ProfileMap(cfg)[k]
                      /\ new.active = cfg.active

LEMMA PutMaps ==
  ASSUME NEW cfg, Normal(cfg), NEW t \in Profiles
  PROVE  /\ (t.key # NoKey => PutAs(cfg, t) = t) /\ PutAs(cfg, t).setting = t.setting
         /\ IsPut(PutProfile(cfg, t), cfg, PutAs(cfg, t))
<1> DEFINE new == PutProfile(cfg, t)
           u == PutAs(cfg, t)
           q == cfg.tunnels
           put == IF u.key \in KeysOf(q) THEN [cfg EXCEPT !.tunnels[IndexOf(q, u.key)] = u]
                  ELSE [cfg EXCEPT !.tunnels = Append(@, u)]
<1>1. new = applyActiveTunnelToTopLevel(put)
  BY DEF PutProfile, PutAs
<1>u. u = NormalProfile(t, Len(q) + 1)
  BY DEF PutAs
<1> HIDE DEF new, u
<1>2. /\ cfg \in Configs /\ q \in Seq(Profiles) /\ Len(q) + 1 \in Nat /\ Len(q) + 1 # 0
      /\ q # <<>> /\ Distinct(q) /\ cfg.active \in KeysOf(q) /\ cfg.active \in KeySpace
  BY ConfigIs, SeqIs DEF Normal
<1>3. u \in Profiles /\ u.key # NoKey /\ (t.key # NoKey => u = t)
  BY <1>u, <1>2, NormalProfileIs
<1>4. u.setting = t.setting
  <2>1. \A k \in KeySpace : [t EXCEPT !.key = k].setting = t.setting
    BY DEF Profiles
  <2>2. CASE t.key # NoKey
    BY <1>3, <2>2
  <2>3. CASE t.key = NoKey
    <3>1. u = [t EXCEPT !.key = IF Len(q) + 1 = 1 THEN DefaultTunnelProfileKey ELSE NumberedKey(Len(q) + 1)]
      BY <1>u, <2>3 DEF NormalProfile
    <3> HIDE DEF q
    <3>2. PICK k : u = [t EXCEPT !.key = k]
      BY <3>1
    <3>3. [t EXCEPT !.key = k].setting = t.setting
      BY DEF Profiles
    <3> QED BY <3>2, <3>3
  <2> QED BY <2>2, <2>3
<1>5. ProfileMap(cfg) = MapOf(q) /\ DOMAIN MapOf(q) = KeysOf(q)
  BY ProfileMapIs
<1>6. CASE u.key \in KeysOf(q)
  <2> DEFINE i == IndexOf(q, u.key)
             r == [q EXCEPT ![i] = u]
  <2>1. i \in 1..Len(q) /\ u.key = q[i].key
    BY <1>2, <1>6, IndexOfIs
  <2>2. put = [cfg EXCEPT !.tunnels = r]
    <3>1. cfg = [tunnels |-> cfg.tunnels, active |-> cfg.active, setting |-> cfg.setting,
                 manager |-> cfg.manager, ddns |-> cfg.ddns]
      BY <1>2, ConfigIs
    <3>2. put = [cfg EXCEPT !.tunnels[i] = u]
      BY <1>6
    <3> HIDE DEF i, put
    <3> QED BY <3>1, <3>2
  <2> HIDE DEF i, put
  <2>3. r \in Seq(Profiles) /\ Len(r) = Len(q) /\ KeysOf(r) = KeysOf(q) /\ Distinct(r)
    BY <1>2, <1>3, <2>1, ReplacedIs
  <2>4. MapOf(r) = [MapOf(q) EXCEPT ![u.key] = u]
    BY <1>2, <1>3, <2>1, MapReplaced
  <2>5. r # <<>>
    BY <1>2, <2>3, SeqIs
  <2> HIDE DEF r
  <2>6. put = [tunnels |-> r, active |-> cfg.active, setting |-> cfg.setting,
               manager |-> cfg.manager, ddns |-> cfg.ddns]
    BY <1>2, <2>2, <2>3, ConfigExcept
  <2>7. put \in Configs
    BY <1>2, <2>2, <2>3, ConfigStays
  <2>8. put.tunnels = r /\ put.active = cfg.active
    BY <2>6
  <2>9. Normal(put)
    BY <1>2, <2>3, <2>5, <2>7, <2>8 DEF Normal
  <2>10. Same(new, put)
    <3>1. Essence(new) = Essence(put)
      BY <1>1, <2>7, <2>9, AppliedIs
    <3> QED BY <3>1, EssenceIsSame
  <2>11. ProfileMap(new) = MapOf(r) /\ new.active = cfg.active
    BY <2>8, <2>9, <2>10, ProfileMapIs DEF Same
  <2>12. KeysOf(q) = KeysOf(q) \cup {u.key}
    BY <1>6
  <2> HIDE DEF q
  <2>13. IsPut(new, cfg, u)
    BY <1>5, <1>6, <2>4, <2>11, <2>12 DEF IsPut
  <2> QED BY <1>3, <1>4, <2>13 DEF new, u
<1>7. CASE u.key \notin KeysOf(q)
  <2> DEFINE r == Append(q, u)
  <2>1. put = [cfg EXCEPT !.tunnels = r]
    BY <1>7
  <2> HIDE DEF put
  <2>2. r \in Seq(Profiles) /\ Len(r) = Len(q) + 1 /\ Distinct(r)
    BY <1>2, <1>3, <1>7, AppendedIsDistinct
  <2>3. /\ KeysOf(r) = KeysOf(q) \cup {u.key} /\ MapOf(r)[u.key] = u
        /\ \A k \in KeysOf(q) : MapOf(r)[k] = MapOf(q)[k]
    BY <1>2, <1>3, <1>7, MapAppended
  <2>4. r # <<>>
    BY <1>2, <2>2, SeqIs
  <2> HIDE DEF r
  <2>5. put = [tunnels |-> r, active |-> cfg.active, setting |-> cfg.setting,
               manager |-> cfg.manager, ddns |-> cfg.ddns]
    BY <1>2, <2>1, <2>2, ConfigExcept
  <2>6. put \in Configs
    BY <1>2, <2>1, <2>2, ConfigStays
  <2>7. put.tunnels = r /\ put.active = cfg.active
    BY <2>5
  <2>8. Normal(put)
    BY <1>2, <2>2, <2>3, <2>4, <2>6, <2>7 DEF Normal
  <2>9. Same(new, put)
    <3>1. Essence(new) = Essence(put)
      BY <1>1, <2>6, <2>8, AppliedIs
    <3> QED BY <3>1, EssenceIsSame
  <2>10. ProfileMap(new) = MapOf(r) /\ new.active = cfg.active /\ DOMAIN ProfileMap(new) = KeysOf(r)
    BY <2>7, <2>8, <2>9, ProfileMapIs DEF Same
  <2> HIDE DEF q
  <2>11. IsPut(new, cfg, u)
    BY <1>5, <2>3, <2>10 DEF IsPut
  <2> QED BY <1>3, <1>4, <2>11 DEF new, u
<1> QED BY <1>6, <1>7

IsDeleted(new, cfg, key) == /\ DOMAIN ProfileMap(new) = DOMAIN ProfileMap(cfg) \ {key}
                            /\ \A k \in DOMAIN ProfileMap(new) : ProfileMap(new)[k] = ProfileMap(cfg)[k]
                            /\ cfg.active # key => new.active = cfg.active

LEMMA DeletedMaps ==
  ASSUME NEW cfg, Normal(cfg), NEW key \in KeysOf(cfg.tunnels), Len(cfg.tunnels) > 1
  PROVE  IsDeleted(DeleteProfile(cfg, key), cfg, key)
<1> DEFINE new == DeleteProfile(cfg, key)
           q == cfg.tunnels
           r == Without(q, key)
           k == IF cfg.active = key THEN r[1].key ELSE cfg.active
           left == [cfg EXCEPT !.tunnels = r, !.active = k]
<1>1. new = applyActiveTunnelToTopLevel(left)
  BY DEF DeleteProfile, Without
<1> HIDE DEF new
<1>2. /\ cfg \in Configs /\ q \in Seq(Profiles) /\ Distinct(q)
      /\ cfg.active \in KeysOf(q) /\ cfg.active \in KeySpace
  BY ConfigIs DEF Normal
<1>3. /\ r \in Seq(Profiles) /\ r # <<>> /\ Distinct(r) /\ KeysOf(r) = KeysOf(q) \ {key}
      /\ \A j \in KeysOf(r) : MapOf(r)[j] = MapOf(q)[j]
  BY <1>2, MapShortened
<1> HIDE DEF r, q
<1>4. k \in KeysOf(r) /\ k \in KeySpace /\ (cfg.active # key => k = cfg.active)
  BY <1>2, <1>3, DistinctNotEmpty
<1> HIDE DEF k
<1>5. left \in Configs
  BY <1>2, <1>3, <1>4, ConfigStays
<1>6. left.tunnels = r /\ left.active = k
  <2>1. \A s \in Seq(Profiles), n \in KeySpace : [cfg EXCEPT !.tunnels = s, !.active = n] =
          [tunnels |-> s, active |-> n, setting |-> cfg.setting, manager |-> cfg.manager, ddns |-> cfg.ddns]
    BY <1>2, ConfigExcept
  <2>2. left = [tunnels |-> r, active |-> k, setting |-> cfg.setting, manager |-> cfg.manager, ddns |-> cfg.ddns]
    BY <1>3, <1>4, <2>1
  <2> HIDE DEF left
  <2> QED BY <2>2
<1> HIDE DEF left
<1>7. Normal(left)
  BY <1>3, <1>4, <1>5, <1>6 DEF Normal
<1>8. Same(new, left)
  <2>1. Essence(new) = Essence(left)
    BY <1>1, <1>5, <1>7, AppliedIs
  <2> QED BY <2>1, EssenceIsSame
<1>9. ProfileMap(new) = MapOf(r) /\ DOMAIN ProfileMap(new) = KeysOf(r) /\ new.active = k
  BY <1>6, <1>7, <1>8, ProfileMapIs DEF Same
<1>10. ProfileMap(cfg) = MapOf(q) /\ DOMAIN ProfileMap(cfg) = KeysOf(q)
  BY ProfileMapIs DEF q
<1> QED BY <1>3, <1>4, <1>9, <1>10 DEF IsDeleted, new

-----------------------------------------------------------------------------
(***************************************************************************)
(* Each edit does what it says.                                            *)
(***************************************************************************)
Result(e, cfg) == Merged(Edited(e, cfg), cfg)

\* The active profile in the map.
LEMMA ActiveIsMapped ==
  ASSUME NEW cfg, Normal(cfg), Mirrored(cfg)
  PROVE  /\ cfg.active \in DOMAIN ProfileMap(cfg)
         /\ ProfileMap(cfg)[cfg.active] = ActiveTunnelProfile(cfg)
         /\ cfg.setting = ProfileMap(cfg)[cfg.active].setting
         /\ cfg.manager = ProfileMap(cfg)[cfg.active].manager
BY ProfileMapIs DEF Normal, Mirrored

LEMMA PutMeans ==
  ASSUME NEW cfg, Normal(cfg), Mirrored(cfg), NEW e \in PutEdits PROVE Means(e, cfg, Result(e, cfg))
<1> DEFINE t == Profile(e.key, e.setting, e.local, e.manager)
           new == PutProfile(cfg, t)
<1>1. e.kind = "put" /\ t \in Profiles /\ t.key = e.key /\ e.key # NoKey
  BY KindsAre, KeysAreKeys, ProfileIs
<1>2. Edited(e, cfg) = new
  BY <1>1 DEF Edited
<1>3. Normal(new) /\ Mirrored(new)
  BY <1>1, PutIs
<1>4. IF new.active = cfg.active /\ new.setting # cfg.setting
      THEN IsEnabled(Result(e, cfg), new) ELSE Same(Result(e, cfg), new)
  BY <1>2, <1>3, MergedMirrored DEF Result
<1>t. t.setting = e.setting /\ t.manager = e.manager
  BY KindsAre, KeysAreKeys, ProfileIs
<1> HIDE DEF t
<1>5. IsPut(new, cfg, t)
  BY <1>1, PutMaps
<1>a. /\ new.setting = ProfileMap(new)[new.active].setting /\ new.manager = ProfileMap(new)[new.active].manager
      /\ cfg.setting = ProfileMap(cfg)[cfg.active].setting /\ cfg.active \in DOMAIN ProfileMap(cfg)
  BY <1>3, ActiveIsMapped
<1> DEFINE res == Result(e, cfg)
           on == e.setting # ProfileMap(cfg)[cfg.active].setting
           p(k) == Profile(k, e.setting, e.local \/ (k = cfg.active /\ on), e.manager)
<1> HIDE DEF new, res
<1>6. new.active = cfg.active /\ DOMAIN ProfileMap(new) = DOMAIN ProfileMap(cfg) \cup {e.key}
  BY <1>1, <1>5 DEF IsPut
<1>7. CASE new.setting # cfg.setting
  <2>1. IsEnabled(res, new)
    BY <1>4, <1>6, <1>7 DEF res
  <2>2. e.key = cfg.active
    BY <1>1, <1>5, <1>6, <1>7, <1>a DEF IsPut
  <2>3. new.setting = e.setting /\ new.manager = e.manager /\ on
    BY <1>1, <1>5, <1>6, <1>7, <1>a, <1>t, <2>2 DEF IsPut
  <2>4. Enabled(new) = p(e.key)
    <3>1. (e.local \/ (e.key = cfg.active /\ on)) = TRUE
      BY <2>2, <2>3
    <3> QED BY <1>6, <2>2, <2>3, <3>1 DEF Enabled
  <2> HIDE DEF p, on
  <2>5. /\ DOMAIN ProfileMap(res) = DOMAIN ProfileMap(cfg) \cup {e.key} /\ res.active = cfg.active
        /\ \A k \in DOMAIN ProfileMap(res) : ProfileMap(res)[k] = IF k = e.key THEN p(k) ELSE ProfileMap(cfg)[k]
    BY <1>1, <1>5, <1>6, <2>1, <2>2, <2>4 DEF IsEnabled, IsPut
  <2> QED BY <1>1, <2>5 DEF Means, p, on, res
<1>8. CASE new.setting = cfg.setting
  <2>1. Same(res, new)
    BY <1>4, <1>8 DEF res
  <2>2. e.key = cfg.active => ~on
    <3>1. ProfileMap(new)[e.key] = t
      BY <1>1, <1>5 DEF IsPut
    <3>2. ASSUME e.key = cfg.active PROVE e.setting = ProfileMap(cfg)[cfg.active].setting
      BY <1>6, <1>8, <1>a, <1>t, <3>1, <3>2
    <3> QED BY <3>2
  <2>3. t = p(e.key)
    <3>1. e.local \in BOOLEAN
      BY KindsAre
    <3>2. (e.local \/ (e.key = cfg.active /\ on)) = e.local
      BY <2>2, <3>1
    <3> HIDE DEF on
    <3> QED BY <3>2 DEF t
  <2> HIDE DEF p, on
  <2>4. /\ DOMAIN ProfileMap(res) = DOMAIN ProfileMap(cfg) \cup {e.key} /\ res.active = cfg.active
        /\ \A k \in DOMAIN ProfileMap(res) : ProfileMap(res)[k] = IF k = e.key THEN p(k) ELSE ProfileMap(cfg)[k]
    BY <1>1, <1>5, <1>6, <2>1, <2>3 DEF Same, IsPut
  <2> QED BY <1>1, <2>4 DEF Means, p, on, res
<1> QED BY <1>7, <1>8

LEMMA CreateMeans ==
  ASSUME NEW cfg, Normal(cfg), Mirrored(cfg), NEW e \in CreateEdits PROVE Means(e, cfg, Result(e, cfg))
<1> DEFINE t == Profile(NoKey, e.setting, TRUE, TRUE)
           new == PutProfile(cfg, t)
           u == PutAs(cfg, t)
<1>1. e.kind = "create" /\ t \in Profiles /\ t.setting = e.setting
  <2>1. NoKey \in KeySpace
    BY DEF NoKey, KeySpace
  <2>2. e.kind = "create" /\ e.setting \in Settings
    BY KindsAre
  <2>3. TRUE \in BOOLEAN
    OBVIOUS
  <2> QED BY <2>1, <2>2, <2>3, ProfileIs
<1>2. Edited(e, cfg) = new
  BY <1>1 DEF Edited
<1>3. Normal(new) /\ Mirrored(new)
  BY <1>1, PutIs
<1>4. IF new.active = cfg.active /\ new.setting # cfg.setting
      THEN IsEnabled(Result(e, cfg), new) ELSE Same(Result(e, cfg), new)
  BY <1>2, <1>3, MergedMirrored DEF Result
<1> HIDE DEF t
<1>5. IsPut(new, cfg, u) /\ u.setting = e.setting
  BY <1>1, PutMaps
<1>a. /\ new.setting = ProfileMap(new)[new.active].setting
      /\ cfg.setting = ProfileMap(cfg)[cfg.active].setting /\ cfg.active \in DOMAIN ProfileMap(cfg)
  BY <1>3, ActiveIsMapped
<1>b. Enabled(new).setting = new.setting
  BY DEF Enabled, Profile
<1> HIDE DEF new, u
\* Only a profile put in the active one's place is enabled by the merge.
<1>c. new.setting # cfg.setting => u.key = cfg.active
  BY <1>5, <1>a DEF IsPut
<1>6. \E key \in DOMAIN ProfileMap(Result(e, cfg)) :
         /\ ProfileMap(Result(e, cfg))[key].setting = e.setting
         /\ \A k \in DOMAIN ProfileMap(cfg) \ {key} :
              k \in DOMAIN ProfileMap(Result(e, cfg)) /\ ProfileMap(Result(e, cfg))[k] = ProfileMap(cfg)[k]
  <2>1. CASE new.setting = cfg.setting
    BY <1>4, <1>5, <2>1 DEF Same, IsPut
  <2>2. CASE new.setting # cfg.setting
    <3>1. u.key = cfg.active /\ new.active = u.key /\ IsEnabled(Result(e, cfg), new) /\ new.setting = e.setting
      BY <1>4, <1>5, <1>a, <1>c, <2>2 DEF IsPut
    <3> QED BY <1>5, <1>b, <3>1 DEF IsEnabled, IsPut
  <2> QED BY <2>1, <2>2
<1> QED BY <1>1, <1>6 DEF Means

LEMMA DeleteMeans ==
  ASSUME NEW cfg, Normal(cfg), Mirrored(cfg), NEW e \in DeleteEdits, Allowed(e, cfg) PROVE Means(e, cfg, Result(e, cfg))
<1> DEFINE new == DeleteProfile(cfg, e.key)
<1>1. e.kind = "delete"
  BY KindsAre
<1>2. e.key \in KeysOf(cfg.tunnels) /\ Len(cfg.tunnels) > 1
  BY <1>1 DEF Allowed
<1>3. Edited(e, cfg) = new
  BY <1>1 DEF Edited
<1>4. Normal(new) /\ Mirrored(new)
  BY <1>2, DeletedIs
<1>6. IsDeleted(new, cfg, e.key)
  BY <1>2, DeletedMaps
<1>5. Same(Result(e, cfg), new)
  <2>1. /\ new.setting = ProfileMap(new)[new.active].setting /\ new.active \in DOMAIN ProfileMap(new)
        /\ cfg.setting = ProfileMap(cfg)[cfg.active].setting
    BY <1>4, ActiveIsMapped
  <2>2. new.active = cfg.active => new.setting = cfg.setting
    BY <1>6, <2>1 DEF IsDeleted
  <2> QED BY <1>3, <1>4, <2>2, MergedMirrored DEF Result
<1> HIDE DEF new
<1>7. /\ DOMAIN ProfileMap(Result(e, cfg)) = DOMAIN ProfileMap(cfg) \ {e.key}
      /\ \A k \in DOMAIN ProfileMap(Result(e, cfg)) : ProfileMap(Result(e, cfg))[k] = ProfileMap(cfg)[k]
      /\ cfg.active # e.key => Result(e, cfg).active = cfg.active
  BY <1>5, <1>6 DEF Same, IsDeleted
<1> QED BY <1>1, <1>7 DEF Means

LEMMA ActivateMeans ==
  ASSUME NEW cfg, Normal(cfg), Mirrored(cfg), NEW e \in ActivateEdits, Allowed(e, cfg) PROVE Means(e, cfg, Result(e, cfg))
<1> DEFINE picked == [cfg EXCEPT !.active = e.key]
           new == applyActiveTunnelToTopLevel(picked)
<1>1. e.kind = "activate" /\ e.key \in KeySpace /\ cfg \in Configs
  BY KindsAre, KeysAreKeys DEF Normal
<1>2. e.key \in KeysOf(cfg.tunnels)
  BY <1>1 DEF Allowed
<1>3. Edited(e, cfg) = new
  BY <1>1 DEF Edited
<1>4. picked = [tunnels |-> cfg.tunnels, active |-> e.key, setting |-> cfg.setting,
                manager |-> cfg.manager, ddns |-> cfg.ddns]
  BY <1>1, ConfigExcept
<1>5. picked \in Configs
  BY <1>1, ConfigStays, ConfigIs
<1> HIDE DEF picked
<1>6. picked.tunnels = cfg.tunnels /\ picked.active = e.key
  BY <1>4
<1>7. Normal(picked)
  BY <1>2, <1>5, <1>6 DEF Normal
<1>8. Normal(new) /\ Mirrored(new) /\ Essence(new) = Essence(picked)
  BY <1>5, <1>7, AppliedIs
<1>9. Same(Result(e, cfg), new) /\ Same(new, picked)
  <2>1. Same(new, picked) /\ ProfileMap(picked) = ProfileMap(cfg)
    BY <1>6, <1>8, EssenceIsSame DEF ProfileMap
  <2>2. /\ new.setting = ProfileMap(new)[new.active].setting
        /\ cfg.setting = ProfileMap(cfg)[cfg.active].setting
    BY <1>8, ActiveIsMapped
  <2>3. new.active = cfg.active => new.setting = cfg.setting
    BY <2>1, <2>2 DEF Same
  <2> QED BY <1>3, <1>8, <2>1, <2>3, MergedMirrored DEF Result
<1> HIDE DEF new
<1>10. ProfileMap(Result(e, cfg)) = ProfileMap(cfg) /\ Result(e, cfg).active = e.key
  BY <1>6, <1>9 DEF Same, ProfileMap
<1> QED BY <1>1, <1>10 DEF Means

LEMMA PostMeans ==
  ASSUME NEW cfg, Normal(cfg), Mirrored(cfg), NEW e \in PostEdits PROVE Means(e, cfg, Result(e, cfg))
<1> DEFINE g == [cfg EXCEPT !.active = e.active]
           new == Edited(e, cfg)
<1>1. /\ e.kind = "post" /\ e.active \in KeySpace /\ e.setting \in Settings /\ e.manager \in BOOLEAN
      /\ cfg \in Configs
  <2>1. NoKey \in KeySpace
    BY DEF NoKey, KeySpace
  <2> QED BY <2>1, KindsAre, KeysAreKeys DEF Normal
<1>2. new = [g EXCEPT !.setting = e.setting, !.manager = e.manager]
  BY <1>1 DEF Edited
<1>3. g = [tunnels |-> cfg.tunnels, active |-> e.active, setting |-> cfg.setting,
           manager |-> cfg.manager, ddns |-> cfg.ddns]
  BY <1>1, ConfigExcept
<1> HIDE DEF g, new
<1>4. g \in Configs /\ g.tunnels = cfg.tunnels /\ g.active = e.active
  BY <1>1, <1>3, ConfigIs, ConfigMade
<1>5. new = [tunnels |-> g.tunnels, active |-> g.active, setting |-> e.setting,
             manager |-> e.manager, ddns |-> g.ddns]
  <2>1. \A v \in Settings, m \in BOOLEAN : [g EXCEPT !.setting = v, !.manager = m] =
          [tunnels |-> g.tunnels, active |-> g.active, setting |-> v, manager |-> m, ddns |-> g.ddns]
    BY <1>4, ConfigExcept
  <2> QED BY <1>1, <1>2, <2>1
<1>6. new \in Configs
  BY <1>1, <1>4, <1>5, ConfigIs, ConfigMade
<1>7. /\ new.tunnels = cfg.tunnels /\ new.active = e.active /\ new.setting = e.setting
      /\ new.manager = e.manager
  BY <1>4, <1>5
<1>8. CASE e.active \in {NoKey, cfg.active}
  <2>0. /\ cfg.setting = ProfileMap(cfg)[cfg.active].setting
        /\ ActiveTunnelProfile(cfg) = ProfileMap(cfg)[cfg.active]
    BY ActiveIsMapped
  <2>1. /\ ProfileMap(Result(e, cfg)) =
              [ProfileMap(cfg) EXCEPT ![cfg.active] =
                 Profile(cfg.active, e.setting,
                         ProfileMap(cfg)[cfg.active].local \/ e.setting # ProfileMap(cfg)[cfg.active].setting,
                         e.manager)]
        /\ Result(e, cfg).active = cfg.active
    BY <1>6, <1>7, <1>8, <2>0, MergedTop DEF Result, new
  <2> QED BY <1>1, <1>8, <2>1 DEF Means
<1>9. CASE e.active \notin {NoKey, cfg.active}
  <2>1. ProfileMap(Result(e, cfg)) = ProfileMap(cfg) /\ Result(e, cfg).active = Known(cfg, e.active)
    BY <1>6, <1>7, <1>9, MergedSwitch DEF Result, new
  <2> QED BY <1>1, <1>9, <2>1 DEF Means
<1> QED BY <1>8, <1>9

LEMMA FeatureMeans ==
  ASSUME NEW cfg, Normal(cfg), Mirrored(cfg), NEW e \in FeatureEdits PROVE Means(e, cfg, Result(e, cfg))
<1> DEFINE new == Edited(e, cfg)
<1>1. /\ e.kind \in {"manager", "ddns"} /\ e.on \in BOOLEAN /\ cfg \in Configs
      /\ cfg.ddns \in BOOLEAN /\ cfg.manager \in BOOLEAN
      /\ cfg = [tunnels |-> cfg.tunnels, active |-> cfg.active, setting |-> cfg.setting,
                manager |-> cfg.manager, ddns |-> cfg.ddns]
  BY KindsAre, ConfigIs DEF Normal
<1>2. /\ cfg.active # NoKey
      /\ \A m \in BOOLEAN, d \in BOOLEAN :
           [tunnels |-> cfg.tunnels, active |-> cfg.active, setting |-> cfg.setting, manager |-> m, ddns |-> d]
             \in Configs
  BY <1>1, ConfigIs, ConfigMade, ActiveProfileIs
<1>3. CASE e.kind = "ddns"
  <2>1. new = [cfg EXCEPT !.ddns = e.on]
    BY <1>3 DEF Edited
  <2> HIDE DEF new
  <2>2. new = [tunnels |-> cfg.tunnels, active |-> cfg.active, setting |-> cfg.setting,
               manager |-> cfg.manager, ddns |-> e.on]
    BY <1>1, <2>1
  <2>3. new \in Configs
    BY <1>1, <1>2, <2>2
  <2>4. /\ new.tunnels = cfg.tunnels /\ new.active = cfg.active /\ new.setting = cfg.setting
        /\ new.manager = cfg.manager /\ new.ddns = e.on
    BY <2>2
  <2>5. Normal(new)
    BY <2>3, <2>4 DEF Normal
  <2>6. Mirrored(new)
    BY <2>4 DEF Mirrored, ActiveTunnelProfile
  <2>7. Same(Result(e, cfg), new)
    BY <2>4, <2>5, <2>6, MergedMirrored DEF Result, new
  <2>8. /\ ProfileMap(Result(e, cfg)) = ProfileMap(cfg) /\ Result(e, cfg).active = cfg.active
        /\ Result(e, cfg).ddns = e.on
    BY <2>4, <2>7 DEF Same, ProfileMap
  <2> QED BY <1>3, <2>8 DEF Means
<1>4. CASE e.kind = "manager"
  <2> DEFINE g == [cfg EXCEPT !.manager = e.on]
             d == cfg.ddns /\ e.on
             a == ActiveTunnelProfile(cfg)
  <2>1. new = [g EXCEPT !.ddns = d]
    BY <1>4 DEF Edited
  <2>2. g = [tunnels |-> cfg.tunnels, active |-> cfg.active, setting |-> cfg.setting,
             manager |-> e.on, ddns |-> cfg.ddns]
    BY <1>1
  <2>3. d \in BOOLEAN /\ (~e.on => ~d)
    BY <1>1
  <2> HIDE DEF g, d, new
  <2>4. new = [tunnels |-> cfg.tunnels, active |-> cfg.active, setting |-> cfg.setting,
               manager |-> e.on, ddns |-> d]
    BY <2>1, <2>2
  <2>5. new \in Configs
    BY <1>1, <1>2, <2>3, <2>4
  <2>6. /\ new.tunnels = cfg.tunnels /\ new.active = cfg.active /\ new.setting = cfg.setting
        /\ new.manager = e.on /\ new.ddns = d
    BY <2>4
  <2>7. /\ ProfileMap(Result(e, cfg)) =
              [ProfileMap(cfg) EXCEPT ![cfg.active] = Profile(cfg.active, cfg.setting, a.local, e.on)]
        /\ Result(e, cfg).active = cfg.active /\ Result(e, cfg).ddns = d
    <3>1. (ActiveTunnelProfile(cfg).local \/ new.setting # cfg.setting) = a.local
      BY <2>6, ActiveProfileIs
    <3> QED BY <2>5, <2>6, <3>1, MergedTop DEF Result, new
  <2>8. Profile(cfg.active, cfg.setting, a.local, e.on) = [a EXCEPT !.manager = e.on]
    <3>1. a \in Profiles /\ a.key = cfg.active /\ a.setting = cfg.setting
      BY ActiveProfileIs DEF Mirrored
    <3> HIDE DEF a
    <3>2. a = [key |-> a.key, setting |-> a.setting, local |-> a.local, manager |-> a.manager]
      BY <3>1 DEF Profiles
    <3>3. [a EXCEPT !.manager = e.on] =
            [key |-> a.key, setting |-> a.setting, local |-> a.local, manager |-> e.on]
      BY <3>2
    <3> QED BY <3>1, <3>3 DEF Profile
  <2>9. ProfileMap(cfg)[cfg.active] = a
    BY ProfileMapIs
  <2>10. /\ ProfileMap(Result(e, cfg)) =
              [ProfileMap(cfg) EXCEPT ![cfg.active] = [ProfileMap(cfg)[cfg.active] EXCEPT !.manager = e.on]]
         /\ Result(e, cfg).active = cfg.active /\ (~e.on => ~Result(e, cfg).ddns)
    BY <2>3, <2>7, <2>8, <2>9
  <2> QED BY <1>4, <2>10 DEF Means
<1> QED BY <1>1, <1>3, <1>4

LEMMA EditMeans ==
  ASSUME NEW cfg, Normal(cfg), Mirrored(cfg), NEW e \in Edits, Allowed(e, cfg)
  PROVE  Means(e, cfg, Result(e, cfg))
<1>1. CASE e \in ImportEdits
  <2>1. e.kind = "import"
    BY <1>1, KindsAre
  <2> QED BY <2>1 DEF Means
<1> QED BY <1>1, PutMeans, CreateMeans, DeleteMeans, ActivateMeans, PostMeans, FeatureMeans DEF Edits

-----------------------------------------------------------------------------
(***************************************************************************)
(* The invariant.                                                          *)
(***************************************************************************)
ConfigTypes ==
  /\ TypeOK
  /\ edit \in [Callers -> Edits \cup {NoEdit}] /\ copy \in [Callers -> Configs]
  /\ process # "down" => Normal(mem)
  /\ disk # NoConfig => Normal(disk)
  /\ \A c \in Callers : pc[c] \in {"merged", "committed"} => Normal(copy[c])

\* Requests are served after the boot only, and the boot stores something.
ConfigBoot ==
  /\ process # "up" => \A c \in Callers : pc[c] = "idle"
  /\ process # "down" => disk # NoConfig

\* Memory is the database, or the copy that was just committed is.
ConfigSame ==
  /\ (process # "down" /\ \A c \in Callers : pc[c] # "committed") => Essence(mem) = Essence(disk)
  /\ \A c \in Callers : pc[c] = "committed" => Essence(copy[c]) = Essence(disk)

\* A copy no save overtook is still the edit of what is in memory.
ConfigCopies ==
  /\ (process # "down" /\ ~mixed) => Mirrored(mem)
  /\ \A c \in Callers : (pc[c] # "idle" /\ c \notin overtaken) =>
        /\ edit[c] \in Edits /\ Allowed(edit[c], mem)
        /\ copy[c] = IF pc[c] = "edited" THEN Edited(edit[c], mem)
                     ELSE Merged(Edited(edit[c], mem), mem)

Source == IF table # NoConfig THEN table ELSE IF file # NoConfig THEN file ELSE DefaultSetting

\* Until the first edit, the setting is that of the source.
ConfigOrigin ==
  /\ edits = 0 => \A c \in Callers : pc[c] = "idle"
  /\ disk = NoConfig => origin = Source
  /\ (edits = 0 /\ disk # NoConfig) => ActiveTunnelProfile(disk).setting = origin
  /\ (edits = 0 /\ process # "down") => mem.setting = origin

ConfigInv == ConfigTypes /\ ConfigBoot /\ ConfigSame /\ ConfigCopies /\ ConfigOrigin

LEMMA ConfigStart == Init => ConfigInv
<1> SUFFICES ASSUME Init PROVE ConfigInv
  OBVIOUS
<1>1. TypeOK
  <2>1. /\ process \in {"down", "importing", "up"} /\ origin \in Settings
        /\ table \in {NoConfig} \cup TableSettings /\ file \in {NoConfig} \cup FileSettings
    <3>1. /\ process = "down" /\ table \in {NoConfig} \cup TableSettings /\ file \in {NoConfig} \cup FileSettings
          /\ origin = Source
      BY DEF Init, Source
    <3>2. Source \in Settings
      BY <3>1, SettingsAssumption DEF Source
    <3> QED BY <3>1, <3>2
  <2>2. /\ saveMu = Nobody /\ saveMu \in Callers \cup {Nobody}
        /\ pc \in [Callers -> {"idle", "edited", "merged", "committed"}]
        /\ \A c \in Callers : pc[c] = "idle"
    BY DEF Init
  <2>3. \A c \in Callers : saveMu = c <=> pc[c] \in {"merged", "committed"}
    BY <2>2, CallersAssumption
  <2>4. edits \in 0..MaxEdits /\ crashes \in 0..MaxCrashes /\ overtaken \subseteq Callers /\ mixed \in BOOLEAN
    <3>1. edits = 0 /\ crashes = 0 /\ overtaken = {} /\ mixed = FALSE
      BY DEF Init
    <3>2. 0 \in 0..MaxEdits /\ 0 \in 0..MaxCrashes
      BY BoundsAssumption
    <3> QED BY <3>1, <3>2
  <2> QED BY <2>1, <2>2, <2>3, <2>4 DEF TypeOK
<1>2. edit \in [Callers -> Edits \cup {NoEdit}] /\ copy \in [Callers -> Configs]
  BY DefaultIs DEF Init
<1>3. ConfigTypes
  BY <1>1, <1>2 DEF Init, ConfigTypes
<1>4. ConfigBoot /\ ConfigSame /\ ConfigCopies
  BY DEF Init, ConfigBoot, ConfigSame, ConfigCopies
<1>5. ConfigOrigin
  BY DEF Init, ConfigOrigin, Source
<1> QED BY <1>3, <1>4, <1>5 DEF ConfigInv

LEMMA TypeOKStep == TypeOK /\ [Next]_vars => TypeOK'
<1> SUFFICES ASSUME TypeOK, [Next]_vars PROVE TypeOK'
  OBVIOUS
<1> USE SettingsAssumption, CallersAssumption, BoundsAssumption
<1>1. ASSUME LoadStructured PROVE TypeOK'
  BY <1>1 DEF LoadStructured, callers, TypeOK
<1>2. ASSUME ImportLegacy PROVE TypeOK'
  BY <1>2 DEF ImportLegacy, callers, TypeOK
<1>3. ASSUME CleanupLegacy PROVE TypeOK'
  BY <1>3 DEF CleanupLegacy, callers, TypeOK
<1>4. ASSUME Crash PROVE TypeOK'
  BY <1>4 DEF Crash, TypeOK
<1>5. ASSUME NEW c \in Callers, NEW e \in Edits, GetAndEdit(c, e) PROVE TypeOK'
  BY <1>5 DEF GetAndEdit, TypeOK
<1>6. ASSUME NEW c \in Callers, BeginSave(c) PROVE TypeOK'
  BY <1>6 DEF BeginSave, TypeOK
<1>7. ASSUME NEW c \in Callers, Commit(c) PROVE TypeOK'
  BY <1>7 DEF Commit, TypeOK
<1>8. ASSUME NEW c \in Callers, CommitFails(c) PROVE TypeOK'
  BY <1>8 DEF CommitFails, Return, TypeOK
<1>9. ASSUME NEW c \in Callers, Publish(c) PROVE TypeOK'
  BY <1>9 DEF Publish, Return, TypeOK
<1>10. ASSUME UNCHANGED vars PROVE TypeOK'
  BY <1>10 DEF vars, TypeOK
<1> QED BY <1>1, <1>2, <1>3, <1>4, <1>5, <1>6, <1>7, <1>8, <1>9, <1>10 DEF Next

LEMMA LoadKeeps ==
  ASSUME ConfigInv, TypeOK', LoadStructured PROVE ConfigInv'
<1>1. /\ process = "down" /\ disk # NoConfig /\ mem' = applyActiveTunnelToTopLevel(disk)
      /\ process' = "up" /\ mixed' = FALSE
      /\ disk' = disk /\ saveMu' = saveMu /\ pc' = pc /\ edit' = edit /\ copy' = copy
      /\ edits' = edits /\ origin' = origin /\ overtaken' = overtaken
  BY DEF LoadStructured, callers
<1>2. Normal(disk) /\ disk \in Configs
  BY <1>1 DEF ConfigInv, ConfigTypes, Normal
<1>3. \A c \in Callers : pc[c] = "idle"
  BY <1>1 DEF ConfigInv, ConfigBoot
<1>4. /\ Normal(mem') /\ Mirrored(mem') /\ Essence(mem') = Essence(disk)
      /\ mem'.setting = ActiveTunnelProfile(disk).setting
  BY <1>1, <1>2, AppliedIs
<1>5. ConfigTypes'
  BY <1>1, <1>2, <1>3, <1>4 DEF ConfigInv, ConfigTypes
<1>6. ConfigBoot'
  BY <1>1, <1>3 DEF ConfigBoot
<1>7. ConfigSame'
  BY <1>1, <1>3, <1>4 DEF ConfigSame
<1>8. ConfigCopies'
  BY <1>1, <1>3, <1>4 DEF ConfigCopies
<1>9. ConfigOrigin'
  BY <1>1, <1>3, <1>4 DEF ConfigInv, ConfigOrigin
<1> QED BY <1>5, <1>6, <1>7, <1>8, <1>9 DEF ConfigInv

LEMMA ImportKeeps ==
  ASSUME ConfigInv, TypeOK', ImportLegacy PROVE ConfigInv'
<1> DEFINE found == IF table # NoConfig THEN LegacyConfig(table)
                    ELSE IF file # NoConfig THEN LegacyConfig(file) ELSE DefaultConfig
<1>1. /\ process = "down" /\ disk = NoConfig /\ process' = "importing"
      /\ disk' = Stored(found) /\ mem' = applyActiveTunnelToTopLevel(found)
      /\ saveMu' = saveMu /\ pc' = pc /\ edit' = edit /\ copy' = copy
      /\ edits' = edits /\ origin' = origin /\ overtaken' = overtaken /\ mixed' = mixed
  BY DEF ImportLegacy, callers
<1>2. Booted(found) /\ found.setting = Source
  <2>1. CASE table # NoConfig
    <3>1. table \in Settings
      BY <2>1, SettingsAssumption DEF ConfigInv, ConfigTypes, TypeOK
    <3> QED BY <2>1, <3>1, LegacyBoots DEF Source
  <2>2. CASE table = NoConfig /\ file # NoConfig
    <3>1. file \in Settings
      BY <2>2, SettingsAssumption DEF ConfigInv, ConfigTypes, TypeOK
    <3> QED BY <2>2, <3>1, LegacyBoots DEF Source
  <2>3. CASE table = NoConfig /\ file = NoConfig
    BY <2>3, DefaultsBoot, DefaultIs DEF Source
  <2> QED BY <2>1, <2>2, <2>3
<1> HIDE DEF found
<1>3. origin = Source
  BY <1>1 DEF ConfigInv, ConfigOrigin
<1>4. \A c \in Callers : pc[c] = "idle"
  BY <1>1 DEF ConfigInv, ConfigBoot
<1>5. /\ Normal(mem') /\ Mirrored(mem') /\ Essence(mem') = Essence(disk') /\ mem'.setting = origin
      /\ Normal(disk') /\ ActiveTunnelProfile(disk').setting = origin
  BY <1>1, <1>2, <1>3 DEF Booted
<1>6. disk' # NoConfig
  BY <1>5, NoConfigAssumption DEF Normal
<1>7. ConfigTypes'
  BY <1>1, <1>4, <1>5 DEF ConfigInv, ConfigTypes
<1>8. ConfigBoot'
  BY <1>1, <1>4, <1>6 DEF ConfigBoot
<1>9. ConfigSame'
  BY <1>1, <1>4, <1>5 DEF ConfigSame
<1>10. ConfigCopies'
  BY <1>1, <1>4, <1>5 DEF ConfigCopies
<1>11. ConfigOrigin'
  BY <1>1, <1>4, <1>5, <1>6 DEF ConfigOrigin
<1> QED BY <1>7, <1>8, <1>9, <1>10, <1>11 DEF ConfigInv

LEMMA CleanupKeeps ==
  ASSUME ConfigInv, TypeOK', CleanupLegacy PROVE ConfigInv'
<1>1. /\ process = "importing" /\ process' = "up" /\ mem' = mem
      /\ disk' = disk /\ saveMu' = saveMu /\ pc' = pc /\ edit' = edit /\ copy' = copy
      /\ edits' = edits /\ origin' = origin /\ overtaken' = overtaken /\ mixed' = mixed
  BY DEF CleanupLegacy, callers
<1>2. disk # NoConfig
  BY <1>1 DEF ConfigInv, ConfigBoot
<1>3. ConfigTypes'
  BY <1>1 DEF ConfigInv, ConfigTypes
<1>4. ConfigBoot' /\ ConfigSame' /\ ConfigOrigin'
  BY <1>1, <1>2 DEF ConfigInv, ConfigBoot, ConfigSame, ConfigOrigin
<1>5. ConfigCopies'
  BY <1>1 DEF ConfigInv, ConfigCopies
<1> QED BY <1>3, <1>4, <1>5 DEF ConfigInv

LEMMA CrashKeeps ==
  ASSUME ConfigInv, TypeOK', Crash PROVE ConfigInv'
<1>1. /\ process # "down" /\ process' = "down" /\ pc' = [c \in Callers |-> "idle"]
      /\ edit' = [c \in Callers |-> NoEdit] /\ copy' = [c \in Callers |-> DefaultConfig]
      /\ disk' = disk /\ table' = table /\ file' = file /\ edits' = edits /\ origin' = origin
  BY DEF Crash
<1>2. \A c \in Callers : pc'[c] = "idle"
  BY <1>1
<1>3. disk # NoConfig
  BY <1>1 DEF ConfigInv, ConfigBoot
<1>4. ConfigTypes'
  BY <1>1, <1>2, DefaultIs DEF ConfigInv, ConfigTypes
<1>5. ConfigBoot' /\ ConfigSame' /\ ConfigCopies'
  BY <1>1, <1>2 DEF ConfigBoot, ConfigSame, ConfigCopies
<1>6. ConfigOrigin'
  BY <1>1, <1>2, <1>3 DEF ConfigInv, ConfigOrigin
<1> QED BY <1>4, <1>5, <1>6 DEF ConfigInv

\* Only one caller is between its merge and its return.
LEMMA OneSaves ==
  ASSUME ConfigInv, NEW c \in Callers, pc[c] \in {"merged", "committed"}
  PROVE  /\ process = "up" /\ edits # 0
         /\ \A d \in Callers : d # c => pc[d] \notin {"merged", "committed"}
<1>1. saveMu = c
  BY DEF ConfigInv, ConfigTypes, TypeOK
<1>2. \A d \in Callers : d # c => pc[d] \notin {"merged", "committed"}
  BY <1>1 DEF ConfigInv, ConfigTypes, TypeOK
<1>3. process = "up"
  BY DEF ConfigInv, ConfigBoot
<1>4. edits # 0
  BY DEF ConfigInv, ConfigOrigin
<1> QED BY <1>2, <1>3, <1>4

LEMMA EditKeeps ==
  ASSUME ConfigInv, TypeOK', NEW c \in Callers, NEW e \in Edits, GetAndEdit(c, e)
  PROVE  ConfigInv'
<1>1. /\ process = "up" /\ pc[c] = "idle" /\ Allowed(e, mem) /\ edits' = edits + 1
      /\ pc' = [pc EXCEPT ![c] = "edited"] /\ edit' = [edit EXCEPT ![c] = e]
      /\ copy' = [copy EXCEPT ![c] = Edited(e, mem)]
      /\ process' = process /\ mem' = mem /\ disk' = disk /\ table' = table /\ file' = file
      /\ overtaken' = overtaken /\ mixed' = mixed /\ origin' = origin
  BY DEF GetAndEdit
<1>2. /\ pc \in [Callers -> {"idle", "edited", "merged", "committed"}] /\ edits \in Nat
      /\ edit \in [Callers -> Edits \cup {NoEdit}] /\ copy \in [Callers -> Configs] /\ Normal(mem)
  BY <1>1, BoundsAssumption DEF ConfigInv, ConfigTypes, TypeOK
<1>3. Edited(e, mem) \in Configs
  BY <1>1, <1>2, EditedIs
<1>4. /\ pc'[c] = "edited" /\ edit'[c] = e /\ copy'[c] = Edited(e, mem)
      /\ \A d \in Callers : d # c => pc'[d] = pc[d] /\ edit'[d] = edit[d] /\ copy'[d] = copy[d]
  BY <1>1, <1>2
<1>5. edit' \in [Callers -> Edits \cup {NoEdit}] /\ copy' \in [Callers -> Configs]
  BY <1>1, <1>2, <1>3
<1>6. ConfigTypes'
  BY <1>1, <1>4, <1>5 DEF ConfigInv, ConfigTypes
<1>7. ConfigBoot'
  BY <1>1 DEF ConfigInv, ConfigBoot
<1>8. ConfigSame'
  BY <1>1, <1>4 DEF ConfigInv, ConfigSame
<1>9. ConfigCopies'
  BY <1>1, <1>4 DEF ConfigInv, ConfigCopies
<1>10. ConfigOrigin'
  <2>1. edits' # 0 /\ disk # NoConfig
    BY <1>1, <1>2 DEF ConfigInv, ConfigBoot
  <2> QED BY <1>1, <2>1 DEF ConfigOrigin
<1> QED BY <1>6, <1>7, <1>8, <1>9, <1>10 DEF ConfigInv

LEMMA BeginKeeps ==
  ASSUME ConfigInv, TypeOK', NEW c \in Callers, BeginSave(c)
  PROVE  ConfigInv'
<1>1. /\ pc[c] = "edited" /\ pc' = [pc EXCEPT ![c] = "merged"]
      /\ copy' = [copy EXCEPT ![c] = Merged(copy[c], mem)]
      /\ process' = process /\ mem' = mem /\ disk' = disk /\ table' = table /\ file' = file
      /\ edit' = edit /\ edits' = edits /\ overtaken' = overtaken /\ mixed' = mixed /\ origin' = origin
  BY DEF BeginSave
<1>2. /\ pc \in [Callers -> {"idle", "edited", "merged", "committed"}]
      /\ edit \in [Callers -> Edits \cup {NoEdit}] /\ copy \in [Callers -> Configs]
  BY DEF ConfigInv, ConfigTypes, TypeOK
<1>3. process = "up" /\ Normal(mem) /\ edits # 0 /\ disk # NoConfig
  BY <1>1 DEF ConfigInv, ConfigTypes, ConfigBoot, ConfigOrigin
<1>4. Normal(Merged(copy[c], mem)) /\ Merged(copy[c], mem) \in Configs
  BY <1>2, <1>3, MergedIs DEF Normal
<1>5. /\ pc'[c] = "merged" /\ copy'[c] = Merged(copy[c], mem)
      /\ \A d \in Callers : d # c => pc'[d] = pc[d] /\ copy'[d] = copy[d]
  BY <1>1, <1>2
<1>6. copy' \in [Callers -> Configs]
  BY <1>1, <1>2, <1>4
<1>7. ConfigTypes'
  <2>1. \A d \in Callers : pc'[d] \in {"merged", "committed"} => Normal(copy'[d])
    BY <1>4, <1>5 DEF ConfigInv, ConfigTypes
  <2> QED BY <1>1, <1>2, <1>3, <1>6, <2>1 DEF ConfigInv, ConfigTypes
<1>8. ConfigBoot'
  BY <1>1, <1>3 DEF ConfigBoot
<1>9. ConfigSame'
  BY <1>1, <1>5 DEF ConfigInv, ConfigSame
<1>10. ConfigCopies'
  <2>1. ASSUME NEW d \in Callers, pc'[d] # "idle", d \notin overtaken
        PROVE  /\ edit[d] \in Edits /\ Allowed(edit[d], mem)
               /\ copy'[d] = IF pc'[d] = "edited" THEN Edited(edit[d], mem)
                             ELSE Merged(Edited(edit[d], mem), mem)
    <3>1. CASE d = c
      <4>1. /\ edit[c] \in Edits /\ Allowed(edit[c], mem) /\ copy[c] = Edited(edit[c], mem)
        BY <1>1, <2>1, <3>1 DEF ConfigInv, ConfigCopies
      <4> QED BY <1>5, <3>1, <4>1
    <3>2. CASE d # c
      BY <1>5, <2>1, <3>2 DEF ConfigInv, ConfigCopies
    <3> QED BY <3>1, <3>2
  <2>2. (process' # "down" /\ ~mixed') => Mirrored(mem')
    BY <1>1 DEF ConfigInv, ConfigCopies
  <2> QED BY <1>1, <2>1, <2>2 DEF ConfigCopies
<1>11. ConfigOrigin'
  BY <1>1, <1>3 DEF ConfigOrigin
<1> QED BY <1>7, <1>8, <1>9, <1>10, <1>11 DEF ConfigInv

LEMMA CommitKeeps ==
  ASSUME ConfigInv, TypeOK', NEW c \in Callers, Commit(c)
  PROVE  ConfigInv'
<1>1. /\ pc[c] = "merged" /\ pc' = [pc EXCEPT ![c] = "committed"] /\ disk' = Stored(copy[c])
      /\ process' = process /\ mem' = mem /\ table' = table /\ file' = file /\ edit' = edit
      /\ copy' = copy /\ edits' = edits /\ overtaken' = overtaken /\ mixed' = mixed /\ origin' = origin
  BY DEF Commit
<1>2. /\ pc \in [Callers -> {"idle", "edited", "merged", "committed"}]
      /\ Normal(copy[c])
  BY <1>1 DEF ConfigInv, ConfigTypes, TypeOK
<1>3. Normal(Stored(copy[c])) /\ Essence(Stored(copy[c])) = Essence(copy[c])
  BY <1>2, StoredIs
<1>4. disk' # NoConfig
  BY <1>1, <1>3, NoConfigAssumption DEF Normal
<1>5. pc'[c] = "committed" /\ \A d \in Callers : d # c => pc'[d] = pc[d]
  BY <1>1, <1>2
<1>6. /\ process = "up" /\ edits # 0
      /\ \A d \in Callers : d # c => pc[d] \notin {"merged", "committed"}
  BY <1>1, OneSaves
<1>7. ConfigTypes'
  BY <1>1, <1>2, <1>3, <1>5 DEF ConfigInv, ConfigTypes
<1>8. ConfigBoot'
  BY <1>1, <1>4, <1>6 DEF ConfigBoot
<1>9. ConfigSame'
  BY <1>1, <1>3, <1>5, <1>6 DEF ConfigSame
<1>10. ConfigCopies'
  BY <1>1, <1>5 DEF ConfigInv, ConfigCopies
<1>11. ConfigOrigin'
  BY <1>1, <1>4, <1>6 DEF ConfigOrigin
<1> QED BY <1>7, <1>8, <1>9, <1>10, <1>11 DEF ConfigInv

\* A caller that returns.
LEMMA ReturnIs ==
  ASSUME ConfigInv, NEW c \in Callers, Return(c)
  PROVE  /\ pc'[c] = "idle" /\ edit' \in [Callers -> Edits \cup {NoEdit}] /\ copy' \in [Callers -> Configs]
         /\ \A d \in Callers : d # c => pc'[d] = pc[d] /\ edit'[d] = edit[d] /\ copy'[d] = copy[d]
<1>1. /\ pc \in [Callers -> {"idle", "edited", "merged", "committed"}]
      /\ edit \in [Callers -> Edits \cup {NoEdit}] /\ copy \in [Callers -> Configs]
  BY DEF ConfigInv, ConfigTypes, TypeOK
<1> QED BY <1>1, DefaultIs DEF Return

LEMMA FailKeeps ==
  ASSUME ConfigInv, TypeOK', NEW c \in Callers, CommitFails(c)
  PROVE  ConfigInv'
<1>1. /\ pc[c] = "merged" /\ Return(c) /\ overtaken' = overtaken \ {c}
      /\ process' = process /\ mem' = mem /\ disk' = disk /\ table' = table /\ file' = file
      /\ edits' = edits /\ mixed' = mixed /\ origin' = origin
  BY DEF CommitFails
<1>2. /\ pc'[c] = "idle" /\ edit' \in [Callers -> Edits \cup {NoEdit}] /\ copy' \in [Callers -> Configs]
      /\ \A d \in Callers : d # c => pc'[d] = pc[d] /\ edit'[d] = edit[d] /\ copy'[d] = copy[d]
  BY <1>1, ReturnIs
<1>3. /\ process = "up" /\ edits # 0
      /\ \A d \in Callers : d # c => pc[d] \notin {"merged", "committed"}
  BY <1>1, OneSaves
<1>4. ConfigTypes'
  BY <1>1, <1>2 DEF ConfigInv, ConfigTypes
<1>5. ConfigBoot'
  BY <1>1, <1>3 DEF ConfigInv, ConfigBoot
<1>6. ConfigSame'
  BY <1>1, <1>2, <1>3 DEF ConfigInv, ConfigSame
<1>7. ConfigCopies'
  <2>1. ASSUME NEW d \in Callers, pc'[d] # "idle", d \notin overtaken'
        PROVE  /\ edit'[d] \in Edits /\ Allowed(edit'[d], mem)
               /\ copy'[d] = IF pc'[d] = "edited" THEN Edited(edit'[d], mem)
                             ELSE Merged(Edited(edit'[d], mem), mem)
    <3>1. d # c /\ d \notin overtaken
      BY <1>1, <1>2, <2>1
    <3> QED BY <1>2, <2>1, <3>1 DEF ConfigInv, ConfigCopies
  <2>2. (process' # "down" /\ ~mixed') => Mirrored(mem')
    BY <1>1 DEF ConfigInv, ConfigCopies
  <2> QED BY <1>1, <2>1, <2>2 DEF ConfigCopies
<1>8. ConfigOrigin'
  BY <1>1, <1>3 DEF ConfigInv, ConfigBoot, ConfigOrigin
<1> QED BY <1>4, <1>5, <1>6, <1>7, <1>8 DEF ConfigInv

LEMMA PublishKeeps ==
  ASSUME ConfigInv, TypeOK', NEW c \in Callers, Publish(c)
  PROVE  ConfigInv'
<1>1. /\ pc[c] = "committed" /\ Return(c) /\ mem' = copy[c]
      /\ overtaken' = {d \in Callers \ {c} : pc[d] = "edited"} /\ mixed' = (mixed \/ c \in overtaken)
      /\ process' = process /\ disk' = disk /\ table' = table /\ file' = file
      /\ edits' = edits /\ origin' = origin
  BY DEF Publish
<1>2. /\ pc'[c] = "idle" /\ edit' \in [Callers -> Edits \cup {NoEdit}] /\ copy' \in [Callers -> Configs]
      /\ \A d \in Callers : d # c => pc'[d] = pc[d] /\ edit'[d] = edit[d] /\ copy'[d] = copy[d]
  BY <1>1, ReturnIs
<1>3. /\ process = "up" /\ edits # 0
      /\ \A d \in Callers : d # c => pc[d] \notin {"merged", "committed"}
  BY <1>1, OneSaves
<1>4. Normal(copy[c]) /\ Essence(copy[c]) = Essence(disk)
  BY <1>1 DEF ConfigInv, ConfigTypes, ConfigSame
<1>5. ConfigTypes'
  BY <1>1, <1>2, <1>4 DEF ConfigInv, ConfigTypes
<1>6. ConfigBoot'
  BY <1>1, <1>3 DEF ConfigInv, ConfigBoot
<1>7. ConfigSame'
  BY <1>1, <1>2, <1>3, <1>4 DEF ConfigSame
<1>8. ConfigCopies'
  <2>1. \A d \in Callers : pc'[d] # "idle" => d \in overtaken'
    <3>1. ASSUME NEW d \in Callers, pc'[d] # "idle" PROVE d # c /\ pc[d] = "edited"
      <4>1. d # c /\ pc[d] # "idle"
        BY <1>2, <3>1
      <4>2. pc[d] \in {"idle", "edited", "merged", "committed"}
        BY DEF ConfigInv, ConfigTypes, TypeOK
      <4> QED BY <1>3, <4>1, <4>2
    <3> QED BY <1>1, <3>1
  <2>2. ASSUME ~mixed' PROVE Mirrored(mem')
    <3>1. ~mixed /\ c \notin overtaken
      BY <1>1, <2>2
    <3>2. Normal(mem) /\ Mirrored(mem)
      BY <1>3, <3>1 DEF ConfigInv, ConfigTypes, ConfigCopies
    <3>3. edit[c] \in Edits /\ Allowed(edit[c], mem) /\ copy[c] = Merged(Edited(edit[c], mem), mem)
      BY <1>1, <3>1 DEF ConfigInv, ConfigCopies
    <3>4. Edited(edit[c], mem) \in Configs /\ Fits(Edited(edit[c], mem), mem)
      BY <3>2, <3>3, EditedIs
    <3>5. Mirrored(Merged(Edited(edit[c], mem), mem))
      BY <3>2, <3>4, MergedIs
    <3> QED BY <1>1, <3>3, <3>5
  <2> QED BY <2>1, <2>2 DEF ConfigCopies
<1>9. ConfigOrigin'
  BY <1>1, <1>3 DEF ConfigInv, ConfigBoot, ConfigOrigin
<1> QED BY <1>5, <1>6, <1>7, <1>8, <1>9 DEF ConfigInv

LEMMA ConfigStep == ConfigInv /\ [Next]_vars => ConfigInv'
<1> SUFFICES ASSUME ConfigInv, [Next]_vars PROVE ConfigInv'
  OBVIOUS
<1>1. TypeOK'
  BY TypeOKStep DEF ConfigInv, ConfigTypes
<1>2. CASE UNCHANGED vars
  BY <1>2 DEF vars, ConfigInv, ConfigTypes, TypeOK, ConfigBoot, ConfigSame, ConfigCopies, ConfigOrigin, Source
<1>3. CASE Next
  BY <1>1, <1>3, LoadKeeps, ImportKeeps, CleanupKeeps, CrashKeeps, EditKeeps, BeginKeeps, CommitKeeps,
     FailKeeps, PublishKeeps DEF Next
<1> QED BY <1>2, <1>3

LEMMA ConfigAlways == Spec => []ConfigInv
<1>1. Init => ConfigInv
  BY ConfigStart
<1>2. ConfigInv /\ [Next]_vars => ConfigInv'
  BY ConfigStep
<1> QED BY <1>1, <1>2, PTL DEF Spec

-----------------------------------------------------------------------------
(***************************************************************************)
(* The theorems.                                                           *)
(***************************************************************************)
\* The types of the manager's own state, and the discipline of saveMu: exactly
\* the caller between its merge and its return holds it (config.go:507-537).
THEOREM ConfigTypeCorrect == Spec => []TypeOK
<1>1. ConfigInv => TypeOK
  BY DEF ConfigInv, ConfigTypes
<1> QED BY <1>1, ConfigAlways, PTL

\* Memory and database hold the same profiles, active key and DDNS switch
\* whenever no save is between its commit and its publication, after any number
\* of saves, refused saves and crashes (config.go:495-537).
THEOREM RestartChangesNothing == Spec => []MemoryMatchesDisk
<1>1. ConfigInv => MemoryMatchesDisk
  BY DEF ConfigInv, ConfigSame, MemoryMatchesDisk
<1> QED BY <1>1, ConfigAlways, PTL

\* The legacy fields are those of the active profile as long as no save carried
\* a copy older than memory.
THEOREM MirrorHolds == Spec => []ActiveProfileIsMirrored
<1>1. ConfigInv => ActiveProfileIsMirrored
  BY DEF ConfigInv, ConfigCopies, ActiveProfileIsMirrored
<1> QED BY <1>1, ConfigAlways, PTL

\* A first boot ends with the settings of the legacy source of the highest
\* priority, however often it crashes before the source is cleaned up.
THEOREM LegacyIsKept == Spec => []LegacySettingsKept
<1>1. ConfigInv => LegacySettingsKept
  BY DEF ConfigInv, ConfigOrigin, LegacySettingsKept
<1> QED BY <1>1, ConfigAlways, PTL

\* Once the tables exist only the commit of a caller's save changes them.
THEOREM TablesWin == Spec => LegacyNeverOverrides
<1>1. ASSUME [Next]_vars, disk # NoConfig, disk' # disk
      PROVE  \E c \in Callers : pc[c] = "merged"
  <2>1. ~UNCHANGED vars
    BY <1>1 DEF vars
  <2>2. \A c \in Callers, e \in Edits : ~GetAndEdit(c, e)
    BY <1>1 DEF GetAndEdit
  <2>3. ~LoadStructured /\ ~ImportLegacy /\ ~CleanupLegacy /\ ~Crash
    BY <1>1 DEF LoadStructured, ImportLegacy, CleanupLegacy, Crash
  <2>4. \A c \in Callers : ~BeginSave(c) /\ ~CommitFails(c) /\ ~Publish(c)
    BY <1>1 DEF BeginSave, CommitFails, Publish
  <2>5. \E c \in Callers : Commit(c)
    BY <1>1, <2>1, <2>2, <2>3, <2>4 DEF Next
  <2> QED BY <2>5 DEF Commit
<1>2. [Next]_vars => [disk # NoConfig /\ disk' # disk => \E c \in Callers : pc[c] = "merged"]_vars
  BY <1>1
<1> QED BY <1>2, PTL DEF Spec, LegacyNeverOverrides

\* An edit whose copy no save overtook, on a mirrored configuration, does what
\* it says and nothing else (config.go:515-521).
THEOREM EditsAreKept == Spec => EditIsExact
<1> DEFINE Exact == \A c \in Callers : pc[c] = "committed" /\ pc'[c] = "idle" /\ process' = "up"
                        /\ c \notin overtaken /\ ~mixed
                        => Means(edit[c], mem, mem')
<1>1. ASSUME ConfigInv, [Next]_vars,
             NEW c \in Callers, pc[c] = "committed", pc'[c] = "idle", process' = "up",
             c \notin overtaken, ~mixed
      PROVE  Means(edit[c], mem, mem')
  <2>1. process = "up"
    BY <1>1, OneSaves
  <2>2. Publish(c)
    <3>1. ~UNCHANGED vars /\ ~LoadStructured /\ ~ImportLegacy /\ ~CleanupLegacy /\ ~Crash
      BY <1>1, <2>1 DEF vars, LoadStructured, ImportLegacy, CleanupLegacy, Crash
    <3>2. pc \in [Callers -> {"idle", "edited", "merged", "committed"}]
      BY <1>1 DEF ConfigInv, ConfigTypes, TypeOK
    <3>3. ASSUME NEW d \in Callers PROVE (\A e \in Edits : ~GetAndEdit(d, e)) /\ ~BeginSave(d) /\ ~Commit(d)
      BY <1>1, <3>2 DEF GetAndEdit, BeginSave, Commit
    <3>4. ASSUME NEW d \in Callers, CommitFails(d) \/ Publish(d) PROVE Publish(c)
      <4>1. Return(d) /\ pc[d] \in {"merged", "committed"}
        BY <3>4 DEF CommitFails, Publish
      <4>2. d = c
        BY <1>1, <4>1, OneSaves
      <4> QED BY <1>1, <3>4, <4>2 DEF CommitFails
    <3> QED BY <1>1, <3>1, <3>3, <3>4 DEF Next
  <2>3. mem' = copy[c]
    BY <2>2 DEF Publish
  <2>4. Normal(mem) /\ Mirrored(mem)
    BY <1>1, <2>1 DEF ConfigInv, ConfigTypes, ConfigCopies
  <2>5. edit[c] \in Edits /\ Allowed(edit[c], mem) /\ copy[c] = Result(edit[c], mem)
    BY <1>1 DEF ConfigInv, ConfigCopies, Result
  <2>6. Means(edit[c], mem, Result(edit[c], mem))
    BY <2>4, <2>5, EditMeans
  <2> QED BY <2>3, <2>5, <2>6
<1>2. ConfigInv /\ [Next]_vars => [Exact]_vars
  BY <1>1
<1> QED BY <1>2, ConfigAlways, PTL DEF Spec, EditIsExact
=============================================================================
