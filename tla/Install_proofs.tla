--------------------------- MODULE Install_proofs ----------------------------
(***************************************************************************)
(* What Install promises, for every set of profiles, codes and settings,   *)
(* and every number of mishaps.                                            *)
(***************************************************************************)
EXTENDS Install, Counting, FiniteSetTheorems

-----------------------------------------------------------------------------
(* Positions.  Of a set of positions up to N the i-th is well defined, and *)
(* the later of two is at the larger place.                                *)
UpTo(S, k) == {j \in S : j <= k}

LEMMA UpToCounts ==
    ASSUME NEW S \in SUBSET Nat, IsFiniteSet(S)
    PROVE  /\ Cardinality(S) \in Nat
           /\ \A k : /\ IsFiniteSet(UpTo(S, k)) /\ Cardinality(UpTo(S, k)) \in Nat
                    /\ Cardinality(UpTo(S, k)) <= Cardinality(S)
           /\ \A k \in S : Cardinality(UpTo(S, k)) # 0
<1>1. ASSUME NEW k
      PROVE  /\ IsFiniteSet(UpTo(S, k)) /\ Cardinality(UpTo(S, k)) \in Nat
             /\ Cardinality(UpTo(S, k)) <= Cardinality(S)
  <2>1. UpTo(S, k) \in SUBSET S
    BY DEF UpTo
  <2> QED  BY <2>1, FS_Subset, FS_CardinalityType
<1>2. ASSUME NEW k \in S PROVE Cardinality(UpTo(S, k)) # 0
  <2>1. k \in UpTo(S, k)
    BY DEF UpTo
  <2> QED  BY <1>1, <2>1, FS_EmptySet
<1> QED  BY <1>1, <1>2, FS_CardinalityType

LEMMA UpToGrows ==
    ASSUME NEW S \in SUBSET Nat, IsFiniteSet(S), NEW a \in S, NEW b \in S, a < b
    PROVE  Cardinality(UpTo(S, a)) < Cardinality(UpTo(S, b))
<1>1. /\ IsFiniteSet(UpTo(S, b))
      /\ Cardinality(UpTo(S, a)) \in Nat /\ Cardinality(UpTo(S, b)) \in Nat
  BY UpToCounts
<1>2. a \in Nat /\ b \in Nat /\ \A j \in S : j \in Nat
  OBVIOUS
<1>3. \A j \in S : j <= a => j <= b
  BY <1>2
<1>4. UpTo(S, a) \in SUBSET UpTo(S, b)
  BY <1>3 DEF UpTo
<1>5. b \in UpTo(S, b) /\ b \notin UpTo(S, a)
  BY <1>2 DEF UpTo
<1>6. /\ Cardinality(UpTo(S, a)) <= Cardinality(UpTo(S, b))
      /\ Cardinality(UpTo(S, a)) # Cardinality(UpTo(S, b))
  BY <1>1, <1>4, <1>5, FS_Subset
<1> QED  BY <1>1, <1>6

(* No two positions of a set have as many of it before them.               *)
LEMMA OnePlace ==
    ASSUME NEW S \in SUBSET Nat, IsFiniteSet(S), NEW a \in S, NEW b \in S,
           Cardinality(UpTo(S, a)) = Cardinality(UpTo(S, b))
    PROVE  a = b
<1>1. a \in Nat /\ b \in Nat
  OBVIOUS
<1>2. Cardinality(UpTo(S, a)) \in Nat
  BY UpToCounts
<1>3. a < b \/ b < a \/ a = b
  BY <1>1
<1>4. CASE a < b
  <2>1. Cardinality(UpTo(S, a)) < Cardinality(UpTo(S, b))
    BY <1>4, UpToGrows
  <2> QED  BY <2>1, <1>2
<1>5. CASE b < a
  <2>1. Cardinality(UpTo(S, b)) < Cardinality(UpTo(S, a))
    BY <1>5, UpToGrows
  <2> QED  BY <2>1, <1>2
<1> QED  BY <1>3, <1>4, <1>5

LEMMA PlaceExists ==
    ASSUME NEW S \in SUBSET Nat, IsFiniteSet(S), NEW i \in 1 .. Cardinality(S)
    PROVE  \E k \in S : Cardinality(UpTo(S, k)) = i
<1> DEFINE n == Cardinality(S)
           rank == [k \in S |-> Cardinality(UpTo(S, k))]
<1>1. n \in Nat
  BY UpToCounts
<1>2. IsFiniteSet(1 .. n) /\ Cardinality(1 .. n) = n
  BY <1>1, FS_Interval
<1>3. ASSUME NEW k \in S PROVE Cardinality(UpTo(S, k)) \in 1 .. n
  <2>1. /\ Cardinality(UpTo(S, k)) \in Nat /\ Cardinality(UpTo(S, k)) <= n
        /\ Cardinality(UpTo(S, k)) # 0
    BY UpToCounts
  <2> QED  BY <2>1, <1>1
<1>4. rank \in [S -> 1 .. n]
  BY <1>3
<1>5. ASSUME NEW a \in S, NEW b \in S, rank[a] = rank[b] PROVE a = b
  <2>1. Cardinality(UpTo(S, a)) = Cardinality(UpTo(S, b))
    BY <1>5
  <2> QED  BY <2>1, OnePlace
<1>6. rank \in Injection(S, 1 .. n)
  BY <1>4, <1>5, Zenon DEF Injection, IsInjective
<1>7. rank \in Surjection(S, 1 .. n)
  BY <1>6, <1>2, FS_Injection
<1>8. \A x \in 1 .. n : \E k \in S : rank[k] = x
  BY <1>7, Zenon DEF Surjection
<1> QED  BY <1>8

LEMMA Places ==
    ASSUME NEW S \in SUBSET Nat, IsFiniteSet(S)
    PROVE  /\ \A i \in 1 .. Cardinality(S) : Nth(S, i) \in S
           /\ \A i, j \in 1 .. Cardinality(S) : i < j => Nth(S, i) < Nth(S, j)
           /\ \A k \in S : \E i \in 1 .. Cardinality(S) : Nth(S, i) = k
<1>0. Cardinality(S) \in Nat
  BY UpToCounts
<1>1. ASSUME NEW i \in 1 .. Cardinality(S)
      PROVE  Nth(S, i) \in S /\ Cardinality(UpTo(S, Nth(S, i))) = i
  BY PlaceExists DEF Nth, UpTo
<1>2. ASSUME NEW i \in 1 .. Cardinality(S), NEW j \in 1 .. Cardinality(S), i < j
      PROVE  Nth(S, i) < Nth(S, j)
  <2>1. PICK a \in S : a = Nth(S, i) /\ Cardinality(UpTo(S, a)) = i
    BY <1>1
  <2>2. PICK b \in S : b = Nth(S, j) /\ Cardinality(UpTo(S, b)) = j
    BY <1>1
  <2>3. i \in Nat /\ j \in Nat /\ a \in Nat /\ b \in Nat
    BY <1>0
  <2>4. CASE b < a
    <3>1. Cardinality(UpTo(S, b)) < Cardinality(UpTo(S, a))
      BY <2>4, UpToGrows
    <3> QED  BY <3>1, <2>1, <2>2, <2>3, <1>2
  <2>5. a # b
    BY <2>1, <2>2, <2>3, <1>2
  <2>6. a < b
    BY <2>3, <2>4, <2>5, <2>1, <2>2
  <2> QED  BY <2>1, <2>2, <2>6
<1>3. ASSUME NEW k \in S PROVE \E i \in 1 .. Cardinality(S) : Nth(S, i) = k
  <2>1. PICK i : i = Cardinality(UpTo(S, k))
    OBVIOUS
  <2>2. i \in Nat /\ i <= Cardinality(S) /\ i # 0
    BY <2>1, UpToCounts
  <2>3. i \in 1 .. Cardinality(S)
    BY <2>2, <1>0
  <2>4. Nth(S, i) \in S /\ Cardinality(UpTo(S, Nth(S, i))) = i
    BY <2>3, <1>1
  <2>5. Nth(S, i) = k
    BY <2>1, <2>4, OnePlace
  <2> QED  BY <2>3, <2>5
<1> QED  BY <1>1, <1>2, <1>3

-----------------------------------------------------------------------------
(* Environments.  What a key stands for is the value of the last member of *)
(* that key; there is one for every key of an object.                      *)
Members == [key : Key, value : SUBSET Atom, pre : Gap, post : Gap]
Entry == [key : Key, value : SUBSET Atom]
LastOf(obj, key, i) ==
    /\ i \in 1 .. Len(obj.members) /\ obj.members[i].key = key
    /\ \A j \in 1 .. Len(obj.members) : obj.members[j].key = key => j <= i

LEMMA EnvForm ==
    ASSUME NEW obj \in Env
    PROVE  /\ obj = [members |-> obj.members, inside |-> obj.inside]
           /\ obj.members \in Seq(Members) /\ obj.inside \in Gap
           /\ Len(obj.members) \in Nat /\ DOMAIN obj.members = 1 .. Len(obj.members)
           /\ \A i \in 1 .. Len(obj.members) :
                 /\ obj.members[i] \in Members
                 /\ obj.members[i].key \in Key /\ obj.members[i].value \in SUBSET Atom
                 /\ obj.members[i].pre \in Gap /\ obj.members[i].post \in Gap
<1>1. obj \in [members : Seq(Members), inside : Gap]
  BY DEF Env, Members
<1>2. /\ obj = [members |-> obj.members, inside |-> obj.inside]
      /\ obj.members \in Seq(Members) /\ obj.inside \in Gap
  BY <1>1
<1>3. /\ Len(obj.members) \in Nat /\ DOMAIN obj.members = 1 .. Len(obj.members)
      /\ \A i \in 1 .. Len(obj.members) : obj.members[i] \in Members
  BY <1>2
<1>4. \A m \in Members : /\ m.key \in Key /\ m.value \in SUBSET Atom
                         /\ m.pre \in Gap /\ m.post \in Gap
  BY DEF Members
<1> QED  BY <1>2, <1>3, <1>4

LEMMA EnvFrom ==
    ASSUME NEW n \in Nat, NEW m, m = [i \in 1 .. n |-> m[i]],
           \A i \in 1 .. n : m[i] \in Members
    PROVE  \A g \in Gap : /\ [members |-> m, inside |-> g] \in Env
                          /\ Len(m) = n
<1>1. m \in Seq(Members) /\ Len(m) = n
  OBVIOUS
<1> QED  BY <1>1 DEF Env, Members

LEMMA KeysAre ==
    ASSUME NEW obj \in Env
    PROVE  \A k : k \in Keys(obj) <=> \E i \in 1 .. Len(obj.members) : obj.members[i].key = k
BY EnvForm DEF Keys

LEMMA LastExists ==
    ASSUME NEW obj \in Env, NEW key \in Keys(obj)
    PROVE  \E i : LastOf(obj, key, i)
<1> DEFINE n == Len(obj.members)
           has == {i \in 1 .. n : obj.members[i].key = key}
           S == {n - i : i \in has}
<1>1. n \in Nat
  BY EnvForm
<1>2. S \subseteq Nat
  BY <1>1
<1>3. S # {}
  BY KeysAre
<1>4. PICK x \in S : \A y \in S : x <= y
  BY <1>2, <1>3, NatHasLeast
<1>5. PICK i \in has : x = n - i
  BY <1>4
<1>6. ASSUME NEW j \in has PROVE j <= i
  <2>1. n - i <= n - j
    BY <1>4, <1>5, <1>6
  <2> QED  BY <2>1, <1>1
<1> QED  BY <1>5, <1>6 DEF LastOf

LEMMA LastIs ==
    ASSUME NEW obj \in Env, NEW key, NEW i, LastOf(obj, key, i)
    PROVE  key \in Keys(obj) /\ FindMember(obj, key) = i /\ ValueOf(obj, key) = obj.members[i].value
<1>1. DOMAIN obj.members = 1 .. Len(obj.members) /\ Len(obj.members) \in Nat
  BY EnvForm
<1>2. \A j : LastOf(obj, key, j) => j = i
  BY <1>1 DEF LastOf
<1>3. FindMember(obj, key) = CHOOSE j : LastOf(obj, key, j)
  BY <1>1, <1>2 DEF FindMember, LastOf
<1>4. LastOf(obj, key, FindMember(obj, key))
  BY <1>3
<1>5. FindMember(obj, key) = i
  BY <1>4, <1>2
<1> QED  BY <1>5, KeysAre DEF LastOf, ValueOf

(* An object that has a key has a value of it.                             *)
LEMMA FoundMember ==
    ASSUME NEW obj \in Env, NEW key \in Keys(obj)
    PROVE  /\ LastOf(obj, key, FindMember(obj, key))
           /\ ValueOf(obj, key) \in SUBSET Atom
<1>1. PICK i : LastOf(obj, key, i)
  BY LastExists
<1>2. FindMember(obj, key) = i /\ ValueOf(obj, key) = obj.members[i].value
  BY <1>1, LastIs
<1> QED  BY <1>1, <1>2, EnvForm DEF LastOf

LEMMA EmptyEnv == Empty \in Env /\ Keys(Empty) = {}
BY DEF Empty, Env, Keys, Gap

(* An object written anew has its entries.                                 *)
Distinct(entries) ==
    \A i, j \in 1 .. Len(entries) : entries[i].key = entries[j].key => i = j
KeyIn(entries, k) == \E i \in 1 .. Len(entries) : entries[i].key = k

LEMMA WrittenHas ==
    ASSUME NEW entries \in Seq(Entry), Distinct(entries)
    PROVE  /\ Written(entries) \in Env
           /\ \A k : k \in Keys(Written(entries)) <=> KeyIn(entries, k)
           /\ \A i \in 1 .. Len(entries) :
                 ValueOf(Written(entries), entries[i].key) = entries[i].value
<1> DEFINE n == Len(entries)
           obj == Written(entries)
           m == obj.members
<1>1. n \in Nat /\ DOMAIN entries = 1 .. n /\ \A i \in 1 .. n : entries[i] \in Entry
  OBVIOUS
<1>2. /\ obj = [members |-> m, inside |-> ""] /\ m = [i \in 1 .. n |-> m[i]]
      /\ \A i \in 1 .. n : /\ m[i] \in Members
                          /\ m[i].key = entries[i].key /\ m[i].value = entries[i].value
  BY <1>1 DEF Written, Members, Entry, Gap
<1>3. "" \in Gap
  BY DEF Gap
<1> HIDE DEF obj, m
<1>4. obj \in Env /\ Len(obj.members) = n /\ m = obj.members
  BY <1>1, <1>2, <1>3, EnvFrom DEF m
<1>a. \A i \in 1 .. n : /\ obj.members[i].key = entries[i].key
                       /\ obj.members[i].value = entries[i].value
  BY <1>2, <1>4
<1>5. ASSUME NEW k PROVE k \in Keys(obj) <=> KeyIn(entries, k)
  <2>1. k \in Keys(obj) <=> \E i \in 1 .. Len(obj.members) : obj.members[i].key = k
    BY <1>4, KeysAre
  <2> QED  BY <2>1, <1>4, <1>a DEF KeyIn
<1>6. ASSUME NEW i \in 1 .. n PROVE ValueOf(obj, entries[i].key) = entries[i].value
  <2>1. \A j \in 1 .. n : entries[j].key = entries[i].key => j = i
    BY DEF Distinct
  <2>2. LastOf(obj, entries[i].key, i)
    BY <1>4, <1>a, <2>1 DEF LastOf
  <2> QED  BY <1>4, <1>a, <2>2, LastIs
<1> QED  BY <1>4, <1>5, <1>6 DEF obj

(* Appending adds the entries, and leaves what they do not name.           *)
LEMMA AppendAdds ==
    ASSUME NEW obj \in Env, NEW entries \in Seq(Entry), Distinct(entries)
    PROVE  /\ AppendMembers(obj, entries) \in Env
           /\ \A k : k \in Keys(AppendMembers(obj, entries)) <=> k \in Keys(obj) \/ KeyIn(entries, k)
           /\ \A i \in 1 .. Len(entries) :
                 ValueOf(AppendMembers(obj, entries), entries[i].key) = entries[i].value
           /\ \A k \in Keys(obj) :
                 ~KeyIn(entries, k) => ValueOf(AppendMembers(obj, entries), k) = ValueOf(obj, k)
<1> DEFINE c == Len(entries)
           n == Len(obj.members)
           to == AppendMembers(obj, entries)
           m == to.members
<1>1. c \in Nat /\ DOMAIN entries = 1 .. c /\ \A i \in 1 .. c : entries[i] \in Entry
  OBVIOUS
<1>2. n \in Nat /\ n + c \in Nat /\ obj.inside \in Gap
  BY <1>1, EnvForm
<1>3. {"", " ", "line"} = Gap
  BY DEF Gap
<1>4. to = [members |-> m, inside |-> ""] /\ m = [i \in 1 .. n + c |-> m[i]]
  BY DEF AppendMembers
<1>5. ASSUME NEW i \in 1 .. n
      PROVE  m[i] \in Members /\ m[i].key = obj.members[i].key /\ m[i].value = obj.members[i].value
  <2>1. i \in 1 .. n + c /\ (i < n \/ i = n)
    BY <1>1, <1>2
  <2>2. obj.members[i] \in Members
    BY EnvForm
  <2>3. CASE i < n
    BY <2>1, <2>2, <2>3 DEF AppendMembers
  <2>4. CASE i = n
    <3>1. m[i] = [obj.members[n] EXCEPT !.post = ""]
      <4>1. n \in 1 .. n + c /\ ~ (n < n)
        BY <2>1, <2>4, <1>2
      <4> QED  BY <2>4, <4>1 DEF AppendMembers
    <3> QED  BY <2>2, <2>4, <3>1, <1>3 DEF Members
  <2> QED  BY <2>1, <2>3, <2>4
<1>6. ASSUME NEW i \in 1 .. n + c, i > n
      PROVE  /\ m[i] \in Members /\ i - n \in 1 .. c
             /\ m[i].key = entries[i - n].key /\ m[i].value = entries[i - n].value
  <2>1. i - n \in 1 .. c /\ ~ (i < n) /\ i # n
    BY <1>1, <1>2, <1>6
  <2>2. entries[i - n] \in Entry
    BY <1>1, <2>1
  <2>3. n # 0 => obj.members[n].post \in Gap
    <3>1. n # 0 => n \in 1 .. n
      BY <1>2
    <3> QED  BY <3>1, EnvForm
  <2>4. PICK g, h : /\ m[i] = [key |-> entries[i - n].key, value |-> entries[i - n].value,
                               pre |-> g, post |-> h]
                    /\ g \in Gap /\ h \in Gap
    <3> DEFINE tail == IF n = 0 THEN obj.inside ELSE obj.members[n].post
               gap == IF n > 0 THEN IF obj.members[n].pre = "line" THEN "line" ELSE " "
                      ELSE IF i - n = 1 THEN "" ELSE " "
    <3>1. tail \in Gap /\ gap \in Gap
      BY <1>2, <1>3, <2>3
    <3>2. m[i] = [key |-> entries[i - n].key, value |-> entries[i - n].value, pre |-> gap,
                  post |-> IF i = n + c THEN tail ELSE ""]
      BY <2>1 DEF AppendMembers
    <3> QED  BY <3>1, <3>2, <1>3
  <2> QED  BY <2>1, <2>2, <2>4 DEF Members, Entry
<1>7. \A i \in 1 .. c : /\ n + i \in 1 .. n + c /\ n + i > n
                        /\ m[n + i].key = entries[i].key /\ m[n + i].value = entries[i].value
  <2> SUFFICES ASSUME NEW i \in 1 .. c
               PROVE  /\ n + i \in 1 .. n + c /\ n + i > n
                      /\ m[n + i].key = entries[i].key /\ m[n + i].value = entries[i].value
    OBVIOUS
  <2>1. n + i \in 1 .. n + c /\ n + i > n /\ (n + i) - n = i
    BY <1>1, <1>2
  <2> HIDE DEF m
  <2> QED  BY <2>1, <1>6
<1> HIDE DEF to, m
<1>8. to \in Env /\ Len(to.members) = n + c /\ m = to.members
  <2>1. \A i \in 1 .. n + c : i \in 1 .. n \/ i > n
    BY <1>1, <1>2
  <2>2. \A i \in 1 .. n + c : m[i] \in Members
    BY <2>1, <1>5, <1>6
  <2> QED  BY <1>2, <1>3, <1>4, <2>2, EnvFrom DEF m
<1>9. ASSUME NEW k PROVE k \in Keys(to) <=> k \in Keys(obj) \/ KeyIn(entries, k)
  <2>1. ASSUME k \in Keys(to) PROVE k \in Keys(obj) \/ KeyIn(entries, k)
    <3>1. PICK i \in 1 .. n + c : m[i].key = k
      BY <2>1, <1>8, KeysAre
    <3>2. CASE i > n
      BY <3>1, <3>2, <1>6 DEF KeyIn
    <3>3. CASE i \in 1 .. n
      BY <3>1, <3>3, <1>5, KeysAre
    <3> QED  BY <3>2, <3>3, <1>1, <1>2
  <2>2. ASSUME k \in Keys(obj) PROVE k \in Keys(to)
    <3>1. PICK i \in 1 .. n : obj.members[i].key = k
      BY <2>2, KeysAre
    <3>2. i \in 1 .. n + c
      BY <1>1, <1>2
    <3> QED  BY <3>1, <3>2, <1>5, <1>8, KeysAre
  <2>3. ASSUME KeyIn(entries, k) PROVE k \in Keys(to)
    BY <2>3, <1>7, <1>8, KeysAre DEF KeyIn
  <2> QED  BY <2>1, <2>2, <2>3
<1>10. ASSUME NEW i \in 1 .. c PROVE ValueOf(to, entries[i].key) = entries[i].value
  <2>1. ASSUME NEW j \in 1 .. n + c, m[j].key = entries[i].key PROVE j <= n + i
    <3>1. CASE j > n
      <4>1. j - n \in 1 .. c /\ entries[j - n].key = entries[i].key
        BY <2>1, <3>1, <1>6
      <4>2. j - n = i
        BY <4>1 DEF Distinct
      <4> QED  BY <4>2, <1>1, <1>2
    <3> QED  BY <3>1, <1>1, <1>2
  <2>2. LastOf(to, entries[i].key, n + i)
    BY <2>1, <1>7, <1>8 DEF LastOf
  <2> QED  BY <2>2, <1>7, <1>8, LastIs
<1>11. ASSUME NEW k \in Keys(obj), ~KeyIn(entries, k) PROVE ValueOf(to, k) = ValueOf(obj, k)
  <2>1. PICK i : LastOf(obj, k, i)
    BY LastExists
  <2>2. i \in 1 .. n /\ i \in 1 .. n + c
    BY <2>1, <1>1, <1>2 DEF LastOf
  <2>3. ASSUME NEW j \in 1 .. n + c, m[j].key = k PROVE j <= i
    <3>1. CASE j > n
      BY <2>3, <3>1, <1>6, <1>11 DEF KeyIn
    <3>2. CASE j \in 1 .. n
      BY <2>1, <2>3, <3>2, <1>5 DEF LastOf
    <3> QED  BY <3>1, <3>2, <1>1, <1>2
  <2>4. LastOf(to, k, i)
    BY <2>1, <2>2, <2>3, <1>5, <1>8 DEF LastOf
  <2> QED  BY <2>1, <2>2, <2>4, <1>5, <1>8, LastIs
<1> QED  BY <1>8, <1>9, <1>10, <1>11 DEF to

(* Replacing the value of a key changes that and nothing else.             *)
LEMMA ReplaceChanges ==
    ASSUME NEW obj \in Env, NEW key \in Keys(obj), NEW value \in SUBSET Atom
    PROVE  /\ ReplaceMemberValue(obj, key, value) \in Env
           /\ Keys(ReplaceMemberValue(obj, key, value)) = Keys(obj)
           /\ ValueOf(ReplaceMemberValue(obj, key, value), key) = value
           /\ \A k \in Keys(obj) \ {key} :
                 ValueOf(ReplaceMemberValue(obj, key, value), k) = ValueOf(obj, k)
<1> DEFINE n == Len(obj.members)
           f == FindMember(obj, key)
           to == ReplaceMemberValue(obj, key, value)
           m == to.members
<1>1. LastOf(obj, key, f) /\ f \in 1 .. n /\ n \in Nat
  BY FoundMember, EnvForm DEF LastOf
<1>2. obj.members = [i \in 1 .. n |-> obj.members[i]]
  BY EnvForm
<1>3. /\ to = [members |-> m, inside |-> obj.inside]
      /\ m = [obj.members EXCEPT ![f] = [obj.members[f] EXCEPT !.value = value]]
  BY EnvForm DEF ReplaceMemberValue
<1> HIDE DEF f, to, m
<1>0. obj.inside \in Gap /\ m = to.members
  BY <1>3, EnvForm DEF m
<1>4. m = [i \in 1 .. n |-> m[i]]
  BY <1>2, <1>3
<1>5. \A i \in 1 .. n : m[i] = IF i = f THEN [obj.members[f] EXCEPT !.value = value] ELSE obj.members[i]
  BY <1>1, <1>2, <1>3
<1>6. [obj.members[f] EXCEPT !.value = value] \in Members
  BY <1>1, EnvForm DEF Members
<1>7. \A i \in 1 .. n : /\ m[i] \in Members /\ m[i].key = obj.members[i].key
                       /\ m[i].value = IF i = f THEN value ELSE obj.members[i].value
  BY <1>1, <1>5, <1>6, EnvForm DEF Members
<1>8. to \in Env /\ Len(to.members) = n /\ m = to.members
  <2>1. \A i \in 1 .. n : m[i] \in Members
    BY <1>7
  <2>2. [members |-> m, inside |-> obj.inside] \in Env /\ Len(m) = n
    BY <1>0, <1>1, <1>4, <2>1, EnvFrom
  <2> QED  BY <1>0, <1>3, <2>2
<1>9. \A k : k \in Keys(to) <=> k \in Keys(obj)
  BY <1>7, <1>8, KeysAre
<1>10. \A k, i : LastOf(obj, k, i) => LastOf(to, k, i)
  BY <1>7, <1>8 DEF LastOf
<1>11. ValueOf(to, key) = value
  BY <1>1, <1>7, <1>8, <1>10, LastIs
<1>12. ASSUME NEW k \in Keys(obj), k # key PROVE ValueOf(to, k) = ValueOf(obj, k)
  <2>1. PICK i : LastOf(obj, k, i)
    BY LastExists
  <2>2. i \in 1 .. n /\ i # f
    BY <1>1, <1>12, <2>1 DEF LastOf
  <2> QED  BY <2>1, <2>2, <1>7, <1>8, <1>10, LastIs
<1> QED  BY <1>8, <1>9, <1>11, <1>12 DEF to

(* Removing keys removes all members of theirs, and leaves the rest.       *)
LEMMA RemoveKeeps ==
    ASSUME NEW obj \in Env, NEW keys
    PROVE  /\ RemoveMembers(obj, keys) \in Env
           /\ Keys(RemoveMembers(obj, keys)) = Keys(obj) \ keys
           /\ \A k \in Keys(obj) \ keys :
                 ValueOf(RemoveMembers(obj, keys), k) = ValueOf(obj, k)
<1> DEFINE len == Len(obj.members)
           stay == {i \in DOMAIN obj.members : obj.members[i].key \notin keys}
           n == Cardinality(stay)
           at(i) == Nth(stay, i)
           to == RemoveMembers(obj, keys)
           m == to.members
           last == obj.members[len].post
<1>1. len \in Nat /\ stay = {i \in 1 .. len : obj.members[i].key \notin keys}
  BY EnvForm
<1>2. IsFiniteSet(1 .. len) /\ Cardinality(1 .. len) = len
  BY <1>1, FS_Interval
<1>3. /\ stay \in SUBSET (1 .. len) /\ stay \in SUBSET Nat /\ IsFiniteSet(stay)
      /\ n \in Nat /\ n <= len /\ (n = len => stay = 1 .. len) /\ (n = 0 => stay = {})
  <2>1. stay \in SUBSET (1 .. len) /\ stay \in SUBSET Nat
    BY <1>1
  <2> HIDE DEF stay, len
  <2>2. IsFiniteSet(stay) /\ n <= len /\ (n = len => stay = 1 .. len)
    BY <2>1, <1>2, FS_Subset
  <2>3. n \in Nat /\ (n = 0 => stay = {})
    BY <2>2, FS_CardinalityType, FS_EmptySet
  <2> QED  BY <2>1, <2>2, <2>3
<1>4. ASSUME n = len PROVE to = obj /\ Keys(obj) = Keys(obj) \ keys
  <2>1. \A i \in 1 .. len : obj.members[i].key \notin keys
    BY <1>1, <1>3, <1>4
  <2>2. \A k \in Keys(obj) : k \notin keys
    BY <2>1, KeysAre
  <2> QED  BY <1>4, <2>2 DEF RemoveMembers
<1>5. ASSUME n # len, n = 0
      PROVE  to \in Env /\ Keys(to) = {} /\ Keys(obj) \ keys = {}
  <2>1. len # 0 /\ len \in 1 .. len
    BY <1>1, <1>3, <1>5
  <2>2. last \in Gap
    BY <2>1, EnvForm
  <2>3. to = [members |-> <<>>, inside |-> last]
    BY <1>5 DEF RemoveMembers
  <2>4. \A i \in 1 .. len : obj.members[i].key \in keys
    BY <1>1, <1>3, <1>5
  <2>5. Keys(obj) \ keys = {}
    BY <2>4, KeysAre
  <2>6. to \in Env /\ Keys(to) = {}
    BY <2>2, <2>3 DEF Env, Keys
  <2> QED  BY <2>5, <2>6
<1>6. ASSUME n # len, n # 0
      PROVE  /\ to \in Env /\ Keys(to) = Keys(obj) \ keys
             /\ \A k \in Keys(obj) \ keys : ValueOf(to, k) = ValueOf(obj, k)
  <2>1. len # 0 /\ len \in 1 .. len /\ 1 \in 1 .. len
    BY <1>1, <1>3, <1>6
  <2>2. last \in Gap /\ obj.members[1].pre \in Gap /\ "" \in Gap
    BY <2>1, EnvForm DEF Gap
  <2>3. /\ to = [members |-> m, inside |-> ""] /\ m = [i \in 1 .. n |-> m[i]]
        /\ \A i \in 1 .. n :
             m[i] = [obj.members[at(i)] EXCEPT !.pre = IF i = 1 THEN obj.members[1].pre ELSE @,
                                              !.post = IF i = n THEN last ELSE ""]
    BY <1>6 DEF RemoveMembers
  <2>4. /\ \A i \in 1 .. n : at(i) \in stay
        /\ \A i, j \in 1 .. n : i < j => at(i) < at(j)
        /\ \A k \in stay : \E i \in 1 .. n : at(i) = k
    <3> HIDE DEF stay
    <3> QED  BY <1>3, Places
  <2> HIDE DEF stay, at, to, m, last
  <2>5. ASSUME NEW i \in 1 .. n
        PROVE  /\ m[i] \in Members /\ at(i) \in 1 .. len
               /\ m[i].key = obj.members[at(i)].key /\ m[i].value = obj.members[at(i)].value
               /\ m[i].key \notin keys
    <3>1. at(i) \in 1 .. len /\ obj.members[at(i)].key \notin keys
      BY <1>1, <2>4
    <3>2. obj.members[at(i)] \in Members
      BY <3>1, EnvForm
    <3> QED  BY <2>2, <2>3, <3>1, <3>2 DEF Members
  <2>6. to \in Env /\ Len(to.members) = n /\ m = to.members
    <3>1. \A i \in 1 .. n : m[i] \in Members
      BY <2>5
    <3>2. [members |-> m, inside |-> ""] \in Env /\ Len(m) = n
      BY <1>3, <2>2, <2>3, <3>1, EnvFrom
    <3> QED  BY <2>3, <3>2
  <2>7. ASSUME NEW k \in Keys(to) PROVE k \in Keys(obj) \ keys
    <3>1. PICK i \in 1 .. n : m[i].key = k
      BY <2>6, KeysAre
    <3> QED  BY <3>1, <2>5, KeysAre
  <2>8. ASSUME NEW k \in Keys(obj), k \notin keys
        PROVE  k \in Keys(to) /\ ValueOf(to, k) = ValueOf(obj, k)
    <3>1. PICK l : LastOf(obj, k, l)
      BY LastExists
    <3>2. l \in stay
      BY <3>1, <2>8, <1>1 DEF LastOf
    <3>3. PICK i \in 1 .. n : at(i) = l
      BY <2>4, <3>2
    <3>4. ASSUME NEW j \in 1 .. n, m[j].key = k PROVE j <= i
      <4>1. at(j) <= at(i)
        BY <2>5, <3>1, <3>3, <3>4 DEF LastOf
      <4>2. i < j => at(i) < at(j)
        BY <2>4
      <4>3. at(i) \in Nat /\ at(j) \in Nat /\ i \in Nat /\ j \in Nat
        BY <2>5, <1>3
      <4> QED  BY <4>1, <4>2, <4>3
    <3>5. LastOf(to, k, i)
      BY <2>5, <2>6, <3>1, <3>3, <3>4 DEF LastOf
    <3> QED  BY <2>5, <2>6, <3>1, <3>3, <3>5, LastIs
  <2> QED  BY <2>6, <2>7, <2>8
<1> QED  BY <1>4, <1>5, <1>6

-----------------------------------------------------------------------------
(* The text of an object, part by part.                                    *)
NoGap == ""
Line == "line"
Size(obj) == Len(obj.members)
KeyAt(obj, i) == obj.members[i].key
ValueAt(obj, i) == obj.members[i].value
PreAt(obj, i) == obj.members[i].pre
PostAt(obj, i) == obj.members[i].post
Alike(a, i, b, j) ==
    KeyAt(a, i) = KeyAt(b, j) /\ ValueAt(a, i) = ValueAt(b, j) /\ PreAt(a, i) = PreAt(b, j)

LEMMA SameText ==
    ASSUME NEW a \in Env, NEW b \in Env, a.inside = b.inside, Size(a) = Size(b),
           \A i \in 1 .. Size(a) : Alike(a, i, b, i) /\ PostAt(a, i) = PostAt(b, i)
    PROVE  a = b
<1> DEFINE n == Size(a)
<1>1. /\ a = [members |-> a.members, inside |-> a.inside]
      /\ b = [members |-> b.members, inside |-> b.inside]
  BY EnvForm
<1>2. a.members \in Seq(Members) /\ Len(a.members) = n
  BY EnvForm DEF Size
<1>3. b.members \in Seq(Members) /\ Len(b.members) = n
  BY EnvForm DEF Size
<1>4. ASSUME NEW i \in 1 .. n PROVE a.members[i] = b.members[i]
  <2>1. PICK x, y : x = a.members[i] /\ y = b.members[i]
    OBVIOUS
  <2>2. x \in Members /\ y \in Members
    BY <2>1, EnvForm DEF Size
  <2>3. /\ x = [key |-> x.key, value |-> x.value, pre |-> x.pre, post |-> x.post]
        /\ y = [key |-> y.key, value |-> y.value, pre |-> y.pre, post |-> y.post]
    BY <2>2 DEF Members
  <2>4. x.key = y.key /\ x.value = y.value /\ x.pre = y.pre /\ x.post = y.post
    BY <2>1 DEF Alike, KeyAt, ValueAt, PreAt, PostAt
  <2>5. x = y
    BY <2>3, <2>4
  <2> QED  BY <2>1, <2>5
<1> HIDE DEF n
<1>5. a.members = b.members
  <2>1. PICK s, t : s = a.members /\ t = b.members
    OBVIOUS
  <2>2. s \in Seq(Members) /\ t \in Seq(Members) /\ Len(s) = Len(t)
    BY <1>2, <1>3, <2>1
  <2>3. \A i \in 1 .. Len(s) : s[i] = t[i]
    BY <1>2, <1>4, <2>1
  <2>4. s = t
    BY <2>2, <2>3
  <2> QED  BY <2>1, <2>4
<1> QED  BY <1>1, <1>5

(* An object with positions 1 to c has c members.                          *)
LEMMA SizeIs ==
    ASSUME NEW obj \in Env, NEW c \in Nat, DOMAIN obj.members = 1 .. c
    PROVE  Size(obj) = c
<1> DEFINE n == Size(obj)
<1>1. n \in Nat /\ 1 .. n = 1 .. c
  BY EnvForm DEF Size
<1> HIDE DEF n
<1>2. \A i \in Nat \ {0} : i <= n <=> i <= c
  <2>1. \A i \in Nat \ {0} : (i <= n <=> i \in 1 .. n) /\ (i <= c <=> i \in 1 .. c)
    BY <1>1
  <2> QED  BY <2>1, <1>1
<1>3. n \in Nat /\ (n # 0 => n <= c) /\ (c # 0 => c <= n)
  BY <1>1, <1>2
<1>4. n = c
  BY <1>3
<1> QED  BY <1>4 DEF n

(* appendMembers, to the letter.                                           *)
TailOf(obj) == IF Size(obj) = 0 THEN obj.inside ELSE PostAt(obj, Size(obj))
GapOf(obj, i) ==
    IF Size(obj) > 0 THEN IF PreAt(obj, Size(obj)) = "line" THEN "line" ELSE " "
    ELSE IF i = 1 THEN NoGap ELSE " "

(* The members of obj, the last of them with nothing behind its value ...  *)
InFront(to, obj, n) ==
    \A i \in 1 .. n : /\ Alike(to, i, obj, i)
                      /\ PostAt(to, i) = IF i = n THEN NoGap ELSE PostAt(obj, i)
(* ... and behind them an entry at i.                                      *)
EntryAt(to, i, obj, e, h) ==
    KeyAt(to, i) = e.key /\ ValueAt(to, i) = e.value /\ PreAt(to, i) = GapOf(obj, h)
Behind(to, obj, entries, n, m) ==
    \A i \in 1 .. m : i > n =>
        /\ EntryAt(to, i, obj, entries[i - n], i - n)
        /\ PostAt(to, i) = IF i = m THEN TailOf(obj) ELSE NoGap

LEMMA AppendText ==
    ASSUME NEW obj \in Env, NEW entries \in Seq(Entry), Distinct(entries),
           NEW to, to = AppendMembers(obj, entries)
    PROVE  /\ to \in Env /\ to.inside = NoGap /\ Size(to) = Size(obj) + Len(entries)
           /\ InFront(to, obj, Size(obj)) /\ Behind(to, obj, entries, Size(obj), Size(to))
<1> DEFINE n == Size(obj)
           c == Len(entries)
<1>1. to \in Env
  BY AppendAdds
<1>2. n \in Nat /\ c \in Nat /\ n + c \in Nat
  BY EnvForm DEF Size
<1>3. to.inside = NoGap /\ DOMAIN to.members = 1 .. n + c
  BY DEF NoGap, AppendMembers, Size
<1>4. Size(to) = n + c
  <2>1. PICK d : d = n + c
    OBVIOUS
  <2> QED  BY <1>1, <1>2, <1>3, <2>1, SizeIs
<1>5. ASSUME NEW i \in 1 .. n
      PROVE  Alike(to, i, obj, i) /\ PostAt(to, i) = IF i = n THEN NoGap ELSE PostAt(obj, i)
  <2>1. i \in 1 .. n + c /\ (i < n \/ i = n)
    BY <1>2
  <2>2. PICK x, y : x = obj.members[i] /\ y = to.members[i]
    OBVIOUS
  <2>3. x \in Members
    BY <2>2, EnvForm DEF Size
  <2>4. CASE i < n
    <3>1. y = x
      BY <2>1, <2>2, <2>4 DEF NoGap, AppendMembers, Size
    <3>2. i # n
      BY <1>2, <2>4
    <3> QED  BY <2>2, <3>1, <3>2 DEF Alike, KeyAt, ValueAt, PreAt, PostAt
  <2>5. CASE i = n
    <3>1. ~(i < n) /\ n \in 1 .. n + c
      BY <1>2, <2>1, <2>5
    <3>2. y = [x EXCEPT !.post = NoGap]
      BY <2>1, <2>2, <2>5, <3>1 DEF NoGap, AppendMembers, Size
    <3>3. y.key = x.key /\ y.value = x.value /\ y.pre = x.pre /\ y.post = NoGap
      BY <2>3, <3>2 DEF Members
    <3> QED  BY <2>2, <2>5, <3>3 DEF Alike, KeyAt, ValueAt, PreAt, PostAt
  <2> QED  BY <2>1, <2>4, <2>5
<1>6. ASSUME NEW i \in 1 .. n + c, i > n
      PROVE  /\ EntryAt(to, i, obj, entries[i - n], i - n)
             /\ PostAt(to, i) = IF i = n + c THEN TailOf(obj) ELSE NoGap
  <2>1. ~(i < n) /\ i # n
    BY <1>2, <1>6
  <2> DEFINE tail == IF n = 0 THEN obj.inside ELSE obj.members[n].post
             gap(h) == IF n > 0 THEN IF obj.members[n].pre = "line" THEN "line" ELSE " "
                       ELSE IF h = 1 THEN NoGap ELSE " "
  <2>2. to.members[i] = [key |-> entries[i - n].key, value |-> entries[i - n].value,
                         pre |-> gap(i - n), post |-> IF i = n + c THEN tail ELSE NoGap]
    BY <2>1 DEF NoGap, AppendMembers, Size
  <2>3. gap(i - n) = GapOf(obj, i - n) /\ tail = TailOf(obj)
    BY DEF GapOf, TailOf, PreAt, PostAt
  <2> HIDE DEF gap, tail
  <2>4. PICK k, v, g, h, y : /\ k = entries[i - n].key /\ v = entries[i - n].value /\ g = gap(i - n)
                             /\ h = (IF i = n + c THEN tail ELSE NoGap) /\ y = to.members[i]
    OBVIOUS
  <2>5. y = [key |-> k, value |-> v, pre |-> g, post |-> h]
    BY <2>2, <2>4
  <2>6. y.key = k /\ y.value = v /\ y.pre = g /\ y.post = h
    BY <2>5
  <2> QED  BY <2>3, <2>4, <2>6 DEF EntryAt, KeyAt, ValueAt, PreAt, PostAt
<1>7. InFront(to, obj, n)
  BY <1>5 DEF InFront
<1>8. Behind(to, obj, entries, n, n + c)
  BY <1>6 DEF Behind
<1> QED  BY <1>1, <1>3, <1>4, <1>7, <1>8

(* replaceMemberValue, to the letter.                                      *)
ReplacedAt(to, obj, key, value, n) ==
    \A i \in 1 .. n :
        /\ KeyAt(to, i) = KeyAt(obj, i) /\ PreAt(to, i) = PreAt(obj, i)
        /\ PostAt(to, i) = PostAt(obj, i)
        /\ ValueAt(to, i) = IF LastOf(obj, key, i) THEN value ELSE ValueAt(obj, i)
LEMMA ReplaceText ==
    ASSUME NEW obj \in Env, NEW key \in Keys(obj), NEW value \in SUBSET Atom,
           NEW to, to = ReplaceMemberValue(obj, key, value)
    PROVE  /\ to \in Env /\ to.inside = obj.inside /\ Size(to) = Size(obj)
           /\ ReplacedAt(to, obj, key, value, Size(obj))
<1> DEFINE n == Size(obj)
<1>1. to \in Env
  BY ReplaceChanges
<1>2. PICK f : f = FindMember(obj, key) /\ LastOf(obj, key, f) /\ f \in 1 .. n
  BY FoundMember DEF LastOf, Size
<1>3. \A i : LastOf(obj, key, i) <=> i = f
  BY <1>2, LastIs
<1>4. /\ to.inside = obj.inside
      /\ to.members = [obj.members EXCEPT ![f] = [obj.members[f] EXCEPT !.value = value]]
  BY <1>2, EnvForm DEF ReplaceMemberValue
<1>5. DOMAIN obj.members = 1 .. n /\ n \in Nat
  BY EnvForm DEF Size
<1> HIDE DEF n
<1>6. Size(to) = n
  <2>1. DOMAIN to.members = 1 .. n
    BY <1>4, <1>5
  <2> QED  BY <1>1, <1>5, <2>1, SizeIs
<1>7. ASSUME NEW i \in 1 .. n
      PROVE  /\ KeyAt(to, i) = KeyAt(obj, i) /\ PreAt(to, i) = PreAt(obj, i)
             /\ PostAt(to, i) = PostAt(obj, i)
             /\ ValueAt(to, i) = IF i = f THEN value ELSE ValueAt(obj, i)
  <2>1. PICK x, y : x = obj.members[i] /\ y = to.members[i]
    OBVIOUS
  <2>2. x \in Members
    BY <2>1, EnvForm DEF Size, n
  <2>3. y = IF i = f THEN [x EXCEPT !.value = value] ELSE x
    BY <1>2, <1>4, <1>5, <2>1
  <2>4. /\ y.key = x.key /\ y.pre = x.pre /\ y.post = x.post
        /\ y.value = IF i = f THEN value ELSE x.value
    BY <2>2, <2>3 DEF Members
  <2> QED  BY <2>1, <2>4 DEF KeyAt, ValueAt, PreAt, PostAt
<1>8. ReplacedAt(to, obj, key, value, n)
  BY <1>3, <1>7 DEF ReplacedAt
<1> QED  BY <1>1, <1>4, <1>6, <1>8 DEF n

(* The first k positions of a set that begins with them are themselves, and*)
(* one more behind them is the next.                                       *)
LEMMA FirstPlaces ==
    ASSUME NEW S \in SUBSET Nat, IsFiniteSet(S), NEW k \in Nat, 1 .. k \subseteq S,
           \A j \in S : j >= 1, NEW i \in 1 .. k
    PROVE  Nth(S, i) = i
<1>1. i \in S /\ i \in Nat /\ i <= k
  OBVIOUS
<1>2. \A j : j \in UpTo(S, i) <=> j \in 1 .. i
  <2>1. \A j : j \in 1 .. i => j \in 1 .. k /\ j <= i
    BY <1>1
  <2>2. \A j \in S : j \in Nat /\ j >= 1
    OBVIOUS
  <2>3. \A j \in S : j <= i => j \in 1 .. i
    BY <1>1, <2>2
  <2> QED  BY <2>1, <2>3 DEF UpTo
<1>3. UpTo(S, i) = 1 .. i
  BY <1>2
<1>4. Cardinality(UpTo(S, i)) = i
  BY <1>1, <1>3, FS_Interval
<1>5. PICK a : a = Nth(S, i)
  OBVIOUS
<1>6. a \in S /\ Cardinality(UpTo(S, a)) = i
  BY <1>1, <1>4, <1>5 DEF Nth, UpTo
<1>7. a = i
  BY <1>1, <1>4, <1>6, OnePlace
<1> QED  BY <1>5, <1>7

LEMMA PlaceBehind ==
    ASSUME NEW k \in Nat, NEW l \in Nat, l > k
    PROVE  /\ IsFiniteSet((1 .. k) \cup {l}) /\ Cardinality((1 .. k) \cup {l}) = k + 1
           /\ Nth((1 .. k) \cup {l}, k + 1) = l
<1> DEFINE S == (1 .. k) \cup {l}
<1>1. IsFiniteSet(1 .. k) /\ Cardinality(1 .. k) = k /\ l \notin 1 .. k
  BY FS_Interval
<1>2. IsFiniteSet(S) /\ Cardinality(S) = k + 1
  BY <1>1, FS_AddElement
<1>3. UpTo(S, l) = S /\ l \in S /\ S \in SUBSET Nat
  BY DEF UpTo
<1> HIDE DEF S
<1>4. PICK a : a = Nth(S, k + 1)
  OBVIOUS
<1>5. a \in S /\ Cardinality(UpTo(S, a)) = k + 1
  BY <1>2, <1>3, <1>4 DEF Nth, UpTo
<1>6. a = l
  BY <1>2, <1>3, <1>5, OnePlace
<1>7. Nth(S, k + 1) = l
  BY <1>4, <1>6
<1> QED  BY <1>2, <1>7 DEF S

(* removeMembers, to the letter: of an object whose first k members stay   *)
(* and nothing else, and of one whose last stays besides.                  *)
Opened(to, obj, k) == \A i \in 1 .. k : Alike(to, i, obj, i) /\ PostAt(to, i) = NoGap
Closed(to, obj, k, tail) ==
    \A i \in 1 .. k : Alike(to, i, obj, i) /\ PostAt(to, i) = IF i = k THEN tail ELSE NoGap

(* Of the n members those of K are the ones behind the first k, with or    *)
(* without the last.                                                       *)
GoBehind(obj, K, k, n) == \A i \in 1 .. n : KeyAt(obj, i) \in K <=> i > k
GoBetween(obj, K, k, n) == \A i \in 1 .. n : KeyAt(obj, i) \in K <=> i > k /\ i # n

LEMMA RemoveRest ==
    ASSUME NEW obj \in Env, NEW K, NEW n, n = Size(obj), NEW k \in Nat, k < n,
           GoBehind(obj, K, k, n),
           NEW to, to = RemoveMembers(obj, K)
    PROVE  /\ to \in Env /\ Size(to) = k
           /\ to.inside = IF k = 0 THEN PostAt(obj, n) ELSE NoGap
           /\ Closed(to, obj, k, PostAt(obj, n))
<1> DEFINE stay == {i \in DOMAIN obj.members : obj.members[i].key \notin K}
           last == obj.members[n].post
<1>1. to \in Env
  BY RemoveKeeps
<1>2. n \in Nat /\ DOMAIN obj.members = 1 .. n
  BY EnvForm DEF Size
<1>3. stay = 1 .. k
  BY <1>2 DEF KeyAt, GoBehind
<1>4. IsFiniteSet(stay) /\ Cardinality(stay) = k
  <2>1. IsFiniteSet(1 .. k) /\ Cardinality(1 .. k) = k
    BY FS_Interval
  <2> HIDE DEF stay
  <2> QED  BY <1>3, <2>1
<1>5. \A i \in 1 .. k : Nth(stay, i) = i
  <2>1. /\ stay \in SUBSET Nat /\ 1 .. k \subseteq stay /\ \A j \in stay : j >= 1
    BY <1>3
  <2> HIDE DEF stay
  <2> QED  BY <1>4, <2>1, FirstPlaces
<1>6. CASE k = 0
  <2>1. to = [members |-> <<>>, inside |-> last]
    BY <1>2, <1>4, <1>6 DEF NoGap, RemoveMembers, Size
  <2>2. to.inside = PostAt(obj, n) /\ to.members = <<>>
    BY <2>1 DEF PostAt
  <2>3. Size(to) = 0
    BY <2>2 DEF Size
  <2>4. Closed(to, obj, k, PostAt(obj, n))
    <3>1. 1 .. k = {}
      BY <1>6
    <3> QED  BY <3>1 DEF Closed
  <2> QED  BY <1>1, <1>6, <2>2, <2>3, <2>4
<1>7. CASE k # 0
  <2>1. /\ to.inside = NoGap /\ DOMAIN to.members = 1 .. k
        /\ \A i \in 1 .. k : to.members[i] =
              [obj.members[Nth(stay, i)] EXCEPT
                 !.pre = IF i = 1 THEN obj.members[1].pre ELSE @,
                 !.post = IF i = k THEN last ELSE NoGap]
    <3>1. k # n
      BY <1>2
    <3> QED  BY <1>2, <1>4, <1>7, <3>1 DEF NoGap, RemoveMembers, Size
  <2> HIDE DEF stay
  <2>2. ASSUME NEW i \in 1 .. k
        PROVE  Alike(to, i, obj, i) /\ PostAt(to, i) = IF i = k THEN PostAt(obj, n) ELSE NoGap
    <3>1. PICK x, y, g, h : /\ x = obj.members[i] /\ y = to.members[i]
                            /\ g = (IF i = 1 THEN obj.members[1].pre ELSE x.pre)
                            /\ h = IF i = k THEN last ELSE NoGap
      OBVIOUS
    <3>2. x \in Members
      <4>1. i \in 1 .. n
        BY <1>2
      <4>2. \A j \in 1 .. Size(obj) : obj.members[j] \in Members
        BY EnvForm DEF Size
      <4> QED  BY <3>1, <4>1, <4>2
    <3>3. y = [x EXCEPT !.pre = g, !.post = h]
      <4>1. PICK j : j = Nth(stay, i)
        OBVIOUS
      <4>2. j = i
        BY <1>5, <4>1
      <4>3. to.members[i] = [obj.members[j] EXCEPT
                               !.pre = IF i = 1 THEN obj.members[1].pre ELSE @,
                               !.post = IF i = k THEN last ELSE NoGap]
        BY <2>1, <4>1
      <4> HIDE DEF last
      <4> QED  BY <3>1, <4>2, <4>3
    <3>4. y.key = x.key /\ y.value = x.value /\ y.pre = g /\ y.post = h
      BY <3>2, <3>3 DEF Members
    <3>5. g = x.pre
      BY <3>1
    <3> QED  BY <3>1, <3>4, <3>5 DEF Alike, KeyAt, ValueAt, PreAt, PostAt
  <2>3. Size(to) = k
    BY <1>1, <2>1, SizeIs
  <2> QED  BY <1>1, <1>7, <2>1, <2>2, <2>3 DEF Closed
<1> QED  BY <1>6, <1>7

LEMMA RemoveMiddle ==
    ASSUME NEW obj \in Env, NEW K, NEW n, n = Size(obj), NEW k \in Nat, k + 1 < n,
           GoBetween(obj, K, k, n),
           NEW to, to = RemoveMembers(obj, K)
    PROVE  /\ to \in Env /\ Size(to) = k + 1 /\ to.inside = NoGap
           /\ Opened(to, obj, k)
           /\ KeyAt(to, k + 1) = KeyAt(obj, n) /\ ValueAt(to, k + 1) = ValueAt(obj, n)
           /\ PreAt(to, k + 1) = IF k = 0 THEN PreAt(obj, 1) ELSE PreAt(obj, n)
           /\ PostAt(to, k + 1) = PostAt(obj, n)
<1> DEFINE stay == {i \in DOMAIN obj.members : obj.members[i].key \notin K}
           last == obj.members[n].post
<1>1. to \in Env
  BY RemoveKeeps
<1>2. n \in Nat /\ DOMAIN obj.members = 1 .. n /\ n > k
  BY EnvForm DEF Size
<1>3. stay = (1 .. k) \cup {n}
  BY <1>2 DEF KeyAt, GoBetween
<1>4. IsFiniteSet(stay) /\ Cardinality(stay) = k + 1 /\ Nth(stay, k + 1) = n
  <2> HIDE DEF stay
  <2> QED  BY <1>2, <1>3, PlaceBehind
<1>5. \A i \in 1 .. k : Nth(stay, i) = i
  <2>1. /\ stay \in SUBSET Nat /\ 1 .. k \subseteq stay /\ \A j \in stay : j >= 1
    BY <1>2, <1>3
  <2> HIDE DEF stay
  <2> QED  BY <1>4, <2>1, FirstPlaces
<1>6. /\ to.inside = NoGap /\ DOMAIN to.members = 1 .. k + 1
      /\ \A i \in 1 .. k + 1 : to.members[i] =
            [obj.members[Nth(stay, i)] EXCEPT
               !.pre = IF i = 1 THEN obj.members[1].pre ELSE @,
               !.post = IF i = k + 1 THEN last ELSE NoGap]
  <2>1. k + 1 # n /\ k + 1 # 0
    BY <1>2
  <2> QED  BY <1>2, <1>4, <2>1 DEF NoGap, RemoveMembers, Size
<1> HIDE DEF stay
<1>7. ASSUME NEW i \in 1 .. k + 1, NEW j \in 1 .. n, j = Nth(stay, i)
      PROVE  /\ KeyAt(to, i) = KeyAt(obj, j) /\ ValueAt(to, i) = ValueAt(obj, j)
             /\ PreAt(to, i) = IF i = 1 THEN PreAt(obj, 1) ELSE PreAt(obj, j)
             /\ PostAt(to, i) = IF i = k + 1 THEN PostAt(obj, n) ELSE NoGap
  <2>1. PICK x, y, g, h : /\ x = obj.members[j] /\ y = to.members[i]
                          /\ g = (IF i = 1 THEN obj.members[1].pre ELSE x.pre)
                          /\ h = IF i = k + 1 THEN last ELSE NoGap
    OBVIOUS
  <2>2. x \in Members
    BY <1>2, <2>1, EnvForm DEF Size
  <2>3. y = [x EXCEPT !.pre = g, !.post = h]
    BY <1>6, <1>7, <2>1
  <2>4. y.key = x.key /\ y.value = x.value /\ y.pre = g /\ y.post = h
    BY <2>2, <2>3 DEF Members
  <2> QED  BY <2>1, <2>4 DEF KeyAt, ValueAt, PreAt, PostAt
<1>8. ASSUME NEW i \in 1 .. k
      PROVE  Alike(to, i, obj, i) /\ PostAt(to, i) = NoGap
  <2>1. i \in 1 .. k + 1 /\ i \in 1 .. n /\ i = Nth(stay, i) /\ i # k + 1
    BY <1>2, <1>5
  <2> QED  BY <1>7, <2>1 DEF Alike
<1>9. /\ KeyAt(to, k + 1) = KeyAt(obj, n) /\ ValueAt(to, k + 1) = ValueAt(obj, n)
      /\ PreAt(to, k + 1) = IF k = 0 THEN PreAt(obj, 1) ELSE PreAt(obj, n)
      /\ PostAt(to, k + 1) = PostAt(obj, n)
  <2>1. k + 1 \in 1 .. k + 1 /\ n \in 1 .. n /\ n = Nth(stay, k + 1) /\ (k + 1 = 1 <=> k = 0)
    BY <1>2, <1>4
  <2> QED  BY <1>7, <2>1
<1>10. Size(to) = k + 1
  <2>1. PICK c \in Nat : c = k + 1
    OBVIOUS
  <2>2. DOMAIN to.members = 1 .. c
    BY <1>6, <2>1
  <2> QED  BY <1>1, <2>1, <2>2, SizeIs
<1>11. Opened(to, obj, k)
  BY <1>8 DEF Opened
<1> QED  BY <1>1, <1>6, <1>9, <1>10, <1>11

LEMMA TextForm ==
    ASSUME NEW obj \in Env
    PROVE  /\ Size(obj) \in Nat /\ obj.inside \in Gap
           /\ \A k : k \in Keys(obj) <=> \E i \in 1 .. Size(obj) : KeyAt(obj, i) = k
           /\ \A key, i : LastOf(obj, key, i) <=>
                 /\ i \in 1 .. Size(obj) /\ KeyAt(obj, i) = key
                 /\ \A j \in 1 .. Size(obj) : KeyAt(obj, j) = key => j <= i
BY EnvForm, KeysAre DEF Size, KeyAt, LastOf

(* An object whose text survives an entry being appended and removed: no   *)
(* whitespace in front of its commas, nor beside its members.              *)
Tidy(obj) ==
    /\ Size(obj) # 0 => obj.inside = NoGap
    /\ \A i \in 1 .. Size(obj) : i # Size(obj) => PostAt(obj, i) = NoGap

(* What is appended and removed again leaves the text as it was, if that   *)
(* is tidy; and only if.                                                   *)
LEMMA AppendedThenRemoved ==
    ASSUME NEW obj \in Env, NEW entries \in Seq(Entry), Distinct(entries), Len(entries) # 0,
           NEW K, Keys(obj) \cap K = {}, \A i \in 1 .. Len(entries) : entries[i].key \in K
    PROVE  RemoveMembers(AppendMembers(obj, entries), K) = obj <=> Tidy(obj)
<1>1. PICK mid : mid = AppendMembers(obj, entries)
  OBVIOUS
<1>2. PICK to : to = RemoveMembers(mid, K)
  OBVIOUS
<1>3. PICK n, c, m : n = Size(obj) /\ c = Len(entries) /\ m = Size(mid)
  OBVIOUS
<1>4. mid \in Env /\ m = n + c
  BY <1>1, <1>3, AppendText
<1>a. InFront(mid, obj, n) /\ Behind(mid, obj, entries, n, m)
  BY <1>1, <1>3, AppendText
<1>5. n \in Nat /\ c \in Nat /\ c # 0
  BY <1>3, TextForm
<1>6. m \in Nat /\ n < m
  BY <1>4, <1>5
<1>7. ASSUME NEW i \in 1 .. m PROVE KeyAt(mid, i) \in K <=> i > n
  <2>1. CASE i > n
    <3>1. i - n \in 1 .. c
      BY <1>4, <1>5, <2>1
    <3>2. KeyAt(mid, i) = entries[i - n].key
      BY <1>a, <2>1 DEF Behind, EntryAt
    <3> QED  BY <1>3, <2>1, <3>1, <3>2
  <2>2. CASE ~(i > n)
    <3>1. i \in 1 .. n
      BY <1>5, <1>6, <2>2
    <3>2. KeyAt(obj, i) \in Keys(obj)
      BY <1>3, <3>1, TextForm
    <3>3. KeyAt(mid, i) = KeyAt(obj, i)
      BY <1>a, <3>1 DEF InFront, Alike
    <3> QED  BY <2>2, <3>2, <3>3
  <2> QED  BY <2>1, <2>2
<1>8. PostAt(mid, m) = TailOf(obj)
  <2>1. m \in 1 .. m /\ m > n
    BY <1>5, <1>6
  <2> QED  BY <1>a, <2>1 DEF Behind
<1>9. /\ to \in Env /\ Size(to) = n /\ to.inside = IF n = 0 THEN TailOf(obj) ELSE NoGap
      /\ Closed(to, mid, n, TailOf(obj))
  <2>1. /\ to \in Env /\ Size(to) = n /\ to.inside = IF n = 0 THEN PostAt(mid, m) ELSE NoGap
        /\ Closed(to, mid, n, PostAt(mid, m))
    <3>1. mid \in Env /\ m = Size(mid) /\ n \in Nat /\ n < m /\ to = RemoveMembers(mid, K)
      BY <1>2, <1>3, <1>4, <1>5, <1>6
    <3>2. GoBehind(mid, K, n, m)
      BY <1>7 DEF GoBehind
    <3> QED  BY <3>1, <3>2, RemoveRest
  <2> QED  BY <1>8, <2>1
<1>b. to \in Env /\ Size(to) = n
  BY <1>9
<1>10. /\ n # 0 => TailOf(obj) = PostAt(obj, n)
       /\ n = 0 => TailOf(obj) = obj.inside
  BY <1>3 DEF TailOf
<1>11. ASSUME NEW i \in 1 .. n
       PROVE  /\ Alike(to, i, obj, i) /\ PostAt(to, i) = IF i = n THEN PostAt(obj, n) ELSE NoGap
  <2>1. Alike(to, i, mid, i) /\ Alike(mid, i, obj, i)
    BY <1>a, <1>9 DEF Closed, InFront
  <2>2. n # 0
    BY <1>5
  <2>3. PostAt(to, i) = IF i = n THEN PostAt(obj, n) ELSE NoGap
    BY <1>9, <1>10, <2>2 DEF Closed
  <2> QED  BY <2>1, <2>3 DEF Alike
<1>12. ASSUME Tidy(obj) PROVE to = obj
  <2>1. to.inside = obj.inside
    BY <1>3, <1>9, <1>10, <1>12 DEF Tidy
  <2>2. \A i \in 1 .. n : Alike(to, i, obj, i) /\ PostAt(to, i) = PostAt(obj, i)
    BY <1>3, <1>11, <1>12 DEF Tidy
  <2> QED  BY <1>3, <1>b, <2>1, <2>2, SameText
<1>13. ASSUME to = obj PROVE Tidy(obj)
  <2>1. n # 0 => obj.inside = NoGap
    BY <1>9, <1>13
  <2>2. \A i \in 1 .. n : i # n => PostAt(obj, i) = NoGap
    BY <1>11, <1>13
  <2> QED  BY <1>3, <2>1, <2>2 DEF Tidy
<1> QED  BY <1>1, <1>2, <1>12, <1>13

(* Entries removed from in front of one that was appended behind them.     *)
LEMMA RemovedBefore ==
    ASSUME NEW obj \in Env, Tidy(obj), NEW entries \in Seq(Entry), Distinct(entries), Len(entries) # 0,
           NEW K, Keys(obj) \cap K = {}, \A i \in 1 .. Len(entries) : entries[i].key \in K,
           NEW e \in Seq(Entry), Distinct(e), Len(e) = 1, e[1].key \notin K
    PROVE  RemoveMembers(AppendMembers(AppendMembers(obj, entries), e), K) = AppendMembers(obj, e)
<1>1. PICK x : x = AppendMembers(obj, entries)
  OBVIOUS
<1>2. PICK y : y = AppendMembers(x, e)
  OBVIOUS
<1>3. PICK z : z = RemoveMembers(y, K)
  OBVIOUS
<1>4. PICK w : w = AppendMembers(obj, e)
  OBVIOUS
<1>5. PICK n, c, m, l, k : /\ n = Size(obj) /\ c = Len(entries) /\ m = Size(x)
                           /\ l = Size(y) /\ k = Size(w)
  OBVIOUS
<1>6. x \in Env /\ m = n + c
  BY <1>1, <1>5, AppendText
<1>a. InFront(x, obj, n) /\ Behind(x, obj, entries, n, m)
  BY <1>1, <1>5, AppendText
<1>7. y \in Env /\ l = m + 1
  BY <1>2, <1>5, <1>6, AppendText
<1>b. InFront(y, x, m) /\ Behind(y, x, e, m, l)
  BY <1>2, <1>5, <1>6, AppendText
<1>8. w \in Env /\ k = n + 1
  BY <1>4, <1>5, AppendText
<1>c. InFront(w, obj, n) /\ Behind(w, obj, e, n, k)
  BY <1>4, <1>5, AppendText
<1>d. w.inside = NoGap
  BY <1>4, AppendText
<1>9. n \in Nat /\ c \in Nat /\ c # 0
  BY <1>5, TextForm
<1>10. /\ m \in Nat /\ l \in Nat /\ n < m /\ m < l /\ n + 1 < l /\ m # 0 /\ l > m /\ l - m = 1
       /\ l \in 1 .. l /\ m \in 1 .. m /\ m - n = c
  BY <1>6, <1>7, <1>9
<1>11. k \in Nat /\ k > n /\ k - n = 1 /\ k \in 1 .. k
  BY <1>8, <1>9
<1>12. EntryAt(y, l, x, e[1], 1) /\ PostAt(y, l) = TailOf(x)
  BY <1>b, <1>10 DEF Behind
<1>13. EntryAt(w, k, obj, e[1], 1) /\ PostAt(w, k) = TailOf(obj)
  BY <1>c, <1>11 DEF Behind
<1>14. \A i \in 1 .. n : i \in 1 .. m /\ i # m /\ ~(i > n)
  BY <1>9, <1>10
<1>15. ASSUME NEW i \in 1 .. n
       PROVE  Alike(y, i, obj, i) /\ Alike(w, i, obj, i) /\ KeyAt(y, i) \notin K
  <2>1. KeyAt(obj, i) \notin K
    BY <1>5, TextForm
  <2>2. Alike(y, i, x, i) /\ Alike(x, i, obj, i) /\ Alike(w, i, obj, i)
    BY <1>a, <1>b, <1>c, <1>14 DEF InFront
  <2> QED  BY <2>1, <2>2 DEF Alike
<1>16. ASSUME NEW i \in 1 .. m, i > n PROVE KeyAt(y, i) \in K /\ PreAt(y, i) = GapOf(obj, i - n)
  <2>1. i - n \in 1 .. c
    BY <1>6, <1>9, <1>16
  <2>2. EntryAt(x, i, obj, entries[i - n], i - n)
    BY <1>a, <1>16 DEF Behind
  <2>3. Alike(y, i, x, i)
    BY <1>b DEF InFront
  <2>4. entries[i - n].key \in K
    BY <1>5, <2>1
  <2> QED  BY <2>2, <2>3, <2>4 DEF EntryAt, Alike
<1>17. ASSUME NEW i \in 1 .. l PROVE KeyAt(y, i) \in K <=> i > n /\ i # l
  <2>1. i \in 1 .. n \/ (i \in 1 .. m /\ i > n /\ i # l) \/ i = l
    BY <1>7, <1>9, <1>10
  <2>2. KeyAt(y, l) \notin K
    BY <1>12 DEF EntryAt
  <2> QED  BY <1>14, <1>15, <1>16, <2>1, <2>2
<1>18. /\ z \in Env /\ Size(z) = k /\ z.inside = NoGap /\ Opened(z, y, n)
       /\ KeyAt(z, k) = KeyAt(y, l) /\ ValueAt(z, k) = ValueAt(y, l)
       /\ PreAt(z, k) = IF n = 0 THEN PreAt(y, 1) ELSE PreAt(y, l)
       /\ PostAt(z, k) = PostAt(y, l)
  <2>1. /\ y \in Env /\ l = Size(y) /\ n \in Nat /\ n + 1 < l /\ z = RemoveMembers(y, K)
        /\ k = n + 1
    BY <1>3, <1>5, <1>7, <1>8, <1>9, <1>10
  <2>2. /\ z \in Env /\ Size(z) = n + 1 /\ z.inside = NoGap /\ Opened(z, y, n)
        /\ KeyAt(z, n + 1) = KeyAt(y, l) /\ ValueAt(z, n + 1) = ValueAt(y, l)
        /\ PreAt(z, n + 1) = IF n = 0 THEN PreAt(y, 1) ELSE PreAt(y, l)
        /\ PostAt(z, n + 1) = PostAt(y, l)
    <3>1. GoBetween(y, K, n, l)
      BY <1>17 DEF GoBetween
    <3> QED  BY <2>1, <3>1, RemoveMiddle
  <2> QED  BY <2>1, <2>2
<1>19. TailOf(x) = TailOf(obj) /\ PreAt(x, m) = GapOf(obj, c)
  <2>1. EntryAt(x, m, obj, entries[c], c) /\ PostAt(x, m) = TailOf(obj)
    BY <1>a, <1>10 DEF Behind
  <2>2. TailOf(x) = PostAt(x, m)
    BY <1>5, <1>10 DEF TailOf
  <2> QED  BY <2>1, <2>2 DEF EntryAt
<1>20. PreAt(z, k) = PreAt(w, k)
  <2>1. CASE n = 0
    <3>1. 1 \in 1 .. m /\ 1 > n /\ 1 - n = 1
      BY <1>10, <2>1
    <3>2. PreAt(y, 1) = GapOf(obj, 1)
      BY <1>16, <3>1
    <3> QED  BY <1>13, <1>18, <2>1, <3>2 DEF EntryAt
  <2>2. CASE n # 0
    <3>1. m > 0 /\ n > 0
      BY <1>9, <1>10, <2>2
    <3>2. GapOf(x, 1) = GapOf(obj, 1)
      BY <1>5, <1>19, <3>1 DEF GapOf
    <3> QED  BY <1>12, <1>13, <1>18, <2>2, <3>2 DEF EntryAt
  <2> QED  BY <2>1, <2>2
<1>21. ASSUME NEW i \in 1 .. k
       PROVE  Alike(z, i, w, i) /\ PostAt(z, i) = PostAt(w, i)
  <2>1. i \in 1 .. n \/ i = k
    BY <1>8, <1>9
  <2>2. CASE i = k
    BY <1>12, <1>13, <1>18, <1>19, <1>20, <2>2 DEF Alike, EntryAt
  <2>3. CASE i \in 1 .. n
    <3>1. PostAt(w, i) = NoGap
      BY <1>5, <1>c, <2>3 DEF Tidy, InFront
    <3>2. Alike(z, i, y, i) /\ PostAt(z, i) = NoGap
      BY <1>18, <2>3 DEF Opened
    <3> QED  BY <1>15, <2>3, <3>1, <3>2 DEF Alike
  <2> QED  BY <2>1, <2>2, <2>3
<1>22. z = w
  <2>1. z \in Env /\ w \in Env /\ z.inside = w.inside /\ Size(z) = Size(w) /\ Size(z) = k
    BY <1>5, <1>8, <1>18, <1>d
  <2> QED  BY <1>21, <2>1, SameText
<1> QED  BY <1>1, <1>2, <1>3, <1>4, <1>22

(* A value replaced before or after entries are appended.                  *)
LEMMA ReplaceOfAppend ==
    ASSUME NEW obj \in Env, NEW entries \in Seq(Entry), Distinct(entries),
           NEW key \in Keys(obj), ~KeyIn(entries, key), NEW v \in SUBSET Atom
    PROVE  ReplaceMemberValue(AppendMembers(obj, entries), key, v)
              = AppendMembers(ReplaceMemberValue(obj, key, v), entries)
<1>1. PICK x : x = AppendMembers(obj, entries)
  OBVIOUS
<1>2. PICK y : y = ReplaceMemberValue(x, key, v)
  OBVIOUS
<1>3. PICK u : u = ReplaceMemberValue(obj, key, v)
  OBVIOUS
<1>4. PICK w : w = AppendMembers(u, entries)
  OBVIOUS
<1>5. PICK n, c, m : n = Size(obj) /\ c = Len(entries) /\ m = Size(x)
  OBVIOUS
<1>6. x \in Env /\ m = n + c
  BY <1>1, <1>5, AppendText
<1>7. InFront(x, obj, n) /\ Behind(x, obj, entries, n, m)
  BY <1>1, <1>5, AppendText
<1>8. x.inside = NoGap
  BY <1>1, AppendText
<1>9. n \in Nat /\ c \in Nat
  BY <1>5, TextForm
<1>10. u \in Env /\ Size(u) = n
  BY <1>3, <1>5, ReplaceText
<1>11. u.inside = obj.inside /\ ReplacedAt(u, obj, key, v, n)
  BY <1>3, <1>5, ReplaceText
<1>12. key \in Keys(x)
  BY <1>1, AppendAdds
<1>13. y \in Env /\ Size(y) = m /\ ReplacedAt(y, x, key, v, m)
  <2>1. x \in Env /\ m = Size(x)
    BY <1>5, <1>6
  <2> QED  BY <1>2, <1>12, <2>1, ReplaceText
<1>14. y.inside = NoGap
  BY <1>2, <1>6, <1>8, <1>12, ReplaceText
<1>15. TailOf(u) = TailOf(obj) /\ \A i : GapOf(u, i) = GapOf(obj, i)
  <2>1. n # 0 => n \in 1 .. n
    BY <1>9
  <2>2. n # 0 => PostAt(u, n) = PostAt(obj, n) /\ PreAt(u, n) = PreAt(obj, n)
    BY <1>11, <2>1 DEF ReplacedAt
  <2>3. n > 0 => n # 0
    BY <1>9
  <2>4. TailOf(u) = TailOf(obj)
    BY <1>5, <1>10, <1>11, <2>2 DEF TailOf
  <2>5. \A i : GapOf(u, i) = GapOf(obj, i)
    BY <1>5, <1>10, <2>2, <2>3 DEF GapOf
  <2> QED  BY <2>4, <2>5
<1>16. w \in Env /\ Size(w) = m
  BY <1>4, <1>5, <1>6, <1>10, AppendText
<1>17. InFront(w, u, n) /\ Behind(w, u, entries, n, m)
  BY <1>4, <1>10, <1>16, AppendText
<1>18. w.inside = NoGap
  BY <1>4, <1>10, AppendText
<1>19. ASSUME NEW i \in 1 .. n PROVE i \in 1 .. m /\ ~(i > n)
  BY <1>6, <1>9
<1>20. ASSUME NEW i \in 1 .. m PROVE i \in 1 .. n \/ i > n
  BY <1>6, <1>9
<1>21. ASSUME NEW i \in 1 .. m, i > n PROVE i - n \in 1 .. c
  BY <1>6, <1>9, <1>21
<1>22. ASSUME NEW i \in 1 .. m, i > n
       PROVE  /\ KeyAt(x, i) # key /\ KeyAt(w, i) = KeyAt(x, i)
              /\ ValueAt(w, i) = ValueAt(x, i) /\ PreAt(w, i) = PreAt(x, i)
              /\ PostAt(w, i) = PostAt(x, i)
  <2>1. i - n \in 1 .. c
    BY <1>21, <1>22
  <2>2. entries[i - n].key # key
    BY <1>5, <2>1 DEF KeyIn
  <2>3. EntryAt(x, i, obj, entries[i - n], i - n) /\ EntryAt(w, i, u, entries[i - n], i - n)
    BY <1>7, <1>17, <1>22 DEF Behind
  <2>4. /\ PostAt(x, i) = IF i = m THEN TailOf(obj) ELSE NoGap
        /\ PostAt(w, i) = IF i = m THEN TailOf(u) ELSE NoGap
    BY <1>7, <1>17, <1>22 DEF Behind
  <2>5. GapOf(u, i - n) = GapOf(obj, i - n)
    BY <1>15
  <2>6. PostAt(w, i) = PostAt(x, i)
    BY <1>15, <2>4
  <2>7. KeyAt(x, i) # key /\ KeyAt(w, i) = KeyAt(x, i)
    BY <2>2, <2>3 DEF EntryAt
  <2>8. ValueAt(w, i) = ValueAt(x, i) /\ PreAt(w, i) = PreAt(x, i)
    BY <2>3, <2>5 DEF EntryAt
  <2> QED  BY <2>6, <2>7, <2>8
<1>23. ASSUME NEW i \in 1 .. m PROVE LastOf(x, key, i) <=> LastOf(obj, key, i)
  <2>1. \A j \in 1 .. n : KeyAt(x, j) = KeyAt(obj, j)
    BY <1>7 DEF InFront, Alike
  <2>2. \A j \in 1 .. m : KeyAt(x, j) = key <=> j \in 1 .. n /\ KeyAt(obj, j) = key
    BY <1>19, <1>20, <1>22, <2>1
  <2>3. LastOf(x, key, i) <=> /\ KeyAt(x, i) = key
                             /\ \A j \in 1 .. m : KeyAt(x, j) = key => j <= i
    BY <1>5, <1>6, TextForm
  <2>4. LastOf(obj, key, i) <=> /\ i \in 1 .. n /\ KeyAt(obj, i) = key
                               /\ \A j \in 1 .. n : KeyAt(obj, j) = key => j <= i
    BY <1>5, TextForm
  <2> QED  BY <1>19, <2>2, <2>3, <2>4
<1>24. ASSUME NEW i \in 1 .. m
       PROVE  Alike(y, i, w, i) /\ PostAt(y, i) = PostAt(w, i)
  <2>1. KeyAt(y, i) = KeyAt(x, i) /\ PreAt(y, i) = PreAt(x, i) /\ PostAt(y, i) = PostAt(x, i)
    BY <1>13 DEF ReplacedAt
  <2>2. ValueAt(y, i) = IF LastOf(obj, key, i) THEN v ELSE ValueAt(x, i)
    BY <1>13, <1>23 DEF ReplacedAt
  <2>3. CASE i \in 1 .. n
    <3>1. Alike(x, i, obj, i) /\ PostAt(x, i) = IF i = n THEN NoGap ELSE PostAt(obj, i)
      BY <1>7, <2>3 DEF InFront
    <3>2. Alike(w, i, u, i) /\ PostAt(w, i) = IF i = n THEN NoGap ELSE PostAt(u, i)
      BY <1>17, <2>3 DEF InFront
    <3>3. KeyAt(u, i) = KeyAt(obj, i) /\ PreAt(u, i) = PreAt(obj, i) /\ PostAt(u, i) = PostAt(obj, i)
      BY <1>11, <2>3 DEF ReplacedAt
    <3>4. ValueAt(u, i) = IF LastOf(obj, key, i) THEN v ELSE ValueAt(obj, i)
      BY <1>11, <2>3 DEF ReplacedAt
    <3>5. ValueAt(y, i) = ValueAt(w, i)
      BY <2>2, <3>1, <3>2, <3>4 DEF Alike
    <3>6. KeyAt(y, i) = KeyAt(w, i) /\ PreAt(y, i) = PreAt(w, i)
      BY <2>1, <3>1, <3>2, <3>3 DEF Alike
    <3>7. PostAt(y, i) = PostAt(w, i)
      BY <2>1, <3>1, <3>2, <3>3
    <3> QED  BY <3>5, <3>6, <3>7 DEF Alike
  <2>4. CASE i > n
    <3>1. ~(i \in 1 .. n)
      BY <1>9, <2>4
    <3>2. ~LastOf(obj, key, i)
      BY <1>5, <3>1, TextForm
    <3> QED  BY <1>22, <2>1, <2>2, <2>4, <3>2 DEF Alike
  <2> QED  BY <1>20, <2>3, <2>4
<1>25. y.inside = w.inside
  BY <1>14, <1>18
<1>26. y = w
  BY <1>13, <1>16, <1>24, <1>25, SameText
<1> QED  BY <1>1, <1>2, <1>3, <1>4, <1>26

(* The value that is replaced last is the one that stays.                  *)
LEMMA ReplaceTwice ==
    ASSUME NEW obj \in Env, NEW key \in Keys(obj), NEW v \in SUBSET Atom, NEW w \in SUBSET Atom
    PROVE  ReplaceMemberValue(ReplaceMemberValue(obj, key, v), key, w)
              = ReplaceMemberValue(obj, key, w)
<1>1. PICK x : x = ReplaceMemberValue(obj, key, v)
  OBVIOUS
<1>2. PICK y : y = ReplaceMemberValue(x, key, w)
  OBVIOUS
<1>3. PICK z : z = ReplaceMemberValue(obj, key, w)
  OBVIOUS
<1>4. PICK n : n = Size(obj)
  OBVIOUS
<1>5. x \in Env /\ x.inside = obj.inside /\ Size(x) = n /\ ReplacedAt(x, obj, key, v, n)
  BY <1>1, <1>4, ReplaceText
<1>6. key \in Keys(x)
  BY <1>1, ReplaceChanges
<1>7. y \in Env /\ y.inside = obj.inside /\ Size(y) = n /\ ReplacedAt(y, x, key, w, n)
  BY <1>2, <1>5, <1>6, ReplaceText
<1>8. z \in Env /\ z.inside = obj.inside /\ Size(z) = n /\ ReplacedAt(z, obj, key, w, n)
  BY <1>3, <1>4, ReplaceText
<1>9. \A i : LastOf(x, key, i) <=> LastOf(obj, key, i)
  <2>1. \A i \in 1 .. n : KeyAt(x, i) = KeyAt(obj, i)
    BY <1>5 DEF ReplacedAt
  <2> QED  BY <1>4, <1>5, <2>1, TextForm
<1>10. \A i \in 1 .. n : Alike(y, i, z, i) /\ PostAt(y, i) = PostAt(z, i)
  BY <1>5, <1>7, <1>8, <1>9 DEF ReplacedAt, Alike
<1>11. y = z
  BY <1>7, <1>8, <1>10, SameText
<1> QED  BY <1>1, <1>2, <1>3, <1>11

(* What is left of an object whose members were on lines of their own.    *)
Emptied == [members |-> <<>>, inside |-> "line"]

(* JSON.stringify, to the letter.                                          *)
LEMMA WrittenText ==
    ASSUME NEW entries \in Seq(Entry), Distinct(entries), NEW to, to = Written(entries)
    PROVE  /\ to \in Env /\ Size(to) = Len(entries) /\ to.inside = NoGap
           /\ \A i \in 1 .. Len(entries) :
                 /\ KeyAt(to, i) = entries[i].key /\ ValueAt(to, i) = entries[i].value
                 /\ PreAt(to, i) = Line /\ PostAt(to, i) = IF i = Len(entries) THEN Line ELSE NoGap
<1> DEFINE n == Len(entries)
<1>1. to \in Env
  BY WrittenHas
<1>2. n \in Nat /\ DOMAIN entries = 1 .. n
  OBVIOUS
<1>3. to.inside = NoGap /\ DOMAIN to.members = 1 .. n
  BY <1>2 DEF NoGap, Written
<1>4. Size(to) = n
  BY <1>1, <1>2, <1>3, SizeIs
<1>5. ASSUME NEW i \in 1 .. n
      PROVE  /\ KeyAt(to, i) = entries[i].key /\ ValueAt(to, i) = entries[i].value
             /\ PreAt(to, i) = Line /\ PostAt(to, i) = IF i = n THEN Line ELSE NoGap
  <2>1. PICK k, v, h, y : /\ k = entries[i].key /\ v = entries[i].value
                          /\ h = (IF i = n THEN Line ELSE NoGap) /\ y = to.members[i]
    OBVIOUS
  <2>2. y = [key |-> k, value |-> v, pre |-> Line, post |-> h]
    BY <1>2, <2>1 DEF Written, Line, NoGap
  <2>3. y.key = k /\ y.value = v /\ y.pre = Line /\ y.post = h
    BY <2>2
  <2> QED  BY <2>1, <2>3 DEF KeyAt, ValueAt, PreAt, PostAt
<1> QED  BY <1>1, <1>3, <1>4, <1>5

(* All members removed again.                                              *)
LEMMA WrittenRemoved ==
    ASSUME NEW e \in Seq(Entry), Distinct(e), Len(e) = 1, NEW K, e[1].key \in K
    PROVE  RemoveMembers(Written(e), K) = Emptied
<1>1. PICK w, z : w = Written(e) /\ z = RemoveMembers(w, K)
  OBVIOUS
<1>2. w \in Env /\ Size(w) = 1 /\ KeyAt(w, 1) = e[1].key
  BY <1>1, WrittenText
<1>3. PostAt(w, 1) = Line
  BY <1>1, WrittenText
<1>4. GoBehind(w, K, 0, 1)
  <2>1. \A i \in 1 .. 1 : i = 1 /\ i > 0
    OBVIOUS
  <2> QED  BY <1>2, <2>1 DEF GoBehind
<1>5. z \in Env /\ Size(z) = 0 /\ z.inside = PostAt(w, 1)
  <2>1. 0 \in Nat /\ 0 < 1
    OBVIOUS
  <2> QED  BY <1>1, <1>2, <1>4, <2>1, RemoveRest
<1>6. Emptied \in Env /\ Size(Emptied) = 0 /\ Emptied.inside = Line
  BY DEF Emptied, Env, Gap, Line, Size
<1>7. \A i \in 1 .. Size(z) : Alike(z, i, Emptied, i) /\ PostAt(z, i) = PostAt(Emptied, i)
  BY <1>5
<1>8. z = Emptied
  BY <1>3, <1>5, <1>6, <1>7, SameText
<1> QED  BY <1>1, <1>8

(* The entries of setup taken out of settings it made the env of.          *)
LEMMA WrittenRemovedBefore ==
    ASSUME NEW e \in Seq(Entry), Distinct(e), Len(e) = 3,
           NEW K, \A i \in 1 .. 3 : e[i].key \in K,
           NEW a \in Seq(Entry), Distinct(a), Len(a) = 1, a[1].key \notin K
    PROVE  RemoveMembers(AppendMembers(Written(e), a), K) = Written(a)
<1>1. PICK w, y, z, v : /\ w = Written(e) /\ y = AppendMembers(w, a)
                        /\ z = RemoveMembers(y, K) /\ v = Written(a)
  OBVIOUS
<1>2. w \in Env /\ Size(w) = 3
  BY <1>1, WrittenText
<1>3. (\A i \in 1 .. 3 : KeyAt(w, i) = e[i].key) /\ PreAt(w, 1) = Line
  <2>1. \A i \in 1 .. Len(e) : KeyAt(w, i) = e[i].key /\ PreAt(w, i) = Line
    BY <1>1, WrittenText
  <2>2. Len(e) = 3 /\ 1 \in 1 .. 3
    OBVIOUS
  <2> QED  BY <2>1, <2>2
<1>4. PostAt(w, 3) = Line
  <2>1. 3 \in 1 .. Len(e)
    OBVIOUS
  <2> QED  BY <1>1, <2>1, WrittenText
<1>5. y \in Env /\ Size(y) = 4 /\ InFront(y, w, 3) /\ Behind(y, w, a, 3, 4)
  <2>1. Size(w) + Len(a) = 4
    BY <1>2
  <2>2. y \in Env /\ Size(y) = 4
    BY <1>1, <1>2, <2>1, AppendText
  <2>3. InFront(y, w, Size(w)) /\ Behind(y, w, a, Size(w), Size(y))
    BY <1>1, <1>2, AppendText
  <2> QED  BY <1>2, <2>2, <2>3
<1>6. (\A i \in 1 .. 3 : KeyAt(y, i) = e[i].key) /\ PreAt(y, 1) = Line
  <2>1. \A i \in 1 .. 3 : Alike(y, i, w, i)
    BY <1>5 DEF InFront
  <2>2. 1 \in 1 .. 3
    OBVIOUS
  <2> QED  BY <1>3, <2>1, <2>2 DEF Alike
<1>7. KeyAt(y, 4) = a[1].key /\ ValueAt(y, 4) = a[1].value
  <2>1. EntryAt(y, 4, w, a[4 - 3], 4 - 3)
    BY <1>5 DEF Behind
  <2>2. 4 - 3 = 1
    OBVIOUS
  <2> QED  BY <2>1, <2>2 DEF EntryAt
<1>8. PostAt(y, 4) = Line
  <2>1. PostAt(y, 4) = TailOf(w)
    BY <1>5 DEF Behind
  <2>2. TailOf(w) = PostAt(w, 3)
    BY <1>2 DEF TailOf
  <2> QED  BY <1>4, <2>1, <2>2
<1>9. GoBetween(y, K, 0, 4)
  <2>1. \A i \in 1 .. 4 : i > 0 /\ ((i \in 1 .. 3 /\ i # 4) \/ i = 4)
    OBVIOUS
  <2> QED  BY <1>6, <1>7, <2>1 DEF GoBetween
<1>10. /\ z \in Env /\ Size(z) = 1 /\ z.inside = NoGap
       /\ KeyAt(z, 1) = KeyAt(y, 4) /\ ValueAt(z, 1) = ValueAt(y, 4)
       /\ PreAt(z, 1) = PreAt(y, 1) /\ PostAt(z, 1) = PostAt(y, 4)
  <2>1. 0 \in Nat /\ 0 + 1 < 4 /\ 0 + 1 = 1 /\ Size(y) = 4
    BY <1>5
  <2>2. /\ z \in Env /\ Size(z) = 0 + 1 /\ z.inside = NoGap
        /\ KeyAt(z, 0 + 1) = KeyAt(y, 4) /\ ValueAt(z, 0 + 1) = ValueAt(y, 4)
        /\ PreAt(z, 0 + 1) = PreAt(y, 1)
        /\ PostAt(z, 0 + 1) = PostAt(y, 4)
    BY <1>1, <1>5, <1>9, <2>1, RemoveMiddle
  <2> QED  BY <2>1, <2>2
<1>11. v \in Env /\ Size(v) = 1 /\ v.inside = NoGap
  BY <1>1, WrittenText
<1>0. 1 \in 1 .. Len(a)
  OBVIOUS
<1>12. KeyAt(v, 1) = a[1].key /\ ValueAt(v, 1) = a[1].value /\ PreAt(v, 1) = Line
  BY <1>1, <1>0, WrittenText
<1>13. PostAt(v, 1) = Line
  BY <1>1, <1>0, WrittenText
<1>14. ASSUME NEW i \in 1 .. Size(z) PROVE Alike(z, i, v, i) /\ PostAt(z, i) = PostAt(v, i)
  <2>1. i = 1
    BY <1>10
  <2> QED  BY <1>6, <1>7, <1>8, <1>10, <1>12, <1>13, <2>1 DEF Alike
<1>15. z = v
  BY <1>10, <1>11, <1>14, SameText
<1> QED  BY <1>1, <1>15

(* A value replaced leaves the text around it as it was.                   *)
LEMMA TidyStays ==
    ASSUME NEW obj \in Env, Tidy(obj), NEW key \in Keys(obj), NEW value \in SUBSET Atom
    PROVE  Tidy(ReplaceMemberValue(obj, key, value))
<1>1. PICK to, n : to = ReplaceMemberValue(obj, key, value) /\ n = Size(obj)
  OBVIOUS
<1>2. to.inside = obj.inside /\ Size(to) = n /\ ReplacedAt(to, obj, key, value, n)
  BY <1>1, ReplaceText
<1>3. Tidy(to)
  BY <1>1, <1>2 DEF Tidy, ReplacedAt
<1> QED  BY <1>1, <1>3

-----------------------------------------------------------------------------
(* Settings.  What each write of them leaves alone: the keys outside K.    *)
AlikeBut(f, g, K) ==
    \A k \in Key \ K : (Has(g, k) <=> Has(f, k)) /\ Atoms(g, k) = Atoms(f, k)

LEMMA FileForm ==
    ASSUME NEW f \in File
    PROVE  /\ f.kind \in Kinds /\ f.env \in Env
           /\ \A k : Atoms(f, k) \in SUBSET Atom
           /\ \A k : Atoms(f, k) # {} => Has(f, k)
           /\ \A k : Has(f, k) => f.kind = "env"
<1>1. f.kind \in Kinds /\ f.env \in Env /\ (f.kind # "env" => f.env = Empty)
  BY DEF File
<1>2. ASSUME NEW k PROVE Has(f, k) => f.kind = "env"
  BY <1>1, EmptyEnv DEF Has
<1>3. ASSUME NEW k PROVE Atoms(f, k) \in SUBSET Atom /\ (Atoms(f, k) # {} => Has(f, k))
  BY <1>1, FoundMember DEF Atoms, Has
<1> QED  BY <1>1, <1>2, <1>3

LEMMA FileOf ==
    /\ \A env \in Env : WithEnv(env) \in File /\ WithEnv(env).env = env /\ WithEnv(env).kind = "env"
    /\ \A kind \in Kinds : [kind |-> kind, env |-> Empty] \in File
    /\ \A kind, k : ~Has([kind |-> kind, env |-> Empty], k)
BY EmptyEnv DEF WithEnv, File, Kinds, Has

LEMMA KeyNames ==
    /\ "exporter" \in Key /\ "endpoint" \in Key /\ "headers" \in Key
    /\ "attributes" \in Key /\ "other" \in Key
    /\ Owned = {"exporter", "endpoint", "headers"} /\ Owned \subseteq Key
    /\ \A k \in Key : k \notin Owned <=> k \in {"attributes", "other"}
BY DEF Key, Owned

LEMMA OneEntry ==
    ASSUME NEW key \in Key, NEW value \in SUBSET Atom,
           NEW e, e = <<[key |-> key, value |-> value]>>
    PROVE  /\ e \in Seq(Entry) /\ Distinct(e) /\ Len(e) = 1
           /\ e[1].key = key /\ e[1].value = value
           /\ \A k : KeyIn(e, k) <=> k = key
BY DEF Entry, Distinct, KeyIn

LEMMA EntriesAre ==
    ASSUME NEW token \in Token, NEW e, e = EntriesFor(token)
    PROVE  /\ e \in Seq(Entry) /\ Distinct(e) /\ Len(e) = 3
           /\ e[1].key = "exporter" /\ e[1].value = {"ours"}
           /\ e[2].key = "endpoint" /\ e[2].value = {"ours"}
           /\ e[3].key = "headers" /\ e[3].value = {token}
           /\ \A i \in 1 .. 3 : e[i].key \in Owned
           /\ \A k : KeyIn(e, k) <=> k \in Owned
<1>1. {"ours"} \in SUBSET Atom /\ {token} \in SUBSET Atom
  BY DEF Atom
<1>2. PICK a, b, c : /\ a = [key |-> "exporter", value |-> {"ours"}]
                      /\ b = [key |-> "endpoint", value |-> {"ours"}]
                      /\ c = [key |-> "headers", value |-> {token}] /\ e = <<a, b, c>>
  BY DEF EntriesFor
<1>3. a \in Entry /\ b \in Entry /\ c \in Entry
  BY <1>1, <1>2, KeyNames DEF Entry
<1>4. Len(e) = 3 /\ \A i \in 1 .. 3 : i = 1 \/ i = 2 \/ i = 3
  BY <1>2
<1>5. /\ e[1].key = "exporter" /\ e[1].value = {"ours"}
      /\ e[2].key = "endpoint" /\ e[2].value = {"ours"}
      /\ e[3].key = "headers" /\ e[3].value = {token}
  BY <1>2
<1>6. e \in Seq(Entry)
  <2>1. e = <<a, b, c>>
    BY <1>2
  <2> QED  BY <1>3, <2>1
<1>7. Distinct(e)
  BY <1>4, <1>5 DEF Distinct
<1>8. ASSUME NEW k PROVE KeyIn(e, k) <=> k \in Owned
  <2>1. 1 \in 1 .. Len(e) /\ 2 \in 1 .. Len(e) /\ 3 \in 1 .. Len(e)
    BY <1>4
  <2> QED  BY <2>1, <1>4, <1>5 DEF KeyIn, Owned
<1>9. \A i \in 1 .. 3 : e[i].key \in Owned
  BY <1>4, <1>5 DEF Owned
<1> QED  BY <1>4, <1>5, <1>6, <1>7, <1>8, <1>9

(* writeEnvEntries.                                                        *)
LEMMA UpdatedHas ==
    ASSUME NEW f \in File, NEW token \in Token, NEW g, g = WithEnv(Updated(f, token))
    PROVE  /\ g \in File /\ g.kind = "env" /\ AlikeBut(f, g, Owned)
           /\ Has(g, "exporter") /\ Atoms(g, "exporter") = {"ours"}
           /\ Has(g, "endpoint") /\ Atoms(g, "endpoint") = {"ours"}
           /\ Has(g, "headers") /\ Atoms(g, "headers") = {token} /\ TokenIn(g) = {token}
<1> DEFINE env == Updated(f, token)
<1>1. PICK e : e = EntriesFor(token)
  OBVIOUS
<1>2. /\ e \in Seq(Entry) /\ Distinct(e) /\ \A i \in 1 .. 3 : i \in 1 .. Len(e)
      /\ e[1].key = "exporter" /\ e[1].value = {"ours"}
      /\ e[2].key = "endpoint" /\ e[2].value = {"ours"}
      /\ e[3].key = "headers" /\ e[3].value = {token}
      /\ \A k : KeyIn(e, k) <=> k \in Owned
  BY <1>1, EntriesAre
<1>3. f.env \in Env
  BY FileForm
<1>4. /\ env \in Env /\ \A k : k \in Keys(env) <=> Has(f, k) \/ KeyIn(e, k)
      /\ \A i \in 1 .. Len(e) : ValueOf(env, e[i].key) = e[i].value
      /\ \A k : Has(f, k) /\ ~KeyIn(e, k) => ValueOf(env, k) = ValueOf(f.env, k)
  <2>1. CASE Fresh(f)
    <3>1. env = Written(e)
      BY <2>1, <1>1 DEF Updated
    <3>2. \A k : ~Has(f, k)
      BY <2>1, FileForm DEF Fresh
    <3> HIDE DEF env
    <3> QED  BY <3>1, <3>2, <1>2, WrittenHas
  <2>2. CASE ~Fresh(f)
    <3>1. env = AppendMembers(f.env, e)
      BY <2>2, <1>1 DEF Updated
    <3> HIDE DEF env
    <3> QED  BY <3>1, <1>2, <1>3, AppendAdds DEF Has
  <2> QED  BY <2>1, <2>2
<1> HIDE DEF env
<1>5. g \in File /\ g.env = env /\ g.kind = "env"
  BY <1>4, FileOf DEF env
<1>6. /\ Has(g, "exporter") /\ Atoms(g, "exporter") = {"ours"}
      /\ Has(g, "endpoint") /\ Atoms(g, "endpoint") = {"ours"}
      /\ Has(g, "headers") /\ Atoms(g, "headers") = {token}
  <2>1. 1 \in 1 .. Len(e) /\ 2 \in 1 .. Len(e) /\ 3 \in 1 .. Len(e)
    BY <1>2
  <2>2. \A k \in Owned : Has(g, k) /\ Atoms(g, k) = ValueOf(env, k)
    BY <1>2, <1>4, <1>5 DEF Has, Atoms
  <2> QED  BY <1>2, <1>4, <2>1, <2>2, KeyNames
<1>7. AlikeBut(f, g, Owned)
  BY <1>2, <1>4, <1>5 DEF AlikeBut, Has, Atoms
<1> QED  BY <1>5, <1>6, <1>7 DEF TokenIn

(* A key set to a value: where it is, or as a new one.                     *)
Put(f, key, value) ==
    IF Has(f, key) THEN ReplaceMemberValue(f.env, key, value)
    ELSE IF f.kind = "env" THEN AppendMembers(f.env, <<[key |-> key, value |-> value]>>)
    ELSE Written(<<[key |-> key, value |-> value]>>)

LEMMA PutSets ==
    ASSUME NEW f \in File, NEW key \in Key, NEW value \in SUBSET Atom,
           NEW g, g = WithEnv(Put(f, key, value))
    PROVE  /\ g \in File /\ g.kind = "env" /\ AlikeBut(f, g, {key})
           /\ Has(g, key) /\ Atoms(g, key) = value
<1> DEFINE env == Put(f, key, value)
<1>1. PICK e : e = <<[key |-> key, value |-> value]>>
  OBVIOUS
<1>2. /\ e \in Seq(Entry) /\ Distinct(e) /\ 1 \in 1 .. Len(e)
      /\ e[1].key = key /\ e[1].value = value /\ \A k : KeyIn(e, k) <=> k = key
  BY <1>1, OneEntry
<1>3. f.env \in Env
  BY FileForm
<1>4. /\ env \in Env /\ \A k : k \in Keys(env) <=> Has(f, k) \/ k = key
      /\ ValueOf(env, key) = value
      /\ \A k : Has(f, k) /\ k # key => ValueOf(env, k) = ValueOf(f.env, k)
  <2>1. CASE Has(f, key)
    <3>1. env = ReplaceMemberValue(f.env, key, value) /\ key \in Keys(f.env)
      BY <2>1 DEF Put, Has
    <3> HIDE DEF env
    <3> QED  BY <3>1, <1>3, ReplaceChanges DEF Has
  <2>2. CASE ~Has(f, key) /\ f.kind = "env"
    <3>1. env = AppendMembers(f.env, e)
      BY <2>2, <1>1 DEF Put
    <3> HIDE DEF env
    <3> QED  BY <3>1, <1>2, <1>3, AppendAdds DEF Has
  <2>3. CASE ~Has(f, key) /\ f.kind # "env"
    <3>1. env = Written(e)
      BY <2>3, <1>1 DEF Put
    <3>2. \A k : ~Has(f, k)
      BY <2>3, FileForm
    <3> HIDE DEF env
    <3> QED  BY <3>1, <3>2, <1>2, WrittenHas
  <2> QED  BY <2>1, <2>2, <2>3
<1> HIDE DEF env
<1>5. g \in File /\ g.env = env /\ g.kind = "env"
  BY <1>4, FileOf DEF env
<1> QED  BY <1>4, <1>5 DEF AlikeBut, Has, Atoms

(* writeProfileAttribute.                                                  *)
LEMMA LabelledHas ==
    ASSUME NEW f \in File, NEW p \in Profile, NEW g, g = WithEnv(Labelled(f, p))
    PROVE  /\ g \in File /\ g.kind = "env" /\ AlikeBut(f, g, {"attributes"})
           /\ Atoms(g, "attributes") = (Atoms(f, "attributes") \ {"untidy"}) \cup {p}
<1> DEFINE value == (Atoms(f, "attributes") \ {"untidy"}) \cup {p}
<1>1. value \in SUBSET Atom
  BY FileForm DEF Atom
<1>2. ~Has(f, "attributes") => value = {p}
  BY FileForm
<1>3. Labelled(f, p) = Put(f, "attributes", value)
  BY <1>2 DEF Labelled, Put
<1> HIDE DEF value
<1>4. g = WithEnv(Put(f, "attributes", value))
  BY <1>3
<1> QED  BY <1>1, <1>4, KeyNames, PutSets DEF value

(* removeEnvKeys.                                                          *)
LEMMA RemovedFrom ==
    ASSUME NEW f \in File, NEW keys, NEW g, g = WithEnv(RemoveMembers(f.env, keys))
    PROVE  /\ g \in File /\ g.kind = "env" /\ AlikeBut(f, g, keys)
           /\ \A k \in keys : ~Has(g, k) /\ Atoms(g, k) = {}
           /\ g.env.members = <<>> => \A k : ~Has(g, k)
<1>1. f.env \in Env
  BY FileForm
<1> DEFINE env == RemoveMembers(f.env, keys)
<1>2. /\ env \in Env /\ Keys(env) = Keys(f.env) \ keys
      /\ \A k \in Keys(f.env) \ keys : ValueOf(env, k) = ValueOf(f.env, k)
  BY <1>1, RemoveKeeps
<1> HIDE DEF env
<1>3. g \in File /\ g.env = env /\ g.kind = "env"
  BY <1>2, FileOf DEF env
<1>4. env.members = <<>> => \A k : k \notin Keys(env)
  BY DEF Keys
<1> QED  BY <1>2, <1>3, <1>4 DEF AlikeBut, Has, Atoms

LEMMA WithoutKeeps ==
    ASSUME NEW f \in File, NEW keys, NEW createdEnv, NEW g, g = Without(f, keys, createdEnv)
    PROVE  /\ g \in File /\ g.kind \in {"bare", "env"} /\ AlikeBut(f, g, keys)
           /\ \A k \in keys : ~Has(g, k) /\ Atoms(g, k) = {}
<1>1. PICK h : h = WithEnv(RemoveMembers(f.env, keys))
  OBVIOUS
<1>2. /\ h \in File /\ h.kind = "env" /\ AlikeBut(f, h, keys)
      /\ \A k \in keys : ~Has(h, k) /\ Atoms(h, k) = {}
      /\ h.env.members = <<>> => \A k : ~Has(h, k)
  BY <1>1, RemovedFrom
<1>3. h.env = RemoveMembers(f.env, keys)
  BY <1>1 DEF WithEnv
<1>4. CASE g = h
  BY <1>2, <1>4
<1>5. CASE g # h
  <2>1. g = [kind |-> "bare", env |-> Empty] /\ h.env.members = <<>>
    BY <1>1, <1>3, <1>5 DEF Without
  <2>2. g \in File /\ g.kind = "bare" /\ \A k : ~Has(g, k)
    BY <2>1, FileOf DEF Kinds
  <2> QED  BY <1>2, <2>1, <2>2 DEF AlikeBut, Atoms
<1> QED  BY <1>4, <1>5

(* removeProfileAttribute.                                                 *)
LEMMA UnlabelledKeeps ==
    ASSUME NEW f \in File, NEW p \in Profile, HasLabel(f, p), NEW createdKey,
           NEW g, g = Unlabelled(f, p, createdKey)
    PROVE  /\ g \in File /\ g.kind = "env" /\ f.kind = "env" /\ AlikeBut(f, g, {"attributes"})
           /\ Atoms(g, "attributes") = Atoms(f, "attributes") \ {"untidy", p}
<1> DEFINE pairs == Atoms(f, "attributes") \ {"untidy", p}
<1>1. Has(f, "attributes") /\ f.kind = "env"
  BY FileForm DEF HasLabel
<1>2. pairs \in SUBSET Atom
  BY FileForm
<1>3. CASE pairs = {} /\ createdKey
  <2>1. g = WithEnv(RemoveMembers(f.env, {"attributes"}))
    BY <1>3 DEF Unlabelled
  <2> QED  BY <1>1, <1>3, <2>1, RemovedFrom
<1>4. CASE ~(pairs = {} /\ createdKey)
  <2>1. g = WithEnv(Put(f, "attributes", pairs))
    BY <1>1, <1>4 DEF Unlabelled, Put
  <2> HIDE DEF pairs
  <2>2. g \in File /\ g.kind = "env" /\ AlikeBut(f, g, {"attributes"}) /\ Atoms(g, "attributes") = pairs
    BY <1>2, <2>1, KeyNames, PutSets
  <2> QED  BY <1>1, <2>2 DEF pairs
<1> QED  BY <1>3, <1>4

(* The codes whose tokens a header carries.  The edits of others bring     *)
(* none in.                                                                *)
CodeIn(f) == Atoms(f, "headers") \cap Code

LEMMA TokenNames ==
    /\ Code \subseteq MemberToken /\ MemberToken \subseteq Token /\ Token = Code \cup Foreign
    /\ Code \cap Foreign = {} /\ NULL \notin Token
BY InstallNames, InstallNull DEF Token, MemberToken, Foreign

LEMMA CodeIs ==
    ASSUME NEW f
    PROVE  /\ CodeIn(f) \subseteq TokenIn(f) /\ CodeIn(f) = TokenIn(f) \cap Code
           /\ TokenIn(f) = {} => CodeIn(f) = {}
BY TokenNames DEF CodeIn, TokenIn

LEMMA EditsBring ==
    ASSUME NEW f \in File, NEW g \in Edits(f)
    PROVE  /\ g \in File /\ CodeIn(g) \subseteq CodeIn(f)
           /\ \A t \in CodeIn(g) : Atoms(g, "headers") = Atoms(f, "headers")
<1>1. ASSUME NEW e \in UserEntry, g = Edited(f, e[1], e[2])
      PROVE  g \in File /\ (CodeIn(g) = {} \/ Atoms(g, "headers") = Atoms(f, "headers"))
  <2>1. PICK k, v : k = e[1] /\ v = e[2]
    OBVIOUS
  <2>2. k \in Key /\ v \in SUBSET Atom /\ v \cap Code = {}
    BY <2>1, InstallEntries
  <2>3. g = WithEnv(Put(f, k, v))
    BY <1>1, <2>1 DEF Edited, Put
  <2>4. g \in File /\ AlikeBut(f, g, {k}) /\ Atoms(g, k) = v
    BY <2>2, <2>3, PutSets
  <2> QED  BY <2>2, <2>4, KeyNames DEF AlikeBut, CodeIn
<1>3. ASSUME NEW k \in Keys(f.env), g = WithEnv(RemoveMembers(f.env, {k}))
      PROVE  g \in File /\ (CodeIn(g) = {} \/ Atoms(g, "headers") = Atoms(f, "headers"))
  <2>1. /\ g \in File /\ AlikeBut(f, g, {k})
        /\ \A h \in {k} : ~Has(g, h) /\ Atoms(g, h) = {}
    BY <1>3, RemovedFrom
  <2> QED  BY <2>1, KeyNames DEF AlikeBut, CodeIn
<1>4. ASSUME g = [kind |-> "broken", env |-> Empty]
      PROVE  g \in File /\ CodeIn(g) = {}
  BY <1>4, FileOf DEF Kinds, CodeIn, Atoms
<1> QED  BY <1>1, <1>3, <1>4 DEF Edits, CodeIn

-----------------------------------------------------------------------------
(* Tokens.  A header with a token of ours carries nothing else, and the    *)
(* token is of a code that was spent; a record has a token, and a backup   *)
(* that had none; a command holds the token it is about.                   *)
FileOk(f, S) ==
    CodeIn(f) \subseteq S /\ \A t \in CodeIn(f) : Atoms(f, "headers") = {t}
RecordOk(rec) ==
    /\ rec.kind = "record" => rec.token \in Token
    /\ rec.kind = "none" => rec = NoRecord
    /\ rec.backup # NULL => rec.kind = "record" /\ TokenIn(rec.backup) = {}
Leaving == {"unlabel", "notify", "forget"}
CommandOk(r, S) ==
    /\ FileOk(r.seen, S) /\ RecordOk(r.rec)
    /\ r.pc = "joining" => r.token \in Code /\ r.invited
    /\ r.pc \in {"writing", "label", "record"} =>
          r.token \in S \cup Foreign /\ (r.invited => r.token \in S)
    /\ r.pc \in {"label", "record"} => r.rec.kind = "record" /\ r.rec.token = r.token
    /\ r.pc \in {"asking"} \cup Leaving =>
          CodeIn(r.seen) = {r.token} \cap Code /\ r.seen.kind # "broken"
    /\ r.pc = "asking" => r.rec.kind # "broken"
    /\ r.pc = "unlabel" => r.rec.kind = "record"
(* While uninstall asks, the settings are those it read, or an edit has    *)
(* overtaken it, which brought no token of ours in.                        *)
Following(f, r, e) ==
    r.pc = "asking" => (f = r.seen \/ (r.touched /\ e)) /\ CodeIn(f) \subseteq CodeIn(r.seen)

TokenInv(p) ==
    /\ FileOk(file[p], spent) /\ RecordOk(state[p]) /\ CommandOk(run[p], spent)
    /\ Following(file[p], run[p], edited[p])

(* A token is kept in the settings or in the hands of a command that will  *)
(* write it, give it up, or tell the user.                                 *)
Known(r) == r.rec.kind = "record" \/ LogsEndpoint(r.seen)
InHand(r, t) ==
    /\ r.token = t
    /\ \/ r.pc = "writing" /\ r.invited
       \/ r.pc \in {"unlabel", "notify"} /\ Known(r)
Kept(p, t) == t \in CodeIn(file[p]) \/ InHand(run[p], t)
Account == \A t \in spent \ revoked : t \in written_off \/ \E p \in Profile : Kept(p, t)

TokensInv == TypeOK /\ (\A p \in Profile : TokenInv(p)) /\ Account

LEMMA IdleOk ==
    /\ NoFile \in File /\ NoRecord \in Record /\ Idle \in Command
    /\ TokenIn(NoFile) = {} /\ CodeIn(NoFile) = {} /\ RecordOk(NoRecord)
    /\ \A S : CommandOk(Idle, S)
    /\ \A t : ~InHand(Idle, t)
    /\ \A f, e : Following(f, Idle, e)
<1>1. NoFile \in File /\ TokenIn(NoFile) = {} /\ CodeIn(NoFile) = {}
  BY FileOf DEF NoFile, Kinds, TokenIn, CodeIn, Atoms
<1>2. NoRecord \in Record /\ RecordOk(NoRecord)
  BY DEF NoRecord, Record, RecordOk
<1>3. Idle \in Command
  BY <1>1, <1>2 DEF Idle, Command
<1>4. \A S : CommandOk(Idle, S)
  BY <1>1, <1>2 DEF Idle, CommandOk, FileOk, Leaving
<1> QED  BY <1>1, <1>2, <1>3, <1>4 DEF Idle, InHand, Following

(* What goes wrong is counted, and stays within its bound.                 *)
Counted ==
    /\ edits' \in [Profile -> Nat] /\ faults' \in [Profile -> Nat]
    /\ \A q \in Profile : edits'[q] + faults'[q] <= MaxMishaps[q]

LEMMA NothingWrong == ASSUME TypeOK, UNCHANGED bounds PROVE Counted
BY DEF TypeOK, bounds, Counted

LEMMA OneMishap ==
    ASSUME TypeOK, NEW p \in Profile, MayGoWrong(p),
           \/ edits' = [edits EXCEPT ![p] = @ + 1] /\ faults' = faults
           \/ faults' = [faults EXCEPT ![p] = @ + 1] /\ edits' = edits
    PROVE  Counted
<1>1. /\ edits \in [Profile -> Nat] /\ faults \in [Profile -> Nat] /\ MaxMishaps \in [Profile -> Nat]
      /\ edits[p] + faults[p] < MaxMishaps[p]
  BY InstallBounds DEF TypeOK, MayGoWrong
<1>2. edits' \in [Profile -> Nat] /\ faults' \in [Profile -> Nat]
  BY <1>1
<1>3. ASSUME NEW q \in Profile PROVE edits'[q] + faults'[q] <= MaxMishaps[q]
  <2>1. edits[q] \in Nat /\ faults[q] \in Nat /\ MaxMishaps[q] \in Nat
    BY <1>1
  <2>2. CASE q = p
    BY <1>1, <2>1, <2>2
  <2>3. CASE q # p
    BY <1>1, <2>3 DEF TypeOK
  <2> QED  BY <2>2, <2>3
<1> QED  BY <1>2, <1>3 DEF Counted

(* A step of p, of its command or around it, moves to these settings, this *)
(* record and this command, and nothing of another profile.                *)
Moves(p, f, s, r) ==
    /\ file' = [file EXCEPT ![p] = f] /\ state' = [state EXCEPT ![p] = s]
    /\ run' = [run EXCEPT ![p] = r]
    /\ \A q \in Profile \ {p} :
          edited'[q] = edited[q] /\ torn'[q] = torn[q] /\ leaving'[q] = leaving[q]
    /\ before' \in [Profile -> File] /\ edited' \in [Profile -> BOOLEAN]
    /\ torn' \in [Profile -> BOOLEAN] /\ leaving' \in [Profile -> BOOLEAN]
    /\ Counted

(* The server and the books only grow.                                     *)
Accrues ==
    /\ spent \subseteq spent' /\ revoked \subseteq revoked' /\ written_off \subseteq written_off'
    /\ spent' \subseteq Code /\ revoked' \subseteq spent' /\ written_off' \subseteq Code
    /\ burned' \subseteq spent'

LEMMA SameExcept ==
    ASSUME TypeOK, NEW p \in Profile
    PROVE  /\ file = [file EXCEPT ![p] = file[p]] /\ state = [state EXCEPT ![p] = state[p]]
           /\ run = [run EXCEPT ![p] = run[p]]
BY DEF TypeOK

LEMMA StepKeeps ==
    ASSUME TokensInv, NEW p \in Profile, NEW f \in File, NEW s \in Record, NEW r \in Command,
           Moves(p, f, s, r), Accrues,
           FileOk(f, spent'), RecordOk(s), CommandOk(r, spent'), Following(f, r, edited'[p]),
           \A t \in spent' \ spent : t \in written_off' \/ t \in CodeIn(f) \/ InHand(r, t),
           \A t \in spent \ revoked' :
               Kept(p, t) => t \in written_off' \/ t \in CodeIn(f) \/ InHand(r, t)
    PROVE  TokensInv'
<1>1. TypeOK'
  BY DEF TokensInv, TypeOK, Moves, Accrues, Counted
<1>2. file'[p] = f /\ state'[p] = s /\ run'[p] = r
  BY DEF TokensInv, TypeOK, Moves
<1>3. \A q \in Profile \ {p} :
        /\ file'[q] = file[q] /\ state'[q] = state[q] /\ run'[q] = run[q]
        /\ edited'[q] = edited[q]
  BY DEF TokensInv, TypeOK, Moves
<1>4. TokenInv(p)'
  BY <1>2 DEF TokenInv
<1>5. ASSUME NEW q \in Profile, q # p PROVE TokenInv(q)'
  <2>1. TokenInv(q) /\ spent \subseteq spent'
    BY DEF TokensInv, Accrues
  <2>2. \A g : FileOk(g, spent) => FileOk(g, spent')
    BY <2>1 DEF FileOk
  <2>3. \A c : CommandOk(c, spent) => CommandOk(c, spent')
    BY <2>1, <2>2 DEF CommandOk
  <2> QED  BY <1>3, <1>5, <2>1, <2>2, <2>3 DEF TokenInv
<1>6. ASSUME NEW q \in Profile, q # p, NEW t, Kept(q, t) PROVE Kept(q, t)'
  BY <1>3, <1>6 DEF Kept
<1>7. ASSUME NEW t, t \in CodeIn(f) \/ InHand(r, t) PROVE Kept(p, t)'
  BY <1>2, <1>7 DEF Kept
<1>8. Account'
  <2> SUFFICES ASSUME NEW t \in spent' \ revoked', t \notin written_off'
               PROVE  \E q \in Profile : Kept(q, t)'
    BY DEF Account
  <2>1. CASE t \notin spent
    BY <2>1, <1>7
  <2>2. CASE t \in spent
    <3>1. t \notin revoked /\ t \notin written_off
      BY DEF Accrues
    <3>2. PICK q \in Profile : Kept(q, t)
      BY <2>2, <3>1 DEF TokensInv, Account
    <3> QED  BY <2>2, <3>2, <1>6, <1>7
  <2> QED  BY <2>1, <2>2
<1> QED  BY <1>1, <1>4, <1>5, <1>8 DEF TokensInv

(* ... one that only changes the command.                                  *)
LEMMA CommandMoves ==
    ASSUME TokensInv, NEW p \in Profile, NEW r \in Command,
           run' = [run EXCEPT ![p] = r], CommandOk(r, spent), Following(file[p], r, edited[p]),
           \A t \in spent \ revoked : InHand(run[p], t) => InHand(r, t),
           UNCHANGED <<file, state, server, before, edited, torn, leaving, written_off, burned, bounds>>
    PROVE  TokensInv' /\ Moves(p, file[p], state[p], r)
<1>1. TypeOK /\ TokenInv(p)
  BY DEF TokensInv
<1>2. Moves(p, file[p], state[p], r)
  BY <1>1, SameExcept, NothingWrong DEF TypeOK, Moves
<1>3. Accrues
  BY <1>1 DEF Accrues, TypeOK, server
<1>4. file[p] \in File /\ state[p] \in Record /\ edited' = edited /\ spent' = spent /\ revoked' = revoked
  BY <1>1 DEF TypeOK, server
<1>5. FileOk(file[p], spent') /\ RecordOk(state[p])
  BY <1>1, <1>4 DEF TokenInv
<1>6. \A t \in spent \ revoked' : Kept(p, t) => t \in CodeIn(file[p]) \/ InHand(r, t)
  BY <1>4 DEF Kept
<1> QED  BY <1>2, <1>3, <1>4, <1>5, <1>6, StepKeeps

-----------------------------------------------------------------------------
(* Setup keeps the tokens.                                                 *)
LEMMA BeginSetupKeeps ==
    ASSUME TokensInv, NEW p \in Profile, NEW t \in Code, BeginSetup(p, t) PROVE TokensInv'
<1>1. PICK r : r = [Idle EXCEPT !.pc = "joining", !.token = t, !.invited = TRUE]
  OBVIOUS
<1>2. r \in Command /\ r.pc = "joining" /\ r.token = t /\ r.invited /\ r.seen = NoFile /\ r.rec = NoRecord
  BY <1>1, IdleOk, TokenNames DEF Command, Idle
<1>3. CommandOk(r, spent) /\ Following(file[p], r, edited[p])
  BY <1>2, IdleOk DEF CommandOk, Following, FileOk, Leaving
<1>4. run[p].pc = "idle" /\ \A u : ~InHand(run[p], u)
  BY DEF BeginSetup, Running, InHand
<1> QED  BY <1>1, <1>2, <1>3, <1>4, CommandMoves DEF BeginSetup

LEMMA BeginSiblingKeeps ==
    ASSUME TokensInv, NEW p \in Profile, NEW q \in Profile, NEW t \in Token, BeginSibling(p, q, t)
    PROVE  TokensInv'
<1>1. PICK r : r = [Idle EXCEPT !.pc = "writing", !.token = t]
  OBVIOUS
<1>2. /\ r \in Command /\ r.pc = "writing" /\ r.token = t /\ ~r.invited
      /\ r.seen = NoFile /\ r.rec = NoRecord
  BY <1>1, IdleOk DEF Command, Idle
<1>3. t \in spent \cup Foreign
  BY CodeIs, TokenNames DEF BeginSibling, TokensInv, TokenInv, FileOk
<1>4. CommandOk(r, spent) /\ Following(file[p], r, edited[p])
  BY <1>2, <1>3, IdleOk DEF CommandOk, Following, FileOk, Leaving
<1>5. run[p].pc = "idle" /\ \A u : ~InHand(run[p], u)
  BY DEF BeginSibling, Running, InHand
<1> QED  BY <1>1, <1>2, <1>4, <1>5, CommandMoves DEF BeginSibling

(* A command that has nothing in hand may end.                             *)
LEMMA EndKeeps ==
    ASSUME TokensInv, NEW p \in Profile, End(p), \A t : ~InHand(run[p], t),
           UNCHANGED <<file, state, server, before, edited, torn, leaving, written_off, burned, bounds>>
    PROVE  TokensInv'
BY IdleOk, CommandMoves DEF End

LEMMA JoinRefusedKeeps == ASSUME TokensInv, NEW p \in Profile, JoinRefused(p) PROVE TokensInv'
BY EndKeeps DEF JoinRefused, InHand

LEMMA CancelKeeps == ASSUME TokensInv, NEW p \in Profile, Cancel(p) PROVE TokensInv'
BY EndKeeps DEF Cancel, InHand

LEMMA JoinKeeps == ASSUME TokensInv, NEW p \in Profile, Join(p) PROVE TokensInv'
<1> DEFINE c == run[p]
           r == [c EXCEPT !.pc = "writing"]
<1>1. TypeOK /\ TokenInv(p) /\ c \in Command /\ file[p] \in File /\ state[p] \in Record
  BY DEF TokensInv, TypeOK
<1>2. /\ c.pc = "joining" /\ c.token \in Code /\ c.token \notin spent /\ c.invited
      /\ spent' = spent \cup {c.token}
  BY <1>1 DEF Join, TokenInv, CommandOk
<1>3. /\ r \in Command /\ r.pc = "writing" /\ r.token = c.token /\ r.invited
      /\ r.seen = c.seen /\ r.rec = c.rec
  BY <1>1, <1>2 DEF Command
<1>4. run' = [run EXCEPT ![p] = r]
  BY <1>1 DEF Join, Step, TypeOK
<1> HIDE DEF c, r
<1>5. Moves(p, file[p], state[p], r)
  BY <1>1, <1>4, SameExcept, NothingWrong DEF Join, TypeOK, Moves
<1>6. Accrues
  BY <1>1, <1>2 DEF Join, Accrues, TypeOK
<1>7. FileOk(file[p], spent') /\ RecordOk(state[p])
  BY <1>1, <1>2 DEF TokenInv, FileOk
<1>8. CommandOk(r, spent') /\ Following(file[p], r, edited'[p])
  BY <1>1, <1>2, <1>3 DEF TokenInv, CommandOk, Following, FileOk, Leaving, c
<1>9. \A t \in spent' \ spent : InHand(r, t)
  BY <1>2, <1>3 DEF InHand
<1>10. \A t \in spent \ revoked' : Kept(p, t) => t \in CodeIn(file[p])
  BY <1>2 DEF Kept, InHand, c
<1> QED  BY <1>1, <1>3, <1>5, <1>6, <1>7, <1>8, <1>9, <1>10, StepKeeps

LEMMA JoinReplyLostKeeps ==
    ASSUME TokensInv, NEW p \in Profile, JoinReplyLost(p) PROVE TokensInv'
<1> DEFINE token == run[p].token
<1>1. TypeOK /\ TokenInv(p) /\ file[p] \in File /\ state[p] \in Record
  BY DEF TokensInv, TypeOK
<1>2. /\ run[p].pc = "joining" /\ token \in Code
      /\ spent' = spent \cup {token} /\ written_off' = written_off \cup {token}
  BY <1>1 DEF JoinReplyLost, TokenInv, CommandOk
<1>3. Moves(p, file[p], state[p], Idle)
  BY <1>1, OneMishap, SameExcept DEF JoinReplyLost, End, TypeOK, Moves
<1> HIDE DEF token
<1>4. Accrues
  BY <1>1, <1>2 DEF JoinReplyLost, Accrues, TypeOK
<1>5. FileOk(file[p], spent') /\ RecordOk(state[p])
  BY <1>1, <1>2 DEF TokenInv, FileOk
<1>6. \A t \in spent \ revoked' : Kept(p, t) => t \in CodeIn(file[p])
  BY <1>2 DEF Kept, InHand
<1> QED  BY <1>1, <1>2, <1>3, <1>4, <1>5, <1>6, IdleOk, StepKeeps

LEMMA WriteEntriesKeeps ==
    ASSUME TokensInv, NEW p \in Profile, WriteEntries(p) PROVE TokensInv'
<1> DEFINE f == file[p]
           c == run[p]
           g == WithEnv(Updated(f, c.token))
           b == IF f.kind \in {"absent", "blank"} THEN NULL ELSE f
           rec == [NoRecord EXCEPT !.kind = "record", !.token = c.token, !.createdEnv = Fresh(f),
                                   !.backup = b]
           r == [c EXCEPT !.pc = "label", !.rec = rec]
<1>1. TypeOK /\ TokenInv(p) /\ c \in Command /\ f \in File /\ state[p] \in Record
  BY DEF TokensInv, TypeOK
<1>2. /\ c.pc = "writing" /\ c.token \in spent \cup Foreign /\ c.token \in Token
      /\ c.invited => c.token \in spent
  BY <1>1, TokenNames DEF WriteEntries, TokenInv, CommandOk, TypeOK
<1>3. g \in File /\ Atoms(g, "headers") = {c.token} /\ CodeIn(g) = {c.token} \cap Code
  BY <1>1, <1>2, UpdatedHas DEF CodeIn
<1>4. TokenIn(f) = {} /\ CodeIn(f) = {}
  BY CodeIs DEF WriteEntries, Writable, Clear, Conflicting, TokenIn, Atoms
<1>5. /\ rec \in Record /\ rec.kind = "record" /\ rec.token = c.token
      /\ rec.backup # NULL => TokenIn(rec.backup) = {}
  <2>1. b \in File \cup {NULL} /\ Fresh(f) \in BOOLEAN /\ (b # NULL => b = f)
    BY <1>1 DEF Fresh
  <2> HIDE DEF b, f, c
  <2> QED  BY <1>2, <1>4, <2>1, IdleOk DEF Record, NoRecord
<1>6. /\ run' = [run EXCEPT ![p] = r] /\ file' = [file EXCEPT ![p] = g]
      /\ before' = [before EXCEPT ![p] = f] /\ edited' = [edited EXCEPT ![p] = FALSE]
      /\ torn' = [torn EXCEPT ![p] = FALSE] /\ leaving' = [leaving EXCEPT ![p] = FALSE]
      /\ UNCHANGED <<state, server, written_off, burned, bounds>>
  BY <1>1 DEF WriteEntries, TypeOK
<1> HIDE DEF f, c, g, b, rec
<1>7. /\ r \in Command /\ r.pc = "label" /\ r.token = c.token /\ r.invited = c.invited
      /\ r.seen = c.seen /\ r.rec = rec
  BY <1>1, <1>5 DEF Command
<1> HIDE DEF r
<1>8. Moves(p, g, state[p], r)
  BY <1>1, <1>6, SameExcept, NothingWrong DEF TypeOK, Moves
<1>9. Accrues /\ spent' = spent
  BY <1>1, <1>6 DEF Accrues, TypeOK, server
<1>10. FileOk(g, spent') /\ RecordOk(state[p])
  BY <1>1, <1>2, <1>3, <1>9, TokenNames DEF TokenInv, FileOk
<1>11. CommandOk(r, spent') /\ Following(g, r, edited'[p])
  BY <1>1, <1>2, <1>5, <1>7, <1>9 DEF TokenInv, CommandOk, Following, RecordOk, Leaving, c
<1>12. \A t \in spent \ revoked' : Kept(p, t) => t \in CodeIn(g)
  BY <1>1, <1>2, <1>3, <1>4 DEF Kept, InHand, TypeOK, c, f
<1> QED  BY <1>1, <1>3, <1>7, <1>8, <1>9, <1>10, <1>11, <1>12, StepKeeps

LEMMA WriteRefusedKeeps ==
    ASSUME TokensInv, NEW p \in Profile, WriteRefused(p) PROVE TokensInv'
<1>1. TypeOK /\ TokenInv(p) /\ file[p] \in File /\ state[p] \in Record
  BY DEF TokensInv, TypeOK
<1>2. run[p].pc = "writing" /\ (run[p].invited => run[p].token \in spent /\ run[p].token \in Code)
  BY <1>1 DEF WriteRefused, TokenInv, CommandOk, TypeOK
<1>3. Moves(p, file[p], state[p], Idle)
  BY <1>1, SameExcept, NothingWrong DEF WriteRefused, End, TypeOK, Moves
<1>4. Accrues /\ spent' = spent
  BY <1>1, <1>2 DEF WriteRefused, Accrues, TypeOK, server
<1>5. FileOk(file[p], spent') /\ RecordOk(state[p])
  BY <1>1, <1>4 DEF TokenInv
<1>6. \A t \in spent \ revoked' : Kept(p, t) => t \in CodeIn(file[p]) \/ t \in written_off'
  BY <1>2 DEF Kept, InHand, WriteRefused
<1> QED  BY <1>1, <1>3, <1>4, <1>5, <1>6, IdleOk, StepKeeps

(* A key other than the header can be written without losing a token.      *)
LEMMA HeaderStays ==
    ASSUME NEW f \in File, NEW g \in File, AlikeBut(f, g, {"attributes"})
    PROVE  /\ TokenIn(g) = TokenIn(f) /\ CodeIn(g) = CodeIn(f) /\ \A S : FileOk(f, S) => FileOk(g, S)
           /\ \A k \in Owned : (Has(g, k) <=> Has(f, k)) /\ Atoms(g, k) = Atoms(f, k)
BY KeyNames DEF AlikeBut, TokenIn, CodeIn, FileOk

LEMMA WriteAttributeKeeps ==
    ASSUME TokensInv, NEW p \in Profile, WriteAttribute(p) PROVE TokensInv'
<1> DEFINE f == file[p]
           c == run[p]
           g == WithEnv(Labelled(f, p))
           rec == [c.rec EXCEPT !.createdKey = ~Has(f, "attributes")]
           r == [c EXCEPT !.pc = "record", !.rec = rec]
<1>1. TypeOK /\ TokenInv(p) /\ c \in Command /\ f \in File /\ state[p] \in Record
  BY DEF TokensInv, TypeOK
<1>2. c.pc = "label" /\ c.rec.kind = "record" /\ c.rec.token = c.token /\ c.rec \in Record
  BY <1>1 DEF WriteAttribute, TokenInv, CommandOk, Command
<1>3. g \in File /\ CodeIn(g) = CodeIn(f) /\ FileOk(g, spent)
  BY <1>1, LabelledHas, HeaderStays DEF TokenInv
<1>4. /\ rec \in Record /\ rec.kind = "record" /\ rec.token = c.token
      /\ rec.backup = c.rec.backup
  BY <1>2 DEF Record
<1>5. /\ run' = [run EXCEPT ![p] = r] /\ file' = [file EXCEPT ![p] = g]
      /\ UNCHANGED <<state, server, before, edited, torn, leaving, written_off, burned, bounds>>
  BY <1>1 DEF WriteAttribute, TypeOK
<1> HIDE DEF f, c, g, rec
<1>6. /\ r \in Command /\ r.pc = "record" /\ r.token = c.token /\ r.invited = c.invited
      /\ r.seen = c.seen /\ r.rec = rec
  BY <1>1, <1>4 DEF Command
<1> HIDE DEF r
<1>7. Moves(p, g, state[p], r)
  BY <1>1, <1>5, SameExcept, NothingWrong DEF TypeOK, Moves
<1>8. Accrues /\ spent' = spent
  BY <1>1, <1>5 DEF Accrues, TypeOK, server
<1>9. FileOk(g, spent') /\ RecordOk(state[p])
  BY <1>1, <1>3, <1>8 DEF TokenInv
<1>10. CommandOk(r, spent') /\ Following(g, r, edited'[p])
  BY <1>1, <1>2, <1>4, <1>6, <1>8 DEF TokenInv, CommandOk, Following, RecordOk, Leaving, c
<1>11. \A t \in spent \ revoked' : Kept(p, t) => t \in CodeIn(g)
  BY <1>2, <1>3 DEF Kept, InHand, c, f
<1> QED  BY <1>1, <1>3, <1>6, <1>7, <1>8, <1>9, <1>10, <1>11, StepKeeps

LEMMA AttributeRefusedKeeps ==
    ASSUME TokensInv, NEW p \in Profile, AttributeRefused(p) PROVE TokensInv'
<1>1. TypeOK /\ TokenInv(p) /\ file[p] \in File /\ state[p] \in Record
  BY DEF TokensInv, TypeOK
<1>2. Moves(p, file[p], state[p], Idle)
  BY <1>1, SameExcept, NothingWrong DEF AttributeRefused, End, TypeOK, Moves
<1>3. Accrues /\ spent' = spent
  BY <1>1 DEF AttributeRefused, Accrues, TypeOK, server
<1>4. FileOk(file[p], spent') /\ RecordOk(state[p])
  BY <1>1, <1>3 DEF TokenInv
<1>5. \A t \in spent \ revoked' : Kept(p, t) => t \in CodeIn(file[p])
  BY DEF Kept, InHand, AttributeRefused
<1> QED  BY <1>1, <1>2, <1>3, <1>4, <1>5, IdleOk, StepKeeps

LEMMA WriteStateKeeps ==
    ASSUME TokensInv, NEW p \in Profile, WriteState(p) PROVE TokensInv'
<1>1. TypeOK /\ TokenInv(p) /\ file[p] \in File /\ run[p].rec \in Record /\ RecordOk(run[p].rec)
  BY DEF TokensInv, TypeOK, TokenInv, CommandOk, Command
<1>2. Moves(p, file[p], run[p].rec, Idle)
  BY <1>1, SameExcept, NothingWrong DEF WriteState, End, TypeOK, Moves
<1>3. Accrues /\ spent' = spent
  BY <1>1 DEF WriteState, Accrues, TypeOK, server
<1>4. FileOk(file[p], spent')
  BY <1>1, <1>3 DEF TokenInv
<1>5. \A t \in spent \ revoked' : Kept(p, t) => t \in CodeIn(file[p])
  BY DEF Kept, InHand, WriteState
<1> QED  BY <1>1, <1>2, <1>3, <1>4, <1>5, IdleOk, StepKeeps

-----------------------------------------------------------------------------
(* So does uninstall.                                                      *)
LEMMA BeginUninstallKeeps ==
    ASSUME TokensInv, NEW p \in Profile, BeginUninstall(p) PROVE TokensInv'
<1> DEFINE f == file[p]
<1>1. TypeOK /\ TokenInv(p) /\ f \in File /\ state[p] \in Record
  BY DEF TokensInv, TypeOK
<1>2. PICK t \in TokenIn(f) \cup (IF TokenIn(f) = {} THEN {NULL} ELSE {}) :
           run' = [run EXCEPT ![p] = [Idle EXCEPT !.pc = "asking", !.token = t,
                                        !.rec = state[p], !.seen = f]]
  BY DEF BeginUninstall
<1>3. PICK r : r = [Idle EXCEPT !.pc = "asking", !.token = t, !.rec = state[p], !.seen = f]
  OBVIOUS
<1>4. t \in Token \cup {NULL} /\ CodeIn(f) = {t} \cap Code
  BY <1>1, <1>2, TokenNames DEF TokenIn, CodeIn, TokenInv, FileOk
<1>5. /\ r \in Command /\ r.pc = "asking" /\ r.token = t /\ r.seen = f /\ r.rec = state[p]
  BY <1>1, <1>3, <1>4, IdleOk DEF Command, Idle
<1>6. f.kind # "broken" /\ state[p].kind # "broken"
  BY DEF BeginUninstall
<1> HIDE DEF f
<1>7. CommandOk(r, spent) /\ Following(f, r, edited[p])
  BY <1>1, <1>4, <1>5, <1>6 DEF CommandOk, Following, TokenInv, Leaving, f
<1>8. \A u : ~InHand(run[p], u)
  BY DEF BeginUninstall, Running, InHand
<1>9. run' = [run EXCEPT ![p] = r]
  BY <1>2, <1>3 DEF f
<1> QED  BY <1>5, <1>7, <1>8, <1>9, CommandMoves DEF BeginUninstall, f

(* What a removal takes out of a header is the token it was asked about.   *)
LEMMA RemoveKeysKeeps ==
    ASSUME TokensInv, NEW p \in Profile, RemoveKeys(p) PROVE TokensInv'
<1> DEFINE f == file[p]
           c == run[p]
           keys == Removable(c.rec, c.seen)
           g == IF keys = {} THEN f ELSE Without(c.seen, keys, c.rec.createdEnv)
           pc == IF c.rec.kind = "record" THEN "unlabel" ELSE "notify"
           r == [c EXCEPT !.pc = pc]
<1>1. TypeOK /\ TokenInv(p) /\ c \in Command /\ f \in File /\ state[p] \in Record /\ c.seen \in File
  BY DEF TokensInv, TypeOK, Command
<1>2. /\ c.pc = "asking" /\ CodeIn(f) \subseteq CodeIn(c.seen) /\ CodeIn(c.seen) = {c.token} \cap Code
      /\ c.seen.kind # "broken"
  BY <1>1 DEF RemoveKeys, TokenInv, CommandOk, Following
<1>3. /\ run' = [run EXCEPT ![p] = r] /\ file' = [file EXCEPT ![p] = g]
      /\ leaving' = [leaving EXCEPT ![p] = TRUE]
      /\ UNCHANGED <<state, server, before, edited, torn, written_off, burned, bounds>>
  BY <1>1, SameExcept DEF RemoveKeys, Step, TypeOK
<1>4. /\ g \in File /\ FileOk(g, spent)
      /\ \A t \in CodeIn(f) : t \in CodeIn(g) \/ (keys # {} /\ t = c.token)
  <2>1. CASE keys = {}
    BY <1>1, <2>1 DEF TokenInv
  <2>2. CASE keys # {}
    <3>1. g = Without(c.seen, keys, c.rec.createdEnv)
      BY <2>2
    <3> HIDE DEF g, keys
    <3>2. g \in File /\ AlikeBut(c.seen, g, keys) /\ \A k \in keys : ~Has(g, k) /\ Atoms(g, k) = {}
      BY <1>1, <3>1, WithoutKeeps
    <3>3. CodeIn(g) = {} \/ Atoms(g, "headers") = Atoms(c.seen, "headers")
      BY <3>2, KeyNames DEF AlikeBut, CodeIn
    <3>4. FileOk(c.seen, spent)
      BY <1>1 DEF TokenInv, CommandOk
    <3>5. FileOk(g, spent)
      BY <3>3, <3>4 DEF FileOk, CodeIn
    <3>6. \A t \in CodeIn(f) : t = c.token
      BY <1>2
    <3> QED  BY <2>2, <3>2, <3>5, <3>6
  <2> QED  BY <2>1, <2>2
<1>5. keys # {} => Known(c)
  BY DEF Removable, LooksLikeCcledger, Known
<1> HIDE DEF keys, f, c, g
<1>6. /\ r \in Command /\ r.pc = pc /\ r.token = c.token /\ r.seen = c.seen /\ r.rec = c.rec
  BY <1>1 DEF Command
<1> HIDE DEF r
<1>7. Moves(p, g, state[p], r)
  BY <1>1, <1>3, SameExcept, NothingWrong DEF TypeOK, Moves
<1>8. Accrues /\ spent' = spent
  BY <1>1, <1>3 DEF Accrues, TypeOK, server
<1>9. RecordOk(state[p]) /\ FileOk(g, spent')
  BY <1>1, <1>4, <1>8 DEF TokenInv
<1>10. CommandOk(r, spent') /\ Following(g, r, edited'[p])
  BY <1>1, <1>2, <1>6, <1>8 DEF TokenInv, CommandOk, Following, Leaving, c
<1>11. ASSUME NEW t \in spent \ revoked', Kept(p, t) PROVE t \in CodeIn(g) \/ InHand(r, t)
  <2>1. t \in CodeIn(f)
    BY <1>2, <1>11 DEF Kept, InHand, c, f
  <2> QED  BY <1>4, <1>5, <1>6, <2>1 DEF InHand, Known
<1> QED  BY <1>1, <1>4, <1>6, <1>7, <1>8, <1>9, <1>10, <1>11, StepKeeps

LEMMA RestoreKeeps ==
    ASSUME TokensInv, NEW p \in Profile, Restore(p) PROVE TokensInv'
<1> DEFINE f == file[p]
           c == run[p]
           g == c.rec.backup
           r == [c EXCEPT !.pc = "notify"]
<1>1. TypeOK /\ TokenInv(p) /\ c \in Command /\ f \in File /\ state[p] \in Record
  BY DEF TokensInv, TypeOK
<1>2. /\ c.pc = "asking" /\ CodeIn(f) \subseteq CodeIn(c.seen) /\ CodeIn(c.seen) = {c.token} \cap Code
      /\ c.seen.kind # "broken" /\ c.rec.backup # NULL
  BY <1>1 DEF Restore, TokenInv, CommandOk, Following
<1>3. /\ run' = [run EXCEPT ![p] = r] /\ file' = [file EXCEPT ![p] = g]
      /\ leaving' = [leaving EXCEPT ![p] = TRUE]
      /\ UNCHANGED <<state, server, before, edited, torn, written_off, burned, bounds>>
  BY <1>1 DEF Restore, Step, TypeOK
<1>4. g \in File /\ CodeIn(g) = {} /\ c.rec.kind = "record"
  <2>1. c.rec \in Record /\ RecordOk(c.rec)
    BY <1>1 DEF TokenInv, CommandOk, Command
  <2> QED  BY <1>2, <2>1, CodeIs DEF Record, RecordOk
<1> HIDE DEF f, c, g
<1>5. /\ r \in Command /\ r.pc = "notify" /\ r.token = c.token /\ r.seen = c.seen /\ r.rec = c.rec
  BY <1>1 DEF Command
<1> HIDE DEF r
<1>6. Moves(p, g, state[p], r)
  BY <1>1, <1>3, SameExcept, NothingWrong DEF TypeOK, Moves
<1>7. Accrues /\ spent' = spent
  BY <1>1, <1>3 DEF Accrues, TypeOK, server
<1>8. RecordOk(state[p]) /\ FileOk(g, spent')
  BY <1>1, <1>4 DEF TokenInv, FileOk
<1>9. CommandOk(r, spent') /\ Following(g, r, edited'[p])
  BY <1>1, <1>2, <1>5, <1>7 DEF TokenInv, CommandOk, Following, Leaving, c
<1>10. ASSUME NEW t \in spent \ revoked', Kept(p, t) PROVE InHand(r, t)
  <2>1. t \in CodeIn(f)
    BY <1>2, <1>10 DEF Kept, InHand, c, f
  <2> QED  BY <1>2, <1>4, <1>5, <2>1 DEF InHand, Known
<1> QED  BY <1>1, <1>4, <1>5, <1>6, <1>7, <1>8, <1>9, <1>10, StepKeeps

LEMMA RemoveAttributeKeeps ==
    ASSUME TokensInv, NEW p \in Profile, RemoveAttribute(p) PROVE TokensInv'
<1> DEFINE f == file[p]
           c == run[p]
           g == IF HasLabel(f, p) THEN Unlabelled(f, p, c.rec.createdKey) ELSE f
           r == [c EXCEPT !.pc = "notify"]
<1>1. TypeOK /\ TokenInv(p) /\ c \in Command /\ f \in File /\ state[p] \in Record
  BY DEF TokensInv, TypeOK
<1>2. c.pc = "unlabel" /\ CodeIn(c.seen) = {c.token} \cap Code /\ c.seen.kind # "broken"
  BY <1>1 DEF RemoveAttribute, TokenInv, CommandOk, Leaving
<1>3. /\ run' = [run EXCEPT ![p] = r] /\ file' = [file EXCEPT ![p] = g]
      /\ UNCHANGED <<state, server, before, edited, torn, leaving, written_off, burned, bounds>>
  BY <1>1, SameExcept DEF RemoveAttribute, Step, TypeOK
<1>4. g \in File /\ CodeIn(g) = CodeIn(f) /\ FileOk(g, spent)
  <2>1. CASE HasLabel(f, p)
    <3>1. g = Unlabelled(f, p, c.rec.createdKey)
      BY <2>1
    <3> HIDE DEF g
    <3>2. g \in File /\ AlikeBut(f, g, {"attributes"})
      BY <1>1, <2>1, <3>1, UnlabelledKeeps
    <3> QED  BY <1>1, <3>2, HeaderStays DEF TokenInv
  <2>2. CASE ~HasLabel(f, p)
    BY <1>1, <2>2 DEF TokenInv
  <2> QED  BY <2>1, <2>2
<1> HIDE DEF f, c, g
<1>5. /\ r \in Command /\ r.pc = "notify" /\ r.token = c.token /\ r.seen = c.seen /\ r.rec = c.rec
  BY <1>1 DEF Command
<1> HIDE DEF r
<1>6. Moves(p, g, state[p], r)
  BY <1>1, <1>3, SameExcept, NothingWrong DEF TypeOK, Moves
<1>7. Accrues /\ spent' = spent
  BY <1>1, <1>3 DEF Accrues, TypeOK, server
<1>8. RecordOk(state[p]) /\ FileOk(g, spent')
  BY <1>1, <1>4, <1>7 DEF TokenInv
<1>9. CommandOk(r, spent') /\ Following(g, r, edited'[p])
  BY <1>1, <1>2, <1>5, <1>7 DEF TokenInv, CommandOk, Following, Leaving, c
<1>10. \A t \in spent \ revoked' : Kept(p, t) => t \in CodeIn(g) \/ InHand(r, t)
  BY <1>2, <1>4, <1>5 DEF Kept, InHand, Known, c, f
<1> QED  BY <1>1, <1>4, <1>5, <1>6, <1>7, <1>8, <1>9, <1>10, StepKeeps

(* Telling the server, or the user, ends what the command has in hand.     *)
LEMMA NotifyKeeps ==
    ASSUME TokensInv, NEW p \in Profile, Notify(p) \/ NothingToNotify(p) PROVE TokensInv'
<1> DEFINE f == file[p]
           c == run[p]
           r == [c EXCEPT !.pc = "forget"]
<1>1. TypeOK /\ TokenInv(p) /\ c \in Command /\ f \in File /\ state[p] \in Record
  BY DEF TokensInv, TypeOK
<1>2. c.pc = "notify" /\ CodeIn(c.seen) = {c.token} \cap Code /\ c.seen.kind # "broken"
  BY <1>1 DEF Notify, NothingToNotify, TokenInv, CommandOk, Leaving
<1>3. /\ run' = [run EXCEPT ![p] = r]
      /\ UNCHANGED <<file, state, spent, before, edited, torn, leaving, burned, bounds>>
  BY <1>1 DEF Notify, NothingToNotify, Step, server, TypeOK
<1>4. /\ revoked \subseteq revoked' /\ written_off \subseteq written_off'
      /\ revoked' \subseteq spent /\ written_off' \subseteq Code
      /\ c.token \in spent /\ Known(c) => c.token \in revoked' \/ c.token \in written_off'
  <2>1. c.token \in Token \cup {NULL} /\ spent \subseteq Code /\ revoked \subseteq spent /\ written_off \subseteq Code
    BY <1>1 DEF TypeOK, Command
  <2>2. ServerKnown(p) <=> Known(c)
    BY DEF ServerKnown, Known
  <2>3. CASE Notify(p)
    BY <2>1, <2>3 DEF Notify
  <2>4. CASE NothingToNotify(p)
    BY <2>1, <2>2, <2>4, TokenNames DEF NothingToNotify, server
  <2> QED  BY <2>3, <2>4
<1> HIDE DEF f, c
<1>5. /\ r \in Command /\ r.pc = "forget" /\ r.token = c.token /\ r.seen = c.seen /\ r.rec = c.rec
  BY <1>1 DEF Command
<1> HIDE DEF r
<1>6. Moves(p, f, state[p], r)
  BY <1>1, <1>3, SameExcept, NothingWrong DEF TypeOK, Moves, f
<1>7. Accrues /\ spent' = spent
  BY <1>1, <1>3, <1>4 DEF Accrues, TypeOK
<1>8. RecordOk(state[p]) /\ FileOk(f, spent')
  BY <1>1, <1>7 DEF TokenInv, f
<1>9. CommandOk(r, spent') /\ Following(f, r, edited'[p])
  BY <1>1, <1>2, <1>5, <1>7 DEF TokenInv, CommandOk, Following, Leaving, c
<1>10. \A t \in spent \ revoked' : Kept(p, t) => t \in CodeIn(f) \/ t \in written_off'
  BY <1>2, <1>4 DEF Kept, InHand, c, f
<1> QED  BY <1>1, <1>5, <1>6, <1>7, <1>8, <1>9, <1>10, StepKeeps

LEMMA ForgetKeeps == ASSUME TokensInv, NEW p \in Profile, Forget(p) PROVE TokensInv'
<1>1. TypeOK /\ TokenInv(p) /\ file[p] \in File
  BY DEF TokensInv, TypeOK
<1>2. Moves(p, file[p], NoRecord, Idle)
  BY <1>1, IdleOk, SameExcept, NothingWrong DEF Forget, End, TypeOK, Moves
<1>3. Accrues /\ spent' = spent
  BY <1>1 DEF Forget, Accrues, TypeOK, server
<1>4. FileOk(file[p], spent')
  BY <1>1, <1>3 DEF TokenInv
<1>5. \A t \in spent \ revoked' : Kept(p, t) => t \in CodeIn(file[p])
  BY DEF Kept, InHand, Forget
<1> QED  BY <1>1, <1>2, <1>3, <1>4, <1>5, IdleOk, StepKeeps

-----------------------------------------------------------------------------
(* And what happens to commands, settings and records is accounted for.    *)
LEMMA CrashKeeps == ASSUME TokensInv, NEW p \in Profile, Crash(p) PROVE TokensInv'
<1> DEFINE lost == [NoRecord EXCEPT !.kind = "broken"]
<1>1. TypeOK /\ TokenInv(p) /\ file[p] \in File /\ state[p] \in Record /\ run[p] \in Command
  BY DEF TokensInv, TypeOK
<1>2. lost \in Record /\ RecordOk(lost)
  BY IdleOk DEF Record, NoRecord, RecordOk
<1> HIDE DEF lost
<1>3. PICK s \in Record : RecordOk(s) /\ state' = [state EXCEPT ![p] = s]
  <2>1. state' = state \/ state' = [state EXCEPT ![p] = lost]
    BY DEF Crash, lost
  <2>2. RecordOk(state[p])
    BY <1>1 DEF TokenInv
  <2> QED  BY <1>1, <1>2, <2>1, <2>2, SameExcept
<1>4. torn' \in [Profile -> BOOLEAN] /\ \A q \in Profile \ {p} : torn'[q] = torn[q]
  BY <1>1 DEF Crash, TypeOK
<1>5. Counted
  BY <1>1, OneMishap DEF Crash
<1>6. Moves(p, file[p], s, Idle)
  BY <1>1, <1>3, <1>4, <1>5, SameExcept DEF Crash, End, TypeOK, Moves
<1>7. Accrues /\ spent' = spent
  BY <1>1 DEF Crash, Accrues, TypeOK, server
<1>8. FileOk(file[p], spent')
  BY <1>1, <1>7 DEF TokenInv
<1>9. \A t \in spent \ revoked' : Kept(p, t) => t \in CodeIn(file[p]) \/ t \in written_off'
  BY <1>1, CodeIs DEF Kept, InHand, Crash, TypeOK
<1> QED  BY <1>1, <1>3, <1>6, <1>7, <1>8, <1>9, IdleOk, StepKeeps

LEMMA EditKeeps == ASSUME TokensInv, NEW p \in Profile, Edit(p) PROVE TokensInv'
<1> DEFINE f == file[p]
           c == run[p]
           r == [c EXCEPT !.touched = Running(p)]
<1>1. TypeOK /\ TokenInv(p) /\ c \in Command /\ f \in File /\ state[p] \in Record
  BY DEF TokensInv, TypeOK
<1>2. PICK g \in Edits(f) : file' = [file EXCEPT ![p] = g]
  BY DEF Edit
<1>3. /\ g \in File /\ CodeIn(g) \subseteq CodeIn(f)
      /\ \A t \in CodeIn(g) : Atoms(g, "headers") = Atoms(f, "headers")
  BY <1>1, EditsBring
<1>4. file'[p] = g
  BY <1>1, <1>2 DEF TypeOK
<1>5. /\ run' = [run EXCEPT ![p] = r]
      /\ edited' = [edited EXCEPT ![p] = TRUE] /\ before' = [before EXCEPT ![p] = NoFile]
      /\ written_off' = written_off \cup ((TokenIn(f) \ TokenIn(g)) \cap Code)
      /\ UNCHANGED <<state, server, torn, leaving, burned>>
  BY <1>1, <1>4 DEF Edit, TypeOK
<1>6. Running(p) <=> c.pc # "idle"
  BY DEF Running
<1> HIDE DEF f, c
<1>7. /\ r \in Command /\ r.pc = c.pc /\ r.token = c.token /\ r.seen = c.seen /\ r.rec = c.rec
      /\ r.invited = c.invited /\ (c.pc # "idle" => r.touched)
  BY <1>1, <1>6 DEF Command, Running
<1> HIDE DEF r
<1>8. Counted
  BY <1>1, OneMishap DEF Edit
<1>9. edited'[p] = TRUE /\ spent' = spent
  BY <1>1, <1>5 DEF TypeOK, server
<1>10. Moves(p, g, state[p], r)
  BY <1>1, <1>2, <1>5, <1>8, IdleOk, SameExcept DEF TypeOK, Moves
<1>11. Accrues
  BY <1>1, <1>5 DEF Accrues, TypeOK, server, CodeIn
<1>12. RecordOk(state[p]) /\ FileOk(g, spent')
  BY <1>1, <1>3, <1>9 DEF TokenInv, FileOk, f
<1>13. CommandOk(r, spent') /\ Following(g, r, edited'[p])
  BY <1>1, <1>3, <1>7, <1>9 DEF TokenInv, CommandOk, Following, Leaving, c, f
<1>14. \A t \in spent \ revoked' : Kept(p, t) => \/ t \in CodeIn(g) \/ InHand(r, t)
                                                   \/ t \in written_off'
  BY <1>1, <1>5, <1>7, CodeIs DEF Kept, InHand, Known, TypeOK, c, f
<1> QED  BY <1>1, <1>3, <1>7, <1>9, <1>10, <1>11, <1>12, <1>13, <1>14, StepKeeps

LEMMA LoseRecordKeeps == ASSUME TokensInv, NEW p \in Profile, LoseRecord(p) PROVE TokensInv'
<1>1. TypeOK /\ TokenInv(p) /\ file[p] \in File /\ run[p] \in Command
  BY DEF TokensInv, TypeOK
<1>2. Counted
  BY <1>1, OneMishap DEF LoseRecord
<1>3. Moves(p, file[p], NoRecord, run[p])
  BY <1>1, <1>2, SameExcept DEF LoseRecord, TypeOK, Moves
<1>4. Accrues /\ spent' = spent /\ edited' = edited
  BY <1>1 DEF LoseRecord, Accrues, TypeOK, server
<1>5. FileOk(file[p], spent') /\ CommandOk(run[p], spent') /\ Following(file[p], run[p], edited'[p])
  BY <1>1, <1>4 DEF TokenInv
<1> QED  BY <1>1, <1>3, <1>4, <1>5, IdleOk, StepKeeps DEF Kept

LEMMA TokensStep == TokensInv /\ [Next]_vars => TokensInv'
<1> SUFFICES ASSUME TokensInv, [Next]_vars PROVE TokensInv'
  OBVIOUS
<1>1. ASSUME NEW p \in Profile, Setup(p) PROVE TokensInv'
  BY <1>1, BeginSetupKeeps, BeginSiblingKeeps, JoinKeeps, JoinRefusedKeeps, JoinReplyLostKeeps,
     WriteEntriesKeeps, WriteRefusedKeeps, WriteAttributeKeeps, AttributeRefusedKeeps,
     WriteStateKeeps DEF Setup
<1>2. ASSUME NEW p \in Profile, Uninstall(p) PROVE TokensInv'
  BY <1>2, BeginUninstallKeeps, RemoveKeysKeeps, RestoreKeeps, RemoveAttributeKeeps, NotifyKeeps,
     ForgetKeeps DEF Uninstall
<1>3. ASSUME NEW p \in Profile, Cancel(p) \/ Crash(p) \/ Edit(p) \/ LoseRecord(p) PROVE TokensInv'
  BY <1>3, CancelKeeps, CrashKeeps, EditKeeps, LoseRecordKeeps
<1>4. CASE UNCHANGED vars
  <2>1. /\ file' = file /\ state' = state /\ run' = run /\ spent' = spent /\ revoked' = revoked
        /\ before' = before /\ edited' = edited /\ torn' = torn /\ leaving' = leaving
        /\ written_off' = written_off /\ burned' = burned /\ edits' = edits /\ faults' = faults
    BY <1>4 DEF vars, server, bounds
  <2> QED  BY <2>1 DEF TokensInv, TypeOK, TokenInv, Account, Kept
<1> QED  BY <1>1, <1>2, <1>3, <1>4 DEF Next

LEMMA TokensInit == Init => TokensInv
<1> SUFFICES ASSUME Init PROVE TokensInv
  OBVIOUS
<1>1. file \in [Profile -> File] /\ \A p \in Profile : CodeIn(file[p]) = {}
  BY InstallSettings, CodeIs DEF Init
<1>2. TypeOK
  BY <1>1, IdleOk, InstallBounds DEF Init, TypeOK
<1>3. ASSUME NEW p \in Profile PROVE TokenInv(p)
  BY <1>1, IdleOk DEF Init, TokenInv, FileOk
<1>4. Account
  BY DEF Init, Account
<1> QED  BY <1>2, <1>3, <1>4 DEF TokensInv

-----------------------------------------------------------------------------
(* Settings, records and commands have their form, for any number of       *)
(* profiles, codes and mishaps, and any settings to begin with.            *)
THEOREM TypeCorrect == Spec => []TypeOK
<1>1. Spec => []TokensInv
  BY TokensInit, TokensStep, PTL DEF Spec
<1>2. TokensInv => TypeOK
  BY DEF TokensInv
<1> QED  BY <1>1, <1>2, PTL

(* No path of setup or uninstall drops a token the server honours, wherever*)
(* commands are cut short and whoever edits the settings meanwhile.        *)
THEOREM TokensAreAccountedFor == Spec => []TokenAccountedFor
<1>1. Spec => []TokensInv
  BY TokensInit, TokensStep, PTL DEF Spec
<1>2. TokensInv => TokenAccountedFor
  BY CodeIs DEF TokensInv, Account, Kept, InHand, TokenAccountedFor, Held
<1> QED  BY <1>1, <1>2, PTL

-----------------------------------------------------------------------------
(* A step of p is of no concern to another profile.                        *)
Still(q) ==
    /\ file'[q] = file[q] /\ state'[q] = state[q] /\ run'[q] = run[q] /\ before'[q] = before[q]
    /\ edited'[q] = edited[q] /\ torn'[q] = torn[q] /\ leaving'[q] = leaving[q]

LEMMA Elsewhere ==
    ASSUME TypeOK, NEW p \in Profile, NEW q \in Profile, q # p,
           Setup(p) \/ Uninstall(p) \/ Cancel(p) \/ Crash(p) \/ Edit(p) \/ LoseRecord(p)
    PROVE  Still(q)
<1>1. CASE Setup(p)
  <2>1. ASSUME NEW t \in Code, BeginSetup(p, t) PROVE Still(q)
    BY <2>1 DEF TypeOK, BeginSetup, Still
  <2>2. ASSUME NEW t \in Token, NEW o \in Profile, BeginSibling(p, o, t) PROVE Still(q)
    BY <2>2 DEF TypeOK, BeginSibling, Still
  <2>3. ASSUME Join(p) \/ JoinRefused(p) \/ JoinReplyLost(p) PROVE Still(q)
    BY <2>3 DEF TypeOK, Join, JoinRefused, JoinReplyLost, Step, End, Still
  <2>4. ASSUME WriteEntries(p) PROVE Still(q)
    BY <2>4 DEF TypeOK, WriteEntries, Still
  <2>5. ASSUME WriteRefused(p) \/ WriteState(p) \/ AttributeRefused(p) PROVE Still(q)
    BY <2>5 DEF TypeOK, WriteRefused, WriteState, AttributeRefused, End, Still
  <2>6. ASSUME WriteAttribute(p) PROVE Still(q)
    BY <2>6 DEF TypeOK, WriteAttribute, Still
  <2> QED  BY <1>1, <2>1, <2>2, <2>3, <2>4, <2>5, <2>6 DEF Setup
<1>2. CASE Uninstall(p)
  <2>1. ASSUME BeginUninstall(p) PROVE Still(q)
    BY <2>1 DEF TypeOK, BeginUninstall, Still
  <2>2. ASSUME RemoveKeys(p) \/ Restore(p) \/ RemoveAttribute(p) PROVE Still(q)
    BY <2>2 DEF TypeOK, RemoveKeys, Restore, RemoveAttribute, Step, Still
  <2>3. ASSUME Notify(p) \/ NothingToNotify(p) \/ Forget(p) PROVE Still(q)
    BY <2>3 DEF TypeOK, Notify, NothingToNotify, Forget, Step, End, Still
  <2> QED  BY <1>2, <2>1, <2>2, <2>3 DEF Uninstall
<1>3. CASE Cancel(p) \/ Crash(p) \/ Edit(p) \/ LoseRecord(p)
  BY <1>3 DEF TypeOK, Cancel, Crash, Edit, LoseRecord, End, Still
<1> QED  BY <1>1, <1>2, <1>3

-----------------------------------------------------------------------------
(* What uninstall will find.  Settings with a token that nobody else wrote *)
(* have all that setup writes, or an uninstall that went by an outdated    *)
(* record took out the endpoint; and but for such a record the token of    *)
(* the record is the one in the settings.                                  *)
Installed(f) ==
    /\ Has(f, "exporter") /\ Has(f, "endpoint") /\ Has(f, "headers")
    /\ Atoms(f, "exporter") = {"ours"} /\ Atoms(f, "endpoint") = {"ours"}
Bears(f, t) == Atoms(f, "headers") = {t}
Between(r) == r.pc \in {"label", "record"}
UndoOk(f, s, r, isTorn, isLeaving) ==
    /\ TokenIn(f) # {} => /\ \E t \in Token : Bears(f, t)
                          /\ Installed(f) \/ (isTorn /\ ~Has(f, "endpoint"))
    /\ Between(r) => Installed(f) /\ Bears(f, r.token) /\ r.token \in Token
    /\ ~isTorn /\ s.kind = "record" /\ ~Between(r) /\ TokenIn(f) # {} => s.token \in TokenIn(f)
    /\ ~isTorn /\ r.rec.kind = "record" /\ r.pc = "asking" /\ TokenIn(f) # {}
          => r.rec.token \in TokenIn(f)
    /\ ~isTorn /\ ~isLeaving /\ s.kind = "record" /\ ~Between(r) => Installed(f) /\ TokenIn(f) # {}
UndoInv(p) == ~edited[p] => UndoOk(file[p], state[p], run[p], torn[p], leaving[p])

LEMMA ElsewhereUndo == ASSUME NEW q, Still(q), UndoInv(q) PROVE UndoInv(q)'
BY DEF Still, UndoInv

(* Until it writes, and once it has not, setup changes nothing of it.      *)
LEMMA CommandUndo ==
    ASSUME TypeOK, NEW p \in Profile, UndoInv(p), NEW r,
           run' = [run EXCEPT ![p] = r], ~Between(run[p]), ~Between(r),
           r.pc = "asking" => r.rec = state[p],
           UNCHANGED <<file, state, edited, torn, leaving>>
    PROVE  UndoInv(p)'
<1>1. run'[p] = r
  BY DEF TypeOK
<1> QED  BY <1>1 DEF UndoInv, UndoOk

LEMMA SetupUndo ==
    ASSUME TokensInv, NEW p \in Profile, UndoInv(p), Setup(p) PROVE UndoInv(p)'
<1>0. TypeOK /\ TokenInv(p) /\ file[p] \in File /\ run[p] \in Command
  BY DEF TokensInv, TypeOK
<1>1. ASSUME NEW t \in Code, BeginSetup(p, t) PROVE UndoInv(p)'
  <2>1. PICK r : r = [Idle EXCEPT !.pc = "joining", !.token = t, !.invited = TRUE]
    OBVIOUS
  <2> QED  BY <1>0, <1>1, <2>1, CommandUndo DEF BeginSetup, Running, Between, Idle
<1>2. ASSUME NEW t \in Token, NEW q \in Profile, BeginSibling(p, q, t) PROVE UndoInv(p)'
  <2>1. PICK r : r = [Idle EXCEPT !.pc = "writing", !.token = t]
    OBVIOUS
  <2> QED  BY <1>0, <1>2, <2>1, CommandUndo DEF BeginSibling, Running, Between, Idle
<1>3. CASE Join(p)
  <2>1. PICK r : r = [run[p] EXCEPT !.pc = "writing"]
    OBVIOUS
  <2>2. r.pc = "writing" /\ run' = [run EXCEPT ![p] = r]
    BY <1>0, <1>3, <2>1 DEF Join, Step, Command, TypeOK
  <2> QED  BY <1>0, <1>3, <2>2, CommandUndo DEF Join, Between
<1>4. CASE JoinRefused(p) \/ JoinReplyLost(p) \/ WriteRefused(p)
  BY <1>0, <1>4, CommandUndo DEF JoinRefused, JoinReplyLost, WriteRefused, End, Between, Idle
<1>5. CASE WriteEntries(p)
  <2> DEFINE token == run[p].token
             g == WithEnv(Updated(file[p], token))
  <2>1. token \in Token
    BY <1>0, <1>5, TokenNames DEF WriteEntries, TokenInv, CommandOk, TypeOK
  <2>2. Installed(g) /\ Bears(g, token) /\ TokenIn(g) = {token}
    BY <1>0, <2>1, UpdatedHas DEF Installed, Bears
  <2>3. file'[p] = g /\ run'[p].pc = "label" /\ run'[p].token = token
    BY <1>0, <1>5 DEF WriteEntries, TypeOK, Command
  <2> HIDE DEF g, token
  <2> QED  BY <2>1, <2>2, <2>3 DEF UndoInv, UndoOk, Between
<1>6. CASE WriteAttribute(p)
  <2> DEFINE g == WithEnv(Labelled(file[p], p))
  <2>1. /\ g \in File /\ TokenIn(g) = TokenIn(file[p])
        /\ \A k \in Owned : (Has(g, k) <=> Has(file[p], k)) /\ Atoms(g, k) = Atoms(file[p], k)
    BY <1>0, LabelledHas, HeaderStays
  <2>2. (Installed(g) <=> Installed(file[p])) /\ \A t : Bears(g, t) <=> Bears(file[p], t)
    BY <2>1 DEF Installed, Bears, Owned
  <2>3. /\ file'[p] = g /\ run'[p].pc = "record" /\ run'[p].token = run[p].token
        /\ run[p].pc = "label" /\ edited' = edited
    BY <1>0, <1>6 DEF WriteAttribute, TypeOK, Command
  <2> HIDE DEF g
  <2> QED  BY <2>1, <2>2, <2>3 DEF UndoInv, UndoOk, Between
<1>7. CASE AttributeRefused(p)
  <2>1. /\ run[p].pc = "label" /\ run'[p] = Idle /\ torn'[p] /\ edited' = edited /\ file' = file
    BY <1>0, <1>7 DEF AttributeRefused, End, TypeOK
  <2> QED  BY <2>1 DEF UndoInv, UndoOk, Between, Idle
<1>8. CASE WriteState(p)
  <2>1. /\ run[p].pc = "record" /\ run'[p] = Idle /\ state'[p] = run[p].rec
        /\ edited' = edited /\ file' = file /\ torn' = torn
    BY <1>0, <1>8 DEF WriteState, End, TypeOK
  <2>2. run[p].rec.token = run[p].token
    BY <1>0, <2>1 DEF TokenInv, CommandOk
  <2> QED  BY <2>1, <2>2 DEF UndoInv, UndoOk, Between, Bears, TokenIn, Idle
<1> QED  BY <1>1, <1>2, <1>3, <1>4, <1>5, <1>6, <1>7, <1>8 DEF Setup

(* A removal that leaves a token behind went by an outdated record.        *)
LEMMA RemoveKeysUndo ==
    ASSUME TokensInv, NEW p \in Profile, UndoInv(p), RemoveKeys(p) PROVE UndoInv(p)'
<1> DEFINE f == file[p]
           c == run[p]
           keys == Removable(c.rec, c.seen)
           g == file'[p]
<1>0. TypeOK /\ TokenInv(p) /\ f \in File /\ c \in Command /\ c.seen \in File
  BY DEF TokensInv, TypeOK, Command
<1>1. /\ c.pc = "asking" /\ run'[p].pc \in {"unlabel", "notify"} /\ leaving'[p]
      /\ state' = state /\ torn' = torn /\ edited' = edited
      /\ g = IF keys = {} THEN f ELSE Without(c.seen, keys, c.rec.createdEnv)
  BY <1>0 DEF RemoveKeys, Step, TypeOK, Command
<1> SUFFICES ASSUME ~edited[p] PROVE UndoOk(g, state'[p], run'[p], torn'[p], leaving'[p])
  BY <1>1 DEF UndoInv
<1>2. UndoOk(f, state[p], c, torn[p], leaving[p]) /\ f = c.seen
  BY <1>0, <1>1 DEF UndoInv, TokenInv, Following
<1> HIDE DEF g, keys, c, f
<1>3. CASE keys = {}
  BY <1>1, <1>2, <1>3 DEF UndoOk, Between
<1>4. CASE keys # {}
  <2>1. AlikeBut(f, g, keys) /\ \A k \in keys : ~Has(g, k) /\ Atoms(g, k) = {}
    BY <1>0, <1>1, <1>2, <1>4, WithoutKeeps
  <2>2. CASE TokenIn(g) = {}
    BY <1>1, <2>2 DEF UndoOk, Between
  <2>3. CASE TokenIn(g) # {}
    <3>1. "headers" \notin keys /\ Atoms(g, "headers") = Atoms(f, "headers")
      BY <2>1, <2>3, KeyNames DEF AlikeBut, TokenIn
    <3>2. TokenIn(f) # {}
      BY <2>3, <3>1 DEF TokenIn
    <3>3. Has(f, "headers")
      BY <1>0, <3>2, FileForm DEF TokenIn
    <3>4. c.rec.kind = "record"
      BY <1>2, <1>4, <3>1, <3>3 DEF keys, Removable, Owned
    <3>5. Atoms(f, "headers") # {c.rec.token}
      BY <1>2, <3>1, <3>3, <3>4 DEF keys, Removable, Owned
    <3>6. c.rec.token \notin TokenIn(f)
      BY <1>2, <3>2, <3>5 DEF UndoOk, Bears, TokenIn
    <3>7. torn[p]
      BY <1>1, <1>2, <3>2, <3>4, <3>6 DEF UndoOk
    <3>8. ~Has(g, "endpoint")
      <4>1. CASE Has(f, "endpoint")
        <5>1. "endpoint" \in keys
          BY <1>2, <3>2, <3>4, <4>1 DEF keys, Removable, UndoOk, Installed, Owned
        <5> QED  BY <2>1, <5>1
      <4>2. CASE ~Has(f, "endpoint")
        <5>1. "endpoint" \notin keys
          BY <1>2, <3>4, <4>2 DEF keys, Removable
        <5> QED  BY <2>1, <4>2, <5>1, KeyNames DEF AlikeBut
      <4> QED  BY <4>1, <4>2
    <3>9. \E t \in Token : Bears(g, t)
      BY <1>2, <3>1, <3>2 DEF UndoOk, Bears
    <3> QED  BY <1>1, <3>7, <3>8, <3>9 DEF UndoOk, Between
  <2> QED  BY <2>2, <2>3
<1> QED  BY <1>3, <1>4

LEMMA UninstallUndo ==
    ASSUME TokensInv, NEW p \in Profile, UndoInv(p), Uninstall(p) PROVE UndoInv(p)'
<1>0. TypeOK /\ TokenInv(p) /\ file[p] \in File /\ run[p] \in Command
  BY DEF TokensInv, TypeOK
<1>1. CASE BeginUninstall(p)
  <2>1. PICK r : run' = [run EXCEPT ![p] = r] /\ r.pc = "asking" /\ r.rec = state[p]
    <3>1. PICK t : run' = [run EXCEPT ![p] = [Idle EXCEPT !.pc = "asking", !.token = t,
                                              !.rec = state[p], !.seen = file[p]]]
      BY <1>1 DEF BeginUninstall
    <3>2. PICK r : r = [Idle EXCEPT !.pc = "asking", !.token = t, !.rec = state[p], !.seen = file[p]]
      OBVIOUS
    <3>3. r.pc = "asking" /\ r.rec = state[p]
      BY <3>2 DEF Idle
    <3> QED  BY <3>1, <3>2, <3>3
  <2> QED  BY <1>0, <1>1, <2>1, CommandUndo DEF BeginUninstall, Running, Between
<1>2. CASE Restore(p)
  <2>1. /\ file'[p] = run[p].rec.backup /\ run'[p].pc = "notify" /\ leaving'[p]
    BY <1>0, <1>2 DEF Restore, Step, TypeOK, Command
  <2>2. TokenIn(run[p].rec.backup) = {}
    BY <1>0, <1>2 DEF Restore, TokenInv, CommandOk, RecordOk
  <2> QED  BY <2>1, <2>2 DEF UndoInv, UndoOk, Between
<1>3. CASE RemoveAttribute(p)
  <2>1. /\ run[p].pc = "unlabel" /\ run'[p].pc = "notify"
        /\ UNCHANGED <<state, edited, torn, leaving>>
    BY <1>0, <1>3 DEF RemoveAttribute, Step, TypeOK, Command
  <2>2. /\ TokenIn(file'[p]) = TokenIn(file[p])
        /\ Installed(file'[p]) <=> Installed(file[p])
        /\ Has(file'[p], "endpoint") <=> Has(file[p], "endpoint")
        /\ \A t : Bears(file'[p], t) <=> Bears(file[p], t)
    <3>1. CASE HasLabel(file[p], p)
      <4>1. PICK g : g = Unlabelled(file[p], p, run[p].rec.createdKey)
        OBVIOUS
      <4>2. file'[p] = g
        BY <1>0, <1>3, <3>1, <4>1 DEF RemoveAttribute, TypeOK
      <4>3. g \in File /\ AlikeBut(file[p], g, {"attributes"})
        BY <1>0, <3>1, <4>1, UnlabelledKeeps
      <4> QED  BY <1>0, <4>2, <4>3, HeaderStays DEF Installed, Bears, Owned
    <3>2. CASE ~HasLabel(file[p], p)
      BY <1>3, <3>2 DEF RemoveAttribute
    <3> QED  BY <3>1, <3>2
  <2> QED  BY <2>1, <2>2 DEF UndoInv, UndoOk, Between
<1>4. CASE Notify(p) \/ NothingToNotify(p)
  <2>1. PICK r : r = [run[p] EXCEPT !.pc = "forget"]
    OBVIOUS
  <2>2. r.pc = "forget" /\ run' = [run EXCEPT ![p] = r]
    BY <1>0, <1>4, <2>1 DEF Notify, NothingToNotify, Step, Command, TypeOK
  <2> QED  BY <1>0, <1>4, <2>2, CommandUndo DEF Notify, NothingToNotify, Between
<1>5. CASE Forget(p)
  <2>1. /\ run[p].pc = "forget" /\ run'[p] = Idle /\ state'[p] = NoRecord
        /\ file' = file /\ edited' = edited /\ torn' = torn
    BY <1>0, <1>5 DEF Forget, End, TypeOK
  <2> QED  BY <2>1 DEF UndoInv, UndoOk, Between, Idle, NoRecord
<1> QED  BY <1>1, <1>2, <1>3, <1>4, <1>5, RemoveKeysUndo DEF Uninstall

LEMMA MishapUndo ==
    ASSUME TokensInv, NEW p \in Profile, UndoInv(p), Cancel(p) \/ Crash(p) \/ Edit(p) \/ LoseRecord(p)
    PROVE  UndoInv(p)'
<1>0. TypeOK
  BY DEF TokensInv
<1>1. CASE Cancel(p)
  BY <1>0, <1>1, CommandUndo DEF Cancel, End, Between, Idle
<1>2. CASE Crash(p)
  <2>1. /\ run'[p] = Idle /\ file' = file /\ edited' = edited /\ leaving' = leaving
        /\ torn'[p] = (torn[p] \/ run[p].pc \in {"label", "record"})
    BY <1>0, <1>2 DEF Crash, End, TypeOK
  <2>2. state'[p] = state[p] \/ state'[p].kind = "broken"
    BY <1>0, <1>2 DEF Crash, TypeOK, NoRecord
  <2>3. CASE run[p].pc \in {"label", "record"}
    <3>1. torn'[p] = TRUE
      BY <2>1, <2>3
    <3> QED  BY <2>1, <2>2, <2>3, <3>1 DEF UndoInv, UndoOk, Between, Idle
  <2>4. CASE run[p].pc \notin {"label", "record"}
    <3>1. torn'[p] = torn[p]
      BY <1>0, <2>1, <2>4 DEF TypeOK
    <3> QED  BY <2>1, <2>2, <2>4, <3>1 DEF UndoInv, UndoOk, Between, Idle
  <2> QED  BY <2>3, <2>4
<1>3. CASE Edit(p)
  BY <1>0, <1>3 DEF Edit, TypeOK, UndoInv
<1>4. CASE LoseRecord(p)
  <2>1. state'[p] = NoRecord /\ UNCHANGED <<file, run, edited, torn, leaving>>
    BY <1>0, <1>4 DEF LoseRecord, TypeOK
  <2> QED  BY <2>1 DEF UndoInv, UndoOk, NoRecord
<1> QED  BY <1>1, <1>2, <1>3, <1>4

-----------------------------------------------------------------------------
(* Where nobody edits anything, no bearer of another collector is handed   *)
(* on: settings that have a record, and those setup writes, have none.     *)
Clean(f) == TokenIn(f) \cap Foreign = {}
CleanOk(f, s, r) ==
    /\ s.kind = "record" \/ Between(r) => Clean(f)
    /\ s.kind = "record" /\ r.pc = "asking" => Clean(r.seen)
    /\ r.pc \in {"joining", "writing"} => r.token \notin Foreign
EditFree == \A q \in Profile : edits[q] = 0
CleanInv == EditFree => \A p \in Profile : CleanOk(file[p], state[p], run[p])

LEMMA CleanCommand ==
    ASSUME TypeOK, NEW p \in Profile, NEW r, run' = [run EXCEPT ![p] = r],
           CleanOk(file[p], state[p], run[p]), file' = file, state' = state, ~Between(r),
           r.pc = "asking" => r.seen = file[p],
           r.pc \in {"joining", "writing"} => r.token \notin Foreign
    PROVE  CleanOk(file[p], state[p], run[p])'
<1>1. run'[p] = r
  BY DEF TypeOK
<1> QED  BY <1>1 DEF CleanOk

LEMMA CleanSetup ==
    ASSUME TokensInv, NEW p \in Profile, Setup(p),
           \A q \in Profile : CleanOk(file[q], state[q], run[q])
    PROVE  CleanOk(file[p], state[p], run[p])'
<1>0. TypeOK /\ TokenInv(p) /\ file[p] \in File /\ run[p] \in Command /\ CleanOk(file[p], state[p], run[p])
  BY DEF TokensInv, TypeOK
<1>1. ASSUME NEW t \in Code, BeginSetup(p, t) PROVE CleanOk(file[p], state[p], run[p])'
  <2>1. PICK r : r = [Idle EXCEPT !.pc = "joining", !.token = t, !.invited = TRUE]
    OBVIOUS
  <2>2. r.pc = "joining" /\ r.token \notin Foreign /\ run' = [run EXCEPT ![p] = r]
    BY <1>1, <2>1, TokenNames DEF BeginSetup, Idle
  <2> QED  BY <1>0, <1>1, <2>2, CleanCommand DEF BeginSetup, Between
<1>2. ASSUME NEW t \in Token, NEW q \in Profile, BeginSibling(p, q, t)
      PROVE  CleanOk(file[p], state[p], run[p])'
  <2>1. PICK r : r = [Idle EXCEPT !.pc = "writing", !.token = t]
    OBVIOUS
  <2>2. t \notin Foreign
    BY <1>2 DEF BeginSibling, CleanOk, Clean
  <2>3. r.pc = "writing" /\ r.token \notin Foreign /\ run' = [run EXCEPT ![p] = r]
    BY <1>2, <2>1, <2>2 DEF BeginSibling, Idle
  <2> QED  BY <1>0, <1>2, <2>3, CleanCommand DEF BeginSibling, Between
<1>3. CASE Join(p)
  <2>1. PICK r : r = [run[p] EXCEPT !.pc = "writing"]
    OBVIOUS
  <2>2. r.pc = "writing" /\ r.token \notin Foreign /\ run' = [run EXCEPT ![p] = r]
    BY <1>0, <1>3, <2>1 DEF Join, Step, Command, TypeOK, CleanOk
  <2> QED  BY <1>0, <1>3, <2>2, CleanCommand DEF Join, Between
<1>4. CASE JoinRefused(p) \/ JoinReplyLost(p) \/ WriteRefused(p) \/ AttributeRefused(p)
  <2>1. Idle.pc = "idle" /\ run' = [run EXCEPT ![p] = Idle] /\ file' = file /\ state' = state
    BY <1>4 DEF JoinRefused, JoinReplyLost, WriteRefused, AttributeRefused, End, Idle
  <2> QED  BY <1>0, <2>1, CleanCommand DEF Between
<1>5. CASE WriteEntries(p)
  <2>1. PICK token, g : token = run[p].token /\ g = WithEnv(Updated(file[p], token))
    OBVIOUS
  <2>2. token \in Token /\ token \notin Foreign
    BY <1>0, <1>5, <2>1, TokenNames DEF WriteEntries, TokenInv, CommandOk, CleanOk, TypeOK
  <2>3. TokenIn(g) = {token}
    BY <1>0, <2>1, <2>2, UpdatedHas
  <2>4. file'[p] = g /\ run'[p].pc = "label"
    BY <1>0, <1>5, <2>1 DEF WriteEntries, TypeOK, Command
  <2> QED  BY <2>2, <2>3, <2>4 DEF CleanOk, Clean
<1>6. CASE WriteAttribute(p)
  <2>1. PICK g : g = WithEnv(Labelled(file[p], p))
    OBVIOUS
  <2>2. TokenIn(g) = TokenIn(file[p])
    BY <1>0, <2>1, LabelledHas, HeaderStays
  <2>3. file'[p] = g /\ run'[p].pc = "record" /\ run[p].pc = "label"
    BY <1>0, <1>6, <2>1 DEF WriteAttribute, TypeOK, Command
  <2> QED  BY <1>0, <2>2, <2>3 DEF CleanOk, Clean, Between
<1>7. CASE WriteState(p)
  <2>1. run[p].pc = "record" /\ run'[p].pc = "idle" /\ file' = file
    BY <1>0, <1>7 DEF WriteState, End, TypeOK, Idle
  <2> QED  BY <1>0, <2>1 DEF CleanOk, Between
<1> QED  BY <1>1, <1>2, <1>3, <1>4, <1>5, <1>6, <1>7 DEF Setup

LEMMA CleanUninstall ==
    ASSUME TokensInv, NEW p \in Profile, Uninstall(p), CleanOk(file[p], state[p], run[p])
    PROVE  CleanOk(file[p], state[p], run[p])'
<1>0. TypeOK /\ TokenInv(p) /\ file[p] \in File /\ run[p] \in Command
  BY DEF TokensInv, TypeOK
<1>1. CASE BeginUninstall(p)
  <2>1. PICK r : run' = [run EXCEPT ![p] = r] /\ r.pc = "asking" /\ r.seen = file[p]
    <3>1. PICK t : run' = [run EXCEPT ![p] = [Idle EXCEPT !.pc = "asking", !.token = t,
                                              !.rec = state[p], !.seen = file[p]]]
      BY <1>1 DEF BeginUninstall
    <3>2. PICK r : r = [Idle EXCEPT !.pc = "asking", !.token = t, !.rec = state[p], !.seen = file[p]]
      OBVIOUS
    <3>3. r.pc = "asking" /\ r.seen = file[p]
      BY <3>2 DEF Idle
    <3> QED  BY <3>1, <3>2, <3>3
  <2> QED  BY <1>0, <1>1, <2>1, CleanCommand DEF BeginUninstall, Between
<1>2. CASE RemoveKeys(p)
  <2>1. PICK c, keys, g : /\ c = run[p] /\ keys = Removable(c.rec, c.seen)
                          /\ g = Without(c.seen, keys, c.rec.createdEnv)
    OBVIOUS
  <2>2. /\ c.pc = "asking" /\ run'[p].pc \in {"unlabel", "notify"} /\ state' = state
        /\ file'[p] = IF keys = {} THEN file[p] ELSE g
    BY <1>0, <1>2, <2>1 DEF RemoveKeys, Step, TypeOK, Command
  <2>3. TokenIn(g) \subseteq TokenIn(c.seen)
    <3>1. AlikeBut(c.seen, g, keys) /\ \A k \in keys : Atoms(g, k) = {}
      BY <1>0, <2>1, WithoutKeeps DEF Command
    <3> QED  BY <3>1, KeyNames DEF AlikeBut, TokenIn
  <2> QED  BY <2>1, <2>2, <2>3 DEF CleanOk, Clean, Between
<1>3. CASE Restore(p)
  <2>1. file'[p] = run[p].rec.backup /\ run'[p].pc = "notify"
    BY <1>0, <1>3 DEF Restore, Step, TypeOK, Command
  <2>2. TokenIn(run[p].rec.backup) = {}
    BY <1>0, <1>3 DEF Restore, TokenInv, CommandOk, RecordOk
  <2> QED  BY <2>1, <2>2 DEF CleanOk, Clean
<1>4. CASE RemoveAttribute(p)
  <2>1. run[p].pc = "unlabel" /\ run'[p].pc = "notify" /\ state' = state
    BY <1>0, <1>4 DEF RemoveAttribute, Step, TypeOK, Command
  <2>2. TokenIn(file'[p]) = TokenIn(file[p])
    <3>1. CASE HasLabel(file[p], p)
      <4>1. PICK g : g = Unlabelled(file[p], p, run[p].rec.createdKey)
        OBVIOUS
      <4>2. file'[p] = g
        BY <1>0, <1>4, <3>1, <4>1 DEF RemoveAttribute, TypeOK
      <4>3. g \in File /\ AlikeBut(file[p], g, {"attributes"})
        BY <1>0, <3>1, <4>1, UnlabelledKeeps
      <4> QED  BY <1>0, <4>2, <4>3, HeaderStays
    <3>2. CASE ~HasLabel(file[p], p)
      BY <1>4, <3>2 DEF RemoveAttribute
    <3> QED  BY <3>1, <3>2
  <2> QED  BY <2>1, <2>2 DEF CleanOk, Clean, Between
<1>5. CASE Notify(p) \/ NothingToNotify(p)
  <2>1. PICK r : r = [run[p] EXCEPT !.pc = "forget"]
    OBVIOUS
  <2>2. r.pc = "forget" /\ run' = [run EXCEPT ![p] = r] /\ file' = file /\ state' = state
    BY <1>0, <1>5, <2>1 DEF Notify, NothingToNotify, Step, Command, TypeOK
  <2> QED  BY <1>0, <2>2, CleanCommand DEF Between
<1>6. CASE Forget(p)
  <2>1. run'[p] = Idle /\ state'[p] = NoRecord
    BY <1>0, <1>6 DEF Forget, End, TypeOK
  <2> QED  BY <2>1 DEF CleanOk, Between, Idle, NoRecord
<1> QED  BY <1>1, <1>2, <1>3, <1>4, <1>5, <1>6 DEF Uninstall

LEMMA CleanStep == TokensInv /\ CleanInv /\ [Next]_vars => CleanInv'
<1> SUFFICES ASSUME TokensInv, CleanInv, [Next]_vars, EditFree'
             PROVE  \A q \in Profile : CleanOk(file[q], state[q], run[q])'
  BY DEF CleanInv
<1>0. TypeOK /\ edits \in [Profile -> Nat] /\ run \in [Profile -> Command]
  BY DEF TokensInv, TypeOK
<1>1. ASSUME NEW p \in Profile, Edit(p) \/ LoseRecord(p) PROVE FALSE
  <2>1. edits'[p] = edits[p] + 1 /\ edits[p] \in Nat
    BY <1>0, <1>1 DEF Edit, LoseRecord
  <2> QED  BY <2>1 DEF EditFree
<1>2. ASSUME NEW p \in Profile, Setup(p) \/ Uninstall(p) \/ Cancel(p) \/ Crash(p)
      PROVE  \A q \in Profile : CleanOk(file[q], state[q], run[q])'
  <2>1. edits' = edits
    BY <1>2 DEF Setup, Uninstall, Cancel, Crash, BeginSetup, BeginSibling, Join, JoinRefused,
                JoinReplyLost, WriteEntries, WriteRefused, WriteAttribute, AttributeRefused, WriteState,
                BeginUninstall, RemoveKeys, Restore, RemoveAttribute, Notify, NothingToNotify, Forget,
                bounds
  <2>2. \A q \in Profile : CleanOk(file[q], state[q], run[q])
    BY <2>1 DEF CleanInv, EditFree
  <2>3. CASE Cancel(p)
    <3>1. Idle.pc = "idle" /\ run' = [run EXCEPT ![p] = Idle] /\ file' = file /\ state' = state
      BY <2>3 DEF Cancel, End, Idle
    <3> QED  BY <1>0, <1>2, <2>2, <3>1, CleanCommand, Elsewhere DEF Between, Still
  <2>4. CASE Crash(p)
    <3>1. run'[p].pc = "idle" /\ file' = file
      BY <1>0, <2>4 DEF Crash, End, Idle
    <3>2. state'[p] = state[p] \/ state'[p].kind = "broken"
      BY <1>0, <2>4 DEF Crash, TypeOK, NoRecord
    <3>3. CleanOk(file[p], state[p], run[p])'
      BY <2>2, <3>1, <3>2 DEF CleanOk, Between
    <3>4. \A q \in Profile \ {p} : Still(q)
      BY <1>0, <1>2, Elsewhere
    <3> QED  BY <2>2, <3>3, <3>4 DEF Still
  <2>5. CASE Setup(p) \/ Uninstall(p)
    <3>1. CleanOk(file[p], state[p], run[p])'
      BY <2>2, <2>5, CleanSetup, CleanUninstall
    <3>2. \A q \in Profile \ {p} : Still(q)
      BY <1>0, <1>2, Elsewhere
    <3> QED  BY <2>2, <3>1, <3>2 DEF Still
  <2> QED  BY <1>2, <2>3, <2>4, <2>5
<1>3. CASE UNCHANGED vars
  BY <1>3 DEF vars, bounds, CleanInv, EditFree
<1> QED  BY <1>1, <1>2, <1>3 DEF Next

InstallInv == TokensInv /\ (\A p \in Profile : UndoInv(p)) /\ CleanInv

LEMMA InstallStep == InstallInv /\ [Next]_vars => InstallInv'
<1> SUFFICES ASSUME InstallInv, [Next]_vars PROVE InstallInv'
  OBVIOUS
<1>1. TokensInv' /\ CleanInv'
  BY TokensStep, CleanStep DEF InstallInv
<1>2. ASSUME NEW p \in Profile,
             Setup(p) \/ Uninstall(p) \/ Cancel(p) \/ Crash(p) \/ Edit(p) \/ LoseRecord(p)
      PROVE  \A q \in Profile : UndoInv(q)'
  <2>1. UndoInv(p)'
    BY <1>2, SetupUndo, UninstallUndo, MishapUndo DEF InstallInv
  <2>2. \A q \in Profile \ {p} : UndoInv(q)'
    BY <1>2, Elsewhere, ElsewhereUndo DEF InstallInv, TokensInv
  <2> QED  BY <2>1, <2>2
<1>3. CASE UNCHANGED vars
  <2>1. /\ file' = file /\ state' = state /\ run' = run
        /\ edited' = edited /\ torn' = torn /\ leaving' = leaving
    BY <1>3 DEF vars
  <2>2. ASSUME NEW p \in Profile PROVE UndoInv(p)'
    BY <2>1 DEF InstallInv, UndoInv
  <2> QED  BY <1>1, <2>2 DEF InstallInv
<1> QED  BY <1>1, <1>2, <1>3 DEF Next, InstallInv

LEMMA InstallInvariant == Spec => []InstallInv
<1>1. Init => InstallInv
  <2>1. Init => CleanInv
    BY DEF Init, CleanInv, CleanOk, Between, NoRecord, Idle
  <2> QED  BY <2>1, TokensInit DEF Init, InstallInv, UndoInv
<1> QED  BY <1>1, InstallStep, PTL DEF Spec

(* What setup wrote and nobody else touched, uninstall will take out all   *)
(* of, wherever earlier commands were cut short and however often -- but   *)
(* for a record that an interrupted setup did not replace, and a bearer    *)
(* that without a record does not look like ccledger's.                    *)
THEOREM UninstallFindsIt == Spec => []Undoable
<1>1. InstallInv => Undoable
  <2> SUFFICES ASSUME InstallInv, NEW p \in Profile, ~Running(p), ~edited[p], TokenIn(file[p]) # {},
                      state[p].kind = "record" \/ TokenIn(file[p]) \cap MemberToken # {},
                      ~Outdated(p)
               PROVE  Removable(state[p], file[p]) = Owned
    BY DEF Undoable
  <2>1. /\ UndoOk(file[p], state[p], run[p], torn[p], leaving[p])
        /\ file[p] \in File /\ ~Between(run[p])
    BY DEF InstallInv, UndoInv, TokensInv, TokenInv, TypeOK, Running, Between
  <2>2. Installed(file[p])
    BY <2>1 DEF UndoOk, Outdated
  <2>3. CASE state[p].kind = "record"
    <3>1. state[p].token \in TokenIn(file[p])
      BY <2>1, <2>3 DEF UndoOk, Outdated
    <3>2. Atoms(file[p], "headers") = {state[p].token}
      BY <2>1, <3>1 DEF UndoOk, Bears, TokenIn
    <3> QED  BY <2>2, <2>3, <3>2 DEF Removable, Installed, Owned
  <2>4. CASE state[p].kind # "record"
    <3>1. LooksLikeCcledger(file[p])
      BY <2>2, <2>4 DEF LooksLikeCcledger, LogsEndpoint, Installed, TokenIn
    <3> QED  BY <2>2, <2>4, <3>1 DEF Removable, Installed, Owned
  <2> QED  BY <2>3, <2>4
<1> QED  BY <1>1, InstallInvariant, PTL

(* The doctor finds a finished install well, unless its token was revoked, *)
(* or it is a bearer of another collector that somebody put into the       *)
(* settings it was taken over from; and the keys are in order even then.   *)
THEOREM InstallsAreHealthy == Spec => []InstallIsHealthy
<1>1. InstallInv => InstallIsHealthy
  <2> SUFFICES ASSUME InstallInv, NEW p \in Profile, Finished(p)
               PROVE  \/ DoctorOk(p)
                      \/ /\ ConfigKeysOk(file[p])
                         /\ \/ TokenIn(file[p]) \cap revoked # {}
                            \/ TokenIn(file[p]) \subseteq Foreign /\ \E q \in Profile : edits[q] > 0
    BY DEF InstallIsHealthy
  <2>1. /\ UndoOk(file[p], state[p], run[p], torn[p], leaving[p])
        /\ FileOk(file[p], spent) /\ file[p] \in File /\ ~Between(run[p])
        /\ edits \in [Profile -> Nat]
    BY DEF InstallInv, UndoInv, TokensInv, TokenInv, TypeOK, Running, Between, Finished
  <2>2. Installed(file[p]) /\ TokenIn(file[p]) # {}
    BY <2>1 DEF UndoOk, Finished
  <2>3. ConfigKeysOk(file[p])
    <3>1. file[p].kind = "env"
      BY <2>1, <2>2, FileForm DEF Installed
    <3> QED  BY <2>2, <3>1 DEF ConfigKeysOk, Installed, Owned, Has
  <2>4. PICK t \in Token : TokenIn(file[p]) = {t}
    BY <2>1, <2>2 DEF UndoOk, Bears, TokenIn
  <2>5. CASE t \in Code
    <3>1. t \in spent
      BY <2>1, <2>4, <2>5, CodeIs DEF FileOk
    <3> QED  BY <2>3, <2>4, <3>1 DEF DoctorOk, TokenOk
  <2>6. CASE t \in Foreign
    <3>1. ~EditFree
      BY <2>4, <2>6 DEF InstallInv, CleanInv, CleanOk, Clean, Finished
    <3>2. \E q \in Profile : edits[q] > 0
      BY <2>1, <3>1 DEF EditFree
    <3> QED  BY <2>3, <2>4, <2>6, <3>2
  <2> QED  BY <2>5, <2>6, TokenNames
<1> QED  BY <1>1, InstallInvariant, PTL

-----------------------------------------------------------------------------
(* What is the user's, of settings a command with this token writes.       *)
Marks(token) == {"ours", "untidy", token} \cup Code \cup Profile
Unread(f) == f.kind \in {"broken", "mixed"}

LEMMA SameOwn ==
    ASSUME NEW f \in File, NEW g \in File, Unread(f) <=> Unread(g), NEW token,
           \A k \in Key : Atoms(g, k) \ Marks(token) = Atoms(f, k) \ Marks(token)
    PROVE  UsersOwn(g, token) = UsersOwn(f, token)
<1>1. [k \in Key |-> Atoms(g, k) \ Marks(token)] = [k \in Key |-> Atoms(f, k) \ Marks(token)]
  OBVIOUS
<1>2. (g.kind \in {"broken", "mixed"}) = (f.kind \in {"broken", "mixed"})
  BY DEF Unread
<1>3. \A h : UsersOwn(h, token) = [kind |-> h.kind \in {"broken", "mixed"},
                                  entries |-> [k \in Key |-> Atoms(h, k) \ Marks(token)]]
  BY DEF UsersOwn, Marks
<1> QED  BY <1>1, <1>2, <1>3

(* Settings that differ in the keys K only, and there in no entry of a     *)
(* user's.                                                                 *)
LEMMA SameBut ==
    ASSUME NEW f \in File, NEW g \in File, ~Unread(f), ~Unread(g), NEW K, AlikeBut(f, g, K),
           NEW token, \A k \in K : Atoms(g, k) \ Marks(token) = Atoms(f, k) \ Marks(token)
    PROVE  UsersOwn(g, token) = UsersOwn(f, token)
BY SameOwn DEF AlikeBut

(* What KeepsUserKeys says of one profile.                                 *)
Spared(p) ==
    LET own(f) == UsersOwn(f, TokenWritten(p))
        seen == run[p].seen
    IN  \/ own(file'[p]) = own(file[p])
        \/ /\ run[p].pc = "asking"
           /\ \/ file'[p] = run[p].rec.backup
              \/ /\ run[p].rec.kind = "record" /\ run[p].touched
                 /\ own(file'[p]) = own(seen)
              \/ /\ run[p].rec.kind = "none" /\ LooksLikeCcledger(seen)
                 /\ file'[p].kind = seen.kind
                 /\ \A k \in Key \ Owned : Atoms(file'[p], k) = Atoms(seen, k)

LEMMA WriteEntriesOwn ==
    ASSUME TokensInv, NEW p \in Profile, WriteEntries(p)
    PROVE  Spared(p)
<1> DEFINE f == file[p]
           t == run[p].token
           g == WithEnv(Updated(f, t))
<1>1. TypeOK /\ f \in File /\ t \in Token
  BY TokenNames DEF TokensInv, TypeOK, WriteEntries, TokenInv, CommandOk
<1>2. file'[p] = g /\ TokenWritten(p) = t
  BY <1>1 DEF WriteEntries, TypeOK, TokenWritten
<1>3. /\ ~Unread(f) /\ ~Has(f, "headers")
      /\ \A k \in {"exporter", "endpoint"} : ~Has(f, k) \/ Atoms(f, k) = {"ours"}
  BY KeyNames DEF WriteEntries, Writable, Clear, Conflicting, Unread
<1>4. /\ Atoms(f, "headers") = {}
      /\ Atoms(f, "exporter") \subseteq {"ours"} /\ Atoms(f, "endpoint") \subseteq {"ours"}
  BY <1>3 DEF Atoms
<1> HIDE DEF f, t
<1>5. /\ g \in File /\ g.kind = "env" /\ AlikeBut(f, g, Owned)
      /\ Atoms(g, "exporter") = {"ours"} /\ Atoms(g, "endpoint") = {"ours"}
      /\ Atoms(g, "headers") = {t}
  BY <1>1, UpdatedHas
<1> HIDE DEF g
<1>6. \A k \in Owned : Atoms(g, k) \ Marks(t) = Atoms(f, k) \ Marks(t)
  BY <1>4, <1>5 DEF Owned, Marks
<1>7. ~Unread(g)
  BY <1>5 DEF Unread
<1>8. UsersOwn(g, t) = UsersOwn(f, t)
  BY <1>1, <1>3, <1>5, <1>6, <1>7, SameBut
<1> QED  BY <1>2, <1>8 DEF f, Spared

LEMMA WriteAttributeOwn ==
    ASSUME TokensInv, NEW p \in Profile, WriteAttribute(p)
    PROVE  Spared(p)
<1> DEFINE f == file[p]
           g == WithEnv(Labelled(f, p))
<1>1. TypeOK /\ f \in File
  BY DEF TokensInv, TypeOK
<1>2. file'[p] = g
  BY <1>1 DEF WriteAttribute, TypeOK
<1>3. ~Unread(f)
  BY DEF WriteAttribute, Labellable, Unread
<1> HIDE DEF f
<1>4. /\ g \in File /\ g.kind = "env" /\ AlikeBut(f, g, {"attributes"})
      /\ Atoms(g, "attributes") = (Atoms(f, "attributes") \ {"untidy"}) \cup {p}
  BY <1>1, LabelledHas
<1> HIDE DEF g
<1>5. PICK t : t = TokenWritten(p)
  OBVIOUS
<1>6. ~Unread(g) /\ Atoms(g, "attributes") \ Marks(t) = Atoms(f, "attributes") \ Marks(t)
  BY <1>4 DEF Unread, Marks
<1>7. UsersOwn(g, t) = UsersOwn(f, t)
  BY <1>1, <1>3, <1>4, <1>6, SameBut
<1> QED  BY <1>2, <1>5, <1>7 DEF f, Spared

(* A removal takes out what is ccledger's, of settings that are those it   *)
(* read unless an edit overtook it; without a record, its keys.            *)
LEMMA RemoveKeysOwn ==
    ASSUME TokensInv, NEW p \in Profile, RemoveKeys(p), file'[p] # file[p]
    PROVE  Spared(p)
<1> DEFINE c == run[p]
           s == c.seen
           keys == Removable(c.rec, s)
           g == file'[p]
<1>1. TypeOK /\ TokenInv(p) /\ c \in Command /\ s \in File
  BY DEF TokensInv, TypeOK, Command
<1>2. /\ c.pc = "asking" /\ keys # {} /\ g = Without(s, keys, c.rec.createdEnv)
  BY <1>1 DEF RemoveKeys, TypeOK
<1>3. /\ file[p] = s \/ c.touched
      /\ RecordOk(c.rec) /\ c.rec.kind \in {"none", "record"}
  BY <1>1, <1>2 DEF TokenInv, Following, CommandOk, Command, Record
<1>4. \A k \in keys : k \in Owned /\ Has(s, k)
  BY DEF Removable
<1>5. s.kind = "env"
  BY <1>1, <1>2, <1>4, FileForm
<1>6. /\ g \in File /\ g.kind \in {"bare", "env"} /\ AlikeBut(s, g, keys)
      /\ \A k \in keys : Atoms(g, k) = {}
  <2> HIDE DEF c, s, keys, g
  <2> QED  BY <1>1, <1>2, WithoutKeeps
<1>7. CASE c.rec.kind = "record"
  <2>1. PICK t : t = c.rec.token
    OBVIOUS
  <2>2. TokenWritten(p) = t
    BY <1>2, <2>1 DEF TokenWritten
  <2>3. \A k \in keys : Atoms(s, k) = IF k = "headers" THEN {t} ELSE {"ours"}
    BY <1>7, <2>1 DEF Removable
  <2> HIDE DEF c, s, keys, g
  <2>4. \A k \in keys : Atoms(s, k) \ Marks(t) = {}
    BY <2>3 DEF Marks
  <2>5. ~Unread(s) /\ ~Unread(g)
    BY <1>5, <1>6 DEF Unread
  <2>6. UsersOwn(g, t) = UsersOwn(s, t)
    BY <1>1, <1>6, <2>4, <2>5, SameBut
  <2> QED  BY <1>2, <1>3, <1>7, <2>2, <2>6 DEF c, s, g, Spared
<1>8. CASE c.rec.kind = "none"
  <2>1. LooksLikeCcledger(s)
    BY <1>2, <1>8 DEF Removable
  <2>2. c.rec = NoRecord
    BY <1>3, <1>8 DEF RecordOk
  <2>3. g.kind = "env"
    BY <1>2, <2>2 DEF Without, WithEnv, NoRecord
  <2>4. \A k \in Key \ Owned : Atoms(g, k) = Atoms(s, k)
    BY <1>4, <1>6 DEF AlikeBut
  <2> QED  BY <1>2, <1>5, <1>8, <2>1, <2>3, <2>4 DEF Spared
<1> QED  BY <1>3, <1>7, <1>8

LEMMA RestoreOwn ==
    ASSUME TokensInv, NEW p \in Profile, Restore(p)
    PROVE  Spared(p)
<1>1. TypeOK
  BY DEF TokensInv
<1>2. run[p].pc = "asking" /\ file'[p] = run[p].rec.backup
  BY <1>1 DEF Restore, TypeOK
<1> QED  BY <1>2 DEF Spared

LEMMA RemoveAttributeOwn ==
    ASSUME TokensInv, NEW p \in Profile, RemoveAttribute(p), file'[p] # file[p]
    PROVE  Spared(p)
<1>1. TypeOK /\ file[p] \in File
  BY DEF TokensInv, TypeOK
<1>2. HasLabel(file[p], p)
  BY DEF RemoveAttribute
<1>3. PICK f, g, t : /\ f = file[p] /\ t = TokenWritten(p)
                     /\ g = Unlabelled(f, p, run[p].rec.createdKey)
  OBVIOUS
<1>4. file'[p] = g
  BY <1>1, <1>2, <1>3 DEF RemoveAttribute, TypeOK
<1>5. /\ g \in File /\ g.kind = "env" /\ f.kind = "env" /\ AlikeBut(f, g, {"attributes"})
      /\ Atoms(g, "attributes") = Atoms(f, "attributes") \ {"untidy", p}
  BY <1>1, <1>2, <1>3, UnlabelledKeeps
<1>6. ~Unread(f) /\ ~Unread(g) /\ Atoms(g, "attributes") \ Marks(t) = Atoms(f, "attributes") \ Marks(t)
  BY <1>5 DEF Unread, Marks
<1>7. UsersOwn(g, t) = UsersOwn(f, t)
  BY <1>1, <1>3, <1>5, <1>6, SameBut
<1> QED  BY <1>3, <1>4, <1>7 DEF Spared

LEMMA StepKeepsUserKeys == InstallInv /\ [Next]_vars => [KeepsUserKeys]_vars
<1> SUFFICES ASSUME InstallInv, Next, edits' = edits, NEW q \in Profile, file'[q] # file[q]
             PROVE  Spared(q)
  BY DEF KeepsUserKeys, Spared
<1>0. TokensInv /\ TypeOK
  BY DEF InstallInv, TokensInv
<1>1. ASSUME NEW p \in Profile, Setup(p) PROVE Spared(q)
  <2>1. WriteEntries(p) \/ WriteAttribute(p)
    BY <1>1 DEF Setup, BeginSetup, BeginSibling, Join, JoinRefused, JoinReplyLost, WriteRefused,
                AttributeRefused, WriteState
  <2>2. q = p
    BY <1>0, <2>1 DEF TypeOK, WriteEntries, WriteAttribute
  <2> QED  BY <1>0, <2>1, <2>2, WriteEntriesOwn, WriteAttributeOwn
<1>2. ASSUME NEW p \in Profile, Uninstall(p) PROVE Spared(q)
  <2>1. RemoveKeys(p) \/ Restore(p) \/ RemoveAttribute(p)
    BY <1>2 DEF Uninstall, BeginUninstall, Notify, NothingToNotify, Forget
  <2>2. q = p
    BY <1>0, <2>1 DEF TypeOK, RemoveKeys, Restore, RemoveAttribute
  <2> QED  BY <1>0, <2>1, <2>2, RemoveKeysOwn, RestoreOwn, RemoveAttributeOwn
<1>3. ASSUME NEW p \in Profile, Cancel(p) \/ Crash(p) \/ Edit(p) \/ LoseRecord(p)
      PROVE  FALSE
  <2>1. Edit(p)
    BY <1>3 DEF Cancel, Crash, LoseRecord
  <2>2. edits'[p] = edits[p] + 1 /\ edits[p] \in Nat
    BY <1>0, <2>1 DEF Edit, TypeOK
  <2> QED  BY <2>2
<1> QED  BY <1>1, <1>2, <1>3 DEF Next

(* No command changes or loses an entry of the user's, nor repairs what it *)
(* cannot read, except in three steps of uninstall: a backup put back, the *)
(* removal of what the record says from settings that an edit overtook     *)
(* (the edit is lost, nothing else), and the removal without a record,     *)
(* which takes the keys setup writes whatever their values are now, and no *)
(* other entry.                                                            *)
THEOREM UsersKeepTheirs == Spec => UserKeysKept
<1> QED  BY InstallInvariant, StepKeepsUserKeys, PTL DEF Spec, UserKeysKept

-----------------------------------------------------------------------------
(* What uninstall makes of the settings setup wrote.  b are the settings   *)
(* setup found: with all that it writes, with only the label, and with     *)
(* nothing of it.                                                          *)
Full(b, p, t) == WithEnv(Labelled(WithEnv(Updated(b, t)), p))
Undone(b, p) == {WithEnv(Left(b, p)), b}
Taken(b, p) == Undone(b, p) \cup {WithEnv(Labelled(b, p))}
Accepted(b, p, t) ==
    b.kind \notin {"broken", "mixed"} /\ ~Conflicting(b, p) /\ RoundTrips(b, t)

(* The round trip succeeds on tidy text without the keys setup will write. *)
LEMMA AcceptedIsTidy ==
    ASSUME NEW b \in File, NEW p \in Profile, NEW t \in Token, Accepted(b, p, t), ~Fresh(b)
    PROVE  b.kind = "env" /\ Tidy(b.env) /\ Keys(b.env) \cap Owned = {} /\ b = WithEnv(b.env)
<1>1. b.kind = "env"
  BY FileForm DEF Kinds, Fresh, Accepted
<1>2. PICK e, x : e = EntriesFor(t) /\ x = AppendMembers(b.env, e)
  OBVIOUS
<1>3. /\ e \in Seq(Entry) /\ Distinct(e) /\ Len(e) = 3
      /\ \A i \in 1 .. 3 : e[i].key \in Owned
  BY <1>2, EntriesAre
<1>4. b.env \in Env
  BY FileForm
<1>5. RemoveMembers(x, Owned) = b.env
  BY <1>2 DEF Accepted, RoundTrips, Updated
<1>6. x \in Env
  BY <1>2, <1>3, <1>4, AppendAdds
<1>7. Keys(b.env) \cap Owned = {}
  BY <1>5, <1>6, RemoveKeeps
<1>8. Len(e) # 0 /\ \A i \in 1 .. Len(e) : e[i].key \in Owned
  BY <1>3
<1>9. Tidy(b.env)
  BY <1>2, <1>3, <1>4, <1>5, <1>7, <1>8, AppendedThenRemoved
<1>10. b = WithEnv(b.env)
  BY <1>1 DEF File, WithEnv
<1> QED  BY <1>1, <1>7, <1>9, <1>10

(* What is there of ccledger's after setup and in between.                 *)
LEMMA FullHas ==
    ASSUME NEW b \in File, NEW p \in Profile, NEW t \in Token,
           NEW rec, rec.kind = "record", rec.token = t
    PROVE  Removable(rec, Full(b, p, t)) = Owned
<1>1. PICK f, g : f = WithEnv(Updated(b, t)) /\ g = WithEnv(Labelled(f, p))
  OBVIOUS
<1>2. /\ f \in File /\ Has(f, "exporter") /\ Atoms(f, "exporter") = {"ours"}
      /\ Has(f, "endpoint") /\ Atoms(f, "endpoint") = {"ours"}
      /\ Has(f, "headers") /\ Atoms(f, "headers") = {t}
  BY <1>1, UpdatedHas
<1>3. AlikeBut(f, g, {"attributes"})
  BY <1>1, <1>2, LabelledHas
<1>4. /\ Has(g, "exporter") /\ Atoms(g, "exporter") = {"ours"}
      /\ Has(g, "endpoint") /\ Atoms(g, "endpoint") = {"ours"}
      /\ Has(g, "headers") /\ Atoms(g, "headers") = {t}
  BY <1>2, <1>3, KeyNames DEF AlikeBut
<1>5. Removable(rec, g) = Owned
  BY <1>4 DEF Removable, Owned
<1> QED  BY <1>1, <1>5 DEF Full

LEMMA LeftHas ==
    ASSUME NEW b \in File, NEW p \in Profile, NEW g, g = WithEnv(Left(b, p))
    PROVE  /\ g \in File /\ \A k : Has(g, k) => Has(b, k)
           /\ p \notin Atoms(g, "attributes")
<1>1. CASE Fresh(b)
  <2>1. Left(b, p) = Emptied /\ Emptied \in Env /\ Keys(Emptied) = {}
    BY <1>1 DEF Left, Emptied, Env, Gap, Keys
  <2>2. g \in File /\ g.env = Emptied
    BY <2>1, FileOf
  <2> QED  BY <2>1, <2>2 DEF Has, Atoms
<1>2. CASE ~Fresh(b) /\ Has(b, "attributes")
  <2>1. PICK v, env : /\ v = Atoms(b, "attributes") \ {"untidy", p}
                      /\ env = ReplaceMemberValue(b.env, "attributes", v)
    OBVIOUS
  <2>2. v \in SUBSET Atom /\ b.env \in Env /\ "attributes" \in Keys(b.env)
    BY <1>2, <2>1, FileForm DEF Has
  <2>3. env \in Env /\ Keys(env) = Keys(b.env) /\ ValueOf(env, "attributes") = v
    BY <2>1, <2>2, ReplaceChanges
  <2>4. g = WithEnv(env)
    BY <1>2, <2>1 DEF Left
  <2>5. g \in File /\ g.env = env
    BY <2>3, <2>4, FileOf
  <2>6. Atoms(g, "attributes") = v
    BY <2>2, <2>3, <2>5 DEF Atoms, Has
  <2> QED  BY <2>1, <2>3, <2>5, <2>6 DEF Has
<1>3. CASE ~Fresh(b) /\ ~Has(b, "attributes")
  <2>1. g = WithEnv(b.env) /\ b.env \in Env
    BY <1>3, FileForm DEF Left
  <2>2. g \in File /\ g.env = b.env
    BY <2>1, FileOf
  <2> QED  BY <1>3, <2>2 DEF Has, Atoms
<1> QED  BY <1>1, <1>2, <1>3

LEMMA TakenHas ==
    ASSUME NEW b \in File, NEW p \in Profile, NEW t \in Token, Accepted(b, p, t), NEW f \in Taken(b, p)
    PROVE  f \in File /\ \A k \in Owned : ~Has(f, k)
<1>1. \A k \in Owned : ~Has(b, k)
  <2>1. CASE Fresh(b)
    BY <2>1, FileForm DEF Fresh
  <2>2. CASE ~Fresh(b)
    BY <2>2, AcceptedIsTidy DEF Has
  <2> QED  BY <2>1, <2>2
<1>2. CASE f = b
  BY <1>1, <1>2
<1>3. CASE f = WithEnv(Left(b, p))
  BY <1>1, <1>3, LeftHas
<1>4. CASE f = WithEnv(Labelled(b, p))
  <2>1. f \in File /\ AlikeBut(b, f, {"attributes"})
    BY <1>4, LabelledHas
  <2> QED  BY <1>1, <2>1, KeyNames DEF AlikeBut
<1> QED  BY <1>2, <1>3, <1>4 DEF Taken, Undone

LEMMA NothingRemovable ==
    ASSUME NEW b \in File, NEW p \in Profile, NEW t \in Token, Accepted(b, p, t), NEW f \in Taken(b, p),
           NEW rec, rec.kind = "record"
    PROVE  Removable(rec, f) = {}
BY TakenHas DEF Removable

LEMMA LabelEntry ==
    ASSUME NEW p \in Profile, NEW a, a = <<[key |-> "attributes", value |-> {p}]>>
    PROVE  /\ a \in Seq(Entry) /\ Distinct(a) /\ Len(a) = 1 /\ a[1].key = "attributes"
           /\ \A i \in 1 .. Len(a) : a[i].key = "attributes"
<1>1. PICK r : r = [key |-> "attributes", value |-> {p}] /\ a = <<r>>
  OBVIOUS
<1>2. {p} \in SUBSET Atom
  BY DEF Atom
<1>3. r \in Entry /\ r.key = "attributes"
  BY <1>1, <1>2, KeyNames DEF Entry
<1>4. Len(a) = 1 /\ a[1] = r /\ \A i \in 1 .. Len(a) : i = 1
  BY <1>1
<1>5. a \in Seq(Entry)
  BY <1>1, <1>3
<1>6. Distinct(a)
  BY <1>4 DEF Distinct
<1> QED  BY <1>3, <1>4, <1>5, <1>6

(* The keys taken out of all that setup writes leave the label.            *)
LEMMA KeysTakenOut ==
    ASSUME NEW b \in File, NEW p \in Profile, NEW t \in Token, Accepted(b, p, t)
    PROVE  Without(Full(b, p, t), Owned, Fresh(b)) = WithEnv(Labelled(b, p))
<1>1. PICK e, a : e = EntriesFor(t) /\ a = <<[key |-> "attributes", value |-> {p}]>>
  OBVIOUS
<1>2. /\ e \in Seq(Entry) /\ Distinct(e) /\ Len(e) = 3
      /\ \A i \in 1 .. 3 : e[i].key \in Owned
      /\ \A k : KeyIn(e, k) <=> k \in Owned
  BY <1>1, EntriesAre
<1>3. a \in Seq(Entry) /\ Distinct(a) /\ Len(a) = 1 /\ a[1].key \notin Owned
  <2>1. a \in Seq(Entry) /\ Distinct(a) /\ Len(a) = 1 /\ a[1].key = "attributes"
    BY <1>1, LabelEntry
  <2> QED  BY <2>1 DEF Owned
<1>4. Len(e) # 0 /\ \A i \in 1 .. Len(e) : e[i].key \in Owned
  BY <1>2
<1>5. PICK f, g : f = WithEnv(Updated(b, t)) /\ g = WithEnv(Labelled(f, p))
  OBVIOUS
<1>6. /\ f \in File /\ f.kind = "env" /\ f.env = Updated(b, t)
      /\ (Has(f, "attributes") <=> Has(b, "attributes"))
      /\ Atoms(f, "attributes") = Atoms(b, "attributes")
  <2>1. f \in File /\ f.kind = "env" /\ AlikeBut(b, f, Owned)
    BY <1>5, UpdatedHas
  <2>2. f.env = Updated(b, t)
    BY <1>5 DEF WithEnv
  <2> QED  BY <2>1, <2>2, KeyNames DEF AlikeBut
<1>7. g.env = Labelled(f, p)
  BY <1>5 DEF WithEnv
<1>8. b.env \in Env
  BY FileForm
<1> SUFFICES ASSUME NEW fresh, fresh = Fresh(b)
             PROVE  Without(g, Owned, fresh) = WithEnv(Labelled(b, p))
  BY <1>5 DEF Full
<1>9. CASE Fresh(b)
  <2>1. ~Has(b, "attributes") /\ b.kind # "env"
    BY <1>9, FileForm DEF Fresh
  <2>2. g.env = AppendMembers(Written(e), a)
    BY <1>1, <1>6, <1>7, <1>9, <2>1 DEF Labelled, Updated
  <2>3. Labelled(b, p) = Written(a)
    BY <1>1, <2>1 DEF Labelled
  <2>4. RemoveMembers(g.env, Owned) = Written(a)
    BY <1>2, <1>3, <2>2, WrittenRemovedBefore
  <2>5. Written(a).members # <<>>
    <3>1. Size(Written(a)) = 1
      BY <1>3, WrittenText
    <3>2. PICK m : m = Written(a).members
      OBVIOUS
    <3>3. Len(m) = 1
      BY <3>1, <3>2 DEF Size
    <3>4. ASSUME m = <<>> PROVE Len(m) = 0
      BY <3>4
    <3>5. m # <<>>
      BY <3>3, <3>4
    <3> QED  BY <3>2, <3>5
  <2> QED  BY <2>3, <2>4, <2>5 DEF Without
<1>10. CASE ~Fresh(b)
  <2>1. b.kind = "env" /\ Tidy(b.env) /\ Keys(b.env) \cap Owned = {}
    BY <1>10, AcceptedIsTidy
  <2>2. f.env = AppendMembers(b.env, e)
    BY <1>1, <1>6, <1>10 DEF Updated
  <2>3. RemoveMembers(g.env, Owned) = Labelled(b, p)
    <3>1. CASE ~Has(b, "attributes")
      <4>1. g.env = AppendMembers(AppendMembers(b.env, e), a)
        BY <1>1, <1>6, <1>7, <2>2, <3>1 DEF Labelled
      <4>2. Labelled(b, p) = AppendMembers(b.env, a)
        BY <1>1, <2>1, <3>1 DEF Labelled
      <4> QED  BY <1>2, <1>3, <1>4, <1>8, <2>1, <4>1, <4>2, RemovedBefore
    <3>2. CASE Has(b, "attributes")
      <4>1. PICK v, r : /\ v = (Atoms(b, "attributes") \ {"untidy"}) \cup {p}
                        /\ r = ReplaceMemberValue(b.env, "attributes", v)
        OBVIOUS
      <4>2. v \in SUBSET Atom /\ "attributes" \in Keys(b.env) /\ "attributes" \notin Owned
        BY <3>2, <4>1, FileForm DEF Atom, Has, Owned
      <4>3. g.env = ReplaceMemberValue(AppendMembers(b.env, e), "attributes", v)
        BY <1>6, <1>7, <2>2, <3>2, <4>1 DEF Labelled
      <4>4. Labelled(b, p) = r
        BY <3>2, <4>1 DEF Labelled
      <4>5. g.env = AppendMembers(r, e)
        BY <1>2, <1>8, <4>1, <4>2, <4>3, ReplaceOfAppend
      <4>6. r \in Env /\ Keys(r) \cap Owned = {} /\ Tidy(r)
        BY <1>8, <2>1, <4>1, <4>2, ReplaceChanges, TidyStays
      <4> QED  BY <1>2, <1>4, <4>4, <4>5, <4>6, AppendedThenRemoved
    <3> QED  BY <3>1, <3>2
  <2> QED  BY <1>10, <2>3 DEF Without
<1> QED  BY <1>9, <1>10

(* And the label taken off leaves what setup found, or what it is.         *)
LEMMA LabelTakenOff ==
    ASSUME NEW b \in File, NEW p \in Profile, NEW t \in Token, Accepted(b, p, t), NEW f \in Taken(b, p)
    PROVE  IF HasLabel(f, p) THEN Unlabelled(f, p, ~Has(b, "attributes")) \in Undone(b, p)
           ELSE f \in Undone(b, p)
<1>1. b.env \in Env /\ Atoms(b, "attributes") \in SUBSET Atom
  BY FileForm
<1>2. PICK pairs : pairs = Atoms(b, "attributes") \ {"untidy", p}
  OBVIOUS
<1>3. CASE f = WithEnv(Left(b, p))
  <2>1. ~HasLabel(f, p)
    BY <1>3, LeftHas DEF HasLabel
  <2> QED  BY <1>3, <2>1 DEF Undone
<1>4. CASE f = b
  <2>1. CASE ~HasLabel(f, p)
    BY <1>4, <2>1 DEF Undone
  <2>2. CASE HasLabel(f, p)
    <3>1. Has(b, "attributes") /\ ~Fresh(b)
      BY <1>4, <2>2, FileForm DEF HasLabel, Fresh
    <3>2. Unlabelled(f, p, ~Has(b, "attributes")) = WithEnv(Left(b, p))
      BY <1>4, <3>1 DEF Unlabelled, Left
    <3> QED  BY <2>2, <3>2 DEF Undone
  <2> QED  BY <2>1, <2>2
<1>5. CASE f = WithEnv(Labelled(b, p))
  <2>1. f \in File /\ f.kind = "env" /\ Atoms(f, "attributes") = (Atoms(b, "attributes") \ {"untidy"}) \cup {p}
    BY <1>5, LabelledHas
  <2>2. HasLabel(f, p)
    BY <2>1, InstallNames DEF HasLabel, ProfileConflict, Accepted, Conflicting
  <2>3. Atoms(f, "attributes") \ {"untidy", p} = pairs /\ f.env = Labelled(b, p)
    BY <1>2, <1>5, <2>1 DEF WithEnv
  <2>4. CASE Has(b, "attributes")
    <3>1. PICK v : v = (Atoms(b, "attributes") \ {"untidy"}) \cup {p}
      OBVIOUS
    <3>2. v \in SUBSET Atom /\ pairs \in SUBSET Atom /\ "attributes" \in Keys(b.env) /\ ~Fresh(b)
      BY <1>1, <1>2, <2>4, <3>1, FileForm DEF Atom, Has, Fresh
    <3>3. f.env = ReplaceMemberValue(b.env, "attributes", v)
      BY <2>3, <2>4, <3>1 DEF Labelled
    <3>4. Left(b, p) = ReplaceMemberValue(b.env, "attributes", pairs)
      BY <1>2, <2>4, <3>2 DEF Left
    <3>5. ReplaceMemberValue(f.env, "attributes", pairs) = Left(b, p)
      BY <1>1, <3>2, <3>3, <3>4, ReplaceTwice
    <3>6. Unlabelled(f, p, ~Has(b, "attributes")) = WithEnv(Left(b, p))
      BY <2>3, <2>4, <3>5 DEF Unlabelled
    <3> QED  BY <2>2, <3>6 DEF Undone
  <2>5. CASE ~Has(b, "attributes")
    <3>1. pairs = {}
      BY <1>2, <2>5, FileForm
    <3>2. PICK a : a = <<[key |-> "attributes", value |-> {p}]>>
      OBVIOUS
    <3>3. /\ a \in Seq(Entry) /\ Distinct(a) /\ Len(a) = 1 /\ a[1].key = "attributes"
          /\ \A i \in 1 .. Len(a) : a[i].key = "attributes"
      BY <3>2, LabelEntry
    <3>4. RemoveMembers(f.env, {"attributes"}) = Left(b, p)
      <4>1. CASE Fresh(b)
        <5>1. f.env = Written(a) /\ Left(b, p) = Emptied
          BY <2>3, <2>5, <3>2, <4>1 DEF Labelled, Fresh, Left, Emptied
        <5> QED  BY <3>3, <5>1, WrittenRemoved
      <4>2. CASE ~Fresh(b)
        <5>1. b.kind = "env" /\ Tidy(b.env)
          BY <4>2, AcceptedIsTidy
        <5>2. f.env = AppendMembers(b.env, a) /\ Left(b, p) = b.env
          BY <2>3, <2>5, <3>2, <4>2, <5>1 DEF Labelled, Left
        <5>3. PICK K : K = {"attributes"}
          OBVIOUS
        <5>4. Keys(b.env) \cap K = {} /\ \A i \in 1 .. Len(a) : a[i].key \in K
          BY <2>5, <3>3, <5>3 DEF Has
        <5>5. a \in Seq(Entry) /\ Distinct(a) /\ Len(a) # 0
          BY <3>3
        <5>6. RemoveMembers(AppendMembers(b.env, a), K) = b.env
          BY <1>1, <5>1, <5>4, <5>5, AppendedThenRemoved
        <5> QED  BY <5>2, <5>3, <5>6
      <4> QED  BY <4>1, <4>2
    <3>5. Unlabelled(f, p, ~Has(b, "attributes")) = WithEnv(Left(b, p))
      BY <2>3, <2>5, <3>1, <3>4 DEF Unlabelled
    <3> QED  BY <2>2, <3>5 DEF Undone
  <2> QED  BY <2>4, <2>5
<1> QED  BY <1>3, <1>4, <1>5 DEF Taken, Undone

-----------------------------------------------------------------------------
(* Where settings nobody else wrote are between what setup found and what  *)
(* uninstall leaves of it, and what the record says of them.               *)
Made(b, p, rec) ==
    /\ rec.kind = "record" /\ rec.token \in Token /\ Accepted(b, p, rec.token)
    /\ rec.createdEnv = Fresh(b) /\ rec.backup \in {NULL, b}
Recorded(b, p, rec) == Made(b, p, rec) /\ rec.createdKey = ~Has(b, "attributes")
RestoreOk(p, b, f, s, r) ==
    /\ r.pc = "label" => Made(b, p, r.rec) /\ f = WithEnv(Updated(b, r.rec.token))
    /\ r.pc = "record" => Recorded(b, p, r.rec) /\ f = Full(b, p, r.rec.token)
    /\ ~Between(r) /\ s.kind = "record" =>
          /\ Recorded(b, p, s) /\ f \in Taken(b, p) \cup {Full(b, p, s.token)}
          /\ r.pc = "asking" => r.rec = s
          /\ r.pc = "unlabel" => r.rec = s /\ f \in Taken(b, p)
          /\ r.pc \in {"notify", "forget"} => f \in Undone(b, p)
RestoreInv(p) ==
    ~edited[p] /\ ~torn[p] => RestoreOk(p, before[p], file[p], state[p], run[p])

(* A step of p changes nothing of another profile.                         *)
LEMMA ElsewhereRestore == ASSUME NEW q, Still(q), RestoreInv(q) PROVE RestoreInv(q)'
BY DEF Still, RestoreInv

(* Nor does a command, until it writes and but for what it says it is at.  *)
LEMMA CommandRestore ==
    ASSUME TypeOK, NEW p \in Profile, RestoreInv(p), NEW r,
           run' = [run EXCEPT ![p] = r], ~Between(run[p]), ~Between(r),
           r.pc = "asking" => r.rec = state[p], r.pc # "unlabel",
           r.pc \in {"notify", "forget"} => run[p].pc \in {"notify", "forget"},
           UNCHANGED <<file, state, edited, torn, before>>
    PROVE  RestoreInv(p)'
<1>1. run'[p] = r
  BY DEF TypeOK
<1> SUFFICES ASSUME ~edited[p], ~torn[p]
             PROVE  RestoreOk(p, before[p], file[p], state[p], r)
  BY <1>1 DEF RestoreInv
<1>2. RestoreOk(p, before[p], file[p], state[p], run[p])
  BY DEF RestoreInv
<1>3. r.pc # "label" /\ r.pc # "record"
  BY DEF Between
<1>4. ASSUME state[p].kind = "record"
      PROVE  /\ Recorded(before[p], p, state[p])
             /\ file[p] \in Taken(before[p], p) \cup {Full(before[p], p, state[p].token)}
             /\ r.pc \in {"notify", "forget"} => file[p] \in Undone(before[p], p)
  BY <1>2, <1>4 DEF RestoreOk
<1> QED  BY <1>3, <1>4 DEF RestoreOk

LEMMA SetupRestore ==
    ASSUME TokensInv, NEW p \in Profile, RestoreInv(p), Setup(p) PROVE RestoreInv(p)'
<1>0. TypeOK /\ TokenInv(p) /\ file[p] \in File /\ run[p] \in Command /\ before[p] \in File
  BY DEF TokensInv, TypeOK
<1>1. ASSUME NEW t \in Code, BeginSetup(p, t) PROVE RestoreInv(p)'
  <2>1. PICK r : r = [Idle EXCEPT !.pc = "joining", !.token = t, !.invited = TRUE]
    OBVIOUS
  <2>2. /\ run[p].pc = "idle" /\ r.pc = "joining" /\ run' = [run EXCEPT ![p] = r]
        /\ UNCHANGED <<file, state, edited, torn, before>>
    BY <1>1, <2>1 DEF BeginSetup, Running, Idle
  <2> QED  BY <1>0, <2>2, CommandRestore DEF Between
<1>2. ASSUME NEW t \in Token, NEW q \in Profile, BeginSibling(p, q, t) PROVE RestoreInv(p)'
  <2>1. PICK r : r = [Idle EXCEPT !.pc = "writing", !.token = t]
    OBVIOUS
  <2>2. /\ run[p].pc = "idle" /\ r.pc = "writing" /\ run' = [run EXCEPT ![p] = r]
        /\ UNCHANGED <<file, state, edited, torn, before>>
    BY <1>2, <2>1 DEF BeginSibling, Running, Idle
  <2> QED  BY <1>0, <2>2, CommandRestore DEF Between
<1>3. CASE Join(p)
  <2>1. PICK r : r = [run[p] EXCEPT !.pc = "writing"]
    OBVIOUS
  <2>2. r.pc = "writing" /\ run' = [run EXCEPT ![p] = r]
    BY <1>0, <1>3, <2>1 DEF Join, Step, Command, TypeOK
  <2> QED  BY <1>0, <1>3, <2>2, CommandRestore DEF Join, Between
<1>4. CASE JoinRefused(p) \/ JoinReplyLost(p) \/ WriteRefused(p)
  BY <1>0, <1>4, CommandRestore DEF JoinRefused, JoinReplyLost, WriteRefused, End, Between, Idle
<1>5. CASE WriteEntries(p)
  <2>1. PICK b, t, rec : /\ b = file[p] /\ t = run[p].token
                         /\ rec = [NoRecord EXCEPT !.kind = "record", !.token = t,
                                     !.createdEnv = Fresh(b),
                                     !.backup = IF b.kind \in {"absent", "blank"} THEN NULL ELSE b]
    OBVIOUS
  <2>2. t \in Token
    BY <1>0, <1>5, <2>1, TokenNames DEF WriteEntries, TokenInv, CommandOk, TypeOK
  <2>3. Accepted(b, p, t)
    BY <1>5, <2>1 DEF WriteEntries, Writable, Clear, Accepted
  <2>4. /\ rec.kind = "record" /\ rec.token = t /\ rec.createdEnv = Fresh(b)
        /\ rec.backup \in {NULL, b}
    BY <2>1 DEF NoRecord
  <2>5. /\ file'[p] = WithEnv(Updated(b, t)) /\ before'[p] = b
    BY <1>0, <1>5, <2>1 DEF WriteEntries, TypeOK
  <2>6. run'[p].pc = "label" /\ run'[p].rec = rec
    BY <1>0, <1>5, <2>1 DEF WriteEntries, TypeOK, Command
  <2> QED  BY <2>2, <2>3, <2>4, <2>5, <2>6 DEF RestoreInv, RestoreOk, Made, Between
<1>6. CASE WriteAttribute(p)
  <2>1. PICK b, f, t : b = before[p] /\ f = file[p] /\ t = run[p].rec.token
    OBVIOUS
  <2>2. /\ run[p].pc = "label" /\ run'[p].pc = "record" /\ file'[p] = WithEnv(Labelled(f, p))
        /\ UNCHANGED <<edited, torn, before>>
    BY <1>0, <1>6, <2>1 DEF WriteAttribute, TypeOK, Command
  <2>3. run'[p].rec = [run[p].rec EXCEPT !.createdKey = ~Has(f, "attributes")]
    BY <1>0, <1>6, <2>1 DEF WriteAttribute, TypeOK, Command
  <2>4. PICK rec, new : rec = run[p].rec /\ new = run'[p].rec
    OBVIOUS
  <2>5. /\ new.kind = rec.kind /\ new.token = rec.token /\ new.createdEnv = rec.createdEnv
        /\ new.backup = rec.backup /\ new.createdKey = ~Has(f, "attributes")
    <3>1. rec \in Record
      BY <1>0, <2>4 DEF Command
    <3>2. new = [rec EXCEPT !.createdKey = ~Has(f, "attributes")]
      BY <2>3, <2>4
    <3> QED  BY <3>1, <3>2 DEF Record
  <2> SUFFICES ASSUME ~edited[p], ~torn[p]
               PROVE  RestoreOk(p, b, file'[p], state'[p], run'[p])
    BY <2>1, <2>2 DEF RestoreInv
  <2>6. Made(b, p, rec) /\ f = WithEnv(Updated(b, t))
    BY <2>1, <2>2, <2>4 DEF RestoreInv, RestoreOk
  <2>7. Has(f, "attributes") <=> Has(b, "attributes")
    <3>1. AlikeBut(b, f, Owned)
      BY <1>0, <2>1, <2>4, <2>6, UpdatedHas DEF Made
    <3> QED  BY <3>1, KeyNames DEF AlikeBut
  <2>8. Recorded(b, p, new)
    BY <2>5, <2>6, <2>7 DEF Recorded, Made
  <2>9. file'[p] = Full(b, p, new.token)
    BY <2>1, <2>2, <2>4, <2>5, <2>6 DEF Full
  <2> QED  BY <2>2, <2>4, <2>8, <2>9 DEF RestoreOk, Between
<1>7. CASE AttributeRefused(p)
  BY <1>0, <1>7 DEF AttributeRefused, RestoreInv, TypeOK
<1>8. CASE WriteState(p)
  <2>1. /\ run[p].pc = "record" /\ run'[p] = Idle /\ state'[p] = run[p].rec
        /\ UNCHANGED <<file, edited, torn, before>>
    BY <1>0, <1>8 DEF WriteState, End, TypeOK
  <2> QED  BY <2>1 DEF RestoreInv, RestoreOk, Between, Idle
<1> QED  BY <1>1, <1>2, <1>3, <1>4, <1>5, <1>6, <1>7, <1>8 DEF Setup

(* What is removed is all that setup wrote, or nothing.                    *)
LEMMA RemoveKeysRestore ==
    ASSUME TokensInv, NEW p \in Profile, RestoreInv(p), RemoveKeys(p) PROVE RestoreInv(p)'
<1>0. TypeOK /\ TokenInv(p) /\ file[p] \in File /\ run[p] \in Command /\ before[p] \in File
  BY DEF TokensInv, TypeOK
<1>1. PICK b, c, s, keys, g : /\ b = before[p] /\ c = run[p] /\ s = state[p]
                              /\ keys = Removable(c.rec, c.seen) /\ g = file'[p]
  OBVIOUS
<1>2. /\ c.pc = "asking" /\ UNCHANGED <<state, edited, torn, before>>
      /\ g = IF keys = {} THEN file[p] ELSE Without(c.seen, keys, c.rec.createdEnv)
  BY <1>0, <1>1 DEF RemoveKeys, TypeOK
<1>3. /\ run'[p].pc = IF c.rec.kind = "record" THEN "unlabel" ELSE "notify"
      /\ run'[p].rec = c.rec
  BY <1>0, <1>1 DEF RemoveKeys, Step, TypeOK, Command
<1> SUFFICES ASSUME ~edited[p], ~torn[p], s.kind = "record"
             PROVE  RestoreOk(p, b, g, s, run'[p])
  BY <1>1, <1>2, <1>3 DEF RestoreInv, RestoreOk, Between
<1>4. /\ Recorded(b, p, s) /\ file[p] \in Taken(b, p) \cup {Full(b, p, s.token)} /\ c.rec = s
  BY <1>1, <1>2 DEF RestoreInv, RestoreOk, Between
<1>5. c.seen = file[p]
  BY <1>0, <1>1, <1>2 DEF TokenInv, Following
<1>6. g \in Taken(b, p)
  <2>1. b \in File /\ s.token \in Token /\ Accepted(b, p, s.token) /\ s.createdEnv = Fresh(b)
    BY <1>0, <1>1, <1>4 DEF Recorded, Made
  <2>2. CASE file[p] \in Taken(b, p)
    <3>1. keys = {}
      BY <1>1, <1>4, <1>5, <2>1, <2>2, NothingRemovable
    <3> QED  BY <1>2, <2>2, <3>1
  <2>3. CASE file[p] = Full(b, p, s.token)
    <3>1. keys = Owned /\ keys # {}
      BY <1>1, <1>4, <1>5, <2>1, <2>3, FullHas DEF Owned
    <3>2. g = Without(Full(b, p, s.token), Owned, Fresh(b))
      BY <1>2, <1>4, <1>5, <2>1, <2>3, <3>1
    <3>3. g = WithEnv(Labelled(b, p))
      BY <2>1, <3>2, KeysTakenOut
    <3> QED  BY <3>3 DEF Taken
  <2> QED  BY <1>4, <2>2, <2>3
<1> QED  BY <1>3, <1>4, <1>6 DEF RestoreOk, Between

LEMMA UninstallRestore ==
    ASSUME TokensInv, NEW p \in Profile, RestoreInv(p), Uninstall(p) PROVE RestoreInv(p)'
<1>0. TypeOK /\ TokenInv(p) /\ file[p] \in File /\ run[p] \in Command /\ before[p] \in File
  BY DEF TokensInv, TypeOK
<1>1. CASE BeginUninstall(p)
  <2>1. PICK r : run' = [run EXCEPT ![p] = r] /\ r.pc = "asking" /\ r.rec = state[p]
    <3>1. PICK t : run' = [run EXCEPT ![p] = [Idle EXCEPT !.pc = "asking", !.token = t,
                                              !.rec = state[p], !.seen = file[p]]]
      BY <1>1 DEF BeginUninstall
    <3>2. PICK r : r = [Idle EXCEPT !.pc = "asking", !.token = t, !.rec = state[p], !.seen = file[p]]
      OBVIOUS
    <3>3. r.pc = "asking" /\ r.rec = state[p]
      BY <3>2 DEF Idle
    <3> QED  BY <3>1, <3>2, <3>3
  <2> QED  BY <1>0, <1>1, <2>1, CommandRestore DEF BeginUninstall, Running, Between
<1>2. CASE Restore(p)
  <2>1. /\ run[p].pc = "asking" /\ run[p].rec.backup # NULL
        /\ file'[p] = run[p].rec.backup /\ run'[p].pc = "notify"
        /\ UNCHANGED <<state, edited, torn, before>>
    BY <1>0, <1>2 DEF Restore, Step, TypeOK, Command
  <2> SUFFICES ASSUME ~edited[p], ~torn[p], state[p].kind = "record"
               PROVE  RestoreOk(p, before[p], file'[p], state[p], run'[p])
    BY <2>1 DEF RestoreInv, RestoreOk, Between
  <2>2. Recorded(before[p], p, state[p]) /\ run[p].rec = state[p]
    BY <2>1 DEF RestoreInv, RestoreOk, Between
  <2>3. file'[p] = before[p]
    BY <2>1, <2>2 DEF Recorded, Made
  <2> QED  BY <2>1, <2>2, <2>3 DEF RestoreOk, Between, Taken, Undone
<1>3. CASE RemoveAttribute(p)
  <2>1. PICK b, f, s : b = before[p] /\ f = file[p] /\ s = state[p]
    OBVIOUS
  <2>2. /\ run[p].pc = "unlabel" /\ run'[p].pc = "notify" /\ UNCHANGED <<state, edited, torn, before>>
    BY <1>0, <1>3 DEF RemoveAttribute, Step, TypeOK, Command
  <2>3. file'[p] = IF HasLabel(f, p) THEN Unlabelled(f, p, run[p].rec.createdKey) ELSE f
    BY <1>0, <1>3, <2>1 DEF RemoveAttribute, TypeOK
  <2> SUFFICES ASSUME ~edited[p], ~torn[p], s.kind = "record"
               PROVE  RestoreOk(p, b, file'[p], s, run'[p])
    BY <2>1, <2>2 DEF RestoreInv, RestoreOk, Between
  <2>4. Recorded(b, p, s) /\ run[p].rec = s /\ f \in Taken(b, p)
    BY <2>1, <2>2 DEF RestoreInv, RestoreOk, Between
  <2>5. file'[p] \in Undone(b, p)
    <3>1. b \in File /\ s.token \in Token /\ Accepted(b, p, s.token)
      BY <1>0, <2>1, <2>4 DEF Recorded, Made
    <3>2. s.createdKey = ~Has(b, "attributes")
      BY <2>4 DEF Recorded
    <3>3. IF HasLabel(f, p) THEN Unlabelled(f, p, ~Has(b, "attributes")) \in Undone(b, p)
          ELSE f \in Undone(b, p)
      BY <2>4, <3>1, LabelTakenOff
    <3> QED  BY <2>3, <2>4, <3>2, <3>3
  <2> QED  BY <2>2, <2>4, <2>5 DEF RestoreOk, Between, Taken
<1>4. CASE Notify(p) \/ NothingToNotify(p)
  <2>1. PICK r : r = [run[p] EXCEPT !.pc = "forget"]
    OBVIOUS
  <2>2. r.pc = "forget" /\ run' = [run EXCEPT ![p] = r]
    BY <1>0, <1>4, <2>1 DEF Notify, NothingToNotify, Step, Command, TypeOK
  <2> QED  BY <1>0, <1>4, <2>2, CommandRestore DEF Notify, NothingToNotify, Between
<1>5. CASE Forget(p)
  <2>1. run'[p] = Idle /\ state'[p] = NoRecord
    BY <1>0, <1>5 DEF Forget, End, TypeOK
  <2> QED  BY <2>1 DEF RestoreInv, RestoreOk, Between, Idle, NoRecord
<1> QED  BY <1>1, <1>2, <1>3, <1>4, <1>5, RemoveKeysRestore DEF Uninstall

LEMMA MishapRestore ==
    ASSUME TokensInv, NEW p \in Profile, RestoreInv(p), Cancel(p) \/ Crash(p) \/ Edit(p) \/ LoseRecord(p)
    PROVE  RestoreInv(p)'
<1>0. TypeOK
  BY DEF TokensInv
<1>1. CASE Cancel(p)
  <2>1. /\ run[p].pc \in {"joining", "asking"} /\ Idle.pc = "idle"
        /\ run' = [run EXCEPT ![p] = Idle] /\ UNCHANGED <<file, state, edited, torn, before>>
    BY <1>1 DEF Cancel, End, Idle
  <2> QED  BY <1>0, <2>1, CommandRestore DEF Between
<1>2. CASE Crash(p)
  <2>1. /\ run'[p] = Idle /\ UNCHANGED <<file, edited, before>>
        /\ torn'[p] = (torn[p] \/ run[p].pc \in {"label", "record"})
    BY <1>0, <1>2 DEF Crash, End, TypeOK
  <2>2. state'[p] = state[p] \/ state'[p].kind = "broken"
    BY <1>0, <1>2 DEF Crash, TypeOK, NoRecord
  <2>3. CASE run[p].pc \in {"label", "record"}
    BY <2>1, <2>3 DEF RestoreInv
  <2>4. CASE run[p].pc \notin {"label", "record"}
    <3>1. ~torn'[p] => ~torn[p]
      BY <1>0, <2>1, <2>4 DEF TypeOK
    <3>2. Idle.pc = "idle"
      BY DEF Idle
    <3> SUFFICES ASSUME ~edited[p], ~torn[p]
                 PROVE  RestoreOk(p, before[p], file[p], state'[p], Idle)
      BY <2>1, <3>1 DEF RestoreInv
    <3>3. state[p].kind = "record" =>
              /\ Recorded(before[p], p, state[p])
              /\ file[p] \in Taken(before[p], p) \cup {Full(before[p], p, state[p].token)}
      BY <2>4 DEF RestoreInv, RestoreOk, Between
    <3> QED  BY <2>2, <3>2, <3>3 DEF RestoreOk
  <2> QED  BY <2>3, <2>4
<1>3. CASE Edit(p)
  BY <1>0, <1>3 DEF Edit, TypeOK, RestoreInv
<1>4. CASE LoseRecord(p)
  <2>1. state'[p] = NoRecord /\ UNCHANGED <<file, run, edited, torn, before>>
    BY <1>0, <1>4 DEF LoseRecord, TypeOK
  <2> QED  BY <2>1 DEF RestoreInv, RestoreOk, NoRecord
<1> QED  BY <1>1, <1>2, <1>3, <1>4

LEMMA RestoreStep ==
    TokensInv /\ (\A p \in Profile : RestoreInv(p)) /\ [Next]_vars => \A p \in Profile : RestoreInv(p)'
<1> SUFFICES ASSUME TokensInv, \A p \in Profile : RestoreInv(p), [Next]_vars
             PROVE  \A p \in Profile : RestoreInv(p)'
  OBVIOUS
<1>1. ASSUME NEW p \in Profile,
             Setup(p) \/ Uninstall(p) \/ Cancel(p) \/ Crash(p) \/ Edit(p) \/ LoseRecord(p)
      PROVE  \A q \in Profile : RestoreInv(q)'
  <2>1. RestoreInv(p)'
    BY <1>1, SetupRestore, UninstallRestore, MishapRestore
  <2>2. \A q \in Profile \ {p} : RestoreInv(q)'
    BY <1>1, Elsewhere, ElsewhereRestore DEF TokensInv
  <2> QED  BY <2>1, <2>2
<1>2. CASE UNCHANGED vars
  BY <1>2 DEF vars, RestoreInv
<1> QED  BY <1>1, <1>2 DEF Next

(* An uninstall that gets through with settings nobody else wrote leaves   *)
(* the text setup found, or that without the profile's label.              *)
THEOREM UninstallsRestore == Spec => UninstallRestores
<1> DEFINE Inv == TokensInv /\ \A p \in Profile : RestoreInv(p)
           Through == \A p \in Profile :
               (/\ run[p].pc = "forget" /\ ~(run'[p].pc = "forget") /\ state'[p].kind = "none"
                /\ state[p].kind = "record" /\ ~edited[p] /\ ~torn[p])
               => file[p] \in {before[p], WithEnv(Left(before[p], p))}
<1>1. Init => Inv
  BY TokensInit DEF Init, RestoreInv
<1>2. Inv /\ [Next]_vars => Inv'
  BY TokensStep, RestoreStep
<1>3. Inv => Through
  BY DEF RestoreInv, RestoreOk, Between, Undone
<1>4. Inv /\ [Next]_vars => [Through]_vars
  BY <1>3
<1> HIDE DEF Inv, Through
<1>5. Spec => [][Through]_vars
  BY <1>1, <1>2, <1>4, PTL DEF Spec
<1> QED  BY <1>5 DEF Through, UninstallRestores
=============================================================================
