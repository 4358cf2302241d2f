----------------------------- MODULE SessionProofs -----------------------------
(***************************************************************************)
(* Theorems about RegionSetup and Sessions, for any number of contexts,    *)
(* regions, parameters, NAAs and calls, and whichever steps fail.          *)
(***************************************************************************)
EXTENDS Sessions, FiniteSetTheorems, WellFoundedInduction, TLAPS

-------------------------------------------------------------------------------
(***************************************************************************)
(* Induction, as a statement about sets of numbers.                        *)
(***************************************************************************)
Less == {p \in Nat \X Nat : p[1] < p[2]}

\* The numbers have no infinite descent.
LEMMA LessWellFounded == IsWellFoundedOn(Less, Nat)
  BY NatLessThanWellFounded DEF Less, OpToRel

\* What holds of 0, and of n + 1 when of n, holds of all.
LEMMA Induction ==
  ASSUME NEW S, 0 \in S, \A n \in Nat : n \in S => n + 1 \in S
  PROVE  \A n \in Nat : n \in S
<1> SUFFICES ASSUME Nat \ S # {} PROVE FALSE
  OBVIOUS
<1>1. PICK m \in Nat \ S : \A k \in Nat \ S : ~(<<k, m>> \in Less)
  <2>1. Nat \ S \subseteq Nat
    OBVIOUS
  <2> QED BY <2>1, LessWellFounded, WFMin
<1>2. m \in Nat /\ m # 0
  OBVIOUS
<1>3. m - 1 \in Nat /\ <<m - 1, m>> \in Less
  BY <1>2 DEF Less
<1>4. m - 1 \in S
  BY <1>1, <1>3
<1>5. (m - 1) + 1 \in S
  BY <1>3, <1>4
<1> QED BY <1>2, <1>5

-------------------------------------------------------------------------------
(***************************************************************************)
(* InOrder and AtPlaces.                                                   *)
(***************************************************************************)
Increasing(s) == \A i, j \in DOMAIN s : i < j => s[i] < s[j]

\* A set of numbers up to n is finite.
LEMMA Finite ==
  ASSUME NEW n \in Nat, NEW S \in SUBSET (1..n)
  PROVE  IsFiniteSet(S) /\ Cardinality(S) \in Nat
<1>1. IsFiniteSet(1..n)
  BY FS_Interval
<1>2. IsFiniteSet(S)
  BY <1>1, FS_Subset
<1> QED BY <1>2, FS_CardinalityType

(* A set of numbers up to n can be put in order.                           *)
LEMMA OrderExists ==
  \A n \in Nat : \A S \in SUBSET (1..n) :
    \E s \in [1..Cardinality(S) -> S] : Increasing(s)
<1> DEFINE CanBe(S) == \E s \in [1..Cardinality(S) -> S] : Increasing(s)
           G == {n \in Nat : \A S \in SUBSET (1..n) : CanBe(S)}
<1>1. 0 \in G
  <2> SUFFICES ASSUME NEW S \in SUBSET (1..0) PROVE CanBe(S)
    OBVIOUS
  <2>1. S = {} /\ Cardinality(S) = 0
    <3>1. S = {}
      OBVIOUS
    <3> QED BY <3>1, FS_EmptySet
  <2>2. [i \in 1..0 |-> i] \in [1..Cardinality(S) -> S]
    BY <2>1
  <2>3. Increasing([i \in 1..0 |-> i])
    BY DEF Increasing
  <2> QED BY <2>2, <2>3
<1>2. \A n \in Nat : n \in G => n + 1 \in G
  <2> SUFFICES ASSUME NEW n \in Nat, \A S \in SUBSET (1..n) : CanBe(S)
               PROVE  \A S \in SUBSET (1..(n + 1)) : CanBe(S)
    <3> HIDE DEF CanBe
    <3> QED OBVIOUS
  <2> SUFFICES ASSUME NEW S \in SUBSET (1..(n + 1)) PROVE CanBe(S)
    OBVIOUS
  <2>1. CASE n + 1 \notin S
    <3>1. S \in SUBSET (1..n)
      BY <2>1
    <3> QED BY <3>1
  <2>2. CASE n + 1 \in S
    <3> DEFINE T == S \ {n + 1}
               c == Cardinality(S)
    <3>1. T \in SUBSET (1..n)
      OBVIOUS
    <3>2. IsFiniteSet(S) /\ c \in Nat
      <4>1. n + 1 \in Nat
        OBVIOUS
      <4> QED BY <4>1, Finite
    <3>3. Cardinality(T) = c - 1 /\ Cardinality(T) \in Nat
      BY <2>2, <3>2, FS_RemoveElement, FS_CardinalityType
    <3>4. PICK t \in [1..(c - 1) -> T] : Increasing(t)
      BY <3>1, <3>3
    <3> DEFINE s == [i \in 1..c |-> IF i = c THEN n + 1 ELSE t[i]]
    <3>5. ASSUME NEW i \in 1..c, i # c PROVE t[i] \in T /\ t[i] < n + 1
      <4>1. i \in 1..(c - 1)
        BY <3>2, <3>5
      <4>2. t[i] \in T
        BY <3>4, <4>1
      <4>3. \A x \in T : x < n + 1
        BY <3>1
      <4> QED BY <4>2, <4>3
    <3>6. s \in [1..c -> S]
      BY <2>2, <3>5
    <3>7. ASSUME NEW i \in 1..c, NEW j \in 1..c, i < j PROVE s[i] < s[j]
      <4>1. i # c /\ i \in 1..(c - 1)
        BY <3>2, <3>7
      <4>2. CASE j = c
        BY <3>5, <4>1, <4>2
      <4>3. CASE j # c
        <5>1. j \in 1..(c - 1)
          BY <3>2, <4>3
        <5> QED BY <3>4, <3>7, <4>1, <4>3, <5>1 DEF Increasing
      <4> QED BY <4>2, <4>3
    <3>8. Increasing(s)
      BY <3>7 DEF Increasing
    <3> QED BY <3>6, <3>8
  <2> QED BY <2>1, <2>2
<1> HIDE DEF CanBe
<1>3. \A n \in Nat : n \in G
  <2> HIDE DEF G
  <2> QED BY <1>1, <1>2, Induction
<1> QED BY <1>3 DEF CanBe

(* InOrder is such an order, of all of them.                               *)
LEMMA InOrderIs ==
  ASSUME NEW n \in Nat, NEW S \in SUBSET (1..n)
  PROVE  /\ IsFiniteSet(S) /\ Cardinality(S) \in Nat
         /\ InOrder(S) \in [1..Cardinality(S) -> S]
         /\ Increasing(InOrder(S))
         /\ \A x \in S : \E i \in 1..Cardinality(S) : InOrder(S)[i] = x
<1> DEFINE c == Cardinality(S)
           s == InOrder(S)
<1>1. IsFiniteSet(S) /\ c \in Nat
  BY Finite
<1>2. s \in [1..c -> S] /\ Increasing(s)
  <2>1. \E t \in [1..c -> S] : Increasing(t)
    BY OrderExists
  <2> QED BY <2>1 DEF InOrder, Increasing
<1>3. IsInjective(s)
  <2> SUFFICES ASSUME NEW i \in 1..c, NEW j \in 1..c, s[i] = s[j] PROVE i = j
    BY <1>2 DEF IsInjective
  <2>1. s[i] \in Nat /\ s[j] \in Nat
    <3>1. s[i] \in S /\ s[j] \in S
      BY <1>2
    <3>2. \A x \in S : x \in Nat
      OBVIOUS
    <3> QED BY <3>1, <3>2
  <2>2. ~(i < j) /\ ~(j < i)
    BY <1>2, <2>1 DEF Increasing
  <2> QED BY <1>1, <2>2
<1>4. s \in Surjection(1..c, S)
  <2>1. s \in Injection(1..c, S)
    BY <1>2, <1>3 DEF Injection
  <2>2. IsFiniteSet(1..c) /\ Cardinality(1..c) = c
    BY <1>1, FS_Interval
  <2> QED BY <1>1, <2>1, <2>2, FS_Injection
<1> QED BY <1>1, <1>2, <1>4 DEF Surjection

(* There is one way to order an interval.                                  *)
LEMMA OrderOfInterval ==
  ASSUME NEW a \in Nat, NEW c \in Nat
  PROVE  InOrder((a + 1)..(a + c)) = [i \in 1..c |-> a + i]
<1> DEFINE S == (a + 1)..(a + c)
           s == InOrder(S)
<1>1. Cardinality(S) = c
  BY FS_Interval
<1>2. s \in [1..c -> S] /\ Increasing(s)
  <2>1. S \in SUBSET (1..(a + c)) /\ a + c \in Nat
    OBVIOUS
  <2>2. s \in [1..Cardinality(S) -> S] /\ Increasing(s)
    <3> HIDE DEF S
    <3> QED BY <2>1, InOrderIs
  <2> QED BY <1>1, <2>2
<1> HIDE DEF s
<1>3. \A n \in Nat : n + 1 \in 1..c => s[n + 1] >= a + (n + 1)
  <2> DEFINE G == {n \in Nat : n + 1 \in 1..c => s[n + 1] >= a + (n + 1)}
  <2>1. 0 \in G
    BY <1>2
  <2>2. ASSUME NEW n \in Nat, n \in G PROVE n + 1 \in G
    <3> SUFFICES ASSUME (n + 1) + 1 \in 1..c
                 PROVE  s[(n + 1) + 1] >= a + ((n + 1) + 1)
      OBVIOUS
    <3>1. n + 1 \in 1..c /\ s[n + 1] >= a + (n + 1)
      BY <2>2
    <3>2. s[n + 1] < s[(n + 1) + 1]
      BY <1>2, <3>1 DEF Increasing
    <3>3. s[n + 1] \in Int /\ s[(n + 1) + 1] \in Int
      BY <1>2, <3>1
    <3> QED BY <3>1, <3>2, <3>3
  <2> HIDE DEF G
  <2>3. \A n \in Nat : n \in G
    BY <2>1, <2>2, Induction
  <2> QED BY <2>3 DEF G
<1>4. \A n \in Nat : c - n \in 1..c => s[c - n] <= a + (c - n)
  <2> DEFINE G == {n \in Nat : c - n \in 1..c => s[c - n] <= a + (c - n)}
  <2>1. 0 \in G
    BY <1>2
  <2>2. ASSUME NEW n \in Nat, n \in G PROVE n + 1 \in G
    <3> SUFFICES ASSUME c - (n + 1) \in 1..c
                 PROVE  s[c - (n + 1)] <= a + (c - (n + 1))
      OBVIOUS
    <3>1. c - n \in 1..c /\ s[c - n] <= a + (c - n)
      BY <2>2
    <3>2. s[c - (n + 1)] < s[c - n]
      BY <1>2, <3>1 DEF Increasing
    <3>3. s[c - (n + 1)] \in Int /\ s[c - n] \in Int
      BY <1>2, <3>1
    <3> QED BY <3>1, <3>2, <3>3
  <2> HIDE DEF G
  <2>3. \A n \in Nat : n \in G
    BY <2>1, <2>2, Induction
  <2> QED BY <2>3 DEF G
<1>5. ASSUME NEW i \in 1..c PROVE s[i] = a + i
  <2>1. i - 1 \in Nat /\ (i - 1) + 1 = i /\ c - i \in Nat /\ c - (c - i) = i
    OBVIOUS
  <2>2. s[i] >= a + i
    BY <1>3, <2>1
  <2>3. s[i] <= a + i
    BY <1>4, <2>1
  <2>4. s[i] \in Int
    BY <1>2
  <2> QED BY <2>2, <2>3, <2>4
<1>6. s = [i \in 1..c |-> a + i]
  BY <1>2, <1>5
<1> QED BY <1>6 DEF s

\* What is taken from a sequence are its elements at these places, all of them.
LEMMA AtPlacesIs ==
  ASSUME NEW T, NEW s \in Seq(T), NEW S \in SUBSET DOMAIN s
  PROVE  /\ AtPlaces(s, S) \in Seq(T)
         /\ \A k \in DOMAIN AtPlaces(s, S) : \E i \in S : AtPlaces(s, S)[k] = s[i]
         /\ \A i \in S : \E k \in DOMAIN AtPlaces(s, S) : AtPlaces(s, S)[k] = s[i]
         /\ IsInjective(s) => IsInjective(AtPlaces(s, S))
<1> DEFINE c == Cardinality(S)
           p == InOrder(S)
<1>1. Len(s) \in Nat /\ DOMAIN s = 1..Len(s) /\ S \in SUBSET (1..Len(s))
  OBVIOUS
<1>2. /\ c \in Nat /\ p \in [1..c -> S] /\ Increasing(p)
      /\ \A x \in S : \E i \in 1..c : p[i] = x
  BY <1>1, InOrderIs
<1> HIDE DEF c, p
<1>3. AtPlaces(s, S) = [k \in 1..c |-> s[p[k]]]
  BY <1>2 DEF AtPlaces, p
<1>4. \A k \in 1..c : p[k] \in S /\ s[p[k]] \in T
  BY <1>1, <1>2
<1>5. AtPlaces(s, S) \in Seq(T)
  BY <1>2, <1>3, <1>4
<1>6. ASSUME IsInjective(s) PROVE IsInjective(AtPlaces(s, S))
  <2> SUFFICES ASSUME NEW i \in 1..c, NEW j \in 1..c, s[p[i]] = s[p[j]]
               PROVE  i = j
    BY <1>3 DEF IsInjective
  <2>1. p[i] = p[j] /\ p[i] \in Nat
    BY <1>1, <1>4, <1>6 DEF IsInjective
  <2>2. ~(i < j) /\ ~(j < i)
    BY <1>2, <2>1 DEF Increasing
  <2> QED BY <1>2, <2>2
<1>7. DOMAIN AtPlaces(s, S) = 1..c
  BY <1>3
<1>8. \A k \in 1..c : \E i \in S : AtPlaces(s, S)[k] = s[i]
  BY <1>3, <1>4
<1>9. \A i \in S : \E k \in 1..c : AtPlaces(s, S)[k] = s[i]
  BY <1>2, <1>3
<1> QED BY <1>5, <1>6, <1>7, <1>8, <1>9

-------------------------------------------------------------------------------
(***************************************************************************)
(* Contexts and their flags.                                               *)
(***************************************************************************)
ContextRecords ==
  [stage : Stages, local : Seq(LocalRegions),
   no_input_mrs : Nat, no_output_mrs : Nat,
   fncode : 0..255, immediate : Nat, no_rpc_calls : 0..MaxRpcCalls,
   told : Seq(SUBSET Roles), naa_local : Seq(NaaRegions),
   naa_internal : Seq(Nat), writes : Seq(WriteRequests)]

Counted(x) ==
  /\ x.no_input_mrs = Cardinality(HavingRole(x, "input"))
  /\ x.no_output_mrs = Cardinality(HavingRole(x, "output"))

(* From y to z only flags and their counters change.                       *)
OnlyFlags(y, z) ==
  /\ Len(z.local) = Len(y.local)
  /\ \A i \in 1..Len(y.local) :
       /\ z.local[i].addr = y.local[i].addr /\ z.local[i].peer = y.local[i].peer
       /\ z.local[i].bytes = y.local[i].bytes
  /\ z.stage = y.stage /\ z.fncode = y.fncode /\ z.immediate = y.immediate
  /\ z.no_rpc_calls = y.no_rpc_calls /\ z.told = y.told /\ z.writes = y.writes
  /\ z.naa_local = y.naa_local /\ z.naa_internal = y.naa_internal

\* What the proofs need of RegionAssumption.
LEMMA Constants ==
  /\ Size \in [Blocks -> Nat \ {0}] /\ Internal \in Seq(Nat \ {0})
  /\ MaxRpcCalls \in Nat
  BY Zenon, RegionAssumption DEF RegionAssumption

\* Two changes of flags are one.
LEMMA OnlyFlagsTwice ==
  ASSUME NEW x, NEW y, NEW z, OnlyFlags(x, y), OnlyFlags(y, z)
  PROVE  OnlyFlags(x, z)
  BY DEF OnlyFlags

\* The regions of a context are a sequence of regions.
LEMMA LocalOf ==
  ASSUME NEW x \in ContextRecords
  PROVE  /\ x.local \in Seq(LocalRegions) /\ Len(x.local) \in Nat
         /\ DOMAIN x.local = 1..Len(x.local)
         /\ \A i \in 1..Len(x.local) :
              /\ x.local[i] \in LocalRegions /\ x.local[i].roles \in SUBSET Roles
              /\ x.local[i].addr \in Blocks
<1>1. x.local \in Seq(LocalRegions)
  BY DEF ContextRecords
<1>2. \A i \in 1..Len(x.local) : x.local[i] \in LocalRegions
  BY <1>1
<1> QED BY <1>1, <1>2 DEF LocalRegions

\* The regions with a role can be counted.
LEMMA HavingRoleFinite ==
  ASSUME NEW x \in ContextRecords, NEW role
  PROVE  /\ HavingRole(x, role) \in SUBSET (1..Len(x.local))
         /\ IsFiniteSet(HavingRole(x, role))
         /\ Cardinality(HavingRole(x, role)) \in Nat
<1>1. HavingRole(x, role) \in SUBSET (1..Len(x.local))
  BY LocalOf DEF HavingRole
<1> QED BY <1>1, LocalOf, Finite

WithRole(x, i, role) == [x EXCEPT !.local[i].roles = @ \cup {role}]

\* A role added to one region.
LEMMA WithRoleIs ==
  ASSUME NEW x \in ContextRecords, NEW i \in 1..Len(x.local), NEW role \in Roles
  PROVE  /\ WithRole(x, i, role) \in ContextRecords
         /\ OnlyFlags(x, WithRole(x, i, role))
         /\ WithRole(x, i, role).no_input_mrs = x.no_input_mrs
         /\ WithRole(x, i, role).no_output_mrs = x.no_output_mrs
         /\ \A j \in 1..Len(x.local) :
              WithRole(x, i, role).local[j].roles =
                x.local[j].roles \cup (IF j = i THEN {role} ELSE {})
         /\ HavingRole(WithRole(x, i, role), role) = HavingRole(x, role) \cup {i}
         /\ \A r : r # role => HavingRole(WithRole(x, i, role), r) = HavingRole(x, r)
<1> DEFINE z == WithRole(x, i, role)
           l == [x.local EXCEPT ![i] =
                   [x.local[i] EXCEPT !.roles = x.local[i].roles \cup {role}]]
<1>1. z = [x EXCEPT !.local = l]
  BY LocalOf DEF WithRole
<1>2. [x.local[i] EXCEPT !.roles = x.local[i].roles \cup {role}] \in LocalRegions
  BY LocalOf DEF LocalRegions
<1>3. l \in Seq(LocalRegions) /\ Len(l) = Len(x.local)
  BY <1>2, LocalOf
<1>4. z \in ContextRecords /\ z.local = l
  BY <1>1, <1>3 DEF ContextRecords
<1>5. \A j \in 1..Len(x.local) :
        /\ l[j].addr = x.local[j].addr /\ l[j].peer = x.local[j].peer
        /\ l[j].bytes = x.local[j].bytes
        /\ l[j].roles = x.local[j].roles \cup (IF j = i THEN {role} ELSE {})
  BY LocalOf DEF LocalRegions
<1>6. OnlyFlags(x, z)
  BY <1>1, <1>3, <1>4, <1>5 DEF OnlyFlags, ContextRecords
<1>7. z.no_input_mrs = x.no_input_mrs /\ z.no_output_mrs = x.no_output_mrs
  BY <1>1 DEF ContextRecords
<1>8. DOMAIN l = 1..Len(x.local)
  BY <1>3
<1>9. /\ HavingRole(z, role) = HavingRole(x, role) \cup {i}
      /\ \A r : r # role => HavingRole(z, r) = HavingRole(x, r)
  <2> HIDE DEF z, l
  <2> QED BY <1>4, <1>5, <1>8, LocalOf DEF HavingRole, Has
<1> QED BY <1>4, <1>5, <1>6, <1>7, <1>9

\* One region more has the role, unless it had it.
LEMMA CountOne ==
  ASSUME NEW x \in ContextRecords, NEW i \in 1..Len(x.local), NEW role
  PROVE  Cardinality(HavingRole(x, role) \cup {i}) =
           IF Has(x, i, role) THEN Cardinality(HavingRole(x, role))
                              ELSE Cardinality(HavingRole(x, role)) + 1
<1>1. i \in HavingRole(x, role) <=> Has(x, i, role)
  BY LocalOf DEF HavingRole
<1> QED BY <1>1, HavingRoleFinite, FS_AddElement

(* What a flag stands for.                                                 *)
Given(role) == IF role = "single" THEN {"single", "input"} ELSE {role}

(* z is y with region i flagged.                                           *)
FlagResult(y, i, roles, z) ==
  /\ z \in ContextRecords /\ Counted(z) /\ OnlyFlags(y, z)
  /\ \A j \in 1..Len(y.local) :
       z.local[j].roles = y.local[j].roles \cup (IF j = i THEN roles ELSE {})

\* naaice_set_input_mr: the flag, and a counter that fits.
LEMMA FlagInputIs ==
  ASSUME NEW x \in ContextRecords, Counted(x), NEW i \in 1..Len(x.local)
  PROVE  FlagResult(x, i, {"input"}, FlagInput(x, i))
<1> DEFINE y == WithRole(x, i, "input")
           n == IF Has(x, i, "input") THEN x.no_input_mrs ELSE x.no_input_mrs + 1
           z == [y EXCEPT !.no_input_mrs = n]
<1>1. FlagInput(x, i) = z
  BY DEF FlagInput, WithRole, ContextRecords
<1> HIDE DEF y
<1>2. /\ y \in ContextRecords /\ OnlyFlags(x, y)
      /\ y.no_output_mrs = x.no_output_mrs
      /\ \A j \in 1..Len(x.local) :
           y.local[j].roles = x.local[j].roles \cup (IF j = i THEN {"input"} ELSE {})
      /\ HavingRole(y, "input") = HavingRole(x, "input") \cup {i}
      /\ HavingRole(y, "output") = HavingRole(x, "output")
  <2>1. {"input", "output", "single"} = Roles
    BY DEF Roles
  <2> QED BY <2>1, WithRoleIs DEF y
<1>3. n = Cardinality(HavingRole(y, "input")) /\ n \in Nat
  BY <1>2, CountOne, HavingRoleFinite DEF Counted
<1> HIDE DEF n
<1>4. z \in ContextRecords /\ OnlyFlags(y, z) /\ z.local = y.local
      /\ z.no_input_mrs = n /\ z.no_output_mrs = y.no_output_mrs
  BY <1>2, <1>3 DEF ContextRecords, OnlyFlags
<1>5. HavingRole(z, "input") = HavingRole(y, "input")
      /\ HavingRole(z, "output") = HavingRole(y, "output")
  BY <1>4 DEF HavingRole, Has
<1>6. Counted(z)
  BY <1>2, <1>3, <1>4, <1>5 DEF Counted
<1> QED BY <1>1, <1>2, <1>4, <1>6, OnlyFlagsTwice DEF FlagResult

\* naaice_set_output_mr.
LEMMA FlagOutputIs ==
  ASSUME NEW x \in ContextRecords, Counted(x), NEW i \in 1..Len(x.local)
  PROVE  FlagResult(x, i, {"output"}, FlagOutput(x, i))
<1> DEFINE y == WithRole(x, i, "output")
           n == IF Has(x, i, "output") THEN x.no_output_mrs ELSE x.no_output_mrs + 1
           z == [y EXCEPT !.no_output_mrs = n]
<1>1. FlagOutput(x, i) = z
  BY DEF FlagOutput, WithRole, ContextRecords
<1> HIDE DEF y
<1>2. /\ y \in ContextRecords /\ OnlyFlags(x, y)
      /\ y.no_input_mrs = x.no_input_mrs
      /\ \A j \in 1..Len(x.local) :
           y.local[j].roles = x.local[j].roles \cup (IF j = i THEN {"output"} ELSE {})
      /\ HavingRole(y, "output") = HavingRole(x, "output") \cup {i}
      /\ HavingRole(y, "input") = HavingRole(x, "input")
  <2>1. {"input", "output", "single"} = Roles
    BY DEF Roles
  <2> QED BY <2>1, WithRoleIs DEF y
<1>3. n = Cardinality(HavingRole(y, "output")) /\ n \in Nat
  BY <1>2, CountOne, HavingRoleFinite DEF Counted
<1> HIDE DEF n
<1>4. z \in ContextRecords /\ OnlyFlags(y, z) /\ z.local = y.local
      /\ z.no_output_mrs = n /\ z.no_input_mrs = y.no_input_mrs
  BY <1>2, <1>3 DEF ContextRecords, OnlyFlags
<1>5. HavingRole(z, "input") = HavingRole(y, "input")
      /\ HavingRole(z, "output") = HavingRole(y, "output")
  BY <1>4 DEF HavingRole, Has
<1>6. Counted(z)
  BY <1>2, <1>3, <1>4, <1>5 DEF Counted
<1> QED BY <1>1, <1>2, <1>4, <1>6, OnlyFlagsTwice DEF FlagResult

\* naaice_set_singlesend_mr, which makes an input too.
LEMMA FlagSinglesendIs ==
  ASSUME NEW x \in ContextRecords, Counted(x), NEW i \in 1..Len(x.local)
  PROVE  FlagResult(x, i, {"single", "input"}, FlagSinglesend(x, i))
<1> DEFINE y == WithRole(x, i, "single")
           z == FlagInput(y, i)
<1>1. FlagSinglesend(x, i) = z
  BY DEF FlagSinglesend, WithRole
<1> HIDE DEF y
<1>2. /\ y \in ContextRecords /\ OnlyFlags(x, y)
      /\ \A j \in 1..Len(x.local) :
           y.local[j].roles = x.local[j].roles \cup (IF j = i THEN {"single"} ELSE {})
      /\ y.no_input_mrs = x.no_input_mrs /\ y.no_output_mrs = x.no_output_mrs
      /\ HavingRole(y, "input") = HavingRole(x, "input")
      /\ HavingRole(y, "output") = HavingRole(x, "output")
  <2>1. {"input", "output", "single"} = Roles
    BY DEF Roles
  <2> QED BY <2>1, WithRoleIs DEF y
<1>3. Counted(y) /\ Len(y.local) = Len(x.local)
  BY <1>2 DEF Counted, OnlyFlags
<1>4. FlagResult(y, i, {"input"}, z)
  BY <1>2, <1>3, FlagInputIs
<1> HIDE DEF z
<1>5. z \in ContextRecords /\ Counted(z) /\ OnlyFlags(x, z)
  BY <1>2, <1>4, OnlyFlagsTwice DEF FlagResult
<1>6. ASSUME NEW j \in 1..Len(x.local)
      PROVE  z.local[j].roles =
               x.local[j].roles \cup (IF j = i THEN {"single", "input"} ELSE {})
  <2>1. z.local[j].roles = y.local[j].roles \cup (IF j = i THEN {"input"} ELSE {})
    BY <1>3, <1>4 DEF FlagResult
  <2>2. y.local[j].roles = x.local[j].roles \cup (IF j = i THEN {"single"} ELSE {})
    BY <1>2
  <2> QED BY <2>1, <2>2
<1> QED BY <1>1, <1>5, <1>6 DEF FlagResult

\* Any of the three.
LEMMA FlagIs ==
  ASSUME NEW x \in ContextRecords, Counted(x), NEW i \in 1..Len(x.local),
         NEW role \in Roles
  PROVE  FlagResult(x, i, Given(role), Flag(x, i, role))
<1>1. CASE role = "input"
  BY <1>1, FlagInputIs DEF Flag, Given
<1>2. CASE role = "output"
  BY <1>2, FlagOutputIs DEF Flag, Given
<1>3. CASE role = "single"
  BY <1>3, FlagSinglesendIs DEF Flag, Given
<1> QED BY <1>1, <1>2, <1>3 DEF Roles

-------------------------------------------------------------------------------
(***************************************************************************)
(* The flags of the parameters: FlagParams takes them one by one.          *)
(***************************************************************************)
\* The greatest of some numbers up to n + 1.
LEMMA MaxOfInterval ==
  ASSUME NEW n \in Nat, NEW s \in SUBSET (1..(n + 1)), n + 1 \in s
  PROVE  Max(s) = n + 1
<1>1. \A y \in s : n + 1 >= y
  OBVIOUS
<1>2. \A x \in s : (\A y \in s : x >= y) => x = n + 1
  OBVIOUS
<1> QED BY <1>1, <1>2 DEF Max

\* The body of the fold, on the set s of places.
FoldBody(g, s, x, params, singles, role) ==
  IF s = {} THEN x
  ELSE FlagParam(g[s \ {Max(s)}], params[Max(s)], singles, role)

\* The function the fold chooses exists: by induction on the places it covers.
LEMMA FoldExists ==
  ASSUME NEW x, NEW params, NEW singles, NEW role
  PROVE  \A n \in Nat : \E g :
           g = [s \in SUBSET (1..n) |-> FoldBody(g, s, x, params, singles, role)]
<1> DEFINE Fold(n, g) ==
             g = [s \in SUBSET (1..n) |-> FoldBody(g, s, x, params, singles, role)]
           G == {n \in Nat : \E g : Fold(n, g)}
<1>1. 0 \in G
  <2> DEFINE g == [s \in SUBSET (1..0) |-> x]
  <2>1. \A s \in SUBSET (1..0) : s = {}
    OBVIOUS
  <2>2. Fold(0, g)
    BY <2>1 DEF FoldBody
  <2> QED BY <2>2
<1>2. ASSUME NEW n \in Nat, n \in G PROVE n + 1 \in G
  <2>1. PICK h : Fold(n, h)
    BY <1>2
  <2> DEFINE step(s) == FlagParam(h[s \ {n + 1}], params[n + 1], singles, role)
             g == [s \in SUBSET (1..(n + 1)) |-> IF n + 1 \in s THEN step(s) ELSE h[s]]
  <2>2. \A s \in SUBSET (1..(n + 1)) : n + 1 \notin s => s \in SUBSET (1..n)
    OBVIOUS
  <2>3. \A s \in SUBSET (1..(n + 1)) : s \ {n + 1} \in SUBSET (1..n)
    OBVIOUS
  <2>4. SUBSET (1..n) \subseteq SUBSET (1..(n + 1))
    OBVIOUS
  <2>5. \A s \in SUBSET (1..n) : n + 1 \notin s /\ g[s] = h[s]
    BY <2>4
  <2>6. \A s \in SUBSET (1..n) :
          h[s] = FoldBody(h, s, x, params, singles, role)
    BY <2>1
  <2>7. ASSUME NEW s \in SUBSET (1..n), s # {} PROVE s \ {Max(s)} \in SUBSET (1..n)
    OBVIOUS
  <2>8. ASSUME NEW s \in SUBSET (1..(n + 1))
        PROVE  g[s] = FoldBody(g, s, x, params, singles, role)
    <3>1. CASE n + 1 \in s
      <4>1. Max(s) = n + 1 /\ s # {}
        BY <3>1, MaxOfInterval
      <4>2. g[s] = step(s)
        BY <3>1
      <4>3. g[s \ {n + 1}] = h[s \ {n + 1}]
        BY <2>3, <2>5
      <4> HIDE DEF g
      <4> QED BY <4>1, <4>2, <4>3 DEF FoldBody
    <3>2. CASE n + 1 \notin s
      <4>1. s \in SUBSET (1..n) /\ g[s] = h[s]
        BY <2>2, <2>5, <3>2
      <4>2. s # {} => g[s \ {Max(s)}] = h[s \ {Max(s)}]
        BY <2>5, <2>7, <4>1
      <4> HIDE DEF g
      <4> QED BY <2>6, <4>1, <4>2 DEF FoldBody
    <3> QED BY <3>1, <3>2
  <2>9. DOMAIN g = SUBSET (1..(n + 1)) /\ g = [s \in SUBSET (1..(n + 1)) |-> g[s]]
    OBVIOUS
  <2>10. Fold(n + 1, g)
    <3> HIDE DEF g
    <3> QED BY <2>8, <2>9
  <2> HIDE DEF g, Fold
  <2> QED BY <2>10
<1>3. \A n \in Nat : n \in G
  <2> HIDE DEF G
  <2> QED BY <1>1, <1>2, Induction
<1> QED BY <1>3

\* y[k] is x after the first k parameters, y[n] after all of them.
Steps(y, n, x, params, singles, role) ==
  /\ y[0] = x /\ y[n] = FlagParams(x, params, singles, role)
  /\ \A k \in 0..(n - 1) :
       y[k + 1] = FlagParam(y[k], params[k + 1], singles, role)

\* FlagParams takes one parameter after the other.
LEMMA FlagParamsSteps ==
  ASSUME NEW x, NEW params \in Seq(Blocks), NEW singles, NEW role
  PROVE  \E y : Steps(y, Len(params), x, params, singles, role)
<1> DEFINE n == Len(params)
<1>1. n \in Nat /\ DOMAIN params = 1..n
  OBVIOUS
<1> HIDE DEF n
<1> DEFINE g == CHOOSE g :
             g = [s \in SUBSET (1..n) |-> FoldBody(g, s, x, params, singles, role)]
           y == [k \in 0..n |-> g[1..k]]
<1>2. FlagParams(x, params, singles, role) = g[1..n]
  BY <1>1 DEF FlagParams, FoldLeft, MapThenFoldSet, FoldBody
<1>3. g = [s \in SUBSET (1..n) |-> FoldBody(g, s, x, params, singles, role)]
  BY <1>1, FoldExists
<1> HIDE DEF g
<1>4. \A s \in SUBSET (1..n) : g[s] = FoldBody(g, s, x, params, singles, role)
  BY <1>3
<1>5. y[0] = x
  <2>1. 1..0 = {} /\ {} \in SUBSET (1..n) /\ 0 \in 0..n
    BY <1>1
  <2> QED BY <1>4, <2>1 DEF FoldBody
<1>6. ASSUME NEW k \in 0..(n - 1)
      PROVE  y[k + 1] = FlagParam(y[k], params[k + 1], singles, role)
  <2>1. 1..(k + 1) \in SUBSET (1..n) /\ 1..(k + 1) # {} /\ k \in Nat
        /\ k \in 0..n /\ k + 1 \in 0..n
    BY <1>1
  <2>2. Max(1..(k + 1)) = k + 1
    BY <2>1, MaxOfInterval
  <2>3. (1..(k + 1)) \ {k + 1} = 1..k
    OBVIOUS
  <2> QED BY <1>4, <2>1, <2>2, <2>3 DEF FoldBody
<1>7. y[n] = g[1..n]
  BY <1>1
<1> HIDE DEF y
<1>8. Steps(y, n, x, params, singles, role)
  BY <1>2, <1>5, <1>6, <1>7 DEF Steps
<1> QED BY <1>8 DEF n

\* No two regions have the same block.
Apart(x) == \A i, j \in 1..Len(x.local) :
              x.local[i].addr = x.local[j].addr => i = j

\* With no two regions of a block, a region is found by its block.
LEMMA RegionOfIs ==
  ASSUME NEW x \in ContextRecords, Apart(x), NEW i \in 1..Len(x.local)
  PROVE  RegionOf(x, x.local[i].addr) = i
<1> DEFINE First(j) == /\ x.local[j].addr = x.local[i].addr
                       /\ \A k \in 1..(j - 1) : x.local[k].addr # x.local[i].addr
<1>1. First(i)
  BY LocalOf DEF Apart
<1>2. \A j \in 1..Len(x.local) : First(j) => j = i
  BY DEF Apart
<1>3. DOMAIN x.local = 1..Len(x.local)
  BY LocalOf
<1> QED BY <1>1, <1>2, <1>3 DEF RegionOf

\* The roles that a parameter list with this role gives to a block in it.
GivenTo(addr, singles, role) ==
  Given(role) \cup (IF addr \in singles THEN {"single", "input"} ELSE {})

\* One parameter: the roles of its region.
LEMMA FlagParamIs ==
  ASSUME NEW x \in ContextRecords, Counted(x), Apart(x),
         NEW i \in 1..Len(x.local), NEW singles, NEW role \in Roles
  PROVE  FlagResult(x, i, GivenTo(x.local[i].addr, singles, role),
                    FlagParam(x, x.local[i].addr, singles, role))
<1> DEFINE a == x.local[i].addr
           z == FlagParam(x, a, singles, role)
<1>1. RegionOf(x, a) = i
  BY RegionOfIs
<1>2. CASE a \notin singles
  <2>1. z = Flag(x, i, role)
    BY <1>1, <1>2 DEF FlagParam
  <2>2. GivenTo(a, singles, role) = Given(role)
    BY <1>2 DEF GivenTo
  <2> QED BY <2>1, <2>2, FlagIs
<1>3. CASE a \in singles
  <2> DEFINE y == FlagSinglesend(x, i)
  <2>1. z = Flag(y, i, role)
    BY <1>1, <1>3 DEF FlagParam
  <2>2. FlagResult(x, i, {"single", "input"}, y)
    BY FlagSinglesendIs
  <2> HIDE DEF y
  <2>3. /\ y \in ContextRecords /\ Counted(y) /\ OnlyFlags(x, y)
        /\ Len(y.local) = Len(x.local)
    BY <2>2 DEF FlagResult, OnlyFlags
  <2>4. FlagResult(y, i, Given(role), z)
    BY <2>1, <2>3, FlagIs
  <2> HIDE DEF z
  <2>5. z \in ContextRecords /\ Counted(z) /\ OnlyFlags(x, z)
    BY <2>3, <2>4, OnlyFlagsTwice DEF FlagResult
  <2>6. GivenTo(a, singles, role) = Given(role) \cup {"single", "input"}
    BY <1>3 DEF GivenTo
  <2>7. ASSUME NEW j \in 1..Len(x.local)
        PROVE  z.local[j].roles =
                 x.local[j].roles \cup (IF j = i THEN GivenTo(a, singles, role) ELSE {})
    <3>1. z.local[j].roles = y.local[j].roles \cup (IF j = i THEN Given(role) ELSE {})
      BY <2>3, <2>4 DEF FlagResult
    <3>2. y.local[j].roles =
            x.local[j].roles \cup (IF j = i THEN {"single", "input"} ELSE {})
      BY <2>2 DEF FlagResult
    <3> QED BY <2>6, <3>1, <3>2
  <2>8. FlagResult(x, i, GivenTo(a, singles, role), z)
    BY <2>5, <2>7 DEF FlagResult
  <2> QED BY <2>8 DEF z
<1> QED BY <1>2, <1>3

(* Each parameter's region gets its roles, the others keep theirs.         *)
LEMMA FlagParamsIs ==
  ASSUME NEW x \in ContextRecords, Counted(x), Apart(x),
         NEW params \in Seq(Blocks), NEW singles, NEW role \in Roles,
         \A k \in 1..Len(params) :
           \E i \in 1..Len(x.local) : x.local[i].addr = params[k]
  PROVE  LET z == FlagParams(x, params, singles, role)
         IN /\ z \in ContextRecords /\ Counted(z) /\ OnlyFlags(x, z)
            /\ \A j \in 1..Len(x.local) :
                 z.local[j].roles =
                   x.local[j].roles \cup
                     (IF x.local[j].addr \in Range(params)
                      THEN GivenTo(x.local[j].addr, singles, role) ELSE {})
<1> DEFINE n == Len(params)
           First(k) == {params[m] : m \in 1..k}
           Gets(k, j) == IF x.local[j].addr \in First(k)
                         THEN GivenTo(x.local[j].addr, singles, role) ELSE {}
           After(k, z) == /\ z \in ContextRecords /\ Counted(z) /\ OnlyFlags(x, z)
                          /\ \A j \in 1..Len(x.local) :
                               z.local[j].roles = x.local[j].roles \cup Gets(k, j)
<1>1. n \in Nat /\ DOMAIN params = 1..n
  OBVIOUS
<1>2. PICK y : Steps(y, n, x, params, singles, role)
  BY FlagParamsSteps
<1> HIDE DEF n
<1>3. /\ y[0] = x /\ y[n] = FlagParams(x, params, singles, role)
      /\ \A k \in 0..(n - 1) :
           y[k + 1] = FlagParam(y[k], params[k + 1], singles, role)
  BY <1>2 DEF Steps
<1> DEFINE G == {k \in Nat : k <= n => After(k, y[k])}
<1>4. 0 \in G
  <2>1. First(0) = {} /\ \A j \in 1..Len(x.local) : Gets(0, j) = {}
    OBVIOUS
  <2>2. OnlyFlags(x, x)
    BY DEF OnlyFlags
  <2> HIDE DEF Gets
  <2>3. After(0, x)
    BY <2>1, <2>2
  <2> HIDE DEF After
  <2> QED BY <1>3, <2>3
<1>5. ASSUME NEW k \in Nat, k \in G PROVE k + 1 \in G
  <2> SUFFICES ASSUME k + 1 <= n PROVE After(k + 1, y[k + 1])
    <3> HIDE DEF After
    <3> QED OBVIOUS
  <2> DEFINE u == y[k]
             z == y[k + 1]
  <2>1. After(k, u) /\ k + 1 \in 1..n /\ k \in 0..(n - 1)
    <3> HIDE DEF After
    <3> QED BY <1>1, <1>5
  <2>2. PICK i \in 1..Len(x.local) : x.local[i].addr = params[k + 1]
    BY <2>1 DEF n
  <2> HIDE DEF u, Gets
  <2>3. /\ u \in ContextRecords /\ Counted(u) /\ OnlyFlags(x, u)
        /\ Len(u.local) = Len(x.local) /\ u.local[i].addr = params[k + 1]
        /\ \A j \in 1..Len(x.local) : u.local[j].addr = x.local[j].addr
    BY <2>1, <2>2 DEF OnlyFlags
  <2>4. Apart(u)
    BY <2>3 DEF Apart
  <2>5. z = FlagParam(u, u.local[i].addr, singles, role)
    BY <1>3, <2>1, <2>3 DEF u
  <2>6. FlagResult(u, i, GivenTo(params[k + 1], singles, role), z)
    BY <2>3, <2>4, <2>5, FlagParamIs
  <2> HIDE DEF z
  <2>7. z \in ContextRecords /\ Counted(z) /\ OnlyFlags(x, z)
    BY <2>3, <2>6, OnlyFlagsTwice DEF FlagResult
  <2>8. ASSUME NEW j \in 1..Len(x.local)
        PROVE  z.local[j].roles = x.local[j].roles \cup Gets(k + 1, j)
    <3>1. u.local[j].roles = x.local[j].roles \cup Gets(k, j)
      BY <2>1
    <3>2. z.local[j].roles =
            u.local[j].roles
              \cup (IF j = i THEN GivenTo(params[k + 1], singles, role) ELSE {})
      BY <2>3, <2>6 DEF FlagResult
    <3>3. x.local[j].addr = params[k + 1] <=> j = i
      BY <2>2 DEF Apart
    <3>4. First(k + 1) = First(k) \cup {params[k + 1]}
      <4>1. 1..(k + 1) = 1..k \cup {k + 1}
        OBVIOUS
      <4> QED BY <4>1
    <3> HIDE DEF First
    <3>5. CASE j = i
      <4>1. Gets(k + 1, j) = GivenTo(params[k + 1], singles, role)
        BY <2>2, <3>4, <3>5 DEF Gets
      <4>2. Gets(k, j) \subseteq GivenTo(params[k + 1], singles, role)
        BY <2>2, <3>5 DEF Gets
      <4> QED BY <3>1, <3>2, <3>5, <4>1, <4>2
    <3>6. CASE j # i
      <4>1. Gets(k + 1, j) = Gets(k, j)
        BY <3>3, <3>4, <3>6 DEF Gets
      <4> QED BY <3>1, <3>2, <3>6, <4>1
    <3> QED BY <3>5, <3>6
  <2> QED BY <2>7, <2>8 DEF z
<1>6. \A k \in Nat : k \in G
  <2> HIDE DEF G
  <2> QED BY <1>4, <1>5, Induction
<1>7. After(n, y[n])
  <2> HIDE DEF After
  <2> QED BY <1>1, <1>6
<1>8. First(n) = Range(params)
  BY <1>1 DEF Range
<1> QED BY <1>3, <1>7, <1>8

-------------------------------------------------------------------------------
(***************************************************************************)
(* What naa_create makes of its parameters.                                *)
(***************************************************************************)
\* Each parameter once, also one that is input and output.
LEMMA ParamRegionsIs ==
  ASSUME NEW inputs \in Seq(Blocks), NEW outputs \in Seq(Blocks),
         IsInjective(inputs), IsInjective(outputs)
  PROVE  /\ ParamRegions(inputs, outputs) \in Seq(Blocks)
         /\ IsInjective(ParamRegions(inputs, outputs))
         /\ Range(ParamRegions(inputs, outputs)) = Range(inputs) \cup Range(outputs)
<1> DEFINE S == {i \in DOMAIN outputs : outputs[i] \notin Range(inputs)}
           t == AtPlaces(outputs, S)
           p == ParamRegions(inputs, outputs)
           n == Len(inputs)
<1>1. /\ t \in Seq(Blocks) /\ IsInjective(t)
      /\ \A k \in DOMAIN t : \E i \in S : t[k] = outputs[i]
      /\ \A i \in S : \E k \in DOMAIN t : t[k] = outputs[i]
  <2>1. S \in SUBSET DOMAIN outputs
    OBVIOUS
  <2> HIDE DEF S
  <2> QED BY <2>1, AtPlacesIs
<1>2. p = inputs \o t
  BY DEF ParamRegions
<1> HIDE DEF t, p
<1>3. /\ p \in Seq(Blocks) /\ n \in Nat /\ Len(t) \in Nat
      /\ DOMAIN p = 1..(n + Len(t)) /\ DOMAIN inputs = 1..n
      /\ DOMAIN t = 1..Len(t)
      /\ \A i \in 1..n : p[i] = inputs[i]
      /\ \A i \in (n + 1)..(n + Len(t)) : p[i] = t[i - n]
  BY <1>1, <1>2
<1> HIDE DEF n
<1>4. \A k \in 1..Len(t) : t[k] \notin Range(inputs) /\ t[k] \in Range(outputs)
  BY <1>1, <1>3 DEF Range
<1>5. ASSUME NEW i \in DOMAIN p, NEW j \in DOMAIN p, p[i] = p[j] PROVE i = j
  <2>1. CASE i <= n /\ j <= n
    <3>1. i \in 1..n /\ j \in 1..n
      BY <1>3, <2>1
    <3>2. inputs[i] = inputs[j]
      BY <1>3, <1>5, <3>1
    <3> QED BY <1>3, <3>1, <3>2 DEF IsInjective
  <2>2. CASE i > n /\ j > n
    <3>1. i - n \in 1..Len(t) /\ j - n \in 1..Len(t)
          /\ i \in (n + 1)..(n + Len(t)) /\ j \in (n + 1)..(n + Len(t))
      BY <1>3, <2>2
    <3>2. t[i - n] = t[j - n]
      BY <1>3, <1>5, <3>1
    <3>3. i - n = j - n
      BY <1>1, <1>3, <3>1, <3>2 DEF IsInjective
    <3> QED BY <1>3, <3>3
  <2>3. ASSUME NEW a \in 1..n, NEW b \in (n + 1)..(n + Len(t)) PROVE p[a] # p[b]
    <3>1. b - n \in 1..Len(t)
      BY <1>3
    <3>2. p[b] \notin Range(inputs)
      BY <1>3, <1>4, <3>1
    <3>3. p[a] \in Range(inputs)
      BY <1>3 DEF Range
    <3> QED BY <3>2, <3>3
  <2>4. CASE i <= n /\ j > n
    BY <1>3, <1>5, <2>3, <2>4
  <2>5. CASE i > n /\ j <= n
    BY <1>3, <1>5, <2>3, <2>5
  <2> QED BY <1>3, <2>1, <2>2, <2>4, <2>5
<1>6. ASSUME NEW a \in Range(p) PROVE a \in Range(inputs) \cup Range(outputs)
  <2>1. PICK i \in DOMAIN p : a = p[i]
    BY DEF Range
  <2>2. CASE i \in 1..n
    BY <1>3, <2>1, <2>2 DEF Range
  <2>3. CASE i \in (n + 1)..(n + Len(t))
    <3>1. i - n \in 1..Len(t)
      BY <1>3, <2>3
    <3> QED BY <1>3, <1>4, <2>1, <2>3, <3>1
  <2> QED BY <1>3, <2>2, <2>3
<1>7. ASSUME NEW a \in Range(inputs) PROVE a \in Range(p)
  <2>1. PICK i \in 1..n : a = inputs[i]
    BY <1>3 DEF Range
  <2>2. i \in DOMAIN p
    BY <1>3
  <2> QED BY <1>3, <2>1, <2>2 DEF Range
<1>8. ASSUME NEW a \in Range(outputs), a \notin Range(inputs) PROVE a \in Range(p)
  <2>1. PICK i \in S : a = outputs[i]
    BY <1>8 DEF Range
  <2>2. PICK k \in 1..Len(t) : t[k] = a
    BY <1>1, <1>3, <2>1
  <2>3. k + n \in (n + 1)..(n + Len(t)) /\ (k + n) - n = k /\ k + n \in DOMAIN p
    BY <1>3
  <2>4. p[k + n] = a
    BY <1>3, <2>2, <2>3
  <2> QED BY <2>3, <2>4 DEF Range
<1>9. IsInjective(p)
  BY <1>5 DEF IsInjective
<1>10. Range(p) = Range(inputs) \cup Range(outputs)
  BY <1>6, <1>7, <1>8
<1> QED BY <1>3, <1>9, <1>10 DEF p

\* A context before it is used.
LEMMA NoContextIs ==
  /\ NoContext \in ContextRecords /\ Counted(NoContext)
  /\ NoContext.stage = "none" /\ NoContext.no_rpc_calls = 0
  /\ NoContext.local = <<>> /\ NoContext.writes = <<>>
  /\ NoContext.fncode = 0 /\ NoContext.immediate = 0
  /\ NoContext.no_input_mrs = 0 /\ NoContext.no_output_mrs = 0
<1>1. /\ <<>> \in Seq(SUBSET Roles) /\ <<>> \in Seq(NaaRegions) /\ <<>> \in Seq(Nat)
      /\ <<>> \in Seq(WriteRequests) /\ <<>> \in Seq(LocalRegions)
  OBVIOUS
<1>2. 0 \in 0..MaxRpcCalls /\ "none" \in Stages /\ 0 \in Nat /\ 0 \in 0..255
  BY Constants DEF Stages
<1>3. NoContext \in ContextRecords
  BY <1>1, <1>2 DEF NoContext, ContextRecords
<1>4. /\ NoContext.stage = "none" /\ NoContext.no_rpc_calls = 0
      /\ NoContext.local = <<>> /\ NoContext.writes = <<>>
      /\ NoContext.fncode = 0 /\ NoContext.immediate = 0
      /\ NoContext.no_input_mrs = 0 /\ NoContext.no_output_mrs = 0
  BY DEF NoContext
<1>5. HavingRole(NoContext, "input") = {} /\ HavingRole(NoContext, "output") = {}
  BY <1>4 DEF HavingRole
<1>6. Counted(NoContext)
  BY <1>4, <1>5, FS_EmptySet DEF Counted
<1> QED BY <1>3, <1>4, <1>6

\* A context of parameters: a region of each, without roles.
LEMMA NewContextIs ==
  ASSUME NEW params \in Seq(Blocks), NEW fncode \in 0..255
  PROVE  LET x == NewContext(params, fncode)
         IN /\ x \in ContextRecords /\ Counted(x)
            /\ Len(x.local) = Len(params)
            /\ \A i \in 1..Len(params) :
                 x.local[i] = [addr |-> params[i], peer |-> 0,
                               bytes |-> Size[params[i]], roles |-> {}]
            /\ x.stage = "configured" /\ x.no_rpc_calls = 0
            /\ x.writes = <<>> /\ x.fncode = fncode /\ x.immediate = fncode
            /\ IsInjective(params) => Apart(x)
<1> DEFINE x == NewContext(params, fncode)
           l == [i \in DOMAIN params |-> [addr |-> params[i], peer |-> 0,
                                          bytes |-> Size[params[i]], roles |-> {}]]
<1>1. l \in Seq(LocalRegions) /\ Len(l) = Len(params) /\ DOMAIN l = 1..Len(params)
  <2>1. \A i \in 1..Len(params) : params[i] \in Blocks /\ Size[params[i]] \in Nat
    BY Constants
  <2>2. \A i \in 1..Len(params) :
          [addr |-> params[i], peer |-> 0, bytes |-> Size[params[i]], roles |-> {}]
            \in LocalRegions
    BY <2>1 DEF LocalRegions
  <2>3. DOMAIN params = 1..Len(params) /\ Len(params) \in Nat
    OBVIOUS
  <2> QED BY <2>2, <2>3
<1>2. fncode + 256 * 0 = fncode /\ fncode \in Nat
  OBVIOUS
<1>3. \A i \in 1..Len(params) :
        l[i] = [addr |-> params[i], peer |-> 0, bytes |-> Size[params[i]], roles |-> {}]
  <2>1. \A i \in 1..Len(params) : i \in DOMAIN params
    OBVIOUS
  <2> QED BY <2>1
<1> HIDE DEF l
<1>4. /\ x \in ContextRecords /\ x.local = l /\ x.stage = "configured"
      /\ x.no_rpc_calls = 0 /\ x.writes = <<>> /\ x.fncode = fncode
      /\ x.no_input_mrs = 0 /\ x.no_output_mrs = 0
      /\ x.immediate = fncode
  <2>1. NoContext \in ContextRecords
    BY NoContextIs
  <2> DEFINE y == [NoContext EXCEPT !.stage = "configured", !.fncode = fncode,
                                    !.local = l]
  <2>2. /\ y \in ContextRecords /\ y.local = l /\ y.stage = "configured"
        /\ y.no_rpc_calls = 0 /\ y.writes = <<>> /\ y.fncode = fncode
        /\ y.no_input_mrs = 0 /\ y.no_output_mrs = 0
    <3>1. "configured" \in Stages
      BY DEF Stages
    <3> QED BY <1>1, <2>1, <3>1, NoContextIs DEF ContextRecords
  <2>3. x = WithUserBytes(y, 0)
    BY DEF NewContext, l
  <2> HIDE DEF y, x
  <2>4. /\ x \in ContextRecords /\ x.local = l /\ x.stage = "configured"
        /\ x.no_rpc_calls = 0 /\ x.writes = <<>> /\ x.fncode = fncode
        /\ x.no_input_mrs = 0 /\ x.no_output_mrs = 0
        /\ x.immediate = fncode
    <3>1. x = [y EXCEPT !.immediate = fncode]
      BY <1>2, <2>2, <2>3 DEF WithUserBytes
    <3>2. x \in ContextRecords
      BY <1>2, <2>2, <3>1 DEF ContextRecords
    <3> QED BY <2>2, <3>1, <3>2 DEF ContextRecords
  <2> QED BY <2>4
<1> HIDE DEF x
<1>5. HavingRole(x, "input") = {} /\ HavingRole(x, "output") = {}
  BY <1>4, <1>1, <1>3 DEF HavingRole, Has
<1>6. Counted(x)
  BY <1>4, <1>5, FS_EmptySet DEF Counted
<1>7. IsInjective(params) => Apart(x)
  BY <1>4, <1>1, <1>3 DEF IsInjective, Apart
<1> QED BY <1>1, <1>3, <1>4, <1>6, <1>7 DEF x

-------------------------------------------------------------------------------
(***************************************************************************)
(* What holds of every context.                                            *)
(***************************************************************************)
Told == {"announced", "answered", "ready", "undefined"}
Made == {"answered", "ready", "undefined"}
Recorded == {"ready", "undefined"}

\* The limit never exceeds the region.
Limited(x) ==
  \A i \in 1..Len(x.local) : x.local[i].bytes <= Size[x.local[i].addr]

\* Each end's regions are the other's, as far as the protocol has come.
Agreed(x) ==
  /\ x.stage \in Told => Len(x.told) = Len(x.local)
  /\ x.stage \in Made =>
       /\ x.naa_internal = Internal
       /\ Len(x.naa_local) = Len(x.local)
       /\ \A i \in 1..Len(x.local) :
            x.naa_local[i] = [size |-> Size[x.local[i].addr], mr |-> i,
                              roles |-> x.told[i]]
  /\ x.stage \in Recorded => \A i \in 1..Len(x.local) : x.local[i].peer = i

\* The writes of the last call.
Written(x) ==
  /\ x.writes # <<>> => x.stage \in Recorded
  /\ \A k \in 1..Len(x.writes) :
       /\ x.writes[k].mr \in 1..Len(x.local)
       /\ x.writes[k].bytes <= Size[x.local[x.writes[k].mr].addr]

\* The function code is the immediate's lowest byte.
Numbered(x) == \E user \in Nat : x.immediate = x.fncode + 256 * user

GoodContext(x) ==
  /\ x \in ContextRecords /\ Counted(x) /\ Limited(x) /\ Agreed(x)
  /\ Written(x) /\ Numbered(x)

\* An unused, failed or finished context is good.
LEMMA GoodNone == ASSUME NEW stage \in Stages \ (Told \cup Made \cup Recorded)
                  PROVE  GoodContext([NoContext EXCEPT !.stage = stage])
<1> DEFINE x == [NoContext EXCEPT !.stage = stage]
<1>1. /\ x \in ContextRecords /\ x.stage = stage /\ x.local = <<>>
      /\ x.writes = <<>> /\ x.fncode = 0 /\ x.immediate = 0
      /\ x.no_input_mrs = 0 /\ x.no_output_mrs = 0
  BY NoContextIs DEF ContextRecords
<1> HIDE DEF x
<1>2. HavingRole(x, "input") = {} /\ HavingRole(x, "output") = {}
  BY <1>1 DEF HavingRole
<1>3. Counted(x)
  BY <1>1, <1>2, FS_EmptySet DEF Counted
<1>4. Limited(x) /\ Agreed(x) /\ Written(x)
  BY <1>1, <1>2 DEF Limited, Agreed, Written, Told, Made, Recorded
<1>5. Numbered(x)
  <2>1. 0 \in Nat /\ 0 = 0 + 256 * 0
    OBVIOUS
  <2> QED BY <1>1, <2>1 DEF Numbered
<1> QED BY <1>1, <1>3, <1>4, <1>5 DEF GoodContext, x

(* Flags can change at any time before the calls are over.                 *)
LEMMA GoodFlags ==
  ASSUME NEW x, GoodContext(x), NEW z \in ContextRecords, Counted(z), OnlyFlags(x, z),
         x.stage # "undefined"
  PROVE  GoodContext(z)
<1>1. Limited(z)
  BY DEF GoodContext, Limited, OnlyFlags
<1>2. Agreed(z)
  BY DEF GoodContext, Agreed, OnlyFlags
<1>3. Written(z)
  BY DEF GoodContext, Written, OnlyFlags
<1>4. Numbered(z)
  BY DEF GoodContext, Numbered, OnlyFlags
<1> QED BY <1>1, <1>2, <1>3, <1>4 DEF GoodContext

\* A new context is good.
LEMMA GoodNew ==
  ASSUME NEW params \in Seq(Blocks), NEW fncode \in 0..255
  PROVE  GoodContext(NewContext(params, fncode))
<1> DEFINE x == NewContext(params, fncode)
<1>1. /\ x \in ContextRecords /\ Counted(x) /\ Len(x.local) = Len(params)
      /\ \A i \in 1..Len(params) :
           x.local[i] = [addr |-> params[i], peer |-> 0,
                         bytes |-> Size[params[i]], roles |-> {}]
      /\ x.stage = "configured" /\ x.writes = <<>>
      /\ x.fncode = fncode /\ x.immediate = fncode
  BY NewContextIs
<1> HIDE DEF x
<1>2. Limited(x)
  <2>1. \A i \in 1..Len(params) : Size[params[i]] \in Nat
    BY Constants
  <2>2. ASSUME NEW i \in 1..Len(params)
        PROVE  x.local[i].bytes = Size[params[i]] /\ x.local[i].addr = params[i]
    <3>1. x.local[i] = [addr |-> params[i], peer |-> 0,
                        bytes |-> Size[params[i]], roles |-> {}]
      BY <1>1
    <3> QED BY <3>1
  <2>3. \A n \in Nat : n <= n
    OBVIOUS
  <2> QED BY <1>1, <2>1, <2>2, <2>3 DEF Limited
<1>3. Agreed(x) /\ Written(x)
  BY <1>1 DEF Agreed, Written, Told, Made, Recorded
<1>4. Numbered(x)
  <2>1. 0 \in Nat /\ fncode = fncode + 256 * 0
    OBVIOUS
  <2> QED BY <1>1, <2>1 DEF Numbered
<1> QED BY <1>1, <1>2, <1>3, <1>4 DEF GoodContext, x

-------------------------------------------------------------------------------
(***************************************************************************)
(* The operations, each on a good context.                                 *)
(***************************************************************************)
\* naaice_set_input_mr and its like.
LEMMA GoodSetRole ==
  ASSUME NEW x, GoodContext(x), x.stage # "undefined",
         NEW i \in DOMAIN x.local, NEW role \in Roles
  PROVE  GoodContext(Flag(x, i, role))
<1>1. i \in 1..Len(x.local)
  BY LocalOf DEF GoodContext
<1>2. FlagResult(x, i, Given(role), Flag(x, i, role))
  BY <1>1, FlagIs DEF GoodContext
<1> QED BY <1>2, GoodFlags DEF FlagResult

\* A step that leaves the regions and their counters alone.
Regions(x) == <<x.local, x.no_input_mrs, x.no_output_mrs>>

\* What depends on the regions and counters only.
LEMMA SameRegions ==
  ASSUME NEW x, NEW z, Regions(z) = Regions(x)
  PROVE  /\ Counted(x) => Counted(z)
         /\ Limited(x) => Limited(z)
         /\ \A role : HavingRole(z, role) = HavingRole(x, role)
<1>1. /\ z.local = x.local /\ z.no_input_mrs = x.no_input_mrs
      /\ z.no_output_mrs = x.no_output_mrs
  BY DEF Regions
<1>2. \A role : HavingRole(z, role) = HavingRole(x, role)
  BY <1>1 DEF HavingRole, Has
<1> QED BY <1>1, <1>2 DEF Counted, Limited

\* User bytes are numbers.
LEMMA UserBytesAreNumbers == \A user \in UserBytes : user \in Nat
<1>1. UserBytes \subseteq 0..(2^24 - 1)
  BY Zenon, RegionAssumption DEF RegionAssumption
<1>2. \A n, user : user \in 0..n => user \in Nat
  OBVIOUS
<1> QED BY <1>1, <1>2

\* naaice_set_immediate.
LEMMA GoodImmediate ==
  ASSUME NEW x, GoodContext(x), NEW user \in UserBytes
  PROVE  GoodContext(WithUserBytes(x, user))
<1> DEFINE z == WithUserBytes(x, user)
<1>1. user \in Nat
  BY UserBytesAreNumbers
<1>2. x \in ContextRecords /\ x.fncode + 256 * user \in Nat
  <2>1. x \in ContextRecords /\ x.fncode \in 0..255
    BY DEF GoodContext, ContextRecords
  <2> QED BY <1>1, <2>1
<1>3. /\ z \in ContextRecords /\ z.local = x.local /\ z.stage = x.stage
      /\ z.told = x.told /\ z.naa_local = x.naa_local
      /\ z.naa_internal = x.naa_internal /\ z.writes = x.writes
      /\ z.fncode = x.fncode /\ z.immediate = x.fncode + 256 * user
      /\ Regions(z) = Regions(x)
  BY <1>2 DEF ContextRecords, WithUserBytes, Regions
<1> HIDE DEF z
<1>4. Counted(z) /\ Limited(z) /\ HavingRole(z, "input") = HavingRole(x, "input")
  BY <1>3, SameRegions DEF GoodContext
<1>5. Agreed(z) /\ Written(z)
  BY <1>3, <1>4 DEF GoodContext, Agreed, Written
<1>6. Numbered(z)
  BY <1>1, <1>3 DEF Numbered
<1> QED BY <1>3, <1>4, <1>5, <1>6 DEF GoodContext, z

\* naaice_set_bytes_to_send.
LEMMA GoodBytes ==
  ASSUME NEW x, GoodContext(x), NEW i \in DOMAIN x.local, NEW number \in Int
  PROVE  GoodContext([x EXCEPT !.local[i].bytes =
                        BytesToSend(@, number, Size[x.local[i].addr])])
<1> DEFINE whole == Size[x.local[i].addr]
           b == BytesToSend(x.local[i].bytes, number, whole)
           l == [x.local EXCEPT ![i] = [x.local[i] EXCEPT !.bytes = b]]
           z == [x EXCEPT !.local = l]
<1>1. x \in ContextRecords /\ i \in 1..Len(x.local)
  BY LocalOf DEF GoodContext
<1>2. whole \in Nat /\ x.local[i].bytes \in Nat /\ x.local[i].bytes <= whole
  <2>1. x.local[i] \in LocalRegions
    BY <1>1, LocalOf
  <2> QED BY <1>1, <2>1, Constants DEF GoodContext, Limited, LocalRegions
<1> HIDE DEF whole
<1>3. b \in Nat /\ b <= whole
  <2>1. CASE number < 0
    BY <1>2, <2>1 DEF BytesToSend
  <2>2. CASE number \in 0..whole
    BY <1>2, <2>2 DEF BytesToSend
  <2>3. CASE number > whole
    BY <1>2, <2>3 DEF BytesToSend
  <2> QED BY <1>2, <2>1, <2>2, <2>3
<1> HIDE DEF b
<1>4. [x.local[i] EXCEPT !.bytes = b] \in LocalRegions
  BY <1>1, <1>3, LocalOf DEF LocalRegions
<1>5. l \in Seq(LocalRegions) /\ Len(l) = Len(x.local) /\ DOMAIN l = DOMAIN x.local
  BY <1>1, <1>4, LocalOf
<1>6. \A j \in 1..Len(x.local) :
        /\ l[j].addr = x.local[j].addr /\ l[j].peer = x.local[j].peer
        /\ l[j].roles = x.local[j].roles
        /\ l[j].bytes = IF j = i THEN b ELSE x.local[j].bytes
  BY <1>1, LocalOf DEF LocalRegions
<1> HIDE DEF l
<1>7. /\ z \in ContextRecords /\ z.local = l /\ z.stage = x.stage
      /\ z.told = x.told /\ z.naa_local = x.naa_local
      /\ z.naa_internal = x.naa_internal /\ z.writes = x.writes
      /\ z.fncode = x.fncode /\ z.immediate = x.immediate
      /\ z.no_input_mrs = x.no_input_mrs /\ z.no_output_mrs = x.no_output_mrs
  BY <1>1, <1>5 DEF ContextRecords
<1>8. z = [x EXCEPT !.local[i].bytes =
             BytesToSend(@, number, Size[x.local[i].addr])]
  BY <1>1 DEF l, b, whole
<1> HIDE DEF z
<1>9. HavingRole(z, "input") = HavingRole(x, "input")
      /\ HavingRole(z, "output") = HavingRole(x, "output")
  BY <1>1, <1>5, <1>6, <1>7, LocalOf DEF HavingRole, Has
<1>10. Counted(z) /\ Numbered(z)
  BY <1>7, <1>9 DEF GoodContext, Counted, Numbered
<1>11. Limited(z)
  BY <1>3, <1>5, <1>6, <1>7 DEF GoodContext, Limited, whole
<1>12. Agreed(z)
  BY <1>5, <1>6, <1>7 DEF GoodContext, Agreed
<1>13. Written(z)
  BY <1>5, <1>6, <1>7 DEF GoodContext, Written
<1> QED BY <1>7, <1>8, <1>10, <1>11, <1>12, <1>13 DEF GoodContext

\* A failure, or a registration: the stage alone, to one before the protocol.
LEMMA GoodStage ==
  ASSUME NEW x, GoodContext(x), x.stage \notin Recorded,
         NEW stage \in {"registered", "failed"}
  PROVE  GoodContext([x EXCEPT !.stage = stage])
<1> DEFINE z == [x EXCEPT !.stage = stage]
<1>1. stage \in Stages /\ stage \notin (Told \cup Made \cup Recorded)
  BY DEF Stages, Told, Made, Recorded
<1>2. /\ z \in ContextRecords /\ z.local = x.local /\ z.stage = stage
      /\ z.writes = x.writes /\ z.fncode = x.fncode /\ z.immediate = x.immediate
      /\ Regions(z) = Regions(x)
  BY <1>1 DEF GoodContext, ContextRecords, Regions
<1> HIDE DEF z
<1>3. Counted(z) /\ Limited(z) /\ HavingRole(z, "input") = HavingRole(x, "input")
  BY <1>2, SameRegions DEF GoodContext
<1>4. Agreed(z) /\ Written(z) /\ Numbered(z)
  BY <1>1, <1>2, <1>3
     DEF GoodContext, Agreed, Written, Numbered, Told, Made, Recorded
<1> QED BY <1>2, <1>3, <1>4 DEF GoodContext, z

\* naaice_init_mrsp.
LEMMA GoodInitMrsp ==
  ASSUME NEW x, GoodContext(x), x.stage = "registered"
  PROVE  GoodContext([x EXCEPT !.stage = "announced",
                               !.told = [i \in DOMAIN x.local |-> x.local[i].roles]])
<1> DEFINE t == [i \in DOMAIN x.local |-> x.local[i].roles]
           z == [x EXCEPT !.stage = "announced", !.told = t]
<1>1. x \in ContextRecords
  BY DEF GoodContext
<1>2. t \in Seq(SUBSET Roles) /\ Len(t) = Len(x.local)
  <2>1. \A i \in 1..Len(x.local) : x.local[i].roles \in SUBSET Roles
    BY <1>1, LocalOf
  <2>2. DOMAIN x.local = 1..Len(x.local) /\ Len(x.local) \in Nat
    BY <1>1, LocalOf
  <2> QED BY <2>1, <2>2
<1> HIDE DEF t
<1>3. /\ z \in ContextRecords /\ z.local = x.local /\ z.stage = "announced"
      /\ z.writes = x.writes /\ z.fncode = x.fncode /\ z.immediate = x.immediate
      /\ z.told = t /\ Regions(z) = Regions(x)
  <2>1. "announced" \in Stages
    BY DEF Stages
  <2> QED BY <1>1, <1>2, <2>1 DEF ContextRecords, Regions
<1> HIDE DEF z
<1>4. Counted(z) /\ Limited(z) /\ HavingRole(z, "input") = HavingRole(x, "input")
  BY <1>3, SameRegions DEF GoodContext
<1>5. Agreed(z) /\ Written(z) /\ Numbered(z)
  BY <1>2, <1>3, <1>4
     DEF GoodContext, Agreed, Written, Numbered, Told, Made, Recorded
<1> QED BY <1>3, <1>4, <1>5 DEF GoodContext, z, t

(* What the NAA makes of the message: the normal entries come first, the   *)
(* internal ones after them.                                               *)
LEMMA MessageIs ==
  ASSUME NEW x, GoodContext(x), x.stage \in Told
  PROVE  LET m == Message(x)
             n == Len(x.local)
             k == Len(Internal)
         IN /\ n \in Nat /\ k \in Nat /\ DOMAIN m = 1..(n + k)
            /\ \A i \in 1..n : m[i] = [flags |-> x.told[i],
                                       size |-> Size[x.local[i].addr], mr |-> i]
            /\ \A i \in 1..k : m[n + i] = [flags |-> {"internal"},
                                           size |-> Internal[i], mr |-> 0]
            /\ InternalsOf(m) = (n + 1)..(n + k)
            /\ DOMAIN m \ InternalsOf(m) = (0 + 1)..(0 + n)
<1> DEFINE n == Len(x.local)
           k == Len(Internal)
           a == [i \in DOMAIN x.local |-> [flags |-> x.told[i],
                                           size |-> Size[x.local[i].addr], mr |-> i]]
           b == [i \in DOMAIN Internal |-> [flags |-> {"internal"},
                                            size |-> Internal[i], mr |-> 0]]
           m == Message(x)
<1>1. m = a \o b
  BY DEF Message
<1>2. /\ x.local \in Seq(LocalRegions) /\ DOMAIN x.local = 1..n /\ n \in Nat
      /\ DOMAIN Internal = 1..k /\ k \in Nat
      /\ x.told \in Seq(SUBSET Roles) /\ Len(x.told) = n
  <2>1. x \in ContextRecords
    BY DEF GoodContext
  <2> QED BY <2>1, LocalOf, Constants DEF GoodContext, Agreed, ContextRecords
<1>3. \A i \in 1..n : "internal" \notin x.told[i]
  <2>1. \A i \in 1..n : x.told[i] \in SUBSET Roles
    BY <1>2
  <2>2. "internal" \notin Roles
    BY DEF Roles
  <2> QED BY <2>1, <2>2
<1>4. /\ DOMAIN a = 1..n /\ DOMAIN b = 1..k
      /\ \A i \in 1..n : a[i] = [flags |-> x.told[i],
                                 size |-> Size[x.local[i].addr], mr |-> i]
      /\ \A i \in 1..k : b[i] = [flags |-> {"internal"}, size |-> Internal[i], mr |-> 0]
  <2> HIDE DEF n, k
  <2> QED BY <1>2
<1> HIDE DEF n, k
<1> DEFINE Entries == [flags : SUBSET (Roles \cup {"internal"}), size : Nat, mr : Nat]
<1>5. a \in Seq(Entries) /\ b \in Seq(Entries) /\ Len(a) = n /\ Len(b) = k
  <2>1. ASSUME NEW i \in 1..n
        PROVE  [flags |-> x.told[i], size |-> Size[x.local[i].addr], mr |-> i]
                 \in Entries
    <3>1. x.told[i] \in SUBSET Roles /\ x.local[i].addr \in Blocks
      <4>1. x \in ContextRecords
        BY DEF GoodContext
      <4> QED BY <1>2, <4>1, LocalOf DEF n
    <3>2. Size[x.local[i].addr] \in Nat
      BY <3>1, Constants
    <3> QED BY <3>1, <3>2
  <2>2. ASSUME NEW i \in 1..k
        PROVE  [flags |-> {"internal"}, size |-> Internal[i], mr |-> 0] \in Entries
    <3>1. Internal[i] \in Nat
      BY Constants DEF k
    <3> QED BY <3>1
  <2>3. DOMAIN x.local = 1..n /\ DOMAIN Internal = 1..k /\ n \in Nat /\ k \in Nat
    BY <1>2
  <2> HIDE DEF Entries
  <2>4. a \in [1..n -> Entries]
    BY <2>1, <2>3
  <2>5. b \in [1..k -> Entries]
    BY <2>2, <2>3
  <2> HIDE DEF a, b
  <2>6. a \in Seq(Entries) /\ Len(a) = n
    BY <2>3, <2>4
  <2>7. b \in Seq(Entries) /\ Len(b) = k
    BY <2>3, <2>5
  <2> QED BY <2>6, <2>7
<1> HIDE DEF a, b, m, Entries
<1>6. /\ DOMAIN m = 1..(n + k)
      /\ \A i \in 1..n : m[i] = a[i]
      /\ \A i \in 1..k : m[n + i] = b[i]
  <2>1. a \in Seq(Entries) /\ b \in Seq(Entries) /\ n \in Nat /\ k \in Nat
    BY <1>2, <1>5
  <2>2. Len(a) = n /\ Len(b) = k
    BY <1>5
  <2>3. Len(m) = n + k /\ DOMAIN m = 1..Len(m)
    <3>1. Len(a \o b) = Len(a) + Len(b)
      BY <2>1
    <3>2. m \in Seq(Entries)
      BY <1>1, <2>1
    <3>3. DOMAIN m = 1..Len(m)
      BY <3>2
    <3> QED BY <1>1, <2>2, <3>1, <3>3
  <2>4. \A i \in 1..n : m[i] = a[i]
    BY <1>1, <2>1, <2>2
  <2>5. \A i \in 1..k : m[n + i] = b[i]
    BY <1>1, <2>1, <2>2
  <2> QED BY <2>3, <2>4, <2>5
<1>7. \A i \in 1..n : "internal" \notin m[i].flags
  BY <1>3, <1>4, <1>6
<1>8. \A i \in 1..k : "internal" \in m[n + i].flags
  BY <1>4, <1>6
<1>9. \A i \in (n + 1)..(n + k) : "internal" \in m[i].flags
  <2>1. \A i \in (n + 1)..(n + k) : i - n \in 1..k /\ i = n + (i - n)
    BY <1>2
  <2> QED BY <1>8, <2>1
<1>10. InternalsOf(m) = (n + 1)..(n + k)
  <2>1. \A i \in 1..(n + k) : i \in 1..n \/ i \in (n + 1)..(n + k)
    BY <1>2
  <2>2. \A i \in (n + 1)..(n + k) : i \in 1..(n + k) /\ i \notin 1..n
    BY <1>2
  <2> QED BY <1>6, <1>7, <1>9, <2>1, <2>2 DEF InternalsOf
<1>11. DOMAIN m \ InternalsOf(m) = (0 + 1)..(0 + n)
  BY <1>2, <1>6, <1>10
<1> QED BY <1>2, <1>4, <1>6, <1>10, <1>11 DEF m, n, k

\* What is at consecutive places.
LEMMA AtInterval ==
  ASSUME NEW s, NEW a \in Nat, NEW n \in Nat
  PROVE  AtPlaces(s, (a + 1)..(a + n)) = [k \in 1..n |-> s[a + k]]
<1>1. InOrder((a + 1)..(a + n)) = [k \in 1..n |-> a + k]
  BY OrderOfInterval
<1> QED BY <1>1 DEF AtPlaces

\* The NAA's regions, made from the message.
LEMMA GoodNaaRegions ==
  ASSUME NEW x, GoodContext(x), x.stage = "announced"
  PROVE  LET message   == Message(x)
             normal    == AtPlaces(message, DOMAIN message \ InternalsOf(message))
             internals == AtPlaces(message, InternalsOf(message))
         IN GoodContext([x EXCEPT
              !.stage = "answered",
              !.naa_local = [i \in DOMAIN normal |->
                [size |-> normal[i].size, mr |-> normal[i].mr,
                 roles |-> normal[i].flags]],
              !.naa_internal = [i \in DOMAIN internals |-> internals[i].size]])
<1> DEFINE m == Message(x)
           n == Len(x.local)
           k == Len(Internal)
           normal == AtPlaces(m, DOMAIN m \ InternalsOf(m))
           internals == AtPlaces(m, InternalsOf(m))
           nl == [i \in DOMAIN normal |-> [size |-> normal[i].size,
                                           mr |-> normal[i].mr,
                                           roles |-> normal[i].flags]]
           ni == [i \in DOMAIN internals |-> internals[i].size]
           z == [x EXCEPT !.stage = "answered", !.naa_local = nl, !.naa_internal = ni]
<1>1. x \in ContextRecords /\ x.told \in Seq(SUBSET Roles) /\ Len(x.told) = n
  BY DEF GoodContext, Agreed, ContextRecords, Told
<1>2. /\ n \in Nat /\ k \in Nat
      /\ \A i \in 1..n : m[i] = [flags |-> x.told[i],
                                 size |-> Size[x.local[i].addr], mr |-> i]
      /\ \A i \in 1..k : m[n + i] = [flags |-> {"internal"},
                                     size |-> Internal[i], mr |-> 0]
      /\ InternalsOf(m) = (n + 1)..(n + k)
      /\ DOMAIN m \ InternalsOf(m) = (0 + 1)..(0 + n)
  BY MessageIs DEF Told
<1>3. normal = [i \in 1..n |-> m[0 + i]] /\ internals = [i \in 1..k |-> m[n + i]]
  <2>1. normal = AtPlaces(m, (0 + 1)..(0 + n))
    BY <1>2 DEF normal
  <2>2. internals = AtPlaces(m, (n + 1)..(n + k))
    BY <1>2 DEF internals
  <2> HIDE DEF m, n, k, normal, internals
  <2>3. AtPlaces(m, (0 + 1)..(0 + n)) = [i \in 1..n |-> m[0 + i]]
    <3>1. 0 \in Nat /\ n \in Nat
      BY <1>2
    <3> QED BY <3>1, AtInterval
  <2>4. AtPlaces(m, (n + 1)..(n + k)) = [i \in 1..k |-> m[n + i]]
    BY <1>2, AtInterval
  <2> QED BY <2>1, <2>2, <2>3, <2>4
<1> HIDE DEF m, normal, internals
<1>4. nl = [i \in 1..n |-> [size |-> Size[x.local[i].addr], mr |-> i,
                            roles |-> x.told[i]]]
  <2>1. DOMAIN normal = 1..n
    BY <1>3
  <2>2. ASSUME NEW i \in 1..n
        PROVE  normal[i] = [flags |-> x.told[i], size |-> Size[x.local[i].addr],
                            mr |-> i]
    <3>1. 0 + i = i
      OBVIOUS
    <3> QED BY <1>2, <1>3, <3>1
  <2> HIDE DEF n
  <2> QED BY <2>1, <2>2
<1>5. ni = Internal
  <2>1. ni = [i \in 1..k |-> Internal[i]]
    <3>1. ASSUME NEW i \in 1..k PROVE internals[i].size = Internal[i]
      <4>1. internals[i] = m[n + i]
        BY <1>3
      <4>2. m[n + i] = [flags |-> {"internal"}, size |-> Internal[i], mr |-> 0]
        BY <1>2
      <4> QED BY <4>1, <4>2
    <3>2. DOMAIN internals = 1..k
      BY <1>3
    <3> QED BY <3>1, <3>2
  <2>2. Internal = [i \in 1..k |-> Internal[i]]
    BY Constants
  <2> QED BY <2>1, <2>2
<1>6. nl \in Seq(NaaRegions) /\ Len(nl) = n /\ ni \in Seq(Nat)
      /\ \A i \in 1..n : nl[i] = [size |-> Size[x.local[i].addr], mr |-> i,
                                  roles |-> x.told[i]]
  <2>1. ASSUME NEW i \in 1..n
        PROVE  [size |-> Size[x.local[i].addr], mr |-> i, roles |-> x.told[i]]
                 \in NaaRegions
    <3>1. x.told[i] \in SUBSET Roles /\ x.local[i].addr \in Blocks
      BY <1>1, LocalOf
    <3>2. Size[x.local[i].addr] \in Nat
      BY <3>1, Constants
    <3> QED BY <3>1, <3>2 DEF NaaRegions
  <2>2. Internal \in Seq(Nat)
    BY Constants
  <2> HIDE DEF n, nl, ni
  <2> QED BY <1>2, <1>4, <1>5, <2>1, <2>2
<1> HIDE DEF nl, ni
<1>7. /\ z \in ContextRecords /\ z.local = x.local /\ z.stage = "answered"
      /\ z.writes = x.writes /\ z.fncode = x.fncode /\ z.immediate = x.immediate
      /\ z.told = x.told /\ z.naa_local = nl /\ z.naa_internal = ni
      /\ Regions(z) = Regions(x)
  <2>1. "answered" \in Stages
    BY DEF Stages
  <2> QED BY <1>1, <1>6, <2>1 DEF ContextRecords, Regions
<1>8. z = [x EXCEPT
              !.stage = "answered",
              !.naa_local = [i \in DOMAIN normal |->
                [size |-> normal[i].size, mr |-> normal[i].mr,
                 roles |-> normal[i].flags]],
              !.naa_internal = [i \in DOMAIN internals |-> internals[i].size]]
  BY DEF nl, ni
<1> HIDE DEF z
<1>9. Counted(z) /\ Limited(z) /\ HavingRole(z, "input") = HavingRole(x, "input")
  BY <1>7, SameRegions DEF GoodContext
<1>10. Agreed(z)
  BY <1>1, <1>5, <1>6, <1>7 DEF Agreed, Told, Made, Recorded
<1>11. Written(z) /\ Numbered(z)
  BY <1>7, <1>9 DEF GoodContext, Written, Numbered, Recorded
<1>12. GoodContext(z)
  BY <1>7, <1>9, <1>10, <1>11 DEF GoodContext
<1> QED BY <1>8, <1>12 DEF normal, internals, m

\* The host's record of them.
LEMMA GoodRecordPeers ==
  ASSUME NEW x, GoodContext(x), x.stage = "answered"
  PROVE  LET z == [x EXCEPT !.stage = "ready",
                            !.local = [i \in DOMAIN @ |-> [@[i] EXCEPT !.peer = i]]]
         IN /\ GoodContext(z) /\ Len(z.local) = Len(x.local)
            /\ \A i \in 1..Len(x.local) : /\ z.local[i].addr = x.local[i].addr
                                          /\ z.local[i].roles = x.local[i].roles
<1> DEFINE n == Len(x.local)
           l == [i \in DOMAIN x.local |-> [x.local[i] EXCEPT !.peer = i]]
           z == [x EXCEPT !.stage = "ready", !.local = l]
<1>1. x \in ContextRecords /\ n \in Nat /\ DOMAIN x.local = 1..n
      /\ \A i \in 1..n : x.local[i] \in LocalRegions
  BY LocalOf DEF GoodContext
<1>2. l \in Seq(LocalRegions) /\ Len(l) = n /\ DOMAIN l = 1..n
  <2>1. \A i \in 1..n : [x.local[i] EXCEPT !.peer = i] \in LocalRegions
    BY <1>1 DEF LocalRegions
  <2> HIDE DEF n
  <2> QED BY <1>1, <2>1
<1>3. \A i \in 1..n : /\ l[i].addr = x.local[i].addr /\ l[i].roles = x.local[i].roles
                      /\ l[i].bytes = x.local[i].bytes /\ l[i].peer = i
  BY <1>1 DEF LocalRegions
<1> HIDE DEF l
<1>4. /\ z \in ContextRecords /\ z.local = l /\ z.stage = "ready"
      /\ z.writes = x.writes /\ z.fncode = x.fncode /\ z.immediate = x.immediate
      /\ z.told = x.told /\ z.naa_local = x.naa_local
      /\ z.naa_internal = x.naa_internal
      /\ z.no_input_mrs = x.no_input_mrs /\ z.no_output_mrs = x.no_output_mrs
  <2>1. "ready" \in Stages
    BY DEF Stages
  <2> QED BY <1>1, <1>2, <2>1 DEF ContextRecords
<1>5. z = [x EXCEPT !.stage = "ready",
                    !.local = [i \in DOMAIN @ |-> [@[i] EXCEPT !.peer = i]]]
  BY DEF l
<1> HIDE DEF z
<1>6. HavingRole(z, "input") = HavingRole(x, "input")
      /\ HavingRole(z, "output") = HavingRole(x, "output")
  BY <1>1, <1>2, <1>3, <1>4 DEF HavingRole, Has
<1>7. Counted(z) /\ Numbered(z)
  BY <1>4, <1>6 DEF GoodContext, Counted, Numbered
<1>8. Limited(z)
  BY <1>2, <1>3, <1>4 DEF GoodContext, Limited
<1>9. Agreed(z)
  BY <1>2, <1>3, <1>4 DEF GoodContext, Agreed, Told, Made, Recorded
<1>10. Written(z)
  BY <1>2, <1>3, <1>4 DEF GoodContext, Written, Recorded
<1>11. GoodContext(z)
  BY <1>4, <1>7, <1>8, <1>9, <1>10 DEF GoodContext
<1> QED BY <1>2, <1>3, <1>4, <1>5, <1>11

-------------------------------------------------------------------------------
(***************************************************************************)
(* A call.                                                                 *)
(***************************************************************************)
\* Single-send regions are no inputs of a later call, and counted no longer.
LEMMA WithoutDroppedIs ==
  ASSUME NEW x, GoodContext(x)
  PROVE  LET z == WithoutDropped(x)
         IN /\ z \in ContextRecords /\ Counted(z) /\ OnlyFlags(x, z)
            /\ HavingRole(z, "input") \subseteq HavingRole(x, "input")
            /\ x.no_rpc_calls > 0 =>
                 HavingRole(z, "input") \cap HavingRole(x, "single") = {}
<1> DEFINE d == Dropped(x)
           c == x.no_input_mrs - Cardinality(d)
           l == [i \in DOMAIN x.local |-> IF i \in d
                    THEN [x.local[i] EXCEPT !.roles = x.local[i].roles \ {"input"}]
                    ELSE x.local[i]]
           z == WithoutDropped(x)
<1>1. x \in ContextRecords /\ Counted(x)
  BY DEF GoodContext
<1>2. z = [x EXCEPT !.no_input_mrs = c, !.local = l]
  BY <1>1 DEF WithoutDropped, ContextRecords
<1>3. d \subseteq HavingRole(x, "input")
  BY DEF Dropped
<1>4. x.no_rpc_calls > 0 => d = HavingRole(x, "single") \cap HavingRole(x, "input")
  BY DEF Dropped
<1>5. c = Cardinality(HavingRole(x, "input") \ d) /\ c \in Nat
  <2> DEFINE h == HavingRole(x, "input")
  <2>1. IsFiniteSet(h) /\ x.no_input_mrs = Cardinality(h)
    BY <1>1, HavingRoleFinite DEF Counted
  <2>2. h \cap d = d
    BY <1>3
  <2> HIDE DEF h, d
  <2>3. IsFiniteSet(h \ d) /\ Cardinality(h \ d) = Cardinality(h) - Cardinality(h \cap d)
    BY <2>1, FS_Difference
  <2>4. Cardinality(h \ d) \in Nat
    BY <2>3, FS_CardinalityType
  <2> QED BY <2>1, <2>2, <2>3, <2>4 DEF h
<1> HIDE DEF d, c, z
<1>6. \A i \in 1..Len(x.local) :
        l[i] = IF i \in d THEN [x.local[i] EXCEPT !.roles = x.local[i].roles \ {"input"}]
                          ELSE x.local[i]
  BY <1>1, LocalOf
<1>7. \A i \in 1..Len(x.local) :
        /\ l[i] \in LocalRegions
        /\ l[i].addr = x.local[i].addr /\ l[i].peer = x.local[i].peer
        /\ l[i].bytes = x.local[i].bytes
        /\ l[i].roles = x.local[i].roles \ (IF i \in d THEN {"input"} ELSE {})
  <2> HIDE DEF l
  <2> SUFFICES ASSUME NEW i \in 1..Len(x.local)
               PROVE  /\ l[i] \in LocalRegions
                      /\ l[i].addr = x.local[i].addr /\ l[i].peer = x.local[i].peer
                      /\ l[i].bytes = x.local[i].bytes
                      /\ l[i].roles =
                           x.local[i].roles \ (IF i \in d THEN {"input"} ELSE {})
    OBVIOUS
  <2>1. x.local[i] \in LocalRegions
    BY <1>1, LocalOf
  <2>2. CASE i \in d
    <3>1. l[i] = [x.local[i] EXCEPT !.roles = x.local[i].roles \ {"input"}]
      BY <1>6, <2>2
    <3> QED BY <2>1, <2>2, <3>1 DEF LocalRegions
  <2>3. CASE i \notin d
    <3>1. l[i] = x.local[i]
      BY <1>6, <2>3
    <3> QED BY <2>1, <2>3, <3>1 DEF LocalRegions
  <2> QED BY <2>2, <2>3
<1>8. DOMAIN l = 1..Len(x.local)
  BY <1>1, LocalOf
<1> HIDE DEF l
<1>9. l \in Seq(LocalRegions) /\ Len(l) = Len(x.local)
  <2> DEFINE n == Len(x.local)
  <2>1. n \in Nat
    BY <1>1, LocalOf
  <2>2. l = [i \in 1..n |-> l[i]]
    BY <1>8 DEF l
  <2>3. \A i \in 1..n : l[i] \in LocalRegions
    BY <1>7
  <2> HIDE DEF n
  <2>4. l \in [1..n -> LocalRegions]
    BY <2>2, <2>3
  <2> QED BY <2>1, <2>4 DEF n
<1>10. /\ z \in ContextRecords /\ OnlyFlags(x, z) /\ z.local = l
       /\ z.no_input_mrs = c /\ z.no_output_mrs = x.no_output_mrs
  BY <1>2, <1>1, <1>5, <1>7, <1>9 DEF ContextRecords, OnlyFlags
<1>11. /\ HavingRole(z, "input") = HavingRole(x, "input") \ d
       /\ HavingRole(z, "output") = HavingRole(x, "output")
  <2>1. \A i \in 1..Len(x.local) :
          /\ "input" \in l[i].roles <=> "input" \in x.local[i].roles /\ i \notin d
          /\ "output" \in l[i].roles <=> "output" \in x.local[i].roles
    BY <1>7
  <2> QED BY <1>1, <1>8, <1>10, <2>1, LocalOf DEF HavingRole, Has
<1>12. Counted(z)
  BY <1>1, <1>5, <1>10, <1>11 DEF Counted
<1> QED BY <1>4, <1>10, <1>11, <1>12 DEF z

\* The mask changes neither what the function code is cut to nor the user bytes.
LEMMA OrMaskIs ==
  ASSUME NEW fncode \in 0..255, NEW user \in Nat
  PROVE  LET imm == fncode + 256 * user
         IN /\ OrMask(imm) \in Nat
            /\ ImmFncode(OrMask(imm)) = fncode % START_RPC_MASK
            /\ ImmUser(OrMask(imm)) = imm \div 256
<1> DEFINE imm == fncode + 256 * user
<1>1. ASSUME NEW g \in 0..255
      PROVE  (g + 256 * user) % 128 = g % 128 /\ (g + 256 * user) \div 256 = user
  OBVIOUS
<1>2. imm \div 256 = user
  BY <1>1
<1>3. CASE fncode < 128
  <2>1. imm \div 128 = 2 * user /\ (2 * user) % 2 = 0
    BY <1>3
  <2>2. OrMask(imm) = (fncode + 128) + 256 * user
    BY <1>3, <2>1 DEF OrMask, START_RPC_MASK
  <2>3. (fncode + 128) % 128 = fncode % 128 /\ fncode + 128 \in 0..255
    BY <1>3
  <2> QED BY <1>1, <1>2, <2>2, <2>3 DEF ImmFncode, ImmUser, START_RPC_MASK
<1>4. CASE fncode >= 128
  <2>1. imm \div 128 = 2 * user + 1 /\ (2 * user + 1) % 2 = 1
    BY <1>4
  <2>2. OrMask(imm) = imm
    BY <2>1 DEF OrMask, START_RPC_MASK
  <2> QED BY <1>1, <1>2, <2>2 DEF ImmFncode, ImmUser, START_RPC_MASK
<1> QED BY <1>3, <1>4

\* Every input is written, whole or as limited, the last with the immediate.
LEMMA WriteListIs ==
  ASSUME NEW x \in ContextRecords, Counted(x), Limited(x), Numbered(x)
  PROVE  LET w == WriteList(x)
             n == x.no_input_mrs
         IN /\ w \in Seq(WriteRequests) /\ Len(w) = n /\ n \in Nat
            /\ n = 0 <=> HavingRole(x, "input") = {}
            /\ \A k \in 1..n :
                 /\ w[k].mr \in HavingRole(x, "input") /\ w[k].mr \in 1..Len(x.local)
                 /\ w[k].bytes <= Size[x.local[w[k].mr].addr]
                 /\ w[k].withImm <=> k = n
            /\ n > 0 => /\ ImmFncode(w[n].imm) = x.fncode % START_RPC_MASK
                        /\ ImmUser(w[n].imm) = x.immediate \div 256
<1> DEFINE h == HavingRole(x, "input")
           s == InOrder(h)
           n == x.no_input_mrs
           w == WriteList(x)
           Entry(k) == [mr |-> s[k], bytes |-> x.local[s[k]].bytes, withImm |-> k = n,
                        imm |-> IF k = n THEN OrMask(x.immediate) ELSE 0]
<1>1. h \in SUBSET (1..Len(x.local)) /\ IsFiniteSet(h) /\ Len(x.local) \in Nat
  BY HavingRoleFinite, LocalOf
<1>2. n = Cardinality(h) /\ n \in Nat
  BY <1>1, HavingRoleFinite DEF Counted
<1>3. s \in [1..n -> h]
  BY <1>1, <1>2, InOrderIs
<1>4. Len(s) = n
  <2>1. s \in Seq(h)
    <3> HIDE DEF n, s, h
    <3> QED BY <1>2, <1>3
  <2>2. DOMAIN s = 1..n /\ DOMAIN s = 1..Len(s) /\ Len(s) \in Nat
    BY <1>3, <2>1
  <2> HIDE DEF n, s, h
  <2> QED BY <1>2, <2>2
<1>5. w = [k \in 1..n |-> Entry(k)]
  BY <1>2, <1>4 DEF WriteList
<1>6. PICK user \in Nat : x.immediate = x.fncode + 256 * user
  BY DEF Numbered
<1>7. x.fncode \in 0..255
  BY DEF ContextRecords
<1>8. /\ OrMask(x.immediate) \in Nat
      /\ ImmFncode(OrMask(x.immediate)) = x.fncode % START_RPC_MASK
      /\ ImmUser(OrMask(x.immediate)) = x.immediate \div 256
  <2> DEFINE imm == x.fncode + 256 * user
  <2>1. /\ OrMask(imm) \in Nat
        /\ ImmFncode(OrMask(imm)) = x.fncode % START_RPC_MASK
        /\ ImmUser(OrMask(imm)) = imm \div 256
    BY <1>7, OrMaskIs
  <2> HIDE DEF imm
  <2> QED BY <1>6, <2>1 DEF imm
<1>9. n = 0 <=> h = {}
  BY <1>1, <1>2, FS_EmptySet
<1> HIDE DEF h, s, n, w
<1>10. \A k \in 1..n : s[k] \in h /\ s[k] \in 1..Len(x.local)
  BY <1>1, <1>3
<1>11. ASSUME NEW k \in 1..n
       PROVE  /\ w[k] \in WriteRequests /\ w[k].mr = s[k]
              /\ w[k].bytes = x.local[s[k]].bytes /\ w[k].withImm = (k = n)
              /\ w[k].imm = IF k = n THEN OrMask(x.immediate) ELSE 0
  <2>1. s[k] \in Nat /\ x.local[s[k]].bytes \in Nat
    <3>1. x.local[s[k]] \in LocalRegions
      BY <1>10, LocalOf
    <3> QED BY <1>1, <1>10, <3>1 DEF LocalRegions
  <2>2. w[k] = Entry(k)
    BY <1>5
  <2> HIDE DEF w
  <2>3. (IF k = n THEN OrMask(x.immediate) ELSE 0) \in Nat
    BY <1>8
  <2>4. (k = n) \in BOOLEAN
    OBVIOUS
  <2> QED BY <2>1, <2>2, <2>3, <2>4 DEF WriteRequests
<1>12. w \in Seq(WriteRequests) /\ Len(w) = n
  <2>1. w \in [1..n -> WriteRequests]
    <3> HIDE DEF Entry
    <3> QED BY <1>5, <1>11
  <2> QED BY <1>2, <2>1
<1>13. \A k \in 1..n :
         /\ w[k].mr \in h /\ w[k].mr \in 1..Len(x.local)
         /\ w[k].bytes <= Size[x.local[w[k].mr].addr]
         /\ w[k].withImm <=> k = n
  BY <1>10, <1>11 DEF Limited
<1>14. n > 0 => n \in 1..n
  BY <1>2
<1>15. n > 0 => w[n].imm = OrMask(x.immediate)
  BY <1>11, <1>14
<1>16. n > 0 => /\ ImmFncode(w[n].imm) = x.fncode % START_RPC_MASK
                 /\ ImmUser(w[n].imm) = x.immediate \div 256
  BY <1>8, <1>15
<1> QED BY <1>2, <1>9, <1>12, <1>13, <1>16 DEF w, n, h

\* A context after a call, in terms of the one before.
AfterCall(x) ==
  LET y == WithoutDropped(x)
  IN [y EXCEPT !.writes = WriteList(y), !.no_rpc_calls = @ + 1,
               !.stage = IF y.no_input_mrs = 0 THEN "undefined" ELSE @]

\* naaice_init_data_transfer, with what is promised of a call.
LEMMA GoodCall ==
  ASSUME NEW x, GoodContext(x), x.stage = "ready", x.no_rpc_calls < MaxRpcCalls
  PROVE  LET z == AfterCall(x)
             n == Len(z.writes)
         IN /\ GoodContext(z) /\ z.no_rpc_calls = x.no_rpc_calls + 1
            /\ z.stage \in {"ready", "undefined"} /\ Len(z.local) = Len(x.local)
            /\ \A i \in 1..Len(x.local) : z.local[i].addr = x.local[i].addr
            /\ x.no_rpc_calls > 0 =>
                 \A k \in 1..n : z.writes[k].mr \notin HavingRole(x, "single")
            /\ z.stage = "ready" =>
                 /\ n > 0 /\ \A k \in 1..n : z.writes[k].withImm <=> k = n
                 /\ ImmFncode(z.writes[n].imm) = z.fncode % START_RPC_MASK
                 /\ ImmUser(z.writes[n].imm) = x.immediate \div 256
<1> DEFINE y == WithoutDropped(x)
           w == WriteList(y)
           stage == IF y.no_input_mrs = 0 THEN "undefined" ELSE y.stage
           z == [y EXCEPT !.writes = w, !.no_rpc_calls = y.no_rpc_calls + 1,
                          !.stage = stage]
<1>1. /\ y \in ContextRecords /\ Counted(y) /\ OnlyFlags(x, y)
      /\ x.no_rpc_calls > 0 => HavingRole(y, "input") \cap HavingRole(x, "single") = {}
  BY WithoutDroppedIs
<1>2. AfterCall(x) = z
  BY DEF AfterCall
<1> HIDE DEF y
<1>3. Limited(y) /\ Agreed(y) /\ Numbered(y)
  BY <1>1 DEF GoodContext, Limited, Agreed, Numbered, OnlyFlags
<1>4. /\ w \in Seq(WriteRequests) /\ Len(w) = y.no_input_mrs /\ y.no_input_mrs \in Nat
      /\ y.no_input_mrs = 0 <=> HavingRole(y, "input") = {}
      /\ \A k \in 1..Len(w) :
           /\ w[k].mr \in HavingRole(y, "input") /\ w[k].mr \in 1..Len(y.local)
           /\ w[k].bytes <= Size[y.local[w[k].mr].addr]
           /\ w[k].withImm <=> k = Len(w)
      /\ Len(w) > 0 => /\ ImmFncode(w[Len(w)].imm) = y.fncode % START_RPC_MASK
                       /\ ImmUser(w[Len(w)].imm) = y.immediate \div 256
  BY <1>1, <1>3, WriteListIs
<1> HIDE DEF w
<1>5. /\ y.stage = "ready" /\ stage \in {"ready", "undefined"} /\ stage \in Stages
      /\ stage = "undefined" <=> y.no_input_mrs = 0
  BY <1>1 DEF OnlyFlags, Stages
<1> HIDE DEF stage
<1>6. y.no_rpc_calls = x.no_rpc_calls /\ y.no_rpc_calls + 1 \in 0..MaxRpcCalls
  <2>1. y.no_rpc_calls \in 0..MaxRpcCalls /\ y.no_rpc_calls = x.no_rpc_calls
    BY <1>1 DEF OnlyFlags, ContextRecords
  <2> QED BY <2>1, Constants
<1>7. /\ z \in ContextRecords /\ z.local = y.local /\ z.stage = stage
      /\ z.writes = w /\ z.no_rpc_calls = x.no_rpc_calls + 1
      /\ z.fncode = y.fncode /\ z.immediate = y.immediate /\ z.told = y.told
      /\ z.naa_local = y.naa_local /\ z.naa_internal = y.naa_internal
      /\ Regions(z) = Regions(y)
  <2>1. w \in Seq(WriteRequests)
    BY <1>4
  <2>2. stage \in Stages
    BY <1>5
  <2> QED BY <1>1, <1>6, <2>1, <2>2 DEF ContextRecords, Regions
<1> HIDE DEF z
<1>8. Counted(z) /\ Limited(z) /\ HavingRole(z, "input") = HavingRole(y, "input")
  BY <1>1, <1>3, <1>7, SameRegions
<1>9. Numbered(z)
  BY <1>3, <1>7 DEF Numbered
<1>10. z.stage \in Recorded /\ y.stage \in Told /\ y.stage \in Made /\ y.stage \in Recorded
  BY <1>5, <1>7 DEF Told, Made, Recorded
<1>11. Agreed(z)
  BY <1>3, <1>7, <1>10 DEF Agreed
<1>12. Written(z)
  BY <1>4, <1>7, <1>10 DEF Written
<1>14. GoodContext(z)
  BY <1>7, <1>8, <1>9, <1>11, <1>12 DEF GoodContext
<1>15. z.stage = "ready" => Len(z.writes) > 0
  BY <1>4, <1>5, <1>7
<1>16. /\ Len(z.local) = Len(x.local)
       /\ \A i \in 1..Len(x.local) : z.local[i].addr = x.local[i].addr
       /\ y.immediate = x.immediate /\ y.fncode = z.fncode
  BY <1>1, <1>7 DEF OnlyFlags
<1>17. x.no_rpc_calls > 0 =>
         \A k \in 1..Len(z.writes) : z.writes[k].mr \notin HavingRole(x, "single")
  BY <1>1, <1>4, <1>7
<1> QED BY <1>2, <1>4, <1>5, <1>7, <1>14, <1>15, <1>16, <1>17

-------------------------------------------------------------------------------
(***************************************************************************)
(* The session that naa_create configures.                                 *)
(***************************************************************************)
SessionRecords == [item : 0..Len(JobSpec), inputs : Seq(Blocks),
                   outputs : Seq(Blocks), singles : SUBSET Blocks]

\* The roles of a block that is a parameter of s.
RolesOf(s, a) ==
  {role \in Roles : CASE role = "input" -> a \in Range(s.inputs) \cup s.singles
                      [] role = "output" -> a \in Range(s.outputs)
                      [] role = "single" -> a \in s.singles}

\* The roles of a parameter, one by one.
LEMMA RolesOfIs ==
  ASSUME NEW s, NEW a
  PROVE  RolesOf(s, a) =
           (IF a \in Range(s.inputs) \cup s.singles THEN {"input"} ELSE {})
             \cup (IF a \in Range(s.outputs) THEN {"output"} ELSE {})
             \cup (IF a \in s.singles THEN {"single"} ELSE {})
<1> DEFINE Is(role) == CASE role = "input" -> a \in Range(s.inputs) \cup s.singles
                         [] role = "output" -> a \in Range(s.outputs)
                         [] role = "single" -> a \in s.singles
<1>1. /\ Is("input") <=> a \in Range(s.inputs) \cup s.singles
      /\ Is("output") <=> a \in Range(s.outputs)
      /\ Is("single") <=> a \in s.singles
  OBVIOUS
<1>2. RolesOf(s, a) = {role \in Roles : Is(role)}
  BY DEF RolesOf
<1> HIDE DEF Is
<1> QED BY <1>1, <1>2 DEF Roles

\* Parameter lists have no block twice.
LEMMA ParamListsAre ==
  ASSUME NEW params \in ParamLists
  PROVE  params \in Seq(Blocks) /\ IsInjective(params)
<1>1. params \in SeqOf(Blocks, MaxParams) /\ IsInjective(params)
  BY DEF ParamLists
<1>2. PICK m \in 0..MaxParams : params \in [1..m -> Blocks]
  BY <1>1 DEF SeqOf
<1>3. m \in Nat
  BY SessionAssumption DEF SessionAssumption
<1>4. params \in Seq(Blocks)
  BY <1>2, <1>3
<1> QED BY <1>1, <1>4

\* The items, and what is left of their function codes in a byte.
LEMMA JobSpecIs ==
  /\ DOMAIN JobSpec = 1..Len(JobSpec) /\ Len(JobSpec) \in Nat
  /\ \A i \in DOMAIN JobSpec : Narrowed(JobSpec[i].fn_code) \in 0..255
<1> DEFINE T == [fn_code : Nat, param_count : Nat]
<1>1. JobSpec \in Seq(T)
  BY SessionAssumption DEF SessionAssumption
<1>2. DOMAIN JobSpec = 1..Len(JobSpec) /\ Len(JobSpec) \in Nat
  BY <1>1
<1>3. ASSUME NEW i \in DOMAIN JobSpec PROVE Narrowed(JobSpec[i].fn_code) \in 0..255
  <2>1. JobSpec[i] \in T
    <3> HIDE DEF T
    <3> QED BY <1>1
  <2>2. JobSpec[i].fn_code \in Nat
    BY <2>1
  <2>3. ASSUME NEW n \in Nat PROVE n % 256 \in 0..255
    OBVIOUS
  <2> QED BY <2>2, <2>3 DEF Narrowed
<1> QED BY <1>2, <1>3

\* The parameters' regions, and nothing else, each with its roles.
Covered(x, s) ==
  \A i \in 1..Len(x.local) : x.local[i].roles = RolesOf(s, x.local[i].addr)

\* naa_create's context: a region of each parameter, with its roles.
LEMMA ConfiguredIs ==
  ASSUME NEW s \in SessionRecords, s.item \in DOMAIN JobSpec,
         IsInjective(s.inputs), IsInjective(s.outputs),
         s.singles \subseteq Range(s.inputs) \cup Range(s.outputs)
  PROVE  LET z == Configured(s)
         IN /\ GoodContext(z) /\ Apart(z) /\ Covered(z, s)
            /\ z.stage = "configured" /\ z.no_rpc_calls = 0
<1> DEFINE p == ParamRegions(s.inputs, s.outputs)
           fncode == Narrowed(JobSpec[s.item].fn_code)
           x == NewContext(p, fncode)
           y == FlagParams(x, s.inputs, s.singles, "input")
           z == FlagParams(y, s.outputs, s.singles, "output")
           n == Len(p)
<1>1. s.inputs \in Seq(Blocks) /\ s.outputs \in Seq(Blocks)
  BY DEF SessionRecords
<1>2. /\ p \in Seq(Blocks) /\ IsInjective(p)
      /\ Range(p) = Range(s.inputs) \cup Range(s.outputs)
  BY <1>1, ParamRegionsIs
<1>3. fncode \in 0..255
  BY JobSpecIs
<1>4. Configured(s) = z
  BY DEF Configured
<1> HIDE DEF p, fncode, x, y, z
<1>5. /\ x \in ContextRecords /\ Counted(x) /\ Len(x.local) = n
      /\ \A i \in 1..n : x.local[i] = [addr |-> p[i], peer |-> 0,
                                       bytes |-> Size[p[i]], roles |-> {}]
      /\ x.stage = "configured" /\ x.no_rpc_calls = 0 /\ Apart(x) /\ GoodContext(x)
  BY <1>2, <1>3, NewContextIs, GoodNew DEF x
<1>6. n \in Nat /\ DOMAIN p = 1..n
  BY <1>2
<1> HIDE DEF n
<1>7. \A i \in 1..n : x.local[i].addr = p[i] /\ x.local[i].roles = {}
  <2> SUFFICES ASSUME NEW i \in 1..n
               PROVE  x.local[i].addr = p[i] /\ x.local[i].roles = {}
    OBVIOUS
  <2>1. x.local[i] = [addr |-> p[i], peer |-> 0, bytes |-> Size[p[i]], roles |-> {}]
    BY <1>5
  <2> QED BY <2>1
<1>8. ASSUME NEW q \in Seq(Blocks), Range(q) \subseteq Range(p), NEW k \in 1..Len(q)
      PROVE  \E i \in 1..n : p[i] = q[k]
  <2>1. q[k] \in Range(q)
    BY <1>8 DEF Range
  <2>2. q[k] \in Range(p)
    BY <1>8, <2>1
  <2> QED BY <1>6, <2>2 DEF Range
<1>9. "input" \in Roles /\ "output" \in Roles
  BY DEF Roles
<1>10. /\ y \in ContextRecords /\ Counted(y) /\ OnlyFlags(x, y)
       /\ \A j \in 1..n :
            y.local[j].roles =
              x.local[j].roles \cup
                (IF x.local[j].addr \in Range(s.inputs)
                 THEN GivenTo(x.local[j].addr, s.singles, "input") ELSE {})
  <2>1. Range(s.inputs) \subseteq Range(p)
    BY <1>2
  <2>2. \A k \in 1..Len(s.inputs) :
          \E i \in 1..Len(x.local) : x.local[i].addr = s.inputs[k]
    BY <1>1, <1>5, <1>7, <1>8, <2>1
  <2> QED BY <1>1, <1>5, <1>9, <2>2, FlagParamsIs DEF y
<1>11. Len(y.local) = n /\ \A j \in 1..n : y.local[j].addr = p[j]
  BY <1>5, <1>7, <1>10 DEF OnlyFlags
<1>12. Apart(y)
  BY <1>5, <1>7, <1>11 DEF Apart
<1>13. /\ z \in ContextRecords /\ Counted(z) /\ OnlyFlags(y, z)
       /\ \A j \in 1..n :
            z.local[j].roles =
              y.local[j].roles \cup
                (IF y.local[j].addr \in Range(s.outputs)
                 THEN GivenTo(y.local[j].addr, s.singles, "output") ELSE {})
  <2>1. Range(s.outputs) \subseteq Range(p)
    BY <1>2
  <2>2. \A k \in 1..Len(s.outputs) :
          \E i \in 1..Len(y.local) : y.local[i].addr = s.outputs[k]
    BY <1>1, <1>8, <1>11, <2>1
  <2> QED BY <1>1, <1>9, <1>10, <1>11, <1>12, <2>2, FlagParamsIs DEF z
<1>14. Len(z.local) = n /\ \A j \in 1..n : z.local[j].addr = p[j]
  BY <1>11, <1>13 DEF OnlyFlags
<1>15. Apart(z)
  BY <1>11, <1>12, <1>14 DEF Apart
<1>16. OnlyFlags(x, z)
  BY <1>10, <1>13, OnlyFlagsTwice
<1>17. GoodContext(z)
  BY <1>5, <1>13, <1>16, GoodFlags
<1>18. z.stage = "configured" /\ z.no_rpc_calls = 0
  BY <1>5, <1>16 DEF OnlyFlags
<1>19. ASSUME NEW j \in 1..n PROVE z.local[j].roles = RolesOf(s, p[j])
  <2> DEFINE a == p[j]
             given == IF a \in s.singles THEN {"single", "input"} ELSE {}
  <2>1. a \in Range(s.inputs) \cup Range(s.outputs)
    BY <1>2, <1>6 DEF Range
  <2>2. z.local[j].roles =
          (IF a \in Range(s.inputs) THEN {"input"} \cup given ELSE {})
            \cup (IF a \in Range(s.outputs) THEN {"output"} \cup given ELSE {})
    BY <1>7, <1>10, <1>11, <1>13 DEF GivenTo, Given
  <2> HIDE DEF a
  <2> QED BY <2>1, <2>2, RolesOfIs DEF a
<1>20. Covered(z, s)
  BY <1>14, <1>19 DEF Covered
<1> QED BY <1>4, <1>15, <1>17, <1>18, <1>20

-------------------------------------------------------------------------------
(***************************************************************************)
(* The invariant.                                                          *)
(***************************************************************************)
Ended == {"none", "failed", "over"}

TypeInv ==
  /\ DOMAIN ctx = Contexts /\ \A c \in Contexts : GoodContext(ctx[c])
  /\ interface \in {"ap1", "ap2"}
  /\ item_handle \in [DOMAIN JobSpec -> Contexts \cup {NoHandle}]
  /\ session \in [Contexts -> SessionRecords]

\* A live session's item is recorded to be its own.
ItemInv ==
  \A h \in Contexts :
    Live(h) => /\ session[h].item \in DOMAIN JobSpec
               /\ item_handle[session[h].item] = h

\* A live session has one region of each parameter, with its roles until a call
\* drops some.
CoveredInv ==
  \A h \in Contexts :
    Live(h) => /\ Apart(ctx[h])
               /\ ctx[h].no_rpc_calls = 0 => Covered(ctx[h], session[h])

SessionInv == TypeInv /\ ItemInv /\ CoveredInv

\* The steps of set-up and calls change a context this way at most.
Follows(x, z) ==
  /\ GoodContext(z)
  /\ z.stage \in Ended \/ x.stage \notin Ended
  /\ Len(z.local) = Len(x.local)
  /\ \A i \in 1..Len(x.local) : z.local[i].addr = x.local[i].addr
  /\ z.no_rpc_calls = 0 =>
       /\ x.no_rpc_calls = 0
       /\ \A i \in 1..Len(x.local) : z.local[i].roles = x.local[i].roles

\* What is promised of a call.
Called(x, z) ==
  z.no_rpc_calls > x.no_rpc_calls =>
    /\ x.no_rpc_calls > 0 =>
         \A k \in 1..Len(z.writes) : z.writes[k].mr \notin HavingRole(x, "single")
    /\ z.stage = "ready" =>
         /\ Len(z.writes) > 0
         /\ \A k \in 1..Len(z.writes) : z.writes[k].withImm <=> k = Len(z.writes)
         /\ ImmFncode(z.writes[Len(z.writes)].imm) = z.fncode % START_RPC_MASK
         /\ ImmUser(z.writes[Len(z.writes)].imm) = x.immediate \div 256

OnlyContext(c) ==
  DOMAIN ctx' = Contexts /\ \A d \in Contexts \ {c} : ctx'[d] = ctx[d]

\* A step of one context.
LEMMA BecomesIs ==
  ASSUME TypeInv, NEW c \in Contexts, NEW x, Becomes(c, x)
  PROVE  OnlyContext(c) /\ ctx'[c] = x
  BY DEF TypeInv, Becomes, OnlyContext

\* A step without a call breaks no promise.
LEMMA NoCall ==
  ASSUME NEW x \in ContextRecords, NEW z,
         z.no_rpc_calls = x.no_rpc_calls \/ z.no_rpc_calls = 0
  PROVE  Called(x, z)
<1>1. x.no_rpc_calls \in Nat
  BY Constants DEF ContextRecords
<1>2. ~(z.no_rpc_calls > x.no_rpc_calls)
  BY <1>1
<1> QED BY <1>2 DEF Called

\* A step with nothing but a context, which fits the session it was made for.
LEMMA ContextStep ==
  ASSUME SessionInv, NEW c \in Contexts, OnlyContext(c), Follows(ctx[c], ctx'[c]),
         Called(ctx[c], ctx'[c]), UNCHANGED <<interface, item_handle, session>>
  PROVE  SessionInv' /\ \A d \in Contexts : Called(ctx[d], ctx'[d])
<1>1. \A d \in Contexts : GoodContext(ctx[d]) /\ ctx[d] \in ContextRecords
  BY DEF SessionInv, TypeInv, GoodContext
<1>2. TypeInv'
  <2>1. \A d \in Contexts : GoodContext(ctx'[d])
    BY <1>1 DEF OnlyContext, Follows
  <2>2. /\ interface' \in {"ap1", "ap2"}
        /\ item_handle' \in [DOMAIN JobSpec -> Contexts \cup {NoHandle}]
        /\ session' \in [Contexts -> SessionRecords]
    BY DEF SessionInv, TypeInv
  <2> QED BY <2>1, <2>2 DEF TypeInv, OnlyContext
<1>3. ASSUME NEW h \in Contexts, Live(h)' PROVE Live(h)
  BY <1>3 DEF Live, OnlyContext, Follows, Ended
<1>4. ItemInv'
  BY <1>3 DEF SessionInv, ItemInv
<1>5. CoveredInv'
  <2> SUFFICES ASSUME NEW h \in Contexts, Live(h)'
               PROVE  /\ Apart(ctx'[h])
                      /\ ctx'[h].no_rpc_calls = 0 => Covered(ctx'[h], session[h])
    BY DEF CoveredInv
  <2>1. /\ Apart(ctx[h])
        /\ ctx[h].no_rpc_calls = 0 => Covered(ctx[h], session[h])
    BY <1>3 DEF SessionInv, CoveredInv
  <2>2. CASE h # c
    BY <2>1, <2>2 DEF OnlyContext
  <2>3. CASE h = c
    BY <2>1, <2>3 DEF Follows, Apart, Covered
  <2> QED BY <2>2, <2>3
<1>6. ASSUME NEW d \in Contexts PROVE Called(ctx[d], ctx'[d])
  BY <1>1, NoCall DEF OnlyContext
<1> QED BY <1>2, <1>4, <1>5, <1>6 DEF SessionInv

\* A step that leaves no live session where it is taken: of an application
\* without the middleware, or one that ends a session or makes none.
LEMMA NotLiveStep ==
  ASSUME SessionInv, NEW c \in Contexts, OnlyContext(c), GoodContext(ctx'[c]),
         Called(ctx[c], ctx'[c]), ~Live(c)',
         UNCHANGED <<interface, item_handle>>,
         session' \in [Contexts -> SessionRecords],
         \A d \in Contexts \ {c} : session'[d] = session[d]
  PROVE  SessionInv' /\ \A d \in Contexts : Called(ctx[d], ctx'[d])
<1>1. \A d \in Contexts : GoodContext(ctx[d]) /\ ctx[d] \in ContextRecords
  BY DEF SessionInv, TypeInv, GoodContext
<1>2. TypeInv'
  <2>1. \A d \in Contexts : GoodContext(ctx'[d])
    BY <1>1 DEF OnlyContext
  <2>2. /\ interface' \in {"ap1", "ap2"}
        /\ item_handle' \in [DOMAIN JobSpec -> Contexts \cup {NoHandle}]
    BY DEF SessionInv, TypeInv
  <2> QED BY <2>1, <2>2 DEF TypeInv, OnlyContext
<1>3. ASSUME NEW h \in Contexts, Live(h)'
      PROVE  h # c /\ Live(h) /\ ctx'[h] = ctx[h] /\ session'[h] = session[h]
  BY <1>3 DEF Live, OnlyContext
<1>4. ItemInv'
  BY <1>3 DEF SessionInv, ItemInv
<1>5. CoveredInv'
  BY <1>3 DEF SessionInv, CoveredInv
<1>6. ASSUME NEW d \in Contexts PROVE Called(ctx[d], ctx'[d])
  BY <1>1, NoCall DEF OnlyContext
<1> QED BY <1>2, <1>4, <1>5, <1>6 DEF SessionInv

-------------------------------------------------------------------------------
(***************************************************************************)
(* The steps: each keeps the invariant, and calls nothing or as promised.  *)
(***************************************************************************)
\* A stage alone, as after a registration or a failure.
LEMMA StageFollows ==
  ASSUME NEW x, GoodContext(x), x.stage \notin Recorded, x.stage \notin Ended,
         NEW stage \in {"registered", "failed"}
  PROVE  LET z == [x EXCEPT !.stage = stage]
         IN Follows(x, z) /\ Called(x, z)
<1> DEFINE z == [x EXCEPT !.stage = stage]
<1>1. GoodContext(z)
  BY GoodStage
<1>2. x \in ContextRecords
  BY DEF GoodContext
<1>3. z.local = x.local /\ z.no_rpc_calls = x.no_rpc_calls
  BY <1>2 DEF ContextRecords
<1> HIDE DEF z
<1>4. Follows(x, z)
  BY <1>1, <1>3 DEF Follows
<1>5. Called(x, z)
  BY <1>2, <1>3, NoCall
<1> QED BY <1>4, <1>5 DEF z

\* naaice_register_mrs.
LEMMA StepRegister ==
  ASSUME TypeInv, NEW c \in Contexts, RegisterMrs(c)
  PROVE  OnlyContext(c) /\ Follows(ctx[c], ctx'[c]) /\ Called(ctx[c], ctx'[c])
<1> DEFINE x == ctx[c]
<1>1. GoodContext(x) /\ x.stage \notin Recorded /\ x.stage \notin Ended
  BY DEF TypeInv, RegisterMrs, Recorded, Ended
<1>2. \/ Becomes(c, [x EXCEPT !.stage = "registered"])
      \/ Becomes(c, [x EXCEPT !.stage = "failed"])
  BY DEF RegisterMrs, Fails
<1> HIDE DEF x
<1>3. CASE Becomes(c, [x EXCEPT !.stage = "registered"])
  <2> DEFINE z == [x EXCEPT !.stage = "registered"]
  <2>1. Follows(x, z) /\ Called(x, z)
    BY <1>1, StageFollows
  <2> HIDE DEF z
  <2>2. OnlyContext(c) /\ ctx'[c] = z
    BY <1>3, BecomesIs DEF z
  <2> QED BY <2>1, <2>2 DEF x
<1>4. CASE Becomes(c, [x EXCEPT !.stage = "failed"])
  BY <1>1, <1>4, BecomesIs, StageFollows DEF x
<1> QED BY <1>2, <1>3, <1>4

\* naaice_init_mrsp.
LEMMA StepInitMrsp ==
  ASSUME TypeInv, NEW c \in Contexts, InitMrsp(c)
  PROVE  OnlyContext(c) /\ Follows(ctx[c], ctx'[c]) /\ Called(ctx[c], ctx'[c])
<1> DEFINE x == ctx[c]
           t == [i \in DOMAIN x.local |-> x.local[i].roles]
           z == [x EXCEPT !.stage = "announced", !.told = t]
<1>1. GoodContext(x) /\ x \in ContextRecords /\ x.stage = "registered"
  BY DEF TypeInv, InitMrsp, GoodContext
<1>2. Becomes(c, z)
  BY DEF InitMrsp
<1>3. GoodContext(z)
  BY <1>1, GoodInitMrsp
<1> HIDE DEF t
<1>4. z.local = x.local /\ z.no_rpc_calls = x.no_rpc_calls
  BY <1>1 DEF ContextRecords
<1> HIDE DEF x, z
<1>5. OnlyContext(c) /\ ctx'[c] = z
  BY <1>2, BecomesIs
<1>6. Follows(x, z)
  BY <1>1, <1>3, <1>4 DEF Follows, Ended
<1>7. Called(x, z)
  BY <1>1, <1>4, NoCall
<1> QED BY <1>5, <1>6, <1>7 DEF x

\* naaice_swnaa_handle_mr_announce_and_request.
LEMMA StepNaaRegions ==
  ASSUME TypeInv, NEW c \in Contexts, NaaMakesRegions(c)
  PROVE  OnlyContext(c) /\ Follows(ctx[c], ctx'[c]) /\ Called(ctx[c], ctx'[c])
<1> DEFINE x == ctx[c]
           message == Message(x)
           normal == AtPlaces(message, DOMAIN message \ InternalsOf(message))
           internals == AtPlaces(message, InternalsOf(message))
           nl == [i \in DOMAIN normal |->
                    [size |-> normal[i].size, mr |-> normal[i].mr,
                     roles |-> normal[i].flags]]
           ni == [i \in DOMAIN internals |-> internals[i].size]
           z == [x EXCEPT !.stage = "answered", !.naa_local = nl, !.naa_internal = ni]
<1>1. GoodContext(x) /\ x \in ContextRecords /\ x.stage = "announced"
  BY DEF TypeInv, NaaMakesRegions, GoodContext
<1>2. Becomes(c, z) \/ Becomes(c, [x EXCEPT !.stage = "failed"])
  BY DEF NaaMakesRegions, Fails
<1>3. GoodContext(z)
  BY <1>1, GoodNaaRegions
<1> HIDE DEF nl, ni
<1>4. z.local = x.local /\ z.no_rpc_calls = x.no_rpc_calls
  BY <1>1 DEF ContextRecords
<1> HIDE DEF x, z
<1>5. CASE Becomes(c, z)
  <2>1. OnlyContext(c) /\ ctx'[c] = z
    BY <1>5, BecomesIs
  <2>2. Follows(x, z)
    BY <1>1, <1>3, <1>4 DEF Follows, Ended
  <2>3. Called(x, z)
    BY <1>1, <1>4, NoCall
  <2> QED BY <2>1, <2>2, <2>3 DEF x
<1>6. CASE Becomes(c, [x EXCEPT !.stage = "failed"])
  <2>1. x.stage \notin Recorded /\ x.stage \notin Ended
    BY <1>1 DEF Recorded, Ended
  <2> QED BY <1>1, <1>6, <2>1, BecomesIs, StageFollows DEF x
<1> QED BY <1>2, <1>5, <1>6

\* The NAA's answer.
LEMMA StepRecordPeers ==
  ASSUME TypeInv, NEW c \in Contexts, RecordPeers(c)
  PROVE  OnlyContext(c) /\ Follows(ctx[c], ctx'[c]) /\ Called(ctx[c], ctx'[c])
<1> DEFINE x == ctx[c]
           z == [x EXCEPT !.stage = "ready",
                          !.local = [i \in DOMAIN @ |-> [@[i] EXCEPT !.peer = i]]]
<1>1. GoodContext(x) /\ x \in ContextRecords /\ x.stage = "answered"
  BY DEF TypeInv, RecordPeers, GoodContext
<1>2. Becomes(c, z)
  BY DEF RecordPeers
<1>3. /\ GoodContext(z) /\ Len(z.local) = Len(x.local)
      /\ \A i \in 1..Len(x.local) : /\ z.local[i].addr = x.local[i].addr
                                    /\ z.local[i].roles = x.local[i].roles
  BY <1>1, GoodRecordPeers
<1>4. z.no_rpc_calls = x.no_rpc_calls
  BY <1>1 DEF ContextRecords
<1> HIDE DEF x, z
<1>5. OnlyContext(c) /\ ctx'[c] = z
  BY <1>2, BecomesIs
<1>6. Follows(x, z)
  BY <1>1, <1>3, <1>4 DEF Follows, Ended
<1>7. Called(x, z)
  BY <1>1, <1>4, NoCall
<1> QED BY <1>5, <1>6, <1>7 DEF x

\* The set-up, as a step of the whole.
LEMMA StepSetsUp ==
  ASSUME SessionInv, NEW c \in Contexts, SetsUp(c)
  PROVE  SessionInv' /\ \A d \in Contexts : Called(ctx[d], ctx'[d])
<1>1. TypeInv /\ UNCHANGED <<interface, item_handle, session>>
  BY DEF SessionInv, SetsUp
<1>2. OnlyContext(c) /\ Follows(ctx[c], ctx'[c]) /\ Called(ctx[c], ctx'[c])
  BY <1>1, StepRegister, StepInitMrsp, StepNaaRegions, StepRecordPeers
     DEF SetsUp, Mrsp
<1> QED BY <1>1, <1>2, ContextStep

\* A call, as a step of the whole.
LEMMA StepCalls ==
  ASSUME SessionInv, NEW c \in Contexts, Calls(c)
  PROVE  SessionInv' /\ \A d \in Contexts : Called(ctx[d], ctx'[d])
<1> DEFINE x == ctx[c]
           z == AfterCall(x)
<1>1. /\ TypeInv /\ UNCHANGED <<interface, item_handle, session>>
      /\ GoodContext(x) /\ x \in ContextRecords
      /\ x.stage = "ready" /\ x.no_rpc_calls < MaxRpcCalls
  BY DEF SessionInv, TypeInv, Calls, InitDataTransfer, GoodContext
<1>2. Becomes(c, z)
  BY DEF Calls, InitDataTransfer, AfterCall
<1> HIDE DEF x, z
<1>3. OnlyContext(c) /\ ctx'[c] = z
  BY <1>1, <1>2, BecomesIs
<1>4. /\ GoodContext(z) /\ z.no_rpc_calls = x.no_rpc_calls + 1
      /\ Len(z.local) = Len(x.local)
      /\ \A i \in 1..Len(x.local) : z.local[i].addr = x.local[i].addr
      /\ Called(x, z)
  BY <1>1, GoodCall DEF Called, z
<1>5. z.no_rpc_calls # 0
  <2>1. x.no_rpc_calls \in Nat
    BY <1>1, Constants DEF ContextRecords
  <2> QED BY <1>4, <2>1
<1>6. Follows(x, z)
  BY <1>1, <1>4, <1>5 DEF Follows, Ended
<1> QED BY <1>1, <1>3, <1>4, <1>6, ContextStep DEF x

\* The steps of an application without the middleware.
LEMMA StepAp1 ==
  ASSUME SessionInv, NEW c \in Contexts, InitContext(c) \/ Configures(c)
  PROVE  SessionInv' /\ \A d \in Contexts : Called(ctx[d], ctx'[d])
<1> DEFINE x == ctx[c]
<1>1. /\ TypeInv /\ GoodContext(x) /\ x \in ContextRecords
      /\ interface = "ap1" /\ UNCHANGED <<interface, item_handle, session>>
  BY DEF SessionInv, TypeInv, GoodContext, InitContext, Configures
<1>2. ~Live(c)' /\ session' \in [Contexts -> SessionRecords]
      /\ \A d \in Contexts \ {c} : session'[d] = session[d]
  BY <1>1 DEF Live, TypeInv
<1>3. SUFFICES OnlyContext(c) /\ GoodContext(ctx'[c]) /\ Called(x, ctx'[c])
  BY <1>1, <1>2, NotLiveStep DEF x
<1>4. CASE InitContext(c)
  <2>1. PICK fncode \in Ap1Fncodes : Becomes(c, NewContext(Ap1Params, fncode))
    BY <1>4 DEF InitContext
  <2>2. Ap1Params \in Seq(Blocks) /\ fncode \in 0..255
    BY SessionAssumption DEF SessionAssumption
  <2> DEFINE z == NewContext(Ap1Params, fncode)
  <2>3. GoodContext(z) /\ z.no_rpc_calls = 0
    BY <2>2, GoodNew, NewContextIs
  <2> HIDE DEF z
  <2>4. OnlyContext(c) /\ ctx'[c] = z
    BY <1>1, <2>1, BecomesIs DEF z
  <2> QED BY <1>1, <2>3, <2>4, NoCall
<1>5. ASSUME NEW z, Becomes(c, z), GoodContext(z), z.no_rpc_calls = x.no_rpc_calls
      PROVE  OnlyContext(c) /\ GoodContext(ctx'[c]) /\ Called(x, ctx'[c])
  <2>1. OnlyContext(c) /\ ctx'[c] = z
    BY <1>1, <1>5, BecomesIs
  <2> QED BY <1>1, <1>5, <2>1, NoCall
<1>6. CASE SetRole(c)
  <2>1. x.stage # "undefined"
    BY <1>6 DEF SetRole, Open
  <2>2. PICK i \in DOMAIN x.local, role \in Roles : Becomes(c, Flag(x, i, role))
    BY <1>6 DEF SetRole
  <2> DEFINE z == Flag(x, i, role)
  <2>3. GoodContext(z)
    BY <1>1, <2>1, GoodSetRole
  <2>4. z.no_rpc_calls = x.no_rpc_calls
    <3>1. i \in 1..Len(x.local) /\ Counted(x)
      BY <1>1, LocalOf DEF GoodContext
    <3>2. FlagResult(x, i, Given(role), z)
      BY <1>1, <3>1, FlagIs
    <3> QED BY <3>2 DEF FlagResult, OnlyFlags
  <2> HIDE DEF z, x
  <2> QED BY <1>5, <2>2, <2>3, <2>4 DEF z
<1>7. CASE SetImmediate(c)
  <2>1. PICK user \in UserBytes : Becomes(c, WithUserBytes(x, user))
    BY <1>7 DEF SetImmediate
  <2> DEFINE z == WithUserBytes(x, user)
  <2>2. GoodContext(z)
    BY <1>1, GoodImmediate
  <2>3. z.no_rpc_calls = x.no_rpc_calls
    BY <1>1 DEF WithUserBytes, ContextRecords
  <2> HIDE DEF z, x
  <2> QED BY <1>5, <2>1, <2>2, <2>3 DEF z
<1>8. CASE SetBytesToSend(c)
  <2>1. PICK i \in DOMAIN x.local :
          \E number \in -1..(Size[x.local[i].addr] + 1) :
            Becomes(c, [x EXCEPT !.local[i].bytes =
                          BytesToSend(@, number, Size[x.local[i].addr])])
    BY <1>8 DEF SetBytesToSend
  <2>2. PICK number \in -1..(Size[x.local[i].addr] + 1) :
          Becomes(c, [x EXCEPT !.local[i].bytes =
                        BytesToSend(@, number, Size[x.local[i].addr])])
    BY <2>1
  <2> DEFINE z == [x EXCEPT !.local[i].bytes =
                     BytesToSend(@, number, Size[x.local[i].addr])]
  <2>3. number \in Int
    OBVIOUS
  <2>4. GoodContext(z)
    BY <1>1, <2>3, GoodBytes
  <2>5. z.no_rpc_calls = x.no_rpc_calls
    BY <1>1 DEF ContextRecords
  <2> HIDE DEF z, x
  <2> QED BY <1>5, <2>2, <2>4, <2>5 DEF z
<1> QED BY <1>4, <1>6, <1>7, <1>8 DEF Configures

\* The refusal of a session, and the end of one.
LEMMA StepRefused ==
  ASSUME SessionInv, NEW h \in Contexts, NaaCreateRefused(h) \/ NaaFinalize(h)
  PROVE  SessionInv' /\ \A d \in Contexts : Called(ctx[d], ctx'[d])
<1>1. /\ TypeInv /\ GoodContext(ctx[h]) /\ ctx[h] \in ContextRecords
      /\ session \in [Contexts -> SessionRecords]
      /\ UNCHANGED <<interface, item_handle>>
      /\ session' = [session EXCEPT ![h] = NoSession]
  BY DEF SessionInv, TypeInv, GoodContext, NaaCreateRefused, NaaFinalize
<1>2. PICK stage \in {"none", "over"} : Becomes(h, [NoContext EXCEPT !.stage = stage])
  <2>1. CASE NaaCreateRefused(h)
    <3>1. NoContext = [NoContext EXCEPT !.stage = "none"]
      BY DEF NoContext
    <3>2. Becomes(h, NoContext)
      BY <2>1 DEF NaaCreateRefused
    <3>3. Becomes(h, [NoContext EXCEPT !.stage = "none"])
      BY <3>1, <3>2
    <3> QED BY <3>3
  <2>2. CASE NaaFinalize(h)
    BY <2>2 DEF NaaFinalize
  <2> QED BY <2>1, <2>2
<1> DEFINE z == [NoContext EXCEPT !.stage = stage]
<1>3. GoodContext(z) /\ z.stage = stage /\ z.no_rpc_calls = 0
  <2>1. stage \in Stages \ (Told \cup Made \cup Recorded)
    BY DEF Stages, Told, Made, Recorded
  <2>2. z.stage = stage /\ z.no_rpc_calls = 0
    BY NoContextIs DEF ContextRecords
  <2> QED BY <2>1, <2>2, GoodNone
<1> HIDE DEF z
<1>4. OnlyContext(h) /\ ctx'[h] = z
  BY <1>1, <1>2, BecomesIs DEF z
<1>5. ~Live(h)'
  BY <1>3, <1>4 DEF Live
<1>6. Called(ctx[h], ctx'[h])
  BY <1>1, <1>3, <1>4, NoCall
<1>7. NoSession \in SessionRecords
  <2>1. 0 \in 0..Len(JobSpec)
    BY JobSpecIs
  <2>2. <<>> \in Seq(Blocks)
    OBVIOUS
  <2> QED BY <2>1, <2>2 DEF NoSession, SessionRecords
<1>8. session' \in [Contexts -> SessionRecords]
      /\ \A d \in Contexts \ {h} : session'[d] = session[d]
  BY <1>1, <1>7
<1> QED BY <1>1, <1>3, <1>4, <1>5, <1>6, <1>8, NotLiveStep

\* naa_create, successful or not.
LEMMA StepCreate ==
  ASSUME SessionInv, NEW h \in Contexts, NaaCreate(h)
  PROVE  SessionInv' /\ \A d \in Contexts : Called(ctx[d], ctx'[d])
<1>1. /\ TypeInv /\ interface = "ap2" /\ UNCHANGED interface
      /\ \A d \in Contexts : GoodContext(ctx[d]) /\ ctx[d] \in ContextRecords
      /\ item_handle \in [DOMAIN JobSpec -> Contexts \cup {NoHandle}]
      /\ session \in [Contexts -> SessionRecords]
      /\ NoHandle \notin Contexts
  BY SessionAssumption
     DEF SessionInv, TypeInv, GoodContext, NaaCreate, SessionAssumption
<1> DEFINE Creates(inputs, outputs, i, singles) ==
        LET s == [item |-> i, inputs |-> inputs, outputs |-> outputs,
                  singles |-> singles]
        IN /\ i \in Matching(JobSpec[i].fn_code)
           /\ item_handle' = [item_handle EXCEPT ![i] = h]
           /\ session' = [session EXCEPT ![h] = s]
           /\ \/ Becomes(h, Configured(s))
              \/ Becomes(h, [NoContext EXCEPT !.stage = "failed"])
<1>2. PICK inputs \in ParamLists, outputs \in ParamLists, i \in DOMAIN JobSpec :
        \E singles \in SUBSET (Range(inputs) \cup Range(outputs)) :
          Creates(inputs, outputs, i, singles)
  BY DEF NaaCreate
<1>3. PICK singles \in SUBSET (Range(inputs) \cup Range(outputs)) :
         Creates(inputs, outputs, i, singles)
  BY <1>2
<1> DEFINE s == [item |-> i, inputs |-> inputs, outputs |-> outputs,
                 singles |-> singles]
<1>4. /\ s \in SessionRecords /\ s.item = i
      /\ s.inputs = inputs /\ s.outputs = outputs /\ s.singles = singles
      /\ IsInjective(inputs) /\ IsInjective(outputs)
  <2>1. /\ inputs \in Seq(Blocks) /\ IsInjective(inputs)
        /\ outputs \in Seq(Blocks) /\ IsInjective(outputs)
    BY ParamListsAre
  <2>2. i \in 0..Len(JobSpec)
    BY JobSpecIs
  <2>3. ASSUME NEW q \in Seq(Blocks) PROVE Range(q) \subseteq Blocks
    BY DEF Range
  <2>4. singles \in SUBSET Blocks
    BY <2>1, <2>3
  <2> QED BY <2>1, <2>2, <2>4 DEF SessionRecords
<1>5. /\ item_handle[i] = NoHandle
      /\ item_handle' = [item_handle EXCEPT ![i] = h]
      /\ session' = [session EXCEPT ![h] = s]
      /\ \/ Becomes(h, Configured(s))
         \/ Becomes(h, [NoContext EXCEPT !.stage = "failed"])
  BY <1>3 DEF Matching, Unused
<1> HIDE DEF s
<1> DEFINE z == ctx'[h]
<1>6. /\ OnlyContext(h) /\ GoodContext(z) /\ z.no_rpc_calls = 0
      /\ z.stage \in Ended \/ (Apart(z) /\ Covered(z, s))
  <2>1. CASE Becomes(h, Configured(s))
    <3>1. OnlyContext(h) /\ z = Configured(s)
      BY <1>1, <2>1, BecomesIs
    <3>2. LET y == Configured(s)
          IN GoodContext(y) /\ Apart(y) /\ Covered(y, s) /\ y.no_rpc_calls = 0
      BY <1>4, ConfiguredIs
    <3> HIDE DEF z
    <3> QED BY <3>1, <3>2
  <2>2. CASE Becomes(h, [NoContext EXCEPT !.stage = "failed"])
    <3> DEFINE y == [NoContext EXCEPT !.stage = "failed"]
    <3>1. "failed" \in Stages \ (Told \cup Made \cup Recorded)
      BY DEF Stages, Told, Made, Recorded
    <3>2. GoodContext(y) /\ y.stage = "failed" /\ y.no_rpc_calls = 0
      BY <3>1, NoContextIs, GoodNone DEF ContextRecords
    <3> HIDE DEF y
    <3>3. OnlyContext(h) /\ z = y
      BY <1>1, <2>2, BecomesIs DEF y
    <3> HIDE DEF z
    <3> QED BY <3>2, <3>3 DEF Ended
  <2> QED BY <1>5, <2>1, <2>2
<1> HIDE DEF z
<1>7. TypeInv'
  <2>1. \A d \in Contexts : GoodContext(ctx'[d])
    BY <1>1, <1>6 DEF OnlyContext, z
  <2>2. /\ item_handle' \in [DOMAIN JobSpec -> Contexts \cup {NoHandle}]
        /\ session' \in [Contexts -> SessionRecords]
    BY <1>1, <1>4, <1>5
  <2> QED BY <1>1, <1>6, <2>1, <2>2 DEF TypeInv, OnlyContext
<1>8. ASSUME NEW g \in Contexts, g # h, Live(g)'
      PROVE  Live(g) /\ ctx'[g] = ctx[g] /\ session'[g] = session[g]
  BY <1>1, <1>5, <1>6, <1>8 DEF Live, OnlyContext
<1>9. session'[h] = s
  BY <1>1, <1>5
<1>10. ItemInv'
  <2> SUFFICES ASSUME NEW g \in Contexts, Live(g)'
               PROVE  /\ session'[g].item \in DOMAIN JobSpec
                      /\ item_handle'[session'[g].item] = g
    BY DEF ItemInv
  <2>1. CASE g = h
    BY <1>1, <1>4, <1>5, <1>9, <2>1
  <2>2. CASE g # h
    <3>1. /\ session[g].item \in DOMAIN JobSpec /\ item_handle[session[g].item] = g
          /\ session'[g] = session[g]
      BY <1>8, <2>2 DEF SessionInv, ItemInv
    <3>2. session[g].item # i
      BY <1>1, <1>5, <3>1
    <3> QED BY <1>1, <1>5, <3>1, <3>2
  <2> QED BY <2>1, <2>2
<1>11. CoveredInv'
  <2> SUFFICES ASSUME NEW g \in Contexts, Live(g)'
               PROVE  /\ Apart(ctx'[g])
                      /\ ctx'[g].no_rpc_calls = 0 => Covered(ctx'[g], session'[g])
    BY DEF CoveredInv
  <2>1. CASE g = h
    BY <1>6, <1>9, <2>1 DEF Live, Ended, z
  <2>2. CASE g # h
    BY <1>8, <2>2 DEF SessionInv, CoveredInv
  <2> QED BY <2>1, <2>2
<1>12. ASSUME NEW d \in Contexts PROVE Called(ctx[d], ctx'[d])
  BY <1>1, <1>6, NoCall DEF OnlyContext, z
<1> QED BY <1>7, <1>10, <1>11, <1>12 DEF SessionInv

-------------------------------------------------------------------------------
\* Every step keeps the invariant.
LEMMA SessionStep ==
  ASSUME SessionInv, [SessionNext]_sessionVars
  PROVE  SessionInv' /\ \A d \in Contexts : Called(ctx[d], ctx'[d])
<1>1. CASE SessionNext
  <2>1. PICK c \in Contexts :
          \/ InitContext(c) \/ Configures(c)
          \/ NaaCreate(c) \/ NaaCreateRefused(c)
          \/ SetsUp(c) \/ Calls(c) \/ NaaFinalize(c)
    BY <1>1 DEF SessionNext
  <2> QED BY <2>1, StepAp1, StepCreate, StepRefused, StepSetsUp, StepCalls
<1>2. CASE UNCHANGED sessionVars
  <2>1. UNCHANGED ctx /\ UNCHANGED interface /\ UNCHANGED item_handle
        /\ UNCHANGED session
    BY <1>2 DEF sessionVars
  <2>2. SessionInv'
    BY <2>1 DEF SessionInv, TypeInv, ItemInv, CoveredInv, Live
  <2>3. \A d \in Contexts : ctx[d] \in ContextRecords
    BY DEF SessionInv, TypeInv, GoodContext
  <2> QED BY <2>1, <2>2, <2>3, NoCall
<1> QED BY <1>1, <1>2

\* The invariant holds at first.
LEMMA SessionInitial == SessionInit => SessionInv
<1> SUFFICES ASSUME SessionInit PROVE SessionInv
  OBVIOUS
<1>1. GoodContext(NoContext) /\ NoContext.stage = "none"
  <2>1. "none" \in Stages \ (Told \cup Made \cup Recorded)
    BY DEF Stages, Told, Made, Recorded
  <2>2. NoContext = [NoContext EXCEPT !.stage = "none"]
    BY DEF NoContext
  <2>3. GoodContext([NoContext EXCEPT !.stage = "none"])
    BY <2>1, GoodNone
  <2>4. GoodContext(NoContext)
    BY <2>2, <2>3
  <2> QED BY <2>4, NoContextIs
<1>2. NoSession \in SessionRecords
  <2>1. 0 \in 0..Len(JobSpec)
    BY JobSpecIs
  <2>2. <<>> \in Seq(Blocks)
    OBVIOUS
  <2> QED BY <2>1, <2>2 DEF NoSession, SessionRecords
<1>3. TypeInv
  BY <1>1, <1>2 DEF SessionInit, TypeInv
<1>4. \A h \in Contexts : ~Live(h)
  BY <1>1 DEF SessionInit, Live
<1> QED BY <1>3, <1>4 DEF SessionInv, ItemInv, CoveredInv

(* The invariant, of every state.                                          *)
THEOREM SessionsHold == SessionSpec => []SessionInv
<1>1. SessionInit => SessionInv
  BY SessionInitial
<1>2. SessionInv /\ [SessionNext]_sessionVars => SessionInv'
  BY SessionStep
<1> QED BY <1>1, <1>2, PTL DEF SessionSpec

(* Every context, session and item keeps its type.                         *)
THEOREM SessionTypes == SessionSpec => []SessionTypeOK
<1>1. SessionInv => SessionTypeOK
  <2> SUFFICES ASSUME SessionInv PROVE SessionTypeOK
    OBVIOUS
  <2>1. ContextsOK
    BY DEF SessionInv, TypeInv, GoodContext, ContextRecords, ContextsOK
  <2>2. /\ interface \in {"ap1", "ap2"}
        /\ item_handle \in [DOMAIN JobSpec -> Contexts \cup {NoHandle}]
        /\ \A h \in Contexts : session[h] \in SessionRecords
    BY DEF SessionInv, TypeInv
  <2> QED BY <2>1, <2>2 DEF SessionTypeOK, SessionRecords
<1> QED BY <1>1, SessionsHold, PTL

(* The counters of the inputs and outputs are the number of the regions so *)
(* flagged, whatever sequence of flagging, calls and failures led there.   *)
THEOREM CountersAreRight == SessionSpec => []CountsMatchFlags
<1>1. SessionInv => CountsMatchFlags
  BY DEF SessionInv, TypeInv, GoodContext, Counted, CountsMatchFlags
<1> QED BY <1>1, SessionsHold, PTL

(* After the memory region setup protocol each end has the other's         *)
(* regions, for any number of parameters and internal regions.             *)
THEOREM EndsAgree == SessionSpec => []BothEndsAgree
<1>1. ASSUME NEW x, GoodContext(x), x.stage \in {"ready", "undefined"}
      PROVE  /\ Len(x.naa_local) = Len(x.local) /\ x.naa_internal = Internal
             /\ \A i \in DOMAIN x.local :
                  /\ x.naa_local[x.local[i].peer].mr = i
                  /\ x.naa_local[x.local[i].peer].size = Size[x.local[i].addr]
                  /\ x.naa_local[x.local[i].peer].roles = x.told[i]
  <2>1. x.stage \in Made /\ x.stage \in Recorded /\ DOMAIN x.local = 1..Len(x.local)
    BY <1>1, LocalOf DEF GoodContext, Made, Recorded
  <2>2. /\ Len(x.naa_local) = Len(x.local) /\ x.naa_internal = Internal
        /\ \A i \in 1..Len(x.local) :
             /\ x.naa_local[i] = [size |-> Size[x.local[i].addr], mr |-> i,
                                  roles |-> x.told[i]]
             /\ x.local[i].peer = i
    BY <1>1, <2>1 DEF GoodContext, Agreed
  <2>3. ASSUME NEW i \in DOMAIN x.local
        PROVE  /\ x.naa_local[x.local[i].peer].mr = i
               /\ x.naa_local[x.local[i].peer].size = Size[x.local[i].addr]
               /\ x.naa_local[x.local[i].peer].roles = x.told[i]
    <3>1. x.local[i].peer = i
      BY <2>1, <2>2
    <3>2. x.naa_local[i] = [size |-> Size[x.local[i].addr], mr |-> i,
                            roles |-> x.told[i]]
      BY <2>1, <2>2
    <3> QED BY <3>1, <3>2
  <2> QED BY <2>2, <2>3
<1>2. SessionInv => BothEndsAgree
  <2> SUFFICES ASSUME SessionInv, NEW c \in Contexts,
                      ctx[c].stage \in {"ready", "undefined"}
               PROVE  LET x == ctx[c]
                      IN /\ Len(x.naa_local) = Len(x.local)
                         /\ x.naa_internal = Internal
                         /\ \A i \in DOMAIN x.local :
                              /\ x.naa_local[x.local[i].peer].mr = i
                              /\ x.naa_local[x.local[i].peer].size =
                                   Size[x.local[i].addr]
                              /\ x.naa_local[x.local[i].peer].roles = x.told[i]
    BY DEF BothEndsAgree
  <2>1. GoodContext(ctx[c])
    BY DEF SessionInv, TypeInv
  <2> QED BY <1>1, <2>1
<1> QED BY <1>2, SessionsHold, PTL

(* A write of a call fits the host's region and the NAA's.                 *)
THEOREM WritesAlwaysFit == SessionSpec => []WritesFit
<1>1. ASSUME NEW x, GoodContext(x), NEW k \in DOMAIN x.writes
      PROVE  LET w == x.writes[k]
                 r == x.local[w.mr]
             IN w.bytes <= Size[r.addr] /\ w.bytes <= x.naa_local[r.peer].size
  <2> DEFINE i == x.writes[k].mr
  <2>1. x.writes \in Seq(WriteRequests)
    BY <1>1 DEF GoodContext, ContextRecords
  <2>2. DOMAIN x.writes = 1..Len(x.writes) /\ Len(x.writes) \in Nat
    BY <2>1
  <2>3. x.writes # <<>>
    BY <1>1, <2>2
  <2>4. /\ x.stage \in Recorded /\ i \in 1..Len(x.local)
        /\ x.writes[k].bytes <= Size[x.local[i].addr]
    BY <1>1, <2>2, <2>3 DEF GoodContext, Written
  <2>5. x.stage \in Made
    BY <2>4 DEF Made, Recorded
  <2> HIDE DEF i
  <2>6. /\ x.local[i].peer = i
        /\ x.naa_local[i] = [size |-> Size[x.local[i].addr], mr |-> i,
                             roles |-> x.told[i]]
    BY <1>1, <2>4, <2>5 DEF GoodContext, Agreed
  <2>7. x.naa_local[x.local[i].peer].size = Size[x.local[i].addr]
    BY <2>6
  <2> QED BY <2>4, <2>7 DEF i
<1>2. SessionInv => WritesFit
  BY <1>1 DEF SessionInv, TypeInv, WritesFit
<1> QED BY <1>2, SessionsHold, PTL

(* Two live sessions never have the same item of naa_job_spec, which the   *)
(* items' handles show: an item is given away while it has none.           *)
THEOREM ItemsAreExclusive == SessionSpec => []ItemsExclusive
<1>1. SessionInv => ItemsExclusive
  BY DEF SessionInv, ItemInv, ItemsExclusive
<1> QED BY <1>1, SessionsHold, PTL

(* naa_create makes one region of each parameter, however inputs and       *)
(* outputs share them, with the roles of its parameter lists.              *)
THEOREM ParametersAreCovered == SessionSpec => []ParamsCovered
<1>1. SessionInv => ParamsCovered
  <2> SUFFICES ASSUME SessionInv, NEW h \in Contexts, Live(h),
                      ctx[h].no_rpc_calls = 0
               PROVE  LET x == ctx[h]
                          s == session[h]
                      IN /\ \A i, j \in DOMAIN x.local :
                              x.local[i].addr = x.local[j].addr => i = j
                         /\ \A i \in DOMAIN x.local :
                              x.local[i].roles = RolesOf(s, x.local[i].addr)
    BY DEF ParamsCovered, RolesOf
  <2>1. Apart(ctx[h]) /\ Covered(ctx[h], session[h])
    BY DEF SessionInv, CoveredInv
  <2>2. ctx[h] \in ContextRecords
    BY DEF SessionInv, TypeInv, GoodContext
  <2>3. DOMAIN ctx[h].local = 1..Len(ctx[h].local)
    BY <2>2, LocalOf
  <2> QED BY <2>1, <2>3 DEF Apart, Covered
<1> QED BY <1>1, SessionsHold, PTL

(* A call after the first writes no single-send region, also one that was  *)
(* flagged, or made an input again, in between.                            *)
THEOREM SingleSendIsSentOnce == SessionSpec => SingleSendOnce
<1> DEFINE Once == \A c \in Contexts :
             ctx'[c].no_rpc_calls > ctx[c].no_rpc_calls /\ ctx[c].no_rpc_calls > 0 =>
               \A k \in DOMAIN ctx'[c].writes :
                 ctx'[c].writes[k].mr \notin HavingRole(ctx[c], "single")
<1>1. ASSUME SessionInv, [SessionNext]_sessionVars PROVE Once
  <2>1. SessionInv' /\ \A d \in Contexts : Called(ctx[d], ctx'[d])
    BY <1>1, SessionStep
  <2>2. ASSUME NEW d \in Contexts
        PROVE  DOMAIN ctx'[d].writes = 1..Len(ctx'[d].writes)
    <3>1. ctx'[d].writes \in Seq(WriteRequests)
      BY <2>1 DEF SessionInv, TypeInv, GoodContext, ContextRecords
    <3> QED BY <3>1
  <2> QED BY <2>1, <2>2 DEF Called
<1>2. SessionInv /\ [SessionNext]_sessionVars => [Once]_ctx
  BY <1>1
<1> HIDE DEF Once
<1>3. SessionSpec => [][Once]_ctx
  BY <1>2, SessionsHold, PTL DEF SessionSpec
<1> QED BY <1>3 DEF SingleSendOnce, Once

(* The last write of a call, and no other, carries the function code, cut  *)
(* to seven bits, and the user bytes as the application set them.          *)
THEOREM CallsCarryTheFunction == SessionSpec => CallsTellFunction
<1> DEFINE Tells == \A c \in Contexts :
             LET x == ctx'[c]
                 n == Len(x.writes)
             IN x.no_rpc_calls > ctx[c].no_rpc_calls /\ x.stage = "ready" =>
                  /\ n > 0 /\ \A k \in 1..n : x.writes[k].withImm <=> k = n
                  /\ ImmFncode(x.writes[n].imm) = x.fncode % START_RPC_MASK
                  /\ ImmUser(x.writes[n].imm) = ctx[c].immediate \div 256
<1>1. ASSUME SessionInv, [SessionNext]_sessionVars PROVE Tells
  <2>1. \A d \in Contexts : Called(ctx[d], ctx'[d])
    BY <1>1, SessionStep
  <2> QED BY <2>1 DEF Called
<1>2. SessionInv /\ [SessionNext]_sessionVars => [Tells]_ctx
  BY <1>1
<1> HIDE DEF Tells
<1>3. SessionSpec => [][Tells]_ctx
  BY <1>2, SessionsHold, PTL DEF SessionSpec
<1> QED BY <1>3 DEF CallsTellFunction, Tells

===============================================================================
