--------------------------- MODULE RequestProofs ---------------------------
(***************************************************************************)
(* What becomes of a request before it is stored: its operations           *)
(* (ChangeSet) and the names in it (Names, NameWire).                      *)
(***************************************************************************)
EXTENDS ChangeSet, NameWire, TLAPS,
        SequenceTheorems, FiniteSetTheorems, WellFoundedInduction

-----------------------------------------------------------------------------
(* Sets of numbers in order. *)

\* The least member of a set of numbers.
LEMMA HasLeast ==
  ASSUME NEW T, T \subseteq Nat, T # {}
  PROVE  \E k \in T : \A j \in T : k <= j
<1> DEFINE R == OpToRel(<, Nat)
<1>1. IsWellFoundedOn(R, Nat)
  BY NatLessThanWellFounded
<1> HIDE DEF R
<1>2. PICK k \in T : \A j \in T : <<j, k>> \notin R
  BY <1>1, WFMin
<1>3. ASSUME NEW j \in T PROVE k <= j
  <2>1. ~(j < k)
    BY <1>2 DEF R, OpToRel
  <2> QED BY <2>1
<1> QED BY <1>3

\* The greatest member of a set of numbers that has a bound.
LEMMA HasGreatest ==
  ASSUME NEW T, T \subseteq Nat, T # {}, NEW n \in Nat, \A i \in T : i <= n
  PROVE  \E k \in T : \A j \in T : j <= k
<1> DEFINE Above == {m \in Nat : \A i \in T : i <= m}
<1>1. Above \subseteq Nat /\ n \in Above
  OBVIOUS
<1>2. PICK m \in Above : \A j \in Above : m <= j
  <2> HIDE DEF Above
  <2> QED BY <1>1, HasLeast
<1>3. m \in T
  <2>1. SUFFICES ASSUME m \notin T PROVE FALSE
    OBVIOUS
  <2>2. \A i \in T : i <= m - 1
    BY <2>1, <1>2
  <2>3. m - 1 \in Nat
    <3>1. PICK i \in T : i \in Nat
      OBVIOUS
    <3> QED BY <2>2, <1>2, <3>1
  <2> QED BY <2>2, <2>3, <1>2
<1> QED BY <1>2, <1>3

LEMMA MaxIsGreatest ==
  ASSUME NEW T, T \subseteq Nat, T # {}, NEW n \in Nat, \A i \in T : i <= n
  PROVE  Max(T) \in T /\ \A j \in T : j <= Max(T)
<1>1. PICK k \in T : \A j \in T : j <= k
  BY HasGreatest
<1>2. \A j \in T : k >= j
  BY <1>1
<1>3. Max(T) \in T /\ \A j \in T : Max(T) >= j
  BY <1>2 DEF Max
<1> QED BY <1>3

Count(S, i) == Cardinality({j \in S : j <= i})

LEMMA CountType ==
  ASSUME NEW S, IsFiniteSet(S), NEW i \in Int
  PROVE  Count(S, i) \in 0 .. Cardinality(S)
<1>1. {j \in S : j <= i} \in SUBSET S
  OBVIOUS
<1> QED BY <1>1, FS_Subset, FS_CardinalityType DEF Count

\* A member is counted from itself on.
LEMMA CountGrows ==
  ASSUME NEW S, IsFiniteSet(S), S \subseteq Int,
         NEW i \in Int, NEW k \in S, i < k
  PROVE  Count(S, i) < Count(S, k)
<1> DEFINE A == {j \in S : j <= i}
           B == {j \in S : j <= k}
<1>1. A \in SUBSET B /\ k \in B /\ k \notin A /\ B \in SUBSET S
  <2>1. k \in Int /\ \A j \in S : j \in Int
    OBVIOUS
  <2>2. \A j \in S : j <= i => j <= k
    BY <2>1
  <2>3. A \in SUBSET B
    BY <2>2
  <2>4. k \in B /\ k \notin A
    BY <2>1
  <2> QED BY <2>3, <2>4
<1>2. IsFiniteSet(B) /\ Cardinality(A) \in Nat /\ Cardinality(B) \in Nat
  BY <1>1, FS_Subset, FS_CardinalityType
<1>3. Cardinality(A) <= Cardinality(B) /\ Cardinality(A) # Cardinality(B)
  <2> HIDE DEF A, B
  <2> QED BY <1>1, <1>2, FS_Subset
<1> QED BY <1>2, <1>3 DEF Count

LEMMA CountOfMember ==
  ASSUME NEW S, IsFiniteSet(S), S \subseteq Int, NEW k \in S
  PROVE  Count(S, k) \in 1 .. Cardinality(S)
<1>0. k \in Int
  OBVIOUS
<1>1. Count(S, k - 1) < Count(S, k)
  <2>1. k - 1 \in Int /\ k - 1 < k
    BY <1>0
  <2> QED BY <2>1, CountGrows
<1>2. Count(S, k) \in 0 .. Cardinality(S) /\ Count(S, k - 1) \in 0 .. Cardinality(S)
  BY <1>0, CountType
<1>3. Cardinality(S) \in Nat
  BY FS_CardinalityType
<1> QED BY <1>1, <1>2, <1>3

\* There is an n-th member, and it alone has n members up to itself.
LEMMA NthIsThere ==
  ASSUME NEW S, IsFiniteSet(S), S \subseteq Int, NEW n \in 1 .. Cardinality(S)
  PROVE  Nth(S, n) \in S /\ Count(S, Nth(S, n)) = n
<1> DEFINE T == 1 .. Cardinality(S)
           f == [i \in S |-> Count(S, i)]
<1>1. Cardinality(S) \in Nat
  BY FS_CardinalityType
<1>2. IsFiniteSet(T) /\ Cardinality(T) = Cardinality(S)
  BY <1>1, FS_Interval
<1>3. f \in [S -> T]
  BY CountOfMember
<1>4. \A a, b \in S : f[a] = f[b] => a = b
  <2> SUFFICES ASSUME NEW a \in S, NEW b \in S, a < b PROVE f[a] # f[b]
    OBVIOUS
  <2>1. Count(S, a) < Count(S, b)
    BY CountGrows
  <2>2. Count(S, a) \in 0 .. Cardinality(S) /\ Count(S, b) \in 0 .. Cardinality(S)
    BY CountType
  <2> QED BY <1>1, <2>1, <2>2
<1>5. f \in Injection(S, T)
  BY <1>3, <1>4 DEF Injection, IsInjective
<1>6. f \in Surjection(S, T)
  <2> HIDE DEF f, T
  <2> QED BY <1>2, <1>5, FS_Injection
<1>7. \E i \in S : f[i] = n
  BY <1>6 DEF Surjection
<1>8. \E i \in S : Count(S, i) = n
  BY <1>7
<1> QED BY <1>8 DEF Nth, Count

\* A member is found at the place of its count.
LEMMA NthOfCount ==
  ASSUME NEW S, IsFiniteSet(S), S \subseteq Int, NEW k \in S
  PROVE  Nth(S, Count(S, k)) = k
<1> DEFINE n == Count(S, k)
           m == Nth(S, n)
<1>1. n \in 1 .. Cardinality(S)
  BY CountOfMember
<1>2. m \in S /\ Count(S, m) = n
  BY <1>1, NthIsThere
<1>3. Cardinality(S) \in Nat
  BY FS_CardinalityType
<1>4. ~(m < k) /\ ~(k < m)
  <2>1. m < k => Count(S, m) < Count(S, k)
    BY <1>2, CountGrows
  <2>2. k < m => Count(S, k) < Count(S, m)
    BY <1>2, CountGrows
  <2> QED BY <2>1, <2>2, <1>1, <1>2, <1>3
<1>5. m \in Int /\ k \in Int
  BY <1>2
<1> HIDE DEF m
<1>6. m = k
  BY <1>4, <1>5
<1> QED BY <1>6 DEF m

\* The last of them.
LEMMA NthLast ==
  ASSUME NEW S, IsFiniteSet(S), S \subseteq Int, NEW k \in S, \A j \in S : j <= k
  PROVE  Cardinality(S) \in Nat \ {0} /\ Nth(S, Cardinality(S)) = k
<1>1. {j \in S : j <= k} = S
  OBVIOUS
<1>2. Count(S, k) = Cardinality(S)
  BY <1>1 DEF Count
<1>3. Count(S, k) \in 1 .. Cardinality(S)
  BY CountOfMember
<1>4. Cardinality(S) \in Nat
  BY FS_CardinalityType
<1>5. Nth(S, Count(S, k)) = k
  BY NthOfCount
<1> QED BY <1>2, <1>3, <1>4, <1>5

-----------------------------------------------------------------------------
(* Recursion over the sets of places of a list, the last place first, which *)
(* is how FoldLeft is defined.                                              *)

LEMMA MaxOfPlaces ==
  ASSUME NEW n \in Nat, NEW s \in SUBSET (1 .. n), s # {}
  PROVE  Max(s) \in s /\ \A j \in s : j <= Max(s)
<1>1. s \subseteq Nat /\ \A j \in s : j <= n
  OBVIOUS
<1> QED BY <1>1, MaxIsGreatest

\* g follows the recursion on the subsets of 1 .. m.
Follows(g, step, start, m) ==
  /\ g[{}] = start
  /\ \A s \in SUBSET (1 .. m) : s # {} => g[s] = step[<<Max(s), g[s \ {Max(s)}]>>]

LEMMA RecursionGrows ==
  ASSUME NEW n \in Nat, NEW X, NEW start \in X, NEW step \in [(1 .. n) \X X -> X],
         NEW m \in 0 .. n - 1,
         NEW g \in [SUBSET (1 .. m) -> X], Follows(g, step, start, m)
  PROVE  \E h \in [SUBSET (1 .. m + 1) -> X] : Follows(h, step, start, m + 1)
<1> DEFINE h == [s \in SUBSET (1 .. m + 1) |->
                   IF s \in SUBSET (1 .. m) THEN g[s] ELSE step[<<m + 1, g[s \ {m + 1}]>>]]
<1>1. m \in Nat /\ m + 1 \in 1 .. n /\ m + 1 \in Nat
  OBVIOUS
<1>2. ASSUME NEW s \in SUBSET (1 .. m + 1)
      PROVE  s \ {m + 1} \in SUBSET (1 .. m)
  BY <1>1
<1>3. ASSUME NEW s \in SUBSET (1 .. m + 1) PROVE h[s] \in X
  <2>1. g[s \ {m + 1}] \in X
    BY <1>2
  <2>2. step[<<m + 1, g[s \ {m + 1}]>>] \in X
    BY <1>1, <2>1
  <2> QED BY <2>2
<1>4. h \in [SUBSET (1 .. m + 1) -> X]
  <2> HIDE DEF h
  <2> SUFFICES h = [s \in SUBSET (1 .. m + 1) |-> h[s]]
    BY <1>3
  <2> QED BY DEF h
<1>5. h[{}] = start
  BY DEF Follows
<1>6. ASSUME NEW s \in SUBSET (1 .. m + 1), s # {}
      PROVE  h[s] = step[<<Max(s), h[s \ {Max(s)}]>>]
  <2>1. Max(s) \in s /\ \A j \in s : j <= Max(s)
    BY <1>1, <1>6, MaxOfPlaces
  <2>2. CASE s \in SUBSET (1 .. m)
    <3>1. s \ {Max(s)} \in SUBSET (1 .. m) /\ s \ {Max(s)} \in SUBSET (1 .. m + 1)
      BY <2>2
    <3>2. h[s] = g[s] /\ h[s \ {Max(s)}] = g[s \ {Max(s)}]
      BY <2>2, <3>1
    <3>3. g[s] = step[<<Max(s), g[s \ {Max(s)}]>>]
      BY <1>6, <2>2 DEF Follows
    <3> QED BY <3>2, <3>3
  <2>3. CASE s \notin SUBSET (1 .. m)
    <3>1. m + 1 \in s
      <4>1. PICK i \in s : i \notin 1 .. m
        BY <2>3
      <4>2. i \in 1 .. m + 1
        OBVIOUS
      <4>3. i = m + 1
        BY <1>1, <4>1, <4>2
      <4> QED BY <4>3
    <3>2. Max(s) = m + 1
      <4>1. Max(s) \in 1 .. m + 1 /\ m + 1 <= Max(s)
        BY <2>1, <3>1
      <4> QED BY <1>1, <4>1
    <3>3. s \ {m + 1} \in SUBSET (1 .. m) /\ s \ {m + 1} \in SUBSET (1 .. m + 1)
      BY <1>2
    <3>4. h[s \ {m + 1}] = g[s \ {m + 1}]
      BY <3>3
    <3>5. h[s] = step[<<m + 1, g[s \ {m + 1}]>>]
      BY <2>3
    <3> QED BY <3>2, <3>4, <3>5
  <2> QED BY <2>2, <2>3
<1>7. Follows(h, step, start, m + 1)
  <2> HIDE DEF h
  <2> QED BY <1>5, <1>6 DEF Follows
<1> QED BY <1>4, <1>7

LEMMA RecursionOverPlaces ==
  ASSUME NEW n \in Nat, NEW X, NEW start \in X, NEW step \in [(1 .. n) \X X -> X]
  PROVE  \E g \in [SUBSET (1 .. n) -> X] : Follows(g, step, start, n)
<1> DEFINE Solved(m) == \E g \in [SUBSET (1 .. m) -> X] : Follows(g, step, start, m)
           Bad == {m \in 0 .. n : ~Solved(m)}
<1>1. Solved(0)
  <2> DEFINE g == [s \in SUBSET (1 .. 0) |-> start]
  <2>1. \A s \in SUBSET (1 .. 0) : s = {}
    OBVIOUS
  <2>2. g \in [SUBSET (1 .. 0) -> X] /\ g[{}] = start
    OBVIOUS
  <2>3. Follows(g, step, start, 0)
    <3> HIDE DEF g
    <3> QED BY <2>1, <2>2 DEF Follows
  <2> QED BY <2>2, <2>3
<1>2. ASSUME NEW m \in 0 .. n - 1, Solved(m) PROVE Solved(m + 1)
  BY <1>2, RecursionGrows
<1> HIDE DEF Solved
<1>3. Bad = {}
  <2> SUFFICES ASSUME Bad # {} PROVE FALSE
    OBVIOUS
  <2>1. Bad \subseteq Nat
    OBVIOUS
  <2>2. PICK m \in Bad : \A j \in Bad : m <= j
    <3> HIDE DEF Bad
    <3> QED BY <2>1, HasLeast
  <2>3. m \in 0 .. n /\ ~Solved(m) /\ m # 0
    BY <1>1, <2>2
  <2>4. m - 1 \in 0 .. n - 1 /\ m - 1 \in 0 .. n /\ ~(m <= m - 1) /\ (m - 1) + 1 = m
    BY <2>3
  <2>5. Solved(m - 1)
    BY <2>2, <2>4
  <2>6. Solved((m - 1) + 1)
    BY <1>2, <2>4, <2>5
  <2> QED BY <2>3, <2>4, <2>6
<1>4. Solved(n)
  BY <1>3
<1> QED BY <1>4 DEF Solved

-----------------------------------------------------------------------------
(* ChangeSet: one operation on the working state. *)

Working == [rrsets : [Keys -> Seq(Rdata)],
            changed : SUBSET Keys,
            error : {"NONE", "CHANGESET_INVALID", "VALIDATION_ERROR"}]

\* An operation that _apply_ops carries out.
Fine(op) ==
  \/ op.action = "delete"
  \/ op.action = "replace" /\ IsInjective(op.records)

LEMMA ListsAreSeqs == Lists \subseteq Seq(Rdata)
<1> SUFFICES ASSUME NEW n \in 0 .. MaxRRset, NEW s \in [1 .. n -> Rdata]
             PROVE  s \in Seq(Rdata)
  BY DEF Lists
<1>1. n \in Nat
  BY ChangeSetAssumption
<1> QED BY <1>1, SeqDef

LEMMA OperationKinds ==
  ASSUME NEW op \in Operations
  PROVE  \/ op.action = "delete" /\ op.key \in Keys
         \/ op.action = "replace" /\ op.key \in Keys /\ op.records \in Seq(Rdata)
         \/ op.action = "unreadable" /\ op = Unreadable
<1>1. CASE \E k \in Keys : op = Delete(k)
  BY <1>1 DEF Delete
<1>2. CASE \E k \in Keys, records \in Lists : op = Replace(k, records)
  BY <1>2, ListsAreSeqs DEF Replace
<1>3. CASE op = Unreadable
  BY <1>3 DEF Unreadable
<1> QED BY <1>1, <1>2, <1>3 DEF Operations

\* What an operation does to the RRset of a key and to the list of changes.
Turn(w, z, op) ==
  \A k \in Keys :
    /\ op.key # k => z.rrsets[k] = w.rrsets[k] /\ (k \in z.changed <=> k \in w.changed)
    /\ op.key = k /\ op.action = "delete" =>
         \/ z.rrsets[k] = <<>> /\ k \in z.changed
         \/ /\ z.rrsets[k] = w.rrsets[k] /\ (k \in z.changed <=> k \in w.changed)
            /\ w.rrsets[k] = <<>> \/ k \in w.changed
    /\ op.key = k /\ op.action = "replace" =>
         /\ z.rrsets[k] = op.records
         /\ k \in z.changed \/ z.rrsets[k] = w.rrsets[k]
         /\ k \in w.changed => k \in z.changed

LEMMA ApplyOpTurn ==
  ASSUME NEW w \in Working, NEW op \in Operations, NEW z, z = ApplyOp(w, op)
  PROVE  /\ z \in Working
         /\ w.error # "NONE" => z = w
         /\ w.error = "NONE" => /\ z.error = "NONE" <=> Fine(op)
                                /\ z.error = "NONE" => Turn(w, z, op)
<1>1. CASE w.error # "NONE"
  BY <1>1 DEF ApplyOp
<1>2. ASSUME w.error = "NONE", op.action = "delete", op.key \in Keys
      PROVE  z \in Working /\ z.error = "NONE" /\ Turn(w, z, op)
  <2>1. z = Deleted(w, op.key)
    BY <1>2 DEF ApplyOp
  <2>2. CASE w.rrsets[op.key] # <<>> /\ op.key \notin w.changed
    <3>1. z = [w EXCEPT !.rrsets[op.key] = <<>>, !.changed = @ \union {op.key}]
      BY <2>1, <2>2 DEF Deleted
    <3>2. /\ z.rrsets = [w.rrsets EXCEPT ![op.key] = <<>>]
          /\ z.changed = w.changed \union {op.key}
          /\ z.error = w.error
      <4>1. w = [rrsets |-> w.rrsets, changed |-> w.changed, error |-> w.error]
        BY DEF Working
      <4> QED BY <3>1, <4>1
    <3>3. <<>> \in Seq(Rdata)
      OBVIOUS
    <3>4. w.rrsets \in [Keys -> Seq(Rdata)]
      BY DEF Working
    <3>5. z \in Working
      <4>1. z.rrsets \in [Keys -> Seq(Rdata)] /\ z.changed \in SUBSET Keys
        BY <1>2, <3>2, <3>3, <3>4 DEF Working
      <4>2. z = [rrsets |-> z.rrsets, changed |-> z.changed, error |-> z.error]
        BY <3>1 DEF Working
      <4> QED BY <3>2, <4>1, <4>2 DEF Working
    <3>6. op.action # "replace" /\ w.error = z.error
      BY <1>2, <3>2
    <3>7. z.rrsets[op.key] = <<>> /\ op.key \in z.changed
      BY <1>2, <3>2, <3>4
    <3>8. \A k \in Keys : op.key # k =>
            z.rrsets[k] = w.rrsets[k] /\ (k \in z.changed <=> k \in w.changed)
      BY <3>2, <3>4
    <3> QED BY ONLY <1>2, <3>5, <3>6, <3>7, <3>8 DEF Turn
  <2>3. CASE ~(w.rrsets[op.key] # <<>> /\ op.key \notin w.changed)
    <3>1. z = w
      BY <2>1, <2>3 DEF Deleted
    <3> QED BY <1>2, <2>3, <3>1 DEF Turn
  <2> QED BY <2>2, <2>3
<1>3. ASSUME w.error = "NONE", op.action = "replace", op.key \in Keys,
             op.records \in Seq(Rdata)
      PROVE  /\ z \in Working
             /\ z.error = "NONE" <=> IsInjective(op.records)
             /\ z.error = "NONE" => Turn(w, z, op)
  <2>1. z = Replaced(w, op.key, op.records)
    BY <1>3 DEF ApplyOp
  <2>2. CASE ~IsInjective(op.records)
    <3>1. z = [w EXCEPT !.error = "CHANGESET_INVALID"]
      BY <2>1, <2>2 DEF Replaced
    <3> QED BY <2>2, <3>1 DEF Working
  <2>3. CASE IsInjective(op.records)
    <3>1. z = [w EXCEPT !.rrsets[op.key] = op.records,
                 !.changed = IF w.rrsets[op.key] = <<>> \/ w.rrsets[op.key] # op.records
                               THEN @ \union {op.key} ELSE @]
      BY <2>1, <2>3 DEF Replaced
    <3>2. /\ z.rrsets = [w.rrsets EXCEPT ![op.key] = op.records]
          /\ z.changed = IF w.rrsets[op.key] = <<>> \/ w.rrsets[op.key] # op.records
                           THEN w.changed \union {op.key} ELSE w.changed
          /\ z.error = w.error
      BY <3>1 DEF Working
    <3>3. z \in Working
      <4>1. PICK r : r = [w.rrsets EXCEPT ![op.key] = op.records]
        OBVIOUS
      <4>2. PICK c : c = IF w.rrsets[op.key] = <<>> \/ w.rrsets[op.key] # op.records
                           THEN w.changed \union {op.key} ELSE w.changed
        OBVIOUS
      <4>3. z = [w EXCEPT !.rrsets = r, !.changed = c]
        BY <3>1, <4>1, <4>2
      <4>4. r \in [Keys -> Seq(Rdata)] /\ c \in SUBSET Keys
        BY <1>3, <4>1, <4>2 DEF Working
      <4> QED BY <4>3, <4>4 DEF Working
    <3>4. w.rrsets \in [Keys -> Seq(Rdata)]
      BY DEF Working
    <3>5. Turn(w, z, op)
      BY <1>3, <3>2, <3>4 DEF Turn
    <3> QED BY <1>3, <2>3, <3>2, <3>3, <3>5
  <2> QED BY <2>2, <2>3
<1>4. ASSUME w.error = "NONE", op.action = "unreadable"
      PROVE  z \in Working /\ z.error # "NONE"
  <2>1. z = [w EXCEPT !.error = "VALIDATION_ERROR"]
    BY <1>4 DEF ApplyOp
  <2> QED BY <2>1 DEF Working
<1> QED BY <1>1, <1>2, <1>3, <1>4, OperationKinds DEF Fine

\* A list of operations is carried out one after the other.
LEMMA FoldOfOperations ==
  ASSUME NEW list \in Seq(Operations), NEW start \in Working
  PROVE  \E h \in [0 .. Len(list) -> Working] :
           /\ h[0] = start
           /\ \A i \in 1 .. Len(list) : h[i] = ApplyOp(h[i - 1], list[i])
           /\ FoldLeft(ApplyOp, start, list) = h[Len(list)]
<1> DEFINE n == Len(list)
           step == [x \in (1 .. n) \X Working |-> ApplyOp(x[2], list[x[1]])]
           Rule(g) == g = [s \in SUBSET DOMAIN list |->
                             IF s = {} THEN start
                             ELSE ApplyOp(g[s \ {Max(s)}], list[Max(s)])]
<1>1. n \in Nat /\ DOMAIN list = 1 .. n
  OBVIOUS
<1>2. step \in [(1 .. n) \X Working -> Working]
  <2> SUFFICES ASSUME NEW i \in 1 .. n, NEW w \in Working
               PROVE  ApplyOp(w, list[i]) \in Working
    OBVIOUS
  <2>1. list[i] \in Operations
    BY ElementOfSeq
  <2> QED BY <2>1, ApplyOpTurn
<1>3. PICK g0 \in [SUBSET (1 .. n) -> Working] : Follows(g0, step, start, n)
  <2> HIDE DEF n, step
  <2> QED BY <1>1, <1>2, RecursionOverPlaces
<1>4. Rule(g0)
  <2>1. ASSUME NEW s \in SUBSET (1 .. n), s # {}
        PROVE  g0[s] = ApplyOp(g0[s \ {Max(s)}], list[Max(s)])
    <3>1. Max(s) \in 1 .. n /\ s \ {Max(s)} \in SUBSET (1 .. n)
      BY <1>1, <2>1, MaxOfPlaces
    <3>2. g0[s] = step[<<Max(s), g0[s \ {Max(s)}]>>]
      BY <1>3, <2>1 DEF Follows
    <3>3. <<Max(s), g0[s \ {Max(s)}]>> \in (1 .. n) \X Working
      BY <3>1
    <3> QED BY <3>2, <3>3
  <2>2. g0[{}] = start
    BY <1>3 DEF Follows
  <2> HIDE DEF n, step
  <2> QED BY <1>1, <2>1, <2>2
<1>5. PICK g : g = CHOOSE iter : Rule(iter)
  OBVIOUS
<1>6. Rule(g)
  <2> HIDE DEF Rule
  <2> QED BY <1>4, <1>5
<1>7. FoldLeft(ApplyOp, start, list) = g[1 .. n]
  BY <1>1, <1>5 DEF FoldLeft, MapThenFoldSet
<1>8. g[{}] = start
  BY <1>6
<1>9. ASSUME NEW i \in 1 .. n
      PROVE  g[1 .. i] = ApplyOp(g[1 .. i - 1], list[i])
  <2>1. 1 .. i \in SUBSET DOMAIN list /\ 1 .. i # {} /\ i \in 1 .. i
    BY <1>1
  <2>2. Max(1 .. i) = i
    <3>1. Max(1 .. i) \in 1 .. i /\ i <= Max(1 .. i)
      BY <1>1, <2>1, MaxOfPlaces
    <3> QED BY <1>1, <3>1
  <2>3. (1 .. i) \ {i} = 1 .. i - 1
    BY <1>1
  <2>4. g[1 .. i] = ApplyOp(g[(1 .. i) \ {Max(1 .. i)}], list[Max(1 .. i)])
    <3> HIDE DEF n
    <3> QED BY <1>6, <2>1
  <2> QED BY <2>2, <2>3, <2>4
<1> DEFINE h == [i \in 0 .. n |-> g[1 .. i]]
<1>10. h[0] = start
  <2>1. 1 .. 0 = {}
    OBVIOUS
  <2> QED BY <1>1, <1>8, <2>1
<1>11. \A i \in 1 .. n : h[i] = ApplyOp(h[i - 1], list[i])
  BY <1>1, <1>9
<1>12. FoldLeft(ApplyOp, start, list) = h[n]
  BY <1>1, <1>7
<1>13. h \in [0 .. n -> Working]
  <2> DEFINE Bad == {i \in 0 .. n : h[i] \notin Working}
  <2>1. Bad = {}
    <3> SUFFICES ASSUME Bad # {} PROVE FALSE
      OBVIOUS
    <3>1. Bad \subseteq Nat
      BY <1>1
    <3>2. PICK i \in Bad : \A j \in Bad : i <= j
      <4> HIDE DEF Bad
      <4> QED BY <3>1, HasLeast
    <3> HIDE DEF h
    <3>3. i \in 1 .. n /\ i - 1 \in 0 .. n /\ ~(i <= i - 1)
      BY <1>1, <1>10, <3>2
    <3>4. h[i - 1] \in Working
      BY <3>2, <3>3
    <3>5. list[i] \in Operations
      BY <3>3, ElementOfSeq
    <3>6. ApplyOp(h[i - 1], list[i]) \in Working
      BY <3>4, <3>5, ApplyOpTurn
    <3> QED BY <1>11, <3>2, <3>3, <3>6
  <2> QED BY <2>1
<1> HIDE DEF h, n
<1> QED BY <1>10, <1>11, <1>12, <1>13 DEF n

-----------------------------------------------------------------------------
(* What a list of operations makes of an RRset. *)

\* The places among the first n at which the key is spoken of.
On(list, n, k) == {i \in 1 .. n : list[i].key = k}

Unmixed(list, n, k) ==
  \A i, j \in On(list, n, k) : list[i].action = list[j].action

\* An RRset is as it was and not noted as changed, gone, or what the last
\* replacement says.
Settled(rows, w, list, n, k) ==
  /\ On(list, n, k) = {} => w.rrsets[k] = rows[k] /\ k \notin w.changed
  /\ \A i \in On(list, n, k) :
       /\ list[i].action = "delete" => w.rrsets[k] = <<>>
       /\ list[i].action = "replace" /\ (\A j \in On(list, n, k) : j <= i)
            => w.rrsets[k] = list[i].records

\* The working state w after the first n operations of list.
Done(rows, w, list, n) ==
  /\ w \in Working
  /\ w.error = "NONE" <=> \A i \in 1 .. n : Fine(list[i])
  /\ w.error = "NONE" =>
       /\ \A k \in Keys : Unmixed(list, n, k) => Settled(rows, w, list, n, k)
       /\ \A k \in Keys : k \notin w.changed => w.rrsets[k] = rows[k]

LEMMA DoneAtFirst ==
  ASSUME NEW rows \in [Keys -> Seq(Rdata)], NEW list
  PROVE  Done(rows, Begin(rows), list, 0)
<1>1. PICK w : w = Begin(rows)
  OBVIOUS
<1>2. w \in Working /\ w.error = "NONE" /\ w.rrsets = rows /\ w.changed = {}
  BY <1>1 DEF Begin, Working
<1>3. \A k : On(list, 0, k) = {}
  BY DEF On
<1>4. Done(rows, w, list, 0)
  BY <1>2, <1>3 DEF Done, Settled
<1> QED BY <1>1, <1>4

LEMMA DoneGoesOn ==
  ASSUME NEW rows \in [Keys -> Seq(Rdata)], NEW n \in Nat,
         NEW list \in Seq(Operations), Len(list) > n,
         NEW before, \A i \in 1 .. n : before[i] = list[i],
         NEW w, Done(rows, w, before, n)
  PROVE  Done(rows, ApplyOp(w, list[n + 1]), list, n + 1)
<1>1. PICK z : z = ApplyOp(w, list[n + 1])
  OBVIOUS
<1>2. w \in Working
  BY DEF Done
<1>3. n + 1 \in 1 .. Len(list) /\ Len(list) \in Nat
  OBVIOUS
<1>4. list[n + 1] \in Operations
  BY <1>3, ElementOfSeq
<1>5. PICK op \in Operations : op = list[n + 1]
  BY <1>4
<1>6. /\ z \in Working
      /\ w.error # "NONE" => z = w
      /\ w.error = "NONE" => /\ z.error = "NONE" <=> Fine(op)
                             /\ z.error = "NONE" => Turn(w, z, op)
  BY <1>1, <1>2, <1>5, ApplyOpTurn
<1>7. z.error = "NONE" <=> w.error = "NONE" /\ Fine(op)
  BY <1>6
<1>8. \A i \in 1 .. n + 1 : i \in 1 .. n \/ i = n + 1
  OBVIOUS
<1>9. 1 .. n \subseteq 1 .. n + 1 /\ n + 1 \in 1 .. n + 1 /\ n + 1 \notin 1 .. n
  OBVIOUS
<1>10. z.error = "NONE" <=> \A i \in 1 .. n + 1 : Fine(list[i])
  <2>1. w.error = "NONE" <=> \A i \in 1 .. n : Fine(list[i])
    BY DEF Done
  <2> QED BY <1>5, <1>7, <1>8, <1>9, <2>1
<1>11. ASSUME z.error = "NONE", NEW k \in Keys
       PROVE  k \notin z.changed => z.rrsets[k] = rows[k]
  <2>1. /\ w.error = "NONE" /\ Fine(op) /\ Turn(w, z, op)
        /\ k \notin w.changed => w.rrsets[k] = rows[k]
    BY <1>6, <1>7, <1>11 DEF Done
  <2> QED BY <2>1 DEF Turn, Fine
<1>12. ASSUME z.error = "NONE", NEW k \in Keys, Unmixed(list, n + 1, k)
       PROVE  Settled(rows, z, list, n + 1, k)
  <2>1. w.error = "NONE" /\ Fine(op) /\ Turn(w, z, op)
    BY <1>6, <1>7, <1>12
  <2>2. /\ On(before, n, k) \subseteq On(list, n + 1, k)
        /\ \A i \in On(before, n, k) : i \in 1 .. n /\ before[i] = list[i] /\ i < n + 1
        /\ \A i \in On(list, n + 1, k) : i \in On(before, n, k) \/ i = n + 1
        /\ n + 1 \in On(list, n + 1, k) <=> op.key = k
    BY <1>5, <1>8, <1>9 DEF On
  <2>3. Settled(rows, w, before, n, k)
    <3>1. Unmixed(before, n, k)
      BY <1>12, <2>2 DEF Unmixed
    <3> QED BY <2>1, <3>1 DEF Done
  <2>4. CASE op.key # k
    <3>1. z.rrsets[k] = w.rrsets[k] /\ (k \in z.changed <=> k \in w.changed)
      BY <2>1, <2>4 DEF Turn
    <3>2. On(list, n + 1, k) = On(before, n, k)
      BY <2>2, <2>4
    <3> QED BY <2>2, <2>3, <3>1, <3>2 DEF Settled
  <2>5. CASE op.key = k /\ op.action = "delete"
    <3>1. \A i \in On(list, n + 1, k) : list[i].action = "delete"
      BY <1>5, <1>12, <2>2, <2>5 DEF Unmixed
    <3>2. z.rrsets[k] = <<>>
      <4>1. CASE On(before, n, k) = {}
        BY <2>1, <2>3, <2>5, <4>1 DEF Settled, Turn
      <4>2. CASE On(before, n, k) # {}
        <5>1. w.rrsets[k] = <<>>
          BY <2>2, <2>3, <3>1, <4>2 DEF Settled
        <5> QED BY <2>1, <2>5, <5>1 DEF Turn
      <4> QED BY <4>1, <4>2
    <3> QED BY <2>2, <2>5, <3>1, <3>2 DEF Settled
  <2>6. CASE op.key = k /\ op.action = "replace"
    <3>1. \A i \in On(list, n + 1, k) : list[i].action = "replace"
      BY <1>5, <1>12, <2>2, <2>6 DEF Unmixed
    <3>2. z.rrsets[k] = op.records
      BY <2>1, <2>6 DEF Turn
    <3>3. ASSUME NEW i \in On(list, n + 1, k), \A j \in On(list, n + 1, k) : j <= i
          PROVE  i = n + 1
      <4>1. n + 1 <= i
        BY <2>2, <2>6, <3>3
      <4>2. i \in 1 .. n + 1
        BY DEF On
      <4> QED BY <4>1, <4>2
    <3> QED BY <1>5, <2>2, <2>6, <3>1, <3>2, <3>3 DEF Settled
  <2> QED BY <2>1, <2>4, <2>5, <2>6 DEF Fine
<1>13. Done(rows, z, list, n + 1)
  BY <1>6, <1>10, <1>11, <1>12 DEF Done
<1> QED BY <1>1, <1>13

\* The effect of a list, by which retries are compared.
LEMMA DoneAtLast ==
  ASSUME NEW rows \in [Keys -> Seq(Rdata)], NEW list \in Seq(Operations)
  PROVE  Done(rows, FoldLeft(ApplyOp, Begin(rows), list), list, Len(list))
<1>1. Begin(rows) \in Working
  BY DoneAtFirst DEF Done
<1>2. PICK h \in [0 .. Len(list) -> Working] :
        /\ h[0] = Begin(rows)
        /\ \A i \in 1 .. Len(list) : h[i] = ApplyOp(h[i - 1], list[i])
        /\ FoldLeft(ApplyOp, Begin(rows), list) = h[Len(list)]
  BY <1>1, FoldOfOperations
<1> DEFINE Bad == {i \in 0 .. Len(list) : ~Done(rows, h[i], list, i)}
<1>3. Bad = {}
  <2> SUFFICES ASSUME Bad # {} PROVE FALSE
    OBVIOUS
  <2>1. Bad \subseteq Nat
    OBVIOUS
  <2>2. PICK i \in Bad : \A j \in Bad : i <= j
    <3> HIDE DEF Bad
    <3> QED BY <2>1, HasLeast
  <2>3. i # 0
    BY <1>2, <2>2, DoneAtFirst
  <2>4. PICK m \in Nat : i = m + 1
    BY <2>3
  <2>5. m + 1 \in 1 .. Len(list) /\ m \in 0 .. Len(list) /\ Len(list) > m
        /\ ~(m + 1 <= m) /\ (m + 1) - 1 = m
    BY <2>4
  <2>6. Done(rows, h[m], list, m)
    BY <2>2, <2>4, <2>5
  <2>7. h[m + 1] = ApplyOp(h[m], list[m + 1])
    <3>1. h[m + 1] = ApplyOp(h[(m + 1) - 1], list[m + 1])
      BY <1>2, <2>5
    <3> QED BY <2>5, <3>1
  <2>8. Done(rows, ApplyOp(h[m], list[m + 1]), list, m + 1)
    BY <2>5, <2>6, DoneGoesOn
  <2> QED BY <2>2, <2>4, <2>7, <2>8
<1>4. Done(rows, h[Len(list)], list, Len(list))
  <2>1. Len(list) \in 0 .. Len(list)
    OBVIOUS
  <2> QED BY <1>3, <2>1
<1> QED BY <1>2, <1>4

-----------------------------------------------------------------------------
(* Two lists with the same fingerprint. *)

\* The places of an action on a key, as the fingerprint groups them.
Group(list, k, action) ==
  {i \in DOMAIN list : list[i].action = action /\ list[i].key = k}

LEMMA GroupIsFinite ==
  ASSUME NEW list \in Seq(Operations), NEW k, NEW action
  PROVE  /\ IsFiniteSet(Group(list, k, action))
         /\ Group(list, k, action) \subseteq Int
         /\ Group(list, k, action) \subseteq Nat
         /\ \A i \in Group(list, k, action) : i <= Len(list)
<1>1. Group(list, k, action) \in SUBSET (1 .. Len(list)) /\ Len(list) \in Nat
  BY DEF Group
<1>2. IsFiniteSet(1 .. Len(list))
  BY <1>1, FS_Interval
<1> QED BY <1>1, <1>2, FS_Subset

\* i is the last of a set of places.
Final(S, i) == i \in S /\ \A m \in S : m <= i

\* Equal selections are of equal number,
LEMMA SameNumber ==
  ASSUME NEW l1, NEW S1, IsFiniteSet(S1), NEW l2, NEW S2, IsFiniteSet(S2),
         Picked(l1, S1) = Picked(l2, S2)
  PROVE  /\ Cardinality(S1) = Cardinality(S2)
         /\ S1 = {} <=> S2 = {}
<1> DEFINE c1 == Cardinality(S1)
           c2 == Cardinality(S2)
<1>1. c1 \in Nat /\ c2 \in Nat
  BY FS_CardinalityType
<1>2. DOMAIN Picked(l1, S1) = 1 .. c1 /\ DOMAIN Picked(l2, S2) = 1 .. c2
  BY DEF Picked
<1>3. 1 .. c1 = 1 .. c2
  BY <1>2
<1> HIDE DEF c1, c2
<1>4. c1 = c2
  <2>1. c1 > 0 => c1 \in 1 .. c2
    <3>1. c1 > 0 => c1 \in 1 .. c1
      BY <1>1
    <3> QED BY <1>3, <3>1
  <2>2. c2 > 0 => c2 \in 1 .. c1
    <3>1. c2 > 0 => c2 \in 1 .. c2
      BY <1>1
    <3> QED BY <1>3, <3>1
  <2> QED BY <1>1, <2>1, <2>2
<1>5. S1 = {} <=> S2 = {}
  BY <1>4, FS_EmptySet DEF c1, c2
<1> QED BY <1>4, <1>5 DEF c1, c2

\* A selection ends in what stands at its last place.
LEMMA PickedLast ==
  ASSUME NEW list, NEW S, IsFiniteSet(S), S \subseteq Int, NEW i, Final(S, i)
  PROVE  Picked(list, S)[Cardinality(S)] = list[i]
<1> DEFINE c == Cardinality(S)
<1>1. c \in Nat \ {0} /\ Nth(S, c) = i
  BY NthLast DEF Final
<1>2. c \in 1 .. c
  BY <1>1
<1> QED BY <1>1, <1>2 DEF Picked, Enumerated

LEMMA SameOnKey ==
  ASSUME NEW rows, NEW k \in Keys, NEW n \in Nat,
         NEW list \in Seq(Operations), Len(list) = n,
         NEW other \in Seq(Operations), Len(other) = n,
         NEW w, Done(rows, w, list, n), w.error = "NONE",
         NEW v, Done(rows, v, other, n), v.error = "NONE",
         Unmixed(list, n, k),
         OnKey(other, k, "delete") = OnKey(list, k, "delete"),
         OnKey(other, k, "replace") = OnKey(list, k, "replace")
  PROVE  v.rrsets[k] = w.rrsets[k]
<1> DEFINE D1 == Group(list, k, "delete")
           D2 == Group(other, k, "delete")
           R1 == Group(list, k, "replace")
           R2 == Group(other, k, "replace")
<1>1. DOMAIN list = 1 .. n /\ DOMAIN other = 1 .. n
  OBVIOUS
<1>2. /\ On(list, n, k) = D1 \union R1 /\ On(other, n, k) = D2 \union R2
      /\ \A i \in D1 : list[i].action = "delete"
      /\ \A i \in R1 : list[i].action = "replace"
      /\ \A i \in D2 : other[i].action = "delete"
      /\ \A i \in R2 : other[i].action = "replace"
  <2>1. /\ \A i \in 1 .. n : list[i].action \in {"delete", "replace"}
        /\ \A i \in 1 .. n : other[i].action \in {"delete", "replace"}
    BY DEF Done, Fine
  <2> QED BY <1>1, <2>1 DEF On, Group
<1>3. /\ IsFiniteSet(D1) /\ IsFiniteSet(D2) /\ D1 \subseteq Int /\ D2 \subseteq Int
      /\ IsFiniteSet(R1) /\ IsFiniteSet(R2) /\ R1 \subseteq Int /\ R2 \subseteq Int
  BY GroupIsFinite
<1>4. /\ R1 \subseteq Nat /\ \A i \in R1 : i <= n
      /\ R2 \subseteq Nat /\ \A i \in R2 : i <= n
  BY GroupIsFinite
<1>5. D2 = {} <=> D1 = {}
  <2>1. Picked(other, D2) = Picked(list, D1)
    BY DEF OnKey, Group
  <2> HIDE DEF D1, D2
  <2> QED BY <1>3, <2>1, SameNumber
<1>6. /\ R2 = {} <=> R1 = {}
      /\ \A i, j : Final(R2, i) /\ Final(R1, j) => other[i] = list[j]
  <2>1. Picked(other, R2) = Picked(list, R1)
    BY DEF OnKey, Group
  <2> HIDE DEF R1, R2
  <2>2. R2 = {} <=> R1 = {}
    BY <1>3, <2>1, SameNumber
  <2>3. ASSUME NEW i, NEW j, Final(R2, i), Final(R1, j)
        PROVE  other[i] = list[j]
    <3>1. Picked(other, R2)[Cardinality(R2)] = other[i]
      BY <1>3, <2>3, PickedLast
    <3>2. Picked(list, R1)[Cardinality(R1)] = list[j]
      BY <1>3, <2>3, PickedLast
    <3>3. Cardinality(R2) = Cardinality(R1)
      BY <1>3, <2>1, SameNumber
    <3> QED BY <2>1, <3>1, <3>2, <3>3
  <2> QED BY <2>2, <2>3
<1> HIDE DEF D1, D2, R1, R2
<1>7. D1 = {} \/ R1 = {}
  <2>1. ASSUME NEW i \in D1, NEW j \in R1 PROVE FALSE
    BY <1>2 DEF Unmixed
  <2> QED BY <2>1
<1>8. D2 = {} \/ R2 = {}
  BY <1>5, <1>6, <1>7
<1>9. Unmixed(other, n, k)
  BY <1>2, <1>8 DEF Unmixed
<1>10. Settled(rows, w, list, n, k) /\ Settled(rows, v, other, n, k)
  BY <1>9 DEF Done
<1>11. CASE D1 = {} /\ R1 = {}
  <2>1. On(list, n, k) = {} /\ On(other, n, k) = {}
    BY <1>2, <1>5, <1>6, <1>11
  <2> QED BY <1>10, <2>1 DEF Settled
<1>12. CASE D1 # {}
  <2>1. PICK i \in D1, j \in D2 : TRUE
    BY <1>5, <1>12
  <2>2. /\ i \in On(list, n, k) /\ list[i].action = "delete"
        /\ j \in On(other, n, k) /\ other[j].action = "delete"
    BY <1>2
  <2>3. w.rrsets[k] = <<>>
    BY <1>10, <2>2 DEF Settled
  <2>4. v.rrsets[k] = <<>>
    BY <1>10, <2>2 DEF Settled
  <2> QED BY <2>3, <2>4
<1>13. CASE R1 # {}
  <2>1. PICK i \in R1 : \A m \in R1 : m <= i
    BY <1>4, <1>13, HasGreatest
  <2>2. PICK j \in R2 : \A m \in R2 : m <= j
    BY <1>4, <1>6, <1>13, HasGreatest
  <2>3. D1 = {} /\ D2 = {}
    BY <1>5, <1>7, <1>13
  <2>4. w.rrsets[k] = list[i].records
    BY <1>2, <1>10, <2>1, <2>3 DEF Settled
  <2>5. v.rrsets[k] = other[j].records
    BY <1>2, <1>10, <2>2, <2>3 DEF Settled
  <2>6. other[j] = list[i]
    BY <1>6, <2>1, <2>2 DEF Final
  <2> QED BY <2>4, <2>5, <2>6
<1> QED BY <1>11, <1>12, <1>13

-----------------------------------------------------------------------------
(***************************************************************************)
(* The state of a changeset: the working copy is what the operations so    *)
(* far make of the rows loaded, and an RRset that is not noted as changed  *)
(* is as it was.                                                           *)
(***************************************************************************)
State == [rrsets |-> rrsets, changed |-> changed, error |-> error]

CInv ==
  /\ old \in [Keys -> Seq(Rdata)]
  /\ ops \in Seq(Operations)
  /\ Done(old, State, ops, Len(ops))

(***************************************************************************)
(* The invariant holds after every operation _apply_ops carries out.       *)
(***************************************************************************)
THEOREM ChangeSetInvariant == Spec => []CInv
<1>1. ASSUME Init PROVE CInv
  <2>1. old \in [Keys -> Seq(Rdata)]
    BY <1>1, ListsAreSeqs DEF Init, Stored
  <2>2. State = Begin(old) /\ Len(ops) = 0 /\ ops \in Seq(Operations)
    BY <1>1 DEF Init, State, Begin
  <2> QED BY <2>1, <2>2, DoneAtFirst DEF CInv
<1>2. ASSUME CInv, NEW op \in Operations, ApplyNext(op) PROVE CInv'
  <2> DEFINE n == Len(ops)
  <2>1. n \in Nat /\ ops \in Seq(Operations) /\ old' = old /\ ops' = Append(ops, op)
    BY <1>2 DEF CInv, ApplyNext
  <2>2. /\ ops' \in Seq(Operations) /\ Len(ops') = n + 1 /\ ops'[n + 1] = op
        /\ \A i \in 1 .. n : ops[i] = ops'[i]
    BY <2>1, AppendProperties
  <2>3. PICK w : w = State
    OBVIOUS
  <2>4. PICK z : z = ApplyOp(w, op)
    OBVIOUS
  <2>5. Done(old, w, ops, n)
    BY <1>2, <2>3 DEF CInv
  <2>6. Done(old, z, ops', n + 1)
    <3>1. old \in [Keys -> Seq(Rdata)] /\ Len(ops') > n
      BY <1>2, <2>1, <2>2 DEF CInv
    <3>2. Done(old, ApplyOp(w, ops'[n + 1]), ops', n + 1)
      <4> HIDE DEF n
      <4> QED BY <2>1, <2>2, <2>5, <3>1, DoneGoesOn
    <3> QED BY <2>2, <2>4, <3>2
  <2>7. rrsets' = z.rrsets /\ changed' = z.changed /\ error' = z.error
    BY <1>2, <2>3, <2>4 DEF ApplyNext, State
  <2>8. State' = z
    BY <2>6, <2>7 DEF State, Done, Working
  <2> QED BY <1>2, <2>1, <2>2, <2>6, <2>8 DEF CInv
<1>3. ASSUME CInv, UNCHANGED vars PROVE CInv'
  BY <1>3 DEF CInv, State, vars
<1>4. CInv /\ [Next]_vars => CInv'
  BY <1>2, <1>3 DEF Next
<1> QED BY <1>1, <1>4, PTL DEF Spec

\* What the properties of a changeset need of the invariant.
LEMMA UnchangedRows ==
  ASSUME CInv, error = "NONE", NEW k \in Keys, k \notin changed
  PROVE  rrsets[k] = old[k]
BY DEF CInv, Done, State

\* No operation of a changeset without error is unreadable.
LEMMA PlacesOfReadable ==
  ASSUME CInv, error = "NONE", NEW k \in Keys
  PROVE  PlacesOf(ops, k) = On(ops, Len(ops), k)
<1>1. DOMAIN ops = 1 .. Len(ops)
  BY DEF CInv
<1>2. \A i \in 1 .. Len(ops) : Fine(ops[i])
  BY DEF CInv, Done, State
<1>3. \A i \in 1 .. Len(ops) : ops[i] # Unreadable
  BY <1>2 DEF Fine, Unreadable
<1> QED BY <1>1, <1>3 DEF PlacesOf, On

(***************************************************************************)
(* What ZoneStore publishes is what the operations left in the working     *)
(* copy, for lists of any length on any RRsets (_apply_ops, _materialize): *)
(* its Applied and Noted leave out none of them.                           *)
(***************************************************************************)
THEOREM ResultInvariant == Spec => []ResultIsPublished
<1>1. CInv => ResultIsPublished
  <2> SUFFICES ASSUME CInv, error = "NONE" PROVE ResultIsPublished
    BY DEF ResultIsPublished
  <2> DEFINE named == {k \in Keys : PlacesOf(ops, k) # {}}
             before == Rows(old)
             after == Rows(rrsets)
  <2>1. ASSUME NEW k \in Keys, k \notin changed PROVE after[k] = before[k]
    BY <2>1, UnchangedRows DEF Rows
  <2>2. ASSUME NEW k \in Keys, PlacesOf(ops, k) = {}
        PROVE  k \notin changed
    <3>1. On(ops, Len(ops), k) = {}
      BY <2>2, PlacesOfReadable
    <3>2. Unmixed(ops, Len(ops), k)
      BY <3>1 DEF Unmixed
    <3>3. Settled(old, State, ops, Len(ops), k)
      BY <3>2 DEF CInv, Done, State
    <3> QED BY <3>1, <3>3 DEF Settled, State
  <2>3. changed \subseteq Keys
    BY DEF CInv, Done, Working, State
  <2>4. DOMAIN Result = named /\ \A k \in named : Result[k] = after[k]
    BY DEF Result
  <2>5. \A k \in Keys : k \notin named => PlacesOf(ops, k) = {}
    OBVIOUS
  <2>6. after = [k \in Keys |-> after[k]]
    BY DEF Rows
  <2> HIDE DEF named, before, after
  <2>7. after = Applied(before, Result)
    BY <2>1, <2>2, <2>4, <2>5, <2>6 DEF Applied
  <2>8. changed \in Noted(before, Result)
    <3>1. named \subseteq Keys
      BY DEF named
    <3> QED BY <2>1, <2>2, <2>3, <2>4, <2>5, <3>1 DEF Noted
  <2>9. Snapshot(before, after, changed) = after
    BY <2>1, <2>6 DEF Snapshot
  <2> QED BY <2>7, <2>8, <2>9 DEF ResultIsPublished, before, after
<1> QED BY <1>1, ChangeSetInvariant, PTL

(***************************************************************************)
(* A retry has the effect of the request it is taken for, unless an RRset  *)
(* is both deleted and replaced (canonical_fingerprint).                   *)
(***************************************************************************)
THEOREM RetriesInvariant == Spec => []RetriesAgree
<1>1. CInv => RetriesAgree
  <2> SUFFICES ASSUME CInv, error = "NONE", \A k \in Keys : ~Mixed(k),
                      NEW other \in Retries(ops)
               PROVE  Effect(other) = rrsets
    BY DEF RetriesAgree
  <2> DEFINE n == Len(ops)
  <2>1. /\ n \in Nat /\ ops \in Seq(Operations) /\ DOMAIN ops = 1 .. n
        /\ old \in [Keys -> Seq(Rdata)]
    BY DEF CInv
  <2>2. Fingerprint(other) = Fingerprint(ops)
    BY DEF Retries
  <2>3. PICK p \in [DOMAIN ops -> DOMAIN ops] : other = [i \in DOMAIN ops |-> ops[p[i]]]
    BY DEF Retries, Reorderings
  <2>4. other \in Seq(Operations) /\ Len(other) = n
    <3>1. \A i \in 1 .. n : ops[p[i]] \in Operations
      BY <2>1, <2>3, ElementOfSeq
    <3>2. other \in [1 .. n -> Operations]
      BY <2>1, <2>3, <3>1
    <3>3. other \in Seq(Operations)
      <4>1. PICK X, m : m \in Nat /\ X = Operations /\ m = n
        BY <2>1
      <4>2. other \in [1 .. m -> X]
        BY <3>2, <4>1
      <4>3. other \in Seq(X)
        BY ONLY <4>1, <4>2
      <4> QED BY <4>1, <4>3
    <3>4. DOMAIN other = 1 .. n /\ DOMAIN other = 1 .. Len(other) /\ Len(other) \in Nat
      BY <3>2, <3>3
    <3> HIDE DEF n
    <3> QED BY <2>1, <3>3, <3>4
  <2>5. PICK w : w = State
    OBVIOUS
  <2>6. PICK v : v = FoldLeft(ApplyOp, Begin(old), other)
    OBVIOUS
  <2>7. Done(old, w, ops, n) /\ w.error = "NONE" /\ w.rrsets = rrsets
    BY <2>5 DEF CInv, State
  <2>8. Done(old, v, other, n)
    BY <2>1, <2>4, <2>6, DoneAtLast
  <2>9. v.error = "NONE"
    <3>1. \A i \in 1 .. n : Fine(ops[i])
      BY <2>7 DEF Done
    <3>2. \A i \in 1 .. n : Fine(other[i])
      BY <2>1, <2>3, <3>1
    <3> QED BY <2>8, <3>2 DEF Done
  <2>10. ASSUME NEW k \in Keys PROVE v.rrsets[k] = w.rrsets[k]
    <3>1. Unmixed(ops, n, k)
      <4>1. \A i \in 1 .. n : ops[i] # Unreadable
        BY <2>7 DEF Done, Fine, Unreadable
      <4>2. On(ops, n, k) \subseteq PlacesOf(ops, k)
        BY <2>1, <4>1 DEF On, PlacesOf
      <4> QED BY <4>2 DEF Mixed, Unmixed
    <3>2. /\ OnKey(other, k, "delete") = OnKey(ops, k, "delete")
          /\ OnKey(other, k, "replace") = OnKey(ops, k, "replace")
      <4>1. Fingerprint(other)[k] = Fingerprint(ops)[k]
        BY <2>2
      <4> QED BY <4>1 DEF Fingerprint
    <3> HIDE DEF n
    <3> QED BY <2>1, <2>4, <2>7, <2>8, <2>9, <3>1, <3>2, SameOnKey DEF n
  <2>11. v.rrsets \in [Keys -> Seq(Rdata)] /\ w.rrsets \in [Keys -> Seq(Rdata)]
    BY <2>7, <2>8 DEF Done, Working
  <2>12. v.rrsets = w.rrsets
    BY <2>10, <2>11
  <2> QED BY <2>6, <2>7, <2>12 DEF Effect
<1> QED BY <1>1, ChangeSetInvariant, PTL

-----------------------------------------------------------------------------
\* What makes the fate of last operations inductive: a replacement, mixed with
\* deletions or not, stands until the next one on its RRset.
LInv ==
  /\ CInv
  /\ error = "NONE" =>
       \A k \in Keys : \A i \in On(ops, Len(ops), k) :
         ops[i].action = "replace" /\ (\A j \in On(ops, Len(ops), k) : j <= i)
           => rrsets[k] = ops[i].records

(***************************************************************************)
(* The only operation that can be passed over is a deletion of an RRset    *)
(* that the same changeset replaces (_apply_ops).                          *)
(***************************************************************************)
THEOREM LastOperationsInvariant == Spec => []OnlyDeletionsDropped
<1>1. ASSUME Init, CInv PROVE LInv
  <2>1. Len(ops) = 0
    BY <1>1 DEF Init
  <2> QED BY <1>1, <2>1 DEF LInv, On
<1>2. ASSUME LInv, CInv', NEW op \in Operations, ApplyNext(op) PROVE LInv'
  <2> DEFINE n == Len(ops)
  <2>1. n \in Nat /\ ops \in Seq(Operations) /\ ops' = Append(ops, op) /\ error = "NONE"
    BY <1>2 DEF LInv, CInv, ApplyNext
  <2>2. /\ Len(ops') = n + 1 /\ ops'[n + 1] = op
        /\ \A i \in 1 .. n : ops'[i] = ops[i]
    BY <2>1, AppendProperties
  <2>3. PICK w : w = State
    OBVIOUS
  <2>4. PICK z : z = ApplyOp(w, op)
    OBVIOUS
  <2>5. w \in Working /\ w.error = "NONE" /\ w.rrsets = rrsets
    BY <1>2, <2>1, <2>3 DEF LInv, CInv, Done, State
  <2>6. rrsets' = z.rrsets /\ error' = z.error
    BY <1>2, <2>3, <2>4 DEF ApplyNext, State
  <2>7. SUFFICES ASSUME error' = "NONE", NEW k \in Keys, NEW i \in On(ops', n + 1, k),
                        ops'[i].action = "replace",
                        \A j \in On(ops', n + 1, k) : j <= i
                 PROVE  rrsets'[k] = ops'[i].records
    BY <1>2, <2>2 DEF LInv
  <2>8. Turn(w, z, op)
    BY <2>4, <2>5, <2>6, <2>7, ApplyOpTurn
  <2>9. i \in 1 .. n + 1 /\ ops'[i].key = k
    BY <2>7 DEF On
  <2>10. CASE op.key = k
    <3>1. n + 1 \in On(ops', n + 1, k)
      BY <2>1, <2>2, <2>10 DEF On
    <3>2. i = n + 1
      BY <2>1, <2>7, <2>9, <3>1
    <3> QED BY <2>2, <2>6, <2>7, <2>8, <2>10, <3>2 DEF Turn
  <2>11. CASE op.key # k
    <3>1. i \in 1 .. n /\ ops'[i] = ops[i]
      BY <2>1, <2>2, <2>9, <2>11
    <3>2. \A j \in On(ops, n, k) : j \in On(ops', n + 1, k)
      BY <2>1, <2>2 DEF On
    <3>3. i \in On(ops, n, k) /\ \A j \in On(ops, n, k) : j <= i
      BY <2>7, <2>9, <3>1, <3>2 DEF On
    <3>4. rrsets[k] = ops[i].records
      BY <1>2, <2>1, <2>7, <3>1, <3>3 DEF LInv
    <3> QED BY <2>5, <2>6, <2>8, <2>11, <3>1, <3>4 DEF Turn
  <2> QED BY <2>10, <2>11
<1>3. ASSUME LInv, CInv', UNCHANGED vars PROVE LInv'
  BY <1>3 DEF LInv, On, vars
<1>4. LInv /\ CInv' /\ [Next]_vars => LInv'
  BY <1>2, <1>3 DEF Next
<1>5. LInv => OnlyDeletionsDropped
  <2> SUFFICES ASSUME LInv, error = "NONE", NEW k \in Keys, NEW i \in PlacesOf(ops, k),
                      \A j \in PlacesOf(ops, k) : j <= i
               PROVE  /\ ops[i].action = "replace" => rrsets[k] = ops[i].records
                      /\ ops[i].action = "delete" /\ ~Mixed(k) => rrsets[k] = <<>>
    BY DEF OnlyDeletionsDropped
  <2>1. PlacesOf(ops, k) = On(ops, Len(ops), k)
    BY PlacesOfReadable DEF LInv
  <2>2. ~Mixed(k) => Settled(old, State, ops, Len(ops), k)
    BY <2>1 DEF LInv, CInv, Done, State, Mixed, Unmixed
  <2> QED BY <2>1, <2>2 DEF LInv, Settled, State
<1> QED BY <1>1, <1>4, <1>5, ChangeSetInvariant, PTL DEF Spec

-----------------------------------------------------------------------------
(* Names: texts and their ends. *)

\* s stands at the end of t.
Ends(s, t) ==
  /\ Len(s) <= Len(t)
  /\ \A i \in 1 .. Len(s) : t[Len(t) - Len(s) + i] = s[i]

LEMMA SuffixIsEnd ==
  ASSUME NEW S, NEW s \in Seq(S), NEW t \in Seq(S)
  PROVE  IsSuffix(s, t) <=> Ends(s, t)
<1> DEFINE m == Len(s)
           n == Len(t)
           rs == Reverse(s)
           rt == Reverse(t)
<1>1. m \in Nat /\ n \in Nat
  OBVIOUS
<1>2. /\ Len(rs) = m /\ rs \in Seq(S) /\ \A i \in 1 .. m : rs[i] = s[(m - i) + 1]
      /\ Len(rt) = n /\ rt \in Seq(S) /\ \A i \in 1 .. n : rt[i] = t[(n - i) + 1]
  <2>1. /\ \A i \in 1 .. m : (m - i) + 1 \in 1 .. m /\ s[(m - i) + 1] \in S
        /\ \A i \in 1 .. n : (n - i) + 1 \in 1 .. n /\ t[(n - i) + 1] \in S
    BY <1>1, ElementOfSeq
  <2> QED BY <1>1, <2>1 DEF Reverse
<1>3. CASE m > n
  BY <1>2, <1>3 DEF IsSuffix, IsPrefix, Ends
<1>4. CASE m <= n
  <2> DEFINE a == SubSeq(rs, 1, m)
             b == SubSeq(rt, 1, m)
  <2> HIDE DEF rs, rt
  <2>1. /\ \A i \in 1 .. m : rs[i] \in S
        /\ \A i \in 1 .. m : rt[i] \in S
    <3>1. 1 .. m \subseteq 1 .. n
      BY <1>1, <1>4
    <3> QED BY <1>2, <3>1, ElementOfSeq
  <2>2. /\ a \in Seq(S) /\ Len(a) = m /\ \A i \in 1 .. m : a[i] = rs[i]
        /\ b \in Seq(S) /\ Len(b) = m /\ \A i \in 1 .. m : b[i] = rt[i]
    BY <1>1, <2>1, SubSeqProperties
  <2> HIDE DEF a, b
  <2>3. a = b <=> \A i \in 1 .. m : rs[i] = rt[i]
    <3>1. ASSUME \A i \in 1 .. m : rs[i] = rt[i] PROVE a = b
      BY <2>2, <3>1, SeqEqual
    <3> QED BY <2>2, <3>1
  <2>4. (\A i \in 1 .. m : rs[i] = rt[i]) <=> \A i \in 1 .. m : t[n - m + i] = s[i]
    <3>1. \A i \in 1 .. m : /\ (m - i) + 1 \in 1 .. m
                            /\ (m - ((m - i) + 1)) + 1 = i
                            /\ (n - ((m - i) + 1)) + 1 = n - m + i
                            /\ (n - i) + 1 = n - m + ((m - i) + 1)
                            /\ i \in 1 .. n
      BY <1>1, <1>4
    <3>2. ASSUME \A i \in 1 .. m : rs[i] = rt[i], NEW i \in 1 .. m
          PROVE  t[n - m + i] = s[i]
      <4> DEFINE j == (m - i) + 1
      <4>1. j \in 1 .. m /\ rs[j] = rt[j] /\ j \in 1 .. n
        BY <3>1, <3>2
      <4>2. rs[j] = s[(m - j) + 1] /\ rt[j] = t[(n - j) + 1]
        BY <1>2, <4>1
      <4> QED BY <3>1, <4>1, <4>2
    <3>3. ASSUME \A i \in 1 .. m : t[n - m + i] = s[i], NEW i \in 1 .. m
          PROVE  rs[i] = rt[i]
      <4>1. t[n - m + ((m - i) + 1)] = s[(m - i) + 1]
        BY <3>1, <3>3
      <4> QED BY <1>2, <3>1, <4>1
    <3> QED BY <3>2, <3>3
  <2>5. IsSuffix(s, t) <=> a = b
    BY <1>2, <1>4 DEF IsSuffix, IsPrefix, a, b, rs, rt
  <2> QED BY <1>4, <2>3, <2>4, <2>5 DEF Ends
<1> QED BY <1>1, <1>3, <1>4

\* A text made of two.
LEMMA TwoParts ==
  ASSUME NEW S, NEW a \in Seq(S), NEW b \in Seq(S)
  PROVE  /\ a \o b \in Seq(S) /\ Len(a \o b) = Len(a) + Len(b)
         /\ \A i \in 1 .. Len(a) : (a \o b)[i] = a[i]
         /\ \A i \in 1 .. Len(b) : (a \o b)[Len(a) + i] = b[i]
OBVIOUS

LEMMA TextParts ==
  ASSUME NEW a \in Texts, NEW b \in Texts
  PROVE  /\ a \o b \in Texts /\ Len(a \o b) = Len(a) + Len(b)
         /\ \A i \in 1 .. Len(a) : (a \o b)[i] = a[i]
         /\ \A i \in 1 .. Len(b) : (a \o b)[Len(a) + i] = b[i]
BY TwoParts DEF Texts

LEMMA NumberParts ==
  ASSUME NEW a \in Seq(Int), NEW b \in Seq(Int)
  PROVE  /\ a \o b \in Seq(Int) /\ Len(a \o b) = Len(a) + Len(b)
         /\ \A i \in 1 .. Len(a) : (a \o b)[i] = a[i]
         /\ \A i \in 1 .. Len(b) : (a \o b)[Len(a) + i] = b[i]
OBVIOUS

LEMMA AbsoluteEnds ==
  ASSUME NEW t \in Texts
  PROVE  Absolute(t) <=> t # <<>> /\ t[Len(t)] = "."
<1>1. Root \in Texts /\ Len(Root) = 1 /\ Root[1] = "."
  <2>1. "." \in Chars
    BY DEF Chars
  <2> QED BY <2>1 DEF Root, Texts
<1>2. IsSuffix(Root, t) <=> Ends(Root, t)
  BY <1>1, SuffixIsEnd DEF Texts
<1>3. Len(t) \in Nat /\ (t # <<>> <=> Len(t) >= 1) /\ Len(t) - 1 + 1 = Len(t)
  BY EmptySeq DEF Texts
<1>4. Ends(Root, t) <=> Len(t) >= 1 /\ t[Len(t)] = "."
  <2>1. 1 .. 1 = {1}
    OBVIOUS
  <2> QED BY <1>1, <1>3, <2>1 DEF Ends
<1> QED BY <1>2, <1>3, <1>4 DEF Absolute

-----------------------------------------------------------------------------
(* Names: lower case, blanks at the ends. *)

IsLower(t) == \A i \in DOMAIN t : t[i] \notin DOMAIN LowerOf

Trimmed(t) == t = <<>> \/ (t[1] \notin Blank /\ t[Len(t)] \notin Blank)

LEMMA LowerText ==
  ASSUME NEW t \in Texts
  PROVE  Lower(t) \in Texts /\ IsLower(Lower(t))
<1>1. DOMAIN LowerOf = {"A", "B"} /\ LowerOf["A"] = "a" /\ LowerOf["B"] = "b"
  BY DEF LowerOf
<1>2. \A c \in {"A", "B"} : LowerOf[c] \in Chars /\ LowerOf[c] \notin {"A", "B"}
  BY <1>1 DEF Chars, LabelChars
<1>3. DOMAIN t = 1 .. Len(t) /\ Len(t) \in Nat /\ \A i \in 1 .. Len(t) : t[i] \in Chars
  BY ElementOfSeq DEF Texts
<1>4. DOMAIN Lower(t) = 1 .. Len(t)
  BY <1>3 DEF Lower
<1>5. \A i \in 1 .. Len(t) : Lower(t)[i] \in Chars /\ Lower(t)[i] \notin {"A", "B"}
  <2> SUFFICES ASSUME NEW i \in 1 .. Len(t)
               PROVE  Lower(t)[i] \in Chars /\ Lower(t)[i] \notin {"A", "B"}
    OBVIOUS
  <2>1. Lower(t)[i] = IF t[i] \in {"A", "B"} THEN LowerOf[t[i]] ELSE t[i]
    BY <1>1, <1>3 DEF Lower
  <2> QED BY <1>2, <1>3, <2>1
<1>6. Lower(t) \in [1 .. Len(t) -> Chars]
  <2>1. Lower(t) = [i \in 1 .. Len(t) |-> Lower(t)[i]]
    BY <1>3 DEF Lower
  <2> QED BY <1>5, <2>1
<1>7. Lower(t) \in Texts
  BY <1>3, <1>6, SeqDef DEF Texts
<1> QED BY <1>1, <1>4, <1>5, <1>7 DEF IsLower

LEMMA LowerFixed ==
  ASSUME NEW t \in Texts, IsLower(t)
  PROVE  Lower(t) = t
<1>1. t \in [1 .. Len(t) -> Chars] /\ DOMAIN t = 1 .. Len(t)
  BY LenProperties DEF Texts
<1>2. \A i \in DOMAIN t : t[i] \notin DOMAIN LowerOf
  BY DEF IsLower
<1>3. Lower(t) = [i \in DOMAIN t |-> t[i]]
  BY <1>2 DEF Lower
<1> QED BY <1>1, <1>3

LEMMA MinIsLeast ==
  ASSUME NEW T, T \subseteq Nat, T # {}
  PROVE  Min(T) \in T /\ \A j \in T : Min(T) <= j
<1>1. \E k \in T : \A j \in T : k =< j
  BY HasLeast
<1> QED BY <1>1 DEF Min

\* What is left when the blanks at both ends are taken away.
LEMMA StripText ==
  ASSUME NEW t \in Texts
  PROVE  /\ Strip(t) \in Texts
         /\ Trimmed(Strip(t))
         /\ IsLower(t) => IsLower(Strip(t))
         /\ Trimmed(t) => Strip(t) = t
<1> DEFINE kept == {i \in DOMAIN t : t[i] \notin Blank}
           a == Min(kept)
           b == Max(kept)
           s == SubSeq(t, a, b)
<1>1. /\ DOMAIN t = 1 .. Len(t) /\ Len(t) \in Nat /\ \A i \in 1 .. Len(t) : t[i] \in Chars
      /\ kept \subseteq Nat /\ kept \subseteq DOMAIN t /\ \A i \in kept : i <= Len(t)
  <2>1. DOMAIN t = 1 .. Len(t) /\ Len(t) \in Nat /\ \A i \in 1 .. Len(t) : t[i] \in Chars
    BY ElementOfSeq DEF Texts
  <2> QED BY <2>1
<1>2. CASE kept = {}
  <2>1. Strip(t) = <<>>
    BY <1>2 DEF Strip
  <2>2. Trimmed(t) => t = <<>>
    <3> SUFFICES ASSUME t # <<>>, Trimmed(t) PROVE FALSE
      OBVIOUS
    <3>1. 1 \in DOMAIN t
      <4>1. Len(t) \in Nat \ {0}
        BY EmptySeq DEF Texts
      <4> QED BY <1>1, <4>1
    <3> QED BY <1>2, <3>1 DEF Trimmed
  <2>3. <<>> \in Texts /\ IsLower(<<>>)
    BY DEF Texts, IsLower
  <2> QED BY <2>1, <2>2, <2>3 DEF Trimmed
<1>3. CASE kept # {}
  <2>1. a \in kept /\ \A j \in kept : a <= j
    <3> HIDE DEF kept
    <3> QED BY <1>1, <1>3, MinIsLeast
  <2>2. b \in kept /\ \A j \in kept : j <= b
    <3> HIDE DEF kept
    <3> QED BY <1>1, <1>3, MaxIsGreatest
  <2>3. a \in 1 .. Len(t) /\ b \in 1 .. Len(t) /\ a <= b
    BY <1>1, <2>1, <2>2
  <2>4. t[a] \notin Blank /\ t[b] \notin Blank
    BY <2>1, <2>2
  <2>5. \A i \in a .. b : i \in 1 .. Len(t) /\ t[i] \in Chars
    <3> HIDE DEF a, b
    <3> QED BY <1>1, <2>3
  <2>6. s \in Texts /\ Len(s) = b - a + 1 /\ \A i \in 1 .. b - a + 1 : s[i] = t[a + i - 1]
    <3> HIDE DEF a, b
    <3>1. a \in Int /\ b \in Int
      BY <1>1, <2>3
    <3> QED BY <2>3, <2>5, <3>1, SubSeqProperties DEF Texts
  <2>7. Strip(t) = s
    BY <1>3 DEF Strip
  <2> HIDE DEF a, b
  <2>8. s[1] = t[a] /\ s[Len(s)] = t[b] /\ DOMAIN s = 1 .. b - a + 1
    <3> HIDE DEF s
    <3>1. 1 \in 1 .. b - a + 1 /\ b - a + 1 \in 1 .. b - a + 1
          /\ a + 1 - 1 = a /\ a + (b - a + 1) - 1 = b
      BY <1>1, <2>3
    <3>2. DOMAIN s = 1 .. Len(s)
      BY <2>6 DEF Texts
    <3> QED BY <2>6, <3>1, <3>2
  <2>9. Trimmed(s)
    <3> HIDE DEF s
    <3> QED BY <2>4, <2>8 DEF Trimmed
  <2>10. IsLower(t) => IsLower(s)
    <3> HIDE DEF s
    <3> SUFFICES ASSUME IsLower(t), NEW i \in 1 .. b - a + 1
                 PROVE  s[i] \notin DOMAIN LowerOf
      BY <2>8 DEF IsLower
    <3>1. a + i - 1 \in 1 .. Len(t)
      BY <1>1, <2>3
    <3> QED BY <1>1, <2>6, <3>1 DEF IsLower
  <2>11. Trimmed(t) => s = t
    <3> SUFFICES ASSUME Trimmed(t) PROVE s = t
      OBVIOUS
    <3>1. Len(t) >= 1
      BY <1>1, <2>3
    <3>2. 1 \in kept /\ Len(t) \in kept
      <4>1. t # <<>>
        BY <3>1
      <4> QED BY <1>1, <3>1, <4>1 DEF Trimmed
    <3>3. a = 1 /\ b = Len(t)
      BY <1>1, <2>1, <2>2, <2>3, <3>2
    <3> QED BY <3>3, SubSeqFull DEF Texts
  <2> QED BY <2>6, <2>7, <2>9, <2>10, <2>11
<1> QED BY <1>2, <1>3

-----------------------------------------------------------------------------
(* Names that were accepted. *)

\* An absolute name as canonical_name leaves it.
Clean(n) ==
  /\ n \in Texts /\ Absolute(n) /\ IsLower(n) /\ Trimmed(n)
  /\ CheckName(n) = {n}

Legal(r) ==
  /\ r = [kind |-> r.kind, zone |-> r.zone, name |-> r.name]
  /\ r.kind \in {"owner", "target"}
  /\ Clean(r.zone) /\ Clean(r.name)
  /\ r.kind = "owner" => Within(r.name, r.zone)

LEMMA CheckNameKeeps ==
  ASSUME NEW t, NEW n \in CheckName(t)
  PROVE  n = t /\ CheckName(t) = {t}
BY DEF CheckName

LEMMA RootText == Root \in Texts /\ Len(Root) = 1 /\ Root[1] = "."
<1>1. "." \in Chars
  BY DEF Chars
<1> QED BY <1>1 DEF Root, Texts

LEMMA CharacterKinds ==
  /\ "." \notin Blank /\ "." \notin DOMAIN LowerOf
  /\ "." # "@"
BY DEF Blank, LowerOf

\* The text of an owner or a target in a zone.
LEMMA OwnerTextShape ==
  ASSUME NEW t \in Texts, IsLower(t), Trimmed(t), NEW z, Clean(z)
  PROVE  LET n == OwnerText(t, z)
         IN  n \in Texts /\ Absolute(n) /\ IsLower(n) /\ Trimmed(n)
<1>1. CASE Absolute(t)
  BY <1>1 DEF OwnerText
<1>2. CASE ~Absolute(t)
  <2> DEFINE m == Len(t)
             d == t \o Root
             n == d \o z
  <2>1. /\ z \in Texts /\ z # <<>> /\ z[Len(z)] = "." /\ IsLower(z)
        /\ Len(z) \in Nat \ {0} /\ m \in Nat /\ DOMAIN z = 1 .. Len(z) /\ DOMAIN t = 1 .. m
    <3>1. z \in Texts /\ IsLower(z) /\ z # <<>> /\ z[Len(z)] = "."
      BY AbsoluteEnds DEF Clean
    <3> QED BY <3>1, EmptySeq DEF Texts
  <2>2. /\ d \in Texts /\ Len(d) = m + 1 /\ d[m + 1] = "."
        /\ \A i \in 1 .. m : d[i] = t[i]
    <3>1. m + 1 = m + Len(Root) /\ 1 \in 1 .. Len(Root)
      BY RootText
    <3>2. /\ d \in Texts /\ Len(d) = m + Len(Root)
          /\ \A i \in 1 .. m : d[i] = t[i]
          /\ \A i \in 1 .. Len(Root) : d[m + i] = Root[i]
      BY RootText, TextParts
    <3> HIDE DEF d, m
    <3> QED BY <3>1, <3>2, RootText
  <2> HIDE DEF d
  <2>3. /\ n \in Texts /\ Len(n) = m + 1 + Len(z) /\ DOMAIN n = 1 .. Len(n)
        /\ \A i \in 1 .. m + 1 : n[i] = d[i]
        /\ \A i \in 1 .. Len(z) : n[m + 1 + i] = z[i]
    <3> HIDE DEF m
    <3>1. /\ n \in Texts /\ Len(n) = Len(d) + Len(z)
          /\ \A i \in 1 .. Len(d) : n[i] = d[i]
          /\ \A i \in 1 .. Len(z) : n[Len(d) + i] = z[i]
      BY <2>1, <2>2, TextParts
    <3>2. DOMAIN n = 1 .. Len(n)
      BY <3>1, LenProperties DEF Texts
    <3> HIDE DEF n
    <3> QED BY <2>2, <3>1, <3>2
  <2> HIDE DEF n
  <2>4. n # <<>> /\ n[Len(n)] = "."
    <3>1. Len(z) \in 1 .. Len(z) /\ Len(n) # 0
      BY <2>1, <2>3
    <3>2. n[Len(n)] = z[Len(z)]
      BY <2>3, <3>1
    <3> QED BY <2>1, <3>1, <3>2
  <2>5. Absolute(n)
    BY <2>3, <2>4, AbsoluteEnds
  <2>6. IsLower(n)
    <3> SUFFICES ASSUME NEW i \in 1 .. Len(n) PROVE n[i] \notin DOMAIN LowerOf
      BY <2>3 DEF IsLower
    <3>1. CASE i \in 1 .. m
      <4>1. i \in 1 .. m + 1
        BY <2>1, <3>1
      <4> QED BY <2>1, <2>2, <2>3, <3>1, <4>1 DEF IsLower
    <3>2. CASE i = m + 1
      <4>1. i \in 1 .. m + 1
        BY <2>1, <3>2
      <4> QED BY <2>2, <2>3, <3>2, <4>1, CharacterKinds
    <3>3. CASE i > m + 1
      <4>1. i - (m + 1) \in 1 .. Len(z) /\ m + 1 + (i - (m + 1)) = i
        BY <2>1, <2>3, <3>3
      <4>2. n[i] = z[i - (m + 1)]
        BY <2>3, <4>1
      <4> QED BY <2>1, <4>1, <4>2 DEF IsLower
    <3>4. i \in 1 .. m \/ i = m + 1 \/ i > m + 1
      BY <2>1, <2>3
    <3> QED BY <3>1, <3>2, <3>3, <3>4
  <2>7. Trimmed(n)
    <3>1. n[Len(n)] \notin Blank
      BY <2>4, CharacterKinds
    <3>2. CASE t = <<>>
      <4>1. m = 0 /\ 1 \in 1 .. m + 1
        BY <3>2
      <4>2. n[1] = "."
        BY <2>2, <2>3, <4>1
      <4> QED BY <3>1, <4>2, CharacterKinds DEF Trimmed
    <3>3. CASE t # <<>>
      <4>1. 1 \in 1 .. m /\ 1 \in 1 .. m + 1
        BY <3>3, EmptySeq DEF Texts
      <4>2. n[1] = t[1]
        BY <2>2, <2>3, <4>1
      <4> QED BY <3>1, <3>3, <4>2 DEF Trimmed
    <3> QED BY <3>2, <3>3
  <2>8. OwnerText(t, z) = n
    BY <1>2 DEF OwnerText, n, d
  <2> QED BY <2>3, <2>5, <2>6, <2>7, <2>8
<1> QED BY <1>1, <1>2

\* What the functions of canonical.py make of a text.
LEMMA StrippedText ==
  ASSUME NEW raw \in Texts
  PROVE  LET t == Strip(Lower(raw)) IN t \in Texts /\ IsLower(t) /\ Trimmed(t)
BY LowerText, StripText

LEMMA CanonicalZoneClean ==
  ASSUME NEW raw \in Texts, NEW n \in CanonicalZone(raw)
  PROVE  Clean(n)
<1> DEFINE t == Strip(Lower(raw))
<1>1. t \in Texts /\ IsLower(t) /\ Trimmed(t)
  BY StrippedText
<1>2. Absolute(t) /\ n \in CheckName(t)
  BY DEF CanonicalZone
<1> HIDE DEF t
<1>3. n = t /\ CheckName(t) = {t}
  BY <1>2, CheckNameKeeps
<1> QED BY <1>1, <1>2, <1>3 DEF Clean

LEMMA CanonicalNameClean ==
  ASSUME NEW raw \in Texts, NEW z, Clean(z), NEW n \in CanonicalName(raw, z)
  PROVE  Clean(n) /\ Within(n, z)
<1> DEFINE t == Strip(Lower(raw))
           o == OwnerText(t, z)
<1>1. t \in Texts /\ IsLower(t) /\ Trimmed(t)
  BY StrippedText
<1>2. o \in Texts /\ Absolute(o) /\ IsLower(o) /\ Trimmed(o)
  <2> HIDE DEF t
  <2> QED BY <1>1, OwnerTextShape
<1>3. n = z \/ (n \in CheckName(o) /\ Within(o, z))
  BY DEF CanonicalName
<1> HIDE DEF o
<1>4. CASE n = z
  BY <1>4 DEF Within
<1>5. CASE n \in CheckName(o) /\ Within(o, z)
  <2>1. n = o /\ CheckName(o) = {o}
    BY <1>5, CheckNameKeeps
  <2> QED BY <1>2, <1>5, <2>1 DEF Clean
<1> QED BY <1>3, <1>4, <1>5

LEMMA CanonicalTargetClean ==
  ASSUME NEW raw \in Texts, NEW z, Clean(z), NEW n \in CanonicalTarget(raw, z)
  PROVE  Clean(n)
<1> DEFINE t == Strip(Lower(raw))
           o == OwnerText(t, z)
<1>1. t \in Texts /\ IsLower(t) /\ Trimmed(t)
  BY StrippedText
<1>2. o \in Texts /\ Absolute(o) /\ IsLower(o) /\ Trimmed(o)
  <2> HIDE DEF t
  <2> QED BY <1>1, OwnerTextShape
<1>3. n \in CheckName(o)
  BY DEF CanonicalTarget
<1> HIDE DEF o
<1>4. n = o /\ CheckName(o) = {o}
  BY <1>3, CheckNameKeeps
<1> QED BY <1>2, <1>4 DEF Clean

\* A clean name is what its own text stands for.
LEMMA CleanText ==
  ASSUME NEW n, Clean(n), NEW z
  PROVE  /\ Strip(Lower(n)) = n /\ OwnerText(n, z) = n
         /\ n # <<>> /\ n # <<"@">> /\ n[Len(n)] = "."
<1>1. Lower(n) = n
  BY LowerFixed DEF Clean
<1>2. Strip(n) = n
  BY StripText DEF Clean
<1>3. n # <<>> /\ n[Len(n)] = "."
  BY AbsoluteEnds DEF Clean
<1>4. n # <<"@">>
  <2> SUFFICES ASSUME n = <<"@">> PROVE FALSE
    OBVIOUS
  <2>1. Len(n) = 1 /\ n[1] = "@"
    OBVIOUS
  <2> QED BY <1>3, <2>1, CharacterKinds
<1> QED BY <1>1, <1>2, <1>3, <1>4 DEF OwnerText, Clean

-----------------------------------------------------------------------------
(***************************************************************************)
(* The names stored, for any alphabet of requests.                         *)
(***************************************************************************)
NInv == \A r \in stored : Legal(r)

(***************************************************************************)
(* Every name stored is absolute, in lower case, without blanks at its     *)
(* ends and passes _check_name; owner names end in their zone.             *)
(***************************************************************************)
THEOREM StoredNamesInvariant == NSpec => []NInv
<1>1. NInit => NInv
  BY DEF NInit, NInv
<1>2. ASSUME NInv, [NNext]_nvars PROVE NInv'
  <2>1. ASSUME NEW r, NEW more, stored' = stored \cup {more},
               more = r, Legal(r)
        PROVE  NInv'
    BY <1>2, <2>1 DEF NInv
  <2>2. CASE CreateZone
    <3>1. PICK raw \in RawZones : \E z \in CanonicalZone(raw) \ Zones :
            stored' = stored \cup {[kind |-> "owner", zone |-> z, name |-> z]}
      BY <2>2 DEF CreateZone
    <3>2. PICK z \in CanonicalZone(raw) :
            stored' = stored \cup {[kind |-> "owner", zone |-> z, name |-> z]}
      BY <3>1
    <3>3. raw \in Texts
      BY NameWireAssumption
    <3>4. Clean(z)
      BY <3>2, <3>3, CanonicalZoneClean
    <3>5. Legal([kind |-> "owner", zone |-> z, name |-> z])
      BY <3>4 DEF Legal, Within
    <3> QED BY <2>1, <3>2, <3>5
  <2>3. CASE StoreRecord
    <3>1. PICK arg \in RawZones, raw \in RawNames :
            \E z \in CanonicalZoneArg(arg) \cap Zones :
              \/ \E n \in CanonicalName(raw, z) :
                   stored' = stored \cup {[kind |-> "owner", zone |-> z, name |-> n]}
              \/ \E n \in CanonicalTarget(raw, z) :
                   stored' = stored \cup {[kind |-> "target", zone |-> z, name |-> n]}
      BY <2>3 DEF StoreRecord
    <3>2. PICK z \in Zones :
              \/ \E n \in CanonicalName(raw, z) :
                   stored' = stored \cup {[kind |-> "owner", zone |-> z, name |-> n]}
              \/ \E n \in CanonicalTarget(raw, z) :
                   stored' = stored \cup {[kind |-> "target", zone |-> z, name |-> n]}
      BY <3>1
    <3>3. raw \in Texts /\ Clean(z)
      BY <1>2, NameWireAssumption DEF Zones, NInv, Legal
    <3>4. ASSUME NEW n \in CanonicalName(raw, z),
                 stored' = stored \cup {[kind |-> "owner", zone |-> z, name |-> n]}
          PROVE  NInv'
      <4>1. Clean(n) /\ Within(n, z)
        BY <3>3, CanonicalNameClean
      <4>2. Legal([kind |-> "owner", zone |-> z, name |-> n])
        BY <3>3, <4>1 DEF Legal
      <4> QED BY <2>1, <3>4, <4>2
    <3>5. ASSUME NEW n \in CanonicalTarget(raw, z),
                 stored' = stored \cup {[kind |-> "target", zone |-> z, name |-> n]}
          PROVE  NInv'
      <4>1. Clean(n)
        BY <3>3, CanonicalTargetClean
      <4>2. Legal([kind |-> "target", zone |-> z, name |-> n])
        BY <3>3, <4>1 DEF Legal
      <4> QED BY <2>1, <3>5, <4>2
    <3> QED BY <3>2, <3>4, <3>5
  <2>4. CASE UNCHANGED stored
    BY <1>2, <2>4 DEF NInv
  <2> QED BY <1>2, <2>2, <2>3, <2>4
      DEF NNext, Ask, Receive, Garble, Read, ReadEnd, ReadPointer, ReadLabel, ReadFails,
          Reading, Answer, Finish, nvars
<1> QED BY <1>1, <1>2, PTL DEF NSpec

(***************************************************************************)
(* What the API stored it accepts again, unchanged (canonical.py).         *)
(***************************************************************************)
THEOREM CanonicalInvariant == NSpec => []CanonicalFixed
<1>1. NInv => CanonicalFixed
  <2> SUFFICES ASSUME NInv, NEW r \in stored
               PROVE  \/ /\ r.kind = "owner"
                         /\ CanonicalName(r.name, r.zone) = {r.name} \/ r.name = Root
                      \/ /\ r.kind = "target"
                         /\ CanonicalTarget(r.name, r.zone) = {r.name}
    BY DEF CanonicalFixed
  <2>1. Legal(r)
    BY DEF NInv
  <2>2. PICK n, z : n = r.name /\ z = r.zone
    OBVIOUS
  <2>3. Clean(n) /\ Clean(z) /\ CheckName(n) = {n}
    BY <2>1, <2>2 DEF Legal, Clean
  <2>4. /\ Strip(Lower(n)) = n /\ OwnerText(n, z) = n
        /\ n # <<>> /\ n # <<"@">>
    BY <2>3, CleanText
  <2>5. CASE r.kind = "owner" /\ n # Root
    <3>1. Within(n, z)
      BY <2>1, <2>2, <2>5 DEF Legal
    <3>2. CanonicalName(n, z) = CheckName(n)
      BY <2>4, <2>5, <3>1 DEF CanonicalName
    <3> QED BY <2>2, <2>3, <2>5, <3>2
  <2>6. CASE r.kind = "target"
    <3>1. CanonicalTarget(n, z) = CheckName(n)
      BY <2>4 DEF CanonicalTarget
    <3> QED BY <2>2, <2>3, <2>6, <3>1
  <2> QED BY <2>1, <2>2, <2>5, <2>6 DEF Legal
<1> QED BY <1>1, StoredNamesInvariant, PTL

-----------------------------------------------------------------------------
(* Labels: a text is cut at its dots. *)

Dots(t) == {i \in DOMAIN t : t[i] = "."}

\* Where the label after the k-th dot begins to be cut off.
Cut(t, k) ==
  CASE k = 0 -> 0
    [] k = Cardinality(Dots(t)) + 1 -> Len(t) + 1
    [] OTHER -> Nth(Dots(t), k)

LEMMA DotsFinite ==
  ASSUME NEW t \in Texts
  PROVE  /\ IsFiniteSet(Dots(t)) /\ Cardinality(Dots(t)) \in Nat
         /\ Dots(t) \subseteq Int /\ Dots(t) \subseteq 1 .. Len(t)
         /\ Len(t) \in Nat /\ DOMAIN t = 1 .. Len(t)
<1>1. Len(t) \in Nat /\ DOMAIN t = 1 .. Len(t)
  BY DEF Texts
<1>2. Dots(t) \in SUBSET (1 .. Len(t))
  BY <1>1 DEF Dots
<1>3. IsFiniteSet(1 .. Len(t))
  BY <1>1, FS_Interval
<1>4. IsFiniteSet(Dots(t))
  BY <1>2, <1>3, FS_Subset
<1> QED BY <1>1, <1>2, <1>4, FS_CardinalityType

LEMMA CutType ==
  ASSUME NEW t \in Texts, NEW k \in 0 .. Cardinality(Dots(t)) + 1
  PROVE  Cut(t, k) \in 0 .. Len(t) + 1
<1> DEFINE m == Cardinality(Dots(t))
<1>1. m \in Nat /\ Len(t) \in Nat /\ IsFiniteSet(Dots(t)) /\ Dots(t) \subseteq Int
      /\ Dots(t) \subseteq 1 .. Len(t)
  BY DotsFinite
<1>2. CASE k \in 1 .. m
  <2>1. Nth(Dots(t), k) \in Dots(t)
    BY <1>1, <1>2, NthIsThere
  <2>2. Cut(t, k) = Nth(Dots(t), k)
    BY <1>1, <1>2 DEF Cut
  <2> QED BY <1>1, <2>1, <2>2
<1>3. CASE k = 0
  BY <1>1, <1>3 DEF Cut
<1>4. CASE k = m + 1
  BY <1>1, <1>4 DEF Cut
<1>5. k = 0 \/ k = m + 1 \/ k \in 1 .. m
  <2> HIDE DEF m
  <2>1. k \in 0 .. m + 1
    BY DEF m
  <2> QED BY <1>1, <2>1
<1> QED BY <1>2, <1>3, <1>4, <1>5

LEMMA SplitShape ==
  ASSUME NEW t \in Texts
  PROVE  LET m == Cardinality(Dots(t))
         IN  Split(t) = [k \in 1 .. m + 1 |-> SubSeq(t, Cut(t, k - 1) + 1, Cut(t, k) - 1)]
<1> DEFINE m == Cardinality(Dots(t))
           e == Enumerated(Dots(t))
           first == <<0>> \o e
           cuts == first \o <<Len(t) + 1>>
<1>1. m \in Nat /\ Len(t) \in Nat /\ IsFiniteSet(Dots(t)) /\ Dots(t) \subseteq Int
  BY DotsFinite
<1>2. e \in Seq(Int) /\ Len(e) = m /\ \A k \in 1 .. m : e[k] = Nth(Dots(t), k)
  <2>1. \A k \in 1 .. m : Nth(Dots(t), k) \in Int
    BY <1>1, NthIsThere
  <2>2. e = [k \in 1 .. m |-> Nth(Dots(t), k)]
    BY DEF Enumerated
  <2> HIDE DEF m, e
  <2>3. e \in [1 .. m -> Int]
    BY <2>1, <2>2
  <2>4. e \in Seq(Int)
    BY <1>1, <2>3, SeqDef
  <2>5. 1 .. Len(e) = 1 .. m /\ Len(e) \in Nat
    BY <2>3, <2>4, LenProperties
  <2>6. Len(e) = m
    BY <1>1, <2>5
  <2> QED BY <2>2, <2>4, <2>6
<1> HIDE DEF e
<1>3. /\ first \in Seq(Int) /\ Len(first) = m + 1 /\ first[1] = 0
      /\ \A k \in 1 .. m : first[k + 1] = Nth(Dots(t), k)
  <2>1. <<0>> \in Seq(Int) /\ Len(<<0>>) = 1 /\ <<0>>[1] = 0 /\ 1 \in 1 .. 1
    OBVIOUS
  <2>2. PICK z : z = <<0>>
    OBVIOUS
  <2>3. /\ z \o e \in Seq(Int) /\ Len(z \o e) = Len(z) + Len(e)
        /\ \A i \in 1 .. Len(z) : (z \o e)[i] = z[i]
        /\ \A i \in 1 .. Len(e) : (z \o e)[Len(z) + i] = e[i]
    <3>1. z \in Seq(Int)
      BY <2>1, <2>2
    <3> QED BY <1>2, <3>1, NumberParts
  <2>4. first = z \o e /\ Len(z) = 1 /\ z[1] = 0
    BY <2>1, <2>2
  <2>5. \A k \in 1 .. m : k + 1 = 1 + k
    BY <1>1
  <2> HIDE DEF first, m
  <2> QED BY <1>1, <1>2, <2>1, <2>3, <2>4, <2>5
<1> HIDE DEF first
<1>4. /\ Len(cuts) = m + 2 /\ cuts[m + 2] = Len(t) + 1
      /\ \A k \in 1 .. m + 1 : cuts[k] = first[k]
  <2>1. PICK z : z = <<Len(t) + 1>>
    OBVIOUS
  <2>2. z \in Seq(Int) /\ Len(z) = 1 /\ z[1] = Len(t) + 1 /\ 1 \in 1 .. 1
    BY <1>1, <2>1
  <2>3. /\ first \o z \in Seq(Int) /\ Len(first \o z) = Len(first) + Len(z)
        /\ \A i \in 1 .. Len(first) : (first \o z)[i] = first[i]
        /\ \A i \in 1 .. Len(z) : (first \o z)[Len(first) + i] = z[i]
    BY <1>3, <2>2, NumberParts
  <2>4. cuts = first \o z /\ m + 1 + 1 = m + 2
    BY <1>1, <2>1
  <2> HIDE DEF cuts, m
  <2> QED BY <1>3, <2>2, <2>3, <2>4
<1> HIDE DEF cuts
<1>5. \A k \in 0 .. m + 1 : cuts[k + 1] = Cut(t, k)
  <2> SUFFICES ASSUME NEW k \in 0 .. m + 1 PROVE cuts[k + 1] = Cut(t, k)
    OBVIOUS
  <2>1. CASE k = 0
    <3>1. 1 \in 1 .. m + 1 /\ 0 + 1 = 1
      BY <1>1
    <3>2. Cut(t, 0) = 0
      BY <1>1 DEF Cut
    <3> HIDE DEF m
    <3> QED BY <1>3, <1>4, <2>1, <3>1, <3>2
  <2>2. CASE k = m + 1
    <3>1. Cut(t, k) = Len(t) + 1 /\ k + 1 = m + 2
      BY <1>1, <2>2 DEF Cut
    <3> HIDE DEF m
    <3> QED BY <1>4, <3>1
  <2>3. CASE k \in 1 .. m
    <3>1. Cut(t, k) = Nth(Dots(t), k)
      BY <1>1, <2>3 DEF Cut
    <3>2. k + 1 \in 1 .. m + 1
      BY <1>1, <2>3
    <3> HIDE DEF m
    <3> QED BY <1>3, <1>4, <2>3, <3>1, <3>2
  <2> HIDE DEF m
  <2>4. k = 0 \/ k = m + 1 \/ k \in 1 .. m
    BY <1>1
  <2> QED BY <2>1, <2>2, <2>3, <2>4
<1>6. Split(t) = [k \in 1 .. Len(cuts) - 1 |-> SubSeq(t, cuts[k] + 1, cuts[k + 1] - 1)]
  BY DEF Split, cuts, first, e, Dots
<1>7. \A k \in 1 .. m + 1 : k - 1 \in 0 .. m + 1 /\ k \in 0 .. m + 1 /\ (k - 1) + 1 = k
  <2> HIDE DEF m
  <2> QED BY <1>1
<1>8. Len(cuts) - 1 = m + 1
  <2> HIDE DEF m
  <2> QED BY <1>1, <1>4
<1>9. \A k \in 1 .. m + 1 : cuts[k] = Cut(t, k - 1) /\ cuts[k + 1] = Cut(t, k)
  <2> HIDE DEF m
  <2> QED BY <1>5, <1>7
<1> QED BY <1>6, <1>8, <1>9

LEMMA LabelType ==
  ASSUME NEW t \in Texts
  PROVE  /\ Split(t) \in Seq(Texts) /\ Len(Split(t)) = Cardinality(Dots(t)) + 1
<1> DEFINE m == Cardinality(Dots(t))
<1>1. m \in Nat /\ Len(t) \in Nat
  BY DotsFinite
<1>2. ASSUME NEW k \in 1 .. m + 1
      PROVE  SubSeq(t, Cut(t, k - 1) + 1, Cut(t, k) - 1) \in Texts
  <2>1. k \in 0 .. m + 1 /\ k - 1 \in 0 .. m + 1
    BY <1>1
  <2>2. Cut(t, k) \in 0 .. Len(t) + 1 /\ Cut(t, k - 1) \in 0 .. Len(t) + 1
    BY <2>1, CutType
  <2>3. PICK a, b : a = Cut(t, k - 1) + 1 /\ b = Cut(t, k) - 1
    OBVIOUS
  <2>4. a \in Int /\ b \in Int /\ \A i \in a .. b : i \in 1 .. Len(t)
    BY <1>1, <2>2, <2>3
  <2>5. \A i \in a .. b : t[i] \in Chars
    BY <2>4, ElementOfSeq DEF Texts
  <2>6. SubSeq(t, a, b) \in Texts
    BY <2>4, <2>5, SubSeqProperties DEF Texts
  <2> QED BY <2>3, <2>6
<1>3. Split(t) = [k \in 1 .. m + 1 |-> SubSeq(t, Cut(t, k - 1) + 1, Cut(t, k) - 1)]
  BY SplitShape
<1> HIDE DEF m
<1>4. Split(t) \in [1 .. m + 1 -> Texts]
  BY <1>2, <1>3
<1>5. m + 1 \in Nat
  BY <1>1
<1>6. Split(t) \in Seq(Texts)
  BY <1>4, <1>5, SeqDef
<1>7. 1 .. Len(Split(t)) = 1 .. m + 1 /\ Len(Split(t)) \in Nat
  BY <1>4, <1>6, LenProperties
<1>8. Len(Split(t)) = m + 1
  BY <1>5, <1>7
<1> QED BY <1>6, <1>8 DEF m

LEMMA FrontText ==
  ASSUME NEW n \in Texts, n # <<>>
  PROVE  /\ Front(n) \in Texts /\ Len(Front(n)) = Len(n) - 1
         /\ \A i \in 1 .. Len(n) - 1 : Front(n)[i] = n[i]
<1>1. Len(n) \in Nat \ {0} /\ \A i \in 1 .. Len(n) - 1 : i \in 1 .. Len(n)
  BY EmptySeq DEF Texts
<1>2. \A i \in 1 .. Len(n) - 1 : n[i] \in Chars
  BY <1>1, ElementOfSeq DEF Texts
<1>3. PICK b : b = Len(n) - 1 /\ b \in Nat
  <2>1. Len(n) - 1 \in Nat
    BY <1>1
  <2> QED BY <2>1
<1>4. /\ SubSeq(n, 1, b) \in Seq(Chars)
      /\ Len(SubSeq(n, 1, b)) = IF 1 <= b THEN b - 1 + 1 ELSE 0
      /\ \A i \in 1 .. b - 1 + 1 : SubSeq(n, 1, b)[i] = n[1 + i - 1]
  BY <1>2, <1>3, SubSeqProperties
<1>5. Len(SubSeq(n, 1, b)) = b /\ \A i \in 1 .. b : SubSeq(n, 1, b)[i] = n[i]
  BY <1>3, <1>4
<1> QED BY <1>3, <1>4, <1>5 DEF Front, Texts

LEMMA NameLabelsType ==
  ASSUME NEW n \in Texts
  PROVE  NameLabels(n) \in Seq(Texts)
<1>1. CASE n = Root
  BY <1>1 DEF NameLabels
<1>2. CASE n # Root
  <2>1. Front(n) \in Texts
    <3>1. CASE n = <<>>
      <4>1. Front(n) = <<>>
        BY <3>1, SubSeqEmpty DEF Front
      <4> QED BY <4>1 DEF Texts
    <3>2. CASE n # <<>>
      BY <3>2, FrontText
    <3> QED BY <3>1, <3>2
  <2> QED BY <1>2, <2>1, LabelType DEF NameLabels
<1> QED BY <1>1, <1>2

-----------------------------------------------------------------------------
(* Labels put together: FlattenSeq. *)

LEMMA TextsAssociate ==
  \A s, t, u \in Seq(Chars) : (s \o t) \o u = s \o (t \o u)
BY ConcatAssociative

Flat(f, ls) ==
  /\ f[1] = ls[1]
  /\ \A i \in 2 .. Len(ls) : f[i] = f[i - 1] \o ls[i]

LEMMA FlattenSteps ==
  ASSUME NEW S, NEW ls \in Seq(Seq(S)), Len(ls) # 0
  PROVE  \E f \in [1 .. Len(ls) -> Seq(S)] : Flat(f, ls) /\ FlattenSeq(ls) = f[Len(ls)]
<1> DEFINE n == Len(ls)
           X == Seq(S)
           step == [x \in (1 .. n) \X X |-> x[2] \o ls[x[1]]]
           Rule(f) == f = [i \in 1 .. n |-> IF i = 1 THEN ls[i] ELSE f[i - 1] \o ls[i]]
<1>1. n \in Nat \ {0} /\ <<>> \in X /\ \A i \in 1 .. n : ls[i] \in X
  BY ElementOfSeq
<1>2. step \in [(1 .. n) \X X -> X]
  <2> SUFFICES ASSUME NEW i \in 1 .. n, NEW w \in X PROVE w \o ls[i] \in X
    OBVIOUS
  <2> QED BY <1>1, ConcatProperties
<1>3. PICK g \in [SUBSET (1 .. n) -> X] : Follows(g, step, <<>>, n)
  <2> HIDE DEF n, X, step
  <2>1. n \in Nat
    BY <1>1
  <2> QED BY <1>1, <1>2, <2>1, RecursionOverPlaces
<1>4. ASSUME NEW i \in 1 .. n
      PROVE  g[1 .. i] \in X /\ g[1 .. i] = g[1 .. i - 1] \o ls[i]
  <2>1. 1 .. i \in SUBSET (1 .. n) /\ 1 .. i # {} /\ i \in 1 .. i
        /\ 1 .. i - 1 \in SUBSET (1 .. n)
    <3> HIDE DEF n, X, step, Rule
    <3>1. n \in Nat /\ i \in Nat /\ 1 <= i /\ i <= n
      BY <1>1
    <3>2. 1 .. i \subseteq 1 .. n
      BY <3>1
    <3>3. 1 .. i - 1 \subseteq 1 .. n
      BY <3>1
    <3>4. i \in 1 .. i
      BY <3>1
    <3> QED BY <3>2, <3>3, <3>4
  <2>2. Max(1 .. i) = i
    <3>1. i \in Nat
      BY <1>1
    <3>2. Max(1 .. i) \in 1 .. i /\ i <= Max(1 .. i)
      BY <2>1, <3>1, MaxOfPlaces
    <3> QED BY <3>1, <3>2
  <2>3. (1 .. i) \ {i} = 1 .. i - 1
    BY <1>1
  <2>4. g[1 .. i] = step[<<Max(1 .. i), g[(1 .. i) \ {Max(1 .. i)}]>>]
    <3> HIDE DEF step, n
    <3> QED BY <1>3, <2>1 DEF Follows
  <2>5. g[1 .. i - 1] \in X /\ g[1 .. i] \in X
    <3> HIDE DEF X, n
    <3> QED BY <1>3, <2>1
  <2>6. <<i, g[1 .. i - 1]>> \in (1 .. n) \X X
    BY <2>5
  <2> QED BY <2>2, <2>3, <2>4, <2>5, <2>6
<1> HIDE DEF step
<1> DEFINE f0 == [i \in 1 .. n |-> g[1 .. i]]
<1>5. Rule(f0)
  <2>1. ASSUME NEW i \in 1 .. n
        PROVE  f0[i] = IF i = 1 THEN ls[i] ELSE f0[i - 1] \o ls[i]
    <3>1. CASE i = 1
      <4>1. 1 .. i - 1 = {}
        BY <3>1
      <4>2. g[1 .. i - 1] = <<>>
        BY <1>3, <4>1 DEF Follows
      <4>3. ls[i] \in X
        BY <1>1
      <4>4. <<>> \o ls[i] = ls[i]
        BY <4>3, ConcatEmptySeq
      <4> QED BY <1>4, <3>1, <4>2, <4>4
    <3>2. CASE i # 1
      <4>1. i - 1 \in 1 .. n
        BY <1>1, <3>2
      <4> QED BY <1>4, <3>2, <4>1
    <3> QED BY <3>1, <3>2
  <2>2. f0 = [i \in 1 .. n |-> f0[i]]
    OBVIOUS
  <2> HIDE DEF f0
  <2> QED BY <2>1, <2>2
<1>6. PICK f : f = CHOOSE h : Rule(h)
  OBVIOUS
<1>7. Rule(f)
  <2> HIDE DEF Rule, f0
  <2> QED BY <1>5, <1>6
<1>8. FlattenSeq(ls) = f[n]
  BY <1>1, <1>6 DEF FlattenSeq
<1>9. ASSUME NEW i \in 1 .. n PROVE f[i] = IF i = 1 THEN ls[i] ELSE f[i - 1] \o ls[i]
  BY <1>7
<1>10. \A i \in 1 .. n : f[i] \in X
  <2> DEFINE Bad == {i \in 1 .. n : f[i] \notin X}
  <2>1. Bad = {}
    <3> SUFFICES ASSUME Bad # {} PROVE FALSE
      OBVIOUS
    <3>1. Bad \subseteq Nat
      BY <1>1
    <3>2. PICK i \in Bad : \A j \in Bad : i <= j
      <4> HIDE DEF Bad
      <4> QED BY <3>1, HasLeast
    <3>3. i # 1
      BY <1>1, <1>9, <3>2
    <3>4. i - 1 \in 1 .. n /\ ~(i <= i - 1) /\ i \in 1 .. n
      BY <1>1, <3>2, <3>3
    <3>5. f[i - 1] \in X /\ ls[i] \in X
      BY <1>1, <3>2, <3>4
    <3>6. f[i - 1] \o ls[i] \in X
      BY <3>5, ConcatProperties
    <3> QED BY <1>9, <3>2, <3>3, <3>4, <3>6
  <2> QED BY <2>1
<1>11. f \in [1 .. n -> X]
  <2>1. f = [i \in 1 .. n |-> f[i]]
    BY <1>7
  <2> HIDE DEF X, n
  <2> QED BY <1>10, <2>1
<1>12. Flat(f, ls)
  <2>1. 1 \in 1 .. n /\ \A i \in 2 .. n : i \in 1 .. n /\ i # 1
    BY <1>1
  <2> QED BY <1>9, <2>1 DEF Flat
<1> QED BY <1>8, <1>11, <1>12

LEMMA FlattenType ==
  ASSUME NEW S, NEW ls \in Seq(Seq(S))
  PROVE  FlattenSeq(ls) \in Seq(S)
<1>1. CASE Len(ls) = 0
  <2>1. FlattenSeq(ls) = ls /\ ls = <<>>
    BY <1>1, EmptySeq DEF FlattenSeq
  <2> QED BY <2>1
<1>2. CASE Len(ls) # 0
  <2>1. PICK f \in [1 .. Len(ls) -> Seq(S)] : FlattenSeq(ls) = f[Len(ls)]
    BY <1>2, FlattenSteps
  <2>2. Len(ls) \in 1 .. Len(ls)
    BY <1>2, LenProperties
  <2> QED BY <2>1, <2>2
<1> QED BY <1>1, <1>2

\* An octet more for every label makes so many octets more in all.
LEMMA FlattenLonger ==
  ASSUME NEW S, NEW ls \in Seq(Seq(S)), NEW T, NEW es \in Seq(Seq(T)),
         Len(es) = Len(ls),
         \A k \in 1 .. Len(ls) : Len(es[k]) = Len(ls[k]) + 1
  PROVE  Len(FlattenSeq(es)) = Len(FlattenSeq(ls)) + Len(ls)
<1> DEFINE n == Len(ls)
<1>1. n \in Nat /\ Len(es) = n
  OBVIOUS
<1>2. CASE n = 0
  <2>1. ls = <<>> /\ es = <<>>
    BY <1>1, <1>2, EmptySeq
  <2> QED BY <1>2, <2>1 DEF FlattenSeq
<1>3. CASE n # 0
  <2>1. PICK f \in [1 .. n -> Seq(S)] : Flat(f, ls) /\ FlattenSeq(ls) = f[n]
    BY <1>3, FlattenSteps
  <2>2. PICK h \in [1 .. n -> Seq(T)] : Flat(h, es) /\ FlattenSeq(es) = h[n]
    <3>1. Len(es) # 0 /\ 1 .. n = 1 .. Len(es) /\ n = Len(es)
      BY <1>1, <1>3
    <3> HIDE DEF n
    <3>2. \E h \in [1 .. Len(es) -> Seq(T)] : Flat(h, es) /\ FlattenSeq(es) = h[Len(es)]
      BY <3>1, FlattenSteps
    <3> QED BY <3>1, <3>2
  <2>3. \A k \in 1 .. n : /\ ls[k] \in Seq(S) /\ Len(ls[k]) \in Nat
                          /\ es[k] \in Seq(T) /\ Len(es[k]) = Len(ls[k]) + 1
    BY <1>1, ElementOfSeq, LenProperties
  <2>4. \A k \in 1 .. n : f[k] \in Seq(S) /\ Len(f[k]) \in Nat /\ h[k] \in Seq(T)
    BY LenProperties
  <2> DEFINE Bad == {k \in 1 .. n : Len(h[k]) # Len(f[k]) + k}
  <2>5. Bad = {}
    <3> SUFFICES ASSUME Bad # {} PROVE FALSE
      OBVIOUS
    <3>1. Bad \subseteq Nat
      BY <1>1
    <3>2. PICK k \in Bad : \A j \in Bad : k <= j
      <4> HIDE DEF Bad
      <4> QED BY <3>1, HasLeast
    <3>3. k \in 1 .. n /\ k \in Nat /\ Len(h[k]) # Len(f[k]) + k
      BY <1>1, <3>2
    <3>4. 1 \in 1 .. n
      BY <1>1, <1>3
    <3>5. k # 1
      <4>1. Len(h[1]) = Len(f[1]) + 1
        BY <2>1, <2>2, <2>3, <3>4 DEF Flat
      <4> QED BY <3>3, <4>1
    <3>6. k - 1 \in 1 .. n /\ k \in 2 .. n /\ ~(k <= k - 1)
      BY <1>1, <3>3, <3>5
    <3>7. Len(h[k - 1]) = Len(f[k - 1]) + (k - 1)
      BY <3>2, <3>6
    <3>8. f[k] = f[k - 1] \o ls[k] /\ h[k] = h[k - 1] \o es[k]
      BY <1>1, <2>1, <2>2, <3>6 DEF Flat
    <3>9. Len(f[k]) = Len(f[k - 1]) + Len(ls[k])
      BY <2>3, <2>4, <3>3, <3>6, <3>8, ConcatProperties
    <3>10. Len(h[k]) = Len(h[k - 1]) + Len(es[k])
      BY <2>3, <2>4, <3>3, <3>6, <3>8, ConcatProperties
    <3>11. Len(f[k - 1]) \in Nat /\ Len(ls[k]) \in Nat /\ Len(es[k]) = Len(ls[k]) + 1
      BY <2>3, <2>4, <3>3, <3>6
    <3>12. PICK a, b : a = Len(f[k - 1]) /\ b = Len(ls[k])
      OBVIOUS
    <3>13. a \in Nat /\ b \in Nat /\ (a + (k - 1)) + (b + 1) = (a + b) + k
      <4>1. k \in Nat /\ a \in Nat /\ b \in Nat
        BY <3>3, <3>11, <3>12
      <4> QED BY ONLY <4>1
    <3>14. Len(h[k]) = (a + (k - 1)) + (b + 1)
      BY <3>7, <3>10, <3>11, <3>12
    <3>15. Len(f[k]) = a + b
      BY <3>9, <3>12
    <3> QED BY <3>3, <3>13, <3>14, <3>15
  <2>6. n \in 1 .. n
    BY <1>1, <1>3
  <2>7. Len(h[n]) = Len(f[n]) + n
    BY <2>5, <2>6
  <2> QED BY <2>1, <2>2, <2>7
<1> QED BY <1>2, <1>3

\* The characters of a label that _check_name accepts are ASCII.
LEMMA CheckedLabelAscii ==
  ASSUME NEW l \in Texts, LabelOK(l)
  PROVE  Range(l) \subseteq Range(Ascii)
<1>1. LabelChars \cup {"\n"} \subseteq Range(Ascii)
  BY NameWireAssumption
<1>2. Len(l) \in Nat /\ DOMAIN l = 1 .. Len(l)
  BY DEF Texts
<1>3. CASE l # <<>> /\ Last(l) = "\n"
  <2>1. /\ Front(l) \in Texts /\ Len(Front(l)) = Len(l) - 1
        /\ \A i \in 1 .. Len(l) - 1 : Front(l)[i] = l[i]
    BY <1>3, FrontText
  <2>2. Range(Front(l)) \subseteq LabelChars
    BY <1>3 DEF LabelOK
  <2>3. DOMAIN Front(l) = 1 .. Len(l) - 1
    BY <2>1 DEF Texts
  <2>4. ASSUME NEW i \in 1 .. Len(l) PROVE l[i] \in LabelChars \cup {"\n"}
    <3>1. CASE i = Len(l)
      BY <1>3, <3>1 DEF Last
    <3>2. CASE i # Len(l)
      <4>1. i \in 1 .. Len(l) - 1
        <5>1. PICK m : m = Len(l)
          OBVIOUS
        <5>2. m \in Nat /\ i \in 1 .. m /\ i # m
          BY <1>2, <3>2, <5>1
        <5>3. i \in 1 .. m - 1
          BY ONLY <5>2
        <5> QED BY <5>1, <5>3
      <4>2. Front(l)[i] \in Range(Front(l))
        BY <2>3, <4>1 DEF Range
      <4> QED BY <2>1, <2>2, <4>1, <4>2
    <3> QED BY <3>1, <3>2
  <2> QED BY <1>1, <1>2, <2>4 DEF Range
<1>4. CASE ~(l # <<>> /\ Last(l) = "\n")
  <2>1. Range(l) \subseteq LabelChars
    BY <1>4 DEF LabelOK
  <2> QED BY <1>1, <2>1
<1> QED BY <1>3, <1>4

\* A name that passes _check_name can be encoded within its length.
LEMMA CheckedNameEncodes ==
  ASSUME NEW n \in Texts, CheckName(n) = {n}
  PROVE  \E b \in EncodeName(n) : Len(b) <= MaxName
<1> DEFINE Codes == {Octet(c) : c \in Chars} \cup Nat
           ls == NameLabels(n)
           m == Len(ls)
           es == [k \in DOMAIN ls |-> EncodeLabel(ls[k])]
           b == FlattenSeq(es) \o <<0>>
<1>1. ls \in Seq(Texts) /\ m \in Nat /\ DOMAIN ls = 1 .. m
  BY NameLabelsType
<1>2. /\ \A k \in 1 .. m : Len(ls[k]) <= MaxLabel /\ LabelOK(ls[k])
      /\ WireLen(ls) <= MaxName
  BY <1>1 DEF CheckName
<1>3. \A k \in 1 .. m : Encodable(ls[k])
  <2> SUFFICES ASSUME NEW k \in 1 .. m PROVE Encodable(ls[k])
    OBVIOUS
  <2>1. ls[k] # <<>>
    BY <1>2 DEF LabelOK
  <2>2. ls[k] \in Texts
    BY <1>1, ElementOfSeq
  <2>3. Len(ls[k]) \in Nat
    BY <2>2 DEF Texts
  <2>4. MaxLabel \in Nat /\ Low \in Nat /\ MaxLabel < Low
    BY NamesAssumption, NameWireAssumption
  <2>5. Range(ls[k]) \subseteq Range(Ascii)
    BY <1>2, <2>2, CheckedLabelAscii
  <2> QED BY <1>2, <2>1, <2>3, <2>4, <2>5 DEF Encodable
<1>4. ASSUME NEW k \in 1 .. m
      PROVE  EncodeLabel(ls[k]) \in Seq(Codes) /\ Len(EncodeLabel(ls[k])) = Len(ls[k]) + 1
  <2>1. PICK l : l = ls[k]
    OBVIOUS
  <2>2. l \in Texts
    BY <1>1, <2>1, ElementOfSeq
  <2>3. Len(l) \in Nat /\ DOMAIN l = 1 .. Len(l) /\ \A i \in 1 .. Len(l) : l[i] \in Chars
    BY <2>2, ElementOfSeq DEF Texts
  <2>4. PICK x : x = [i \in DOMAIN l |-> Octet(l[i])]
    OBVIOUS
  <2>5. x \in [1 .. Len(l) -> Codes]
    BY <2>3, <2>4
  <2>6. x \in Seq(Codes) /\ Len(x) = Len(l)
    <3> HIDE DEF Codes
    <3>1. x \in Seq(Codes)
      BY <2>3, <2>5, SeqDef
    <3>2. 1 .. Len(x) = 1 .. Len(l) /\ Len(x) \in Nat
      BY <2>5, <3>1, LenProperties
    <3> QED BY <2>3, <3>1, <3>2
  <2>7. PICK h : h = <<Len(l)>>
    OBVIOUS
  <2>8. h \in Seq(Codes) /\ Len(h) = 1
    <3>1. Len(l) \in Codes
      BY <2>3
    <3> HIDE DEF Codes
    <3> QED BY <2>7, <3>1
  <2>9. h \o x \in Seq(Codes) /\ Len(h \o x) = 1 + Len(l)
    <3> HIDE DEF Codes
    <3>1. h \o x \in Seq(Codes) /\ Len(h \o x) = Len(h) + Len(x)
      BY ONLY <2>6, <2>8, ConcatProperties
    <3> QED BY <2>6, <2>8, <3>1
  <2>10. EncodeLabel(ls[k]) = h \o x
    BY <2>1, <2>4, <2>7 DEF EncodeLabel
  <2> HIDE DEF Codes, ls
  <2> QED BY <2>1, <2>3, <2>9, <2>10
<1>5. es \in Seq(Seq(Codes)) /\ Len(es) = m
  <2> HIDE DEF Codes, ls, m
  <2>1. es \in [1 .. m -> Seq(Codes)]
    BY <1>1, <1>4
  <2> HIDE DEF es
  <2>2. es \in Seq(Seq(Codes))
    BY <1>1, <2>1, SeqDef
  <2>3. 1 .. Len(es) = 1 .. m /\ Len(es) \in Nat
    BY <2>1, <2>2, LenProperties
  <2> QED BY <1>1, <2>2, <2>3
<1>6. \A k \in 1 .. m : Len(es[k]) = Len(ls[k]) + 1
  BY <1>1, <1>4
<1>7. EncodeName(n) = {b}
  <2>1. \A k \in DOMAIN ls : Encodable(ls[k])
    BY <1>1, <1>3
  <2> QED BY <2>1 DEF EncodeName
<1> HIDE DEF es, ls, Codes
<1>8. Len(FlattenSeq(es)) = Len(FlattenSeq(ls)) + m /\ FlattenSeq(ls) \in Texts
  <2>1. ls \in Seq(Seq(Chars))
    BY <1>1 DEF Texts
  <2> QED BY <1>5, <1>6, <2>1, FlattenLonger, FlattenType DEF Texts
<1>9. Len(b) = Len(FlattenSeq(es)) + 1
  <2>1. FlattenSeq(es) \in Seq(Codes)
    BY <1>5, FlattenType
  <2>2. PICK z : z = <<0>>
    OBVIOUS
  <2>3. z \in Seq(Codes) /\ Len(z) = 1
    <3>1. 0 \in Codes
      BY DEF Codes
    <3> QED BY <2>2, <3>1
  <2>4. Len(FlattenSeq(es) \o z) = Len(FlattenSeq(es)) + Len(z)
    BY <2>1, <2>3, ConcatProperties
  <2> QED BY <2>2, <2>3, <2>4
<1>10. Len(b) = WireLen(ls)
  <2>1. Len(FlattenSeq(ls)) \in Nat
    BY <1>8 DEF Texts
  <2> HIDE DEF b
  <2> QED BY <1>1, <1>8, <1>9, <2>1 DEF WireLen
<1> HIDE DEF b
<1> QED BY <1>2, <1>7, <1>10

(***************************************************************************)
(* encode_name never raises for a name that was stored, and what it        *)
(* returns is within the limit.                                            *)
(***************************************************************************)
THEOREM EncodableInvariant == NSpec => []StoredNamesEncode
<1>1. NInv => StoredNamesEncode
  BY CheckedNameEncodes DEF NInv, Legal, Clean, StoredNamesEncode
<1> QED BY <1>1, StoredNamesInvariant, PTL
-----------------------------------------------------------------------------
(* A text that ends in a dot and another text: its last labels are those   *)
(* of the other.                                                           *)

\* t is something, a dot at place a, and q.
Tail2(t, a, q) ==
  /\ a \in 1 .. Len(t) /\ Len(t) = a + Len(q) /\ t[a] = "."
  /\ \A i \in 1 .. Len(q) : t[a + i] = q[i]

LEMMA DotsBeyond ==
  ASSUME NEW t \in Texts, NEW q \in Texts, NEW a, Tail2(t, a, q), NEW i \in 0 .. Len(q)
  PROVE  Count(Dots(t), a + i) = Count(Dots(t), a) + Count(Dots(q), i)
<1> DEFINE A == {d \in Dots(t) : d <= a}
           Q == {d \in Dots(q) : d <= i}
           M == {a + d : d \in Q}
           B == {d \in Dots(t) : d <= a + i}
<1>1. /\ IsFiniteSet(Dots(t)) /\ Dots(t) \subseteq 1 .. Len(t)
      /\ IsFiniteSet(Dots(q)) /\ Dots(q) \subseteq 1 .. Len(q)
      /\ Len(t) \in Nat /\ Len(q) \in Nat /\ DOMAIN t = 1 .. Len(t) /\ DOMAIN q = 1 .. Len(q)
  BY DotsFinite
<1>2. a \in 1 .. Len(t) /\ a \in Nat /\ Len(t) = a + Len(q)
  BY <1>1 DEF Tail2
<1>3. IsFiniteSet(A) /\ IsFiniteSet(Q)
  BY <1>1, FS_Subset
<1>4. Cardinality(A) \in Nat /\ Cardinality(Q) \in Nat
  BY <1>3, FS_CardinalityType
<1>5. IsFiniteSet(M) /\ Cardinality(M) = Cardinality(Q)
  <2> DEFINE f == [d \in Q |-> a + d]
  <2>1. \A d \in Q : d \in Nat
    BY <1>1
  <2> HIDE DEF Q
  <2>2. f \in Bijection(Q, M)
    <3>1. f \in [Q -> M] /\ \A c, d \in Q : f[c] = f[d] => c = d
      BY <1>2, <2>1
    <3>2. \A e \in M : \E d \in Q : f[d] = e
      OBVIOUS
    <3> HIDE DEF f, M
    <3> QED BY <3>1, <3>2 DEF Bijection, Injection, Surjection, IsInjective
  <2>3. ExistsBijection(Q, M)
    BY <2>2 DEF ExistsBijection
  <2> HIDE DEF f, M
  <2> QED BY <1>3, <2>3, FS_Bijection
<1>6. \A d \in 1 .. Len(q) : a + d \in Dots(t) <=> d \in Dots(q)
  BY <1>1, <1>2 DEF Tail2, Dots
<1>7. B = A \cup M
  <2>1. ASSUME NEW d \in B PROVE d \in A \cup M
    <3>1. d \in Dots(t) /\ d \in 1 .. a + Len(q) /\ d <= a + i
      BY <1>1, <1>2
    <3>2. CASE d <= a
      BY <3>1, <3>2
    <3>3. CASE d > a
      <4>1. d - a \in 1 .. Len(q) /\ a + (d - a) = d /\ d - a <= i
        BY <1>1, <1>2, <3>1, <3>3
      <4>2. d - a \in Dots(q)
        BY <1>6, <3>1, <4>1
      <4>3. d - a \in Q
        BY <4>1, <4>2
      <4> HIDE DEF Q
      <4> QED BY <4>1, <4>3
    <3> QED BY <1>2, <3>1, <3>2, <3>3
  <2>2. ASSUME NEW d \in A PROVE d \in B
    <3>1. d \in Nat /\ d <= a
      BY <1>1
    <3> QED BY <1>2, <3>1
  <2>3. ASSUME NEW d \in Q PROVE a + d \in B
    <3>1. d \in 1 .. Len(q) /\ d \in Dots(q) /\ d <= i
      BY <1>1
    <3>2. a + d \in Dots(t)
      BY <1>6, <3>1
    <3>3. a + d <= a + i
      BY <1>2, <3>1
    <3> QED BY <3>2, <3>3
  <2> HIDE DEF A, B, Q
  <2> QED BY <2>1, <2>2, <2>3
<1>8. A \cap M = {}
  <2>1. ASSUME NEW d \in Q PROVE a + d \notin A
    <3>1. d \in 1 .. Len(q)
      BY <1>1
    <3> QED BY <1>2, <3>1
  <2> HIDE DEF A, Q
  <2> QED BY <2>1
<1> HIDE DEF A, M, B, Q
<1>9. Cardinality(B) = Cardinality(A) + Cardinality(M) - Cardinality(A \cap M)
  BY <1>3, <1>5, <1>7, FS_Union
<1>10. Cardinality(A \cap M) = 0
  BY <1>8, FS_EmptySet
<1>11. Cardinality(B) = Cardinality(A) + Cardinality(Q)
  BY <1>4, <1>5, <1>9, <1>10
<1> QED BY <1>11 DEF Count, A, B, Q

LEMMA AllCounted ==
  ASSUME NEW t \in Texts
  PROVE  Count(Dots(t), Len(t)) = Cardinality(Dots(t)) /\ Count(Dots(t), 0) = 0
<1>1. Dots(t) \subseteq 1 .. Len(t) /\ Len(t) \in Nat
  BY DotsFinite
<1>2. {d \in Dots(t) : d <= Len(t)} = Dots(t)
  BY <1>1
<1>3. {d \in Dots(t) : d <= 0} = {}
  BY <1>1
<1> QED BY <1>2, <1>3, FS_EmptySet DEF Count

\* The cuts of t from a on are those of q.
LEMMA CutsBeyond ==
  ASSUME NEW t \in Texts, NEW q \in Texts, NEW a, Tail2(t, a, q)
  PROVE  LET c == Count(Dots(t), a)
             m == Cardinality(Dots(q))
         IN  /\ c \in Nat \ {0} /\ m \in Nat /\ Cardinality(Dots(t)) = c + m
             /\ \A k \in 0 .. m + 1 : Cut(t, c + k) = a + Cut(q, k)
<1> DEFINE c == Count(Dots(t), a)
           m == Cardinality(Dots(q))
           M == Cardinality(Dots(t))
<1>1. /\ IsFiniteSet(Dots(t)) /\ Dots(t) \subseteq 1 .. Len(t) /\ Dots(t) \subseteq Int
      /\ IsFiniteSet(Dots(q)) /\ Dots(q) \subseteq 1 .. Len(q) /\ Dots(q) \subseteq Int
      /\ Len(t) \in Nat /\ Len(q) \in Nat /\ DOMAIN t = 1 .. Len(t) /\ DOMAIN q = 1 .. Len(q)
      /\ m \in Nat /\ M \in Nat
  BY DotsFinite
<1>2. a \in 1 .. Len(t) /\ a \in Nat /\ Len(t) = a + Len(q) /\ a \in Dots(t)
  BY <1>1 DEF Tail2, Dots
<1>3. c \in 1 .. M /\ Nth(Dots(t), c) = a
  BY <1>1, <1>2, CountOfMember, NthOfCount
<1>4. M = c + m
  <2>1. Len(q) \in 0 .. Len(q)
    BY <1>1
  <2>2. Count(Dots(t), a + Len(q)) = c + Count(Dots(q), Len(q))
    BY <2>1, DotsBeyond
  <2>3. Count(Dots(t), Len(t)) = M /\ Count(Dots(q), Len(q)) = m
    BY AllCounted
  <2> HIDE DEF c, m, M
  <2> QED BY <1>2, <2>2, <2>3
<1>5. ASSUME NEW k \in 0 .. m + 1 PROVE Cut(t, c + k) = a + Cut(q, k)
  <2>1. CASE k = 0
    <3>1. Cut(q, k) = 0
      BY <1>1, <2>1 DEF Cut
    <3>2. c + k = c /\ c # 0 /\ c # M + 1
      <4> HIDE DEF c, m, M
      <4> QED BY <1>1, <1>3, <2>1
    <3>3. Cut(t, c) = Nth(Dots(t), c)
      BY <3>2 DEF Cut
    <3> HIDE DEF c, m, M
    <3> QED BY <1>2, <1>3, <3>1, <3>2, <3>3
  <2>2. CASE k = m + 1
    <3>1. Cut(q, k) = Len(q) + 1
      BY <1>1, <2>2 DEF Cut
    <3>2. c + k = M + 1 /\ c + k # 0
      <4> HIDE DEF c, m, M
      <4> QED BY <1>1, <1>3, <1>4, <2>2
    <3>3. Cut(t, c + k) = Len(t) + 1
      BY <3>2 DEF Cut
    <3> HIDE DEF c, m, M
    <3> QED BY <1>1, <1>2, <3>1, <3>3
  <2>3. CASE k \in 1 .. m
    <3> DEFINE i == Nth(Dots(q), k)
    <3>1. i \in Dots(q) /\ Count(Dots(q), i) = k
      BY <1>1, <2>3, NthIsThere
    <3>2. Cut(q, k) = i
      BY <1>1, <2>3 DEF Cut
    <3> HIDE DEF i
    <3>3. i \in 1 .. Len(q) /\ i \in 0 .. Len(q) /\ a + i \in 1 .. Len(t)
      BY <1>1, <1>2, <3>1
    <3>4. a + i \in Dots(t)
      BY <1>1, <3>1, <3>3 DEF Tail2, Dots
    <3>5. Count(Dots(t), a + i) = c + k
      BY <3>1, <3>3, DotsBeyond
    <3>6. Nth(Dots(t), c + k) = a + i
      BY <1>1, <3>4, <3>5, NthOfCount
    <3>7. c + k # 0 /\ c + k # M + 1
      <4> HIDE DEF c, m, M
      <4> QED BY <1>1, <1>3, <1>4, <2>3
    <3>8. Cut(t, c + k) = Nth(Dots(t), c + k)
      BY <3>7 DEF Cut
    <3> QED BY <3>2, <3>6, <3>8
  <2>4. k = 0 \/ k = m + 1 \/ k \in 1 .. m
    <3> HIDE DEF m
    <3> QED BY <1>1
  <2> QED BY <2>1, <2>2, <2>3, <2>4
<1> HIDE DEF M, c, m
<1>6. c \in Nat \ {0}
  BY <1>1, <1>3
<1> QED BY <1>1, <1>4, <1>5, <1>6 DEF M, c, m

\* What stands between two places of a text.
Between(t, x, y) == SubSeq(t, x + 1, y - 1)

\* A label in the last part of a text.
LEMMA LabelBeyond ==
  ASSUME NEW t \in Texts, NEW q \in Texts, NEW a, Tail2(t, a, q)
  PROVE  \A x, y \in 0 .. Len(q) + 1 : Between(t, a + x, a + y) = Between(q, x, y)
<1> TAKE x \in 0 .. Len(q) + 1, y \in 0 .. Len(q) + 1
<1> DEFINE from == a + x
           to == a + y
<1>1. Len(t) \in Nat /\ Len(q) \in Nat /\ a \in Nat /\ Len(t) = a + Len(q)
  BY DotsFinite DEF Tail2
<1>2. x \in Nat /\ y \in Nat
  BY <1>1
<1>3. /\ \A i \in x + 1 .. y - 1 : i \in 1 .. Len(q)
      /\ \A i \in from + 1 .. to - 1 : i \in 1 .. Len(t)
  BY <1>1
<1>4. PICK u, v : u = SubSeq(t, from + 1, to - 1) /\ v = SubSeq(q, x + 1, y - 1)
  OBVIOUS
<1>5. \A i \in from + 1 .. to - 1 : t[i] \in Chars
  BY <1>3, ElementOfSeq DEF Texts
<1>6. \A i \in x + 1 .. y - 1 : q[i] \in Chars
  BY <1>3, ElementOfSeq DEF Texts
<1>7. PICK l : l = y - x - 1 /\ l \in Int
  <2>1. y - x - 1 \in Int
    BY <1>2
  <2> QED BY <2>1
<1>8. /\ u \in Seq(Chars) /\ Len(u) = (IF 1 <= l THEN l ELSE 0)
      /\ \A i \in 1 .. l : u[i] = t[a + x + i]
  <2>1. PICK b \in Int, e \in Int : b = from + 1 /\ e = to - 1
    BY <1>1, <1>2
  <2>2. /\ SubSeq(t, b, e) \in Seq(Chars)
        /\ Len(SubSeq(t, b, e)) = IF b <= e THEN e - b + 1 ELSE 0
        /\ \A i \in 1 .. e - b + 1 : SubSeq(t, b, e)[i] = t[b + i - 1]
    BY <1>5, <2>1, SubSeqProperties
  <2>3. e - b + 1 = l /\ (b <= e <=> 1 <= l) /\ \A i \in 1 .. l : b + i - 1 = a + x + i
    BY <1>1, <1>2, <1>7, <2>1
  <2>4. u = SubSeq(t, b, e)
    BY <1>4, <2>1
  <2> QED BY <2>2, <2>3, <2>4
<1>9. /\ v \in Seq(Chars) /\ Len(v) = (IF 1 <= l THEN l ELSE 0)
      /\ \A i \in 1 .. l : v[i] = q[x + i]
  <2>1. PICK b \in Int, e \in Int : b = x + 1 /\ e = y - 1
    BY <1>1, <1>2
  <2>2. /\ SubSeq(q, b, e) \in Seq(Chars)
        /\ Len(SubSeq(q, b, e)) = IF b <= e THEN e - b + 1 ELSE 0
        /\ \A i \in 1 .. e - b + 1 : SubSeq(q, b, e)[i] = q[b + i - 1]
    BY <1>6, <2>1, SubSeqProperties
  <2>3. e - b + 1 = l /\ (b <= e <=> 1 <= l) /\ \A i \in 1 .. l : b + i - 1 = x + i
    BY <1>2, <1>7, <2>1
  <2>4. v = SubSeq(q, b, e)
    BY <1>4, <2>1
  <2> QED BY <2>2, <2>3, <2>4
<1>10. \A i \in 1 .. l : u[i] = v[i]
  <2> SUFFICES ASSUME NEW i \in 1 .. l PROVE t[a + x + i] = q[x + i]
    BY <1>8, <1>9
  <2>1. x + i \in 1 .. Len(q) /\ a + (x + i) = a + x + i
    BY <1>1, <1>2, <1>7
  <2>2. t[a + (x + i)] = q[x + i]
    BY <2>1 DEF Tail2
  <2> QED BY <2>1, <2>2
<1>11. Len(u) = Len(v) /\ \A i \in 1 .. Len(u) : i \in 1 .. l
  BY <1>7, <1>8, <1>9
<1>12. u = v
  BY <1>8, <1>9, <1>10, <1>11, SeqEqual
<1> QED BY <1>4, <1>12 DEF Between

LEMMA SplitEnds ==
  ASSUME NEW t \in Texts, NEW q \in Texts, NEW a, Tail2(t, a, q)
  PROVE  Ends(Split(q), Split(t))
<1> DEFINE c == Count(Dots(t), a)
           m == Cardinality(Dots(q))
<1>1. /\ c \in Nat \ {0} /\ m \in Nat /\ Cardinality(Dots(t)) = c + m
      /\ \A k \in 0 .. m + 1 : Cut(t, c + k) = a + Cut(q, k)
  BY CutsBeyond
<1>2. /\ Len(Split(t)) = c + m + 1 /\ Len(Split(q)) = m + 1
  BY <1>1, LabelType
<1>3. \A k \in 1 .. m + 1 : Split(q)[k] = Between(q, Cut(q, k - 1), Cut(q, k))
  BY SplitShape DEF Between
<1>4. \A k \in 1 .. c + m + 1 : Split(t)[k] = Between(t, Cut(t, k - 1), Cut(t, k))
  <2>1. Split(t) = [k \in 1 .. Cardinality(Dots(t)) + 1 |->
                      SubSeq(t, Cut(t, k - 1) + 1, Cut(t, k) - 1)]
    BY SplitShape
  <2> HIDE DEF c, m
  <2> QED BY <1>1, <2>1 DEF Between
<1>5. ASSUME NEW k \in 1 .. m + 1 PROVE Split(t)[c + k] = Split(q)[k]
  <2> DEFINE x == Cut(q, k - 1)
             y == Cut(q, k)
  <2>1. k \in 0 .. m + 1 /\ k - 1 \in 0 .. m + 1
    <3> HIDE DEF m
    <3> QED BY <1>1
  <2>2. x \in 0 .. Len(q) + 1 /\ y \in 0 .. Len(q) + 1
    BY <2>1, CutType
  <2>3. Cut(t, c + k) = a + y /\ Cut(t, c + (k - 1)) = a + x
    <3> HIDE DEF c, m
    <3> QED BY <1>1, <2>1
  <2>4. c + k \in 1 .. c + m + 1 /\ (c + k) - 1 = c + (k - 1)
    <3> HIDE DEF c, m
    <3> QED BY <1>1
  <2> HIDE DEF x, y
  <2>5. PICK i, u, v : i = c + k /\ u = Cut(t, i - 1) /\ v = Cut(t, i)
    OBVIOUS
  <2>6. i \in 1 .. c + m + 1 /\ u = a + x /\ v = a + y
    BY <2>3, <2>4, <2>5
  <2>7. Split(t)[i] = Between(t, u, v)
    BY <1>4, <2>5, <2>6
  <2>8. Split(q)[k] = Between(q, x, y)
    BY <1>3 DEF x, y
  <2>9. \A f, g \in 0 .. Len(q) + 1 : Between(t, a + f, a + g) = Between(q, f, g)
    BY LabelBeyond
  <2>10. Between(t, u, v) = Between(q, x, y)
    BY <2>2, <2>6, <2>9
  <2> HIDE DEF c
  <2> QED BY <2>5, <2>7, <2>8, <2>10
<1> HIDE DEF c, m
<1>6. Len(Split(t)) - Len(Split(q)) = c /\ Len(Split(q)) <= Len(Split(t))
  BY <1>1, <1>2
<1> QED BY <1>2, <1>5, <1>6 DEF Ends

(***************************************************************************)
(* A name the text test of canonical_name lets into a zone is inside it    *)
(* label by label.                                                         *)
(***************************************************************************)
LEMMA WithinEncloses ==
  ASSUME NEW n, Clean(n), NEW z, Clean(z), Within(n, z)
  PROVE  Encloses(z, n)
<1>1. /\ n \in Texts /\ n # <<>> /\ n[Len(n)] = "."
      /\ z \in Texts /\ z # <<>> /\ z[Len(z)] = "."
  BY AbsoluteEnds DEF Clean
<1>2. NameLabels(n) \in Seq(Texts) /\ NameLabels(z) \in Seq(Texts)
  BY <1>1, NameLabelsType
<1>3. SUFFICES Ends(NameLabels(z), NameLabels(n))
  BY <1>2, SuffixIsEnd DEF Encloses
<1>4. Len(n) \in Nat \ {0} /\ Len(z) \in Nat \ {0}
  BY <1>1, EmptySeq DEF Texts
<1>5. CASE n = z
  <2>1. Len(NameLabels(n)) \in Nat
    BY <1>2
  <2> QED BY <1>5, <2>1 DEF Ends
<1>6. CASE z = Root
  <2>1. NameLabels(z) = <<>>
    BY <1>6 DEF NameLabels
  <2>2. Len(NameLabels(n)) \in Nat
    BY <1>2
  <2> QED BY <2>1, <2>2 DEF Ends
<1>7. CASE n # z /\ z # Root
  <2> DEFINE a == Len(n) - Len(z)
             t == Front(n)
             q == Front(z)
  <2>1. Root \o z \in Texts /\ Len(Root \o z) = 1 + Len(z)
        /\ (Root \o z)[1] = "." /\ \A i \in 1 .. Len(z) : (Root \o z)[1 + i] = z[i]
    <3>1. /\ Root \o z \in Texts /\ Len(Root \o z) = Len(Root) + Len(z)
          /\ \A i \in 1 .. Len(Root) : (Root \o z)[i] = Root[i]
          /\ \A i \in 1 .. Len(z) : (Root \o z)[Len(Root) + i] = z[i]
      BY <1>1, RootText, TextParts
    <3> QED BY <3>1, RootText
  <2>2. Ends(Root \o z, n)
    BY <1>1, <1>7, <2>1, SuffixIsEnd DEF Within, Texts
  <2>3. PICK w : w = Root \o z
    OBVIOUS
  <2>4. /\ 1 + Len(z) <= Len(n)
        /\ \A i \in 1 .. 1 + Len(z) : n[Len(n) - (1 + Len(z)) + i] = w[i]
    BY <2>1, <2>2, <2>3 DEF Ends
  <2>5. a \in Nat \ {0} /\ Len(n) = a + Len(z)
    BY <1>4, <2>4
  <2>6. n[a] = "." /\ \A i \in 1 .. Len(z) : n[a + i] = z[i]
    <3>1. 1 \in 1 .. 1 + Len(z) /\ Len(n) - (1 + Len(z)) + 1 = a
      BY <1>4, <2>5
    <3>2. \A i \in 1 .. Len(z) : 1 + i \in 1 .. 1 + Len(z) /\ Len(n) - (1 + Len(z)) + (1 + i) = a + i
      BY <1>4, <2>5
    <3> HIDE DEF a
    <3> QED BY <2>1, <2>3, <2>4, <3>1, <3>2
  <2> HIDE DEF a
  <2>7. /\ t \in Texts /\ Len(t) = Len(n) - 1 /\ \A i \in 1 .. Len(n) - 1 : t[i] = n[i]
        /\ q \in Texts /\ Len(q) = Len(z) - 1 /\ \A i \in 1 .. Len(z) - 1 : q[i] = z[i]
    BY <1>1, FrontText
  <2> HIDE DEF t, q
  <2>8. Tail2(t, a, q)
    <3>1. a \in 1 .. Len(t) /\ Len(t) = a + Len(q)
      BY <1>4, <2>5, <2>7
    <3>2. \A i \in 1 .. Len(q) : /\ a + i \in 1 .. Len(n) - 1 /\ i \in 1 .. Len(z)
                                 /\ i \in 1 .. Len(z) - 1
      BY <1>4, <2>5, <2>7
    <3>3. a \in 1 .. Len(n) - 1
      BY <2>7, <3>1
    <3> QED BY <2>6, <2>7, <3>1, <3>2, <3>3 DEF Tail2
  <2>9. Ends(Split(q), Split(t))
    BY <2>7, <2>8, SplitEnds
  <2>10. n # Root
    <3>1. Len(n) # 1
      BY <1>4, <2>5
    <3> QED BY <3>1, RootText
  <2> QED BY <1>7, <2>9, <2>10 DEF NameLabels, t, q
<1> QED BY <1>5, <1>6, <1>7

(***************************************************************************)
(* Owner names lie inside their zone label by label, for zones and names   *)
(* of any length (_check_name, canonical_name).                            *)
(***************************************************************************)
THEOREM OwnersInvariant == NSpec => []OwnersWithinZone
<1>1. NInv => OwnersWithinZone
  BY WithinEncloses DEF NInv, Legal, OwnersWithinZone
<1> QED BY <1>1, StoredNamesInvariant, PTL

-----------------------------------------------------------------------------
(* Messages: the names written in them, step by step. *)

Message == Seq(0 .. 4 * Low - 1)

\* What the definition of Written says of each number of steps.
Stepwise(b, f, n) ==
  /\ f[0] = [p \in Nat |-> {}]
  /\ \A k \in 1 .. n : f[k] = Longer(b, f[k - 1])

LEMMA WrittenSteps ==
  ASSUME NEW b, NEW n \in Nat, n = Steps(b)
  PROVE  Stepwise(b, Written(b), n)
<1> DEFINE None == [p \in Nat |-> {}]
           Rule(f, m) == f = [k \in 0 .. m |-> IF k = 0 THEN None ELSE Longer(b, f[k - 1])]
           Bad == {m \in Nat : ~(\E f : Rule(f, m))}
<1> HIDE DEF None
<1>1. \E f : Rule(f, 0)
  <2>1. Rule([k \in 0 .. 0 |-> None], 0)
    OBVIOUS
  <2> QED BY <2>1
<1>2. ASSUME NEW m \in Nat, NEW f, Rule(f, m) PROVE \E g : Rule(g, m + 1)
  <2> DEFINE g == [k \in 0 .. m + 1 |-> IF k <= m THEN f[k] ELSE Longer(b, f[m])]
  <2>1. ASSUME NEW k \in 0 .. m + 1
        PROVE  g[k] = IF k = 0 THEN None ELSE Longer(b, g[k - 1])
    <3>1. CASE k = 0
      BY <1>2, <3>1
    <3>2. CASE k \in 1 .. m
      <4>1. k \in 0 .. m /\ k - 1 \in 0 .. m + 1 /\ k - 1 <= m /\ k # 0 /\ k <= m
        BY <3>2
      <4>2. f[k] = Longer(b, f[k - 1])
        BY <1>2, <4>1
      <4> QED BY <4>1, <4>2
    <3>3. CASE k = m + 1
      <4>1. k # 0 /\ ~(k <= m) /\ k - 1 = m /\ m \in 0 .. m + 1 /\ m <= m
        BY <3>3
      <4> QED BY <4>1
    <3> QED BY <3>1, <3>2, <3>3
  <2>2. g = [k \in 0 .. m + 1 |-> g[k]]
    OBVIOUS
  <2>3. Rule(g, m + 1)
    <3> HIDE DEF g
    <3> QED BY <2>1, <2>2
  <2> QED BY <2>3
<1>3. Bad = {}
  <2> SUFFICES ASSUME Bad # {} PROVE FALSE
    OBVIOUS
  <2> HIDE DEF Rule
  <2>1. PICK m \in Bad : \A j \in Bad : m <= j
    <3>1. Bad \subseteq Nat
      OBVIOUS
    <3> HIDE DEF Bad
    <3> QED BY <3>1, HasLeast
  <2>2. m \in Nat /\ m # 0 /\ ~(\E f : Rule(f, m))
    BY <1>1, <2>1
  <2>3. m - 1 \in Nat /\ (m - 1) + 1 = m /\ ~(m <= m - 1)
    BY <2>2
  <2>4. \E f : Rule(f, m - 1)
    BY <2>1, <2>3
  <2>5. \E g : Rule(g, (m - 1) + 1)
    BY <1>2, <2>3, <2>4
  <2> QED BY <2>2, <2>3, <2>5
<1>4. \E f : Rule(f, n)
  BY <1>3
<1>5. Rule(Written(b), n)
  <2>1. Written(b) = CHOOSE f : Rule(f, n)
    BY DEF Written, None
  <2> HIDE DEF Rule
  <2> QED BY <1>4, <2>1
<1>6. PICK f : f = Written(b)
  OBVIOUS
<1>7. f = [k \in 0 .. n |-> IF k = 0 THEN None ELSE Longer(b, f[k - 1])]
  BY <1>5, <1>6
<1>8. ASSUME NEW k \in 1 .. n PROVE f[k] = Longer(b, f[k - 1])
  <2>1. k \in 0 .. n /\ k # 0
    OBVIOUS
  <2> QED BY <1>7, <2>1
<1>9. f[0] = None
  BY <1>7
<1> QED BY <1>6, <1>8, <1>9 DEF Stepwise, None

LEMMA StepsType ==
  ASSUME NEW b \in Message
  PROVE  Steps(b) \in Nat \ {0} /\ Len(b) \in Nat
<1>1. PICK n : n = Len(b)
  OBVIOUS
<1>2. n \in Nat
  BY <1>1 DEF Message
<1>3. (n + 1) * (n + 1) \in Nat \ {0}
  BY ONLY <1>2
<1> QED BY <1>1, <1>2, <1>3 DEF Steps

\* The names written at place p of message b with at most k steps.
NamesAt(b, k, p) == Written(b)[k][p]

\* Where the pointer at p leads.
Target(b, p) == (b[p + 1] % Low) * 4 * Low + b[p + 2]

\* A label and the name after it.
Labelled(l, w) == [labels |-> <<l>> \o w.labels, end |-> w.end]
PieceAt(b, p) == Decoded(SubSeq(b, p + 2, p + 1 + b[p + 1]))

LEMMA NoStepNoName ==
  ASSUME NEW b \in Message, NEW p \in Nat
  PROVE  NamesAt(b, 0, p) = {}
<1>1. Stepwise(b, Written(b), Steps(b))
  BY StepsType, WrittenSteps
<1>2. Written(b)[0] = [q \in Nat |-> {}]
  BY <1>1 DEF Stepwise
<1> QED BY <1>2 DEF NamesAt

LEMMA NamesStep ==
  ASSUME NEW b \in Message, NEW p \in Nat, NEW k \in 1 .. Steps(b)
  PROVE  NamesAt(b, k, p) =
           IF p >= Len(b) THEN {}
           ELSE IF b[p + 1] = 0 THEN {[labels |-> <<>>, end |-> p + 1]}
           ELSE IF b[p + 1] \div Low = 0
             THEN {Labelled(PieceAt(b, p), w) : w \in NamesAt(b, k - 1, p + 1 + b[p + 1])}
           ELSE IF b[p + 1] \div Low = 3 /\ p + 1 < Len(b) /\ Target(b, p) < p
             THEN {[labels |-> w.labels, end |-> p + 2] : w \in NamesAt(b, k - 1, Target(b, p))}
           ELSE {}
<1>1. Stepwise(b, Written(b), Steps(b))
  BY StepsType, WrittenSteps
<1>2. Written(b)[k] = Longer(b, Written(b)[k - 1])
  BY <1>1 DEF Stepwise
<1>3. PICK f : f = Written(b)[k - 1]
  OBVIOUS
<1>4. Longer(b, f)[p] =
           IF p >= Len(b) THEN {}
           ELSE IF b[p + 1] = 0 THEN {[labels |-> <<>>, end |-> p + 1]}
           ELSE IF b[p + 1] \div Low = 0
             THEN {Labelled(PieceAt(b, p), w) : w \in f[p + 1 + b[p + 1]]}
           ELSE IF b[p + 1] \div Low = 3 /\ p + 1 < Len(b) /\ Target(b, p) < p
             THEN {[labels |-> w.labels, end |-> p + 2] : w \in f[Target(b, p)]}
           ELSE {}
  BY DEF Longer, Labelled, PieceAt, Target
<1> QED BY <1>2, <1>3, <1>4 DEF NamesAt

\* Where the decoder goes from p, a name goes on as well.
Leads(b, p, q) ==
  \A k \in 1 .. Steps(b) : NamesAt(b, k - 1, q) = {} => NamesAt(b, k, p) = {}

\* If there is no name at p, there is none at off, n steps before.
Hopeful(b, off, n, p) ==
  \A m \in Nat : n + m <= Steps(b) /\ NamesAt(b, m, p) = {} => NamesAt(b, n + m, off) = {}

\* p lies on the way of every name at s.
Passes(b, s, p) ==
  \A m \in 0 .. Steps(b) : NamesAt(b, m, s) # {} => \E i \in 0 .. m : NamesAt(b, i, p) # {}

LEMMA HopefulStep ==
  ASSUME NEW b \in Message, NEW off, NEW n \in Nat, NEW p, Hopeful(b, off, n, p),
         NEW q, Leads(b, p, q)
  PROVE  Hopeful(b, off, n + 1, q)
<1> SUFFICES ASSUME NEW m \in Nat, (n + 1) + m <= Steps(b), NamesAt(b, m, q) = {}
             PROVE  NamesAt(b, (n + 1) + m, off) = {}
  BY DEF Hopeful
<1>1. PICK t \in Nat : t = Steps(b)
  BY StepsType
<1>2. m + 1 \in 1 .. t /\ (m + 1) - 1 = m /\ n + (m + 1) <= t /\ m + 1 \in Nat
      /\ (n + 1) + m = n + (m + 1)
  BY <1>1
<1>3. NamesAt(b, m + 1, p) = {}
  BY <1>1, <1>2 DEF Leads
<1> QED BY <1>1, <1>2, <1>3 DEF Hopeful

LEMMA PassesStep ==
  ASSUME NEW b \in Message, NEW s, NEW p \in Nat, Passes(b, s, p), NEW q, Leads(b, p, q)
  PROVE  Passes(b, s, q)
<1> SUFFICES ASSUME NEW m \in 0 .. Steps(b), NamesAt(b, m, s) # {}
             PROVE  \E i \in 0 .. m : NamesAt(b, i, q) # {}
  BY DEF Passes
<1>1. PICK t \in Nat : t = Steps(b)
  BY StepsType
<1>2. PICK i \in 0 .. m : NamesAt(b, i, p) # {}
  BY DEF Passes
<1>3. i # 0
  BY <1>2, NoStepNoName
<1>4. i \in 1 .. t /\ i - 1 \in 0 .. m
  BY <1>1, <1>3
<1> QED BY <1>1, <1>2, <1>4 DEF Leads

\* A pointer to a place it lies behind leads round in a circle.
LEMMA NoNameInCircle ==
  ASSUME NEW b \in Message, NEW p \in Nat, NEW q \in Nat, Leads(b, p, q), Passes(b, q, p)
  PROVE  \A k \in 0 .. Steps(b) : NamesAt(b, k, p) = {}
<1>1. PICK t \in Nat : t = Steps(b)
  BY StepsType
<1> DEFINE Some == {m \in 0 .. t : NamesAt(b, m, q) # {}}
<1>2. Some = {}
  <2> SUFFICES ASSUME Some # {} PROVE FALSE
    OBVIOUS
  <2>1. PICK m \in Some : \A j \in Some : m <= j
    <3>1. Some \subseteq Nat
      OBVIOUS
    <3> HIDE DEF Some
    <3> QED BY <3>1, HasLeast
  <2>2. m \in 0 .. t /\ NamesAt(b, m, q) # {}
    BY <2>1
  <2>3. PICK i \in 0 .. m : NamesAt(b, i, p) # {}
    BY <1>1, <2>2 DEF Passes
  <2>4. i # 0
    BY <2>3, NoStepNoName
  <2>5. i \in 1 .. t /\ i - 1 \in 0 .. t /\ ~(m <= i - 1)
    BY <1>1, <2>2, <2>4
  <2>6. NamesAt(b, i - 1, q) # {}
    BY <1>1, <2>3, <2>5 DEF Leads
  <2> QED BY <2>1, <2>5, <2>6
<1>3. ASSUME NEW k \in 0 .. t PROVE NamesAt(b, k, p) = {}
  <2>1. CASE k = 0
    BY <2>1, NoStepNoName
  <2>2. CASE k # 0
    <3>1. k \in 1 .. t /\ k - 1 \in 0 .. t
      BY <1>1, <2>2
    <3>2. NamesAt(b, k - 1, q) = {}
      BY <1>2, <3>1
    <3> QED BY <1>1, <3>1, <3>2 DEF Leads
  <2> QED BY <2>1, <2>2
<1> QED BY <1>1, <1>3

LEMMA OctetType ==
  ASSUME NEW b \in Message, NEW p \in Nat, p < Len(b)
  PROVE  b[p + 1] \in 0 .. 4 * Low - 1 /\ b[p + 1] \in Nat
<1>1. PICK n \in Nat : n = Len(b)
  BY StepsType
<1>2. p + 1 \in 1 .. Len(b)
  BY <1>1
<1>3. b[p + 1] \in 0 .. 4 * Low - 1
  BY <1>2, ElementOfSeq DEF Message
<1>4. Low \in Nat
  BY NameWireAssumption
<1> QED BY <1>3, <1>4

LEMMA TargetType ==
  ASSUME NEW b \in Message, NEW p \in Nat, p + 1 < Len(b)
  PROVE  Target(b, p) \in Nat
<1>1. PICK n \in Nat : n = Len(b)
  BY StepsType
<1>2. p < Len(b) /\ p + 1 \in Nat /\ (p + 1) + 1 = p + 2
  BY <1>1
<1>3. b[p + 1] \in Nat /\ b[(p + 1) + 1] \in Nat
  BY <1>2, OctetType
<1>4. PICK x \in Nat, y \in Nat, z \in Nat : x = b[p + 1] /\ y = b[p + 2] /\ z = Low
  BY <1>2, <1>3, NameWireAssumption
<1>5. z # 0
  BY <1>4, NameWireAssumption
<1>6. x % z \in Nat
  BY ONLY <1>5
<1>7. PICK u \in Nat : u = x % z
  BY <1>6
<1>8. u * 4 * z + y \in Nat
  BY ONLY TRUE
<1> QED BY <1>4, <1>7, <1>8 DEF Target

Pieces(b) == {PieceAt(b, p) : p \in Nat}
NameRecords(b) == [labels : Seq(Pieces(b)), end : Nat]

LEMMA LabelledType ==
  ASSUME NEW b, NEW l \in Pieces(b), NEW w \in NameRecords(b)
  PROVE  Labelled(l, w) \in NameRecords(b)
<1>1. <<l>> \o w.labels \in Seq(Pieces(b)) /\ w.end \in Nat
  BY DEF NameRecords
<1> QED BY <1>1 DEF Labelled, NameRecords

LEMMA NamesType ==
  ASSUME NEW b \in Message
  PROVE  \A k \in 0 .. Steps(b) : \A p \in Nat : NamesAt(b, k, p) \subseteq NameRecords(b)
<1>1. PICK t \in Nat : t = Steps(b)
  BY StepsType
<1> DEFINE Typed(k) == \A p \in Nat : NamesAt(b, k, p) \subseteq NameRecords(b)
           Bad == {k \in 0 .. t : ~Typed(k)}
<1>2. Typed(0)
  BY NoStepNoName
<1>3. ASSUME NEW k \in 1 .. t, Typed(k - 1) PROVE Typed(k)
  <2> SUFFICES ASSUME NEW p \in Nat PROVE NamesAt(b, k, p) \subseteq NameRecords(b)
    OBVIOUS
  <2>1. k \in 1 .. Steps(b)
    BY <1>1
  <2> HIDE DEF Typed
  <2>2. CASE p >= Len(b)
    BY <2>1, <2>2, NamesStep
  <2>3. CASE ~(p >= Len(b)) /\ b[p + 1] = 0
    <3>1. [labels |-> <<>>, end |-> p + 1] \in NameRecords(b)
      BY DEF NameRecords
    <3>2. NamesAt(b, k, p) = {[labels |-> <<>>, end |-> p + 1]}
      BY <2>1, <2>3, NamesStep
    <3> QED BY <3>1, <3>2
  <2>4. CASE ~(p >= Len(b)) /\ b[p + 1] # 0 /\ b[p + 1] \div Low = 0
    <3>1. NamesAt(b, k, p) =
            {Labelled(PieceAt(b, p), w) : w \in NamesAt(b, k - 1, p + 1 + b[p + 1])}
      BY <2>1, <2>4, NamesStep
    <3>2. p < Len(b)
      BY <2>4, StepsType
    <3>3. p + 1 + b[p + 1] \in Nat
      BY <3>2, OctetType
    <3>4. NamesAt(b, k - 1, p + 1 + b[p + 1]) \subseteq NameRecords(b)
      BY <1>3, <3>3 DEF Typed
    <3>5. PieceAt(b, p) \in Pieces(b)
      BY DEF Pieces
    <3> QED BY <3>1, <3>4, <3>5, LabelledType
  <2>5. CASE ~(p >= Len(b)) /\ b[p + 1] # 0 /\ b[p + 1] \div Low # 0
    <3>1. CASE b[p + 1] \div Low = 3 /\ p + 1 < Len(b) /\ Target(b, p) < p
      <4>1. NamesAt(b, k, p) =
              {[labels |-> w.labels, end |-> p + 2] : w \in NamesAt(b, k - 1, Target(b, p))}
        BY <2>1, <2>5, <3>1, NamesStep
      <4>2. NamesAt(b, k - 1, Target(b, p)) \subseteq NameRecords(b)
        BY <1>3, <3>1, TargetType DEF Typed
      <4>3. \A w \in NameRecords(b) : [labels |-> w.labels, end |-> p + 2] \in NameRecords(b)
        BY DEF NameRecords
      <4> QED BY <4>1, <4>2, <4>3
    <3>2. CASE ~(b[p + 1] \div Low = 3 /\ p + 1 < Len(b) /\ Target(b, p) < p)
      <4>1. NamesAt(b, k, p) = {}
        BY <2>1, <2>5, <3>2, NamesStep
      <4> QED BY <4>1
    <3> QED BY <3>1, <3>2
  <2> QED BY <2>2, <2>3, <2>4, <2>5
<1>4. Bad = {}
  <2> SUFFICES ASSUME Bad # {} PROVE FALSE
    OBVIOUS
  <2> HIDE DEF Typed
  <2>1. PICK m \in Bad : \A j \in Bad : m <= j
    <3>1. Bad \subseteq Nat
      OBVIOUS
    <3> HIDE DEF Bad
    <3> QED BY <3>1, HasLeast
  <2>2. m \in 0 .. t /\ ~Typed(m) /\ m # 0
    BY <1>2, <2>1
  <2>3. m \in 1 .. t /\ m - 1 \in 0 .. t /\ ~(m <= m - 1)
    BY <2>2
  <2>4. Typed(m - 1)
    BY <2>1, <2>3
  <2> QED BY <1>3, <2>2, <2>3, <2>4
<1> QED BY <1>1, <1>4

-----------------------------------------------------------------------------
(* What the reader has and what is left make the name. *)

Readers(b) ==
  [cur : Nat, labels : Seq(Pieces(b)), seen : SUBSET Nat, jumped : BOOLEAN, next : Nat]

\* The name of which r has read the first part, and w is the rest.
Put(r, w) ==
  [labels |-> r.labels \o w.labels, end |-> IF r.jumped THEN r.next ELSE w.end]

\* After n steps from off.
Whole(b, off, n, r) ==
  \A m \in Nat : n + m <= Steps(b) =>
    NamesAt(b, n + m, off) = {Put(r, w) : w \in NamesAt(b, m, r.cur)}

LEMMA WholeAtFirst ==
  ASSUME NEW b \in Message, NEW off \in Nat
  PROVE  Whole(b, off, 0, StartAt(off))
<1> DEFINE r == StartAt(off)
<1>1. ASSUME NEW w \in NameRecords(b) PROVE Put(r, w) = w
  <2>1. PICK ls \in Seq(Pieces(b)), e \in Nat : w = [labels |-> ls, end |-> e]
    BY DEF NameRecords
  <2>2. <<>> \o ls = ls
    OBVIOUS
  <2>3. r.labels = <<>> /\ r.jumped = FALSE
    BY DEF StartAt
  <2> HIDE DEF r
  <2> QED BY <2>1, <2>2, <2>3 DEF Put
<1>2. r.cur = off
  BY DEF StartAt
<1>3. ASSUME NEW m \in Nat, 0 + m <= Steps(b)
      PROVE  NamesAt(b, 0 + m, off) = {Put(r, w) : w \in NamesAt(b, m, off)}
  <2>1. m \in 0 .. Steps(b) /\ 0 + m = m
    BY <1>3, StepsType
  <2>2. NamesAt(b, m, off) \subseteq NameRecords(b)
    BY <2>1, NamesType
  <2> HIDE DEF r
  <2> QED BY <1>1, <2>1, <2>2
<1> HIDE DEF r
<1>4. Whole(b, off, 0, r)
  BY <1>2, <1>3 DEF Whole
<1> QED BY <1>4 DEF r

\* A name at p is label l and a name at q.
LabelLeads(b, p, l, q) ==
  \A k \in 1 .. Steps(b) : NamesAt(b, k, p) = {Labelled(l, w) : w \in NamesAt(b, k - 1, q)}

\* A name at p is one at q, but its field ends at e.
PointerLeads(b, p, e, q) ==
  \A k \in 1 .. Steps(b) :
    NamesAt(b, k, p) = {[labels |-> w.labels, end |-> e] : w \in NamesAt(b, k - 1, q)}

LEMMA LabelInFront ==
  ASSUME NEW S, NEW s \in Seq(S), NEW l \in S, NEW t \in Seq(S)
  PROVE  s \o (<<l>> \o t) = Append(s, l) \o t
<1>1. <<l>> \in Seq(S)
  OBVIOUS
<1>2. Append(s, l) = s \o <<l>>
  BY AppendIsConcat
<1>3. PICK h \in Seq(S) : h = <<l>>
  BY <1>1
<1>4. s \o (h \o t) = (s \o h) \o t
  BY ONLY ConcatAssociative
<1> QED BY <1>2, <1>3, <1>4

LEMMA WholeLabel ==
  ASSUME NEW b \in Message, NEW off, NEW n \in Nat, NEW r \in Readers(b), Whole(b, off, n, r),
         NEW l \in Pieces(b), NEW x \in Readers(b), LabelLeads(b, r.cur, l, x.cur),
         x.labels = Append(r.labels, l), x.jumped = r.jumped, x.next = r.next
  PROVE  Whole(b, off, n + 1, x)
<1>1. ASSUME NEW w \in NameRecords(b) PROVE Put(r, Labelled(l, w)) = Put(x, w)
  <2>1. r.labels \o (<<l>> \o w.labels) = x.labels \o w.labels
    <3>1. r.labels \in Seq(Pieces(b)) /\ w.labels \in Seq(Pieces(b))
      BY DEF Readers, NameRecords
    <3>2. PICK S, s, t : S = Pieces(b) /\ s = r.labels /\ t = w.labels
      OBVIOUS
    <3>3. l \in S /\ s \in Seq(S) /\ t \in Seq(S)
      BY <3>1, <3>2
    <3>4. s \o (<<l>> \o t) = Append(s, l) \o t
      BY ONLY <3>3, LabelInFront
    <3> QED BY <3>2, <3>4
  <2>2. PICK ls, e : ls = <<l>> \o w.labels /\ e = w.end
    OBVIOUS
  <2>3. Labelled(l, w) = [labels |-> ls, end |-> e]
    BY <2>2 DEF Labelled
  <2>4. r.labels \o ls = x.labels \o w.labels
    BY <2>1, <2>2
  <2>5. Put(r, [labels |-> ls, end |-> e])
          = [labels |-> r.labels \o ls, end |-> IF r.jumped THEN r.next ELSE e]
    BY DEF Put
  <2>6. Put(x, w) = [labels |-> x.labels \o w.labels, end |-> IF r.jumped THEN r.next ELSE e]
    BY <2>2 DEF Put
  <2> QED BY <2>3, <2>4, <2>5, <2>6
<1>2. ASSUME NEW m \in Nat, (n + 1) + m <= Steps(b)
      PROVE  NamesAt(b, (n + 1) + m, off) = {Put(x, w) : w \in NamesAt(b, m, x.cur)}
  <2>1. PICK t \in Nat : t = Steps(b)
    BY StepsType
  <2>2. m + 1 \in 1 .. t /\ (m + 1) - 1 = m /\ n + (m + 1) <= t /\ m + 1 \in Nat
        /\ (n + 1) + m = n + (m + 1) /\ m \in 0 .. t
    BY <1>2, <2>1
  <2>3. PICK A : A = NamesAt(b, m, x.cur)
    OBVIOUS
  <2>4. A \subseteq NameRecords(b)
    <3>1. x.cur \in Nat
      BY DEF Readers
    <3> QED BY <2>1, <2>2, <2>3, <3>1, NamesType
  <2>5. NamesAt(b, m + 1, r.cur) = {Labelled(l, w) : w \in A}
    BY <2>1, <2>2, <2>3 DEF LabelLeads
  <2>6. NamesAt(b, n + (m + 1), off) = {Put(r, w) : w \in NamesAt(b, m + 1, r.cur)}
    BY <2>1, <2>2 DEF Whole
  <2>7. {Put(r, w) : w \in {Labelled(l, v) : v \in A}} = {Put(x, w) : w \in A}
    BY <1>1, <2>4
  <2> QED BY <2>2, <2>3, <2>5, <2>6, <2>7
<1> QED BY <1>2 DEF Whole

LEMMA WholePointer ==
  ASSUME NEW b \in Message, NEW off, NEW n \in Nat, NEW r \in Readers(b), Whole(b, off, n, r),
         NEW e \in Nat, NEW x \in Readers(b), PointerLeads(b, r.cur, e, x.cur),
         x.labels = r.labels, x.jumped, x.next = IF r.jumped THEN r.next ELSE e
  PROVE  Whole(b, off, n + 1, x)
<1>1. ASSUME NEW w \in NameRecords(b)
      PROVE  Put(r, [labels |-> w.labels, end |-> e]) = Put(x, w)
  BY DEF Put
<1>2. ASSUME NEW m \in Nat, (n + 1) + m <= Steps(b)
      PROVE  NamesAt(b, (n + 1) + m, off) = {Put(x, w) : w \in NamesAt(b, m, x.cur)}
  <2>1. PICK t \in Nat : t = Steps(b)
    BY StepsType
  <2>2. m + 1 \in 1 .. t /\ (m + 1) - 1 = m /\ n + (m + 1) <= t /\ m + 1 \in Nat
        /\ (n + 1) + m = n + (m + 1) /\ m \in 0 .. t
    BY <1>2, <2>1
  <2>3. PICK A : A = NamesAt(b, m, x.cur)
    OBVIOUS
  <2>4. A \subseteq NameRecords(b)
    <3>1. x.cur \in Nat
      BY DEF Readers
    <3> QED BY <2>1, <2>2, <2>3, <3>1, NamesType
  <2>5. NamesAt(b, m + 1, r.cur) = {[labels |-> w.labels, end |-> e] : w \in A}
    BY <2>1, <2>2, <2>3 DEF PointerLeads
  <2>6. NamesAt(b, n + (m + 1), off) = {Put(r, w) : w \in NamesAt(b, m + 1, r.cur)}
    BY <2>1, <2>2 DEF Whole
  <2>7. {Put(r, w) : w \in {[labels |-> v.labels, end |-> e] : v \in A}} = {Put(x, w) : w \in A}
    BY <1>1, <2>4
  <2> QED BY <2>2, <2>3, <2>5, <2>6, <2>7
<1> QED BY <1>2 DEF Whole

-----------------------------------------------------------------------------
(* The steps of the decoder. *)

LEMMA StepsBound ==
  ASSUME NEW n \in Nat, NEW c \in 0 .. n, NEW m \in Nat, NEW p \in 0 .. n,
         m <= c * (n + 1) + p
  PROVE  m + 1 <= (n + 1) * (n + 1)
<1>1. c \in Nat /\ p \in Nat /\ c <= n /\ p <= n
  OBVIOUS
<1>2. PICK d \in Nat : n = c + d
  <2>1. n - c \in Nat /\ n = c + (n - c)
    BY <1>1
  <2> QED BY <2>1
<1>3. n * (n + 1) = c * (n + 1) + d * (n + 1)
  BY ONLY <1>1, <1>2
<1>4. d * (n + 1) \in Nat /\ n * (n + 1) \in Nat /\ c * (n + 1) \in Nat
  BY ONLY <1>1
<1>5. (n + 1) * (n + 1) = n * (n + 1) + (n + 1)
  BY ONLY TRUE
<1>6. PICK u \in Nat, v \in Nat, w \in Nat : u = c * (n + 1) /\ v = n * (n + 1) /\ w = d * (n + 1)
  BY <1>4
<1> HIDE <1>2
<1>7. v = u + w /\ m <= u + p
  BY <1>3, <1>6
<1>8. m + 1 <= v + (n + 1)
  BY ONLY <1>1, <1>7
<1> QED BY <1>5, <1>6, <1>8

\* r has come n steps from off in message b.
Progress(b, off, n, r) ==
  /\ r \in Readers(b) /\ r.cur <= Len(b)
  /\ r.seen \subseteq 0 .. Len(b) - 1
  /\ n <= Cardinality(r.seen) * (Len(b) + 1) + r.cur
  /\ Len(r.labels) < MaxLabels => Whole(b, off, n, r)
  /\ Hopeful(b, off, n, r.cur)
  /\ \A s \in r.seen : Passes(b, s, r.cur)

\* The steps are fewer than Written has.
LEMMA ProgressBound ==
  ASSUME NEW b \in Message, NEW off, NEW n \in Nat, NEW r, Progress(b, off, n, r)
  PROVE  /\ n + 1 <= Steps(b)
         /\ IsFiniteSet(r.seen) /\ Cardinality(r.seen) \in Nat
<1>1. PICK m \in Nat : m = Len(b)
  BY StepsType
<1>2. r.seen \subseteq 0 .. m - 1 /\ m - 1 \in Int
  BY <1>1 DEF Progress
<1>3. IsFiniteSet(0 .. m - 1) /\ Cardinality(0 .. m - 1) = m
  <2>1. Cardinality(0 .. m - 1) = IF 0 > m - 1 THEN 0 ELSE (m - 1) - 0 + 1
    BY <1>2, FS_Interval
  <2>2. (IF 0 > m - 1 THEN 0 ELSE (m - 1) - 0 + 1) = m
    OBVIOUS
  <2> QED BY <1>2, <2>1, <2>2, FS_Interval
<1>4. IsFiniteSet(r.seen) /\ Cardinality(r.seen) <= m
  BY <1>2, <1>3, FS_Subset
<1>5. PICK c : c = Cardinality(r.seen)
  OBVIOUS
<1>6. c \in 0 .. m
  <2>1. c \in Nat
    BY <1>4, <1>5, FS_CardinalityType
  <2> QED BY <1>4, <1>5, <2>1
<1>7. PICK p : p = r.cur
  OBVIOUS
<1>8. p \in 0 .. m /\ n <= c * (m + 1) + p
  BY <1>1, <1>5, <1>7 DEF Progress, Readers
<1>9. n + 1 <= (m + 1) * (m + 1)
  BY <1>6, <1>8, StepsBound
<1> QED BY <1>1, <1>4, <1>5, <1>6, <1>9 DEF Steps

LEMMA ProgressAtFirst ==
  ASSUME NEW b \in Message, NEW off \in 0 .. Len(b)
  PROVE  Progress(b, off, 0, StartAt(off))
<1>1. off \in Nat /\ off <= Len(b) /\ Len(b) \in Nat
  BY StepsType
<1>2. StartAt(off) \in Readers(b)
  BY <1>1 DEF StartAt, Readers
<1>3. Whole(b, off, 0, StartAt(off))
  BY <1>1, WholeAtFirst
<1>4. Hopeful(b, off, 0, off)
  <2>1. \A m \in Nat : 0 + m = m
    OBVIOUS
  <2> QED BY <2>1 DEF Hopeful
<1>5. StartAt(off).cur = off /\ StartAt(off).seen = {}
  BY DEF StartAt
<1>6. Cardinality({}) = 0
  BY FS_EmptySet
<1>7. 0 <= 0 * (Len(b) + 1) + off
  BY <1>1
<1> QED BY <1>1, <1>2, <1>3, <1>4, <1>5, <1>6, <1>7 DEF Progress

\* What the first octet of a label or a pointer says of the names at p.
LEMMA AtLabel ==
  ASSUME NEW b \in Message, NEW p \in Nat, p < Len(b), b[p + 1] # 0, b[p + 1] \div Low = 0
  PROVE  LabelLeads(b, p, PieceAt(b, p), p + 1 + b[p + 1])
<1>1. ~(p >= Len(b))
  BY StepsType
<1> QED BY <1>1, NamesStep DEF LabelLeads

LEMMA AtPointer ==
  ASSUME NEW b \in Message, NEW p \in Nat, p + 1 < Len(b), b[p + 1] \div Low = 3,
         Target(b, p) < p
  PROVE  PointerLeads(b, p, p + 2, Target(b, p))
<1>1. ~(p >= Len(b))
  BY StepsType
<1>2. b[p + 1] # 0
  <2>1. SUFFICES ASSUME b[p + 1] = 0 PROVE FALSE
    OBVIOUS
  <2>2. PICK z \in Nat \ {0} : z = Low
    BY NameWireAssumption
  <2>3. 0 \div z = 0
    OBVIOUS
  <2> QED BY <2>1, <2>2, <2>3
<1>3. b[p + 1] \div Low # 0
  OBVIOUS
<1> QED BY <1>1, <1>2, <1>3, NamesStep DEF PointerLeads

LEMMA LeadsOn ==
  ASSUME NEW b, NEW p, NEW q
  PROVE  /\ \A l : LabelLeads(b, p, l, q) => Leads(b, p, q)
         /\ \A e : PointerLeads(b, p, e, q) => Leads(b, p, q)
BY DEF LabelLeads, PointerLeads, Leads

\* A reader after a label, and after a pointer.
AfterLabel(b, r) ==
  [r EXCEPT !.cur = @ + 1 + b[r.cur + 1],
            !.labels = IF Len(@) < MaxLabels THEN Append(@, PieceAt(b, r.cur)) ELSE @]

LEMMA ProgressLabel ==
  ASSUME NEW b \in Message, NEW off, NEW n \in Nat, NEW r, Progress(b, off, n, r),
         r.cur < Len(b), b[r.cur + 1] # 0, b[r.cur + 1] \div Low = 0,
         r.cur + b[r.cur + 1] < Len(b)
  PROVE  Progress(b, off, n + 1, AfterLabel(b, r))
<1>1. PICK x : x = AfterLabel(b, r)
  OBVIOUS
<1>2. PICK p, v, l : p = r.cur /\ v = b[p + 1] /\ l = PieceAt(b, p)
  OBVIOUS
<1>3. r \in Readers(b) /\ p \in Nat /\ Len(b) \in Nat /\ v \in Nat /\ l \in Pieces(b)
  <2>1. r \in Readers(b) /\ p \in Nat
    BY <1>2 DEF Progress, Readers
  <2>2. v \in Nat
    BY <1>2, <2>1, OctetType
  <2> QED BY <1>2, <2>1, <2>2, StepsType DEF Pieces
<1>4. r.labels \in Seq(Pieces(b)) /\ Len(r.labels) \in Nat /\ MaxLabels \in Nat
  BY <1>3, NameWireAssumption DEF Readers
<1>5. PICK ls : ls = IF Len(r.labels) < MaxLabels THEN Append(r.labels, l) ELSE r.labels
  OBVIOUS
<1>6. ls \in Seq(Pieces(b))
  BY <1>3, <1>4, <1>5, AppendProperties
<1>7. x = [r EXCEPT !.cur = p + 1 + v, !.labels = ls]
  BY <1>1, <1>2, <1>5 DEF AfterLabel
<1>8. PICK c \in Nat : c = p + 1 + v
  BY <1>3
<1>9. /\ x \in Readers(b)
      /\ x.cur = c /\ x.labels = ls /\ x.seen = r.seen /\ x.jumped = r.jumped /\ x.next = r.next
  BY <1>3, <1>6, <1>7, <1>8 DEF Readers
<1>10. c <= Len(b) /\ p + 1 <= c
  BY <1>2, <1>3, <1>8
<1>11. LabelLeads(b, p, l, c) /\ Leads(b, p, c)
  <2>1. LabelLeads(b, p, l, p + 1 + v)
    BY <1>2, <1>3, AtLabel
  <2> QED BY <1>8, <2>1, LeadsOn
<1>12. n + 1 <= Cardinality(x.seen) * (Len(b) + 1) + x.cur
  <2>1. PICK u : u = Cardinality(r.seen) * (Len(b) + 1)
    OBVIOUS
  <2>2. u \in Nat
    <3>1. Cardinality(r.seen) \in Nat
      BY ProgressBound
    <3> QED BY <1>3, <2>1, <3>1
  <2>3. n <= u + p
    BY <1>2, <2>1 DEF Progress
  <2>4. n + 1 <= u + c
    BY <1>3, <1>10, <2>2, <2>3
  <2> QED BY <1>9, <2>1, <2>4
<1>13. Len(ls) < MaxLabels => Whole(b, off, n + 1, x)
  <2> SUFFICES ASSUME Len(ls) < MaxLabels PROVE Whole(b, off, n + 1, x)
    OBVIOUS
  <2>1. Len(r.labels) < MaxLabels
    BY <1>5
  <2>2. ls = Append(r.labels, l) /\ Whole(b, off, n, r)
    BY <1>5, <2>1 DEF Progress
  <2>3. LabelLeads(b, r.cur, l, x.cur)
    BY <1>2, <1>9, <1>11
  <2> QED BY <1>3, <1>9, <2>2, <2>3, WholeLabel
<1>14. Hopeful(b, off, n + 1, c)
  <2>1. Hopeful(b, off, n, p)
    BY <1>2 DEF Progress
  <2> QED BY <1>11, <2>1, HopefulStep
<1>15. \A s \in r.seen : Passes(b, s, c)
  <2> TAKE s \in r.seen
  <2>1. Passes(b, s, p)
    BY <1>2 DEF Progress
  <2> QED BY <1>3, <1>11, <2>1, PassesStep
<1>16. r.seen \subseteq 0 .. Len(b) - 1
  BY DEF Progress
<1>17. Progress(b, off, n + 1, x)
  BY <1>9, <1>10, <1>12, <1>13, <1>14, <1>15, <1>16 DEF Progress
<1> QED BY <1>1, <1>17

LEMMA ProgressPointer ==
  ASSUME NEW b \in Message, NEW off, NEW n \in Nat, NEW r, Progress(b, off, n, r),
         r.cur + 1 < Len(b), b[r.cur + 1] \div Low = 3,
         PointerOK(r, Target(b, r.cur))
  PROVE  Progress(b, off, n + 1, Jump(r, Target(b, r.cur)))
<1>1. PICK x : x = Jump(r, Target(b, r.cur))
  OBVIOUS
<1>2. PICK p, q : p = r.cur /\ q = Target(b, p)
  OBVIOUS
<1>3. r \in Readers(b) /\ p \in Nat /\ Len(b) \in Nat /\ q \in Nat
  <2>1. r \in Readers(b) /\ p \in Nat
    BY <1>2 DEF Progress, Readers
  <2> QED BY <1>2, <2>1, TargetType, StepsType
<1>4. q < p /\ q \notin r.seen
  BY <1>2 DEF PointerOK
<1>5. PICK e \in Nat : e = p + 2
  BY <1>3
<1>6. PICK h, z : h = r.seen \cup {q} /\ z = IF r.jumped THEN r.next ELSE e
  OBVIOUS
<1>7. x = [r EXCEPT !.seen = h, !.jumped = TRUE, !.cur = q, !.next = z]
  BY <1>1, <1>2, <1>5, <1>6 DEF Jump
<1>8. h \in SUBSET Nat /\ z \in Nat
  BY <1>3, <1>5, <1>6 DEF Readers
<1>9. /\ x \in Readers(b)
      /\ x.cur = q /\ x.labels = r.labels /\ x.seen = h /\ x.jumped /\ x.next = z
  BY <1>3, <1>7, <1>8 DEF Readers
<1>10. q <= Len(b) /\ q \in 0 .. Len(b) - 1
  BY <1>2, <1>3, <1>4
<1>11. PointerLeads(b, p, e, q) /\ Leads(b, p, q)
  <2>1. PointerLeads(b, p, p + 2, q)
    BY <1>2, <1>3, <1>4, AtPointer
  <2> QED BY <1>5, <2>1, LeadsOn
<1>12. n + 1 <= Cardinality(x.seen) * (Len(b) + 1) + x.cur
  <2>1. PICK c \in Nat : c = Cardinality(r.seen) /\ Cardinality(h) = c + 1
    BY <1>4, <1>6, ProgressBound, FS_AddElement
  <2>2. PICK m \in Nat : m = Len(b)
    BY <1>3
  <2>3. PICK u : u = c * (m + 1)
    OBVIOUS
  <2>4. u \in Nat /\ (c + 1) * (m + 1) = u + (m + 1)
    BY ONLY <2>3
  <2>5. n <= u + p
    BY <1>2, <2>1, <2>2, <2>3 DEF Progress
  <2>6. p + 1 <= m
    BY <1>2, <1>3, <2>2
  <2>7. n + 1 <= (u + (m + 1)) + q
    BY ONLY <1>3, <2>4, <2>5, <2>6
  <2> QED BY <1>9, <2>1, <2>2, <2>4, <2>7
<1>13. Len(x.labels) < MaxLabels => Whole(b, off, n + 1, x)
  <2> SUFFICES ASSUME Len(r.labels) < MaxLabels PROVE Whole(b, off, n + 1, x)
    BY <1>9
  <2>1. Whole(b, off, n, r)
    BY DEF Progress
  <2>2. PointerLeads(b, r.cur, e, x.cur)
    BY <1>2, <1>9, <1>11
  <2> QED BY <1>3, <1>6, <1>9, <2>1, <2>2, WholePointer
<1>14. Hopeful(b, off, n + 1, q)
  <2>1. Hopeful(b, off, n, p)
    BY <1>2 DEF Progress
  <2> QED BY <1>11, <2>1, HopefulStep
<1>15. \A s \in h : Passes(b, s, q)
  <2> TAKE s \in h
  <2>1. CASE s = q
    <3>1. \A m \in Nat : m \in 0 .. m
      OBVIOUS
    <3> QED BY <2>1, <3>1, StepsType DEF Passes
  <2>2. CASE s \in r.seen
    <3>1. Passes(b, s, p)
      BY <1>2, <2>2 DEF Progress
    <3> QED BY <1>3, <1>11, <3>1, PassesStep
  <2> QED BY <1>6, <2>1, <2>2
<1>16. h \subseteq 0 .. Len(b) - 1
  BY <1>6, <1>10 DEF Progress
<1>17. Progress(b, off, n + 1, x)
  BY <1>9, <1>10, <1>12, <1>13, <1>14, <1>15, <1>16 DEF Progress
<1> QED BY <1>1, <1>17

\* At the root the name is read.
LEMMA ProgressEnds ==
  ASSUME NEW b \in Message, NEW off, NEW n \in Nat, NEW r, Progress(b, off, n, r),
         r.cur < Len(b), b[r.cur + 1] = 0, Len(r.labels) < MaxLabels
  PROVE  NamesAt(b, Steps(b), off) =
           {[labels |-> r.labels, end |-> IF r.jumped THEN r.next ELSE r.cur + 1]}
<1>1. PICK t \in Nat : t = Steps(b) /\ n + 1 <= t
  BY StepsType, ProgressBound
<1>2. PICK k \in Nat : k = t - n
  <2>1. t - n \in Nat
    BY <1>1
  <2> QED BY <2>1
<1>3. k \in 1 .. Steps(b) /\ n + k = Steps(b)
  BY <1>1, <1>2
<1>4. r \in Readers(b) /\ r.cur \in Nat /\ ~(r.cur >= Len(b))
  BY StepsType DEF Progress, Readers
<1>5. PICK w : w = [labels |-> <<>>, end |-> r.cur + 1]
  OBVIOUS
<1>6. NamesAt(b, k, r.cur) = {w}
  BY <1>3, <1>4, <1>5, NamesStep
<1>7. NamesAt(b, n + k, off) = {Put(r, v) : v \in {w}}
  <2>1. Whole(b, off, n, r) /\ n + k <= Steps(b)
    BY <1>1, <1>3 DEF Progress
  <2> QED BY <1>6, <2>1 DEF Whole
<1>8. Put(r, w) = [labels |-> r.labels, end |-> IF r.jumped THEN r.next ELSE r.cur + 1]
  <2>1. r.labels \o <<>> = r.labels
    BY <1>4, ConcatEmptySeq DEF Readers
  <2> QED BY <1>5, <2>1 DEF Put
<1> QED BY <1>3, <1>7, <1>8

\* What decode_name refuses is no name.
LEMMA ProgressFails ==
  ASSUME NEW b \in Message, NEW off, NEW n \in Nat, NEW r, Progress(b, off, n, r),
         ~(/\ r.cur < Len(b)
           /\ b[r.cur + 1] \div Low \in {0, 3}
           /\ b[r.cur + 1] \div Low = 3 => r.cur + 1 < Len(b) /\ PointerOK(r, Target(b, r.cur))
           /\ b[r.cur + 1] \div Low = 0 => r.cur + b[r.cur + 1] < Len(b))
  PROVE  NamesAt(b, Steps(b), off) = {}
<1>1. PICK t \in Nat : t = Steps(b) /\ n + 1 <= t
  BY StepsType, ProgressBound
<1>2. PICK k \in Nat : k = t - n
  <2>1. t - n \in Nat
    BY <1>1
  <2> QED BY <2>1
<1>3. k \in 1 .. Steps(b) /\ n + k = Steps(b) /\ k \in 0 .. Steps(b)
  BY <1>1, <1>2
<1>4. PICK p, v, q : p = r.cur /\ v = b[p + 1] /\ q = Target(b, p)
  OBVIOUS
<1>5. p \in Nat /\ Len(b) \in Nat
  BY <1>4, StepsType DEF Progress, Readers
<1>6. 0 \div Low = 0
  <2>1. PICK z \in Nat \ {0} : z = Low
    BY NameWireAssumption
  <2>2. 0 \div z = 0
    OBVIOUS
  <2> QED BY <2>1, <2>2
<1>7. NamesAt(b, k, p) = {}
  <2>1. CASE p >= Len(b)
    BY <1>3, <1>5, <2>1, NamesStep
  <2>2. CASE ~(p >= Len(b)) /\ v \div Low = 0
    <3>1. p < Len(b) /\ v \in Nat
      BY <1>4, <1>5, <2>2, OctetType
    <3>2. ~(p + v < Len(b)) /\ v # 0
      BY <1>4, <1>5, <2>2, <3>1
    <3>3. p + 1 + v \in Nat /\ p + 1 + v >= Len(b)
      BY <1>5, <3>1, <3>2
    <3>4. NamesAt(b, k - 1, p + 1 + v) = {}
      <4>1. CASE k = 1
        BY <3>3, <4>1, NoStepNoName
      <4>2. CASE k # 1
        <5>1. k - 1 \in 1 .. Steps(b)
          BY <1>1, <1>3, <4>2
        <5> QED BY <3>3, <5>1, NamesStep
      <4> QED BY <4>1, <4>2
    <3>5. LabelLeads(b, p, PieceAt(b, p), p + 1 + v)
      BY <1>4, <1>5, <2>2, <3>1, <3>2, AtLabel
    <3>6. Leads(b, p, p + 1 + v)
      BY <3>5, LeadsOn
    <3> QED BY <1>3, <3>4, <3>6 DEF Leads
  <2>3. CASE ~(p >= Len(b)) /\ v \div Low = 3 /\ p + 1 < Len(b) /\ q < p
    <3>1. q \in r.seen
      <4>1. p < Len(b)
        BY <1>5, <2>3
      <4> QED BY <1>4, <2>3, <4>1 DEF PointerOK
    <3>2. Passes(b, q, p) /\ q \in Nat
      BY <1>4, <3>1 DEF Progress, Readers
    <3>3. PointerLeads(b, p, p + 2, q)
      BY <1>4, <1>5, <2>3, AtPointer
    <3>4. Leads(b, p, q)
      BY <3>3, LeadsOn
    <3> QED BY <1>3, <1>5, <3>2, <3>4, NoNameInCircle
  <2>4. CASE ~(p >= Len(b)) /\ v \div Low # 0
             /\ ~(v \div Low = 3 /\ p + 1 < Len(b) /\ q < p)
    <3>1. v # 0
      BY <1>6, <2>4
    <3> QED BY <1>3, <1>4, <1>5, <2>4, <3>1, NamesStep
  <2> QED BY <2>1, <2>2, <2>3, <2>4
<1>8. Hopeful(b, off, n, p)
  BY <1>4 DEF Progress
<1> QED BY <1>1, <1>3, <1>7, <1>8 DEF Hopeful

-----------------------------------------------------------------------------
(* Messages that are sent. *)

\* A name keeps its length whatever case it is written in.
LEMMA SpellingText ==
  ASSUME NEW t \in Texts, NEW s \in Spellings(t)
  PROVE  /\ s \in Texts /\ Len(s) = Len(t)
         /\ \A i \in 1 .. Len(t) :
              \/ s[i] = t[i]
              \/ s[i] \in DOMAIN LowerOf /\ LowerOf[s[i]] = t[i]
<1> DEFINE Up(c) == IF \E u \in DOMAIN LowerOf : LowerOf[u] = c
                      THEN CHOOSE u \in DOMAIN LowerOf : LowerOf[u] = c ELSE c
<1>1. PICK up \in SUBSET DOMAIN t :
        s = [i \in DOMAIN t |-> IF i \in up THEN Up(t[i]) ELSE t[i]]
  BY DEF Spellings
<1>2. ASSUME NEW c
      PROVE  Up(c) = c \/ (Up(c) \in DOMAIN LowerOf /\ LowerOf[Up(c)] = c)
  <2>1. CASE \E u \in DOMAIN LowerOf : LowerOf[u] = c
    <3>1. Up(c) = CHOOSE u \in DOMAIN LowerOf : LowerOf[u] = c
      BY <2>1
    <3> HIDE DEF Up
    <3> QED BY <2>1, <3>1
  <2> QED BY <2>1
<1> HIDE DEF Up
<1>3. DOMAIN t = 1 .. Len(t) /\ Len(t) \in Nat /\ \A i \in 1 .. Len(t) : t[i] \in Chars
  BY ElementOfSeq DEF Texts
<1>4. \A i \in 1 .. Len(t) : \/ s[i] = t[i]
                             \/ s[i] \in DOMAIN LowerOf /\ LowerOf[s[i]] = t[i]
  BY <1>1, <1>2, <1>3
<1>5. DOMAIN LowerOf \subseteq Chars
  BY DEF Chars
<1>6. s \in [1 .. Len(t) -> Chars]
  BY <1>1, <1>3, <1>4, <1>5
<1>7. s \in Texts
  BY <1>3, <1>6, SeqDef DEF Texts
<1>8. 1 .. Len(s) = 1 .. Len(t) /\ Len(s) \in Nat
  BY <1>6, <1>7, LenProperties DEF Texts
<1> QED BY <1>3, <1>4, <1>7, <1>8

\* An encoded label is made of octets.
LEMMA EncodedLabelType ==
  ASSUME NEW l \in Texts, Encodable(l)
  PROVE  /\ EncodeLabel(l) \in Message /\ Len(EncodeLabel(l)) = Len(l) + 1
         /\ EncodeLabel(l)[1] = Len(l)
         /\ \A i \in 1 .. Len(l) : /\ EncodeLabel(l)[i + 1] \in 0 .. 2 * Low - 1
                                   /\ Ascii[EncodeLabel(l)[i + 1] + 1] = l[i]
<1>1. Low \in Nat \ {0} /\ DOMAIN Ascii = 1 .. 2 * Low
  BY NameWireAssumption
<1>2. Len(l) \in Nat /\ DOMAIN l = 1 .. Len(l) /\ Len(l) < Low
  BY DEF Texts, Encodable
<1>3. PICK x : x = [i \in DOMAIN l |-> Octet(l[i])]
  OBVIOUS
<1>4. \A i \in 1 .. Len(l) : x[i] \in 0 .. 2 * Low - 1 /\ Ascii[x[i] + 1] = l[i]
  <2> TAKE i \in 1 .. Len(l)
  <2>1. l[i] \in Range(Ascii)
    BY <1>2 DEF Encodable, Range
  <2>2. \E k \in DOMAIN Ascii : Ascii[k] = l[i]
    BY <2>1 DEF Range
  <2>3. PICK k \in DOMAIN Ascii : k = (CHOOSE j \in DOMAIN Ascii : Ascii[j] = l[i]) /\ Ascii[k] = l[i]
    BY <2>2
  <2>4. x[i] = k - 1
    BY <1>2, <1>3, <2>3 DEF Octet
  <2>5. k \in Nat /\ 1 <= k /\ k <= 2 * Low /\ (k - 1) + 1 = k
    BY <1>1, <2>3
  <2> QED BY <1>1, <2>3, <2>4, <2>5
<1>5. PICK h : h = <<Len(l)>>
  OBVIOUS
<1> DEFINE Bytes == 0 .. 4 * Low - 1
<1>6. h \in Seq(Bytes) /\ Len(h) = 1 /\ h[1] = Len(l)
  <2>1. Len(l) \in Bytes
    BY <1>1, <1>2
  <2> HIDE DEF Bytes
  <2> QED BY <1>5, <2>1
<1>7. x \in [1 .. Len(l) -> Bytes]
  <2>1. \A i \in 1 .. Len(l) : x[i] \in Bytes
    BY <1>1, <1>4
  <2> HIDE DEF Bytes
  <2> QED BY <1>2, <1>3, <2>1
<1> HIDE DEF Bytes
<1>8. x \in Seq(Bytes) /\ Len(x) = Len(l)
  <2>1. x \in Seq(Bytes)
    BY <1>2, <1>7, SeqDef
  <2>2. 1 .. Len(x) = 1 .. Len(l) /\ Len(x) \in Nat
    BY <1>7, <2>1, LenProperties
  <2> QED BY <1>2, <2>1, <2>2
<1>9. PICK e : e = h \o x
  OBVIOUS
<1>10. e \in Seq(Bytes) /\ Len(e) = Len(h) + Len(x)
       /\ \A i \in 1 .. Len(h) + Len(x) : e[i] = IF i <= Len(h) THEN h[i] ELSE x[i - Len(h)]
  BY <1>6, <1>8, <1>9, ConcatProperties
<1>11. e[1] = Len(l) /\ Len(e) = Len(l) + 1 /\ \A i \in 1 .. Len(l) : e[i + 1] = x[i]
  <2>1. \A i \in 1 .. Len(l) : /\ i + 1 \in 1 .. 1 + Len(l) /\ ~(i + 1 <= 1)
                               /\ (i + 1) - 1 = i
    BY <1>2
  <2>2. 1 \in 1 .. 1 + Len(l)
    BY <1>2
  <2> QED BY <1>2, <1>6, <1>8, <1>10, <2>1, <2>2
<1>12. e = EncodeLabel(l)
  BY <1>3, <1>5, <1>9 DEF EncodeLabel
<1>13. e \in Message
  BY <1>10 DEF Message, Bytes
<1> QED BY <1>4, <1>11, <1>12, <1>13

LEMMA EncodedNameType ==
  ASSUME NEW t \in Texts, NEW b \in EncodeName(t)
  PROVE  b \in Message
<1> DEFINE ls == NameLabels(t)
           es == [k \in DOMAIN ls |-> EncodeLabel(ls[k])]
           Bytes == 0 .. 4 * Low - 1
<1>1. ls \in Seq(Texts) /\ Len(ls) \in Nat /\ DOMAIN ls = 1 .. Len(ls)
  BY NameLabelsType
<1>2. (\A k \in DOMAIN ls : Encodable(ls[k])) /\ b = FlattenSeq(es) \o <<0>>
  BY DEF EncodeName
<1>3. es \in Seq(Message)
  <2>1. \A k \in 1 .. Len(ls) : EncodeLabel(ls[k]) \in Message
    <3> TAKE k \in 1 .. Len(ls)
    <3>1. ls[k] \in Texts
      BY <1>1, ElementOfSeq
    <3> QED BY <1>1, <1>2, <3>1, EncodedLabelType
  <2> HIDE DEF ls
  <2>2. es \in [1 .. Len(ls) -> Message]
    BY <1>1, <2>1
  <2> HIDE DEF es
  <2> QED BY <1>1, <2>2, SeqDef
<1> HIDE DEF es, Bytes
<1>4. FlattenSeq(es) \in Seq(Bytes)
  BY <1>3, FlattenType DEF Message, Bytes
<1>5. <<0>> \in Seq(Bytes)
  <2>1. 0 \in Bytes
    BY NameWireAssumption DEF Bytes
  <2> QED BY <2>1
<1> QED BY <1>2, <1>4, <1>5, ConcatProperties DEF Message, Bytes

\* A message with a pointer to its first octet added.
LEMMA PointerAdded ==
  ASSUME NEW b \in Message
  PROVE  /\ b \o <<3 * Low, 0>> \in Message /\ Len(b \o <<3 * Low, 0>>) = Len(b) + 2
         /\ \A i \in 1 .. Len(b) : (b \o <<3 * Low, 0>>)[i] = b[i]
         /\ (b \o <<3 * Low, 0>>)[Len(b) + 1] = 3 * Low
         /\ (b \o <<3 * Low, 0>>)[Len(b) + 2] = 0
<1> DEFINE Bytes == 0 .. 4 * Low - 1
<1>1. 0 \in Bytes /\ 3 * Low \in Bytes
  BY NameWireAssumption
<1>2. PICK z : z = <<3 * Low, 0>>
  OBVIOUS
<1> HIDE DEF Bytes
<1>3. z \in Seq(Bytes) /\ Len(z) = 2 /\ z[1] = 3 * Low /\ z[2] = 0
  BY <1>1, <1>2
<1>4. b \in Seq(Bytes) /\ Len(b) \in Nat
  BY DEF Message, Bytes
<1>5. PICK c : c = b \o z
  OBVIOUS
<1>6. c \in Seq(Bytes) /\ Len(c) = Len(b) + Len(z)
      /\ \A i \in 1 .. Len(b) + Len(z) : c[i] = IF i <= Len(b) THEN b[i] ELSE z[i - Len(b)]
  BY <1>3, <1>4, <1>5, ConcatProperties
<1>7. PICK n \in Nat : n = Len(b)
  BY <1>4
<1>8. /\ \A i \in 1 .. n : i \in 1 .. n + 2 /\ i <= n
      /\ n + 1 \in 1 .. n + 2 /\ ~(n + 1 <= n) /\ (n + 1) - n = 1
      /\ n + 2 \in 1 .. n + 2 /\ ~(n + 2 <= n) /\ (n + 2) - n = 2
  BY ONLY TRUE
<1>9. /\ \A i \in 1 .. n : c[i] = b[i]
      /\ c[n + 1] = z[1] /\ c[n + 2] = z[2] /\ Len(c) = n + 2
  BY <1>3, <1>6, <1>7, <1>8
<1> QED BY <1>2, <1>3, <1>5, <1>6, <1>7, <1>9 DEF Message, Bytes

\* What an open decoder knows of the name it reads.
DInv ==
  /\ buf \in Message /\ field.off \in 0 .. Len(buf)
  /\ field = [off |-> field.off, asked |-> field.asked, zone |-> field.zone]
  /\ status = "reading" => \E n \in Nat : Progress(buf, field.off, n, reader)
  /\ status \in {"read", "answered"} /\ Len(reader.labels) < MaxLabels =>
       NamesAt(buf, Steps(buf), field.off) = {[labels |-> reader.labels, end |-> reader.next]}
  /\ status = "formerr" => NamesAt(buf, Steps(buf), field.off) = {}

LEMMA DInvInit == NInit => DInv
<1> SUFFICES ASSUME NInit PROVE DInv
  OBVIOUS
<1>1. /\ buf = <<>> /\ field.off = 0 /\ status = "idle"
      /\ field = [off |-> field.off, asked |-> field.asked, zone |-> field.zone]
  BY DEF NInit, NoField
<1>2. buf \in Message /\ Len(buf) = 0
  BY <1>1 DEF Message
<1> QED BY <1>1, <1>2 DEF DInv

LEMMA DInvReceive ==
  ASSUME NEW b \in Message, NEW o \in 0 .. Len(b), NEW asked, Receive(b, o, asked)
  PROVE  DInv'
<1>1. /\ buf' = b /\ field'.off = o /\ reader' = StartAt(o) /\ status' = "reading"
      /\ field' = [off |-> field'.off, asked |-> field'.asked, zone |-> field'.zone]
  BY DEF Receive
<1>2. Progress(b, o, 0, StartAt(o))
  BY ProgressAtFirst
<1>3. buf' \in Message /\ field'.off \in 0 .. Len(buf')
  BY <1>1
<1>4. \E n \in Nat : Progress(buf', field'.off, n, reader')
  BY <1>1, <1>2
<1> QED BY <1>1, <1>3, <1>4 DEF DInv

\* Nothing is lost or gained by a turn of the loop of decode_name.
LEMMA DInvRead ==
  ASSUME DInv, Read
  PROVE  DInv'
<1>1. PICK b, off, r, x : b = buf /\ off = field.off /\ r = reader /\ x = reader'
  OBVIOUS
<1>2. /\ buf' = b /\ field' = field /\ field'.off = off /\ status = "reading"
      /\ field' = [off |-> field'.off, asked |-> field'.asked, zone |-> field'.zone]
  BY <1>1 DEF DInv, Read, ReadEnd, ReadPointer, ReadLabel, ReadFails, Reading, readVars
<1>3. b \in Message /\ off \in 0 .. Len(b) /\ \E n \in Nat : Progress(b, off, n, r)
  BY <1>1, <1>2 DEF DInv
<1>4. PICK n \in Nat : Progress(b, off, n, r)
  BY <1>3
<1>5. PICK p : p = r.cur
  OBVIOUS
<1>6. p \in Nat /\ Len(b) \in Nat
  BY <1>3, <1>4, <1>5, StepsType DEF Progress, Readers
<1>7. PICK v, q : v = b[p + 1] /\ q = Target(b, p)
  OBVIOUS
<1>8. /\ Inside(reader.cur) <=> p < Len(b)
      /\ Inside(reader.cur + 1) <=> p + 1 < Len(b)
      /\ Here = v /\ PointerAt(reader.cur) = q
      /\ LabelAt(reader.cur) = SubSeq(b, p + 2, p + 1 + v)
  <2>1. (p + 1) + 1 = p + 2
    BY <1>6
  <2> QED BY <1>1, <1>5, <1>7, <2>1 DEF Inside, Here, At, PointerAt, LabelAt, Target
<1>9. WellFormed <=> /\ p < Len(b)
                     /\ v \div Low \in {0, 3}
                     /\ v \div Low = 3 => p + 1 < Len(b) /\ PointerOK(r, q)
                     /\ v \div Low = 0 => p + v < Len(b)
  BY <1>1, <1>5, <1>8 DEF WellFormed
<1>10. ASSUME NEW m \in Nat, Progress(b, off, m, x), status' = "reading" PROVE DInv'
  BY <1>1, <1>2, <1>3, <1>10 DEF DInv
<1>11. CASE ReadEnd
  <2>1. WellFormed /\ v = 0 /\ status' = "read"
    BY <1>8, <1>11 DEF ReadEnd
  <2>2. x = [r EXCEPT !.cur = @ + 1, !.next = IF r.jumped THEN @ ELSE p + 1]
    BY <1>1, <1>5, <1>11 DEF ReadEnd
  <2>3. x.labels = r.labels /\ x.next = IF r.jumped THEN r.next ELSE p + 1
    <3>1. r \in Readers(b)
      BY <1>4 DEF Progress
    <3> QED BY <2>2, <3>1 DEF Readers
  <2>4. Len(r.labels) < MaxLabels =>
          NamesAt(b, Steps(b), off) = {[labels |-> x.labels, end |-> x.next]}
    <3> SUFFICES ASSUME Len(r.labels) < MaxLabels
                 PROVE  NamesAt(b, Steps(b), off) = {[labels |-> x.labels, end |-> x.next]}
      OBVIOUS
    <3>1. r.cur < Len(b) /\ b[r.cur + 1] = 0
      BY <1>5, <1>7, <1>9, <2>1
    <3>2. NamesAt(b, Steps(b), off) =
            {[labels |-> r.labels, end |-> IF r.jumped THEN r.next ELSE r.cur + 1]}
      BY <1>3, <1>4, <3>1, ProgressEnds
    <3> QED BY <1>5, <2>3, <3>2
  <2> QED BY <1>1, <1>2, <1>3, <2>1, <2>3, <2>4 DEF DInv
<1>12. CASE ReadPointer
  <2>1. WellFormed /\ v \div Low = 3 /\ status' = "reading" /\ x = Jump(r, q)
    BY <1>1, <1>2, <1>8, <1>12 DEF ReadPointer
  <2>2. Progress(b, off, n + 1, x)
    BY <1>3, <1>4, <1>5, <1>7, <1>9, <2>1, ProgressPointer
  <2>3. n + 1 \in Nat
    OBVIOUS
  <2> QED BY <1>10, <2>1, <2>2, <2>3
<1>13. CASE ReadLabel
  <2>1. WellFormed /\ v \div Low = 0 /\ v # 0
    BY <1>8, <1>13 DEF ReadLabel
  <2>2. CASE status' = "crashed"
    BY <1>1, <1>2, <1>3, <2>2 DEF DInv
  <2>3. CASE status' # "crashed"
    <3>1. status' = "reading"
          /\ x = [r EXCEPT !.cur = @ + 1 + v,
                           !.labels = IF Len(@) < MaxLabels
                                      THEN Append(@, Decoded(SubSeq(b, p + 2, p + 1 + v))) ELSE @]
      BY <1>1, <1>2, <1>8, <1>13, <2>3 DEF ReadLabel
    <3>2. x = AfterLabel(b, r)
      BY <1>5, <1>7, <3>1 DEF AfterLabel, PieceAt
    <3>3. Progress(b, off, n + 1, x)
      BY <1>3, <1>4, <1>5, <1>7, <1>9, <2>1, <3>2, ProgressLabel
    <3>4. n + 1 \in Nat
      OBVIOUS
    <3> QED BY <1>10, <3>1, <3>3, <3>4
  <2> QED BY <2>2, <2>3
<1>14. CASE ReadFails
  <2>1. ~WellFormed /\ status' = "formerr"
    BY <1>14 DEF ReadFails
  <2>2. NamesAt(b, Steps(b), off) = {}
    BY <1>3, <1>4, <1>5, <1>7, <1>9, <2>1, ProgressFails
  <2> QED BY <1>1, <1>2, <1>3, <2>1, <2>2 DEF DInv
<1> QED BY <1>11, <1>12, <1>13, <1>14 DEF Read

LEMMA DInvStep ==
  ASSUME NInv, DInv, [NNext]_nvars
  PROVE  DInv'
<1>1. CASE CreateZone \/ StoreRecord \/ UNCHANGED nvars
  <2>1. UNCHANGED <<buf, field, reader, status>>
    BY <1>1 DEF CreateZone, StoreRecord, readVars, nvars
  <2> QED BY <2>1 DEF DInv
<1>2. CASE Ask
  <2>0. PICK d \in stored : \E s \in Spellings(d.name) : \E c \in EncodeName(s) :
          \/ Receive(c, 0, d.name)
          \/ Receive(c \o <<3 * Low, 0>>, Len(c), d.name)
    BY <1>2 DEF Ask
  <2>1. PICK s \in Spellings(d.name) : \E c \in EncodeName(s) :
          \/ Receive(c, 0, d.name)
          \/ Receive(c \o <<3 * Low, 0>>, Len(c), d.name)
    BY <2>0
  <2>2. PICK c \in EncodeName(s) :
          \/ Receive(c, 0, d.name)
          \/ Receive(c \o <<3 * Low, 0>>, Len(c), d.name)
    BY <2>1
  <2>3. d.name \in Texts
    BY DEF NInv, Legal, Clean
  <2>4. c \in Message
    BY <2>3, SpellingText, EncodedNameType
  <2>5. PICK e : e = c \o <<3 * Low, 0>>
    OBVIOUS
  <2>6. e \in Message /\ Len(e) = Len(c) + 2
    BY <2>4, <2>5, PointerAdded
  <2>7. 0 \in 0 .. Len(c) /\ Len(c) \in 0 .. Len(e)
    BY <2>4, <2>6, StepsType
  <2> QED BY <2>2, <2>4, <2>5, <2>6, <2>7, DInvReceive
<1>3. CASE Garble
  <2>0. PICK b \in BoundedSeq(Octets, MaxMessage) : \E o \in 0 .. Len(b) : Receive(b, o, <<>>)
    BY <1>3 DEF Garble
  <2>1. PICK o \in 0 .. Len(b) : Receive(b, o, <<>>)
    BY <2>0
  <2>2. PICK m \in 0 .. MaxMessage : b \in [1 .. m -> Octets]
    BY DEF BoundedSeq, SeqOf
  <2>3. b \in [1 .. m -> 0 .. 4 * Low - 1] /\ m \in Nat
    <3>1. m \in Nat
      BY NameWireAssumption
    <3>2. PICK Bytes : Bytes = 0 .. 4 * Low - 1
      OBVIOUS
    <3>3. Octets \subseteq Bytes
      BY <3>2, NameWireAssumption
    <3>4. b \in [1 .. m -> Bytes]
      BY <2>2, <3>3
    <3> QED BY <3>1, <3>2, <3>4
  <2>4. b \in Message
    BY <2>3, SeqDef DEF Message
  <2> QED BY <2>1, <2>4, DInvReceive
<1>4. CASE Read
  BY <1>4, DInvRead
<1>5. CASE Answer
  <2>1. /\ buf' = buf /\ reader' = reader /\ status = "read" /\ status' = "answered"
        /\ field' = [field EXCEPT !.zone = FindZone(Zones, NameRead)]
    BY <1>5 DEF Answer
  <2>2. /\ field'.off = field.off
        /\ field' = [off |-> field'.off, asked |-> field'.asked, zone |-> field'.zone]
    <3>1. PICK y : y = FindZone(Zones, NameRead)
      OBVIOUS
    <3> QED BY <2>1, <3>1 DEF DInv
  <2> QED BY <2>1, <2>2 DEF DInv
<1>6. CASE Finish
  <2>1. /\ buf' = <<>> /\ field'.off = 0 /\ status' = "idle"
        /\ field' = [off |-> field'.off, asked |-> field'.asked, zone |-> field'.zone]
    BY <1>6 DEF Finish, NoField
  <2>2. <<>> \in Message /\ Len(<<>>) = 0
    BY DEF Message
  <2> QED BY <2>1, <2>2 DEF DInv
<1> QED BY <1>1, <1>2, <1>3, <1>4, <1>5, <1>6 DEF NNext

(***************************************************************************)
(* What decode_name has read and what is left of the message make the name *)
(* written at the offset, at every turn of its loop.                       *)
(***************************************************************************)
THEOREM DecoderInvariant == NSpec => []DInv
<1>1. NInv /\ DInv /\ [NNext]_nvars => DInv'
  BY DInvStep
<1> QED BY <1>1, DInvInit, StoredNamesInvariant, PTL DEF NSpec

(***************************************************************************)
(* decode_name returns exactly the name written in the message, and raises *)
(* a WireError only if none is, for messages of any length.                *)
(***************************************************************************)
THEOREM DecodingInvariant == NSpec => []DecodedAsWritten
<1>1. DInv => DecodedAsWritten
  BY DEF DInv, DecodedAsWritten, NamesAt
<1> QED BY <1>1, DecoderInvariant, PTL

-----------------------------------------------------------------------------
(* A name asked for, in its own spelling and on the wire. *)

LEMMA CutsGrow ==
  ASSUME NEW t \in Texts, NEW k \in 0 .. Cardinality(Dots(t))
  PROVE  /\ Cut(t, k) < Cut(t, k + 1)
         /\ Cut(t, 0) = 0 /\ Cut(t, Cardinality(Dots(t)) + 1) = Len(t) + 1
         /\ k > 0 => t[Cut(t, k)] = "." /\ Cut(t, k) \in 1 .. Len(t)
<1>1. PICK D, m, n : D = Dots(t) /\ m = Cardinality(D) /\ n = Len(t)
  OBVIOUS
<1>2. /\ IsFiniteSet(D) /\ m \in Nat /\ D \subseteq Int /\ D \subseteq 1 .. n /\ n \in Nat
      /\ \A d \in D : t[d] = "."
  BY <1>1, DotsFinite DEF Dots
<1>3. k \in 0 .. m /\ k \in Nat
  BY <1>1
<1>4. Cut(t, 0) = 0 /\ Cut(t, m + 1) = n + 1
  BY <1>1, <1>2 DEF Cut
<1>5. ASSUME NEW j \in 1 .. m
      PROVE  Cut(t, j) = Nth(D, j) /\ Nth(D, j) \in D /\ Count(D, Nth(D, j)) = j
  <2>1. j # 0 /\ j # m + 1
    BY <1>2
  <2> QED BY <1>1, <1>2, <2>1, NthIsThere DEF Cut
<1>6. k > 0 => k \in 1 .. m
  BY <1>3
<1>7. k > 0 => t[Cut(t, k)] = "." /\ Cut(t, k) \in 1 .. n
  BY <1>2, <1>5, <1>6
<1>8. Cut(t, k) < Cut(t, k + 1)
  <2>1. CASE k = m
    <3>1. Cut(t, k + 1) = n + 1
      BY <1>4, <2>1
    <3>2. CASE k = 0
      BY <1>2, <1>4, <3>1, <3>2
    <3>3. CASE k # 0
      <4>1. Cut(t, k) \in 1 .. n
        BY <1>3, <1>7, <3>3
      <4> QED BY <1>2, <3>1, <4>1
    <3> QED BY <3>2, <3>3
  <2>2. CASE k # m
    <3>1. k + 1 \in 1 .. m
      BY <1>2, <1>3, <2>2
    <3>2. PICK v : v = Nth(D, k + 1)
      OBVIOUS
    <3>3. v \in D /\ Count(D, v) = k + 1 /\ Cut(t, k + 1) = v
      BY <1>5, <3>1, <3>2
    <3>4. CASE k = 0
      <4>1. v \in 1 .. n
        BY <1>2, <3>3
      <4> QED BY <1>2, <1>4, <3>3, <3>4, <4>1
    <3>5. CASE k # 0
      <4>1. k \in 1 .. m
        BY <1>3, <3>5
      <4>2. PICK u : u = Nth(D, k)
        OBVIOUS
      <4>3. u \in D /\ Count(D, u) = k /\ Cut(t, k) = u
        BY <1>5, <4>1, <4>2
      <4>4. u \in Int /\ v \in Int
        BY <1>2, <3>3, <4>3
      <4>5. u # v
        BY <1>3, <3>3, <4>3
      <4>6. v < u => Count(D, v) < Count(D, u)
        BY <1>2, <3>3, <4>3, <4>4, CountGrows
      <4>7. ~(v < u)
        BY <1>3, <3>3, <4>3, <4>6
      <4> QED BY <3>3, <4>3, <4>4, <4>5, <4>7
    <3> QED BY <3>4, <3>5
  <2> QED BY <2>1, <2>2
<1> QED BY <1>1, <1>4, <1>7, <1>8

\* The ends of the labels of a name.
Stops(n) == [k \in 0 .. Len(NameLabels(n)) |-> Cut(Front(n), k)]

\* Label by label, f ends where n does.
Marks(n, ls, f) ==
  /\ f \in [0 .. Len(ls) -> 0 .. Len(n)]
  /\ f[0] = 0 /\ f[Len(ls)] = Len(n)
  /\ \A k \in 1 .. Len(ls) :
       /\ f[k - 1] < f[k] /\ n[f[k]] = "."
       /\ Len(ls[k]) = f[k] - f[k - 1] - 1
       /\ \A i \in 1 .. Len(ls[k]) : ls[k][i] = n[f[k - 1] + i]

LEMMA NameMarks ==
  ASSUME NEW n \in Texts, n # <<>>, n[Len(n)] = ".", n # Root
  PROVE  /\ Marks(n, NameLabels(n), Stops(n))
         /\ NameLabels(n) \in Seq(Texts) /\ Len(NameLabels(n)) \in Nat \ {0}
<1>1. PICK q, ls, m, f : q = Front(n) /\ ls = NameLabels(n) /\ m = Cardinality(Dots(q)) /\ f = Stops(n)
  OBVIOUS
<1>2. q \in Texts /\ Len(q) = Len(n) - 1 /\ \A i \in 1 .. Len(n) - 1 : q[i] = n[i]
  BY <1>1, FrontText
<1>3. m \in Nat /\ Len(n) \in Nat \ {0}
  BY <1>1, <1>2, DotsFinite, EmptySeq DEF Texts
<1>4. ls = Split(q) /\ ls \in Seq(Texts) /\ Len(ls) = m + 1
  BY <1>1, <1>2, LabelType DEF NameLabels
<1>5. f = [k \in 0 .. m + 1 |-> Cut(q, k)]
  BY <1>1, <1>4 DEF Stops
<1>6. f \in [0 .. m + 1 -> 0 .. Len(n)]
  <2>1. \A k \in 0 .. m + 1 : Cut(q, k) \in 0 .. Len(q) + 1
    BY <1>1, <1>2, CutType
  <2>2. 0 .. Len(q) + 1 = 0 .. Len(n)
    BY <1>2, <1>3
  <2> QED BY <1>5, <2>1, <2>2
<1>7. f[0] = 0 /\ f[m + 1] = Len(n)
  <2>1. 0 \in 0 .. m /\ 0 \in 0 .. m + 1 /\ m + 1 \in 0 .. m + 1
    BY <1>3
  <2>2. Cut(q, 0) = 0 /\ Cut(q, m + 1) = Len(q) + 1
    BY <1>1, <1>2, <2>1, CutsGrow
  <2> QED BY <1>2, <1>3, <1>5, <2>1, <2>2
<1>8. ASSUME NEW k \in 1 .. m + 1
      PROVE  /\ f[k - 1] < f[k] /\ n[f[k]] = "."
             /\ Len(ls[k]) = f[k] - f[k - 1] - 1
             /\ \A i \in 1 .. Len(ls[k]) : ls[k][i] = n[f[k - 1] + i]
  <2>1. k - 1 \in 0 .. m /\ (k - 1) + 1 = k /\ k \in 0 .. m + 1 /\ k - 1 \in 0 .. m + 1
    BY <1>3
  <2>2. PICK x, y : x = f[k - 1] /\ y = f[k]
    OBVIOUS
  <2>3. x = Cut(q, k - 1) /\ y = Cut(q, k)
    BY <1>5, <2>1, <2>2
  <2>4. x < y /\ x \in 0 .. Len(n) /\ y \in 0 .. Len(n)
    <3>1. Cut(q, k - 1) < Cut(q, (k - 1) + 1)
      BY <1>1, <1>2, <2>1, CutsGrow
    <3> QED BY <1>6, <2>1, <2>2, <2>3, <3>1
  <2>5. n[y] = "."
    <3>1. CASE k = m + 1
      BY <1>7, <2>2, <3>1
    <3>2. CASE k # m + 1
      <4>1. k \in 0 .. m /\ k > 0
        BY <1>3, <3>2
      <4>2. q[Cut(q, k)] = "." /\ Cut(q, k) \in 1 .. Len(q)
        BY <1>1, <1>2, <4>1, CutsGrow
      <4> QED BY <1>2, <2>3, <4>2
    <3> QED BY <3>1, <3>2
  <2>6. ls[k] = SubSeq(q, x + 1, y - 1)
    <3>1. Split(q) = [j \in 1 .. m + 1 |-> SubSeq(q, Cut(q, j - 1) + 1, Cut(q, j) - 1)]
      BY <1>1, <1>2, SplitShape
    <3> QED BY <1>4, <2>3, <3>1
  <2>7. PICK u, v : u = x + 1 /\ v = y - 1
    OBVIOUS
  <2>8. u \in Int /\ v \in Int /\ u <= v + 1 /\ \A i \in u .. v : i \in 1 .. Len(n) - 1 /\ i \in 1 .. Len(q)
    BY <1>2, <1>3, <2>4, <2>7
  <2>9. \A i \in u .. v : q[i] \in Chars
    BY <1>2, <2>8, ElementOfSeq DEF Texts
  <2>10. /\ Len(SubSeq(q, u, v)) = IF u <= v THEN v - u + 1 ELSE 0
         /\ \A i \in 1 .. v - u + 1 : SubSeq(q, u, v)[i] = q[u + i - 1]
    BY <2>8, <2>9, SubSeqProperties
  <2>11. Len(ls[k]) = y - x - 1
    <3>1. (IF u <= v THEN v - u + 1 ELSE 0) = y - x - 1
      BY <1>3, <2>4, <2>7, <2>8
    <3> QED BY <2>6, <2>7, <2>10, <3>1
  <2>12. ASSUME NEW i \in 1 .. Len(ls[k]) PROVE ls[k][i] = n[x + i]
    <3>1. i \in 1 .. v - u + 1 /\ u + i - 1 \in u .. v /\ u + i - 1 = x + i
      BY <1>3, <2>4, <2>7, <2>11
    <3>2. ls[k][i] = q[u + i - 1]
      BY <2>6, <2>7, <2>10, <3>1
    <3> QED BY <1>2, <2>8, <3>1, <3>2
  <2> QED BY <2>2, <2>4, <2>5, <2>11, <2>12
<1>9. Marks(n, ls, f)
  BY <1>4, <1>6, <1>7, <1>8 DEF Marks
<1> QED BY <1>1, <1>3, <1>4, <1>9

\* The first n steps of f each begin the last of them.
PartsFit(f, n) ==
  \A k \in 1 .. n : Len(f[k]) <= Len(f[n]) /\ \A i \in 1 .. Len(f[k]) : f[n][i] = f[k][i]

\* Every prefix of the parts is a prefix of the whole.
LEMMA FlattenParts ==
  ASSUME NEW S, NEW ls \in Seq(Seq(S)), Len(ls) # 0,
         NEW f \in [1 .. Len(ls) -> Seq(S)], Flat(f, ls)
  PROVE  PartsFit(f, Len(ls))
<1>1. PICK n : n = Len(ls)
  OBVIOUS
<1>2. n \in Nat \ {0} /\ \A k \in 1 .. n : ls[k] \in Seq(S) /\ f[k] \in Seq(S) /\ Len(f[k]) \in Nat
  <2>1. \A x \in Seq(S) : Len(x) \in Nat
    BY LenProperties
  <2>2. PICK X : X = Seq(S)
    OBVIOUS
  <2>3. ls \in Seq(X) /\ f \in [1 .. n -> X]
    BY <1>1, <2>2
  <2>4. n \in Nat \ {0}
    BY <1>1, <2>3
  <2>5. \A k \in 1 .. n : ls[k] \in X /\ f[k] \in X
    BY <1>1, <2>3, ElementOfSeq
  <2> QED BY <2>1, <2>2, <2>4, <2>5
<1> DEFINE Fits(k) == Len(f[k]) <= Len(f[n]) /\ \A i \in 1 .. Len(f[k]) : f[n][i] = f[k][i]
           Bad == {k \in 1 .. n : ~Fits(k)}
<1>3. n \in 1 .. n /\ Fits(n)
  BY <1>2
<1>4. ASSUME NEW k \in 1 .. n - 1, Fits(k + 1) PROVE Fits(k)
  <2>1. k + 1 \in 2 .. n /\ k \in 1 .. n /\ k + 1 \in 1 .. n /\ (k + 1) - 1 = k
    BY <1>2
  <2>2. f[k + 1] = f[k] \o ls[k + 1]
    BY <1>1, <2>1 DEF Flat
  <2>3. PICK x \in Seq(S), y \in Seq(S), z \in Seq(S), w \in Seq(S) :
          x = f[k] /\ y = ls[k + 1] /\ z = f[k + 1] /\ w = f[n]
    BY <1>2, <1>3, <2>1
  <2>4. Len(z) = Len(x) + Len(y) /\ \A i \in 1 .. Len(x) : z[i] = x[i]
    <3>1. z = x \o y
      BY <2>2, <2>3
    <3> QED BY <3>1, TwoParts
  <2>5. Len(z) <= Len(w) /\ \A i \in 1 .. Len(z) : w[i] = z[i]
    BY <1>4, <2>3
  <2>6. Len(x) \in Nat /\ Len(y) \in Nat /\ Len(w) \in Nat
    BY <2>3
  <2>7. Len(x) <= Len(w) /\ \A i \in 1 .. Len(x) : i \in 1 .. Len(z)
    BY <2>4, <2>5, <2>6
  <2> QED BY <2>3, <2>4, <2>5, <2>7
<1>5. Bad = {}
  <2> SUFFICES ASSUME Bad # {} PROVE FALSE
    OBVIOUS
  <2> HIDE DEF Fits
  <2>1. Bad \subseteq Nat /\ \A i \in Bad : i <= n
    BY <1>2
  <2>2. PICK k \in Bad : \A j \in Bad : j <= k
    <3> HIDE DEF Bad
    <3> QED BY <1>2, <2>1, HasGreatest
  <2>3. k \in 1 .. n /\ ~Fits(k) /\ k # n
    BY <1>3, <2>2
  <2>4. k \in 1 .. n - 1 /\ k + 1 \in 1 .. n /\ ~(k + 1 <= k)
    BY <1>2, <2>3
  <2>5. Fits(k + 1)
    BY <2>2, <2>4
  <2> QED BY <1>4, <2>3, <2>4, <2>5
<1> QED BY <1>1, <1>5 DEF PartsFit

\* A dot behind each label.
Dotted(ls) == [k \in DOMAIN ls |-> ls[k] \o Root]

\* What is put together from ps is n up to the mark.
Meet(n, f, ps, m) ==
  \A h \in [1 .. m -> Texts] :
    Flat(h, ps) => \A k \in 1 .. m : h[k] = SubSeq(n, 1, f[k])

\* A name is made of its labels and a dot behind each.
LEMMA MarksMeet ==
  ASSUME NEW n \in Texts, NEW ls \in Seq(Texts), NEW f, Marks(n, ls, f), Len(ls) # 0,
         NEW ps, ps = Dotted(ls)
  PROVE  ps \in Seq(Texts) /\ Len(ps) = Len(ls) /\ Meet(n, f, ps, Len(ls))
<1>1. PICK m : m = Len(ls)
  OBVIOUS
<1>2. m \in Nat \ {0} /\ DOMAIN ls = 1 .. m /\ Len(n) \in Nat
  BY <1>1 DEF Texts
<1>3. \A k \in 1 .. m : ls[k] \in Texts
  BY <1>1, ElementOfSeq
<1>4. \A k \in 1 .. m : ps[k] = ls[k] \o Root
  BY <1>1, <1>2 DEF Dotted
<1>5. \A k \in 1 .. m : ps[k] \in Texts
  <2> TAKE k \in 1 .. m
  <2>1. PICK l \in Texts : l = ls[k]
    BY <1>3
  <2>2. l \o Root \in Texts
    BY RootText, TextParts
  <2> QED BY <1>4, <2>1, <2>2
<1>6. ps \in [1 .. m -> Texts]
  BY <1>1, <1>2, <1>5 DEF Dotted
<1>7. ps \in Seq(Texts)
  BY <1>2, <1>6, SeqDef
<1>8. Len(ps) = m
  <2>1. 1 .. Len(ps) = 1 .. m /\ Len(ps) \in Nat
    BY <1>6, <1>7, LenProperties
  <2> QED BY <1>2, <2>1
<1>9. \A k \in 0 .. m : f[k] \in 0 .. Len(n) /\ f[k] \in Nat
  BY <1>1, <1>2 DEF Marks
<1>10. ASSUME NEW k \in 1 .. m, NEW a, NEW c, a = f[k - 1], c = f[k]
       PROVE  a < c /\ ps[k] = SubSeq(n, a + 1, c)
  <2>1. k \in 0 .. m /\ k - 1 \in 0 .. m
    BY <1>2
  <2>2. PICK x \in Nat, y \in Nat, l \in Texts : x = f[k - 1] /\ y = f[k] /\ l = ls[k]
    BY <1>3, <1>9, <2>1
  <2>3. /\ x < y /\ y <= Len(n) /\ n[y] = "."
        /\ Len(l) = y - x - 1 /\ \A i \in 1 .. Len(l) : l[i] = n[x + i]
    BY <1>1, <1>9, <2>1, <2>2 DEF Marks
  <2>4. PICK u, p : u = x + 1 /\ p = l \o Root
    OBVIOUS
  <2>5. /\ p \in Texts /\ Len(p) = Len(l) + 1
        /\ \A i \in 1 .. Len(l) : p[i] = l[i]
        /\ p[Len(l) + 1] = "."
    <3>1. /\ p \in Texts /\ Len(p) = Len(l) + Len(Root)
          /\ \A i \in 1 .. Len(l) : p[i] = l[i]
          /\ \A i \in 1 .. Len(Root) : p[Len(l) + i] = Root[i]
      BY <2>4, RootText, TextParts
    <3>2. 1 \in 1 .. 1
      OBVIOUS
    <3> QED BY <3>1, <3>2, RootText
  <2>6. Len(l) \in Nat /\ Len(l) + 1 = y - x /\ x + (Len(l) + 1) = y
    <3>1. PICK d \in Nat : d = Len(l)
      BY DEF Texts
    <3>2. d = y - x - 1
      BY <2>3, <3>1
    <3>3. d + 1 = y - x /\ x + (d + 1) = y
      BY ONLY <3>2
    <3> QED BY <3>1, <3>3
  <2>7. \A i \in u .. y : n[i] \in Chars
    <3>1. \A i \in u .. y : i \in 1 .. Len(n)
      BY <1>2, <2>3, <2>4
    <3> QED BY <3>1, ElementOfSeq DEF Texts
  <2>8. PICK q : q = SubSeq(n, u, y)
    OBVIOUS
  <2>13. u \in Int /\ y \in Int
    BY <2>4
  <2>9. /\ q \in Seq(Chars)
        /\ Len(q) = IF u <= y THEN y - u + 1 ELSE 0
        /\ \A i \in 1 .. y - u + 1 : q[i] = n[u + i - 1]
    BY <2>7, <2>8, <2>13, SubSeqProperties
  <2>10. Len(q) = y - x /\ \A i \in 1 .. y - x : q[i] = n[x + i]
    <3>1. u <= y /\ y - u + 1 = y - x /\ \A i \in 1 .. y - x : u + i - 1 = x + i
      BY <2>3, <2>4
    <3> QED BY <2>9, <3>1
  <2>11. \A i \in 1 .. y - x : p[i] = n[x + i]
    <3> TAKE i \in 1 .. y - x
    <3>1. CASE i \in 1 .. Len(l)
      BY <2>3, <2>5, <3>1
    <3>2. CASE i = Len(l) + 1
      BY <2>3, <2>5, <2>6, <3>2
    <3>3. i \in 1 .. Len(l) \/ i = Len(l) + 1
      BY <2>6
    <3> QED BY <3>1, <3>2, <3>3
  <2>12. p = q
    <3>1. p \in Seq(Chars) /\ Len(p) = Len(q) /\ \A i \in 1 .. Len(p) : p[i] = q[i]
      BY <2>5, <2>6, <2>10, <2>11 DEF Texts
    <3> QED BY <2>9, <3>1, SeqEqual
  <2> QED BY <1>4, <1>10, <2>2, <2>3, <2>4, <2>8, <2>12
<1>11. ASSUME NEW h \in [1 .. m -> Texts], Flat(h, ps)
       PROVE  \A k \in 1 .. m : h[k] = SubSeq(n, 1, f[k])
  <2> DEFINE Bad == {k \in 1 .. m : h[k] # SubSeq(n, 1, f[k])}
  <2>1. h[1] = SubSeq(n, 1, f[1])
    <3>1. 1 \in 1 .. m /\ 1 - 1 = 0
      BY <1>2
    <3>2. f[0] = 0 /\ h[1] = ps[1]
      BY <1>1, <1>11 DEF Marks, Flat
    <3>3. PICK z : z = f[1 - 1] /\ z = 0
      BY <3>1, <3>2
    <3>4. PICK w : w = f[1]
      OBVIOUS
    <3>5. ps[1] = SubSeq(n, z + 1, w)
      BY <1>10, <3>1, <3>3, <3>4
    <3>6. z + 1 = 1
      BY <3>3
    <3> QED BY <3>2, <3>4, <3>5, <3>6
  <2>2. ASSUME NEW k \in 2 .. m, h[k - 1] = SubSeq(n, 1, f[k - 1])
        PROVE  h[k] = SubSeq(n, 1, f[k])
    <3>1. k \in 1 .. m /\ k - 1 \in 0 .. m /\ k \in 0 .. m
      BY <1>2
    <3>2. PICK x \in Nat, y \in Nat : x = f[k - 1] /\ y = f[k]
      BY <1>9, <3>1
    <3>3. h[k] = h[k - 1] \o ps[k]
      BY <1>8, <1>11 DEF Flat
    <3>4. x < y /\ ps[k] = SubSeq(n, x + 1, y)
      BY <1>10, <3>1, <3>2
    <3>9. y \in 0 .. Len(n)
      BY <1>9, <3>1, <3>2
    <3>5. PICK w : w = Len(n)
      OBVIOUS
    <3>6. 1 \in 1 .. w + 1 /\ x \in 1 - 1 .. w /\ y \in x .. w
      BY <1>2, <3>4, <3>5, <3>9
    <3>7. n \in Seq(Chars)
      BY DEF Texts
    <3>8. SubSeq(n, 1, x) \o SubSeq(n, x + 1, y) = SubSeq(n, 1, y)
      BY <3>5, <3>6, <3>7, ConcatAdjacentSubSeq
    <3> QED BY <2>2, <3>2, <3>3, <3>4, <3>8
  <2>3. Bad = {}
    <3> SUFFICES ASSUME Bad # {} PROVE FALSE
      OBVIOUS
    <3>1. Bad \subseteq Nat
      BY <1>2
    <3>2. PICK k \in Bad : \A j \in Bad : k <= j
      <4> HIDE DEF Bad
      <4> QED BY <3>1, HasLeast
    <3>3. k \in 1 .. m /\ k # 1 /\ h[k] # SubSeq(n, 1, f[k])
      BY <2>1, <3>2
    <3>4. k \in 2 .. m /\ k - 1 \in 1 .. m /\ ~(k <= k - 1)
      BY <1>2, <3>3
    <3>5. h[k - 1] = SubSeq(n, 1, f[k - 1])
      BY <3>2, <3>4
    <3> QED BY <2>2, <3>3, <3>4, <3>5
  <2> QED BY <2>3
<1> QED BY <1>1, <1>7, <1>8, <1>11 DEF Meet

\* What decode_name returns for the labels of a name.
LEMMA Rejoined ==
  ASSUME NEW n \in Texts, n # <<>>, n[Len(n)] = ".", n # Root
  PROVE  NameLabels(n) # <<>> /\ FlattenSeq(Dotted(NameLabels(n))) = n
<1>1. PICK ls, f, ps : ls = NameLabels(n) /\ f = Stops(n) /\ ps = Dotted(ls)
  OBVIOUS
<1>2. Marks(n, ls, f) /\ ls \in Seq(Texts) /\ Len(ls) \in Nat \ {0}
  BY <1>1, NameMarks
<1>3. ps \in Seq(Texts) /\ Len(ps) = Len(ls) /\ Meet(n, f, ps, Len(ls))
  <2>1. Len(ls) # 0
    BY <1>2
  <2> QED BY <1>1, <1>2, <2>1, MarksMeet
<1>4. PICK h \in [1 .. Len(ls) -> Texts] : Flat(h, ps) /\ FlattenSeq(ps) = h[Len(ls)]
  <2>1. Len(ps) # 0 /\ ps \in Seq(Seq(Chars))
    BY <1>2, <1>3 DEF Texts
  <2>2. \E h \in [1 .. Len(ps) -> Seq(Chars)] : Flat(h, ps) /\ FlattenSeq(ps) = h[Len(ps)]
    BY <2>1, FlattenSteps
  <2> QED BY <1>3, <2>2 DEF Texts
<1>5. Len(ls) \in 1 .. Len(ls)
  BY <1>2
<1>6. FlattenSeq(ps) = SubSeq(n, 1, f[Len(ls)])
  BY <1>3, <1>4, <1>5 DEF Meet
<1>7. f[Len(ls)] = Len(n)
  BY <1>2 DEF Marks
<1>8. SubSeq(n, 1, Len(n)) = n
  BY SubSeqFull DEF Texts
<1>9. ls # <<>>
  BY <1>2
<1> QED BY <1>1, <1>6, <1>7, <1>8, <1>9

-----------------------------------------------------------------------------
\* A name keeps the places of its dots in whatever case it is written.
LEMMA SpellingMarks ==
  ASSUME NEW t \in Texts, t # <<>>, t[Len(t)] = ".", t # Root, NEW s \in Spellings(t)
  PROVE  /\ s \in Texts /\ Len(s) = Len(t) /\ Marks(s, NameLabels(s), Stops(t))
         /\ NameLabels(s) \in Seq(Texts) /\ Len(NameLabels(s)) = Len(NameLabels(t))
<1>1. /\ s \in Texts /\ Len(s) = Len(t)
      /\ \A i \in 1 .. Len(t) : \/ s[i] = t[i]
                                \/ s[i] \in DOMAIN LowerOf /\ LowerOf[s[i]] = t[i]
  BY SpellingText
<1>2. Len(t) \in Nat \ {0} /\ Len(t) \in 1 .. Len(t)
  BY EmptySeq DEF Texts
<1>3. \A i \in 1 .. Len(t) : s[i] = "." <=> t[i] = "."
  <2>1. "." \notin DOMAIN LowerOf /\ \A c \in DOMAIN LowerOf : LowerOf[c] # "."
    BY DEF LowerOf
  <2> QED BY <1>1, <2>1
<1>4. s # <<>> /\ s[Len(s)] = "."
  BY <1>1, <1>2, <1>3
<1>5. s # Root
  <2> SUFFICES ASSUME s = Root PROVE FALSE
    OBVIOUS
  <2>1. Len(t) = 1 /\ t[1] = "."
    BY <1>1, <1>2, RootText
  <2>2. t \in Seq(Chars) /\ Root \in Seq(Chars) /\ Len(t) = Len(Root)
        /\ \A i \in 1 .. Len(t) : t[i] = Root[i]
    <3>1. \A i \in 1 .. 1 : i = 1
      OBVIOUS
    <3> QED BY <2>1, <3>1, RootText DEF Texts
  <2> QED BY <2>2, SeqEqual
<1>6. PICK p, q : p = Front(s) /\ q = Front(t)
  OBVIOUS
<1>7. /\ p \in Texts /\ Len(p) = Len(t) - 1 /\ \A i \in 1 .. Len(t) - 1 : p[i] = s[i]
      /\ q \in Texts /\ Len(q) = Len(t) - 1 /\ \A i \in 1 .. Len(t) - 1 : q[i] = t[i]
  BY <1>1, <1>4, <1>6, FrontText
<1>8. Dots(p) = Dots(q)
  <2>1. DOMAIN p = 1 .. Len(t) - 1 /\ DOMAIN q = 1 .. Len(t) - 1
    BY <1>7 DEF Texts
  <2>2. \A i \in 1 .. Len(t) - 1 : i \in 1 .. Len(t)
    BY <1>2
  <2> QED BY <1>3, <1>7, <2>1, <2>2 DEF Dots
<1>9. \A k : Cut(p, k) = Cut(q, k)
  BY <1>7, <1>8 DEF Cut
<1>10. Len(NameLabels(s)) = Len(NameLabels(t))
  BY <1>5, <1>6, <1>7, <1>8, LabelType DEF NameLabels
<1>11. Stops(s) = Stops(t)
  BY <1>6, <1>9, <1>10 DEF Stops
<1> QED BY <1>1, <1>4, <1>5, <1>10, <1>11, NameMarks

\* Where the labels of an encoded name are.
Encoded(ls) == [k \in DOMAIN ls |-> EncodeLabel(ls[k])]

Placed(c, f, ls) ==
  \A k \in 1 .. Len(ls) : \A i \in 1 .. Len(ls[k]) + 1 :
    c[f[k - 1] + i] = EncodeLabel(ls[k])[i]

LEMMA EncodedLabels ==
  ASSUME NEW n \in Texts, NEW ls \in Seq(Texts), Len(ls) # 0, NEW f, Marks(n, ls, f),
         \A k \in DOMAIN ls : Encodable(ls[k]),
         NEW c, c = FlattenSeq(Encoded(ls)) \o << 0 >>
  PROVE  c \in Message /\ Len(c) = Len(n) + 1 /\ c[Len(n) + 1] = 0 /\ Placed(c, f, ls)
<1> DEFINE Bytes == 0 .. 4 * Low - 1
<1>1. PICK m, es : m = Len(ls) /\ es = Encoded(ls)
  OBVIOUS
<1>2. m \in Nat \ {0} /\ DOMAIN ls = 1 .. m /\ Len(n) \in Nat
  BY <1>1 DEF Texts
<1>3. \A k \in 1 .. m : es[k] = EncodeLabel(ls[k])
  BY <1>1, <1>2 DEF Encoded
<1>4. \A k \in 1 .. m : es[k] \in Message /\ Len(es[k]) = Len(ls[k]) + 1 /\ Len(ls[k]) \in Nat
  <2> TAKE k \in 1 .. m
  <2>1. ls[k] \in Texts
    BY <1>1, ElementOfSeq
  <2>2. Len(ls[k]) \in Nat
    BY <2>1 DEF Texts
  <2> QED BY <1>2, <1>3, <2>1, <2>2, EncodedLabelType
<1>5. es \in Seq(Message) /\ Len(es) = m
  <2>1. es \in [1 .. m -> Message]
    BY <1>1, <1>2, <1>3, <1>4 DEF Encoded
  <2>2. es \in Seq(Message)
    BY <1>2, <2>1, SeqDef
  <2>3. 1 .. Len(es) = 1 .. m /\ Len(es) \in Nat
    BY <2>1, <2>2, LenProperties
  <2> QED BY <1>2, <2>2, <2>3
<1> HIDE DEF Bytes
<1>6. Message = Seq(Bytes)
  BY DEF Message, Bytes
<1>7. PICK h \in [1 .. m -> Message] : Flat(h, es) /\ FlattenSeq(es) = h[m]
  <2>1. es \in Seq(Seq(Bytes)) /\ Len(es) # 0
    BY <1>2, <1>5, <1>6
  <2>2. \E h \in [1 .. Len(es) -> Seq(Bytes)] : Flat(h, es) /\ FlattenSeq(es) = h[Len(es)]
    BY <2>1, FlattenSteps
  <2> QED BY <1>5, <1>6, <2>2
<1>8. \A k \in 1 .. m : h[k] \in Message /\ Len(h[k]) \in Nat
  <2> TAKE k \in 1 .. m
  <2>1. PICK x \in Message : x = h[k]
    BY <1>7
  <2> QED BY <2>1, StepsType
<1>9. /\ f[0] = 0 /\ f[m] = Len(n)
      /\ \A k \in 1 .. m : Len(ls[k]) = f[k] - f[k - 1] - 1
      /\ \A k \in 0 .. m : f[k] \in Nat
  <2>1. f \in [0 .. m -> 0 .. Len(n)]
    BY <1>1 DEF Marks
  <2>2. \A k \in 0 .. m : f[k] \in Nat
    BY <1>2, <2>1
  <2> QED BY <1>1, <2>2 DEF Marks
<1>10. h[1] = es[1] /\ \A k \in 2 .. m : h[k] = h[k - 1] \o es[k]
  BY <1>5, <1>7 DEF Flat
<1>11. ASSUME NEW k \in 2 .. m
       PROVE  /\ Len(h[k]) = Len(h[k - 1]) + Len(es[k])
              /\ \A i \in 1 .. Len(es[k]) : h[k][Len(h[k - 1]) + i] = es[k][i]
  <2>1. k \in 1 .. m /\ k - 1 \in 1 .. m
    BY <1>2
  <2>2. PICK x \in Message, y \in Message : x = h[k - 1] /\ y = es[k]
    BY <1>4, <1>8, <2>1
  <2>3. x \in Seq(Bytes) /\ y \in Seq(Bytes)
    BY <1>6
  <2>4. Len(x \o y) = Len(x) + Len(y) /\ \A i \in 1 .. Len(y) : (x \o y)[Len(x) + i] = y[i]
    BY <2>3, TwoParts
  <2> QED BY <1>10, <2>2, <2>4
<1>12. \A k \in 1 .. m : Len(h[k]) = f[k]
  <2> DEFINE Bad == {k \in 1 .. m : Len(h[k]) # f[k]}
  <2> SUFFICES ASSUME Bad # {} PROVE FALSE
    OBVIOUS
  <2>1. Bad \subseteq Nat
    BY <1>2
  <2>2. PICK k \in Bad : \A j \in Bad : k <= j
    <3> HIDE DEF Bad
    <3> QED BY <2>1, HasLeast
  <2>3. k \in 1 .. m /\ Len(h[k]) # f[k]
    BY <2>2
  <2>4. PICK x, y, l : x = f[k - 1] /\ y = f[k] /\ l = Len(ls[k])
    OBVIOUS
  <2>5. x \in Nat /\ y \in Nat /\ l \in Nat /\ l = y - x - 1 /\ Len(es[k]) = l + 1
    <3>1. k \in 0 .. m /\ k - 1 \in 0 .. m
      BY <1>2, <2>3
    <3> QED BY <1>4, <1>9, <2>3, <2>4, <3>1
  <2>6. x + (l + 1) = y
    BY <2>5
  <2>7. CASE k = 1
    <3>1. k - 1 = 0
      BY <2>7
    <3>2. x = 0
      BY <1>9, <2>4, <3>1
    <3>3. Len(h[k]) = l + 1
      BY <1>10, <2>5, <2>7
    <3> QED BY <2>3, <2>4, <2>5, <2>6, <3>2, <3>3
  <2>8. CASE k # 1
    <3>1. k \in 2 .. m /\ k - 1 \in 1 .. m /\ ~(k <= k - 1)
      BY <1>2, <2>3, <2>8
    <3>2. Len(h[k - 1]) = x
      BY <2>2, <2>4, <3>1
    <3>3. Len(h[k]) = x + (l + 1)
      BY <1>11, <2>5, <3>1, <3>2
    <3> QED BY <2>3, <2>4, <2>6, <3>3
  <2> QED BY <2>7, <2>8
<1>13. ASSUME NEW k \in 1 .. m, NEW i \in 1 .. Len(ls[k]) + 1
       PROVE  f[k - 1] + i \in 1 .. f[k] /\ h[k][f[k - 1] + i] = es[k][i]
  <2>1. PICK x, y, l : x = f[k - 1] /\ y = f[k] /\ l = Len(ls[k])
    OBVIOUS
  <2>2. x \in Nat /\ y \in Nat /\ l \in Nat /\ l = y - x - 1 /\ Len(es[k]) = l + 1
    <3>1. k \in 0 .. m /\ k - 1 \in 0 .. m
      BY <1>2
    <3> QED BY <1>4, <1>9, <2>1, <3>1
  <2>3. i \in 1 .. l + 1 /\ x + i \in 1 .. y
    <3>1. i \in 1 .. l + 1
      BY <2>1
    <3> QED BY <2>2, <3>1
  <2>4. CASE k = 1
    <3>1. k - 1 = 0
      BY <2>4
    <3>2. x = 0
      BY <1>9, <2>1, <3>1
    <3>3. x + i = i
      BY <2>2, <2>3, <3>2
    <3> QED BY <1>10, <2>1, <2>3, <2>4, <3>3
  <2>5. CASE k # 1
    <3>1. k \in 2 .. m /\ k - 1 \in 1 .. m
      BY <1>2, <2>5
    <3>2. Len(h[k - 1]) = x
      BY <1>12, <2>1, <3>1
    <3>3. h[k][x + i] = es[k][i]
      BY <1>11, <2>2, <2>3, <3>1, <3>2
    <3> QED BY <2>1, <2>3, <3>3
  <2> QED BY <2>4, <2>5
<1>14. PICK z, w : z = <<0>> /\ w = h[m]
  OBVIOUS
<1>15. w \in Message /\ Len(w) = Len(n) /\ c = w \o z
  <2>1. m \in 1 .. m
    BY <1>2
  <2> QED BY <1>1, <1>7, <1>8, <1>9, <1>12, <1>14, <2>1
<1>16. z \in Seq(Bytes) /\ Len(z) = 1 /\ z[1] = 0
  <2>1. 0 \in Bytes
    BY NameWireAssumption DEF Bytes
  <2> QED BY <1>14, <2>1
<1>17. /\ c \in Seq(Bytes) /\ Len(c) = Len(n) + 1
       /\ \A i \in 1 .. Len(n) : c[i] = w[i]
       /\ c[Len(n) + 1] = 0
  <2>1. w \in Seq(Bytes)
    BY <1>6, <1>15
  <2>2. /\ w \o z \in Seq(Bytes) /\ Len(w \o z) = Len(w) + Len(z)
        /\ \A i \in 1 .. Len(w) : (w \o z)[i] = w[i]
        /\ \A i \in 1 .. Len(z) : (w \o z)[Len(w) + i] = z[i]
    <3>1. z \in Seq(Bytes)
      BY <1>16
    <3> QED BY ONLY <2>1, <3>1, TwoParts
  <2>3. 1 \in 1 .. 1
    OBVIOUS
  <2> QED BY <1>15, <1>16, <2>2, <2>3
<1>18. ASSUME NEW k \in 1 .. m, NEW i \in 1 .. Len(ls[k]) + 1
       PROVE  c[f[k - 1] + i] = EncodeLabel(ls[k])[i]
  <2>1. PICK j : j = f[k - 1] + i
    OBVIOUS
  <2>2. j \in 1 .. f[k] /\ h[k][j] = es[k][i]
    BY <1>13, <2>1
  <2>3. Len(h[k]) <= Len(w) /\ \A d \in 1 .. Len(h[k]) : w[d] = h[k][d]
    <3>1. es \in Seq(Seq(Bytes)) /\ Len(es) # 0 /\ h \in [1 .. Len(es) -> Seq(Bytes)]
      BY <1>2, <1>5, <1>6, <1>7
    <3>2. PartsFit(h, Len(es))
      <4>1. PICK B : B = Bytes
        OBVIOUS
      <4>2. PICK e \in Seq(Seq(B)), g \in [1 .. Len(es) -> Seq(B)] :
              e = es /\ g = h /\ g \in [1 .. Len(e) -> Seq(B)] /\ Len(e) # 0 /\ Flat(g, e)
        BY <1>7, <3>1, <4>1
      <4>3. PartsFit(g, Len(e))
        BY ONLY <4>2, FlattenParts
      <4> QED BY <4>2, <4>3
    <3> QED BY <1>5, <1>14, <3>2 DEF PartsFit
  <2>4. Len(h[k]) = f[k]
    BY <1>12
  <2>5. j \in 1 .. Len(n) /\ w[j] = es[k][i]
    <3>1. f[k] \in Nat /\ f[k] <= Len(n)
      BY <1>8, <1>15, <2>3, <2>4
    <3>2. PICK y : y = f[k]
      OBVIOUS
    <3>3. j \in 1 .. y /\ y \in Nat /\ y <= Len(n)
      BY <2>2, <3>1, <3>2
    <3>4. j \in 1 .. Len(n)
      BY <1>2, <3>3
    <3> QED BY <2>2, <2>3, <2>4, <3>4
  <2> QED BY <1>3, <1>17, <2>1, <2>5
<1> QED BY <1>1, <1>6, <1>17, <1>18 DEF Placed

\* A name of at least one label.
Proper(t) == t \in Texts /\ t # <<>> /\ t[Len(t)] = "." /\ t # Root

\* The labels ls stand in b, each where the one before it ends.
WrittenOut(b, ls, f) ==
  /\ f \in [0 .. Len(ls) -> 0 .. Len(b) - 1]
  /\ f[0] = 0 /\ b[f[Len(ls)] + 1] = 0
  /\ \A k \in 1 .. Len(ls) :
       /\ b[f[k - 1] + 1] \in 1 .. Low - 1
       /\ f[k - 1] + 1 + b[f[k - 1] + 1] = f[k]
       /\ PieceAt(b, f[k - 1]) = ls[k]

\* b begins with c.
Opens(c, b) == Len(c) <= Len(b) /\ \A i \in 1 .. Len(c) : b[i] = c[i]

\* The label read at p is the label written there, in lower case.
LEMMA PieceRead ==
  ASSUME NEW b \in Message, NEW p \in Nat, NEW m \in Nat, b[p + 1] = m,
         NEW l \in Texts, Len(l) = m, NEW t \in Texts, Len(t) = m, IsLower(t),
         \A i \in 1 .. m : \/ l[i] = t[i]
                           \/ l[i] \in DOMAIN LowerOf /\ LowerOf[l[i]] = t[i],
         \A i \in 1 .. m : Ascii[b[p + 1 + i] + 1] = l[i],
         p + 1 + m <= Len(b)
  PROVE  PieceAt(b, p) = t
<1>1. PICK u, v : u = p + 2 /\ v = p + 1 + m
  OBVIOUS
<1>2. PICK d \in Nat : d = Len(b)
  BY StepsType
<1>3. u \in Int /\ v \in Int /\ v - u + 1 = m /\ (u <= v => v - u + 1 = m)
      /\ (~(u <= v) => m = 0) /\ \A i \in u .. v : i \in 1 .. d
  BY <1>1, <1>2
<1>4. PICK x : x = SubSeq(b, u, v)
  OBVIOUS
<1> DEFINE Bytes == 0 .. 4 * Low - 1
<1>5. x \in Seq(Bytes) /\ Len(x) = m /\ \A i \in 1 .. m : x[i] = b[u + i - 1]
  <2>1. \A i \in u .. v : b[i] \in Bytes
    BY <1>2, <1>3, ElementOfSeq DEF Message
  <2> HIDE DEF Bytes
  <2>2. /\ x \in Seq(Bytes) /\ Len(x) = (IF u <= v THEN v - u + 1 ELSE 0)
        /\ \A i \in 1 .. v - u + 1 : x[i] = b[u + i - 1]
    BY <1>3, <1>4, <2>1, SubSeqProperties
  <2>3. (IF u <= v THEN v - u + 1 ELSE 0) = m
    BY <1>3
  <2> QED BY <1>3, <2>2, <2>3
<1> HIDE DEF Bytes
<1>6. DOMAIN x = 1 .. m
  BY <1>5
<1>7. PICK y : y = [i \in DOMAIN x |-> Ascii[x[i] + 1]]
  OBVIOUS
<1>8. DOMAIN y = 1 .. m /\ \A i \in 1 .. m : y[i] = l[i]
  <2>1. \A i \in 1 .. m : u + i - 1 = p + 1 + i
    BY <1>1
  <2>2. \A i \in 1 .. m : x[i] = b[p + 1 + i]
    BY <1>5, <2>1
  <2> QED BY <1>1, <1>6, <1>7, <2>2
<1>9. PICK z : z = Lower(y)
  OBVIOUS
<1>10. z = [i \in 1 .. m |-> IF y[i] \in DOMAIN LowerOf THEN LowerOf[y[i]] ELSE y[i]]
  BY <1>8, <1>9 DEF Lower
<1>11. DOMAIN t = 1 .. m /\ t \in [1 .. m -> Chars]
  <2>1. t \in Seq(Chars) /\ Len(t) = m
    BY <1>1 DEF Texts
  <2> QED BY <2>1, LenProperties
<1>12. \A i \in 1 .. m : z[i] = t[i]
  <2>1. \A i \in 1 .. m : t[i] \notin DOMAIN LowerOf
    BY <1>11 DEF IsLower
  <2> QED BY <1>1, <1>8, <1>10, <2>1
<1>13. z = t
  <2>1. z = [i \in 1 .. m |-> z[i]]
    BY <1>10
  <2>2. t = [i \in 1 .. m |-> t[i]]
    BY <1>11
  <2> QED BY <1>12, <2>1, <2>2
<1>14. PieceAt(b, p) = z
  <2>1. Len(l) = m /\ p + 1 + b[p + 1] = v
    BY <1>1
  <2>2. PieceAt(b, p) = Decoded(x)
    BY <1>1, <1>4, <2>1 DEF PieceAt
  <2> QED BY <1>7, <1>9, <2>2 DEF Decoded
<1> QED BY <1>13, <1>14

\* A message that begins with a name, in any spelling.
LEMMA WireLabels ==
  ASSUME NEW t, Proper(t), IsLower(t), NEW s \in Spellings(t), NEW c \in EncodeName(s),
         NEW b \in Message, Opens(c, b)
  PROVE  WrittenOut(b, NameLabels(t), Stops(t)) /\ Len(c) = Len(t) + 1
<1>1. PICK f, ls, sl : f = Stops(t) /\ ls = NameLabels(t) /\ sl = NameLabels(s)
  OBVIOUS
<1>2. Marks(t, ls, f) /\ ls \in Seq(Texts) /\ Len(ls) \in Nat \ {0} /\ t \in Texts
  BY <1>1, NameMarks DEF Proper
<1>3. /\ s \in Texts /\ Len(s) = Len(t) /\ Marks(s, sl, f) /\ sl \in Seq(Texts)
      /\ Len(sl) = Len(ls)
  BY <1>1, SpellingMarks DEF Proper
<1>4. PICK m : m = Len(ls)
  OBVIOUS
<1>5. m \in Nat \ {0} /\ Len(sl) = m /\ DOMAIN sl = 1 .. m /\ Len(t) \in Nat
  BY <1>2, <1>3, <1>4 DEF Texts
<1>6. /\ \A k \in DOMAIN sl : Encodable(sl[k])
      /\ c = FlattenSeq(Encoded(sl)) \o <<0>>
  BY <1>1 DEF EncodeName, Encoded
<1>7. /\ Len(c) = Len(t) + 1 /\ c[Len(t) + 1] = 0
      /\ \A k \in 1 .. m : \A i \in 1 .. Len(sl[k]) + 1 :
           c[f[k - 1] + i] = EncodeLabel(sl[k])[i]
  <2>1. Len(sl) # 0
    BY <1>5
  <2>2. Len(c) = Len(s) + 1 /\ c[Len(s) + 1] = 0 /\ Placed(c, f, sl)
    BY ONLY <1>3, <1>6, <2>1, EncodedLabels
  <2> QED BY <1>3, <1>5, <2>2 DEF Placed
<1>8. PICK n, d : n = Len(t) /\ d = Len(b)
  OBVIOUS
<1>9. n \in Nat /\ d \in Nat /\ n + 1 <= d /\ \A i \in 1 .. n + 1 : b[i] = c[i]
  BY <1>5, <1>7, <1>8, StepsType DEF Opens
<1>10. f \in [0 .. m -> 0 .. n] /\ f[0] = 0 /\ f[m] = n
  BY <1>2, <1>4, <1>8 DEF Marks
<1>11. f \in [0 .. m -> 0 .. d - 1]
  <2>1. \A i \in 0 .. n : i \in 0 .. d - 1
    BY <1>9
  <2> QED BY <1>10, <2>1
<1>12. b[f[m] + 1] = 0
  <2>1. n + 1 \in 1 .. n + 1
    BY <1>9
  <2> QED BY <1>7, <1>8, <1>9, <1>10, <2>1
<1>13. ASSUME NEW k \in 1 .. m
       PROVE  /\ b[f[k - 1] + 1] \in 1 .. Low - 1
              /\ f[k - 1] + 1 + b[f[k - 1] + 1] = f[k]
              /\ PieceAt(b, f[k - 1]) = ls[k]
  <2>1. PICK x, y, l, q : x = f[k - 1] /\ y = f[k] /\ l = sl[k] /\ q = ls[k]
    OBVIOUS
  <2>2. x \in 0 .. n /\ y \in 0 .. n
    <3>1. k \in 0 .. m /\ k - 1 \in 0 .. m
      BY <1>5
    <3> QED BY <1>10, <2>1, <3>1
  <2>3. /\ Len(l) = y - x - 1 /\ \A i \in 1 .. Len(l) : l[i] = s[x + i]
        /\ Len(q) = y - x - 1 /\ \A i \in 1 .. Len(q) : q[i] = t[x + i]
    BY <1>2, <1>3, <1>4, <2>1 DEF Marks
  <2>4. l \in Texts /\ q \in Texts /\ Encodable(l)
    BY <1>2, <1>3, <1>4, <1>5, <1>6, <2>1, ElementOfSeq
  <2>5. PICK j : j = Len(l)
    OBVIOUS
  <2>6. j \in Nat /\ j = y - x - 1 /\ j \in 1 .. Low - 1
    <3>1. l # <<>> /\ j < Low /\ Low \in Nat
      BY <2>4, <2>5, NameWireAssumption DEF Encodable
    <3>2. j \in Nat \ {0}
      BY <2>4, <2>5, <3>1, EmptySeq DEF Texts
    <3> QED BY <2>3, <2>5, <3>1, <3>2
  <2>7. /\ EncodeLabel(l)[1] = j
        /\ \A i \in 1 .. j : Ascii[EncodeLabel(l)[i + 1] + 1] = l[i]
    BY <2>4, <2>5, EncodedLabelType
  <2>8. \A i \in 1 .. j + 1 : x + i \in 1 .. n + 1 /\ b[x + i] = EncodeLabel(l)[i]
    <3>1. \A i \in 1 .. j + 1 : x + i \in 1 .. n + 1
      BY <1>9, <2>2, <2>6
    <3>2. \A i \in 1 .. j + 1 : c[x + i] = EncodeLabel(l)[i]
      BY <1>7, <2>1, <2>5
    <3> QED BY <1>9, <3>1, <3>2
  <2>9. b[x + 1] = j
    <3>1. 1 \in 1 .. j + 1
      BY <2>6
    <3> QED BY <2>7, <2>8, <3>1
  <2>10. x + 1 + j = y
    BY <2>2, <2>6
  <2>11. PieceAt(b, x) = q
    <3>1. \A i \in 1 .. j : Ascii[b[x + 1 + i] + 1] = l[i]
      <4>1. \A i \in 1 .. j : i + 1 \in 1 .. j + 1 /\ x + (i + 1) = x + 1 + i
        BY <2>2, <2>6
      <4>2. \A i \in 1 .. j : b[x + 1 + i] = EncodeLabel(l)[i + 1]
        BY <2>8, <4>1
      <4> QED BY <2>7, <4>2
    <3>2. \A i \in 1 .. j : x + i \in 1 .. n
      BY <1>9, <2>2, <2>6
    <3>3. \A i \in 1 .. n : \/ s[i] = t[i]
                            \/ s[i] \in DOMAIN LowerOf /\ LowerOf[s[i]] = t[i]
      BY <1>2, <1>8, SpellingText
    <3>4. \A i \in 1 .. j : l[i] = s[x + i] /\ q[i] = t[x + i]
      BY <2>3, <2>5, <2>6
    <3>5. \A i \in 1 .. j : \/ l[i] = q[i]
                            \/ l[i] \in DOMAIN LowerOf /\ LowerOf[l[i]] = q[i]
      BY <3>2, <3>3, <3>4
    <3>6. IsLower(q)
      <4>1. DOMAIN q = 1 .. j
        BY <2>3, <2>4, <2>6 DEF Texts
      <4>2. DOMAIN t = 1 .. n
        BY <1>2, <1>8 DEF Texts
      <4> QED BY <3>2, <3>4, <4>1, <4>2 DEF IsLower
    <3>7. x + 1 + j <= d /\ x \in Nat
      BY <1>9, <2>2, <2>10
    <3>8. /\ Len(q) = j /\ x + 1 + j <= Len(b) /\ b \in Message /\ j \in Nat
          /\ Len(l) = j
      BY <1>8, <2>3, <2>5, <2>6, <3>7
    <3> QED BY ONLY <2>4, <2>9, <3>1, <3>5, <3>6, <3>7, <3>8, PieceRead
  <2> QED BY <2>1, <2>6, <2>9, <2>10, <2>11
<1> QED BY <1>1, <1>4, <1>7, <1>8, <1>10, <1>11, <1>12, <1>13 DEF WrittenOut

\* The labels before place k of b.
UpTo(ls, k, x, b, off, n) ==
  x \in Readers(b) /\ x.labels = SubSeq(ls, 1, k) /\ Whole(b, off, n + k, x)

\* Reading the name at octet off gives the labels ls, wherever the reader then stands.
ReadAs(b, off, ls) == \E e : NamesAt(b, Steps(b), off) = {[labels |-> ls, end |-> e]}

\* A name written out is the name at the place where its first label is.
LEMMA WrittenName ==
  ASSUME NEW b \in Message, NEW ls \in Seq(Texts), NEW f, WrittenOut(b, ls, f),
         NEW off, NEW n \in Nat, NEW r \in Readers(b),
         r.cur = 0, r.labels = <<>>, Whole(b, off, n, r),
         n + Len(ls) + 1 <= Steps(b)
  PROVE  ReadAs(b, off, ls)
<1>1. PICK m \in Nat, t \in Nat, d \in Nat : m = Len(ls) /\ t = Steps(b) /\ d = Len(b)
  BY StepsType
<1>2. /\ f \in [0 .. m -> 0 .. d - 1] /\ f[0] = 0 /\ b[f[m] + 1] = 0
      /\ \A k \in 1 .. m : /\ b[f[k - 1] + 1] \in 1 .. Low - 1
                           /\ f[k - 1] + 1 + b[f[k - 1] + 1] = f[k]
                           /\ PieceAt(b, f[k - 1]) = ls[k]
  BY <1>1 DEF WrittenOut
<1>3. \A k \in 0 .. m : f[k] \in Nat /\ f[k] < Len(b)
  <2>1. \A k \in 0 .. m : f[k] \in 0 .. d - 1
    BY <1>2
  <2>2. \A i \in 0 .. d - 1 : i \in Nat /\ i < d
    BY <1>1
  <2> QED BY <1>1, <2>1, <2>2
<1>4. ASSUME NEW k \in 1 .. m
      PROVE  /\ ls[k] \in Pieces(b)
             /\ LabelLeads(b, f[k - 1], ls[k], f[k])
  <2>1. k \in 0 .. m /\ k - 1 \in 0 .. m
    BY <1>1
  <2>2. PICK p \in Nat, q \in Nat, v \in {b[f[k - 1] + 1]} : p = f[k - 1] /\ q = f[k] /\ v = b[p + 1]
    BY <1>3, <2>1
  <2>3. p < Len(b) /\ v \in 1 .. Low - 1 /\ p + 1 + v = q /\ PieceAt(b, p) = ls[k]
    BY <1>2, <1>3, <2>1, <2>2
  <2>4. v # 0 /\ v \div Low = 0 /\ ~(p >= Len(b))
    <3>1. Low \in Nat \ {0} /\ v \in 1 .. Low - 1
      BY <2>3, NameWireAssumption
    <3>2. v # 0 /\ v \div Low = 0
      BY ONLY <3>1
    <3>3. ~(p >= Len(b))
      <4>1. p \in Nat /\ d \in Nat /\ p < d
        BY <1>1, <2>2, <2>3
      <4> QED BY <1>1, <4>1
    <3> QED BY <3>2, <3>3
  <2>5. \A j \in 1 .. Steps(b) :
          NamesAt(b, j, p) = {Labelled(PieceAt(b, p), w) : w \in NamesAt(b, j - 1, q)}
    <3> TAKE j \in 1 .. Steps(b)
    <3>1. ~(p >= Len(b)) /\ b[p + 1] # 0 /\ b[p + 1] \div Low = 0 /\ p + 1 + b[p + 1] = q
      BY <2>2, <2>3, <2>4
    <3>2. NamesAt(b, j, p) =
            {Labelled(PieceAt(b, p), w) : w \in NamesAt(b, j - 1, p + 1 + b[p + 1])}
      BY <3>1, NamesStep
    <3> QED BY <3>1, <3>2
  <2>6. LabelLeads(b, p, ls[k], q)
    BY <2>3, <2>5 DEF LabelLeads
  <2>7. ls[k] \in Pieces(b)
    BY <2>3 DEF Pieces
  <2> QED BY <2>2, <2>6, <2>7
<1>5. ls \in Seq(Pieces(b))
  <2>1. DOMAIN ls = 1 .. m /\ ls = [k \in 1 .. m |-> ls[k]]
    BY <1>1, LenProperties
  <2>2. ls \in [1 .. m -> Pieces(b)]
    BY <1>4, <2>1
  <2> QED BY <1>1, <2>2, SeqDef
<1> DEFINE Reached(k) == \E x : x.cur = f[k] /\ UpTo(ls, k, x, b, off, n)
<1>6. Reached(0)
  <2>1. SubSeq(ls, 1, 0) = <<>>
    BY SubSeqEmpty
  <2>2. n + 0 = n
    OBVIOUS
  <2>3. UpTo(ls, 0, r, b, off, n)
    BY <2>1, <2>2 DEF UpTo
  <2> QED BY <1>2, <2>3
<1>7. ASSUME NEW k \in 1 .. m, Reached(k - 1) PROVE Reached(k)
  <2>1. PICK x : x.cur = f[k - 1] /\ UpTo(ls, k - 1, x, b, off, n)
    BY <1>7
  <2>2. /\ x \in Readers(b) /\ x.labels = SubSeq(ls, 1, k - 1)
        /\ Whole(b, off, n + (k - 1), x)
    BY <2>1 DEF UpTo
  <2>3. /\ k \in 0 .. m /\ k - 1 \in 0 .. m /\ n + (k - 1) \in Nat
        /\ (n + (k - 1)) + 1 = n + k
    BY <1>1
  <2>4. Append(x.labels, ls[k]) = SubSeq(ls, 1, k)
    <3>1. 1 \in 1 .. Len(ls) /\ k \in 1 .. Len(ls)
      BY <1>1
    <3>2. SubSeq(ls, 1, k) = SubSeq(ls, 1, k - 1) \o <<ls[k]>>
      BY <3>1, SubSeqRecursiveSecond
    <3>3. x.labels \in Seq(Pieces(b)) /\ ls[k] \in Pieces(b)
      BY <1>4, <2>2 DEF Readers
    <3>4. Append(x.labels, ls[k]) = x.labels \o <<ls[k]>>
      BY <3>3, AppendIsConcat
    <3> QED BY <2>2, <3>2, <3>4
  <2>5. PICK y : y = [x EXCEPT !.cur = f[k], !.labels = SubSeq(ls, 1, k)]
    OBVIOUS
  <2>6. /\ y \in Readers(b) /\ y.cur = f[k] /\ y.labels = SubSeq(ls, 1, k)
        /\ y.jumped = x.jumped /\ y.next = x.next
    <3>1. f[k] \in Nat
      BY <1>3, <2>3
    <3>2. SubSeq(ls, 1, k) \in Seq(Pieces(b))
      <4>1. x.labels \in Seq(Pieces(b)) /\ ls[k] \in Pieces(b)
        BY <1>4, <2>2 DEF Readers
      <4> QED BY <2>4, <4>1, AppendProperties
    <3>3. PICK u, z : u = f[k] /\ z = SubSeq(ls, 1, k)
      OBVIOUS
    <3>4. y = [x EXCEPT !.cur = u, !.labels = z]
      BY <2>5, <3>3
    <3> QED BY <2>2, <3>1, <3>2, <3>3, <3>4 DEF Readers
  <2>7. Whole(b, off, (n + (k - 1)) + 1, y)
    <3>1. PICK l, i : l = ls[k] /\ i = n + (k - 1)
      OBVIOUS
    <3>2. l \in Pieces(b) /\ i \in Nat /\ LabelLeads(b, x.cur, l, y.cur)
      BY <1>4, <2>1, <2>3, <2>6, <3>1
    <3>3. y.labels = Append(x.labels, l) /\ y.jumped = x.jumped /\ y.next = x.next
      BY <2>4, <2>6, <3>1
    <3> QED BY <2>2, <2>6, <3>1, <3>2, <3>3, WholeLabel
  <2>8. UpTo(ls, k, y, b, off, n)
    BY <2>3, <2>6, <2>7 DEF UpTo
  <2> QED BY <2>6, <2>8
<1>8. Reached(m)
  <2> HIDE DEF Reached
  <2> DEFINE Bad == {k \in 0 .. m : ~Reached(k)}
  <2> SUFFICES ASSUME Bad # {} PROVE FALSE
    BY <1>1
  <2>1. Bad \subseteq Nat
    BY <1>1
  <2>2. PICK k \in Bad : \A j \in Bad : k <= j
    <3> HIDE DEF Bad
    <3> QED BY <2>1, HasLeast
  <2>3. k \in 0 .. m /\ ~Reached(k) /\ k # 0
    BY <1>6, <2>2
  <2>4. k \in 1 .. m /\ k - 1 \in 0 .. m /\ ~(k <= k - 1)
    BY <1>1, <2>3
  <2>5. Reached(k - 1)
    BY <2>2, <2>4
  <2> QED BY <1>7, <2>3, <2>4, <2>5
<1>9. PICK x : x.cur = f[m] /\ UpTo(ls, m, x, b, off, n)
  BY <1>8
<1>10. x \in Readers(b) /\ x.labels = ls /\ Whole(b, off, n + m, x)
  <2>1. SubSeq(ls, 1, Len(ls)) = ls
    BY SubSeqFull
  <2> QED BY <1>1, <1>9, <2>1 DEF UpTo
<1>11. PICK j : j = t - (n + m)
  OBVIOUS
<1>12. j \in 1 .. t /\ j \in Nat /\ (n + m) + j = t /\ (n + m) + j <= t
  BY <1>1, <1>11
<1>13. PICK p \in Nat : p = f[m] /\ p < Len(b)
  <2>1. m \in 0 .. m
    BY <1>1
  <2> QED BY <1>3, <2>1
<1>14. NamesAt(b, j, p) = {[labels |-> <<>>, end |-> p + 1]}
  <2>1. j \in 1 .. Steps(b) /\ ~(p >= Len(b)) /\ b[p + 1] = 0
    BY <1>1, <1>2, <1>12, <1>13
  <2> QED BY <2>1, NamesStep
<1>15. NamesAt(b, t, off) = {Put(x, w) : w \in NamesAt(b, j, p)}
  <2>1. \A i \in Nat : (n + m) + i <= Steps(b) =>
          NamesAt(b, (n + m) + i, off) = {Put(x, w) : w \in NamesAt(b, i, x.cur)}
    BY <1>10 DEF Whole
  <2>2. NamesAt(b, (n + m) + j, off) = {Put(x, w) : w \in NamesAt(b, j, x.cur)}
    BY <1>1, <1>12, <2>1
  <2> QED BY <1>9, <1>12, <1>13, <2>2
<1>16. PICK w : w = [labels |-> <<>>, end |-> p + 1]
  OBVIOUS
<1>17. Put(x, w) = [labels |-> ls, end |-> IF x.jumped THEN x.next ELSE p + 1]
  <2>1. ls \o <<>> = ls
    BY ConcatEmptySeq
  <2>2. w.labels = <<>> /\ w.end = p + 1
    BY <1>16
  <2> QED BY <1>10, <2>1, <2>2 DEF Put
<1>18. NamesAt(b, t, off) = {Put(x, w)}
  BY <1>14, <1>15, <1>16
<1> QED BY <1>1, <1>17, <1>18 DEF ReadAs

\* The root written out is one octet.
LEMMA RootEncoded ==
  ASSUME NEW s \in Spellings(Root), NEW c \in EncodeName(s)
  PROVE  c = <<0>>
<1>1. Root \in Texts /\ Len(Root) = 1 /\ Root[1] = "."
  BY RootText
<1>2. /\ s \in Texts /\ Len(s) = 1
      /\ \A i \in 1 .. 1 : \/ s[i] = Root[i]
                           \/ s[i] \in DOMAIN LowerOf /\ LowerOf[s[i]] = Root[i]
  BY <1>1, SpellingText
<1>3. s[1] = "."
  <2>1. \A u \in DOMAIN LowerOf : LowerOf[u] # "."
    BY DEF LowerOf
  <2>2. 1 \in 1 .. 1
    OBVIOUS
  <2> QED BY <1>1, <1>2, <2>1, <2>2
<1>4. s = Root
  <2>1. \A i \in 1 .. 1 : i = 1
    OBVIOUS
  <2>2. s \in Seq(Chars) /\ Root \in Seq(Chars) /\ Len(s) = Len(Root)
        /\ \A i \in 1 .. Len(s) : s[i] = Root[i]
    BY <1>1, <1>2, <1>3, <2>1 DEF Texts
  <2> QED BY <2>2, SeqEqual
<1>5. PICK ls, es : ls = NameLabels(s) /\ es = Encoded(ls)
  OBVIOUS
<1>6. ls = <<>>
  BY <1>4, <1>5 DEF NameLabels
<1>7. DOMAIN ls = 1 .. 0 /\ 1 .. 0 = {}
  BY <1>6
<1>8. es \in [1 .. 0 -> Message]
  <2>1. es = [k \in 1 .. 0 |-> EncodeLabel(ls[k])]
    BY <1>5, <1>7 DEF Encoded
  <2>2. \A k \in 1 .. 0 : EncodeLabel(ls[k]) \in Message
    BY <1>7
  <2> QED BY <2>1, <2>2
<1>9. es = <<>>
  <2>1. es \in Seq(Message)
    BY <1>8, SeqDef
  <2>2. 1 .. Len(es) = 1 .. 0 /\ Len(es) \in Nat
    BY <1>8, <2>1, LenProperties
  <2>3. Len(es) = 0
    BY <2>2
  <2> QED BY <2>1, <2>3, EmptySeq
<1>10. FlattenSeq(es) = <<>>
  BY <1>9 DEF FlattenSeq
<1>11. c = FlattenSeq(es) \o <<0>>
  BY <1>5 DEF EncodeName, Encoded
<1>12. <<>> \o <<0>> = <<0>>
  OBVIOUS
<1> QED BY <1>10, <1>11, <1>12

\* A name that is stored, written out at the front of a message.
LEMMA FrontName ==
  ASSUME NEW t \in Texts, t # <<>>, t[Len(t)] = ".", IsLower(t),
         NEW s \in Spellings(t), NEW c \in EncodeName(s), NEW b \in Message, Opens(c, b)
  PROVE  /\ \E f : WrittenOut(b, NameLabels(t), f)
         /\ NameLabels(t) \in Seq(Texts) /\ Len(NameLabels(t)) < Len(c) /\ Len(c) \in Nat
<1>1. NameLabels(t) \in Seq(Texts)
  BY NameLabelsType
<1>2. CASE t = Root
  <2>1. c = <<0>>
    BY <1>2, RootEncoded
  <2>2. Len(c) = 1 /\ c[1] = 0
    BY <2>1
  <2>3. PICK d \in Nat : d = Len(b)
    BY StepsType
  <2>4. 1 <= d /\ b[1] = 0
    <3>1. 1 \in 1 .. 1
      OBVIOUS
    <3> QED BY <2>2, <2>3, <3>1 DEF Opens
  <2>5. PICK ls, f : ls = NameLabels(t) /\ f = [k \in 0 .. 0 |-> 0]
    OBVIOUS
  <2>6. ls = <<>> /\ Len(ls) = 0
    BY <1>2, <2>5 DEF NameLabels
  <2>7. f \in [0 .. 0 -> 0 .. d - 1] /\ f[0] = 0
    <3>1. 0 \in 0 .. d - 1 /\ 0 \in 0 .. 0
      BY <2>3, <2>4
    <3> QED BY <2>5, <3>1
  <2>8. b[f[0] + 1] = 0
    <3>1. PICK z : z = f[0] /\ z + 1 = 1
      BY <2>7
    <3> QED BY <2>4, <3>1
  <2>9. 1 .. 0 = {}
    OBVIOUS
  <2>10. WrittenOut(b, ls, f)
    BY <2>3, <2>6, <2>7, <2>8, <2>9 DEF WrittenOut
  <2> QED BY <1>1, <2>2, <2>5, <2>6, <2>10
<1>3. CASE t # Root
  <2>1. Proper(t)
    BY <1>3 DEF Proper
  <2>2. WrittenOut(b, NameLabels(t), Stops(t)) /\ Len(c) = Len(t) + 1
    BY <2>1, WireLabels
  <2>3. PICK q : q = Front(t)
    OBVIOUS
  <2>4. q \in Texts /\ Len(q) = Len(t) - 1
    BY <2>3, FrontText
  <2>5. Len(NameLabels(t)) = Cardinality(Dots(q)) + 1
    BY <1>3, <2>3, <2>4, LabelType DEF NameLabels
  <2>6. Cardinality(Dots(q)) <= Len(q)
    <3>1. Dots(q) \subseteq 1 .. Len(q) /\ Len(q) \in Nat
      BY <2>4, DotsFinite
    <3>2. IsFiniteSet(1 .. Len(q)) /\ Cardinality(1 .. Len(q)) = Len(q)
      <4>1. PICK i \in Nat : i = Len(q)
        BY <3>1
      <4>2. 1 \in Int /\ i \in Int
        OBVIOUS
      <4>3. IsFiniteSet(1 .. i) /\ Cardinality(1 .. i) = IF 1 > i THEN 0 ELSE i - 1 + 1
        BY <4>2, FS_Interval
      <4>4. (IF 1 > i THEN 0 ELSE i - 1 + 1) = i
        OBVIOUS
      <4> QED BY <4>1, <4>3, <4>4
    <3> QED BY <3>1, <3>2, FS_Subset
  <2>7. Cardinality(Dots(q)) \in Nat /\ Len(t) \in Nat
    BY <2>4, DotsFinite
  <2>8. PICK i, j : i = Cardinality(Dots(q)) /\ j = Len(t)
    OBVIOUS
  <2>9. i \in Nat /\ j \in Nat /\ i <= j - 1 /\ Len(NameLabels(t)) = i + 1 /\ Len(c) = j + 1
    BY <2>2, <2>4, <2>5, <2>6, <2>7, <2>8
  <2>10. Len(NameLabels(t)) < Len(c) /\ Len(c) \in Nat
    BY <2>9
  <2> QED BY <1>1, <2>2, <2>10
<1> QED BY <1>2, <1>3

\* A client's two ways to name what it asks for.
Asks(b, off, c) ==
  \/ b = c /\ off = 0
  \/ b = c \o <<3 * Low, 0>> /\ off = Len(c)

\* What is read of a name that was asked for.
LEMMA AskedName ==
  ASSUME NEW t \in Texts, t # <<>>, t[Len(t)] = ".", IsLower(t),
         NEW s \in Spellings(t), NEW c \in EncodeName(s), NEW b, NEW off, Asks(b, off, c)
  PROVE  ReadAs(b, off, NameLabels(t))
<1>1. c \in Message
  BY SpellingText, EncodedNameType
<1>2. PICK n \in Nat, ls \in {NameLabels(t)} : n = Len(c) /\ ls = NameLabels(t)
  BY <1>1, StepsType
<1>3. b \in Message /\ Opens(c, b) /\ off \in Nat
  <2>1. CASE b = c /\ off = 0
    BY <1>1, <1>2, <2>1 DEF Opens
  <2>2. CASE b = c \o <<3 * Low, 0>> /\ off = Len(c)
    <3>1. b \in Message /\ Len(b) = n + 2 /\ \A i \in 1 .. n : b[i] = c[i]
      BY <1>1, <1>2, <2>2, PointerAdded
    <3>2. n <= n + 2 /\ off \in Nat
      BY <1>2, <2>2
    <3> QED BY <1>2, <3>1, <3>2 DEF Opens
  <2> QED BY <2>1, <2>2 DEF Asks
<1>4. /\ \E f : WrittenOut(b, ls, f)
      /\ ls \in Seq(Texts) /\ Len(ls) < n
  BY <1>2, <1>3, FrontName
<1>5. PICK f : WrittenOut(b, ls, f)
  BY <1>4
<1>6. PICK d \in Nat, m \in Nat : d = Len(b) /\ m = Len(ls)
  BY <1>3, <1>4, StepsType
<1>7. n <= d /\ m < n
  BY <1>2, <1>3, <1>4, <1>6 DEF Opens
<1>8. m + 2 <= Steps(b)
  <2>1. m + 2 <= d + 1
    BY <1>2, <1>6, <1>7
  <2>2. d + 1 <= (d + 1) * (d + 1)
    BY ONLY TRUE
  <2>3. PICK i \in Nat : i = (d + 1) * (d + 1) /\ d + 1 <= i
    BY <2>2
  <2> QED BY <1>6, <2>1, <2>3 DEF Steps
<1>9. StartAt(off) \in Readers(b) /\ StartAt(0) \in Readers(b)
  BY <1>3 DEF StartAt, Readers
<1>10. CASE b = c /\ off = 0
  <2>1. Whole(b, 0, 0, StartAt(0))
    BY <1>3, WholeAtFirst
  <2>2. StartAt(0).cur = 0 /\ StartAt(0).labels = <<>>
    BY DEF StartAt
  <2>3. 0 + m + 1 <= Steps(b)
    <3>1. Steps(b) \in Nat
      BY <1>3, StepsType
    <3> QED BY <1>6, <1>8, <3>1
  <2>4. PICK r : r = StartAt(0)
    OBVIOUS
  <2>5. r \in Readers(b) /\ r.cur = 0 /\ r.labels = <<>> /\ Whole(b, 0, 0, r)
    BY <1>9, <2>1, <2>2, <2>4
  <2>6. ReadAs(b, 0, ls)
    <3>1. PICK z \in Nat : z = 0
      OBVIOUS
    <3>2. z + Len(ls) + 1 <= Steps(b) /\ Whole(b, z, z, r)
      BY <1>6, <2>3, <2>5, <3>1
    <3>3. b \in Message /\ ls \in Seq(Texts)
      BY <1>3, <1>4
    <3>4. ReadAs(b, z, ls)
      BY ONLY <1>5, <2>5, <3>2, <3>3, WrittenName
    <3> QED BY <3>1, <3>4
  <2> QED BY <1>2, <1>10, <2>6
<1>11. CASE b = c \o <<3 * Low, 0>> /\ off = Len(c)
  <2>1. /\ d = n + 2 /\ off = n /\ b[n + 1] = 3 * Low /\ b[n + 2] = 0
    BY <1>1, <1>2, <1>6, <1>11, PointerAdded
  <2>2. /\ b[n + 1] # 0 /\ b[n + 1] \div Low = 3 /\ Target(b, n) = 0
        /\ ~(n >= Len(b)) /\ n + 1 < Len(b) /\ 0 < n
    <3>1. Low \in Nat \ {0}
      BY NameWireAssumption
    <3>2. 3 * Low # 0 /\ (3 * Low) \div Low = 3 /\ (3 * Low) % Low = 0
      BY ONLY <3>1
    <3>3. PICK z \in Nat : z = Low
      BY <3>1
    <3>4. 0 * 4 * z + 0 = 0
      OBVIOUS
    <3>5. Target(b, n) = 0
      BY <2>1, <3>2, <3>3, <3>4 DEF Target
    <3> QED BY <1>2, <1>6, <1>7, <2>1, <3>2, <3>5
  <2>3. PointerLeads(b, n, n + 2, 0)
    <3>1. ASSUME NEW k \in 1 .. Steps(b)
          PROVE  NamesAt(b, k, n) = {[labels |-> w.labels, end |-> n + 2] : w \in NamesAt(b, k - 1, 0)}
      <4>1. (3 # 0) /\ b[n + 1] \div Low # 0 /\ Target(b, n) < n
        BY <2>2
      <4>2. NamesAt(b, k, n) =
              {[labels |-> w.labels, end |-> n + 2] : w \in NamesAt(b, k - 1, Target(b, n))}
        BY <1>3, <2>2, <4>1, NamesStep
      <4> QED BY <2>2, <4>2
    <3> QED BY <3>1 DEF PointerLeads
  <2>4. PICK r, x : r = StartAt(off) /\ x = [cur |-> 0, labels |-> <<>>, seen |-> {},
                                             jumped |-> TRUE, next |-> n + 2]
    OBVIOUS
  <2>5. /\ r \in Readers(b) /\ r.cur = n /\ r.labels = <<>> /\ r.jumped = FALSE
        /\ Whole(b, off, 0, r)
    BY <1>3, <1>9, <2>1, <2>4, WholeAtFirst DEF StartAt
  <2>6. x \in Readers(b) /\ x.cur = 0 /\ x.labels = <<>> /\ x.jumped = TRUE /\ x.next = n + 2
    BY <2>4 DEF Readers
  <2>7. Whole(b, off, 0 + 1, x)
    <3>1. PICK e \in Nat : e = n + 2
      OBVIOUS
    <3>2. /\ PointerLeads(b, r.cur, e, x.cur) /\ x.labels = r.labels /\ x.jumped
          /\ x.next = IF r.jumped THEN r.next ELSE e
      BY <2>3, <2>5, <2>6, <3>1
    <3>3. 0 \in Nat /\ r \in Readers(b) /\ x \in Readers(b) /\ Whole(b, off, 0, r)
      BY <2>5, <2>6
    <3> QED BY <1>3, <3>2, <3>3, WholePointer
  <2>8. 1 + m + 1 <= Steps(b) /\ 0 + 1 = 1 /\ 1 \in Nat
    <3>1. Steps(b) \in Nat
      BY <1>3, StepsType
    <3> QED BY <1>6, <1>8, <3>1
  <2>9. Whole(b, off, 1, x)
    BY <2>7, <2>8
  <2>10. ReadAs(b, off, ls)
    <3>1. PICK z \in Nat : z = 1
      OBVIOUS
    <3>2. z + Len(ls) + 1 <= Steps(b) /\ Whole(b, off, z, x)
      BY <1>6, <2>8, <2>9, <3>1
    <3>3. b \in Message /\ ls \in Seq(Texts)
      BY <1>3, <1>4
    <3> QED BY ONLY <1>5, <2>6, <3>2, <3>3, WrittenName
  <2> QED BY <1>2, <2>10
<1> QED BY <1>10, <1>11 DEF Asks

-----------------------------------------------------------------------------
(* The zone a name is answered from. *)

\* z is n, or what stands behind one of its dots.
LEMMA WithinIsEnd ==
  ASSUME NEW n \in Texts, NEW z \in Texts
  PROVE  Within(n, z) <=>
           Ends(z, n) /\ (Len(z) = Len(n) \/ (Len(z) < Len(n) /\ n[Len(n) - Len(z)] = "."))
<1>1. PICK u, v, w : u = Len(n) /\ v = Len(z) /\ w = Root \o z
  OBVIOUS
<1>2. u \in Nat /\ v \in Nat
  BY <1>1 DEF Texts
<1>3. /\ w \in Texts /\ Len(w) = 1 + v /\ w[1] = "."
      /\ \A i \in 1 .. v : w[1 + i] = z[i]
  <2>1. /\ w \in Texts /\ Len(w) = Len(Root) + Len(z)
        /\ \A i \in 1 .. Len(Root) : w[i] = Root[i]
        /\ \A i \in 1 .. Len(z) : w[Len(Root) + i] = z[i]
    BY <1>1, RootText, TextParts
  <2>2. 1 \in 1 .. 1
    OBVIOUS
  <2> QED BY <1>1, <2>1, <2>2, RootText
<1>4. Ends(w, n) <=> Ends(z, n) /\ v < u /\ n[u - v] = "."
  <2>1. Ends(w, n) <=> 1 + v <= u /\ \A i \in 1 .. 1 + v : n[u - (1 + v) + i] = w[i]
    BY <1>1, <1>3 DEF Ends
  <2>2. Ends(z, n) <=> v <= u /\ \A i \in 1 .. v : n[u - v + i] = z[i]
    BY <1>1 DEF Ends
  <2>3. /\ 1 \in 1 .. 1 + v /\ u - (1 + v) + 1 = u - v
        /\ \A i \in 1 .. v : 1 + i \in 1 .. 1 + v /\ u - (1 + v) + (1 + i) = u - v + i
        /\ \A i \in 1 .. 1 + v : i = 1 \/ (i - 1 \in 1 .. v /\ 1 + (i - 1) = i)
    BY <1>2
  <2>4. ASSUME Ends(w, n) PROVE Ends(z, n) /\ v < u /\ n[u - v] = "."
    <3>1. 1 + v <= u /\ \A i \in 1 .. 1 + v : n[u - (1 + v) + i] = w[i]
      BY <2>1, <2>4
    <3>2. n[u - v] = "."
      BY <1>3, <2>3, <3>1
    <3>3. \A i \in 1 .. v : n[u - v + i] = z[i]
      <4> TAKE i \in 1 .. v
      <4>1. PICK j : j = 1 + i
        OBVIOUS
      <4>2. j \in 1 .. 1 + v /\ u - (1 + v) + j = u - v + i /\ w[j] = z[i]
        BY <1>3, <2>3, <4>1
      <4> QED BY <3>1, <4>2
    <3>4. v <= u /\ v < u
      BY <1>2, <3>1
    <3> QED BY <2>2, <3>2, <3>3, <3>4
  <2>5. ASSUME Ends(z, n), v < u, n[u - v] = "." PROVE Ends(w, n)
    <3>1. \A i \in 1 .. v : n[u - v + i] = z[i]
      BY <2>2, <2>5
    <3>2. ASSUME NEW i \in 1 .. 1 + v PROVE n[u - (1 + v) + i] = w[i]
      <4>1. CASE i = 1
        BY <1>3, <2>3, <2>5, <4>1
      <4>2. CASE i # 1
        <5>1. PICK j : j = i - 1
          OBVIOUS
        <5>2. j \in 1 .. v /\ 1 + j = i
          BY <2>3, <4>2, <5>1
        <5>3. u - (1 + v) + i = u - v + j /\ w[i] = z[j]
          BY <1>3, <2>3, <5>2
        <5> QED BY <3>1, <5>2, <5>3
      <4> QED BY <4>1, <4>2
    <3>3. 1 + v <= u
      BY <1>2, <2>5
    <3> QED BY <2>1, <3>2, <3>3
  <2> QED BY <2>4, <2>5
<1>5. IsSuffix(w, n) <=> Ends(w, n)
  BY <1>3, SuffixIsEnd DEF Texts
<1>6. n = z <=> Ends(z, n) /\ v = u
  <2>1. ASSUME n = z PROVE Ends(z, n) /\ v = u
    <3>1. \A i \in 1 .. u : u - u + i = i
      BY <1>2
    <3> QED BY <1>1, <1>2, <2>1, <3>1 DEF Ends
  <2>2. ASSUME Ends(z, n), v = u PROVE n = z
    <3>1. \A i \in 1 .. u : u - u + i = i
      BY <1>2
    <3>2. \A i \in 1 .. u : n[i] = z[i]
      BY <1>1, <2>2, <3>1 DEF Ends
    <3>3. n \in Seq(Chars) /\ z \in Seq(Chars) /\ Len(n) = Len(z)
          /\ \A i \in 1 .. Len(n) : n[i] = z[i]
      BY <1>1, <2>2, <3>2 DEF Texts
    <3> QED BY <3>3, SeqEqual
  <2> QED BY <2>1, <2>2
<1> QED BY <1>1, <1>4, <1>5, <1>6 DEF Within

\* The parts of a name put together one by one.
LEMMA Assembled ==
  ASSUME NEW n, Proper(n)
  PROVE  \E g : /\ g \in [1 .. Len(NameLabels(n)) -> Texts]
                /\ Flat(g, Dotted(NameLabels(n))) /\ g[Len(NameLabels(n))] = n
                /\ \A k \in 1 .. Len(NameLabels(n)) : g[k] = SubSeq(n, 1, Stops(n)[k])
<1>1. PICK ls, f, ps : ls = NameLabels(n) /\ f = Stops(n) /\ ps = Dotted(ls)
  OBVIOUS
<1>2. n \in Texts /\ Marks(n, ls, f) /\ ls \in Seq(Texts) /\ Len(ls) \in Nat \ {0}
  BY <1>1, NameMarks DEF Proper
<1>3. ps \in Seq(Texts) /\ Len(ps) = Len(ls) /\ Meet(n, f, ps, Len(ls))
  <2>1. Len(ls) # 0
    BY <1>2
  <2> QED BY <1>1, <1>2, <2>1, MarksMeet
<1>4. PICK h \in [1 .. Len(ls) -> Texts] : Flat(h, ps) /\ FlattenSeq(ps) = h[Len(ls)]
  <2>1. Len(ps) # 0 /\ ps \in Seq(Seq(Chars))
    BY <1>2, <1>3 DEF Texts
  <2>2. \E h \in [1 .. Len(ps) -> Seq(Chars)] : Flat(h, ps) /\ FlattenSeq(ps) = h[Len(ps)]
    BY <2>1, FlattenSteps
  <2> QED BY <1>3, <2>2 DEF Texts
<1>5. FlattenSeq(ps) = n
  BY <1>1, Rejoined DEF Proper
<1>6. \A k \in 1 .. Len(ls) : h[k] = SubSeq(n, 1, f[k])
  BY <1>3, <1>4 DEF Meet
<1> QED BY <1>1, <1>4, <1>5, <1>6

\* What a zone encloses label by label, the comparison of texts finds in it,
\* the root zone apart.
LEMMA EnclosesWithin ==
  ASSUME NEW n, Clean(n), NEW y, Clean(y), y # Root, Encloses(y, n)
  PROVE  Within(n, y)
<1>1. /\ n \in Texts /\ n # <<>> /\ n[Len(n)] = "."
      /\ y \in Texts /\ y # <<>> /\ y[Len(y)] = "."
  BY AbsoluteEnds DEF Clean
<1>2. PICK A, B : A = NameLabels(n) /\ B = NameLabels(y)
  OBVIOUS
<1>3. A \in Seq(Texts) /\ B \in Seq(Texts) /\ Ends(B, A)
  BY <1>1, <1>2, NameLabelsType, SuffixIsEnd DEF Encloses
<1>4. Proper(y)
  BY <1>1 DEF Proper
<1>5. PICK a \in Nat, b \in Nat, c \in Int : a = Len(A) /\ b = Len(B) /\ c = a - b
  BY <1>3, LenProperties
<1>6. b # 0 /\ c \in Nat /\ a = c + b /\ \A i \in 1 .. b : A[c + i] = B[i]
  <2>1. b # 0
    BY <1>1, <1>2, <1>5, NameMarks
  <2>2. b <= a
    BY <1>3, <1>5 DEF Ends
  <2> QED BY <1>3, <1>5, <2>1, <2>2 DEF Ends
<1>7. Proper(n)
  <2> SUFFICES ASSUME n = Root PROVE FALSE
    BY <1>1 DEF Proper
  <2>1. A = <<>>
    BY <1>2 DEF NameLabels
  <2>2. a = 0
    BY <1>5, <2>1
  <2> QED BY <1>6, <2>2
<1>8. CASE c = 0
  <2>1. A = B
    <3>1. \A i \in 1 .. b : 0 + i = i
      OBVIOUS
    <3>2. Len(A) = Len(B) /\ \A i \in 1 .. Len(A) : A[i] = B[i]
      BY <1>5, <1>6, <1>8, <3>1
    <3> QED BY <1>3, <3>2, SeqEqual
  <2>2. n = y
    BY <1>2, <1>4, <1>7, <2>1, Rejoined DEF Proper
  <2> QED BY <2>2 DEF Within
<1>9. CASE c # 0
  <2>1. PICK g : /\ g \in [1 .. a -> Texts] /\ Flat(g, Dotted(A)) /\ g[a] = n
                 /\ \A k \in 1 .. a : g[k] = SubSeq(n, 1, Stops(n)[k])
    BY <1>2, <1>5, <1>7, Assembled
  <2>2. PICK h : h \in [1 .. b -> Texts] /\ Flat(h, Dotted(B)) /\ h[b] = y
    BY <1>2, <1>4, <1>5, Assembled
  <2>3. PICK P, Q : P = Dotted(A) /\ Q = Dotted(B)
    OBVIOUS
  <2>4. /\ Len(P) = a /\ Len(Q) = b
        /\ \A i \in 1 .. b : P[c + i] = Q[i]
        /\ \A i \in 1 .. b : Q[i] \in Texts
    <3>1. DOMAIN A = 1 .. a /\ DOMAIN B = 1 .. b
      BY <1>3, <1>5, LenProperties
    <3>2. Marks(n, A, Stops(n)) /\ Marks(y, B, Stops(y))
      BY <1>2, <1>4, <1>7, NameMarks DEF Proper
    <3>3. Len(A) # 0 /\ Len(B) # 0
      BY <1>5, <1>6
    <3>4. /\ P \in Seq(Texts) /\ Len(P) = Len(A)
          /\ Q \in Seq(Texts) /\ Len(Q) = Len(B)
      BY <1>1, <1>3, <2>3, <3>2, <3>3, MarksMeet
    <3>5. \A i \in 1 .. b : c + i \in 1 .. a
      BY <1>5, <1>6
    <3>6. \A i \in 1 .. b : P[c + i] = A[c + i] \o Root /\ Q[i] = B[i] \o Root
      BY <2>3, <3>1, <3>5 DEF Dotted
    <3>7. \A i \in 1 .. b : Q[i] \in Texts
      BY <1>5, <3>4, ElementOfSeq
    <3>8. \A i \in 1 .. b : P[c + i] = Q[i]
      <4> TAKE i \in 1 .. b
      <4>1. PICK l : l = B[i]
        OBVIOUS
      <4>2. A[c + i] = l
        BY <1>6, <4>1
      <4> QED BY <3>6, <4>1, <4>2
    <3>9. Len(P) = a /\ Len(Q) = b
      BY <1>5, <3>4
    <3> QED BY <3>7, <3>8, <3>9
  <2>5. /\ h[1] = Q[1] /\ \A i \in 2 .. b : h[i] = h[i - 1] \o Q[i]
        /\ \A i \in 2 .. a : g[i] = g[i - 1] \o P[i]
    BY <2>1, <2>2, <2>3, <2>4 DEF Flat
  <2>6. PICK x : x = g[c]
    OBVIOUS
  <2>7. c \in 1 .. a /\ x \in Texts
    <3>1. c \in 1 .. a
      BY <1>5, <1>6, <1>9
    <3> QED BY <2>1, <2>6, <3>1
  <2> DEFINE Bad == {i \in 1 .. b : g[c + i] # x \o h[i]}
  <2>8. Bad = {}
    <3> SUFFICES ASSUME Bad # {} PROVE FALSE
      OBVIOUS
    <3>1. Bad \subseteq Nat
      OBVIOUS
    <3>2. PICK i \in Bad : \A j \in Bad : i <= j
      <4> HIDE DEF Bad
      <4> QED BY <3>1, HasLeast
    <3>3. i \in 1 .. b /\ g[c + i] # x \o h[i]
      BY <3>2
    <3>4. c + i \in 2 .. a /\ (c + i) - 1 = c + (i - 1)
      BY <1>5, <1>6, <1>9, <3>3
    <3>5. g[c + i] = g[c + (i - 1)] \o Q[i]
      BY <2>4, <2>5, <3>3, <3>4
    <3>6. CASE i = 1
      <4>1. c + (i - 1) = c
        BY <1>6, <3>6
      <4> QED BY <2>5, <2>6, <3>3, <3>5, <3>6, <4>1
    <3>7. CASE i # 1
      <4>1. i \in 2 .. b /\ i - 1 \in 1 .. b /\ ~(i <= i - 1)
        BY <3>3, <3>7
      <4>2. g[c + (i - 1)] = x \o h[i - 1]
        BY <3>2, <4>1
      <4>3. h[i - 1] \in Seq(Chars) /\ Q[i] \in Seq(Chars) /\ x \in Seq(Chars)
        BY <2>2, <2>4, <2>7, <3>3, <4>1 DEF Texts
      <4>4. PICK p \in Seq(Chars), q \in Seq(Chars), u \in Seq(Chars) :
              p = h[i - 1] /\ q = Q[i] /\ u = x
        BY <4>3
      <4>5. (u \o p) \o q = u \o (p \o q)
        BY ONLY TextsAssociate
      <4>6. h[i] = p \o q
        BY <2>5, <3>3, <4>1, <4>4
      <4>7. g[c + i] = (u \o p) \o q
        BY <3>5, <4>2, <4>4
      <4> QED BY ONLY <3>3, <4>4, <4>5, <4>6, <4>7
    <3> QED BY <3>6, <3>7
  <2>9. n = x \o y
    <3>1. b \in 1 .. b
      BY <1>6
    <3> QED BY <1>6, <2>1, <2>2, <2>8, <3>1
  <2>10. PICK f : f = Stops(n)
    OBVIOUS
  <2>11. Len(x) \in Nat \ {0} /\ n[Len(x)] = "."
    <3>1. Marks(n, A, f)
      BY <1>2, <1>7, <2>10, NameMarks DEF Proper
    <3>2. /\ f \in [0 .. a -> 0 .. Len(n)] /\ f[c - 1] < f[c] /\ n[f[c]] = "."
      BY <1>5, <2>7, <3>1 DEF Marks
    <3>3. PICK i, j : i = f[c - 1] /\ j = f[c]
      OBVIOUS
    <3>4. i \in 0 .. Len(n) /\ j \in 0 .. Len(n) /\ Len(n) \in Nat
      <4>1. c - 1 \in 0 .. a /\ c \in 0 .. a
        BY <1>5, <2>7
      <4> QED BY <1>1, <3>2, <3>3, <4>1 DEF Texts
    <3>5. j \in Nat \ {0} /\ n[j] = "." /\ \A k \in 1 .. j : k \in 1 .. Len(n)
      BY <3>2, <3>3, <3>4
    <3>6. x = SubSeq(n, 1, j)
      BY <2>1, <2>6, <2>7, <2>10, <3>3
    <3>7. \A k \in 1 .. j : n[k] \in Chars
      BY <1>1, <3>5, ElementOfSeq DEF Texts
    <3>8. Len(SubSeq(n, 1, j)) = IF 1 <= j THEN j - 1 + 1 ELSE 0
      BY <3>5, <3>7, SubSeqProperties
    <3>9. (IF 1 <= j THEN j - 1 + 1 ELSE 0) = j
      BY <3>5
    <3> QED BY <3>5, <3>6, <3>8, <3>9
  <2>12. /\ Len(n) = Len(x) + Len(y)
         /\ \A i \in 1 .. Len(y) : n[Len(x) + i] = y[i]
    BY <1>1, <2>7, <2>9, TextParts
  <2>13. PICK u, v, w : u = Len(n) /\ v = Len(y) /\ w = Len(x)
    OBVIOUS
  <2>14. u = w + v /\ w \in Nat \ {0} /\ v \in Nat
    BY <1>1, <2>11, <2>12, <2>13 DEF Texts
  <2>15. v <= u /\ v < u /\ u - v = w
    BY <2>14
  <2>16. Ends(y, n) /\ n[u - v] = "."
    BY <2>11, <2>12, <2>13, <2>15 DEF Ends
  <2> QED BY <1>1, <2>13, <2>15, <2>16, WithinIsEnd
<1> QED BY <1>8, <1>9

\* Of the zones a name is in, find_zone_by_name finds the deepest.
LEMMA FoundZone ==
  ASSUME NEW zones, \A z \in zones : Clean(z), NEW n, Clean(n),
         NEW own \in zones, Within(n, own)
  PROVE  \E z \in zones : /\ FindZone(zones, n) = {z} /\ Encloses(z, n)
                          /\ \A y \in zones : Encloses(y, n) => Encloses(y, z)
<1> DEFINE around == {z \in zones : Within(n, z)}
           lengths == {Len(z) : z \in around}
<1>1. n \in Texts /\ Len(n) \in Nat /\ Lower(n) = n
  BY LowerFixed DEF Clean, Texts
<1>2. \A z \in around : z \in Texts /\ Len(z) \in Nat
  BY DEF Clean, Texts
<1>3. \A z \in around :
        /\ Ends(z, n)
        /\ Len(z) = Len(n) \/ (Len(z) < Len(n) /\ n[Len(n) - Len(z)] = ".")
  BY <1>1, <1>2, WithinIsEnd
<1>4. \A z \in around : Len(z) <= Len(n)
  BY <1>3 DEF Ends
<1>5. PICK z \in around : \A y \in around : Len(y) <= Len(z)
  <2>1. lengths \subseteq Nat /\ lengths # {} /\ \A i \in lengths : i <= Len(n)
    BY <1>2, <1>4
  <2>2. \E i \in lengths : \A j \in lengths : j <= i
    <3> HIDE DEF lengths
    <3> QED BY <1>1, <2>1, HasGreatest
  <2> QED BY <2>2
<1>6. Clean(z) /\ z \in Texts /\ z \in zones /\ Within(n, z)
  BY <1>2
<1>7. ASSUME NEW y \in around PROVE Within(z, y)
  <2>1. PICK u, v, w : u = Len(n) /\ v = Len(z) /\ w = Len(y)
    OBVIOUS
  <2>2. u \in Nat /\ v \in Nat /\ w \in Nat /\ w <= v /\ v <= u
    BY <1>1, <1>2, <1>4, <1>5, <2>1
  <2>3. /\ \A i \in 1 .. v : n[u - v + i] = z[i]
        /\ \A i \in 1 .. w : n[u - w + i] = y[i]
        /\ w = u \/ n[u - w] = "."
    BY <1>3, <2>1 DEF Ends
  <2>4. \A i \in 0 .. w : u - v + (v - w + i) = u - w + i
    BY <2>2
  <2>5. \A i \in 1 .. w : z[v - w + i] = y[i]
    <3> TAKE i \in 1 .. w
    <3>1. PICK j : j = v - w + i
      OBVIOUS
    <3>2. j \in 1 .. v /\ u - v + j = u - w + i
      BY <2>2, <2>4, <3>1
    <3> QED BY <2>3, <3>1, <3>2
  <2>6. CASE w = v
    BY <1>2, <1>6, <2>1, <2>2, <2>5, <2>6, WithinIsEnd DEF Ends
  <2>7. CASE w # v
    <3>1. PICK j : j = v - w
      OBVIOUS
    <3>2. j \in 1 .. v /\ u - v + j = u - w /\ w # u
      BY <2>2, <2>7, <3>1
    <3>3. z[j] = "."
      BY <2>3, <3>2
    <3>4. w < v
      BY <2>2, <2>7
    <3>5. Ends(y, z)
      BY <2>1, <2>2, <2>5 DEF Ends
    <3> QED BY <1>2, <1>6, <2>1, <3>1, <3>3, <3>4, <3>5, WithinIsEnd
  <2> QED BY <2>6, <2>7
<1>8. ASSUME NEW y \in around, Len(y) = Len(z) PROVE y = z
  <2>1. Within(n, z) /\ Within(n, y) /\ y \in Texts
    BY <1>2, <1>6
  <2>2. Ends(z, n) /\ Ends(y, n)
    BY <1>3
  <2>3. \A i \in 1 .. Len(z) : z[i] = y[i]
    BY <1>8, <2>2 DEF Ends
  <2>4. y \in Seq(Chars) /\ z \in Seq(Chars) /\ \A i \in 1 .. Len(y) : y[i] = z[i]
    BY <1>6, <1>8, <2>1, <2>3 DEF Texts
  <2> QED BY <1>8, <2>4, SeqEqual
<1>9. FindZone(zones, n) = {z}
  <2>1. FindZone(zones, n) = {x \in around : \A y \in around : Len(y) <= Len(x)}
    BY <1>1 DEF FindZone
  <2>2. ASSUME NEW x \in around, \A y \in around : Len(y) <= Len(x) PROVE x = z
    <3>1. Len(z) <= Len(x) /\ Len(x) <= Len(z) /\ Len(x) \in Nat /\ Len(z) \in Nat
      BY <1>2, <1>5, <2>2
    <3>2. Len(x) = Len(z)
      BY <3>1
    <3> QED BY <1>8, <3>2
  <2> HIDE DEF around
  <2> QED BY <1>5, <2>1, <2>2
<1>10. Encloses(z, n)
  BY <1>6, WithinEncloses
<1>11. ASSUME NEW y \in zones, Encloses(y, n) PROVE Encloses(y, z)
  <2>1. CASE y = Root
    <3>1. NameLabels(y) = <<>> /\ NameLabels(z) \in Seq(Texts)
      BY <1>6, <2>1, NameLabelsType DEF NameLabels
    <3>2. PICK A, B : A = NameLabels(z) /\ B = NameLabels(y)
      OBVIOUS
    <3>3. A \in Seq(Texts) /\ B \in Seq(Texts) /\ Len(B) = 0 /\ Len(A) \in Nat
      BY <3>1, <3>2
    <3>4. Ends(B, A)
      BY <3>3 DEF Ends
    <3> QED BY <3>2, <3>3, <3>4, SuffixIsEnd DEF Encloses
  <2>2. CASE y # Root
    <3>1. Within(n, y)
      BY <1>11, <2>2, EnclosesWithin
    <3>2. y \in around
      BY <3>1
    <3>3. Within(z, y)
      BY <1>7, <3>2
    <3> QED BY <1>6, <3>3, WithinEncloses
  <2> QED BY <2>1, <2>2
<1> QED BY <1>6, <1>9, <1>10, <1>11

\* What was asked for stands in the message, in the spelling it was asked in.
AInv ==
  field.asked # <<>> =>
    \E d \in stored : \E s \in Spellings(d.name) : \E c \in EncodeName(s) :
      d.kind = "owner" /\ d.name = field.asked /\ Asks(buf, field.off, c)

LEMMA AInvStep ==
  ASSUME DInv, AInv, [NNext]_nvars
  PROVE  AInv'
<1>1. ASSUME stored \subseteq stored', buf' = buf,
             field'.asked = field.asked, field'.off = field.off
      PROVE  AInv'
  BY <1>1 DEF AInv
<1>2. ASSUME field'.asked = <<>> PROVE AInv'
  BY <1>2 DEF AInv
<1>3. CASE CreateZone
  BY <1>1, <1>3 DEF CreateZone, readVars
<1>4. CASE StoreRecord
  BY <1>1, <1>4 DEF StoreRecord, readVars
<1>5. CASE Ask
  <2>1. PICK d \in stored : \E s \in Spellings(d.name) : \E c \in EncodeName(s) :
          /\ d.kind = "owner"
          /\ \/ Receive(c, 0, d.name)
             \/ Receive(c \o <<3 * Low, 0>>, Len(c), d.name)
    BY <1>5 DEF Ask
  <2>2. PICK s \in Spellings(d.name) : \E c \in EncodeName(s) :
          /\ d.kind = "owner"
          /\ \/ Receive(c, 0, d.name)
             \/ Receive(c \o <<3 * Low, 0>>, Len(c), d.name)
    BY <2>1
  <2>3. PICK c \in EncodeName(s) :
          /\ d.kind = "owner"
          /\ \/ Receive(c, 0, d.name)
             \/ Receive(c \o <<3 * Low, 0>>, Len(c), d.name)
    BY <2>2
  <2>4. /\ stored' = stored /\ field'.asked = d.name
        /\ Asks(buf', field'.off, c)
    BY <2>3 DEF Receive, Asks
  <2>5. d \in stored' /\ d.kind = "owner" /\ d.name = field'.asked
    BY <2>3, <2>4
  <2> QED BY <2>4, <2>5 DEF AInv
<1>6. CASE Garble
  BY <1>2, <1>6 DEF Garble, Receive
<1>7. CASE Read
  BY <1>1, <1>7 DEF Read, ReadEnd, ReadPointer, ReadLabel, ReadFails, Reading, readVars
<1>8. CASE Answer
  <2>1. PICK y : field' = [field EXCEPT !.zone = y] /\ stored' = stored /\ buf' = buf
    BY <1>8 DEF Answer
  <2>2. field = [off |-> field.off, asked |-> field.asked, zone |-> field.zone]
    BY DEF DInv
  <2>3. field'.asked = field.asked /\ field'.off = field.off
    BY <2>1, <2>2
  <2> QED BY <1>1, <2>1, <2>3
<1>9. CASE Finish
  BY <1>2, <1>9 DEF Finish, NoField
<1>10. CASE UNCHANGED nvars
  BY <1>1, <1>10 DEF nvars
<1> QED BY <1>3, <1>4, <1>5, <1>6, <1>7, <1>8, <1>9, <1>10 DEF NNext

\* The step of AnsweredFromItsZone.
LEMMA AnswerStep ==
  ASSUME NInv, DInv, AInv, Answer, field.asked # <<>>, Len(reader.labels) < MaxLabels
  PROVE  /\ NameRead = field.asked
         /\ \E z \in Zones :
              /\ field'.zone = {z} /\ Encloses(z, field.asked)
              /\ \A y \in Zones : Encloses(y, field.asked) => Encloses(y, z)
<1>1. PICK n : n = field.asked
  OBVIOUS
<1>2. PICK d \in stored : \E s \in Spellings(d.name) : \E c \in EncodeName(s) :
        d.kind = "owner" /\ d.name = n /\ Asks(buf, field.off, c)
  BY <1>1 DEF AInv
<1>3. PICK s \in Spellings(n) : \E c \in EncodeName(s) : Asks(buf, field.off, c)
  BY <1>2
<1>4. PICK c \in EncodeName(s) : Asks(buf, field.off, c)
  BY <1>3
<1>5. d.kind = "owner" /\ d.name = n /\ Legal(d)
  BY <1>2 DEF NInv
<1>6. Clean(n) /\ Clean(d.zone) /\ Within(n, d.zone)
  BY <1>5 DEF Legal
<1>7. n \in Texts /\ n # <<>> /\ n[Len(n)] = "." /\ IsLower(n)
  BY <1>6, AbsoluteEnds DEF Clean
<1>8. PICK e : NamesAt(buf, Steps(buf), field.off) = {[labels |-> NameLabels(n), end |-> e]}
  <2>1. PICK b, off : b = buf /\ off = field.off
    OBVIOUS
  <2>2. Asks(b, off, c) /\ s \in Spellings(n) /\ c \in EncodeName(s)
    BY <1>4, <2>1
  <2>3. ReadAs(b, off, NameLabels(n))
    BY ONLY <1>7, <2>2, AskedName
  <2> QED BY <2>1, <2>3 DEF ReadAs
<1>9. NamesAt(buf, Steps(buf), field.off) = {[labels |-> reader.labels, end |-> reader.next]}
  BY DEF DInv, Answer
<1>10. reader.labels = NameLabels(n)
  <2>1. [labels |-> NameLabels(n), end |-> e] = [labels |-> reader.labels, end |-> reader.next]
    BY <1>8, <1>9
  <2> QED BY <2>1
<1>11. NameRead = n
  <2>1. CASE n = Root
    <3>1. reader.labels = <<>>
      BY <1>10, <2>1 DEF NameLabels
    <3> QED BY <2>1, <3>1 DEF NameRead
  <2>2. CASE n # Root
    <3>1. NameLabels(n) # <<>> /\ FlattenSeq(Dotted(NameLabels(n))) = n
      BY <1>7, <2>2, Rejoined
    <3> QED BY <1>10, <3>1 DEF NameRead, Dotted
  <2> QED BY <2>1, <2>2
<1>12. \A z \in Zones : Clean(z)
  BY DEF Zones, NInv, Legal
<1>13. d.zone \in Zones
  BY DEF Zones
<1>14. PICK z \in Zones : /\ FindZone(Zones, n) = {z} /\ Encloses(z, n)
                          /\ \A y \in Zones : Encloses(y, n) => Encloses(y, z)
  BY <1>6, <1>12, <1>13, FoundZone
<1>15. field'.zone = {z}
  <2>1. field' = [field EXCEPT !.zone = FindZone(Zones, NameRead)]
    BY DEF Answer
  <2>2. PICK y : y = {z}
    OBVIOUS
  <2>3. field' = [field EXCEPT !.zone = y]
    BY <1>11, <1>14, <2>1, <2>2
  <2>4. field = [off |-> field.off, asked |-> field.asked, zone |-> field.zone]
    BY DEF DInv
  <2> QED BY <2>2, <2>3, <2>4
<1> QED BY <1>1, <1>11, <1>14, <1>15

(***************************************************************************)
(* A query for a stored name, in any case and behind a pointer or not, is  *)
(* answered under that very name from the deepest zone that encloses it,   *)
(* for names, zones and messages of any length.                            *)
(***************************************************************************)
THEOREM AnsweredInvariant == NSpec => AnsweredFromItsZone
<1> DEFINE Answered ==
             status = "read" /\ status' = "answered" /\ field.asked # <<>>
               /\ Len(reader.labels) < MaxLabels =>
               /\ NameRead = field.asked
               /\ \E z \in Zones :
                    /\ field'.zone = {z} /\ Encloses(z, field.asked)
                    /\ \A y \in Zones : Encloses(y, field.asked) => Encloses(y, z)
<1>1. NInit => AInv
  BY DEF NInit, NoField, AInv
<1>2. NInv /\ DInv /\ AInv /\ [NNext]_nvars => AInv'
  BY AInvStep
<1>3. NInv /\ DInv /\ AInv /\ [NNext]_nvars => [Answered]_nvars
  <2> SUFFICES ASSUME NInv, DInv, AInv, NNext, status = "read", status' = "answered",
                      field.asked # <<>>, Len(reader.labels) < MaxLabels
               PROVE  Answered
    OBVIOUS
  <2>1. Answer
    BY DEF NNext, CreateZone, StoreRecord, Ask, Garble, Receive, Read, ReadEnd, ReadPointer,
           ReadLabel, ReadFails, Reading, Finish, Quiet
  <2> QED BY <2>1, AnswerStep
<1>4. NSpec => [][Answered]_nvars
  <2> HIDE DEF Answered
  <2> QED BY <1>1, <1>2, <1>3, StoredNamesInvariant, DecoderInvariant, PTL DEF NSpec
<1> QED BY <1>4 DEF AnsweredFromItsZone
=============================================================================
