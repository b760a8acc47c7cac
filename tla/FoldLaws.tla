------------------------------ MODULE FoldLaws ------------------------------
(***************************************************************************)
(* How a fold over a sequence is reasoned about.  A program that goes      *)
(* through a list is modelled by FoldLeft, which the library defines by a  *)
(* recursion over the sets of positions; the laws tell it as a history of  *)
(* intermediate results, one per element.  The operator that is folded is  *)
(* a parameter of the module: a proof takes the laws for its own operator  *)
(* with INSTANCE.                                                          *)
(***************************************************************************)
EXTENDS Naturals, SequencesExt, SequenceTheorems, FiniteSetTheorems, WellFoundedInduction

CONSTANT Then(_, _, _)   \* what an element makes of the result so far, in a context

Folded(context, base, q) == FoldLeft(LAMBDA r, e : Then(context, r, e), base, q)

-----------------------------------------------------------------------------
(* Induction over a number *)

\* A non-empty set of natural numbers has a least one.
LEMMA LeastOf ==
  ASSUME NEW S \in SUBSET Nat, S # {}
  PROVE  \E x \in S : \A y \in S : x <= y
<1> DEFINE T == {0..x : x \in S}
<1>1. T \subseteq FiniteSubsetsOf(Nat) /\ T # {}
  <2>1. \A x \in S : (0..x) \in SUBSET Nat /\ IsFiniteSet(0..x)
    BY FS_Interval
  <2> QED
    BY <2>1 DEF FiniteSubsetsOf
<1>2. \E t \in T : \A u \in T : <<u, t>> \notin StrictSubsetOrdering(Nat)
  <2>1. IsWellFoundedOn(StrictSubsetOrdering(Nat), FiniteSubsetsOf(Nat))
    BY FS_StrictSubsetOrderingWellFounded
  <2> HIDE DEF T
  <2> QED
    BY <1>1, <2>1, WFMin
<1>3. PICK x \in S : \A y \in S : <<0..y, 0..x>> \notin StrictSubsetOrdering(Nat)
  BY <1>2
<1>4. ASSUME NEW y \in S, y < x PROVE FALSE
  <2>1. (0..y) \in SUBSET Nat /\ (0..x) \in SUBSET Nat /\ (0..y) \subseteq (0..x)
    BY <1>4
  <2>2. x \in 0..x /\ x \notin 0..y
    BY <1>4
  <2> QED
    BY <1>3, <2>1, <2>2 DEF StrictSubsetOrdering
<1> QED
  BY <1>4

\* What holds of 0 and of the successor of each number before n holds up to n.
THEOREM UpTo ==
  ASSUME NEW n \in Nat, NEW S, 0 \in S, \A k \in 0 .. (n - 1) : k \in S => k + 1 \in S
  PROVE  \A k \in 0..n : k \in S
<1> SUFFICES ASSUME NEW m \in 0..n, m \notin S PROVE FALSE
  OBVIOUS
<1> DEFINE T == {k \in 0..n : k \notin S}
<1>1. PICK k \in T : \A l \in T : k <= l
  <2>1. T \in SUBSET Nat /\ T # {}
    OBVIOUS
  <2> HIDE DEF T
  <2> QED
    BY <2>1, LeastOf
<1>2. k \in 1..n /\ k \notin S
  BY <1>1
<1>3. k - 1 \in S
  BY <1>1, <1>2
<1> QED
  BY <1>2, <1>3

-----------------------------------------------------------------------------
(* Lists *)

IsList(s) == Len(s) \in Nat /\ s = [i \in 1..Len(s) |-> s[i]]

\* A list that grows is one, with the new element at its end.
LEMMA ListGrows ==
  ASSUME NEW s, NEW e, IsList(s)
  PROVE  /\ IsList(Append(s, e)) /\ Len(Append(s, e)) = Len(s) + 1
         /\ Append(s, e)[Len(s) + 1] = e
         /\ \A i \in 1..Len(s) : Append(s, e)[i] = s[i]
<1> DEFINE S == {s[i] : i \in 1..Len(s)} \cup {e}
<1>1. s \in [1..Len(s) -> S] /\ Len(s) \in Nat
  BY DEF IsList
<1>2. s \in Seq(S) /\ e \in S
  BY <1>1, ElementOfSeq, IsASeq
<1> HIDE DEF S
<1>3. /\ Append(s, e) \in Seq(S) /\ Len(Append(s, e)) = Len(s) + 1
      /\ Append(s, e)[Len(s) + 1] = e
      /\ \A i \in 1..Len(s) : Append(s, e)[i] = s[i]
  BY <1>2, AppendProperties
<1>4. IsList(Append(s, e))
  BY <1>3, LenProperties DEF IsList
<1> QED
  BY <1>3, <1>4

\* A function on the numbers up to one is a list.
LEMMA ListFrom ==
  ASSUME NEW n \in Nat, NEW s, s = [i \in 1..n |-> s[i]]
  PROVE  IsList(s) /\ Len(s) = n
<1> DEFINE S == {s[i] : i \in 1..n}
<1>1. s \in [1..n -> S]
  OBVIOUS
<1>2. s \in Seq(S)
  BY <1>1, IsASeq
<1> HIDE DEF S
<1>3. Len(s) \in Nat /\ DOMAIN s = 1..Len(s) /\ DOMAIN s = 1..n
  BY <1>1, <1>2, LenProperties
<1>4. Len(s) = n
  BY <1>3
<1> QED
  BY <1>4 DEF IsList

\* Two lists make one that holds the elements of both.
LEMMA ListsJoin ==
  ASSUME NEW s, NEW t, IsList(s), IsList(t)
  PROVE  /\ IsList(s \o t) /\ Len(s \o t) = Len(s) + Len(t)
         /\ \A i \in 1..Len(s) : (s \o t)[i] = s[i]
         /\ \A i \in 1..Len(t) : (s \o t)[Len(s) + i] = t[i]
<1> DEFINE S == {s[i] : i \in 1..Len(s)} \cup {t[i] : i \in 1..Len(t)}
<1>1. s \in [1..Len(s) -> S] /\ t \in [1..Len(t) -> S] /\ Len(s) \in Nat /\ Len(t) \in Nat
  BY DEF IsList
<1>2. s \in Seq(S) /\ t \in Seq(S)
  BY <1>1, ElementOfSeq, IsASeq
<1> HIDE DEF S
<1>3. /\ s \o t \in Seq(S) /\ Len(s \o t) = Len(s) + Len(t)
      /\ \A i \in 1..Len(s) + Len(t) :
           (s \o t)[i] = IF i <= Len(s) THEN s[i] ELSE t[i - Len(s)]
  BY <1>2, ConcatProperties
<1>4. IsList(s \o t)
  BY <1>3, LenProperties DEF IsList
<1>5. \A i \in 1..Len(t) : (s \o t)[Len(s) + i] = t[i]
  <2> TAKE i \in 1..Len(t)
  <2>1. Len(s) + i \in 1..Len(s) + Len(t) /\ ~(Len(s) + i <= Len(s)) /\ (Len(s) + i) - Len(s) = i
    BY <1>1
  <2> QED
    BY <1>3, <2>1
<1> QED
  BY <1>1, <1>3, <1>4, <1>5

-----------------------------------------------------------------------------
(* The history of a fold *)

\* g has what is folded by the recursion for each set of positions up to n.
Solves(g, c, base, q, n) ==
  g = [s \in SUBSET (1..n) |-> IF s = {} THEN base ELSE Then(c, g[s \ {Max(s)}], q[Max(s)])]

\* The recursion by which the fold is defined has a solution on the positions
\* up to each number.
LEMMA Solvable ==
  ASSUME NEW c, NEW base, NEW q, NEW n \in Nat
  PROVE  \E g : Solves(g, c, base, q, n)
<1> DEFINE Of(g, s) == IF s = {} THEN base ELSE Then(c, g[s \ {Max(s)}], q[Max(s)])
           K == {k \in 0..n : \E g : g = [s \in SUBSET (1..k) |-> Of(g, s)]}
<1>1. 0 \in K
  <2> DEFINE g == [s \in SUBSET (1..0) |-> base]
  <2>1. \A s \in SUBSET (1..0) : s = {}
    OBVIOUS
  <2>2. g = [s \in SUBSET (1..0) |-> Of(g, s)]
    BY <2>1
  <2> HIDE DEF g
  <2> QED
    BY <2>2
<1>2. ASSUME NEW k \in 0 .. (n - 1), k \in K PROVE k + 1 \in K
  <2>1. PICK g : g = [s \in SUBSET (1..k) |-> Of(g, s)]
    BY <1>2
  <2> DEFINE h == [s \in SUBSET (1..(k + 1)) |->
                     IF k + 1 \in s THEN Then(c, g[s \ {k + 1}], q[k + 1]) ELSE g[s]]
  <2>2. ASSUME NEW s \in SUBSET (1..(k + 1)) PROVE h[s] = Of(h, s)
    <3>1. CASE k + 1 \in s
      <4>1. Max(s) = k + 1
        <5>1. \A y \in s : k + 1 >= y
          OBVIOUS
        <5>2. \A x \in s : (\A y \in s : x >= y) => x = k + 1
          BY <3>1, <5>1
        <5> QED
          BY <3>1, <5>1, <5>2 DEF Max
      <4>2. s \ {k + 1} \in SUBSET (1..(k + 1)) /\ k + 1 \notin s \ {k + 1}
        OBVIOUS
      <4>3. h[s \ {k + 1}] = g[s \ {k + 1}]
        BY <4>2
      <4> QED
        BY <3>1, <4>1, <4>3
    <3>2. CASE k + 1 \notin s
      <4>1. s \in SUBSET (1..k)
        <5>1. \A y \in s : y \in 1..(k + 1) /\ y # k + 1
          BY <3>2
        <5> QED
          BY <5>1
      <4>2. s \ {Max(s)} \in SUBSET (1..(k + 1)) /\ k + 1 \notin s \ {Max(s)}
        BY <3>2
      <4>3. h[s \ {Max(s)}] = g[s \ {Max(s)}]
        BY <4>2
      <4>4. g[s] = Of(g, s)
        BY <2>1, <4>1
      <4> QED
        BY <3>2, <4>3, <4>4
    <3> QED
      BY <3>1, <3>2
  <2>3. h = [s \in SUBSET (1..(k + 1)) |-> Of(h, s)]
    BY <2>2
  <2>4. k + 1 \in 0..n
    OBVIOUS
  <2> HIDE DEF h
  <2>5. \E g2 : g2 = [s \in SUBSET (1..(k + 1)) |-> Of(g2, s)]
    BY <2>3
  <2> HIDE DEF Of
  <2> QED
    BY <2>4, <2>5
<1>3. n \in K
  <2> HIDE DEF K
  <2> QED
    BY <1>1, <1>2, UpTo
<1>4. PICK g : g = [s \in SUBSET (1..n) |-> Of(g, s)]
  BY <1>3
<1> QED
  BY <1>4 DEF Solves

\* The results a fold comes to, each made of the one before by the next element.
History(r, c, base, q) ==
  r[0] = base /\ \A i \in 1..Len(q) : r[i] = Then(c, r[i - 1], q[i])

\* A fold is the last of the results of its history.
THEOREM Unfolds ==
  ASSUME NEW c, NEW base, NEW q, Len(q) \in Nat, DOMAIN q = 1..Len(q)
  PROVE  \E r : History(r, c, base, q) /\ Folded(c, base, q) = r[Len(q)]
<1> DEFINE iter == CHOOSE g : Solves(g, c, base, q, Len(q))
           r == [i \in 0..Len(q) |-> iter[1..i]]
<1>1. Folded(c, base, q) = iter[DOMAIN q]
  BY DEF Folded, FoldLeft, MapThenFoldSet, Solves
<1>2. \E g : Solves(g, c, base, q, Len(q))
  BY Solvable
<1>3. iter = [s \in SUBSET DOMAIN q |->
                IF s = {} THEN base ELSE Then(c, iter[s \ {Max(s)}], q[Max(s)])]
  <2>1. Solves(iter, c, base, q, Len(q))
    BY <1>2
  <2> HIDE DEF iter
  <2> QED
    BY <2>1 DEF Solves
<1> HIDE DEF iter
<1>4. r[0] = base
  <2>1. 1..0 = {} /\ {} \in SUBSET DOMAIN q
    OBVIOUS
  <2> QED
    BY <1>3, <2>1
<1>5. ASSUME NEW i \in 1..Len(q) PROVE r[i] = Then(c, r[i - 1], q[i])
  <2>1. Max(1..i) = i
    <3>1. i \in 1..i /\ \A y \in 1..i : i >= y
      OBVIOUS
    <3>2. \A x \in 1..i : (\A y \in 1..i : x >= y) => x = i
      OBVIOUS
    <3> QED
      BY <3>1, <3>2 DEF Max
  <2>2. (1..i) \ {i} = 1..(i - 1) /\ 1..i # {} /\ 1..i \in SUBSET DOMAIN q
    <3>1. \A j : j \in (1..i) \ {i} <=> j \in 1..(i - 1)
      OBVIOUS
    <3>2. i \in 1..i /\ \A j \in 1..i : j \in 1..Len(q)
      OBVIOUS
    <3> QED
      BY <3>1, <3>2
  <2>3. iter[1..i] = Then(c, iter[1..(i - 1)], q[i])
    BY <1>3, <2>1, <2>2
  <2> QED
    BY <2>3
<1>6. Folded(c, base, q) = r[Len(q)]
  BY <1>1
<1> HIDE DEF r
<1> QED
  BY <1>4, <1>5, <1>6 DEF History

\* The fold over a list that has grown takes the step for the new element from
\* where the fold over the list was.
THEOREM Grows ==
  ASSUME NEW c, NEW base, NEW p, NEW q, Len(p) \in Nat, DOMAIN p = 1..Len(p),
         Len(q) = Len(p) + 1, DOMAIN q = 1..Len(q), \A i \in 1..Len(p) : q[i] = p[i]
  PROVE  Folded(c, base, q) = Then(c, Folded(c, base, p), q[Len(q)])
<1>1. PICK r : History(r, c, base, p) /\ Folded(c, base, p) = r[Len(p)]
  BY Unfolds
<1>2. PICK t : History(t, c, base, q) /\ Folded(c, base, q) = t[Len(q)]
  BY Unfolds
<1> DEFINE Same == {k \in 0..Len(p) : r[k] = t[k]}
<1>3. 0 \in Same
  BY <1>1, <1>2 DEF History
<1>4. ASSUME NEW k \in 0 .. (Len(p) - 1), k \in Same PROVE k + 1 \in Same
  <2>1. k + 1 \in 1..Len(p) /\ k + 1 \in 1..Len(q) /\ (k + 1) - 1 = k /\ r[k] = t[k]
    BY <1>4
  <2>2. r[k + 1] = Then(c, r[k], p[k + 1]) /\ t[k + 1] = Then(c, t[k], q[k + 1])
    BY <1>1, <1>2, <2>1 DEF History
  <2> QED
    BY <2>1, <2>2
<1>5. Len(p) \in Same
  <2> HIDE DEF Same
  <2> QED
    BY <1>3, <1>4, UpTo
<1>6. t[Len(q)] = Then(c, t[Len(p)], q[Len(q)])
  BY <1>2 DEF History
<1> QED
  BY <1>1, <1>2, <1>5, <1>6

\* The fold over an empty list is where it began.
THEOREM Begins == ASSUME NEW c, NEW base PROVE Folded(c, base, <<>>) = base
<1>1. PICK r : History(r, c, base, <<>>) /\ Folded(c, base, <<>>) = r[0]
  BY Unfolds
<1> QED
  BY <1>1 DEF History

-----------------------------------------------------------------------------
(* Sums over finite sets *)

Picked(s) == CHOOSE x \in s : TRUE

\* g has the sum of f over each part of S of at most k elements.
Adds(g, f, S, k) ==
  /\ g = [s \in SUBSET S |-> g[s]]
  /\ \A s \in SUBSET S :
       Cardinality(s) <= k => g[s] = IF s = {} THEN 0 ELSE f[Picked(s)] + g[s \ {Picked(s)}]

LEMMA Smaller ==
  ASSUME NEW s, IsFiniteSet(s), s # {}
  PROVE  /\ Picked(s) \in s /\ IsFiniteSet(s \ {Picked(s)})
         /\ Cardinality(s) \in Nat \ {0} /\ Cardinality(s \ {Picked(s)}) = Cardinality(s) - 1
<1>1. Picked(s) \in s
  BY DEF Picked
<1>2. /\ IsFiniteSet(s \ {Picked(s)}) /\ Cardinality(s) \in Nat /\ Cardinality(s) # 0
      /\ Cardinality(s \ {Picked(s)}) = Cardinality(s) - 1
  BY <1>1, FS_RemoveElement, FS_CardinalityType, FS_EmptySet
<1> QED
  BY <1>1, <1>2

LEMMA PartsCounted ==
  ASSUME NEW S, IsFiniteSet(S)
  PROVE  /\ Cardinality(S) \in Nat
         /\ \A s \in SUBSET S :
              /\ IsFiniteSet(s) /\ Cardinality(s) \in Nat /\ Cardinality(s) <= Cardinality(S)
              /\ Cardinality(s) = 0 <=> s = {}
              /\ s # {} => /\ s \ {Picked(s)} \in SUBSET S
                           /\ Cardinality(s \ {Picked(s)}) = Cardinality(s) - 1
<1>1. Cardinality(S) \in Nat
  BY FS_CardinalityType
<1>2. ASSUME NEW s \in SUBSET S
      PROVE  IsFiniteSet(s) /\ Cardinality(s) \in Nat /\ Cardinality(s) <= Cardinality(S)
             /\ (Cardinality(s) = 0 <=> s = {})
  BY FS_Subset, FS_CardinalityType, FS_EmptySet
<1>3. ASSUME NEW s \in SUBSET S, s # {} PROVE Cardinality(s \ {Picked(s)}) = Cardinality(s) - 1
  <2>1. IsFiniteSet(s)
    BY <1>2
  <2> QED
    BY <1>3, <2>1, Smaller
<1> QED
  BY <1>1, <1>2, <1>3

\* What holds of the empty set and of a set if it holds of the set without the
\* element picked first holds of every finite set.
LEMMA ByPicking ==
  ASSUME NEW S, IsFiniteSet(S), NEW Z, {} \in Z,
         \A s \in SUBSET S : s # {} /\ s \ {Picked(s)} \in Z => s \in Z
  PROVE  S \in Z
<1> DEFINE K == {k \in 0..Cardinality(S) : \A s \in SUBSET S : Cardinality(s) = k => s \in Z}
<1>1. /\ Cardinality(S) \in Nat
      /\ \A s \in SUBSET S :
           /\ Cardinality(s) \in Nat /\ (Cardinality(s) = 0 <=> s = {})
           /\ s # {} => /\ s \ {Picked(s)} \in SUBSET S
                        /\ Cardinality(s \ {Picked(s)}) = Cardinality(s) - 1
  BY PartsCounted
<1>2. 0 \in K
  <2>1. ASSUME NEW s \in SUBSET S, Cardinality(s) = 0 PROVE s \in Z
    <3>1. s = {}
      BY <1>1, <2>1
    <3> QED
      BY <3>1
  <2> QED
    BY <1>1, <2>1
<1>3. ASSUME NEW k \in 0 .. (Cardinality(S) - 1), k \in K PROVE k + 1 \in K
  <2>1. ASSUME NEW s \in SUBSET S, Cardinality(s) = k + 1 PROVE s \in Z
    <3>1. Cardinality(s) # 0
      BY <2>1
    <3>2. s # {}
      BY <1>1, <3>1
    <3>3. Cardinality(s \ {Picked(s)}) = k
      BY <1>1, <2>1, <3>2
    <3>4. s \ {Picked(s)} \in Z
      BY <1>3, <3>3
    <3> QED
      BY <3>2, <3>4
  <2> QED
    BY <1>1, <2>1
<1>4. Cardinality(S) \in K
  <2> HIDE DEF K
  <2> QED
    BY <1>1, <1>2, <1>3, UpTo
<1> QED
  BY <1>4

LEMMA Addable ==
  ASSUME NEW f, NEW S, IsFiniteSet(S)
  PROVE  \E g : Adds(g, f, S, Cardinality(S))
<1> DEFINE K == {k \in 0..Cardinality(S) : \E g : Adds(g, f, S, k)}
<1>1. /\ Cardinality(S) \in Nat
      /\ \A s \in SUBSET S :
           /\ Cardinality(s) \in Nat /\ (Cardinality(s) = 0 <=> s = {})
           /\ s # {} => /\ s \ {Picked(s)} \in SUBSET S
                        /\ Cardinality(s \ {Picked(s)}) = Cardinality(s) - 1
  BY PartsCounted
<1>2. 0 \in K
  <2> DEFINE g == [s \in SUBSET S |-> 0]
  <2>1. ASSUME NEW s \in SUBSET S, Cardinality(s) <= 0 PROVE s = {}
    <3>1. Cardinality(s) \in Nat
      BY <1>1
    <3>2. Cardinality(s) = 0
      BY <2>1, <3>1
    <3> QED
      BY <1>1, <3>2
  <2>2. Adds(g, f, S, 0)
    BY <2>1 DEF Adds
  <2> HIDE DEF g
  <2> QED
    BY <1>1, <2>2
<1>3. ASSUME NEW k \in 0 .. (Cardinality(S) - 1), k \in K PROVE k + 1 \in K
  <2>1. PICK g : Adds(g, f, S, k)
    BY <1>3
  <2> DEFINE h == [s \in SUBSET S |->
                     IF s = {} THEN 0 ELSE f[Picked(s)] + g[s \ {Picked(s)}]]
  <2>2. ASSUME NEW s \in SUBSET S, Cardinality(s) <= k PROVE h[s] = g[s]
    BY <2>1, <2>2 DEF Adds
  <2>3. ASSUME NEW s \in SUBSET S, Cardinality(s) <= k + 1, s # {}
        PROVE  h[s] = f[Picked(s)] + h[s \ {Picked(s)}]
    <3>1. Cardinality(s \ {Picked(s)}) <= k /\ s \ {Picked(s)} \in SUBSET S
      BY <1>1, <2>3
    <3>2. h[s \ {Picked(s)}] = g[s \ {Picked(s)}]
      BY <2>2, <3>1
    <3> QED
      BY <2>3, <3>2
  <2>4. Adds(h, f, S, k + 1)
    <3>1. h = [s \in SUBSET S |-> h[s]] /\ ({} \in SUBSET S => h[{}] = 0)
      OBVIOUS
    <3> HIDE DEF h
    <3> QED
      BY <2>3, <3>1 DEF Adds
  <2> HIDE DEF h
  <2> QED
    BY <1>1, <2>4
<1>4. Cardinality(S) \in K
  <2> HIDE DEF K
  <2> QED
    BY <1>1, <1>2, <1>3, UpTo
<1> QED
  BY <1>4

\* The sum of a function is that of one value and of the rest.
THEOREM SumUnfolds ==
  ASSUME NEW f, IsFiniteSet(DOMAIN f)
  PROVE  \E g : /\ SumFunction(f) = g[DOMAIN f] /\ g[{}] = 0
                /\ \A s \in SUBSET DOMAIN f :
                     s # {} => Picked(s) \in s /\ g[s] = f[Picked(s)] + g[s \ {Picked(s)}]
<1> DEFINE D == DOMAIN f
           Of(g, s) == IF s = {} THEN 0 ELSE f[Picked(s)] + g[s \ {Picked(s)}]
           iter == CHOOSE g : g = [s \in SUBSET D |-> Of(g, s)]
<1>1. SumFunction(f) = iter[D]
  BY DEF SumFunction, SumFunctionOnSet, FoldFunctionOnSet, MapThenFoldSet, Picked
<1>2. PICK g : Adds(g, f, D, Cardinality(D))
  BY Addable
<1>3. \A s \in SUBSET D : Cardinality(s) <= Cardinality(D)
  BY FS_Subset
<1>4. g = [s \in SUBSET D |-> Of(g, s)]
  BY <1>2, <1>3 DEF Adds
<1>5. iter = [s \in SUBSET D |-> Of(iter, s)]
  <2> HIDE DEF Of
  <2> QED
    BY <1>4
<1> HIDE DEF iter
<1>6. iter[{}] = 0 /\ \A s \in SUBSET D : s # {} => iter[s] = f[Picked(s)] + iter[s \ {Picked(s)}]
  BY <1>5
<1>7. \A s \in SUBSET D : s # {} => Picked(s) \in s
  BY DEF Picked
<1> HIDE DEF Of
<1> QED
  BY <1>1, <1>6, <1>7

\* A sum of natural numbers is one, and is zero only if each of them is.
THEOREM SumOfNaturals ==
  ASSUME NEW f, IsFiniteSet(DOMAIN f), \A x \in DOMAIN f : f[x] \in Nat
  PROVE  SumFunction(f) \in Nat /\ (SumFunction(f) = 0 => \A x \in DOMAIN f : f[x] = 0)
<1> DEFINE D == DOMAIN f
<1>1. PICK g : /\ SumFunction(f) = g[D] /\ g[{}] = 0
               /\ \A s \in SUBSET D :
                    s # {} => Picked(s) \in s /\ g[s] = f[Picked(s)] + g[s \ {Picked(s)}]
  BY SumUnfolds
<1> DEFINE Z == {s \in SUBSET D : g[s] \in Nat /\ (g[s] = 0 => \A x \in s : f[x] = 0)}
<1>2. {} \in Z
  BY <1>1
<1>3. ASSUME NEW s \in SUBSET D, s # {}, s \ {Picked(s)} \in Z PROVE s \in Z
  <2> DEFINE x == Picked(s)
             r == s \ {x}
  <2>1. x \in s /\ g[s] = f[x] + g[r] /\ g[r] \in Nat /\ (g[r] = 0 => \A y \in r : f[y] = 0)
    BY <1>1, <1>3
  <2>2. f[x] \in Nat /\ \A y \in s : y = x \/ y \in r
    BY <2>1
  <2> HIDE DEF x, r
  <2>3. g[s] \in Nat /\ (g[s] = 0 => f[x] = 0 /\ g[r] = 0)
    BY <2>1, <2>2
  <2> QED
    BY <2>1, <2>2, <2>3
<1>4. D \in Z
  <2> HIDE DEF Z
  <2> QED
    BY <1>2, <1>3, ByPicking
<1> QED
  BY <1>1, <1>4

\* The sums of the parts of a function: each is that of any of its values and of
\* the rest.
THEOREM SumsOfParts ==
  ASSUME NEW f, IsFiniteSet(DOMAIN f), \A x \in DOMAIN f : f[x] \in Nat
  PROVE  \E g : /\ SumFunction(f) = g[DOMAIN f] /\ g[{}] = 0
                /\ \A s \in SUBSET DOMAIN f :
                     /\ g[s] \in Nat
                     /\ SumFunction([x \in s |-> f[x]]) = g[s]
                     /\ \A x \in s : g[s] = f[x] + g[s \ {x}]
<1> DEFINE D == DOMAIN f
<1>1. PICK g : /\ SumFunction(f) = g[D] /\ g[{}] = 0
               /\ \A s \in SUBSET D :
                    s # {} => Picked(s) \in s /\ g[s] = f[Picked(s)] + g[s \ {Picked(s)}]
  BY SumUnfolds
<1>2. /\ Cardinality(D) \in Nat
      /\ \A s \in SUBSET D :
           /\ IsFiniteSet(s) /\ Cardinality(s) \in Nat /\ Cardinality(s) <= Cardinality(D)
           /\ Cardinality(s) = 0 <=> s = {}
  BY PartsCounted
<1>3. \A s \in SUBSET D : \A x \in s : s \ {x} \in SUBSET D /\ Cardinality(s \ {x}) = Cardinality(s) - 1
  BY <1>2, FS_RemoveElement
<1>4. ASSUME NEW S \in SUBSET D PROVE g[S] \in Nat
  <2> DEFINE Z == {s \in SUBSET S : g[s] \in Nat}
  <2>1. {} \in Z
    BY <1>1
  <2>2. ASSUME NEW s \in SUBSET S, s # {}, s \ {Picked(s)} \in Z PROVE s \in Z
    BY <1>1, <2>2
  <2>3. S \in Z
    <3> HIDE DEF Z
    <3> QED
      BY <1>2, <2>1, <2>2, ByPicking
  <2> QED
    BY <2>3
<1>5. ASSUME NEW S \in SUBSET D, NEW y \in S PROVE g[S] = f[y] + g[S \ {y}]
  <2> DEFINE K == {k \in 0..Cardinality(D) :
                     \A s \in SUBSET D : Cardinality(s) = k => \A x \in s : g[s] = f[x] + g[s \ {x}]}
  <2>1. 0 \in K
    <3>1. ASSUME NEW s \in SUBSET D, Cardinality(s) = 0, NEW x \in s PROVE FALSE
      BY <1>2, <3>1
    <3> QED
      BY <1>2, <3>1
  <2>2. ASSUME NEW k \in 0 .. (Cardinality(D) - 1), k \in K PROVE k + 1 \in K
    <3>1. ASSUME NEW s \in SUBSET D, Cardinality(s) = k + 1, NEW x \in s
          PROVE  g[s] = f[x] + g[s \ {x}]
      <4> DEFINE z == Picked(s)
                 r == s \ {z}
                 t == s \ {x}
      <4>1. z \in s /\ g[s] = f[z] + g[r]
        BY <1>1, <3>1
      <4>2. CASE x = z
        BY <4>1, <4>2
      <4>3. CASE x # z
        <5>1. /\ r \in SUBSET D /\ t \in SUBSET D /\ x \in r /\ z \in t
              /\ r \ {x} = t \ {z} /\ t \ {z} \in SUBSET D
          BY <3>1, <4>1, <4>3
        <5>2. Cardinality(r) = k /\ Cardinality(t) = k
          <6>1. Cardinality(r) = Cardinality(s) - 1 /\ Cardinality(t) = Cardinality(s) - 1
            BY <1>3, <3>1, <4>1
          <6> QED
            BY <3>1, <6>1
        <5>3. g[r] = f[x] + g[r \ {x}] /\ g[t] = f[z] + g[t \ {z}]
          <6> HIDE DEF r, t, z
          <6> QED
            BY <2>2, <5>1, <5>2
        <5>4. f[x] \in Nat /\ f[z] \in Nat /\ g[t \ {z}] \in Nat
          BY <1>4, <3>1, <4>1, <5>1
        <5> DEFINE rest == g[t \ {z}]
        <5> HIDE DEF z, r, t
        <5>6. g[r] = f[x] + rest /\ g[t] = f[z] + rest /\ rest \in Nat
          BY <5>1, <5>3, <5>4
        <5> HIDE DEF rest
        <5>5. g[s] = f[x] + g[t]
          BY <4>1, <5>4, <5>6
        <5> QED
          BY <5>5 DEF t
      <4> QED
        BY <4>2, <4>3
    <3>2. k + 1 \in 0..Cardinality(D)
      BY <1>2
    <3> QED
      BY <3>1, <3>2
  <2>3. Cardinality(S) \in K
    <3>1. Cardinality(S) \in 0..Cardinality(D)
      BY <1>2
    <3> HIDE DEF K
    <3> QED
      BY <1>2, <2>1, <2>2, <3>1, UpTo
  <2> QED
    BY <2>3
<1>6. ASSUME NEW S \in SUBSET D PROVE SumFunction([x \in S |-> f[x]]) = g[S]
  <2> DEFINE e == [x \in S |-> f[x]]
  <2>1. DOMAIN e = S /\ \A x \in S : e[x] = f[x]
    OBVIOUS
  <2> HIDE DEF e
  <2>2. IsFiniteSet(DOMAIN e)
    BY <1>2, <2>1
  <2>3. PICK h : /\ SumFunction(e) = h[DOMAIN e] /\ h[{}] = 0
                 /\ \A s \in SUBSET DOMAIN e :
                      s # {} => Picked(s) \in s /\ h[s] = e[Picked(s)] + h[s \ {Picked(s)}]
    BY <2>2, SumUnfolds
  <2> DEFINE Z == {s \in SUBSET S : h[s] = g[s]}
  <2>4. {} \in Z
    BY <1>1, <2>3
  <2>5. ASSUME NEW s \in SUBSET S, s # {}, s \ {Picked(s)} \in Z PROVE s \in Z
    <3>1. Picked(s) \in s /\ h[s] = e[Picked(s)] + h[s \ {Picked(s)}]
      BY <2>1, <2>3, <2>5
    <3>2. g[s] = f[Picked(s)] + g[s \ {Picked(s)}]
      BY <1>1, <2>5
    <3> QED
      BY <2>1, <2>5, <3>1, <3>2
  <2>6. S \in Z
    <3> HIDE DEF Z
    <3> QED
      BY <1>2, <2>4, <2>5, ByPicking
  <2> QED
    BY <2>1, <2>3, <2>6 DEF e
<1> QED
  BY <1>1, <1>4, <1>5, <1>6

\* A sum is at most another one if each value is nothing or at most the other's.
THEOREM SumAtMost ==
  ASSUME NEW f, IsFiniteSet(DOMAIN f), \A x \in DOMAIN f : f[x] \in Nat,
         NEW h, IsFiniteSet(DOMAIN h), \A x \in DOMAIN h : h[x] \in Nat,
         \A x \in DOMAIN f : f[x] = 0 \/ (x \in DOMAIN h /\ f[x] <= h[x])
  PROVE  SumFunction(f) <= SumFunction(h)
<1> DEFINE D == DOMAIN f
           E == DOMAIN h
<1>1. PICK g : /\ SumFunction(f) = g[D] /\ g[{}] = 0
               /\ \A s \in SUBSET D :
                    s # {} => Picked(s) \in s /\ g[s] = f[Picked(s)] + g[s \ {Picked(s)}]
  BY SumUnfolds
<1>2. PICK k : /\ SumFunction(h) = k[E] /\ k[{}] = 0
               /\ \A s \in SUBSET E : /\ k[s] \in Nat
                                      /\ SumFunction([x \in s |-> h[x]]) = k[s]
                                      /\ \A x \in s : k[s] = h[x] + k[s \ {x}]
  BY SumsOfParts
<1>3. ASSUME NEW T \in SUBSET E PROVE k[T \cap D] <= k[T]
  <2>1. IsFiniteSet(T)
    BY <1>3, FS_Subset
  <2> DEFINE Z == {t \in SUBSET T : k[t \cap D] <= k[t]}
  <2>2. {} \in Z
    <3>1. {} \cap D = {}
      OBVIOUS
    <3> QED
      BY <1>2, <3>1
  <2>3. ASSUME NEW t \in SUBSET T, t # {}, t \ {Picked(t)} \in Z PROVE t \in Z
    <3> DEFINE x == Picked(t)
               r == t \ {x}
    <3>1. x \in t
      BY <2>3 DEF Picked
    <3>2. x \in E /\ t \in SUBSET E /\ r \in SUBSET E
          /\ t \cap D \in SUBSET E /\ r \cap D \in SUBSET E
      BY <3>1
    <3>3. k[r \cap D] <= k[r]
      BY <2>3
    <3> HIDE DEF x
    <3>4. k[t] = h[x] + k[r] /\ h[x] \in Nat /\ k[r] \in Nat /\ k[r \cap D] \in Nat
      BY <1>2, <3>1, <3>2
    <3>5. CASE x \in D
      <4>1. x \in t \cap D /\ (t \cap D) \ {x} = r \cap D
        BY <3>1, <3>5
      <4>2. k[t \cap D] = h[x] + k[(t \cap D) \ {x}]
        BY <1>2, <3>2, <4>1
      <4>3. k[t \cap D] = h[x] + k[r \cap D]
        BY <4>1, <4>2
      <4> HIDE DEF r, D
      <4> QED
        BY <3>3, <3>4, <4>3
    <3>6. CASE x \notin D
      <4>1. t \cap D = r \cap D
        BY <3>6
      <4>2. k[r \cap D] <= k[t]
        <5> HIDE DEF r, D
        <5> QED
          BY <3>3, <3>4
      <4> QED
        BY <4>1, <4>2
    <3> QED
      BY <3>5, <3>6
  <2>4. T \in Z
    <3> HIDE DEF Z
    <3> QED
      BY <2>1, <2>2, <2>3, ByPicking
  <2> QED
    BY <2>4
<1> DEFINE W == {s \in SUBSET D : g[s] \in Nat /\ g[s] <= k[s \cap E]}
<1>4. {} \in W
  <2>1. {} \cap E = {}
    OBVIOUS
  <2> QED
    BY <1>1, <1>2, <2>1
<1>5. ASSUME NEW s \in SUBSET D, s # {}, s \ {Picked(s)} \in W PROVE s \in W
  <2> DEFINE x == Picked(s)
             r == s \ {x}
  <2>1. x \in s /\ g[s] = f[x] + g[r] /\ f[x] \in Nat
    BY <1>1, <1>5
  <2>2. g[r] \in Nat /\ g[r] <= k[r \cap E]
    BY <1>5
  <2> HIDE DEF x
  <2>3. r \cap E \in SUBSET E /\ s \cap E \in SUBSET E
    OBVIOUS
  <2>4. k[r \cap E] \in Nat /\ k[s \cap E] \in Nat
    BY <1>2, <2>3
  <2>5. CASE x \in E
    <3>1. x \in s \cap E /\ (s \cap E) \ {x} = r \cap E
      BY <2>1, <2>5
    <3>2. k[s \cap E] = h[x] + k[(s \cap E) \ {x}]
      BY <1>2, <2>3, <3>1
    <3>3. k[s \cap E] = h[x] + k[r \cap E] /\ h[x] \in Nat
      BY <2>5, <3>1, <3>2
    <3>4. f[x] <= h[x]
      BY <2>1, <2>5, <3>3
    <3> HIDE DEF r, E
    <3>5. g[s] \in Nat /\ g[s] <= k[s \cap E]
      BY <2>1, <2>2, <2>4, <3>3, <3>4
    <3> QED
      BY <3>5
  <2>6. CASE x \notin E
    <3>1. f[x] = 0 /\ s \cap E = r \cap E
      BY <2>1, <2>6
    <3>3. k[s \cap E] = k[r \cap E]
      BY <3>1
    <3> HIDE DEF r, E
    <3>4. g[s] = g[r]
      BY <2>1, <2>2, <3>1
    <3>2. g[s] \in Nat /\ g[s] <= k[s \cap E]
      BY <2>2, <3>3, <3>4
    <3> QED
      BY <3>2
  <2> QED
    BY <2>5, <2>6
<1>6. D \in W
  <2> HIDE DEF W
  <2> QED
    BY <1>4, <1>5, ByPicking
<1>8. E \cap D \in SUBSET E /\ D \cap E = E \cap D
  OBVIOUS
<1>9. g[D] \in Nat /\ g[D] <= k[E \cap D]
  BY <1>6, <1>8
<1>10. k[E] \in Nat /\ k[E \cap D] \in Nat /\ k[E \cap D] <= k[E]
  <2>1. E \in SUBSET E
    OBVIOUS
  <2>2. k[E \cap D] <= k[E]
    BY <1>3, <2>1
  <2> QED
    BY <1>2, <1>8, <2>1, <2>2
<1> HIDE DEF D, E
<1>11. g[D] <= k[E]
  BY <1>9, <1>10
<1> QED
  BY <1>1, <1>2, <1>11

=============================================================================
