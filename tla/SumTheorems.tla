----------------------------- MODULE SumTheorems -----------------------------
(***************************************************************************)
(* Facts about SumFunctionOnSet, the sum of f[x] for x in a finite set,    *)
(* with which the models add up amounts.  It is a recursive function whose *)
(* recursion takes the elements in an order of CHOOSE's own; the lemmas    *)
(* say that it exists, that the order does not matter, and how it moves    *)
(* when an element comes, goes or changes.  Each induction is over the     *)
(* smallest counterexample, a number or a subset.                          *)
(***************************************************************************)
EXTENDS FiniteSetsExt, FiniteSetTheorems, WellFoundedInduction, TLAPS

Pick(T) == CHOOSE x \in T : TRUE

\* s is the recursive function that adds f up over every subset of S.
Unrolled(s, f, S) ==
    [T \in SUBSET S |-> IF T = {} THEN 0 ELSE f[Pick(T)] + s[T \ {Pick(T)}]]
Sums(f, S) == CHOOSE s : s = Unrolled(s, f, S)

SummableOver(f, S) == IsFiniteSet(S) /\ \A x \in S : f[x] \in Int

LEMMA SumIsRecursive ==
    ASSUME NEW f, NEW S PROVE SumFunctionOnSet(f, S) = Sums(f, S)[S]
BY DEF SumFunctionOnSet, FoldFunctionOnSet, MapThenFoldSet, Sums, Unrolled, Pick

LEMMA SmallestNumber ==
    ASSUME NEW N \in SUBSET Nat, N # {}
    PROVE  \E n \in N : \A m \in N : n <= m
<1>1. PICK n \in N : \A m \in N : ~ (<<m, n>> \in OpToRel(<, Nat))
  BY NatLessThanWellFounded, WFMin
<1>2. ASSUME NEW m \in N PROVE n <= m
  <2>1. ~ (m < n)
    BY <1>1 DEF OpToRel
  <2> QED
    BY <2>1
<1> QED
  BY <1>2

LEMMA SmallestSubset ==
    ASSUME NEW S, IsFiniteSet(S), NEW B \in SUBSET (SUBSET S), B # {}
    PROVE  \E T \in B : \A U \in B : U \subseteq T => U = T
<1>1. IsWellFoundedOn(StrictSubsetOrdering(S), SUBSET S)
  BY FS_StrictSubsetOrderingWellFounded, FS_FiniteSubsetsOfFinite
<1>2. PICK T \in B : \A U \in B : ~ (<<U, T>> \in StrictSubsetOrdering(S))
  BY <1>1, WFMin
<1>3. ASSUME NEW U \in B, U \subseteq T, U # T PROVE FALSE
  BY <1>2, <1>3 DEF StrictSubsetOrdering
<1> QED
  BY <1>3

\* A finite set of numbers has a greatest one.
LEMMA Greatest ==
    ASSUME NEW N, IsFiniteSet(N), N # {}, \A x \in N : x \in Int
    PROVE  Max(N) \in N /\ \A x \in N : x <= Max(N)
<1> DEFINE Topped(T) == \E m \in T : \A x \in T : x <= m
           B == {T \in SUBSET N : T # {} /\ ~Topped(T)}
<1>0. B \in SUBSET (SUBSET N) /\ IsFiniteSet(N)
  OBVIOUS
<1>1. B = {}
  <2> SUFFICES ASSUME B # {} PROVE FALSE
    OBVIOUS
  <2>0. \E T \in B : \A U \in B : U \subseteq T => U = T
    <3>1. IsFiniteSet(N) /\ B \in SUBSET (SUBSET N) /\ B # {}
      OBVIOUS
    <3> HIDE DEF B, Topped
    <3> QED
      BY <3>1, SmallestSubset
  <2>1. PICK T \in B : \A U \in B : U \subseteq T => U = T
    <3> HIDE DEF B
    <3> QED
      BY <2>0
  <2>2. PICK x \in T : TRUE
    OBVIOUS
  <2>3. CASE T \ {x} = {}
    <3>1. \A y \in T : y <= x
      BY <2>3
    <3> QED
      BY <2>1, <3>1
  <2>4. CASE T \ {x} # {}
    <3>1. PICK m \in T \ {x} : \A y \in T \ {x} : y <= m
      <4>1. T \ {x} \in SUBSET N /\ T \ {x} \subseteq T /\ T \ {x} # T
        BY <2>1, <2>2
      <4>2. Topped(T \ {x})
        <5> HIDE DEF Topped
        <5> QED
          BY <2>1, <2>4, <4>1
      <4> QED
        BY <4>2
    <3>2. T \subseteq Int
      BY <2>1
    <3>3. CASE x <= m
      <4>1. \A y \in T : y <= m
        BY <3>1, <3>3
      <4> QED
        BY <2>1, <3>1, <4>1
    <3>4. CASE ~(x <= m)
      <4>1. \A y \in T : y <= x
        BY <3>1, <3>2, <3>4
      <4> QED
        BY <2>1, <2>2, <4>1
    <3> QED
      BY <3>3, <3>4
  <2> QED
    BY <2>3, <2>4
<1>2. PICK m \in N : \A x \in N : x <= m
  BY <1>1
<1>3. \E k \in N : \A x \in N : k >= x
  BY <1>2
<1>4. Max(N) \in N /\ \A x \in N : Max(N) >= x
  BY <1>3 DEF Max
<1> QED
  BY <1>4

\* What a function takes on a finite set is finite.
LEMMA FiniteImage ==
    ASSUME NEW S, IsFiniteSet(S), NEW h
    PROVE  IsFiniteSet({h[x] : x \in S})
<1> DEFINE T == {h[x] : x \in S}
           g == [x \in S |-> h[x]]
<1>1. g \in Surjection(S, T)
  BY DEF Surjection
<1> QED
  BY <1>1, FS_Surjection

LEMMA Picked == ASSUME NEW T, T # {} PROVE Pick(T) \in T
BY DEF Pick

\* The recursion is well defined: there is such a function, built up to sets
\* of n elements for every n.
LEMMA SumsExist ==
    ASSUME NEW f, NEW S, SummableOver(f, S)
    PROVE  \E s \in [SUBSET S -> Int] : s = Unrolled(s, f, S)
<1> DEFINE Step(s, T) == IF T = {} THEN 0 ELSE f[Pick(T)] + s[T \ {Pick(T)}]
           Upto(s, n) == \A T \in SUBSET S : Cardinality(T) <= n => s[T] = Step(s, T)
           Missed == {n \in Nat : ~ \E s \in [SUBSET S -> Int] : Upto(s, n)}
<1>1. \A T \in SUBSET S : /\ IsFiniteSet(T) /\ Cardinality(T) \in Nat
                          /\ Cardinality(T) = 0 <=> T = {}
                          /\ T # {} => /\ Pick(T) \in T
                                       /\ T \ {Pick(T)} \in SUBSET S
                                       /\ Cardinality(T \ {Pick(T)}) = Cardinality(T) - 1
  <2> SUFFICES ASSUME NEW T \in SUBSET S
               PROVE  /\ IsFiniteSet(T) /\ Cardinality(T) \in Nat
                      /\ Cardinality(T) = 0 <=> T = {}
                      /\ T # {} => /\ Pick(T) \in T
                                   /\ T \ {Pick(T)} \in SUBSET S
                                   /\ Cardinality(T \ {Pick(T)}) = Cardinality(T) - 1
    OBVIOUS
  <2>1. IsFiniteSet(T) /\ Cardinality(T) \in Nat
    BY FS_Subset, FS_CardinalityType DEF SummableOver
  <2>2. Cardinality(T) = 0 <=> T = {}
    BY <2>1, FS_EmptySet
  <2>3. T # {} => Pick(T) \in T
    BY Picked
  <2>4. T # {} => Cardinality(T \ {Pick(T)}) = Cardinality(T) - 1
    BY <2>1, <2>3, FS_RemoveElement
  <2> QED
    BY <2>1, <2>2, <2>3, <2>4
<1>2. Missed = {}
  <2> SUFFICES ASSUME Missed # {} PROVE FALSE
    OBVIOUS
  <2>1. PICK n \in Missed : \A m \in Missed : n <= m
    BY SmallestNumber
  <2>2. n # 0
    <3> DEFINE zero == [T \in SUBSET S |-> 0]
    <3>1. zero \in [SUBSET S -> Int]
      OBVIOUS
    <3>2. ASSUME NEW T \in SUBSET S, Cardinality(T) <= 0 PROVE zero[T] = Step(zero, T)
      <4>1. Cardinality(T) \in Nat /\ (Cardinality(T) = 0 => T = {})
        BY <1>1
      <4>2. T = {}
        BY <3>2, <4>1
      <4> QED
        BY <4>2
    <3> HIDE DEF zero
    <3>3. 0 \notin Missed
      BY <3>1, <3>2
    <3> QED
      BY <2>1, <3>3
  <2>3. n - 1 \in Nat /\ n - 1 \notin Missed
    <3>1. n \in Nat
      BY <2>1
    <3> HIDE DEF Missed
    <3> QED
      BY <2>1, <2>2, <3>1
  <2>4. PICK s \in [SUBSET S -> Int] : Upto(s, n - 1)
    BY <2>3
  <2> DEFINE t == [T \in SUBSET S |-> IF Cardinality(T) = n THEN Step(s, T) ELSE s[T]]
  <2>5. ASSUME NEW T \in SUBSET S PROVE Step(s, T) \in Int
    <3>1. T # {} => f[Pick(T)] \in Int
      BY <1>1 DEF SummableOver
    <3>2. T # {} => s[T \ {Pick(T)}] \in Int
      BY <1>1, <2>4
    <3> QED
      BY <3>1, <3>2
  <2>6. t \in [SUBSET S -> Int]
    BY <2>4, <2>5
  <2>7. ASSUME NEW T \in SUBSET S, Cardinality(T) <= n PROVE t[T] = Step(t, T)
    <3>1. T # {} => t[T \ {Pick(T)}] = s[T \ {Pick(T)}]
      BY <1>1, <2>7
    <3>2. Step(t, T) = Step(s, T)
      BY <3>1
    <3>3. CASE Cardinality(T) = n
      BY <3>2, <3>3
    <3>4. CASE Cardinality(T) # n
      <4>1. Cardinality(T) \in Nat /\ n \in Nat
        BY <1>1, <2>1
      <4>2. Cardinality(T) <= n - 1
        BY <2>7, <3>4, <4>1
      <4> QED
        BY <2>4, <3>2, <3>4, <4>2
    <3> QED
      BY <3>3, <3>4
  <2> HIDE DEF t
  <2> QED
    BY <2>6, <2>7
<1>3. Cardinality(S) \in Nat /\ \A T \in SUBSET S : Cardinality(T) <= Cardinality(S)
  BY <1>1, FS_Subset DEF SummableOver
<1>4. PICK s \in [SUBSET S -> Int] : Upto(s, Cardinality(S))
  BY <1>2, <1>3
<1>5. s = [T \in SUBSET S |-> Step(s, T)]
  BY <1>3, <1>4
<1> QED
  BY <1>4, <1>5 DEF Unrolled

LEMMA SumsUnroll ==
    ASSUME NEW f, NEW S, SummableOver(f, S)
    PROVE  \A T \in SUBSET S :
               Sums(f, S)[T] = IF T = {} THEN 0 ELSE f[Pick(T)] + Sums(f, S)[T \ {Pick(T)}]
<1>1. Sums(f, S) = Unrolled(Sums(f, S), f, S)
  BY SumsExist DEF Sums
<1> HIDE DEF Sums
<1> QED
  BY <1>1 DEF Unrolled

\* A sum does not depend on which larger set the recursion began with, nor on
\* what f is outside of the set summed over.
LEMMA SumsAgree ==
    ASSUME NEW f, NEW g, NEW S, NEW R \in SUBSET S, SummableOver(f, S),
           \A x \in R : f[x] = g[x]
    PROVE  \A T \in SUBSET R : Sums(f, S)[T] \in Int /\ Sums(g, R)[T] = Sums(f, S)[T]
<1> DEFINE B == {T \in SUBSET R : ~(Sums(f, S)[T] \in Int /\ Sums(g, R)[T] = Sums(f, S)[T])}
<1>1. SummableOver(g, R) /\ IsFiniteSet(R)
  BY FS_Subset DEF SummableOver
<1> SUFFICES ASSUME B # {} PROVE FALSE
  OBVIOUS
<1>2. PICK T \in B : \A U \in B : U \subseteq T => U = T
  <2>1. B \in SUBSET (SUBSET R)
    OBVIOUS
  <2> HIDE DEF B
  <2> QED
    BY <1>1, <2>1, SmallestSubset
<1>3. CASE T = {}
  <2>1. Sums(f, S)[{}] = 0
    BY SumsUnroll
  <2>2. Sums(g, R)[{}] = 0
    BY <1>1, SumsUnroll
  <2> QED
    BY <1>2, <1>3, <2>1, <2>2
<1>4. CASE T # {}
  <2> DEFINE x == Pick(T)
             U == T \ {x}
  <2>1. x \in T /\ x \in R /\ x \in S
    BY <1>4, Picked
  <2>2. U \in SUBSET R /\ U \subseteq T /\ U # T
    BY <2>1
  <2>3. U \notin B
    BY <1>2, <2>2
  <2>4. Sums(f, S)[U] \in Int /\ Sums(g, R)[U] = Sums(f, S)[U]
    BY <2>2, <2>3
  <2>5. Sums(f, S)[T] = f[x] + Sums(f, S)[U]
    BY <1>4, SumsUnroll
  <2>6. Sums(g, R)[T] = g[x] + Sums(g, R)[U]
    BY <1>1, <1>4, SumsUnroll
  <2> HIDE DEF U, x
  <2> QED
    BY <1>2, <2>1, <2>4, <2>5, <2>6 DEF SummableOver
<1> QED
  BY <1>3, <1>4

\* Any element may be taken out first.
LEMMA SumsRemove ==
    ASSUME NEW f, NEW S, SummableOver(f, S), NEW x \in S
    PROVE  Sums(f, S)[S] = f[x] + Sums(f, S)[S \ {x}]
<1> DEFINE s == Sums(f, S)
           B == {T \in SUBSET S : \E y \in T : s[T] # f[y] + s[T \ {y}]}
<1>1. \A T \in SUBSET S : s[T] \in Int
  BY SumsAgree
<1>2. \A T \in SUBSET S : T # {} => s[T] = f[Pick(T)] + s[T \ {Pick(T)}]
  BY SumsUnroll
<1>3. \A y \in S : f[y] \in Int
  BY DEF SummableOver
<1> HIDE DEF s
<1>4. B = {}
  <2> SUFFICES ASSUME B # {} PROVE FALSE
    OBVIOUS
  <2>1. PICK T \in B : \A U \in B : U \subseteq T => U = T
    <3>1. B \in SUBSET (SUBSET S)
      OBVIOUS
    <3> HIDE DEF B
    <3> QED
      BY <3>1, SmallestSubset DEF SummableOver
  <2>2. PICK y \in T : s[T] # f[y] + s[T \ {y}]
    BY <2>1
  <2>3. PICK p : p = Pick(T)
    OBVIOUS
  <2>4. p \in T /\ s[T] = f[p] + s[T \ {p}]
    BY <1>2, <2>2, <2>3, Picked
  <2>5. p # y
    BY <2>2, <2>4
  <2>6. T \ {p} \notin B /\ T \ {y} \notin B
    BY <2>1, <2>2, <2>4
  <2>7. T \in SUBSET S /\ y \in S /\ p \in S
    BY <2>1, <2>2, <2>4
  <2>8. s[T \ {p}] = f[y] + s[(T \ {p}) \ {y}]
    BY <2>2, <2>5, <2>6, <2>7
  <2>9. s[T \ {y}] = f[p] + s[(T \ {p}) \ {y}]
    <3>1. s[T \ {y}] = f[p] + s[(T \ {y}) \ {p}]
      BY <2>4, <2>5, <2>6, <2>7
    <3>2. (T \ {p}) \ {y} = (T \ {y}) \ {p}
      OBVIOUS
    <3> QED
      BY <3>1, <3>2
  <2>10. f[p] \in Int /\ f[y] \in Int /\ s[(T \ {p}) \ {y}] \in Int
    BY <1>1, <1>3, <2>7
  <2> HIDE DEF B
  <2> QED
    BY <2>2, <2>4, <2>8, <2>9, <2>10
<1> QED
  BY <1>4 DEF s

-----------------------------------------------------------------------------
(* What the models' proofs cite, about SumFunction(f), the sum over all of *)
(* DOMAIN f.                                                               *)

Summable(f) == IsFiniteSet(DOMAIN f) /\ \A x \in DOMAIN f : f[x] \in Int
Agree(f, g, S) == \A x \in S : f[x] = g[x]

LEMMA SumFunctionIs ==
    ASSUME NEW f PROVE SumFunction(f) = Sums(f, DOMAIN f)[DOMAIN f]
BY SumIsRecursive DEF SumFunction

LEMMA SummableOn == ASSUME NEW f, Summable(f) PROVE SummableOver(f, DOMAIN f)
BY DEF Summable, SummableOver

LEMMA SumType == ASSUME NEW f, Summable(f) PROVE SumFunction(f) \in Int
BY SumFunctionIs, SummableOn, SumsAgree

LEMMA SumEmpty == ASSUME NEW f, DOMAIN f = {} PROVE SumFunction(f) = 0
<1>1. SummableOver(f, {})
  BY FS_EmptySet DEF SummableOver
<1> QED
  BY <1>1, SumFunctionIs, SumsUnroll

LEMMA SumSame ==
    ASSUME NEW f, NEW g, DOMAIN f = DOMAIN g, Summable(f), Agree(f, g, DOMAIN f)
    PROVE  SumFunction(f) = SumFunction(g)
BY SumFunctionIs, SummableOn, SumsAgree DEF Agree

\* An element more: g is f and its value at x.
LEMMA SumAdd ==
    ASSUME NEW f, NEW g, NEW x, x \notin DOMAIN f, DOMAIN g = DOMAIN f \cup {x},
           Agree(f, g, DOMAIN f), Summable(g)
    PROVE  SumFunction(g) = SumFunction(f) + g[x]
<1>1. SummableOver(g, DOMAIN g)
  BY SummableOn
<1>2. Sums(g, DOMAIN g)[DOMAIN g] = g[x] + Sums(g, DOMAIN g)[DOMAIN g \ {x}]
  BY <1>1, SumsRemove
<1>3. DOMAIN g \ {x} = DOMAIN f
  OBVIOUS
<1>4. /\ Sums(f, DOMAIN f)[DOMAIN f] = Sums(g, DOMAIN g)[DOMAIN f]
      /\ Sums(g, DOMAIN g)[DOMAIN f] \in Int
  BY <1>1, SumsAgree DEF Agree
<1>5. g[x] \in Int
  BY DEF Summable
<1> HIDE DEF Sums
<1>6. SumFunction(f) = Sums(f, DOMAIN f)[DOMAIN f] /\ SumFunction(g) = Sums(g, DOMAIN g)[DOMAIN g]
  BY SumFunctionIs
<1> QED
  BY <1>2, <1>3, <1>4, <1>5, <1>6

-----------------------------------------------------------------------------
(* By induction over the parts of a domain.                                *)

LEMMA PartSummable ==
    ASSUME NEW f, Summable(f), NEW T \in SUBSET DOMAIN f
    PROVE  Summable(Restrict(f, T)) /\ DOMAIN Restrict(f, T) = T
BY FS_Subset DEF Summable, Restrict

LEMMA PartAdd ==
    ASSUME NEW f, Summable(f), NEW T \in SUBSET DOMAIN f, NEW x \in T
    PROVE  /\ SumFunction(Restrict(f, T \ {x})) \in Int /\ f[x] \in Int
           /\ SumFunction(Restrict(f, T)) = SumFunction(Restrict(f, T \ {x})) + f[x]
<1>1. Summable(Restrict(f, T)) /\ Summable(Restrict(f, T \ {x}))
  BY PartSummable
<1>2. Agree(Restrict(f, T \ {x}), Restrict(f, T), T \ {x})
  BY DEF Agree, Restrict
<1>3. DOMAIN Restrict(f, T) = T /\ DOMAIN Restrict(f, T \ {x}) = T \ {x}
  BY DEF Restrict
<1>4. SumFunction(Restrict(f, T)) = SumFunction(Restrict(f, T \ {x})) + Restrict(f, T)[x]
  BY <1>1, <1>2, <1>3, SumAdd
<1> QED
  BY <1>1, <1>4, SumType DEF Restrict, Summable

LEMMA WholePart ==
    ASSUME NEW f, Summable(f)
    PROVE  SumFunction(Restrict(f, DOMAIN f)) = SumFunction(f)
BY SumSame DEF Agree, Restrict, Summable

\* Two summands per element.
LEMMA SumPlus ==
    ASSUME NEW f, NEW g, NEW h, DOMAIN g = DOMAIN f, DOMAIN h = DOMAIN f,
           Summable(g), Summable(h), \A x \in DOMAIN f : f[x] = g[x] + h[x]
    PROVE  SumFunction(f) = SumFunction(g) + SumFunction(h)
<1> DEFINE Good(T) == SumFunction(Restrict(f, T))
                        = SumFunction(Restrict(g, T)) + SumFunction(Restrict(h, T))
           B == {T \in SUBSET DOMAIN f : ~Good(T)}
<1>1. Summable(f) /\ IsFiniteSet(DOMAIN f)
  BY DEF Summable
<1>2. B = {}
  <2> SUFFICES ASSUME B # {} PROVE FALSE
    OBVIOUS
  <2>1. PICK T \in B : \A U \in B : U \subseteq T => U = T
    <3>1. B \in SUBSET (SUBSET DOMAIN f)
      OBVIOUS
    <3> HIDE DEF B
    <3> QED
      BY <1>1, <3>1, SmallestSubset
  <2>2. CASE T = {}
    <3>1. DOMAIN Restrict(f, T) = {} /\ DOMAIN Restrict(g, T) = {} /\ DOMAIN Restrict(h, T) = {}
      BY <2>2 DEF Restrict
    <3> QED
      BY <2>1, <3>1, SumEmpty
  <2>3. CASE T # {}
    <3>1. PICK x \in T : TRUE
      BY <2>3
    <3>2. Good(T \ {x})
      BY <2>1
    <3>3. f[x] = g[x] + h[x]
      BY <2>1
    <3>4. T \in SUBSET DOMAIN f
      BY <2>1
    <3>5. /\ SumFunction(Restrict(f, T)) = SumFunction(Restrict(f, T \ {x})) + f[x]
          /\ SumFunction(Restrict(g, T)) = SumFunction(Restrict(g, T \ {x})) + g[x]
          /\ SumFunction(Restrict(h, T)) = SumFunction(Restrict(h, T \ {x})) + h[x]
          /\ g[x] \in Int /\ h[x] \in Int
          /\ SumFunction(Restrict(g, T \ {x})) \in Int /\ SumFunction(Restrict(h, T \ {x})) \in Int
      BY <1>1, <3>4, PartAdd
    <3>6. Good(T)
      BY <3>2, <3>3, <3>5
    <3> QED
      BY <2>1, <3>6
  <2> QED
    BY <2>2, <2>3
<1>3. Good(DOMAIN f)
  BY <1>2
<1> QED
  BY <1>1, <1>3, WholePart

LEMMA SumZero ==
    ASSUME NEW f, IsFiniteSet(DOMAIN f), \A x \in DOMAIN f : f[x] = 0
    PROVE  SumFunction(f) = 0
<1>1. Summable(f)
  BY DEF Summable
<1>2. SumFunction(f) = SumFunction(f) + SumFunction(f)
  BY <1>1, SumPlus
<1> QED
  BY <1>1, <1>2, SumType

LEMMA SumNegate ==
    ASSUME NEW f, NEW g, DOMAIN g = DOMAIN f, Summable(f), \A x \in DOMAIN f : g[x] = -f[x]
    PROVE  SumFunction(g) = -SumFunction(f)
<1> DEFINE zero == [x \in DOMAIN f |-> 0]
<1>1. Summable(g) /\ SumFunction(zero) = 0
  BY SumZero DEF Summable
<1>2. \A x \in DOMAIN f : zero[x] = f[x] + g[x]
  BY DEF Summable
<1>3. DOMAIN zero = DOMAIN f
  OBVIOUS
<1> HIDE DEF zero
<1>4. SumFunction(zero) = SumFunction(f) + SumFunction(g)
  BY <1>1, <1>2, <1>3, SumPlus
<1> QED
  BY <1>1, <1>4, SumType

\* A domain in two parts.
LEMMA SumSplit ==
    ASSUME NEW f, NEW S, NEW T, DOMAIN f = S \cup T, S \cap T = {}, Summable(f)
    PROVE  SumFunction(f) = SumFunction(Restrict(f, S)) + SumFunction(Restrict(f, T))
<1> DEFINE Good(U) == SumFunction(Restrict(f, S \cup U))
                        = SumFunction(Restrict(f, S)) + SumFunction(Restrict(f, U))
           B == {U \in SUBSET T : ~Good(U)}
<1>1. IsFiniteSet(T)
  BY FS_Subset DEF Summable
<1>2. SumFunction(Restrict(f, S)) \in Int
  BY PartSummable, SumType
<1>3. B = {}
  <2> SUFFICES ASSUME B # {} PROVE FALSE
    OBVIOUS
  <2>1. PICK U \in B : \A V \in B : V \subseteq U => V = U
    <3>1. B \in SUBSET (SUBSET T)
      OBVIOUS
    <3> HIDE DEF B
    <3> QED
      BY <1>1, <3>1, SmallestSubset
  <2>2. CASE U = {}
    <3>1. DOMAIN Restrict(f, U) = {}
      BY <2>2 DEF Restrict
    <3>2. SumFunction(Restrict(f, U)) = 0
      BY <3>1, SumEmpty
    <3>3. SumFunction(Restrict(f, S \cup U)) = SumFunction(Restrict(f, S))
      <4>1. S \cup U = S
        BY <2>2
      <4> QED
        BY <4>1
    <3> QED
      BY <1>2, <2>1, <3>2, <3>3
  <2>3. CASE U # {}
    <3>1. PICK x \in U : TRUE
      BY <2>3
    <3>2. Good(U \ {x})
      BY <2>1
    <3>3. /\ U \in SUBSET DOMAIN f /\ S \cup U \in SUBSET DOMAIN f
          /\ (S \cup U) \ {x} = S \cup (U \ {x})
      BY <2>1
    <3>4. SumFunction(Restrict(f, S \cup U)) = SumFunction(Restrict(f, S \cup (U \ {x}))) + f[x]
      BY <3>3, PartAdd
    <3>5. /\ SumFunction(Restrict(f, U)) = SumFunction(Restrict(f, U \ {x})) + f[x]
          /\ SumFunction(Restrict(f, U \ {x})) \in Int /\ f[x] \in Int
      BY <3>3, PartAdd
    <3>6. Good(U)
      BY <1>2, <3>2, <3>4, <3>5
    <3> QED
      BY <2>1, <3>6
  <2> QED
    BY <2>2, <2>3
<1>4. Good(T)
  BY <1>3
<1> QED
  BY <1>4, WholePart

\* What is zero may be left out.
LEMMA SumSupport ==
    ASSUME NEW f, Summable(f), NEW T \in SUBSET DOMAIN f, \A x \in DOMAIN f \ T : f[x] = 0
    PROVE  SumFunction(f) = SumFunction(Restrict(f, T))
<1> DEFINE U == DOMAIN f \ T
<1>1. DOMAIN f = T \cup U /\ T \cap U = {}
  OBVIOUS
<1>2. SumFunction(f) = SumFunction(Restrict(f, T)) + SumFunction(Restrict(f, U))
  <2> HIDE DEF U
  <2> QED
    BY <1>1, SumSplit
<1>3. SumFunction(Restrict(f, U)) = 0
  <2>1. IsFiniteSet(U)
    BY FS_Subset DEF Summable
  <2>2. DOMAIN Restrict(f, U) = U /\ \A x \in U : Restrict(f, U)[x] = 0
    BY DEF Restrict
  <2> HIDE DEF U
  <2> QED
    BY <2>1, <2>2, SumZero
<1>4. SumFunction(Restrict(f, T)) \in Int
  BY PartSummable, SumType
<1> QED
  BY <1>2, <1>3, <1>4

\* No summand is negative: then no part is, nor more than the whole.
LEMMA SumNonNegative ==
    ASSUME NEW f, Summable(f), \A x \in DOMAIN f : f[x] >= 0
    PROVE  SumFunction(f) >= 0
<1> DEFINE B == {T \in SUBSET DOMAIN f : ~(SumFunction(Restrict(f, T)) >= 0)}
<1>1. IsFiniteSet(DOMAIN f)
  BY DEF Summable
<1>2. B = {}
  <2> SUFFICES ASSUME B # {} PROVE FALSE
    OBVIOUS
  <2>1. PICK T \in B : \A U \in B : U \subseteq T => U = T
    <3>1. B \in SUBSET (SUBSET DOMAIN f)
      OBVIOUS
    <3> HIDE DEF B
    <3> QED
      BY <1>1, <3>1, SmallestSubset
  <2>2. CASE T = {}
    <3>1. DOMAIN Restrict(f, T) = {}
      BY <2>2 DEF Restrict
    <3> QED
      BY <2>1, <3>1, SumEmpty
  <2>3. CASE T # {}
    <3>1. PICK x \in T : TRUE
      BY <2>3
    <3>2. SumFunction(Restrict(f, T \ {x})) >= 0
      BY <2>1
    <3>3. T \in SUBSET DOMAIN f /\ f[x] >= 0
      BY <2>1
    <3>4. /\ SumFunction(Restrict(f, T)) = SumFunction(Restrict(f, T \ {x})) + f[x]
          /\ SumFunction(Restrict(f, T \ {x})) \in Int /\ f[x] \in Int
      BY <3>3, PartAdd
    <3>5. SumFunction(Restrict(f, T)) >= 0
      BY <3>2, <3>3, <3>4
    <3> QED
      BY <2>1, <3>5
  <2> QED
    BY <2>2, <2>3
<1>3. SumFunction(Restrict(f, DOMAIN f)) >= 0
  BY <1>2
<1> QED
  BY <1>3, WholePart

LEMMA SumPartAtMost ==
    ASSUME NEW f, Summable(f), \A x \in DOMAIN f : f[x] >= 0, NEW S \in SUBSET DOMAIN f
    PROVE  0 <= SumFunction(Restrict(f, S)) /\ SumFunction(Restrict(f, S)) <= SumFunction(f)
<1>1. \A T \in SUBSET DOMAIN f :
         SumFunction(Restrict(f, T)) \in Int /\ SumFunction(Restrict(f, T)) >= 0
  <2> SUFFICES ASSUME NEW T \in SUBSET DOMAIN f
               PROVE  SumFunction(Restrict(f, T)) \in Int /\ SumFunction(Restrict(f, T)) >= 0
    OBVIOUS
  <2>1. \A x \in DOMAIN Restrict(f, T) : Restrict(f, T)[x] >= 0
    BY DEF Restrict
  <2> QED
    BY <2>1, PartSummable, SumNonNegative, SumType
<1>2. SumFunction(f) = SumFunction(Restrict(f, S)) + SumFunction(Restrict(f, DOMAIN f \ S))
  BY SumSplit
<1> QED
  BY <1>1, <1>2

\* The same summands under other names.
LEMMA SumRename ==
    ASSUME NEW f, NEW g, Summable(f), NEW h,
           DOMAIN g = {h[x] : x \in DOMAIN f},
           \A x, y \in DOMAIN f : h[x] = h[y] => x = y,
           \A x \in DOMAIN f : g[h[x]] = f[x]
    PROVE  Summable(g) /\ SumFunction(g) = SumFunction(f)
<1> DEFINE Image(T) == {h[x] : x \in T}
           Good(T) == /\ IsFiniteSet(Image(T))
                      /\ SumFunction(Restrict(g, Image(T))) = SumFunction(Restrict(f, T))
           B == {T \in SUBSET DOMAIN f : ~Good(T)}
<1>1. IsFiniteSet(DOMAIN f)
  BY DEF Summable
<1>2. B = {}
  <2> SUFFICES ASSUME B # {} PROVE FALSE
    OBVIOUS
  <2>1. PICK T \in B : \A U \in B : U \subseteq T => U = T
    <3>1. B \in SUBSET (SUBSET DOMAIN f)
      OBVIOUS
    <3> HIDE DEF B
    <3> QED
      BY <1>1, <3>1, SmallestSubset
  <2>2. CASE T = {}
    <3>1. Image(T) = {} /\ DOMAIN Restrict(f, T) = {} /\ DOMAIN Restrict(g, Image(T)) = {}
      BY <2>2 DEF Restrict
    <3> QED
      BY <2>1, <3>1, SumEmpty, FS_EmptySet
  <2>3. CASE T # {}
    <3>1. PICK x \in T : TRUE
      BY <2>3
    <3>2. Good(T \ {x})
      BY <2>1
    <3>3. T \in SUBSET DOMAIN f /\ x \in DOMAIN f
      BY <2>1
    <3>4. /\ Image(T) = Image(T \ {x}) \cup {h[x]} /\ h[x] \notin Image(T \ {x})
          /\ Image(T) \subseteq DOMAIN g
      BY <3>1, <3>3
    <3> HIDE DEF Image
    <3>5. IsFiniteSet(Image(T))
      <4>1. IsFiniteSet(Image(T \ {x}))
        BY <3>2
      <4>2. IsFiniteSet(Image(T \ {x}) \cup {h[x]})
        BY <4>1, FS_AddElement
      <4> QED
        BY <3>4, <4>2
    <3>6. Summable(Restrict(g, Image(T)))
      <4>1. \A y \in Image(T) : g[y] \in Int
        BY <3>3 DEF Image, Summable
      <4> QED
        BY <3>5, <4>1 DEF Summable, Restrict
    <3>7. SumFunction(Restrict(g, Image(T)))
            = SumFunction(Restrict(g, Image(T \ {x}))) + Restrict(g, Image(T))[h[x]]
      <4> DEFINE less == Restrict(g, Image(T \ {x}))
                 more == Restrict(g, Image(T))
      <4>1. DOMAIN less = Image(T \ {x}) /\ DOMAIN more = Image(T)
        BY DEF Restrict
      <4>2. Agree(less, more, DOMAIN less)
        BY <3>4, <4>1 DEF Restrict, Agree
      <4>3. Summable(more)
        BY <3>6
      <4> HIDE DEF less, more
      <4>4. h[x] \notin DOMAIN less /\ DOMAIN more = DOMAIN less \cup {h[x]}
        BY <3>4, <4>1
      <4>5. SumFunction(more) = SumFunction(less) + more[h[x]]
        BY <4>2, <4>3, <4>4, SumAdd
      <4> QED
        BY <4>5 DEF less, more
    <3>8. Restrict(g, Image(T))[h[x]] = f[x]
      BY <3>3, <3>4 DEF Restrict
    <3>9. SumFunction(Restrict(f, T)) = SumFunction(Restrict(f, T \ {x})) + f[x]
      BY <3>3, PartAdd
    <3>10. Good(T)
      BY <3>2, <3>5, <3>7, <3>8, <3>9
    <3> QED
      BY <2>1, <3>10
  <2> QED
    BY <2>2, <2>3
<1>3. Good(DOMAIN f)
  BY <1>2
<1>4. Image(DOMAIN f) = DOMAIN g
  OBVIOUS
<1>5. Summable(g)
  BY <1>3, <1>4 DEF Summable
<1> QED
  BY <1>3, <1>4, <1>5, WholePart

\* Summing up by groups: h says which group of S an element is in.
Fiber(f, h, s) == {x \in DOMAIN f : h[x] = s}

LEMMA SumFibers ==
    ASSUME NEW f, Summable(f), NEW S, IsFiniteSet(S), NEW h, \A x \in DOMAIN f : h[x] \in S,
           NEW g, DOMAIN g = S, \A s \in S : g[s] = SumFunction(Restrict(f, Fiber(f, h, s)))
    PROVE  Summable(g) /\ SumFunction(g) = SumFunction(f)
<1> DEFINE Over(T) == {x \in DOMAIN f : h[x] \in T}
           Good(T) == SumFunction(Restrict(g, T)) = SumFunction(Restrict(f, Over(T)))
           B == {T \in SUBSET S : ~Good(T)}
<1>1. Summable(g)
  <2>1. ASSUME NEW s \in S PROVE g[s] \in Int
    <3>1. Fiber(f, h, s) \in SUBSET DOMAIN f
      BY DEF Fiber
    <3>2. Summable(Restrict(f, Fiber(f, h, s)))
      BY <3>1, PartSummable
    <3> QED
      BY <3>2, SumType
  <2> QED
    BY <2>1 DEF Summable
<1>2. B = {}
  <2> SUFFICES ASSUME B # {} PROVE FALSE
    OBVIOUS
  <2>1. PICK T \in B : \A U \in B : U \subseteq T => U = T
    <3>1. B \in SUBSET (SUBSET S)
      OBVIOUS
    <3> HIDE DEF B
    <3> QED
      BY <3>1, SmallestSubset
  <2>2. T # {}
    <3>1. Good({})
      <4>1. Over({}) = {}
        OBVIOUS
      <4>2. DOMAIN Restrict(g, {}) = {} /\ DOMAIN Restrict(f, {}) = {}
        BY DEF Restrict
      <4> QED
        BY <4>1, <4>2, SumEmpty
    <3> HIDE DEF Good
    <3> QED
      BY <2>1, <3>1
  <2>3. PICK s \in T : TRUE
    BY <2>2
  <2> DEFINE U == T \ {s}
  <2>4. U \in SUBSET S /\ T \in SUBSET S /\ U \subseteq T /\ U # T /\ s \in S
    BY <2>1, <2>3
  <2>5. Good(U)
    <3> HIDE DEF Good, U
    <3> QED
      BY <2>1, <2>4
  <2>6. /\ SumFunction(Restrict(g, U)) \in Int /\ g[s] \in Int
        /\ SumFunction(Restrict(g, T)) = SumFunction(Restrict(g, U)) + g[s]
    BY <1>1, <2>3, <2>4, PartAdd
  <2> DEFINE fT == Restrict(f, Over(T))
             A == Over(U)
             C == Fiber(f, h, s)
  <2>7. DOMAIN fT = A \cup C /\ A \cap C = {}
    BY <2>3 DEF Restrict, Fiber
  <2>8. Summable(fT)
    <3>1. Over(T) \in SUBSET DOMAIN f
      OBVIOUS
    <3> HIDE DEF Over
    <3> QED
      BY <3>1, PartSummable
  <2>9. Restrict(fT, A) = Restrict(f, A) /\ Restrict(fT, C) = Restrict(f, C)
    <3>1. A \subseteq Over(T) /\ C \subseteq Over(T)
      BY <2>3 DEF Fiber
    <3> HIDE DEF A, C, Over
    <3> QED
      BY <3>1 DEF Restrict
  <2>10. SumFunction(fT) = SumFunction(Restrict(f, A)) + SumFunction(Restrict(f, C))
    <3> HIDE DEF fT, A, C
    <3> QED
      BY <2>7, <2>8, <2>9, SumSplit
  <2>11. g[s] = SumFunction(Restrict(f, C))
    BY <2>4
  <2>12. Good(T)
    <3> HIDE DEF C, Over, U
    <3> QED
      BY <2>5, <2>6, <2>10, <2>11
  <2> HIDE DEF Good
  <2> QED
    BY <2>1, <2>12
<1>3. Good(S)
  <2>1. S \notin B
    <3> HIDE DEF B
    <3> QED
      BY <1>2
  <2> HIDE DEF Good
  <2> QED
    BY <2>1
<1>4. Over(S) = DOMAIN f
  OBVIOUS
<1> HIDE DEF Over
<1> QED
  BY <1>1, <1>3, <1>4, WholePart

-----------------------------------------------------------------------------
(* Recursion and order over numbers.                                       *)

\* What a recursive function on 0..n computes, where each value follows from the
\* one before it.
Iterated(s, x, g, n) ==
    s = [k \in 0..n |-> IF k = 0 THEN x ELSE g[<<k, s[k - 1]>>]]

LEMMA Iterates ==
    ASSUME NEW V, NEW x \in V, NEW n \in Nat, NEW g,
           \A k \in 1..n, v \in V : g[<<k, v>>] \in V
    PROVE  \E s \in [0..n -> V] : Iterated(s, x, g, n)
<1> DEFINE Upto(s, m) == \A k \in 0..m : s[k] = IF k = 0 THEN x ELSE g[<<k, s[k - 1]>>]
           Bad == {m \in 0..n : ~ \E s \in [0..n -> V] : Upto(s, m)}
<1>1. Bad = {}
  <2> SUFFICES ASSUME Bad # {} PROVE FALSE
    OBVIOUS
  <2>1. PICK m \in Bad : \A j \in Bad : m <= j
    <3>1. Bad \in SUBSET Nat
      OBVIOUS
    <3> HIDE DEF Bad
    <3> QED
      BY <3>1, SmallestNumber
  <2>2. m # 0
    <3> SUFFICES ASSUME m = 0 PROVE FALSE
      OBVIOUS
    <3> DEFINE s == [k \in 0..n |-> x]
    <3>1. s \in [0..n -> V] /\ Upto(s, 0)
      OBVIOUS
    <3> HIDE DEF s, Upto
    <3> QED
      BY <2>1, <3>1
  <2>3. m - 1 \in 0..n /\ m \in 1..n /\ ~(m <= m - 1)
    BY <2>1, <2>2
  <2>4. PICK s \in [0..n -> V] : Upto(s, m - 1)
    BY <2>1, <2>3
  <2> DEFINE t == [s EXCEPT ![m] = g[<<m, s[m - 1]>>]]
  <2>5. s[m - 1] \in V /\ g[<<m, s[m - 1]>>] \in V
    BY <2>3
  <2>6. t \in [0..n -> V]
    BY <2>3, <2>5
  <2>7. /\ t[m] = g[<<m, s[m - 1]>>]
        /\ \A k \in 0..n : k # m => t[k] = s[k]
    BY <2>3
  <2> HIDE DEF t
  <2>8. Upto(t, m)
    <3> SUFFICES ASSUME NEW k \in 0..m
                 PROVE  t[k] = IF k = 0 THEN x ELSE g[<<k, t[k - 1]>>]
      OBVIOUS
    <3>1. CASE k = m
      <4>1. t[k - 1] = s[m - 1]
        BY <2>3, <2>7, <3>1
      <4> QED
        BY <2>2, <2>7, <3>1, <4>1
    <3>2. CASE k # m
      <4>1. k \in 0..(m - 1) /\ k # m /\ k \in 0..n
        BY <2>3, <3>2
      <4>2. t[k] = s[k] /\ s[k] = IF k = 0 THEN x ELSE g[<<k, s[k - 1]>>]
        BY <2>4, <2>7, <4>1
      <4>3. k # 0 => t[k - 1] = s[k - 1]
        BY <2>3, <2>7, <4>1
      <4> QED
        BY <4>2, <4>3
    <3> QED
      BY <3>1, <3>2
  <2> HIDE DEF Upto
  <2> QED
    BY <2>1, <2>6, <2>8
<1>2. PICK s \in [0..n -> V] : Upto(s, n)
  <2>1. n \in 0..n
    OBVIOUS
  <2>2. n \notin Bad
    <3> HIDE DEF Bad
    <3> QED
      BY <1>1
  <2> HIDE DEF Upto
  <2> QED
    BY <2>1, <2>2
<1>3. Iterated(s, x, g, n)
  BY <1>2 DEF Iterated
<1> QED
  BY <1>3

\* The least of a finite set of numbers.
LEMMA Least ==
    ASSUME NEW N, IsFiniteSet(N), N # {}, \A x \in N : x \in Int
    PROVE  Min(N) \in N /\ \A x \in N : Min(N) <= x
<1> DEFINE h == [x \in N |-> -x]
           M == {h[x] : x \in N}
<1>1. IsFiniteSet(M)
  BY FiniteImage
<1>2. M # {} /\ \A y \in M : y \in Int
  OBVIOUS
<1>3. Max(M) \in M /\ \A y \in M : y <= Max(M)
  <2> HIDE DEF M
  <2> QED
    BY <1>1, <1>2, Greatest
<1>4. PICK b \in N : Max(M) = -b
  BY <1>3
<1>5. \A x \in N : b <= x
  <2> SUFFICES ASSUME NEW x \in N PROVE b <= x
    OBVIOUS
  <2>1. -x \in M
    OBVIOUS
  <2>2. -x <= -b
    BY <1>3, <1>4, <2>1
  <2>3. x \in Int /\ b \in Int
    BY <1>4
  <2> QED
    BY <2>2, <2>3
<1>6. \E x \in N : \A y \in N : x <= y
  BY <1>5
<1> QED
  BY <1>6 DEF Min
=============================================================================
