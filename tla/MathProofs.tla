----------------------------- MODULE MathProofs -----------------------------
(***************************************************************************)
(* What the other proofs need of numbers: sums over a finite set, rounded    *)
(* quotients, the rules of stockroom-math for all amounts, and what can be   *)
(* said of a definition that goes along numbers, parts of a set or an order. *)
(*                                                                           *)
(* SumFunction adds its elements in an order nobody chose; the lemmas say    *)
(* that the order does not matter, so that a step that changes one summand   *)
(* changes the sum by as much.  Induction is done by looking at a least      *)
(* counterexample: of a set of natural numbers that is not empty there is a  *)
(* least one.                                                                *)
(***************************************************************************)
EXTENDS StockroomMath, FiniteSets, Functions, FiniteSetTheorems, WellFoundedInduction,
        TLAPS

\* A quotient's bounds, and what division leaves over.
LEMMA Quotients ==
    ASSUME NEW n \in Nat, NEW d \in Nat \ {0}
    PROVE  /\ n \div d \in Nat /\ n % d \in 0..(d - 1)
           /\ n = (n \div d) * d + (n % d) /\ n \div d <= n
           /\ \A m \in Nat : n <= m * d => n \div d <= m
           /\ CeilDiv(n, d) \in Nat
<1>1. n \div d \in Nat /\ n % d \in 0..(d - 1) /\ n = d * (n \div d) + (n % d)
  OBVIOUS
<1>2. n \div d <= n OBVIOUS
<1>3. \A m \in Nat : n <= m * d => n \div d <= m OBVIOUS
<1>4. CeilDiv(n, d) \in Nat BY <1>1 DEF CeilDiv
<1> QED BY <1>1, <1>2, <1>3, <1>4

\* Multiplication distributes over a sum.
LEMMA Distributes ==
    ASSUME NEW a \in Nat, NEW b \in Nat, NEW c \in Nat
    PROVE  (a + b) * c = a * c + b * c /\ a * c \in Nat /\ b * c \in Nat
OBVIOUS

\* A set of natural numbers that is not empty has a least element.
LEMMA LeastNatural ==
    ASSUME NEW T, T \subseteq Nat, T # {}
    PROVE  \E n \in T : \A m \in T : n <= m
<1> DEFINE R == OpToRel(<, Nat)
<1>1. IsWellFoundedOn(R, Nat) BY NatLessThanWellFounded
<1>2. \A i, j \in Nat : <<i, j>> \in R <=> i < j BY DEF OpToRel
<1> HIDE DEF R
<1>3. PICK n \in T : \A m \in T : ~ (<<m, n>> \in R) BY <1>1, WFMin
<1>4. \A m \in T : ~ (m < n) BY <1>2, <1>3
<1> QED BY <1>4

\* A set of parts of S that is not empty has a least one.
LEMMA LeastPart ==
    ASSUME NEW S, IsFiniteSet(S), NEW C, C \subseteq SUBSET S, C # {}
    PROVE  \E s \in C : \A t \in C : Cardinality(s) <= Cardinality(t)
<1>1. \A s \in C : Cardinality(s) \in Nat BY FS_Subset, FS_CardinalityType
<1> DEFINE T == {Cardinality(s) : s \in C}
<1>2. T \subseteq Nat /\ T # {} BY <1>1
<1>3. PICK n \in T : \A m \in T : n <= m BY <1>2, LeastNatural
<1> QED BY <1>3

-----------------------------------------------------------------------------
(* The sum exists                                                           *)

First(s) == CHOOSE x \in s : TRUE

\* g maps each of these sets to the sum of f over it, one element at a time.
Adds(f, g, parts) ==
    /\ DOMAIN g = parts
    /\ \A s \in parts : g[s] = IF s = {} THEN 0 ELSE f[First(s)] + g[s \ {First(s)}]

AddsParts(f, g, S) == Adds(f, g, SUBSET S)

UpTo(S, n) == {s \in SUBSET S : Cardinality(s) <= n}

\* What a first element leaves is a smaller part.
LEMMA Rest ==
    ASSUME NEW S, IsFiniteSet(S), NEW s \in SUBSET S, NEW x \in s
    PROVE  /\ IsFiniteSet(s) /\ IsFiniteSet(s \ {x}) /\ s \ {x} \in SUBSET S
           /\ Cardinality(s) \in Nat \ {0} /\ Cardinality(s \ {x}) = Cardinality(s) - 1
           /\ ~ (Cardinality(s) <= Cardinality(s \ {x}))
<1>1. IsFiniteSet(s) BY FS_Subset
<1>2. IsFiniteSet(s \ {x}) /\ Cardinality(s \ {x}) = Cardinality(s) - 1
  BY <1>1, FS_RemoveElement
<1>3. Cardinality(s) \in Nat /\ Cardinality(s \ {x}) \in Nat
  BY <1>1, <1>2, FS_CardinalityType
<1> QED BY <1>1, <1>2, <1>3

\* From the sums of the parts of one size to those of the next.
LEMMA NextSums ==
    ASSUME NEW f, NEW S, IsFiniteSet(S), NEW n \in Nat, NEW g, Adds(f, g, UpTo(S, n))
    PROVE  \E h : Adds(f, h, UpTo(S, n + 1))
<1> DEFINE Value(s) == IF s = {} THEN 0 ELSE f[First(s)] + g[s \ {First(s)}]
           h == [s \in UpTo(S, n + 1) |-> Value(s)]
<1>1. ASSUME NEW s \in UpTo(S, n + 1), s # {}
      PROVE  /\ s \ {First(s)} \in UpTo(S, n) /\ s \ {First(s)} \in UpTo(S, n + 1)
             /\ h[s \ {First(s)}] = g[s \ {First(s)}]
  <2> DEFINE t == s \ {First(s)}
  <2>1. First(s) \in s BY <1>1 DEF First
  <2>2. t \in SUBSET S /\ Cardinality(t) = Cardinality(s) - 1 /\ Cardinality(s) \in Nat
    BY <2>1, Rest DEF UpTo
  <2>3. Cardinality(s) <= n + 1 BY DEF UpTo
  <2>4. t \in UpTo(S, n) /\ t \in UpTo(S, n + 1) BY <2>2, <2>3 DEF UpTo
  <2>5. g[t] = Value(t) BY <2>4 DEF Adds
  <2>6. h[t] = Value(t) BY <2>4
  <2> QED BY <2>4, <2>5, <2>6
<1>2. ASSUME NEW s \in UpTo(S, n + 1)
      PROVE  h[s] = IF s = {} THEN 0 ELSE f[First(s)] + h[s \ {First(s)}]
  BY <1>1
<1>3. DOMAIN h = UpTo(S, n + 1) OBVIOUS
<1> HIDE DEF h
<1>4. Adds(f, h, UpTo(S, n + 1)) BY <1>2, <1>3 DEF Adds
<1> QED BY <1>4

\* Every part of a finite set has its sum.
LEMMA SumsExist ==
    ASSUME NEW f, NEW S, IsFiniteSet(S)
    PROVE  \E g : AddsParts(f, g, S)
<1> DEFINE Missing == {n \in Nat : ~ \E g : Adds(f, g, UpTo(S, n))}
<1>1. 0 \notin Missing
  <2>1. UpTo(S, 0) = {{}}
    <3>1. \A s \in SUBSET S : IsFiniteSet(s) /\ Cardinality(s) \in Nat
      BY FS_Subset, FS_CardinalityType
    <3>2. \A s \in SUBSET S : Cardinality(s) <= 0 <=> s = {} BY <3>1, FS_EmptySet
    <3> QED BY <3>2 DEF UpTo
  <2>2. Adds(f, [s \in {{}} |-> 0], UpTo(S, 0)) BY <2>1 DEF AddsParts, Adds
  <2> QED BY <2>2
<1>2. Missing = {}
  <2> SUFFICES ASSUME Missing # {} PROVE FALSE OBVIOUS
  <2>1. PICK n \in Missing : \A m \in Missing : n <= m
    <3>1. Missing \subseteq Nat OBVIOUS
    <3> HIDE DEF Missing
    <3> QED BY <3>1, LeastNatural
  <2>2. n \in Nat /\ n # 0 BY <1>1
  <2>3. n - 1 \in Nat /\ n - 1 \notin Missing
    <3> HIDE DEF Missing
    <3> QED BY <2>1, <2>2
  <2>4. PICK g : Adds(f, g, UpTo(S, n - 1)) BY <2>3
  <2>5. \E h : Adds(f, h, UpTo(S, (n - 1) + 1)) BY <2>3, <2>4, NextSums
  <2>6. (n - 1) + 1 = n BY <2>2
  <2> QED BY <2>1, <2>5, <2>6
<1>3. UpTo(S, Cardinality(S)) = SUBSET S BY FS_Subset DEF UpTo
<1>4. Cardinality(S) \in Nat BY FS_CardinalityType
<1>5. \E g : Adds(f, g, UpTo(S, Cardinality(S))) BY <1>2, <1>4
<1> QED BY <1>3, <1>5 DEF AddsParts

\* The community modules' sum is such a map's value.
LEMMA SumIsAdded ==
    ASSUME NEW f, NEW S, IsFiniteSet(S)
    PROVE  \E g : AddsParts(f, g, S) /\ SumFunctionOnSet(f, S) = g[S]
<1> DEFINE Value(s, g) == IF s = {} THEN 0 ELSE f[First(s)] + g[s \ {First(s)}]
           Iter(g) == g = [s \in SUBSET S |-> Value(s, g)]
           iter == CHOOSE g : Iter(g)
<1>1. SumFunctionOnSet(f, S) = iter[S]
  BY DEF SumFunctionOnSet, FoldFunctionOnSet, MapThenFoldSet, First
<1>2. PICK g : AddsParts(f, g, S) BY SumsExist
<1>3. PICK h : h = [s \in SUBSET S |-> g[s]] OBVIOUS
<1>4. Iter(h) BY <1>2, <1>3 DEF AddsParts, Adds, First
<1>5. Iter(iter) BY <1>4
<1>6. AddsParts(f, iter, S) BY <1>5 DEF AddsParts, Adds
<1> QED BY <1>1, <1>6

\* Two such maps agree where both are defined.
LEMMA SameSums ==
    ASSUME NEW f, NEW S, IsFiniteSet(S), NEW T \in SUBSET S, NEW g, NEW h,
           AddsParts(f, g, S), AddsParts(f, h, T)
    PROVE  \A s \in SUBSET T : g[s] = h[s]
<1> DEFINE C == {s \in SUBSET T : g[s] # h[s]}
<1>1. C \subseteq SUBSET T OBVIOUS
<1>2. IsFiniteSet(T) BY FS_Subset
<1> SUFFICES ASSUME C # {} PROVE FALSE OBVIOUS
<1>3. PICK s \in C : \A t \in C : Cardinality(s) <= Cardinality(t)
  <2> HIDE DEF C
  <2> QED BY <1>1, <1>2, LeastPart
<1>4. s \in SUBSET T /\ s \in SUBSET S /\ g[s] # h[s] OBVIOUS
<1>5. s # {} BY <1>4 DEF AddsParts, Adds
<1>6. First(s) \in s BY <1>5 DEF First
<1> DEFINE t == s \ {First(s)}
<1>7. t \in SUBSET T /\ t \in SUBSET S /\ ~ (Cardinality(s) <= Cardinality(t))
  BY <1>2, <1>4, <1>6, Rest
<1>8. g[t] = h[t] BY <1>3, <1>7
<1>9. g[s] = f[First(s)] + g[t] /\ h[s] = f[First(s)] + h[t] BY <1>4, <1>5 DEF AddsParts, Adds
<1> QED BY <1>4, <1>8, <1>9

-----------------------------------------------------------------------------
(* What a sum is                                                            *)

\* Nothing adds up to zero.
LEMMA SumEmpty == ASSUME NEW f PROVE SumFunctionOnSet(f, {}) = 0
<1>1. IsFiniteSet({}) BY FS_EmptySet
<1>2. PICK g : AddsParts(f, g, {}) /\ SumFunctionOnSet(f, {}) = g[{}] BY <1>1, SumIsAdded
<1> QED BY <1>2 DEF AddsParts, Adds

\* The sum over a set takes one element out and adds the rest.
LEMMA SumFirst ==
    ASSUME NEW f, NEW S, IsFiniteSet(S), S # {}
    PROVE  SumFunctionOnSet(f, S) = f[First(S)] + SumFunctionOnSet(f, S \ {First(S)})
<1>1. PICK T \in SUBSET S : T = S \ {First(S)} OBVIOUS
<1>2. IsFiniteSet(T) BY FS_Subset
<1>3. PICK g : AddsParts(f, g, S) /\ SumFunctionOnSet(f, S) = g[S] BY SumIsAdded
<1>4. PICK h : AddsParts(f, h, T) /\ SumFunctionOnSet(f, T) = h[T] BY <1>2, SumIsAdded
<1>5. \A s \in SUBSET T : g[s] = h[s]
  <2>1. AddsParts(f, g, S) /\ AddsParts(f, h, T) BY <1>3, <1>4
  <2> QED BY <2>1, SameSums
<1>6. g[S] = f[First(S)] + g[T] BY <1>1, <1>3 DEF AddsParts, Adds
<1> QED BY <1>1, <1>3, <1>4, <1>5, <1>6

\* Sums of integers are integers, and of natural numbers natural numbers.
LEMMA SumType ==
    ASSUME NEW f, NEW S, IsFiniteSet(S), NEW Typ, Typ = Int \/ Typ = Nat,
           \A x \in S : f[x] \in Typ
    PROVE  SumFunctionOnSet(f, S) \in Typ
<1> DEFINE C == {s \in SUBSET S : SumFunctionOnSet(f, s) \notin Typ}
<1> SUFFICES ASSUME C # {} PROVE FALSE OBVIOUS
<1>1. PICK s \in C : \A t \in C : Cardinality(s) <= Cardinality(t)
  <2>1. C \subseteq SUBSET S OBVIOUS
  <2> HIDE DEF C
  <2> QED BY <2>1, LeastPart
<1>2. s \in SUBSET S /\ SumFunctionOnSet(f, s) \notin Typ /\ IsFiniteSet(s) BY FS_Subset
<1>3. s # {}
  <2>1. SumFunctionOnSet(f, {}) \in Typ BY SumEmpty
  <2> QED BY <1>2, <2>1
<1>4. First(s) \in s BY <1>3 DEF First
<1> DEFINE t == s \ {First(s)}
<1>5. t \in SUBSET S /\ ~ (Cardinality(s) <= Cardinality(t))
  <2> HIDE DEF C
  <2> QED BY <1>2, <1>4, Rest
<1>6. SumFunctionOnSet(f, t) \in Typ BY <1>1, <1>5
<1>7. SumFunctionOnSet(f, s) = f[First(s)] + SumFunctionOnSet(f, t) BY <1>2, <1>3, SumFirst
<1> QED BY <1>2, <1>4, <1>6, <1>7

\* So do zeros.
LEMMA SumZero ==
    ASSUME NEW f, NEW S, IsFiniteSet(S), \A x \in S : f[x] = 0
    PROVE  SumFunctionOnSet(f, S) = 0
<1> DEFINE C == {s \in SUBSET S : SumFunctionOnSet(f, s) # 0}
<1> SUFFICES ASSUME C # {} PROVE FALSE OBVIOUS
<1>1. PICK s \in C : \A t \in C : Cardinality(s) <= Cardinality(t)
  <2>1. C \subseteq SUBSET S OBVIOUS
  <2> HIDE DEF C
  <2> QED BY <2>1, LeastPart
<1>2. s \in SUBSET S /\ SumFunctionOnSet(f, s) # 0 /\ IsFiniteSet(s) BY FS_Subset
<1>3. s # {} BY <1>2, SumEmpty
<1>4. First(s) \in s BY <1>3 DEF First
<1> DEFINE t == s \ {First(s)}
<1>5. t \in SUBSET S /\ ~ (Cardinality(s) <= Cardinality(t))
  <2> HIDE DEF C
  <2> QED BY <1>2, <1>4, Rest
<1>6. SumFunctionOnSet(f, t) = 0 BY <1>1, <1>5
<1>7. SumFunctionOnSet(f, s) = f[First(s)] + SumFunctionOnSet(f, t) BY <1>2, <1>3, SumFirst
<1> QED BY <1>2, <1>4, <1>6, <1>7

\* Any element may be taken out.
LEMMA SumElement ==
    ASSUME NEW f, NEW S, IsFiniteSet(S), \A x \in S : f[x] \in Int, NEW k \in S
    PROVE  SumFunctionOnSet(f, S) = f[k] + SumFunctionOnSet(f, S \ {k})
<1> DEFINE Wrong(s) ==
             \E x \in s : SumFunctionOnSet(f, s) # f[x] + SumFunctionOnSet(f, s \ {x})
           C == {s \in SUBSET S : Wrong(s)}
<1> SUFFICES ASSUME C # {} PROVE FALSE OBVIOUS
<1>1. PICK s \in C : \A t \in C : Cardinality(s) <= Cardinality(t)
  <2>1. C \subseteq SUBSET S OBVIOUS
  <2> HIDE DEF C
  <2> QED BY <2>1, LeastPart
<1>2. s \in SUBSET S /\ IsFiniteSet(s) BY FS_Subset
<1>3. PICK x \in s : SumFunctionOnSet(f, s) # f[x] + SumFunctionOnSet(f, s \ {x})
  BY <1>1
<1> DEFINE y == First(s)
<1>4. y \in s BY <1>3 DEF First
<1>5. SumFunctionOnSet(f, s) = f[y] + SumFunctionOnSet(f, s \ {y}) BY <1>2, <1>3, SumFirst
<1>6. x # y BY <1>3, <1>5
<1>7. ~ Wrong(s \ {x}) /\ ~ Wrong(s \ {y})
  <2>1. /\ s \ {x} \in SUBSET S /\ ~ (Cardinality(s) <= Cardinality(s \ {x}))
        /\ s \ {y} \in SUBSET S /\ ~ (Cardinality(s) <= Cardinality(s \ {y}))
    <3> HIDE DEF C
    <3> QED BY <1>2, <1>4, Rest
  <2> HIDE DEF Wrong, y
  <2> QED BY <1>1, <2>1
<1>8. SumFunctionOnSet(f, s \ {x}) = f[y] + SumFunctionOnSet(f, (s \ {x}) \ {y})
  BY <1>4, <1>6, <1>7
<1>9. SumFunctionOnSet(f, s \ {y}) = f[x] + SumFunctionOnSet(f, (s \ {y}) \ {x})
  BY <1>3, <1>6, <1>7
<1>10. (s \ {x}) \ {y} = (s \ {y}) \ {x} OBVIOUS
<1>11. /\ f[x] \in Int /\ f[y] \in Int
       /\ SumFunctionOnSet(f, (s \ {y}) \ {x}) \in Int
  <2>1. IsFiniteSet((s \ {y}) \ {x}) BY <1>2, FS_Subset
  <2>2. \A z \in (s \ {y}) \ {x} : f[z] \in Int BY <1>2
  <2> QED BY <1>2, <1>4, <2>1, <2>2, SumType
<1>12. PICK a \in Int, b \in Int, c \in Int :
           a = f[x] /\ b = f[y] /\ c = SumFunctionOnSet(f, (s \ {y}) \ {x})
  BY <1>11
<1> HIDE DEF y
<1>13. SumFunctionOnSet(f, s) = b + (a + c) BY <1>5, <1>9, <1>12
<1>14. SumFunctionOnSet(f, s \ {x}) = b + c BY <1>8, <1>10, <1>12
<1>15. SumFunctionOnSet(f, s) # a + (b + c) BY <1>3, <1>12, <1>14
<1> QED BY <1>12, <1>13, <1>15

\* A sum of smaller elements is smaller.
LEMMA SumMonotone ==
    ASSUME NEW f, NEW h, NEW S, IsFiniteSet(S),
           \A x \in S : f[x] \in Int /\ h[x] \in Int /\ f[x] <= h[x]
    PROVE  SumFunctionOnSet(f, S) <= SumFunctionOnSet(h, S)
<1> DEFINE C == {s \in SUBSET S : ~ (SumFunctionOnSet(f, s) <= SumFunctionOnSet(h, s))}
<1> SUFFICES ASSUME C # {} PROVE FALSE OBVIOUS
<1>1. PICK s \in C : \A t \in C : Cardinality(s) <= Cardinality(t)
  <2>1. C \subseteq SUBSET S OBVIOUS
  <2> HIDE DEF C
  <2> QED BY <2>1, LeastPart
<1>2. /\ s \in SUBSET S /\ IsFiniteSet(s)
      /\ ~ (SumFunctionOnSet(f, s) <= SumFunctionOnSet(h, s))
  BY FS_Subset
<1>3. s # {}
  <2>1. SumFunctionOnSet(f, {}) = 0 /\ SumFunctionOnSet(h, {}) = 0 BY SumEmpty
  <2> QED BY <1>2, <2>1
<1>4. First(s) \in s BY <1>3 DEF First
<1> DEFINE t == s \ {First(s)}
<1>5. t \in SUBSET S /\ IsFiniteSet(t) /\ ~ (Cardinality(s) <= Cardinality(t))
  BY <1>2, <1>4, Rest
<1>6. SumFunctionOnSet(f, t) <= SumFunctionOnSet(h, t) BY <1>1, <1>5
<1>7. SumFunctionOnSet(f, t) \in Int /\ SumFunctionOnSet(h, t) \in Int BY <1>5, SumType
<1>8. /\ SumFunctionOnSet(f, s) = f[First(s)] + SumFunctionOnSet(f, t)
      /\ SumFunctionOnSet(h, s) = h[First(s)] + SumFunctionOnSet(h, t)
  BY <1>2, <1>3, SumFirst
<1>9. /\ f[First(s)] \in Int /\ h[First(s)] \in Int /\ f[First(s)] <= h[First(s)]
  BY <1>2, <1>4
<1> HIDE DEF t
<1> QED BY <1>2, <1>6, <1>7, <1>8, <1>9

\* Changing one element changes the sum by as much.
LEMMA SumChange ==
    ASSUME NEW f, NEW h, NEW S, IsFiniteSet(S), NEW k \in S,
           \A x \in S : f[x] \in Int /\ h[x] \in Int /\ (x # k => f[x] = h[x])
    PROVE  /\ SumFunctionOnSet(f, S) \in Int /\ SumFunctionOnSet(h, S) \in Int
           /\ SumFunctionOnSet(h, S) = SumFunctionOnSet(f, S) + (h[k] - f[k])
<1> DEFINE T == S \ {k}
<1>1. IsFiniteSet(T) BY FS_Subset
<1>2. SumFunctionOnSet(f, T) \in Int /\ SumFunctionOnSet(h, T) \in Int BY <1>1, SumType
<1>3. SumFunctionOnSet(f, T) = SumFunctionOnSet(h, T)
  <2>1. \A x \in T : f[x] \in Int /\ h[x] \in Int /\ f[x] <= h[x] /\ h[x] <= f[x] OBVIOUS
  <2>2. SumFunctionOnSet(f, T) <= SumFunctionOnSet(h, T) BY <1>1, <2>1, SumMonotone
  <2>3. SumFunctionOnSet(h, T) <= SumFunctionOnSet(f, T) BY <1>1, <2>1, SumMonotone
  <2> QED BY <1>2, <2>2, <2>3
<1>4. /\ SumFunctionOnSet(f, S) = f[k] + SumFunctionOnSet(f, T)
      /\ SumFunctionOnSet(h, S) = h[k] + SumFunctionOnSet(h, T)
  BY SumElement
<1>5. f[k] \in Int /\ h[k] \in Int OBVIOUS
<1> HIDE DEF T
<1> QED BY <1>2, <1>3, <1>4, <1>5

\* The sum over two sets that have nothing in common.
LEMMA SumUnion ==
    ASSUME NEW f, NEW S, NEW T, IsFiniteSet(S), IsFiniteSet(T), S \cap T = {},
           \A x \in S \cup T : f[x] \in Int
    PROVE  SumFunctionOnSet(f, S \cup T) = SumFunctionOnSet(f, S) + SumFunctionOnSet(f, T)
<1> DEFINE Wrong(t) ==
             SumFunctionOnSet(f, S \cup t) # SumFunctionOnSet(f, S) + SumFunctionOnSet(f, t)
           C == {t \in SUBSET T : Wrong(t)}
<1> SUFFICES ASSUME C # {} PROVE FALSE OBVIOUS
<1>1. PICK t \in C : \A u \in C : Cardinality(t) <= Cardinality(u)
  <2>1. C \subseteq SUBSET T OBVIOUS
  <2> HIDE DEF C
  <2> QED BY <2>1, LeastPart
<1>2. t \in SUBSET T /\ IsFiniteSet(t) /\ IsFiniteSet(S \cup t) BY FS_Subset, FS_Union
<1>3. PICK a \in Int : a = SumFunctionOnSet(f, S) BY SumType
<1>4. t # {}
  <2> SUFFICES ASSUME t = {} PROVE FALSE OBVIOUS
  <2>1. S \cup t = S OBVIOUS
  <2>2. SumFunctionOnSet(f, t) = 0 BY SumEmpty
  <2>3. Wrong(t) BY <1>1
  <2> QED BY <1>3, <2>1, <2>2, <2>3
<1>5. PICK x \in t : x = First(t) BY <1>4 DEF First
<1> DEFINE u == t \ {x}
<1>6. u \in SUBSET T /\ IsFiniteSet(u) /\ ~ (Cardinality(t) <= Cardinality(u))
  BY <1>2, Rest
<1>7. ~ Wrong(u)
  <2> HIDE DEF Wrong, u
  <2> QED BY <1>1, <1>6
<1>8. PICK b \in Int, c \in Int : b = f[x] /\ c = SumFunctionOnSet(f, u)
  <2>1. f[x] \in Int /\ \A y \in u : f[y] \in Int BY <1>2
  <2>2. SumFunctionOnSet(f, u) \in Int BY <1>6, <2>1, SumType
  <2> QED BY <2>1, <2>2
<1>9. SumFunctionOnSet(f, t) = b + c BY <1>2, <1>4, <1>5, <1>8, SumFirst
<1>10. SumFunctionOnSet(f, S \cup u) = a + c BY <1>3, <1>7, <1>8
<1>11. SumFunctionOnSet(f, S \cup t) = b + (a + c)
  <2>1. x \in S \cup t /\ (S \cup t) \ {x} = S \cup u BY <1>2
  <2>2. \A y \in S \cup t : f[y] \in Int BY <1>2
  <2> HIDE DEF u
  <2>3. SumFunctionOnSet(f, S \cup t) = f[x] + SumFunctionOnSet(f, (S \cup t) \ {x})
    BY <1>2, <2>1, <2>2, SumElement
  <2> QED BY <1>8, <1>10, <2>1, <2>3
<1>12. b + (a + c) # a + (b + c) BY <1>1, <1>3, <1>9, <1>11
<1> QED BY <1>3, <1>8, <1>12

\* The sum of as many constants.
LEMMA SumConstant ==
    ASSUME NEW f, NEW S, IsFiniteSet(S), NEW c \in Nat, \A x \in S : f[x] = c
    PROVE  SumFunctionOnSet(f, S) = Cardinality(S) * c
<1> DEFINE C == {s \in SUBSET S : SumFunctionOnSet(f, s) # Cardinality(s) * c}
<1> SUFFICES ASSUME C # {} PROVE FALSE
  <2>1. S \in SUBSET S OBVIOUS
  <2> QED BY <2>1
<1>1. PICK s \in C : \A t \in C : Cardinality(s) <= Cardinality(t)
  <2>1. C \subseteq SUBSET S OBVIOUS
  <2> HIDE DEF C
  <2> QED BY <2>1, LeastPart
<1>2. /\ s \in SUBSET S /\ IsFiniteSet(s)
      /\ SumFunctionOnSet(f, s) # Cardinality(s) * c
  BY FS_Subset
<1>3. s # {}
  <2>1. SumFunctionOnSet(f, {}) = 0 /\ Cardinality({}) = 0 BY SumEmpty, FS_EmptySet
  <2> QED BY <1>2, <2>1
<1>4. First(s) \in s BY <1>3 DEF First
<1> DEFINE t == s \ {First(s)}
<1>5. PICK n \in Nat : /\ t \in SUBSET S /\ Cardinality(t) = n /\ Cardinality(s) = n + 1
                       /\ ~ (Cardinality(s) <= Cardinality(t))
  <2>1. /\ t \in SUBSET S /\ ~ (Cardinality(s) <= Cardinality(t))
        /\ Cardinality(s) \in Nat \ {0} /\ Cardinality(t) = Cardinality(s) - 1
    BY <1>2, <1>4, Rest
  <2> HIDE DEF t
  <2>2. Cardinality(t) \in Nat /\ Cardinality(s) = Cardinality(t) + 1 BY <2>1
  <2> QED BY <2>1, <2>2
<1>6. SumFunctionOnSet(f, t) = n * c BY <1>1, <1>5
<1>7. SumFunctionOnSet(f, s) = c + n * c BY <1>2, <1>3, <1>4, <1>6, SumFirst
<1>8. (n + 1) * c = n * c + 1 * c BY Distributes
<1>9. n * c \in Int OBVIOUS
<1>10. SumFunctionOnSet(f, s) # (n + 1) * c BY <1>2, <1>5
<1> QED BY <1>7, <1>8, <1>9, <1>10

-----------------------------------------------------------------------------
(* Quotients, and the rules built on them                                    *)

\* A share of an amount is at most the amount.
LEMMA SharesBounded ==
    ASSUME NEW a \in Nat, NEW b \in Nat, NEW d \in Nat \ {0}, b <= d
    PROVE  (a * b) \div d \in Nat /\ (a * b) \div d <= a
<1>1. a * b \in Nat /\ a * b <= a * d OBVIOUS
<1> QED BY <1>1, Quotients

\* What is left of a basis.
LEMMA BasisLeft ==
    ASSUME NEW basis \in Nat, NEW value \in Nat, NEW taken \in Nat,
           RemainingBasis(basis, value, taken) # Err
    PROVE  taken <= value /\ RemainingBasis(basis, value, taken) \in Nat
<1> USE DEF RemainingBasis, Sub, MulDiv, Err
<1>1. taken <= value OBVIOUS
<1>2. CASE taken > 0 /\ taken < value
  <2>1. (basis * taken) \div value \in Nat /\ (basis * taken) \div value <= basis
    BY <1>2, SharesBounded
  <2> QED BY <1>1, <1>2, <2>1
<1>3. CASE taken = 0 BY <1>1, <1>3
<1>4. CASE taken > 0 /\ taken = value BY <1>1, <1>4
<1> QED BY <1>1, <1>2, <1>3, <1>4

\* The basis that is left is never less than the value that is left.
LEMMA BasisCoversValue ==
    ASSUME NEW basis \in Nat, NEW value \in Nat, NEW taken \in Nat, value <= basis,
           RemainingBasis(basis, value, taken) # Err
    PROVE  value - taken <= RemainingBasis(basis, value, taken)
<1>1. taken <= value BY BasisLeft
<1>2. CASE taken = 0 BY <1>2 DEF RemainingBasis, Err
<1>3. CASE taken > 0 /\ taken = value
  <2>1. value - taken = 0 BY <1>3
  <2> QED BY <2>1, BasisLeft
<1>4. CASE taken > 0 /\ taken < value
  <2>1. PICK more \in Nat, left \in Nat : basis = value + more /\ value = taken + left
    <3>1. basis - value \in Nat /\ value - taken \in Nat BY <1>1
    <3>2. basis = value + (basis - value) /\ value = taken + (value - taken) OBVIOUS
    <3> QED BY <3>1, <3>2
  <2>2. basis * taken <= (more + taken) * value
    <3>1. /\ basis * taken = (taken + left) * taken + more * taken
          /\ (more + taken) * value = more * (taken + left) + taken * (taken + left)
      <4>1. basis * taken = value * taken + more * taken BY <2>1, Distributes
      <4>2. (more + taken) * value = more * value + taken * value BY <2>1, Distributes
      <4> QED BY <2>1, <4>1, <4>2
    <3>2. /\ (taken + left) * taken = taken * (taken + left)
          /\ more * (taken + left) = more * taken + more * left
          /\ more * left \in Nat /\ more * taken \in Nat /\ (taken + left) * taken \in Nat
      BY <2>1
    <3> QED BY <3>1, <3>2
  <2>3. value \in Nat \ {0} /\ basis * taken \in Nat /\ more + taken \in Nat BY <1>4, <2>1
  <2>4. (basis * taken) \div value <= more + taken /\ (basis * taken) \div value \in Nat
    BY <2>2, <2>3, Quotients
  <2>5. RemainingBasis(basis, value, taken) = basis - ((basis * taken) \div value)
    BY <1>4, BasisLeft DEF RemainingBasis, Sub, MulDiv, Err
  <2> QED BY <2>1, <2>4, <2>5
<1> QED BY <1>1, <1>2, <1>3, <1>4

\* A rounded quotient is a natural number unless the operation fails.
LEMMA MulDivIsNat ==
    ASSUME NEW a \in Nat, NEW b \in Nat, NEW d \in Nat, MulDiv(a, b, d, TRUE) # Err
    PROVE  MulDiv(a, b, d, TRUE) \in Nat
<1>1. d # 0 BY DEF MulDiv
<1>2. MulDiv(a, b, d, TRUE) = CeilDiv(a * b, d) BY <1>1 DEF MulDiv
<1>3. a * b \in Nat OBVIOUS
<1>4. CeilDiv(a * b, d) \in Nat BY <1>1, <1>3, Quotients
<1> QED BY <1>2, <1>4

\* A quotient that is rounded up, and what it covers.
LEMMA RoundedUp ==
    ASSUME NEW n \in Nat, NEW d \in Nat \ {0}
    PROVE  /\ CeilDiv(n, d) \in Nat
           /\ n <= CeilDiv(n, d) * d /\ (CeilDiv(n, d) - 1) * d < n
           /\ (n \div d) * d <= n
           /\ CeilDiv(n, d) - (n \div d) \in {0, 1}
<1>1. PICK q \in Nat, r \in 0..(d - 1) : q = n \div d /\ r = n % d /\ n = q * d + r
  BY Quotients
<1>2. q * d \in Nat /\ (q + 1) * d = q * d + 1 * d BY Distributes
<1>3. CeilDiv(n, d) = q + (IF r # 0 THEN 1 ELSE 0) BY <1>1 DEF CeilDiv
<1>4. CASE r = 0
  <2>1. CeilDiv(n, d) = q BY <1>3, <1>4
  <2>2. (q - 1) * d = q * d - d OBVIOUS
  <2>3. n = q * d BY <1>1, <1>2, <1>4
  <2> QED BY <1>1, <1>2, <2>1, <2>2, <2>3
<1>5. CASE r # 0
  <2>1. CeilDiv(n, d) = q + 1 BY <1>3, <1>5
  <2>2. n <= (q + 1) * d /\ q * d < n BY <1>1, <1>2, <1>5
  <2>3. CeilDiv(n, d) - 1 = q BY <2>1
  <2> QED BY <1>1, <2>1, <2>2, <2>3
<1> QED BY <1>4, <1>5

Powers(g, base, n) == g = [k \in 0..n |-> IF k = 0 THEN 1 ELSE base * g[k - 1]]

\* The powers of a number exist.
LEMMA PowersExist == ASSUME NEW base PROVE \A n \in Nat : \E g : Powers(g, base, n)
<1> DEFINE Missing == {n \in Nat : ~ \E g : Powers(g, base, n)}
<1> SUFFICES ASSUME Missing # {} PROVE FALSE OBVIOUS
<1>1. PICK n \in Missing : \A m \in Missing : n <= m
  <2>1. Missing \subseteq Nat OBVIOUS
  <2> HIDE DEF Missing
  <2> QED BY <2>1, LeastNatural
<1>2. n \in Nat /\ n # 0
  <2>1. Powers([k \in 0..0 |-> 1], base, 0) BY DEF Powers
  <2> QED BY <2>1
<1>3. n - 1 \in Nat /\ n - 1 \notin Missing
  <2> HIDE DEF Missing
  <2> QED BY <1>1, <1>2
<1>4. PICK g : Powers(g, base, n - 1) BY <1>3
<1> DEFINE h == [k \in 0..n |-> IF k = 0 THEN 1 ELSE base * g[k - 1]]
<1>5. \A k \in 0..(n - 1) : h[k] = g[k] BY <1>2, <1>4 DEF Powers
<1>6. Powers(h, base, n)
  <2> DEFINE d == [k \in 0..n |-> IF k = 0 THEN 1 ELSE base * h[k - 1]]
  <2>1. \A k \in 0..n : k # 0 => k - 1 \in 0..(n - 1) BY <1>2
  <2>2. \A k \in 0..n : h[k] = d[k] BY <1>5, <2>1
  <2>3. h = [k \in 0..n |-> h[k]] /\ d = [k \in 0..n |-> d[k]] OBVIOUS
  <2> HIDE DEF h, d
  <2>4. h = d BY <2>2, <2>3
  <2> QED BY <2>4 DEF Powers, d
<1> QED BY <1>1, <1>6

\* A number to the zeroth power.
LEMMA PowerOfNought == ASSUME NEW base PROVE Power(base, 0) = 1
<1> DEFINE power == CHOOSE g : Powers(g, base, 0)
<1>1. Power(base, 0) = power[0] BY DEF Power, Powers
<1>2. Powers(power, base, 0) BY PowersExist
<1> HIDE DEF power
<1> QED BY <1>1, <1>2 DEF Powers

\* A power of a positive number is positive.
LEMMA PowerIsPositive ==
    ASSUME NEW base \in Nat \ {0}, NEW n \in Nat
    PROVE  Power(base, n) \in Nat \ {0}
<1> DEFINE power == CHOOSE g : Powers(g, base, n)
<1>1. Power(base, n) = power[n] BY DEF Power, Powers
<1>2. Powers(power, base, n) BY PowersExist
<1> HIDE DEF power
<1>3. \A k \in 0..n : power[k] = IF k = 0 THEN 1 ELSE base * power[k - 1] BY <1>2 DEF Powers
<1> DEFINE C == {k \in 0..n : power[k] \notin Nat \ {0}}
<1>4. C = {}
  <2> SUFFICES ASSUME C # {} PROVE FALSE OBVIOUS
  <2>1. PICK k \in C : \A m \in C : k <= m
    <3>1. C \subseteq Nat OBVIOUS
    <3> HIDE DEF C
    <3> QED BY <3>1, LeastNatural
  <2>2. k \in 0..n /\ k # 0 BY <1>3
  <2>3. k - 1 \in 0..n /\ k - 1 \notin C
    <3> HIDE DEF C
    <3> QED BY <2>1, <2>2
  <2>4. PICK p \in Nat \ {0} : p = power[k - 1] BY <2>3
  <2>5. power[k] = base * p BY <1>3, <2>2, <2>4
  <2>6. base * p \in Nat \ {0} OBVIOUS
  <2> QED BY <2>1, <2>5, <2>6
<1> QED BY <1>1, <1>4

-----------------------------------------------------------------------------
(* Oracle minimums and limits under a display multiplier                    *)

\* The least a fill must deliver, and that at a price capped by the limit it
\* covers the budget.
LEMMA MinimumBounds ==
    ASSUME NEW budget \in Nat, NEW price \in Nat, NEW unit \in Nat, NEW slippage \in Nat,
           NEW max_slip \in Nat, NEW limit \in Nat \cup {NoLimit},
           MinimumStock(budget, price, unit, slippage, max_slip, limit) # Err
    PROVE  LET minimum == MinimumStock(budget, price, unit, slippage, max_slip, limit)
           IN  /\ minimum \in Nat
               /\ limit # NoLimit => budget * unit <= minimum * limit
<1> DEFINE cap == PriceCap(price, slippage, limit)
           minimum == MinimumStock(budget, price, unit, slippage, max_slip, limit)
<1>1. cap # Err /\ minimum = MulDiv(budget, unit, cap, TRUE) BY DEF MinimumStock
<1>2. cap \in Nat /\ (limit # NoLimit => cap <= limit)
  <2>1. MulDiv(price, BPS + slippage, BPS, TRUE) # Err BY <1>1 DEF PriceCap
  <2>2. BPS \in Nat /\ BPS + slippage \in Nat BY BPSAssumption
  <2>3. PICK n \in Nat : n = MulDiv(price, BPS + slippage, BPS, TRUE)
    BY <2>1, <2>2, MulDivIsNat
  <2>4. cap = IF limit = NoLimit THEN n ELSE IF n <= limit THEN n ELSE limit
    BY <2>1, <2>3 DEF PriceCap, LeastOf
  <2> HIDE DEF cap
  <2>5. CASE limit = NoLimit BY <2>4, <2>5
  <2>6. CASE limit # NoLimit /\ n <= limit BY <2>4, <2>6
  <2>7. CASE limit # NoLimit /\ ~(n <= limit) BY <2>4, <2>7
  <2> QED BY <2>5, <2>6, <2>7
<1> HIDE DEF cap, minimum
<1>3. minimum # Err BY DEF minimum
<1>4. cap # 0 /\ minimum = CeilDiv(budget * unit, cap) BY <1>1, <1>3 DEF MulDiv
<1>5. PICK n \in Nat : n = budget * unit OBVIOUS
<1>6. minimum \in Nat /\ n <= minimum * cap BY <1>2, <1>4, <1>5, RoundedUp
<1>7. ASSUME limit # NoLimit PROVE n <= minimum * limit
  <2>1. limit \in Nat /\ cap <= limit BY <1>2, <1>7
  <2>2. minimum * cap <= minimum * limit BY <1>2, <1>6, <2>1
  <2>3. minimum * cap \in Int /\ minimum * limit \in Int BY <1>2, <1>6, <2>1
  <2> QED BY <1>5, <1>6, <2>2, <2>3
<1> QED BY <1>5, <1>6, <1>7 DEF minimum

\* The exact product of a price and a multiplier is Exact / Scaling.
Scaling(shift) == Bit(MostOf(-shift, 0))
Exact(price, m) == price * m.mantissa * Bit(MostOf(m.shift, 0))

\* A scaled price is the exact product, or next to it on the side asked for.
LEMMA ScaledPriceBounds ==
    ASSUME NEW price \in Nat, NEW m, m.mantissa \in Nat, m.shift \in Int,
           NEW up \in BOOLEAN, ScaledPrice(price, m.mantissa, m.shift, up) # Err
    PROVE  LET scaled == ScaledPrice(price, m.mantissa, m.shift, up)
           IN  /\ scaled \in Nat /\ Scaling(m.shift) \in Nat \ {0} /\ Exact(price, m) \in Nat
               /\ up => /\ Exact(price, m) <= scaled * Scaling(m.shift)
                        /\ scaled * Scaling(m.shift) <= Exact(price, m) + Scaling(m.shift) - 1
               /\ ~up => scaled * Scaling(m.shift) <= Exact(price, m)
<1> DEFINE scaled == ScaledPrice(price, m.mantissa, m.shift, up)
<1>1. PICK value \in Nat : value = price * m.mantissa OBVIOUS
<1>2. CASE m.shift >= 0
  <2>1. MostOf(-m.shift, 0) = 0 /\ MostOf(m.shift, 0) = m.shift BY <1>2 DEF MostOf
  <2>2. Scaling(m.shift) = 1 BY <2>1, PowerOfNought DEF Scaling, Bit
  <2>3. PICK b \in Nat : b = Bit(m.shift)
    <3>1. m.shift \in Nat BY <1>2
    <3> QED BY <3>1, PowerIsPositive DEF Bit
  <2>4. PICK n \in Nat : n = value * b OBVIOUS
  <2>5. Exact(price, m) = n BY <1>1, <2>1, <2>3, <2>4 DEF Exact
  <2>6. scaled = n BY <1>1, <1>2, <2>3, <2>4 DEF ScaledPrice
  <2> HIDE DEF scaled
  <2>7. scaled * 1 = n /\ n <= n + 1 - 1 BY <2>6
  <2> QED BY <2>2, <2>4, <2>5, <2>6, <2>7 DEF scaled
<1>3. CASE m.shift < 0
  <2>1. MostOf(-m.shift, 0) = -m.shift /\ MostOf(m.shift, 0) = 0 BY <1>3 DEF MostOf
  <2>2. PICK b \in Nat \ {0} : b = Bit(-m.shift)
    <3>1. -m.shift \in Nat BY <1>3
    <3> QED BY <3>1, PowerIsPositive DEF Bit
  <2>3. Scaling(m.shift) = b BY <2>1, <2>2 DEF Scaling
  <2>4. Exact(price, m) = value
    <3>1. Bit(0) = 1 BY PowerOfNought DEF Bit
    <3>2. Exact(price, m) = value * 1 BY <1>1, <2>1, <3>1 DEF Exact
    <3> QED BY <3>2
  <2>5. PICK high \in Nat, low \in Nat : high = CeilDiv(value, b) /\ low = value \div b
    <3>1. value \div b \in Nat BY Quotients
    <3> QED BY <3>1, RoundedUp
  <2>6. /\ value <= high * b /\ (high - 1) * b < value /\ low * b <= value
    BY <2>5, RoundedUp
  <2>7. scaled = IF up THEN high ELSE low BY <1>1, <1>3, <2>2, <2>5 DEF ScaledPrice
  <2>8. high * b <= value + b - 1
    <3>1. (high - 1) * b = high * b - b /\ high * b \in Int OBVIOUS
    <3> QED BY <2>6, <3>1
  <2> HIDE DEF scaled
  <2> QED BY <2>2, <2>3, <2>4, <2>5, <2>6, <2>7, <2>8 DEF scaled
<1>4. m.shift >= 0 \/ m.shift < 0 OBVIOUS
<1> QED BY <1>2, <1>3, <1>4

\* Products keep the order of their factors.
LEMMA ProductOrder ==
    ASSUME NEW a \in Nat, NEW b \in Nat, NEW c \in Nat, a <= b
    PROVE  a * c <= b * c /\ c * a <= c * b /\ a * c \in Nat /\ b * c \in Nat
OBVIOUS

LEMMA Rearranged ==
    ASSUME NEW a \in Nat, NEW b \in Nat, NEW c \in Nat
    PROVE  (a * b) * c = a * (b * c) /\ a * (b * c) \in Nat /\ b * c \in Nat
OBVIOUS

\* What an oracle fill delivers at least for a budget costs less than one base
\* unit of USDC more per stock unit than the limit times the multiplier.
LEMMA OracleMinimumBounds ==
    ASSUME NEW budget \in Nat, NEW price \in Nat, NEW unit \in Nat, NEW slippage \in Nat,
           NEW max_slip \in Nat, NEW limit \in Nat \cup {NoLimit},
           NEW m, m.mantissa \in Nat, m.shift \in Int,
           OracleMinimum(budget, price, unit, slippage, max_slip, limit, m) # Err
    PROVE  LET minimum == OracleMinimum(budget, price, unit, slippage, max_slip, limit, m)
           IN  /\ minimum \in Nat
               /\ limit # NoLimit =>
                     budget * unit * Scaling(m.shift)
                        <= minimum * (Exact(limit, m) + Scaling(m.shift) - 1)
<1> DEFINE minimum == OracleMinimum(budget, price, unit, slippage, max_slip, limit, m)
           scaled == ScaledPrice(price, m.mantissa, m.shift, TRUE)
           top == ScaledPrice(limit, m.mantissa, m.shift, TRUE)
           bound == IF limit = NoLimit THEN NoLimit ELSE top
<1>1. /\ scaled # Err /\ (limit # NoLimit => top # Err)
      /\ minimum = MinimumStock(budget, scaled, unit, slippage, max_slip, bound)
  BY DEF OracleMinimum
<1>2. scaled \in Nat BY <1>1, ScaledPriceBounds
<1>3. ASSUME limit # NoLimit
      PROVE  /\ top \in Nat /\ Scaling(m.shift) \in Nat \ {0} /\ Exact(limit, m) \in Nat
             /\ top * Scaling(m.shift) <= Exact(limit, m) + Scaling(m.shift) - 1
  <2>1. limit \in Nat BY <1>3
  <2> QED BY <1>1, <1>3, <2>1, ScaledPriceBounds
<1>4. minimum # Err OBVIOUS
<1> HIDE DEF scaled, top, minimum
<1>5. bound \in Nat \cup {NoLimit} BY <1>3
<1>6. minimum \in Nat /\ (bound # NoLimit => budget * unit <= minimum * bound)
  BY <1>1, <1>2, <1>4, <1>5, MinimumBounds
<1>7. ASSUME limit # NoLimit
      PROVE  budget * unit * Scaling(m.shift)
                <= minimum * (Exact(limit, m) + Scaling(m.shift) - 1)
  <2>1. PICK s \in Nat, e \in Nat, t \in Nat, n \in Nat :
           /\ s = Scaling(m.shift) /\ e = Exact(limit, m) + Scaling(m.shift) - 1
           /\ t = top /\ n = budget * unit
    BY <1>3, <1>7
  <2>2. t # NoLimit BY DEF NoLimit
  <2>3. n <= minimum * t /\ minimum * t \in Nat BY <1>6, <1>7, <2>1, <2>2
  <2>4. t * s <= e BY <1>3, <1>7, <2>1
  <2>5. n * s <= (minimum * t) * s BY <2>3, ProductOrder
  <2>6. (minimum * t) * s = minimum * (t * s) /\ t * s \in Nat BY <1>6, Rearranged
  <2>7. minimum * (t * s) <= minimum * e BY <1>6, <2>4, <2>6, ProductOrder
  <2>8. n * s \in Int /\ minimum * (t * s) \in Int /\ minimum * e \in Int BY <1>6, <2>6
  <2>9. n * s <= minimum * e BY <2>5, <2>6, <2>7, <2>8
  <2> QED BY <2>1, <2>9
<1> QED BY <1>6, <1>7 DEF minimum

\* What a routed swap may cost never exceeds the limit times the multiplier.
LEMMA PaysAtMostTheLimit ==
    ASSUME NEW cost \in Nat, NEW received \in Nat, NEW unit \in Nat, NEW limit \in Nat,
           NEW m, m.mantissa \in Nat, m.shift \in Int,
           PaysAtMost(cost, received, unit, limit, m)
    PROVE  cost * unit * Scaling(m.shift) <= received * Exact(limit, m)
<1> DEFINE top == ScaledPrice(limit, m.mantissa, m.shift, FALSE)
<1>1. top # Err /\ cost * unit <= received * top BY DEF PaysAtMost
<1>2. /\ top \in Nat /\ Scaling(m.shift) \in Nat \ {0} /\ Exact(limit, m) \in Nat
      /\ top * Scaling(m.shift) <= Exact(limit, m)
  BY <1>1, ScaledPriceBounds
<1> HIDE DEF top
<1>3. PICK s \in Nat, e \in Nat, n \in Nat :
         s = Scaling(m.shift) /\ e = Exact(limit, m) /\ n = cost * unit
  BY <1>2
<1>4. n <= received * top /\ received * top \in Nat BY <1>1, <1>2, <1>3
<1>5. n * s <= (received * top) * s BY <1>4, ProductOrder
<1>6. (received * top) * s = received * (top * s) /\ top * s \in Nat BY <1>2, Rearranged
<1>7. received * (top * s) <= received * e BY <1>2, <1>3, <1>6, ProductOrder
<1>8. n * s \in Int /\ received * (top * s) \in Int /\ received * e \in Int BY <1>6
<1>9. n * s <= received * e BY <1>5, <1>6, <1>7, <1>8
<1> QED BY <1>3, <1>9

-----------------------------------------------------------------------------
(* Induction over numbers and over the parts of a set, and what is defined  *)
(* along them                                                               *)

\* What holds of nothing and goes from one number to the next holds up to n.
LEMMA CountUp ==
    ASSUME NEW n \in Nat, NEW G, 0 \in G, \A k \in 1..n : k - 1 \in G => k \in G
    PROVE  0..n \subseteq G
<1> SUFFICES ASSUME NEW T, T = (0..n) \ G, T # {} PROVE FALSE OBVIOUS
<1>1. PICK k \in T : \A m \in T : k <= m
  <2>1. T \subseteq Nat OBVIOUS
  <2> QED BY <2>1, LeastNatural
<1>2. k \in 1..n OBVIOUS
<1>3. k - 1 \in 0..n /\ ~ (k <= k - 1) BY <1>2
<1>4. k - 1 \in G BY <1>1, <1>3
<1> QED BY <1>2, <1>4

\* What holds of the empty set and comes back with some element holds of every
\* part.
LEMMA PartByPart ==
    ASSUME NEW S, IsFiniteSet(S), NEW G, {} \in G,
           \A s \in SUBSET S : s # {} => \E x \in s : s \ {x} \in G => s \in G
    PROVE  SUBSET S \subseteq G
<1> SUFFICES ASSUME NEW C, C = (SUBSET S) \ G, C # {} PROVE FALSE OBVIOUS
<1>1. PICK s \in C : \A t \in C : Cardinality(s) <= Cardinality(t)
  <2>1. C \subseteq SUBSET S OBVIOUS
  <2> QED BY <2>1, LeastPart
<1>2. s \in SUBSET S /\ s \notin G OBVIOUS
<1>3. s # {} BY <1>2
<1>4. PICK x \in s : s \ {x} \in G => s \in G BY <1>2, <1>3
<1>5. s \ {x} \in SUBSET S /\ ~ (Cardinality(s) <= Cardinality(s \ {x})) BY <1>2, Rest
<1>6. s \ {x} \in G BY <1>1, <1>5
<1> QED BY <1>2, <1>4, <1>6

Repeats(g, base, F, n) == \A k \in 0..n : g[k] = IF k = 0 THEN base ELSE F[g[k - 1]]

\* A function can be applied n times.
LEMMA RepeatsExist ==
    ASSUME NEW D, NEW base \in D, NEW F \in [D -> D], NEW n \in Nat
    PROVE  \E g \in [0..n -> D] : Repeats(g, base, F, n)
<1> DEFINE G == {m \in 0..n : \E g \in [0..m -> D] : Repeats(g, base, F, m)}
<1>1. 0 \in G
  <2>1. [k \in 0..0 |-> base] \in [0..0 -> D] OBVIOUS
  <2>2. Repeats([k \in 0..0 |-> base], base, F, 0) BY DEF Repeats
  <2> QED BY <2>1, <2>2
<1>2. ASSUME NEW m \in 1..n, m - 1 \in G PROVE m \in G
  <2>1. PICK g \in [0..(m - 1) -> D] : Repeats(g, base, F, m - 1) BY <1>2
  <2> DEFINE h == [k \in 0..m |-> IF k = 0 THEN base ELSE F[g[k - 1]]]
  <2>2. \A k \in 0..m : k # 0 => k - 1 \in 0..(m - 1) OBVIOUS
  <2>3. h \in [0..m -> D]
    <3>1. \A k \in 0..m : k # 0 => F[g[k - 1]] \in D BY <2>2
    <3> QED BY <3>1
  <2>4. \A k \in 0..(m - 1) : h[k] = g[k] BY <2>1 DEF Repeats
  <2>5. \A k \in 0..m : h[k] = IF k = 0 THEN base ELSE F[h[k - 1]] BY <2>2, <2>4
  <2> HIDE DEF h
  <2> QED BY <2>3, <2>5 DEF Repeats
<1> HIDE DEF G
<1>3. 0..n \subseteq G BY <1>1, <1>2, CountUp
<1>4. n \in G BY <1>3
<1> QED BY <1>4 DEF G

Folds(g, base, F, pick, parts) ==
    \A s \in parts : g[s] = IF s = {} THEN base ELSE F[<<g[s \ {pick[s]}], pick[s]>>]

Foldable(S, pick, D, base, F) ==
    /\ IsFiniteSet(S) /\ \A s \in SUBSET S : s # {} => pick[s] \in s
    /\ base \in D /\ F \in [D \X S -> D]

HasFold(S, pick, D, base, F) ==
    \E g \in [SUBSET S -> D] : Folds(g, base, F, pick, SUBSET S)

\* A finite set can be folded, in whatever order its elements are picked.
LEMMA FoldsExist ==
    ASSUME NEW S, NEW pick, NEW D, NEW base, NEW F, Foldable(S, pick, D, base, F)
    PROVE  HasFold(S, pick, D, base, F)
<1> USE DEF Foldable, HasFold
<1> DEFINE G == {n \in Nat : \E g \in [UpTo(S, n) -> D] : Folds(g, base, F, pick, UpTo(S, n))}
<1>1. Cardinality(S) \in Nat BY FS_CardinalityType
<1>2. 0 \in G
  <2>1. UpTo(S, 0) = {{}}
    <3>1. \A s \in SUBSET S : IsFiniteSet(s) /\ Cardinality(s) \in Nat
      BY FS_Subset, FS_CardinalityType
    <3>2. \A s \in SUBSET S : Cardinality(s) <= 0 <=> s = {} BY <3>1, FS_EmptySet
    <3> QED BY <3>2 DEF UpTo
  <2>2. [s \in {{}} |-> base] \in [UpTo(S, 0) -> D] BY <2>1
  <2>3. Folds([s \in {{}} |-> base], base, F, pick, UpTo(S, 0)) BY <2>1 DEF Folds
  <2> QED BY <2>2, <2>3
<1>3. ASSUME NEW n \in 1..Cardinality(S), n - 1 \in G PROVE n \in G
  <2>1. PICK g \in [UpTo(S, n - 1) -> D] : Folds(g, base, F, pick, UpTo(S, n - 1)) BY <1>3
  <2> DEFINE Value(s) == IF s = {} THEN base ELSE F[<<g[s \ {pick[s]}], pick[s]>>]
             h == [s \in UpTo(S, n) |-> Value(s)]
  <2>2. ASSUME NEW s \in UpTo(S, n), s # {}
        PROVE  /\ s \ {pick[s]} \in UpTo(S, n - 1) /\ pick[s] \in S
               /\ Value(s) \in D /\ h[s \ {pick[s]}] = g[s \ {pick[s]}]
    <3>1. PICK t \in SUBSET S : t = s \ {pick[s]} BY DEF UpTo
    <3>2. s \in SUBSET S /\ pick[s] \in s BY <2>2 DEF UpTo
    <3>3. Cardinality(t) = Cardinality(s) - 1 /\ Cardinality(s) \in Nat
      <4>1. PICK y \in s : y = pick[s] BY <3>2
      <4>2. t = s \ {y} BY <3>1, <4>1
      <4> QED BY <3>2, <4>2, Rest
    <3>4. Cardinality(s) <= n BY DEF UpTo
    <3>5. t \in UpTo(S, n - 1) /\ t \in UpTo(S, n) BY <3>3, <3>4 DEF UpTo
    <3>6. g[t] \in D /\ pick[s] \in S BY <3>2, <3>5
    <3>7. F[<<g[t], pick[s]>>] \in D BY <3>6
    <3>8. g[t] = Value(t) BY <2>1, <3>5 DEF Folds
    <3>9. h[t] = Value(t) BY <3>5
    <3> QED BY <2>2, <3>1, <3>5, <3>6, <3>7, <3>8, <3>9
  <2>3. h \in [UpTo(S, n) -> D]
    <3>1. \A s \in UpTo(S, n) : Value(s) \in D BY <2>2
    <3> QED BY <3>1
  <2>4. \A s \in UpTo(S, n) : h[s] = IF s = {} THEN base ELSE F[<<h[s \ {pick[s]}], pick[s]>>]
    BY <2>2
  <2> HIDE DEF h
  <2>5. Folds(h, base, F, pick, UpTo(S, n)) BY <2>4 DEF Folds
  <2>6. \E q \in [UpTo(S, n) -> D] : Folds(q, base, F, pick, UpTo(S, n)) BY <2>3, <2>5
  <2>7. n \in Nat BY <1>1
  <2> QED BY <2>6, <2>7
<1> HIDE DEF G
<1>4. 0..Cardinality(S) \subseteq G BY <1>1, <1>2, <1>3, CountUp
<1>5. UpTo(S, Cardinality(S)) = SUBSET S BY FS_Subset DEF UpTo
<1>6. Cardinality(S) \in G BY <1>1, <1>4
<1>7. PICK g \in [UpTo(S, Cardinality(S)) -> D] : Folds(g, base, F, pick, UpTo(S, Cardinality(S)))
  BY <1>6 DEF G
<1> QED BY <1>5, <1>7

-----------------------------------------------------------------------------
(* Finite sets in order                                                     *)

\* Of finitely many numbers one is the largest.
LEMMA LargestExists ==
    ASSUME NEW S, IsFiniteSet(S), S # {}, NEW f, \A x \in S : f[x] \in Int
    PROVE  \E m \in S : \A x \in S : f[x] <= f[m]
<1> DEFINE G == {s \in SUBSET S : s # {} => \E m \in s : \A x \in s : f[x] <= f[m]}
<1>1. {} \in G OBVIOUS
<1>2. ASSUME NEW s \in SUBSET S, s # {}
      PROVE  \E y \in s : s \ {y} \in G => s \in G
  <2>1. PICK y \in s : TRUE BY <1>2
  <2> SUFFICES ASSUME s \ {y} \in G PROVE s \in G BY <2>1
  <2>2. CASE s \ {y} = {}
    <3>1. \A x \in s : f[x] <= f[y] BY <2>2
    <3> QED BY <3>1
  <2>3. CASE s \ {y} # {}
    <3>1. PICK m \in s \ {y} : \A x \in s \ {y} : f[x] <= f[m] BY <2>3
    <3>2. f[y] \in Int /\ f[m] \in Int /\ \A x \in s : f[x] \in Int OBVIOUS
    <3>3. CASE f[y] <= f[m]
      <4>1. \A x \in s : f[x] <= f[m] BY <3>1, <3>3
      <4> QED BY <4>1
    <3>4. CASE f[m] <= f[y]
      <4>1. \A x \in s : f[x] <= f[y] BY <3>1, <3>2, <3>4
      <4> QED BY <4>1
    <3> QED BY <3>2, <3>3, <3>4
  <2> QED BY <2>2, <2>3
<1> HIDE DEF G
<1>3. SUBSET S \subseteq G BY <1>1, <1>2, PartByPart
<1>4. S \in G BY <1>3
<1> QED BY <1>4 DEF G

\* What a function makes of finitely many is finite.
LEMMA FiniteImages ==
    ASSUME NEW S, IsFiniteSet(S), NEW f
    PROVE  IsFiniteSet({f[x] : x \in S})
<1> DEFINE T == {f[x] : x \in S}
           g == [x \in S |-> f[x]]
<1>1. g \in [S -> T] /\ \A t \in T : \E x \in S : g[x] = t OBVIOUS
<1> HIDE DEF T, g
<1>2. g \in Surjection(S, T) BY <1>1 DEF Surjection
<1>3. IsFiniteSet(T) BY <1>2, FS_Surjection
<1> QED BY <1>3 DEF T

IsOrder(R, S) ==
    /\ \A a, b \in S : a # b => <<a, b>> \in R \/ <<b, a>> \in R
    /\ \A a, b, c \in S : <<a, b>> \in R /\ <<b, c>> \in R => <<a, c>> \in R

\* In an order of finitely many, one comes last.
LEMMA LastExists ==
    ASSUME NEW S, IsFiniteSet(S), NEW R, IsOrder(R, S)
    PROVE  \A s \in SUBSET S : s # {} => \E m \in s : \A x \in s \ {m} : <<x, m>> \in R
<1> DEFINE G == {s \in SUBSET S : s # {} => \E m \in s : \A x \in s \ {m} : <<x, m>> \in R}
<1>1. {} \in G OBVIOUS
<1>2. ASSUME NEW s \in SUBSET S, s # {}
      PROVE  \E y \in s : s \ {y} \in G => s \in G
  <2>1. PICK y \in s : TRUE BY <1>2
  <2> SUFFICES ASSUME s \ {y} \in G PROVE s \in G BY <2>1
  <2>2. CASE s \ {y} = {}
    <3>1. \A x \in s \ {y} : <<x, y>> \in R BY <2>2
    <3> QED BY <3>1
  <2>3. CASE s \ {y} # {}
    <3>1. PICK m \in s \ {y} : \A x \in (s \ {y}) \ {m} : <<x, m>> \in R BY <2>3
    <3>2. CASE <<y, m>> \in R
      <4>1. \A x \in s \ {m} : <<x, m>> \in R BY <3>1, <3>2
      <4> QED BY <4>1
    <3>3. CASE <<m, y>> \in R
      <4>1. \A x \in s \ {y} : <<x, y>> \in R BY <3>1, <3>3 DEF IsOrder
      <4> QED BY <4>1
    <3> QED BY <3>2, <3>3 DEF IsOrder
  <2> QED BY <2>2, <2>3
<1> HIDE DEF G
<1>3. SUBSET S \subseteq G BY <1>1, <1>2, PartByPart
<1> QED BY <1>3 DEF G

\* f has the elements of S, once each.
Enumerates(f, n, S) ==
    /\ f \in [1..n -> S]
    /\ \A x \in S : \E i \in 1..n : f[i] = x
    /\ \A i, j \in 1..n : f[i] = f[j] => i = j
\* f has them by R.
Lists(f, n, S, R) ==
    Enumerates(f, n, S) /\ \A i, j \in 1..n : i < j => <<f[i], f[j]>> \in R

\* A finite set can be listed by an order.
LEMMA ListsExist ==
    ASSUME NEW S, IsFiniteSet(S), NEW R, IsOrder(R, S)
    PROVE  \E f : Lists(f, Cardinality(S), S, R)
<1> DEFINE G == {s \in SUBSET S : \E f : Lists(f, Cardinality(s), s, R)}
<1>1. {} \in G
  <2>1. Cardinality({}) = 0 BY FS_EmptySet
  <2>2. Lists([i \in {} |-> 0], 0, {}, R) BY DEF Lists, Enumerates
  <2> QED BY <2>1, <2>2
<1>2. ASSUME NEW s \in SUBSET S, s # {}
      PROVE  \E y \in s : s \ {y} \in G => s \in G
  <2>1. PICK m \in s : \A x \in s \ {m} : <<x, m>> \in R BY <1>2, LastExists
  <2> SUFFICES ASSUME s \ {m} \in G PROVE s \in G BY <2>1
  <2>2. PICK n \in Nat \ {0} : n = Cardinality(s) /\ Cardinality(s \ {m}) = n - 1 BY Rest
  <2>3. PICK t : t = s \ {m} OBVIOUS
  <2>4. PICK f : Lists(f, n - 1, t, R) BY <2>2, <2>3
  <2> DEFINE h == [i \in 1..n |-> IF i = n THEN m ELSE f[i]]
  <2>5. f \in [1..(n - 1) -> t] BY <2>4 DEF Lists, Enumerates
  <2>6. /\ h[n] = m /\ \A i \in 1..n : i # n => i \in 1..(n - 1) /\ h[i] = f[i] /\ f[i] \in t
    BY <2>5
  <2>7. h \in [1..n -> s] BY <2>3, <2>6
  <2> HIDE DEF h
  <2>8. \A x \in s : \E i \in 1..n : h[i] = x
    <3> TAKE x \in s
    <3>1. CASE x = m BY <2>6, <3>1
    <3>2. CASE x # m
      <4>1. PICK i \in 1..(n - 1) : f[i] = x BY <2>3, <2>4, <3>2 DEF Lists, Enumerates
      <4>2. i \in 1..n /\ i # n OBVIOUS
      <4> QED BY <2>6, <4>1, <4>2
    <3> QED BY <3>1, <3>2
  <2>9. \A i, j \in 1..n : h[i] = h[j] => i = j
    <3> SUFFICES ASSUME NEW i \in 1..n, NEW j \in 1..n, h[i] = h[j] PROVE i = j OBVIOUS
    <3>1. CASE i = n \/ j = n BY <2>3, <2>6, <3>1
    <3>2. CASE i # n /\ j # n BY <2>4, <2>6, <3>2 DEF Lists, Enumerates
    <3> QED BY <3>1, <3>2
  <2>10. \A i, j \in 1..n : i < j => <<h[i], h[j]>> \in R
    <3> SUFFICES ASSUME NEW i \in 1..n, NEW j \in 1..n, i < j PROVE <<h[i], h[j]>> \in R OBVIOUS
    <3>1. i # n OBVIOUS
    <3>2. CASE j = n BY <2>1, <2>3, <2>6, <3>1, <3>2
    <3>3. CASE j # n BY <2>4, <2>6, <3>1, <3>3 DEF Lists, Enumerates
    <3> QED BY <3>2, <3>3
  <2>11. Lists(h, n, s, R) BY <2>7, <2>8, <2>9, <2>10 DEF Lists, Enumerates
  <2> QED BY <2>2, <2>11
<1> HIDE DEF G
<1>3. SUBSET S \subseteq G BY <1>1, <1>2, PartByPart
<1>4. S \in G BY <1>3
<1> QED BY <1>4 DEF G

-----------------------------------------------------------------------------
(* Sums of parts and shares                                                 *)

\* h at a new name is f at the old one.
Renames(A, e, f, h) ==
    /\ IsFiniteSet(A) /\ \A x, y \in A : e[x] = e[y] => x = y
    /\ \A x \in A : f[x] \in Int /\ f[x] = h[e[x]]

\* A sum does not depend on the names of its summands.
LEMMA SumRenamed ==
    ASSUME NEW A, NEW e, NEW f, NEW h, Renames(A, e, f, h)
    PROVE  /\ IsFiniteSet({e[x] : x \in A})
           /\ SumFunctionOnSet(f, A) = SumFunctionOnSet(h, {e[x] : x \in A})
<1> USE DEF Renames
<1> DEFINE To(s) == {e[x] : x \in s}
           Same(s) == IsFiniteSet(To(s)) /\ SumFunctionOnSet(f, s) = SumFunctionOnSet(h, To(s))
           G == {s \in SUBSET A : Same(s)}
<1>1. {} \in G
  <2>1. To({}) = {} OBVIOUS
  <2> QED BY <2>1, SumEmpty, FS_EmptySet
<1>2. ASSUME NEW s \in SUBSET A, s # {}
      PROVE  \E x \in s : s \ {x} \in G => s \in G
  <2>1. PICK x \in s : TRUE BY <1>2
  <2> SUFFICES ASSUME s \ {x} \in G PROVE s \in G BY <2>1
  <2>2. PICK t : t = s \ {x} OBVIOUS
  <2>3. To(s) = To(t) \cup {e[x]} /\ To(t) = To(s) \ {e[x]} /\ e[x] \in To(s) BY <2>2
  <2>4. \A y \in To(s) : h[y] \in Int OBVIOUS
  <2>5. Same(t) BY <2>2
  <2> HIDE DEF To
  <2>6. IsFiniteSet(To(s)) BY <2>3, <2>5, FS_AddElement
  <2>7. IsFiniteSet(s) /\ \A y \in s : f[y] \in Int BY FS_Subset
  <2>8. SumFunctionOnSet(f, s) = f[x] + SumFunctionOnSet(f, t) BY <2>2, <2>7, SumElement
  <2>9. SumFunctionOnSet(h, To(s)) = h[e[x]] + SumFunctionOnSet(h, To(t))
    BY <2>3, <2>4, <2>6, SumElement
  <2>10. f[x] = h[e[x]] OBVIOUS
  <2> QED BY <2>5, <2>6, <2>8, <2>9, <2>10
<1> HIDE DEF G
<1>3. SUBSET A \subseteq G BY <1>1, <1>2, PartByPart
<1>4. A \in G BY <1>3
<1> QED BY <1>4 DEF G

\* Parts that are bounded one by one are bounded together.
LEMMA SumOfShares ==
    ASSUME NEW S, IsFiniteSet(S), NEW f, NEW c, NEW d \in Nat, NEW w \in Nat,
           \A x \in S : f[x] \in Nat /\ c[x] \in Nat /\ c[x] * d <= f[x] * w
    PROVE  SumFunctionOnSet(c, S) * d <= SumFunctionOnSet(f, S) * w
<1> DEFINE Bounded(s) == SumFunctionOnSet(c, s) * d <= SumFunctionOnSet(f, s) * w
           G == {s \in SUBSET S : Bounded(s)}
<1>1. {} \in G BY SumEmpty
<1>2. ASSUME NEW s \in SUBSET S, s # {}
      PROVE  \E x \in s : s \ {x} \in G => s \in G
  <2>1. PICK x \in s : TRUE BY <1>2
  <2> SUFFICES ASSUME s \ {x} \in G PROVE s \in G BY <2>1
  <2>2. PICK t \in SUBSET S : t = s \ {x} OBVIOUS
  <2>3. IsFiniteSet(s) /\ IsFiniteSet(t) BY FS_Subset
  <2>4. \A y \in s : f[y] \in Int /\ c[y] \in Int OBVIOUS
  <2>5. /\ SumFunctionOnSet(f, s) = f[x] + SumFunctionOnSet(f, t)
        /\ SumFunctionOnSet(c, s) = c[x] + SumFunctionOnSet(c, t)
    BY <2>2, <2>3, <2>4, SumElement
  <2>6. SumFunctionOnSet(f, t) \in Nat /\ SumFunctionOnSet(c, t) \in Nat BY <2>3, SumType
  <2>7. PICK i \in Nat, j \in Nat : i = SumFunctionOnSet(f, t) /\ j = SumFunctionOnSet(c, t)
    BY <2>6
  <2>8. PICK k \in Nat, l \in Nat : k = f[x] /\ l = c[x] /\ l * d <= k * w OBVIOUS
  <2>9. j * d <= i * w BY <2>2, <2>7
  <2>10. (l + j) * d = l * d + j * d /\ (k + i) * w = k * w + i * w BY Distributes
  <2>11. (l + j) * d <= (k + i) * w BY <2>8, <2>9, <2>10
  <2> QED BY <2>5, <2>7, <2>8, <2>11
<1> HIDE DEF G
<1>3. SUBSET S \subseteq G BY <1>1, <1>2, PartByPart
<1>4. S \in G BY <1>3
<1> QED BY <1>4 DEF G

\* What is taken from each summand is taken from the sum.
LEMMA SumMinus ==
    ASSUME NEW S, IsFiniteSet(S), NEW f, NEW c, NEW h,
           \A x \in S : f[x] \in Int /\ c[x] \in Int /\ h[x] = f[x] - c[x]
    PROVE  /\ SumFunctionOnSet(f, S) \in Int /\ SumFunctionOnSet(c, S) \in Int
           /\ SumFunctionOnSet(h, S) = SumFunctionOnSet(f, S) - SumFunctionOnSet(c, S)
<1> DEFINE Taken(s) == SumFunctionOnSet(h, s) = SumFunctionOnSet(f, s) - SumFunctionOnSet(c, s)
           G == {s \in SUBSET S : Taken(s)}
<1>1. {} \in G BY SumEmpty
<1>2. ASSUME NEW s \in SUBSET S, s # {}
      PROVE  \E x \in s : s \ {x} \in G => s \in G
  <2>1. PICK x \in s : TRUE BY <1>2
  <2> SUFFICES ASSUME s \ {x} \in G PROVE s \in G BY <2>1
  <2>2. PICK t \in SUBSET S : t = s \ {x} OBVIOUS
  <2>3. IsFiniteSet(s) /\ IsFiniteSet(t) BY FS_Subset
  <2>4. \A y \in s : f[y] \in Int /\ c[y] \in Int /\ h[y] \in Int OBVIOUS
  <2>5. /\ SumFunctionOnSet(f, s) = f[x] + SumFunctionOnSet(f, t)
        /\ SumFunctionOnSet(c, s) = c[x] + SumFunctionOnSet(c, t)
        /\ SumFunctionOnSet(h, s) = h[x] + SumFunctionOnSet(h, t)
    BY <2>2, <2>3, <2>4, SumElement
  <2>6. SumFunctionOnSet(f, t) \in Int /\ SumFunctionOnSet(c, t) \in Int BY <2>3, SumType
  <2>7. PICK i \in Int, j \in Int : i = SumFunctionOnSet(f, t) /\ j = SumFunctionOnSet(c, t)
    BY <2>6
  <2>8. PICK k \in Int, l \in Int : k = f[x] /\ l = c[x] /\ h[x] = k - l OBVIOUS
  <2>9. SumFunctionOnSet(h, t) = i - j BY <2>2, <2>7
  <2> QED BY <2>5, <2>7, <2>8, <2>9
<1> HIDE DEF G
<1>3. SUBSET S \subseteq G BY <1>1, <1>2, PartByPart
<1>4. S \in G BY <1>3
<1>5. Taken(S) BY <1>4 DEF G
<1>6. SumFunctionOnSet(f, S) \in Int /\ SumFunctionOnSet(c, S) \in Int BY SumType
<1> QED BY <1>5, <1>6

\* A sum of something is something.
LEMMA SumPositive ==
    ASSUME NEW S, IsFiniteSet(S), S # {}, NEW f, \A x \in S : f[x] \in Nat \ {0}
    PROVE  SumFunctionOnSet(f, S) \in Nat \ {0}
<1>1. PICK k \in S : TRUE OBVIOUS
<1>2. PICK T \in SUBSET S : T = S \ {k} OBVIOUS
<1>3. IsFiniteSet(T) BY FS_Subset
<1>4. \A x \in S : f[x] \in Int /\ f[x] \in Nat OBVIOUS
<1>5. SumFunctionOnSet(f, T) \in Nat BY <1>3, <1>4, SumType
<1>6. SumFunctionOnSet(f, S) = f[k] + SumFunctionOnSet(f, T) BY <1>2, <1>4, SumElement
<1>7. f[k] \in Nat /\ f[k] > 0 OBVIOUS
<1> QED BY <1>5, <1>6, <1>7

\* The sum of one is that one.
LEMMA SumOfOne ==
    ASSUME NEW f, DOMAIN f = {1}, f[1] \in Int
    PROVE  SumFunction(f) = f[1]
<1>1. PICK S, R : S = {1} /\ R = S \ {1} OBVIOUS
<1>2. IsFiniteSet(S) /\ R = {} BY <1>1, FS_Singleton
<1>3. \A x \in S : f[x] \in Int BY <1>1
<1>4. \A x \in S : SumFunctionOnSet(f, S) = f[x] + SumFunctionOnSet(f, S \ {x})
  BY <1>2, <1>3, SumElement
<1>5. SumFunctionOnSet(f, R) = 0 BY <1>2, SumEmpty
<1>6. SumFunctionOnSet(f, S) = f[1] + SumFunctionOnSet(f, R) BY <1>1, <1>4
<1> QED BY <1>1, <1>5, <1>6 DEF SumFunction

\* Two functions that agree have one sum.
LEMMA SumAgrees ==
    ASSUME NEW f, NEW h, NEW S, IsFiniteSet(S), \A x \in S : f[x] \in Int /\ f[x] = h[x]
    PROVE  SumFunctionOnSet(f, S) = SumFunctionOnSet(h, S)
<1>1. SumFunctionOnSet(f, S) <= SumFunctionOnSet(h, S) BY SumMonotone
<1>2. SumFunctionOnSet(h, S) <= SumFunctionOnSet(f, S) BY SumMonotone
<1>3. SumFunctionOnSet(f, S) \in Int /\ SumFunctionOnSet(h, S) \in Int BY SumType
<1> QED BY <1>1, <1>2, <1>3

\* What is zero adds nothing.
LEMMA SumOfPart ==
    ASSUME NEW f, NEW S, IsFiniteSet(S), NEW T \in SUBSET S, \A x \in S : f[x] \in Int,
           \A x \in S \ T : f[x] = 0
    PROVE  SumFunctionOnSet(f, T) = SumFunctionOnSet(f, S)
<1>1. PICK R \in SUBSET S : R = S \ T OBVIOUS
<1>2. IsFiniteSet(T) /\ IsFiniteSet(R) BY FS_Subset
<1>3. SumFunctionOnSet(f, R) = 0 BY <1>1, <1>2, SumZero
<1>4. T \cup R = S /\ T \cap R = {} BY <1>1
<1>5. SumFunctionOnSet(f, T \cup R) = SumFunctionOnSet(f, T) + SumFunctionOnSet(f, R)
  BY <1>2, <1>4, SumUnion
<1>6. SumFunctionOnSet(f, T) \in Int BY <1>2, SumType
<1>7. SumFunctionOnSet(f, S) = SumFunctionOnSet(f, T) + SumFunctionOnSet(f, R)
  BY <1>4, <1>5, Zenon
<1> QED BY <1>3, <1>6, <1>7

Along(h, order, n) == [k \in 1..n |-> h[order[k]]]
Summable(h, order, n, S) == Enumerates(order, n, S) /\ \A x \in S : h[x] \in Int

\* A sum over a list of some elements is the sum over the elements.
LEMMA ListedSum ==
    ASSUME NEW n \in Nat, NEW S, NEW order, NEW h, Summable(h, order, n, S)
    PROVE  SumFunction(Along(h, order, n)) = SumFunctionOnSet(h, S)
<1> USE DEF Summable
<1>1. PICK I, f : I = 1..n /\ f = [k \in 1..n |-> h[order[k]]] OBVIOUS
<1>2. IsFiniteSet(I) BY <1>1, FS_Interval
<1>3. \A k \in I : f[k] \in Int /\ f[k] = h[order[k]] BY <1>1 DEF Enumerates
<1>4. {order[k] : k \in I} = S BY <1>1 DEF Enumerates
<1>5. \A i, j \in I : order[i] = order[j] => i = j BY <1>1 DEF Enumerates
<1>6. SumFunctionOnSet(f, I) = SumFunctionOnSet(h, {order[k] : k \in I})
  <2>1. Renames(I, order, f, h) BY <1>2, <1>3, <1>5 DEF Renames
  <2> QED BY <2>1, SumRenamed
<1>7. SumFunction(f) = SumFunctionOnSet(f, I)
  <2>1. DOMAIN f = I BY <1>1
  <2> QED BY <2>1 DEF SumFunction
<1> QED BY <1>1, <1>4, <1>6, <1>7 DEF Along
=============================================================================
