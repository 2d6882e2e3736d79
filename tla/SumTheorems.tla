---------------------------- MODULE SumTheorems ----------------------------
(***************************************************************************)
(* Facts about SumFunctionOnSet(f, S), the sum of f[x] over the x of a     *)
(* finite set S, which the models use for positions and profits: what the  *)
(* proofs of their ledgers need to know about adding up trades.            *)
(*                                                                         *)
(* The library's induction theorems take the property to prove as an       *)
(* operator; here induction is first order, over the family of the sets    *)
(* that have the property, from the existence of minimal elements.         *)
(***************************************************************************)
EXTENDS FiniteSetTheorems, TLAPS

-----------------------------------------------------------------------------
(* Induction.                                                              *)

(* A set of naturals with zero and closed under successor has them all.    *)
LEMMA NatSetInduction ==
    ASSUME NEW I, 0 \in I, \A n \in Nat : n \in I => n + 1 \in I
    PROVE  Nat \subseteq I
<1> DEFINE T == {n \in Nat : n \notin I}
<1>1. SUFFICES ASSUME T # {} PROVE FALSE
    OBVIOUS
<1> DEFINE less == {ss \in Nat \X Nat : ss[1] < ss[2]}
<1>2. PICK n \in T : \A k \in T : ~(<<k, n>> \in less)
    <2>1. T \subseteq Nat
        OBVIOUS
    <2>2. IsWellFoundedOn(less, Nat)
        BY NatLessThanWellFounded DEF OpToRel
    <2> HIDE DEF T, less
    <2> QED
        BY <1>1, <2>1, <2>2, WFMin
<1>3. \A k \in T : ~(k < n)
    BY <1>2
<1>4. n # 0 /\ n - 1 \in Nat /\ n - 1 \notin T
    BY <1>3
<1> QED
    BY <1>4

(* A family with the empty set and with T \cup {x} for each of its T has   *)
(* every finite set.                                                       *)
LEMMA FiniteSetInduction ==
    ASSUME NEW S, IsFiniteSet(S), NEW F, {} \in F,
           \A T \in SUBSET S, x \in S : T \in F => T \cup {x} \in F
    PROVE  S \in F
<1> DEFINE B == {T \in SUBSET S : T \notin F}
<1>1. SUFFICES ASSUME S \notin F PROVE FALSE
    OBVIOUS
<1>2. B # {} /\ B \subseteq FiniteSubsetsOf(S)
    BY <1>1, FS_FiniteSubsetsOfFinite
<1>3. PICK T \in B : \A U \in B : ~(<<U, T>> \in StrictSubsetOrdering(S))
    BY <1>2, FS_StrictSubsetOrderingWellFounded, WFMin
<1>4. PICK x \in T : TRUE
    OBVIOUS
<1>5. T \ {x} \notin B
    <2>1. <<T \ {x}, T>> \in StrictSubsetOrdering(S)
        BY <1>4 DEF StrictSubsetOrdering
    <2> QED
        BY <1>3, <2>1
<1>6. T \ {x} \in F /\ x \in S
    BY <1>4, <1>5
<1>7. T = (T \ {x}) \cup {x}
    BY <1>4
<1> QED
    BY <1>6, <1>7

-----------------------------------------------------------------------------
(* The sum.                                                                *)

(* Some element of a set, the one the fold takes first.                    *)
First(s) == CHOOSE x \in s : TRUE

(* One unfolding of the fold over the sets of D.                           *)
Unfold(f, h, s) == IF s = {} THEN 0 ELSE f[First(s)] + h[s \ {First(s)}]

(* The function that the fold is defined by.                               *)
IterOf(f, S) ==
    CHOOSE h : h = [s \in SUBSET S |-> Unfold(f, h, s)]

(* The sum is the value at S of the function it is defined by.             *)
LEMMA SumIsIter ==
    ASSUME NEW f, NEW S
    PROVE  SumFunctionOnSet(f, S) = IterOf(f, S)[S]
    BY DEF SumFunctionOnSet, FoldFunctionOnSet, MapThenFoldSet, IterOf, Unfold, First

(* First picks an element of a nonempty set.                               *)
LEMMA FirstIn ==
    ASSUME NEW s, s # {}
    PROVE  First(s) \in s
    BY DEF First

(* A function that unfolds on the sets of at most n elements.              *)
Partial(f, S, n) ==
    \E h : /\ h = [s \in SUBSET S |-> h[s]]
          /\ \A s \in SUBSET S : Cardinality(s) <= n => h[s] = Unfold(f, h, s)

(* The recursion of the fold has a solution: solutions for the sets of at  *)
(* most n elements exist for every n.                                      *)
LEMMA IterAt ==
    ASSUME NEW f, NEW S, IsFiniteSet(S)
    PROVE  \A s \in SUBSET S : IterOf(f, S)[s] = Unfold(f, IterOf(f, S), s)
<1> DEFINE I == {n \in Nat : Partial(f, S, n)}
<1>1. \A s \in SUBSET S : IsFiniteSet(s) /\ Cardinality(s) \in Nat
    BY FS_Subset, FS_CardinalityType
<1>2. 0 \in I
    <2> DEFINE h == [s \in SUBSET S |-> 0]
    <2>1. \A s \in SUBSET S : Cardinality(s) <= 0 => s = {}
        BY <1>1, FS_EmptySet
    <2>2. \A s \in SUBSET S : Cardinality(s) <= 0 => h[s] = Unfold(f, h, s)
        BY <2>1 DEF Unfold
    <2>3. h = [s \in SUBSET S |-> h[s]]
        OBVIOUS
    <2> QED
        BY <2>2, <2>3 DEF Partial
<1>3. \A n \in Nat : n \in I => n + 1 \in I
    <2> SUFFICES ASSUME NEW n \in Nat, Partial(f, S, n)
                 PROVE  Partial(f, S, n + 1)
        OBVIOUS
    <2>1. PICK h : /\ h = [s \in SUBSET S |-> h[s]]
                   /\ \A s \in SUBSET S :
                        Cardinality(s) <= n => h[s] = Unfold(f, h, s)
        BY DEF Partial
    <2> DEFINE g == [s \in SUBSET S |->
                        IF Cardinality(s) <= n THEN h[s] ELSE Unfold(f, h, s)]
    <2>2. ASSUME NEW s \in SUBSET S, Cardinality(s) <= n + 1
          PROVE  g[s] = Unfold(f, g, s)
        <3>1. CASE s = {}
            <4>1. g[s] = Unfold(f, h, s)
                BY <2>1, <1>1
            <4> QED
                BY <3>1, <4>1 DEF Unfold
        <3>2. CASE s # {}
            <4> DEFINE r == s \ {First(s)}
            <4>1. r \in SUBSET S /\ Cardinality(r) = Cardinality(s) - 1
                BY <1>1, <3>2, FirstIn, FS_RemoveElement
            <4>2. g[r] = h[r]
                BY <4>1, <1>1, <2>2
            <4>3. g[s] = Unfold(f, h, s)
                BY <2>1, <1>1
            <4> QED
                BY <4>2, <4>3, <3>2 DEF Unfold
        <3> QED
            BY <3>1, <3>2
    <2>3. g = [s \in SUBSET S |-> g[s]]
        OBVIOUS
    <2> HIDE DEF g
    <2> QED
        BY <2>2, <2>3 DEF Partial
<1>4. Cardinality(S) \in I
    <2> HIDE DEF I
    <2> QED
        BY <1>1, <1>2, <1>3, NatSetInduction
<1>5. PICK h : /\ h = [s \in SUBSET S |-> h[s]]
               /\ \A s \in SUBSET S :
                    Cardinality(s) <= Cardinality(S) => h[s] = Unfold(f, h, s)
    BY <1>4 DEF Partial
<1>6. \A s \in SUBSET S : h[s] = Unfold(f, h, s)
    BY <1>5, FS_Subset
<1>7. h = [s \in SUBSET S |-> Unfold(f, h, s)]
    BY <1>5, <1>6
<1>8. IterOf(f, S) = [s \in SUBSET S |-> Unfold(f, IterOf(f, S), s)]
    BY <1>7 DEF IterOf
<1> QED
    BY <1>8

(* Two solutions over different sets agree where both are defined.         *)
LEMMA IterAgree ==
    ASSUME NEW f, NEW S, IsFiniteSet(S), NEW T \in SUBSET S
    PROVE  IterOf(f, S)[T] = SumFunctionOnSet(f, T)
<1> DEFINE F == {s \in SUBSET T : IterOf(f, S)[s] = IterOf(f, T)[s]}
           n == Cardinality(T)
           I == {k \in Nat : \A s \in SUBSET T : Cardinality(s) <= k => s \in F}
<1>1. IsFiniteSet(T)
    BY FS_Subset
<1>2. \A s \in SUBSET T : IsFiniteSet(s) /\ Cardinality(s) \in Nat
    BY <1>1, FS_Subset, FS_CardinalityType
<1>3. \A s \in SUBSET T : /\ IterOf(f, S)[s] = Unfold(f, IterOf(f, S), s)
                          /\ IterOf(f, T)[s] = Unfold(f, IterOf(f, T), s)
    BY <1>1, IterAt
<1>4. 0 \in I
    <2>1. \A s \in SUBSET T : Cardinality(s) <= 0 => s = {}
        BY <1>2, FS_EmptySet
    <2> QED
        BY <2>1, <1>3 DEF Unfold
<1>5. \A k \in Nat : k \in I => k + 1 \in I
    <2> SUFFICES ASSUME NEW k \in Nat, k \in I, NEW s \in SUBSET T,
                        Cardinality(s) <= k + 1
                 PROVE  s \in F
        OBVIOUS
    <2>1. CASE s = {}
        BY <2>1, <1>3 DEF Unfold
    <2>2. CASE s # {}
        <3> DEFINE r == s \ {First(s)}
        <3>1. r \in SUBSET T /\ Cardinality(r) = Cardinality(s) - 1
            BY <1>2, <2>2, FirstIn, FS_RemoveElement
        <3>2. r \in F
            BY <3>1, <1>2
        <3> QED
            BY <3>2, <2>2, <1>3 DEF Unfold
    <2> QED
        BY <2>1, <2>2
<1>6. n \in I
    <2> HIDE DEF I
    <2> QED
        BY <1>2, <1>4, <1>5, NatSetInduction
<1> QED
    BY <1>2, <1>6, SumIsIter

-----------------------------------------------------------------------------
(* What the models' proofs cite.                                           *)

(* Nothing adds up to nothing.                                             *)
LEMMA SumEmpty ==
    ASSUME NEW f
    PROVE  SumFunctionOnSet(f, {}) = 0
    BY SumIsIter, IterAt, FS_EmptySet DEF Unfold

(* The sum over a nonempty set takes one element and goes on.              *)
LEMMA SumUnfold ==
    ASSUME NEW f, NEW S, IsFiniteSet(S), S # {}
    PROVE  SumFunctionOnSet(f, S)
             = f[First(S)] + SumFunctionOnSet(f, S \ {First(S)})
<1>1. S \ {First(S)} \in SUBSET S /\ S \in SUBSET S
    OBVIOUS
<1>2. IterOf(f, S)[S] = f[First(S)] + IterOf(f, S)[S \ {First(S)}]
    BY <1>1, IterAt DEF Unfold
<1> QED
    BY <1>1, <1>2, SumIsIter, IterAgree

(* A sum of integers is an integer.                                        *)
LEMMA SumInt ==
    ASSUME NEW f, NEW S, IsFiniteSet(S), \A x \in S : f[x] \in Int
    PROVE  SumFunctionOnSet(f, S) \in Int
<1> DEFINE I == {n \in Nat : \A s \in SUBSET S :
                    Cardinality(s) <= n => SumFunctionOnSet(f, s) \in Int}
<1>1. \A s \in SUBSET S : IsFiniteSet(s) /\ Cardinality(s) \in Nat
    BY FS_Subset, FS_CardinalityType
<1>2. 0 \in I
    <2>1. \A s \in SUBSET S : Cardinality(s) <= 0 => s = {}
        BY <1>1, FS_EmptySet
    <2> QED
        BY <2>1, SumEmpty
<1>3. \A n \in Nat : n \in I => n + 1 \in I
    <2> SUFFICES ASSUME NEW n \in Nat, n \in I, NEW s \in SUBSET S,
                        Cardinality(s) <= n + 1
                 PROVE  SumFunctionOnSet(f, s) \in Int
        OBVIOUS
    <2>1. CASE s = {}
        BY <2>1, SumEmpty
    <2>2. CASE s # {}
        <3> DEFINE r == s \ {First(s)}
        <3>1. r \in SUBSET S /\ Cardinality(r) = Cardinality(s) - 1
            BY <1>1, <2>2, FirstIn, FS_RemoveElement
        <3>2. SumFunctionOnSet(f, r) \in Int
            BY <3>1, <1>1
        <3>3. f[First(s)] \in Int
            BY <2>2, FirstIn
        <3> QED
            BY <3>2, <3>3, <2>2, <1>1, SumUnfold
    <2> QED
        BY <2>1, <2>2
<1>4. Cardinality(S) \in I
    <2> HIDE DEF I
    <2> QED
        BY <1>1, <1>2, <1>3, NatSetInduction
<1> QED
    BY <1>1, <1>4

(* The sum depends on the values of the function on the set only.          *)
LEMMA SumEqual ==
    ASSUME NEW f, NEW g, NEW S, IsFiniteSet(S), \A x \in S : f[x] = g[x]
    PROVE  SumFunctionOnSet(f, S) = SumFunctionOnSet(g, S)
<1> DEFINE I == {n \in Nat : \A s \in SUBSET S : Cardinality(s) <= n
                    => SumFunctionOnSet(f, s) = SumFunctionOnSet(g, s)}
<1>1. \A s \in SUBSET S : IsFiniteSet(s) /\ Cardinality(s) \in Nat
    BY FS_Subset, FS_CardinalityType
<1>2. 0 \in I
    <2>1. \A s \in SUBSET S : Cardinality(s) <= 0 => s = {}
        BY <1>1, FS_EmptySet
    <2> QED
        BY <2>1, SumEmpty
<1>3. \A n \in Nat : n \in I => n + 1 \in I
    <2> SUFFICES ASSUME NEW n \in Nat, n \in I, NEW s \in SUBSET S,
                        Cardinality(s) <= n + 1
                 PROVE  SumFunctionOnSet(f, s) = SumFunctionOnSet(g, s)
        OBVIOUS
    <2>1. CASE s = {}
        BY <2>1, SumEmpty
    <2>2. CASE s # {}
        <3> DEFINE r == s \ {First(s)}
        <3>1. r \in SUBSET S /\ Cardinality(r) = Cardinality(s) - 1
            BY <1>1, <2>2, FirstIn, FS_RemoveElement
        <3>2. SumFunctionOnSet(f, r) = SumFunctionOnSet(g, r)
            BY <3>1, <1>1
        <3>3. f[First(s)] = g[First(s)]
            BY <2>2, FirstIn
        <3> QED
            BY <3>2, <3>3, <2>2, <1>1, SumUnfold
    <2> QED
        BY <2>1, <2>2
<1>4. Cardinality(S) \in I
    <2> HIDE DEF I
    <2> QED
        BY <1>1, <1>2, <1>3, NatSetInduction
<1> QED
    BY <1>1, <1>4

(* Whichever element is taken first, the sum is the same: the order of the *)
(* fold does not matter.                                                   *)
LEMMA SumTakeOut ==
    ASSUME NEW f, NEW S, IsFiniteSet(S), \A x \in S : f[x] \in Int, NEW y \in S
    PROVE  SumFunctionOnSet(f, S) = f[y] + SumFunctionOnSet(f, S \ {y})
<1> DEFINE Any(s) == \A x \in s : SumFunctionOnSet(f, s)
                                     = f[x] + SumFunctionOnSet(f, s \ {x})
           I == {n \in Nat : \A s \in SUBSET S : Cardinality(s) <= n => Any(s)}
<1>1. \A s \in SUBSET S : IsFiniteSet(s) /\ Cardinality(s) \in Nat
    BY FS_Subset, FS_CardinalityType
<1>2. 0 \in I
    <2>1. \A s \in SUBSET S : Cardinality(s) <= 0 => s = {}
        BY <1>1, FS_EmptySet
    <2> QED
        BY <2>1
<1>3. \A n \in Nat : n \in I => n + 1 \in I
    <2> SUFFICES ASSUME NEW n \in Nat, n \in I, NEW s \in SUBSET S,
                        Cardinality(s) <= n + 1
                 PROVE  Any(s)
        <3> HIDE DEF Any
        <3> QED
            OBVIOUS
    <2> TAKE x \in s
    <2> DEFINE a == First(s)
               r == s \ {a}
               q == s \ {x}
    <2>1. SumFunctionOnSet(f, s) = f[a] + SumFunctionOnSet(f, r)
        BY <1>1, SumUnfold
    <2>2. CASE x = a
        BY <2>1, <2>2
    <2>3. CASE x # a
        <3>1. /\ a \in s /\ r \in SUBSET S /\ q \in SUBSET S /\ x \in r /\ a \in q
              /\ Cardinality(r) = Cardinality(s) - 1
              /\ Cardinality(q) = Cardinality(s) - 1
              /\ r \ {x} = q \ {a}
            BY <1>1, <2>3, FirstIn, FS_RemoveElement
        <3>2. SumFunctionOnSet(f, r) = f[x] + SumFunctionOnSet(f, r \ {x})
            BY <3>1, <1>1
        <3>3. SumFunctionOnSet(f, q) = f[a] + SumFunctionOnSet(f, q \ {a})
            BY <3>1, <1>1
        <3>4. r \ {x} \in SUBSET S
            BY <3>1
        <3>5. SumFunctionOnSet(f, r \ {x}) \in Int
            BY <1>1, <3>4, SumInt
        <3>6. f[a] \in Int /\ f[x] \in Int
            BY <3>1
        <3> HIDE DEF a, r, q
        <3>7. f[a] + (f[x] + SumFunctionOnSet(f, r \ {x}))
                = f[x] + (f[a] + SumFunctionOnSet(f, r \ {x}))
            BY <3>5, <3>6
        <3> QED
            BY <2>1, <3>1, <3>2, <3>3, <3>7 DEF q
    <2> QED
        BY <2>2, <2>3
<1>4. Cardinality(S) \in I
    <2> HIDE DEF I
    <2> QED
        BY <1>1, <1>2, <1>3, NatSetInduction
<1> QED
    BY <1>1, <1>4

(* One more element adds its value.                                        *)
LEMMA SumAdd ==
    ASSUME NEW f, NEW S, IsFiniteSet(S), NEW y, y \notin S,
           \A x \in S \cup {y} : f[x] \in Int
    PROVE  SumFunctionOnSet(f, S \cup {y}) = SumFunctionOnSet(f, S) + f[y]
<1>1. IsFiniteSet(S \cup {y}) /\ (S \cup {y}) \ {y} = S
    BY FS_AddElement
<1>2. SumFunctionOnSet(f, S \cup {y}) = f[y] + SumFunctionOnSet(f, S)
    <2>1. SumFunctionOnSet(f, S \cup {y})
            = f[y] + SumFunctionOnSet(f, (S \cup {y}) \ {y})
        BY <1>1, SumTakeOut
    <2> QED
        BY <1>1, <2>1
<1>3. SumFunctionOnSet(f, S) \in Int
    BY SumInt
<1> QED
    BY <1>2, <1>3

(* A sum of natural numbers is a natural number.                           *)
LEMMA SumNat ==
    ASSUME NEW f, NEW S, IsFiniteSet(S), \A x \in S : f[x] \in Nat
    PROVE  SumFunctionOnSet(f, S) \in Nat
<1> DEFINE F == {t \in SUBSET S : SumFunctionOnSet(f, t) \in Nat}
<1>1. {} \in F
    BY SumEmpty
<1>2. \A t \in SUBSET S, x \in S : t \in F => t \cup {x} \in F
    <2> SUFFICES ASSUME NEW t \in SUBSET S, NEW x \in S, t \in F, x \notin t
                 PROVE  SumFunctionOnSet(f, t \cup {x}) \in Nat
        OBVIOUS
    <2>1. IsFiniteSet(t)
        BY FS_Subset
    <2>2. \A y \in t \cup {x} : f[y] \in Int
        OBVIOUS
    <2>3. SumFunctionOnSet(f, t \cup {x}) = SumFunctionOnSet(f, t) + f[x]
        BY <2>1, <2>2, SumAdd
    <2> QED
        BY <2>3
<1>3. S \in F
    <2> HIDE DEF F
    <2> QED
        BY <1>1, <1>2, FiniteSetInduction
<1> QED
    BY <1>3

(* The sum over two disjoint sets is that of their sums.                   *)
LEMMA SumUnion ==
    ASSUME NEW f, NEW S, NEW T, IsFiniteSet(S), IsFiniteSet(T), S \cap T = {},
           \A x \in S \cup T : f[x] \in Int
    PROVE  SumFunctionOnSet(f, S \cup T)
             = SumFunctionOnSet(f, S) + SumFunctionOnSet(f, T)
<1> DEFINE Adds(t) == SumFunctionOnSet(f, S \cup t)
                        = SumFunctionOnSet(f, S) + SumFunctionOnSet(f, t)
           F == {t \in SUBSET T : Adds(t)}
<1>1. {} \in F
    <2>1. S \cup {} = S /\ SumFunctionOnSet(f, S) \in Int
        BY SumInt
    <2> QED
        BY <2>1, SumEmpty
<1>2. ASSUME NEW t \in SUBSET T, NEW y \in T, t \in F
      PROVE  t \cup {y} \in F
    <2>1. CASE y \in t
        <3>1. t \cup {y} = t
            BY <2>1
        <3> QED
            BY <1>2, <3>1
    <2>2. CASE y \notin t
        <3>1. /\ IsFiniteSet(t) /\ IsFiniteSet(S \cup t)
              /\ y \notin S \cup t
              /\ S \cup (t \cup {y}) = (S \cup t) \cup {y}
            BY <2>2, FS_Subset, FS_Union
        <3>2. /\ SumFunctionOnSet(f, t \cup {y}) = SumFunctionOnSet(f, t) + f[y]
              /\ SumFunctionOnSet(f, (S \cup t) \cup {y})
                    = SumFunctionOnSet(f, S \cup t) + f[y]
            BY <2>2, <3>1, SumAdd
        <3>3. /\ SumFunctionOnSet(f, S) \in Int
              /\ SumFunctionOnSet(f, t) \in Int
              /\ f[y] \in Int
            BY <3>1, SumInt
        <3>4. SumFunctionOnSet(f, S \cup t)
                = SumFunctionOnSet(f, S) + SumFunctionOnSet(f, t)
            BY <1>2
        <3>5. Adds(t \cup {y})
            <4>1. SumFunctionOnSet(f, S \cup (t \cup {y}))
                    = SumFunctionOnSet(f, S \cup t) + f[y]
                BY <3>1, <3>2, Zenon
            <4>2. SumFunctionOnSet(f, S \cup (t \cup {y}))
                    = SumFunctionOnSet(f, S) + (SumFunctionOnSet(f, t) + f[y])
                BY <4>1, <3>3, <3>4
            <4> QED
                BY <4>2, <3>2, Zenon
        <3> HIDE DEF Adds
        <3> QED
            BY <3>5
    <2> QED
        BY <2>1, <2>2
<1>3. T \in F
    <2> HIDE DEF F
    <2> QED
        BY <1>1, <1>2, FiniteSetInduction
<1> QED
    BY <1>3

(* A linear combination is taken out of the sum.                           *)
LEMMA SumLinear ==
    ASSUME NEW S, IsFiniteSet(S), NEW f, NEW g, NEW h, NEW m \in Int,
           \A x \in S : /\ f[x] \in Int /\ g[x] \in Int
                        /\ h[x] = m * f[x] - g[x]
    PROVE  SumFunctionOnSet(h, S)
             = m * SumFunctionOnSet(f, S) - SumFunctionOnSet(g, S)
<1> DEFINE Sum(k, t) == SumFunctionOnSet(k, t)
           Linear(t) == Sum(h, t) = m * Sum(f, t) - Sum(g, t)
           F == {t \in SUBSET S : Linear(t)}
<1>1. {} \in F
    <2>1. Sum(h, {}) = 0 /\ Sum(f, {}) = 0 /\ Sum(g, {}) = 0
        BY SumEmpty
    <2>2. m * 0 - 0 = 0
        OBVIOUS
    <2> QED
        BY <2>1, <2>2
<1>2. \A t \in SUBSET S, x \in S : t \in F => t \cup {x} \in F
    <2> SUFFICES ASSUME NEW t \in SUBSET S, NEW x \in S, Linear(t), x \notin t
                 PROVE  Linear(t \cup {x})
        OBVIOUS
    <2>1. IsFiniteSet(t)
        BY FS_Subset
    <2>2. \A y \in t \cup {x} : f[y] \in Int /\ g[y] \in Int /\ h[y] \in Int
        OBVIOUS
    <2>3. /\ Sum(h, t \cup {x}) = Sum(h, t) + h[x]
          /\ Sum(f, t \cup {x}) = Sum(f, t) + f[x]
          /\ Sum(g, t \cup {x}) = Sum(g, t) + g[x]
        BY <2>1, <2>2, SumAdd
    <2>4. Sum(f, t) \in Int /\ Sum(g, t) \in Int
        BY <2>1, <2>2, SumInt
    <2>5. h[x] = m * f[x] - g[x] /\ f[x] \in Int /\ g[x] \in Int
        OBVIOUS
    <2>6. Sum(h, t) = m * Sum(f, t) - Sum(g, t)
        OBVIOUS
    <2> HIDE DEF Sum
    <2>7. \A a, b, c, d \in Int :
            (m * a - b) + (m * c - d) = m * (a + c) - (b + d)
        OBVIOUS
    <2>8. (m * Sum(f, t) - Sum(g, t)) + (m * f[x] - g[x])
            = m * (Sum(f, t) + f[x]) - (Sum(g, t) + g[x])
        BY <2>4, <2>5, <2>7
    <2> QED
        BY <2>3, <2>5, <2>6, <2>8
<1>3. S \in F
    <2> HIDE DEF F
    <2> QED
        BY <1>1, <1>2, FiniteSetInduction
<1> QED
    BY <1>3
=============================================================================
