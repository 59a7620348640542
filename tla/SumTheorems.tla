---------------------------- MODULE SumTheorems ----------------------------
(***************************************************************************)
(* Sums over finite sets (SumFunctionOnSet of the community modules), for  *)
(* the proofs about journals, windows, registries and accounts.            *)
(*                                                                         *)
(* The induction is over a set of numbers or of sets, which is a value,    *)
(* where the library's theorems take the predicate as an operator: that    *)
(* the set holds every number follows from its least counterexample.       *)
(***************************************************************************)
EXTENDS Functions, FiniteSetTheorems, NaturalsInduction, TLAPS

\* A set of naturals that has zero, and with every number the next, has them all.
LEMMA SetOfAllNaturals ==
  ASSUME NEW G, 0 \in G, \A n \in Nat : n \in G => n + 1 \in G
  PROVE  \A n \in Nat : n \in G
<1> DEFINE Rest == {n \in Nat : n \notin G}
<1> SUFFICES ASSUME Rest # {} PROVE FALSE
  BY Zenon
<1>1. PICK n \in Rest : \A m \in Rest : <<m, n>> \notin OpToRel(<, Nat)
  BY NatLessThanWellFounded, WFMin, Zenon
<1>2. n \in Nat /\ n \notin G /\ n # 0
  OBVIOUS
<1>3. n - 1 \in Nat /\ n - 1 < n
  BY <1>2
<1>4. n - 1 \in G
  BY <1>1, <1>2, <1>3 DEF OpToRel
<1> QED
  BY <1>2, <1>3, <1>4

-----------------------------------------------------------------------------
(* The recursion behind a sum: it chooses an element, adds its value and    *)
(* goes on with the rest.                                                   *)

ChosenOf(s) == CHOOSE x \in s : TRUE

SumIter(f, S) ==
  CHOOSE g : g = [s \in SUBSET S |-> IF s = {} THEN 0 ELSE f[ChosenOf(s)] + g[s \ {ChosenOf(s)}]]

\* A sum is what that recursion has for the whole set.
LEMMA SumIsSumIter ==
  ASSUME NEW f, NEW S PROVE SumFunctionOnSet(f, S) = SumIter(f, S)[S]
BY DEF SumFunctionOnSet, FoldFunctionOnSet, MapThenFoldSet, SumIter, ChosenOf

\* One step of the recursion, wherever it has a function to recur on.
SumStep(f, g, s) == IF s = {} THEN 0 ELSE f[ChosenOf(s)] + g[s \ {ChosenOf(s)}]

SubsetsUpTo(S, n) == {s \in SUBSET S : Cardinality(s) <= n}

\* A finite set has its recursion: by induction on the size of the subsets.
LEMMA SumIterExists ==
  ASSUME NEW f, NEW S, IsFiniteSet(S)
  PROVE  \E g : g = [s \in SUBSET S |-> SumStep(f, g, s)]
<1> DEFINE G == {n \in Nat : \E g : g = [s \in SubsetsUpTo(S, n) |-> SumStep(f, g, s)]}
<1>0. \A s \in SUBSET S : IsFiniteSet(s) /\ Cardinality(s) \in Nat /\ Cardinality(s) <= Cardinality(S)
  BY FS_Subset, FS_CardinalityType
<1>1. 0 \in G
  <2> DEFINE g == [s \in SubsetsUpTo(S, 0) |-> 0]
  <2>1. \A s \in SubsetsUpTo(S, 0) : s = {}
    BY <1>0, FS_EmptySet DEF SubsetsUpTo
  <2>2. g = [s \in SubsetsUpTo(S, 0) |-> SumStep(f, g, s)]
    BY <2>1 DEF SumStep
  <2> QED
    BY <2>2
<1>2. ASSUME NEW n \in Nat, n \in G PROVE n + 1 \in G
  <2>1. PICK g : g = [s \in SubsetsUpTo(S, n) |-> SumStep(f, g, s)]
    BY <1>2
  <2> DEFINE h == [s \in SubsetsUpTo(S, n + 1) |-> SumStep(f, g, s)]
  <2>2. \A s \in SubsetsUpTo(S, n + 1) : s # {} => s \ {ChosenOf(s)} \in SubsetsUpTo(S, n)
    <3> SUFFICES ASSUME NEW s \in SubsetsUpTo(S, n + 1), s # {} PROVE s \ {ChosenOf(s)} \in SubsetsUpTo(S, n)
      OBVIOUS
    <3>1. ChosenOf(s) \in s
      BY DEF ChosenOf
    <3>2. s \in SUBSET S /\ IsFiniteSet(s) /\ Cardinality(s) <= n + 1 /\ Cardinality(s) \in Nat
      BY <1>0 DEF SubsetsUpTo
    <3>3. Cardinality(s \ {ChosenOf(s)}) = Cardinality(s) - 1
      BY <3>1, <3>2, FS_RemoveElement
    <3> QED
      BY <3>2, <3>3, <1>2 DEF SubsetsUpTo
  <2>3. \A s \in SubsetsUpTo(S, n) : s \in SubsetsUpTo(S, n + 1) /\ h[s] = g[s]
    <3> SUFFICES ASSUME NEW s \in SubsetsUpTo(S, n) PROVE s \in SubsetsUpTo(S, n + 1) /\ h[s] = g[s]
      OBVIOUS
    <3>1. s \in SubsetsUpTo(S, n + 1)
      BY <1>0, <1>2 DEF SubsetsUpTo
    <3>2. g[s] = SumStep(f, g, s)
      BY <2>1
    <3> QED
      BY <3>1, <3>2
  <2>4. \A s \in SubsetsUpTo(S, n + 1) : SumStep(f, g, s) = SumStep(f, h, s)
    BY <2>2, <2>3 DEF SumStep
  <2>5. h = [s \in SubsetsUpTo(S, n + 1) |-> SumStep(f, h, s)]
    BY <2>4
  <2>6. n + 1 \in Nat
    BY <1>2
  <2> HIDE DEF h
  <2> QED
    BY <2>5, <2>6
<1>3. Cardinality(S) \in G
  <2>1. Cardinality(S) \in Nat
    BY FS_CardinalityType
  <2> HIDE DEF G
  <2> QED
    BY <1>1, <1>2, <2>1, SetOfAllNaturals
<1>4. SubsetsUpTo(S, Cardinality(S)) = SUBSET S
  BY <1>0 DEF SubsetsUpTo
<1> QED
  BY <1>3, <1>4

\* So the function chosen for the recursion obeys it.
LEMMA SumIterIs ==
  ASSUME NEW f, NEW S, IsFiniteSet(S)
  PROVE  \A s \in SUBSET S : SumIter(f, S)[s] = SumStep(f, SumIter(f, S), s)
<1> DEFINE iter == SumIter(f, S)
<1>1. \E g : g = [s \in SUBSET S |-> SumStep(f, g, s)]
  BY SumIterExists
<1>2. iter = [s \in SUBSET S |-> SumStep(f, iter, s)]
  BY <1>1 DEF SumIter, SumStep
<1> HIDE DEF iter
<1>3. \A s \in SUBSET S : iter[s] = SumStep(f, iter, s)
  BY <1>2, Zenon
<1> QED
  BY <1>3 DEF iter

\* The sum over a subset is what the recursion over the whole set has for it.
LEMMA SumIterOfSubset ==
  ASSUME NEW f, NEW S, IsFiniteSet(S), NEW T \in SUBSET S
  PROVE  SumIter(f, T)[T] = SumIter(f, S)[T]
<1> DEFINE G == {n \in Nat : \A U \in SUBSET T : Cardinality(U) <= n => SumIter(f, T)[U] = SumIter(f, S)[U]}
<1>0. IsFiniteSet(T) /\ Cardinality(T) \in Nat
  BY FS_Subset, FS_CardinalityType
<1>1. \A s \in SUBSET T : IsFiniteSet(s) /\ Cardinality(s) \in Nat
  BY <1>0, FS_Subset, FS_CardinalityType
<1>2. /\ \A s \in SUBSET T : SumIter(f, T)[s] = SumStep(f, SumIter(f, T), s)
      /\ \A s \in SUBSET T : SumIter(f, S)[s] = SumStep(f, SumIter(f, S), s)
  <2>1. \A s \in SUBSET T : SumIter(f, T)[s] = SumStep(f, SumIter(f, T), s)
    BY <1>0, SumIterIs, Zenon
  <2>2. \A s \in SUBSET S : SumIter(f, S)[s] = SumStep(f, SumIter(f, S), s)
    BY <1>0, SumIterIs, Zenon
  <2> QED
    BY <2>1, <2>2
<1>3. 0 \in G
  <2> SUFFICES ASSUME NEW U \in SUBSET T, Cardinality(U) <= 0 PROVE SumIter(f, T)[U] = SumIter(f, S)[U]
    OBVIOUS
  <2>1. U = {}
    BY <1>1, FS_EmptySet
  <2> QED
    BY <1>2, <2>1 DEF SumStep
<1>4. ASSUME NEW n \in Nat, n \in G PROVE n + 1 \in G
  <2> SUFFICES ASSUME NEW U \in SUBSET T, Cardinality(U) <= n + 1
               PROVE  SumIter(f, T)[U] = SumIter(f, S)[U]
    BY <1>4
  <2>0. CASE U = {}
    BY <2>0, <1>2 DEF SumStep
  <2>00. SUFFICES ASSUME U # {} PROVE SumIter(f, T)[U] = SumIter(f, S)[U]
    BY <2>0
  <2> DEFINE V == U \ {ChosenOf(U)}
  <2>1. ChosenOf(U) \in U
    BY <2>00 DEF ChosenOf
  <2>2. V \in SUBSET T /\ Cardinality(V) = Cardinality(U) - 1
    BY <2>1, <1>1, FS_RemoveElement
  <2>3. Cardinality(V) <= n
    BY <2>2, <1>1, <1>4
  <2>4. SumIter(f, T)[V] = SumIter(f, S)[V]
    BY <1>4, <2>2, <2>3
  <2> QED
    BY <1>2, <2>4 DEF SumStep
<1>5. Cardinality(T) \in G
  <2> HIDE DEF G
  <2> QED
    BY <1>0, <1>3, <1>4, SetOfAllNaturals
<1> QED
  BY <1>0, <1>5

-----------------------------------------------------------------------------
(* What a sum is. *)

\* Nothing has the sum zero.
LEMMA SumOfNone == ASSUME NEW f PROVE SumFunctionOnSet(f, {}) = 0
<1>1. SumIter(f, {})[{}] = SumStep(f, SumIter(f, {}), {})
  BY SumIterIs, FS_EmptySet
<1> QED
  BY <1>1, SumIsSumIter DEF SumStep

\* The element chosen is added to the sum of the others.
LEMMA SumOfChosen ==
  ASSUME NEW f, NEW S, IsFiniteSet(S), S # {}
  PROVE  SumFunctionOnSet(f, S) = f[ChosenOf(S)] + SumFunctionOnSet(f, S \ {ChosenOf(S)})
<1>1. SumIter(f, S)[S] = f[ChosenOf(S)] + SumIter(f, S)[S \ {ChosenOf(S)}]
  BY SumIterIs DEF SumStep
<1>2. SumIter(f, S \ {ChosenOf(S)})[S \ {ChosenOf(S)}] = SumIter(f, S)[S \ {ChosenOf(S)}]
  BY SumIterOfSubset
<1> QED
  BY <1>1, <1>2, SumIsSumIter

\* What holds of the empty set, and with a finite set for one element more,
\* holds of every finite set: the induction over sets, for a set of them.
LEMMA SetOfAllFiniteSets ==
  ASSUME NEW S, IsFiniteSet(S), NEW G, {} \in G,
         \A T \in SUBSET S : T # {} => \E x \in T : (T \ {x} \in G => T \in G)
  PROVE  S \in G
<1> DEFINE H == {n \in Nat : \A T \in SUBSET S : Cardinality(T) = n => T \in G}
<1>0. Cardinality(S) \in Nat /\ \A T \in SUBSET S : IsFiniteSet(T) /\ Cardinality(T) \in Nat
  BY FS_Subset, FS_CardinalityType
<1>1. 0 \in H
  BY <1>0, FS_EmptySet
<1>2. ASSUME NEW n \in Nat, n \in H PROVE n + 1 \in H
  <2> SUFFICES ASSUME NEW T \in SUBSET S, Cardinality(T) = n + 1 PROVE T \in G
    BY <1>2
  <2>1. T # {}
    <3>1. n + 1 # 0
      BY <1>2
    <3> HIDE DEF H
    <3> QED
      BY <3>1, FS_EmptySet
  <2>2. PICK x \in T : T \ {x} \in G => T \in G
    BY <2>1
  <2>3. T \ {x} \in SUBSET S /\ Cardinality(T \ {x}) = n
    <3>1. IsFiniteSet(T) /\ Cardinality(T \ {x}) = Cardinality(T) - 1
      BY <1>0, FS_RemoveElement
    <3> QED
      BY <3>1, <1>2
  <2> QED
    BY <1>2, <2>2, <2>3
<1>3. Cardinality(S) \in H
  <2> HIDE DEF H
  <2> QED
    BY <1>0, <1>1, <1>2, SetOfAllNaturals
<1> QED
  BY <1>0, <1>3

\* A sum of integers is an integer.
LEMMA SumIsInt ==
  ASSUME NEW f, NEW S, IsFiniteSet(S), \A x \in S : f[x] \in Int
  PROVE  SumFunctionOnSet(f, S) \in Int
<1> DEFINE G == {T \in SUBSET S : SumFunctionOnSet(f, T) \in Int}
<1>1. {} \in G
  BY SumOfNone
<1>2. ASSUME NEW T \in SUBSET S, T # {} PROVE \E x \in T : (T \ {x} \in G => T \in G)
  <2>1. ChosenOf(T) \in T /\ IsFiniteSet(T)
    BY <1>2, FS_Subset DEF ChosenOf
  <2>2. SumFunctionOnSet(f, T) = f[ChosenOf(T)] + SumFunctionOnSet(f, T \ {ChosenOf(T)})
    BY <1>2, <2>1, SumOfChosen
  <2>3. T \ {ChosenOf(T)} \in G => T \in G
    BY <2>1, <2>2
  <2> QED
    BY <2>1, <2>3
<1>3. S \in G
  <2> HIDE DEF G
  <2> QED
    BY <1>1, <1>2, SetOfAllFiniteSets
<1> QED
  BY <1>3

\* The order does not matter: any element may be the one that is added.
LEMMA SumOfOneMore ==
  ASSUME NEW f, NEW S, IsFiniteSet(S), \A x \in S : f[x] \in Int, NEW e \in S
  PROVE  SumFunctionOnSet(f, S) = f[e] + SumFunctionOnSet(f, S \ {e})
<1> DEFINE H == {n \in Nat : \A T \in SUBSET S : Cardinality(T) = n =>
                   \A x \in T : SumFunctionOnSet(f, T) = f[x] + SumFunctionOnSet(f, T \ {x})}
<1>0. /\ Cardinality(S) \in Nat
      /\ \A T \in SUBSET S : IsFiniteSet(T) /\ Cardinality(T) \in Nat /\ SumFunctionOnSet(f, T) \in Int
  BY FS_Subset, FS_CardinalityType, SumIsInt
<1>1. 0 \in H
  BY <1>0, FS_EmptySet
<1>2. ASSUME NEW n \in Nat, n \in H PROVE n + 1 \in H
  <2> SUFFICES ASSUME NEW T \in SUBSET S, Cardinality(T) = n + 1, NEW x \in T
               PROVE  SumFunctionOnSet(f, T) = f[x] + SumFunctionOnSet(f, T \ {x})
    BY <1>2
  <2> DEFINE c == ChosenOf(T)
             rest == (T \ {c}) \ {x}
  <2>1. c \in T /\ IsFiniteSet(T) /\ f[c] \in Int /\ f[x] \in Int
    BY <1>0 DEF ChosenOf
  <2>2. SumFunctionOnSet(f, T) = f[c] + SumFunctionOnSet(f, T \ {c})
    BY <2>1, SumOfChosen
  <2>3. CASE x = c
    BY <2>2, <2>3
  <2>4. CASE x # c
    <3>1. \A y \in T : Cardinality(T \ {y}) = n /\ T \ {y} \in SUBSET S
      <4> SUFFICES ASSUME NEW y \in T PROVE Cardinality(T \ {y}) = n
        OBVIOUS
      <4>1. Cardinality(T \ {y}) = Cardinality(T) - 1
        BY <2>1, FS_RemoveElement
      <4> QED
        BY <4>1, <1>2
    <3>2. SumFunctionOnSet(f, T \ {c}) = f[x] + SumFunctionOnSet(f, rest)
      BY <1>2, <2>1, <2>4, <3>1
    <3>3. SumFunctionOnSet(f, T \ {x}) = f[c] + SumFunctionOnSet(f, rest)
      <4>1. rest = (T \ {x}) \ {c}
        OBVIOUS
      <4>2. SumFunctionOnSet(f, T \ {x}) = f[c] + SumFunctionOnSet(f, (T \ {x}) \ {c})
        BY <1>2, <2>1, <2>4, <3>1
      <4> QED
        BY <4>1, <4>2
    <3>4. SumFunctionOnSet(f, rest) \in Int
      BY <1>0
    <3> HIDE DEF rest, c
    <3> QED
      BY <2>1, <2>2, <3>2, <3>3, <3>4
  <2> QED
    BY <2>3, <2>4
<1>3. Cardinality(S) \in H
  <2> HIDE DEF H
  <2> QED
    BY <1>0, <1>1, <1>2, SetOfAllNaturals
<1> QED
  BY <1>3

\* A sum of naturals is a natural.
LEMMA SumIsNatural ==
  ASSUME NEW f, NEW S, IsFiniteSet(S), \A x \in S : f[x] \in Nat
  PROVE  SumFunctionOnSet(f, S) \in Nat
<1> DEFINE G == {T \in SUBSET S : SumFunctionOnSet(f, T) \in Nat}
<1>1. {} \in G
  BY SumOfNone
<1>2. ASSUME NEW T \in SUBSET S, T # {} PROVE \E c \in T : (T \ {c} \in G => T \in G)
  <2> DEFINE c == ChosenOf(T)
  <2>1. c \in T /\ IsFiniteSet(T) /\ IsFiniteSet(T \ {c})
    BY <1>2, FS_Subset DEF ChosenOf
  <2>2. SumFunctionOnSet(f, T) = f[c] + SumFunctionOnSet(f, T \ {c})
    BY <1>2, <2>1, SumOfChosen
  <2> HIDE DEF c
  <2>3. T \ {c} \in G => T \in G
    BY <2>1, <2>2
  <2> QED
    BY <2>1, <2>3
<1>3. S \in G
  <2> HIDE DEF G
  <2> QED
    BY <1>1, <1>2, SetOfAllFiniteSets
<1> QED
  BY <1>3

\* Two functions that agree on a set have one sum over it.
LEMMA SumOfSame ==
  ASSUME NEW f, NEW g, NEW S, IsFiniteSet(S), \A x \in S : f[x] = g[x]
  PROVE  SumFunctionOnSet(f, S) = SumFunctionOnSet(g, S)
<1> DEFINE G == {T \in SUBSET S : SumFunctionOnSet(f, T) = SumFunctionOnSet(g, T)}
<1>1. {} \in G
  BY SumOfNone
<1>2. ASSUME NEW T \in SUBSET S, T # {} PROVE \E c \in T : (T \ {c} \in G => T \in G)
  <2> DEFINE c == ChosenOf(T)
  <2>1. c \in T /\ IsFiniteSet(T) /\ IsFiniteSet(T \ {c})
    BY <1>2, FS_Subset DEF ChosenOf
  <2>2. /\ SumFunctionOnSet(f, T) = f[c] + SumFunctionOnSet(f, T \ {c})
        /\ SumFunctionOnSet(g, T) = g[c] + SumFunctionOnSet(g, T \ {c})
    BY <1>2, <2>1, SumOfChosen
  <2> HIDE DEF c
  <2>3. T \ {c} \in G => T \in G
    BY <2>1, <2>2
  <2> QED
    BY <2>1, <2>3
<1>3. S \in G
  <2> HIDE DEF G
  <2> QED
    BY <1>1, <1>2, SetOfAllFiniteSets
<1> QED
  BY <1>3

\* What is zero everywhere has the sum zero.
LEMMA SumOfZeros ==
  ASSUME NEW f, NEW S, IsFiniteSet(S), \A x \in S : f[x] = 0
  PROVE  SumFunctionOnSet(f, S) = 0
<1> DEFINE G == {T \in SUBSET S : SumFunctionOnSet(f, T) = 0}
<1>1. {} \in G
  BY SumOfNone
<1>2. ASSUME NEW T \in SUBSET S, T # {} PROVE \E c \in T : (T \ {c} \in G => T \in G)
  <2> DEFINE c == ChosenOf(T)
  <2>1. c \in T /\ IsFiniteSet(T) /\ IsFiniteSet(T \ {c})
    BY <1>2, FS_Subset DEF ChosenOf
  <2>2. SumFunctionOnSet(f, T) = f[c] + SumFunctionOnSet(f, T \ {c})
    BY <1>2, <2>1, SumOfChosen
  <2> HIDE DEF c
  <2>3. T \ {c} \in G => T \in G
    BY <2>1, <2>2
  <2> QED
    BY <2>1, <2>3
<1>3. S \in G
  <2> HIDE DEF G
  <2> QED
    BY <1>1, <1>2, SetOfAllFiniteSets
<1> QED
  BY <1>3

\* A sum of differences is the difference of the sums.
LEMMA SumOfDifferences ==
  ASSUME NEW f, NEW g, NEW h, NEW S, IsFiniteSet(S),
         \A x \in S : g[x] \in Int /\ h[x] \in Int /\ f[x] = g[x] - h[x]
  PROVE  SumFunctionOnSet(f, S) = SumFunctionOnSet(g, S) - SumFunctionOnSet(h, S)
<1> DEFINE G == {T \in SUBSET S : SumFunctionOnSet(f, T) = SumFunctionOnSet(g, T) - SumFunctionOnSet(h, T)}
<1>1. {} \in G
  BY SumOfNone
<1>2. ASSUME NEW T \in SUBSET S, T # {} PROVE \E c \in T : (T \ {c} \in G => T \in G)
  <2> DEFINE c == ChosenOf(T)
  <2>1. c \in T /\ IsFiniteSet(T) /\ IsFiniteSet(T \ {c})
    BY <1>2, FS_Subset DEF ChosenOf
  <2>2. /\ SumFunctionOnSet(f, T) = f[c] + SumFunctionOnSet(f, T \ {c})
        /\ SumFunctionOnSet(g, T) = g[c] + SumFunctionOnSet(g, T \ {c})
        /\ SumFunctionOnSet(h, T) = h[c] + SumFunctionOnSet(h, T \ {c})
        /\ SumFunctionOnSet(g, T \ {c}) \in Int /\ SumFunctionOnSet(h, T \ {c}) \in Int
        /\ f[c] \in Int /\ g[c] \in Int /\ h[c] \in Int
    BY <1>2, <2>1, SumOfChosen, SumIsInt
  <2> HIDE DEF c
  <2>3. T \ {c} \in G => T \in G
    BY <2>1, <2>2
  <2> QED
    BY <2>1, <2>3
<1>3. S \in G
  <2> HIDE DEF G
  <2> QED
    BY <1>1, <1>2, SetOfAllFiniteSets
<1> QED
  BY <1>3

\* A set that gets an element more, where the others keep their values.
LEMMA SumGrows ==
  ASSUME NEW f, NEW g, NEW S, IsFiniteSet(S), NEW e, e \notin S, g[e] \in Int,
         \A x \in S : f[x] \in Int /\ g[x] = f[x]
  PROVE  SumFunctionOnSet(g, S \cup {e}) = SumFunctionOnSet(f, S) + g[e]
<1>1. IsFiniteSet(S \cup {e}) /\ \A x \in S \cup {e} : g[x] \in Int
  BY FS_AddElement
<1>2. SumFunctionOnSet(g, S \cup {e}) = g[e] + SumFunctionOnSet(g, (S \cup {e}) \ {e})
  BY <1>1, SumOfOneMore
<1>3. (S \cup {e}) \ {e} = S
  OBVIOUS
<1>4. SumFunctionOnSet(g, S) = SumFunctionOnSet(f, S) /\ SumFunctionOnSet(f, S) \in Int
  BY SumOfSame, SumIsInt
<1>5. SumFunctionOnSet(g, S \cup {e}) = g[e] + SumFunctionOnSet(g, S)
  BY <1>2, <1>3, Zenon
<1> QED
  BY <1>4, <1>5

\* The sum over a set is that over a part of it and that over the rest.
LEMMA SumOfParts ==
  ASSUME NEW f, NEW S, IsFiniteSet(S), \A x \in S : f[x] \in Int, NEW P \in SUBSET S
  PROVE  SumFunctionOnSet(f, S) = SumFunctionOnSet(f, P) + SumFunctionOnSet(f, S \ P)
<1> DEFINE G == {T \in SUBSET P : SumFunctionOnSet(f, (S \ P) \cup T)
                                    = SumFunctionOnSet(f, T) + SumFunctionOnSet(f, S \ P)}
<1>0. IsFiniteSet(P) /\ IsFiniteSet(S \ P) /\ SumFunctionOnSet(f, S \ P) \in Int
  BY FS_Subset, SumIsInt
<1>1. {} \in G
  BY <1>0, SumOfNone
<1>2. ASSUME NEW T \in SUBSET P, T # {} PROVE \E c \in T : (T \ {c} \in G => T \in G)
  <2>1. PICK c \in T : TRUE
    BY <1>2
  <2>2. /\ SumFunctionOnSet(f, T) = f[c] + SumFunctionOnSet(f, T \ {c})
        /\ SumFunctionOnSet(f, T \ {c}) \in Int
    <3>1. IsFiniteSet(T) /\ IsFiniteSet(T \ {c})
      BY FS_Subset
    <3> QED
      BY <2>1, <3>1, SumOfOneMore, SumIsInt
  <2>3. SumFunctionOnSet(f, (S \ P) \cup T) = f[c] + SumFunctionOnSet(f, (S \ P) \cup (T \ {c}))
    <3>1. ((S \ P) \cup T) \ {c} = (S \ P) \cup (T \ {c}) /\ (S \ P) \cup T \in SUBSET S
      OBVIOUS
    <3>2. IsFiniteSet((S \ P) \cup T)
      BY <3>1, FS_Subset
    <3> QED
      BY <2>1, <3>1, <3>2, SumOfOneMore
  <2>4. T \ {c} \in G => T \in G
    BY <1>0, <2>1, <2>2, <2>3
  <2> QED
    BY <2>1, <2>4
<1>3. P \in G
  <2> HIDE DEF G
  <2> QED
    BY <1>0, <1>1, <1>2, SetOfAllFiniteSets
<1>4. (S \ P) \cup P = S
  OBVIOUS
<1> QED
  BY <1>3, <1>4

\* A function that is nowhere larger has no larger sum.
LEMMA SumIsMonotonic ==
  ASSUME NEW f, NEW g, NEW S, IsFiniteSet(S),
         \A x \in S : f[x] \in Int /\ g[x] \in Int /\ f[x] <= g[x]
  PROVE  SumFunctionOnSet(f, S) <= SumFunctionOnSet(g, S)
<1> DEFINE d == [x \in S |-> g[x] - f[x]]
<1>1. \A x \in S : d[x] = g[x] - f[x] /\ d[x] \in Nat
  OBVIOUS
<1> HIDE DEF d
<1>2. SumFunctionOnSet(d, S) \in Nat
  BY <1>1, SumIsNatural
<1>3. SumFunctionOnSet(d, S) = SumFunctionOnSet(g, S) - SumFunctionOnSet(f, S)
  BY <1>1, SumOfDifferences
<1>4. SumFunctionOnSet(f, S) \in Int /\ SumFunctionOnSet(g, S) \in Int
  BY SumIsInt
<1> QED
  BY <1>2, <1>3, <1>4

\* A sum of naturals is at least each of them.
LEMMA SumCoversEach ==
  ASSUME NEW f, NEW S, IsFiniteSet(S), \A x \in S : f[x] \in Nat, NEW e \in S
  PROVE  f[e] <= SumFunctionOnSet(f, S)
<1>1. SumFunctionOnSet(f, S) = f[e] + SumFunctionOnSet(f, S \ {e})
  BY SumOfOneMore
<1>2. IsFiniteSet(S \ {e})
  BY FS_Subset
<1>3. SumFunctionOnSet(f, S \ {e}) \in Nat
  BY <1>2, SumIsNatural
<1> QED
  BY <1>1, <1>3

=============================================================================
