------------------------------ MODULE SumFacts ------------------------------
(***************************************************************************)
(* Facts about SumFunctionOnSet, the community modules' sum of a           *)
(* function's values over a finite set.  The sum is a fold, defined by     *)
(* recursion on sets; every induction below takes a minimal                *)
(* counterexample, which LeastSet provides.                                *)
(***************************************************************************)
EXTENDS Functions, FiniteSetTheorems, TLAPS

Pick(s) == CHOOSE x \in s : TRUE

(* g sums f over every subset of S, one element at a time.                  *)
IsRun(g, f, S) ==
  g = [s \in SUBSET S |-> IF s = {} THEN 0 ELSE f[Pick(s)] + g[s \ {Pick(s)}]]

Run(f, S) == CHOOSE g : IsRun(g, f, S)

----------------------------------------------------------------------------
(* The recursion *)

(* The library's sum is the value of such a function.                       *)
LEMMA SumUnfolds ==
  ASSUME NEW f, NEW S
  PROVE  SumFunctionOnSet(f, S) = Run(f, S)[S]
BY DEF SumFunctionOnSet, FoldFunctionOnSet, MapThenFoldSet, Run, IsRun, Pick

(* Induction over finite sets: among some subsets of a finite set there is  *)
(* one that has none of the others inside it.                               *)
LEMMA LeastSet ==
  ASSUME NEW S, IsFiniteSet(S), NEW B \in SUBSET SUBSET S, B # {}
  PROVE  \E T \in B : \A U \in B : U \subseteq T => U = T
<1>1. IsWellFoundedOn(StrictSubsetOrdering(S), FiniteSubsetsOf(S))
  BY FS_StrictSubsetOrderingWellFounded
<1>2. B \subseteq FiniteSubsetsOf(S)
  BY FS_FiniteSubsetsOfFinite
<1>3. PICK T \in B : \A U \in B : <<U, T>> \notin StrictSubsetOrdering(S)
  BY <1>1, <1>2, WFMin
<1>4. QED
  BY <1>3 DEF StrictSubsetOrdering

(* A nonempty set has a member to start with.                               *)
LEMMA PickIn == ASSUME NEW s, s # {} PROVE Pick(s) \in s
BY DEF Pick

(* Two such functions agree.                                                *)
LEMMA RunUnique ==
  ASSUME NEW f, NEW S, IsFiniteSet(S), NEW g, NEW h, NEW T \in SUBSET S,
         IsRun(g, f, S), IsRun(h, f, T)
  PROVE  \A s \in SUBSET T : g[s] = h[s]
<1> DEFINE Bad == {s \in SUBSET T : g[s] # h[s]}
<1>1. SUFFICES ASSUME Bad # {} PROVE FALSE
  OBVIOUS
<1>. Bad \in SUBSET SUBSET S
  OBVIOUS
<1> HIDE DEF Bad
<1>2. PICK s \in Bad : \A u \in Bad : u \subseteq s => u = s
  BY <1>1, LeastSet
<1>3. s \in SUBSET T /\ g[s] # h[s]
  BY DEF Bad
<1>4. CASE s = {}
  BY <1>3, <1>4 DEF IsRun
<1>5. CASE s # {}
  <2> DEFINE rest == s \ {Pick(s)}
  <2>1. rest \in SUBSET T /\ rest # s
    BY <1>3, <1>5, PickIn
  <2>2. g[rest] = h[rest]
    BY <1>2, <2>1 DEF Bad
  <2>3. g[s] = f[Pick(s)] + g[rest] /\ h[s] = f[Pick(s)] + h[rest]
    BY <1>3, <1>5 DEF IsRun
  <2>4. QED
    BY <1>3, <2>2, <2>3
<1>6. QED
  BY <1>4, <1>5

(* There is one for every finite set.                                       *)
LEMMA RunExists ==
  ASSUME NEW f, NEW S, IsFiniteSet(S)
  PROVE  IsRun(Run(f, S), f, S)
<1> DEFINE Bad == {s \in SUBSET S : ~ IsRun(Run(f, s), f, s)}
<1>1. SUFFICES ASSUME Bad # {} PROVE FALSE
  OBVIOUS
<1>. Bad \in SUBSET SUBSET S
  OBVIOUS
<1> HIDE DEF Bad
<1>2. PICK T \in Bad : \A u \in Bad : u \subseteq T => u = T
  BY <1>1, LeastSet
<1>3. T \in SUBSET S /\ ~ IsRun(Run(f, T), f, T)
  BY DEF Bad
<1>4. \A s \in SUBSET T : s # T => IsRun(Run(f, s), f, s)
  BY <1>2, <1>3 DEF Bad
<1> DEFINE Value(s) == Run(f, s)[s]
           g == [s \in SUBSET T |->
                   IF s = {} THEN 0 ELSE f[Pick(s)] + Value(s \ {Pick(s)})]
<1>5. \A s \in SUBSET T : s # T => g[s] = Value(s)
  <2>1. SUFFICES ASSUME NEW s \in SUBSET T, s # T PROVE g[s] = Value(s)
    OBVIOUS
  <2>2. IsRun(Run(f, s), f, s)
    BY <1>4, <2>1
  <2>3. CASE s = {}
    BY <2>2, <2>3 DEF IsRun
  <2>4. CASE s # {}
    <3> DEFINE rest == s \ {Pick(s)}
    <3>1. rest \in SUBSET s /\ rest \in SUBSET T /\ rest # T /\ IsFiniteSet(s)
      BY <2>1, <2>4, <1>3, FS_Subset, PickIn
    <3>2. IsRun(Run(f, rest), f, rest)
      BY <1>4, <3>1
    <3> HIDE DEF rest
    <3>3. Run(f, s)[rest] = Run(f, rest)[rest]
      BY <2>2, <3>1, <3>2, RunUnique
    <3>4. Run(f, s)[s] = f[Pick(s)] + Run(f, s)[rest]
      BY <2>2, <2>4 DEF IsRun, rest
    <3>5. QED
      BY <2>1, <2>4, <3>3, <3>4 DEF rest
  <2>5. QED
    BY <2>3, <2>4
<1>6. \A s \in SUBSET T : s # {} => g[s \ {Pick(s)}] = Value(s \ {Pick(s)})
  BY <1>5, PickIn
<1> HIDE DEF Value
<1>7. IsRun(g, f, T)
  BY <1>6 DEF IsRun
<1>8. IsRun(Run(f, T), f, T)
  BY <1>7 DEF Run
<1>9. QED
  BY <1>3, <1>8

(* The sum of nothing, and one step of the recursion.                       *)
LEMMA SumEmpty == ASSUME NEW f PROVE SumFunctionOnSet(f, {}) = 0
<1>1. IsRun(Run(f, {}), f, {})
  BY RunExists, FS_EmptySet
<1>2. QED
  BY <1>1, SumUnfolds DEF IsRun

LEMMA SumStep ==
  ASSUME NEW f, NEW S, IsFiniteSet(S), S # {}
  PROVE  SumFunctionOnSet(f, S)
           = f[Pick(S)] + SumFunctionOnSet(f, S \ {Pick(S)})
<1> DEFINE rest == S \ {Pick(S)}
<1>1. rest \in SUBSET S /\ IsFiniteSet(rest)
  BY FS_Subset
<1>2. IsRun(Run(f, S), f, S) /\ IsRun(Run(f, rest), f, rest)
  BY <1>1, RunExists
<1> HIDE DEF rest
<1>3. Run(f, S)[rest] = Run(f, rest)[rest]
  BY <1>1, <1>2, RunUnique
<1>4. Run(f, S)[S] = f[Pick(S)] + Run(f, S)[rest]
  BY <1>2 DEF IsRun, rest
<1>5. QED
  BY <1>3, <1>4, SumUnfolds DEF rest
----------------------------------------------------------------------------
(* What does not depend on the order of the recursion *)

(* Integers add up to an integer.                                           *)
LEMMA SumInt ==
  ASSUME NEW f, NEW S, IsFiniteSet(S), \A x \in S : f[x] \in Int
  PROVE  SumFunctionOnSet(f, S) \in Int
<1> DEFINE Bad == {T \in SUBSET S : SumFunctionOnSet(f, T) \notin Int}
<1>1. SUFFICES ASSUME Bad # {} PROVE FALSE
  OBVIOUS
<1>. Bad \in SUBSET SUBSET S
  OBVIOUS
<1> HIDE DEF Bad
<1>2. PICK T \in Bad : \A U \in Bad : U \subseteq T => U = T
  BY <1>1, LeastSet
<1>3. T \in SUBSET S /\ IsFiniteSet(T) /\ SumFunctionOnSet(f, T) \notin Int
  BY FS_Subset DEF Bad
<1>4. T # {}
  BY <1>3, SumEmpty
<1>5. Pick(T) \in T /\ f[Pick(T)] \in Int
  BY <1>3, <1>4, PickIn
<1>6. SumFunctionOnSet(f, T \ {Pick(T)}) \in Int
  BY <1>2, <1>3, <1>5 DEF Bad
<1>7. QED
  BY <1>3, <1>4, <1>5, <1>6, SumStep

(* Any element may be the first one.                                        *)
LEMMA SumRemove ==
  ASSUME NEW f, NEW S, IsFiniteSet(S), \A x \in S : f[x] \in Int
  PROVE  \A x \in S : SumFunctionOnSet(f, S) = f[x] + SumFunctionOnSet(f, S \ {x})
<1> DEFINE Splits(T) ==
      \A x \in T : SumFunctionOnSet(f, T) = f[x] + SumFunctionOnSet(f, T \ {x})
           Bad == {T \in SUBSET S : ~ Splits(T)}
<1>1. SUFFICES ASSUME Bad # {} PROVE FALSE
  OBVIOUS
<1>. Bad \in SUBSET SUBSET S
  OBVIOUS
<1> HIDE DEF Bad
<1>2. PICK T \in Bad : \A U \in Bad : U \subseteq T => U = T
  BY <1>1, LeastSet
<1>3. T \in SUBSET S /\ IsFiniteSet(T) /\ ~ Splits(T)
  BY FS_Subset DEF Bad
<1>4. PICK x \in T : SumFunctionOnSet(f, T) # f[x] + SumFunctionOnSet(f, T \ {x})
  BY <1>3
<1> DEFINE c == Pick(T)
<1>5. c \in T /\ SumFunctionOnSet(f, T) = f[c] + SumFunctionOnSet(f, T \ {c})
  BY <1>3, <1>4, PickIn, SumStep
<1> HIDE DEF c
<1>6. x # c
  BY <1>4, <1>5
<1>7. Splits(T \ {c}) /\ Splits(T \ {x})
  BY <1>2, <1>3, <1>4, <1>5 DEF Bad
<1>8. SumFunctionOnSet(f, T \ {c}) = f[x] + SumFunctionOnSet(f, (T \ {c}) \ {x})
  BY <1>4, <1>6, <1>7
<1>9. SumFunctionOnSet(f, T \ {x}) = f[c] + SumFunctionOnSet(f, (T \ {x}) \ {c})
  BY <1>5, <1>6, <1>7
<1>10. SumFunctionOnSet(f, (T \ {c}) \ {x}) = SumFunctionOnSet(f, (T \ {x}) \ {c})
  <2>1. (T \ {c}) \ {x} = (T \ {x}) \ {c}
    OBVIOUS
  <2>2. QED
    BY <2>1, Zenon
<1>11. IsFiniteSet((T \ {x}) \ {c}) /\ (T \ {x}) \ {c} \in SUBSET S
  BY <1>3, FS_Subset
<1>12. SumFunctionOnSet(f, (T \ {x}) \ {c}) \in Int
  BY <1>11, SumInt
<1>13. f[x] \in Int /\ f[c] \in Int
  BY <1>3, <1>4, <1>5
<1>14. QED
  BY <1>4, <1>5, <1>8, <1>9, <1>10, <1>12, <1>13

(* One more element.                                                        *)
LEMMA SumAdd ==
  ASSUME NEW f, NEW S, IsFiniteSet(S), NEW x, x \notin S,
         \A y \in S \cup {x} : f[y] \in Int
  PROVE  SumFunctionOnSet(f, S \cup {x}) = SumFunctionOnSet(f, S) + f[x]
<1>1. IsFiniteSet(S \cup {x})
  BY FS_AddElement
<1>2. SumFunctionOnSet(f, (S \cup {x}) \ {x}) = SumFunctionOnSet(f, S)
  <2>1. (S \cup {x}) \ {x} = S
    OBVIOUS
  <2>2. QED
    BY <2>1, Zenon
<1>3. SumFunctionOnSet(f, S \cup {x}) = f[x] + SumFunctionOnSet(f, (S \cup {x}) \ {x})
  BY <1>1, SumRemove
<1>4. SumFunctionOnSet(f, S) \in Int
  BY SumInt
<1>5. QED
  BY <1>2, <1>3, <1>4

(* Only the values over the set count, and the sum is monotone in them.     *)
LEMMA SumEqual ==
  ASSUME NEW f, NEW g, NEW S, IsFiniteSet(S), \A x \in S : f[x] = g[x]
  PROVE  SumFunctionOnSet(f, S) = SumFunctionOnSet(g, S)
<1> DEFINE Bad == {T \in SUBSET S : SumFunctionOnSet(f, T) # SumFunctionOnSet(g, T)}
<1>1. SUFFICES ASSUME Bad # {} PROVE FALSE
  OBVIOUS
<1>. Bad \in SUBSET SUBSET S
  OBVIOUS
<1> HIDE DEF Bad
<1>2. PICK T \in Bad : \A U \in Bad : U \subseteq T => U = T
  BY <1>1, LeastSet
<1>3. /\ T \in SUBSET S /\ IsFiniteSet(T)
      /\ SumFunctionOnSet(f, T) # SumFunctionOnSet(g, T)
  BY FS_Subset DEF Bad
<1>4. T # {}
  BY <1>3, SumEmpty
<1>5. Pick(T) \in T /\ f[Pick(T)] = g[Pick(T)]
  BY <1>3, <1>4, PickIn
<1>6. SumFunctionOnSet(f, T \ {Pick(T)}) = SumFunctionOnSet(g, T \ {Pick(T)})
  BY <1>2, <1>3, <1>5 DEF Bad
<1>7. QED
  BY <1>3, <1>4, <1>5, <1>6, SumStep

LEMMA SumBound ==
  ASSUME NEW f, NEW g, NEW S, IsFiniteSet(S),
         \A x \in S : f[x] \in Int /\ g[x] \in Int /\ f[x] <= g[x]
  PROVE  SumFunctionOnSet(f, S) <= SumFunctionOnSet(g, S)
<1> DEFINE Bad == {T \in SUBSET S : ~ (SumFunctionOnSet(f, T) <= SumFunctionOnSet(g, T))}
<1>1. SUFFICES ASSUME Bad # {} PROVE FALSE
  OBVIOUS
<1>. Bad \in SUBSET SUBSET S
  OBVIOUS
<1> HIDE DEF Bad
<1>2. PICK T \in Bad : \A U \in Bad : U \subseteq T => U = T
  BY <1>1, LeastSet
<1>3. /\ T \in SUBSET S /\ IsFiniteSet(T)
      /\ ~ (SumFunctionOnSet(f, T) <= SumFunctionOnSet(g, T))
  BY FS_Subset DEF Bad
<1>4. T # {}
  BY <1>3, SumEmpty
<1> DEFINE c == Pick(T)
           rest == T \ {Pick(T)}
<1>5. c \in T /\ f[c] \in Int /\ g[c] \in Int /\ f[c] <= g[c]
  BY <1>3, <1>4, PickIn
<1>6. SumFunctionOnSet(f, rest) <= SumFunctionOnSet(g, rest)
  BY <1>2, <1>3, <1>5 DEF Bad
<1>7. IsFiniteSet(rest) /\ rest \subseteq S
  BY <1>3, FS_Subset
<1>8. SumFunctionOnSet(f, rest) \in Int /\ SumFunctionOnSet(g, rest) \in Int
  BY <1>7, SumInt
<1>9. /\ SumFunctionOnSet(f, T) = f[c] + SumFunctionOnSet(f, rest)
      /\ SumFunctionOnSet(g, T) = g[c] + SumFunctionOnSet(g, rest)
  BY <1>3, <1>4, SumStep
<1>10. QED
  BY <1>3, <1>5, <1>6, <1>8, <1>9
(* The sum over a set is that over a part of it plus that over the rest.    *)
LEMMA SumSplit ==
  ASSUME NEW f, NEW S, IsFiniteSet(S), \A x \in S : f[x] \in Int,
         NEW T \in SUBSET S
  PROVE  SumFunctionOnSet(f, S) = SumFunctionOnSet(f, T) + SumFunctionOnSet(f, S \ T)
<1> DEFINE Bad == {U \in SUBSET T :
      SumFunctionOnSet(f, S) # SumFunctionOnSet(f, U) + SumFunctionOnSet(f, S \ U)}
<1>1. SUFFICES ASSUME Bad # {} PROVE FALSE
  OBVIOUS
<1>. Bad \in SUBSET SUBSET S
  OBVIOUS
<1> HIDE DEF Bad
<1>2. PICK U \in Bad : \A V \in Bad : V \subseteq U => V = U
  BY <1>1, LeastSet
<1>3. /\ U \in SUBSET T /\ IsFiniteSet(U) /\ IsFiniteSet(S \ U)
      /\ SumFunctionOnSet(f, S) # SumFunctionOnSet(f, U) + SumFunctionOnSet(f, S \ U)
  BY FS_Subset DEF Bad
<1>4. U # {}
  <2>1. SUFFICES ASSUME U = {} PROVE FALSE
    OBVIOUS
  <2>2. S \ U = S
    BY <2>1
  <2>3. SumFunctionOnSet(f, S \ U) = SumFunctionOnSet(f, S)
    BY <2>2, Zenon
  <2>4. SumFunctionOnSet(f, U) = 0
    BY <2>1, SumEmpty
  <2>5. SumFunctionOnSet(f, S) \in Int
    BY SumInt
  <2>6. QED
    BY <1>3, <2>3, <2>4, <2>5
<1>5. PICK x : x \in U
  BY <1>4
<1> DEFINE less == U \ {x}
           more == S \ less
<1>6. SumFunctionOnSet(f, S) = SumFunctionOnSet(f, less) + SumFunctionOnSet(f, more)
  BY <1>2, <1>3, <1>5 DEF Bad
<1>7. /\ IsFiniteSet(less) /\ less \subseteq S /\ x \notin less
      /\ IsFiniteSet(more) /\ more \subseteq S /\ x \in more
  BY <1>3, <1>5, FS_Subset
<1>8. SumFunctionOnSet(f, U) = f[x] + SumFunctionOnSet(f, less)
  BY <1>3, <1>5, SumRemove
<1>9. SumFunctionOnSet(f, more) = f[x] + SumFunctionOnSet(f, more \ {x})
  BY <1>7, SumRemove
<1>10. SumFunctionOnSet(f, more \ {x}) = SumFunctionOnSet(f, S \ U)
  <2>1. more \ {x} = S \ U
    BY <1>5
  <2>2. QED
    BY <2>1, Zenon
<1>11. /\ SumFunctionOnSet(f, less) \in Int /\ SumFunctionOnSet(f, S \ U) \in Int
       /\ f[x] \in Int
  BY <1>3, <1>5, <1>7, SumInt
<1> HIDE DEF less, more
<1>12. QED
  BY <1>3, <1>6, <1>8, <1>9, <1>10, <1>11

(* Values that are not negative: nor is the sum, and a part of the set has  *)
(* no more than the whole.                                                  *)
LEMMA SumNat ==
  ASSUME NEW f, NEW S, IsFiniteSet(S), \A x \in S : f[x] \in Nat
  PROVE  SumFunctionOnSet(f, S) \in Nat
<1> DEFINE Bad == {T \in SUBSET S : SumFunctionOnSet(f, T) \notin Nat}
<1>1. SUFFICES ASSUME Bad # {} PROVE FALSE
  OBVIOUS
<1>. Bad \in SUBSET SUBSET S
  OBVIOUS
<1> HIDE DEF Bad
<1>2. PICK T \in Bad : \A U \in Bad : U \subseteq T => U = T
  BY <1>1, LeastSet
<1>3. T \in SUBSET S /\ IsFiniteSet(T) /\ SumFunctionOnSet(f, T) \notin Nat
  BY FS_Subset DEF Bad
<1>4. T # {}
  <2>1. SUFFICES ASSUME T = {} PROVE FALSE
    OBVIOUS
  <2>2. SumFunctionOnSet(f, T) = 0
    BY <2>1, SumEmpty
  <2>3. QED
    BY <1>3, <2>2
<1>5. Pick(T) \in T /\ f[Pick(T)] \in Nat
  BY <1>3, <1>4, PickIn
<1>6. SumFunctionOnSet(f, T \ {Pick(T)}) \in Nat
  BY <1>2, <1>3, <1>5 DEF Bad
<1>7. QED
  BY <1>3, <1>4, <1>5, <1>6, SumStep

LEMMA SumSubset ==
  ASSUME NEW f, NEW S, IsFiniteSet(S), \A x \in S : f[x] \in Nat,
         NEW T \in SUBSET S
  PROVE  SumFunctionOnSet(f, T) <= SumFunctionOnSet(f, S)
<1>1. IsFiniteSet(T) /\ IsFiniteSet(S \ T)
  BY FS_Subset
<1>2. SumFunctionOnSet(f, T) \in Nat /\ SumFunctionOnSet(f, S \ T) \in Nat
  BY <1>1, SumNat
<1>3. SumFunctionOnSet(f, S) = SumFunctionOnSet(f, T) + SumFunctionOnSet(f, S \ T)
  BY SumSplit
<1>4. QED
  BY <1>2, <1>3

(* One value of the function changes.                                       *)
LEMMA SumChange ==
  ASSUME NEW f, NEW g, NEW S, IsFiniteSet(S), NEW x \in S,
         \A y \in S : f[y] \in Int /\ g[y] \in Int,
         \A y \in S : y # x => f[y] = g[y]
  PROVE  SumFunctionOnSet(g, S) = SumFunctionOnSet(f, S) + g[x] - f[x]
<1>1. IsFiniteSet(S \ {x})
  BY FS_Subset
<1>2. SumFunctionOnSet(f, S \ {x}) = SumFunctionOnSet(g, S \ {x})
  BY <1>1, SumEqual
<1>3. SumFunctionOnSet(f, S \ {x}) \in Int
  BY <1>1, SumInt
<1>4. /\ SumFunctionOnSet(f, S) = f[x] + SumFunctionOnSet(f, S \ {x})
      /\ SumFunctionOnSet(g, S) = g[x] + SumFunctionOnSet(g, S \ {x})
  BY SumRemove
<1>5. QED
  BY <1>2, <1>3, <1>4

(* The sum of two functions.                                                *)
LEMMA SumPlus ==
  ASSUME NEW f, NEW g, NEW h, NEW S, IsFiniteSet(S),
         \A x \in S : f[x] \in Int /\ g[x] \in Int /\ h[x] = f[x] + g[x]
  PROVE  SumFunctionOnSet(h, S) = SumFunctionOnSet(f, S) + SumFunctionOnSet(g, S)
<1> DEFINE Bad == {T \in SUBSET S :
      SumFunctionOnSet(h, T) # SumFunctionOnSet(f, T) + SumFunctionOnSet(g, T)}
<1>1. SUFFICES ASSUME Bad # {} PROVE FALSE
  OBVIOUS
<1>. Bad \in SUBSET SUBSET S
  OBVIOUS
<1> HIDE DEF Bad
<1>2. PICK T \in Bad : \A U \in Bad : U \subseteq T => U = T
  BY <1>1, LeastSet
<1>3. /\ T \in SUBSET S /\ IsFiniteSet(T)
      /\ SumFunctionOnSet(h, T) # SumFunctionOnSet(f, T) + SumFunctionOnSet(g, T)
  BY FS_Subset DEF Bad
<1>4. T # {}
  BY <1>3, SumEmpty
<1> DEFINE c == Pick(T)
           rest == T \ {Pick(T)}
<1>5. c \in T /\ f[c] \in Int /\ g[c] \in Int /\ h[c] = f[c] + g[c]
  BY <1>3, <1>4, PickIn
<1>6. SumFunctionOnSet(h, rest) = SumFunctionOnSet(f, rest) + SumFunctionOnSet(g, rest)
  BY <1>2, <1>3, <1>5 DEF Bad
<1>7. IsFiniteSet(rest) /\ rest \subseteq S
  BY <1>3, FS_Subset
<1>8. SumFunctionOnSet(f, rest) \in Int /\ SumFunctionOnSet(g, rest) \in Int
  BY <1>7, SumInt
<1>9. /\ SumFunctionOnSet(f, T) = f[c] + SumFunctionOnSet(f, rest)
      /\ SumFunctionOnSet(g, T) = g[c] + SumFunctionOnSet(g, rest)
      /\ SumFunctionOnSet(h, T) = h[c] + SumFunctionOnSet(h, rest)
  BY <1>3, <1>4, SumStep
<1> HIDE DEF c, rest
<1>10. QED
  BY <1>3, <1>5, <1>6, <1>8, <1>9

(* The elements are renamed: m takes S to T, one to one.                    *)
LEMMA SumRenamed ==
  ASSUME NEW f, NEW g, NEW S, IsFiniteSet(S), NEW m,
         \A x, y \in S : m[x] = m[y] => x = y,
         \A x \in S : f[x] \in Int /\ g[m[x]] = f[x]
  PROVE  SumFunctionOnSet(g, {m[x] : x \in S}) = SumFunctionOnSet(f, S)
<1> DEFINE Image(T) == {m[x] : x \in T}
           Bad == {T \in SUBSET S :
      ~ (IsFiniteSet(Image(T)) /\ SumFunctionOnSet(g, Image(T)) = SumFunctionOnSet(f, T))}
<1>1. SUFFICES ASSUME Bad # {} PROVE FALSE
  OBVIOUS
<1>. Bad \in SUBSET SUBSET S
  OBVIOUS
<1> HIDE DEF Bad
<1>2. PICK T \in Bad : \A U \in Bad : U \subseteq T => U = T
  BY <1>1, LeastSet
<1>3. /\ T \in SUBSET S /\ IsFiniteSet(T)
      /\ ~ (IsFiniteSet(Image(T)) /\ SumFunctionOnSet(g, Image(T)) = SumFunctionOnSet(f, T))
  BY FS_Subset DEF Bad
<1>4. T # {}
  <2>1. SUFFICES ASSUME T = {} PROVE FALSE
    OBVIOUS
  <2>2. Image(T) = {}
    BY <2>1
  <2>3. IsFiniteSet(Image(T)) /\ SumFunctionOnSet(g, Image(T)) = 0
    BY <2>2, SumEmpty, FS_EmptySet, Zenon
  <2>4. SumFunctionOnSet(f, T) = 0
    BY <2>1, SumEmpty
  <2>5. QED
    BY <1>3, <2>3, <2>4
<1>5. PICK c : c \in T
  BY <1>4
<1> DEFINE rest == T \ {c}
<1>6. IsFiniteSet(Image(rest)) /\ SumFunctionOnSet(g, Image(rest)) = SumFunctionOnSet(f, rest)
  <2>1. rest \in SUBSET S /\ rest \subseteq T /\ rest # T
    BY <1>3, <1>5
  <2> HIDE DEF rest, Image
  <2>2. rest \notin Bad
    BY <1>2, <2>1
  <2>3. QED
    BY <2>1, <2>2 DEF Bad
<1>7. Image(T) = Image(rest) \cup {m[c]} /\ m[c] \notin Image(rest)
  BY <1>3, <1>5
<1>8. \A y \in Image(rest) \cup {m[c]} : g[y] \in Int
  BY <1>3, <1>5
<1>9. SumFunctionOnSet(f, T) = f[c] + SumFunctionOnSet(f, rest) /\ f[c] \in Int
  BY <1>3, <1>5, SumRemove
<1>10. SumFunctionOnSet(f, rest) \in Int
  BY <1>3, FS_Subset, SumInt
<1>11. /\ SumFunctionOnSet(g, Image(rest) \cup {m[c]}) = SumFunctionOnSet(g, Image(rest)) + f[c]
       /\ IsFiniteSet(Image(rest) \cup {m[c]})
  <2>. g[m[c]] = f[c]
    BY <1>3, <1>5
  <2> HIDE DEF Image, rest
  <2>1. QED
    BY <1>6, <1>7, <1>8, SumAdd, FS_AddElement
<1>12. SumFunctionOnSet(g, Image(T)) = SumFunctionOnSet(g, Image(rest)) + f[c] /\ IsFiniteSet(Image(T))
  BY <1>7, <1>11, Zenon
<1> HIDE DEF Image, rest
<1>13. QED
  BY <1>3, <1>6, <1>9, <1>10, <1>12
----------------------------------------------------------------------------
(* Sums over the first numbers *)

(* Induction up to n: a set that holds 0 and with every k below n its       *)
(* successor holds n.                                                       *)
LEMMA UpTo ==
  ASSUME NEW n \in Nat, NEW G, 0 \in G, \A k \in Nat : k < n /\ k \in G => k + 1 \in G
  PROVE  n \in G
<1> DEFINE Bad == {0..k : k \in {m \in 0..n : m \notin G}}
<1>1. SUFFICES ASSUME n \notin G PROVE FALSE
  OBVIOUS
<1>2. 0..n \in Bad
  BY <1>1
<1>3. Bad \in SUBSET SUBSET (0..n)
  OBVIOUS
<1>4. IsFiniteSet(0..n)
  <2>1. 0 \in Int /\ n \in Int
    OBVIOUS
  <2>2. QED
    BY <2>1, FS_Interval, Zenon
<1>5. PICK T \in Bad : \A U \in Bad : U \subseteq T => U = T
  <2> DEFINE All == 0..n
  <2>1. IsFiniteSet(All) /\ Bad \in SUBSET SUBSET All /\ Bad # {}
    BY <1>2, <1>3, <1>4
  <2> HIDE DEF Bad, All
  <2>2. QED
    BY <2>1, LeastSet
<1>6. PICK k \in 0..n : k \notin G /\ T = 0..k
  OBVIOUS
<1>7. k # 0
  BY <1>6
<1>8. k - 1 \in Nat /\ k - 1 < n /\ (k - 1) + 1 = k
  BY <1>6, <1>7
<1>9. k - 1 \notin G
  BY <1>6, <1>8
<1>10. 0..(k - 1) \in Bad
  BY <1>8, <1>9
<1>11. 0..(k - 1) \subseteq 0..k /\ k \in 0..k /\ k \notin 0..(k - 1)
  BY <1>8
<1>12. QED
  BY <1>5, <1>6, <1>10, <1>11

(* A nonempty set of numbers has a least one.                               *)
LEMMA LeastNumber ==
  ASSUME NEW G \in SUBSET Nat, G # {}
  PROVE  \E m \in G : \A k \in G : m <= k
<1>1. SUFFICES ASSUME \A m \in G : \E k \in G : k < m PROVE FALSE
  BY SMT
<1>2. PICK n \in G : TRUE
  OBVIOUS
<1> DEFINE Below == {k \in Nat : \A m \in 0..k : m \notin G}
<1>3. 0 \in Below
  BY <1>1
<1>4. ASSUME NEW k \in Nat, k \in Below PROVE k + 1 \in Below
  BY <1>1, <1>4
<1>5. n \in Below
  <2> HIDE DEF Below
  <2>1. QED
    BY <1>2, <1>3, <1>4, UpTo
<1>6. QED
  BY <1>2, <1>5

(* 1..n is finite, and the sum over it grows by the value at its end.       *)
LEMMA Numbers ==
  ASSUME NEW n \in Nat
  PROVE  /\ IsFiniteSet(1..n)
         /\ n + 1 \notin 1..n
         /\ 1..(n + 1) = (1..n) \cup {n + 1}
<1>1. 1 \in Int /\ n \in Int
  OBVIOUS
<1>2. IsFiniteSet(1..n)
  BY <1>1, FS_Interval, Zenon
<1>3. QED
  BY <1>2

LEMMA SumNext ==
  ASSUME NEW f, NEW n \in Nat, \A i \in 1..(n + 1) : f[i] \in Int
  PROVE  SumFunctionOnSet(f, 1..(n + 1)) = SumFunctionOnSet(f, 1..n) + f[n + 1]
<1>1. SumFunctionOnSet(f, (1..n) \cup {n + 1}) = SumFunctionOnSet(f, 1..n) + f[n + 1]
  <2>1. \A y \in (1..n) \cup {n + 1} : f[y] \in Int
    OBVIOUS
  <2> DEFINE First == 1..n
             last == n + 1
  <2>2. IsFiniteSet(First) /\ last \notin First /\ \A y \in First \cup {last} : f[y] \in Int
    BY <2>1, Numbers
  <2> HIDE DEF First, last
  <2>3. SumFunctionOnSet(f, First \cup {last}) = SumFunctionOnSet(f, First) + f[last]
    BY <2>2, SumAdd
  <2>4. QED
    BY <2>3 DEF First, last
<1>2. SumFunctionOnSet(f, 1..(n + 1)) = SumFunctionOnSet(f, (1..n) \cup {n + 1})
  BY Numbers, Zenon
<1>3. QED
  BY <1>1, <1>2

(* The sum over no number is zero.                                          *)
LEMMA SumNone == ASSUME NEW f PROVE SumFunctionOnSet(f, 1..0) = 0
<1>1. 1..0 = {}
  OBVIOUS
<1>2. QED
  BY <1>1, SumEmpty, Zenon

(* Zeros add up to zero.                                                    *)
LEMMA SumZero ==
  ASSUME NEW f, NEW S, IsFiniteSet(S), \A x \in S : f[x] = 0
  PROVE  SumFunctionOnSet(f, S) = 0
<1> DEFINE Bad == {T \in SUBSET S : SumFunctionOnSet(f, T) # 0}
<1>1. SUFFICES ASSUME Bad # {} PROVE FALSE
  OBVIOUS
<1>. Bad \in SUBSET SUBSET S
  OBVIOUS
<1> HIDE DEF Bad
<1>2. PICK T \in Bad : \A U \in Bad : U \subseteq T => U = T
  BY <1>1, LeastSet
<1>3. T \in SUBSET S /\ IsFiniteSet(T) /\ SumFunctionOnSet(f, T) # 0
  BY FS_Subset DEF Bad
<1>4. T # {}
  BY <1>3, SumEmpty
<1>5. Pick(T) \in T /\ f[Pick(T)] = 0
  BY <1>3, <1>4, PickIn
<1>6. SumFunctionOnSet(f, T \ {Pick(T)}) = 0
  BY <1>2, <1>3, <1>5 DEF Bad
<1>7. QED
  BY <1>3, <1>4, <1>5, <1>6, SumStep

(* Differences of neighbours add up to the difference of the ends.          *)
LEMMA SumTelescope ==
  ASSUME NEW f, NEW g, NEW n \in Nat, \A i \in 0..n : g[i] \in Int,
         \A i \in 1..n : f[i] = g[i] - g[i - 1]
  PROVE  SumFunctionOnSet(f, 1..n) = g[n] - g[0]
<1> DEFINE Good == {k \in Nat : k <= n => SumFunctionOnSet(f, 1..k) = g[k] - g[0]}
<1>1. 0 \in Good
  BY SumNone
<1>2. ASSUME NEW k \in Nat, k < n, k \in Good PROVE k + 1 \in Good
  <2>1. \A i \in 1..(k + 1) : f[i] \in Int
    BY <1>2
  <2>2. SumFunctionOnSet(f, 1..(k + 1)) = SumFunctionOnSet(f, 1..k) + f[k + 1]
    BY <2>1, SumNext
  <2>3. f[k + 1] = g[k + 1] - g[k] /\ g[k] \in Int /\ g[k + 1] \in Int /\ g[0] \in Int
    BY <1>2
  <2>4. SumFunctionOnSet(f, 1..k) = g[k] - g[0]
    BY <1>2
  <2>5. QED
    BY <2>2, <2>3, <2>4
<1>3. n \in Good
  <2> HIDE DEF Good
  <2>1. QED
    BY <1>1, <1>2, UpTo
<1>4. QED
  BY <1>3

(* What is left of a after the demands before the i-th.                     *)
Room(a, m, i) ==
  LET left == a - SumFunctionOnSet(m, 1..(i - 1)) IN IF 0 >= left THEN 0 ELSE left

(* Shares dealt out in order, each as large as the demand unless what the   *)
(* earlier ones leave of a is less: they add up to a, or meet every demand. *)
LEMMA SumGreedy ==
  ASSUME NEW n \in Nat, NEW m, NEW t, NEW a \in Nat,
         \A i \in 1..n : m[i] \in Nat,
         \A i \in 1..n : t[i] = IF m[i] <= Room(a, m, i) THEN m[i] ELSE Room(a, m, i)
  PROVE  SumFunctionOnSet(t, 1..n)
           = IF a <= SumFunctionOnSet(m, 1..n) THEN a ELSE SumFunctionOnSet(m, 1..n)
<1> DEFINE M(k) == SumFunctionOnSet(m, 1..k)
           T(k) == SumFunctionOnSet(t, 1..k)
           Good == {k \in Nat : k <= n => T(k) = IF a <= M(k) THEN a ELSE M(k)}
<1>1. 0 \in Good
  BY SumNone
<1>2. \A k \in 0..n : M(k) \in Nat
  <2>1. TAKE k \in 0..n
  <2>2. IsFiniteSet(1..k)
    BY Numbers
  <2>3. QED
    BY <2>2, SumNat
<1>3. \A i \in 1..n : t[i] \in Nat
  <2>1. TAKE i \in 1..n
  <2>2. i - 1 \in 0..n /\ M(i - 1) \in Nat
    BY <1>2
  <2>3. Room(a, m, i) \in Nat
    BY <2>2 DEF Room
  <2>4. QED
    BY <2>3
<1>4. ASSUME NEW k \in Nat, k < n, k \in Good PROVE k + 1 \in Good
  <2>1. \A i \in 1..(k + 1) : m[i] \in Int /\ t[i] \in Int
    BY <1>3, <1>4
  <2>2. M(k + 1) = M(k) + m[k + 1] /\ T(k + 1) = T(k) + t[k + 1]
    BY <2>1, SumNext
  <2>3. M(k) \in Nat /\ m[k + 1] \in Nat
    BY <1>2, <1>4
  <2>4. T(k) = IF a <= M(k) THEN a ELSE M(k)
    BY <1>4
  <2>5. LET left == a - M(k)
            room == IF 0 >= left THEN 0 ELSE left
        IN t[k + 1] = IF m[k + 1] <= room THEN m[k + 1] ELSE room
    <3>1. k + 1 \in 1..n /\ (k + 1) - 1 = k
      BY <1>4
    <3>2. QED
      BY <3>1 DEF Room
  <2> HIDE DEF M, T
  <2>6. CASE a <= M(k)
    <3>1. T(k) = a /\ t[k + 1] = 0
      BY <2>3, <2>4, <2>5, <2>6
    <3>2. QED
      BY <2>2, <2>3, <2>6, <3>1
  <2>7. CASE a > M(k)
    <3>1. T(k) = M(k)
      BY <2>3, <2>4, <2>7
    <3>2. t[k + 1] = IF m[k + 1] <= a - M(k) THEN m[k + 1] ELSE a - M(k)
      BY <2>3, <2>5, <2>7
    <3>3. T(k + 1) = IF a <= M(k + 1) THEN a ELSE M(k + 1)
      BY <2>2, <2>3, <2>7, <3>1, <3>2
    <3>4. QED
      BY <3>3
  <2>8. QED
    BY <2>3, <2>6, <2>7
<1>5. n \in Good
  <2> HIDE DEF Good
  <2>1. QED
    BY <1>1, <1>4, UpTo
<1>6. QED
  BY <1>5

(* A sequence without its first value: g is f moved down by one.            *)
LEMMA SumShift ==
  ASSUME NEW f, NEW g, NEW n \in Nat, n > 0,
         \A i \in 1..n : f[i] \in Int,
         \A i \in 1..(n - 1) : g[i] = f[i + 1]
  PROVE  SumFunctionOnSet(g, 1..(n - 1)) = SumFunctionOnSet(f, 1..n) - f[1]
<1> DEFINE Good == {k \in Nat : k <= n - 1 =>
             SumFunctionOnSet(g, 1..k) = SumFunctionOnSet(f, 1..(k + 1)) - f[1]}
<1>1. 0 \in Good
  <2>1. SumFunctionOnSet(f, 1..(0 + 1)) = SumFunctionOnSet(f, 1..0) + f[0 + 1]
    <3>1. \A i \in 1..(0 + 1) : f[i] \in Int
      OBVIOUS
    <3>2. QED
      BY <3>1, SumNext
  <2>2. SumFunctionOnSet(f, 1..0) = 0 /\ SumFunctionOnSet(g, 1..0) = 0
    BY SumNone
  <2>3. f[1] \in Int
    OBVIOUS
  <2>4. QED
    BY <2>1, <2>2, <2>3
<1>2. ASSUME NEW k \in Nat, k < n - 1, k \in Good PROVE k + 1 \in Good
  <2>1. SumFunctionOnSet(g, 1..(k + 1)) = SumFunctionOnSet(g, 1..k) + g[k + 1]
    <3>1. \A i \in 1..(k + 1) : g[i] \in Int
      BY <1>2
    <3>2. QED
      BY <3>1, SumNext
  <2>2. SumFunctionOnSet(f, 1..((k + 1) + 1))
          = SumFunctionOnSet(f, 1..(k + 1)) + f[(k + 1) + 1]
    <3>1. \A i \in 1..((k + 1) + 1) : f[i] \in Int
      BY <1>2
    <3>2. QED
      BY <3>1, SumNext
  <2>3. SumFunctionOnSet(g, 1..k) = SumFunctionOnSet(f, 1..(k + 1)) - f[1]
    BY <1>2
  <2>4. g[k + 1] = f[(k + 1) + 1] /\ f[(k + 1) + 1] \in Int /\ f[1] \in Int
    BY <1>2
  <2>5. SumFunctionOnSet(f, 1..(k + 1)) \in Int
    <3>1. IsFiniteSet(1..(k + 1))
      BY Numbers
    <3>2. QED
      BY <1>2, <3>1, SumInt
  <2>6. QED
    BY <2>1, <2>2, <2>3, <2>4, <2>5
<1>3. n - 1 \in Good
  <2>1. n - 1 \in Nat
    OBVIOUS
  <2> HIDE DEF Good
  <2>2. QED
    BY <2>1, <1>1, <1>2, UpTo
<1>4. QED
  BY <1>3
============================================================================
