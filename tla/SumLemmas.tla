----------------------------- MODULE SumLemmas -----------------------------
(***************************************************************************)
(* Sums over finite sets, as ledgers, counters and pools are reconciled:   *)
(* what the fold of the community modules computes, for every function and *)
(* every finite set.  A lemma cannot take the property to be shown as a    *)
(* parameter here, so each induction looks at a smallest set that violates *)
(* its claim.                                                              *)
(***************************************************************************)
EXTENDS FiniteSetsExt, FiniteSetTheorems, TLAPS

\* The element a fold takes first, and the sums of all subsets of S.
Pick(s) == CHOOSE x \in s : TRUE

Sums(g, f, S) ==
    g = [s \in SUBSET S |-> IF s = {} THEN 0 ELSE f[Pick(s)] + g[s \ {Pick(s)}]]

(* A nonempty set has an element to take.                                  *)
LEMMA PickIsMember == ASSUME NEW s, s # {} PROVE Pick(s) \in s
BY DEF Pick

(* SumFunctionOnSet of the community modules is the fold written out.      *)
LEMMA SumIsFold ==
    ASSUME NEW f, NEW S
    PROVE  SumFunctionOnSet(f, S) = (CHOOSE g : Sums(g, f, S))[S]
BY DEF SumFunctionOnSet, FoldFunctionOnSet, MapThenFoldSet, Sums, Pick

(* A nonempty set of subsets of a finite set has a minimal element: the    *)
(* induction principle behind every lemma below.                           *)
LEMMA SmallestSubset ==
    ASSUME NEW S, IsFiniteSet(S), NEW Q \in SUBSET SUBSET S, Q # {}
    PROVE  \E T \in Q : \A U \in SUBSET T : U \in Q => U = T
<1>1. Q \subseteq FiniteSubsetsOf(S)
  BY FS_FiniteSubsetsOfFinite
<1>2. PICK T \in Q : \A U \in Q : <<U, T>> \notin StrictSubsetOrdering(S)
  <2>1. IsWellFoundedOn(StrictSubsetOrdering(S), FiniteSubsetsOf(S))
    BY FS_StrictSubsetOrderingWellFounded
  <2> QED BY <1>1, <2>1, WFMin
<1>3. ASSUME NEW U \in SUBSET T, U \in Q, U # T PROVE FALSE
  <2>1. <<U, T>> \in (SUBSET S) \X (SUBSET S)
    BY <1>3
  <2>2. <<U, T>> \in StrictSubsetOrdering(S)
    BY <1>3, <2>1 DEF StrictSubsetOrdering
  <2> QED BY <1>2, <1>3, <2>2
<1> QED BY <1>3

(* A nonempty set of positions of a list has a least one.                  *)
LEMMA LeastIndex ==
    ASSUME NEW n \in Nat, NEW I \in SUBSET (1..n), I # {}
    PROVE  \E i \in I : \A j \in I : i <= j
<1> DEFINE Q == {1..i : i \in I}
<1>1. IsFiniteSet(1..n)
  BY FS_Interval
<1>2. Q \in SUBSET SUBSET (1..n) /\ Q # {}
  <2>1. \A i \in I : 1..i \in SUBSET (1..n)
    OBVIOUS
  <2>2. PICK i \in I : TRUE
    OBVIOUS
  <2>3. 1..i \in Q
    BY <2>2
  <2> QED BY <2>1, <2>3
<1>3. PICK T \in Q : \A U \in SUBSET T : U \in Q => U = T
  <2> DEFINE S == 1..n
  <2>1. IsFiniteSet(S) /\ Q \in SUBSET SUBSET S /\ Q # {}
    BY <1>1, <1>2
  <2> HIDE DEF Q, S
  <2> QED BY <2>1, SmallestSubset
<1>4. PICK i \in I : T = 1..i
  OBVIOUS
<1>5. ASSUME NEW j \in I, j < i PROVE FALSE
  <2>1. 1..j \in SUBSET T /\ 1..j \in Q
    BY <1>4, <1>5
  <2>2. 1..j = 1..i
    BY <1>3, <1>4, <2>1
  <2> QED BY <1>5, <2>2
<1> QED BY <1>5

(* So has a nonempty set of natural numbers.                               *)
LEMMA LeastNatural ==
    ASSUME NEW T \in SUBSET Nat, T # {}
    PROVE  \E i \in T : \A j \in T : i <= j
<1>1. PICK n \in T : TRUE
  OBVIOUS
<1> DEFINE I == {k \in 1..(n + 1) : k - 1 \in T}
<1>2. n + 1 \in Nat /\ n + 1 \in I /\ I \in SUBSET (1..(n + 1))
  BY <1>1
<1>3. PICK k \in I : \A j \in I : k <= j
  <2> HIDE DEF I
  <2> QED BY <1>2, LeastIndex
<1>4. k - 1 \in T /\ k \in Nat /\ k <= n + 1
  BY <1>2, <1>3
<1>5. ASSUME NEW j \in T PROVE k - 1 <= j
  <2>1. CASE j <= n
    <3>1. j \in Nat /\ j + 1 \in 1..(n + 1)
      BY <1>1, <2>1
    <3>2. j + 1 \in I
      BY <3>1
    <3> QED BY <1>3, <1>4, <3>1, <3>2
  <2>2. CASE j > n
    BY <1>1, <1>4, <2>2
  <2> QED BY <1>1, <2>1, <2>2
<1> QED BY <1>4, <1>5

(* The recursion leaves no choice: two functions that obey it agree on     *)
(* every finite set they share ...                                         *)
LEMMA SumsAgree ==
    ASSUME NEW f, NEW S, NEW T, NEW g, NEW h, Sums(g, f, S), Sums(h, f, T),
           NEW W \in SUBSET S, W \in SUBSET T, IsFiniteSet(W)
    PROVE  g[W] = h[W]
<1> DEFINE Bad == {V \in SUBSET W : g[V] # h[V]}
<1> SUFFICES ASSUME Bad # {} PROVE FALSE
  OBVIOUS
<1>1. PICK V \in Bad : \A U \in SUBSET V : U \in Bad => U = V
  <2>1. Bad \in SUBSET SUBSET W
    OBVIOUS
  <2> HIDE DEF Bad
  <2> QED BY <2>1, SmallestSubset
<1>2. /\ g[V] = IF V = {} THEN 0 ELSE f[Pick(V)] + g[V \ {Pick(V)}]
      /\ h[V] = IF V = {} THEN 0 ELSE f[Pick(V)] + h[V \ {Pick(V)}]
  BY DEF Sums
<1>3. V # {}
  BY <1>2
<1>4. V \ {Pick(V)} \in SUBSET W /\ V \ {Pick(V)} # V /\ V \ {Pick(V)} \in SUBSET V
  BY <1>3, PickIsMember
<1>5. g[V \ {Pick(V)}] = h[V \ {Pick(V)}]
  BY <1>1, <1>4
<1> QED BY <1>2, <1>5

(* ... and on a finite set there is one.                                   *)
LEMMA SumsExist ==
    ASSUME NEW f, NEW S, IsFiniteSet(S)
    PROVE  \E g : Sums(g, f, S)
<1> DEFINE Bad == {T \in SUBSET S : ~ \E g : Sums(g, f, T)}
<1> SUFFICES ASSUME Bad # {} PROVE FALSE
  OBVIOUS
<1>1. PICK T \in Bad : \A U \in SUBSET T : U \in Bad => U = T
  <2>1. Bad \in SUBSET SUBSET S
    OBVIOUS
  <2> HIDE DEF Bad
  <2> QED BY <2>1, SmallestSubset
<1>2. IsFiniteSet(T) /\ \A U \in SUBSET T : IsFiniteSet(U)
  BY FS_Subset
<1> DEFINE Sub(U) == CHOOSE g : Sums(g, f, U)
           h == [V \in SUBSET T |-> IF V = {} THEN 0
                                    ELSE f[Pick(V)] + Sub(V \ {Pick(V)})[V \ {Pick(V)}]]
<1> HIDE DEF Sub
<1>3. ASSUME NEW U \in SUBSET T, U # T PROVE Sums(Sub(U), f, U)
  BY <1>1, <1>3 DEF Sub
<1>4. ASSUME NEW U \in SUBSET T, U # T
      PROVE  h[U] = Sub(U)[U]
  <2>1. Sub(U)[U] = IF U = {} THEN 0 ELSE f[Pick(U)] + Sub(U)[U \ {Pick(U)}]
    BY <1>3, <1>4 DEF Sums
  <2>2. CASE U = {}
    BY <2>1, <2>2
  <2>3. CASE U # {}
    <3> DEFINE W == U \ {Pick(U)}
    <3>1. W \in SUBSET T /\ W # T /\ W \in SUBSET U /\ W \in SUBSET W
      BY <1>4, <2>3, PickIsMember
    <3>2. Sub(U)[W] = Sub(W)[W]
      BY <3>1, <1>2, <1>3, <1>4, SumsAgree
    <3> QED BY <2>1, <2>3, <3>2
  <2> QED BY <2>2, <2>3
<1>5. Sums(h, f, T)
  <2>1. ASSUME NEW V \in SUBSET T, V # {}
        PROVE  h[V \ {Pick(V)}] = Sub(V \ {Pick(V)})[V \ {Pick(V)}]
    <3>1. V \ {Pick(V)} \in SUBSET T /\ V \ {Pick(V)} # T
      BY <2>1, PickIsMember
    <3> HIDE DEF h
    <3> QED BY <3>1, <1>4
  <2>2. ASSUME NEW V \in SUBSET T
        PROVE  h[V] = IF V = {} THEN 0 ELSE f[Pick(V)] + h[V \ {Pick(V)}]
    BY <2>1, <2>2
  <2>3. h = [V \in SUBSET T |-> h[V]]
    OBVIOUS
  <2> HIDE DEF h
  <2> QED BY <2>2, <2>3 DEF Sums
<1> QED BY <1>1, <1>5

(* So a sum is one element and the sum of the rest.                        *)
LEMMA SumUnfolds ==
    ASSUME NEW f, NEW S, IsFiniteSet(S)
    PROVE  SumFunctionOnSet(f, S) =
             IF S = {} THEN 0 ELSE f[Pick(S)] + SumFunctionOnSet(f, S \ {Pick(S)})
<1> DEFINE Sub(U) == CHOOSE g : Sums(g, f, U)
<1> HIDE DEF Sub
<1>1. \A U \in SUBSET S : IsFiniteSet(U)
  BY FS_Subset
<1>2. \A U \in SUBSET S : Sums(Sub(U), f, U)
  BY <1>1, SumsExist DEF Sub
<1>3. \A U : SumFunctionOnSet(f, U) = Sub(U)[U]
  BY SumIsFold DEF Sub
<1>4. Sub(S)[S] = IF S = {} THEN 0 ELSE f[Pick(S)] + Sub(S)[S \ {Pick(S)}]
  BY <1>2 DEF Sums
<1>5. Sub(S)[S \ {Pick(S)}] = Sub(S \ {Pick(S)})[S \ {Pick(S)}]
  BY <1>1, <1>2, SumsAgree
<1> QED BY <1>3, <1>4, <1>5

(* Nothing adds up to 0.                                                   *)
LEMMA SumOfNone ==
    ASSUME NEW f
    PROVE  SumFunctionOnSet(f, {}) = 0
BY SumUnfolds, FS_EmptySet

(* It does not matter which element is taken out: addition commutes.       *)
LEMMA SumTakesOut ==
    ASSUME NEW f, NEW S, IsFiniteSet(S), \A x \in S : f[x] \in Int
    PROVE  /\ SumFunctionOnSet(f, S) \in Int
           /\ \A x \in S : SumFunctionOnSet(f, S) = f[x] + SumFunctionOnSet(f, S \ {x})
<1> DEFINE Good(T) == /\ SumFunctionOnSet(f, T) \in Int
                      /\ \A x \in T : SumFunctionOnSet(f, T)
                                        = f[x] + SumFunctionOnSet(f, T \ {x})
           Bad == {T \in SUBSET S : ~Good(T)}
<1> SUFFICES ASSUME Bad # {} PROVE FALSE
  OBVIOUS
<1>1. PICK T \in Bad : \A U \in SUBSET T : U \in Bad => U = T
  <2>1. Bad \in SUBSET SUBSET S
    OBVIOUS
  <2> HIDE DEF Bad
  <2> QED BY <2>1, SmallestSubset
<1>2. IsFiniteSet(T) /\ \A U \in SUBSET T : IsFiniteSet(U)
  BY FS_Subset
<1>3. ASSUME NEW U \in SUBSET T, U # T PROVE Good(U)
  BY <1>1, <1>3
<1> DEFINE p == Pick(T)
<1>4. ASSUME T = {} PROVE FALSE
  <2>1. SumFunctionOnSet(f, T) = 0
    BY <1>4, SumOfNone
  <2> QED BY <1>4, <2>1, <1>1
<1>5. p \in T /\ f[p] \in Int
  BY <1>4, PickIsMember
<1>6. SumFunctionOnSet(f, T) = f[p] + SumFunctionOnSet(f, T \ {p})
  BY <1>2, <1>4, SumUnfolds
<1>7. Good(T \ {p})
  BY <1>3, <1>5
<1> HIDE DEF p
<1>8. ASSUME NEW x \in T, x # p
      PROVE  SumFunctionOnSet(f, T) = f[x] + SumFunctionOnSet(f, T \ {x})
  <2>1. Good(T \ {x})
    BY <1>3
  <2>2. (T \ {x}) \ {p} = (T \ {p}) \ {x} /\ (T \ {x}) \ {p} \in SUBSET T /\ (T \ {x}) \ {p} # T
    OBVIOUS
  <2>3. SumFunctionOnSet(f, T \ {p}) = f[x] + SumFunctionOnSet(f, (T \ {p}) \ {x})
    BY <1>7, <1>8
  <2>4. SumFunctionOnSet(f, T \ {x}) = f[p] + SumFunctionOnSet(f, (T \ {p}) \ {x})
    BY <2>1, <2>2, <1>5, <1>8
  <2>5. SumFunctionOnSet(f, (T \ {p}) \ {x}) \in Int
    BY <2>2, <1>3
  <2>6. f[x] \in Int
    OBVIOUS
  <2> QED BY <1>5, <1>6, <2>3, <2>4, <2>5, <2>6
<1>9. SumFunctionOnSet(f, T) \in Int
  BY <1>5, <1>6, <1>7
<1> QED BY <1>1, <1>6, <1>8, <1>9

(* A sum depends on the values at its own indices only.                    *)
LEMMA SumIsLocal ==
    ASSUME NEW f, NEW g, NEW S, IsFiniteSet(S), \A x \in S : f[x] = g[x]
    PROVE  SumFunctionOnSet(f, S) = SumFunctionOnSet(g, S)
<1> DEFINE Bad == {T \in SUBSET S : SumFunctionOnSet(f, T) # SumFunctionOnSet(g, T)}
<1> SUFFICES ASSUME Bad # {} PROVE FALSE
  OBVIOUS
<1>1. PICK T \in Bad : \A U \in SUBSET T : U \in Bad => U = T
  <2>1. Bad \in SUBSET SUBSET S
    OBVIOUS
  <2> HIDE DEF Bad
  <2> QED BY <2>1, SmallestSubset
<1>2. IsFiniteSet(T)
  BY FS_Subset
<1>3. T # {}
  BY <1>1, SumOfNone
<1>4. Pick(T) \in T /\ T \ {Pick(T)} \in SUBSET T /\ T \ {Pick(T)} # T
  BY <1>3, PickIsMember
<1>5. SumFunctionOnSet(f, T \ {Pick(T)}) = SumFunctionOnSet(g, T \ {Pick(T)})
  BY <1>1, <1>4
<1> QED BY <1>1, <1>2, <1>3, <1>4, <1>5, SumUnfolds

(* A sum of naturals is one, and no part of it is larger.                  *)
LEMMA SumOfNaturals ==
    ASSUME NEW f, NEW S, IsFiniteSet(S), \A x \in S : f[x] \in Nat
    PROVE  /\ SumFunctionOnSet(f, S) \in Nat
           /\ \A x \in S : f[x] <= SumFunctionOnSet(f, S)
<1> DEFINE Bad == {T \in SUBSET S : SumFunctionOnSet(f, T) \notin Nat}
<1>1. Bad = {}
  <2> SUFFICES ASSUME Bad # {} PROVE FALSE
    OBVIOUS
  <2>1. PICK T \in Bad : \A U \in SUBSET T : U \in Bad => U = T
    <3>1. Bad \in SUBSET SUBSET S
      OBVIOUS
    <3> HIDE DEF Bad
    <3> QED BY <3>1, SmallestSubset
  <2>2. IsFiniteSet(T)
    BY <2>1, FS_Subset
  <2>5. ASSUME T = {} PROVE FALSE
    <3>1. SumFunctionOnSet(f, T) = 0
      BY <2>5, SumOfNone
    <3> QED BY <2>1, <3>1
  <2>3. Pick(T) \in T /\ T \ {Pick(T)} \in SUBSET T /\ T \ {Pick(T)} # T
    BY <2>5, PickIsMember
  <2>4. SumFunctionOnSet(f, T \ {Pick(T)}) \in Nat
    BY <2>1, <2>3
  <2> QED BY <2>1, <2>2, <2>3, <2>4, <2>5, SumUnfolds
<1>2. ASSUME NEW x \in S PROVE f[x] <= SumFunctionOnSet(f, S)
  <2>1. SumFunctionOnSet(f, S \ {x}) \in Nat
    BY <1>1
  <2>2. SumFunctionOnSet(f, S) = f[x] + SumFunctionOnSet(f, S \ {x})
    BY SumTakesOut
  <2> QED BY <2>1, <2>2
<1> QED BY <1>1, <1>2

(* Changing one value changes the sum by the difference: a ledger entry.   *)
LEMMA SumOfUpdate ==
    ASSUME NEW f, NEW g, NEW S, IsFiniteSet(S), NEW x \in S,
           \A y \in S : f[y] \in Int /\ g[y] \in Int,
           \A y \in S \ {x} : g[y] = f[y]
    PROVE  SumFunctionOnSet(g, S) = SumFunctionOnSet(f, S) + g[x] - f[x]
<1>1. IsFiniteSet(S \ {x})
  BY FS_RemoveElement
<1>2. SumFunctionOnSet(g, S \ {x}) = SumFunctionOnSet(f, S \ {x})
  BY <1>1, SumIsLocal
<1>3. SumFunctionOnSet(f, S \ {x}) \in Int
  BY <1>1, SumTakesOut
<1>4. /\ SumFunctionOnSet(f, S) = f[x] + SumFunctionOnSet(f, S \ {x})
      /\ SumFunctionOnSet(g, S) = g[x] + SumFunctionOnSet(g, S \ {x})
  BY SumTakesOut
<1> QED BY <1>2, <1>3, <1>4

(* A new index adds its value.                                             *)
LEMMA SumOfAdded ==
    ASSUME NEW f, NEW S, IsFiniteSet(S), NEW x, x \notin S,
           \A y \in S \cup {x} : f[y] \in Int
    PROVE  SumFunctionOnSet(f, S \cup {x}) = SumFunctionOnSet(f, S) + f[x]
<1>1. IsFiniteSet(S \cup {x}) /\ (S \cup {x}) \ {x} = S
  BY FS_AddElement
<1>2. SumFunctionOnSet(f, S \cup {x}) = f[x] + SumFunctionOnSet(f, S)
  BY <1>1, SumTakesOut
<1>3. SumFunctionOnSet(f, S) \in Int /\ f[x] \in Int
  BY SumTakesOut
<1> QED BY <1>2, <1>3

(* Where g is bounded by f element by element, at some exchange rate, the  *)
(* sums are too: claims rounded down one by one, and the pool they share.  *)
LEMMA SumScaled ==
    ASSUME NEW f, NEW g, NEW S, IsFiniteSet(S), NEW a \in Int, NEW b \in Int,
           \A x \in S : f[x] \in Int /\ g[x] \in Int /\ a * g[x] <= b * f[x]
    PROVE  a * SumFunctionOnSet(g, S) <= b * SumFunctionOnSet(f, S)
<1> DEFINE F(T) == SumFunctionOnSet(f, T)
           G(T) == SumFunctionOnSet(g, T)
           Bad == {T \in SUBSET S : ~(a * G(T) <= b * F(T))}
<1> SUFFICES ASSUME Bad # {} PROVE FALSE
  OBVIOUS
<1>1. PICK T \in Bad : \A U \in SUBSET T : U \in Bad => U = T
  <2>1. Bad \in SUBSET SUBSET S
    OBVIOUS
  <2> HIDE DEF Bad
  <2> QED BY <2>1, SmallestSubset
<1>2. IsFiniteSet(T)
  BY <1>1, FS_Subset
<1>3. ASSUME T = {} PROVE FALSE
  <2>1. F(T) = 0 /\ G(T) = 0
    BY <1>3, SumOfNone
  <2> QED BY <1>1, <2>1
<1> DEFINE x == Pick(T)
<1>4. x \in T /\ T \ {x} \in SUBSET T /\ T \ {x} # T
  BY <1>3, PickIsMember
<1>5. a * G(T \ {x}) <= b * F(T \ {x})
  BY <1>1, <1>4
<1>6. F(T) = f[x] + F(T \ {x}) /\ G(T) = g[x] + G(T \ {x})
  BY <1>2, <1>3, SumUnfolds
<1>7. /\ f[x] \in Int /\ g[x] \in Int /\ a * g[x] <= b * f[x]
      /\ F(T \ {x}) \in Int /\ G(T \ {x}) \in Int
  <2>1. IsFiniteSet(T \ {x}) /\ T \ {x} \subseteq S
    BY <1>2, <1>4, FS_RemoveElement
  <2> QED BY <1>4, <2>1, SumTakesOut
<1>8. ~(a * G(T) <= b * F(T))
  BY <1>1
<1> DEFINE fx == f[x]  gx == g[x]  fr == F(T \ {x})  gr == G(T \ {x})
<1>9. a * (gx + gr) <= b * (fx + fr)
  <2>1. /\ fx \in Int /\ gx \in Int /\ fr \in Int /\ gr \in Int
        /\ a * gx <= b * fx /\ a * gr <= b * fr
    BY <1>5, <1>7
  <2> HIDE DEF fx, gx, fr, gr
  <2>2. a * (gx + gr) = a * gx + a * gr /\ b * (fx + fr) = b * fx + b * fr
    BY <2>1
  <2> QED BY <2>1, <2>2
<1> QED BY <1>6, <1>8, <1>9

(* Elements that count for nothing may be left out of a sum.               *)
LEMMA SumOfSupport ==
    ASSUME NEW f, NEW S, IsFiniteSet(S), NEW W \in SUBSET S,
           \A x \in S : f[x] \in Int, \A x \in S \ W : f[x] = 0
    PROVE  SumFunctionOnSet(f, S) = SumFunctionOnSet(f, W)
<1> DEFINE Bad == {T \in SUBSET S : /\ W \subseteq T
                                   /\ SumFunctionOnSet(f, T) # SumFunctionOnSet(f, W)}
<1> SUFFICES ASSUME Bad # {} PROVE FALSE
  OBVIOUS
<1>1. PICK T \in Bad : \A U \in SUBSET T : U \in Bad => U = T
  <2>1. Bad \in SUBSET SUBSET S
    OBVIOUS
  <2> HIDE DEF Bad
  <2> QED BY <2>1, SmallestSubset
<1>2. IsFiniteSet(T)
  BY <1>1, FS_Subset
<1>3. PICK x \in T : x \notin W
  <2>1. W \subseteq T /\ T # W
    BY <1>1
  <2> QED BY <2>1
<1>4. SumFunctionOnSet(f, T \ {x}) = SumFunctionOnSet(f, W)
  BY <1>1, <1>3
<1>5. SumFunctionOnSet(f, T) = f[x] + SumFunctionOnSet(f, T \ {x})
  BY <1>1, <1>2, SumTakesOut
<1>6. f[x] = 0 /\ SumFunctionOnSet(f, T \ {x}) \in Int
  <2>1. IsFiniteSet(T \ {x}) /\ T \ {x} \subseteq S
    BY <1>1, <1>2, FS_RemoveElement
  <2> QED BY <1>1, <1>3, <2>1, SumTakesOut
<1> QED BY <1>1, <1>4, <1>5, <1>6
=============================================================================
