---------------------------- MODULE FinanceProofs ----------------------------
(***************************************************************************)
(* The books in money: the commission ledger, the tax records made from its*)
(* payments and the double-entry journal, for every set of keys, accounts, *)
(* recipients, requests and amounts.  Facts about finite sums come first;  *)
(* each ledger then has a section of its own.                              *)
(***************************************************************************)
EXTENDS CommissionLedger, CommissionTax, JournalLedger, FiniteSetTheorems, TLAPS

-----------------------------------------------------------------------------
(* Finite sums.                                                            *)

Pick(s) == CHOOSE x \in s : TRUE

\* g is the fold of the sum of f over the subsets of S.
Unfolds(g, f, S) == g = [s \in SUBSET S |-> IF s = {} THEN 0 ELSE f[Pick(s)] + g[s \ {Pick(s)}]]

LEMMA PickFacts == ASSUME NEW s, s # {} PROVE Pick(s) \in s
BY DEF Pick

LEMMA SmallestSubset ==
  ASSUME NEW S, IsFiniteSet(S), NEW B, B \subseteq SUBSET S, B # {}
  PROVE  \E s \in B : \A t \in B : t \subseteq s => t = s
<1>1. IsWellFoundedOn(StrictSubsetOrdering(S), SUBSET S)
  BY FS_StrictSubsetOrderingWellFounded, FS_FiniteSubsetsOfFinite
<1>2. PICK s \in B : \A t \in B : ~(<<t, s>> \in StrictSubsetOrdering(S))
  BY <1>1, WFMin
<1>3. ASSUME NEW t \in B, t \subseteq s, t # s PROVE FALSE
  BY <1>2, <1>3 DEF StrictSubsetOrdering
<1> QED
  BY <1>3

LEMMA FoldAt ==
  ASSUME NEW g, NEW f, NEW S, Unfolds(g, f, S), NEW s \in SUBSET S
  PROVE  g[s] = IF s = {} THEN 0 ELSE f[Pick(s)] + g[s \ {Pick(s)}]
BY DEF Unfolds

LEMMA FoldAgree ==
  ASSUME NEW f, NEW g, NEW h, NEW S, NEW T, IsFiniteSet(S), Unfolds(g, f, S), Unfolds(h, f, T),
         NEW r \in SUBSET (S \intersect T)
  PROVE  g[r] = h[r]
<1> DEFINE B == {s \in SUBSET (S \intersect T) : g[s] # h[s]}
<1>1. SUFFICES ASSUME B # {} PROVE FALSE
  OBVIOUS
<1>2. PICK s \in B : \A t \in B : t \subseteq s => t = s
  <2>1. B \subseteq SUBSET S
    OBVIOUS
  <2> HIDE DEF B
  <2> QED
    BY <1>1, <2>1, SmallestSubset
<1>3. s # {}
  BY <1>2, FoldAt
<1>4. Pick(s) \in s
  BY <1>3, PickFacts
<1>5. g[s \ {Pick(s)}] = h[s \ {Pick(s)}]
  BY <1>2, <1>4
<1> QED
  BY <1>2, <1>3, <1>5, FoldAt

LEMMA FoldExists ==
  ASSUME NEW f, NEW S, IsFiniteSet(S)
  PROVE  \E g : Unfolds(g, f, S)
<1> DEFINE G(s) == CHOOSE g : Unfolds(g, f, s)
           B == {s \in SUBSET S : ~Unfolds(G(s), f, s)}
           F(T) == [s \in SUBSET T |-> IF s = {} THEN 0 ELSE f[Pick(s)] + G(s \ {Pick(s)})[s \ {Pick(s)}]]
<1>1. SUFFICES B = {}
  OBVIOUS
<1>2. SUFFICES ASSUME B # {} PROVE FALSE
  OBVIOUS
<1>3. PICK T \in B : \A t \in B : t \subseteq T => t = T
  <2>1. B \subseteq SUBSET S
    OBVIOUS
  <2> HIDE DEF B
  <2> QED
    BY <1>2, <2>1, SmallestSubset
<1>4. \A s \in SUBSET T : s # T => Unfolds(G(s), f, s)
  BY <1>3
<1>5. \A s \in SUBSET T : IsFiniteSet(s)
  BY <1>3, FS_Subset
<1>6. ASSUME NEW s \in SUBSET T, s # {} PROVE F(T)[s \ {Pick(s)}] = G(s \ {Pick(s)})[s \ {Pick(s)}]
  <2> DEFINE u == s \ {Pick(s)}
  <2>1. u \in SUBSET T /\ u # T /\ Unfolds(G(u), f, u)
    BY <1>4, <1>6, PickFacts
  <2>2. CASE u = {}
    BY <2>1, <2>2, FoldAt
  <2>3. CASE u # {}
    <3> DEFINE v == u \ {Pick(u)}
    <3>1. v \in SUBSET u /\ v # T /\ Unfolds(G(v), f, v)
      BY <1>4, <2>1, <2>3, PickFacts
    <3>2. G(u)[v] = G(v)[v]
      BY <1>5, <2>1, <3>1, FoldAgree
    <3>3. G(u)[u] = f[Pick(u)] + G(u)[v]
      BY <2>1, <2>3, FoldAt
    <3> QED
      BY <2>1, <2>3, <3>2, <3>3
  <2> QED
    BY <2>2, <2>3
<1>7. Unfolds(F(T), f, T)
  <2> DEFINE H == F(T)
  <2>1. ASSUME NEW s \in SUBSET T PROVE H[s] = IF s = {} THEN 0 ELSE f[Pick(s)] + H[s \ {Pick(s)}]
    <3>1. H[s] = IF s = {} THEN 0 ELSE f[Pick(s)] + G(s \ {Pick(s)})[s \ {Pick(s)}]
      OBVIOUS
    <3>2. CASE s = {}
      BY <3>1, <3>2
    <3>3. CASE s # {}
      <4>1. H[s \ {Pick(s)}] = G(s \ {Pick(s)})[s \ {Pick(s)}]
        BY <1>6, <3>3
      <4> HIDE DEF H, G
      <4> QED
        BY <3>1, <3>3, <4>1
    <3> QED
      BY <3>2, <3>3
  <2>2. H = [s \in SUBSET T |-> H[s]]
    OBVIOUS
  <2> HIDE DEF H
  <2>3. Unfolds(H, f, T)
    BY <2>1, <2>2 DEF Unfolds
  <2> QED
    BY <2>3 DEF H
<1>8. Unfolds(G(T), f, T)
  BY <1>7
<1> QED
  BY <1>3, <1>8

\* The values of f on S are integers.
Ints(f, S) == \A x \in S : f[x] \in Int

LEMMA FoldInt ==
  ASSUME NEW f, NEW g, NEW S, IsFiniteSet(S), Unfolds(g, f, S), Ints(f, S), NEW r \in SUBSET S
  PROVE  g[r] \in Int
<1> DEFINE B == {s \in SUBSET S : g[s] \notin Int}
<1>1. SUFFICES ASSUME B # {} PROVE FALSE
  OBVIOUS
<1>2. PICK s \in B : \A t \in B : t \subseteq s => t = s
  <2>1. B \subseteq SUBSET S
    OBVIOUS
  <2> HIDE DEF B
  <2> QED
    BY <1>1, <2>1, SmallestSubset
<1>3. s # {}
  <2>1. g[{}] = 0
    BY FoldAt
  <2> QED
    BY <2>1
<1>4. Pick(s) \in s
  BY <1>3, PickFacts
<1>5. g[s \ {Pick(s)}] \in Int
  BY <1>2, <1>4
<1> QED
  BY <1>2, <1>3, <1>4, <1>5, FoldAt DEF Ints

\* The order of the summands does not matter.
LEMMA FoldAdd ==
  ASSUME NEW f, NEW g, NEW S, IsFiniteSet(S), Unfolds(g, f, S), Ints(f, S), NEW r \in SUBSET S, NEW x \in S \ r
  PROVE  g[r \union {x}] = g[r] + f[x]
<1> DEFINE B == {s \in SUBSET S : \E y \in S \ s : g[s \union {y}] # g[s] + f[y]}
<1>1. SUFFICES ASSUME B # {} PROVE FALSE
  OBVIOUS
<1>2. PICK s \in B : \A t \in B : t \subseteq s => t = s
  <2>1. B \subseteq SUBSET S
    OBVIOUS
  <2> HIDE DEF B
  <2> QED
    BY <1>1, <2>1, SmallestSubset
<1>3. PICK y \in S \ s : g[s \union {y}] # g[s] + f[y]
  BY <1>2
<1> DEFINE z == Pick(s \union {y})
<1>4. z \in s \union {y} /\ s \union {y} \in SUBSET S
  BY <1>2, <1>3, PickFacts
<1>5. g[s \union {y}] = f[z] + g[(s \union {y}) \ {z}]
  BY <1>4, FoldAt
<1>6. z # y
  <2>1. SUFFICES ASSUME z = y PROVE FALSE
    OBVIOUS
  <2>2. (s \union {y}) \ {z} = s
    BY <1>3, <2>1
  <2>3. g[s] \in Int /\ f[y] \in Int
    BY <1>2, <1>3, FoldInt DEF Ints
  <2>4. g[s \union {y}] = f[y] + g[s]
    BY <1>5, <2>1, <2>2
  <2> QED
    BY <1>3, <2>3, <2>4
<1> DEFINE u == s \ {z}
<1>7. u \in SUBSET S /\ z \in s /\ z \in S \ u /\ y \in S \ u /\ u # s
  BY <1>2, <1>3, <1>4, <1>6
<1>8. (s \union {y}) \ {z} = u \union {y} /\ u \union {z} = s
  BY <1>6, <1>7
<1>9. u \notin B
  BY <1>2, <1>7
<1>10. g[u \union {y}] = g[u] + f[y] /\ g[u \union {z}] = g[u] + f[z]
  BY <1>7, <1>9
<1>11. g[u] \in Int /\ f[y] \in Int /\ f[z] \in Int
  BY <1>3, <1>7, FoldInt DEF Ints
<1>12. g[s \union {y}] = f[z] + (g[u] + f[y]) /\ g[s] = g[u] + f[z]
  BY <1>5, <1>8, <1>10
<1>13. f[z] + (g[u] + f[y]) = (g[u] + f[z]) + f[y]
  BY <1>11
<1> HIDE DEF u, z
<1> QED
  BY <1>3, <1>12, <1>13

LEMMA SumIsFold ==
  ASSUME NEW f, NEW S, IsFiniteSet(S)
  PROVE  \E g : Unfolds(g, f, S) /\ SumFunctionOnSet(f, S) = g[S]
<1> DEFINE Is(g) == g = [s \in SUBSET S |-> IF s = {} THEN 0 ELSE f[CHOOSE x \in s : TRUE] + g[s \ {CHOOSE x \in s : TRUE}]]
           c == CHOOSE g : Is(g)
<1>1. \E g : Is(g)
  <2>1. PICK h : Unfolds(h, f, S)
    BY FoldExists
  <2>2. Is(h)
    BY <2>1 DEF Unfolds, Pick
  <2> HIDE DEF Is
  <2> QED
    BY <2>2
<1>2. SumFunctionOnSet(f, S) = c[S]
  BY DEF SumFunctionOnSet, FoldFunctionOnSet, MapThenFoldSet
<1>3. Is(c)
  <2> HIDE DEF Is
  <2> QED
    BY <1>1
<1> QED
  BY <1>2, <1>3 DEF Unfolds, Pick

(* What a sum is: it is an integer, adding a summand adds its value, equal   *)
(* summands give equal sums.                                               *)

LEMMA SumEmpty == \A f : SumFunctionOnSet(f, {}) = 0
<1> TAKE f
<1>1. PICK g : Unfolds(g, f, {}) /\ SumFunctionOnSet(f, {}) = g[{}]
  BY SumIsFold, FS_EmptySet
<1> QED
  BY <1>1, FoldAt

LEMMA SumInt ==
  ASSUME NEW f, NEW S, IsFiniteSet(S), Ints(f, S)
  PROVE  SumFunctionOnSet(f, S) \in Int
BY SumIsFold, FoldInt

LEMMA SumAdd ==
  ASSUME NEW f, NEW S, IsFiniteSet(S), NEW x, x \notin S, Ints(f, S \union {x})
  PROVE  SumFunctionOnSet(f, S \union {x}) = SumFunctionOnSet(f, S) + f[x]
<1> DEFINE T == S \union {x}
<1>1. IsFiniteSet(T) /\ S \in SUBSET T /\ x \in T \ S /\ S \in SUBSET (T \intersect S)
  BY FS_AddElement
<1>2. PICK g : Unfolds(g, f, S) /\ SumFunctionOnSet(f, S) = g[S]
  BY SumIsFold
<1>3. PICK h : Unfolds(h, f, T) /\ SumFunctionOnSet(f, T) = h[T]
  BY <1>1, SumIsFold
<1>4. h[S] = g[S]
  BY <1>1, <1>2, <1>3, FoldAgree
<1>5. h[S \union {x}] = h[S] + f[x]
  BY <1>1, <1>3, FoldAdd
<1> QED
  BY <1>2, <1>3, <1>4, <1>5

LEMMA SumSame ==
  ASSUME NEW f, NEW g, NEW S, IsFiniteSet(S), \A x \in S : f[x] = g[x]
  PROVE  SumFunctionOnSet(f, S) = SumFunctionOnSet(g, S)
<1>1. PICK h : Unfolds(h, f, S) /\ SumFunctionOnSet(f, S) = h[S]
  BY SumIsFold
<1>2. PICK i : Unfolds(i, g, S) /\ SumFunctionOnSet(g, S) = i[S]
  BY SumIsFold
<1>3. h = [s \in SUBSET S |-> IF s = {} THEN 0 ELSE g[Pick(s)] + h[s \ {Pick(s)}]]
  <2>1. \A s \in SUBSET S : s # {} => f[Pick(s)] = g[Pick(s)]
    BY PickFacts
  <2> QED
    BY <1>1, <2>1 DEF Unfolds
<1>4. Unfolds(h, g, S)
  BY <1>3 DEF Unfolds
<1>5. S \in SUBSET (S \intersect S)
  OBVIOUS
<1>6. h[S] = i[S]
  BY <1>2, <1>4, <1>5, FoldAgree
<1> QED
  BY <1>1, <1>2, <1>6

\* Summands that are zero may be left out.
LEMMA SumOutside ==
  ASSUME NEW f, NEW S, IsFiniteSet(S), Ints(f, S), NEW T \in SUBSET S, \A x \in S \ T : f[x] = 0
  PROVE  SumFunctionOnSet(f, S) = SumFunctionOnSet(f, T)
<1> DEFINE B == {s \in SUBSET S : SumFunctionOnSet(f, s) # SumFunctionOnSet(f, s \intersect T)}
<1>1. SUFFICES ASSUME B # {} PROVE FALSE
  <2>1. S \intersect T = T
    OBVIOUS
  <2> QED
    BY <2>1
<1>2. PICK s \in B : \A t \in B : t \subseteq s => t = s
  <2>1. B \subseteq SUBSET S
    OBVIOUS
  <2> HIDE DEF B
  <2> QED
    BY <1>1, <2>1, SmallestSubset
<1>3. s # {}
  <2>1. {} \intersect T = {}
    OBVIOUS
  <2> QED
    BY <2>1
<1>4. PICK x \in s : TRUE
  BY <1>3
<1> DEFINE u == s \ {x}
<1>5. /\ s = u \union {x} /\ x \notin u /\ IsFiniteSet(u) /\ Ints(f, u \union {x}) /\ Ints(f, u)
      /\ IsFiniteSet(u \intersect T)
  BY FS_Subset DEF Ints
<1>6. SumFunctionOnSet(f, u) = SumFunctionOnSet(f, u \intersect T)
  BY <1>2
<1>7. SumFunctionOnSet(f, s) = SumFunctionOnSet(f, u) + f[x] /\ SumFunctionOnSet(f, u) \in Int
  BY <1>5, SumAdd, SumInt
<1>8. CASE x \in T
  <2>1. s \intersect T = (u \intersect T) \union {x} /\ Ints(f, (u \intersect T) \union {x})
    BY <1>5, <1>8 DEF Ints
  <2> DEFINE v == u \intersect T
  <2>2. IsFiniteSet(v) /\ x \notin v /\ s \intersect T = v \union {x} /\ Ints(f, v \union {x})
    BY <1>5, <2>1
  <2> HIDE DEF v
  <2>3. SumFunctionOnSet(f, v \union {x}) = SumFunctionOnSet(f, v) + f[x]
    BY <2>2, SumAdd
  <2>4. SumFunctionOnSet(f, s \intersect T) = SumFunctionOnSet(f, u \intersect T) + f[x]
    BY <2>2, <2>3 DEF v
  <2> QED
    BY <1>2, <1>6, <1>7, <2>4
<1>9. CASE x \notin T
  <2>1. s \intersect T = u \intersect T /\ f[x] = 0
    BY <1>9
  <2> QED
    BY <1>2, <1>6, <1>7, <2>1
<1> QED
  BY <1>8, <1>9

LEMMA SumPlus ==
  ASSUME NEW f, NEW g, NEW h, NEW S, IsFiniteSet(S), Ints(f, S), Ints(g, S), \A x \in S : h[x] = f[x] + g[x]
  PROVE  SumFunctionOnSet(h, S) = SumFunctionOnSet(f, S) + SumFunctionOnSet(g, S)
<1> DEFINE B == {s \in SUBSET S : SumFunctionOnSet(h, s) # SumFunctionOnSet(f, s) + SumFunctionOnSet(g, s)}
<1>1. SUFFICES ASSUME B # {} PROVE FALSE
  OBVIOUS
<1>2. PICK s \in B : \A t \in B : t \subseteq s => t = s
  <2>1. B \subseteq SUBSET S
    OBVIOUS
  <2> HIDE DEF B
  <2> QED
    BY <1>1, <2>1, SmallestSubset
<1>3. s # {}
  BY SumEmpty
<1>4. PICK x \in s : TRUE
  BY <1>3
<1> DEFINE u == s \ {x}
<1>5. s = u \union {x} /\ x \notin u /\ IsFiniteSet(u)
  BY FS_Subset
<1>6. /\ Ints(f, u \union {x}) /\ Ints(g, u \union {x}) /\ Ints(h, u \union {x})
      /\ Ints(f, u) /\ Ints(g, u) /\ Ints(h, u)
  BY DEF Ints
<1>7. SumFunctionOnSet(h, u) = SumFunctionOnSet(f, u) + SumFunctionOnSet(g, u)
  BY <1>2
<1>8. f[x] \in Int /\ g[x] \in Int /\ h[x] = f[x] + g[x]
  BY DEF Ints
<1>9. SumFunctionOnSet(h, s) # SumFunctionOnSet(f, s) + SumFunctionOnSet(g, s)
  BY <1>2
<1> HIDE DEF u
<1>10. SumFunctionOnSet(h, s) = SumFunctionOnSet(h, u) + h[x]
  BY <1>5, <1>6, SumAdd
<1>11. SumFunctionOnSet(f, s) = SumFunctionOnSet(f, u) + f[x] /\ SumFunctionOnSet(f, u) \in Int
  BY <1>5, <1>6, SumAdd, SumInt
<1>12. SumFunctionOnSet(g, s) = SumFunctionOnSet(g, u) + g[x] /\ SumFunctionOnSet(g, u) \in Int
  BY <1>5, <1>6, SumAdd, SumInt
<1> QED
  BY <1>7, <1>8, <1>9, <1>10, <1>11, <1>12

\* Rows that each sum up to zero have columns that do so together.
LEMMA ColumnsBalance ==
  ASSUME NEW A, IsFiniteSet(A), NEW K, IsFiniteSet(K), NEW p,
         \A k \in K : Ints(p[k], A) /\ SumFunctionOnSet(p[k], A) = 0
  PROVE  SumFunctionOnSet([a \in A |-> SumFunctionOnSet([k \in K |-> p[k][a]], K)], A) = 0
<1> DEFINE Column(a) == [k \in K |-> p[k][a]]
           Totals(s) == [a \in A |-> SumFunctionOnSet(Column(a), s)]
           B == {s \in SUBSET K : SumFunctionOnSet(Totals(s), A) # 0}
<1>1. SUFFICES ASSUME B # {} PROVE FALSE
  OBVIOUS
<1>2. PICK s \in B : \A t \in B : t \subseteq s => t = s
  <2>1. B \subseteq SUBSET K
    OBVIOUS
  <2> HIDE DEF B
  <2> QED
    BY <1>1, <2>1, SmallestSubset
<1>3. s # {}
  <2>1. SUFFICES SumFunctionOnSet(Totals({}), A) = 0
    OBVIOUS
  <2>2. \A a \in A : Totals({})[a] = 0
    BY SumEmpty
  <2> HIDE DEF Totals
  <2>3. SumFunctionOnSet(Totals({}), A) = SumFunctionOnSet(Totals({}), {})
    BY <2>2, SumOutside DEF Ints
  <2> QED
    BY <2>3, SumEmpty
<1>4. PICK x \in s : TRUE
  BY <1>3
<1> DEFINE u == s \ {x}
<1>5. s = u \union {x} /\ x \notin u /\ IsFiniteSet(u) /\ x \in K /\ u \in SUBSET K
  BY FS_Subset
<1>6. ASSUME NEW a \in A PROVE Totals(u)[a] \in Int /\ p[x][a] \in Int /\ Totals(s)[a] = Totals(u)[a] + p[x][a]
  <2>1. Ints(Column(a), u \union {x}) /\ Ints(Column(a), u) /\ Column(a)[x] = p[x][a]
    BY <1>5 DEF Ints
  <2> HIDE DEF Column
  <2>2. /\ SumFunctionOnSet(Column(a), u) \in Int
        /\ SumFunctionOnSet(Column(a), u \union {x}) = SumFunctionOnSet(Column(a), u) + Column(a)[x]
    BY <1>5, <2>1, SumAdd, SumInt
  <2> QED
    BY <1>5, <2>1, <2>2 DEF Ints
<1>7. SumFunctionOnSet(Totals(u), A) = 0
  BY <1>2
<1>8. SumFunctionOnSet(Totals(s), A) # 0
  BY <1>2
<1> DEFINE f == Totals(u)
           g == p[x]
           h == Totals(s)
<1>9. Ints(f, A) /\ Ints(g, A) /\ (\A a \in A : h[a] = f[a] + g[a])
  BY <1>6 DEF Ints
<1>10. SumFunctionOnSet(f, A) = 0 /\ SumFunctionOnSet(g, A) = 0 /\ SumFunctionOnSet(h, A) # 0
  BY <1>5, <1>7, <1>8
<1> HIDE DEF f, g, h
<1>11. SumFunctionOnSet(h, A) = SumFunctionOnSet(f, A) + SumFunctionOnSet(g, A)
  BY <1>9, SumPlus
<1> QED
  BY <1>10, <1>11

\* A function with one more value has a sum that is larger by that value.
LEMMA SumExtends ==
  ASSUME NEW f, NEW g, NEW S, IsFiniteSet(S), NEW x, x \notin S,
         DOMAIN f = S, DOMAIN g = S \union {x}, Ints(g, S \union {x}), \A y \in S : g[y] = f[y]
  PROVE  SumFunction(g) = SumFunction(f) + g[x]
<1>1. SumFunctionOnSet(g, S \union {x}) = SumFunctionOnSet(g, S) + g[x]
  BY SumAdd
<1>2. SumFunctionOnSet(g, S) = SumFunctionOnSet(f, S)
  BY SumSame
<1> QED
  BY <1>1, <1>2 DEF SumFunction

-----------------------------------------------------------------------------
(* The commission ledger.  The rounding of the columns is what makes it an *)
(* argument: the checks are made on the amounts as sent, the books keep    *)
(* whole cents, and the caps survive because rounding never crosses a whole*)
(* cent.                                                                   *)

Whole(x) == \E c \in Int : x = 2 * c

\* The inductive invariant: everything on the books is a whole number of
\* cents, and a split is backed by the amount its key was used with.
LedgerInv ==
  /\ TypeOK
  /\ Whole(expected) /\ Whole(received) /\ Whole(adjusted) /\ Whole(allocated)
  /\ \A k \in Keys : split[k] # "NONE" => answered["splits"][k] \in Nat
  /\ Capped
  /\ ReceivedIsSettled

\* Rounding yields a whole number of cents (Numeric(18,2)).
LEMMA StoredIsWhole ==
  ASSUME NEW x \in Int PROVE Stored(x) \in Int /\ Whole(Stored(x))
<1>1. CASE x >= 0
  <2>1. (x + 1) \div 2 \in Int /\ Stored(x) = 2 * ((x + 1) \div 2) BY <1>1 DEF Stored
  <2>2. QED BY <2>1 DEF Whole
<1>2. CASE ~(x >= 0)
  <2>1. (1 - x) \div 2 \in Int /\ Stored(x) = 2 * (-((1 - x) \div 2)) BY <1>2 DEF Stored
  <2>2. QED BY <2>1 DEF Whole
<1>3. QED BY <1>1, <1>2

\* Rounding does not cross a whole cent, in either direction.
LEMMA StoredBetween ==
  ASSUME NEW x \in Int, NEW w \in Int, Whole(w)
  PROVE /\ x <= w => Stored(x) <= w
        /\ w <= x => w <= Stored(x)
<1>1. PICK c \in Int : w = 2 * c BY DEF Whole
<1>2. CASE x >= 0
  <2>1. Stored(x) = 2 * ((x + 1) \div 2) BY <1>2 DEF Stored
  <2>2. QED BY <1>1, <1>2, <2>1
<1>3. CASE ~(x >= 0)
  <2>1. Stored(x) = -(2 * ((1 - x) \div 2)) BY <1>3 DEF Stored
  <2>2. QED BY <1>1, <1>3, <2>1
<1>4. QED BY <1>2, <1>3

\* A whole number of cents is stored as it is.
LEMMA StoredWhole ==
  ASSUME NEW x \in Int, Whole(x) PROVE Stored(x) = x
<1>1. Stored(x) <= x /\ x <= Stored(x) BY StoredBetween
<1>2. QED BY <1>1, StoredIsWhole

\* Sums and differences of whole cents are whole cents.
LEMMA WholeSum ==
  ASSUME NEW x \in Int, NEW y \in Int, Whole(x), Whole(y)
  PROVE Whole(x + y) /\ Whole(x - y)
<1>1. PICK c \in Int : x = 2 * c BY DEF Whole
<1>2. PICK d \in Int : y = 2 * d BY DEF Whole
<1>3. x + y = 2 * (c + d) /\ c + d \in Int BY <1>1, <1>2
<1>4. x - y = 2 * (c - d) /\ c - d \in Int BY <1>1, <1>2
<1>5. QED BY <1>3, <1>4, Zenon DEF Whole

LEMMA ZeroIsWhole == Whole(0)
<1>1. 0 = 2 * 0 OBVIOUS
<1>2. QED BY <1>1 DEF Whole

\* A fresh key adds one entry to the idempotency records and changes no other.
LEMMA FreshAnswers ==
  ASSUME NEW route \in Routes, NEW k \in Keys, NEW x \in Int, TypeOK, Fresh(route, k, x)
  PROVE /\ answered' \in [Routes -> [Keys -> Int \union {None}]]
        /\ answered'[route][k] = x
        /\ \A r \in Routes, l \in Keys :
             r # route \/ l # k => answered'[r][l] = answered[r][l]
<1> DEFINE T == [Keys -> Int \union {None}]
<1>1. answered \in [Routes -> T] BY DEF TypeOK
<1>2. answered' = [answered EXCEPT ![route] = [answered[route] EXCEPT ![k] = x]]
  BY DEF Fresh
<1>3. [answered[route] EXCEPT ![k] = x] \in T BY <1>1
<1>4. QED BY <1>1, <1>2, <1>3

\* The confirmation of a funding opens its commission in the invariant.
LEMMA LedgerInitEstablishes == Init => LedgerInv
<1> SUFFICES ASSUME Init PROVE LedgerInv OBVIOUS
<1> USE DEF Init
<1>1. PICK x \in Agreed : expected = Stored(x) OBVIOUS
<1>2. x \in Nat BY CommissionAssumption
<1>3. expected \in Nat /\ Whole(expected)
  <2>1. Stored(x) \in Int /\ Whole(Stored(x)) BY <1>2, StoredIsWhole
  <2>2. 0 <= Stored(x) BY <1>2, StoredBetween, ZeroIsWhole
  <2>3. QED BY <1>1, <2>1, <2>2
<1>4. TypeOK BY <1>3 DEF TypeOK, CommissionStatuses, SplitStatuses
<1>5. Capped /\ ReceivedIsSettled BY <1>3 DEF Capped, ReceivedIsSettled, net
<1>6. QED BY <1>3, <1>4, <1>5, ZeroIsWhole DEF LedgerInv

\* Every handler keeps it: the caps, the status and the whole cents.
LEMMA LedgerStepPreserves == LedgerInv /\ [Next]_vars => LedgerInv'
<1> SUFFICES ASSUME LedgerInv, [Next]_vars PROVE LedgerInv' OBVIOUS
<1> USE CommissionAssumption
<1>n. net \in Int /\ Whole(net) BY WholeSum DEF LedgerInv, TypeOK, net
<1>1. ASSUME NEW k \in Keys, NEW x \in Amounts, record_commission_receipt(k, x) PROVE LedgerInv'
  <2> USE <1>1 DEF record_commission_receipt
  <2>1. x \in Nat \ {0} /\ received + x \in Nat BY DEF LedgerInv, TypeOK
  <2>2. received' \in Int /\ Whole(received') BY <2>1, StoredIsWhole
  <2>3. received <= received' /\ received' <= net
    BY <1>n, <2>1, StoredBetween DEF LedgerInv, TypeOK
  <2>4. TypeOK'
    <3>1. answered' \in [Routes -> [Keys -> Int \union {None}]]
      BY <2>1, FreshAnswers DEF LedgerInv, Routes
    <3>2. QED BY <2>2, <2>3, <3>1 DEF LedgerInv, TypeOK, CommissionStatuses
  <2>5. \A l \in Keys : split'[l] # "NONE" => answered'["splits"][l] \in Nat
    BY <2>1, FreshAnswers DEF LedgerInv, Routes
  <2>6. Capped' BY <2>3 DEF LedgerInv, Capped, net
  <2>7. ReceivedIsSettled'
    <3>1. CASE received + x >= net
      <4>1. received + x = net BY <1>n, <2>1, <3>1
      <4>2. received' = net BY <1>n, <4>1, StoredWhole
      <4>3. QED BY <3>1, <4>2 DEF ReceivedIsSettled, net
    <3>2. CASE ~(received + x >= net) BY <3>2 DEF ReceivedIsSettled
    <3>3. QED BY <3>1, <3>2
  <2>8. QED BY <2>2, <2>4, <2>5, <2>6, <2>7 DEF LedgerInv, Whole
<1>2. ASSUME NEW k \in Keys, NEW x \in Amounts, create_commission_split(k, x) PROVE LedgerInv'
  <2> USE <1>2 DEF create_commission_split
  <2>1. x \in Nat \ {0} /\ allocated + x \in Nat BY DEF LedgerInv, TypeOK
  <2>2. Stored(x) \in Int /\ Whole(Stored(x)) /\ 0 <= Stored(x)
    BY <2>1, StoredIsWhole, StoredBetween, ZeroIsWhole
  <2>3. allocated' \in Nat /\ Whole(allocated')
    <3>1. allocated \in Nat /\ Whole(allocated) BY DEF LedgerInv, TypeOK
    <3>2. Whole(allocated + Stored(x)) BY <2>2, <3>1, WholeSum
    <3>3. allocated + Stored(x) \in Nat BY <2>2, <3>1
    <3>4. QED BY <3>2, <3>3
  <2>4. allocated' <= net
    <3>1. Whole(net - allocated) BY <1>n, WholeSum DEF LedgerInv, TypeOK
    <3>2. x <= net - allocated /\ net - allocated \in Int BY <1>n, <2>1 DEF LedgerInv, TypeOK
    <3>3. Stored(x) <= net - allocated BY <2>1, <3>1, <3>2, StoredBetween
    <3>4. QED BY <1>n, <2>2, <3>3 DEF LedgerInv, TypeOK
  <2>5. TypeOK'
    <3>1. answered' \in [Routes -> [Keys -> Int \union {None}]]
      BY <2>1, FreshAnswers DEF LedgerInv, Routes
    <3>2. QED BY <2>3, <3>1 DEF LedgerInv, TypeOK, SplitStatuses
  <2>6. \A l \in Keys : split'[l] # "NONE" => answered'["splits"][l] \in Nat
    BY <2>1, FreshAnswers DEF LedgerInv, TypeOK, Routes
  <2>7. Capped' /\ ReceivedIsSettled' BY <2>4 DEF LedgerInv, Capped, ReceivedIsSettled, net
  <2>8. QED BY <2>3, <2>5, <2>6, <2>7 DEF LedgerInv, Whole
<1>3. ASSUME NEW k \in Keys, NEW x \in Deltas, create_commission_adjustment(k, x) PROVE LedgerInv'
  <2> USE <1>3 DEF create_commission_adjustment
  <2>1. x \in Int OBVIOUS
  <2>2. Stored(x) \in Int /\ Whole(Stored(x)) BY <2>1, StoredIsWhole
  <2>3. adjusted' \in Int /\ Whole(adjusted')
    <3>1. adjusted \in Int /\ Whole(adjusted) BY DEF LedgerInv, TypeOK
    <3>2. Whole(adjusted + Stored(x)) BY <2>2, <3>1, WholeSum
    <3>3. adjusted + Stored(x) \in Int BY <2>2, <3>1
    <3>4. QED BY <3>2, <3>3
  <2>4. net' = net + Stored(x) BY <2>2 DEF LedgerInv, TypeOK, net
  <2>5. \A w \in {received, allocated} : w - net <= Stored(x)
    <3> TAKE w \in {received, allocated}
    <3>1. w \in Int /\ Whole(w) /\ w - net <= x BY <1>n, <2>1 DEF LedgerInv, TypeOK
    <3>2. w - net \in Int /\ Whole(w - net) BY <1>n, <3>1, WholeSum
    <3>3. QED BY <2>1, <3>1, <3>2, StoredBetween
  <2>6. TypeOK'
    <3>1. answered' \in [Routes -> [Keys -> Int \union {None}]]
      BY <2>1, FreshAnswers DEF LedgerInv, Routes
    <3>2. status' \in CommissionStatuses BY DEF CommissionStatuses
    <3>3. QED BY <2>3, <3>1, <3>2 DEF LedgerInv, TypeOK
  <2>7. \A l \in Keys : split'[l] # "NONE" => answered'["splits"][l] \in Nat
    BY <2>1, FreshAnswers DEF LedgerInv, Routes
  <2>8. Capped' BY <1>n, <2>2, <2>4, <2>5 DEF LedgerInv, TypeOK, Capped
  <2>9. ReceivedIsSettled'
    <3>1. CASE received >= net + x
      <4>1. x = received - net BY <1>n, <2>1, <3>1 DEF LedgerInv, TypeOK
      <4>2. Whole(x) BY <1>n, <4>1, WholeSum DEF LedgerInv, TypeOK
      <4>3. Stored(x) = x BY <2>1, <4>2, StoredWhole
      <4>4. status' = "RECEIVED" BY <1>n, <2>1, <3>1 DEF LedgerInv, TypeOK
      <4>5. net' = received' BY <1>n, <2>1, <2>4, <4>1, <4>3 DEF LedgerInv, TypeOK
      <4>6. QED BY <4>4, <4>5 DEF ReceivedIsSettled
    <3>2. CASE received < net + x
      <4>1. CASE received > 0
        <5>1. status' = "PARTIALLY_RECEIVED" BY <1>n, <2>1, <3>2, <4>1 DEF LedgerInv, TypeOK
        <5>2. QED BY <5>1 DEF ReceivedIsSettled
      <4>2. CASE ~(received > 0)
        <5>1. status' = "EXPECTED" BY <1>n, <2>1, <3>2, <4>2 DEF LedgerInv, TypeOK
        <5>2. QED BY <5>1, <4>2 DEF ReceivedIsSettled, LedgerInv, TypeOK
      <4>3. QED BY <4>1, <4>2
    <3>3. QED BY <1>n, <2>1, <3>1, <3>2 DEF LedgerInv, TypeOK
  <2>10. QED BY <2>3, <2>6, <2>7, <2>8, <2>9 DEF LedgerInv, Whole
<1>4. ASSUME NEW k \in Keys, mark_commission_split_paid(k) PROVE LedgerInv'
  <2> USE <1>4 DEF mark_commission_split_paid
  <2>1. answered["splits"][k] \in Nat BY DEF LedgerInv
  <2>2. Stored(answered["splits"][k]) \in Nat
    BY <2>1, StoredIsWhole, StoredBetween, ZeroIsWhole
  <2>3. TypeOK' BY <2>2 DEF LedgerInv, TypeOK, SplitStatuses
  <2>4. \A l \in Keys : split'[l] # "NONE" => answered'["splits"][l] \in Nat
    BY DEF LedgerInv, TypeOK
  <2>5. Capped' /\ ReceivedIsSettled' BY DEF LedgerInv, Capped, ReceivedIsSettled, net
  <2>6. QED BY <2>3, <2>4, <2>5 DEF LedgerInv, Whole
<1>5. CASE UNCHANGED vars
  <2>1. TypeOK' /\ Capped' /\ ReceivedIsSettled'
    BY <1>5 DEF vars, LedgerInv, TypeOK, Capped, ReceivedIsSettled, net
  <2>2. QED BY <1>5, <2>1 DEF vars, LedgerInv, Whole
<1>6. QED BY <1>1, <1>2, <1>3, <1>4, <1>5 DEF Next

\* The invariant holds in every reachable state.
LEMMA LedgerInvariance == Spec => []LedgerInv
BY LedgerInitEstablishes, LedgerStepPreserves, PTL DEF Spec

\* Type correctness for every set of keys and amounts.
THEOREM LedgerTypeCorrect == Spec => []TypeOK
<1>1. LedgerInv => TypeOK BY DEF LedgerInv
<1>2. QED BY <1>1, LedgerInvariance, PTL

\* Receipts and splits never exceed what is owed (create_commission_adjustment,
\* record_commission_receipt, create_commission_split), for amounts of any
\* precision.
THEOREM CappedAlways == Spec => []Capped
<1>1. LedgerInv => Capped BY DEF LedgerInv
<1>2. QED BY <1>1, LedgerInvariance, PTL

\* A commission that says RECEIVED is received in full.
THEOREM SettledAlways == Spec => []ReceivedIsSettled
<1>1. LedgerInv => ReceivedIsSettled BY DEF LedgerInv
<1>2. QED BY <1>1, LedgerInvariance, PTL

-----------------------------------------------------------------------------
(* The amounts on the books are those of the keys that were answered.      *)

\* The keys that a route has answered, and those whose split is paid out.
Answered(route) == {l \in Keys : answered[route][l] # None}
PaidKeys == {l \in Keys : split[l] = "PAID"}

\* Only finitely many requests have been answered, so the sums are sums.
FinitelyAnswered == \A route \in Routes : IsFiniteSet(Answered(route))

BookedInv == LedgerInv /\ FinitelyAnswered /\ BooksMatchRequests

\* Rounding the new total or the new amount is the same, a total being whole cents.
LEMMA StoredShift ==
  ASSUME NEW w \in Nat, Whole(w), NEW x \in Nat PROVE Stored(w + x) = w + Stored(x)
<1>1. PICK c \in Int : w = 2 * c BY DEF Whole
<1>2. w + x \in Nat /\ (w + x + 1) \div 2 = c + ((x + 1) \div 2) BY <1>1
<1>3. Stored(w + x) = 2 * ((w + x + 1) \div 2) /\ Stored(x) = 2 * ((x + 1) \div 2) BY <1>2 DEF Stored
<1>4. (x + 1) \div 2 \in Int OBVIOUS
<1>5. QED BY <1>1, <1>2, <1>3, <1>4

\* A fresh key adds its amount to what its route has booked, and to no other route.
LEMMA FreshIsBooked ==
  ASSUME TypeOK, FinitelyAnswered, NEW route \in Routes, NEW k \in Keys, NEW x \in Int, Fresh(route, k, x)
  PROVE  /\ Booked(route)' = Booked(route) + Stored(x)
         /\ \A r \in Routes \ {route} : Booked(r)' = Booked(r)
         /\ FinitelyAnswered'
<1> DEFINE S == Answered(route)
           f == [l \in S |-> Stored(answered[route][l])]
           g == [l \in S \union {k} |-> Stored(answered'[route][l])]
<1>1. x # None /\ k \notin S /\ IsFiniteSet(S)
  BY CommissionAssumption DEF Fresh, Answered, FinitelyAnswered
<1>2. Answered(route)' = S \union {k}
  BY <1>1, FreshAnswers DEF Answered
<1>3. \A r \in Routes \ {route} : Answered(r)' = Answered(r)
  BY FreshAnswers DEF Answered
<1>4. FinitelyAnswered'
  BY <1>1, <1>2, <1>3, FS_AddElement DEF FinitelyAnswered
<1>5. \A l \in S : answered'[route][l] = answered[route][l] /\ answered[route][l] \in Int
  BY <1>1, FreshAnswers DEF TypeOK, Answered
<1>6. answered'[route][k] = x
  BY FreshAnswers
<1>7. Ints(g, S \union {k}) /\ g[k] = Stored(x) /\ \A l \in S : g[l] = f[l]
  BY <1>5, <1>6, StoredIsWhole DEF Ints
<1>8. Booked(route) = SumFunction(f) /\ Booked(route)' = SumFunction(g)
  BY <1>2 DEF Booked, Answered
<1>9. SumFunction(g) = SumFunction(f) + g[k]
  <2>1. DOMAIN f = S /\ DOMAIN g = S \union {k} OBVIOUS
  <2> HIDE DEF f, g, S
  <2>2. QED BY <1>1, <1>7, <2>1, SumExtends
<1>10. ASSUME NEW r \in Routes \ {route} PROVE Booked(r)' = Booked(r)
  <2>1. \A l \in Keys : answered'[r][l] = answered[r][l] BY FreshAnswers
  <2>2. QED BY <2>1 DEF Booked
<1>11. QED BY <1>4, <1>7, <1>8, <1>9, <1>10

\* Answering a key pays nobody: a key that has a split is answered already.
LEMMA FreshPaysNobody ==
  ASSUME LedgerInv, NEW route \in Routes, NEW k \in Keys, NEW x \in Int, Fresh(route, k, x),
         PaidKeys' = PaidKeys
  PROVE  PaidOut' = PaidOut
<1>1. ASSUME NEW l \in PaidKeys PROVE answered'["splits"][l] = answered["splits"][l]
  <2>1. l \in Keys /\ answered["splits"][l] \in Nat BY DEF LedgerInv, PaidKeys
  <2>2. answered["splits"][l] # None BY <2>1, CommissionAssumption
  <2>3. "splits" # route \/ l # k BY <2>2 DEF Fresh
  <2>4. QED BY <2>1, <2>3, FreshAnswers DEF LedgerInv, Routes
<1>2. PaidOut = SumFunction([l \in PaidKeys |-> Stored(answered["splits"][l])])
  BY DEF PaidOut, PaidKeys
<1>3. PaidOut' = SumFunction([l \in PaidKeys |-> Stored(answered'["splits"][l])])
  BY DEF PaidOut, PaidKeys
<1>4. QED BY <1>1, <1>2, <1>3

\* Paying a split adds the amount its key was used with.
LEMMA PayingIsBooked ==
  ASSUME LedgerInv, FinitelyAnswered, NEW k \in Keys, mark_commission_split_paid(k)
  PROVE  PaidOut' = PaidOut + Stored(answered["splits"][k])
<1> DEFINE S == PaidKeys
           f == [l \in S |-> Stored(answered["splits"][l])]
           g == [l \in S \union {k} |-> Stored(answered["splits"][l])]
<1>1. k \notin S /\ PaidKeys' = S \union {k} /\ answered' = answered
  BY DEF LedgerInv, TypeOK, PaidKeys, mark_commission_split_paid
<1>2. \A l \in S \union {k} : l \in Keys /\ answered["splits"][l] \in Nat
  BY DEF LedgerInv, PaidKeys, mark_commission_split_paid
<1>3. IsFiniteSet(S)
  <2>1. S \subseteq Answered("splits") BY <1>2, CommissionAssumption DEF Answered
  <2>2. QED BY <2>1, FS_Subset DEF FinitelyAnswered, Routes
<1>4. Ints(g, S \union {k}) /\ g[k] = Stored(answered["splits"][k]) /\ \A l \in S : g[l] = f[l]
  BY <1>2, StoredIsWhole DEF Ints
<1>5. PaidOut = SumFunction(f) /\ PaidOut' = SumFunction(g)
  BY <1>1 DEF PaidOut, PaidKeys
<1>6. SumFunction(g) = SumFunction(f) + g[k]
  <2>1. DOMAIN f = S /\ DOMAIN g = S \union {k} OBVIOUS
  <2> HIDE DEF f, g, S
  <2>2. QED BY <1>1, <1>3, <1>4, <2>1, SumExtends
<1>7. QED BY <1>4, <1>5, <1>6

LEMMA NothingBooked == Init => FinitelyAnswered /\ BooksMatchRequests
<1> SUFFICES ASSUME Init PROVE FinitelyAnswered /\ BooksMatchRequests OBVIOUS
<1>1. \A route \in Routes : {l \in Keys : answered[route][l] # None} = {} BY DEF Init
<1>2. {l \in Keys : split[l] = "PAID"} = {} BY DEF Init
<1>3. \A f : DOMAIN f = {} => SumFunction(f) = 0 BY SumEmpty DEF SumFunction
<1>4. \A route \in Routes : Booked(route) = 0 BY <1>1, <1>3 DEF Booked
<1>5. PaidOut = 0 BY <1>2, <1>3 DEF PaidOut
<1>6. FinitelyAnswered BY <1>1, FS_EmptySet DEF FinitelyAnswered, Answered
<1>7. QED BY <1>4, <1>5, <1>6 DEF Init, BooksMatchRequests, Routes

LEMMA StepBooks == BookedInv /\ [Next]_vars => FinitelyAnswered' /\ BooksMatchRequests'
<1> SUFFICES ASSUME BookedInv, [Next]_vars PROVE FinitelyAnswered' /\ BooksMatchRequests' OBVIOUS
<1> USE CommissionAssumption
<1>t. TypeOK /\ LedgerInv /\ FinitelyAnswered /\ BooksMatchRequests BY DEF BookedInv, LedgerInv
<1>1. ASSUME NEW k \in Keys, NEW x \in Amounts, record_commission_receipt(k, x)
      PROVE  FinitelyAnswered' /\ BooksMatchRequests'
  <2>1. x \in Nat /\ x \in Int /\ "receipts" \in Routes /\ Fresh("receipts", k, x) /\ PaidKeys' = PaidKeys
    BY <1>1 DEF Routes, record_commission_receipt, PaidKeys
  <2>2. /\ Booked("receipts")' = Booked("receipts") + Stored(x)
        /\ \A r \in Routes \ {"receipts"} : Booked(r)' = Booked(r)
        /\ FinitelyAnswered' /\ PaidOut' = PaidOut
    BY <1>t, <2>1, FreshIsBooked, FreshPaysNobody
  <2>3. received' = received + Stored(x)
    BY <1>1, <1>t, <2>1, StoredShift DEF record_commission_receipt, LedgerInv, TypeOK
  <2>4. QED BY <1>1, <1>t, <2>2, <2>3 DEF BooksMatchRequests, record_commission_receipt, Routes
<1>2. ASSUME NEW k \in Keys, NEW x \in Amounts, create_commission_split(k, x)
      PROVE  FinitelyAnswered' /\ BooksMatchRequests'
  <2>1. x \in Int /\ "splits" \in Routes /\ Fresh("splits", k, x)
    BY <1>2 DEF Routes, create_commission_split
  <2>2. PaidKeys' = PaidKeys
    <3>1. split[k] = "NONE" BY <1>t, <2>1 DEF LedgerInv, TypeOK, SplitStatuses, Fresh
    <3>2. QED BY <1>2, <1>t, <3>1 DEF PaidKeys, create_commission_split, TypeOK
  <2>3. /\ Booked("splits")' = Booked("splits") + Stored(x)
        /\ \A r \in Routes \ {"splits"} : Booked(r)' = Booked(r)
        /\ FinitelyAnswered' /\ PaidOut' = PaidOut
    BY <1>t, <2>1, <2>2, FreshIsBooked, FreshPaysNobody
  <2>4. QED BY <1>2, <1>t, <2>3 DEF BooksMatchRequests, create_commission_split, Routes
<1>3. ASSUME NEW k \in Keys, NEW x \in Deltas, create_commission_adjustment(k, x)
      PROVE  FinitelyAnswered' /\ BooksMatchRequests'
  <2>1. x \in Int /\ "adjustments" \in Routes /\ Fresh("adjustments", k, x) /\ PaidKeys' = PaidKeys
    BY <1>3 DEF Routes, create_commission_adjustment, PaidKeys
  <2>2. /\ Booked("adjustments")' = Booked("adjustments") + Stored(x)
        /\ \A r \in Routes \ {"adjustments"} : Booked(r)' = Booked(r)
        /\ FinitelyAnswered' /\ PaidOut' = PaidOut
    BY <1>t, <2>1, FreshIsBooked, FreshPaysNobody
  <2>3. QED BY <1>3, <1>t, <2>2 DEF BooksMatchRequests, create_commission_adjustment, Routes
<1>4. ASSUME NEW k \in Keys, mark_commission_split_paid(k)
      PROVE  FinitelyAnswered' /\ BooksMatchRequests'
  <2>1. PaidOut' = PaidOut + Stored(answered["splits"][k]) BY <1>4, <1>t, PayingIsBooked
  <2>2. QED BY <1>4, <1>t, <2>1
          DEF BooksMatchRequests, mark_commission_split_paid, Booked, FinitelyAnswered, Answered
<1>5. CASE UNCHANGED vars
  BY <1>5, <1>t DEF vars, BooksMatchRequests, Booked, PaidOut, FinitelyAnswered, Answered
<1>6. QED BY <1>1, <1>2, <1>3, <1>4, <1>5 DEF Next

\* create_commission_adjustment, record_commission_receipt, create_commission_split
\* and mark_commission_split_paid: however often requests are repeated, the books
\* hold the amount of every answered key once.
THEOREM BookedOnce == Spec => []BooksMatchRequests
<1>1. Init => BookedInv BY LedgerInitEstablishes, NothingBooked DEF BookedInv
<1>2. BookedInv /\ [Next]_vars => BookedInv' BY LedgerStepPreserves, StepBooks DEF BookedInv
<1>3. BookedInv => BooksMatchRequests BY DEF BookedInv
<1>4. QED BY <1>1, <1>2, <1>3, PTL DEF Spec

-----------------------------------------------------------------------------
(* The tax records.  Payments are never undone, so a generation that has   *)
(* read and not yet committed holds less than was paid and, being alone in *)
(* the year, no less than what is recorded.                                *)

AtMost(x, y) == x.total <= y.total /\ x.count <= y.count

OneGenerates ==
  \A g, h \in Generators : snapshot[g] # None /\ snapshot[h] # None => g = h
ReadsAreBetween ==
  \A g \in Generators : snapshot[g] # None =>
    \A r \in Recipients :
      /\ AtMost(snapshot[g][r], evidence[r])
      /\ record[r] # None => AtMost(record[r], snapshot[g][r])
ThresholdDecides ==
  \A r \in Recipients : record[r] # None =>
    /\ record[r].requires_1099 = (record[r].total >= Threshold)
    /\ Filed(r) /\ record[r].requires_1099 => record[r].identified

\* The inductive invariant.
TaxInv ==
  /\ TaxTypeOK
  /\ OneGenerates
  /\ ReadsAreBetween
  /\ RecordsAreEvidenced
  /\ ThresholdDecides

\* The year begins without payments and records.
LEMMA TaxInitEstablishes == TaxInit => TaxInv
<1> SUFFICES ASSUME TaxInit PROVE TaxInv OBVIOUS
<1> USE DEF TaxInit
<1>1. TaxTypeOK BY DEF TaxTypeOK, Evidence
<1>2. OneGenerates /\ ReadsAreBetween BY DEF OneGenerates, ReadsAreBetween
<1>3. RecordsAreEvidenced /\ ThresholdDecides BY DEF RecordsAreEvidenced, ThresholdDecides
<1>4. QED BY <1>1, <1>2, <1>3 DEF TaxInv

\* What a regenerated record is.
LEMMA RegeneratedRecord ==
  ASSUME TaxTypeOK, NEW r \in Recipients, NEW read \in Evidence
  PROVE /\ Regenerated(r, read) \in CommissionTaxRecord
        /\ Regenerated(r, read) # None
        /\ Regenerated(r, read).total = read.total
        /\ Regenerated(r, read).count = read.count
        /\ Regenerated(r, read).requires_1099 = (read.total >= Threshold)
<1>1. record[r] # None => record[r] \in CommissionTaxRecord BY DEF TaxTypeOK
<1>2. Regenerated(r, read) \in CommissionTaxRecord
  <2>1. (record[r] # None /\ record[r].identified) \in BOOLEAN
    BY <1>1, Zenon DEF CommissionTaxRecord
  <2>2. (IF record[r] = None THEN None ELSE record[r].filing_reference) \in References \union {None}
    BY <1>1 DEF CommissionTaxRecord
  <2>3. read.total \in Nat /\ read.count \in Nat /\ (read.total >= Threshold) \in BOOLEAN
    BY DEF Evidence
  <2>4. QED BY <2>1, <2>2, <2>3 DEF Regenerated, CommissionTaxRecord
<1>3. Regenerated(r, read) # None BY <1>2, TaxAssumption
<1>4. QED BY <1>2, <1>3 DEF Regenerated

\* A committed generation: filed records stay, all others show what was read.
LEMMA Committed ==
  ASSUME TaxInv, NEW g \in Generators, generate_commit(g)
  PROVE /\ \A r \in Recipients : Filed(r) => record'[r] = record[r]
        /\ \A r \in Recipients :
             record'[r] = None \/
             /\ record'[r] \in CommissionTaxRecord /\ record'[r] # None
             /\ record'[r].total = snapshot[g][r].total
             /\ record'[r].count = snapshot[g][r].count
             /\ record'[r].requires_1099 = (snapshot[g][r].total >= Threshold)
        /\ \A r \in Recipients : record[r] # None => record'[r] # None
        /\ DOMAIN record' = Recipients
<1> USE DEF generate_commit
<1>1. snapshot[g] \in [Recipients -> Evidence] BY DEF TaxInv, TaxTypeOK
<1>2. ASSUME NEW r \in Recipients PROVE
        /\ Filed(r) => record'[r] = record[r]
        /\ record'[r] = None \/
             /\ record'[r] \in CommissionTaxRecord /\ record'[r] # None
             /\ record'[r].total = snapshot[g][r].total
             /\ record'[r].count = snapshot[g][r].count
             /\ record'[r].requires_1099 = (snapshot[g][r].total >= Threshold)
        /\ record[r] # None => record'[r] # None
  <2>1. snapshot[g][r] \in Evidence BY <1>1
  <2>2. record'[r] = IF record[r] = None /\ snapshot[g][r].count = 0 THEN None
                     ELSE Regenerated(r, snapshot[g][r])
    OBVIOUS
  <2>3. TaxTypeOK BY DEF TaxInv
  <2>4. Regenerated(r, snapshot[g][r]) \in CommissionTaxRecord
        /\ Regenerated(r, snapshot[g][r]) # None
        /\ Regenerated(r, snapshot[g][r]).total = snapshot[g][r].total
        /\ Regenerated(r, snapshot[g][r]).count = snapshot[g][r].count
        /\ Regenerated(r, snapshot[g][r]).requires_1099 = (snapshot[g][r].total >= Threshold)
    BY <2>1, <2>3, RegeneratedRecord
  <2>5. Filed(r) => record'[r] = record[r] BY <2>2 DEF Filed
  <2>6. QED BY <2>2, <2>4, <2>5
<1>3. QED BY <1>2

\* Nothing about a filed record changes in any step.
LEMMA StepFreezes ==
  ASSUME TaxInv, [TaxNext]_tax
  PROVE \A r \in Recipients : Filed(r) => record'[r] = record[r]
<1>1. ASSUME NEW g \in Generators, generate_commit(g)
      PROVE \A r \in Recipients : Filed(r) => record'[r] = record[r]
  BY <1>1, Committed
<1>2. ASSUME NEW r \in Recipients, set_tax_record_tin(r)
      PROVE \A s \in Recipients : Filed(s) => record'[s] = record[s]
  BY <1>2 DEF set_tax_record_tin, TaxInv, TaxTypeOK
<1>3. ASSUME NEW r \in Recipients, NEW ref \in References, record_tax_filing(r, ref)
      PROVE \A s \in Recipients : Filed(s) => record'[s] = record[s]
  BY <1>3 DEF record_tax_filing, TaxInv, TaxTypeOK
<1>4. CASE UNCHANGED record BY <1>4
<1>5. QED
  BY <1>1, <1>2, <1>3, <1>4
     DEF TaxNext, tax, pay_recipient, generate_read, generate_rollback

\* A record that exists keeps existing and its total does not go down.
LEMMA StepGrows ==
  ASSUME TaxInv, [TaxNext]_tax
  PROVE \A r \in Recipients : record[r] # None =>
          record'[r] # None /\ record'[r].total >= record[r].total
<1> DEFINE Grows(r) == record[r] # None => record'[r] # None /\ record'[r].total >= record[r].total
<1>t. \A r \in Recipients : record[r] # None => record[r] \in CommissionTaxRecord
  BY DEF TaxInv, TaxTypeOK
<1>1. ASSUME NEW g \in Generators, generate_commit(g), NEW r \in Recipients PROVE Grows(r)
  <2>1. snapshot[g] # None /\ snapshot[g][r] \in Evidence
    BY <1>1 DEF generate_commit, TaxInv, TaxTypeOK
  <2>2. record[r] # None => record[r].total <= snapshot[g][r].total
    BY <2>1 DEF TaxInv, ReadsAreBetween, AtMost
  <2>3. QED BY <1>1, <1>t, <2>1, <2>2, Committed DEF Evidence, CommissionTaxRecord
<1>2. ASSUME NEW s \in Recipients, set_tax_record_tin(s), NEW r \in Recipients PROVE Grows(r)
  <2>1. record'[r] = record[r] \/ record'[r] = [record[r] EXCEPT !.identified = TRUE]
    BY <1>2 DEF set_tax_record_tin, TaxInv, TaxTypeOK
  <2>2. record[r] # None =>
          /\ [record[r] EXCEPT !.identified = TRUE] \in CommissionTaxRecord
          /\ [record[r] EXCEPT !.identified = TRUE].total = record[r].total
    BY <1>t DEF CommissionTaxRecord
  <2>3. QED BY <1>t, <2>1, <2>2, TaxAssumption DEF CommissionTaxRecord
<1>3. ASSUME NEW s \in Recipients, NEW ref \in References, record_tax_filing(s, ref),
             NEW r \in Recipients PROVE Grows(r)
  <2>1. record'[r] = record[r] \/ record'[r] = [record[r] EXCEPT !.filing_reference = ref]
    BY <1>3 DEF record_tax_filing, TaxInv, TaxTypeOK
  <2>2. record[r] # None =>
          /\ [record[r] EXCEPT !.filing_reference = ref] \in CommissionTaxRecord
          /\ [record[r] EXCEPT !.filing_reference = ref].total = record[r].total
    BY <1>t DEF CommissionTaxRecord
  <2>3. QED BY <1>t, <2>1, <2>2, TaxAssumption DEF CommissionTaxRecord
<1>4. ASSUME UNCHANGED record, NEW r \in Recipients PROVE Grows(r)
  BY <1>4, <1>t DEF CommissionTaxRecord
<1>5. QED
  BY <1>1, <1>2, <1>3, <1>4
     DEF TaxNext, tax, pay_recipient, generate_read, generate_rollback

\* Every step keeps the invariant.
LEMMA TaxStepPreserves == TaxInv /\ [TaxNext]_tax => TaxInv'
<1> SUFFICES ASSUME TaxInv, [TaxNext]_tax PROVE TaxInv' OBVIOUS
<1>e. \A r \in Recipients : evidence[r] \in Evidence BY DEF TaxInv, TaxTypeOK
<1>t. \A r \in Recipients : record[r] # None => record[r] \in CommissionTaxRecord
  BY DEF TaxInv, TaxTypeOK
<1>1. ASSUME NEW s \in Recipients, NEW x \in Payments, pay_recipient(s, x) PROVE TaxInv'
  <2> USE <1>1, TaxAssumption DEF pay_recipient
  <2>1. \A r \in Recipients : evidence'[r] \in Evidence /\ AtMost(evidence[r], evidence'[r])
    BY <1>e DEF TaxInv, TaxTypeOK, Evidence, AtMost
  <2>2. TaxTypeOK'
    <3>1. evidence' \in [Recipients -> Evidence] BY <2>1 DEF TaxInv, TaxTypeOK
    <3>2. QED BY <3>1 DEF TaxInv, TaxTypeOK
  <2>3. ReadsAreBetween'
    <3> SUFFICES ASSUME NEW g \in Generators, snapshot[g] # None, NEW r \in Recipients
                 PROVE /\ AtMost(snapshot[g][r], evidence'[r])
                       /\ record[r] # None => AtMost(record[r], snapshot[g][r])
      BY DEF ReadsAreBetween
    <3>1. snapshot[g][r] \in Evidence BY DEF TaxInv, TaxTypeOK
    <3>2. AtMost(snapshot[g][r], evidence[r]) BY DEF TaxInv, ReadsAreBetween
    <3>3. QED BY <1>e, <2>1, <3>1, <3>2 DEF TaxInv, ReadsAreBetween, AtMost, Evidence
  <2>4. RecordsAreEvidenced'
    BY <1>e, <1>t, <2>1 DEF TaxInv, RecordsAreEvidenced, AtMost, Evidence, CommissionTaxRecord
  <2>5. OneGenerates' /\ ThresholdDecides'
    BY DEF TaxInv, OneGenerates, ThresholdDecides, Filed
  <2>6. QED BY <2>2, <2>3, <2>4, <2>5 DEF TaxInv
<1>2. ASSUME NEW g \in Generators, generate_read(g) PROVE TaxInv'
  <2> USE <1>2 DEF generate_read, YearIsFree
  <2>1. snapshot' = [snapshot EXCEPT ![g] = evidence] /\ DOMAIN snapshot = Generators
    BY DEF TaxInv, TaxTypeOK
  <2>2. TaxTypeOK' BY <2>1 DEF TaxInv, TaxTypeOK
  <2>3. OneGenerates' BY <2>1 DEF OneGenerates
  <2>4. ReadsAreBetween'
    <3> SUFFICES ASSUME NEW h \in Generators, snapshot'[h] # None, NEW r \in Recipients
                 PROVE /\ AtMost(snapshot'[h][r], evidence[r])
                       /\ record[r] # None => AtMost(record[r], snapshot'[h][r])
      BY DEF ReadsAreBetween
    <3>1. snapshot'[h] = evidence BY <2>1
    <3>2. QED BY <1>e, <3>1 DEF TaxInv, RecordsAreEvidenced, AtMost, Evidence
  <2>5. RecordsAreEvidenced' /\ ThresholdDecides'
    BY DEF TaxInv, RecordsAreEvidenced, ThresholdDecides, Filed
  <2>6. QED BY <2>2, <2>3, <2>4, <2>5 DEF TaxInv
<1>3. ASSUME NEW g \in Generators, generate_commit(g) PROVE TaxInv'
  <2>0. /\ snapshot[g] # None /\ evidence' = evidence
        /\ snapshot' = [snapshot EXCEPT ![g] = None] /\ DOMAIN snapshot = Generators
    BY <1>3 DEF generate_commit, TaxInv, TaxTypeOK
  <2>1. \A h \in Generators : snapshot'[h] = None BY <2>0 DEF TaxInv, OneGenerates
  <2>2. TaxTypeOK' BY <1>3, <2>0, Committed DEF TaxInv, TaxTypeOK
  <2>3. OneGenerates' /\ ReadsAreBetween' BY <2>1 DEF OneGenerates, ReadsAreBetween
  <2>4. RecordsAreEvidenced'
    <3> SUFFICES ASSUME NEW r \in Recipients, record'[r] # None
                 PROVE record'[r].total <= evidence[r].total /\ record'[r].count <= evidence[r].count
      BY <2>0 DEF RecordsAreEvidenced
    <3>1. AtMost(snapshot[g][r], evidence[r]) BY <2>0 DEF TaxInv, ReadsAreBetween
    <3>2. QED BY <1>3, <3>1, Committed DEF AtMost
  <2>5. ThresholdDecides'
    <3> SUFFICES ASSUME NEW r \in Recipients, record'[r] # None
                 PROVE /\ record'[r].requires_1099 = (record'[r].total >= Threshold)
                       /\ Filed(r)' /\ record'[r].requires_1099 => record'[r].identified
      BY DEF ThresholdDecides
    <3>1. record'[r].requires_1099 = (record'[r].total >= Threshold) BY <1>3, Committed
    <3>2. CASE Filed(r)
      <4>1. record'[r] = record[r] BY <1>3, <3>2, Committed
      <4>2. QED BY <3>1, <3>2, <4>1 DEF TaxInv, ThresholdDecides, Filed
    <3>3. CASE ~Filed(r)
      <4>1. record'[r] = Regenerated(r, snapshot[g][r])
        BY <1>3 DEF generate_commit
      <4>2. record'[r].filing_reference = None BY <3>3, <4>1 DEF Regenerated, Filed
      <4>3. QED BY <3>1, <4>2 DEF Filed
    <3>4. QED BY <3>2, <3>3
  <2>6. QED BY <2>2, <2>3, <2>4, <2>5 DEF TaxInv
<1>4. ASSUME NEW g \in Generators, generate_rollback(g) PROVE TaxInv'
  <2> USE <1>4 DEF generate_rollback
  <2>1. snapshot' = [snapshot EXCEPT ![g] = None] /\ DOMAIN snapshot = Generators
    BY DEF TaxInv, TaxTypeOK
  <2>2. \A h \in Generators : snapshot'[h] # None => snapshot'[h] = snapshot[h] BY <2>1
  <2>3. TaxTypeOK' BY <2>1 DEF TaxInv, TaxTypeOK
  <2>4. OneGenerates' /\ ReadsAreBetween' BY <2>2 DEF TaxInv, OneGenerates, ReadsAreBetween
  <2>5. RecordsAreEvidenced' /\ ThresholdDecides'
    BY DEF TaxInv, RecordsAreEvidenced, ThresholdDecides, Filed
  <2>6. QED BY <2>3, <2>4, <2>5 DEF TaxInv
<1>5. ASSUME NEW s \in Recipients, NEW q,
             q \in CommissionTaxRecord, record[s] # None,
             q.total = record[s].total, q.count = record[s].count,
             q.requires_1099 = record[s].requires_1099,
             q.filing_reference # None /\ q.requires_1099 => q.identified,
             record' = [record EXCEPT ![s] = q], UNCHANGED <<evidence, snapshot>>
      PROVE TaxInv'
  <2>1. /\ \A r \in Recipients : record'[r] = IF r = s THEN q ELSE record[r]
        /\ DOMAIN record' = Recipients /\ q # None
    BY <1>5, TaxAssumption DEF TaxInv, TaxTypeOK
  <2>2. TaxTypeOK' BY <1>5, <2>1 DEF TaxInv, TaxTypeOK
  <2>3. OneGenerates' BY <1>5 DEF TaxInv, OneGenerates
  <2>4. ReadsAreBetween'
    <3> SUFFICES ASSUME NEW g \in Generators, snapshot[g] # None, NEW r \in Recipients
                 PROVE /\ AtMost(snapshot[g][r], evidence[r])
                       /\ record'[r] # None => AtMost(record'[r], snapshot[g][r])
      BY <1>5 DEF ReadsAreBetween
    <3>1. AtMost(snapshot[g][r], evidence[r]) /\ (record[r] # None => AtMost(record[r], snapshot[g][r]))
      BY DEF TaxInv, ReadsAreBetween
    <3>2. QED BY <1>5, <2>1, <3>1 DEF AtMost
  <2>5. RecordsAreEvidenced' BY <1>5, <2>1 DEF TaxInv, RecordsAreEvidenced
  <2>6. ThresholdDecides'
    <3> SUFFICES ASSUME NEW r \in Recipients, record'[r] # None
                 PROVE /\ record'[r].requires_1099 = (record'[r].total >= Threshold)
                       /\ Filed(r)' /\ record'[r].requires_1099 => record'[r].identified
      BY DEF ThresholdDecides
    <3>1. CASE r = s BY <1>5, <2>1, <3>1 DEF TaxInv, ThresholdDecides, Filed
    <3>2. CASE r # s BY <2>1, <3>2 DEF TaxInv, ThresholdDecides, Filed
    <3>3. QED BY <3>1, <3>2
  <2>7. QED BY <2>2, <2>3, <2>4, <2>5, <2>6 DEF TaxInv
<1>6. ASSUME NEW s \in Recipients, set_tax_record_tin(s) PROVE TaxInv'
  <2> DEFINE q == [record[s] EXCEPT !.identified = TRUE]
  <2>1. /\ record[s] # None /\ record' = [record EXCEPT ![s] = q] /\ UNCHANGED <<evidence, snapshot>>
    BY <1>6 DEF set_tax_record_tin
  <2>2. record[s] \in CommissionTaxRecord BY <1>t, <2>1
  <2>3. /\ q \in CommissionTaxRecord
        /\ q.total = record[s].total /\ q.count = record[s].count
        /\ q.requires_1099 = record[s].requires_1099 /\ q.identified
    BY <2>2 DEF CommissionTaxRecord
  <2> HIDE DEF q
  <2>4. QED BY <1>5, <2>1, <2>3
<1>7. ASSUME NEW s \in Recipients, NEW ref \in References, record_tax_filing(s, ref) PROVE TaxInv'
  <2> DEFINE q == [record[s] EXCEPT !.filing_reference = ref]
  <2>1. /\ record[s] # None /\ record' = [record EXCEPT ![s] = q] /\ UNCHANGED <<evidence, snapshot>>
        /\ record[s].requires_1099 => record[s].identified
    BY <1>7 DEF record_tax_filing
  <2>2. record[s] \in CommissionTaxRecord BY <1>t, <2>1
  <2>3. /\ q \in CommissionTaxRecord
        /\ q.total = record[s].total /\ q.count = record[s].count
        /\ q.requires_1099 = record[s].requires_1099 /\ q.identified = record[s].identified
    BY <2>2 DEF CommissionTaxRecord
  <2> HIDE DEF q
  <2>4. QED BY <1>5, <2>1, <2>3
<1>8. CASE UNCHANGED tax
  <2>1. TaxTypeOK' /\ OneGenerates' BY <1>8 DEF tax, TaxInv, TaxTypeOK, OneGenerates
  <2>2. ReadsAreBetween' BY <1>8 DEF tax, TaxInv, ReadsAreBetween
  <2>3. RecordsAreEvidenced' /\ ThresholdDecides'
    BY <1>8 DEF tax, TaxInv, RecordsAreEvidenced, ThresholdDecides, Filed
  <2>4. QED BY <2>1, <2>2, <2>3 DEF TaxInv
<1>9. QED BY <1>1, <1>2, <1>3, <1>4, <1>6, <1>7, <1>8 DEF TaxNext

\* The invariant holds in every reachable state.
LEMMA TaxInvariance == TaxSpec => []TaxInv
BY TaxInitEstablishes, TaxStepPreserves, PTL DEF TaxSpec

\* Type correctness for any recipients, generators and references.
THEOREM TaxTypeCorrect == TaxSpec => []TaxTypeOK
<1>1. TaxInv => TaxTypeOK BY DEF TaxInv
<1>2. QED BY <1>1, TaxInvariance, PTL

\* No tax record states more than was paid (generate_commission_tax_records).
THEOREM Evidenced == TaxSpec => []RecordsAreEvidenced
<1>1. TaxInv => RecordsAreEvidenced BY DEF TaxInv
<1>2. QED BY <1>1, TaxInvariance, PTL

\* No record above the threshold is filed without the recipient's identity
\* (record_tax_filing), also when payments arrive after the filing.
THEOREM Identified == TaxSpec => []FiledIsIdentified
<1>1. TaxInv => FiledIsIdentified
  BY DEF TaxInv, ThresholdDecides, FiledIsIdentified, Filed
<1>2. QED BY <1>1, TaxInvariance, PTL

\* A filed record is immutable.
THEOREM Frozen == TaxSpec => FiledIsFrozen
<1>1. TaxInv /\ [TaxNext]_tax => [\A r \in Recipients : Filed(r) => record'[r] = record[r]]_tax
  BY StepFreezes
<1>2. QED BY <1>1, TaxInvariance, PTL DEF TaxSpec, FiledIsFrozen

\* A reported total does not shrink, whatever the order of the generations.
THEOREM NeverShrinks == TaxSpec => ReportNeverShrinks
<1>1. TaxInv /\ [TaxNext]_tax => [\A r \in Recipients : record[r] # None =>
        record'[r] # None /\ record'[r].total >= record[r].total]_tax
  BY StepGrows
<1>2. QED BY <1>1, TaxInvariance, PTL DEF TaxSpec, ReportNeverShrinks

-----------------------------------------------------------------------------
(* The journal.  Theorems of BooksSpec hold for requests that run side by  *)
(* side; theorems of SerialSpec say what the checks of a handler achieve   *)
(* when no other request comes between its read and its insert.            *)

\* An open posting was read off a period that exists and covers its date.
PendingFits ==
  \A r \in inflight : r.kind = "post" =>
    periods[r.period] # None /\ Covers(periods[r.period], r.command.date)

BooksInv == BooksTypeOK /\ EntryInItsPeriod /\ PendingFits

\* A period that exists keeps its interval: no step deletes or moves one.
KeepsIntervals ==
  \A n \in Names : periods[n] # None =>
    periods'[n] # None /\ periods'[n].from = periods[n].from /\ periods'[n].to = periods[n].to

\* Opening a request of a known kind with known parts keeps the types.
LEMMA OpenIsTyped ==
  ASSUME BooksTypeOK, NEW request \in Requests, Open(request)
  PROVE  BooksTypeOK'
BY DEF BooksTypeOK, Open

\* Every step preserves the types.
LEMMA StepTyped == ASSUME LedgerAssumption, BooksTypeOK, [BooksNext]_books PROVE BooksTypeOK'
<1>1. CASE \E a \in Accounts, currency \in Currencies : create_ledger_account(a, currency)
  BY <1>1 DEF BooksTypeOK, create_ledger_account
<1>2. CASE \E n \in Names, from, to \in Dates : create_accounting_period(n, from, to)
  <2>1. PICK n \in Names, from \in Dates, to \in Dates : create_accounting_period(n, from, to)
    BY <1>2
  <2>2. [kind |-> "period", name |-> n, from |-> from, to |-> to] \in Requests
    BY DEF Requests
  <2> QED
    BY <2>1, <2>2, OpenIsTyped DEF create_accounting_period
<1>3. CASE \E n \in Names : close_accounting_period(n)
  <2>1. PICK n \in Names : close_accounting_period(n)
    BY <1>3
  <2>2. periods[n] \in Periods
    BY <2>1 DEF BooksTypeOK, close_accounting_period, Created
  <2>3. [periods[n] EXCEPT !.status = "CLOSED"] \in Periods
    BY <2>2 DEF Periods
  <2> QED
    BY <2>1, <2>3 DEF BooksTypeOK, close_accounting_period
<1>4. CASE \E k \in EntryKeys, command \in Commands : post_journal(k, command)
  <2>1. PICK k \in EntryKeys, command \in Commands, n \in Created :
          Open([kind |-> "post", key |-> k, command |-> command, period |-> n])
    BY <1>4 DEF post_journal
  <2>2. [kind |-> "post", key |-> k, command |-> command, period |-> n] \in Requests
    BY DEF Requests, Created
  <2> QED
    BY <2>1, <2>2, OpenIsTyped
<1>5. ASSUME NEW r \in inflight, period_commit(r)
      PROVE  BooksTypeOK'
  <2>1. r \in Requests /\ r.kind = "period"
    BY <1>5 DEF BooksTypeOK, period_commit
  <2>2. /\ r.name \in Names
        /\ [from |-> r.from, to |-> r.to, status |-> "OPEN"] \in Periods
    BY <2>1 DEF Requests, Periods
  <2> QED
    BY <1>5, <2>2 DEF BooksTypeOK, period_commit
<1>6. ASSUME NEW r \in inflight, post_commit(r)
      PROVE  BooksTypeOK'
  <2>1. r \in Requests /\ r.kind = "post"
    BY <1>6 DEF BooksTypeOK, post_commit
  <2>2. r.key \in EntryKeys /\ [command |-> r.command, period |-> r.period] \in Entries
    BY <2>1 DEF Requests, Entries
  <2> QED
    BY <1>6, <2>2 DEF BooksTypeOK, post_commit
<1>7. ASSUME NEW r \in inflight, rollback(r)
      PROVE  BooksTypeOK'
  BY <1>7 DEF BooksTypeOK, rollback
<1>8. CASE UNCHANGED books
  BY <1>8 DEF BooksTypeOK, books
<1> QED
  BY <1>1, <1>2, <1>3, <1>4, <1>5, <1>6, <1>7, <1>8 DEF BooksNext

LEMMA StepKeepsIntervals == ASSUME LedgerAssumption, BooksTypeOK, [BooksNext]_books PROVE KeepsIntervals
<1>1. CASE UNCHANGED periods
  BY <1>1 DEF KeepsIntervals
<1>2. ASSUME NEW n \in Names, close_accounting_period(n)
      PROVE  KeepsIntervals
  <2>1. periods[n] \in Periods
    BY <1>2 DEF BooksTypeOK, close_accounting_period, Created
  <2>2. /\ [periods[n] EXCEPT !.status = "CLOSED"] \in Periods
        /\ None \notin Periods
    BY <2>1 DEF Periods, LedgerAssumption
  <2>3. periods' = [periods EXCEPT ![n] = [periods[n] EXCEPT !.status = "CLOSED"]]
    BY <1>2 DEF close_accounting_period
  <2> QED
    BY <2>1, <2>2, <2>3 DEF KeepsIntervals, BooksTypeOK, Periods
<1>3. ASSUME NEW r \in inflight, period_commit(r)
      PROVE  KeepsIntervals
  BY <1>3 DEF KeepsIntervals, period_commit, BooksTypeOK
<1> QED
  BY <1>1, <1>2, <1>3 DEF BooksNext, books, create_ledger_account, create_accounting_period,
     post_journal, post_commit, rollback, Open

\* Whoever opens or drops a request leaves the entries alone; only an insert
\* adds one, the entry of an open request under an unused key.
LEMMA EntriesComeFromRequests ==
  ASSUME [BooksNext]_books
  PROVE  \/ UNCHANGED entries
         \/ \E r \in inflight : post_commit(r)
BY DEF BooksNext, books, create_ledger_account, create_accounting_period, close_accounting_period,
   post_journal, period_commit, rollback, Open

\* A request that was not open before has just read what it needs.
LEMMA RequestsComeFromReads ==
  ASSUME [BooksNext]_books
  PROVE  \/ inflight' \subseteq inflight
         \/ \E n \in Names, from, to \in Dates : create_accounting_period(n, from, to)
         \/ \E k \in EntryKeys, command \in Commands : post_journal(k, command)
BY DEF BooksNext, books, create_ledger_account, close_accounting_period, period_commit, post_commit, rollback

LEMMA StepPreservesEntries ==
  ASSUME BooksInv, [BooksNext]_books PROVE EntryInItsPeriod'
<1>1. KeepsIntervals
  BY StepKeepsIntervals, LedgerAssumption DEF BooksInv
<1>2. CASE UNCHANGED entries
  BY <1>1, <1>2 DEF BooksInv, BooksTypeOK, EntryInItsPeriod, KeepsIntervals, Covers, Entries
<1>3. ASSUME NEW r \in inflight, post_commit(r)
      PROVE  EntryInItsPeriod'
  <2>1. r \in Requests /\ r.kind = "post"
    BY <1>3 DEF BooksInv, BooksTypeOK, post_commit
  <2>2. /\ r.period \in Names
        /\ periods[r.period] # None
        /\ Covers(periods[r.period], r.command.date)
    BY <2>1 DEF BooksInv, PendingFits, Requests
  <2>3. ASSUME NEW k \in EntryKeys, entries'[k] # None
        PROVE  /\ periods'[entries'[k].period] # None
               /\ Covers(periods'[entries'[k].period], entries'[k].command.date)
    <3>1. CASE k = r.key
      <4>1. entries'[k] = [command |-> r.command, period |-> r.period]
        BY <1>3, <3>1 DEF post_commit, BooksInv, BooksTypeOK
      <4> QED
        BY <1>3, <2>2, <4>1 DEF post_commit
    <3>2. CASE k # r.key
      <4>1. entries'[k] = entries[k] /\ periods' = periods
        BY <1>3, <3>2 DEF post_commit, BooksInv, BooksTypeOK
      <4> QED
        BY <2>3, <4>1 DEF BooksInv, EntryInItsPeriod
    <3> QED
      BY <3>1, <3>2
  <2> QED
    BY <2>3 DEF EntryInItsPeriod
<1> QED
  BY <1>2, <1>3, EntriesComeFromRequests

LEMMA StepPreservesPending ==
  ASSUME BooksInv, [BooksNext]_books PROVE PendingFits'
<1>1. KeepsIntervals
  BY StepKeepsIntervals, LedgerAssumption DEF BooksInv
<1>2. CASE inflight' \subseteq inflight
  BY <1>1, <1>2 DEF BooksInv, BooksTypeOK, PendingFits, KeepsIntervals, Covers, Requests
<1>3. ASSUME NEW n \in Names, NEW from \in Dates, NEW to \in Dates, create_accounting_period(n, from, to)
      PROVE  PendingFits'
  BY <1>3 DEF BooksInv, PendingFits, create_accounting_period, Open
<1>4. ASSUME NEW k \in EntryKeys, NEW command \in Commands, post_journal(k, command)
      PROVE  PendingFits'
  BY <1>4 DEF BooksInv, PendingFits, post_journal, Open, Created
<1> QED
  BY <1>2, <1>3, <1>4, RequestsComeFromReads

\* BooksInv holds in every reachable state.
LEMMA BooksInvariance == BooksSpec => []BooksInv
<1>1. BooksInit => BooksInv
  BY DEF BooksInit, BooksInv, BooksTypeOK, EntryInItsPeriod, PendingFits
<1>2. BooksInv /\ [BooksNext]_books => BooksInv'
  BY StepTyped, StepPreservesEntries, StepPreservesPending, LedgerAssumption DEF BooksInv
<1> QED
  BY <1>1, <1>2, PTL DEF BooksSpec

\* Type correctness of the books.
THEOREM BooksTypeCorrect == BooksSpec => []BooksTypeOK
BY BooksInvariance, PTL DEF BooksInv

\* post_journal: an entry stays in a period that covers its date, with any
\* number of requests between the read of the period and the insert.
THEOREM EntriesKeepTheirPeriod == BooksSpec => []EntryInItsPeriod
BY BooksInvariance, PTL DEF BooksInv

\* post_journal: a key keeps the entry it was first used for.
THEOREM PostedAlways == BooksSpec => PostedIsFinal
<1>1. BooksTypeOK /\ [BooksNext]_books => [\A k \in EntryKeys : entries[k] # None => entries'[k] = entries[k]]_books
  <2> SUFFICES ASSUME BooksTypeOK, [BooksNext]_books, NEW k \in EntryKeys, entries[k] # None
               PROVE  entries'[k] = entries[k]
    OBVIOUS
  <2>1. ASSUME NEW r \in inflight, post_commit(r)
        PROVE  entries'[k] = entries[k]
    BY <2>1 DEF post_commit, BooksTypeOK
  <2> QED
    BY <2>1, EntriesComeFromRequests
<1> QED
  BY <1>1, BooksTypeCorrect, PTL DEF BooksSpec, PostedIsFinal

-----------------------------------------------------------------------------
(* The trial balance.  What post_journal has checked of a command outlives *)
(* its insert, because no account ever changes; so every row of the books  *)
(* sums up to zero over the accounts the report lists, and so do the       *)
(* columns, which is what the report adds.                                 *)

\* A command that was accepted: balanced, on accounts of its currency.
Accepted(command) == Balanced(command.postings) /\ AccountsFit(command)

Posted == {k \in EntryKeys : entries[k] # None}

PostedIsAccepted == \A k \in Posted : Accepted(entries[k].command)

PendingIsAccepted == \A r \in inflight : r.kind = "post" => Accepted(r.command)

BalanceInv == BooksTypeOK /\ PostedIsAccepted /\ PendingIsAccepted /\ IsFiniteSet(Posted)

\* No step takes an account away from a command that uses it.
LEMMA AcceptedStays ==
  ASSUME LedgerAssumption, BooksTypeOK, [BooksNext]_books
  PROVE  \A command \in Commands : Accepted(command) =>
           /\ Balanced(command.postings)
           /\ \A a \in Touched(command.postings) : accounts'[a] = command.currency
<1>1. ASSUME NEW b \in Accounts, accounts[b] # None PROVE accounts'[b] = accounts[b]
  <2>1. ASSUME NEW a \in Accounts, NEW currency \in Currencies, create_ledger_account(a, currency)
        PROVE  accounts'[b] = accounts[b]
    BY <1>1, <2>1 DEF create_ledger_account, BooksTypeOK
  <2> QED
    BY <2>1 DEF BooksNext, books, create_accounting_period, close_accounting_period, post_journal,
       period_commit, post_commit, rollback, Open
<1>2. \A command \in Commands : command.currency # None
  BY DEF Commands, LedgerAssumption
<1> QED
  BY <1>1, <1>2 DEF Accepted, AccountsFit, Touched

LEMMA StepKeepsPosted ==
  ASSUME LedgerAssumption, BalanceInv, [BooksNext]_books PROVE PostedIsAccepted' /\ IsFiniteSet(Posted)'
<1>1. BooksTypeOK /\ \A k \in Posted : entries[k].command \in Commands
  BY DEF BalanceInv, Posted, BooksTypeOK, Entries
<1>2. CASE UNCHANGED entries
  BY <1>1, <1>2, AcceptedStays DEF BalanceInv, PostedIsAccepted, Posted, Accepted, AccountsFit
<1>3. ASSUME NEW r \in inflight, post_commit(r)
      PROVE  PostedIsAccepted' /\ IsFiniteSet(Posted)'
  <2>1. /\ r.key \in EntryKeys \ Posted /\ r.command \in Commands
        /\ Accepted(r.command)
    BY <1>1, <1>3 DEF post_commit, BooksTypeOK, Requests, BalanceInv, PendingIsAccepted, Posted
  <2>2. entries'[r.key].command = r.command /\ accounts' = accounts
    BY <1>1, <1>3, <2>1 DEF post_commit, BooksTypeOK
  <2>3. \A k \in EntryKeys \ {r.key} : entries'[k] = entries[k]
    BY <1>1, <1>3, <2>1 DEF post_commit, BooksTypeOK
  <2>4. Posted' \subseteq Posted \union {r.key}
    BY <2>3 DEF Posted
  <2>5. IsFiniteSet(Posted)'
    BY <2>4, FS_AddElement, FS_Subset DEF BalanceInv
  <2>6. ASSUME NEW k \in Posted' PROVE Balanced(entries'[k].command.postings)
        /\ \A a \in Touched(entries'[k].command.postings) : accounts'[a] = entries'[k].command.currency
    <3>1. CASE k = r.key
      BY <2>1, <2>2, <3>1 DEF Accepted, AccountsFit
    <3>2. CASE k # r.key
      <4>1. k \in Posted /\ entries'[k] = entries[k]
        BY <2>3, <2>4, <3>2 DEF Posted
      <4> QED
        BY <2>2, <4>1 DEF BalanceInv, PostedIsAccepted, Accepted, AccountsFit
    <3> QED
      BY <3>1, <3>2
  <2> QED
    BY <2>5, <2>6 DEF PostedIsAccepted, Accepted, AccountsFit
<1> QED
  BY <1>2, <1>3, EntriesComeFromRequests

LEMMA StepKeepsPending ==
  ASSUME LedgerAssumption, BalanceInv, [BooksNext]_books PROVE PendingIsAccepted'
<1>1. BooksTypeOK /\ \A r \in inflight : r.kind = "post" => r.command \in Commands
  BY DEF BalanceInv, BooksTypeOK, Requests
<1>2. \A r \in inflight : r.kind = "post" =>
        /\ Balanced(r.command.postings)
        /\ \A a \in Touched(r.command.postings) : accounts'[a] = r.command.currency
  BY <1>1, AcceptedStays DEF BalanceInv, PendingIsAccepted
<1>3. CASE inflight' \subseteq inflight
  BY <1>2, <1>3 DEF PendingIsAccepted, Accepted, AccountsFit
<1>4. ASSUME NEW n \in Names, NEW from \in Dates, NEW to \in Dates, create_accounting_period(n, from, to)
      PROVE  PendingIsAccepted'
  BY <1>2, <1>4 DEF PendingIsAccepted, Accepted, AccountsFit, create_accounting_period, Open
<1>5. ASSUME NEW k \in EntryKeys, NEW command \in Commands, post_journal(k, command)
      PROVE  PendingIsAccepted'
  <2>1. \A r \in inflight' \ inflight : r.command = command
    BY <1>5 DEF post_journal, Open
  <2>2. Balanced(command.postings) /\ (\A a \in Touched(command.postings) : accounts'[a] = command.currency)
    BY <1>5 DEF post_journal, Open, AccountsFit
  <2> QED
    BY <1>2, <2>1, <2>2 DEF PendingIsAccepted, Accepted, AccountsFit
<1> QED
  BY <1>3, <1>4, <1>5, RequestsComeFromReads

\* A posted entry of the currency sums up to zero over the accounts that the report lists.
LEMMA RowsBalance ==
  ASSUME LedgerAssumption, BalanceInv, NEW currency \in Currencies, NEW k \in Posted,
         entries[k].command.currency = currency
  PROVE  /\ \A a \in Accounts : entries[k].command.postings[a] \in Int
         /\ SumFunctionOnSet(entries[k].command.postings, Listed(currency)) = 0
<1> DEFINE f == entries[k].command.postings
           T == Listed(currency)
<1>1. f \in [Accounts -> Int]
  BY DEF BalanceInv, BooksTypeOK, Posted, Entries, Commands, LedgerAssumption
<1>2. Balanced(f) /\ AccountsFit(entries[k].command)
  BY DEF BalanceInv, PostedIsAccepted, Accepted
<1>3. \A x \in Accounts \ T : f[x] = 0
  BY <1>2 DEF AccountsFit, Touched, Listed
<1>4. T \in SUBSET Accounts /\ IsFiniteSet(Accounts)
  BY DEF Listed, LedgerAssumption
<1>5. SumFunctionOnSet(f, Accounts) = 0
  BY <1>1, <1>2 DEF Balanced, SumFunction
<1> HIDE DEF f, T
<1>6. SumFunctionOnSet(f, Accounts) = SumFunctionOnSet(f, T)
  BY <1>1, <1>3, <1>4, SumOutside DEF Ints
<1>7. (\A a \in Accounts : f[a] \in Int) /\ SumFunctionOnSet(f, T) = 0
  BY <1>1, <1>5, <1>6
<1> QED
  BY <1>7 DEF f, T

LEMMA BalanceAdds == ASSUME LedgerAssumption, BalanceInv PROVE TrialBalances
<1> SUFFICES ASSUME NEW currency \in Currencies, NEW date \in Dates PROVE trial_balance(currency, date) = 0
  BY DEF TrialBalances
<1> DEFINE A == Listed(currency)
           K == Counted(currency, date)
           p == [k \in K |-> entries[k].command.postings]
<1>1. IsFiniteSet(A) /\ IsFiniteSet(K)
  BY FS_Subset DEF Listed, Counted, BalanceInv, Posted, LedgerAssumption
<1>2. \A k \in K : Ints(p[k], A) /\ SumFunctionOnSet(p[k], A) = 0
  BY RowsBalance DEF Counted, Posted, Listed, Ints
<1>3. trial_balance(currency, date)
        = SumFunctionOnSet([a \in A |-> SumFunctionOnSet([k \in K |-> p[k][a]], K)], A)
  BY DEF trial_balance, Total, SumFunction
<1> HIDE DEF A, K, p
<1> QED
  BY <1>1, <1>2, <1>3, ColumnsBalance

\* trial_balance: the totals of the accounts of a currency add up to zero at every
\* date, whatever was posted and whichever requests ran side by side.
THEOREM TrialBalancesAlways == BooksSpec => []TrialBalances
<1>1. BooksInit => BalanceInv
  <2> SUFFICES ASSUME BooksInit PROVE BalanceInv
    OBVIOUS
  <2>1. Posted = {}
    BY DEF Posted, BooksInit
  <2> QED
    BY <2>1, FS_EmptySet DEF BooksInit, BalanceInv, BooksTypeOK, PostedIsAccepted, PendingIsAccepted
<1>2. BalanceInv /\ [BooksNext]_books => BalanceInv'
  BY StepTyped, StepKeepsPosted, StepKeepsPending, LedgerAssumption DEF BalanceInv
<1>3. BalanceInv => TrialBalances
  BY BalanceAdds, LedgerAssumption
<1> QED
  BY <1>1, <1>2, <1>3, PTL DEF BooksSpec

-----------------------------------------------------------------------------
(* Sealed periods.                                                         *)

\* Two periods over one date overlap.
LEMMA SharedDateOverlaps ==
  ASSUME LedgerAssumption, BooksTypeOK, NEW m \in Created, NEW n \in Created, NEW date \in Dates,
         Covers(periods[m], date), Covers(periods[n], date)
  PROVE  Overlap(periods[m], periods[n])
<1>1. periods[m] \in Periods /\ periods[n] \in Periods /\ Dates \subseteq Int
  BY DEF BooksTypeOK, Created, LedgerAssumption
<1>2. /\ periods[m].from \in Int /\ periods[m].to \in Int
      /\ periods[n].from \in Int /\ periods[n].to \in Int /\ date \in Int
  BY <1>1 DEF Periods
<1> QED
  BY <1>2 DEF Overlap, Covers

\* Nobody reopens a period.
LEMMA StepKeepsClosed ==
  ASSUME BooksTypeOK, [BooksNext]_books, NEW n \in Names, n \in Created, periods[n].status = "CLOSED"
  PROVE  n \in Created' /\ periods'[n] = periods[n]
<1>1. CASE UNCHANGED periods
  BY <1>1 DEF Created
<1>2. ASSUME NEW m \in Names, close_accounting_period(m)
      PROVE  n \in Created' /\ periods'[n] = periods[n]
  BY <1>2 DEF close_accounting_period, BooksTypeOK, Created
<1>3. ASSUME NEW r \in inflight, period_commit(r)
      PROVE  n \in Created' /\ periods'[n] = periods[n]
  BY <1>3 DEF period_commit, BooksTypeOK, Created
<1> QED
  BY <1>1, <1>2, <1>3 DEF BooksNext, books, create_ledger_account, create_accounting_period,
     post_journal, post_commit, rollback, Open

\* No new entry lies inside a sealed period.
LEMMA SealedKeepsEntries ==
  ASSUME BooksInv, [BooksNext]_books, NEW n \in Names, Sealed(n)
  PROVE  DatedIn(n)' = DatedIn(n)
<1>1. periods'[n] = periods[n]
  BY StepKeepsClosed DEF BooksInv, Sealed
<1>2. CASE UNCHANGED entries
  BY <1>1, <1>2 DEF DatedIn
<1>3. ASSUME NEW r \in inflight, post_commit(r)
      PROVE  DatedIn(n)' = DatedIn(n)
  <2>1. r \in Requests /\ r.kind = "post"
    BY <1>3 DEF BooksInv, BooksTypeOK, post_commit
  <2>2. r.key \in EntryKeys /\ ~Covers(periods[n], r.command.date)
    BY <2>1 DEF Sealed, Requests
  <2>3. /\ entries[r.key] = None
        /\ entries'[r.key] = [command |-> r.command, period |-> r.period]
        /\ \A k \in EntryKeys \ {r.key} : entries'[k] = entries[k]
    BY <1>3, <2>2 DEF post_commit, BooksInv, BooksTypeOK
  <2>4. r.key \notin DatedIn(n) /\ r.key \notin DatedIn(n)'
    BY <1>1, <2>2, <2>3 DEF DatedIn
  <2>5. \A k \in EntryKeys \ {r.key} : k \in DatedIn(n)' <=> k \in DatedIn(n)
    BY <1>1, <2>3 DEF DatedIn
  <2>6. DatedIn(n) \subseteq EntryKeys /\ DatedIn(n)' \subseteq EntryKeys
    BY DEF DatedIn
  <2> QED
    BY <2>4, <2>5, <2>6
<1> QED
  BY <1>2, <1>3, EntriesComeFromRequests

\* No request that could reach into a sealed period is opened.
LEMMA SealedKeepsRequestsOut ==
  ASSUME LedgerAssumption, BooksInv, [BooksNext]_books, NEW n \in Names, Sealed(n)
  PROVE  \A r \in inflight' :
           /\ r.kind = "post" => ~Covers(periods[n], r.command.date)
           /\ r.kind = "period" => ~Overlap(periods[n], r)
<1>1. CASE inflight' \subseteq inflight
  BY <1>1 DEF Sealed
<1>2. ASSUME NEW m \in Names, NEW from \in Dates, NEW to \in Dates, create_accounting_period(m, from, to)
      PROVE  \A r \in inflight' :
               /\ r.kind = "post" => ~Covers(periods[n], r.command.date)
               /\ r.kind = "period" => ~Overlap(periods[n], r)
  BY <1>2 DEF Sealed, create_accounting_period, Open, Overlap
<1>3. ASSUME NEW k \in EntryKeys, NEW command \in Commands, post_journal(k, command)
      PROVE  \A r \in inflight' :
               /\ r.kind = "post" => ~Covers(periods[n], r.command.date)
               /\ r.kind = "period" => ~Overlap(periods[n], r)
  <2>1. PICK m \in Created :
          /\ Covers(periods[m], command.date)
          /\ periods[m].status = "OPEN"
          /\ Open([kind |-> "post", key |-> k, command |-> command, period |-> m])
    BY <1>3 DEF post_journal
  <2>2. m # n /\ command.date \in Dates
    BY <2>1 DEF Sealed, Commands
  <2>3. ~Covers(periods[n], command.date)
    BY <2>1, <2>2, SharedDateOverlaps DEF Sealed, BooksInv
  <2> QED
    BY <2>1, <2>3 DEF Sealed, Open
<1> QED
  BY <1>1, <1>2, <1>3, RequestsComeFromReads

\* No other period comes to share the dates of a sealed one.
LEMMA SealedKeepsPeriodsOut ==
  ASSUME LedgerAssumption, BooksInv, [BooksNext]_books, NEW n \in Names, Sealed(n)
  PROVE  \A m \in Created' : m # n => ~Overlap(periods'[m], periods[n])
<1>1. CASE UNCHANGED periods
  BY <1>1 DEF Sealed, Created
<1>2. ASSUME NEW c \in Names, close_accounting_period(c)
      PROVE  \A m \in Created' : m # n => ~Overlap(periods'[m], periods[n])
  <2>1. KeepsIntervals
    BY StepKeepsIntervals DEF BooksInv
  <2>2. Created' = Created
    BY <1>2, <2>1 DEF close_accounting_period, Created, KeepsIntervals, BooksInv, BooksTypeOK
  <2> QED
    BY <2>1, <2>2 DEF Sealed, Overlap, KeepsIntervals, Created
<1>3. ASSUME NEW r \in inflight, period_commit(r)
      PROVE  \A m \in Created' : m # n => ~Overlap(periods'[m], periods[n])
  <2>1. r \in Requests /\ r.kind = "period"
    BY <1>3 DEF BooksInv, BooksTypeOK, period_commit
  <2>2. ~Overlap(periods[n], r) /\ r.name \in Names
    BY <2>1 DEF Sealed, Requests
  <2>3. /\ periods'[r.name] = [from |-> r.from, to |-> r.to, status |-> "OPEN"]
        /\ \A m \in Names \ {r.name} : periods'[m] = periods[m]
    BY <1>3, <2>2 DEF period_commit, BooksInv, BooksTypeOK
  <2> QED
    BY <2>2, <2>3 DEF Sealed, Overlap, Created
<1> QED
  BY <1>1, <1>2, <1>3 DEF BooksNext, books, create_ledger_account, create_accounting_period,
     post_journal, post_commit, rollback, Open

\* close_accounting_period, create_accounting_period and post_journal side by
\* side: the books of a sealed period are final.
THEOREM SealedFinal == BooksSpec => SealedBooksAreFinal
<1> DEFINE Final == \A n \in Names : Sealed(n) => Sealed(n)' /\ DatedIn(n)' = DatedIn(n)
<1>1. BooksInv /\ [BooksNext]_books => [Final]_books
  <2> SUFFICES ASSUME BooksInv, [BooksNext]_books, NEW n \in Names, Sealed(n)
               PROVE  Sealed(n)' /\ DatedIn(n)' = DatedIn(n)
    OBVIOUS
  <2>1. n \in Created' /\ periods'[n] = periods[n]
    BY StepKeepsClosed DEF BooksInv, Sealed
  <2>2. Sealed(n)'
    BY <2>1, SealedKeepsRequestsOut, SealedKeepsPeriodsOut, LedgerAssumption DEF Sealed
  <2> QED
    BY <2>2, SealedKeepsEntries
<1> QED
  BY <1>1, BooksInvariance, PTL DEF BooksSpec, SealedBooksAreFinal

-----------------------------------------------------------------------------
(* One request at a time.                                                  *)

\* The only open request still finds the books as it read them.
ReadsAreCurrent ==
  \A r \in inflight :
    /\ inflight = {r}
    /\ r.kind = "period" => \A m \in Created : ~Overlap(periods[m], r)
    /\ r.kind = "post" => /\ r.period \in Created
                          /\ Covers(periods[r.period], r.command.date)
                          /\ periods[r.period].status = "OPEN"

SerialInductive == BooksTypeOK /\ PeriodsDoNotOverlap /\ ReadsAreCurrent

\* With Alone a step opens the only request or leaves none open.
LEMMA StepPreservesReads ==
  ASSUME SerialInductive, [BooksNext /\ Alone]_books PROVE ReadsAreCurrent'
<1>1. CASE inflight' = {}
  BY <1>1 DEF ReadsAreCurrent
<1>2. CASE UNCHANGED books
  BY <1>2 DEF SerialInductive, ReadsAreCurrent, books, Created
<1>3. CASE BooksNext /\ inflight = {} /\ inflight' # {}
  <2>1. ASSUME NEW n \in Names, NEW from \in Dates, NEW to \in Dates, create_accounting_period(n, from, to)
        PROVE  ReadsAreCurrent'
    BY <1>3, <2>1 DEF ReadsAreCurrent, create_accounting_period, Open, Created, Overlap
  <2>2. ASSUME NEW k \in EntryKeys, NEW command \in Commands, post_journal(k, command)
        PROVE  ReadsAreCurrent'
    BY <1>3, <2>2 DEF ReadsAreCurrent, post_journal, Open, Created
  <2> QED
    BY <1>3, <2>1, <2>2, RequestsComeFromReads
<1> QED
  BY <1>1, <1>2, <1>3 DEF Alone

LEMMA StepPreservesPeriods ==
  ASSUME LedgerAssumption, SerialInductive, [BooksNext /\ Alone]_books PROVE PeriodsDoNotOverlap'
<1>1. CASE UNCHANGED periods
  BY <1>1 DEF SerialInductive, PeriodsDoNotOverlap, Created
<1>2. ASSUME NEW n \in Names, close_accounting_period(n)
      PROVE  PeriodsDoNotOverlap'
  BY <1>2 DEF SerialInductive, BooksTypeOK, PeriodsDoNotOverlap, close_accounting_period, Created, Overlap, Periods
<1>3. ASSUME NEW r \in inflight, period_commit(r)
      PROVE  PeriodsDoNotOverlap'
  <2>1. r \in Requests /\ r.kind = "period"
    BY <1>3 DEF SerialInductive, BooksTypeOK, period_commit
  <2>2. \A m \in Created : ~Overlap(periods[m], r)
    BY <2>1 DEF SerialInductive, ReadsAreCurrent
  <2>3. r.name \in Names /\ r.name \notin Created
    BY <1>3, <2>1 DEF period_commit, Created, Requests
  <2>4. /\ periods'[r.name] = [from |-> r.from, to |-> r.to, status |-> "OPEN"]
        /\ \A m \in Names \ {r.name} : periods'[m] = periods[m]
    BY <1>3, <2>3 DEF period_commit, SerialInductive, BooksTypeOK
  <2>5. \A m \in Created' : m \in Created \/ m = r.name
    BY <2>4 DEF Created
  <2>6. \A m \in Created : ~Overlap(periods'[m], periods'[r.name]) /\ ~Overlap(periods'[r.name], periods'[m])
    BY <2>2, <2>3, <2>4 DEF Overlap, Created
  <2> QED
    BY <2>3, <2>4, <2>5, <2>6 DEF SerialInductive, PeriodsDoNotOverlap, Created
<1> QED
  BY <1>1, <1>2, <1>3 DEF BooksNext, books, create_ledger_account, create_accounting_period,
     post_journal, post_commit, rollback, Open

LEMMA SerialInvariance == SerialSpec => []SerialInductive
<1>1. BooksInit => SerialInductive
  BY DEF BooksInit, SerialInductive, BooksTypeOK, PeriodsDoNotOverlap, ReadsAreCurrent, Created
<1>2. SerialInductive /\ [BooksNext /\ Alone]_books => SerialInductive'
  <2> SUFFICES ASSUME SerialInductive, [BooksNext /\ Alone]_books PROVE SerialInductive'
    OBVIOUS
  <2>1. [BooksNext]_books
    OBVIOUS
  <2> QED
    BY <2>1, StepTyped, StepPreservesPeriods, StepPreservesReads, LedgerAssumption DEF SerialInductive
<1> QED
  BY <1>1, <1>2, PTL DEF SerialSpec

\* create_accounting_period: checked one request at a time, the periods of an
\* organization never overlap.
THEOREM PeriodsApart == SerialSpec => []PeriodsDoNotOverlap
BY SerialInvariance, PTL DEF SerialInductive

\* Two periods over one date are the same period.
LEMMA OnePeriodPerDate ==
  ASSUME LedgerAssumption, BooksTypeOK, PeriodsDoNotOverlap, NEW m \in Created, NEW n \in Created,
         NEW date \in Dates, Covers(periods[m], date), Covers(periods[n], date)
  PROVE  m = n
BY SharedDateOverlaps DEF PeriodsDoNotOverlap

\* close_accounting_period and post_journal: one request at a time, nothing is
\* posted any more inside a closed period.
THEOREM ClosedFinal == SerialSpec => ClosedBooksAreFinal
<1> DEFINE Final == \A n \in Names : n \in Created /\ periods[n].status = "CLOSED" => DatedIn(n)' = DatedIn(n)
<1>1. SerialInductive /\ [BooksNext /\ Alone]_books => [Final]_books
  <2> SUFFICES ASSUME SerialInductive, [BooksNext]_books, NEW n \in Names, n \in Created,
                      periods[n].status = "CLOSED"
               PROVE  DatedIn(n)' = DatedIn(n)
    OBVIOUS
  <2>1. periods'[n] # None /\ periods'[n].from = periods[n].from /\ periods'[n].to = periods[n].to
    BY StepKeepsIntervals, LedgerAssumption DEF SerialInductive, KeepsIntervals, Created
  <2>2. CASE UNCHANGED entries
    BY <2>1, <2>2 DEF DatedIn, Covers
  <2>3. ASSUME NEW r \in inflight, post_commit(r)
        PROVE  DatedIn(n)' = DatedIn(n)
    <3>1. r \in Requests /\ r.kind = "post"
      BY <2>3 DEF SerialInductive, BooksTypeOK, post_commit
    <3>2. /\ r.period \in Created /\ periods[r.period].status = "OPEN"
          /\ Covers(periods[r.period], r.command.date)
      BY <3>1 DEF SerialInductive, ReadsAreCurrent
    <3>3. r.key \in EntryKeys /\ r.command.date \in Dates
      BY <3>1 DEF Requests, Commands
    <3>4. ~Covers(periods[n], r.command.date)
      BY <3>2, <3>3, OnePeriodPerDate, LedgerAssumption DEF SerialInductive
    <3>5. /\ entries[r.key] = None
          /\ entries'[r.key] = [command |-> r.command, period |-> r.period]
          /\ \A k \in EntryKeys \ {r.key} : entries'[k] = entries[k]
          /\ periods' = periods
      BY <2>3, <3>3 DEF post_commit, SerialInductive, BooksTypeOK
    <3>6. r.key \notin DatedIn(n) /\ r.key \notin DatedIn(n)'
      BY <3>4, <3>5 DEF DatedIn
    <3>7. \A k \in EntryKeys \ {r.key} : k \in DatedIn(n)' <=> k \in DatedIn(n)
      BY <3>5 DEF DatedIn
    <3>8. DatedIn(n) \subseteq EntryKeys /\ DatedIn(n)' \subseteq EntryKeys
      BY DEF DatedIn
    <3> QED
      BY <3>6, <3>7, <3>8
  <2> QED
    BY <2>2, <2>3, EntriesComeFromRequests
<1> QED
  BY <1>1, SerialInvariance, PTL DEF SerialSpec, ClosedBooksAreFinal
=============================================================================
