-------------------------- MODULE RunReportProofs --------------------------
(***************************************************************************)
(* Three theorems about a run's report, for every value of the constants:  *)
(* the account, the ledgers and the attributed positions agree, the        *)
(* ledger explains the equity, and the figures of a streamed run are those *)
(* of a kept curve.                                                        *)
(*                                                                         *)
(* All are about folds.  A fold over a sequence is a path: what it comes   *)
(* to after each prefix (`FoldRuns`); so a ledger of one more fill is one  *)
(* more entry in the ledger (`LedgerGrows`), and two folds over one curve  *)
(* are compared sample by sample (`AlikeGrows`).  The lemmas on folds take *)
(* the step as a function h, since a lemma cannot take an operator; each   *)
(* ...Runs lemma shows that a fold of the model is one of those.           *)
(***************************************************************************)
EXTENDS RunReport, SequenceTheorems, FiniteSetTheorems, WellFoundedInduction, TLAPS

-----------------------------------------------------------------------------
(***************************************************************************)
(* Folds.  A fold takes the elements of a finite set one by one, `Pick`    *)
(* says in which order; `h` takes an element and what the rest came to.    *)
(***************************************************************************)
LEMMA LeastNumber ==
  ASSUME NEW T \in SUBSET Nat, T # {}
  PROVE  \E m \in T : \A k \in T : m <= k
<1> DEFINE Less == OpToRel(<, Nat)
<1>1. IsWellFoundedOn(Less, Nat)
  BY NatLessThanWellFounded
<1>2. PICK m \in T : \A k \in T : ~ (<<k, m>> \in Less)
  <2> HIDE DEF Less
  <2> QED
    BY <1>1, WFMin
<1>3. \A k \in T : ~ (k < m)
  BY <1>2 DEF OpToRel
<1> QED
  BY <1>3

LEMMA LeastSubset ==
  ASSUME NEW S, IsFiniteSet(S), NEW T \in SUBSET SUBSET S, T # {}
  PROVE  \E m \in T : \A k \in T : k \subseteq m => k = m
<1>1. IsWellFoundedOn(StrictSubsetOrdering(S), SUBSET S)
  BY FS_StrictSubsetOrderingWellFounded, FS_FiniteSubsetsOfFinite
<1>2. PICK m \in T : \A k \in T : ~ (<<k, m>> \in StrictSubsetOrdering(S))
  BY <1>1, WFMin
<1>3. \A k \in T : k \subseteq m => k = m
  BY <1>2 DEF StrictSubsetOrdering
<1> QED
  BY <1>3

\* The element that a fold takes: the last of a sequence's indices, or any.
Pick(way, s) == IF way = "last" THEN Max(s) ELSE CHOOSE x \in s : TRUE

Ranged(way, S) == way = "last" => \E n \in Nat : S \subseteq 1..n

LEMMA GreatestIsMax ==
  ASSUME NEW n \in Nat, NEW s \in SUBSET (1..n), s # {}
  PROVE  Max(s) \in s /\ \A x \in s : x <= Max(s)
<1> DEFINE T == {b \in Nat : \A x \in s : x <= b}
<1>1. n \in T
  OBVIOUS
<1>2. PICK m \in T : \A k \in T : m <= k
  <2>1. T \in SUBSET Nat /\ T # {}
    BY <1>1
  <2> HIDE DEF T
  <2> QED
    BY <2>1, LeastNumber
<1>3. m \in s
  <2> SUFFICES ASSUME m \notin s PROVE FALSE
    OBVIOUS
  <2>1. PICK x \in s : TRUE
    OBVIOUS
  <2>2. m \in Nat /\ x \in 1..n /\ x <= m /\ x # m
    BY <1>2
  <2>3. m - 1 \in Nat /\ \A y \in s : y <= m - 1
    BY <1>2, <2>2
  <2>4. m - 1 \in T
    BY <2>3
  <2> QED
    BY <1>2, <2>2, <2>4
<1>4. \A x \in s : m >= x
  BY <1>2
<1>5. \A x \in s : x \in Int
  OBVIOUS
<1>6. /\ Max(s) \in s
      /\ \A x \in s : Max(s) >= x
  BY <1>3, <1>4 DEF Max
<1> QED
  BY <1>5, <1>6

LEMMA PickIsIn ==
  ASSUME NEW way, NEW S, Ranged(way, S), NEW s \in SUBSET S, s # {}
  PROVE  /\ Pick(way, s) \in s
         /\ s \ {Pick(way, s)} \subseteq s /\ s \ {Pick(way, s)} # s
<1>1. Pick(way, s) \in s
  BY GreatestIsMax DEF Pick, Ranged
<1> QED
  BY <1>1

\* `g` folds every subset of `S`.
Folds(g, h, base, way, S) ==
  g = [s \in SUBSET S |->
         IF s = {} THEN base ELSE h[<<Pick(way, s), g[s \ {Pick(way, s)}]>>]]

LEMMA FoldsAt ==
  ASSUME NEW g, NEW h, NEW base, NEW way, NEW S, Folds(g, h, base, way, S), NEW s \in SUBSET S
  PROVE  g[s] = IF s = {} THEN base ELSE h[<<Pick(way, s), g[s \ {Pick(way, s)}]>>]
<1> DEFINE F(t) == IF t = {} THEN base ELSE h[<<Pick(way, t), g[t \ {Pick(way, t)}]>>]
<1>1. g = [t \in SUBSET S |-> F(t)]
  BY DEF Folds
<1> HIDE DEF F
<1>2. g[s] = F(s)
  BY <1>1
<1> QED
  BY <1>2 DEF F

LEMMA FoldsAgree ==
  ASSUME NEW h, NEW base, NEW way, NEW S, IsFiniteSet(S), NEW T, S \subseteq T,
         Ranged(way, S), NEW f, Folds(f, h, base, way, S), NEW g, Folds(g, h, base, way, T)
  PROVE  f[S] = g[S]
<1> DEFINE Bad == {s \in SUBSET S : f[s] # g[s]}
<1> SUFFICES ASSUME Bad # {} PROVE FALSE
  OBVIOUS
<1>1. Bad \in SUBSET SUBSET S
  OBVIOUS
<1>2. PICK m \in Bad : \A k \in Bad : k \subseteq m => k = m
  <2> HIDE DEF Bad
  <2> QED
    BY <1>1, LeastSubset
<1> DEFINE r == m \ {Pick(way, m)}
<1>3. /\ f[m] = IF m = {} THEN base ELSE h[<<Pick(way, m), f[r]>>]
      /\ g[m] = IF m = {} THEN base ELSE h[<<Pick(way, m), g[r]>>]
  BY FoldsAt
<1>4. m # {} => f[r] = g[r]
  BY <1>2, PickIsIn
<1> QED
  BY <1>3, <1>4

LEMMA FoldsExist ==
  ASSUME NEW h, NEW base, NEW way, NEW S, IsFiniteSet(S), Ranged(way, S)
  PROVE  \E g : Folds(g, h, base, way, S)
<1> DEFINE Bad == {s \in SUBSET S : ~ \E g : Folds(g, h, base, way, s)}
<1> SUFFICES ASSUME Bad # {} PROVE FALSE
  OBVIOUS
<1>1. Bad \in SUBSET SUBSET S
  OBVIOUS
<1>2. PICK m \in Bad : \A k \in Bad : k \subseteq m => k = m
  <2> HIDE DEF Bad
  <2> QED
    BY <1>1, LeastSubset
<1> DEFINE Rest(s) == s \ {Pick(way, s)}
           Of(s) == CHOOSE g : Folds(g, h, base, way, s)
           V == [s \in SUBSET m |-> Of(s)[s]]
           top == IF m = {} THEN base ELSE h[<<Pick(way, m), V[Rest(m)]>>]
           g == [s \in SUBSET m |-> IF s = m THEN top ELSE V[s]]
           Body(s) == IF s = {} THEN base ELSE h[<<Pick(way, s), g[Rest(s)]>>]
<1>3. \A s \in SUBSET m : s # m => Folds(Of(s), h, base, way, s)
  BY <1>2
<1>4. \A s \in SUBSET m : IsFiniteSet(s) /\ Ranged(way, s)
  BY FS_Subset DEF Ranged
<1>5. ASSUME NEW s \in SUBSET m PROVE g[s] = Body(s)
  <2>1. CASE s = m
    <3>1. m # {} => g[Rest(m)] = V[Rest(m)]
      BY PickIsIn
    <3> QED
      BY <2>1, <3>1
  <2>2. CASE s # m /\ s = {}
    <3>1. Of(s)[s] = base
      BY <1>3, <2>2, FoldsAt
    <3> QED
      BY <2>2, <3>1
  <2>3. CASE s # m /\ s # {}
    <3> DEFINE r == Rest(s)
    <3>1. r \in SUBSET s /\ r \in SUBSET m /\ r # m
      BY <2>3, PickIsIn
    <3>2. /\ Folds(Of(s), h, base, way, s) /\ Folds(Of(r), h, base, way, r)
          /\ IsFiniteSet(r) /\ Ranged(way, r)
      BY <1>3, <1>4, <2>3, <3>1
    <3> HIDE DEF Of, r
    <3>3. Of(s)[s] = h[<<Pick(way, s), Of(s)[r]>>]
      BY <2>3, <3>2, FoldsAt DEF r
    <3>4. Of(r)[r] = Of(s)[r]
      BY <3>1, <3>2, FoldsAgree
    <3>5. g[s] = Of(s)[s] /\ g[r] = Of(r)[r]
      BY <2>3, <3>1
    <3> QED
      BY <2>3, <3>3, <3>4, <3>5 DEF r
  <2> QED
    BY <2>1, <2>2, <2>3
<1>6. g = [s \in SUBSET m |-> g[s]]
  OBVIOUS
<1> HIDE DEF g
<1>7. g = [s \in SUBSET m |-> Body(s)]
  <2> HIDE DEF Body
  <2> QED
    BY <1>5, <1>6
<1>8. Folds(g, h, base, way, m)
  BY <1>7 DEF Folds
<1> QED
  BY <1>8

LEMMA FoldsTyped ==
  ASSUME NEW h, NEW base, NEW way, NEW S, IsFiniteSet(S), Ranged(way, S), NEW R, base \in R,
         \A x \in S, a \in R : h[<<x, a>>] \in R,
         NEW g, Folds(g, h, base, way, S)
  PROVE  \A s \in SUBSET S : g[s] \in R
<1> DEFINE Bad == {s \in SUBSET S : g[s] \notin R}
<1> SUFFICES ASSUME Bad # {} PROVE FALSE
  OBVIOUS
<1>1. Bad \in SUBSET SUBSET S
  OBVIOUS
<1>2. PICK m \in Bad : \A k \in Bad : k \subseteq m => k = m
  <2> HIDE DEF Bad
  <2> QED
    BY <1>1, LeastSubset
<1> DEFINE r == m \ {Pick(way, m)}
<1>3. g[m] = IF m = {} THEN base ELSE h[<<Pick(way, m), g[r]>>]
  BY FoldsAt
<1>4. m # {} => Pick(way, m) \in S /\ g[r] \in R
  BY <1>2, PickIsIn
<1> QED
  BY <1>3, <1>4

\* A fold over a sequence, prefix by prefix.
Path(b, h, base, n, R) ==
  /\ b \in [0..n -> R] /\ b[0] = base
  /\ \A k \in 1..n : b[k] = h[<<k, b[k - 1]>>]

SameSteps(h, k, n, R) == \A i \in 1..n, a \in R : h[<<i, a>>] = k[<<i, a>>]

LEMMA PathsAgree ==
  ASSUME NEW n \in Nat, NEW m \in Nat, n <= m, NEW R, NEW base, NEW h, NEW k,
         SameSteps(h, k, n, R),
         NEW b, Path(b, h, base, n, R), NEW c, Path(c, k, base, m, R)
  PROVE  b[n] = c[n]
<1> SUFFICES \A i \in 0..n : b[i] = c[i]
  OBVIOUS
<1> DEFINE Bad == {i \in 0..n : b[i] # c[i]}
<1> SUFFICES ASSUME Bad # {} PROVE FALSE
  OBVIOUS
<1>1. PICK i \in Bad : \A j \in Bad : i <= j
  <2>1. Bad \in SUBSET Nat
    OBVIOUS
  <2> HIDE DEF Bad
  <2> QED
    BY <2>1, LeastNumber
<1>2. CASE i = 0
  BY <1>2 DEF Path
<1>3. CASE i # 0
  <2>1. i \in 1..n /\ i \in 1..m /\ i - 1 \in 0..n /\ b[i - 1] \in R
    BY <1>3 DEF Path
  <2>2. b[i - 1] = c[i - 1]
    BY <1>1, <2>1
  <2>3. b[i] = h[<<i, b[i - 1]>>] /\ c[i] = k[<<i, c[i - 1]>>]
    BY <2>1 DEF Path
  <2> QED
    BY <2>1, <2>2, <2>3 DEF SameSteps
<1> QED
  BY <1>2, <1>3

\* The prefixes of a sequence's indices, which a fold takes from the end.
LEMMA LastOfPrefix ==
  ASSUME NEW k \in Nat \ {0}
  PROVE  Max(1..k) = k /\ (1..k) \ {k} = 1..(k - 1) /\ 1..k # {}
<1> DEFINE s == 1..k
<1>1. k \in s /\ s \in SUBSET (1..k) /\ k \in Nat
  OBVIOUS
<1>2. Max(s) \in s /\ \A x \in s : x <= Max(s)
  <2> HIDE DEF s
  <2> QED
    BY <1>1, GreatestIsMax
<1>3. Max(s) \in Nat /\ Max(s) <= k /\ k <= Max(s)
  BY <1>1, <1>2
<1>4. Max(s) = k
  <2> HIDE DEF s
  <2> QED
    BY <1>1, <1>3
<1>5. s \ {k} = 1..(k - 1)
  OBVIOUS
<1> QED
  BY <1>1, <1>4, <1>5

LEMMA FoldIsPath ==
  ASSUME NEW n \in Nat, NEW R, NEW base \in R, NEW h,
         \A k \in 1..n, a \in R : h[<<k, a>>] \in R
  PROVE  \E g : /\ Folds(g, h, base, "last", 1..n)
                /\ \A s \in SUBSET (1..n) : g[s] \in R
                /\ Path([k \in 0..n |-> g[1..k]], h, base, n, R)
<1>1. IsFiniteSet(1..n) /\ Ranged("last", 1..n)
  <2>1. IsFiniteSet(1..n)
    BY FS_Interval
  <2> QED
    BY <2>1 DEF Ranged
<1>2. PICK g : Folds(g, h, base, "last", 1..n)
  <2> DEFINE S == 1..n
  <2> HIDE DEF S
  <2>1. \E g : Folds(g, h, base, "last", S)
    BY <1>1, FoldsExist DEF S
  <2> QED
    BY <2>1 DEF S
<1>3. \A s \in SUBSET (1..n) : g[s] \in R
  <2> DEFINE S == 1..n
  <2>1. \A x \in S, a \in R : h[<<x, a>>] \in R
    OBVIOUS
  <2>2. IsFiniteSet(S) /\ Ranged("last", S) /\ Folds(g, h, base, "last", S)
    BY <1>1, <1>2
  <2> HIDE DEF S
  <2>3. \A s \in SUBSET S : g[s] \in R
    BY <2>1, <2>2, FoldsTyped
  <2> QED
    BY <2>3 DEF S
<1> DEFINE b == [k \in 0..n |-> g[1..k]]
<1>4. b \in [0..n -> R]
  <2>1. \A k \in 0..n : 1..k \in SUBSET (1..n)
    OBVIOUS
  <2> QED
    BY <1>3, <2>1
<1>5. b[0] = base
  <2>1. {} \in SUBSET (1..n) /\ 1..0 = {}
    OBVIOUS
  <2>2. g[{}] = base
    BY <1>2, <2>1, FoldsAt
  <2> QED
    BY <2>1, <2>2
<1>6. ASSUME NEW k \in 1..n PROVE b[k] = h[<<k, b[k - 1]>>]
  <2> DEFINE s == 1..k
  <2>1. s \in SUBSET (1..n) /\ k \in Nat \ {0} /\ k - 1 \in 0..n
    OBVIOUS
  <2>2. Max(s) = k /\ s \ {k} = 1..(k - 1) /\ s # {}
    BY <2>1, LastOfPrefix
  <2> HIDE DEF s
  <2>3. g[s] = IF s = {} THEN base
               ELSE h[<<Pick("last", s), g[s \ {Pick("last", s)}]>>]
    <3> DEFINE S == 1..n
    <3>1. Folds(g, h, base, "last", S) /\ s \in SUBSET S
      BY <1>2, <2>1
    <3> HIDE DEF S
    <3> QED
      BY <3>1, FoldsAt
  <2>4. Pick("last", s) = k
    BY <2>2 DEF Pick
  <2>5. g[s] = h[<<k, g[1..(k - 1)]>>]
    BY <2>2, <2>3, <2>4
  <2>6. b[k - 1] = g[1..(k - 1)]
    <3> DEFINE j == k - 1
    <3>1. j \in 0..n
      BY <2>1
    <3> HIDE DEF j
    <3>2. b[j] = g[1..j]
      BY <3>1
    <3> QED
      BY <3>2 DEF j
  <2>7. b[k] = g[s]
    BY DEF s
  <2> HIDE DEF b
  <2> QED
    BY <2>5, <2>6, <2>7
<1> QED
  BY <1>2, <1>3, <1>4, <1>5, <1>6 DEF Path

\* `f` folds as `h` does where it is typed.
Follows(f, h, base, way, D, R) ==
  /\ f[{}] = base
  /\ \A s \in SUBSET D :
       s # {} /\ f[s \ {Pick(way, s)}] \in R =>
         f[s] = h[<<Pick(way, s), f[s \ {Pick(way, s)}]>>]

LEMMA FoldFollows ==
  ASSUME NEW way, NEW D, IsFiniteSet(D), Ranged(way, D), NEW R, NEW base \in R, NEW h,
         NEW g, Folds(g, h, base, way, D), \A s \in SUBSET D : g[s] \in R,
         NEW f, Follows(f, h, base, way, D, R)
  PROVE  f[D] = g[D]
<1> DEFINE Bad == {s \in SUBSET D : f[s] # g[s]}
<1>1. \A s \in SUBSET D : g[s] \in R
  OBVIOUS
<1>2. /\ f[{}] = base
      /\ \A s \in SUBSET D :
           s # {} /\ f[s \ {Pick(way, s)}] \in R =>
             f[s] = h[<<Pick(way, s), f[s \ {Pick(way, s)}]>>]
  BY DEF Follows
<1>3. Bad \in SUBSET SUBSET D
  OBVIOUS
<1> SUFFICES Bad = {}
  OBVIOUS
<1> SUFFICES ASSUME Bad # {} PROVE FALSE
  OBVIOUS
<1>4. PICK m \in Bad : \A k \in Bad : k \subseteq m => k = m
  <2> HIDE DEF Bad
  <2> QED
    BY <1>3, LeastSubset
<1> DEFINE r == m \ {Pick(way, m)}
<1>5. g[m] = IF m = {} THEN base ELSE h[<<Pick(way, m), g[r]>>]
  <2>1. m \in SUBSET D
    BY <1>4
  <2>2. g[m] = IF m = {} THEN base ELSE h[<<Pick(way, m), g[m \ {Pick(way, m)}]>>]
    BY <2>1, FoldsAt
  <2> QED
    BY <2>2
<1>6. m # {} => f[r] = g[r] /\ f[r] \in R
  <2> SUFFICES ASSUME m # {} PROVE r \in SUBSET D /\ r \subseteq m /\ r # m
    BY <1>1, <1>4
  <2>1. Pick(way, m) \in m
    BY PickIsIn
  <2> QED
    BY <2>1
<1> QED
  BY <1>2, <1>4, <1>5, <1>6

Indices(D, n) == D = 1..n

\* `g` folds, typed, and every function that folds as `h` does ends in `last`.
Comes(g, h, base, way, D, R, last) ==
  /\ Folds(g, h, base, way, D)
  /\ \A s \in SUBSET D : g[s] \in R
  /\ \A f : Follows(f, h, base, way, D, R) => f[D] = last

\* What a fold over a sequence comes to: every function that folds as `h` does ends
\* where the path does, and there is one.
LEMMA FoldRuns ==
  ASSUME NEW n \in Nat, NEW D, Indices(D, n), NEW R, NEW base \in R, NEW h,
         \A k \in D, a \in R : h[<<k, a>>] \in R
  PROVE  \E g, b : Path(b, h, base, n, R) /\ Comes(g, h, base, "last", D, R, b[n])
<1>1. PICK g : /\ Folds(g, h, base, "last", 1..n)
               /\ \A s \in SUBSET (1..n) : g[s] \in R
               /\ Path([k \in 0..n |-> g[1..k]], h, base, n, R)
  <2>1. \A k \in 1..n, a \in R : h[<<k, a>>] \in R
    BY DEF Indices
  <2> QED
    BY <2>1, FoldIsPath
<1> DEFINE b == [k \in 0..n |-> g[1..k]]
<1>2. b[n] = g[1..n]
  OBVIOUS
<1>3. IsFiniteSet(D) /\ Ranged("last", D)
  <2>1. IsFiniteSet(1..n)
    BY FS_Interval
  <2> QED
    BY <2>1 DEF Ranged, Indices
<1>4. ASSUME NEW f, Follows(f, h, base, "last", D, R)
      PROVE  f[D] = g[D]
  <2>1. Folds(g, h, base, "last", D) /\ \A s \in SUBSET D : g[s] \in R
    BY <1>1 DEF Indices
  <2> QED
    BY <1>3, <1>4, <2>1, FoldFollows
<1>5. Path(b, h, base, n, R)
  BY <1>1
<1> HIDE DEF b
<1>6. Folds(g, h, base, "last", D) /\ \A s \in SUBSET D : g[s] \in R
  BY <1>1 DEF Indices
<1>7. Comes(g, h, base, "last", D, R, b[n])
  BY <1>2, <1>4, <1>6 DEF Comes, Indices
<1> QED
  BY <1>5, <1>7

LEMMA IndicesTaken ==
  ASSUME NEW n \in Nat, NEW D, Indices(D, n)
  PROVE  \A t \in SUBSET D : t # {} => Max(t) \in D /\ t \ {Max(t)} \in SUBSET D
BY GreatestIsMax DEF Indices

\* What the fold of FillsOf does at each fill.
OwnStep(log, s, R) ==
  [x \in (1..Len(log)) \X R |->
     IF log[x[1]].strategy = s THEN Append(x[2], log[x[1]]) ELSE x[2]]

LEMMA FillsOfRuns ==
  ASSUME NEW F, NEW log \in Seq(F), NEW s
  PROVE  \E b : /\ Path(b, OwnStep(log, s, Seq(F)), <<>>, Len(log), Seq(F))
                /\ FillsOf(log, s) = b[Len(log)]
<1> DEFINE n == Len(log)
           D == 1..n
           R == Seq(F)
           op(a, f) == IF f.strategy = s THEN Append(a, f) ELSE a
           Applies(g) == g = [t \in SUBSET D |->
             IF t = {} THEN <<>> ELSE op(g[t \ {Max(t)}], log[Max(t)])]
           fold == CHOOSE g : Applies(g)
           h == OwnStep(log, s, R)
<1>1. n \in Nat /\ DOMAIN log = D /\ Indices(D, n)
  BY DEF Indices
<1>2. <<>> \in R /\ \A k \in D, a \in R : h[<<k, a>>] = op(a, log[k]) /\ op(a, log[k]) \in R
  BY DEF OwnStep
<1>3. FillsOf(log, s) = fold[D]
  BY <1>1, Zenon DEF FillsOf, FoldLeft, MapThenFoldSet
<1> HIDE DEF h, op, R, n, D
<1>4. PICK g, b : Path(b, h, <<>>, n, R) /\ Comes(g, h, <<>>, "last", D, R, b[n])
  <2> DEFINE base == <<>>
  <2>1. /\ n \in Nat /\ Indices(D, n) /\ base \in R
        /\ \A k \in D, a \in R : h[<<k, a>>] \in R
    BY <1>1, <1>2
  <2> HIDE DEF base
  <2>2. \E g, b : Path(b, h, base, n, R) /\ Comes(g, h, base, "last", D, R, b[n])
    BY <2>1, FoldRuns
  <2> QED
    BY <2>2 DEF base
<1>5. \A t \in SUBSET D : t # {} => Max(t) \in D /\ t \ {Max(t)} \in SUBSET D
  BY <1>1, IndicesTaken
<1>6. Applies(g)
  BY <1>2, <1>4, <1>5 DEF Comes, Folds, Pick
<1>7. Applies(fold)
  BY <1>6
<1> HIDE DEF fold
<1>8. Follows(fold, h, <<>>, "last", D, R)
  BY <1>2, <1>5, <1>7 DEF Follows, Pick
<1> QED
  BY <1>3, <1>4, <1>8 DEF Comes, R, h, n

Fractions == Int \X Int

Samples == Int \cup {NoPrice}

MetricsType ==
  [peak : Int, max_drawdown : Fractions, first : Samples, prev : Samples, last : Int,
   returns : Seq(Fractions), downside : Seq(Fractions)]

LEMMA ReturnTyped ==
  ASSUME NEW from \in Int, NEW to \in Int
  PROVE  Return(from, to) \in Fractions
BY DEF Return, Fractions

LEMMA WorseTyped ==
  ASSUME NEW dd \in Fractions, NEW peak \in Int, NEW e \in Int
  PROVE  Worse(dd, peak, e) \in Fractions
BY DEF Worse, Drawdown, Fractions

LEMMA RecordTyped ==
  ASSUME NEW m \in MetricsType, NEW e \in Int
  PROVE  RecordSample(m, e) \in MetricsType
<1> DEFINE peak == IF e > m.peak THEN e ELSE m.peak
           knows == m.prev # NoPrice /\ m.prev # 0
           r == Return(m.prev, e)
           dd == Worse(m.max_drawdown, peak, e)
<1>1. peak \in Int /\ dd \in Fractions /\ (knows => r \in Fractions)
  <2>1. peak \in Int /\ m.max_drawdown \in Fractions /\ m.prev \in Samples
    BY DEF MetricsType
  <2> HIDE DEF peak
  <2>2. dd \in Fractions
    BY <2>1, WorseTyped
  <2> QED
    BY <2>1, <2>2, ReturnTyped DEF Samples
<1>2. RecordSample(m, e) =
        [m EXCEPT !.peak = peak, !.max_drawdown = dd,
                  !.first = IF @ = NoPrice THEN e ELSE @, !.prev = e, !.last = e,
                  !.returns = IF knows THEN Append(@, r) ELSE @,
                  !.downside = IF knows /\ Negative(r) THEN Append(@, r) ELSE @]
  BY Zenon DEF RecordSample
<1> HIDE DEF peak, r, dd, knows
<1>3. /\ m.first \in Samples /\ e \in Samples
      /\ m.returns \in Seq(Fractions) /\ m.downside \in Seq(Fractions)
  BY DEF MetricsType, Samples
<1>4. /\ knows => Append(m.returns, r) \in Seq(Fractions)
      /\ knows /\ Negative(r) => Append(m.downside, r) \in Seq(Fractions)
  BY <1>1, <1>3
<1> QED
  BY <1>1, <1>2, <1>3, <1>4 DEF MetricsType

\* What the folds of the samples do at each.
RecordStep(curve) ==
  [x \in (1..Len(curve)) \X MetricsType |-> RecordSample(x[2], curve[x[1]])]

LEMMA RecordRuns ==
  ASSUME NEW curve \in Seq(Int)
  PROVE  \E b : /\ Path(b, RecordStep(curve), NoMetrics, Len(curve), MetricsType)
                /\ FoldLeft(RecordSample, NoMetrics, curve) = b[Len(curve)]
<1> DEFINE n == Len(curve)
           D == 1..n
           R == MetricsType
           base == NoMetrics
           op(a, e) == RecordSample(a, e)
           Applies(g) == g = [t \in SUBSET D |->
             IF t = {} THEN base ELSE op(g[t \ {Max(t)}], curve[Max(t)])]
           fold == CHOOSE g : Applies(g)
           h == RecordStep(curve)
<1>1. n \in Nat /\ DOMAIN curve = D /\ Indices(D, n)
  BY DEF Indices
<1>2. base \in R
  BY DEF NoMetrics, MetricsType, Samples, Fractions
<1>3. \A k \in D, a \in R : h[<<k, a>>] = op(a, curve[k]) /\ op(a, curve[k]) \in R
  BY RecordTyped DEF RecordStep
<1>4. FoldLeft(RecordSample, NoMetrics, curve) = fold[D]
  BY <1>1, Zenon DEF FoldLeft, MapThenFoldSet
<1> HIDE DEF h, op, R, n, D, base
<1>5. PICK g, b : Path(b, h, base, n, R) /\ Comes(g, h, base, "last", D, R, b[n])
  <2>1. \A k \in D, a \in R : h[<<k, a>>] \in R
    BY <1>3
  <2> QED
    BY <1>1, <1>2, <2>1, FoldRuns
<1>6. \A t \in SUBSET D : t # {} => Max(t) \in D /\ t \ {Max(t)} \in SUBSET D
  BY <1>1, IndicesTaken
<1>7. Applies(g)
  BY <1>3, <1>5, <1>6 DEF Comes, Folds, Pick
<1>8. Applies(fold)
  BY <1>7
<1> HIDE DEF fold
<1>9. Follows(fold, h, base, "last", D, R)
  BY <1>3, <1>6, <1>8 DEF Follows, Pick
<1> QED
  BY <1>4, <1>5, <1>9 DEF Comes, R, h, n, base

RunType == [peak : Samples, dd : Fractions]

PeakAfter(run, e) == IF run.peak = NoPrice \/ e > run.peak THEN e ELSE run.peak

DrawStep(curve) ==
  [x \in (1..Len(curve)) \X RunType |->
     [peak |-> PeakAfter(x[2], curve[x[1]]),
      dd |-> Worse(x[2].dd, PeakAfter(x[2], curve[x[1]]), curve[x[1]])]]

LEMMA DrawTyped ==
  ASSUME NEW run \in RunType, NEW e \in Int
  PROVE  /\ PeakAfter(run, e) \in Int
         /\ [peak |-> PeakAfter(run, e), dd |-> Worse(run.dd, PeakAfter(run, e), e)] \in RunType
<1>1. run.peak \in Samples /\ run.dd \in Fractions
  BY DEF RunType
<1>2. PeakAfter(run, e) \in Int
  BY <1>1 DEF PeakAfter, Samples
<1> QED
  BY <1>1, <1>2, WorseTyped DEF RunType, Samples

LEMMA DrawRuns ==
  ASSUME NEW curve \in Seq(Int)
  PROVE  \E b : /\ Path(b, DrawStep(curve), [peak |-> NoPrice, dd |-> <<0, 1>>], Len(curve),
                        RunType)
                /\ max_drawdown(curve) = b[Len(curve)].dd
<1> DEFINE n == Len(curve)
           D == 1..n
           R == RunType
           base == [peak |-> NoPrice, dd |-> <<0, 1>>]
           op(a, e) == [peak |-> IF a.peak = NoPrice \/ e > a.peak THEN e ELSE a.peak,
                        dd   |-> Worse(a.dd, IF a.peak = NoPrice \/ e > a.peak THEN e
                                             ELSE a.peak, e)]
           Applies(g) == g = [t \in SUBSET D |->
             IF t = {} THEN base ELSE op(g[t \ {Max(t)}], curve[Max(t)])]
           fold == CHOOSE g : Applies(g)
           h == DrawStep(curve)
<1>1. n \in Nat /\ DOMAIN curve = D /\ Indices(D, n)
  BY DEF Indices
<1>2. base \in R
  BY DEF RunType, Samples, Fractions
<1>3. \A k \in D, a \in R : h[<<k, a>>] = op(a, curve[k]) /\ op(a, curve[k]) \in R
  <2> SUFFICES ASSUME NEW k \in D, NEW a \in R
               PROVE  h[<<k, a>>] = op(a, curve[k]) /\ op(a, curve[k]) \in R
    OBVIOUS
  <2>1. op(a, curve[k]) = [peak |-> PeakAfter(a, curve[k]),
                           dd |-> Worse(a.dd, PeakAfter(a, curve[k]), curve[k])]
    BY Zenon DEF PeakAfter
  <2>2. curve[k] \in Int
    OBVIOUS
  <2> HIDE DEF op
  <2> QED
    BY <2>1, <2>2, DrawTyped DEF DrawStep
<1>4. max_drawdown(curve) = fold[D].dd
  BY <1>1, Zenon DEF max_drawdown, FoldLeft, MapThenFoldSet
<1> HIDE DEF h, op, R, n, D, base
<1>5. PICK g, b : Path(b, h, base, n, R) /\ Comes(g, h, base, "last", D, R, b[n])
  <2>1. \A k \in D, a \in R : h[<<k, a>>] \in R
    BY <1>3
  <2> QED
    BY <1>1, <1>2, <2>1, FoldRuns
<1>6. \A t \in SUBSET D : t # {} => Max(t) \in D /\ t \ {Max(t)} \in SUBSET D
  BY <1>1, IndicesTaken
<1>7. Applies(g)
  BY <1>3, <1>5, <1>6 DEF Comes, Folds, Pick
<1>8. Applies(fold)
  BY <1>7
<1> HIDE DEF fold
<1>9. Follows(fold, h, base, "last", D, R)
  BY <1>3, <1>6, <1>8 DEF Follows, Pick
<1> QED
  BY <1>4, <1>5, <1>9 DEF Comes, R, h, n, base

LossStep(returns) ==
  [x \in (1..Len(returns)) \X Seq(Fractions) |->
     IF Negative(returns[x[1]]) THEN Append(x[2], returns[x[1]]) ELSE x[2]]

LEMMA LossesRuns ==
  ASSUME NEW returns \in Seq(Fractions)
  PROVE  \E b : /\ Path(b, LossStep(returns), <<>>, Len(returns), Seq(Fractions))
                /\ Losses(returns) = b[Len(returns)]
<1> DEFINE n == Len(returns)
           D == 1..n
           R == Seq(Fractions)
           base == <<>>
           op(a, r) == IF Negative(r) THEN Append(a, r) ELSE a
           Applies(g) == g = [t \in SUBSET D |->
             IF t = {} THEN base ELSE op(g[t \ {Max(t)}], returns[Max(t)])]
           fold == CHOOSE g : Applies(g)
           h == LossStep(returns)
<1>1. n \in Nat /\ DOMAIN returns = D /\ Indices(D, n)
  BY DEF Indices
<1>2. base \in R
  OBVIOUS
<1>3. \A k \in D, a \in R : h[<<k, a>>] = op(a, returns[k]) /\ op(a, returns[k]) \in R
  BY DEF LossStep
<1>4. Losses(returns) = fold[D]
  BY <1>1, Zenon DEF Losses, FoldLeft, MapThenFoldSet
<1> HIDE DEF h, op, R, n, D, base
<1>5. PICK g, b : Path(b, h, base, n, R) /\ Comes(g, h, base, "last", D, R, b[n])
  <2>1. \A k \in D, a \in R : h[<<k, a>>] \in R
    BY <1>3
  <2> QED
    BY <1>1, <1>2, <2>1, FoldRuns
<1>6. \A t \in SUBSET D : t # {} => Max(t) \in D /\ t \ {Max(t)} \in SUBSET D
  BY <1>1, IndicesTaken
<1>7. Applies(g)
  BY <1>3, <1>5, <1>6 DEF Comes, Folds, Pick
<1>8. Applies(fold)
  BY <1>7
<1> HIDE DEF fold
<1>9. Follows(fold, h, base, "last", D, R)
  BY <1>3, <1>6, <1>8 DEF Follows, Pick
<1> QED
  BY <1>4, <1>5, <1>9 DEF Comes, R, h, n, base

\* What a streamed run knows after `k` samples, and one that keeps them.
Alike(curve, k, m, d, l) ==
  /\ m[k].peak = IF d[k].peak > 0 THEN d[k].peak ELSE 0
  /\ m[k].max_drawdown = d[k].dd
  /\ d[k].peak \in Int
  /\ m[k].first = curve[1] /\ m[k].prev = curve[k] /\ m[k].last = curve[k]
  /\ m[k].downside = l[k - 1]
  /\ (\A i \in 1..(k - 1) : curve[i] # 0) =>
       m[k].returns = [i \in 1..(k - 1) |-> CurveReturns(curve)[i]]

LEMMA WorseAgrees ==
  ASSUME NEW dd, NEW p \in Int, NEW q \in Int, p = IF q > 0 THEN q ELSE 0, NEW e \in Int
  PROVE  Worse(dd, p, e) = Worse(dd, q, e)
BY DEF Worse

LEMMA ReturnsTyped ==
  ASSUME NEW curve \in Seq(Int), curve # <<>>
  PROVE  /\ CurveReturns(curve) \in Seq(Fractions)
         /\ Len(CurveReturns(curve)) = Len(curve) - 1
         /\ \A i \in 1..(Len(curve) - 1) :
              CurveReturns(curve)[i] = IF curve[i] = 0 THEN <<0, 1>>
                                       ELSE Return(curve[i], curve[i + 1])
<1> DEFINE n == Len(curve) - 1
           r(i) == IF curve[i] = 0 THEN <<0, 1>> ELSE Return(curve[i], curve[i + 1])
<1>1. n \in Nat /\ CurveReturns(curve) = [i \in 1..n |-> r(i)]
  BY DEF CurveReturns
<1>2. \A i \in 1..n : r(i) \in Fractions
  <2> SUFFICES ASSUME NEW i \in 1..n PROVE r(i) \in Fractions
    OBVIOUS
  <2>1. curve[i] \in Int /\ curve[i + 1] \in Int
    OBVIOUS
  <2> QED
    <3>1. Return(curve[i], curve[i + 1]) \in Fractions
      BY <2>1, ReturnTyped
    <3>2. <<0, 1>> \in Fractions
      BY DEF Fractions
    <3> QED
      BY <3>1, <3>2
<1> HIDE DEF r, n
<1>3. CurveReturns(curve) \in [1..n -> Fractions]
  BY <1>1, <1>2
<1>4. CurveReturns(curve) \in Seq(Fractions) /\ Len(CurveReturns(curve)) = n
  BY <1>1, <1>3
<1> QED
  BY <1>1, <1>4 DEF n, r

LEMMA AlikeGrows ==
  ASSUME NEW curve \in Seq(Int), curve # <<>>,
         NEW m, Path(m, RecordStep(curve), NoMetrics, Len(curve), MetricsType),
         NEW d, Path(d, DrawStep(curve), [peak |-> NoPrice, dd |-> <<0, 1>>], Len(curve), RunType),
         NEW l, Path(l, LossStep(CurveReturns(curve)), <<>>, Len(curve) - 1, Seq(Fractions)),
         NEW k \in 1..Len(curve), k = 1 \/ Alike(curve, k - 1, m, d, l)
  PROVE  Alike(curve, k, m, d, l)
<1> DEFINE e == curve[k]
           was == m[k - 1]
           run == d[k - 1]
           peak == IF e > was.peak THEN e ELSE was.peak
           knows == was.prev # NoPrice /\ was.prev # 0
           r == Return(was.prev, e)
<1>1. /\ e \in Int /\ k - 1 \in 0..Len(curve)
      /\ was \in MetricsType /\ run \in RunType
      /\ m[k] = RecordSample(was, e)
      /\ d[k] = [peak |-> PeakAfter(run, e), dd |-> Worse(run.dd, PeakAfter(run, e), e)]
  <2>1. e \in Int /\ k - 1 \in 0..Len(curve) /\ Len(curve) \in Nat
    OBVIOUS
  <2>2. was \in MetricsType /\ m[k] = RecordStep(curve)[<<k, was>>]
    BY <2>1 DEF Path
  <2>3. run \in RunType /\ d[k] = DrawStep(curve)[<<k, run>>]
    BY <2>1 DEF Path
  <2> HIDE DEF was, run
  <2>4. m[k] = RecordSample(was, e)
    BY <2>2 DEF RecordStep
  <2>5. d[k] = [peak |-> PeakAfter(run, e), dd |-> Worse(run.dd, PeakAfter(run, e), e)]
    BY <2>3 DEF DrawStep
  <2> QED
    BY <2>1, <2>2, <2>3, <2>4, <2>5
<1>2. /\ m[k].peak = peak
      /\ m[k].max_drawdown = Worse(was.max_drawdown, peak, e)
      /\ m[k].first = IF was.first = NoPrice THEN e ELSE was.first
      /\ m[k].prev = e /\ m[k].last = e
      /\ m[k].returns = IF knows THEN Append(was.returns, r) ELSE was.returns
      /\ m[k].downside = IF knows /\ Negative(r) THEN Append(was.downside, r)
                         ELSE was.downside
  BY <1>1 DEF RecordSample, MetricsType
<1>3. CASE k = 1
  <2>1. was = NoMetrics /\ run = [peak |-> NoPrice, dd |-> <<0, 1>>] /\ l[0] = <<>>
    BY <1>3 DEF Path
  <2>2. /\ was.peak = 0 /\ was.max_drawdown = <<0, 1>> /\ was.first = NoPrice
        /\ was.prev = NoPrice /\ was.returns = <<>> /\ was.downside = <<>>
        /\ run.peak = NoPrice /\ run.dd = <<0, 1>>
    BY <2>1 DEF NoMetrics
  <2>3. d[k].peak = e /\ d[k].dd = Worse(<<0, 1>>, e, e)
    BY <1>1, <2>2 DEF PeakAfter
  <2>4. peak = IF e > 0 THEN e ELSE 0
    BY <1>1, <2>2
  <2>5. m[k].max_drawdown = d[k].dd
    <3> DEFINE dd == <<0, 1>>
    <3>1. m[k].max_drawdown = Worse(dd, peak, e) /\ d[k].dd = Worse(dd, e, e)
      BY <1>2, <2>2, <2>3
    <3>2. peak \in Int
      BY <1>1, <2>4
    <3> HIDE DEF dd, peak, e
    <3> QED
      BY <1>1, <2>4, <3>1, <3>2, WorseAgrees
  <2>6. m[k].returns = <<>> /\ m[k].downside = <<>> /\ m[k].first = e
    BY <1>2, <2>2
  <2>7. [i \in 1..(k - 1) |-> CurveReturns(curve)[i]] = <<>>
    BY <1>3
  <2>8. k - 1 = 0 /\ curve[1] = e /\ curve[k] = e
    BY <1>3
  <2>9. d[k].peak \in Int /\ m[k].peak = IF d[k].peak > 0 THEN d[k].peak ELSE 0
    BY <1>1, <1>2, <2>3, <2>4
  <2>10. m[k].downside = l[k - 1]
    BY <2>1, <2>6, <2>8
  <2>11. m[k].returns = [i \in 1..(k - 1) |-> CurveReturns(curve)[i]]
    BY <2>6, <2>7
  <2>12. m[k].prev = curve[k] /\ m[k].last = curve[k] /\ m[k].first = curve[1]
    BY <1>2, <2>6, <2>8
  <2> HIDE DEF e, was, run, peak, knows, r
  <2> QED
    BY <2>5, <2>9, <2>10, <2>11, <2>12 DEF Alike
<1>4. CASE k # 1
  <2> DEFINE j == k - 1
             c == CurveReturns(curve)
  <2>1. /\ j \in 1..(Len(curve) - 1) /\ j \in 1..Len(curve) /\ j + 1 = k
        /\ curve[j] \in Int
        /\ was.peak = IF run.peak > 0 THEN run.peak ELSE 0
        /\ was.max_drawdown = run.dd /\ run.peak \in Int
        /\ was.first = curve[1] /\ was.prev = curve[j]
        /\ was.downside = l[j - 1]
    <3>1. Len(curve) \in Nat /\ k \in Nat /\ 1 < k /\ k <= Len(curve)
      BY <1>4
    <3>2. j \in 1..(Len(curve) - 1) /\ j \in 1..Len(curve) /\ j + 1 = k
      BY <3>1
    <3>3. curve[j] \in Int
      BY <3>2
    <3>4. Alike(curve, j, m, d, l)
      BY <1>4
    <3> HIDE DEF j
    <3> QED
      BY <3>2, <3>3, <3>4 DEF Alike, j
  <2>2. /\ c \in Seq(Fractions) /\ Len(c) = Len(curve) - 1
        /\ c[j] = IF curve[j] = 0 THEN <<0, 1>> ELSE Return(curve[j], e)
    BY <2>1, ReturnsTyped
  <2>3. /\ d[k].peak = IF e > run.peak THEN e ELSE run.peak
        /\ d[k].peak \in Int
        /\ d[k].dd = Worse(run.dd, d[k].peak, e)
    BY <1>1, <2>1, NoPriceAssumption DEF PeakAfter
  <2>4. peak = (IF d[k].peak > 0 THEN d[k].peak ELSE 0) /\ peak \in Int
    <3> DEFINE top == was.peak
               now == d[k].peak
               old == run.peak
    <3>1. /\ e \in Int /\ old \in Int /\ top = (IF old > 0 THEN old ELSE 0)
          /\ now = IF e > old THEN e ELSE old
      BY <1>1, <2>1, <2>3
    <3>2. peak = IF e > top THEN e ELSE top
      OBVIOUS
    <3> HIDE DEF e, top, now, old, peak
    <3>3. peak = (IF now > 0 THEN now ELSE 0) /\ peak \in Int
      BY <3>1, <3>2
    <3> QED
      BY <3>3 DEF now
  <2>5. m[k].max_drawdown = d[k].dd
    <3> HIDE DEF peak, e, was, run
    <3>1. Worse(run.dd, peak, e) = Worse(run.dd, d[k].peak, e)
      BY <1>1, <2>3, <2>4, WorseAgrees
    <3> QED
      BY <1>2, <2>1, <2>3, <3>1
  <2>6. /\ m[k].first = curve[1]
        /\ knows <=> curve[j] # 0
        /\ knows => r = c[j]
    <3>1. curve[1] \in Int
      OBVIOUS
    <3>2. curve[1] # NoPrice /\ curve[j] # NoPrice
      BY <2>1, <3>1, NoPriceAssumption
    <3> QED
      BY <1>2, <2>1, <2>2, <3>2
  <2>7. m[k].downside = l[j]
    <3>1. l[j - 1] \in Seq(Fractions) /\ l[j] = LossStep(c)[<<j, l[j - 1]>>]
      <4>1. j \in 1..(Len(curve) - 1) /\ j - 1 \in 0..(Len(curve) - 1)
        BY <2>1
      <4> HIDE DEF j, c
      <4> QED
        BY <4>1 DEF Path, c
    <3>2. l[j] = IF Negative(c[j]) THEN Append(l[j - 1], c[j]) ELSE l[j - 1]
      BY <2>1, <2>2, <3>1 DEF LossStep
    <3>3. curve[j] = 0 => ~ Negative(c[j])
      BY <2>2 DEF Negative
    <3> QED
      BY <1>2, <2>1, <2>6, <3>2, <3>3
  <2>8. ASSUME \A i \in 1..(k - 1) : curve[i] # 0
        PROVE  m[k].returns = [i \in 1..(k - 1) |-> c[i]]
    <3>1. was.returns = [i \in 1..(j - 1) |-> c[i]]
      <4>1. \A i \in 1..(j - 1) : curve[i] # 0
        BY <2>1, <2>8
      <4> QED
        BY <1>4, <4>1 DEF Alike
    <3>2. knows
      BY <2>1, <2>6, <2>8
    <3>3. m[k].returns = Append([i \in 1..(j - 1) |-> c[i]], c[j])
      BY <1>2, <2>6, <3>1, <3>2
    <3>4. \A i \in 1..j : c[i] \in Fractions
      <4> HIDE DEF c
      <4>1. Len(c) \in Nat /\ j \in Nat /\ j <= Len(c)
        BY <2>1, <2>2
      <4> HIDE DEF j
      <4> QED
        BY <2>2, <4>1
    <3> HIDE DEF c
    <3>5. Append([i \in 1..(j - 1) |-> c[i]], c[j]) = [i \in 1..j |-> c[i]]
      <4> DEFINE s == [i \in 1..(j - 1) |-> c[i]]
      <4>1. s \in Seq(Fractions) /\ Len(s) = j - 1
        BY <2>1, <3>4
      <4>2. \A i \in 1..(j - 1) : s[i] = c[i]
        OBVIOUS
      <4> HIDE DEF s
      <4>3. Append(s, c[j]) \in Seq(Fractions) /\ Len(Append(s, c[j])) = j
        BY <2>1, <3>4, <4>1
      <4>4. ASSUME NEW i \in 1..j PROVE Append(s, c[j])[i] = c[i]
        BY <2>1, <3>4, <4>1, <4>2
      <4>5. Append(s, c[j]) = [i \in 1..j |-> c[i]]
        <5> DEFINE t == Append(s, c[j])
        <5>1. t \in Seq(Fractions) /\ Len(t) = j /\ \A i \in 1..j : t[i] = c[i]
          BY <4>3, <4>4
        <5> HIDE DEF t, j
        <5>2. t = [i \in 1..Len(t) |-> t[i]]
          BY <5>1
        <5>3. t = [i \in 1..j |-> c[i]]
          BY <5>1, <5>2
        <5> QED
          BY <5>3 DEF t
      <4> QED
        BY <4>5 DEF s
    <3> QED
      BY <3>3, <3>5
  <2> QED
    BY <1>1, <1>2, <2>1, <2>3, <2>4, <2>5, <2>6, <2>7, <2>8 DEF Alike
<1> QED
  BY <1>3, <1>4

LEMMA ScalarsExcept ==
  ASSUME NEW first, NEW last, NEW dd, NEW returns, NEW downside, NEW c
  PROVE  /\ [Scalars(first, last, dd, returns, downside) EXCEPT
               !.max_drawdown = IF @[1] = 0 THEN dd ELSE @]
               = Scalars(first, last, dd, returns, downside)
         /\ [Scalars(first, last, dd, returns, downside) EXCEPT !.returns = c]
               = Scalars(first, last, dd, c, downside)
         /\ Scalars(first, last, dd, returns, downside).returns = returns
BY DEF Scalars

LEMMA CurveIsToldAlike ==
  ASSUME NEW curve \in Seq(Int)
  PROVE  LET metrics  == FoldLeft(RecordSample, NoMetrics, curve)
             kept     == finalize_report(curve, metrics, TRUE)
             streamed == finalize_report(curve, metrics, FALSE)
         IN  /\ [streamed EXCEPT !.returns = kept.returns] = kept
             /\ (\A n \in 1 .. Len(curve) - 1 : curve[n] # 0) => streamed = kept
<1> DEFINE metrics  == FoldLeft(RecordSample, NoMetrics, curve)
           kept     == finalize_report(curve, metrics, TRUE)
           streamed == finalize_report(curve, metrics, FALSE)
           n == Len(curve)
<1>1. PICK m : /\ Path(m, RecordStep(curve), NoMetrics, n, MetricsType)
               /\ metrics = m[n]
  BY RecordRuns
<1>2. PICK d : /\ Path(d, DrawStep(curve), [peak |-> NoPrice, dd |-> <<0, 1>>], n, RunType)
               /\ max_drawdown(curve) = d[n].dd
  BY DrawRuns
<1>3. /\ streamed = [streaming_summary(metrics) EXCEPT
           !.max_drawdown = IF @[1] = 0 THEN metrics.max_drawdown ELSE @]
      /\ kept = [summarize(curve) EXCEPT
           !.max_drawdown = IF @[1] = 0 THEN metrics.max_drawdown ELSE @]
  BY DEF finalize_report
<1>4. CASE curve = <<>>
  <2>1. metrics = NoMetrics
    BY <1>1, <1>4 DEF Path
  <2>2. streaming_summary(metrics) = Scalars(0, 0, <<0, 1>>, <<>>, <<>>)
    BY <2>1 DEF streaming_summary, NoMetrics
  <2>3. summarize(curve) = Scalars(0, 0, <<0, 1>>, <<>>, <<>>)
    BY <1>4, Zenon DEF summarize
  <2>4. streamed = kept
    <3> HIDE DEF metrics, streamed, kept
    <3> QED
      BY <1>3, <2>2, <2>3
  <2>5. [streamed EXCEPT !.returns = kept.returns] = kept
    <3> DEFINE dd == metrics.max_drawdown
    <3> HIDE DEF metrics, streamed, kept
    <3> QED
      BY <1>3, <2>2, <2>4 DEF Scalars
  <2> HIDE DEF metrics, streamed, kept
  <2> QED
    BY <2>4, <2>5 DEF metrics, streamed, kept
<1>5. CASE curve # <<>>
  <2>1. n \in Nat /\ n >= 1 /\ n - 1 \in Nat /\ n \in 1..n
    BY <1>5
  <2>2. /\ CurveReturns(curve) \in Seq(Fractions)
        /\ Len(CurveReturns(curve)) = n - 1
    BY <1>5, ReturnsTyped
  <2>3. PICK l : /\ Path(l, LossStep(CurveReturns(curve)), <<>>, n - 1, Seq(Fractions))
                 /\ Losses(CurveReturns(curve)) = l[n - 1]
    BY <2>2, LossesRuns
  <2>4. \A k \in 1..n : k = 1 \/ Alike(curve, k - 1, m, d, l) => Alike(curve, k, m, d, l)
    <3> HIDE DEF metrics, streamed, kept
    <3> QED
      BY <1>1, <1>2, <1>5, <2>3, AlikeGrows
  <2>5. \A k \in 1..n : Alike(curve, k, m, d, l)
    <3> DEFINE Bad == {k \in 1..n : ~ Alike(curve, k, m, d, l)}
    <3> HIDE DEF metrics, streamed, kept, n
    <3> SUFFICES ASSUME Bad # {} PROVE FALSE
      OBVIOUS
    <3>1. Bad \in SUBSET Nat
      OBVIOUS
    <3>2. PICK k \in Bad : \A j \in Bad : k <= j
      <4> HIDE DEF Bad
      <4> QED
        BY <3>1, LeastNumber
    <3>3. k = 1 \/ (k - 1 \in 1..n /\ k - 1 \notin Bad)
      BY <2>1, <3>2
    <3> QED
      BY <2>4, <3>2, <3>3
  <2>6. Alike(curve, n, m, d, l)
    BY <2>1, <2>5
  <2> DEFINE c == CurveReturns(curve)
  <2>7. /\ metrics.max_drawdown = d[n].dd
        /\ metrics.first = curve[1] /\ metrics.last = curve[n]
        /\ metrics.downside = l[n - 1]
        /\ (\A i \in 1..(n - 1) : curve[i] # 0) =>
             metrics.returns = [i \in 1..(n - 1) |-> c[i]]
    BY <1>1, <2>6 DEF Alike
  <2>8. metrics.first # NoPrice
    <3>1. curve[1] \in Int
      BY <2>1
    <3> QED
      BY <2>7, <3>1, NoPriceAssumption
  <2>9. c = [i \in 1..(n - 1) |-> c[i]]
    <3> HIDE DEF c
    <3> QED
      BY <2>2 DEF c
  <2>10. streaming_summary(metrics) =
           Scalars(curve[1], curve[n], d[n].dd, metrics.returns, l[n - 1])
    BY <2>7, <2>8 DEF streaming_summary
  <2>11. summarize(curve) = Scalars(curve[1], curve[n], d[n].dd, c, l[n - 1])
    <3>1. Head(curve) = curve[1] /\ Last(curve) = curve[n]
      BY <1>5 DEF Last
    <3> QED
      BY <1>2, <1>5, <2>3, <3>1 DEF summarize
  <2>12. [streamed EXCEPT !.returns = c] = kept /\ kept.returns = c
    <3> HIDE DEF metrics, streamed, kept, c
    <3>1. /\ streamed = Scalars(curve[1], curve[n], d[n].dd, metrics.returns, l[n - 1])
          /\ kept = Scalars(curve[1], curve[n], d[n].dd, c, l[n - 1])
      BY <1>3, <2>7, <2>10, <2>11, ScalarsExcept
    <3> QED
      BY <3>1, ScalarsExcept
  <2>13. (\A i \in 1..(n - 1) : curve[i] # 0) => streamed = kept
    <3> HIDE DEF metrics, streamed, kept, c
    <3> QED
      BY <1>3, <2>7, <2>9, <2>10, <2>11
  <2> HIDE DEF metrics, streamed, kept, c
  <2> QED
    BY <2>12, <2>13 DEF metrics, streamed, kept
<1> HIDE DEF metrics, streamed, kept
<1> QED
  BY <1>4, <1>5 DEF metrics, streamed, kept

(***************************************************************************)
(* A run that does not keep its equity curve reports the figures of one    *)
(* that does, for every curve of whole numbers (performance.rs:119-122).   *)
(***************************************************************************)
THEOREM FiguresAgree ==
  ASSUME Curves \subseteq Seq(Int)
  PROVE  Spec => []MetricsAgree
<1>1. MetricsAgree
  BY CurveIsToldAlike DEF MetricsAgree
<1>2. MetricsAgree => MetricsAgree'
  BY CurveIsToldAlike DEF MetricsAgree, Pristine
<1> QED
  BY <1>1, <1>2, PTL

FillRows ==
  [inst : Instruments, side : Sides, qty : Nat \ {0}, price : Int, fee : Int,
   mult : Nat \ {0}, strategy : Strategies \cup {Untagged}]

Held == [qty : Int, average : Int, fees : Int]

Trades == [closed_trades : Int, wins : Int, losses : Int, gross_profit : Int, gross_loss : Int]

Books == [open : [Instruments -> Held], ledger : Trades]

LEMMA DivTyped ==
  ASSUME NEW v \in Int, NEW w \in Int, w > 0
  PROVE  v \div w \in Int
OBVIOUS

LEMMA AbsTyped ==
  ASSUME NEW v \in Int
  PROVE  /\ Abs(v) \in Int /\ Abs(v) >= 0 /\ (v # 0 => Abs(v) > 0)
         /\ Signum(v) \in Int /\ (v = 0 <=> Signum(v) = 0)
BY DEF Abs, Signum

LEMMA ShareTyped ==
  ASSUME NEW fee \in Int, NEW part \in Int, NEW whole \in Int, whole > 0
  PROVE  Share(fee, part, whole) \in Int
<1> DEFINE v == fee * part
<1>1. v \in Int
  OBVIOUS
<1> HIDE DEF v
<1>2. v \div whole \in Int
  BY <1>1, DivTyped
<1> QED
  BY <1>2 DEF Share, v

\* The average cost of a position that a fill adds to.
Mixed(p, f) == (p.average * Abs(p.qty) + f.price * f.qty) \div Abs(p.qty + Signed(f.side, f.qty))

LEMMA AppliedTyped ==
  ASSUME NEW p \in Held, NEW f \in FillRows
  PROVE  LET a     == Applied(p, f)
             delta == Signed(f.side, f.qty)
             left  == p.qty + delta
         IN  /\ a.position \in Held
             /\ a.position.qty = left
             /\ a.closes => a.profit \in Int
             /\ delta \in Int /\ delta # 0 /\ Abs(delta) = f.qty
             /\ left # 0 =>
                  a.position.average =
                    IF p.qty = 0 \/ Signum(p.qty) # Signum(left) THEN f.price
                    ELSE IF Signum(p.qty) = Signum(delta) THEN Mixed(p, f)
                    ELSE p.average
<1> DEFINE a == Applied(p, f)
           delta == Signed(f.side, f.qty)
           left  == p.qty + delta
           close   == Least(f.qty, Abs(p.qty))
           opening == Share(p.fees, close, Abs(p.qty))
           closing == Share(f.fee, close, f.qty)
           profit == (f.price - p.average) * Signum(p.qty) * close * f.mult - opening - closing
<1>1. /\ p.qty \in Int /\ p.average \in Int /\ p.fees \in Int
      /\ f.qty \in Int /\ f.qty > 0 /\ f.price \in Int /\ f.fee \in Int /\ f.mult \in Int
  BY DEF Held, FillRows
<1>2. delta \in Int /\ delta # 0 /\ Abs(delta) = f.qty /\ left \in Int
  BY <1>1 DEF Signed, Abs
<1>3. CASE p.qty = 0
  <2>1. a = [position |-> [qty |-> delta, average |-> f.price, fees |-> f.fee],
             closes |-> FALSE]
    BY <1>3 DEF Applied
  <2> HIDE DEF a, delta
  <2>2. left = delta
    BY <1>1, <1>2, <1>3
  <2> HIDE DEF left
  <2>3. a.position \in Held /\ a.position.qty = left /\ ~ a.closes /\ a.position.average = f.price
    BY <1>1, <1>2, <2>1, <2>2 DEF Held
  <2> QED
    BY <1>2, <1>3, <2>3 DEF a, delta, left
<1>4. CASE p.qty # 0 /\ Signum(p.qty) = Signum(delta)
  <2>1. left # 0 /\ Signum(p.qty) = Signum(left)
    BY <1>1, <1>2, <1>4 DEF Signum
  <2>2. a = [position |-> [qty |-> left, average |-> Mixed(p, f), fees |-> p.fees + f.fee],
             closes |-> FALSE]
    BY <1>4 DEF Applied, Mixed
  <2>3. Mixed(p, f) \in Int
    <3> DEFINE v == p.average * Abs(p.qty) + f.price * f.qty
               w == Abs(left)
    <3>1. v \in Int
      BY <1>1, AbsTyped
    <3>2. w \in Int /\ w > 0
      BY <1>2, <2>1, AbsTyped
    <3>3. Mixed(p, f) = v \div w
      BY DEF Mixed
    <3> HIDE DEF v, w
    <3> QED
      BY <3>1, <3>2, <3>3, DivTyped
  <2> HIDE DEF a, delta, left
  <2>4. a.position \in Held /\ a.position.qty = left /\ ~ a.closes
        /\ a.position.average = Mixed(p, f)
    BY <1>1, <1>2, <2>2, <2>3 DEF Held
  <2> QED
    BY <1>2, <1>4, <2>1, <2>4 DEF a, delta, left
<1>5. CASE p.qty # 0 /\ Signum(p.qty) # Signum(delta)
  <2>1. a = [position |-> Left(p, f, opening, closing), closes |-> TRUE, profit |-> profit]
    BY <1>5 DEF Applied
  <2>2. opening \in Int /\ closing \in Int /\ close \in Int
    <3>1. Abs(p.qty) \in Int /\ Abs(p.qty) > 0
      BY <1>1, <1>5, AbsTyped
    <3>2. close \in Int
      BY <1>1, <3>1 DEF Least
    <3> HIDE DEF close
    <3> QED
      BY <1>1, <3>1, <3>2, ShareTyped
  <2>3. profit \in Int
    <3> HIDE DEF opening, closing, close
    <3>1. Signum(p.qty) \in Int
      BY <1>1, AbsTyped
    <3>2. (f.price - p.average) * Signum(p.qty) * close * f.mult \in Int
      BY <1>1, <2>2, <3>1
    <3> QED
      BY <2>2, <3>2
  <2> DEFINE l == Left(p, f, opening, closing)
  <2>4. l = IF left = 0 THEN Untouched
            ELSE IF Signum(left) = Signum(delta)
              THEN [qty |-> left, average |-> f.price, fees |-> f.fee - closing]
              ELSE [p EXCEPT !.qty = left, !.fees = @ - opening]
    <3> HIDE DEF opening, closing
    <3> QED
      BY DEF Left
  <2> HIDE DEF opening, closing, l, profit
  <2>5. l \in Held /\ l.qty = left
    <3> HIDE DEF left, delta
    <3>1. CASE left = 0
      <4>1. l = [qty |-> 0, average |-> 0, fees |-> 0]
        BY <2>4, <3>1 DEF Untouched
      <4> QED
        BY <3>1, <4>1 DEF Held
    <3>2. CASE left # 0 /\ Signum(left) = Signum(delta)
      <4>1. l = [qty |-> left, average |-> f.price, fees |-> f.fee - closing]
        BY <2>4, <3>2
      <4>2. f.fee - closing \in Int
        BY <1>1, <2>2
      <4> QED
        BY <1>1, <1>2, <4>1, <4>2 DEF Held
    <3>3. CASE left # 0 /\ Signum(left) # Signum(delta)
      <4>1. l = [p EXCEPT !.qty = left, !.fees = @ - opening]
        BY <2>4, <3>3
      <4>2. p.fees - opening \in Int
        BY <1>1, <2>2
      <4> QED
        BY <1>2, <4>1, <4>2 DEF Held
    <3> QED
      BY <3>1, <3>2, <3>3
  <2>6. left # 0 => l.average = IF Signum(p.qty) # Signum(left) THEN f.price ELSE p.average
    <3>1. left # 0 => (Signum(left) = Signum(delta) <=> Signum(p.qty) # Signum(left))
      <4> HIDE DEF delta
      <4> QED
        BY <1>1, <1>2, <1>5 DEF Signum
    <3>2. left # 0 => l.average = IF Signum(left) = Signum(delta) THEN f.price ELSE p.average
      <4> HIDE DEF left, delta
      <4> QED
        BY <2>4 DEF Held
    <3> QED
      BY <3>1, <3>2
  <2>7. a.position = l /\ (a.closes => a.profit = profit)
    <3> HIDE DEF a
    <3> QED
      BY <2>1 DEF l
  <2> HIDE DEF a
  <2> QED
    BY <1>2, <1>5, <2>3, <2>5, <2>6, <2>7 DEF a
<1> QED
  BY <1>3, <1>4, <1>5

LEMMA RecordCloseTyped ==
  ASSUME NEW ledger \in Trades, NEW profit \in Int
  PROVE  RecordClose(ledger, profit) \in Trades
<1>1. /\ ledger.closed_trades \in Int /\ ledger.wins \in Int /\ ledger.losses \in Int
      /\ ledger.gross_profit \in Int /\ ledger.gross_loss \in Int
  BY DEF Trades
<1>2. CASE profit > 0
  <2>1. RecordClose(ledger, profit) =
          [ledger EXCEPT !.closed_trades = @ + 1, !.wins = @ + 1, !.gross_profit = @ + profit]
    BY <1>2 DEF RecordClose
  <2>2. /\ ledger.closed_trades + 1 \in Int /\ ledger.wins + 1 \in Int
        /\ ledger.gross_profit + profit \in Int
    BY <1>1
  <2> QED
    BY <2>1, <2>2 DEF Trades
<1>3. CASE ~ (profit > 0) /\ profit < 0
  <2>1. RecordClose(ledger, profit) =
          [ledger EXCEPT !.closed_trades = @ + 1, !.losses = @ + 1, !.gross_loss = @ - profit]
    BY <1>3 DEF RecordClose
  <2>2. /\ ledger.closed_trades + 1 \in Int /\ ledger.losses + 1 \in Int
        /\ ledger.gross_loss - profit \in Int
    BY <1>1
  <2> QED
    BY <2>1, <2>2 DEF Trades
<1>4. CASE ~ (profit > 0) /\ ~ (profit < 0)
  <2>1. RecordClose(ledger, profit) = [ledger EXCEPT !.closed_trades = @ + 1]
    BY <1>4 DEF RecordClose
  <2> QED
    BY <1>1, <2>1 DEF Trades
<1> QED
  BY <1>2, <1>3, <1>4

\* The book after a fill.
Entered(book, f) ==
  IF f.qty <= 0 \/ f.mult <= 0 THEN book
  ELSE [open   |-> [book.open EXCEPT ![f.inst] = Applied(book.open[f.inst], f).position],
        ledger |-> IF Applied(book.open[f.inst], f).closes
                     THEN RecordClose(book.ledger, Applied(book.open[f.inst], f).profit)
                   ELSE book.ledger]

NewBook == [open |-> [i \in Instruments |-> Untouched], ledger |-> NoTrades]

LEMMA EnteredTyped ==
  ASSUME NEW book \in Books, NEW f \in FillRows
  PROVE  /\ Entered(book, f) \in Books
         /\ Entered(book, f).open =
              [book.open EXCEPT ![f.inst] = Applied(book.open[f.inst], f).position]
<1> DEFINE a == Applied(book.open[f.inst], f)
<1>1. /\ f.inst \in Instruments /\ book.open \in [Instruments -> Held] /\ book.ledger \in Trades
      /\ f.qty \in Int /\ f.qty > 0 /\ f.mult \in Int /\ f.mult > 0
  BY DEF FillRows, Books
<1>2. a.position \in Held /\ (a.closes => a.profit \in Int)
  <2>1. book.open[f.inst] \in Held
    BY <1>1
  <2> QED
    BY <2>1, AppliedTyped
<1> DEFINE open == [book.open EXCEPT ![f.inst] = a.position]
           ledger == IF a.closes THEN RecordClose(book.ledger, a.profit) ELSE book.ledger
<1>3. Entered(book, f) = [open |-> open, ledger |-> ledger]
  BY <1>1 DEF Entered
<1> HIDE DEF a
<1>4. open \in [Instruments -> Held] /\ ledger \in Trades
  BY <1>1, <1>2, RecordCloseTyped
<1> HIDE DEF open, ledger
<1> QED
  BY <1>3, <1>4 DEF Books, open, a

EntryStep(log) == [x \in (1..Len(log)) \X Books |-> Entered(x[2], log[x[1]])]

LEMMA LedgerRuns ==
  ASSUME NEW log \in Seq(FillRows)
  PROVE  \E b : /\ Path(b, EntryStep(log), NewBook, Len(log), Books)
                /\ LedgerOf(log, Instruments) = b[Len(log)]
<1> DEFINE n == Len(log)
           D == 1..n
           R == Books
           base == NewBook
           op(book, f) == IF f.qty <= 0 \/ f.mult <= 0 THEN book
             ELSE [open   |-> [book.open EXCEPT
                                 ![f.inst] = Applied(book.open[f.inst], f).position],
                   ledger |-> IF Applied(book.open[f.inst], f).closes
                                THEN RecordClose(book.ledger, Applied(book.open[f.inst], f).profit)
                              ELSE book.ledger]
           Applies(g) == g = [t \in SUBSET D |->
             IF t = {} THEN [open |-> [i \in Instruments |-> Untouched], ledger |-> NoTrades]
             ELSE op(g[t \ {Max(t)}], log[Max(t)])]
           fold == CHOOSE g : Applies(g)
           h == EntryStep(log)
<1>1. n \in Nat /\ DOMAIN log = D /\ Indices(D, n)
  BY DEF Indices
<1>2. base \in R
  BY DEF NewBook, Books, Held, Untouched, Trades, NoTrades
<1>3. \A k \in D, a \in R : h[<<k, a>>] = op(a, log[k]) /\ op(a, log[k]) \in R
  <2> SUFFICES ASSUME NEW k \in D, NEW a \in R
               PROVE  h[<<k, a>>] = op(a, log[k]) /\ op(a, log[k]) \in R
    OBVIOUS
  <2>1. op(a, log[k]) = Entered(a, log[k])
    BY Zenon DEF Entered
  <2>2. log[k] \in FillRows
    OBVIOUS
  <2> HIDE DEF op
  <2> QED
    BY <2>1, <2>2, EnteredTyped DEF EntryStep
<1>4. LedgerOf(log, Instruments) = fold[D]
  BY <1>1, Zenon DEF LedgerOf, FoldLeft, MapThenFoldSet
<1> HIDE DEF h, op, R, n, D
<1>5. PICK g, b : Path(b, h, base, n, R) /\ Comes(g, h, base, "last", D, R, b[n])
  <2>1. \A k \in D, a \in R : h[<<k, a>>] \in R
    BY <1>3
  <2> HIDE DEF base
  <2> QED
    BY <1>1, <1>2, <2>1, FoldRuns
<1>6. \A t \in SUBSET D : t # {} => Max(t) \in D /\ t \ {Max(t)} \in SUBSET D
  BY <1>1, IndicesTaken
<1>7. Applies(g)
  BY <1>3, <1>5, <1>6 DEF Comes, Folds, Pick, NewBook
<1>8. Applies(fold)
  BY <1>7
<1> HIDE DEF fold
<1>9. Follows(fold, h, base, "last", D, R)
  BY <1>3, <1>6, <1>8 DEF Follows, Pick, NewBook
<1> QED
  BY <1>4, <1>5, <1>9 DEF Comes, R, h, n, base

\* A log and the same with one more entry.
LEMMA LogGrows ==
  ASSUME NEW F, NEW log \in Seq(F), NEW f \in F
  PROVE  /\ Append(log, f) \in Seq(F) /\ Len(Append(log, f)) = Len(log) + 1
         /\ Len(log) \in Nat
         /\ Append(log, f)[Len(log) + 1] = f
         /\ \A k \in 1..Len(log) : Append(log, f)[k] = log[k] /\ log[k] \in F
OBVIOUS

LEMMA LedgerGrows ==
  ASSUME NEW log \in Seq(FillRows)
  PROVE  /\ LedgerOf(log, Instruments) \in Books
         /\ log = <<>> => LedgerOf(log, Instruments) = NewBook
         /\ \A f \in FillRows :
              LedgerOf(Append(log, f), Instruments) = Entered(LedgerOf(log, Instruments), f)
<1>1. PICK b : /\ Path(b, EntryStep(log), NewBook, Len(log), Books)
               /\ LedgerOf(log, Instruments) = b[Len(log)]
  BY LedgerRuns
<1>2. Len(log) \in Nat /\ (log = <<>> => Len(log) = 0)
  OBVIOUS
<1>3. LedgerOf(log, Instruments) \in Books /\ (log = <<>> => LedgerOf(log, Instruments) = NewBook)
  BY <1>1, <1>2 DEF Path
<1>4. ASSUME NEW f \in FillRows
      PROVE  LedgerOf(Append(log, f), Instruments) = Entered(LedgerOf(log, Instruments), f)
  <2> DEFINE more == Append(log, f)
             n == Len(log)
  <2>1. /\ more \in Seq(FillRows) /\ Len(more) = n + 1 /\ n \in Nat /\ more[n + 1] = f
        /\ \A k \in 1..n : more[k] = log[k]
    BY LogGrows
  <2> HIDE DEF more
  <2>2. PICK c : /\ Path(c, EntryStep(more), NewBook, Len(more), Books)
                 /\ LedgerOf(more, Instruments) = c[Len(more)]
    BY <2>1, LedgerRuns
  <2>3. \A k \in 1..n, a \in Books : EntryStep(log)[<<k, a>>] = EntryStep(more)[<<k, a>>]
    BY <2>1 DEF EntryStep
  <2>4. b[n] = c[n]
    <3> DEFINE h == EntryStep(log)
               k == EntryStep(more)
               m == n + 1
    <3>1. /\ n \in Nat /\ m \in Nat /\ n <= m /\ n \in 0..n
          /\ Path(b, h, NewBook, n, Books) /\ Path(c, k, NewBook, m, Books)
          /\ SameSteps(h, k, n, Books)
      BY <1>1, <2>1, <2>2, <2>3 DEF SameSteps
    <3> HIDE DEF h, k, m, n
    <3> QED
      BY <3>1, PathsAgree
  <2>5. c[n] \in Books /\ c[n + 1] = EntryStep(more)[<<n + 1, c[n]>>]
    <3>1. n + 1 \in 1..(n + 1) /\ n \in 0..(n + 1) /\ (n + 1) - 1 = n
      BY <2>1
    <3> HIDE DEF n
    <3> QED
      BY <2>1, <2>2, <3>1 DEF Path
  <2>6. c[n + 1] = Entered(c[n], f)
    BY <2>1, <2>5 DEF EntryStep
  <2> QED
    BY <1>1, <2>1, <2>2, <2>4, <2>6 DEF more
<1> QED
  BY <1>3, <1>4

LEMMA FillsOfGrows ==
  ASSUME NEW F, NEW log \in Seq(F), NEW s
  PROVE  /\ FillsOf(log, s) \in Seq(F)
         /\ log = <<>> => FillsOf(log, s) = <<>>
         /\ \A f \in F :
              FillsOf(Append(log, f), s) =
                IF f.strategy = s THEN Append(FillsOf(log, s), f) ELSE FillsOf(log, s)
<1> DEFINE R == Seq(F)
<1>1. PICK b : /\ Path(b, OwnStep(log, s, R), <<>>, Len(log), R)
               /\ FillsOf(log, s) = b[Len(log)]
  BY FillsOfRuns
<1>2. Len(log) \in Nat /\ (log = <<>> => Len(log) = 0)
  OBVIOUS
<1>3. FillsOf(log, s) \in R /\ (log = <<>> => FillsOf(log, s) = <<>>)
  <2> HIDE DEF R
  <2> QED
    BY <1>1, <1>2 DEF Path
<1>4. ASSUME NEW f \in F
      PROVE  FillsOf(Append(log, f), s) =
               IF f.strategy = s THEN Append(FillsOf(log, s), f) ELSE FillsOf(log, s)
  <2> DEFINE more == Append(log, f)
             n == Len(log)
  <2>1. /\ more \in Seq(F) /\ Len(more) = n + 1 /\ n \in Nat /\ more[n + 1] = f
        /\ \A k \in 1..n : more[k] = log[k]
    BY LogGrows
  <2> HIDE DEF more
  <2>2. PICK c : /\ Path(c, OwnStep(more, s, R), <<>>, Len(more), R)
                 /\ FillsOf(more, s) = c[Len(more)]
    BY <2>1, FillsOfRuns
  <2> HIDE DEF R
  <2>3. \A k \in 1..n, a \in R : OwnStep(log, s, R)[<<k, a>>] = OwnStep(more, s, R)[<<k, a>>]
    BY <2>1 DEF OwnStep
  <2>4. b[n] = c[n]
    <3> DEFINE h == OwnStep(log, s, R)
               k == OwnStep(more, s, R)
               m == n + 1
               base == <<>>
    <3>1. /\ n \in Nat /\ m \in Nat /\ n <= m /\ n \in 0..n
          /\ Path(b, h, base, n, R) /\ Path(c, k, base, m, R)
          /\ SameSteps(h, k, n, R)
      BY <1>1, <2>1, <2>2, <2>3 DEF SameSteps
    <3> HIDE DEF h, k, m, n, base
    <3> QED
      BY <3>1, PathsAgree
  <2>5. c[n] \in R /\ c[n + 1] = OwnStep(more, s, R)[<<n + 1, c[n]>>]
    <3>1. n + 1 \in 1..(n + 1) /\ n \in 0..(n + 1) /\ (n + 1) - 1 = n
      BY <2>1
    <3> HIDE DEF n
    <3> QED
      BY <2>1, <2>2, <3>1 DEF Path
  <2>6. c[n + 1] = IF f.strategy = s THEN Append(c[n], f) ELSE c[n]
    BY <2>1, <2>5 DEF OwnStep
  <2> QED
    BY <1>1, <2>1, <2>2, <2>4, <2>6 DEF more
<1> QED
  BY <1>3, <1>4 DEF R

\* What has been spent on an instrument.
SpendStep(log, i) ==
  [x \in (1..Len(log)) \X Int |->
     IF log[x[1]].inst = i THEN x[2] + Signed(log[x[1]].side, log[x[1]].qty) * log[x[1]].price
     ELSE x[2]]

LEMMA SpentRuns ==
  ASSUME NEW log \in Seq(FillRows), NEW i
  PROVE  \E b : /\ Path(b, SpendStep(log, i), 0, Len(log), Int)
                /\ SpentOn(log, i) = b[Len(log)]
<1> DEFINE n == Len(log)
           D == 1..n
           R == Int
           op(sum, f) == IF f.inst = i THEN sum + Signed(f.side, f.qty) * f.price ELSE sum
           Applies(g) == g = [t \in SUBSET D |->
             IF t = {} THEN 0 ELSE op(g[t \ {Max(t)}], log[Max(t)])]
           fold == CHOOSE g : Applies(g)
           h == SpendStep(log, i)
<1>1. n \in Nat /\ DOMAIN log = D /\ Indices(D, n)
  BY DEF Indices
<1>2. \A k \in D, a \in R : h[<<k, a>>] = op(a, log[k]) /\ op(a, log[k]) \in R
  <2> SUFFICES ASSUME NEW k \in D, NEW a \in R
               PROVE  h[<<k, a>>] = op(a, log[k]) /\ op(a, log[k]) \in R
    OBVIOUS
  <2>1. h[<<k, a>>] = op(a, log[k])
    BY DEF SpendStep
  <2> DEFINE f == log[k]
             cost == Signed(f.side, f.qty) * f.price
  <2>2. f \in FillRows
    OBVIOUS
  <2> HIDE DEF f, h
  <2>3. f.qty \in Int /\ f.price \in Int
    BY <2>2 DEF FillRows
  <2>4. cost \in Int
    BY <2>3 DEF Signed
  <2> HIDE DEF cost
  <2>5. op(a, f) = IF f.inst = i THEN a + cost ELSE a
    BY DEF cost
  <2>6. op(a, f) \in R
    BY <2>4, <2>5
  <2> QED
    BY <2>1, <2>6 DEF f
<1>3. 0 \in R
  OBVIOUS
<1>4. SpentOn(log, i) = fold[D]
  BY <1>1, Zenon DEF SpentOn, FoldLeft, MapThenFoldSet
<1> HIDE DEF h, op, R, n, D
<1>5. PICK g, b : Path(b, h, 0, n, R) /\ Comes(g, h, 0, "last", D, R, b[n])
  <2>1. \A k \in D, a \in R : h[<<k, a>>] \in R
    BY <1>2
  <2> QED
    BY <1>1, <1>3, <2>1, FoldRuns
<1>6. \A t \in SUBSET D : t # {} => Max(t) \in D /\ t \ {Max(t)} \in SUBSET D
  BY <1>1, IndicesTaken
<1>7. Applies(g)
  BY <1>2, <1>5, <1>6 DEF Comes, Folds, Pick
<1>8. Applies(fold)
  BY <1>7
<1> HIDE DEF fold
<1>9. Follows(fold, h, 0, "last", D, R)
  BY <1>2, <1>6, <1>8 DEF Follows, Pick
<1> QED
  BY <1>4, <1>5, <1>9 DEF Comes, R, h, n

LEMMA SpentGrows ==
  ASSUME NEW log \in Seq(FillRows), NEW i
  PROVE  /\ SpentOn(log, i) \in Int
         /\ log = <<>> => SpentOn(log, i) = 0
         /\ \A f \in FillRows :
              SpentOn(Append(log, f), i)
                = IF f.inst = i THEN SpentOn(log, i) + Signed(f.side, f.qty) * f.price
                  ELSE SpentOn(log, i)
<1>1. PICK b : /\ Path(b, SpendStep(log, i), 0, Len(log), Int)
               /\ SpentOn(log, i) = b[Len(log)]
  BY SpentRuns
<1>2. Len(log) \in Nat /\ (log = <<>> => Len(log) = 0)
  OBVIOUS
<1>3. SpentOn(log, i) \in Int /\ (log = <<>> => SpentOn(log, i) = 0)
  BY <1>1, <1>2 DEF Path
<1>4. ASSUME NEW f \in FillRows
      PROVE  SpentOn(Append(log, f), i)
               = IF f.inst = i THEN SpentOn(log, i) + Signed(f.side, f.qty) * f.price
                 ELSE SpentOn(log, i)
  <2> DEFINE more == Append(log, f)
             n == Len(log)
  <2>1. /\ more \in Seq(FillRows) /\ Len(more) = n + 1 /\ n \in Nat /\ more[n + 1] = f
        /\ \A k \in 1..n : more[k] = log[k]
    BY LogGrows
  <2> HIDE DEF more
  <2>2. PICK c : /\ Path(c, SpendStep(more, i), 0, Len(more), Int)
                 /\ SpentOn(more, i) = c[Len(more)]
    BY <2>1, SpentRuns
  <2>3. \A k \in 1..n, a \in Int : SpendStep(log, i)[<<k, a>>] = SpendStep(more, i)[<<k, a>>]
    BY <2>1 DEF SpendStep
  <2>4. b[n] = c[n]
    <3> DEFINE h == SpendStep(log, i)
               k == SpendStep(more, i)
               m == n + 1
    <3>1. /\ n \in Nat /\ m \in Nat /\ n <= m /\ n \in 0..n
          /\ Path(b, h, 0, n, Int) /\ Path(c, k, 0, m, Int)
          /\ SameSteps(h, k, n, Int)
      BY <1>1, <2>1, <2>2, <2>3 DEF SameSteps
    <3> HIDE DEF h, k, m, n
    <3> QED
      BY <3>1, PathsAgree
  <2>5. c[n] \in Int /\ c[n + 1] = SpendStep(more, i)[<<n + 1, c[n]>>]
    <3>1. n + 1 \in 1..(n + 1) /\ n \in 0..(n + 1) /\ (n + 1) - 1 = n
      BY <2>1
    <3> HIDE DEF n
    <3> QED
      BY <2>1, <2>2, <3>1 DEF Path
  <2>6. c[n + 1] = IF f.inst = i THEN c[n] + Signed(f.side, f.qty) * f.price ELSE c[n]
    BY <2>1, <2>5 DEF SpendStep
  <2> QED
    BY <1>1, <2>1, <2>2, <2>4, <2>6 DEF more
<1> QED
  BY <1>3, <1>4

-----------------------------------------------------------------------------
(***************************************************************************)
(* Sums.                                                                   *)
(***************************************************************************)
SumStep(v, S) == [x \in S \X Int |-> v[x[1]] + x[2]]

LEMMA SumIsFold ==
  ASSUME NEW S, IsFiniteSet(S), NEW v, \A x \in S : v[x] \in Int
  PROVE  \E g : /\ Folds(g, SumStep(v, S), 0, "any", S)
                /\ \A s \in SUBSET S : g[s] \in Int
                /\ Total(v, S) = g[S]
<1> DEFINE R == Int
           base == 0
           way == "any"
           First(t) == CHOOSE x \in t : TRUE
           Body(g, t) == IF t = {} THEN 0 ELSE v[First(t)] + g[t \ {First(t)}]
           Applies(g) == g = [t \in SUBSET S |-> Body(g, t)]
           fold == CHOOSE g : Applies(g)
           h == SumStep(v, S)
<1>1. \A x \in S, a \in R : h[<<x, a>>] = v[x] + a /\ v[x] + a \in R
  BY DEF SumStep
<1>2. Total(v, S) = fold[S]
  BY DEF Total, MapThenSumSet, MapThenFoldSet
<1>3. Ranged(way, S) /\ base \in R /\ base = 0
  BY DEF Ranged
<1>4. \A t \in SUBSET S : t # {} => First(t) \in S /\ t \ {First(t)} \in SUBSET S
  OBVIOUS
<1>5. \A t : First(t) = Pick(way, t)
  BY DEF Pick
<1> HIDE DEF R, h, base, way, First
<1>6. PICK g : Folds(g, h, base, way, S)
  BY <1>3, FoldsExist
<1>7. \A s \in SUBSET S : g[s] \in R
  <2>1. \A x \in S, a \in R : h[<<x, a>>] \in R
    BY <1>1
  <2> QED
    BY <1>3, <1>6, <2>1, FoldsTyped
<1>8. Applies(g)
  <2>1. ASSUME NEW t \in SUBSET S PROVE g[t] = Body(g, t)
    <3>1. g[t] = IF t = {} THEN base ELSE h[<<First(t), g[t \ {First(t)}]>>]
      BY <1>5, <1>6, FoldsAt
    <3> QED
      BY <1>1, <1>3, <1>4, <1>7, <3>1
  <2>2. g = [t \in SUBSET S |-> g[t]]
    BY <1>6 DEF Folds
  <2> HIDE DEF Body
  <2> QED
    BY <2>1, <2>2
<1>9. Applies(fold)
  BY <1>8
<1> HIDE DEF fold
<1>10. ASSUME NEW t \in SUBSET S PROVE fold[t] = Body(fold, t)
  <2> HIDE DEF Body
  <2> QED
    BY <1>9
<1>11. Follows(fold, h, base, way, S, R)
  <2>1. fold[{}] = base
    BY <1>3, <1>10
  <2>2. ASSUME NEW s \in SUBSET S, s # {}, fold[s \ {First(s)}] \in R
        PROVE  fold[s] = h[<<First(s), fold[s \ {First(s)}]>>]
    BY <1>1, <1>4, <1>10, <2>2
  <2> QED
    BY <1>5, <2>1, <2>2 DEF Follows
<1>12. fold[S] = g[S]
  BY <1>3, <1>6, <1>7, <1>11, FoldFollows
<1> QED
  BY <1>2, <1>6, <1>7, <1>12 DEF R, h, base, way

\* A sum changes by as much as one of its terms, and a sum of nothing is nothing.
LEMMA SumChanges ==
  ASSUME NEW S, IsFiniteSet(S), NEW i \in S, NEW v, NEW w,
         \A x \in S : v[x] \in Int /\ w[x] \in Int /\ (x # i => w[x] = v[x])
  PROVE  Total(v, S) \in Int /\ Total(w, S) = Total(v, S) + (w[i] - v[i])
<1>1. PICK f : /\ Folds(f, SumStep(v, S), 0, "any", S)
               /\ \A s \in SUBSET S : f[s] \in Int
               /\ Total(v, S) = f[S]
  BY SumIsFold
<1>2. PICK g : /\ Folds(g, SumStep(w, S), 0, "any", S)
               /\ \A s \in SUBSET S : g[s] \in Int
               /\ Total(w, S) = g[S]
  BY SumIsFold
<1> DEFINE D(s) == IF i \in s THEN w[i] - v[i] ELSE 0
           Bad == {s \in SUBSET S : g[s] # f[s] + D(s)}
<1>3. Bad = {}
  <2> SUFFICES ASSUME Bad # {} PROVE FALSE
    OBVIOUS
  <2>1. Bad \in SUBSET SUBSET S
    OBVIOUS
  <2>2. PICK m \in Bad : \A s \in Bad : s \subseteq m => s = m
    <3> HIDE DEF Bad
    <3> QED
      BY <2>1, LeastSubset
  <2> DEFINE x == Pick("any", m)
             r == m \ {x}
  <2>0. m \in SUBSET S
    BY <2>2
  <2>3. f[m] = IF m = {} THEN 0 ELSE SumStep(v, S)[<<x, f[r]>>]
    BY <1>1, <2>0, FoldsAt
  <2>6. g[m] = IF m = {} THEN 0 ELSE SumStep(w, S)[<<x, g[r]>>]
    <3> DEFINE k == SumStep(w, S)
    <3>1. Folds(g, k, 0, "any", S)
      BY <1>2
    <3> HIDE DEF k
    <3>2. g[m] = IF m = {} THEN 0 ELSE k[<<x, g[r]>>]
      BY <2>0, <3>1, FoldsAt
    <3> QED
      BY <3>2 DEF k
  <2>4. CASE m = {}
    <3> HIDE DEF x, r
    <3> QED
      BY <2>2, <2>3, <2>4, <2>6
  <2>5. CASE m # {}
    <3>1. x \in m /\ r \in SUBSET S /\ r \subseteq m /\ r # m
      BY <2>5, PickIsIn DEF Ranged
    <3>2. g[r] = f[r] + D(r) /\ f[r] \in Int /\ g[r] \in Int
      BY <1>1, <1>2, <2>2, <3>1
    <3>3. f[m] = v[x] + f[r] /\ g[m] = w[x] + g[r]
      BY <2>3, <2>5, <2>6, <3>1, <3>2 DEF SumStep
    <3>4. /\ v[x] \in Int /\ w[x] \in Int /\ v[i] \in Int /\ w[i] \in Int
          /\ x # i => w[x] = v[x] /\ D(r) = D(m)
          /\ x = i => D(r) = 0 /\ D(m) = w[x] - v[x]
      BY <3>1
    <3>5. D(m) \in Int /\ D(r) \in Int
      BY <3>4
    <3> HIDE DEF D, x, r
    <3>6. g[m] = f[m] + D(m)
      BY <3>2, <3>3, <3>4, <3>5
    <3> QED
      BY <2>2, <3>6
  <2> QED
    BY <2>4, <2>5
<1> QED
  BY <1>1, <1>2, <1>3

LEMMA SumOfNothing ==
  ASSUME NEW S, IsFiniteSet(S), NEW v, \A x \in S : v[x] = 0
  PROVE  Total(v, S) = 0
<1>1. PICK f : /\ Folds(f, SumStep(v, S), 0, "any", S)
               /\ \A s \in SUBSET S : f[s] \in Int
               /\ Total(v, S) = f[S]
  BY SumIsFold
<1> DEFINE Bad == {s \in SUBSET S : f[s] # 0}
<1>2. Bad = {}
  <2> SUFFICES ASSUME Bad # {} PROVE FALSE
    OBVIOUS
  <2>1. Bad \in SUBSET SUBSET S
    OBVIOUS
  <2>2. PICK m \in Bad : \A s \in Bad : s \subseteq m => s = m
    <3> HIDE DEF Bad
    <3> QED
      BY <2>1, LeastSubset
  <2> DEFINE x == Pick("any", m)
             r == m \ {x}
  <2>3. f[m] = IF m = {} THEN 0 ELSE SumStep(v, S)[<<x, f[r]>>]
    BY <1>1, FoldsAt
  <2>4. CASE m = {}
    BY <2>2, <2>3, <2>4
  <2>5. CASE m # {}
    <3>1. x \in m /\ r \in SUBSET S /\ r \subseteq m /\ r # m
      BY <2>5, PickIsIn DEF Ranged
    <3>2. f[r] = 0
      BY <2>2, <3>1
    <3>3. f[m] = v[x] + f[r]
      BY <2>3, <2>5, <3>1, <3>2 DEF SumStep
    <3>4. v[x] = 0
      BY <3>1
    <3> HIDE DEF x, r
    <3> QED
      BY <2>2, <3>2, <3>3, <3>4
  <2> QED
    BY <2>4, <2>5
<1> QED
  BY <1>1, <1>2

\* A sum takes one element and then the rest.
LEMMA SumAt ==
  ASSUME NEW S, NEW v, NEW g, Folds(g, SumStep(v, S), 0, "any", S), \A s \in SUBSET S : g[s] \in Int,
         NEW m \in SUBSET S, m # {}
  PROVE  /\ Pick("any", m) \in m
         /\ g[m] = v[Pick("any", m)] + g[m \ {Pick("any", m)}]
<1> DEFINE x == Pick("any", m)
           r == m \ {x}
           j == SumStep(v, S)
<1>1. x \in m
  BY PickIsIn DEF Ranged
<1>2. Folds(g, j, 0, "any", S)
  OBVIOUS
<1> HIDE DEF j
<1>3. g[m] = IF m = {} THEN 0 ELSE j[<<x, g[r]>>]
  BY <1>2, FoldsAt
<1> HIDE DEF x
<1>4. r \in SUBSET S /\ x \in S
  BY <1>1
<1>5. g[r] \in Int
  BY <1>4
<1> HIDE DEF r
<1>6. j[<<x, g[r]>>] = v[x] + g[r]
  BY <1>4, <1>5 DEF j, SumStep
<1> QED
  BY <1>1, <1>3, <1>6 DEF x, r

LEMMA SumFrom ==
  ASSUME NEW S, NEW v, NEW g, Folds(g, SumStep(v, S), 0, "any", S)
  PROVE  g[{}] = 0
BY FoldsAt

\* The sum of the sums of two functions.
LEMMA SumAdds ==
  ASSUME NEW S, IsFiniteSet(S), NEW u, NEW v, NEW w,
         \A x \in S : u[x] \in Int /\ v[x] \in Int /\ w[x] = u[x] + v[x]
  PROVE  Total(u, S) \in Int /\ Total(v, S) \in Int /\ Total(w, S) = Total(u, S) + Total(v, S)
<1>0. \A x \in S : w[x] \in Int
  OBVIOUS
<1>1. PICK f : /\ Folds(f, SumStep(u, S), 0, "any", S)
               /\ \A s \in SUBSET S : f[s] \in Int
               /\ Total(u, S) = f[S]
  BY SumIsFold
<1>2. PICK g : /\ Folds(g, SumStep(v, S), 0, "any", S)
               /\ \A s \in SUBSET S : g[s] \in Int
               /\ Total(v, S) = g[S]
  BY SumIsFold
<1>3. PICK h : /\ Folds(h, SumStep(w, S), 0, "any", S)
               /\ \A s \in SUBSET S : h[s] \in Int
               /\ Total(w, S) = h[S]
  BY <1>0, SumIsFold
<1> DEFINE Bad == {s \in SUBSET S : h[s] # f[s] + g[s]}
<1>4. Bad = {}
  <2> SUFFICES ASSUME Bad # {} PROVE FALSE
    OBVIOUS
  <2>1. Bad \in SUBSET SUBSET S
    OBVIOUS
  <2>2. PICK m \in Bad : \A s \in Bad : s \subseteq m => s = m
    <3> HIDE DEF Bad
    <3> QED
      BY <2>1, LeastSubset
  <2> DEFINE x == Pick("any", m)
             r == m \ {x}
  <2>3. /\ m \in SUBSET S /\ h[m] # f[m] + g[m]
        /\ \A s \in SUBSET S : s \subseteq m /\ s # m => h[s] = f[s] + g[s]
    BY <2>2
  <2> HIDE DEF Bad
  <2>6. CASE m = {}
    <3>1. f[{}] = 0
      BY <1>1, SumFrom
    <3>2. g[{}] = 0
      BY <1>2, SumFrom
    <3>3. h[{}] = 0
      BY <1>3, SumFrom
    <3> HIDE DEF x, r
    <3> QED
      BY <2>3, <2>6, <3>1, <3>2, <3>3
  <2>7. CASE m # {}
    <3>1. x \in m /\ f[m] = u[x] + f[r]
      BY <1>1, <2>3, <2>7, SumAt
    <3>2. g[m] = v[x] + g[r]
      BY <1>2, <2>3, <2>7, SumAt
    <3>3. h[m] = w[x] + h[r]
      BY <1>3, <2>3, <2>7, SumAt
    <3>4. r \in SUBSET S /\ r \subseteq m /\ r # m /\ x \in S
      BY <2>3, <3>1
    <3>5. h[r] = f[r] + g[r] /\ f[r] \in Int /\ g[r] \in Int
      BY <1>1, <1>2, <2>3, <3>4
    <3> HIDE DEF x, r
    <3>6. u[x] \in Int /\ v[x] \in Int /\ w[x] = u[x] + v[x]
      BY <3>4
    <3>7. h[m] = f[m] + g[m]
      BY <3>1, <3>2, <3>3, <3>5, <3>6
    <3> QED
      BY <2>3, <3>7
  <2> QED
    BY <2>6, <2>7
<1> QED
  BY <1>1, <1>2, <1>3, <1>4

-----------------------------------------------------------------------------
(***************************************************************************)
(* The books that are kept apart.                                          *)
(***************************************************************************)

\* Every order that may fill is for a positive quantity, and every contract stands
\* for a positive number of units.
SoundFills ==
  /\ \A o \in Orders : o.inst \in Instruments /\ o.side \in Sides /\ o.qty \in Nat \ {0}
  /\ \A i \in Instruments : Meta[i].mult \in Nat \ {0}
  /\ Prices \subseteq Int

Own(s) == LedgerOf(FillsOf(fills, s), Instruments)

Whole == LedgerOf(fills, Instruments)

Tags == {f.strategy : f \in ToSet(fills)}

AccountTyped ==
  /\ DOMAIN acct = {"pos", "entry", "bal"}
  /\ acct.pos \in [Instruments -> Int]
  /\ acct.entry \in [Instruments -> Samples]
  /\ mark \in [Instruments -> Int]

LogTyped ==
  /\ fills \in Seq(FillRows)
  /\ books \in [Instruments -> [Strategies -> Int]]

\* What a strategy has no fill of is not in its ledger.
TagsAreKnown == \A s \in Strategies : s \notin Tags => FillsOf(fills, s) = <<>>

OwnPositions == \A s \in Strategies, i \in Instruments : books[i][s] = Own(s).open[i].qty

PartsAdd ==
  \A i \in Instruments \ closed :
    acct.pos[i] = Own(Untagged).open[i].qty + Total(books[i], Strategies)

\* A margined position and its average entry are the ledger's; others have no entry.
CostsAgree ==
  \A i \in Instruments :
    IF UsesMargin(Meta[i])
      THEN i \notin closed =>
             /\ acct.pos[i] = Whole.open[i].qty
             /\ acct.entry[i] = IF acct.pos[i] = 0 THEN NoPrice ELSE Whole.open[i].average
      ELSE acct.entry[i] = NoPrice

BooksInv ==
  AccountTyped /\ LogTyped /\ TagsAreKnown /\ OwnPositions /\ PartsAdd /\ CostsAgree

LEMMA EntryIsAverage ==
  ASSUME NEW p \in Held, NEW f \in FillRows,
         NEW entry, entry = IF p.qty = 0 THEN NoPrice ELSE p.average
  PROVE  LET q == Applied(p, f).position
         IN  NextEntry(p.qty, entry, Signed(f.side, f.qty), f.price)
               = IF q.qty = 0 THEN NoPrice ELSE q.average
<1> DEFINE q == Applied(p, f).position
           delta == Signed(f.side, f.qty)
           left  == p.qty + delta
<1>1. /\ q.qty = left /\ delta \in Int /\ delta # 0 /\ Abs(delta) = f.qty
      /\ left # 0 =>
           q.average = IF p.qty = 0 \/ Signum(p.qty) # Signum(left) THEN f.price
                       ELSE IF Signum(p.qty) = Signum(delta) THEN Mixed(p, f)
                       ELSE p.average
  BY AppliedTyped
<1>2. p.qty \in Int /\ p.average \in Int
  BY DEF Held
<1> SUFFICES NextEntry(p.qty, entry, delta, f.price) = IF q.qty = 0 THEN NoPrice ELSE q.average
  OBVIOUS
<1> HIDE DEF q
<1>3. CASE left = 0
  BY <1>1, <1>3 DEF NextEntry
<1>4. CASE left # 0 /\ (p.qty = 0 \/ Signum(p.qty) # Signum(left))
  <2>1. NextEntry(p.qty, entry, delta, f.price) = f.price
    BY <1>4 DEF NextEntry
  <2> QED
    BY <1>1, <1>4, <2>1
<1>5. CASE left # 0 /\ p.qty # 0 /\ Signum(p.qty) = Signum(left)
  <2>1. entry = p.average /\ entry # NoPrice
    BY <1>2, <1>5, NoPriceAssumption
  <2>2. NextEntry(p.qty, entry, delta, f.price)
          = IF Signum(p.qty) # Signum(delta) THEN entry
            ELSE (entry * Abs(p.qty) + f.price * Abs(delta)) \div Abs(left)
    BY <1>5, <2>1 DEF NextEntry
  <2>3. Mixed(p, f) = (p.average * Abs(p.qty) + f.price * f.qty) \div Abs(left)
    BY DEF Mixed
  <2>4. NextEntry(p.qty, entry, delta, f.price)
          = IF Signum(p.qty) # Signum(delta) THEN p.average ELSE Mixed(p, f)
    BY <1>1, <2>1, <2>2, <2>3
  <2> HIDE DEF delta, left
  <2> QED
    BY <1>1, <1>5, <2>4 DEF delta
<1> QED
  BY <1>1, <1>3, <1>4, <1>5

LEMMA LedgerMoves ==
  ASSUME NEW log \in Seq(FillRows), NEW f \in FillRows
  PROVE  LET was == LedgerOf(log, Instruments).open
             now == LedgerOf(Append(log, f), Instruments).open
         IN  /\ was \in [Instruments -> Held] /\ now \in [Instruments -> Held]
             /\ now = [was EXCEPT ![f.inst] = Applied(was[f.inst], f).position]
             /\ f.inst \in Instruments /\ Signed(f.side, f.qty) \in Int
             /\ now[f.inst].qty = was[f.inst].qty + Signed(f.side, f.qty)
             /\ \A i \in Instruments : i # f.inst => now[i] = was[i]
<1> DEFINE was == LedgerOf(log, Instruments)
           now == LedgerOf(Append(log, f), Instruments)
<1>1. was \in Books /\ now = Entered(was, f)
  BY LedgerGrows
<1> HIDE DEF was, now
<1>2. /\ now \in Books
      /\ now.open = [was.open EXCEPT ![f.inst] = Applied(was.open[f.inst], f).position]
  BY <1>1, EnteredTyped
<1>3. /\ was.open \in [Instruments -> Held] /\ now.open \in [Instruments -> Held]
      /\ f.inst \in Instruments
  BY <1>1, <1>2 DEF Books, FillRows
<1>4. was.open[f.inst] \in Held
  BY <1>3
<1>5. /\ Applied(was.open[f.inst], f).position.qty
           = was.open[f.inst].qty + Signed(f.side, f.qty)
      /\ Signed(f.side, f.qty) \in Int
  BY <1>4, AppliedTyped
<1> QED
  BY <1>2, <1>3, <1>5 DEF was, now

LEMMA FillIsRow ==
  ASSUME SoundFills, NEW o \in Orders, NEW price \in Int, NEW s \in Strategies \cup {Untagged}
  PROVE  [inst |-> o.inst, side |-> o.side, qty |-> o.qty, price |-> price,
          fee |-> Fee(Meta[o.inst], price, o.qty), mult |-> Meta[o.inst].mult,
          strategy |-> s] \in FillRows
<1> DEFINE x == Meta[o.inst]
<1>1. /\ o.inst \in Instruments /\ o.side \in Sides /\ o.qty \in Nat \ {0}
      /\ x.mult \in Nat \ {0} /\ x.mult \in Int /\ o.qty \in Int
  BY DEF SoundFills
<1> HIDE DEF x
<1>2. Multiplier(x) \in Int
  BY <1>1 DEF Multiplier
<1>3. Notional(x, price, o.qty) \in Int
  BY <1>1, <1>2 DEF Notional
<1>4. Fee(x, price, o.qty) \in Int
  <2> DEFINE v == Notional(x, price, o.qty) * FeeBps
  <2>1. v \in Int
    BY <1>3, RatesAssumption
  <2> HIDE DEF v
  <2>2. v \div 10000 \in Int
    BY <2>1
  <2> QED
    BY <2>2 DEF Fee, Bps, v
<1> QED
  BY <1>1, <1>4 DEF FillRows, x

LEMMA BooksInit ==
  ASSUME SoundFills, Init
  PROVE  BooksInv
<1>1. AccountTyped
  <2>1. /\ acct.pos = [i \in Instruments |-> 0] /\ acct.entry = [i \in Instruments |-> NoPrice]
        /\ DOMAIN acct = {"pos", "entry", "bal"}
    BY DEF Init
  <2>2. mark \in [Instruments -> Int]
    BY DEF Init, SoundFills
  <2> QED
    BY <2>1, <2>2 DEF AccountTyped, Samples
<1>2. /\ fills = <<>> /\ fills \in Seq(FillRows)
      /\ books = [i \in Instruments |-> [s \in Strategies |-> 0]]
  BY DEF Init
<1>3. LogTyped
  BY <1>2 DEF LogTyped
<1>4. \A s : FillsOf(fills, s) = <<>>
  BY <1>2, FillsOfGrows
<1>5. Whole = NewBook /\ \A s : Own(s) = NewBook
  <2>1. Whole = NewBook
    BY <1>2, LedgerGrows DEF Whole
  <2>2. LedgerOf(<<>>, Instruments) = NewBook
    BY <1>2, <2>1 DEF Whole
  <2> QED
    BY <1>4, <2>1, <2>2 DEF Own
<1>6. \A i \in Instruments : NewBook.open[i].qty = 0
  BY DEF NewBook, Untouched
<1>7. \A i \in Instruments : Total(books[i], Strategies) = 0
  BY <1>2, SumOfNothing, TagsAssumption
<1>8. \A i \in Instruments : acct.pos[i] = 0 /\ acct.entry[i] = NoPrice
  BY DEF Init
<1>9. TagsAreKnown
  BY <1>4 DEF TagsAreKnown
<1>10. OwnPositions
  BY <1>2, <1>5, <1>6 DEF OwnPositions
<1>11. PartsAdd
  BY <1>5, <1>6, <1>7, <1>8 DEF PartsAdd
<1>12. CostsAgree
  BY <1>5, <1>6, <1>8 DEF CostsAgree
<1> QED
  BY <1>1, <1>3, <1>9, <1>10, <1>11, <1>12 DEF BooksInv

LEMMA EntryTyped ==
  ASSUME NEW cur \in Int, NEW entry \in Samples, NEW delta \in Int, NEW price \in Int
  PROVE  NextEntry(cur, entry, delta, price) \in Samples
<1> DEFINE next == cur + delta
           from == IF entry = NoPrice THEN price ELSE entry
           sum == from * Abs(cur) + price * Abs(delta)
<1>1. next \in Int /\ from \in Int
  BY DEF Samples
<1>2. CASE next = 0
  BY <1>2 DEF NextEntry, Samples
<1>3. CASE next # 0 /\ (cur = 0 \/ Signum(cur) # Signum(next))
  BY <1>3 DEF NextEntry, Samples
<1>4. CASE next # 0 /\ cur # 0 /\ Signum(cur) = Signum(next)
  <2>1. NextEntry(cur, entry, delta, price)
          = IF Signum(cur) # Signum(delta) THEN entry ELSE sum \div Abs(next)
    BY <1>4 DEF NextEntry
  <2>2. sum \in Int
    <3> HIDE DEF from
    <3> QED
      BY <1>1, AbsTyped
  <2>3. Abs(next) \in Int /\ Abs(next) > 0
    BY <1>1, <1>4, AbsTyped
  <2> HIDE DEF sum, next
  <2>4. sum \div Abs(next) \in Int
    BY <2>2, <2>3, DivTyped
  <2> QED
    BY <2>1, <2>4 DEF Samples
<1> QED
  BY <1>2, <1>3, <1>4

\* A step without a fill leaves every ledger.
LEMMA LedgersFrame ==
  ASSUME UNCHANGED fills
  PROVE  Whole' = Whole /\ Tags' = Tags /\ \A s : Own(s)' = Own(s)
BY DEF Whole, Tags, Own

LEMMA TotalTyped ==
  ASSUME LogTyped, NEW i \in Instruments
  PROVE  Total(books[i], Strategies) \in Int
<1>1. \A x \in Strategies : books[i][x] \in Int
  BY DEF LogTyped
<1> DEFINE v == books[i]
<1> HIDE DEF v
<1>2. PICK g : /\ \A s \in SUBSET Strategies : g[s] \in Int
               /\ Total(v, Strategies) = g[Strategies]
  BY <1>1, SumIsFold, TagsAssumption DEF v
<1> QED
  BY <1>2 DEF v

LEMMA FillStep ==
  ASSUME SoundFills, BooksInv, NEW o \in Orders, NEW s \in Strategies \cup {Untagged},
         Fill(o, mark[o.inst], s)
  PROVE  BooksInv'
<1> DEFINE j == o.inst
           price == mark[j]
           f == [inst |-> j, side |-> o.side, qty |-> o.qty, price |-> price,
                 fee |-> Fee(Meta[j], price, o.qty), mult |-> Meta[j].mult, strategy |-> s]
           delta == Signed(o.side, o.qty)
<1>1. /\ fills' = Append(fills, f)
      /\ acct' = AccountAfterFill(acct, acct, j, Meta[j], o.side, price, o.qty)
      /\ books' = Attributed(f)
      /\ UNCHANGED <<mark, closed>>
  BY DEF Fill
<1>2. j \in Instruments /\ price \in Int /\ AccountTyped /\ LogTyped
  BY DEF SoundFills, BooksInv, AccountTyped
<1>3. f \in FillRows
  BY <1>2, FillIsRow
<1>4. f.inst = j /\ f.side = o.side /\ f.qty = o.qty /\ f.price = price /\ f.strategy = s
  OBVIOUS
<1> HIDE DEF f
<1>5. delta \in Int /\ Signed(f.side, f.qty) = delta
  BY <1>4, <1>2, <1>3, LedgerMoves DEF LogTyped
<1>6. fills \in Seq(FillRows) /\ fills' \in Seq(FillRows)
  BY <1>1, <1>2, <1>3 DEF LogTyped
<1>7. /\ Whole'.open[j] = Applied(Whole.open[j], f).position
      /\ Whole.open[j] \in Held /\ Whole'.open[j].qty = Whole.open[j].qty + delta
      /\ \A i \in Instruments : i # j => Whole'.open[i] = Whole.open[i]
  <2> DEFINE was == LedgerOf(fills, Instruments).open
             now == LedgerOf(Append(fills, f), Instruments).open
  <2>1. /\ was \in [Instruments -> Held]
        /\ now = [was EXCEPT ![f.inst] = Applied(was[f.inst], f).position]
        /\ now[f.inst].qty = was[f.inst].qty + Signed(f.side, f.qty)
        /\ \A i \in Instruments : i # f.inst => now[i] = was[i]
    BY <1>3, <1>6, LedgerMoves
  <2>2. was = Whole.open /\ now = Whole'.open
    BY <1>1 DEF Whole
  <2> HIDE DEF was, now
  <2> QED
    BY <1>2, <1>4, <1>5, <2>1, <2>2
<1>8. ASSUME NEW t
      PROVE  /\ t # s => Own(t)' = Own(t)
             /\ t = s => /\ Own(t).open \in [Instruments -> Held]
                         /\ Own(t)'.open[j].qty = Own(t).open[j].qty + delta
                         /\ \A i \in Instruments : i # j => Own(t)'.open[i] = Own(t).open[i]
  <2>1. /\ FillsOf(fills, t) \in Seq(FillRows)
        /\ FillsOf(fills', t) =
             IF f.strategy = t THEN Append(FillsOf(fills, t), f) ELSE FillsOf(fills, t)
    BY <1>1, <1>3, <1>6, FillsOfGrows
  <2>2. CASE t # s
    BY <1>4, <2>1, <2>2 DEF Own
  <2>3. CASE t = s
    <3> DEFINE log == FillsOf(fills, t)
               was == LedgerOf(log, Instruments).open
               now == LedgerOf(Append(log, f), Instruments).open
    <3>1. log \in Seq(FillRows)
      BY <2>1
    <3>2. was = Own(t).open /\ now = Own(t)'.open
      BY <1>4, <2>1, <2>3 DEF Own
    <3> HIDE DEF log
    <3>3. /\ was \in [Instruments -> Held]
          /\ now[f.inst].qty = was[f.inst].qty + Signed(f.side, f.qty)
          /\ \A i \in Instruments : i # f.inst => now[i] = was[i]
      BY <1>3, <3>1, LedgerMoves
    <3> HIDE DEF was, now
    <3> QED
      BY <1>4, <1>5, <2>3, <3>2, <3>3
  <2> QED
    BY <2>2, <2>3
<1>9. AccountTyped' /\ acct'.pos = [acct.pos EXCEPT ![j] = @ + delta]
      /\ acct'.entry = [acct.entry EXCEPT ![j] =
            IF UsesMargin(Meta[j]) THEN NextEntry(acct.pos[j], @, delta, price) ELSE @]
  <2>1. /\ acct'.pos = [acct.pos EXCEPT ![j] = @ + delta]
        /\ acct'.entry = [acct.entry EXCEPT ![j] =
              IF UsesMargin(Meta[j]) THEN NextEntry(acct.pos[j], @, delta, price) ELSE @]
        /\ DOMAIN acct' = {"pos", "entry", "bal"}
    BY <1>1 DEF AccountAfterFill
  <2>2. acct.pos[j] \in Int /\ acct.entry[j] \in Samples
    BY <1>2 DEF AccountTyped
  <2>3. NextEntry(acct.pos[j], acct.entry[j], delta, price) \in Samples
    <3> HIDE DEF delta, price, j
    <3> QED
      BY <1>2, <1>5, <2>2, EntryTyped
  <2>4. acct'.pos \in [Instruments -> Int] /\ acct'.entry \in [Instruments -> Samples]
    <3> HIDE DEF delta, price, j
    <3> QED
      BY <1>2, <1>5, <2>1, <2>2, <2>3 DEF AccountTyped
  <2> QED
    BY <1>1, <1>2, <2>1, <2>4 DEF AccountTyped
<1>10. LogTyped'
       /\ books' = IF s = Untagged THEN books ELSE [books EXCEPT ![j][s] = @ + delta]
  <2>1. books' = IF s = Untagged THEN books ELSE [books EXCEPT ![j][s] = @ + delta]
    BY <1>1, <1>4 DEF Attributed
  <2>2. s # Untagged => s \in Strategies
    OBVIOUS
  <2> QED
    BY <1>2, <1>5, <1>6, <2>1, <2>2 DEF LogTyped
<1>11. TagsAreKnown'
  <2>1. Tags' = Tags \cup {s}
    <3>1. /\ Len(fills') = Len(fills) + 1 /\ Len(fills) \in Nat
          /\ fills'[Len(fills) + 1] = f
          /\ \A k \in 1..Len(fills) : fills'[k] = fills[k]
      BY <1>1, <1>3, <1>6, LogGrows
    <3>2. DOMAIN fills = 1..Len(fills) /\ DOMAIN fills' = 1..(Len(fills) + 1)
      BY <1>6, <3>1
    <3>3. ToSet(fills') = ToSet(fills) \cup {f}
      <4> DEFINE n == Len(fills)
      <4>1. ToSet(fills) = {fills[k] : k \in 1..n}
        BY <3>2 DEF ToSet
      <4>2. ToSet(fills') = {fills'[k] : k \in 1..(n + 1)}
        BY <3>2 DEF ToSet
      <4>3. 1..(n + 1) = (1..n) \cup {n + 1}
        BY <3>1
      <4> QED
        BY <3>1, <4>1, <4>2, <4>3
    <3> QED
      BY <1>4, <3>3 DEF Tags
  <2>2. ASSUME NEW t \in Strategies, t \notin Tags'
        PROVE  FillsOf(fills', t) = <<>>
    <3>1. FillsOf(fills', t) = FillsOf(fills, t)
      BY <1>1, <1>3, <1>4, <1>6, <2>1, <2>2, FillsOfGrows
    <3> QED
      BY <2>1, <2>2, <3>1 DEF TagsAreKnown, BooksInv
  <2> QED
    BY <2>2 DEF TagsAreKnown
<1>12. OwnPositions'
  <2> SUFFICES ASSUME NEW t \in Strategies, NEW i \in Instruments
               PROVE  books'[i][t] = Own(t)'.open[i].qty
    BY DEF OwnPositions
  <2>1. books[i][t] = Own(t).open[i].qty
    BY DEF BooksInv, OwnPositions
  <2>2. books'[i][t] = IF i = j /\ t = s THEN books[i][t] + delta ELSE books[i][t]
    BY <1>2, <1>10, TagsAssumption DEF LogTyped
  <2> HIDE DEF delta, j
  <2> QED
    BY <1>2, <1>8, <2>1, <2>2
<1>13. PartsAdd'
  <2> SUFFICES ASSUME NEW i \in Instruments \ closed'
               PROVE  acct'.pos[i] = Own(Untagged)'.open[i].qty + Total(books'[i], Strategies)
    BY DEF PartsAdd
  <2>1. acct.pos[i] = Own(Untagged).open[i].qty + Total(books[i], Strategies)
    BY <1>1 DEF BooksInv, PartsAdd
  <2>2. CASE i # j
    <3>1. acct'.pos[i] = acct.pos[i] /\ books'[i] = books[i]
      BY <1>2, <1>9, <1>10, <2>2 DEF AccountTyped, LogTyped
    <3>2. Own(Untagged)'.open[i] = Own(Untagged).open[i]
      BY <1>8, <2>2
    <3> QED
      BY <2>1, <3>1, <3>2
  <2>3. CASE i = j /\ s = Untagged
    <3>1. acct'.pos[i] = acct.pos[i] + delta /\ books' = books
      BY <1>2, <1>9, <1>10, <2>3 DEF AccountTyped
    <3>2. /\ Own(Untagged)'.open[i].qty = Own(Untagged).open[i].qty + delta
          /\ Own(Untagged).open[i].qty \in Int
      BY <1>8, <2>3 DEF Held
    <3>3. Total(books[i], Strategies) \in Int
      BY <1>2, TotalTyped
    <3> HIDE DEF delta, j
    <3> QED
      BY <1>5, <2>1, <3>1, <3>2, <3>3
  <2>4. CASE i = j /\ s # Untagged
    <3>1. acct'.pos[i] = acct.pos[i] + delta
      BY <1>2, <1>9, <2>4 DEF AccountTyped
    <3>2. Own(Untagged)' = Own(Untagged)
      BY <1>8, <2>4
    <3>3. /\ s \in Strategies
          /\ \A x \in Strategies : /\ books[i][x] \in Int /\ books'[i][x] \in Int
                                   /\ x # s => books'[i][x] = books[i][x]
          /\ books'[i][s] = books[i][s] + delta
      BY <1>2, <1>5, <1>10, <2>4 DEF LogTyped
    <3>4. /\ Total(books[i], Strategies) \in Int
          /\ Total(books'[i], Strategies) = Total(books[i], Strategies)
                                              + (books'[i][s] - books[i][s])
      BY <3>3, SumChanges, TagsAssumption
    <3>5. Own(Untagged).open[i].qty \in Int
      <4>1. FillsOf(fills, Untagged) \in Seq(FillRows)
        BY <1>6, FillsOfGrows
      <4>2. Own(Untagged) \in Books
        BY <4>1, LedgerGrows DEF Own
      <4> QED
        BY <4>2 DEF Books, Held
    <3> HIDE DEF delta, j
    <3> QED
      BY <1>5, <2>1, <3>1, <3>2, <3>3, <3>4, <3>5
  <2> QED
    BY <2>2, <2>3, <2>4
<1>14. CostsAgree'
  <2> SUFFICES ASSUME NEW i \in Instruments
               PROVE  IF UsesMargin(Meta[i])
                        THEN i \notin closed =>
                          /\ acct'.pos[i] = Whole'.open[i].qty
                          /\ acct'.entry[i] = IF acct'.pos[i] = 0 THEN NoPrice
                                              ELSE Whole'.open[i].average
                        ELSE acct'.entry[i] = NoPrice
    BY <1>1 DEF CostsAgree
  <2>1. IF UsesMargin(Meta[i])
          THEN i \notin closed =>
                 /\ acct.pos[i] = Whole.open[i].qty
                 /\ acct.entry[i] = IF acct.pos[i] = 0 THEN NoPrice ELSE Whole.open[i].average
          ELSE acct.entry[i] = NoPrice
    BY DEF BooksInv, CostsAgree
  <2>2. CASE i # j
    <3>1. acct'.pos[i] = acct.pos[i] /\ acct'.entry[i] = acct.entry[i]
          /\ Whole'.open[i] = Whole.open[i]
      BY <1>2, <1>7, <1>9, <2>2 DEF AccountTyped
    <3> QED
      BY <2>1, <3>1
  <2>3. CASE i = j /\ ~ UsesMargin(Meta[i])
    <3>1. acct'.entry[i] = acct.entry[i]
      BY <1>2, <1>9, <2>3 DEF AccountTyped
    <3> QED
      BY <2>1, <2>3, <3>1
  <2>4. CASE i = j /\ UsesMargin(Meta[i]) /\ i \notin closed
    <3> DEFINE p == Whole.open[j]
               q == Applied(p, f).position
    <3>1. /\ p \in Held /\ acct.pos[j] = p.qty
          /\ acct.entry[j] = IF p.qty = 0 THEN NoPrice ELSE p.average
          /\ Whole'.open[j] = q /\ q.qty = p.qty + delta
      BY <1>7, <2>1, <2>4
    <3>2. /\ acct'.pos[j] = p.qty + delta
          /\ acct'.entry[j] = NextEntry(p.qty, acct.entry[j], delta, price)
      BY <1>2, <1>9, <2>4, <3>1 DEF AccountTyped
    <3>3. NextEntry(p.qty, acct.entry[j], Signed(f.side, f.qty), f.price)
            = IF q.qty = 0 THEN NoPrice ELSE q.average
      BY <1>3, <3>1, EntryIsAverage
    <3> HIDE DEF p, q, delta, price, j
    <3> QED
      BY <1>4, <1>5, <2>4, <3>1, <3>2, <3>3
  <2> QED
    BY <2>2, <2>3, <2>4
<1> QED
  BY <1>9, <1>10, <1>11, <1>12, <1>13, <1>14 DEF BooksInv

\* A step that fills nothing moves no open book but those it closes.
LEMMA KeptStep ==
  ASSUME BooksInv, UNCHANGED <<fills, books>>, AccountTyped', closed \subseteq closed',
         \A i \in Instruments : i \notin closed' =>
           acct'.pos[i] = acct.pos[i] /\ acct'.entry[i] = acct.entry[i],
         \A i \in Instruments : acct'.entry[i] \in {acct.entry[i], NoPrice}
  PROVE  BooksInv'
<1>1. Whole' = Whole /\ Tags' = Tags /\ \A s : Own(s)' = Own(s)
  BY LedgersFrame
<1>2. LogTyped' /\ TagsAreKnown'
  BY <1>1 DEF BooksInv, LogTyped, TagsAreKnown
<1>3. OwnPositions'
  BY <1>1 DEF BooksInv, OwnPositions
<1>4. PartsAdd'
  BY <1>1 DEF BooksInv, PartsAdd
<1>5. CostsAgree'
  <2> SUFFICES ASSUME NEW i \in Instruments
               PROVE  IF UsesMargin(Meta[i])
                        THEN i \notin closed' =>
                          /\ acct'.pos[i] = Whole'.open[i].qty
                          /\ acct'.entry[i] = IF acct'.pos[i] = 0 THEN NoPrice
                                              ELSE Whole'.open[i].average
                        ELSE acct'.entry[i] = NoPrice
    BY DEF CostsAgree
  <2>1. IF UsesMargin(Meta[i])
          THEN i \notin closed =>
                 /\ acct.pos[i] = Whole.open[i].qty
                 /\ acct.entry[i] = IF acct.pos[i] = 0 THEN NoPrice ELSE Whole.open[i].average
          ELSE acct.entry[i] = NoPrice
    BY DEF BooksInv, CostsAgree
  <2> QED
    BY <1>1, <2>1
<1> QED
  BY <1>2, <1>3, <1>4, <1>5 DEF BooksInv

LEMMA BooksStep ==
  ASSUME SoundFills, BooksInv, [Next]_vars
  PROVE  BooksInv'
<1>1. AccountTyped
  BY DEF BooksInv
<1>2. ASSUME NEW i \in Instruments, NEW p \in Prices, Mark(i, p) PROVE BooksInv'
  <2>1. p \in Int
    BY DEF SoundFills
  <2>2. AccountTyped'
    BY <1>1, <1>2, <2>1 DEF Mark, AccountTyped
  <2> QED
    BY <1>2, <2>2, KeptStep DEF Mark
<1>3. ASSUME NEW o \in Orders, NEW s \in Strategies \cup {Untagged}, Fill(o, mark[o.inst], s)
      PROVE  BooksInv'
  BY <1>3, FillStep
<1>4. ASSUME NEW i \in Instruments, Fund(i) PROVE BooksInv'
  <2>1. /\ acct'.pos = acct.pos /\ acct'.entry = acct.entry /\ DOMAIN acct' = DOMAIN acct
        /\ UNCHANGED <<fills, books, mark, closed>>
    BY <1>1, <1>4 DEF Fund, Settle, AccountTyped
  <2>2. AccountTyped'
    BY <1>1, <2>1 DEF AccountTyped
  <2> QED
    BY <2>1, <2>2, KeptStep
<1>5. ASSUME NEW i \in Instruments, Liquidate(i) PROVE BooksInv'
  <2>1. /\ acct'.pos = [acct.pos EXCEPT ![i] = 0]
        /\ acct'.entry = [acct.entry EXCEPT ![i] = NoPrice]
        /\ DOMAIN acct' = DOMAIN acct
        /\ UNCHANGED <<fills, books, mark>> /\ closed' = closed \cup {i}
    BY <1>1, <1>5 DEF Liquidate, Settle, Closed, AccountTyped
  <2>2. AccountTyped'
    BY <1>1, <2>1 DEF AccountTyped, Samples
  <2>3. \A j \in Instruments :
          /\ acct'.entry[j] \in {acct.entry[j], NoPrice}
          /\ j \notin closed' => acct'.pos[j] = acct.pos[j] /\ acct'.entry[j] = acct.entry[j]
    BY <1>1, <2>1 DEF AccountTyped
  <2> QED
    BY <2>1, <2>2, <2>3, KeptStep
<1>6. ASSUME NEW i \in Instruments, Exercise(i) PROVE BooksInv'
  <2>1. /\ acct'.pos = [acct.pos EXCEPT ![i] = 0] /\ acct'.entry = acct.entry
        /\ DOMAIN acct' = DOMAIN acct
        /\ UNCHANGED <<fills, books, mark>> /\ closed' = closed \cup {i}
    BY <1>1, <1>6 DEF Exercise, Settle, Closed, AccountTyped
  <2>2. AccountTyped'
    BY <1>1, <2>1 DEF AccountTyped
  <2>3. \A j \in Instruments :
          /\ acct'.entry[j] \in {acct.entry[j], NoPrice}
          /\ j \notin closed' => acct'.pos[j] = acct.pos[j] /\ acct'.entry[j] = acct.entry[j]
    BY <1>1, <2>1 DEF AccountTyped
  <2> QED
    BY <2>1, <2>2, <2>3, KeptStep
<1>7. CASE UNCHANGED vars
  <2>1. UNCHANGED <<acct, mark, fills, books, closed>>
    BY <1>7 DEF vars
  <2>2. AccountTyped'
    BY <1>1, <2>1 DEF AccountTyped
  <2> QED
    BY <2>1, <2>2, KeptStep
<1> QED
  BY <1>2, <1>3, <1>4, <1>5, <1>6, <1>7 DEF Next

LEMMA BooksAreComplete ==
  ASSUME BooksInv
  PROVE  AttributionIsComplete
<1> DEFINE rows == PerStrategy(fills, Instruments, Untagged)
<1>1. /\ rows = [s \in Tags \ {Untagged} |-> Own(s)]
      /\ DOMAIN rows = Tags \ {Untagged}
  BY DEF PerStrategy, Tags, Own
<1> HIDE DEF rows
<1>2. ASSUME NEW s \in Strategies, NEW i \in Instruments
      PROVE  books[i][s] = IF s \in DOMAIN rows THEN rows[s].open[i].qty ELSE 0
  <2>1. books[i][s] = Own(s).open[i].qty /\ s # Untagged
    BY TagsAssumption DEF BooksInv, OwnPositions
  <2>2. CASE s \in Tags
    BY <1>1, <2>1, <2>2
  <2>3. CASE s \notin Tags
    <3>1. FillsOf(fills, s) = <<>>
      BY <2>3 DEF BooksInv, TagsAreKnown
    <3>2. Own(s) = NewBook
      <4>1. FillsOf(fills, s) \in Seq(FillRows)
        BY FillsOfGrows DEF BooksInv, LogTyped
      <4> QED
        BY <3>1, <4>1, LedgerGrows DEF Own
    <3> QED
      BY <1>1, <2>1, <2>3, <3>2 DEF NewBook, Untouched
  <2> QED
    BY <2>2, <2>3
<1>3. ASSUME NEW i \in Instruments \ closed
      PROVE  /\ acct.pos[i] = LedgerOf(FillsOf(fills, Untagged), Instruments).open[i].qty
                                + Total(books[i], Strategies)
             /\ acct.entry[i] # NoPrice =>
                  /\ acct.pos[i] = LedgerOf(fills, Instruments).open[i].qty
                  /\ acct.entry[i] = LedgerOf(fills, Instruments).open[i].average
  <2>1. acct.pos[i] = Own(Untagged).open[i].qty + Total(books[i], Strategies)
    BY DEF BooksInv, PartsAdd
  <2>2. acct.entry[i] # NoPrice =>
          acct.pos[i] = Whole.open[i].qty /\ acct.entry[i] = Whole.open[i].average
    BY DEF BooksInv, CostsAgree
  <2> QED
    BY <2>1, <2>2 DEF Own, Whole
<1> QED
  BY <1>2, <1>3 DEF AttributionIsComplete, rows

(***************************************************************************)
(* The three books of a run agree at every step, for every log of sound    *)
(* fills, every set of strategies and every settlement: the account's      *)
(* positions and average entries, the ledgers made of the fill log, and    *)
(* the positions attributed to strategies (ledger.rs:46-69,                *)
(* account.rs:83-96).                                                      *)
(***************************************************************************)
THEOREM BooksAgree ==
  ASSUME SoundFills
  PROVE  Spec => []AttributionIsComplete
<1>1. Init => BooksInv
  BY BooksInit
<1>2. BooksInv /\ [Next]_vars => BooksInv'
  BY BooksStep
<1>3. BooksInv => AttributionIsComplete
  BY BooksAreComplete
<1> QED
  BY <1>1, <1>2, <1>3, PTL DEF Spec

-----------------------------------------------------------------------------
(***************************************************************************)
(* The equity of a run.  What a fill brings in and what the position has   *)
(* cost after it, less what it had cost before, is the profit that the     *)
(* ledger records of the fill (`FillAddsUp`), whether it opens, adds,      *)
(* reduces, closes or reverses.  So cash and cost are what the run began   *)
(* with, has realized and was paid (`CashAdds`), and what the positions    *)
(* are worth is their cost and their open profit (`WorthLessCost`).        *)
(***************************************************************************)

\* A fee shared over all of its quantity is the fee.
LEMMA SharedWhole ==
  ASSUME NEW fee \in Int, NEW whole \in Int, whole > 0
  PROVE  Share(fee, whole, whole) = fee
<1> DEFINE v == fee * whole
<1>1. v \div whole = fee
  OBVIOUS
<1> QED
  BY <1>1 DEF Share

\* What a fill leaves of a position, and what it closes.
LEMMA AppliedParts ==
  ASSUME NEW p \in Held, NEW f \in FillRows
  PROVE  LET a       == Applied(p, f)
             delta   == Signed(f.side, f.qty)
             left    == p.qty + delta
             close   == Least(f.qty, Abs(p.qty))
             opening == Share(p.fees, close, Abs(p.qty))
             closing == Share(f.fee, close, f.qty)
         IN  /\ a.closes = (p.qty # 0 /\ Signum(p.qty) # Signum(delta))
             /\ a.closes => a.profit = (f.price - p.average) * Signum(p.qty) * close * f.mult
                                         - opening - closing
             /\ a.position.fees =
                  IF p.qty = 0 THEN f.fee
                  ELSE IF Signum(p.qty) = Signum(delta) THEN p.fees + f.fee
                  ELSE IF left = 0 THEN 0
                  ELSE IF Signum(left) = Signum(delta) THEN f.fee - closing
                  ELSE p.fees - opening
<1> DEFINE a == Applied(p, f)
           delta == Signed(f.side, f.qty)
           left  == p.qty + delta
           close   == Least(f.qty, Abs(p.qty))
           opening == Share(p.fees, close, Abs(p.qty))
           closing == Share(f.fee, close, f.qty)
           profit == (f.price - p.average) * Signum(p.qty) * close * f.mult - opening - closing
<1>3. CASE p.qty = 0
  <2>1. a = [position |-> [qty |-> delta, average |-> f.price, fees |-> f.fee],
             closes |-> FALSE]
    BY <1>3 DEF Applied
  <2> HIDE DEF a, delta
  <2>2. a.closes = FALSE /\ a.position.fees = f.fee
    BY <2>1
  <2> QED
    BY <1>3, <2>2 DEF a, delta
<1>4. CASE p.qty # 0 /\ Signum(p.qty) = Signum(delta)
  <2>1. a = [position |-> [qty |-> left, average |-> Mixed(p, f), fees |-> p.fees + f.fee],
             closes |-> FALSE]
    BY <1>4 DEF Applied, Mixed
  <2> HIDE DEF a, left
  <2>2. a.closes = FALSE /\ a.position.fees = p.fees + f.fee
    BY <2>1
  <2> QED
    BY <1>4, <2>2 DEF a, left
<1>5. CASE p.qty # 0 /\ Signum(p.qty) # Signum(delta)
  <2> DEFINE l == Left(p, f, opening, closing)
  <2>1. a = [position |-> l, closes |-> TRUE, profit |-> profit]
    BY <1>5 DEF Applied
  <2>2. l = IF left = 0 THEN Untouched
            ELSE IF Signum(left) = Signum(delta)
              THEN [qty |-> left, average |-> f.price, fees |-> f.fee - closing]
              ELSE [p EXCEPT !.qty = left, !.fees = @ - opening]
    <3> HIDE DEF opening, closing
    <3> QED
      BY DEF Left
  <2> HIDE DEF opening, closing, l, profit
  <2>3. l.fees = IF left = 0 THEN 0
                 ELSE IF Signum(left) = Signum(delta) THEN f.fee - closing
                 ELSE p.fees - opening
    <3> HIDE DEF left, delta
    <3> QED
      BY <2>2 DEF Held, Untouched
  <2> HIDE DEF a
  <2>4. a.closes = TRUE /\ a.position = l /\ a.profit = profit
    BY <2>1
  <2> HIDE DEF left, delta
  <2> QED
    BY <1>5, <2>3, <2>4 DEF a, opening, closing, profit, left, delta
<1> QED
  BY <1>3, <1>4, <1>5

\* The ledger takes a profit whole, gain or loss.
LEMMA ProfitIsRecorded ==
  ASSUME NEW ledger \in Trades, NEW profit \in Int
  PROVE  RealizedPnl(RecordClose(ledger, profit)) = RealizedPnl(ledger) + profit
<1> DEFINE new == RecordClose(ledger, profit)
<1>1. ledger.gross_profit \in Int /\ ledger.gross_loss \in Int
  BY DEF Trades
<1>2. CASE profit > 0
  <2>1. new.gross_profit = ledger.gross_profit + profit /\ new.gross_loss = ledger.gross_loss
    BY <1>2 DEF RecordClose, Trades
  <2> HIDE DEF new
  <2>2. RealizedPnl(new) = RealizedPnl(ledger) + profit
    BY <1>1, <2>1 DEF RealizedPnl
  <2> QED
    BY <2>2 DEF new
<1>3. CASE ~ (profit > 0) /\ profit < 0
  <2>1. new.gross_profit = ledger.gross_profit /\ new.gross_loss = ledger.gross_loss - profit
    BY <1>3 DEF RecordClose, Trades
  <2> HIDE DEF new
  <2>2. RealizedPnl(new) = RealizedPnl(ledger) + profit
    BY <1>1, <2>1 DEF RealizedPnl
  <2> QED
    BY <2>2 DEF new
<1>4. CASE ~ (profit > 0) /\ ~ (profit < 0)
  <2>1. new.gross_profit = ledger.gross_profit /\ new.gross_loss = ledger.gross_loss
    BY <1>4 DEF RecordClose, Trades
  <2> HIDE DEF new
  <2>2. RealizedPnl(new) = RealizedPnl(ledger) + profit
    BY <1>1, <1>4, <2>1 DEF RealizedPnl
  <2> QED
    BY <2>2 DEF new
<1> QED
  BY <1>2, <1>3, <1>4

LEMMA SignTimes ==
  ASSUME NEW w \in Int, NEW sign \in {1, -1}, NEW close \in Int, NEW m \in Int
  PROVE  w * sign * close * m = w * (sign * close) * m
<1>1. CASE sign = 1
  BY <1>1
<1>2. CASE sign = -1
  BY <1>2
<1> QED
  BY <1>1, <1>2

LEMMA AbsTimes ==
  ASSUME NEW q \in Int, q # 0
  PROVE  Signum(q) \in {1, -1} /\ Signum(q) * Abs(q) = q
BY DEF Signum, Abs

LEMMA OpenAddsUp ==
  ASSUME NEW price \in Int, NEW d \in Int, NEW m \in Int, NEW fee \in Int, NEW v \in Int
  PROVE  (-(price * d * m) - fee) + ((price * d * m + fee) - (v * 0 * m + 0)) = 0
<1> DEFINE c == price * d * m
<1>1. c \in Int /\ v * 0 * m = 0
  OBVIOUS
<1> HIDE DEF c
<1>2. (-c - fee) + ((c + fee) - (0 + 0)) = 0
  BY <1>1
<1> QED
  BY <1>1, <1>2 DEF c

\* A fill that adds to a position leaves an average that divides exactly.
MixesExactly(p, f) ==
  (p.qty # 0 /\ Signum(p.qty) = Signum(Signed(f.side, f.qty))) =>
    Mixed(p, f) * Abs(p.qty + Signed(f.side, f.qty)) = p.average * Abs(p.qty) + f.price * f.qty

\* The cash that an open position has cost and not yet brought back.
CostOf(p, margined, mult) ==
  (IF margined THEN 0 ELSE p.average * p.qty * mult) + p.fees

\* What a fill of the position brings in: the profit of what it closes, or the price.
CashOf(p, f, margined) ==
  LET delta == Signed(f.side, f.qty)
  IN  (IF ~margined THEN -(f.price * delta * f.mult)
       ELSE IF p.qty = 0 \/ Signum(p.qty) = Signum(delta) THEN 0
       ELSE (f.price - p.average) * Signum(p.qty) * Least(Abs(p.qty), f.qty) * f.mult)
      - f.fee

\* Cash and cost of a fill come to its profit.
LEMMA FillAddsUp ==
  ASSUME NEW p \in Held, NEW f \in FillRows, p.qty = 0 => p.fees = 0,
         NEW margined \in BOOLEAN, ~margined => MixesExactly(p, f)
  PROVE  LET a == Applied(p, f)
         IN  /\ a.position.qty = 0 => a.position.fees = 0
             /\ CashOf(p, f, margined)
                  + (CostOf(a.position, margined, f.mult) - CostOf(p, margined, f.mult))
                  = IF a.closes THEN a.profit ELSE 0
<1> DEFINE a == Applied(p, f)
           b == a.position
           q == p.qty
           v == p.average
           fees == p.fees
           n == f.qty
           price == f.price
           fee == f.fee
           m == f.mult
           d == Signed(f.side, f.qty)
           left == q + d
           sign == Signum(q)
           close == Least(n, Abs(q))
           opening == Share(fees, close, Abs(q))
           closing == Share(fee, close, n)
           mix == Mixed(p, f)
           cash == CashOf(p, f, margined)
           was == CostOf(p, margined, f.mult)
           now == CostOf(b, margined, f.mult)
<1>1. /\ q \in Int /\ v \in Int /\ fees \in Int
      /\ n \in Int /\ n > 0 /\ price \in Int /\ fee \in Int /\ m \in Int
  BY DEF Held, FillRows
<1>2. /\ b \in Held /\ b.qty = left /\ d \in Int /\ d # 0 /\ Abs(d) = n
      /\ left # 0 =>
           b.average = IF q = 0 \/ sign # Signum(left) THEN price
                       ELSE IF sign = Signum(d) THEN mix
                       ELSE v
  BY AppliedTyped
<1>3. /\ a.closes = (q # 0 /\ sign # Signum(d))
      /\ a.closes => a.profit = (price - v) * sign * close * m - opening - closing
      /\ b.fees = IF q = 0 THEN fee
                  ELSE IF sign = Signum(d) THEN fees + fee
                  ELSE IF left = 0 THEN 0
                  ELSE IF Signum(left) = Signum(d) THEN fee - closing
                  ELSE fees - opening
  BY AppliedParts
<1>4. b.average \in Int /\ b.fees \in Int
  BY <1>2 DEF Held
<1>5. /\ was = (IF margined THEN 0 ELSE v * q * m) + fees
      /\ now = (IF margined THEN 0 ELSE b.average * b.qty * m) + b.fees
      /\ cash = (IF ~margined THEN -(price * d * m)
                 ELSE IF q = 0 \/ sign = Signum(d) THEN 0
                 ELSE (price - v) * sign * Least(Abs(q), n) * m)
                - fee
  BY DEF CostOf, CashOf
<1>6. ~margined /\ q # 0 /\ sign = Signum(d) => mix * Abs(left) = v * Abs(q) + price * n
  BY DEF MixesExactly
<1>0. /\ q = 0 => fees = 0
      /\ sign = Signum(q) /\ close = Least(n, Abs(q))
      /\ opening = Share(fees, close, Abs(q)) /\ closing = Share(fee, close, n)
  OBVIOUS
<1>7. SUFFICES /\ b.qty = 0 => b.fees = 0
               /\ cash + (now - was) = IF a.closes THEN a.profit ELSE 0
  OBVIOUS
<1> HIDE DEF a, b, q, v, fees, n, price, fee, m, d, sign, close, opening, closing, mix, cash, was, now
<1>8. b.qty = 0 => b.fees = 0
  <2>1. left = 0 => q # 0 /\ Signum(q) # Signum(d)
    BY <1>1, <1>2 DEF Signum
  <2> HIDE DEF left
  <2> QED
    BY <1>0, <1>2, <1>3, <2>1
<1>9. CASE q = 0
  <2>1. left = d /\ left # 0
    BY <1>1, <1>2, <1>9
  <2>2. was = (IF margined THEN 0 ELSE v * 0 * m) + 0
    BY <1>0, <1>5, <1>9
  <2> HIDE DEF left
  <2>3. ~a.closes /\ b.fees = fee /\ b.average = price
    BY <1>2, <1>3, <1>9, <2>1
  <2>4. now = (IF margined THEN 0 ELSE price * d * m) + fee
    BY <1>2, <1>5, <2>1, <2>3
  <2>5. cash = (IF ~margined THEN -(price * d * m) ELSE 0) - fee
    BY <1>5, <1>9
  <2>6. CASE margined
    <3>1. cash + (now - was) = 0
      BY <1>1, <2>2, <2>4, <2>5, <2>6
    <3> QED
      BY <1>8, <2>3, <3>1
  <2>7. CASE ~margined
    <3>1. (-(price * d * m) - fee) + ((price * d * m + fee) - (v * 0 * m + 0)) = 0
      BY <1>1, <1>2, OpenAddsUp
    <3>2. cash + (now - was) = 0
      BY <2>2, <2>4, <2>5, <2>7, <3>1
    <3> QED
      BY <1>8, <2>3, <3>2
  <2> QED
    BY <2>6, <2>7
<1>10. CASE q # 0 /\ sign = Signum(d)
  <2>1. left # 0 /\ sign = Signum(left)
    BY <1>0, <1>1, <1>2, <1>10 DEF Signum
  <2>2. ~a.closes /\ b.fees = fees + fee /\ b.average = mix
    <3> HIDE DEF left
    <3> QED
      BY <1>2, <1>3, <1>10, <2>1
  <2>3. CASE margined
    <3> HIDE DEF left
    <3>1. was = fees /\ now = fees + fee /\ cash = 0 - fee
      BY <1>1, <1>5, <1>10, <2>2, <2>3
    <3>2. cash + (now - was) = 0
      BY <1>1, <3>1
    <3> QED
      BY <1>8, <2>2, <3>2
  <2>4. CASE ~margined
    <3>1. mix * Abs(left) = v * Abs(q) + price * n /\ mix \in Int
      BY <1>4, <1>6, <1>10, <2>2, <2>4
    <3>2. mix * (q + d) = v * q + price * d
      <4>1. CASE q > 0
        <5>1. d > 0
          BY <1>0, <1>1, <1>2, <1>10, <4>1 DEF Signum
        <5>2. Abs(left) = q + d /\ Abs(q) = q /\ n = d
          BY <1>1, <1>2, <4>1, <5>1 DEF Abs
        <5> HIDE DEF left
        <5> QED
          BY <3>1, <5>2
      <4>2. CASE q < 0
        <5>1. d < 0
          BY <1>0, <1>1, <1>2, <1>10, <4>2 DEF Signum
        <5>2. Abs(left) = -(q + d) /\ Abs(q) = -q /\ n = -d
          BY <1>1, <1>2, <4>2, <5>1 DEF Abs
        <5> HIDE DEF left
        <5>3. mix * (-(q + d)) = v * (-q) + price * (-d)
          BY <3>1, <5>2
        <5>4. mix * (-(q + d)) = -(mix * (q + d))
          BY <1>1, <1>2, <3>1
        <5>5. v * (-q) + price * (-d) = -(v * q + price * d)
          BY <1>1, <1>2
        <5> DEFINE x == mix * (q + d)
                   y == v * q + price * d
        <5>6. x \in Int /\ y \in Int
          BY <1>1, <1>2, <3>1
        <5>7. -x = -y
          BY <5>3, <5>4, <5>5
        <5> HIDE DEF x, y
        <5>8. x = y
          BY <5>6, <5>7
        <5> QED
          BY <5>8 DEF x, y
      <4> QED
        BY <1>1, <1>10, <4>1, <4>2
    <3> DEFINE c == price * d * m
               e == v * q * m
    <3>3. c \in Int /\ e \in Int
      BY <1>1, <1>2
    <3>4. mix * left * m = e + c
      <4>1. (v * q + price * d) * m = e + c
        BY <1>1, <1>2
      <4> QED
        BY <3>2, <4>1
    <3>5. was = e + fees /\ now = mix * left * m + (fees + fee) /\ cash = -c - fee
      <4> HIDE DEF left
      <4> QED
        BY <1>2, <1>5, <2>2, <2>4
    <3> HIDE DEF c, e, left
    <3>6. now = (e + c) + (fees + fee)
      BY <3>4, <3>5
    <3>7. cash + (now - was) = 0
      BY <1>1, <3>3, <3>5, <3>6
    <3> QED
      BY <1>8, <2>2, <3>7
  <2> QED
    BY <2>3, <2>4
<1>11. CASE q # 0 /\ sign # Signum(d)
  <2> DEFINE k == sign * close
             gain == (price - v) * k * m
  <2>1. /\ sign \in {1, -1} /\ sign * Abs(q) = q /\ Abs(q) \in Int /\ Abs(q) > 0
        /\ sign * n = -d
    <3>1. Abs(q) \in Int /\ Abs(q) > 0
      BY <1>1, <1>11, AbsTyped
    <3>2. sign * n = -d
      BY <1>0, <1>1, <1>2, <1>11 DEF Signum, Abs
    <3> QED
      BY <1>0, <1>1, <1>11, <3>1, <3>2, AbsTimes
  <2>2. close \in Int /\ Least(Abs(q), n) = close
    BY <1>0, <1>1, <2>1 DEF Least
  <2>3. (price - v) * sign * close * m = gain /\ k \in Int
    <3> DEFINE w == price - v
    <3>1. w \in Int
      BY <1>1
    <3> HIDE DEF w
    <3>2. w * sign * close * m = w * (sign * close) * m
      BY <1>1, <2>1, <2>2, <3>1, SignTimes
    <3>3. k \in Int
      BY <2>1, <2>2
    <3> QED
      BY <3>2, <3>3 DEF w
  <2>4. gain \in Int
    <3> HIDE DEF k
    <3> QED
      BY <1>1, <2>3
  <2>5. a.closes /\ a.profit = gain - opening - closing
    BY <1>3, <1>11, <2>3
  <2>6. margined => was = fees /\ now = b.fees /\ cash = gain - fee
    BY <1>1, <1>4, <1>5, <1>11, <2>2, <2>3
  <2>7. ~margined => /\ was = v * q * m + fees
                     /\ now = b.average * b.qty * m + b.fees
                     /\ cash = -(price * d * m) - fee
    BY <1>5
  <2>8. opening \in Int /\ closing \in Int
    BY <1>0, <1>1, <2>1, <2>2, ShareTyped
  <2>9. (close = Abs(q) => opening = fees /\ k = q) /\ (close = n => closing = fee /\ k = -d)
    BY <1>0, <1>1, <2>1, SharedWhole
  <2> DEFINE c == price * d * m
             e == v * q * m
  <2>10. c \in Int /\ e \in Int
    BY <1>1, <1>2
  <2> HIDE DEF k
  <2>11. k = q => gain = price * q * m - e
    <3>1. (price - v) * q * m = price * q * m - e
      BY <1>1
    <3> QED
      BY <3>1
  <2>12. k = -d => gain = v * d * m - c
    <3>1. (price - v) * (-d) * m = v * d * m - c
      BY <1>1, <1>2
    <3> QED
      BY <3>1
  <2> SUFFICES cash + (now - was) = gain - opening - closing
    BY <1>8, <2>5
  <2> HIDE DEF gain
  <2>13. CASE left = 0
    <3>1. close = n /\ close = Abs(q) /\ d = -q
      BY <1>0, <1>1, <1>2, <1>11, <2>13 DEF Abs, Least, Signum
    <3>2. b.fees = 0 /\ b.qty = 0
      BY <1>2, <1>3, <1>11, <2>13
    <3> HIDE DEF left
    <3>3. CASE margined
      BY <1>1, <2>4, <2>6, <2>9, <3>1, <3>2, <3>3
    <3>4. CASE ~margined
      <4>1. now = 0
        BY <1>1, <1>4, <2>7, <3>2, <3>4
      <4>2. price * q * m = -c /\ gain = price * q * m - e
        <5>1. price * q * m = -(price * (-q) * m)
          BY <1>1
        <5> QED
          BY <2>9, <2>11, <3>1, <5>1
      <4>3. was = e + fees /\ cash = -c - fee
        BY <2>7, <3>4
      <4> HIDE DEF c, e
      <4>4. gain = (-c) - e
        BY <4>2
      <4> QED
        BY <1>1, <2>9, <2>10, <3>1, <4>1, <4>3, <4>4
    <3> QED
      BY <3>3, <3>4
  <2>14. CASE left # 0 /\ Signum(left) = Signum(d)
    <3>1. close = Abs(q) /\ sign # Signum(left)
      BY <1>0, <1>1, <1>2, <1>11, <2>14 DEF Abs, Least, Signum
    <3>2. b.fees = fee - closing /\ b.average = price
      <4> HIDE DEF left
      <4> QED
        BY <1>2, <1>3, <1>11, <2>14, <3>1
    <3>3. CASE margined
      <4> HIDE DEF left
      <4> QED
        BY <1>1, <2>4, <2>6, <2>8, <2>9, <3>1, <3>2, <3>3
    <3>4. CASE ~margined
      <4> DEFINE g == price * q * m
      <4>1. price * left * m = g + c /\ g \in Int
        BY <1>1, <1>2
      <4>2. now = price * left * m + (fee - closing)
        <5> HIDE DEF left
        <5> QED
          BY <1>2, <2>7, <3>2, <3>4
      <4>3. was = e + fees /\ cash = -c - fee /\ gain = g - e
        BY <2>7, <2>9, <2>11, <3>1, <3>4
      <4> HIDE DEF c, e, g, left
      <4>4. now = (g + c) + (fee - closing)
        BY <4>1, <4>2
      <4> QED
        BY <1>1, <2>8, <2>9, <2>10, <3>1, <4>1, <4>3, <4>4
    <3> QED
      BY <3>3, <3>4
  <2>15. CASE left # 0 /\ Signum(left) # Signum(d)
    <3>1. close = n /\ sign = Signum(left)
      BY <1>0, <1>1, <1>2, <1>11, <2>15 DEF Abs, Least, Signum
    <3>2. b.fees = fees - opening /\ b.average = v
      <4> HIDE DEF left
      <4> QED
        BY <1>2, <1>3, <1>11, <2>15, <3>1
    <3>3. CASE margined
      <4> HIDE DEF left
      <4> QED
        BY <1>1, <2>4, <2>6, <2>8, <2>9, <3>1, <3>2, <3>3
    <3>4. CASE ~margined
      <4> DEFINE g == v * d * m
      <4>1. v * left * m = e + g /\ g \in Int
        BY <1>1, <1>2
      <4>2. now = v * left * m + (fees - opening)
        <5> HIDE DEF left
        <5> QED
          BY <1>2, <2>7, <3>2, <3>4
      <4>3. was = e + fees /\ cash = -c - fee /\ gain = g - c
        BY <2>7, <2>9, <2>12, <3>1, <3>4
      <4> HIDE DEF c, e, g, left
      <4>4. now = (e + g) + (fees - opening)
        BY <4>1, <4>2
      <4> QED
        BY <1>1, <2>8, <2>9, <2>10, <3>1, <4>1, <4>3, <4>4
    <3> QED
      BY <3>3, <3>4
  <2> HIDE DEF left
  <2> QED
    BY <2>13, <2>14, <2>15
<1> QED
  BY <1>9, <1>10, <1>11

CostIn(book, i) == CostOf(book.open[i], UsesMargin(Meta[i]), Meta[i].mult)

\* What the ledger counts of a unit, and the account's cash does not.
Excess(i) == Meta[i].mult - Multiplier(Meta[i])

\* The cost of a position as the account counts it.
NetCost(i) == CostIn(Whole, i) - Excess(i) * SpentOn(fills, i)

NetCosts == [i \in Instruments |-> NetCost(i)]

\* Until a position is closed without a fill, the cash of the account and what it has
\* cost to open its positions are what it began with, has realized and was paid.
CashAdds ==
  /\ acct.bal \in [Assets -> Int] /\ paid \in Int
  /\ \A i \in Instruments : Whole.open[i].qty = 0 => Whole.open[i].fees = 0
  /\ \A i \in Instruments : ~UsesMargin(Meta[i]) => acct.bal[Meta[i].base] = Whole.open[i].qty
  /\ acct.bal[Quote] + Total(NetCosts, Instruments)
       = (Cash + RealizedPnl(Whole.ledger)) + paid

EquityInv == BooksInv /\ (closed = {} => CashAdds)

LEMMA CostTyped ==
  ASSUME SoundFills, NEW book \in Books, NEW i \in Instruments
  PROVE  CostIn(book, i) \in Int
<1>1. book.open[i] \in Held /\ Meta[i].mult \in Int
  BY DEF SoundFills, Books
<1> DEFINE p == book.open[i]
           m == Meta[i].mult
<1>2. p.average \in Int /\ p.qty \in Int /\ p.fees \in Int /\ m \in Int
  BY <1>1 DEF Held
<1>3. CostIn(book, i) = (IF UsesMargin(Meta[i]) THEN 0 ELSE p.average * p.qty * m) + p.fees
  BY DEF CostIn, CostOf
<1> HIDE DEF p, m
<1>4. p.average * p.qty * m \in Int
  BY <1>2
<1> QED
  BY <1>2, <1>3, <1>4

LEMMA ExcessTyped ==
  ASSUME SoundFills, NEW i \in Instruments
  PROVE  /\ Excess(i) \in Int /\ Multiplier(Meta[i]) \in Int
         /\ Meta[i].mult = Multiplier(Meta[i]) + Excess(i)
         /\ UsesMargin(Meta[i]) => Excess(i) = 0 /\ Multiplier(Meta[i]) = Meta[i].mult
<1> DEFINE m == Meta[i].mult
           n == Multiplier(Meta[i])
<1>1. m \in Int
  BY DEF SoundFills
<1>2. (n = m \/ n = 1) /\ (UsesMargin(Meta[i]) => n = m)
  BY DEF Multiplier, UsesMargin
<1>3. Excess(i) = m - n
  BY DEF Excess
<1> HIDE DEF m, n
<1>4. n \in Int
  BY <1>1, <1>2
<1> QED
  BY <1>1, <1>2, <1>3, <1>4 DEF m, n

LEMMA NetCostTyped ==
  ASSUME SoundFills, fills \in Seq(FillRows), Whole \in Books, NEW i \in Instruments
  PROVE  /\ NetCost(i) \in Int /\ NetCosts[i] = NetCost(i)
         /\ NetCost(i) = CostIn(Whole, i) - Excess(i) * SpentOn(fills, i)
<1> DEFINE e == Excess(i)
           spent == SpentOn(fills, i)
           c == CostIn(Whole, i)
<1>1. e \in Int /\ spent \in Int /\ c \in Int
  BY ExcessTyped, SpentGrows, CostTyped
<1>2. NetCost(i) = c - e * spent /\ NetCosts[i] = NetCost(i)
  BY DEF NetCost, NetCosts
<1> HIDE DEF e, spent, c
<1>3. e * spent \in Int
  BY <1>1
<1>4. NetCost(i) \in Int
  BY <1>1, <1>2, <1>3
<1> QED
  BY <1>2, <1>4 DEF e, spent, c

LEMMA PnlTyped ==
  ASSUME NEW book \in Books
  PROVE  RealizedPnl(book.ledger) \in Int
BY DEF Books, Trades, RealizedPnl

LEMMA EquityInit ==
  ASSUME SoundFills, Cash \in Int, Init
  PROVE  EquityInv
<1>1. BooksInv
  BY BooksInit
<1>2. Whole = NewBook
  <2>1. fills \in Seq(FillRows) /\ fills = <<>>
    BY DEF Init
  <2> QED
    BY <2>1, LedgerGrows DEF Whole
<1>3. /\ NewBook.open = [i \in Instruments |-> Untouched] /\ NewBook.ledger = NoTrades
      /\ \A i \in Instruments : NewBook.open[i] = Untouched
  BY DEF NewBook
<1>4. \A i \in Instruments : Whole.open[i].qty = 0 /\ Whole.open[i].fees = 0 /\ Whole.open[i].average = 0
  BY <1>2, <1>3 DEF Untouched
<1>5. Total(NetCosts, Instruments) = 0
  <2>1. ASSUME NEW i \in Instruments PROVE NetCosts[i] = 0
    <3> DEFINE m == Meta[i].mult
               e == Excess(i)
    <3>1. CostIn(Whole, i) = (IF UsesMargin(Meta[i]) THEN 0 ELSE 0 * 0 * m) + 0
      BY <1>4 DEF CostIn, CostOf
    <3>2. m \in Int /\ e \in Int
      BY ExcessTyped DEF SoundFills
    <3>5. fills \in Seq(FillRows) /\ fills = <<>>
      BY <1>1 DEF BooksInv, LogTyped, Init
    <3>3. SpentOn(fills, i) = 0
      BY <3>5, SpentGrows
    <3>4. NetCosts[i] = CostIn(Whole, i) - e * SpentOn(fills, i)
      BY DEF NetCosts, NetCost
    <3> HIDE DEF m, e
    <3> QED
      BY <3>1, <3>2, <3>3, <3>4
  <2> DEFINE v == NetCosts
  <2> HIDE DEF v
  <2> QED
    BY <2>1, SumOfNothing, InstrumentsAssumption DEF v
<1>6. RealizedPnl(Whole.ledger) = 0
  BY <1>2, <1>3 DEF RealizedPnl, NoTrades
<1>7. /\ acct.bal = [a \in Assets |-> IF a = Quote THEN Cash ELSE 0] /\ paid = 0
      /\ Quote \in Assets /\ \A i \in Instruments : Meta[i].base \in Assets /\ Meta[i].base # Quote
  BY QuoteAssumption DEF Init, Assets
<1>8. acct.bal \in [Assets -> Int] /\ acct.bal[Quote] = Cash
      /\ \A i \in Instruments : acct.bal[Meta[i].base] = 0
  BY <1>7
<1>9. acct.bal[Quote] + Total(NetCosts, Instruments) = (Cash + RealizedPnl(Whole.ledger)) + paid
  BY <1>5, <1>6, <1>7, <1>8
<1> QED
  BY <1>1, <1>4, <1>7, <1>8, <1>9 DEF EquityInv, CashAdds

\* What the report calls open profit, less what it overstates, is what the position is
\* worth less what it cost.
LEMMA WorthLessCost ==
  ASSUME SoundFills, BooksInv, closed = {}, CashAdds, NEW i \in Instruments
  PROVE  /\ OpenProfit(Whole.open[i], i) - Overstated(Whole.open[i], i) \in Int
         /\ PositionValue(acct, i, Meta[i], mark[i]) \in Int
         /\ PositionValue(acct, i, Meta[i], mark[i])
              = (OpenProfit(Whole.open[i], i) - Overstated(Whole.open[i], i)) + NetCost(i)
<1> DEFINE p == Whole.open[i]
           v == p.average
           q == p.qty
           fees == p.fees
           m == Meta[i].mult
           n == Multiplier(Meta[i])
           x == Excess(i)
           spent == SpentOn(fills, i)
           price == mark[i]
           value == PositionValue(acct, i, Meta[i], mark[i])
           profit == OpenProfit(p, i)
           over == Overstated(p, i)
           cost == NetCost(i)
<1>1. /\ p \in Held /\ price \in Int /\ m \in Int
      /\ v \in Int /\ q \in Int /\ fees \in Int
  <2>1. Whole \in Books
    BY LedgerGrows DEF Whole, BooksInv, LogTyped
  <2>2. p \in Held
    BY <2>1 DEF Books
  <2>3. price \in Int
    BY DEF BooksInv, AccountTyped
  <2>4. m \in Int
    BY DEF SoundFills
  <2> HIDE DEF p, m, price
  <2>5. v \in Int /\ q \in Int /\ fees \in Int
    BY <2>2 DEF Held
  <2> QED
    BY <2>2, <2>3, <2>4, <2>5
<1>10. /\ x \in Int /\ n \in Int /\ m = n + x /\ spent \in Int
       /\ UsesMargin(Meta[i]) => x = 0
  <2>1. spent \in Int
    BY SpentGrows DEF BooksInv, LogTyped
  <2> QED
    BY <2>1, ExcessTyped
<1>2. /\ profit = (price - v) * q * m - fees
      /\ cost = ((IF UsesMargin(Meta[i]) THEN 0 ELSE v * q * m) + fees) - x * spent
      /\ over = x * (q * price - spent)
  BY DEF OpenProfit, NetCost, CostIn, CostOf, Overstated, Excess
<1>3. UsesMargin(Meta[i]) =>
        /\ acct.pos[i] = q
        /\ acct.entry[i] = IF q = 0 THEN NoPrice ELSE v
  BY DEF BooksInv, CostsAgree
<1>4. ~UsesMargin(Meta[i]) => value = q * price * n
  BY DEF PositionValue, CashAdds
<1>5. UsesMargin(Meta[i]) =>
        value = (price - (IF acct.entry[i] = NoPrice THEN price ELSE acct.entry[i])) * acct.pos[i] * m
  BY DEF PositionValue
<1> SUFFICES profit - over \in Int /\ value \in Int /\ value = (profit - over) + cost
  OBVIOUS
<1> HIDE DEF p, v, q, fees, m, n, x, spent, price, value, profit, over, cost
<1> DEFINE e == v * q * m
           w == price * q * m
           c == x * spent
           g == x * q * price
<1>6. /\ e \in Int /\ w \in Int /\ c \in Int /\ g \in Int
      /\ (price - v) * q * m = w - e /\ x * (q * price - spent) = g - c
  BY <1>1, <1>10
<1>11. q * price * n = w - g
  <2> DEFINE k == q * price
  <2>1. k \in Int /\ w = k * m /\ g = x * k /\ q * price * n = k * n
    BY <1>1, <1>10
  <2> HIDE DEF k, w, g
  <2> QED
    BY <2>1, <1>10
<1>12. UsesMargin(Meta[i]) => g = 0 /\ c = 0
  BY <1>1, <1>10
<1>13. /\ profit = (w - e) - fees /\ over = g - c
       /\ cost = ((IF UsesMargin(Meta[i]) THEN 0 ELSE e) + fees) - c
  BY <1>2, <1>6
<1>7. CASE ~UsesMargin(Meta[i])
  <2>1. value = w - g /\ cost = (e + fees) - c
    BY <1>4, <1>7, <1>11, <1>13
  <2> HIDE DEF e, w, c, g
  <2> QED
    BY <1>1, <1>6, <1>13, <2>1
<1>8. CASE UsesMargin(Meta[i]) /\ q = 0
  <2>1. value = (price - price) * 0 * m
    BY <1>3, <1>5, <1>8
  <2>2. value = 0 /\ cost = (0 + fees) - c
    BY <1>1, <1>8, <1>13, <2>1
  <2>3. w = 0 /\ e = 0
    BY <1>1, <1>8
  <2> HIDE DEF e, w, c, g
  <2> QED
    BY <1>1, <1>6, <1>8, <1>12, <1>13, <2>2, <2>3
<1>9. CASE UsesMargin(Meta[i]) /\ q # 0
  <2>1. acct.entry[i] = v /\ v # NoPrice
    BY <1>1, <1>3, <1>9, NoPriceAssumption
  <2>2. value = (price - v) * q * m
    BY <1>3, <1>5, <1>9, <2>1
  <2>3. value = w - e /\ cost = (0 + fees) - c
    BY <1>6, <1>9, <1>13, <2>2
  <2> HIDE DEF e, w, c, g
  <2> QED
    BY <1>1, <1>6, <1>9, <1>12, <1>13, <2>3
<1> QED
  BY <1>7, <1>8, <1>9

LEMMA EquityIsExplained ==
  ASSUME SoundFills, Cash \in Int, EquityInv
  PROVE  LedgerExplainsEquity
<1> SUFFICES ASSUME closed = {}
             PROVE  Equity - Cash = RealizedPnl(Whole.ledger) + paid
                      + Total([i \in Instruments |->
                                 OpenProfit(Whole.open[i], i) - Overstated(Whole.open[i], i)],
                              Instruments)
  BY DEF LedgerExplainsEquity, Whole
<1> DEFINE u == [i \in Instruments |-> OpenProfit(Whole.open[i], i) - Overstated(Whole.open[i], i)]
           v == NetCosts
           w == [i \in Instruments |-> PositionValue(acct, i, Meta[i], mark[i])]
<1>1. BooksInv /\ CashAdds /\ fills \in Seq(FillRows) /\ Whole \in Books
  BY LedgerGrows DEF EquityInv, Whole, BooksInv, LogTyped
<1>2. \A i \in Instruments : u[i] \in Int /\ v[i] \in Int /\ w[i] = u[i] + v[i]
  <2> SUFFICES ASSUME NEW i \in Instruments PROVE u[i] \in Int /\ v[i] \in Int /\ w[i] = u[i] + v[i]
    OBVIOUS
  <2>1. v[i] \in Int /\ v[i] = NetCost(i)
    BY <1>1, NetCostTyped
  <2>2. /\ u[i] = OpenProfit(Whole.open[i], i) - Overstated(Whole.open[i], i)
        /\ w[i] = PositionValue(acct, i, Meta[i], mark[i])
    OBVIOUS
  <2> HIDE DEF u, v, w
  <2> QED
    BY <1>1, <2>1, <2>2, WorthLessCost
<1>3. Equity = acct.bal[Quote] + Total(w, Instruments)
  BY DEF Equity
<1>4. /\ acct.bal[Quote] + Total(v, Instruments) = (Cash + RealizedPnl(Whole.ledger)) + paid
      /\ acct.bal[Quote] \in Int /\ paid \in Int
  <2>1. Quote \in Assets
    BY DEF Assets
  <2> QED
    BY <1>1, <2>1 DEF CashAdds
<1> HIDE DEF u, v, w
<1>5. /\ Total(u, Instruments) \in Int /\ Total(v, Instruments) \in Int
      /\ Total(w, Instruments) = Total(u, Instruments) + Total(v, Instruments)
  BY <1>2, SumAdds, InstrumentsAssumption
<1>6. RealizedPnl(Whole.ledger) \in Int /\ Cash \in Int
  BY <1>1, PnlTyped
<1>7. Equity - Cash = RealizedPnl(Whole.ledger) + paid + Total(u, Instruments)
  BY <1>3, <1>4, <1>5, <1>6
<1> QED
  BY <1>7 DEF u

\* What the account gains by a fill is what the ledger's position brings in, and what
\* the ledger counts too much of.
LEMMA GainIsCash ==
  ASSUME SoundFills, Cash \in Int, BooksInv, closed = {}, NEW f \in FillRows,
         f.mult = Meta[f.inst].mult, f.fee = Fee(Meta[f.inst], f.price, f.qty)
  PROVE  QuoteGain(acct, f.inst, Meta[f.inst], f.side, f.price, f.qty)
           = CashOf(Whole.open[f.inst], f, UsesMargin(Meta[f.inst]))
               + Excess(f.inst) * (Signed(f.side, f.qty) * f.price)
<1> DEFINE j == f.inst
           x == Meta[j]
           p == Whole.open[j]
           d == Signed(f.side, f.qty)
           gain == QuoteGain(acct, j, x, f.side, f.price, f.qty)
<1>1. /\ j \in Instruments /\ p \in Held
      /\ f.price \in Int /\ f.qty \in Int /\ f.mult \in Int /\ d \in Int
      /\ p.qty \in Int /\ p.average \in Int
  <2>1. Whole \in Books
    BY LedgerGrows DEF Whole, BooksInv, LogTyped
  <2>2. j \in Instruments /\ f.price \in Int /\ f.qty \in Int /\ f.mult \in Int
    BY DEF FillRows
  <2>3. p \in Held
    BY <2>1, <2>2 DEF Books
  <2>4. d \in Int
    BY <2>2 DEF Signed
  <2> HIDE DEF p
  <2>6. p.qty \in Int /\ p.average \in Int
    BY <2>3 DEF Held
  <2> QED
    BY <2>2, <2>3, <2>4, <2>6
<1>2. UsesMargin(x) =>
        /\ acct.pos[j] = p.qty
        /\ acct.entry[j] = IF p.qty = 0 THEN NoPrice ELSE p.average
  BY <1>1 DEF BooksInv, CostsAgree
<1>3. CashOf(p, f, UsesMargin(x)) =
        (IF ~UsesMargin(x) THEN -(f.price * d * f.mult)
         ELSE IF p.qty = 0 \/ Signum(p.qty) = Signum(d) THEN 0
         ELSE (f.price - p.average) * Signum(p.qty) * Least(Abs(p.qty), f.qty) * f.mult)
        - f.fee
  BY DEF CashOf
<1> DEFINE excess == Excess(j)
           units == Multiplier(x)
<1>6. /\ excess \in Int /\ units \in Int /\ f.mult = units + excess
      /\ UsesMargin(x) => excess = 0
  BY <1>1, ExcessTyped
<1> SUFFICES gain = CashOf(p, f, UsesMargin(x)) + excess * (d * f.price)
  OBVIOUS
<1>7. CashOf(p, f, UsesMargin(x)) \in Int
  <2> DEFINE cash == CashOf(p, f, UsesMargin(x))
             n == f.qty
             price == f.price
             m == f.mult
             fee == f.fee
             q == p.qty
             v == p.average
             part == Least(Abs(q), n)
             sign == Signum(q)
             w == price * d * m
             u == (price - v) * sign * part * m
  <2>1. cash = (IF ~UsesMargin(x) THEN -w ELSE IF q = 0 \/ sign = Signum(d) THEN 0 ELSE u) - fee
    BY <1>3
  <2>2. n \in Int /\ price \in Int /\ m \in Int /\ fee \in Int /\ q \in Int /\ v \in Int /\ d \in Int
    BY <1>1 DEF FillRows
  <2>3. part \in Int /\ sign \in Int
    <3> HIDE DEF q, n
    <3> QED
      BY <2>2, AbsTyped DEF Least
  <2> HIDE DEF cash, n, price, m, fee, q, v, part, sign, d
  <2>4. w \in Int
    BY <2>2
  <2>5. u \in Int
    BY <2>2, <2>3
  <2> HIDE DEF u, w
  <2>6. cash \in Int
    BY <2>1, <2>2, <2>4, <2>5
  <2> QED
    BY <2>6 DEF cash
<1>4. CASE ~UsesMargin(x)
  <2> DEFINE price == f.price
             n == f.qty
             m == f.mult
             fee == f.fee
             cash == CashOf(p, f, UsesMargin(x))
  <2>1. gain = -Signed(f.side, price * n * units) - fee
    BY <1>4 DEF QuoteGain, Notional
  <2>2. d = (IF f.side = "Buy" THEN n ELSE -n)
        /\ Signed(f.side, price * n * units)
             = (IF f.side = "Buy" THEN price * n * units ELSE -(price * n * units))
    BY DEF Signed
  <2>3. cash = -(price * d * m) - fee
    BY <1>3, <1>4
  <2>4. price \in Int /\ n \in Int /\ m \in Int /\ d \in Int /\ fee \in Int
        /\ units \in Int /\ excess \in Int /\ m = units + excess
    BY <1>1, <1>6 DEF FillRows
  <2> HIDE DEF price, n, m, fee, cash, gain, d, units, excess
  <2>5. Signed(f.side, price * n * units) = price * d * units
    BY <2>2, <2>4
  <2> DEFINE w == price * d * units
             c == excess * (d * price)
  <2>6. w \in Int /\ c \in Int /\ price * d * m = w + c
    BY <2>4
  <2>7. gain = -w - fee /\ cash = -(w + c) - fee
    BY <2>1, <2>3, <2>5, <2>6
  <2> HIDE DEF w, c
  <2>8. gain = cash + c
    BY <2>4, <2>6, <2>7
  <2> QED
    BY <2>8 DEF c, cash, price
<1>5. CASE UsesMargin(x)
  <2>1. gain = Realized(acct, j, x, f.side, f.price, f.qty) - f.fee
    BY <1>5 DEF QuoteGain
  <2>2. Realized(acct, j, x, f.side, f.price, f.qty) =
          LET entry == IF acct.entry[j] = NoPrice THEN f.price ELSE acct.entry[j]
          IN  IF p.qty = 0 \/ Signum(p.qty) = Signum(d) THEN 0
              ELSE (f.price - entry) * Signum(p.qty) * Least(Abs(p.qty), f.qty) * f.mult
    BY <1>2, <1>5 DEF Realized
  <2>3. p.qty # 0 => acct.entry[j] = p.average /\ p.average # NoPrice
    BY <1>1, <1>2, <1>5, NoPriceAssumption
  <2>4. Realized(acct, j, x, f.side, f.price, f.qty) =
          IF p.qty = 0 \/ Signum(p.qty) = Signum(d) THEN 0
          ELSE (f.price - p.average) * Signum(p.qty) * Least(Abs(p.qty), f.qty) * f.mult
    <3> HIDE DEF p, d, x, j
    <3> QED
      BY <2>2, <2>3
  <2>5. gain = (IF p.qty = 0 \/ Signum(p.qty) = Signum(d) THEN 0
                ELSE (f.price - p.average) * Signum(p.qty) * Least(Abs(p.qty), f.qty) * f.mult)
               - f.fee
    BY <2>1, <2>4
  <2>6. CashOf(p, f, UsesMargin(x)) =
               (IF p.qty = 0 \/ Signum(p.qty) = Signum(d) THEN 0
                ELSE (f.price - p.average) * Signum(p.qty) * Least(Abs(p.qty), f.qty) * f.mult)
               - f.fee
    BY <1>3, <1>5
  <2>7. gain = CashOf(p, f, UsesMargin(x))
    BY <2>5, <2>6
  <2>8. excess * (d * f.price) = 0
    BY <1>1, <1>5, <1>6
  <2> HIDE DEF gain, p, d, excess, x
  <2> QED
    BY <2>7, <2>8, <1>7
<1> QED
  BY <1>4, <1>5

\* The averages of unmargined positions divide exactly, as they do in the code but
\* for the digits that a decimal drops.
AveragesAreExact ==
  [][fills' # fills =>
       LET f == Last(fills')
       IN  UsesMargin(Meta[f.inst]) \/ MixesExactly(Whole.open[f.inst], f)]_vars

\* A fill keeps the account of the cash.
LEMMA CashFill ==
  ASSUME SoundFills, Cash \in Int, EquityInv, closed = {},
         NEW o \in Orders, NEW s \in Strategies \cup {Untagged}, Fill(o, mark[o.inst], s),
         LET f == Last(fills')
         IN  UsesMargin(Meta[f.inst]) \/ MixesExactly(Whole.open[f.inst], f)
  PROVE  CashAdds'
<1> DEFINE j == o.inst
           x == Meta[j]
           f == [inst |-> j, side |-> o.side, qty |-> o.qty, price |-> mark[j],
                 fee |-> Fee(x, mark[j], o.qty), mult |-> x.mult, strategy |-> s]
           delta == Signed(o.side, o.qty)
           a == Applied(Whole.open[j], f)
           profit == IF a.closes THEN a.profit ELSE 0
           gain == QuoteGain(acct, j, x, o.side, mark[j], o.qty)
<1>1. /\ fills' = Append(fills, f)
      /\ acct'.bal = [acct.bal EXCEPT ![x.base] = acct.bal[x.base] + delta,
                                      ![x.quote] = acct.bal[x.quote] + gain]
      /\ UNCHANGED <<mark, paid, closed>>
  BY DEF Fill, AccountAfterFill, BalancesAfterFill
<1>2. /\ j \in Instruments /\ mark[j] \in Int /\ BooksInv /\ CashAdds
      /\ fills \in Seq(FillRows) /\ Whole \in Books
  <2>1. BooksInv /\ CashAdds /\ AccountTyped /\ LogTyped
    BY DEF EquityInv, BooksInv
  <2>2. Whole \in Books
    BY <2>1, LedgerGrows DEF Whole, LogTyped
  <2> QED
    BY <2>1, <2>2 DEF SoundFills, AccountTyped, LogTyped
<1>3. f \in FillRows
  BY <1>2, FillIsRow
<1>4. /\ f.inst = j /\ f.side = o.side /\ f.qty = o.qty /\ f.price = mark[j]
      /\ f.mult = Meta[f.inst].mult /\ f.fee = Fee(Meta[f.inst], f.price, f.qty)
  OBVIOUS
<1> HIDE DEF f
<1>5. Last(fills') = f
  <2>1. /\ Len(Append(fills, f)) = Len(fills) + 1
        /\ Append(fills, f)[Len(fills) + 1] = f
    BY <1>2, <1>3, LogGrows
  <2> QED
    BY <1>1, <2>1 DEF Last
<1>6. ~UsesMargin(x) => MixesExactly(Whole.open[j], f)
  BY <1>4, <1>5
<1>7. /\ Whole' = Entered(Whole, f) /\ Whole' \in Books
      /\ Whole'.open = [Whole.open EXCEPT ![j] = a.position]
  <2>1. LedgerOf(Append(fills, f), Instruments) = Entered(LedgerOf(fills, Instruments), f)
    BY <1>2, <1>3, LedgerGrows
  <2>2. Whole' = Entered(Whole, f)
    BY <1>1, <2>1 DEF Whole
  <2>3. /\ Entered(Whole, f) \in Books
        /\ Entered(Whole, f).open
             = [Whole.open EXCEPT ![f.inst] = Applied(Whole.open[f.inst], f).position]
    BY <1>2, <1>3, EnteredTyped
  <2> QED
    BY <1>4, <2>2, <2>3
<1>8. /\ Whole.open[j] \in Held /\ a.position \in Held
      /\ a.position.qty = Whole.open[j].qty + delta /\ delta \in Int
      /\ a.closes => a.profit \in Int
  <2>1. Whole.open[j] \in Held
    BY <1>2 DEF Books
  <2>2. Signed(f.side, f.qty) = delta
    BY <1>4
  <2> QED
    BY <1>3, <2>1, <2>2, AppliedTyped
<1>9. RealizedPnl(Whole'.ledger) = RealizedPnl(Whole.ledger) + profit
      /\ RealizedPnl(Whole.ledger) \in Int /\ profit \in Int
  <2>1. Whole'.ledger = IF a.closes THEN RecordClose(Whole.ledger, a.profit) ELSE Whole.ledger
    <3>1. ~(f.qty <= 0 \/ f.mult <= 0)
      BY <1>3 DEF FillRows
    <3>2. Entered(Whole, f) =
            [open   |-> [Whole.open EXCEPT ![j] = a.position],
             ledger |-> IF a.closes THEN RecordClose(Whole.ledger, a.profit) ELSE Whole.ledger]
      BY <1>4, <3>1 DEF Entered
    <3> HIDE DEF a
    <3> QED
      BY <1>7, <3>2
  <2>2. Whole.ledger \in Trades
    BY <1>2 DEF Books
  <2>3. RealizedPnl(Whole.ledger) \in Int
    BY <1>2, PnlTyped
  <2> HIDE DEF a
  <2> QED
    BY <1>8, <2>1, <2>2, <2>3, ProfitIsRecorded
<1>10. /\ a.position.qty = 0 => a.position.fees = 0
       /\ gain + (NetCost(j)' - NetCost(j)) = profit
       /\ gain \in Int
  <2> DEFINE p == Whole.open[j]
             margined == UsesMargin(x)
             cash == CashOf(p, f, margined)
             was == CostOf(p, margined, f.mult)
             now == CostOf(a.position, margined, f.mult)
  <2>1. margined \in BOOLEAN /\ p \in Held /\ (p.qty = 0 => p.fees = 0)
        /\ (~margined => MixesExactly(p, f))
    BY <1>2, <1>6, <1>8 DEF UsesMargin, CashAdds
  <2>2. /\ a.position.qty = 0 => a.position.fees = 0
        /\ cash + (now - was) = profit
    <3> HIDE DEF p, margined
    <3>1. LET c == Applied(p, f)
          IN  /\ c.position.qty = 0 => c.position.fees = 0
              /\ CashOf(p, f, margined)
                   + (CostOf(c.position, margined, f.mult) - CostOf(p, margined, f.mult))
                   = IF c.closes THEN c.profit ELSE 0
      BY <1>3, <2>1, FillAddsUp
    <3> QED
      BY <3>1 DEF p
  <2> DEFINE extra == Excess(j) * (delta * mark[j])
  <2>3. gain = cash + extra
    BY <1>2, <1>3, <1>4, GainIsCash
  <2>4. was = CostIn(Whole, j)
    BY <1>4 DEF CostIn
  <2>5. now = CostIn(Whole', j)
    <3>1. Whole'.open[j] = a.position
      <4> HIDE DEF a, j
      <4> QED
        BY <1>2, <1>7 DEF Books
    <3> HIDE DEF a
    <3> QED
      BY <1>4, <3>1 DEF CostIn
  <2>6. was \in Int /\ now \in Int
    BY <1>2, <1>7, <2>4, <2>5, CostTyped
  <2>7. cash \in Int
    <3>1. f.price \in Int /\ f.qty \in Int /\ f.mult \in Int /\ f.fee \in Int /\ f.qty > 0
      BY <1>3 DEF FillRows
    <3>2. p.qty \in Int /\ p.average \in Int
      BY <2>1 DEF Held
    <3>3. Signed(f.side, f.qty) = delta
      BY <1>4
    <3>4. cash = (IF ~margined THEN -(f.price * delta * f.mult)
                  ELSE IF p.qty = 0 \/ Signum(p.qty) = Signum(delta) THEN 0
                  ELSE (f.price - p.average) * Signum(p.qty) * Least(Abs(p.qty), f.qty) * f.mult)
                 - f.fee
      BY <3>3 DEF CashOf
    <3>5. Signum(p.qty) \in Int /\ Least(Abs(p.qty), f.qty) \in Int
      BY <3>1, <3>2, AbsTyped DEF Least
    <3> DEFINE u == (f.price - p.average) * Signum(p.qty) * Least(Abs(p.qty), f.qty) * f.mult
               w == f.price * delta * f.mult
    <3>6. w \in Int
      BY <1>8, <3>1
    <3>7. u \in Int
      BY <3>1, <3>2, <3>5
    <3> HIDE DEF u, w
    <3>8. cash \in Int
      <4>1. cash = (IF ~margined THEN -w
                    ELSE IF p.qty = 0 \/ Signum(p.qty) = Signum(delta) THEN 0 ELSE u) - f.fee
        BY <3>4 DEF u, w
      <4> HIDE DEF cash, p, margined, delta
      <4> QED
        BY <3>1, <3>6, <3>7, <4>1
    <3> QED
      BY <3>8
  <2> DEFINE e == Excess(j)
             paidFor == delta * mark[j]
             spent == SpentOn(fills, j)
             netWas == NetCost(j)
             netNow == NetCost(j)'
  <2>8. e \in Int /\ spent \in Int /\ paidFor \in Int
    BY <1>2, <1>8, ExcessTyped, SpentGrows
  <2>9. SpentOn(fills', j) = spent + paidFor
    <3>1. Signed(f.side, f.qty) = delta /\ f.price = mark[j] /\ f.inst = j
      BY <1>4
    <3> HIDE DEF j, delta
    <3> QED
      BY <3>1, <1>1, <1>2, <1>3, SpentGrows
  <2>10. netWas = was - e * spent
    BY <2>4 DEF NetCost
  <2>11. netNow = now - e * (spent + paidFor)
    BY <2>5, <2>9 DEF NetCost, Excess
  <2>12. extra = e * paidFor
    OBVIOUS
  <2> HIDE DEF a, cash, was, now, gain, profit, e, paidFor, spent, netWas, netNow, extra
  <2> DEFINE c == e * spent
             d == e * paidFor
  <2>13. c \in Int /\ d \in Int /\ e * (spent + paidFor) = c + d
    BY <2>8
  <2>14. netWas = was - c /\ netNow = now - (c + d) /\ extra = d
    BY <2>10, <2>11, <2>12, <2>13
  <2> HIDE DEF c, d
  <2>15. gain \in Int /\ gain + (netNow - netWas) = profit
    BY <2>2, <2>3, <2>6, <2>7, <2>13, <2>14
  <2> QED
    BY <2>2, <2>15 DEF netNow, netWas
<1>11. /\ Total(NetCosts, Instruments) \in Int
       /\ Total(NetCosts', Instruments)
            = Total(NetCosts, Instruments) + (NetCost(j)' - NetCost(j))
       /\ NetCost(j)' \in Int /\ NetCost(j) \in Int
  <2> DEFINE v == NetCosts
             w == NetCosts'
  <2>0. fills' \in Seq(FillRows)
    BY <1>1, <1>2, <1>3, LogGrows
  <2>1. \A i \in Instruments : v[i] \in Int /\ v[i] = NetCost(i)
    BY <1>2, NetCostTyped
  <2>3. \A i \in Instruments : w[i] \in Int /\ w[i] = NetCost(i)'
    <3> DEFINE log == fills'
               book == Whole'
    <3>1. ASSUME NEW i \in Instruments PROVE w[i] \in Int /\ w[i] = NetCost(i)'
      <4> DEFINE e == Excess(i)
                 spent == SpentOn(log, i)
                 c == CostIn(book, i)
      <4>1. e \in Int /\ spent \in Int /\ c \in Int
        BY <1>7, <2>0, ExcessTyped, SpentGrows, CostTyped
      <4>2. w[i] = c - e * spent /\ NetCost(i)' = c - e * spent
        BY DEF NetCost, NetCosts, Excess, CostIn
      <4> HIDE DEF e, spent, c, w
      <4>3. e * spent \in Int
        BY <4>1
      <4> QED
        BY <4>1, <4>2, <4>3
    <3> QED
      BY <3>1
  <2>2. \A i \in Instruments : i # j => w[i] = v[i]
    <3>1. \A i \in Instruments : i # j => Whole'.open[i] = Whole.open[i]
      <4> HIDE DEF a, j
      <4> QED
        BY <1>2, <1>7 DEF Books
    <3>2. \A i \in Instruments : i # j => SpentOn(fills', i) = SpentOn(fills, i)
      <4>1. f.inst = j
        BY <1>4
      <4> HIDE DEF j
      <4> QED
        BY <4>1, <1>1, <1>2, <1>3, SpentGrows
    <3> HIDE DEF v, w, j
    <3> QED
      BY <2>1, <2>3, <3>1, <3>2 DEF NetCost, CostIn, Excess
  <2> HIDE DEF v, w
  <2>4. Total(v, Instruments) \in Int /\ Total(w, Instruments) = Total(v, Instruments) + (w[j] - v[j])
    <3>1. \A i \in Instruments : v[i] \in Int /\ w[i] \in Int /\ (i # j => w[i] = v[i])
      BY <2>1, <2>2, <2>3
    <3>2. j \in Instruments /\ IsFiniteSet(Instruments)
      BY <1>2, InstrumentsAssumption
    <3> HIDE DEF j
    <3> QED
      BY <3>1, <3>2, SumChanges
  <2>5. Total(NetCosts', Instruments) = Total(w, Instruments)
    BY DEF w
  <2> QED
    BY <1>2, <2>1, <2>3, <2>4 DEF v, w
<1>12. /\ Quote \in Assets /\ x.quote = Quote /\ x.base # Quote /\ x.base \in Assets
       /\ acct.bal \in [Assets -> Int] /\ acct.bal[Quote] \in Int
  BY <1>2, QuoteAssumption DEF Assets, CashAdds
<1>13. /\ acct'.bal \in [Assets -> Int]
       /\ acct'.bal[Quote] = acct.bal[Quote] + gain
       /\ acct'.bal[x.base] = acct.bal[x.base] + delta
       /\ \A i \in Instruments : i # j => acct'.bal[Meta[i].base] = acct.bal[Meta[i].base]
  <2>1. \A i \in Instruments : i # j => Meta[i].base # x.base /\ Meta[i].base # Quote /\ Meta[i].base \in Assets
    BY <1>2, QuoteAssumption DEF Assets
  <2>2. acct.bal[x.base] \in Int
    BY <1>12
  <2> HIDE DEF gain, delta, x, j
  <2> QED
    BY <1>1, <1>8, <1>10, <1>12, <2>1, <2>2
<1>14. \A i \in Instruments : Whole'.open[i].qty = 0 => Whole'.open[i].fees = 0
  <2>1. \A i \in Instruments : Whole'.open[i] = IF i = j THEN a.position ELSE Whole.open[i]
    <3> HIDE DEF a, j
    <3> QED
      BY <1>2, <1>7 DEF Books
  <2> HIDE DEF a, j
  <2> QED
    BY <1>2, <1>10, <2>1 DEF CashAdds
<1>15. \A i \in Instruments : ~UsesMargin(Meta[i]) => acct'.bal[Meta[i].base] = Whole'.open[i].qty
  <2>1. \A i \in Instruments : Whole'.open[i] = IF i = j THEN a.position ELSE Whole.open[i]
    <3> HIDE DEF a, j
    <3> QED
      BY <1>2, <1>7 DEF Books
  <2> HIDE DEF a, delta, gain, j
  <2> QED
    BY <1>2, <1>8, <1>13, <2>1 DEF CashAdds
<1>16. acct'.bal[Quote] + Total(NetCosts', Instruments) = (Cash + RealizedPnl(Whole'.ledger)) + paid'
  <2> DEFINE b == acct.bal[Quote]
             t == Total(NetCosts, Instruments)
             now == NetCost(j)'
             was == NetCost(j)
             made == RealizedPnl(Whole.ledger)
             bNew == acct'.bal[Quote]
             tNew == Total(NetCosts', Instruments)
             madeNew == RealizedPnl(Whole'.ledger)
  <2>1. b + t = (Cash + made) + paid /\ paid \in Int /\ Cash \in Int
    BY <1>2 DEF CashAdds
  <2>2. /\ b \in Int /\ t \in Int /\ now \in Int /\ was \in Int /\ made \in Int
        /\ gain \in Int /\ profit \in Int
    BY <1>9, <1>10, <1>11, <1>12
  <2>3. gain + (now - was) = profit
    BY <1>10
  <2>4. bNew = b + gain /\ tNew = t + (now - was) /\ madeNew = made + profit /\ paid' = paid
    BY <1>1, <1>9, <1>11, <1>13
  <2> HIDE DEF gain, profit, j, b, t, now, was, made, bNew, tNew, madeNew
  <2>5. bNew + tNew = (Cash + madeNew) + paid'
    BY <2>1, <2>2, <2>3, <2>4
  <2> QED
    BY <2>5 DEF bNew, tNew, madeNew
<1>17. paid' \in Int
  BY <1>1, <1>2 DEF CashAdds
<1> HIDE DEF a, delta, gain, profit, j, x
<1> QED
  BY <1>13, <1>14, <1>15, <1>16, <1>17 DEF CashAdds

LEMMA FundingTyped ==
  ASSUME SoundFills, BooksInv, NEW i \in Instruments
  PROVE  FundingCash(Meta[i], mark[i], acct.pos[i]) \in Int
<1> DEFINE x == Meta[i]
           price == mark[i]
           q == acct.pos[i]
           units == Multiplier(x)
           size == Abs(q)
<1>1. x.mult \in Int /\ price \in Int /\ q \in Int
  BY DEF SoundFills, BooksInv, AccountTyped
<1>2. units \in Int
  BY <1>1 DEF Multiplier
<1>3. size \in Int /\ Signum(q) \in Int
  BY <1>1, AbsTyped
<1>4. FundingCash(x, price, q) = -Signum(q) * ((price * size * units * 1) \div 10000)
  BY DEF FundingCash, Bps, Notional
<1> DEFINE v == price * size * units * 1
<1> HIDE DEF units, size, price, q
<1>5. v \in Int
  BY <1>1, <1>2, <1>3
<1> HIDE DEF v
<1> DEFINE d == v \div 10000
<1>6. d \in Int
  BY <1>5
<1> HIDE DEF d
<1>7. -Signum(q) * d \in Int
  BY <1>3, <1>6
<1> QED
  BY <1>4, <1>7 DEF d, v, price, q

\* A step without a fill moves the cash by what it pays.
LEMMA CashKept ==
  ASSUME SoundFills, Cash \in Int, EquityInv, closed = {}, UNCHANGED fills, NEW due \in Int,
         acct'.bal = [acct.bal EXCEPT ![Quote] = acct.bal[Quote] + due], paid' = paid + due
  PROVE  CashAdds'
<1>1. Whole' = Whole /\ BooksInv /\ CashAdds /\ Whole \in Books
  <2>1. BooksInv /\ CashAdds
    BY DEF EquityInv
  <2>2. Whole \in Books
    BY <2>1, LedgerGrows DEF Whole, BooksInv, LogTyped
  <2> QED
    BY <2>1, <2>2, LedgersFrame
<1>2. /\ Quote \in Assets /\ acct.bal \in [Assets -> Int] /\ paid \in Int /\ Cash \in Int
      /\ \A i \in Instruments : Meta[i].base \in Assets /\ Meta[i].base # Quote
  BY <1>1, QuoteAssumption DEF Assets, CashAdds
<1>3. /\ acct'.bal \in [Assets -> Int] /\ paid' \in Int
      /\ acct'.bal[Quote] = acct.bal[Quote] + due
      /\ \A i \in Instruments : acct'.bal[Meta[i].base] = acct.bal[Meta[i].base]
  BY <1>2
<1>4. /\ Total(NetCosts, Instruments) \in Int /\ RealizedPnl(Whole.ledger) \in Int
  <2> DEFINE v == NetCosts
  <2>1. \A i \in Instruments : v[i] \in Int
    <3>1. fills \in Seq(FillRows)
      BY <1>1 DEF BooksInv, LogTyped
    <3> QED
      BY <1>1, <3>1, NetCostTyped
  <2>2. RealizedPnl(Whole.ledger) \in Int
    BY <1>1, PnlTyped
  <2> HIDE DEF v
  <2>3. PICK g : /\ \A m \in SUBSET Instruments : g[m] \in Int
                 /\ Total(v, Instruments) = g[Instruments]
    BY <2>1, SumIsFold, InstrumentsAssumption
  <2> QED
    BY <2>2, <2>3 DEF v
<1>6. NetCosts' = NetCosts
  BY <1>1 DEF NetCosts, NetCost, CostIn, Excess
<1>5. acct'.bal[Quote] + Total(NetCosts', Instruments) = (Cash + RealizedPnl(Whole'.ledger)) + paid'
  <2> DEFINE b == acct.bal[Quote]
             t == Total(NetCosts, Instruments)
             made == RealizedPnl(Whole.ledger)
  <2>1. b + t = (Cash + made) + paid
    BY <1>1 DEF CashAdds
  <2>2. b \in Int /\ t \in Int /\ made \in Int
    BY <1>2, <1>4
  <2> HIDE DEF b, t, made
  <2>3. (b + due) + t = (Cash + made) + (paid + due)
    BY <1>2, <2>1, <2>2
  <2> QED
    BY <1>1, <1>3, <1>6, <2>3 DEF b, t, made
<1> QED
  BY <1>1, <1>3, <1>5 DEF CashAdds

LEMMA EquityStep ==
  ASSUME SoundFills, Cash \in Int, EquityInv, [Next]_vars,
         [fills' # fills =>
            LET f == Last(fills')
            IN  UsesMargin(Meta[f.inst]) \/ MixesExactly(Whole.open[f.inst], f)]_vars
  PROVE  EquityInv'
<1>1. BooksInv /\ BooksInv'
  BY BooksStep DEF EquityInv
<1> SUFFICES ASSUME closed' = {} PROVE CashAdds'
  BY <1>1 DEF EquityInv
<1>2. ASSUME closed = {}, UNCHANGED <<acct, fills, paid>> PROVE CashAdds'
  <2>1. acct.bal \in [Assets -> Int] /\ paid \in Int /\ Quote \in Assets
    BY <1>2 DEF EquityInv, CashAdds, Assets
  <2>2. acct.bal[Quote] \in Int
    BY <2>1
  <2>3. acct'.bal = [acct.bal EXCEPT ![Quote] = acct.bal[Quote] + 0] /\ paid' = paid + 0
    BY <1>2, <2>1, <2>2
  <2> QED
    BY <1>2, <2>3, CashKept
<1>3. ASSUME NEW i \in Instruments, NEW p \in Prices, Mark(i, p) PROVE CashAdds'
  BY <1>2, <1>3 DEF Mark
<1>4. ASSUME NEW o \in Orders, NEW s \in Strategies \cup {Untagged}, Fill(o, mark[o.inst], s)
      PROVE  CashAdds'
  <2> DEFINE f == Last(fills')
             exact == UsesMargin(Meta[f.inst]) \/ MixesExactly(Whole.open[f.inst], f)
  <2>1. fills' # fills /\ closed = {}
    <3>1. fills \in Seq(FillRows)
      BY <1>1 DEF BooksInv, LogTyped
    <3>2. \E g : fills' = Append(fills, g)
      BY <1>4 DEF Fill
    <3>3. PICK g : fills' = Append(fills, g)
      BY <3>2
    <3>4. Len(fills) \in Nat /\ Len(Append(fills, g)) = Len(fills) + 1
      BY <3>1
    <3>5. closed = {}
      BY <1>4 DEF Fill
    <3> QED
      BY <3>3, <3>4, <3>5
  <2>2. vars' # vars
    BY <2>1 DEF vars
  <2>3. exact
    BY <2>1, <2>2
  <2> QED
    BY <1>4, <2>1, <2>3, CashFill
<1>5. ASSUME NEW i \in Instruments, Fund(i) PROVE CashAdds'
  <2> DEFINE due == FundingCash(Meta[i], mark[i], acct.pos[i])
  <2>1. due \in Int
    BY <1>1, FundingTyped
  <2>2. /\ acct' = [acct EXCEPT !.bal[Quote] = @ + due]
        /\ paid' = paid + due /\ UNCHANGED <<fills, closed>>
    BY <1>5 DEF Fund, Settle
  <2>3. DOMAIN acct = {"pos", "entry", "bal"} /\ closed = {}
    BY <1>1, <2>2 DEF BooksInv, AccountTyped
  <2>4. acct'.bal = [acct.bal EXCEPT ![Quote] = acct.bal[Quote] + due]
    <3> HIDE DEF due
    <3> QED
      BY <2>2, <2>3
  <2> HIDE DEF due
  <2> QED
    BY <2>1, <2>2, <2>3, <2>4, CashKept
<1>6. ASSUME NEW i \in Instruments, Liquidate(i) \/ Exercise(i) PROVE CashAdds'
  <2>1. closed' = closed \cup {i}
    BY <1>6 DEF Liquidate, Exercise
  <2> QED
    BY <2>1
<1>7. CASE UNCHANGED vars
  BY <1>2, <1>7 DEF vars
<1> QED
  BY <1>3, <1>4, <1>5, <1>6, <1>7 DEF Next

(***************************************************************************)
(* The equity that a run ends on is what the report explains: the initial  *)
(* cash, the realized profit, the fundings and the open profit, at every   *)
(* step before a position is closed without a fill (ledger.rs:106-165,     *)
(* account.rs:89-118), but for what the ledger overstates of instruments   *)
(* that have a multiplier and are no contracts.  For every instrument,     *)
(* market and sequence of sound fills, if averages divide exactly.         *)
(***************************************************************************)
THEOREM EquityIsAccounted ==
  ASSUME SoundFills, Cash \in Int
  PROVE  Spec /\ AveragesAreExact => []LedgerExplainsEquity
<1> DEFINE Exact ==
             fills' # fills =>
               LET f == Last(fills')
               IN  UsesMargin(Meta[f.inst]) \/ MixesExactly(Whole.open[f.inst], f)
<1>1. Init => EquityInv
  BY EquityInit
<1>2. EquityInv /\ [Next]_vars /\ [Exact]_vars => EquityInv'
  BY EquityStep
<1>3. EquityInv => LedgerExplainsEquity
  BY EquityIsExplained
<1>4. AveragesAreExact <=> [][Exact]_vars
  BY PTL DEF AveragesAreExact
<1> HIDE DEF Exact
<1> QED
  BY <1>1, <1>2, <1>3, <1>4, PTL DEF Spec
=============================================================================
