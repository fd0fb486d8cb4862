------------------------ MODULE QuestionStagesProofs ------------------------
(***************************************************************************)
(* Proofs about QuestionStages.  The key resolver sorts the aliases and    *)
(* then lets one after the other claim a mention, so what it returns is    *)
(* defined by recursion over the sorted aliases, and every statement about *)
(* it needs an induction over how many of them have had their turn:        *)
(*   - recursive functions over 0..N exist, and a set of naturals with 0   *)
(*     and the successors of its members has them all;                     *)
(*   - the rank of a phrase, the number of phrases that come before it, is *)
(*     a bijection, so that the sorted aliases hold each phrase once;      *)
(*   - after n turns the hits are mentions that share no word, and each of *)
(*     the n phrases was taken or gave way to phrases at least as long.    *)
(* The rest follows the question from S2 to S5.                            *)
(***************************************************************************)
EXTENDS QuestionStages, FiniteSetTheorems, TLAPS

-----------------------------------------------------------------------------
(* Natural numbers *)

(* By the well-foundedness of the finite sets 1..n.                         *)
LEMMA LeastNatural ==
  ASSUME NEW S \in SUBSET Nat, S # {}
  PROVE  \E m \in S : \A n \in S : m <= n
<1> DEFINE T == {1..n : n \in S}
<1>1. T \subseteq FiniteSubsetsOf(Nat)
  <2> SUFFICES ASSUME NEW n \in S PROVE 1..n \in FiniteSubsetsOf(Nat)
    OBVIOUS
  <2>1. IsFiniteSet(1..n) /\ 1..n \in SUBSET Nat
    BY FS_Interval
  <2> QED BY <2>1 DEF FiniteSubsetsOf
<1>2. T # {}
  OBVIOUS
<1>3. IsWellFoundedOn(StrictSubsetOrdering(Nat), FiniteSubsetsOf(Nat))
  BY FS_StrictSubsetOrderingWellFounded, Zenon
<1> HIDE DEF T
<1>4. PICK x \in T : \A y \in T : ~(<<y, x>> \in StrictSubsetOrdering(Nat))
  BY <1>1, <1>2, <1>3, WFMin, Zenon
<1>5. PICK m \in S : x = 1..m
  BY DEF T
<1>6. ASSUME NEW n \in S, ~(m <= n) PROVE FALSE
  <2>1. 1..n \in T /\ 1..n \in SUBSET Nat /\ 1..m \in SUBSET Nat
    BY DEF T
  <2>2. 1..n \subseteq 1..m /\ m \in 1..m /\ m \notin 1..n
    BY <1>6
  <2>3. <<1..n, 1..m>> \in StrictSubsetOrdering(Nat)
    BY <2>1, <2>2 DEF StrictSubsetOrdering
  <2> QED BY <1>4, <1>5, <2>1, <2>3
<1> QED BY <1>6

(* Induction, with a set in place of a predicate. *)
LEMMA SetInduction ==
  ASSUME NEW S, 0 \in S, \A n \in Nat : n \in S => n + 1 \in S
  PROVE  Nat \subseteq S
<1> SUFFICES ASSUME Nat \ S # {} PROVE FALSE
  OBVIOUS
<1>1. PICK m \in Nat \ S : \A n \in Nat \ S : m <= n
  BY LeastNatural
<1>2. m # 0 /\ m - 1 \in Nat
  BY <1>1
<1>3. m - 1 \in S
  BY <1>1, <1>2
<1> QED BY <1>1, <1>2, <1>3

(* Min and Max of the community modules choose an extremal element. *)
LEMMA MinIs ==
  ASSUME NEW S \in SUBSET Nat, S # {}
  PROVE  Min(S) \in S /\ \A n \in S : Min(S) <= n
BY LeastNatural DEF Min

LEMMA MaxIs ==
  ASSUME NEW S \in SUBSET Nat, S # {}, NEW b \in Nat, \A n \in S : n <= b
  PROVE  Max(S) \in S /\ \A n \in S : n <= Max(S)
<1> DEFINE T == {b - n : n \in S}
<1>1. T \in SUBSET Nat /\ T # {}
  OBVIOUS
<1>2. PICK t \in T : \A u \in T : t <= u
  BY <1>1, LeastNatural
<1>3. PICK m \in S : t = b - m
  OBVIOUS
<1>4. ASSUME NEW n \in S PROVE n <= m
  <2>1. b - n \in T /\ n <= b /\ m <= b
    OBVIOUS
  <2>2. b - m <= b - n
    BY <1>2, <1>3, <2>1
  <2> QED BY <2>1, <2>2
<1> QED BY <1>4 DEF Max

-----------------------------------------------------------------------------
(* Sequences and recursive functions *)

(* The functions that start with b and go on by F. *)
Runs(N, X, b, F) ==
    {g \in [0..N -> X] : g[0] = b /\ \A n \in 1..N : g[n] = F[g[n - 1]][n]}

(* There is one, built step by step. *)
LEMMA RecursionExists ==
  ASSUME NEW N \in Nat, NEW X, NEW b \in X, NEW F \in [X -> [1..N -> X]]
  PROVE  Runs(N, X, b, F) # {}
<1> DEFINE S == {n \in Nat : n <= N => Runs(n, X, b, F) # {}}
<1>1. 0 \in S
  <2>1. [i \in 0..0 |-> b] \in Runs(0, X, b, F)
    BY DEF Runs
  <2> QED BY <2>1
<1>2. ASSUME NEW n \in Nat, n \in S PROVE n + 1 \in S
  <2> SUFFICES ASSUME n + 1 <= N PROVE Runs(n + 1, X, b, F) # {}
    OBVIOUS
  <2>1. PICK g \in Runs(n, X, b, F) : TRUE
    BY <1>2
  <2>2. g \in [0..n -> X] /\ g[0] = b /\ \A i \in 1..n : g[i] = F[g[i - 1]][i]
    BY <2>1 DEF Runs
  <2> DEFINE h == [i \in 0..(n + 1) |-> IF i = n + 1 THEN F[g[n]][n + 1] ELSE g[i]]
  <2>3. F[g[n]][n + 1] \in X
    BY <2>2
  <2>4. h \in [0..(n + 1) -> X]
    BY <2>2, <2>3
  <2>5. h[0] = b /\ h[n + 1] = F[h[n]][n + 1]
    BY <2>2
  <2>6. \A i \in 1..n : h[i] = F[h[i - 1]][i]
    BY <2>2
  <2> HIDE DEF h
  <2>7. \A i \in 1..(n + 1) : h[i] = F[h[i - 1]][i]
    <3>1. \A i \in 1..(n + 1) : i \in 1..n \/ i = n + 1
      OBVIOUS
    <3>2. (n + 1) - 1 = n
      OBVIOUS
    <3> QED BY <2>5, <2>6, <3>1, <3>2
  <2> QED BY <2>4, <2>5, <2>7 DEF Runs
<1> HIDE DEF S
<1>3. Nat \subseteq S
  BY <1>1, <1>2, SetInduction
<1> QED BY <1>3 DEF S

LEMMA SeqWidens ==
  ASSUME NEW X, NEW Y, X \subseteq Y, NEW s \in Seq(X)
  PROVE  s \in Seq(Y)
OBVIOUS

(* Every literal is in STRING, but the provers do not know it. *)
Word == STRING \cup {"(metric:"}

LEMMA Elements ==
  ASSUME NEW X, NEW s \in Seq(X)
  PROVE  Len(s) \in Nat /\ DOMAIN s = 1..Len(s) /\ \A i \in 1..Len(s) : s[i] \in X
OBVIOUS

LEMMA Within ==
  ASSUME NEW X, NEW s \in Seq(X), NEW y
  PROVE  Contains(s, y) <=> y \in ToSet(s)
BY DEF ToSet, Contains

Distinct(s) == \A i, j \in 1..Len(s) : s[i] = s[j] => i = j

LEMMA Appended ==
  ASSUME NEW X, NEW s \in Seq(X), NEW e \in X
  PROVE  /\ Append(s, e) \in Seq(X)
         /\ ToSet(Append(s, e)) = ToSet(s) \cup {e}
         /\ Distinct(s) /\ e \notin ToSet(s) => Distinct(Append(s, e))
<1>1. Append(s, e) \in Seq(X)
  OBVIOUS
<1>2. PICK t : t = Append(s, e)
  OBVIOUS
<1>3. /\ Len(s) \in Nat /\ DOMAIN s = 1..Len(s) /\ DOMAIN t = 1..(Len(s) + 1)
      /\ t[Len(s) + 1] = e /\ \A i \in 1..Len(s) : t[i] = s[i]
  BY <1>2
<1>4. ToSet(t) = ToSet(s) \cup {e}
  <2>1. \A i \in 1..(Len(s) + 1) : i \in 1..Len(s) \/ i = Len(s) + 1
    BY <1>3
  <2>2. \A i \in 1..Len(s) : i \in 1..(Len(s) + 1)
    BY <1>3
  <2>3. Len(s) + 1 \in 1..(Len(s) + 1)
    BY <1>3
  <2> QED BY <1>3, <2>1, <2>2, <2>3 DEF ToSet
<1>5. Distinct(s) /\ e \notin ToSet(s) => Distinct(t)
  <2> SUFFICES ASSUME Distinct(s), e \notin ToSet(s),
                      NEW i \in 1..(Len(s) + 1), NEW j \in 1..(Len(s) + 1), t[i] = t[j]
               PROVE  i = j
    BY <1>2, <1>3 DEF Distinct
  <2>1. \A m \in 1..(Len(s) + 1) : m \in 1..Len(s) \/ m = Len(s) + 1
    BY <1>3
  <2>2. \A m \in 1..Len(s) : t[m] = s[m] /\ t[m] # e
    BY <1>3 DEF ToSet
  <2> QED BY <1>3, <2>1, <2>2 DEF Distinct
<1> QED BY <1>1, <1>2, <1>4, <1>5

(* kept of Deduplicated satisfies its equations, and holds sequences of     *)
(* keys.                                                                    *)
LEMMA DeduplicatedIsRecursive ==
  ASSUME NEW K, NEW H, NEW hits \in Seq(H), \A h \in H : h.key \in K
  PROVE  \E kept \in [0..Len(hits) -> Seq(K)] :
            /\ kept[0] = <<>>
            /\ \A n \in 1..Len(hits) :
                  kept[n] = IF Contains(kept[n - 1], hits[n].key) THEN kept[n - 1]
                            ELSE Append(kept[n - 1], hits[n].key)
            /\ Deduplicated(hits) = kept[Len(hits)]
<1> DEFINE N == Len(hits)
           X == Seq(K)
           Step(s, n) == IF Contains(s, hits[n].key) THEN s ELSE Append(s, hits[n].key)
           F == [s \in X |-> [n \in 1..N |-> Step(s, n)]]
<1>1. N \in Nat /\ <<>> \in X
  OBVIOUS
<1>2. \A s \in X, n \in 1..N : Step(s, n) \in X
  OBVIOUS
<1> HIDE DEF N, X, Step
<1>3. F \in [X -> [1..N -> X]] /\ \A s \in X, n \in 1..N : F[s][n] = Step(s, n)
  BY <1>2
<1> HIDE DEF F
<1>4. PICK g \in [0..N -> X] : g[0] = <<>> /\ \A n \in 1..N : g[n] = F[g[n-1]][n]
  <2>1. Runs(N, X, <<>>, F) # {}
    BY <1>1, <1>3, RecursionExists
  <2> QED BY <2>1 DEF Runs
<1>5. \A n \in 1..N : n - 1 \in 0..N /\ n \in 0..N /\ n # 0
  BY <1>1
<1>6. \A n \in 1..N : g[n] = Step(g[n-1], n)
  BY <1>3, <1>4, <1>5
<1>7. g = [n \in 0..N |-> IF n = 0 THEN <<>> ELSE Step(g[n-1], n)]
  BY <1>1, <1>4, <1>6
<1>8. PICK f : /\ f = [n \in 0..N |-> IF n = 0 THEN <<>> ELSE Step(f[n-1], n)]
               /\ Deduplicated(hits) = f[N]
  BY <1>7, Zenon DEF Deduplicated, N, Step
<1>9. f[0] = <<>> /\ \A n \in 1..N : f[n] = Step(f[n-1], n)
  <2>1. 0 \in 0..N
    BY <1>1
  <2> QED BY <1>5, <1>8, <2>1, Zenon
<1> DEFINE S == {n \in Nat : n <= N => f[n] \in X}
<1>10. 0 \in S
  BY <1>1, <1>9
<1>11. ASSUME NEW n \in Nat, n \in S PROVE n + 1 \in S
  <2> SUFFICES ASSUME n + 1 <= N PROVE f[n + 1] \in X
    OBVIOUS
  <2>1. f[n] \in X /\ n + 1 \in 1..N /\ (n + 1) - 1 = n
    BY <1>1, <1>11
  <2>2. f[n + 1] = Step(f[n], n + 1)
    BY <1>9, <2>1
  <2> QED BY <1>2, <2>1, <2>2
<1> HIDE DEF S
<1>12. Nat \subseteq S
  BY <1>10, <1>11, SetInduction
<1>13. \A n \in 0..N : f[n] \in X
  BY <1>1, <1>12 DEF S
<1>14. f \in [0..N -> X]
  <2>1. f = [n \in 0..N |-> f[n]]
    BY <1>8, Zenon
  <2> QED BY <1>13, <2>1
<1> QED BY <1>8, <1>9, <1>14 DEF N, X, Step

-----------------------------------------------------------------------------
(* The sorted aliases *)

LEMMA PhrasesTyped ==
  ASSUME NEW k \in Knowledges
  PROVE  /\ k.aliases \in Seq([alias : Seq(STRING), key : STRING])
         /\ IsFiniteSet(Phrases(k))
         /\ \A p \in Phrases(k) :
               /\ p \in Seq(Word) /\ p # <<>> /\ ~Overlapping(p)
               /\ Length[p] \in Nat
               /\ FirstRow(k, p) \in 1..Len(k.aliases)
               /\ k.aliases[FirstRow(k, p)].alias = p
<1>1. k.aliases \in Seq([alias : Seq(STRING), key : STRING])
  BY StagesAssumption
<1>2. PICK rows : rows = k.aliases
  OBVIOUS
<1>3. /\ Len(rows) \in Nat
      /\ DOMAIN rows = 1..Len(rows)
      /\ \A i \in 1..Len(rows) : rows[i] \in [alias : Seq(STRING), key : STRING]
  BY <1>1, <1>2, Elements
<1>4. \A i \in 1..Len(rows) : rows[i].alias \in Seq(STRING)
  BY <1>3
<1>5. Phrases(k) = {row.alias : row \in {rows[i] : i \in 1..Len(rows)}}
  BY <1>2, <1>3 DEF Phrases, ToSet
<1>6. Phrases(k) = {rows[i].alias : i \in 1..Len(rows)}
  BY <1>5
<1>7. IsFiniteSet(Phrases(k))
  <2> DEFINE f == [i \in 1..Len(rows) |-> rows[i].alias]
  <2>1. f \in Surjection(1..Len(rows), Phrases(k))
    BY <1>6 DEF Surjection
  <2>2. IsFiniteSet(1..Len(rows))
    BY <1>3, FS_Interval
  <2> HIDE DEF f
  <2> QED BY <2>1, <2>2, FS_Surjection
<1>8. ASSUME NEW p \in Phrases(k)
      PROVE  /\ p \in Seq(Word) /\ p # <<>> /\ ~Overlapping(p)
             /\ Length[p] \in Nat
             /\ FirstRow(k, p) \in 1..Len(k.aliases)
             /\ k.aliases[FirstRow(k, p)].alias = p
  <2>1. PICK i \in 1..Len(k.aliases) : k.aliases[i].alias = p
    BY <1>2, <1>6
  <2>2. p \in Seq(Word)
    <3>1. STRING \subseteq Word
      BY DEF Word
    <3>2. p \in Seq(STRING)
      BY <1>2, <1>4, <2>1
    <3> QED BY <3>1, <3>2, SeqWidens
  <2>3. p # <<>> /\ p \in DOMAIN Length /\ ~Overlapping(p)
    BY StagesAssumption
  <2>4. Length[p] \in Nat
    BY <2>3, StagesAssumption
  <2> DEFINE S == {j \in 1..Len(k.aliases) : k.aliases[j].alias = p}
  <2>5. S \in SUBSET Nat /\ S # {}
    BY <1>1, <2>1
  <2>6. FirstRow(k, p) = Min(S)
    BY DEF FirstRow
  <2>7. FirstRow(k, p) \in S
    BY <2>5, <2>6, MinIs
  <2> QED BY <2>2, <2>3, <2>4, <2>7
<1> QED BY <1>1, <1>7, <1>8

(* A strict total order: two phrases of one length differ in their first row. *)
LEMMA LongerFirstIsOrder ==
  ASSUME NEW k \in Knowledges,
         NEW p \in Phrases(k), NEW q \in Phrases(k), NEW r \in Phrases(k)
  PROVE  /\ ~LongerFirst(k, p, p)
         /\ p # q => LongerFirst(k, p, q) \/ LongerFirst(k, q, p)
         /\ LongerFirst(k, p, q) /\ LongerFirst(k, q, r) => LongerFirst(k, p, r)
         /\ LongerFirst(k, p, q) => Length[p] >= Length[q]
<1>1. \A x \in {p, q, r} : /\ Length[x] \in Nat
                           /\ FirstRow(k, x) \in Nat
                           /\ k.aliases[FirstRow(k, x)].alias = x
  BY PhrasesTyped
<1> QED BY <1>1 DEF LongerFirst

(* The place of a phrase among the phrases P, from 0. *)
Before(k, P, p) == {q \in P : LongerFirst(k, q, p)}
Rank(k, P, p) == Cardinality(Before(k, P, p))

LEMMA RankIncreases ==
  ASSUME NEW k \in Knowledges, NEW P \in SUBSET Phrases(k),
         NEW p \in P, NEW q \in P, LongerFirst(k, p, q)
  PROVE  Rank(k, P, p) < Rank(k, P, q)
<1>1. Before(k, P, p) \subseteq Before(k, P, q)
  BY LongerFirstIsOrder DEF Before
<1>2. p \in Before(k, P, q) /\ p \notin Before(k, P, p)
  BY LongerFirstIsOrder DEF Before
<1>3. IsFiniteSet(Before(k, P, q))
  <2>1. IsFiniteSet(Phrases(k)) /\ Before(k, P, q) \in SUBSET Phrases(k)
    BY PhrasesTyped DEF Before
  <2> QED BY <2>1, FS_Subset
<1>4. Rank(k, P, p) <= Rank(k, P, q) /\ Rank(k, P, p) # Rank(k, P, q)
  <2>1. Before(k, P, p) \in SUBSET Before(k, P, q)
    BY <1>1
  <2>2. Before(k, P, p) # Before(k, P, q)
    BY <1>2
  <2> QED BY <1>3, <2>1, <2>2, FS_Subset DEF Rank
<1>5. Rank(k, P, p) \in Nat /\ Rank(k, P, q) \in Nat
  <2>1. IsFiniteSet(Before(k, P, p))
    BY <1>1, <1>3, FS_Subset
  <2> QED BY <1>3, <2>1, FS_CardinalityType DEF Rank
<1> QED BY <1>4, <1>5

(* Ranks are distinct and below the number of phrases, so each is taken. *)
LEMMA RankIsPlace ==
  ASSUME NEW k \in Knowledges, NEW P \in SUBSET Phrases(k)
  PROVE  /\ IsFiniteSet(P) /\ Cardinality(P) \in Nat
         /\ \A p \in P : Rank(k, P, p) \in 0..(Cardinality(P) - 1)
         /\ \A p, q \in P : Rank(k, P, p) = Rank(k, P, q) => p = q
         /\ \A n \in 0..(Cardinality(P) - 1) : \E p \in P : Rank(k, P, p) = n
<1>1. IsFiniteSet(P) /\ Cardinality(P) \in Nat
  BY PhrasesTyped, FS_Subset, FS_CardinalityType
<1>2. ASSUME NEW p \in P PROVE Rank(k, P, p) \in 0..(Cardinality(P) - 1)
  <2>1. Before(k, P, p) \in SUBSET P /\ p \notin Before(k, P, p)
    BY LongerFirstIsOrder DEF Before
  <2>2. IsFiniteSet(Before(k, P, p)) /\ Rank(k, P, p) <= Cardinality(P)
        /\ Rank(k, P, p) # Cardinality(P)
    BY <1>1, <2>1, FS_Subset DEF Rank
  <2>3. Rank(k, P, p) \in Nat
    BY <2>2, FS_CardinalityType DEF Rank
  <2> QED BY <1>1, <2>2, <2>3
<1>3. ASSUME NEW p \in P, NEW q \in P, Rank(k, P, p) = Rank(k, P, q) PROVE p = q
  <2> SUFFICES ASSUME p # q PROVE FALSE
    OBVIOUS
  <2>1. LongerFirst(k, p, q) \/ LongerFirst(k, q, p)
    BY LongerFirstIsOrder
  <2>2. Rank(k, P, p) < Rank(k, P, q) \/ Rank(k, P, q) < Rank(k, P, p)
    BY <2>1, RankIncreases
  <2>3. Rank(k, P, p) \in Nat
    BY <1>1, <1>2
  <2> QED BY <1>3, <2>2, <2>3
<1>4. ASSUME NEW n \in 0..(Cardinality(P) - 1) PROVE \E p \in P : Rank(k, P, p) = n
  <2> DEFINE f == [p \in P |-> Rank(k, P, p)]
             T == 0..(Cardinality(P) - 1)
  <2>1. f \in Injection(P, T)
    BY <1>2, <1>3 DEF Injection, IsInjective
  <2>2. IsFiniteSet(T) /\ Cardinality(T) = Cardinality(P)
    <3>1. Cardinality(P) - 1 \in Int /\ 0 \in Int
      BY <1>1
    <3>2. IsFiniteSet(T) /\ Cardinality(T) = IF 0 > Cardinality(P) - 1 THEN 0
                                             ELSE (Cardinality(P) - 1) - 0 + 1
      BY <3>1, FS_Interval, Zenon
    <3> QED BY <1>1, <3>2
  <2> HIDE DEF f, T
  <2>3. f \in Surjection(P, T)
    BY <2>1, <2>2, FS_Injection
  <2>4. PICK p \in P : f[p] = n
    BY <2>3 DEF Surjection, T
  <2> QED BY <2>4 DEF f
<1> QED BY <1>1, <1>2, <1>3, <1>4

(* sorted(..., key=len, reverse=True) loses nothing and sorts. *)
LEMMA ByLengthSorts ==
  ASSUME NEW k \in Knowledges, NEW P \in SUBSET Phrases(k)
  PROVE  LET order == ByLength(k, P) IN
         /\ order \in Seq(P)
         /\ Len(order) = Cardinality(P)
         /\ Cardinality(P) = 0 <=> P = {}
         /\ \A p \in P : \E n \in 1..Len(order) : order[n] = p
         /\ \A m, n \in 1..Len(order) : m < n => order[m] # order[n] /\ Length[order[m]] >= Length[order[n]]
<1> DEFINE order == ByLength(k, P)
           N == Cardinality(P)
<1>1. N \in Nat /\ (N = 0 <=> P = {})
  BY RankIsPlace, FS_EmptySet
<1>2. order = [n \in 1..N |-> CHOOSE p \in P : Rank(k, P, p) = n - 1]
  BY DEF ByLength, Rank, Before
<1> HIDE DEF order
<1>3. ASSUME NEW n \in 1..N PROVE order[n] \in P /\ Rank(k, P, order[n]) = n - 1
  <2>1. n - 1 \in 0..(N - 1)
    BY <1>1
  <2>2. \E p \in P : Rank(k, P, p) = n - 1
    BY <2>1, RankIsPlace
  <2>3. order[n] = CHOOSE p \in P : Rank(k, P, p) = n - 1
    BY <1>2, Zenon
  <2> QED BY <2>2, <2>3, Zenon
<1>4. order \in Seq(P) /\ Len(order) = N
  BY <1>1, <1>2, <1>3
<1>5. ASSUME NEW p \in P PROVE \E n \in 1..N : order[n] = p
  <2>1. Rank(k, P, p) \in 0..(N - 1)
    BY RankIsPlace
  <2>2. Rank(k, P, p) + 1 \in 1..N /\ (Rank(k, P, p) + 1) - 1 = Rank(k, P, p)
    BY <1>1, <2>1
  <2>3. Rank(k, P, order[Rank(k, P, p) + 1]) = Rank(k, P, p) /\ order[Rank(k, P, p) + 1] \in P
    BY <1>3, <2>2
  <2> QED BY <2>2, <2>3, RankIsPlace
<1>6. ASSUME NEW m \in 1..N, NEW n \in 1..N, m < n
      PROVE  order[m] # order[n] /\ Length[order[m]] >= Length[order[n]]
  <2>1. /\ order[m] \in P /\ order[n] \in P
        /\ Rank(k, P, order[m]) = m - 1 /\ Rank(k, P, order[n]) = n - 1
    BY <1>3
  <2>2. order[m] # order[n]
    BY <1>6, <2>1
  <2>3. ~LongerFirst(k, order[n], order[m])
    BY <1>6, <2>1, RankIncreases
  <2> QED BY <2>1, <2>2, <2>3, LongerFirstIsOrder
<1> QED BY <1>1, <1>4, <1>5, <1>6 DEF order

-----------------------------------------------------------------------------
(* The hits *)

Hit(k) == [phrase : Phrases(k), at : Nat, key : {KeyOf(k, p) : p \in Phrases(k)}]

Meet(p, i, h) == Span(p, i) \cap Span(h.phrase, h.at) # {}

(* What a hit is. *)
Mention(k, text, h) ==
    /\ h.at \in Occurrences(text, h.phrase)
    /\ Registered(k, h.phrase)
    /\ h.key = KeyOf(k, h.phrase)

(* A phrase had its turn: it was taken, or gave way to phrases as long. *)
Served(k, text, H, p) ==
    Registered(k, p) =>
        \/ \E h \in H : h.phrase = p
        \/ \A i \in Occurrences(text, p) :
              \E h \in H : Meet(p, i, h) /\ Length[h.phrase] >= Length[p]

LEMMA OccurrencesTyped ==
  ASSUME NEW text \in Seq(Word), NEW p
  PROVE  Occurrences(text, p) \in SUBSET Nat
BY DEF Occurrences

(* One turn: nothing is free for the phrase, or it takes a mention. *)
LEMMA ClaimExtends ==
  ASSUME NEW k \in Knowledges, NEW text \in Seq(Word),
         NEW hits \in Seq(Hit(k)), NEW p \in Phrases(k)
  PROVE  \/ /\ Claim(k, text, hits, p) = hits
            /\ Registered(k, p) =>
                  \A i \in Occurrences(text, p) : \E h \in ToSet(hits) : Meet(p, i, h)
         \/ \E e \in Hit(k) :
               /\ Claim(k, text, hits, p) = Append(hits, e)
               /\ e.phrase = p
               /\ Mention(k, text, e)
               /\ \A h \in ToSet(hits) : ~Meet(p, e.at, h)
<1> DEFINE free == {i \in Occurrences(text, p) : Span(p, i) \cap Claimed(hits) = {}}
           e == [phrase |-> p, at |-> Min(free), key |-> KeyOf(k, p)]
<1>1. Claim(k, text, hits, p) = IF free = {} \/ ~Registered(k, p) THEN hits ELSE Append(hits, e)
  BY DEF Claim
<1>2. \A i : Span(p, i) \cap Claimed(hits) # {} <=> \E h \in ToSet(hits) : Meet(p, i, h)
  BY DEF Claimed, Meet
<1>3. CASE free = {} \/ ~Registered(k, p)
  BY <1>1, <1>2, <1>3
<1>4. CASE free # {} /\ Registered(k, p)
  <2>1. free \in SUBSET Nat
    BY OccurrencesTyped
  <2>2. Min(free) \in free
    BY <1>4, <2>1, MinIs
  <2>3. e \in Hit(k)
    BY <2>1, <2>2 DEF Hit
  <2>4. Mention(k, text, e) /\ e.phrase = p /\ \A h \in ToSet(hits) : ~Meet(p, e.at, h)
    BY <1>2, <1>4, <2>2 DEF Mention
  <2> QED BY <1>1, <1>4, <2>3, <2>4
<1> QED BY <1>3, <1>4

(* taken of AliasHits satisfies its equations, and holds sequences of hits. *)
LEMMA AliasHitsIsRecursive ==
  ASSUME NEW k \in Knowledges, NEW text \in Seq(Word)
  PROVE  LET order == ByLength(k, Phrases(k)) IN
         \E taken \in [0..Len(order) -> Seq(Hit(k))] :
            /\ taken[0] = <<>>
            /\ \A n \in 1..Len(order) : taken[n] = Claim(k, text, taken[n - 1], order[n])
            /\ AliasHits(k, text) = taken[Len(order)]
<1> DEFINE order == ByLength(k, Phrases(k))
           N == Len(order)
           X == Seq(Hit(k))
           Step(s, n) == Claim(k, text, s, order[n])
           F == [s \in X |-> [n \in 1..N |-> Step(s, n)]]
<1>1. N \in Nat /\ <<>> \in X /\ \A n \in 1..N : order[n] \in Phrases(k)
  <2>1. order \in Seq(Phrases(k))
    BY ByLengthSorts
  <2> QED BY <2>1, Elements
<1> HIDE DEF order
<1>2. \A s \in X, n \in 1..N : Step(s, n) \in X
  <2> SUFFICES ASSUME NEW s \in X, NEW n \in 1..N PROVE Step(s, n) \in X
    OBVIOUS
  <2>1. Step(s, n) = s \/ \E e \in Hit(k) : Step(s, n) = Append(s, e)
    BY <1>1, ClaimExtends
  <2> QED BY <2>1
<1> HIDE DEF N, X, Step
<1>3. F \in [X -> [1..N -> X]] /\ \A s \in X, n \in 1..N : F[s][n] = Step(s, n)
  BY <1>2
<1> HIDE DEF F
<1>4. PICK g \in [0..N -> X] : g[0] = <<>> /\ \A n \in 1..N : g[n] = F[g[n - 1]][n]
  <2>1. Runs(N, X, <<>>, F) # {}
    BY <1>1, <1>3, RecursionExists
  <2> QED BY <2>1 DEF Runs
<1>5. \A n \in 1..N : n - 1 \in 0..N /\ n \in 0..N /\ n # 0
  BY <1>1
<1>6. \A n \in 1..N : g[n] = Step(g[n - 1], n)
  BY <1>3, <1>4, <1>5
<1>7. g = [n \in 0..N |-> IF n = 0 THEN <<>> ELSE Step(g[n - 1], n)]
  BY <1>1, <1>4, <1>6
<1>8. PICK f : /\ f = [n \in 0..N |-> IF n = 0 THEN <<>> ELSE Step(f[n - 1], n)]
               /\ AliasHits(k, text) = f[N]
  BY <1>7, Zenon DEF AliasHits, N, Step, order
<1>9. f[0] = <<>> /\ \A n \in 1..N : f[n] = Step(f[n - 1], n)
  <2>1. 0 \in 0..N
    BY <1>1
  <2> QED BY <1>5, <1>8, <2>1, Zenon
<1> DEFINE S == {n \in Nat : n <= N => f[n] \in X}
<1>10. 0 \in S
  BY <1>1, <1>9
<1>11. ASSUME NEW n \in Nat, n \in S PROVE n + 1 \in S
  <2> SUFFICES ASSUME n + 1 <= N PROVE f[n + 1] \in X
    OBVIOUS
  <2>1. f[n] \in X /\ n + 1 \in 1..N /\ (n + 1) - 1 = n
    BY <1>1, <1>11
  <2>2. f[n + 1] = Step(f[n], n + 1)
    BY <1>9, <2>1
  <2> QED BY <1>2, <2>1, <2>2
<1> HIDE DEF S
<1>12. Nat \subseteq S
  BY <1>10, <1>11, SetInduction
<1>13. \A n \in 0..N : f[n] \in X
  BY <1>1, <1>12 DEF S
<1>14. f \in [0..N -> X]
  <2>1. f = [n \in 0..N |-> f[n]]
    BY <1>8, Zenon
  <2> QED BY <1>13, <2>1
<1> QED BY <1>8, <1>9, <1>14 DEF N, X, Step, order

(* KeyResolver.resolve, for every text and every table of aliases: what it  *)
(* takes are mentions that share no word, and every alias with a registered *)
(* key is taken or gives way, at each of its mentions, to an alias at least *)
(* as long.                                                                 *)
THEOREM AliasHitsFair ==
  ASSUME NEW k \in Knowledges, NEW text \in Seq(Word)
  PROVE  LET H == ToSet(AliasHits(k, text)) IN
         /\ AliasHits(k, text) \in Seq(Hit(k))
         /\ \A h \in H : Mention(k, text, h)
         /\ \A g, h \in H : g = h \/ ~Meet(g.phrase, g.at, h)
         /\ \A p \in Phrases(k) : Served(k, text, H, p)
<1> DEFINE N == Len(ByLength(k, Phrases(k)))
<1>1. PICK order : /\ order = ByLength(k, Phrases(k))
                   /\ order \in Seq(Phrases(k))
                   /\ \A p \in Phrases(k) : \E n \in 1..N : order[n] = p
                   /\ \A m, n \in 1..N : m < n => Length[order[m]] >= Length[order[n]]
  BY ByLengthSorts
<1>2. PICK taken \in [0..N -> Seq(Hit(k))] :
         /\ taken[0] = <<>>
         /\ \A n \in 1..N : taken[n] = Claim(k, text, taken[n - 1], order[n])
         /\ AliasHits(k, text) = taken[N]
  BY <1>1, AliasHitsIsRecursive
<1>3. N \in Nat /\ \A n \in 1..N : order[n] \in Phrases(k)
  BY <1>1, Elements
<1> HIDE DEF N
<1> DEFINE H(n) == ToSet(taken[n])
           Typed(n) == \A h \in H(n) : Mention(k, text, h) /\ \E m \in 1..n : h.phrase = order[m]
           Apart(n) == \A g, h \in H(n) : g = h \/ ~Meet(g.phrase, g.at, h)
           Turns(n) == \A m \in 1..n : Served(k, text, H(n), order[m])
           S == {n \in Nat : n <= N => Typed(n) /\ Apart(n) /\ Turns(n)}
<1>4. 0 \in S
  <2>1. H(0) = {}
    BY <1>2 DEF ToSet
  <2>2. Typed(0) /\ Apart(0) /\ Turns(0)
    BY <2>1
  <2> QED BY <2>2
<1>5. ASSUME NEW n \in Nat, n \in S PROVE n + 1 \in S
  <2> SUFFICES ASSUME n + 1 <= N PROVE Typed(n + 1) /\ Apart(n + 1) /\ Turns(n + 1)
    OBVIOUS
  <2>1. n \in 0..N /\ n + 1 \in 1..N /\ (n + 1) - 1 = n
    BY <1>3
  <2>2. Typed(n) /\ Apart(n) /\ Turns(n)
    BY <1>5, <2>1
  <2>3. taken[n] \in Seq(Hit(k)) /\ taken[n + 1] = Claim(k, text, taken[n], order[n + 1])
    BY <1>2, <2>1
  <2>4. PICK p \in Phrases(k) : p = order[n + 1]
    BY <1>3, <2>1
  <2> HIDE DEF H
  <2>5. \A h \in H(n) : Length[h.phrase] >= Length[p]
    <3> SUFFICES ASSUME NEW h \in H(n) PROVE Length[h.phrase] >= Length[p]
      OBVIOUS
    <3>1. PICK m \in 1..n : h.phrase = order[m]
      BY <2>2
    <3>2. m \in 1..N /\ m < n + 1
      BY <1>3, <2>1
    <3> QED BY <1>1, <2>1, <2>4, <3>1, <3>2
  <2>6. CASE H(n + 1) = H(n) /\ Served(k, text, H(n), p)
    <3>1. Typed(n + 1) /\ Apart(n + 1)
      BY <2>1, <2>2, <2>6
    <3>2. Turns(n + 1)
      <4>1. \A m \in 1..(n + 1) : m \in 1..n \/ m = n + 1
        OBVIOUS
      <4> QED BY <2>2, <2>4, <2>6, <4>1
    <3> QED BY <3>1, <3>2
  <2>7. ASSUME NEW e, H(n + 1) = H(n) \cup {e}, e.phrase = p, Mention(k, text, e),
               \A h \in H(n) : ~Meet(p, e.at, h)
        PROVE  Typed(n + 1) /\ Apart(n + 1) /\ Turns(n + 1)
    <3>1. Typed(n + 1)
      BY <2>1, <2>2, <2>4, <2>7
    <3>2. Apart(n + 1)
      <4>1. \A h \in H(n) : ~Meet(e.phrase, e.at, h) /\ ~Meet(h.phrase, h.at, e)
        BY <2>7 DEF Meet
      <4> QED BY <2>2, <2>7, <4>1
    <3>3. ASSUME NEW m \in 1..(n + 1) PROVE Served(k, text, H(n + 1), order[m])
      <4>1. CASE m = n + 1
        BY <2>4, <2>7, <4>1 DEF Served
      <4>2. CASE m \in 1..n
        <5>1. Served(k, text, H(n), order[m])
          BY <2>2, <4>2
        <5> QED BY <2>7, <5>1 DEF Served
      <4> QED BY <4>1, <4>2
    <3> QED BY <3>1, <3>2, <3>3
  <2>8. CASE /\ Claim(k, text, taken[n], p) = taken[n]
             /\ Registered(k, p) =>
                   \A i \in Occurrences(text, p) : \E h \in ToSet(taken[n]) : Meet(p, i, h)
    <3>1. H(n + 1) = H(n) /\ Served(k, text, H(n), p)
      BY <2>3, <2>4, <2>5, <2>8 DEF Served, H
    <3> QED BY <2>6, <3>1
  <2>9. ASSUME NEW e \in Hit(k), Claim(k, text, taken[n], p) = Append(taken[n], e),
               e.phrase = p, Mention(k, text, e), \A h \in ToSet(taken[n]) : ~Meet(p, e.at, h)
        PROVE  Typed(n + 1) /\ Apart(n + 1) /\ Turns(n + 1)
    <3>1. H(n + 1) = H(n) \cup {e}
      BY <2>3, <2>4, <2>9, Appended DEF H
    <3>2. \A h \in H(n) : ~Meet(p, e.at, h)
      BY <2>9 DEF H
    <3> HIDE DEF Typed, Apart, Turns
    <3> QED BY <2>7, <2>9, <3>1, <3>2
  <2> HIDE DEF Typed, Apart, Turns
  <2> QED BY <2>3, <2>8, <2>9, ClaimExtends
<1> HIDE DEF S
<1>6. Nat \subseteq S
  BY <1>4, <1>5, SetInduction
<1>7. Typed(N) /\ Apart(N) /\ Turns(N)
  <2>1. N \in S /\ N <= N
    BY <1>3, <1>6
  <2> HIDE DEF Typed, Apart, Turns
  <2> QED BY <2>1 DEF S
<1>8. \A p \in Phrases(k) : Served(k, text, H(N), p)
  BY <1>1, <1>7
<1>9. AliasHits(k, text) = taken[N] /\ taken[N] \in Seq(Hit(k))
  BY <1>2, <1>3
<1> QED BY <1>7, <1>8, <1>9

(* One entry for every key that was hit, and no more. *)
LEMMA DeduplicatedKeepsKeys ==
  ASSUME NEW K, NEW H, NEW hits \in Seq(H), \A h \in H : h.key \in K
  PROVE  /\ Deduplicated(hits) \in Seq(K)
         /\ ToSet(Deduplicated(hits)) = {h.key : h \in ToSet(hits)}
         /\ Distinct(Deduplicated(hits))
<1> DEFINE N == Len(hits)
           Key(n) == hits[n].key
<1>1. PICK kept \in [0..N -> Seq(K)] :
         /\ kept[0] = <<>>
         /\ \A n \in 1..N : kept[n] = IF Contains(kept[n - 1], Key(n)) THEN kept[n - 1]
                                      ELSE Append(kept[n - 1], Key(n))
         /\ Deduplicated(hits) = kept[N]
  BY DeduplicatedIsRecursive
<1>2. N \in Nat /\ \A n \in 1..N : Key(n) \in K
  OBVIOUS
<1>3. {h.key : h \in ToSet(hits)} = {Key(n) : n \in 1..N}
  <2>1. ToSet(hits) = {hits[n] : n \in 1..N}
    BY DEF ToSet
  <2> QED BY <2>1
<1> HIDE DEF N, Key
<1> DEFINE Kept(n) == ToSet(kept[n]) = {Key(m) : m \in 1..n} /\ Distinct(kept[n])
           S == {n \in Nat : n <= N => Kept(n)}
<1>4. 0 \in S
  <2>1. Kept(0)
    BY <1>1 DEF ToSet, Distinct
  <2> QED BY <2>1
<1>5. ASSUME NEW n \in Nat, n \in S PROVE n + 1 \in S
  <2> SUFFICES ASSUME n + 1 <= N PROVE Kept(n + 1)
    OBVIOUS
  <2>1. n \in 0..N /\ n + 1 \in 1..N /\ (n + 1) - 1 = n
    BY <1>2
  <2>2. Kept(n)
    BY <1>5, <2>1
  <2>3. kept[n] \in Seq(K) /\ Key(n + 1) \in K
    BY <1>2, <2>1
  <2>4. kept[n + 1] = IF Contains(kept[n], Key(n + 1)) THEN kept[n] ELSE Append(kept[n], Key(n + 1))
    BY <1>1, <2>1
  <2>5. {Key(m) : m \in 1..(n + 1)} = {Key(m) : m \in 1..n} \cup {Key(n + 1)}
    <3>1. 1..(n + 1) = (1..n) \cup {n + 1}
      OBVIOUS
    <3> QED BY <3>1
  <2>6. CASE Key(n + 1) \in ToSet(kept[n])
    <3>1. kept[n + 1] = kept[n]
      BY <2>3, <2>4, <2>6, Within
    <3> QED BY <2>2, <2>5, <2>6, <3>1
  <2>7. CASE Key(n + 1) \notin ToSet(kept[n])
    <3>1. kept[n + 1] = Append(kept[n], Key(n + 1))
      BY <2>3, <2>4, <2>7, Within
    <3>2. /\ ToSet(kept[n + 1]) = ToSet(kept[n]) \cup {Key(n + 1)}
          /\ Distinct(kept[n + 1])
      BY <2>2, <2>3, <2>7, <3>1, Appended
    <3> QED BY <2>2, <2>5, <3>2
  <2> QED BY <2>6, <2>7
<1> HIDE DEF S
<1>6. Nat \subseteq S
  BY <1>4, <1>5, SetInduction
<1>7. Kept(N) /\ kept[N] \in Seq(K)
  <2>1. N \in S /\ N \in 0..N
    BY <1>2, <1>6
  <2> HIDE DEF Kept
  <2> QED BY <2>1 DEF S
<1> QED BY <1>1, <1>3, <1>7

LEMMA KeysOfHits ==
  ASSUME NEW k \in Knowledges, NEW text \in Seq(Word)
  PROVE  LET keys == Deduplicated(AliasHits(k, text)) IN
         /\ \A h \in ToSet(AliasHits(k, text)) : Contains(keys, h.key)
         /\ \A i \in 1..Len(keys) : keys[i] \in DOMAIN k.aggregation
         /\ Distinct(keys)
<1> DEFINE hits == AliasHits(k, text)
           keys == Deduplicated(hits)
           K == {KeyOf(k, p) : p \in Phrases(k)}
<1>1. hits \in Seq(Hit(k))
  BY AliasHitsFair
<1>2. \A h \in Hit(k) : h.key \in K
  BY DEF Hit
<1>3. \A h \in ToSet(hits) : h.key \in DOMAIN k.aggregation
  BY AliasHitsFair DEF Mention, Registered
<1> HIDE DEF K, hits
<1>4. keys \in Seq(K) /\ ToSet(keys) = {h.key : h \in ToSet(hits)} /\ Distinct(keys)
  BY <1>1, <1>2, DeduplicatedKeepsKeys
<1> HIDE DEF keys
<1>5. \A h \in ToSet(hits) : Contains(keys, h.key)
  BY <1>4, Within
<1>6. \A i \in 1..Len(keys) : keys[i] \in DOMAIN k.aggregation
  <2>1. \A i \in 1..Len(keys) : keys[i] \in ToSet(keys)
    BY <1>4 DEF ToSet
  <2> QED BY <1>3, <1>4, <2>1
<1> QED BY <1>4, <1>5, <1>6 DEF keys, hits

LEMMA MentionLeadsToKey ==
  ASSUME NEW k \in Knowledges, NEW text \in Seq(Word),
         \A p \in Phrases(k) : Registered(k, p), Mentions(text, k)
  PROVE  Deduplicated(AliasHits(k, text)) # <<>>
<1>1. PICK p \in Phrases(k) : Occurrences(text, p) # {}
  BY DEF Mentions
<1>2. Served(k, text, ToSet(AliasHits(k, text)), p)
  BY AliasHitsFair
<1>3. PICK h \in ToSet(AliasHits(k, text)) : TRUE
  BY <1>1, <1>2 DEF Served
<1>4. Contains(Deduplicated(AliasHits(k, text)), h.key)
  BY KeysOfHits
<1> QED BY <1>4 DEF Contains

-----------------------------------------------------------------------------
(* The follow-up stage *)

LEMMA FirstInIs ==
  ASSUME NEW text \in Seq(Word), NEW words, Has(text, words)
  PROVE  FirstIn(text, words) \in 1..Len(text)
<1> DEFINE S == {i \in 1..Len(text) : text[i] \in words}
<1>1. S \in SUBSET Nat /\ S # {}
  BY DEF Has
<1>2. FirstIn(text, words) = Min(S)
  BY DEF FirstIn
<1> HIDE DEF S
<1>3. FirstIn(text, words) \in S
  BY <1>1, <1>2, MinIs
<1> QED BY <1>3 DEF S

HistoryTyped == history \in Seq(Seq(Word))

LEMMA NewestTurn ==
  ASSUME HistoryTyped, NEW S \in SUBSET (1..Len(history)), S # {}
  PROVE  Max(S) \in S /\ history[Max(S)] \in Seq(Word) /\ history # <<>>
<1>1. Len(history) \in Nat /\ \A i \in 1..Len(history) : history[i] \in Seq(Word)
  BY Elements DEF HistoryTyped
<1>2. S \in SUBSET Nat /\ \A i \in S : i <= Len(history)
  BY <1>1
<1>3. Max(S) \in S
  BY <1>1, <1>2, MaxIs
<1>4. history # <<>>
  <2>1. PICK i \in 1..Len(history) : i = Max(S)
    BY <1>3
  <2>2. Len(history) # 0
    BY <1>1, <2>1
  <2> QED BY <2>2
<1> QED BY <1>1, <1>3, <1>4

LEMMA LastEntityTyped ==
  ASSUME HistoryTyped
  PROVE  LastEntity # None => LastEntity \in Word
<1>1. CASE TurnsWith(Entities) = {}
  BY <1>1 DEF LastEntity
<1>2. CASE TurnsWith(Entities) # {}
  <2>1. TurnsWith(Entities) \in SUBSET (1..Len(history))
    BY DEF TurnsWith
  <2>2. PICK turn : turn = history[Max(TurnsWith(Entities))]
    OBVIOUS
  <2>3. turn \in Seq(Word) /\ Has(turn, Entities)
    <3>1. Max(TurnsWith(Entities)) \in TurnsWith(Entities) /\ turn \in Seq(Word)
      BY <1>2, <2>1, <2>2, NewestTurn
    <3> QED BY <2>2, <3>1 DEF TurnsWith
  <2>4. FirstIn(turn, Entities) \in 1..Len(turn)
    BY <2>3, FirstInIs
  <2>5. turn[FirstIn(turn, Entities)] \in Word
    BY <2>3, <2>4, Elements
  <2> QED BY <1>2, <2>2, <2>5 DEF LastEntity
<1> QED BY <1>1, <1>2

LEMMA LastMetricIsPhrase ==
  ASSUME HistoryTyped, NEW k \in Knowledges, LastMetric(k) # <<>>
  PROVE  LastMetric(k) \in Phrases(k) /\ history # <<>>
<1> DEFINE turns == {i \in 1..Len(history) : Mentions(history[i], k)}
           turn == history[Max(turns)]
           P == {p \in Phrases(k) : Occurrences(turn, p) # {}}
<1>1. turns # {} /\ LastMetric(k) = Head(ByLength(k, P))
  BY DEF LastMetric
<1>2. Max(turns) \in turns /\ history # <<>>
  BY <1>1, NewestTurn
<1>3. P # {}
  BY <1>2 DEF Mentions
<1> HIDE DEF turns, turn
<1>4. P \in SUBSET Phrases(k)
  OBVIOUS
<1> HIDE DEF P
<1>5. PICK order : order = ByLength(k, P) /\ order \in Seq(P)
                   /\ \A p \in P : \E n \in 1..Len(order) : order[n] = p
  BY <1>4, ByLengthSorts
<1>6. order # <<>>
  BY <1>3, <1>5
<1>7. Head(order) \in P
  BY <1>5, <1>6
<1> QED BY <1>1, <1>2, <1>4, <1>5, <1>7

LEMMA NothingLoaded == LastMetric(NotLoaded) = <<>>
<1>1. Phrases(NotLoaded) = {}
  BY DEF Phrases, NotLoaded, ToSet
<1> QED BY <1>1 DEF LastMetric, Mentions

LEMMA Concatenation ==
  ASSUME NEW X, NEW s \in Seq(X), NEW t \in Seq(X)
  PROVE  /\ s \o t \in Seq(X)
         /\ Len(s \o t) = Len(s) + Len(t)
         /\ \A i \in 1..Len(t) : (s \o t)[Len(s) + i] = t[i]
OBVIOUS

LEMMA WithMetricMentions ==
  ASSUME NEW k \in Knowledges, NEW text \in Seq(Word), NEW p \in Phrases(k)
  PROVE  WithMetric(text, p) \in Seq(Word) /\ Mentions(WithMetric(text, p), k)
<1> DEFINE t == WithMetric(text, p)
           i == Len(text) + 2
<1>1. p \in Seq(Word) /\ p # <<>> /\ Len(p) \in Nat /\ Len(p) > 0 /\ Len(text) \in Nat
  BY PhrasesTyped
<1> DEFINE u == text \o <<"(metric:">>
<1>2. u \in Seq(Word) /\ Len(u) = Len(text) + 1
  <2>1. PICK e : e = <<"(metric:">>
    OBVIOUS
  <2>2. e \in Seq(Word) /\ Len(e) = 1
    BY <2>1 DEF Word
  <2>3. u = text \o e
    BY <2>1
  <2> QED BY <1>1, <2>2, <2>3, Concatenation
<1>3. t = u \o p
  BY DEF WithMetric
<1> HIDE DEF u, t
<1>4. t \in Seq(Word) /\ Len(t) = Len(text) + 1 + Len(p)
  <2>1. u \o p \in Seq(Word) /\ Len(u \o p) = Len(u) + Len(p)
    BY <1>1, <1>2, Concatenation, Zenon
  <2> QED BY <1>1, <1>2, <1>3, <2>1
<1>5. \A j \in 1..Len(p) : t[Len(text) + 1 + j] = p[j]
  BY <1>1, <1>2, <1>3, Concatenation
<1>6. i \in 1..Len(t) /\ i + Len(p) - 1 = Len(t)
  BY <1>1, <1>4
<1>7. SubSeq(t, i, i + Len(p) - 1) = p
  <2> DEFINE s == SubSeq(t, i, i + Len(p) - 1)
  <2> HIDE DEF t
  <2>1. s \in Seq(Word) /\ Len(s) = Len(p)
    BY <1>1, <1>4, <1>6
  <2>2. \A j \in 1..Len(p) : s[j] = t[i + j - 1] /\ i + j - 1 = Len(text) + 1 + j
    BY <1>1, <1>4, <1>6
  <2>3. \A j \in 1..Len(p) : s[j] = p[j]
    BY <1>5, <2>2
  <2> HIDE DEF s
  <2>4. s = p
    BY <1>1, <2>1, <2>3
  <2> QED BY <2>4 DEF s
<1>8. i \in Occurrences(t, p)
  BY <1>6, <1>7 DEF Occurrences
<1> QED BY <1>4, <1>8 DEF Mentions, t

LEMMA RewrittenMentions ==
  ASSUME HistoryTyped, NEW k \in Knowledges, NEW q \in Seq(Word)
  PROVE  /\ Rewritten(q, k) \in Seq(Word)
         /\ LastMetric(k) # <<>>
            /\ (Has(q, Entities) \/ (Has(q, Pronouns) /\ LastEntity # None))
            => Mentions(Rewritten(q, k), k)
<1> DEFINE metric == LastMetric(k)
           Complete(words) ==
              IF metric # <<>> /\ ~Mentions(words, k) THEN WithMetric(words, metric) ELSE words
           replaced == ReplaceAt(q, FirstIn(q, Pronouns), LastEntity)
<1>1. Rewritten(q, k) =
        IF history = <<>> THEN q
        ELSE IF Has(q, Pronouns) /\ ~Has(q, Entities) /\ LastEntity # None THEN Complete(replaced)
        ELSE IF Has(q, Entities) THEN Complete(q)
        ELSE q
  BY DEF Rewritten
<1>2. \A words \in Seq(Word) : /\ Complete(words) \in Seq(Word)
                               /\ metric # <<>> => Mentions(Complete(words), k)
  BY LastMetricIsPhrase, WithMetricMentions
<1>3. Has(q, Pronouns) /\ LastEntity # None => replaced \in Seq(Word)
  BY FirstInIs, LastEntityTyped DEF ReplaceAt
<1>4. metric # <<>> => history # <<>>
  BY LastMetricIsPhrase
<1> HIDE DEF Complete, replaced, metric
<1>5. CASE history = <<>>
  BY <1>1, <1>4, <1>5 DEF metric
<1>6. CASE history # <<>> /\ Has(q, Pronouns) /\ ~Has(q, Entities) /\ LastEntity # None
  <2>1. PICK words \in Seq(Word) : Rewritten(q, k) = Complete(words)
    BY <1>1, <1>3, <1>6
  <2>2. Complete(words) \in Seq(Word) /\ (metric # <<>> => Mentions(Complete(words), k))
    BY <1>2
  <2> QED BY <2>1, <2>2 DEF metric
<1>7. CASE history # <<>> /\ Has(q, Entities)
  <2>1. Rewritten(q, k) = Complete(q)
    BY <1>1, <1>7
  <2>2. Complete(q) \in Seq(Word) /\ (metric # <<>> => Mentions(Complete(q), k))
    BY <1>2
  <2> QED BY <2>1, <2>2 DEF metric
<1>8. CASE history # <<>> /\ ~Has(q, Entities) /\ ~(Has(q, Pronouns) /\ LastEntity # None)
  BY <1>1, <1>8
<1> QED BY <1>5, <1>6, <1>7, <1>8

-----------------------------------------------------------------------------
(* The inductive invariant *)

Stages == {"idle", "followup", "resolve", "resolved"}

(* S2 did not load, or it completed the question by what it loaded. *)
Completed ==
    \/ asked.probe = NotLoaded
    \/ asked.probe \in Knowledges /\ asked.text = Rewritten(asked.question, asked.probe)

Matched ==
    /\ asked.used \in Knowledges
    /\ asked.hits = AliasHits(asked.used, asked.text)
    /\ asked.keys = Deduplicated(asked.hits)

(* A question that is resolved was matched, word for word, as S2 left it;   *)
(* until then only the history and the two loads can have shaped it.        *)
StagesInv ==
    /\ HistoryTyped
    /\ knowledge \in Knowledges
    /\ stage \in Stages
    /\ DOMAIN asked = DOMAIN NotAsked
    /\ asked.question \in Seq(Word) /\ asked.text \in Seq(Word)
    /\ stage = "followup" => asked.text = asked.question
    /\ stage \in {"resolve", "resolved"} => Completed
    /\ Resolved => Matched

(* Only the history shapes a rewrite. *)
LEMMA RewrittenSteady ==
  ASSUME NEW q, NEW k, history' = history
  PROVE  Rewritten(q, k)' = Rewritten(q, k)
<1>1. LastMetric(k)' = LastMetric(k)
  BY DEF LastMetric
<1>2. LastEntity' = LastEntity
  BY DEF LastEntity, TurnsWith
<1> QED BY <1>1, <1>2 DEF Rewritten

LEMMA SpokenTyped ==
  \A q \in Questions \cup Complaints : q \in Seq(Word)
<1>1. STRING \subseteq Word
  BY DEF Word
<1> QED BY <1>1, StagesAssumption, SeqWidens

LEMMA StagesInvInductive == StagesInv /\ [Next]_vars => StagesInv'
<1> SUFFICES ASSUME StagesInv, [Next]_vars PROVE StagesInv'
  OBVIOUS
<1> USE DEF Stages
<1>1. ASSUME NEW q \in Questions, Ask(q) PROVE StagesInv'
  <2>1. q \in Seq(Word)
    BY SpokenTyped
  <2> QED BY <1>1, <2>1 DEF Ask, StagesInv, NotAsked, Resolved, HistoryTyped
<1>2. ASSUME NEW c \in Complaints, NEW q \in Questions, Correct(c, q) PROVE StagesInv'
  <2>1. q \in Seq(Word) /\ c \in Seq(Word)
    BY SpokenTyped
  <2> QED BY <1>2, <2>1 DEF Correct, StagesInv, NotAsked, Resolved, HistoryTyped, Completed
<1>3. CASE FollowUp
  <2>1. PICK q \in Seq(Word) : asked.question = q /\ asked.text = q
    BY <1>3 DEF FollowUp, StagesInv
  <2>2. PICK k \in Knowledges : k = knowledge
    BY DEF StagesInv
  <2>3. PICK text : text = Rewritten(q, k)
    OBVIOUS
  <2>4. text \in Seq(Word)
    BY <2>3, RewrittenMentions DEF StagesInv
  <2>5. /\ asked'.question = q /\ asked'.text = text /\ asked'.probe = k
        /\ DOMAIN asked' = DOMAIN NotAsked
    BY <1>3, <2>1, <2>2, <2>3 DEF FollowUp, StagesInv, NotAsked
  <2>6. Rewritten(q, k)' = text
    BY <1>3, <2>3, RewrittenSteady DEF FollowUp
  <2>7. Completed'
    BY <2>5, <2>6 DEF Completed
  <2> QED BY <1>3, <2>4, <2>5, <2>7 DEF FollowUp, StagesInv, Resolved, HistoryTyped
<1>4. CASE Resolve
  <2>1. PICK q, text, k : q = asked.question /\ text = asked.text /\ k = asked.probe
    OBVIOUS
  <2>2. /\ asked'.question = q /\ asked'.text = text /\ asked'.probe = k
        /\ DOMAIN asked' = DOMAIN NotAsked
        /\ asked'.used = knowledge
        /\ asked'.hits = AliasHits(knowledge, text)
        /\ asked'.keys = Deduplicated(AliasHits(knowledge, text))
    BY <1>4, <2>1 DEF Resolve, StagesInv, NotAsked
  <2>3. Rewritten(q, k)' = Rewritten(q, k)
    BY <1>4, RewrittenSteady DEF Resolve
  <2>4. Completed'
    BY <1>4, <2>1, <2>2, <2>3 DEF Completed, StagesInv, Resolve
  <2>5. Matched'
    BY <2>2 DEF Matched, StagesInv
  <2> QED BY <1>4, <2>1, <2>2, <2>4, <2>5 DEF Resolve, StagesInv, Resolved, HistoryTyped
<1>5. CASE Finish
  <2>1. asked' = NotAsked /\ stage' = "idle" /\ knowledge' = knowledge
    BY <1>5 DEF Finish
  <2>2. HistoryTyped'
    <3>1. asked.question \in Seq(Word) /\ history \in Seq(Seq(Word))
      BY DEF StagesInv, HistoryTyped
    <3> QED BY <1>5, <3>1 DEF Finish, HistoryTyped
  <2>3. <<>> \in Seq(Word)
    OBVIOUS
  <2> QED BY <2>1, <2>2, <2>3 DEF StagesInv, NotAsked, Resolved
<1>6. CASE Relearn
  <2>1. PICK q, k : q = asked.question /\ k = asked.probe
    OBVIOUS
  <2>2. Rewritten(q, k)' = Rewritten(q, k)
    BY <1>6, RewrittenSteady DEF Relearn
  <2>3. Completed => Completed'
    BY <1>6, <2>1, <2>2 DEF Completed, Relearn
  <2> QED BY <1>6, <2>3 DEF Relearn, StagesInv, Resolved, HistoryTyped, Matched
<1>7. CASE UNCHANGED vars
  <2>1. PICK q, k : q = asked.question /\ k = asked.probe
    OBVIOUS
  <2>2. Rewritten(q, k)' = Rewritten(q, k)
    BY <1>7, RewrittenSteady DEF vars
  <2>3. Completed => Completed'
    BY <1>7, <2>1, <2>2 DEF Completed, vars
  <2> QED BY <1>7, <2>3 DEF vars, StagesInv, Resolved, HistoryTyped, Matched
<1> QED BY <1>1, <1>2, <1>3, <1>4, <1>5, <1>6, <1>7 DEF Next

LEMMA InitStagesInv == Init => StagesInv
<1>1. <<>> \in Seq(Word) /\ <<>> \in Seq(Seq(Word))
  OBVIOUS
<1> QED BY <1>1 DEF Init, StagesInv, NotAsked, HistoryTyped, Stages, Resolved

(* What S2 and S5 left behind stays what they computed while the tenant     *)
(* learns something else.                                                   *)
THEOREM StagesInvariant == Spec => []StagesInv
BY InitStagesInv, StagesInvInductive, PTL DEF Spec

-----------------------------------------------------------------------------
(* The theorems *)

LEMMA MentionsFollow == StagesInv => NoMentionOverlooked
<1> SUFFICES ASSUME StagesInv, Resolved PROVE NoMentionOverlooked
  BY DEF NoMentionOverlooked
<1>1. PICK k \in Knowledges, text \in Seq(Word) :
         /\ asked.used = k /\ asked.text = text
         /\ asked.hits = AliasHits(k, text) /\ asked.keys = Deduplicated(AliasHits(k, text))
  BY DEF StagesInv, Matched
<1> DEFINE H == ToSet(AliasHits(k, text))
<1>2. ASSUME NEW p \in Phrases(k), Registered(k, p)
      PROVE  \/ Contains(asked.keys, KeyOf(k, p))
             \/ \A i \in Occurrences(text, p) :
                   \E h \in H : /\ Span(p, i) \cap Span(h.phrase, h.at) # {}
                               /\ Length[h.phrase] >= Length[p]
  <2>1. Served(k, text, H, p)
    BY AliasHitsFair
  <2>2. ASSUME NEW h \in H, h.phrase = p PROVE Contains(asked.keys, KeyOf(k, p))
    <3>1. h.key = KeyOf(k, p)
      BY <2>2, AliasHitsFair DEF Mention
    <3> QED BY <1>1, <3>1, KeysOfHits
  <2> QED BY <1>2, <2>1, <2>2 DEF Served, Meet
<1> HIDE DEF H
<1>3. H = ToSet(asked.hits)
  BY <1>1 DEF H
<1> QED BY <1>1, <1>2, <1>3 DEF NoMentionOverlooked

(* No mention of a metric is overlooked: every alias of a registered key    *)
(* that the text mentions leads to its key, or is covered by aliases at     *)
(* least as long.                                                           *)
THEOREM MentionsAreHeard == Spec => []NoMentionOverlooked
BY StagesInvariant, MentionsFollow, PTL

LEMMA LongestFollows == StagesInv => LongestFirst
<1> SUFFICES ASSUME StagesInv, Resolved, NEW h \in ToSet(asked.hits)
             PROVE  LET Others == ToSet(asked.hits) \ {h} IN
                    /\ h.at \in Occurrences(asked.text, h.phrase)
                    /\ h.key \in DOMAIN asked.used.aggregation
                    /\ \A g \in Others : Span(g.phrase, g.at) \cap Span(h.phrase, h.at) = {}
                    /\ \A p \in Phrases(asked.used) : \A i \in Occurrences(asked.text, p) :
                          /\ Registered(asked.used, p) /\ Length[p] > Length[h.phrase]
                          /\ Span(p, i) \cap Span(h.phrase, h.at) # {}
                          => \E g \in Others :
                                \/ g.phrase = p
                                \/ /\ Span(p, i) \cap Span(g.phrase, g.at) # {}
                                   /\ Length[g.phrase] >= Length[p]
  BY DEF LongestFirst
<1>1. PICK k \in Knowledges, text \in Seq(Word) :
         asked.used = k /\ asked.text = text /\ asked.hits = AliasHits(k, text)
  BY DEF StagesInv, Matched
<1> DEFINE H == ToSet(AliasHits(k, text))
<1>2. h \in H /\ H = ToSet(asked.hits)
  BY <1>1
<1>3. Mention(k, text, h) /\ AliasHits(k, text) \in Seq(Hit(k))
      /\ \A g \in H : g = h \/ ~Meet(g.phrase, g.at, h)
  BY <1>2, AliasHitsFair
<1>4. h.phrase \in Phrases(k)
  <2>1. \A g \in Hit(k) : g.phrase \in Phrases(k)
    BY DEF Hit
  <2>2. h \in Hit(k)
    BY <1>2, <1>3, Elements DEF ToSet
  <2> QED BY <2>1, <2>2
<1>5. ASSUME NEW p \in Phrases(k), NEW i \in Occurrences(text, p),
             Registered(k, p), Length[p] > Length[h.phrase]
      PROVE  \E g \in H \ {h} : \/ g.phrase = p
                                \/ Meet(p, i, g) /\ Length[g.phrase] >= Length[p]
  <2>1. Served(k, text, H, p)
    BY AliasHitsFair
  <2>2. Length[p] \in Nat /\ Length[h.phrase] \in Nat
    BY <1>4, PhrasesTyped
  <2>3. PICK g \in H : g.phrase = p \/ (Meet(p, i, g) /\ Length[g.phrase] >= Length[p])
    BY <1>5, <2>1 DEF Served
  <2>4. Length[g.phrase] >= Length[p]
    BY <2>2, <2>3
  <2>5. g # h
    BY <1>5, <2>2, <2>4
  <2> QED BY <2>3, <2>5
<1> HIDE DEF H
<1> QED BY <1>1, <1>2, <1>3, <1>5 DEF Mention, Meet, Registered

(* The longest alias wins: no two hits share a word, and a shorter alias is *)
(* only taken where a longer one has already had another mention or has     *)
(* given way itself.                                                        *)
THEOREM LongestWins == Spec => []LongestFirst
BY StagesInvariant, LongestFollows, PTL

LEMMA FollowUpFollows == StagesInv => FollowUpFindsMetric
<1> SUFFICES ASSUME StagesInv, Resolved, asked.probe = asked.used,
                    LastMetric(asked.used) # <<>>,
                    \A p \in Phrases(asked.used) : Registered(asked.used, p),
                    Has(asked.question, Entities)
                    \/ (Has(asked.question, Pronouns) /\ LastEntity # None)
             PROVE  asked.keys # <<>>
  BY DEF FollowUpFindsMetric
<1>1. PICK k \in Knowledges, q \in Seq(Word), text \in Seq(Word) :
         /\ asked.used = k /\ asked.text = text /\ asked.question = q
         /\ asked.keys = Deduplicated(AliasHits(k, text))
  BY DEF StagesInv, Matched
<1>2. k # NotLoaded
  BY <1>1, NothingLoaded
<1>3. text = Rewritten(q, k)
  BY <1>1, <1>2 DEF StagesInv, Completed, Resolved
<1>4. Mentions(text, k)
  BY <1>1, <1>3, RewrittenMentions DEF StagesInv
<1> QED BY <1>1, <1>4, MentionLeadsToKey

(* A follow-up about an entity that comes after a mention of a metric leads *)
(* to a key, unless the knowledge changed between the two loads or holds an *)
(* alias without a key.                                                     *)
THEOREM FollowUpsFindMetric == Spec => []FollowUpFindsMetric
BY StagesInvariant, FollowUpFollows, PTL

(* Every key that reaches the prompt is one of the registry, so that the     *)
(* lookup of its aggregation cannot fail, and no key is listed twice.        *)
KeysUsable ==
    Resolved => /\ \A i \in 1..Len(asked.keys) : asked.keys[i] \in DOMAIN asked.used.aggregation
                /\ Distinct(asked.keys)

LEMMA KeysFollow == StagesInv => KeysUsable
<1> SUFFICES ASSUME StagesInv, Resolved PROVE KeysUsable
  BY DEF KeysUsable
<1>1. PICK k \in Knowledges, text \in Seq(Word) :
         asked.used = k /\ asked.keys = Deduplicated(AliasHits(k, text))
  BY DEF StagesInv, Matched
<1> QED BY <1>1, KeysOfHits DEF KeysUsable

(* For every question, history and knowledge. *)
THEOREM KeysAreUsable == Spec => []KeysUsable
BY StagesInvariant, KeysFollow, PTL
=============================================================================
