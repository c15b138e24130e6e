------------------------- MODULE QuotaHistoryProofs -------------------------
(***************************************************************************)
(* Proofs about QuotaResets and QuotaHistory for every finite history of   *)
(* samples, whatever the order and the batches they arrive in: what is     *)
(* folded step by step is what one fold over everything would give.        *)
(*                                                                         *)
(* The folds are functions on the subsets of a finite set.  That such a    *)
(* function exists, and what it computes, is proved by taking a smallest   *)
(* number or a smallest set for which it would fail.                       *)
(***************************************************************************)
EXTENDS QuotaHistory, FiniteSetTheorems, WellFoundedInduction, SequenceTheorems, TLAPS

-----------------------------------------------------------------------------
(* Smallest counterexamples.                                               *)

LEMMA LeastNatural ==
  ASSUME NEW T \in SUBSET Nat, T # {}
  PROVE  \E n \in T : \A m \in T : n <= m
<1> DEFINE less == {p \in Nat \X Nat : p[1] < p[2]}
<1>1. IsWellFoundedOn(less, Nat)
  BY NatLessThanWellFounded DEF OpToRel
<1>2. PICK n \in T : \A m \in T : ~(<<m, n>> \in less)
  <2> HIDE DEF less
  <2> QED BY <1>1, WFMin
<1>3. \A m \in T : n <= m
  <2>1. SUFFICES ASSUME NEW m \in T, m < n PROVE FALSE
    OBVIOUS
  <2>2. <<m, n>> \in less
    BY <2>1
  <2>3. QED
    BY <1>2, <2>2
<1>4. QED
  BY <1>3

(* A set of finite sets is not empty only if it has a member none of whose *)
(* proper subsets is in it.                                                *)
LEMMA SmallestSet ==
  ASSUME NEW D, IsFiniteSet(D), NEW T \in SUBSET SUBSET D, T # {}
  PROVE  \E A \in T : \A B \in SUBSET A : B # A => B \notin T
<1>1. IsWellFoundedOn(StrictSubsetOrdering(D), FiniteSubsetsOf(D))
  BY FS_StrictSubsetOrderingWellFounded
<1>2. T \subseteq FiniteSubsetsOf(D)
  BY FS_Subset DEF FiniteSubsetsOf
<1>3. PICK A \in T : \A B \in T : ~(<<B, A>> \in StrictSubsetOrdering(D))
  BY <1>1, <1>2, WFMin
<1>4. ASSUME NEW B \in SUBSET A, B # A, B \in T
      PROVE  FALSE
  <2>1. A \in SUBSET D /\ B \in SUBSET D
    BY <1>3, <1>4
  <2>2. <<B, A>> \in StrictSubsetOrdering(D)
    BY <1>4, <2>1 DEF StrictSubsetOrdering
  <2>3. QED
    BY <1>3, <1>4, <2>2
<1>5. QED
  BY <1>4

-----------------------------------------------------------------------------
(* The order of samples.                                                   *)

Stamps == Samples \cup {NoSample}

LEMMA SampleType ==
  ASSUME NEW s \in Samples
  PROVE  /\ s.at \in Nat /\ s.id \in Nat \ {0} /\ s.resets \in Nat
         /\ s.used \in BOOLEAN /\ s.percent \in BOOLEAN
<1>1. PICK id \in Ids, c \in Contents : s = Sample(id, c)
  BY DEF Samples
<1>2. id \in Nat \ {0} /\ c \in [at : Nat, resets : Nat, used : BOOLEAN, percent : BOOLEAN]
  BY BoundAssumption, ContentAssumption
<1>3. QED
  BY <1>1, <1>2 DEF Sample

LEMMA StampType ==
  ASSUME NEW s \in Stamps
  PROVE  s.at \in Int /\ s.id \in Nat
BY SampleType DEF Stamps, NoSample

LEMMA BeforeOrder ==
  ASSUME NEW s \in Stamps, NEW t \in Stamps, NEW u \in Stamps
  PROVE  /\ ~Before(s, s)
         /\ Before(s, t) => ~Before(t, s)
         /\ Before(s, t) /\ Before(t, u) => Before(s, u)
         /\ ~Before(s, t) /\ ~Before(t, u) => ~Before(s, u)
         /\ Before(s, t) \/ Before(t, s) \/ s.id = t.id
<1>1. s.at \in Int /\ s.id \in Nat /\ t.at \in Int /\ t.id \in Nat /\ u.at \in Int /\ u.id \in Nat
  BY StampType
<1>2. QED
  BY <1>1 DEF Before

LEMMA NoSampleFirst ==
  ASSUME NEW s \in Samples
  PROVE  Before(NoSample, s) /\ ~Before(s, NoSample) /\ s # NoSample
BY SampleType DEF Before, NoSample

LEMMA NewestUnique ==
  ASSUME NEW S \in SUBSET Samples, DistinctIds(S), NEW n \in S, \A t \in S : ~Before(n, t)
  PROVE  Newest(S) = n
<1>1. ASSUME NEW s \in S, \A t \in S : ~Before(s, t)
      PROVE  s = n
  <2>1. ~Before(s, n) /\ ~Before(n, s)
    BY <1>1
  <2>2. s.id = n.id
    BY <2>1, BeforeOrder DEF Stamps
  <2>3. QED
    BY <2>2 DEF DistinctIds
<1>2. QED
  BY <1>1 DEF Newest

LEMMA NewestIs ==
  ASSUME NEW S \in SUBSET Samples, IsFiniteSet(S), S # {}, DistinctIds(S)
  PROVE  /\ Newest(S) \in S
         /\ \A t \in S : ~Before(Newest(S), t)
         /\ \A t \in S : t # Newest(S) => Before(t, Newest(S))
<1> DEFINE Bad == {A \in SUBSET S : A # {} /\ \A s \in A : \E t \in A : Before(s, t)}
<1>1. ASSUME NEW A \in Bad, \A B \in SUBSET A : B # A => B \notin Bad
      PROVE  FALSE
  <2>1. PICK x \in A : TRUE
    OBVIOUS
  <2> DEFINE B == A \ {x}
  <2>2. B \in SUBSET A /\ B # A /\ B \notin Bad
    BY <1>1, <2>1
  <2>3. CASE B = {}
    <3>1. Before(x, x)
      BY <2>3
    <3>2. QED
      BY <3>1, BeforeOrder DEF Stamps
  <2>4. CASE B # {}
    <3>1. PICK s \in B : \A t \in B : ~Before(s, t)
      BY <2>2, <2>4
    <3>2. Before(s, x)
      BY <3>1
    <3>3. PICK t \in A : Before(x, t)
      OBVIOUS
    <3>4. Before(s, t)
      BY <3>2, <3>3, BeforeOrder DEF Stamps
    <3>5. t = x
      BY <3>1, <3>4
    <3>6. QED
      BY <3>3, <3>5, BeforeOrder DEF Stamps
  <2>5. QED
    BY <2>3, <2>4
<1>2. Bad = {}
  <2>1. Bad \in SUBSET SUBSET S
    OBVIOUS
  <2> HIDE DEF Bad
  <2>2. QED
    BY <1>1, <2>1, SmallestSet
<1>3. PICK n \in S : \A t \in S : ~Before(n, t)
  BY <1>2
<1>4. Newest(S) = n
  BY <1>3, NewestUnique
<1>5. \A t \in S : t # n => Before(t, n)
  <2>1. SUFFICES ASSUME NEW t \in S, t # n PROVE Before(t, n)
    OBVIOUS
  <2>2. t.id # n.id
    BY <2>1 DEF DistinctIds
  <2>3. QED
    BY <1>3, <2>2, BeforeOrder DEF Stamps
<1>6. QED
  BY <1>3, <1>4, <1>5

LEMMA SubsetDistinct ==
  ASSUME NEW S, DistinctIds(S), NEW T \in SUBSET S
  PROVE  DistinctIds(T)
BY DEF DistinctIds

-----------------------------------------------------------------------------
(* Folds over a finite set, in the order in which pick takes its elements. *)

Picks(pick, D) == \A S \in SUBSET D : S # {} => pick[S] \in S

Folded(f, op, base, pick, S) ==
  f[S] = IF S = {} THEN base ELSE op[<<pick[S], f[S \ {pick[S]}]>>]

FoldedUpTo(D, B, base, op, pick, n) ==
  \E f \in [SUBSET D -> B] : \A S \in SUBSET D : Cardinality(S) <= n => Folded(f, op, base, pick, S)

LEMMA FoldedLayers ==
  ASSUME NEW D, IsFiniteSet(D), NEW B, NEW base \in B, NEW op \in [D \X B -> B], NEW n \in Nat,
         NEW pick, Picks(pick, D)
  PROVE  FoldedUpTo(D, B, base, op, pick, n)
<1> DEFINE Bad == {k \in Nat : ~FoldedUpTo(D, B, base, op, pick, k)}
<1>1. ASSUME NEW S \in SUBSET D
      PROVE  /\ Cardinality(S) \in Nat
             /\ Cardinality(S) = 0 <=> S = {}
             /\ S # {} => /\ pick[S] \in S
                          /\ Cardinality(S \ {pick[S]}) = Cardinality(S) - 1
  <2>1. IsFiniteSet(S)
    BY FS_Subset
  <2>2. Cardinality(S) \in Nat /\ (Cardinality(S) = 0 <=> S = {})
    BY <2>1, FS_CardinalityType, FS_EmptySet
  <2>3. ASSUME S # {}
        PROVE  pick[S] \in S
    BY <2>3 DEF Picks
  <2>4. QED
    BY <2>1, <2>2, <2>3, FS_RemoveElement
<1>2. ASSUME NEW k \in Bad, \A j \in Bad : k <= j
      PROVE  FALSE
  <2>1. CASE k = 0
    <3> DEFINE f == [S \in SUBSET D |-> base]
    <3>1. ASSUME NEW S \in SUBSET D, Cardinality(S) <= 0
          PROVE  Folded(f, op, base, pick, S)
      <4>1. S = {}
        <5>1. Cardinality(S) \in Nat /\ (Cardinality(S) = 0 => S = {})
          BY <1>1
        <5>2. QED
          BY <3>1, <5>1
      <4>2. QED
        BY <4>1 DEF Folded
    <3>2. f \in [SUBSET D -> B]
      OBVIOUS
    <3>3. FoldedUpTo(D, B, base, op, pick, 0)
      <4> HIDE DEF f
      <4> QED BY <3>1, <3>2 DEF FoldedUpTo
    <3>4. QED
      BY <2>1, <3>3
  <2>2. CASE k # 0
    <3>1. k - 1 \in Nat /\ k \in Nat
      BY <2>2
    <3>2. k - 1 \notin Bad
      <4> HIDE DEF Bad
      <4> QED BY <1>2, <3>1
    <3>3. PICK g \in [SUBSET D -> B] :
                 \A S \in SUBSET D : Cardinality(S) <= k - 1 => Folded(g, op, base, pick, S)
      BY <3>1, <3>2 DEF FoldedUpTo
    <3> DEFINE f == [S \in SUBSET D |->
                       IF Cardinality(S) <= k - 1 THEN g[S]
                       ELSE op[<<pick[S], g[S \ {pick[S]}]>>]]
    <3>4. f \in [SUBSET D -> B]
      <4>1. ASSUME NEW S \in SUBSET D, ~(Cardinality(S) <= k - 1)
            PROVE  op[<<pick[S], g[S \ {pick[S]}]>>] \in B
        <5>1. S # {}
          <6>1. Cardinality(S) \in Nat /\ (S = {} => Cardinality(S) = 0)
            BY <1>1
          <6>2. QED
            BY <3>1, <4>1, <6>1
        <5>2. pick[S] \in D /\ g[S \ {pick[S]}] \in B
          BY <1>1, <3>3, <5>1
        <5>3. QED
          BY <5>2
      <4>2. QED
        BY <3>3, <4>1
    <3>5. ASSUME NEW S \in SUBSET D, Cardinality(S) <= k
          PROVE  Folded(f, op, base, pick, S)
      <4>1. CASE S = {}
        <5>1. Cardinality(S) <= k - 1 /\ f[S] = g[S]
          BY <1>1, <3>1, <4>1
        <5>2. QED
          BY <3>3, <4>1, <5>1 DEF Folded
      <4>2. CASE S # {}
        <5> DEFINE R == S \ {pick[S]}
        <5>1. R \in SUBSET D /\ Cardinality(R) = Cardinality(S) - 1 /\ Cardinality(S) \in Nat
          BY <1>1, <4>2
        <5>2. f[R] = g[R]
          BY <3>1, <3>5, <5>1
        <5>3. f[S] = op[<<pick[S], g[R]>>]
          <6>1. CASE Cardinality(S) <= k - 1
            BY <3>3, <4>2, <6>1 DEF Folded
          <6>2. CASE ~(Cardinality(S) <= k - 1)
            BY <6>2
          <6>3. QED
            BY <6>1, <6>2
        <5> HIDE DEF f
        <5>4. QED
          BY <4>2, <5>2, <5>3 DEF Folded
      <4>3. QED
        BY <4>1, <4>2
    <3> HIDE DEF f
    <3>6. QED
      BY <3>1, <3>4, <3>5 DEF FoldedUpTo
  <2>3. QED
    BY <2>1, <2>2
<1>3. Bad = {}
  <2>1. Bad \subseteq Nat
    OBVIOUS
  <2> HIDE DEF Bad
  <2> QED BY <1>2, <2>1, LeastNatural
<1>4. QED
  BY <1>3

FoldedBy(D, B, base, op, pick) ==
  \E f \in [SUBSET D -> B] : \A S \in SUBSET D : Folded(f, op, base, pick, S)

LEMMA FoldedExists ==
  ASSUME NEW D, IsFiniteSet(D), NEW B, NEW base \in B, NEW op \in [D \X B -> B],
         NEW pick, Picks(pick, D)
  PROVE  FoldedBy(D, B, base, op, pick)
<1>1. Cardinality(D) \in Nat /\ \A S \in SUBSET D : Cardinality(S) <= Cardinality(D)
  BY FS_CardinalityType, FS_Subset
<1>2. FoldedUpTo(D, B, base, op, pick, Cardinality(D))
  BY <1>1, FoldedLayers
<1>3. QED
  BY <1>1, <1>2 DEF FoldedUpTo, FoldedBy

-----------------------------------------------------------------------------
(* The fold of the runs.                                                   *)

LEMMA WithSampleType ==
  ASSUME NEW runs \in Seq(Run), NEW s \in Samples
  PROVE  WithSample(runs, s) \in Seq(Run)
<1>1. s.at \in Nat /\ s.resets \in Nat /\ s.used \in BOOLEAN
  BY SampleType
<1>2. NewRun(s) \in Run
  BY <1>1 DEF NewRun, Run
<1>3. Append(runs, NewRun(s)) \in Seq(Run)
  BY <1>2
<1>4. ASSUME runs # <<>>
      PROVE  Append(Front(runs), Continued(Last(runs), s)) \in Seq(Run)
  <2>1. Len(runs) \in Nat \ {0}
    BY <1>4
  <2>2. Last(runs) \in Run
    BY <2>1 DEF Last
  <2>3. Front(runs) \in Seq(Run)
    <3>1. \A i \in 1 .. Len(runs) - 1 : runs[i] \in Run
      BY <2>1
    <3>2. QED
      BY <2>1, <3>1, SubSeqProperties DEF Front
  <2>4. ASSUME NEW run \in Run
        PROVE  Continued(run, s) \in Run
    <3> DEFINE count == IF s.at > run.last THEN run.count + 1 ELSE run.count
               usage == IF s.used /\ run.usage = None THEN s.at ELSE run.usage
    <3>1. run.count \in Nat /\ run.usage \in Nat \cup {None}
      BY DEF Run
    <3>2. count \in Nat /\ usage \in Nat \cup {None}
      BY <1>1, <3>1
    <3>3. Continued(run, s) = [run EXCEPT !.count = count, !.last = s.at, !.usage = usage]
      BY DEF Continued, Run
    <3> HIDE DEF count, usage
    <3>4. QED
      BY <1>1, <3>2, <3>3 DEF Run
  <2>5. QED
    BY <2>2, <2>3, <2>4
<1>5. QED
  BY <1>3, <1>4 DEF WithSample

NewestOf(D) == [S \in SUBSET D |-> Newest(S)]

LEMMA NewestIn ==
  ASSUME NEW D \in SUBSET Samples, IsFiniteSet(D), DistinctIds(D)
  PROVE  /\ Picks(NewestOf(D), D)
         /\ \A S \in SUBSET D : S # {} => NewestOf(D)[S] = Newest(S) /\ Newest(S) \in S
<1>1. \A S \in SUBSET D : S # {} => Newest(S) \in S
  BY FS_Subset, SubsetDistinct, NewestIs
<1>2. QED
  BY <1>1 DEF NewestOf, Picks

Chain(f, runs, S) ==
  f[S] = IF S = {} THEN runs ELSE WithSample(f[S \ {Newest(S)}], Newest(S))

(* FoldRuns is the value of any function that satisfies its equation.      *)
LEMMA FoldRunsChain ==
  ASSUME NEW D \in SUBSET Samples, IsFiniteSet(D), DistinctIds(D), NEW runs \in Seq(Run)
  PROVE  \E f : /\ \A S \in SUBSET D : Chain(f, runs, S)
                /\ FoldRuns(D, runs) = f[D]
<1> DEFINE Equation(f) ==
             f = [S \in SUBSET D |->
                    IF S = {} THEN runs ELSE WithSample(f[S \ {Newest(S)}], Newest(S))]
           fold == CHOOSE f : Equation(f)
           op == [p \in D \X Seq(Run) |-> WithSample(p[2], p[1])]
<1>1. op \in [D \X Seq(Run) -> Seq(Run)]
  BY WithSampleType
<1>2. PICK f \in [SUBSET D -> Seq(Run)] : \A S \in SUBSET D : Folded(f, op, runs, NewestOf(D), S)
  <2> HIDE DEF op
  <2>1. FoldedBy(D, Seq(Run), runs, op, NewestOf(D))
    BY <1>1, NewestIn, FoldedExists
  <2>2. QED
    BY <2>1 DEF FoldedBy
<1>3. \A S \in SUBSET D : f[S] = IF S = {} THEN runs ELSE WithSample(f[S \ {Newest(S)}], Newest(S))
  <2>1. SUFFICES ASSUME NEW S \in SUBSET D
                 PROVE  f[S] = IF S = {} THEN runs ELSE WithSample(f[S \ {Newest(S)}], Newest(S))
    OBVIOUS
  <2>2. CASE S = {}
    BY <1>2, <2>2 DEF Folded
  <2>3. CASE S # {}
    <3>1. NewestOf(D)[S] = Newest(S) /\ Newest(S) \in D /\ f[S \ {Newest(S)}] \in Seq(Run)
      BY <1>2, <2>3, NewestIn
    <3>2. f[S] = op[<<Newest(S), f[S \ {Newest(S)}]>>]
      BY <1>2, <2>3, <3>1 DEF Folded
    <3>3. QED
      BY <2>3, <3>1, <3>2
  <2>4. QED
    BY <2>2, <2>3
<1>4. Equation(f)
  <2> DEFINE h == [S \in SUBSET D |->
                     IF S = {} THEN runs ELSE WithSample(f[S \ {Newest(S)}], Newest(S))]
  <2>1. f = [S \in SUBSET D |-> f[S]] /\ h = [S \in SUBSET D |-> h[S]]
    BY <1>2
  <2>2. \A S \in SUBSET D : f[S] = h[S]
    BY <1>3
  <2>3. f = h
    <3> HIDE DEF h
    <3> QED BY <2>1, <2>2
  <2>4. QED
    BY <2>3
<1>5. Equation(fold)
  BY <1>4
<1>6. FoldRuns(D, runs) = fold[D]
  BY DEF FoldRuns
<1>7. \A S \in SUBSET D : Chain(fold, runs, S)
  <2> HIDE DEF fold
  <2> QED BY <1>5 DEF Chain
<1>8. QED
  <2> HIDE DEF fold
  <2> QED BY <1>6, <1>7

LEMMA ChainUnique ==
  ASSUME NEW D \in SUBSET Samples, IsFiniteSet(D), DistinctIds(D), NEW runs, NEW f, NEW g,
         \A S \in SUBSET D : Chain(f, runs, S) /\ Chain(g, runs, S)
  PROVE  f[D] = g[D]
<1> DEFINE Bad == {A \in SUBSET D : f[A] # g[A]}
<1>1. ASSUME NEW A \in Bad, \A B \in SUBSET A : B # A => B \notin Bad
      PROVE  FALSE
  <2>1. A # {}
    BY DEF Chain
  <2>2. Newest(A) \in A
    BY <2>1, NewestIs, FS_Subset, SubsetDistinct
  <2>3. f[A \ {Newest(A)}] = g[A \ {Newest(A)}]
    BY <1>1, <2>2
  <2>4. QED
    BY <2>1, <2>3 DEF Chain
<1>2. Bad = {}
  <2>1. Bad \in SUBSET SUBSET D
    OBVIOUS
  <2> HIDE DEF Bad
  <2>2. QED
    BY <1>1, <2>1, SmallestSet
<1>3. QED
  BY <1>2

(* The newest sample is folded last.                                       *)
LEMMA FoldRunsStep ==
  ASSUME NEW D \in SUBSET Samples, IsFiniteSet(D), DistinctIds(D), NEW runs \in Seq(Run)
  PROVE  FoldRuns(D, runs) =
           IF D = {} THEN runs ELSE WithSample(FoldRuns(D \ {Newest(D)}, runs), Newest(D))
<1>1. PICK f : (\A S \in SUBSET D : Chain(f, runs, S)) /\ FoldRuns(D, runs) = f[D]
  BY FoldRunsChain
<1>2. CASE D = {}
  BY <1>1, <1>2 DEF Chain
<1>3. CASE D # {}
  <2> DEFINE R == D \ {Newest(D)}
  <2>1. R \in SUBSET D /\ R \in SUBSET Samples /\ IsFiniteSet(R) /\ DistinctIds(R)
    BY FS_Subset, SubsetDistinct
  <2>2. PICK g : (\A S \in SUBSET R : Chain(g, runs, S)) /\ FoldRuns(R, runs) = g[R]
    BY <2>1, FoldRunsChain
  <2>3. f[R] = g[R]
    <3>1. \A S \in SUBSET R : Chain(f, runs, S)
      BY <1>1, <2>1
    <3> HIDE DEF R
    <3>2. QED
      BY <2>1, <2>2, <3>1, ChainUnique
  <2>4. QED
    BY <1>1, <1>3, <2>2, <2>3 DEF Chain
<1>4. QED
  BY <1>2, <1>3

LEMMA FoldRunsType ==
  ASSUME NEW D \in SUBSET Samples, IsFiniteSet(D), DistinctIds(D), NEW runs \in Seq(Run)
  PROVE  FoldRuns(D, runs) \in Seq(Run)
<1> DEFINE Bad == {A \in SUBSET D : FoldRuns(A, runs) \notin Seq(Run)}
<1>1. ASSUME NEW A \in Bad, \A B \in SUBSET A : B # A => B \notin Bad
      PROVE  FALSE
  <2>1. A \in SUBSET Samples /\ IsFiniteSet(A) /\ DistinctIds(A)
    BY FS_Subset, SubsetDistinct
  <2>2. A # {} /\ FoldRuns(A, runs) = WithSample(FoldRuns(A \ {Newest(A)}, runs), Newest(A))
    BY <2>1, FoldRunsStep
  <2>3. Newest(A) \in A
    BY <2>1, <2>2, NewestIs
  <2>4. FoldRuns(A \ {Newest(A)}, runs) \in Seq(Run)
    BY <1>1, <2>3
  <2>5. WithSample(FoldRuns(A \ {Newest(A)}, runs), Newest(A)) \in Seq(Run)
    <3> HIDE DEF Bad
    <3> QED BY <2>1, <2>3, <2>4, WithSampleType
  <2>6. QED
    BY <2>2, <2>5
<1>2. Bad = {}
  <2>1. Bad \in SUBSET SUBSET D
    OBVIOUS
  <2> HIDE DEF Bad
  <2>2. QED
    BY <1>1, <2>1, SmallestSet
<1>3. QED
  BY <1>2

LEMMA AllRunsType ==
  ASSUME NEW S \in SUBSET Samples, IsFiniteSet(S), DistinctIds(S), NEW runs \in Seq(Run),
         NEW after
  PROVE  ResetTier(S, runs, after) \in Seq(Run)
<1>1. Due(S, after) \in SUBSET Samples /\ IsFiniteSet(Due(S, after)) /\ DistinctIds(Due(S, after))
  BY FS_Subset, SubsetDistinct DEF Due
<1>2. QED
  BY <1>1, FoldRunsType DEF ResetTier

(* Folding the samples after t into the runs of those up to t gives the    *)
(* runs of all of them.                                                    *)
LEMMA Extension ==
  ASSUME NEW D \in SUBSET Samples, IsFiniteSet(D), DistinctIds(D), NEW t \in Stamps
  PROVE  ResetTier(D, AllRuns(UpTo(D, t)), t) = AllRuns(D)
<1> DEFINE Bad == {A \in SUBSET D : ResetTier(A, AllRuns(UpTo(A, t)), t) # AllRuns(A)}
<1>1. ASSUME NEW S \in Bad, \A B \in SUBSET S : B # S => B \notin Bad
      PROVE  FALSE
  <2> DEFINE tail == Due(S, t)
             all  == Due(S, NoSample)
             runs == AllRuns(UpTo(S, t))
  <2>1. S \in SUBSET Samples /\ IsFiniteSet(S) /\ DistinctIds(S)
    BY FS_Subset, SubsetDistinct
  <2>2. tail \subseteq all /\ all \subseteq S
    BY <2>1, NoSampleFirst DEF Due
  <2>3. /\ all \in SUBSET Samples /\ IsFiniteSet(all) /\ DistinctIds(all)
        /\ tail \in SUBSET Samples /\ IsFiniteSet(tail) /\ DistinctIds(tail)
    <3> HIDE DEF tail, all
    <3> QED BY <2>1, <2>2, FS_Subset, SubsetDistinct
  <2>4. runs \in Seq(Run) /\ <<>> \in Seq(Run)
    <3>1. UpTo(S, t) \in SUBSET Samples /\ IsFiniteSet(UpTo(S, t)) /\ DistinctIds(UpTo(S, t))
      BY <2>1, FS_Subset, SubsetDistinct DEF UpTo
    <3>2. <<>> \in Seq(Run)
      OBVIOUS
    <3>3. QED
      BY <3>1, <3>2, AllRunsType DEF AllRuns
  <2>5. ResetTier(S, runs, t) = FoldRuns(tail, runs) /\ AllRuns(S) = FoldRuns(all, <<>>)
    BY DEF ResetTier, AllRuns
  <2>6. FoldRuns(tail, runs) # FoldRuns(all, <<>>)
    BY <2>5
  <2>7. CASE tail = {}
    <3>1. all = Due(UpTo(S, t), NoSample)
      BY <2>7 DEF Due, UpTo
    <3>2. runs = FoldRuns(all, <<>>)
      BY <3>1 DEF AllRuns, ResetTier
    <3>3. FoldRuns(tail, runs) = runs
      <4> HIDE DEF tail, runs
      <4> QED BY <2>4, <2>3, <2>7, FoldRunsStep
    <3>4. QED
      BY <2>6, <3>2, <3>3
  <2>8. CASE tail # {}
    <3> DEFINE n == Newest(tail)
               R == S \ {n}
    <3>1. n \in tail /\ \A s \in tail : ~Before(n, s)
      <4> HIDE DEF tail
      <4> QED BY <2>3, <2>8, NewestIs
    <3>2. Before(t, n) /\ n \in S /\ n \in all /\ n \in Samples
      BY <2>1, <2>2, <3>1 DEF Due
    <3>3. \A s \in all : ~Before(n, s)
      <4>1. SUFFICES ASSUME NEW s \in all, Before(n, s) PROVE FALSE
        OBVIOUS
      <4>2. s \in Samples
        BY <2>1 DEF Due
      <4>3. Before(t, s)
        <5> HIDE DEF n
        <5> QED BY <3>2, <4>1, <4>2, BeforeOrder DEF Stamps
      <4>4. s \in tail
        BY <4>3 DEF Due
      <4>5. QED
        BY <3>1, <4>1, <4>4
    <3>4. Newest(all) = n
      <4> HIDE DEF n, all
      <4> QED BY <2>3, <3>2, <3>3, NewestUnique
    <3>5. Due(R, t) = tail \ {n} /\ Due(R, NoSample) = all \ {n}
      BY DEF Due
    <3>6. UpTo(R, t) = UpTo(S, t)
      BY <3>2 DEF UpTo
    <3>7. ResetTier(R, runs, t) = AllRuns(R)
      <4>1. R \in SUBSET S /\ R # S /\ R \notin Bad
        BY <1>1, <3>2
      <4>2. R \in SUBSET D
        BY <4>1
      <4>3. QED
        BY <3>6, <4>1, <4>2
    <3>8. FoldRuns(tail \ {n}, runs) = FoldRuns(all \ {n}, <<>>)
      BY <3>5, <3>7 DEF ResetTier, AllRuns
    <3>9. FoldRuns(tail, runs) = WithSample(FoldRuns(tail \ {n}, runs), n)
      <4> HIDE DEF tail, runs
      <4> QED BY <2>4, <2>3, <2>8, FoldRunsStep
    <3>10. FoldRuns(all, <<>>) = WithSample(FoldRuns(all \ {n}, <<>>), n)
      <4> HIDE DEF all, n
      <4> QED BY <2>4, <2>3, <3>2, <3>4, FoldRunsStep
    <3>11. QED
      BY <2>6, <3>8, <3>9, <3>10
  <2>9. QED
    BY <2>7, <2>8
<1>2. Bad = {}
  <2>1. Bad \in SUBSET SUBSET D
    OBVIOUS
  <2> HIDE DEF Bad
  <2>2. QED
    BY <1>1, <2>1, SmallestSet
<1>3. QED
  BY <1>2

-----------------------------------------------------------------------------
(* The folds of a batch: one element after another, in any order.          *)

Picked(S) == CHOOSE x \in S : TRUE

PickedOf(D) == [S \in SUBSET D |-> Picked(S)]

LEMMA PickedIn ==
  ASSUME NEW D
  PROVE  /\ Picks(PickedOf(D), D)
         /\ \A S \in SUBSET D : S # {} => PickedOf(D)[S] = Picked(S) /\ Picked(S) \in S
<1>1. \A S \in SUBSET D : S # {} => Picked(S) \in S
  BY DEF Picked
<1>2. QED
  BY <1>1 DEF PickedOf, Picks

(* The latest of the current sample and a batch.                           *)
LEMMA LatestOfBatch ==
  ASSUME NEW new \in SUBSET Samples, IsFiniteSet(new), NEW cur \in Stamps
  PROVE  /\ FoldSet(Later, cur, new) \in new \cup {cur}
         /\ \A s \in new \cup {cur} : ~Before(FoldSet(Later, cur, new), s)
<1> DEFINE Equation(f) ==
             f = [S \in SUBSET new |->
                    IF S = {} THEN cur
                    ELSE Later(CHOOSE x \in S : TRUE, f[S \ {CHOOSE x \in S : TRUE}])]
           fold == CHOOSE f : Equation(f)
           op == [p \in new \X Stamps |-> Later(p[1], p[2])]
<1>1. FoldSet(Later, cur, new) = fold[new]
  BY DEF FoldSet, MapThenFoldSet
<1>2. op \in [new \X Stamps -> Stamps]
  BY DEF Later, Stamps
<1>3. PICK f \in [SUBSET new -> Stamps] : \A S \in SUBSET new : Folded(f, op, cur, PickedOf(new), S)
  <2> HIDE DEF op
  <2>1. FoldedBy(new, Stamps, cur, op, PickedOf(new))
    BY <1>2, PickedIn, FoldedExists
  <2>2. QED
    BY <2>1 DEF FoldedBy
<1>4. \A S \in SUBSET new :
        f[S] = IF S = {} THEN cur ELSE Later(Picked(S), f[S \ {Picked(S)}])
  <2>1. SUFFICES ASSUME NEW S \in SUBSET new
                 PROVE  f[S] = IF S = {} THEN cur ELSE Later(Picked(S), f[S \ {Picked(S)}])
    OBVIOUS
  <2>2. CASE S = {}
    BY <1>3, <2>2 DEF Folded
  <2>3. CASE S # {}
    <3>1. Picked(S) \in new /\ f[S \ {Picked(S)}] \in Stamps
      <4>1. Picked(S) \in new /\ S \ {Picked(S)} \in SUBSET new
        BY <2>3, PickedIn
      <4>2. QED
        BY <1>3, <4>1
    <3>2. f[S] = op[<<Picked(S), f[S \ {Picked(S)}]>>]
      <4>1. PickedOf(new)[S] = Picked(S)
        BY <2>3, PickedIn
      <4>2. QED
        BY <1>3, <2>3, <4>1 DEF Folded
    <3>3. QED
      BY <2>3, <3>1, <3>2
  <2>4. QED
    BY <2>2, <2>3
<1>5. Equation(f)
  <2> DEFINE h == [S \in SUBSET new |->
                     IF S = {} THEN cur ELSE Later(Picked(S), f[S \ {Picked(S)}])]
  <2>1. f = [S \in SUBSET new |-> f[S]] /\ h = [S \in SUBSET new |-> h[S]]
    BY <1>3
  <2>2. \A S \in SUBSET new : f[S] = h[S]
    BY <1>4
  <2>3. f = h
    <3> HIDE DEF h
    <3> QED BY <2>1, <2>2
  <2>4. QED
    BY <2>3 DEF Picked
<1>6. Equation(fold)
  <2> QED BY <1>5
<1>7. \A S \in SUBSET new :
        fold[S] = IF S = {} THEN cur ELSE Later(Picked(S), fold[S \ {Picked(S)}])
  <2> HIDE DEF fold
  <2> QED BY <1>6 DEF Picked
<1> HIDE DEF fold
<1> DEFINE Right(S) == fold[S] \in S \cup {cur} /\ \A s \in S \cup {cur} : ~Before(fold[S], s)
           Bad == {S \in SUBSET new : ~Right(S)}
<1>8. ASSUME NEW S \in Bad, \A R \in SUBSET S : R # S => R \notin Bad
      PROVE  FALSE
  <2>1. CASE S = {}
    <3>1. fold[S] = cur
      BY <1>7, <2>1
    <3>2. Right(S)
      BY <2>1, <3>1, BeforeOrder
    <3>3. QED
      BY <3>2
  <2>2. CASE S # {}
    <3> DEFINE x == Picked(S)
               R == S \ {x}
               r == fold[R]
    <3>1. x \in S
      BY <2>2 DEF Picked
    <3>2. Right(R)
      BY <1>8, <3>1
    <3>3. fold[S] = Later(x, r)
      BY <1>7, <2>2
    <3>4. x \in Stamps /\ r \in Stamps /\ \A s \in S \cup {cur} : s \in Stamps
      BY <3>1, <3>2 DEF Stamps
    <3>5. Later(x, r) \in S \cup {cur}
      BY <3>1, <3>2 DEF Later
    <3>6. ~Before(Later(x, r), x) /\ ~Before(Later(x, r), r)
      <4> HIDE DEF x, r
      <4> QED BY <3>4, BeforeOrder DEF Later
    <3>7. Later(x, r) \in Stamps
      BY <3>4, <3>5
    <3>8. ASSUME NEW s \in S \cup {cur}
          PROVE  ~Before(Later(x, r), s)
      <4>1. CASE s = x
        BY <3>6, <4>1
      <4>2. CASE s # x
        <5>1. ~Before(r, s)
          BY <3>2, <4>2
        <5> HIDE DEF x, r
        <5>2. QED
          BY <3>4, <3>6, <3>7, <5>1, BeforeOrder
      <4>3. QED
        BY <4>1, <4>2
    <3>9. Right(S)
      <4> HIDE DEF x, r
      <4> QED BY <3>3, <3>5, <3>8
    <3>10. QED
      BY <3>9
  <2>3. QED
    BY <2>1, <2>2
<1>9. Bad = {}
  <2>1. Bad \in SUBSET SUBSET new
    OBVIOUS
  <2> HIDE DEF Bad
  <2>2. QED
    BY <1>8, <2>1, SmallestSet
<1>10. QED
  BY <1>1, <1>9

(* The cache row once the samples of A were inserted after old.            *)
Waiting(row, old, A) ==
  /\ row \in Rows /\ row.dirty \in Nat
  /\ \A s \in A : row.dirty <= s.at
  /\ old = None => row.cached = -1 /\ row.through = NoSample /\ row.runs = <<>>
  /\ old # None =>
       /\ row.cached = old.cached /\ row.through = old.through /\ row.runs = old.runs
       /\ row.revision > old.revision
       /\ old.dirty = None \/ row.dirty <= old.dirty

LEMMA RowNotNone ==
  ASSUME NEW row \in Rows
  PROVE  /\ row # None /\ None \notin Nat
         /\ row.revision \in Nat /\ row.cached \in Nat \cup {-1} /\ row.dirty \in Nat \cup {None}
         /\ row.through \in Stamps /\ row.runs \in Seq(Run)
BY NoneAssumption DEF Rows, Stamps

LEMMA InsertedFirst ==
  ASSUME NEW old \in Rows \cup {None}, NEW s \in Samples
  PROVE  Waiting(SampleInserted(s, old), old, {s})
<1>1. s.at \in Nat /\ None \notin Nat
  BY SampleType, NoneAssumption
<1>2. CASE old = None
  <2>1. /\ NewRow(s) \in Rows /\ NewRow(s).dirty = s.at /\ NewRow(s).cached = -1
        /\ NewRow(s).through = NoSample /\ NewRow(s).runs = <<>>
    BY <1>1 DEF NewRow, Rows
  <2>2. QED
    BY <1>1, <1>2, <2>1 DEF Waiting, SampleInserted
<1>3. CASE old # None
  <2> DEFINE d == IF old.dirty = None \/ s.at < old.dirty THEN s.at ELSE old.dirty
  <2>1. old \in Rows /\ old.revision \in Nat /\ old.dirty \in Nat \cup {None}
    BY <1>3, RowNotNone
  <2>2. d \in Nat /\ d <= s.at /\ (old.dirty = None \/ d <= old.dirty)
    BY <1>1, <2>1
  <2>3. SampleInserted(s, old) = [old EXCEPT !.revision = old.revision + 1, !.dirty = d]
    BY <1>3, <2>1 DEF SampleInserted, Rows
  <2> HIDE DEF d
  <2>4. /\ SampleInserted(s, old).dirty = d
        /\ SampleInserted(s, old).revision = old.revision + 1
        /\ SampleInserted(s, old).cached = old.cached
        /\ SampleInserted(s, old).through = old.through
        /\ SampleInserted(s, old).runs = old.runs
    BY <2>1, <2>3 DEF Rows
  <2>5. SampleInserted(s, old) \in Rows
    <3>1. old.cached \in Nat \cup {-1} /\ old.through \in Samples \cup {NoSample}
          /\ old.runs \in Seq(Run)
      BY <2>1 DEF Rows
    <3>2. SampleInserted(s, old) =
            [revision |-> old.revision + 1, cached |-> old.cached, dirty |-> d,
             through |-> old.through, runs |-> old.runs]
      BY <2>1, <2>3 DEF Rows
    <3>3. QED
      BY <2>1, <2>2, <3>1, <3>2 DEF Rows
  <2>6. QED
    BY <1>3, <2>1, <2>2, <2>4, <2>5 DEF Waiting
<1>4. QED
  BY <1>2, <1>3

LEMMA InsertedNext ==
  ASSUME NEW old \in Rows \cup {None}, NEW A \in SUBSET Samples, NEW row, Waiting(row, old, A),
         NEW s \in Samples
  PROVE  Waiting(SampleInserted(s, row), old, A \cup {s})
<1> DEFINE next == SampleInserted(s, row)
<1>1. row \in Rows /\ row # None /\ None \notin Nat /\ row.dirty \in Nat /\ row.revision \in Nat
  BY RowNotNone DEF Waiting
<1>2. Waiting(next, row, {s})
  BY <1>1, InsertedFirst
<1>3. next \in Rows /\ next.dirty \in Nat /\ next.revision \in Nat /\ next.dirty <= s.at
      /\ next.dirty <= row.dirty /\ next.revision > row.revision
      /\ next.cached = row.cached /\ next.through = row.through /\ next.runs = row.runs
  BY <1>1, <1>2, RowNotNone DEF Waiting
<1> HIDE DEF next
<1>4. \A t \in A \cup {s} : next.dirty <= t.at
  <2>1. \A t \in A : row.dirty <= t.at /\ t.at \in Nat
    BY SampleType DEF Waiting
  <2>2. QED
    BY <1>1, <1>3, <2>1
<1>5. old # None => old \in Rows /\ old.revision \in Nat /\ old.dirty \in Nat \cup {None}
  BY RowNotNone
<1>6. QED
  BY <1>1, <1>3, <1>4, <1>5 DEF Waiting, next

(* The triggers of a whole batch.                                          *)
LEMMA InsertedBatch ==
  ASSUME NEW new \in SUBSET Samples, IsFiniteSet(new), new # {}, NEW old \in Rows \cup {None}
  PROVE  Waiting(FoldSet(SampleInserted, old, new), old, new)
<1> DEFINE B == Rows \cup {None}
           Equation(f) ==
             f = [S \in SUBSET new |->
                    IF S = {} THEN old
                    ELSE SampleInserted(CHOOSE x \in S : TRUE, f[S \ {CHOOSE x \in S : TRUE}])]
           fold == CHOOSE f : Equation(f)
           op == [p \in new \X B |-> SampleInserted(p[1], p[2])]
<1>1. FoldSet(SampleInserted, old, new) = fold[new]
  BY DEF FoldSet, MapThenFoldSet
<1>2. op \in [new \X B -> B]
  <2>1. ASSUME NEW s \in new, NEW row \in B
        PROVE  SampleInserted(s, row) \in B
    BY InsertedFirst DEF Waiting
  <2>2. QED
    BY <2>1
<1>3. PICK f \in [SUBSET new -> B] : \A S \in SUBSET new : Folded(f, op, old, PickedOf(new), S)
  <2>1. old \in B
    OBVIOUS
  <2> HIDE DEF op, B
  <2>2. FoldedBy(new, B, old, op, PickedOf(new))
    BY <1>2, <2>1, PickedIn, FoldedExists
  <2>3. QED
    BY <2>2 DEF FoldedBy
<1>4. \A S \in SUBSET new :
        f[S] = IF S = {} THEN old ELSE SampleInserted(Picked(S), f[S \ {Picked(S)}])
  <2>1. SUFFICES ASSUME NEW S \in SUBSET new
                 PROVE  f[S] = IF S = {} THEN old
                               ELSE SampleInserted(Picked(S), f[S \ {Picked(S)}])
    OBVIOUS
  <2>2. CASE S = {}
    BY <1>3, <2>2 DEF Folded
  <2>3. CASE S # {}
    <3>1. Picked(S) \in new /\ f[S \ {Picked(S)}] \in B
      <4>1. Picked(S) \in new /\ S \ {Picked(S)} \in SUBSET new
        BY <2>3, PickedIn
      <4>2. QED
        BY <1>3, <4>1
    <3>2. f[S] = op[<<Picked(S), f[S \ {Picked(S)}]>>]
      <4>1. PickedOf(new)[S] = Picked(S)
        BY <2>3, PickedIn
      <4>2. QED
        BY <1>3, <2>3, <4>1 DEF Folded
    <3> HIDE DEF B
    <3>3. QED
      BY <2>3, <3>1, <3>2
  <2>4. QED
    BY <2>2, <2>3
<1>5. Equation(f)
  <2> DEFINE h == [S \in SUBSET new |->
                     IF S = {} THEN old ELSE SampleInserted(Picked(S), f[S \ {Picked(S)}])]
  <2>1. f = [S \in SUBSET new |-> f[S]] /\ h = [S \in SUBSET new |-> h[S]]
    BY <1>3
  <2>2. \A S \in SUBSET new : f[S] = h[S]
    BY <1>4
  <2>3. f = h
    <3> HIDE DEF h
    <3> QED BY <2>1, <2>2
  <2>4. QED
    BY <2>3 DEF Picked
<1>6. Equation(fold)
  BY <1>5
<1>7. \A S \in SUBSET new :
        fold[S] = IF S = {} THEN old ELSE SampleInserted(Picked(S), fold[S \ {Picked(S)}])
  <2> HIDE DEF fold
  <2> QED BY <1>6 DEF Picked
<1> HIDE DEF fold
<1> DEFINE Bad == {S \in SUBSET new : S # {} /\ ~Waiting(fold[S], old, S)}
<1>8. ASSUME NEW S \in Bad, \A R \in SUBSET S : R # S => R \notin Bad
      PROVE  FALSE
  <2> DEFINE x == Picked(S)
             R == S \ {x}
  <2>1. S # {} /\ x \in S /\ x \in Samples /\ R \in SUBSET new
    BY DEF Picked
  <2>2. fold[S] = SampleInserted(x, fold[R])
    BY <1>7, <2>1
  <2>3. CASE R = {}
    <3>1. fold[R] = old /\ S = {x}
      BY <1>7, <2>1, <2>3
    <3>2. Waiting(fold[S], old, S)
      BY <2>1, <2>2, <3>1, InsertedFirst
    <3>3. QED
      BY <3>2
  <2>4. CASE R # {}
    <3>1. Waiting(fold[R], old, R)
      BY <1>8, <2>1, <2>4
    <3>2. Waiting(SampleInserted(x, fold[R]), old, R \cup {x})
      <4> HIDE DEF x, R
      <4>1. R \in SUBSET Samples
        BY <2>1
      <4>2. QED
        BY <2>1, <3>1, <4>1, InsertedNext
    <3>3. R \cup {x} = S
      BY <2>1
    <3>4. QED
      BY <2>2, <3>2, <3>3
  <2>5. QED
    BY <2>3, <2>4
<1>9. Bad = {}
  <2>1. Bad \in SUBSET SUBSET new
    OBVIOUS
  <2> HIDE DEF Bad
  <2>2. QED
    BY <1>8, <2>1, SmallestSet
<1>10. QED
  BY <1>1, <1>9

-----------------------------------------------------------------------------
(* The steps.                                                              *)

LEMMA NothingFolded == AllRuns({}) = <<>>
<1>1. Due({}, NoSample) = {} /\ {} \in SUBSET Samples /\ IsFiniteSet({}) /\ DistinctIds({})
  BY FS_EmptySet DEF Due, DistinctIds
<1>2. FoldRuns({}, <<>>) = <<>>
  <2>1. <<>> \in Seq(Run)
    OBVIOUS
  <2>2. QED
    BY <1>1, <2>1, FoldRunsStep
<1>3. QED
  BY <1>1, <1>2 DEF AllRuns, ResetTier

LEMMA ResetsInitInv == Init => ResetsInv
<1> SUFFICES ASSUME Init PROVE ResetsInv
  OBVIOUS
<1>1. IsFiniteSet(stored) /\ DistinctIds(stored)
  BY FS_EmptySet DEF Init, DistinctIds
<1>2. TypeOK /\ CurrentIsLatest
  BY DEF Init, TypeOK, CurrentIsLatest
<1>3. QED
  BY <1>1, <1>2 DEF Init, ResetsInv

(* A batch adds samples of other observations than those stored.           *)
LEMMA BatchIsNew ==
  ASSUME stored \subseteq Samples, IsFiniteSet(stored), DistinctIds(stored),
         NEW ids \in (SUBSET NewIds) \ {{}}, IsFiniteSet(ids), NEW c \in [ids -> Contents]
  PROVE  LET new == {Sample(id, c[id]) : id \in ids}
         IN /\ new \in SUBSET Samples /\ new # {} /\ IsFiniteSet(new)
            /\ IsFiniteSet(stored \cup new) /\ DistinctIds(stored \cup new)
<1> DEFINE new == {Sample(id, c[id]) : id \in ids}
           f == [id \in ids |-> Sample(id, c[id])]
<1>1. \A id \in ids : id \in Ids /\ c[id] \in Contents /\ \A s \in stored : s.id # id
  BY DEF NewIds
<1>2. new \in SUBSET Samples /\ new # {}
  BY <1>1 DEF Samples
<1>3. IsFiniteSet(new)
  <2>1. f \in Surjection(ids, new)
    <3>1. f \in [ids -> new] /\ \A s \in new : \E id \in ids : f[id] = s
      OBVIOUS
    <3> HIDE DEF f, new
    <3>2. QED
      BY <3>1 DEF Surjection
  <2> HIDE DEF f, new
  <2>2. QED
    BY <2>1, FS_Surjection
<1>4. IsFiniteSet(stored \cup new)
  <2> HIDE DEF new
  <2> QED BY <1>3, FS_Union
<1>5. DistinctIds(stored \cup new)
  <2>1. SUFFICES ASSUME NEW s \in stored \cup new, NEW t \in stored \cup new, s.id = t.id
                 PROVE  s = t
    BY DEF DistinctIds
  <2>2. \A u \in new : u.id \in ids /\ u = Sample(u.id, c[u.id])
    BY DEF Sample
  <2>3. \A u \in new, v \in stored : v.id # u.id
    BY <1>1, <2>2
  <2>4. CASE s \in stored /\ t \in stored
    BY <2>1, <2>4 DEF DistinctIds
  <2>5. CASE s \in new /\ t \in new
    BY <2>1, <2>2, <2>5
  <2>6. CASE s \in new /\ t \in stored
    BY <2>1, <2>3, <2>6
  <2>7. CASE s \in stored /\ t \in new
    BY <2>1, <2>3, <2>7
  <2>8. QED
    BY <2>4, <2>5, <2>6, <2>7
<1>6. QED
  BY <1>2, <1>3, <1>4, <1>5

(* After an arrival the row waits for a rebuild, and whether it says that  *)
(* the cached runs may be extended is still right.                         *)
LEMMA ArriveNext ==
  ASSUME ResetsInv, NEW new \in SUBSET Samples, new # {}, IsFiniteSet(new),
         IsFiniteSet(stored \cup new), DistinctIds(stored \cup new), Arrive(new)
  PROVE  ResetsInv'
<1>1. /\ TypeOK /\ CurrentIsLatest /\ stored \subseteq Samples /\ current \in stored \cup {NoSample}
      /\ reset \in Rows \cup {None} /\ None \notin Nat
  BY NoneAssumption DEF ResetsInv, TypeOK
<1>2. stored' = stored \cup new /\ stored' \subseteq Samples
  BY <1>1 DEF Arrive
<1>3. /\ current' \in new \cup {current}
      /\ \A s \in new \cup {current} : ~Before(current', s)
  BY <1>1, LatestOfBatch DEF Arrive, Stamps
<1>4. current' \in stored' \cup {NoSample} /\ current' \in Stamps /\ current \in Stamps
  BY <1>1, <1>2, <1>3 DEF Stamps
<1>5. CurrentIsLatest'
  <2>1. \A s \in stored' : ~Before(current', s)
    <3>1. SUFFICES ASSUME NEW s \in stored PROVE ~Before(current', s)
      BY <1>2, <1>3
    <3>2. ~Before(current, s) /\ ~Before(current', current) /\ s \in Stamps
      BY <1>1, <1>3 DEF CurrentIsLatest, Stamps
    <3>3. QED
      BY <1>4, <3>2, BeforeOrder
  <2>2. stored' # {} /\ current' # NoSample
    <3>1. PICK s \in new : TRUE
      OBVIOUS
    <3>2. ~Before(current', s) /\ Before(NoSample, s)
      BY <1>3, <3>1, NoSampleFirst
    <3>3. QED
      BY <1>2, <3>1, <3>2
  <2>3. QED
    BY <2>1, <2>2 DEF CurrentIsLatest
<1>6. Waiting(reset', reset, new)
  BY <1>1, InsertedBatch DEF Arrive
<1>7. reset' \in Rows /\ reset' # None /\ reset'.dirty \in Nat /\ reset'.dirty # None
      /\ reset'.revision \in Nat /\ \A s \in new : reset'.dirty <= s.at
  BY <1>1, <1>6, RowNotNone DEF Waiting
<1>8. reset'.cached < reset'.revision /\ reset'.cached \in Int
  <2>1. CASE reset = None
    BY <1>6, <1>7, <2>1 DEF Waiting
  <2>2. CASE reset # None
    <3>1. reset.cached <= reset.revision /\ reset \in Rows
      BY <1>1, <2>2 DEF TypeOK
    <3>2. reset.cached \in Int /\ reset.revision \in Nat
      BY <3>1, RowNotNone
    <3>3. reset'.cached = reset.cached /\ reset'.revision > reset.revision
      BY <1>6, <2>2 DEF Waiting
    <3>4. QED
      BY <1>7, <3>1, <3>2, <3>3
  <2>3. QED
    BY <2>1, <2>2
<1>9. reset'.through \in stored' \cup {NoSample} /\ reset'.through \in Stamps
  <2>1. CASE reset = None
    BY <1>6, <2>1 DEF Waiting, Stamps
  <2>2. CASE reset # None
    BY <1>1, <1>2, <1>6, <2>2 DEF Waiting, TypeOK, Stamps
  <2>3. QED
    BY <2>1, <2>2
<1>10. TypeOK'
  BY <1>2, <1>4, <1>7, <1>8, <1>9 DEF TypeOK
<1>11. ASSUME Extends(reset')
       PROVE  reset'.runs = AllRuns(UpTo(stored', reset'.through))
  <2> DEFINE t == reset'.through
  <2>1. reset'.dirty > t.at /\ t.at \in Int /\ t \in Stamps
    BY <1>7, <1>9, <1>11, StampType DEF Extends
  <2>2. \A s \in new : Before(t, s)
    <3>1. SUFFICES ASSUME NEW s \in new PROVE Before(t, s)
      OBVIOUS
    <3>2. s.at \in Nat /\ reset'.dirty <= s.at
      BY <1>7, SampleType
    <3> HIDE DEF t
    <3>3. QED
      BY <1>7, <2>1, <3>2 DEF Before
  <2>3. UpTo(stored', t) = UpTo(stored, t)
    <3> HIDE DEF t
    <3> QED BY <1>2, <2>2 DEF UpTo
  <2>4. CASE reset = None
    <3>1. t = NoSample /\ reset'.runs = <<>> /\ stored = {}
      BY <1>6, <2>4 DEF Waiting, ResetsInv
    <3>2. UpTo(stored, t) = {}
      BY <3>1 DEF UpTo
    <3>3. QED
      BY <2>3, <3>1, <3>2, NothingFolded
  <2>5. CASE reset # None
    <3>1. /\ t = reset.through /\ reset'.runs = reset.runs
          /\ reset.dirty = None \/ reset'.dirty <= reset.dirty
      BY <1>6, <2>5 DEF Waiting
    <3>2. reset \in Rows /\ reset.dirty \in Nat \cup {None}
      BY <1>1, <2>5, RowNotNone
    <3>3. Extends(reset)
      <4> HIDE DEF t
      <4> QED BY <1>7, <2>1, <3>1, <3>2 DEF Extends
    <3>4. reset.runs = AllRuns(UpTo(stored, reset.through))
      BY <2>5, <3>3 DEF ResetsInv, RowInv
    <3>5. QED
      BY <2>3, <3>1, <3>4
  <2>6. QED
    BY <2>4, <2>5
<1>12. RowInv'
  <2>1. reset'.dirty # None /\ reset'.cached # reset'.revision
    BY <1>7, <1>8
  <2>2. QED
    BY <1>11, <2>1 DEF RowInv, Extends
<1>13. stored' # {}
  BY <1>2
<1>14. IsFiniteSet(stored)' /\ DistinctIds(stored)'
  BY <1>2 DEF DistinctIds
<1>15. QED
  BY <1>5, <1>7, <1>10, <1>12, <1>13, <1>14 DEF ResetsInv

(* A rebuild extends or refolds, and has all runs either way.              *)
LEMMA RebuildNext ==
  ASSUME ResetsInv, Rebuild
  PROVE  ResetsInv'
<1>1. /\ TypeOK /\ CurrentIsLatest /\ stored \subseteq Samples /\ current \in stored \cup {NoSample}
      /\ IsFiniteSet(stored) /\ DistinctIds(stored) /\ reset # None /\ reset \in Rows
      /\ RowInv /\ reset.through \in stored \cup {NoSample}
  BY DEF ResetsInv, TypeOK, Rebuild, Outdated
<1>2. stored' = stored /\ current' = current /\ reset' = Rebuilt(reset, stored, current)
  BY DEF Rebuild
<1>3. current \in Stamps /\ reset.through \in Stamps
  BY <1>1 DEF Stamps
<1> DEFINE runs == IF Extends(reset) THEN ResetTier(stored, reset.runs, reset.through)
                   ELSE AllRuns(stored)
<1>4. runs = AllRuns(stored)
  <2>1. CASE Extends(reset)
    <3>1. reset.runs = AllRuns(UpTo(stored, reset.through))
      BY <1>1, <2>1 DEF RowInv
    <3>2. QED
      BY <1>1, <1>3, <2>1, <3>1, Extension
  <2>2. CASE ~Extends(reset)
    BY <2>2
  <2>3. QED
    BY <2>1, <2>2
<1>5. runs \in Seq(Run)
  <2>1. <<>> \in Seq(Run)
    OBVIOUS
  <2>2. QED
    BY <1>1, <1>4, <2>1, AllRunsType DEF AllRuns
<1>6. reset' = [reset EXCEPT !.cached = reset.revision, !.dirty = None, !.through = current,
                             !.runs = runs]
  BY <1>2 DEF Rebuilt
<1> HIDE DEF runs
<1>7. /\ reset.revision \in Nat /\ reset'.revision = reset.revision /\ reset'.cached = reset.revision
      /\ reset'.dirty = None /\ reset'.through = current /\ reset'.runs = runs
      /\ reset' = [revision |-> reset.revision, cached |-> reset.revision, dirty |-> None,
                   through |-> current, runs |-> runs]
  BY <1>1, <1>6 DEF Rows
<1>8. reset' \in Rows /\ reset' # None
  <2>1. reset' \in Rows
    BY <1>1, <1>5, <1>7 DEF Rows
  <2>2. QED
    BY <2>1, RowNotNone
<1>9. TypeOK'
  BY <1>1, <1>2, <1>7, <1>8 DEF TypeOK
<1>10. CurrentIsLatest'
  BY <1>1, <1>2 DEF CurrentIsLatest
<1>11. UpTo(stored, current) = stored
  BY <1>1 DEF UpTo, CurrentIsLatest
<1>12. RowInv'
  BY <1>2, <1>4, <1>7, <1>11 DEF RowInv, Extends
<1>13. stored' # {} /\ IsFiniteSet(stored)' /\ DistinctIds(stored)'
  BY <1>1, <1>2 DEF ResetsInv, DistinctIds
<1>14. QED
  BY <1>8, <1>9, <1>10, <1>12, <1>13 DEF ResetsInv

LEMMA ResetsStep == ResetsInv /\ [Next]_vars => ResetsInv'
<1> SUFFICES ASSUME ResetsInv, [Next]_vars PROVE ResetsInv'
  OBVIOUS
<1>1. ASSUME NEW ids \in (SUBSET NewIds) \ {{}}, NEW c \in [ids -> Contents], IsFiniteSet(ids),
             Arrive({Sample(id, c[id]) : id \in ids})
      PROVE  ResetsInv'
  <2> DEFINE new == {Sample(id, c[id]) : id \in ids}
  <2>1. stored \subseteq Samples /\ IsFiniteSet(stored) /\ DistinctIds(stored)
    BY DEF ResetsInv, TypeOK
  <2>2. /\ new \in SUBSET Samples /\ new # {} /\ IsFiniteSet(new)
        /\ IsFiniteSet(stored \cup new) /\ DistinctIds(stored \cup new)
    BY <1>1, <2>1, BatchIsNew
  <2>3. Arrive(new)
    BY <1>1
  <2> HIDE DEF new
  <2>4. QED
    BY <2>2, <2>3, ArriveNext
<1>2. CASE Purge
  <2>1. stored' = {} /\ current' = NoSample /\ reset' = None
    BY <1>2 DEF Purge
  <2>2. IsFiniteSet(stored)' /\ DistinctIds(stored)'
    BY <2>1, FS_EmptySet DEF DistinctIds
  <2>3. TypeOK' /\ CurrentIsLatest'
    BY <2>1 DEF TypeOK, CurrentIsLatest
  <2>4. QED
    BY <2>1, <2>2, <2>3 DEF ResetsInv
<1>3. CASE Rebuild
  BY <1>3, RebuildNext
<1>4. CASE UNCHANGED vars
  BY <1>4 DEF vars, ResetsInv, TypeOK, CurrentIsLatest, DistinctIds, RowInv, Extends
<1>5. QED
  BY <1>1, <1>2, <1>3, <1>4 DEF Next

LEMMA ResetsSpecInv == Spec => []ResetsInv
<1>1. QED
  BY ResetsInitInv, ResetsStep, PTL DEF Spec

-----------------------------------------------------------------------------
(* The cache row of a metric stays well formed, and its fold never claims  *)
(* a revision or a sample there is not.                                    *)
THEOREM ResetsTypeCorrect == Spec => []TypeOK
<1>1. ResetsInv => TypeOK
  BY DEF ResetsInv
<1>2. QED
  BY <1>1, ResetsSpecInv, PTL

(* Whatever batches the samples come in, the triggers leave the sample     *)
(* taken last as the current value.                                        *)
THEOREM CurrentStaysLatest == Spec => []CurrentIsLatest
<1>1. ResetsInv => CurrentIsLatest
  BY DEF ResetsInv
<1>2. QED
  BY <1>1, ResetsSpecInv, PTL

(* The reset history a query shows is that of all samples in the order     *)
(* they were taken, however the worker extended or refolded it.            *)
THEOREM ResetHistoryIsExact == Spec => []ResetsExact
<1>1. ResetsInv => ResetsExact
  <2> SUFFICES ASSUME ResetsInv PROVE ResetsExact
    OBVIOUS
  <2>1. CASE reset = None
    <3>1. stored = {}
      BY <2>1 DEF ResetsInv
    <3>2. QED
      BY <2>1, <3>1, NothingFolded DEF ResetsExact, ResetsShown
  <2>2. CASE reset # None /\ reset.cached = reset.revision
    <3>1. reset.dirty = None /\ reset.through = current
      BY <2>2 DEF ResetsInv, RowInv
    <3>2. reset.runs = AllRuns(UpTo(stored, current))
      BY <2>2, <3>1 DEF ResetsInv, RowInv, Extends
    <3>3. UpTo(stored, current) = stored
      BY DEF ResetsInv, CurrentIsLatest, UpTo
    <3>4. QED
      BY <2>2, <3>2, <3>3 DEF ResetsExact, ResetsShown
  <2>3. CASE reset # None /\ reset.cached # reset.revision
    BY <2>3 DEF ResetsExact, ResetsShown
  <2>4. QED
    BY <2>1, <2>2, <2>3
<1>2. QED
  BY <1>1, ResetsSpecInv, PTL

-----------------------------------------------------------------------------
(* The series of a range.                                                  *)

Histories == [shown : Seq(Points), pending : Pending \cup {None}]

(* What GapsShown says of two neighbouring points.                         *)
Smooth(S, p, q) ==
  \A s, t \in {u \in S : ~Before(u, p.sample) /\ ~Before(q.sample, u)} :
    Adjacent(S, s, t) => ~Splits(s, t)

Joined(S, p, q) ==
  /\ Before(p.sample, q.sample)
  /\ p.segment = q.segment <=> Smooth(S, p, q)

InOrder(S, shown) == \A i \in 1 .. Len(shown) - 1 : Joined(S, shown[i], shown[i + 1])

EndsBucket(S, s, from, width) ==
  \A t \in S : Before(s, t) => BucketOf(t, from, width) # BucketOf(s, from, width)

Shows(shown, s) == \E i \in 1 .. Len(shown) : shown[i].sample = s

(* The points shown once the samples S were read, the newest held back.    *)
ReadInv(S, h, from, width) ==
  /\ h \in Histories /\ h.pending \in Pending /\ h.shown # <<>>
  /\ h.pending.point.sample = Newest(S)
  /\ h.pending.bucket = BucketOf(Newest(S), from, width)
  /\ \A i \in 1 .. Len(h.shown) : h.shown[i].sample \in S
  /\ InOrder(S, h.shown)
  /\ Last(h.shown).segment = h.pending.point.segment
  /\ h.pending.head => Last(h.shown) = h.pending.point
  /\ ~h.pending.head => Joined(S, Last(h.shown), h.pending.point)
  /\ \A s \in S \ {Newest(S)} : EndsBucket(S, s, from, width) => Shows(h.shown, s)

LEMMA PointAppended ==
  ASSUME NEW S, NEW shown \in Seq(Points), shown # <<>>, NEW p \in Points
  PROVE  LET more == Append(shown, p)
         IN /\ more \in Seq(Points) /\ more # <<>> /\ Last(more) = p
            /\ InOrder(S, shown) /\ Joined(S, Last(shown), p) => InOrder(S, more)
            /\ \A s : Shows(shown, s) => Shows(more, s)
            /\ Shows(more, p.sample)
<1> DEFINE more == Append(shown, p)
<1>1. /\ more \in Seq(Points) /\ Len(more) = Len(shown) + 1 /\ Len(shown) \in Nat \ {0}
      /\ more[Len(more)] = p /\ \A i \in 1 .. Len(shown) : more[i] = shown[i]
  OBVIOUS
<1>2. more # <<>> /\ Last(more) = p /\ Last(shown) = shown[Len(shown)]
  BY <1>1 DEF Last
<1>3. ASSUME InOrder(S, shown), Joined(S, Last(shown), p)
      PROVE  InOrder(S, more)
  <2>1. SUFFICES ASSUME NEW i \in 1 .. Len(more) - 1 PROVE Joined(S, more[i], more[i + 1])
    BY DEF InOrder
  <2>2. CASE i = Len(shown)
    BY <1>1, <1>2, <1>3, <2>2
  <2>3. CASE i # Len(shown)
    <3>1. i \in 1 .. Len(shown) - 1 /\ i \in 1 .. Len(shown) /\ i + 1 \in 1 .. Len(shown)
      BY <1>1, <2>3
    <3>2. QED
      BY <1>1, <1>3, <3>1 DEF InOrder
  <2>4. QED
    BY <2>2, <2>3
<1>4. ASSUME NEW s, Shows(shown, s)
      PROVE  Shows(more, s)
  <2>1. PICK i \in 1 .. Len(shown) : shown[i].sample = s
    BY <1>4 DEF Shows
  <2>2. i \in 1 .. Len(more) /\ more[i] = shown[i]
    BY <1>1
  <2>3. QED
    BY <2>1, <2>2 DEF Shows
<1>5. Shows(more, p.sample)
  <2>1. Len(more) \in 1 .. Len(more)
    BY <1>1
  <2>2. QED
    BY <1>1, <2>1 DEF Shows
<1>6. QED
  BY <1>1, <1>2, <1>3, <1>4, <1>5

(* A newer sample changes nothing between older points.                    *)
LEMMA JoinedMore ==
  ASSUME NEW S \in SUBSET Samples, NEW s \in Samples, \A u \in S : Before(u, s),
         NEW p, p.sample \in S, NEW q, q.sample \in S
  PROVE  Joined(S, p, q) <=> Joined(S \cup {s}, p, q)
<1> DEFINE between(T) == {u \in T : ~Before(u, p.sample) /\ ~Before(q.sample, u)}
<1>1. between(S \cup {s}) = between(S)
  OBVIOUS
<1>2. ASSUME NEW u \in S, NEW v \in S
      PROVE  Adjacent(S \cup {s}, u, v) <=> Adjacent(S, u, v)
  <2>1. ~Before(s, v)
    BY BeforeOrder DEF Stamps
  <2>2. QED
    BY <2>1 DEF Adjacent
<1>3. Smooth(S, p, q) <=> Smooth(S \cup {s}, p, q)
  BY <1>1, <1>2 DEF Smooth
<1>4. QED
  BY <1>3 DEF Joined

LEMMA InOrderMore ==
  ASSUME NEW S \in SUBSET Samples, NEW s \in Samples, \A u \in S : Before(u, s),
         NEW shown \in Seq(Points), \A i \in 1 .. Len(shown) : shown[i].sample \in S,
         InOrder(S, shown)
  PROVE  InOrder(S \cup {s}, shown)
<1>1. SUFFICES ASSUME NEW i \in 1 .. Len(shown) - 1
               PROVE  Joined(S \cup {s}, shown[i], shown[i + 1])
  BY DEF InOrder
<1>2. i \in 1 .. Len(shown) /\ i + 1 \in 1 .. Len(shown)
  OBVIOUS
<1>3. Joined(S, shown[i], shown[i + 1])
  BY DEF InOrder
<1>4. QED
  BY <1>2, <1>3, JoinedMore

Closed(h, s, bucket) ==
  IF (Splits(h.pending.point.sample, s) \/ bucket # h.pending.bucket) /\ ~h.pending.head
  THEN Append(h.shown, h.pending.point) ELSE h.shown

NextPoint(h, s) ==
  [sample |-> s,
   segment |-> h.pending.point.segment + (IF Splits(h.pending.point.sample, s) THEN 1 ELSE 0)]

LEMMA WithRowIs ==
  ASSUME NEW h, h.pending # None, NEW s, NEW bucket
  PROVE  /\ WithRow(h, s, bucket).shown =
              IF Splits(h.pending.point.sample, s)
              THEN Append(Closed(h, s, bucket), NextPoint(h, s)) ELSE Closed(h, s, bucket)
         /\ WithRow(h, s, bucket).pending =
              [point |-> NextPoint(h, s), bucket |-> bucket,
               head |-> Splits(h.pending.point.sample, s)]
         /\ WithRow(h, s, bucket) =
              [shown |-> WithRow(h, s, bucket).shown, pending |-> WithRow(h, s, bucket).pending]
BY DEF WithRow, Closed, NextPoint, Begun

LEMMA BucketType ==
  ASSUME NEW s \in Samples, NEW from \in Int, NEW width \in Nat \ {0}
  PROVE  BucketOf(s, from, width) \in Int
<1>1. s.at - from \in Int
  BY SampleType
<1>2. QED
  BY <1>1 DEF BucketOf

LEMMA HistoryType ==
  ASSUME NEW h \in Histories, NEW s \in Samples, NEW bucket \in Int
  PROVE  WithRow(h, s, bucket) \in Histories /\ WithRow(h, s, bucket).pending \in Pending
<1> DEFINE next == WithRow(h, s, bucket)
<1>1. CASE h.pending = None
  <2> DEFINE q == [sample |-> s, segment |-> 1]
  <2>1. next = [shown |-> <<q>>, pending |-> [point |-> q, bucket |-> bucket, head |-> TRUE]]
    BY <1>1 DEF WithRow, Begun
  <2>2. q \in Points
    BY DEF Points
  <2> HIDE DEF q, next
  <2>3. <<q>> \in Seq(Points) /\ [point |-> q, bucket |-> bucket, head |-> TRUE] \in Pending
    BY <2>2 DEF Pending
  <2>4. QED
    BY <2>1, <2>3 DEF Histories, next
<1>2. CASE h.pending # None
  <2> DEFINE q == NextPoint(h, s)
             c == Closed(h, s, bucket)
             split == Splits(h.pending.point.sample, s)
  <2>1. h.pending \in Pending /\ h.pending.point \in Points /\ h.shown \in Seq(Points)
    BY <1>2 DEF Histories, Pending
  <2>2. q \in Points
    <3>1. h.pending.point.segment \in Nat
      BY <2>1 DEF Points
    <3>2. QED
      BY <3>1 DEF NextPoint, Points
  <2>3. c \in Seq(Points)
    BY <2>1 DEF Closed
  <2>4. split \in BOOLEAN
    BY DEF Splits
  <2>5. /\ next.shown = IF split THEN Append(c, q) ELSE c
        /\ next.pending = [point |-> q, bucket |-> bucket, head |-> split]
        /\ next = [shown |-> next.shown, pending |-> next.pending]
    BY <1>2, WithRowIs, Zenon
  <2> HIDE DEF q, c, split, next
  <2>6. next.shown \in Seq(Points) /\ next.pending \in Pending
    <3>1. next.shown \in Seq(Points)
      BY <2>2, <2>3, <2>5
    <3>2. next.pending \in Pending
      BY <2>2, <2>4, <2>5 DEF Pending
    <3>3. QED
      BY <3>1, <3>2
  <2>7. QED
    BY <2>5, <2>6 DEF Histories, next
<1>3. QED
  BY <1>1, <1>2

(* Reading one more row keeps the series right.                            *)
LEMMA HistoryNext ==
  ASSUME NEW S \in SUBSET Samples, Newest(S) \in S,
         \A u \in S : u # Newest(S) => Before(u, Newest(S)),
         NEW s \in Samples, \A u \in S : Before(u, s), Newest(S \cup {s}) = s,
         NEW from \in Int, NEW width \in Nat \ {0}, NEW h, ReadInv(S, h, from, width)
  PROVE  ReadInv(S \cup {s}, WithRow(h, s, BucketOf(s, from, width)), from, width)
<1> DEFINE T == S \cup {s}
           b == BucketOf(s, from, width)
           n == Newest(S)
           last == h.pending.point
           split == Splits(last.sample, s)
           c == Closed(h, s, b)
           q == NextPoint(h, s)
           next == WithRow(h, s, b)
<1>1. /\ h \in Histories /\ h.pending \in Pending /\ h.pending # None /\ h.shown # <<>>
      /\ h.shown \in Seq(Points) /\ last \in Points /\ last.sample = n /\ last.segment \in Nat
      /\ h.pending.head \in BOOLEAN /\ Last(h.shown).segment = last.segment
      /\ h.pending.bucket = BucketOf(n, from, width)
  BY PendingAssumption DEF ReadInv, Histories, Pending, Points
<1>2. next \in Histories /\ next.pending \in Pending
  BY <1>1, BucketType, HistoryType
<1>3. /\ next.shown = IF split THEN Append(c, q) ELSE c
      /\ next.pending = [point |-> q, bucket |-> b, head |-> split]
  BY <1>1, WithRowIs, Zenon
<1>4. /\ next.pending.point = q /\ next.pending.bucket = b /\ next.pending.head = split
      /\ q.sample = s /\ q \in Points /\ q.segment = last.segment + (IF split THEN 1 ELSE 0)
  <2>1. next.pending.point = q /\ next.pending.bucket = b /\ next.pending.head = split
    <3>1. split \in BOOLEAN
      BY DEF Splits
    <3> HIDE DEF q, b, split, next
    <3>2. QED
      BY <1>3, <3>1
  <2>2. q.sample = s /\ q.segment = last.segment + (IF split THEN 1 ELSE 0)
    BY <1>1 DEF NextPoint
  <2>3. q \in Points
    BY <1>2, <2>1 DEF Pending
  <2>4. QED
    BY <2>1, <2>2, <2>3
<1>5. c = IF (split \/ b # BucketOf(n, from, width)) /\ ~h.pending.head
          THEN Append(h.shown, last) ELSE h.shown
  BY <1>1 DEF Closed
<1>6. /\ \A i \in 1 .. Len(h.shown) : h.shown[i].sample \in S
      /\ Last(h.shown).sample \in S
  <2>1. \A i \in 1 .. Len(h.shown) : h.shown[i].sample \in S
    BY DEF ReadInv
  <2>2. Len(h.shown) \in 1 .. Len(h.shown)
    BY <1>1
  <2>3. QED
    BY <2>1, <2>2 DEF Last
(* The points shown so far, with the one held back if it closes a bucket.  *)
<1>7. /\ c \in Seq(Points) /\ c # <<>> /\ InOrder(T, c) /\ Last(c).segment = last.segment
      /\ \A u : Shows(h.shown, u) => Shows(c, u)
      /\ \A i \in 1 .. Len(c) : c[i].sample \in S
      /\ split => Last(c) = last
      /\ b # BucketOf(n, from, width) => Shows(c, n)
      /\ Last(c) = last \/ (Last(c) = Last(h.shown) /\ ~h.pending.head)
  <2>1. InOrder(T, h.shown)
    <3>1. InOrder(S, h.shown)
      BY DEF ReadInv
    <3>2. QED
      BY <1>1, <1>6, <3>1, InOrderMore
  <2>2. h.pending.head => Last(h.shown) = last /\ Shows(h.shown, n)
    <3>1. h.pending.head => Last(h.shown) = last
      BY DEF ReadInv
    <3>2. Len(h.shown) \in 1 .. Len(h.shown)
      BY <1>1
    <3>3. QED
      BY <1>1, <3>1, <3>2 DEF Last, Shows
  <2>3. CASE c = h.shown /\ (h.pending.head \/ (~split /\ b = BucketOf(n, from, width)))
    <3> HIDE DEF c, b, n, last, split, T
    <3>1. split => Last(c) = last
      BY <2>2, <2>3
    <3>2. b # BucketOf(n, from, width) => Shows(c, n)
      BY <2>2, <2>3
    <3>3. QED
      BY <1>1, <1>6, <2>1, <2>2, <2>3, <3>1, <3>2
  <2>4. CASE c = Append(h.shown, last) /\ ~h.pending.head
    <3>1. Joined(T, Last(h.shown), last)
      <4>1. Joined(S, Last(h.shown), last)
        BY <2>4 DEF ReadInv
      <4>2. QED
        BY <1>1, <1>6, <4>1, JoinedMore
    <3> HIDE DEF c, b, n, last, split, T
    <3>2. /\ c \in Seq(Points) /\ c # <<>> /\ Last(c) = last /\ InOrder(T, c)
          /\ (\A u : Shows(h.shown, u) => Shows(c, u)) /\ Shows(c, n)
      BY <1>1, <2>1, <2>4, <3>1, PointAppended
    <3>3. \A i \in 1 .. Len(c) : c[i].sample \in S
      <4>1. SUFFICES ASSUME NEW i \in 1 .. Len(c) PROVE c[i].sample \in S
        OBVIOUS
      <4>2. c[i] = IF i = Len(h.shown) + 1 THEN last ELSE h.shown[i]
        BY <1>1, <2>4
      <4>3. i # Len(h.shown) + 1 => i \in 1 .. Len(h.shown)
        BY <1>1, <2>4
      <4>4. n \in S
        BY DEF n
      <4>5. QED
        BY <1>1, <1>6, <4>2, <4>3, <4>4
    <3>4. QED
      BY <3>2, <3>3
  <2>5. QED
    BY <1>5, <2>3, <2>4, Zenon
<1>8. Last(c).sample \in S
  <2> HIDE DEF c
  <2>1. Len(c) \in 1 .. Len(c)
    BY <1>7
  <2>2. QED
    BY <1>7, <2>1 DEF Last
<1>9. Before(Last(c).sample, s) /\ n \in S /\ Before(n, s)
  BY <1>8
<1>10. \A u \in T, v \in T : Adjacent(T, u, v) =>
          \/ v = s /\ u = n
          \/ u \in S /\ v \in S /\ Adjacent(S, u, v)
  <2>1. SUFFICES ASSUME NEW u \in T, NEW v \in T, Adjacent(T, u, v)
                 PROVE  (v = s /\ u = n) \/ (u \in S /\ v \in S /\ Adjacent(S, u, v))
    OBVIOUS
  <2>2. u # s
    <3>1. SUFFICES ASSUME u = s PROVE FALSE
      OBVIOUS
    <3>2. Before(s, v)
      BY <2>1, <3>1 DEF Adjacent
    <3>3. v \in Samples /\ (v = s \/ Before(v, s))
      OBVIOUS
    <3>4. QED
      BY <3>2, <3>3, BeforeOrder DEF Stamps
  <2>3. u \in S
    BY <2>2
  <2>4. CASE v = s
    <3>1. u = n \/ (Before(u, n) /\ Before(n, s))
      BY <1>9, <2>3
    <3>2. QED
      BY <1>9, <2>1, <2>4, <3>1 DEF Adjacent
  <2>5. CASE v # s
    BY <2>1, <2>3, <2>5 DEF Adjacent
  <2>6. QED
    BY <2>4, <2>5
<1>11. split => Joined(T, last, q)
  <2>1. SUFFICES ASSUME split PROVE Joined(T, last, q)
    OBVIOUS
  <2>2. Adjacent(T, n, s)
    <3>1. \A u \in T : ~(Before(n, u) /\ Before(u, s))
      <4>1. SUFFICES ASSUME NEW u \in T, Before(n, u), Before(u, s) PROVE FALSE
        OBVIOUS
      <4>2. u = s \/ u = n \/ Before(u, n)
        OBVIOUS
      <4>3. u \in Samples /\ n \in Samples
        OBVIOUS
      <4> HIDE DEF n, T
      <4>4. QED
        BY <4>1, <4>2, <4>3, BeforeOrder DEF Stamps
    <3>2. QED
      BY <1>9, <3>1 DEF Adjacent
  <2>3. n \in Samples /\ n \in T /\ s \in T /\ ~Before(n, n) /\ ~Before(s, n) /\ ~Before(s, s)
    <3>1. n \in Samples /\ n \in T /\ s \in T /\ Before(n, s)
      OBVIOUS
    <3> HIDE DEF n, T
    <3>2. QED
      BY <3>1, BeforeOrder DEF Stamps
  <2>4. ~Smooth(T, last, q)
    <3> HIDE DEF n, T, last, q
    <3> QED BY <1>1, <1>4, <2>1, <2>2, <2>3 DEF Smooth, split
  <2>5. last.segment # q.segment
    <3> HIDE DEF last, q, split
    <3> QED BY <1>1, <1>4, <2>1
  <2>6. Before(last.sample, q.sample)
    BY <1>1, <1>4, <1>9
  <2>7. QED
    BY <2>4, <2>5, <2>6 DEF Joined
<1>12. ~split => Joined(T, Last(c), q)
  <2>1. SUFFICES ASSUME ~split PROVE Joined(T, Last(c), q)
    OBVIOUS
  <2>2. Last(c).segment = q.segment
    <3>1. last.segment + 0 = last.segment
      BY <1>1
    <3> HIDE DEF last, q, split, c
    <3>2. QED
      BY <1>1, <1>4, <1>7, <2>1, <3>1
  <2>3. Before(Last(c).sample, q.sample)
    BY <1>4, <1>9
  <2>4. ASSUME NEW u \in T, NEW v \in T, ~Before(u, Last(c).sample), Adjacent(T, u, v),
               ~Before(v, Last(c).sample)
        PROVE  ~Splits(u, v)
    <3>1. CASE v = s /\ u = n
      BY <1>1, <2>1, <3>1
    <3>2. CASE u \in S /\ v \in S /\ Adjacent(S, u, v)
      <4>1. Before(u, v) /\ u \in Samples /\ v \in Samples /\ n \in Samples
        BY <3>2 DEF Adjacent
      <4>2. (u = n \/ Before(u, n)) /\ (v = n \/ Before(v, n))
        BY <3>2
      <4>3. ~Before(n, u) /\ ~Before(n, v)
        <5> HIDE DEF n
        <5> QED BY <4>1, <4>2, BeforeOrder DEF Stamps
      <4>4. CASE Last(c) = last
        <5>1. ~Before(u, n)
          BY <1>1, <2>4, <4>4
        <5>2. u = n
          BY <4>2, <5>1
        <5>3. QED
          BY <4>1, <4>3, <5>2
      <4>5. CASE Last(c) = Last(h.shown) /\ ~h.pending.head
        <5>1. Joined(S, Last(h.shown), last) /\ Last(h.shown).segment = last.segment
          BY <1>1, <4>5 DEF ReadInv
        <5>2. Smooth(S, Last(h.shown), last)
          BY <5>1 DEF Joined
        <5> HIDE DEF c, last, n
        <5>3. QED
          BY <1>1, <2>4, <3>2, <4>3, <4>5, <5>2 DEF Smooth
      <4>6. QED
        BY <1>7, <4>4, <4>5
    <3>3. QED
      BY <1>10, <2>4, <3>1, <3>2
  <2>5. Smooth(T, Last(c), q)
    <3> HIDE DEF T, c, q
    <3> QED BY <2>4 DEF Smooth
  <2>6. QED
    BY <2>2, <2>3, <2>5 DEF Joined
<1>13. /\ next.shown # <<>> /\ InOrder(T, next.shown) /\ Last(next.shown).segment = q.segment
       /\ \A u : Shows(c, u) => Shows(next.shown, u)
       /\ \A i \in 1 .. Len(next.shown) : next.shown[i].sample \in T
       /\ split => Last(next.shown) = q
       /\ ~split => Joined(T, Last(next.shown), q)
  <2>1. S \subseteq T /\ s \in T
    OBVIOUS
  <2>2. CASE split
    <3>1. next.shown = Append(c, q)
      BY <1>3, <2>2
    <3>2. Joined(T, Last(c), q)
      <4> HIDE DEF c, last, q, T, split
      <4> QED BY <1>7, <1>11, <2>2
    <3> HIDE DEF c, q, T, split, next
    <3>3. /\ next.shown # <<>> /\ Last(next.shown) = q /\ InOrder(T, next.shown)
          /\ \A u : Shows(c, u) => Shows(next.shown, u)
      BY <1>4, <1>7, <3>1, <3>2, PointAppended
    <3>4. \A i \in 1 .. Len(next.shown) : next.shown[i].sample \in T
      <4>1. SUFFICES ASSUME NEW i \in 1 .. Len(next.shown) PROVE next.shown[i].sample \in T
        OBVIOUS
      <4>2. next.shown[i] = IF i = Len(c) + 1 THEN q ELSE c[i]
        BY <1>7, <3>1
      <4>3. i # Len(c) + 1 => i \in 1 .. Len(c)
        BY <1>7, <3>1
      <4>4. QED
        BY <1>4, <1>7, <2>1, <4>2, <4>3
    <3>5. QED
      BY <2>2, <3>3, <3>4
  <2>3. CASE ~split
    <3>1. next.shown = c
      BY <1>3, <2>3
    <3>2. Last(c).segment = q.segment
      <4>1. last.segment + 0 = last.segment
        BY <1>1
      <4> HIDE DEF last, q, split, c
      <4>2. QED
        BY <1>4, <1>7, <2>3, <4>1
    <3> HIDE DEF c, q, T, split, next
    <3>3. QED
      BY <1>7, <1>12, <2>1, <2>3, <3>1, <3>2
  <2>4. QED
    BY <2>2, <2>3
<1>14. ASSUME NEW u \in T \ {s}, EndsBucket(T, u, from, width)
       PROVE  Shows(next.shown, u)
  <2>1. u \in S
    BY <1>14
  <2>2. CASE u = n
    <3>1. b # BucketOf(n, from, width)
      BY <1>9, <1>14, <2>2 DEF EndsBucket
    <3>2. QED
      BY <1>7, <1>13, <2>2, <3>1
  <2>3. CASE u # n
    <3>1. EndsBucket(S, u, from, width)
      BY <1>14 DEF EndsBucket
    <3>2. Shows(h.shown, u)
      BY <2>1, <2>3, <3>1 DEF ReadInv
    <3>3. QED
      BY <1>7, <1>13, <3>2
  <2>4. QED
    BY <2>2, <2>3
<1>15. QED
  <2> HIDE DEF T, b, n, split, q, next
  <2>1. Newest(T) = s
    BY DEF T
  <2>2. ReadInv(T, next, from, width)
    BY <1>2, <1>4, <1>13, <1>14, <2>1 DEF ReadInv, b
  <2>3. QED
    BY <2>2 DEF T, next, b

LEMMA HistoryFirst ==
  ASSUME NEW s \in Samples, Newest({s}) = s, NEW from \in Int, NEW width \in Nat \ {0}
  PROVE  ReadInv({s}, WithRow(NoHistory, s, BucketOf(s, from, width)), from, width)
<1> DEFINE b == BucketOf(s, from, width)
           p == [sample |-> s, segment |-> 1]
           h == WithRow(NoHistory, s, b)
<1>1. h.shown = <<p>> /\ h.pending = [point |-> p, bucket |-> b, head |-> TRUE]
  BY DEF WithRow, NoHistory, Begun
<1>2. h \in Histories /\ h.pending \in Pending
  <2>1. NoHistory \in Histories
    BY DEF NoHistory, Histories
  <2>2. QED
    BY <2>1, BucketType, HistoryType
<1> HIDE DEF b, h
<1>3. h.pending.head = TRUE /\ h.pending.point = p /\ h.pending.bucket = b /\ p.sample = s
  BY <1>1
<1> HIDE DEF p
<1>4. h.shown # <<>> /\ Len(h.shown) = 1 /\ Last(h.shown) = p
      /\ \A i \in 1 .. Len(h.shown) : h.shown[i] = p
  BY <1>1 DEF Last
<1>5. InOrder({s}, h.shown)
  BY <1>4 DEF InOrder
<1>6. ReadInv({s}, h, from, width)
  BY <1>2, <1>3, <1>4, <1>5 DEF ReadInv, b
<1>7. QED
  BY <1>6 DEF h, b

LEMMA HistoryReadInv ==
  ASSUME NEW D \in SUBSET Samples, IsFiniteSet(D), DistinctIds(D),
         NEW from \in Int, NEW width \in Nat \ {0}
  PROVE  /\ D = {} => HistoryRead(D, from, width) = NoHistory
         /\ D # {} => ReadInv(D, HistoryRead(D, from, width), from, width)
<1> DEFINE b(s) == BucketOf(s, from, width)
           Equation(f) ==
             f = [S \in SUBSET D |->
                    IF S = {} THEN NoHistory
                    ELSE WithRow(f[S \ {Newest(S)}], Newest(S), BucketOf(Newest(S), from, width))]
           fold == CHOOSE f : Equation(f)
           op == [p \in D \X Histories |-> WithRow(p[2], p[1], b(p[1]))]
<1>1. op \in [D \X Histories -> Histories]
  BY BucketType, HistoryType
<1>2. PICK f \in [SUBSET D -> Histories] :
             \A S \in SUBSET D : Folded(f, op, NoHistory, NewestOf(D), S)
  <2>1. NoHistory \in Histories
    BY DEF NoHistory, Histories
  <2> HIDE DEF op
  <2>2. FoldedBy(D, Histories, NoHistory, op, NewestOf(D))
    BY <1>1, <2>1, NewestIn, FoldedExists
  <2>3. QED
    BY <2>2 DEF FoldedBy
<1>3. \A S \in SUBSET D :
        f[S] = IF S = {} THEN NoHistory
               ELSE WithRow(f[S \ {Newest(S)}], Newest(S), b(Newest(S)))
  <2>1. SUFFICES ASSUME NEW S \in SUBSET D
                 PROVE  f[S] = IF S = {} THEN NoHistory
                               ELSE WithRow(f[S \ {Newest(S)}], Newest(S), b(Newest(S)))
    OBVIOUS
  <2>2. CASE S = {}
    BY <1>2, <2>2 DEF Folded
  <2>3. CASE S # {}
    <3>1. NewestOf(D)[S] = Newest(S) /\ Newest(S) \in D
      BY <2>3, NewestIn
    <3>2. f[S \ {Newest(S)}] \in Histories
      BY <1>2
    <3>3. f[S] = op[<<Newest(S), f[S \ {Newest(S)}]>>]
      BY <1>2, <2>3, <3>1 DEF Folded
    <3>4. QED
      BY <2>3, <3>1, <3>2, <3>3
  <2>4. QED
    BY <2>2, <2>3
<1>4. Equation(f)
  <2> DEFINE g == [S \in SUBSET D |->
                     IF S = {} THEN NoHistory
                     ELSE WithRow(f[S \ {Newest(S)}], Newest(S), b(Newest(S)))]
  <2>1. f = [S \in SUBSET D |-> f[S]] /\ g = [S \in SUBSET D |-> g[S]]
    BY <1>2
  <2>2. \A S \in SUBSET D : f[S] = g[S]
    BY <1>3
  <2>3. f = g
    <3> HIDE DEF g
    <3> QED BY <2>1, <2>2
  <2>4. QED
    BY <2>3
<1>5. Equation(fold)
  BY <1>4
<1>6. HistoryRead(D, from, width) = fold[D]
  BY DEF HistoryRead
<1>7. \A S \in SUBSET D :
        fold[S] = IF S = {} THEN NoHistory
                  ELSE WithRow(fold[S \ {Newest(S)}], Newest(S), b(Newest(S)))
  <2> HIDE DEF fold
  <2> QED BY <1>5
<1> HIDE DEF fold
<1> DEFINE Bad == {S \in SUBSET D : S # {} /\ ~ReadInv(S, fold[S], from, width)}
<1>8. ASSUME NEW S \in Bad, \A R \in SUBSET S : R # S => R \notin Bad
      PROVE  FALSE
  <2> DEFINE n == Newest(S)
             R == S \ {n}
  <2>1. /\ S # {} /\ S \in SUBSET Samples /\ n \in S /\ n \in Samples
        /\ \A u \in S : u # n => Before(u, n)
    <3>1. S # {} /\ S \in SUBSET Samples /\ IsFiniteSet(S) /\ DistinctIds(S)
      BY FS_Subset, SubsetDistinct
    <3>2. QED
      BY <3>1, NewestIs
  <2>2. fold[S] = WithRow(fold[R], n, b(n))
    BY <1>7, <2>1
  <2>3. CASE R = {}
    <3>1. S = {n} /\ fold[R] = NoHistory
      BY <1>7, <2>1, <2>3
    <3>2. Newest({n}) = n
      BY <3>1
    <3>3. ReadInv({n}, WithRow(NoHistory, n, b(n)), from, width)
      <4> HIDE DEF n
      <4> QED BY <2>1, <3>2, HistoryFirst
    <3>4. QED
      BY <2>2, <3>1, <3>3
  <2>4. CASE R # {}
    <3>1. ReadInv(R, fold[R], from, width)
      BY <1>8, <2>1, <2>4
    <3>2. /\ R \in SUBSET Samples /\ Newest(R) \in R
          /\ \A u \in R : u # Newest(R) => Before(u, Newest(R))
      <4>1. R \in SUBSET Samples /\ IsFiniteSet(R) /\ DistinctIds(R)
        BY FS_Subset, SubsetDistinct
      <4> HIDE DEF R
      <4>2. QED
        BY <2>4, <4>1, NewestIs
    <3>3. \A u \in R : Before(u, n)
      BY <2>1
    <3>4. R \cup {n} = S
      BY <2>1
    <3>5. Newest(R \cup {n}) = n
      BY <3>4
    <3>6. ReadInv(R \cup {n}, WithRow(fold[R], n, b(n)), from, width)
      <4> HIDE DEF n, R
      <4> QED BY <2>1, <3>1, <3>2, <3>3, <3>5, HistoryNext
    <3>7. QED
      BY <2>2, <3>4, <3>6
  <2>5. QED
    BY <2>3, <2>4
<1>9. Bad = {}
  <2>1. Bad \in SUBSET SUBSET D
    OBVIOUS
  <2> HIDE DEF Bad
  <2>2. QED
    BY <1>8, <2>1, SmallestSet
<1>10. D \in SUBSET D /\ {} \in SUBSET D
  OBVIOUS
<1>11. QED
  BY <1>6, <1>7, <1>9, <1>10

(* What the last row leaves.                                               *)
LEMMA HistoryRetained ==
  ASSUME NEW D \in SUBSET Samples, IsFiniteSet(D), DistinctIds(D),
         NEW from \in Int, NEW width \in Nat \ {0}
  PROVE  LET shown == RetainHistory(D, from, width)
         IN /\ shown \in Seq(Points)
            /\ InOrder(D, shown)
            /\ \A s \in D : EndsBucket(D, s, from, width) => Shows(shown, s)
<1> DEFINE h == HistoryRead(D, from, width)
           shown == RetainHistory(D, from, width)
<1>1. shown = Finished(h)
  BY DEF RetainHistory
<1>2. CASE D = {}
  <2>1. h = NoHistory
    BY <1>2, HistoryReadInv
  <2>2. shown = <<>>
    BY <1>1, <2>1 DEF Finished, NoHistory
  <2> HIDE DEF shown
  <2>3. shown \in Seq(Points) /\ InOrder(D, shown)
    BY <2>2 DEF InOrder
  <2>4. QED
    BY <1>2, <2>3 DEF shown
<1>3. CASE D # {}
  <2>1. ReadInv(D, h, from, width)
    BY <1>3, HistoryReadInv
  <2> HIDE DEF h
  <2>2. /\ h.pending # None /\ h.pending.point \in Points /\ h.shown \in Seq(Points)
        /\ h.shown # <<>> /\ InOrder(D, h.shown) /\ h.pending.point.sample = Newest(D)
        /\ \A s \in D \ {Newest(D)} : EndsBucket(D, s, from, width) => Shows(h.shown, s)
    BY <2>1, PendingAssumption DEF ReadInv, Histories, Pending
  <2>3. CASE h.pending.head
    <3>1. shown = h.shown
      BY <1>1, <2>2, <2>3 DEF Finished
    <3>2. Shows(h.shown, Newest(D))
      <4>1. Last(h.shown) = h.pending.point
        BY <2>1, <2>3 DEF ReadInv
      <4>2. Len(h.shown) \in 1 .. Len(h.shown)
        BY <2>2
      <4>3. QED
        BY <2>2, <4>1, <4>2 DEF Last, Shows
    <3>3. QED
      BY <2>2, <3>1, <3>2
  <2>4. CASE ~h.pending.head
    <3>1. shown = Append(h.shown, h.pending.point)
      BY <1>1, <2>2, <2>4 DEF Finished
    <3>2. Joined(D, Last(h.shown), h.pending.point)
      BY <2>1, <2>4 DEF ReadInv
    <3> HIDE DEF shown
    <3>3. /\ shown \in Seq(Points) /\ InOrder(D, shown) /\ Shows(shown, Newest(D))
          /\ \A s : Shows(h.shown, s) => Shows(shown, s)
      BY <2>2, <3>1, <3>2, PointAppended
    <3>4. \A s \in D : EndsBucket(D, s, from, width) => Shows(shown, s)
      BY <2>2, <3>3
    <3>5. QED
      BY <3>3, <3>4 DEF shown
  <2>5. QED
    BY <2>3, <2>4
<1>4. QED
  BY <1>2, <1>3

(* At every bucket width the series ends each bucket with its last sample, *)
(* and joins two points exactly if no gap lies between them.               *)
THEOREM HistoryIsFaithful == Spec => []HistoryFaithful
<1>1. ASSUME ResetsInv, NEW from \in Times, NEW to \in Times, NEW width \in Buckets
      PROVE  LET S == InRange(from, to)
                 shown == RetainHistory(S, from, width)
             IN /\ \A s \in S : EndsBucket(S, s, from, width) => \E p \in ToSet(shown) : p.sample = s
                /\ InOrder(S, shown)
  <2> DEFINE S == InRange(from, to)
             shown == RetainHistory(S, from, width)
  <2>1. S \in SUBSET Samples /\ IsFiniteSet(S) /\ DistinctIds(S)
    <3>1. S \subseteq stored /\ stored \subseteq Samples /\ IsFiniteSet(stored) /\ DistinctIds(stored)
      BY <1>1 DEF InRange, ResetsInv, TypeOK
    <3> HIDE DEF S
    <3>2. QED
      BY <3>1, FS_Subset, SubsetDistinct
  <2>2. from \in Int /\ width \in Nat \ {0}
    BY ContentAssumption, GapAssumption DEF Times
  <2> HIDE DEF S
  <2>3. /\ shown \in Seq(Points) /\ InOrder(S, shown)
        /\ \A s \in S : EndsBucket(S, s, from, width) => Shows(shown, s)
    BY <2>1, <2>2, HistoryRetained
  <2> HIDE DEF shown
  <2>4. \A s : Shows(shown, s) => \E p \in ToSet(shown) : p.sample = s
    BY <2>3 DEF Shows, ToSet
  <2>5. QED
    BY <2>3, <2>4 DEF S, shown
<1>2. ResetsInv => BucketEndsShown
  BY <1>1 DEF BucketEndsShown, EndsBucket
<1>3. ResetsInv => GapsShown
  BY <1>1 DEF GapsShown, InOrder, Joined, Smooth
<1>4. QED
  BY <1>2, <1>3, ResetsSpecInv, PTL DEF HistoryFaithful
=============================================================================
