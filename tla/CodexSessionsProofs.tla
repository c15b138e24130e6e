------------------------ MODULE CodexSessionsProofs ------------------------
(***************************************************************************)
(* The import of a Codex thread and its fork, for any number of calls,     *)
(* turns, refreshes and rate limit ids, however far the parent's file is   *)
(* behind and whenever the two files are read.  The induction is on        *)
(* CodexInv.                                                               *)
(***************************************************************************)
EXTENDS CodexSessions, FiniteSetTheorems, SequenceTheorems, WellFoundedInduction, TLAPS

-----------------------------------------------------------------------------
(* The largest and the smallest number of a set.                           *)

LEMMA LeastNatural ==
  ASSUME NEW T \in SUBSET Nat, T # {}
  PROVE  \E n \in T : \A m \in T : n <= m
<1> DEFINE less == {p \in Nat \X Nat : p[1] < p[2]}
<1>1. IsWellFoundedOn(less, Nat)
  BY NatLessThanWellFounded DEF OpToRel
<1>2. PICK n \in T : \A m \in T : ~(<<m, n>> \in less)
  <2> HIDE DEF less
  <2> QED BY <1>1, WFMin
<1>3. \A m \in T : n <= m
  <2>1. SUFFICES ASSUME NEW m \in T, m < n PROVE FALSE
    OBVIOUS
  <2>2. <<m, n>> \in less
    BY <2>1
  <2>3. QED
    BY <1>2, <2>2
<1>4. QED
  BY <1>3

LEMMA MaxOf ==
  ASSUME NEW T \in SUBSET Nat, T # {}, NEW bound \in Nat, \A x \in T : x <= bound
  PROVE  Max(T) \in T /\ \A x \in T : x <= Max(T)
<1> DEFINE gaps == {g \in Nat : bound - g \in T}
<1>1. gaps # {} /\ gaps \subseteq Nat
  <2>1. PICK x \in T : TRUE
    OBVIOUS
  <2>2. bound - x \in Nat /\ bound - (bound - x) = x
    BY <2>1
  <2>3. QED
    BY <2>1, <2>2
<1>2. PICK g \in gaps : \A h \in gaps : g <= h
  <2> HIDE DEF gaps
  <2> QED BY <1>1, LeastNatural
<1>3. \A x \in T : x <= bound - g
  <2>1. SUFFICES ASSUME NEW x \in T PROVE x <= bound - g
    OBVIOUS
  <2>2. bound - x \in gaps
    OBVIOUS
  <2>3. QED
    BY <1>2, <2>2
<1>4. \E x \in T : \A y \in T : x >= y
  BY <1>2, <1>3
<1>5. QED
  BY <1>4 DEF Max

LEMMA MinIs ==
  ASSUME NEW T \in SUBSET Nat, NEW n \in T, \A m \in T : n <= m
  PROVE  Min(T) = n
<1>1. \A m \in T : (\A k \in T : m <= k) => m = n
  BY SMT
<1>2. Min(T) \in T /\ \A k \in T : Min(T) <= k
  BY DEF Min
<1>3. QED
  BY <1>1, <1>2

-----------------------------------------------------------------------------
(* Lines.  What is said of a line depends on it and those before it.       *)

Same(r, s, i) ==
  /\ i \in DOMAIN r /\ i \in DOMAIN s
  /\ \A j \in 1..i : r[j] = s[j]

LEMMA LineSeq ==
  ASSUME NEW s \in Seq(Line)
  PROVE  /\ Len(s) \in Nat /\ DOMAIN s = 1..Len(s)
         /\ TokenLines(s) \subseteq 1..Len(s)
         /\ \A i \in 1..Len(s) :
              /\ s[i] \in Line
              /\ s[i].kind \in Kinds /\ s[i].at \in Nat /\ s[i].total \in Nat
              /\ s[i].last \in Nat /\ s[i].call \in Nat
<1>1. Len(s) \in Nat /\ DOMAIN s = 1..Len(s) /\ \A i \in 1..Len(s) : s[i] \in Line
  BY ElementOfSeq, LenProperties
<1>2. QED
  BY <1>1 DEF TokenLines, Line

LEMMA SameTokens ==
  ASSUME NEW r \in Seq(Line), NEW s \in Seq(Line), NEW i \in Nat, Same(r, s, i)
  PROVE  /\ \A j \in 1..i : Same(r, s, j)
         /\ \A j \in 1..i : j \in TokenLines(r) <=> j \in TokenLines(s)
         /\ {j \in TokenLines(r) : j < i} = {j \in TokenLines(s) : j < i}
<1>1. DOMAIN r = 1..Len(r) /\ DOMAIN s = 1..Len(s) /\ Len(r) \in Nat /\ Len(s) \in Nat
  BY LineSeq
<1>2. QED
  BY <1>1 DEF Same, TokenLines

LEMMA SameHighWater ==
  ASSUME NEW r \in Seq(Line), NEW s \in Seq(Line), NEW i \in Nat, Same(r, s, i)
  PROVE  HighWater(r, i) = HighWater(s, i)
<1>1. DOMAIN r = 1..Len(r) /\ DOMAIN s = 1..Len(s) /\ Len(r) \in Nat /\ Len(s) \in Nat
  BY LineSeq
<1> DEFINE before == {j \in TokenLines(r) : j < i}
<1>2. before = {j \in TokenLines(s) : j < i}
  BY SameTokens
<1>3. \A j \in before : r[j] = s[j]
  BY <1>1 DEF Same, TokenLines
<1>4. Totals(r, before) = Totals(s, before)
  BY <1>3 DEF Totals
<1>5. QED
  BY <1>2, <1>4 DEF HighWater

LEMMA SameRepeated ==
  ASSUME NEW r \in Seq(Line), NEW s \in Seq(Line), NEW i \in Nat, Same(r, s, i),
         Repeated(r, i)
  PROVE  Repeated(s, i)
<1>1. DOMAIN r = 1..Len(r) /\ DOMAIN s = 1..Len(s) /\ Len(r) \in Nat /\ Len(s) \in Nat
  BY LineSeq
<1>2. PICK j \in TokenLines(r) :
        /\ j < i /\ Signature(r[j]) = Signature(r[i])
        /\ LET between == {k \in TokenLines(r) : j < k /\ k < i}
           IN \/ between = {}
              \/ /\ r[j].source = r[i].source
                 /\ \A k \in between : r[k].source # r[i].source
  BY DEF Repeated
<1>3. {k \in TokenLines(r) : j < k /\ k < i} = {k \in TokenLines(s) : j < k /\ k < i}
  BY <1>1, SameTokens DEF TokenLines
<1>4. j \in TokenLines(s) /\ r[j] = s[j] /\ r[i] = s[i]
      /\ \A k \in {k \in TokenLines(r) : j < k /\ k < i} : r[k] = s[k]
  BY <1>1, <1>2 DEF Same, TokenLines
<1>5. QED
  BY <1>2, <1>3, <1>4 DEF Repeated

LEMMA SameBeginning ==
  ASSUME NEW r \in Seq(Line), NEW s \in Seq(Line), NEW i \in Nat, Same(r, s, i)
  PROVE  /\ Delta(r, i) = Delta(s, i)
         /\ New(r, i) <=> New(s, i)
         /\ Repeated(r, i) <=> Repeated(s, i)
<1>1. DOMAIN r = 1..Len(r) /\ DOMAIN s = 1..Len(s) /\ Len(r) \in Nat /\ Len(s) \in Nat
  BY LineSeq
<1>2. HighWater(r, i) = HighWater(s, i) /\ r[i] = s[i]
  BY <1>1, SameHighWater DEF Same
<1>3. Same(s, r, i)
  BY DEF Same
<1>4. Repeated(r, i) <=> Repeated(s, i)
  BY <1>3, SameRepeated
<1>5. \A j \in Nat : (j \in TokenLines(r) /\ j < i) <=> (j \in TokenLines(s) /\ j < i)
  BY <1>1, SameTokens DEF TokenLines
<1>6. \A j \in TokenLines(r) : j < i => r[j] = s[j]
  BY <1>1 DEF Same, TokenLines
<1>7. New(r, i) <=> New(s, i)
  BY <1>1, <1>2, <1>5, <1>6 DEF New, TokenLines
<1>8. QED
  BY <1>2, <1>4, <1>7 DEF Delta

LEMMA SameNumber ==
  ASSUME NEW r \in Seq(Line), NEW s \in Seq(Line), NEW i \in Nat, Same(r, s, i)
  PROVE  /\ Number(r, i) = Number(s, i)
         /\ i \in Billed(r) <=> i \in Billed(s)
<1>1. DOMAIN r = 1..Len(r) /\ DOMAIN s = 1..Len(s) /\ Len(r) \in Nat /\ Len(s) \in Nat
  BY LineSeq
<1>2. \A j \in 1..i : /\ Delta(r, j) = Delta(s, j)
                      /\ j \in TokenLines(r) <=> j \in TokenLines(s)
  BY SameTokens, SameBeginning
<1>3. \A j \in 1..i : j \in Billed(r) <=> j \in Billed(s)
  BY <1>2 DEF Billed
<1>4. Billed(r) \subseteq 1..Len(r) /\ Billed(s) \subseteq 1..Len(s)
  BY LineSeq DEF Billed
<1>5. {j \in Billed(r) : j <= i} = {j \in Billed(s) : j <= i}
  BY <1>1, <1>3, <1>4
<1>6. i \in 1..i
  BY <1>1 DEF Same
<1>7. QED
  BY <1>3, <1>5, <1>6 DEF Number

LEMMA Beginning ==
  ASSUME NEW s \in Seq(Line), NEW n \in 0..Len(s)
  PROVE  /\ SubSeq(s, 1, n) \in Seq(Line) /\ Len(SubSeq(s, 1, n)) = n
         /\ \A i \in 1..n : SubSeq(s, 1, n)[i] = s[i] /\ Same(SubSeq(s, 1, n), s, i)
         /\ TokenLines(SubSeq(s, 1, n)) = {i \in TokenLines(s) : i <= n}
<1>1. Len(s) \in Nat /\ DOMAIN s = 1..Len(s) /\ \A i \in 1..Len(s) : s[i] \in Line
  BY LineSeq
<1>2. /\ SubSeq(s, 1, n) \in Seq(Line) /\ Len(SubSeq(s, 1, n)) = n
      /\ \A i \in 1..n : SubSeq(s, 1, n)[i] = s[i]
  BY <1>1, SubSeqProperties
<1>3. DOMAIN SubSeq(s, 1, n) = 1..n
  BY <1>2, LineSeq
<1>4. QED
  BY <1>1, <1>2, <1>3 DEF Same, TokenLines

-----------------------------------------------------------------------------
(* The lines that add tokens are those of new calls, one token each.       *)

LEMMA HighWaterIs ==
  ASSUME calls \in Nat, NEW s \in Seq(Line), NEW i \in Nat,
         \A j \in TokenLines(s) : j < i => s[j].total <= calls
  PROVE  /\ HighWater(s, i) \in 0..calls
         /\ \A j \in TokenLines(s) : j < i => s[j].total <= HighWater(s, i)
<1> DEFINE T == Totals(s, {j \in TokenLines(s) : j < i})
<1>1. /\ T \in SUBSET Nat /\ 0 \in T /\ \A x \in T : x <= calls
      /\ \A j \in TokenLines(s) : j < i => s[j].total \in T
  BY LineSeq DEF Totals
<1>2. Max(T) \in T /\ \A x \in T : x <= Max(T)
  <2> HIDE DEF T
  <2> QED BY <1>1, MaxOf
<1>3. QED
  BY <1>1, <1>2 DEF HighWater

LEMMA SoundDelta ==
  ASSUME calls \in Nat, NEW s \in Seq(Line), TokensSound(s), NEW i \in TokenLines(s)
  PROVE  /\ New(s, i) => Delta(s, i) = 1 /\ ~Repeated(s, i)
         /\ ~New(s, i) => Delta(s, i) = 0 /\ Repeated(s, i)
<1>1. i \in Nat /\ s[i].total \in 1..calls /\ s[i].last \in {0, 1}
  BY LineSeq DEF TokensSound
<1>2. /\ HighWater(s, i) \in 0..calls
      /\ \A j \in TokenLines(s) : j < i => s[j].total <= HighWater(s, i)
  BY <1>1, HighWaterIs DEF TokensSound
<1>3. ASSUME New(s, i) PROVE ~Repeated(s, i)
  <2>1. SUFFICES ASSUME NEW j \in TokenLines(s), j < i, Signature(s[j]) = Signature(s[i])
                 PROVE  FALSE
    BY DEF Repeated
  <2>2. s[j].total = s[i].total
    BY <2>1 DEF Signature
  <2>3. s[j].total <= HighWater(s, i)
    BY <1>2, <2>1
  <2>4. QED
    BY <1>1, <1>2, <1>3, <2>2, <2>3 DEF New
<1>4. ASSUME New(s, i) PROVE Delta(s, i) = 1
  BY <1>1, <1>2, <1>3, <1>4 DEF Delta, New
<1>5. ~New(s, i) => Repeated(s, i)
  BY DEF TokensSound
<1>6. QED
  BY <1>3, <1>4, <1>5 DEF Delta

LEMMA SoundBilled ==
  ASSUME calls \in Nat, NEW s \in Seq(Line), TokensSound(s)
  PROVE  Billed(s) = {i \in TokenLines(s) : New(s, i)}
BY SoundDelta DEF Billed

LEMMA SoundBeginning ==
  ASSUME NEW s \in Seq(Line), TokensSound(s), NEW n \in 0..Len(s)
  PROVE  TokensSound(SubSeq(s, 1, n))
<1> DEFINE r == SubSeq(s, 1, n)
<1>1. /\ r \in Seq(Line) /\ Len(r) = n
      /\ \A i \in 1..n : r[i] = s[i] /\ Same(r, s, i)
      /\ TokenLines(r) = {i \in TokenLines(s) : i <= n}
  BY Beginning
<1>2. n \in Nat
  BY LineSeq
<1>3. TokenLines(s) \subseteq Nat /\ TokenLines(r) \subseteq 1..n
  BY <1>1, LineSeq
<1>4. \A i \in 1..n : (New(r, i) <=> New(s, i)) /\ (Repeated(r, i) <=> Repeated(s, i))
  <2> HIDE DEF r
  <2> QED BY <1>1, <1>2, SameBeginning
<1>5. SUFFICES ASSUME NEW i \in TokenLines(r)
               PROVE  /\ r[i].total \in 1..calls /\ r[i].call \in 1..calls
                      /\ r[i].last \in {0, 1}
                      /\ \/ New(r, i)
                         \/ /\ Repeated(r, i)
                            /\ \E j \in TokenLines(r) :
                                 j < i /\ New(r, j) /\ r[j].call = r[i].call
  BY DEF TokensSound
<1>6. i \in TokenLines(s) /\ i \in 1..n /\ r[i] = s[i]
  BY <1>1, <1>3
<1>7. CASE New(s, i)
  BY <1>4, <1>6, <1>7 DEF TokensSound
<1>8. CASE ~New(s, i)
  <2>1. PICK j \in TokenLines(s) : j < i /\ New(s, j) /\ s[j].call = s[i].call
    BY <1>6, <1>8 DEF TokensSound
  <2>2. j \in TokenLines(r) /\ j \in 1..n
    BY <1>1, <1>2, <1>3, <1>6, <2>1
  <2>3. New(r, j) /\ r[j].call = r[i].call
    BY <1>1, <1>4, <1>6, <2>1, <2>2
  <2>4. Repeated(r, i)
    BY <1>4, <1>6, <1>8 DEF TokensSound
  <2>5. QED
    BY <1>6, <2>1, <2>2, <2>3, <2>4 DEF TokensSound
<1>9. QED
  BY <1>7, <1>8

(* Two new lines of a file are of different calls.                         *)
LEMMA NewCallsDiffer ==
  ASSUME NEW s \in Seq(Line), NEW i \in TokenLines(s), NEW j \in TokenLines(s),
         New(s, i), New(s, j), s[i].call = s[j].call
  PROVE  i = j
<1>1. i \in Nat /\ j \in Nat
  BY LineSeq
<1>2. QED
  BY <1>1 DEF New

(* Numbers are as many as the calls at most, and tell lines apart.         *)
LEMMA NumberOf ==
  ASSUME calls \in 0..MaxCalls, NEW s \in Seq(Line), TokensSound(s), NEW i \in Billed(s)
  PROVE  Number(s, i) \in 1..MaxCalls
<1> DEFINE S == {j \in Billed(s) : j <= i}
<1> DEFINE f == [j \in S |-> s[j].call]
<1>1. calls \in Nat /\ MaxCalls \in Nat
  BY BoundAssumption
<1>2. Billed(s) = {j \in TokenLines(s) : New(s, j)} /\ Billed(s) \subseteq Nat
  BY <1>1, SoundBilled, LineSeq
<1>3. \A j \in S : s[j].call \in 1..MaxCalls
  BY <1>1, <1>2 DEF TokensSound
<1>4. \A j, k \in S : s[j].call = s[k].call => j = k
  BY <1>2, NewCallsDiffer
<1>5. f \in Injection(S, 1..MaxCalls)
  BY <1>3, <1>4 DEF Injection, IsInjective
<1>6. IsFiniteSet(1..MaxCalls) /\ Cardinality(1..MaxCalls) = MaxCalls
  BY <1>1, FS_Interval
<1>7. IsFiniteSet(S) /\ Cardinality(S) <= MaxCalls
  <2> HIDE DEF S, f
  <2> QED BY <1>5, <1>6, FS_Injection
<1>8. i \in S
  BY <1>2
<1>9. Cardinality(S) \in Nat /\ Cardinality(S) # 0
  <2> HIDE DEF S
  <2> QED BY <1>7, <1>8, FS_CardinalityType, FS_EmptySet
<1>10. QED
  BY <1>1, <1>7, <1>9 DEF Number

LEMMA NumbersIncrease ==
  ASSUME NEW s \in Seq(Line), NEW i \in Billed(s), NEW j \in Billed(s), i < j
  PROVE  Number(s, i) < Number(s, j)
<1> DEFINE S == {k \in Billed(s) : k <= i}
           T == {k \in Billed(s) : k <= j}
<1>1. Billed(s) \subseteq 1..Len(s) /\ Len(s) \in Nat
  BY LineSeq DEF Billed
<1>2. IsFiniteSet(T)
  <2>1. T \in SUBSET (1..Len(s))
    BY <1>1
  <2>2. IsFiniteSet(1..Len(s))
    BY <1>1, FS_Interval
  <2>3. QED
    BY <2>1, <2>2, FS_Subset
<1>3. S \in SUBSET T /\ j \in T /\ j \notin S
  BY <1>1
<1>4. IsFiniteSet(S) /\ Cardinality(S) <= Cardinality(T) /\ Cardinality(S) # Cardinality(T)
  <2> HIDE DEF S, T
  <2> QED BY <1>2, <1>3, FS_Subset
<1>5. Cardinality(S) \in Nat /\ Cardinality(T) \in Nat
  <2> HIDE DEF S, T
  <2> QED BY <1>2, <1>4, FS_CardinalityType
<1>6. QED
  BY <1>4, <1>5 DEF Number

LEMMA NumbersDiffer ==
  ASSUME calls \in 0..MaxCalls, NEW s \in Seq(Line), TokensSound(s),
         NEW i \in Billed(s), NEW j \in Billed(s), Number(s, i) = Number(s, j)
  PROVE  i = j
<1>1. i \in Nat /\ j \in Nat
  BY LineSeq DEF Billed
<1>2. Number(s, i) \in 1..MaxCalls
  BY NumberOf
<1>3. ~(i < j) /\ ~(j < i)
  BY <1>2, NumbersIncrease, BoundAssumption
<1>4. QED
  BY <1>1, <1>3

-----------------------------------------------------------------------------
(* The replayed prefix.  The offsets are a recursion on the number of the  *)
(* line: there is a solution of its equation, and by a smallest            *)
(* counterexample no other.                                                *)

OffsetAfter(r, p, cutoff, f, i) ==
  IF i = 0 THEN 0
  ELSE IF i \notin TokenLines(r) THEN f[i - 1]
  ELSE IF Matches(r[i], p, cutoff, f[i - 1]) = {} THEN Len(p) + 1
  ELSE Min(Matches(r[i], p, cutoff, f[i - 1]))

LEMMA OffsetsAre ==
  ASSUME NEW r \in Seq(Line), NEW p, NEW cutoff,
         NEW g, g = [i \in 0..Len(r) |-> g[i]],
         \A i \in 0..Len(r) : g[i] = OffsetAfter(r, p, cutoff, g, i)
  PROVE  \A i \in 0..Len(r) : Offsets(r, p, cutoff)[i] = g[i]
<1> DEFINE Equation(h) ==
             h = [i \in 0..Len(r) |->
                   IF i = 0 THEN 0
                   ELSE IF i \notin TokenLines(r) THEN h[i - 1]
                   ELSE IF Matches(r[i], p, cutoff, h[i - 1]) = {} THEN Len(p) + 1
                   ELSE Min(Matches(r[i], p, cutoff, h[i - 1]))]
           f == CHOOSE h : Equation(h)
<1>1. Equation(g)
  <2> DEFINE k == [i \in 0..Len(r) |->
                   IF i = 0 THEN 0
                   ELSE IF i \notin TokenLines(r) THEN g[i - 1]
                   ELSE IF Matches(r[i], p, cutoff, g[i - 1]) = {} THEN Len(p) + 1
                   ELSE Min(Matches(r[i], p, cutoff, g[i - 1]))]
  <2>1. \A i \in 0..Len(r) : g[i] = k[i]
    BY DEF OffsetAfter
  <2>2. k = [i \in 0..Len(r) |-> k[i]]
    OBVIOUS
  <2>3. g = k
    <3> HIDE DEF k
    <3> QED BY <2>1, <2>2
  <2>4. QED
    BY <2>3
<1>2. Equation(f)
  <2> HIDE DEF Equation
  <2> QED BY <1>1
<1>3. Offsets(r, p, cutoff) = f
  BY DEF Offsets
<1>4. \A i \in 0..Len(r) : f[i] = OffsetAfter(r, p, cutoff, f, i)
  <2> HIDE DEF f
  <2> QED BY <1>2 DEF OffsetAfter
<1> DEFINE Bad == {i \in 0..Len(r) : f[i] # g[i]}
<1>5. ASSUME NEW i \in Bad, \A j \in Bad : i <= j PROVE FALSE
  <2>1. Len(r) \in Nat /\ i \in 0..Len(r)
    BY LineSeq
  <2>2. CASE i = 0
    <3>1. f[i] = 0 /\ g[i] = 0
      <4> HIDE DEF f
      <4> QED BY <1>4, <2>1, <2>2 DEF OffsetAfter
    <3>2. QED
      BY <3>1
  <2>3. CASE i # 0
    <3>1. i - 1 \in 0..Len(r) /\ ~(i <= i - 1)
      BY <2>1, <2>3
    <3>2. i - 1 \notin Bad
      <4> HIDE DEF Bad
      <4> QED BY <1>5, <3>1
    <3>3. f[i - 1] = g[i - 1]
      BY <3>1, <3>2
    <3>4. OffsetAfter(r, p, cutoff, f, i) = OffsetAfter(r, p, cutoff, g, i)
      <4> HIDE DEF f
      <4> QED BY <2>3, <3>3 DEF OffsetAfter
    <3>5. f[i] = g[i]
      <4> HIDE DEF f
      <4> QED BY <1>4, <2>1, <3>4
    <3>6. QED
      BY <3>5
  <2>4. QED
    BY <2>2, <2>3
<1>6. Bad = {}
  <2>1. Bad \in SUBSET Nat
    BY LineSeq
  <2> HIDE DEF Bad
  <2> QED BY <1>5, <2>1, LeastNatural
<1>7. QED
  <2> HIDE DEF f
  <2> QED BY <1>3, <1>6

(* What the fork's lines say: the parent's lines up to the cutoff are in   *)
(* their places, and all others come after them.                           *)
LEMMA ReplayIs ==
  ASSUME NEW r \in Seq(Line), NEW p \in Seq(Line), NEW cutoff \in Nat,
         \A i \in SignaturesAt(p, cutoff) : i \in DOMAIN r /\ r[i] = p[i],
         \A i \in TokenLines(r) \ SignaturesAt(p, cutoff) :
           \A j \in SignaturesAt(p, cutoff) : j < i
  PROVE  MatchingReplayPrefix(r, p, cutoff) = SignaturesAt(p, cutoff)
<1> DEFINE C == SignaturesAt(p, cutoff)
           over(i) == \E k \in TokenLines(r) \ C : k <= i
           copies(i) == {0} \cup {j \in C : j <= i}
           g == [i \in 0..Len(r) |-> IF over(i) THEN Len(p) + 1 ELSE Max(copies(i))]
<1>1. Len(r) \in Nat /\ Len(p) \in Nat /\ DOMAIN r = 1..Len(r)
  BY LineSeq
<1>2. TokenLines(r) \subseteq 1..Len(r) /\ C \subseteq 1..Len(p)
  BY LineSeq DEF SignaturesAt
<1>3. C \subseteq TokenLines(r) /\ \A i \in C : r[i] = p[i]
  BY DEF SignaturesAt, TokenLines
<1>4. \A i \in TokenLines(r) \ C : \A j \in C : j < i
  OBVIOUS
<1> HIDE DEF C
<1>5. ASSUME NEW i \in 0..Len(r)
      PROVE  /\ copies(i) \in SUBSET Nat /\ 0 \in copies(i)
             /\ Max(copies(i)) \in copies(i) /\ \A j \in copies(i) : j <= Max(copies(i))
             /\ Max(copies(i)) <= i
  <2>0. \A j \in copies(i) : j \in Nat
    BY <1>1, <1>2
  <2>1. copies(i) \in SUBSET Nat /\ 0 \in copies(i) /\ copies(i) # {} /\ i \in Nat
    <3>1. 0 \in copies(i) /\ i \in Nat
      BY <1>1
    <3> HIDE DEF copies
    <3>2. QED
      BY <2>0, <3>1
  <2>2. \A j \in copies(i) : j <= i
    BY <1>1, <1>2
  <2>3. Max(copies(i)) \in copies(i) /\ \A j \in copies(i) : j <= Max(copies(i))
    <3> HIDE DEF copies
    <3> QED BY <2>1, <2>2, MaxOf
  <2>4. QED
    BY <2>1, <2>2, <2>3
<1>6. \A i \in 0..Len(r) : g[i] = IF over(i) THEN Len(p) + 1 ELSE Max(copies(i))
  OBVIOUS
<1>7. g = [i \in 0..Len(r) |-> g[i]]
  OBVIOUS
<1>8. ASSUME NEW i \in 0..Len(r)
      PROVE  g[i] = OffsetAfter(r, p, cutoff, g, i)
  <2> HIDE DEF g
  <2>1. CASE i = 0
    <3>1. ~over(i)
      BY <1>2, <2>1
    <3>2. \A j \in C : ~(j <= i)
      BY <1>1, <1>2, <2>1
    <3>2a. copies(i) = {0}
      BY <3>2
    <3>3. Max(copies(i)) = 0
      BY <1>5, <3>2a
    <3>4. QED
      BY <1>6, <2>1, <3>1, <3>3 DEF OffsetAfter
  <2>2. CASE i # 0 /\ i \notin TokenLines(r)
    <3>1. i - 1 \in 0..Len(r)
      BY <1>1, <2>2
    <3>2. over(i) <=> over(i - 1)
      BY <1>1, <1>2, <2>2
    <3>3. \A j \in C : j <= i <=> j <= i - 1
      <4>1. \A j \in C : j \in Nat /\ j # i
        BY <1>1, <1>2, <1>3, <2>2
      <4>2. QED
        BY <1>1, <4>1
    <3>3a. copies(i) = copies(i - 1)
      BY <3>3
    <3>4. g[i] = g[i - 1]
      <4> HIDE DEF over, copies
      <4> QED BY <1>6, <3>1, <3>2, <3>3a
    <3>5. QED
      BY <2>2, <3>4 DEF OffsetAfter
  <2>3. CASE i \in C
    <3>1. i \in 1..Len(r) /\ i - 1 \in 0..Len(r) /\ i \in TokenLines(r)
      BY <1>2, <1>3, <2>3
    <3>2. ~over(i) /\ ~over(i - 1)
      BY <1>2, <1>4, <2>3, <3>1
    <3>3. Max(copies(i)) = i
      <4>1. i \in copies(i)
        BY <2>3, <3>1
      <4> HIDE DEF copies
      <4>2. i <= Max(copies(i)) /\ Max(copies(i)) <= i /\ Max(copies(i)) \in Nat
        BY <1>5, <4>1
      <4>3. QED
        BY <4>2, <3>1
    <3>4. g[i] = i /\ g[i - 1] = Max(copies(i - 1))
      <4> HIDE DEF over, copies
      <4> QED BY <1>6, <3>1, <3>2, <3>3
    <3> DEFINE M == Matches(r[i], p, cutoff, g[i - 1])
    <3>5. M \in SUBSET Nat /\ \A j \in M : j \in C /\ j > g[i - 1]
      BY <1>2 DEF Matches, C
    <3>6. Max(copies(i - 1)) <= i - 1 /\ Max(copies(i - 1)) \in Nat
      BY <1>5, <3>1
    <3>7. i \in M
      BY <1>3, <2>3, <3>1, <3>4, <3>6 DEF Matches, C
    <3>8. \A j \in M : i <= j
      <4>1. SUFFICES ASSUME NEW j \in M, j < i PROVE FALSE
        BY <1>2, <3>1, <3>5
      <4>2. j \in copies(i - 1)
        BY <1>2, <3>1, <3>5, <4>1
      <4>3. j <= Max(copies(i - 1))
        BY <1>5, <3>1, <4>2
      <4>4. QED
        BY <1>2, <3>4, <3>5, <3>6, <4>3
    <3>9. Min(M) = i
      <4> HIDE DEF M
      <4> QED BY <3>5, <3>7, <3>8, MinIs
    <3>10. QED
      BY <3>1, <3>4, <3>7, <3>9 DEF OffsetAfter
  <2>4. CASE i \in TokenLines(r) \ C
    <3>1. i \in 1..Len(r) /\ i - 1 \in 0..Len(r)
      BY <1>2, <2>4
    <3>2. over(i)
      BY <2>4, <3>1
    <3>3. g[i] = Len(p) + 1
      BY <1>6, <3>2
    <3>4. ASSUME NEW j \in Matches(r[i], p, cutoff, g[i - 1]) PROVE FALSE
      <4>1. j \in C /\ j > g[i - 1] /\ j \in 1..Len(p)
        BY <1>2, <3>4 DEF Matches, C
      <4>2. j < i
        BY <1>4, <2>4, <4>1
      <4>3. CASE over(i - 1)
        <5>1. g[i - 1] = Len(p) + 1
          BY <1>6, <3>1, <4>3
        <5>2. QED
          BY <1>1, <4>1, <5>1
      <4>4. CASE ~over(i - 1)
        <5>1. j \in copies(i - 1)
          BY <3>1, <4>1, <4>2
        <5>2. j <= Max(copies(i - 1)) /\ Max(copies(i - 1)) \in Nat
          BY <1>5, <3>1, <5>1
        <5>3. g[i - 1] = Max(copies(i - 1))
          BY <1>6, <3>1, <4>4
        <5>4. QED
          BY <4>1, <5>2, <5>3
      <4>5. QED
        BY <4>3, <4>4
    <3>5. QED
      BY <2>4, <3>1, <3>3, <3>4 DEF OffsetAfter
  <2>5. QED
    BY <1>3, <2>1, <2>2, <2>3, <2>4
<1>9. \A i \in 0..Len(r) : Offsets(r, p, cutoff)[i] = g[i]
  <2> HIDE DEF g
  <2> QED BY <1>7, <1>8, OffsetsAre
<1>10. \A i \in TokenLines(r) : g[i] <= Len(p) <=> i \in C
  <2>1. SUFFICES ASSUME NEW i \in TokenLines(r) PROVE g[i] <= Len(p) <=> i \in C
    OBVIOUS
  <2>2. i \in 1..Len(r) /\ i \in 0..Len(r)
    BY <1>2
  <2>3. CASE i \in C
    <3>1. ~over(i)
      BY <1>2, <1>4, <2>2, <2>3
    <3>2. Max(copies(i)) \in copies(i)
      BY <1>5, <2>2
    <3>3. Max(copies(i)) <= Len(p)
      <4>1. \A j \in copies(i) : j <= Len(p)
        BY <1>1, <1>2
      <4> HIDE DEF copies
      <4>2. QED
        BY <3>2, <4>1
    <3>4. g[i] = Max(copies(i))
      BY <1>6, <2>2, <3>1
    <3>5. QED
      BY <2>3, <3>3, <3>4
  <2>4. CASE i \notin C
    <3>1. over(i)
      BY <2>2, <2>4
    <3>2. g[i] = Len(p) + 1
      BY <1>6, <2>2, <3>1
    <3>3. QED
      BY <1>1, <2>4, <3>2
  <2>5. QED
    BY <2>3, <2>4
<1>11. MatchingReplayPrefix(r, p, cutoff) = C
  <2> HIDE DEF g
  <2>1. \A i \in TokenLines(r) : Offsets(r, p, cutoff)[i] = g[i]
    BY <1>2, <1>9
  <2>2. QED
    BY <1>3, <1>10, <2>1 DEF MatchingReplayPrefix
<1>12. QED
  BY <1>11 DEF C

-----------------------------------------------------------------------------
(* The states of the invariant.                                            *)

LEMMA LogFacts ==
  ASSUME CodexInv, NEW t \in Threads
  PROVE  /\ log[t] \in Seq(Line) /\ TokensSound(log[t])
         /\ Len(log[t]) \in Nat /\ DOMAIN log[t] = 1..Len(log[t])
         /\ Written(t) \in 0..Len(log[t])
         /\ flushed \in 0..Len(log["parent"]) /\ Written("parent") = flushed
         /\ calls \in 0..MaxCalls /\ calls \in Nat
<1>1. log \in [Threads -> Seq(Line)] /\ "parent" \in Threads /\ "child" \in Threads
  BY DEF CodexInv, TypeOK, Threads
<1>2. \A u \in Threads : log[u] \in Seq(Line) /\ Len(log[u]) \in Nat
                         /\ DOMAIN log[u] = 1..Len(log[u])
  BY <1>1, LineSeq
<1>3. flushed \in 0..Len(log["parent"])
  BY DEF CodexInv, TypeOK
<1>4. Written(t) \in 0..Len(log[t])
  BY <1>1, <1>2, <1>3 DEF Written, Threads
<1>5. calls \in 0..MaxCalls /\ calls \in Nat
  BY BoundAssumption DEF CodexInv, TypeOK
<1>6. QED
  BY <1>2, <1>3, <1>4, <1>5 DEF CodexInv, Written

LEMMA CopiedFacts ==
  ASSUME CodexInv
  PROVE  /\ Copied \subseteq 1..Len(log["parent"])
         /\ forkedAt = 0 => Copied = {}
         /\ \A i \in Copied : i \in 1..Len(log["child"]) /\ log["child"][i] = log["parent"][i]
         /\ \A j \in Copied : \A i \in 1..j : i \in Copied
<1>1. /\ DOMAIN log["parent"] = 1..Len(log["parent"]) /\ Len(log["parent"]) \in Nat
      /\ DOMAIN log["child"] = 1..Len(log["child"]) /\ Len(log["child"]) \in Nat
  BY LogFacts DEF Threads
<1>2. \A i \in 1..Len(log["parent"]) : log["parent"][i].at \in 1..now
  BY <1>1 DEF CodexInv, ParentSound
<1>3. \A i, j \in 1..Len(log["parent"]) : i < j => log["parent"][i].at < log["parent"][j].at
  BY <1>1 DEF CodexInv, ParentSound
<1>4. now \in Nat /\ forkedAt \in Nat
  BY DEF CodexInv, TypeOK
<1>5. ASSUME NEW j \in Copied, NEW i \in 1..j PROVE i \in Copied
  <2>1. j \in 1..Len(log["parent"]) /\ log["parent"][j].at <= forkedAt
    BY <1>1 DEF Copied
  <2>2. i \in 1..Len(log["parent"]) /\ (i = j \/ i < j)
    BY <1>1, <2>1
  <2>3. log["parent"][i].at <= forkedAt
    BY <1>2, <1>3, <1>4, <2>1, <2>2
  <2>4. QED
    BY <1>1, <2>2, <2>3 DEF Copied
<1>6. ASSUME forkedAt = 0 PROVE Copied = {}
  BY <1>1, <1>2, <1>6 DEF Copied
<1>7. \A i \in Copied : i \in 1..Len(log["child"]) /\ log["child"][i] = log["parent"][i]
  BY <1>1 DEF CodexInv, CopiesSound
<1>8. QED
  BY <1>1, <1>5, <1>6, <1>7 DEF Copied

LEMMA OwnFacts ==
  ASSUME CodexInv, NEW t \in Threads, NEW i \in Own(t)
  PROVE  /\ i \in TokenLines(log[t]) /\ i \in 1..Len(log[t]) /\ New(log[t], i)
         /\ i \in Billed(log[t]) /\ log[t][i].call \in 1..calls
         /\ t = "child" => i \notin Copied
<1>1. log[t] \in Seq(Line) /\ TokensSound(log[t]) /\ calls \in Nat
  BY LogFacts
<1>2. i \in TokenLines(log[t]) /\ New(log[t], i) /\ (t = "child" => i \notin Copied)
  BY DEF Own
<1>3. QED
  BY <1>1, <1>2, SoundBilled, LineSeq DEF TokensSound

(* A line has one number and one call.                                     *)
LEMMA CallRowType ==
  ASSUME CodexInv, NEW t \in Threads, NEW i \in Own(t)
  PROVE  CallRow(t, i) \in Row
<1>1. log[t] \in Seq(Line) /\ TokensSound(log[t]) /\ calls \in 0..MaxCalls /\ calls \in Nat
  BY LogFacts
<1>2. Number(log[t], i) \in 1..MaxCalls
  BY <1>1, OwnFacts, NumberOf
<1>3. log[t][i].call \in 1..MaxCalls
  BY <1>1, OwnFacts, BoundAssumption
<1>4. QED
  BY <1>2, <1>3 DEF CallRow, Row

LEMMA CallRowsDiffer ==
  ASSUME CodexInv, NEW t \in Threads, NEW i \in Own(t), NEW j \in Own(t),
         CallRow(t, i).index = CallRow(t, j).index
  PROVE  i = j
<1>1. log[t] \in Seq(Line) /\ TokensSound(log[t]) /\ calls \in 0..MaxCalls
  BY LogFacts
<1>2. Number(log[t], i) = Number(log[t], j)
  BY DEF CallRow
<1>3. QED
  BY <1>1, <1>2, OwnFacts, NumbersDiffer

-----------------------------------------------------------------------------
(* A commit.  A parent's file that is sealed holds all that was copied.    *)

LEMMA SealedHoldsCopies ==
  ASSUME CodexInv, Sealed(File("parent"), forkedAt)
  PROVE  \A i \in Copied : i <= flushed
<1> DEFINE parent == log["parent"]
<1>1. /\ parent \in Seq(Line) /\ Len(parent) \in Nat /\ DOMAIN parent = 1..Len(parent)
      /\ flushed \in 0..Len(parent) /\ File("parent") = SubSeq(parent, 1, flushed)
  BY LogFacts DEF Threads, File, Written
<1>2. /\ File("parent") \in Seq(Line) /\ Len(File("parent")) = flushed
      /\ DOMAIN File("parent") = 1..flushed
      /\ \A i \in 1..flushed : File("parent")[i] = parent[i]
  BY <1>1, Beginning, LineSeq
<1>3. Ends(File("parent")) = {i \in Ends(parent) : i <= flushed}
  BY <1>1, <1>2 DEF Ends
<1>4. Copied \subseteq 1..Len(parent) /\ \A j \in Copied : \A i \in 1..j : i \in Copied
  BY CopiedFacts
<1>5. CASE archived
  BY <1>1, <1>4, <1>5 DEF CodexInv, ParentSound
<1>6. CASE \E e \in Ends(File("parent")) : File("parent")[e].at >= forkedAt
  <2>1. PICK e \in 1..flushed : parent[e].at >= forkedAt
    BY <1>2, <1>6 DEF Ends
  <2>2. SUFFICES ASSUME NEW i \in Copied, flushed < i PROVE FALSE
    BY <1>1, <1>4
  <2>3. e \in DOMAIN parent /\ i \in DOMAIN parent /\ e < i
    BY <1>1, <1>4, <2>1, <2>2
  <2>4. parent[e].at < parent[i].at /\ parent[i].at <= forkedAt
    BY <2>3 DEF CodexInv, ParentSound, Copied
  <2>5. parent[e].at \in Nat /\ parent[i].at \in Nat /\ forkedAt \in Nat
    BY <1>1, <2>3, LineSeq DEF CodexInv, TypeOK
  <2>6. QED
    BY <2>1, <2>4, <2>5
<1>7. CASE Len(File("parent")) \in Ends(File("parent"))
  <2>1. flushed \in Ends(parent) /\ flushed \in 1..Len(parent)
    BY <1>1, <1>2, <1>3, <1>7 DEF Ends
  <2>2. SUFFICES ASSUME NEW i \in Copied, flushed < i PROVE FALSE
    BY <1>1, <1>4
  <2>3. flushed + 1 \in 1..i /\ flushed + 1 \in DOMAIN parent
    BY <1>1, <1>4, <2>1, <2>2
  <2>4. flushed + 1 \in Copied
    BY <1>4, <2>3
  <2>5. parent[flushed + 1].kind # "started"
    BY <1>1, <2>4 DEF CodexInv, CopiesSound
  <2>6. parent[flushed + 1].kind = "started"
    BY <2>1, <2>3 DEF CodexInv, ParentSound
  <2>7. QED
    BY <2>5, <2>6
<1>8. QED
  BY <1>5, <1>6, <1>7 DEF Sealed

(* How many lines of a file the pass has read.                             *)
Read(t) == IF t = "parent" THEN flushed ELSE seen

LEMMA LinesRead ==
  ASSUME CodexInv, NEW t \in Threads
  PROVE  /\ Lines(t) \in Seq(Line) /\ TokensSound(Lines(t)) /\ Len(Lines(t)) = Read(t)
         /\ Read(t) \in 0..Len(log[t])
         /\ DOMAIN Lines(t) = 1..Read(t)
         /\ TokenLines(Lines(t)) = {i \in TokenLines(log[t]) : i <= Read(t)}
         /\ Billed(Lines(t)) = {i \in TokenLines(log[t]) : i <= Read(t) /\ New(log[t], i)}
         /\ \A i \in 1..Read(t) : Lines(t)[i] = log[t][i] /\ Same(Lines(t), log[t], i)
<1>1. /\ log[t] \in Seq(Line) /\ TokensSound(log[t]) /\ Len(log[t]) \in Nat
      /\ flushed \in 0..Len(log["parent"]) /\ calls \in Nat
  BY LogFacts
<1>2. seen \in 0..Len(log["child"])
  BY DEF CodexInv, TypeOK, Written
<1>3. Lines(t) = SubSeq(log[t], 1, Read(t)) /\ Read(t) \in 0..Len(log[t])
  BY <1>1, <1>2 DEF Lines, File, Written, Read, Threads
<1>4. /\ Lines(t) \in Seq(Line) /\ Len(Lines(t)) = Read(t)
      /\ \A i \in 1..Read(t) : Lines(t)[i] = log[t][i] /\ Same(Lines(t), log[t], i)
      /\ TokenLines(Lines(t)) = {i \in TokenLines(log[t]) : i <= Read(t)}
  BY <1>1, <1>3, Beginning
<1>5. TokensSound(Lines(t))
  BY <1>1, <1>3, SoundBeginning
<1>6. Billed(Lines(t)) = {i \in TokenLines(Lines(t)) : New(Lines(t), i)}
  BY <1>1, <1>4, <1>5, SoundBilled
<1>7. \A i \in TokenLines(Lines(t)) : i \in 1..Read(t) /\ i \in Nat
  BY <1>4, LineSeq
<1>8. \A i \in TokenLines(Lines(t)) : New(Lines(t), i) <=> New(log[t], i)
  BY <1>1, <1>4, <1>7, SameBeginning
<1>9. DOMAIN Lines(t) = 1..Read(t)
  BY <1>4, LineSeq
<1>10. QED
  BY <1>3, <1>4, <1>5, <1>6, <1>8, <1>9

LEMMA ReplayedIs ==
  ASSUME CodexInv, ~Deferred("child"), Billed(Lines("child")) # {}
  PROVE  Replayed("child") = {i \in TokenLines(log["child"]) : i \in Copied}
<1> DEFINE r == Lines("child")
           p == File("parent")
           C == SignaturesAt(p, forkedAt)
<1>1. Sealed(p, forkedAt)
  BY DEF Deferred
<1>2. \A i \in Copied : i <= flushed
  BY <1>1, SealedHoldsCopies
<1>3. /\ r \in Seq(Line) /\ DOMAIN r = 1..seen /\ seen \in 0..Len(log["child"])
      /\ TokenLines(r) = {i \in TokenLines(log["child"]) : i <= seen}
      /\ \A i \in 1..seen : r[i] = log["child"][i]
      /\ Billed(r) = {i \in TokenLines(log["child"]) : i <= seen /\ New(log["child"], i)}
  BY LinesRead DEF Threads, Read
<1>4. /\ p \in Seq(Line) /\ DOMAIN p = 1..flushed /\ \A i \in 1..flushed : p[i] = log["parent"][i]
      /\ flushed \in 0..Len(log["parent"])
  BY LinesRead DEF Threads, Read, Lines
<1>5. /\ log["parent"] \in Seq(Line) /\ DOMAIN log["parent"] = 1..Len(log["parent"])
      /\ log["child"] \in Seq(Line) /\ DOMAIN log["child"] = 1..Len(log["child"])
      /\ Len(log["child"]) \in Nat /\ Len(log["parent"]) \in Nat
  BY LogFacts DEF Threads
<1>6. forkedAt \in Nat
  BY DEF CodexInv, TypeOK
<1>7. seen # 0
  <2>1. PICK i \in TokenLines(log["child"]) : i <= seen
    BY <1>3
  <2>2. i \in 1..Len(log["child"])
    BY <1>5, <2>1 DEF TokenLines
  <2>3. QED
    BY <1>5, <2>1, <2>2
<1>8. \A i \in Copied : i \in 1..seen /\ i \in 1..flushed /\ log["child"][i] = log["parent"][i]
  BY <1>2, <1>3, <1>4, <1>5, <1>7, CopiedFacts DEF CodexInv, CopiesSound
<1>9. C = {i \in TokenLines(log["parent"]) : i \in Copied}
  BY <1>4, <1>5, <1>8 DEF SignaturesAt, TokenLines, Copied
<1>10. C = {i \in TokenLines(log["child"]) : i \in Copied}
  BY <1>5, <1>8, <1>9, CopiedFacts DEF TokenLines
<1>11. \A i \in C : i \in DOMAIN r /\ r[i] = p[i]
  BY <1>3, <1>4, <1>8, <1>9
<1>12. ASSUME NEW i \in TokenLines(r) \ C, NEW j \in C PROVE j < i
  <2>1. i \in 1..seen /\ i \notin Copied
    BY <1>3, <1>5, <1>10 DEF TokenLines
  <2>2. j \in Copied /\ j \in 1..seen
    BY <1>8, <1>10
  <2>3. i \notin 1..j
    BY <2>1, <2>2, CopiedFacts
  <2>4. QED
    BY <1>3, <2>1, <2>2, <2>3
<1>13. MatchingReplayPrefix(r, p, forkedAt) = C
  <2> HIDE DEF r, p
  <2> QED BY <1>3, <1>4, <1>6, <1>11, <1>12, ReplayIs
<1>14. QED
  BY <1>10, <1>13 DEF Replayed

(* The rows of a file that is not deferred are those of the thread's own   *)
(* calls in it.                                                            *)
LEMMA RowsAre ==
  ASSUME CodexInv, NEW t \in Threads, ~Deferred(t)
  PROVE  RowsOf(t) = {CallRow(t, i) : i \in {i \in Own(t) : i <= Read(t)}}
<1>1. /\ Lines(t) \in Seq(Line) /\ TokensSound(Lines(t)) /\ Read(t) \in Nat
      /\ TokenLines(Lines(t)) = {i \in TokenLines(log[t]) : i <= Read(t)}
      /\ Billed(Lines(t)) = {i \in TokenLines(log[t]) : i <= Read(t) /\ New(log[t], i)}
      /\ \A i \in 1..Read(t) : Lines(t)[i] = log[t][i] /\ Same(Lines(t), log[t], i)
      /\ DOMAIN Lines(t) = 1..Read(t)
  BY LinesRead, LogFacts
<1>2. log[t] \in Seq(Line) /\ calls \in Nat
  BY LogFacts
<1>3. ASSUME NEW i \in Billed(Lines(t)) PROVE RowOf(t, i) = CallRow(t, i)
  <2>1. i \in TokenLines(Lines(t)) /\ New(Lines(t), i)
    BY <1>1, <1>2, SoundBilled
  <2>2. i \in 1..Read(t) /\ i \in Nat
    BY <1>1, <2>1 DEF TokenLines
  <2>3. Delta(Lines(t), i) = 1
    BY <1>1, <1>2, <2>1, SoundDelta
  <2>4. Number(Lines(t), i) = Number(log[t], i)
    BY <1>1, <1>2, <2>2, SameNumber
  <2>5. QED
    BY <1>1, <2>2, <2>3, <2>4 DEF RowOf, CallRow
<1>4. Billed(Lines(t)) \ Replayed(t) = {i \in Own(t) : i <= Read(t)}
  <2>1. CASE t = "parent"
    BY <1>1, <2>1 DEF Replayed, Own
  <2>2. CASE t = "child" /\ Billed(Lines(t)) # {}
    <3>1. Replayed(t) = {i \in TokenLines(log[t]) : i \in Copied}
      BY <2>2, ReplayedIs
    <3>2. QED
      BY <1>1, <2>2, <3>1 DEF Own
  <2>3. CASE t = "child" /\ Billed(Lines(t)) = {}
    BY <1>1, <2>3 DEF Own
  <2>4. QED
    BY <2>1, <2>2, <2>3 DEF Threads
<1>5. QED
  BY <1>3, <1>4 DEF RowsOf

(* What the lines and the fork say stays as it is while Codex rests.       *)
LEMMA CodexRests ==
  ASSUME CodexInv, UNCHANGED codexVars
  PROVE  /\ Copied' = Copied /\ ParentSound' /\ OwnDisjoint'
         /\ \A t \in Threads : /\ TokensSound(log[t])' /\ Own(t)' = Own(t)
                               /\ Written(t)' = Written(t)
                               /\ \A i \in Own(t) : CallRow(t, i)' = CallRow(t, i)
<1>1. /\ now' = now /\ log' = log /\ flushed' = flushed /\ inTurn' = inTurn
      /\ forkedAt' = forkedAt /\ archived' = archived /\ calls' = calls
  BY DEF codexVars
<1>2. Copied' = Copied
  BY <1>1 DEF Copied
<1>3. ParentSound'
  BY <1>1 DEF CodexInv, ParentSound
<1>4. \A t \in Threads : /\ Own(t)' = Own(t) /\ Written(t)' = Written(t)
                         /\ \A i \in Own(t) : CallRow(t, i)' = CallRow(t, i)
  BY <1>1, <1>2 DEF Own, CallRow, Written
<1>5. OwnDisjoint'
  BY <1>1, <1>4 DEF CodexInv, OwnDisjoint, Threads
<1>6. \A t \in Threads : TokensSound(log[t])'
  BY <1>1 DEF CodexInv, TokensSound
<1>7. QED
  BY <1>2, <1>3, <1>4, <1>5, <1>6

LEMMA CommitKeeps ==
  ASSUME CodexInv, Commit
  PROVE  CodexInv'
<1> DEFINE read == {t \in Threads : ~Deferred(t)}
           rows == UNION {RowsOf(t) : t \in read}
<1>1. /\ UNCHANGED codexVars /\ ledger' = Upserted(rows) /\ cursors' = CursorsAfter
      /\ pc' = "idle" /\ seen' = 0
  BY DEF Commit
<1>2. /\ now' = now /\ log' = log /\ flushed' = flushed /\ inTurn' = inTurn
      /\ forkedAt' = forkedAt /\ archived' = archived /\ calls' = calls /\ turns' = turns
  BY <1>1 DEF codexVars
<1>3. \A row \in rows :
        \E t \in Threads : \E i \in Own(t) : row = CallRow(t, i)
  BY RowsAre
<1>4. \A t \in Threads : \A i \in Own(t) : ~Deferred(t) /\ i <= Read(t) => CallRow(t, i) \in rows
  BY RowsAre
<1> HIDE DEF rows
<1>5. ledger \subseteq ledger'
  <2>1. SUFFICES ASSUME NEW old \in ledger, NEW row \in rows,
                        row.thread = old.thread, row.index = old.index
                 PROVE  old = row
    BY <1>1 DEF Upserted
  <2>2. PICK t \in Threads : \E i \in Own(t) : old = CallRow(t, i)
    BY DEF CodexInv, LedgerSound
  <2>2a. PICK i \in Own(t) : old = CallRow(t, i)
    BY <2>2
  <2>3. PICK u \in Threads : \E j \in Own(u) : row = CallRow(u, j)
    BY <1>3
  <2>3a. PICK j \in Own(u) : row = CallRow(u, j)
    BY <2>3
  <2>4. t = u
    BY <2>1, <2>2a, <2>3a DEF CallRow
  <2>5. i = j
    BY <2>1, <2>2a, <2>3a, <2>4, CallRowsDiffer
  <2>6. QED
    BY <2>2a, <2>3a, <2>4, <2>5
<1>6. ledger' \subseteq ledger \cup rows /\ rows \subseteq ledger'
  BY <1>1 DEF Upserted
<1>7. \A row \in ledger' : \E t \in Threads : \E i \in Own(t) : row = CallRow(t, i)
  BY <1>3, <1>6 DEF CodexInv, LedgerSound
<1>8. \A t \in Threads : cursors'[t] = cursors[t]
                         \/ (~Deferred(t) /\ cursors'[t] = Written(t) /\ Written(t) = Read(t))
  BY <1>1 DEF CursorsAfter, Read, Written, Threads
<1>9. \A t \in Threads : \A i \in Own(t) : i <= cursors'[t] => CallRow(t, i) \in ledger'
  BY <1>4, <1>5, <1>6, <1>8 DEF CodexInv, LedgerSound
<1>10. LedgerSound'
  BY <1>1, <1>7, <1>9, CodexRests DEF LedgerSound
<1>11. TypeOK'
  <2>1. ledger' \subseteq Row
    BY <1>7, CallRowType
  <2>2. \A t \in Threads : Written(t) \in Nat /\ Written(t)' = Written(t)
    BY <1>1, CodexRests, LogFacts
  <2>3. cursors \in [Threads -> Nat] /\ \A t \in Threads : cursors[t] <= Written(t)
    BY DEF CodexInv, TypeOK
  <2>4. cursors' = [t \in Threads |-> cursors'[t]]
    BY <1>1 DEF CursorsAfter
  <2>5. \A t \in Threads : cursors'[t] \in Nat /\ cursors'[t] <= Written(t)'
    BY <1>8, <2>2, <2>3
  <2>6. cursors' \in [Threads -> Nat]
    BY <2>4, <2>5
  <2>7. seen' \in 0..Written("child")'
    BY <1>1, <2>2 DEF Threads
  <2>8. QED
    BY <1>1, <1>2, <2>1, <2>5, <2>6, <2>7 DEF CodexInv, TypeOK
<1>12. CopiesSound'
  BY <1>1, <1>2, CodexRests DEF CodexInv, CopiesSound
<1>13. QED
  BY <1>1, <1>10, <1>11, <1>12, CodexRests DEF CodexInv

LEMMA ParseKeeps ==
  ASSUME CodexInv, Parse
  PROVE  CodexInv'
<1>1. /\ UNCHANGED codexVars /\ ledger' = ledger /\ cursors' = cursors /\ pc' = "commit"
      /\ seen' \in {0, Written("child")}
  BY DEF Parse
<1>2. /\ now' = now /\ log' = log /\ flushed' = flushed /\ inTurn' = inTurn
      /\ forkedAt' = forkedAt /\ archived' = archived /\ calls' = calls /\ turns' = turns
  BY <1>1 DEF codexVars
<1>3. LedgerSound'
  BY <1>1, CodexRests DEF CodexInv, LedgerSound
<1>4. Written("child") = Len(log["child"]) /\ Len(log["child"]) \in Nat
  BY LogFacts DEF Written, Threads
<1>5. \A t \in Threads : Written(t)' = Written(t)
  BY <1>1, CodexRests
<1>6. TypeOK'
  BY <1>1, <1>2, <1>4, <1>5 DEF CodexInv, TypeOK, Threads
<1>7. CopiesSound'
  BY <1>1, <1>2, <1>4, CodexRests, CopiedFacts DEF CodexInv, CopiesSound
<1>8. QED
  BY <1>1, <1>3, <1>6, <1>7, CodexRests DEF CodexInv

-----------------------------------------------------------------------------
(* A line that is written changes nothing of the lines before it.          *)

Extended(t, x) ==
  /\ log' \in [Threads -> Seq(Line)] /\ now' = now + 1 /\ Copied' = Copied
  /\ log'[t][Len(log[t]) + 1] = x
  /\ \A u \in Threads :
       /\ Len(log'[u]) = IF u = t THEN Len(log[u]) + 1 ELSE Len(log[u])
       /\ DOMAIN log'[u] = 1..Len(log'[u])
       /\ TokenLines(log'[u]) =
            TokenLines(log[u])
              \cup IF u = t /\ x.kind = "token" THEN {Len(log[u]) + 1} ELSE {}
       /\ \A i \in 1..Len(log[u]) :
            /\ log'[u][i] = log[u][i]
            /\ New(log'[u], i) <=> New(log[u], i)
            /\ Repeated(log'[u], i) <=> Repeated(log[u], i)
            /\ Number(log'[u], i) = Number(log[u], i)

LEMMA WriteFacts ==
  ASSUME CodexInv, NEW t \in Threads, NEW x \in Line, x.at = now + 1, Write(t, x),
         forkedAt' = forkedAt
  PROVE  Extended(t, x)
<1>1. \A u \in Threads : /\ log[u] \in Seq(Line) /\ Len(log[u]) \in Nat
                         /\ DOMAIN log[u] = 1..Len(log[u])
  BY LogFacts
<1>2. log \in [Threads -> Seq(Line)] /\ now \in Nat /\ forkedAt \in Nat /\ forkedAt <= now
  BY DEF CodexInv, TypeOK
<1>3. /\ log' = [log EXCEPT ![t] = Append(log[t], x)] /\ now' = now + 1
  BY DEF Write
<1>4. /\ Append(log[t], x) \in Seq(Line) /\ Len(Append(log[t], x)) = Len(log[t]) + 1
      /\ \A i \in 1..Len(log[t]) : Append(log[t], x)[i] = log[t][i]
      /\ Append(log[t], x)[Len(log[t]) + 1] = x
  BY <1>1, AppendProperties
<1>5. /\ log' \in [Threads -> Seq(Line)] /\ log'[t] = Append(log[t], x)
      /\ \A u \in Threads : u # t => log'[u] = log[u]
  BY <1>2, <1>3, <1>4
<1>6. \A u \in Threads :
        /\ log'[u] \in Seq(Line)
        /\ Len(log'[u]) = IF u = t THEN Len(log[u]) + 1 ELSE Len(log[u])
        /\ DOMAIN log'[u] = 1..Len(log'[u])
        /\ \A i \in 1..Len(log[u]) : log'[u][i] = log[u][i]
  <2>1. \A u \in Threads : log'[u] \in Seq(Line)
    BY <1>5
  <2>2. \A u \in Threads : DOMAIN log'[u] = 1..Len(log'[u])
    BY <2>1, LineSeq
  <2>3. QED
    BY <1>4, <1>5, <2>1, <2>2
<1>7. ASSUME NEW u \in Threads, NEW i \in 1..Len(log[u])
      PROVE  /\ New(log'[u], i) <=> New(log[u], i)
             /\ Repeated(log'[u], i) <=> Repeated(log[u], i)
             /\ Number(log'[u], i) = Number(log[u], i)
  <2>1. Same(log'[u], log[u], i) /\ i \in Nat
    BY <1>1, <1>6 DEF Same
  <2>2. log'[u] \in Seq(Line) /\ log[u] \in Seq(Line)
    BY <1>1, <1>6
  <2>3. QED
    BY <2>1, <2>2, SameBeginning, SameNumber
<1>8. ASSUME NEW u \in Threads
      PROVE  TokenLines(log'[u]) =
               TokenLines(log[u])
                 \cup IF u = t /\ x.kind = "token" THEN {Len(log[u]) + 1} ELSE {}
  <2>1. CASE u = t
    <3>1. DOMAIN log'[u] = (1..Len(log[u])) \cup {Len(log[u]) + 1}
      BY <1>1, <1>6, <2>1
    <3>2. log'[u][Len(log[u]) + 1] = x
      BY <1>4, <1>5, <2>1
    <3>3. QED
      BY <1>1, <1>6, <2>1, <3>1, <3>2 DEF TokenLines
  <2>2. CASE u # t
    BY <1>5, <2>2
  <2>3. QED
    BY <2>1, <2>2
<1>9. Copied' = Copied
  <2>1. CASE t = "parent"
    <3>1. DOMAIN log'["parent"] = (1..Len(log["parent"])) \cup {Len(log["parent"]) + 1}
      BY <1>1, <1>6, <2>1
    <3>2. log'["parent"][Len(log["parent"]) + 1].at = now + 1
      BY <1>4, <1>5, <2>1
    <3>3. ~(now + 1 <= forkedAt)
      BY <1>2
    <3>4. QED
      BY <1>1, <1>6, <2>1, <3>1, <3>2, <3>3 DEF Copied
  <2>2. CASE t # "parent"
    BY <1>5, <2>2 DEF Copied, Threads
  <2>3. QED
    BY <2>1, <2>2
<1>10. QED
  BY <1>3, <1>4, <1>5, <1>6, <1>7, <1>8, <1>9 DEF Extended

(* What the line of a call or of a refresh is. *)
TokenWritten(t, x) ==
  x.kind = "token" =>
    /\ x.total \in 1..calls' /\ x.call \in 1..calls' /\ x.last \in {0, 1}
    /\ \/ New(log'[t], Len(log[t]) + 1) /\ x.call > calls
       \/ /\ Repeated(log'[t], Len(log[t]) + 1)
          /\ \E j \in TokenLines(log[t]) : New(log[t], j) /\ log[t][j].call = x.call

LEMMA WriteKeepsTokens ==
  ASSUME CodexInv, NEW t \in Threads, NEW x \in Line, x.at = now + 1, Write(t, x),
         forkedAt' = forkedAt, calls' \in Nat, calls <= calls', TokenWritten(t, x)
  PROVE  \A u \in Threads : TokensSound(log[u])'
<1>1. SUFFICES ASSUME NEW u \in Threads, NEW i \in TokenLines(log'[u])
               PROVE  /\ log'[u][i].total \in 1..calls' /\ log'[u][i].call \in 1..calls'
                      /\ log'[u][i].last \in {0, 1}
                      /\ \/ New(log'[u], i)
                         \/ /\ Repeated(log'[u], i)
                            /\ \E j \in TokenLines(log'[u]) :
                                 /\ j < i /\ New(log'[u], j)
                                 /\ log'[u][j].call = log'[u][i].call
  BY DEF TokensSound
<1>2. /\ log[u] \in Seq(Line) /\ TokensSound(log[u]) /\ Len(log[u]) \in Nat /\ calls \in Nat
      /\ TokenLines(log[u]) \subseteq 1..Len(log[u])
  BY LogFacts, LineSeq
<1>3. /\ TokenLines(log'[u]) =
           TokenLines(log[u])
             \cup IF u = t /\ x.kind = "token" THEN {Len(log[u]) + 1} ELSE {}
      /\ \A k \in 1..Len(log[u]) :
           /\ log'[u][k] = log[u][k]
           /\ New(log'[u], k) <=> New(log[u], k)
           /\ Repeated(log'[u], k) <=> Repeated(log[u], k)
      /\ log'[t][Len(log[t]) + 1] = x
  BY WriteFacts DEF Extended
<1>4. CASE i \in TokenLines(log[u])
  <2>1. i \in 1..Len(log[u]) /\ log'[u][i] = log[u][i]
    BY <1>2, <1>3, <1>4
  <2>2. /\ log[u][i].total \in 1..calls' /\ log[u][i].call \in 1..calls'
        /\ log[u][i].last \in {0, 1}
    BY <1>2, <1>4 DEF TokensSound
  <2>3. CASE New(log[u], i)
    BY <1>3, <2>1, <2>2, <2>3
  <2>4. CASE ~New(log[u], i)
    <3>1. PICK j \in TokenLines(log[u]) : /\ j < i /\ New(log[u], j)
                                          /\ log[u][j].call = log[u][i].call
      BY <1>2, <1>4, <2>4 DEF TokensSound
    <3>2. Repeated(log[u], i)
      BY <1>2, <1>4, <2>4 DEF TokensSound
    <3>3. /\ j \in TokenLines(log'[u]) /\ New(log'[u], j) /\ Repeated(log'[u], i)
          /\ log'[u][j] = log[u][j]
      BY <1>2, <1>3, <2>1, <3>1, <3>2
    <3>4. QED
      BY <2>1, <2>2, <3>1, <3>3
  <2>5. QED
    BY <2>3, <2>4
<1>5. CASE u = t /\ x.kind = "token" /\ i = Len(log[u]) + 1
  <2>1. log'[u][i] = x
    BY <1>3, <1>5
  <2>2. /\ x.total \in 1..calls' /\ x.call \in 1..calls' /\ x.last \in {0, 1}
        /\ \/ New(log'[u], i)
           \/ /\ Repeated(log'[u], i)
              /\ \E j \in TokenLines(log[u]) : New(log[u], j) /\ log[u][j].call = x.call
    BY <1>5 DEF TokenWritten
  <2>3. \A j \in TokenLines(log[u]) :
          /\ j \in TokenLines(log'[u]) /\ j < i /\ log'[u][j] = log[u][j]
          /\ New(log'[u], j) <=> New(log[u], j)
    BY <1>2, <1>3, <1>5
  <2>4. CASE New(log'[u], i)
    BY <2>1, <2>2, <2>4
  <2>5. CASE ~New(log'[u], i)
    <3>1. PICK j \in TokenLines(log[u]) : New(log[u], j) /\ log[u][j].call = x.call
      BY <2>2, <2>5
    <3>2. /\ j \in TokenLines(log'[u]) /\ j < i /\ New(log'[u], j)
          /\ log'[u][j].call = log'[u][i].call
      BY <2>1, <2>3, <3>1
    <3>3. QED
      BY <2>1, <2>2, <2>5, <3>2
  <2>6. QED
    BY <2>4, <2>5
<1>6. QED
  BY <1>3, <1>4, <1>5

LEMMA WriteKeepsOwn ==
  ASSUME CodexInv, NEW t \in Threads, NEW x \in Line, x.at = now + 1, Write(t, x),
         forkedAt' = forkedAt, TokenWritten(t, x)
  PROVE  \A u \in Threads :
           /\ Own(u) \subseteq Own(u)'
           /\ \A i \in Own(u) : CallRow(u, i)' = CallRow(u, i)
           /\ \A i \in Own(u)' : \/ i \in Own(u)
                                 \/ /\ u = t /\ i = Len(log[t]) + 1
                                    /\ x.kind = "token" /\ x.call > calls
<1>1. SUFFICES ASSUME NEW u \in Threads
               PROVE  /\ Own(u) \subseteq Own(u)'
                      /\ \A i \in Own(u) : CallRow(u, i)' = CallRow(u, i)
                      /\ \A i \in Own(u)' : \/ i \in Own(u)
                                            \/ /\ u = t /\ i = Len(log[t]) + 1
                                               /\ x.kind = "token" /\ x.call > calls
  OBVIOUS
<1>2. /\ log[u] \in Seq(Line) /\ Len(log[u]) \in Nat
      /\ TokenLines(log[u]) \subseteq 1..Len(log[u])
  BY LogFacts, LineSeq
<1>3. /\ TokenLines(log'[u]) =
           TokenLines(log[u])
             \cup IF u = t /\ x.kind = "token" THEN {Len(log[u]) + 1} ELSE {}
      /\ \A k \in 1..Len(log[u]) :
           /\ log'[u][k] = log[u][k]
           /\ New(log'[u], k) <=> New(log[u], k)
           /\ Number(log'[u], k) = Number(log[u], k)
      /\ log'[t][Len(log[t]) + 1] = x
      /\ Copied' = Copied
  BY WriteFacts DEF Extended
<1>4. Own(u)' = {i \in TokenLines(log'[u]) : New(log'[u], i)} \ (IF u = "child" THEN Copied ELSE {})
  BY <1>3 DEF Own
<1>5. Own(u) \subseteq Own(u)'
  BY <1>2, <1>3, <1>4 DEF Own
<1>6. \A i \in Own(u) : CallRow(u, i)' = CallRow(u, i)
  BY <1>2, <1>3 DEF Own, CallRow
<1>7. ASSUME NEW i \in Own(u)', i \notin Own(u)
      PROVE  u = t /\ i = Len(log[t]) + 1 /\ x.kind = "token" /\ x.call > calls
  <2>1. i \in TokenLines(log'[u]) /\ New(log'[u], i)
    BY <1>4
  <2>2. i \notin TokenLines(log[u])
    <3>1. SUFFICES ASSUME i \in TokenLines(log[u]) PROVE FALSE
      OBVIOUS
    <3>2. New(log[u], i)
      BY <1>2, <1>3, <2>1, <3>1
    <3>3. QED
      BY <1>4, <1>7, <3>1, <3>2 DEF Own
  <2>3. u = t /\ x.kind = "token" /\ i = Len(log[t]) + 1
    BY <1>3, <2>1, <2>2
  <2>4. SUFFICES ASSUME NEW j \in TokenLines(log[t]), log[t][j].call = x.call
                 PROVE  FALSE
    BY <2>3 DEF TokenWritten
  <2>5. /\ j \in TokenLines(log'[u]) /\ j < i /\ log'[u][j].call = log'[u][i].call
    BY <1>2, <1>3, <2>3, <2>4
  <2>6. QED
    BY <2>1, <2>5 DEF New
<1>8. QED
  BY <1>5, <1>6, <1>7

(* Written to the parent: what kind the line may be of. *)
TurnWritten(t, x) ==
  IF t = "parent"
  THEN /\ ~archived
       /\ x.kind # "started" => Len(log["parent"]) \notin Ends(log["parent"])
       /\ inTurn' => x.kind # "ended"
  ELSE forkedAt # 0 /\ inTurn' = inTurn

LEMMA WriteKeepsParent ==
  ASSUME CodexInv, NEW t \in Threads, NEW x \in Line, x.at = now + 1, Write(t, x),
         UNCHANGED <<flushed, forkedAt, archived>>, TurnWritten(t, x)
  PROVE  ParentSound'
<1> DEFINE parent == log["parent"]
           n == Len(log["parent"])
<1>1. parent \in Seq(Line) /\ n \in Nat /\ DOMAIN parent = 1..n
  BY LogFacts DEF Threads
<1>2. now \in Nat /\ now' = now + 1 /\ \A i \in 1..n : parent[i].at \in 1..now
  BY <1>1, WriteFacts DEF Extended, CodexInv, TypeOK, ParentSound
<1>3. CASE t = "child"
  <2>1. log'["parent"] = parent
    BY <1>3 DEF Write, CodexInv, TypeOK, Threads
  <2>2. \A i \in 1..n : parent[i].at \in 1..now'
    BY <1>2
  <2>3. inTurn' = inTurn
    BY <1>3 DEF TurnWritten
  <2>4. QED
    BY <1>1, <2>1, <2>2, <2>3 DEF CodexInv, ParentSound
<1>4. CASE t = "parent"
  <2>1. /\ Len(log'["parent"]) = n + 1 /\ DOMAIN log'["parent"] = 1..(n + 1)
        /\ \A i \in 1..n : log'["parent"][i] = parent[i]
        /\ log'["parent"][n + 1] = x
    BY <1>4, WriteFacts DEF Extended, Threads
  <2> DEFINE q == log'["parent"]
  <2> HIDE DEF q, parent
  <2>0. /\ Len(q) = n + 1 /\ DOMAIN q = 1..(n + 1)
        /\ \A i \in 1..n : q[i] = parent[i]
        /\ q[n + 1] = x
    BY <2>1 DEF q, parent
  <2>2. ASSUME NEW i \in DOMAIN q PROVE q[i].at \in 1..now'
    <3>1. CASE i \in 1..n
      <4>1. q[i].at \in 1..now
        BY <1>2, <2>0, <3>1
      <4>2. QED
        BY <1>2, <4>1
    <3>2. CASE i = n + 1
      BY <1>2, <2>0, <3>2
    <3>3. QED
      BY <1>1, <2>0, <3>1, <3>2
  <2>3. \A i, j \in DOMAIN q : i < j => q[i].at < q[j].at
    <3>1. SUFFICES ASSUME NEW i \in DOMAIN q, NEW j \in DOMAIN q, i < j
                   PROVE  q[i].at < q[j].at
      OBVIOUS
    <3>2. i \in 1..n
      BY <1>1, <2>0, <3>1
    <3>3. CASE j \in 1..n
      BY <1>1, <2>0, <3>1, <3>2, <3>3 DEF CodexInv, ParentSound, parent
    <3>4. CASE j = n + 1
      BY <1>2, <2>0, <3>2, <3>4
    <3>5. QED
      BY <1>1, <2>0, <3>3, <3>4
  <2>4. \A i \in Ends(q) : i + 1 \in DOMAIN q => q[i + 1].kind = "started"
    <3>1. SUFFICES ASSUME NEW i \in Ends(q), i + 1 \in DOMAIN q
                   PROVE  q[i + 1].kind = "started"
      OBVIOUS
    <3>2. i \in 1..n /\ parent[i].kind = "ended" /\ i \in Ends(parent)
      BY <1>1, <2>0, <3>1 DEF Ends
    <3>3. CASE i + 1 \in 1..n
      BY <1>1, <2>0, <3>2, <3>3 DEF CodexInv, ParentSound, parent
    <3>4. CASE i = n
      BY <1>4, <2>0, <3>2, <3>4 DEF TurnWritten, parent
    <3>5. QED
      BY <1>1, <3>2, <3>3, <3>4
  <2>5. inTurn' => Len(q) \notin Ends(q)
    BY <1>4, <2>0 DEF TurnWritten, Ends
  <2>6. ~archived'
    BY <1>4 DEF TurnWritten
  <2>7. QED
    BY <2>2, <2>3, <2>4, <2>5, <2>6 DEF ParentSound, q
<1>5. QED
  BY <1>3, <1>4 DEF Threads

LEMMA WriteKeeps ==
  ASSUME CodexInv, NEW t \in Threads, NEW x \in Line, x.at = now + 1, Write(t, x),
         UNCHANGED <<flushed, forkedAt, archived, ledger, cursors, pc, seen>>,
         inTurn' \in BOOLEAN, calls' \in 0..MaxCalls, calls <= calls', turns' \in 0..MaxTurns,
         TokenWritten(t, x), TurnWritten(t, x)
  PROVE  CodexInv'
<1>0. /\ flushed' = flushed /\ forkedAt' = forkedAt /\ archived' = archived
      /\ ledger' = ledger /\ cursors' = cursors /\ pc' = pc /\ seen' = seen
  OBVIOUS
<1>1. /\ log' \in [Threads -> Seq(Line)] /\ now' = now + 1 /\ Copied' = Copied
      /\ log'[t][Len(log[t]) + 1] = x
      /\ \A u \in Threads :
           /\ Len(log'[u]) = IF u = t THEN Len(log[u]) + 1 ELSE Len(log[u])
           /\ DOMAIN log'[u] = 1..Len(log'[u])
           /\ TokenLines(log'[u]) =
                TokenLines(log[u])
                  \cup IF u = t /\ x.kind = "token" THEN {Len(log[u]) + 1} ELSE {}
           /\ \A i \in 1..Len(log[u]) : log'[u][i] = log[u][i]
  <2>1. Extended(t, x)
    BY <1>0, WriteFacts
  <2>2. QED
    BY <2>1 DEF Extended
<1>2. \A u \in Threads : /\ Len(log[u]) \in Nat /\ log[u] \in Seq(Line)
                         /\ Written(u) \in 0..Len(log[u])
  BY LogFacts
<1>3. now \in Nat /\ forkedAt \in 0..now /\ calls' \in Nat /\ calls \in Nat
  BY BoundAssumption DEF CodexInv, TypeOK
<1>4. \A u \in Threads : Written(u) <= Written(u)' /\ Written(u)' \in Nat
  BY <1>1, <1>2 DEF Written, Threads
<1>5. TypeOK'
  <2>1. flushed' \in 0..Len(log'["parent"])
    BY <1>1, <1>2 DEF CodexInv, TypeOK, Threads
  <2>2. cursors' \in [Threads -> Nat] /\ \A u \in Threads : cursors'[u] <= Written(u)'
    <3>1. cursors \in [Threads -> Nat] /\ \A u \in Threads : cursors[u] <= Written(u)
      BY DEF CodexInv, TypeOK
    <3>2. \A u \in Threads : cursors[u] \in Nat /\ Written(u) \in Nat
      BY <1>2, <3>1
    <3>3. \A u \in Threads : cursors[u] <= Written(u)'
      BY <1>4, <3>1, <3>2
    <3>4. QED
      BY <1>0, <3>1, <3>3
  <2>3. forkedAt' = 0 => log'["child"] = <<>>
    <3>1. SUFFICES ASSUME forkedAt = 0 PROVE log'["child"] = <<>>
      OBVIOUS
    <3>2. t = "parent"
      BY <3>1 DEF TurnWritten, Threads
    <3>3. log'["child"] = log["child"]
      BY <3>2 DEF Write, CodexInv, TypeOK, Threads
    <3>4. QED
      BY <3>1, <3>3 DEF CodexInv, TypeOK
  <2>4. seen' \in 0..Written("child")'
    BY <1>2, <1>4 DEF CodexInv, TypeOK, Threads
  <2>5. now' \in Nat /\ forkedAt' \in 0..now'
    BY <1>1, <1>3
  <2>6. QED
    BY <1>1, <2>1, <2>2, <2>3, <2>4, <2>5 DEF CodexInv, TypeOK
<1>6. \A u \in Threads : TokensSound(log[u])'
  BY <1>3, WriteKeepsTokens
<1>7. ParentSound'
  BY WriteKeepsParent
<1>8. CopiesSound'
  <2>1. \A i \in Copied : /\ i \in 1..Len(log["parent"]) /\ i \in 1..Len(log["child"])
                          /\ log["child"][i] = log["parent"][i]
    BY CopiedFacts
  <2>2. \A i \in Copied : /\ i \in DOMAIN log'["child"] /\ log'["parent"][i] = log["parent"][i]
                          /\ log'["child"][i] = log'["parent"][i]
    <3>1. SUFFICES ASSUME NEW i \in Copied
                   PROVE  /\ i \in DOMAIN log'["child"] /\ log'["parent"][i] = log["parent"][i]
                          /\ log'["child"][i] = log'["parent"][i]
      OBVIOUS
    <3>2. log'["parent"][i] = log["parent"][i] /\ log'["child"][i] = log["child"][i]
      BY <1>1, <2>1 DEF Threads
    <3>3. i \in 1..Len(log'["child"])
      BY <1>1, <1>2, <2>1 DEF Threads
    <3>4. QED
      BY <1>1, <2>1, <3>2, <3>3 DEF Threads
  <2>3. QED
    BY <1>0, <1>1, <2>2 DEF CodexInv, CopiesSound
<1>9. \A u \in Threads :
        /\ Own(u) \subseteq Own(u)'
        /\ \A i \in Own(u) : CallRow(u, i)' = CallRow(u, i)
        /\ \A i \in Own(u)' : \/ i \in Own(u)
                              \/ /\ u = t /\ i = Len(log[t]) + 1
                                 /\ x.kind = "token" /\ x.call > calls
  BY WriteKeepsOwn
<1>10. LedgerSound'
  <2>1. \A row \in ledger' : \E u \in Threads : \E i \in Own(u)' : row = CallRow(u, i)'
    <3>1. SUFFICES ASSUME NEW row \in ledger
                   PROVE  \E u \in Threads : \E i \in Own(u)' : row = CallRow(u, i)'
      OBVIOUS
    <3>2. PICK u \in Threads : \E i \in Own(u) : row = CallRow(u, i)
      BY DEF CodexInv, LedgerSound
    <3>3. PICK i \in Own(u) : row = CallRow(u, i)
      BY <3>2
    <3>4. i \in Own(u)' /\ row = CallRow(u, i)'
      BY <1>9, <3>3
    <3>5. QED
      BY <3>4
  <2>2. ASSUME NEW u \in Threads, NEW i \in Own(u)', i <= cursors'[u]
        PROVE  CallRow(u, i)' \in ledger'
    <3>1. cursors[u] \in Nat /\ cursors[u] <= Len(log[u])
      <4>1. cursors[u] \in Nat /\ cursors[u] <= Written(u)
        BY DEF CodexInv, TypeOK
      <4>2. QED
        BY <1>2, <4>1
    <3>2. i # Len(log[u]) + 1
      BY <1>2, <2>2, <3>1
    <3>3. i \in Own(u) /\ CallRow(u, i)' = CallRow(u, i)
      BY <1>9, <3>2
    <3>4. QED
      BY <2>2, <3>3 DEF CodexInv, LedgerSound
  <2>3. QED
    BY <2>1, <2>2 DEF LedgerSound
<1>11. OwnDisjoint'
  <2>1. SUFFICES ASSUME NEW i \in Own("child")', NEW j \in TokenLines(log'["parent"]),
                        log'["child"][i].call = log'["parent"][j].call
                 PROVE  FALSE
    BY DEF OwnDisjoint
  <2>2. /\ TokenLines(log["parent"]) \subseteq 1..Len(log["parent"])
        /\ TokenLines(log["child"]) \subseteq 1..Len(log["child"])
    BY <1>2, LineSeq DEF Threads
  <2>3. ASSUME j \in TokenLines(log["parent"])
        PROVE  /\ log'["parent"][j].call = log["parent"][j].call
               /\ log["parent"][j].call \in 1..calls
    BY <1>1, <2>2, <2>3, LogFacts DEF Threads, TokensSound
  <2>4. ASSUME i \in Own("child")
        PROVE  /\ log'["child"][i].call = log["child"][i].call
               /\ log["child"][i].call \in 1..calls
    BY <1>1, <2>4, OwnFacts DEF Threads
  <2>5. CASE i \in Own("child") /\ j \in TokenLines(log["parent"])
    BY <2>1, <2>3, <2>4, <2>5 DEF CodexInv, OwnDisjoint
  <2>6. CASE i \notin Own("child") /\ j \in TokenLines(log["parent"])
    <3>1. log'["child"][i] = x /\ x.call > calls
      BY <1>1, <1>9, <2>6 DEF Threads
    <3>2. QED
      BY <1>3, <2>1, <2>3, <2>6, <3>1
  <2>7. CASE j \notin TokenLines(log["parent"])
    <3>1. t = "parent" /\ x.kind = "token" /\ j = Len(log[t]) + 1 /\ log'["parent"][j] = x
      BY <1>1, <2>7 DEF Threads
    <3>2. i \in Own("child")
      BY <1>9, <3>1 DEF Threads
    <3>3. CASE x.call > calls
      BY <1>3, <2>1, <2>4, <3>1, <3>2, <3>3
    <3>4. CASE ~(x.call > calls)
      <4>1. PICK k \in TokenLines(log["parent"]) : log["parent"][k].call = x.call
        BY <3>1, <3>4 DEF TokenWritten
      <4>2. QED
        BY <2>1, <2>4, <3>1, <3>2, <4>1 DEF CodexInv, OwnDisjoint
    <3>5. QED
      BY <3>3, <3>4
  <2>8. QED
    BY <2>5, <2>6, <2>7
<1>12. QED
  BY <1>5, <1>6, <1>7, <1>8, <1>10, <1>11 DEF CodexInv

-----------------------------------------------------------------------------
(* The steps of Codex.                                                     *)

LEMMA TurnsKeep ==
  ASSUME CodexInv, TurnStarted \/ TurnEnded
  PROVE  CodexInv'
<1>1. now \in Nat /\ calls \in 0..MaxCalls /\ calls \in Nat /\ turns \in 0..MaxTurns
      /\ "parent" \in Threads /\ MaxTurns \in Nat
  BY BoundAssumption DEF CodexInv, TypeOK, Threads
<1>2. ASSUME NEW kind \in {"started", "ended"}
      PROVE  /\ Marker(kind, now + 1) \in Line /\ Marker(kind, now + 1).at = now + 1
             /\ Marker(kind, now + 1).kind = kind /\ kind # "token"
  BY <1>1 DEF Marker, Line, Kinds
<1>3. CASE TurnStarted
  <2>1. /\ ~archived /\ turns < MaxTurns /\ inTurn' = TRUE /\ turns' = turns + 1
        /\ Write("parent", Marker("started", now + 1))
        /\ UNCHANGED <<flushed, forkedAt, archived, calls, ledger, cursors, pc, seen>>
    BY <1>3 DEF TurnStarted
  <2>2. TokenWritten("parent", Marker("started", now + 1))
    BY <1>2 DEF TokenWritten
  <2>3. TurnWritten("parent", Marker("started", now + 1))
    BY <1>2, <2>1 DEF TurnWritten
  <2>4. inTurn' \in BOOLEAN /\ calls' \in 0..MaxCalls /\ calls <= calls' /\ turns' \in 0..MaxTurns
    BY <1>1, <2>1
  <2>5. QED
    BY <1>1, <1>2, <2>1, <2>2, <2>3, <2>4, WriteKeeps
<1>4. CASE TurnEnded
  <2>1. /\ inTurn /\ ~archived /\ inTurn' = FALSE
        /\ Write("parent", Marker("ended", now + 1))
        /\ UNCHANGED <<flushed, forkedAt, archived, calls, turns, ledger, cursors, pc, seen>>
    BY <1>4 DEF TurnEnded
  <2>2. TokenWritten("parent", Marker("ended", now + 1))
    BY <1>2 DEF TokenWritten
  <2>3. TurnWritten("parent", Marker("ended", now + 1))
    BY <1>2, <2>1 DEF TurnWritten, CodexInv, ParentSound
  <2>4. calls' \in 0..MaxCalls /\ calls <= calls' /\ turns' \in 0..MaxTurns
    BY <1>1, <2>1
  <2>5. inTurn' \in BOOLEAN
    BY <2>1, Zenon
  <2>6. QED
    BY <1>1, <1>2, <2>1, <2>2, <2>3, <2>4, <2>5, WriteKeeps
<1>5. QED
  BY <1>3, <1>4

(* The lines before one that is written are all the lines so far.          *)
LEMMA WrittenAfter ==
  ASSUME CodexInv, NEW t \in Threads, NEW x \in Line, x.kind = "token", Extended(t, x)
  PROVE  LET n == Len(log[t]) + 1
         IN  /\ n \in TokenLines(log'[t]) /\ log'[t][n] = x
             /\ {j \in TokenLines(log'[t]) : j < n} = TokenLines(log[t])
             /\ \A j \in TokenLines(log[t]) : log'[t][j] = log[t][j]
<1>1. /\ Len(log[t]) \in Nat /\ TokenLines(log[t]) \subseteq 1..Len(log[t])
  BY LogFacts, LineSeq
<1>2. /\ TokenLines(log'[t]) = TokenLines(log[t]) \cup {Len(log[t]) + 1}
      /\ log'[t][Len(log[t]) + 1] = x
      /\ \A j \in 1..Len(log[t]) : log'[t][j] = log[t][j]
  BY DEF Extended
<1>3. QED
  BY <1>1, <1>2

LEMMA CallKeeps ==
  ASSUME CodexInv, NEW t \in Threads, Call(t)
  PROVE  CodexInv'
<1> DEFINE top == Max(Totals(log[t], TokenLines(log[t])))
           x == [kind |-> "token", at |-> now + 1, total |-> top + 1,
                 last |-> LastOf[calls + 1], source |-> SourceOf[calls + 1],
                 call |-> calls + 1]
           n == Len(log[t]) + 1
<1>1. now \in Nat /\ calls \in 0..MaxCalls /\ calls \in Nat /\ turns \in 0..MaxTurns
      /\ MaxCalls \in Nat /\ inTurn \in BOOLEAN
  BY BoundAssumption DEF CodexInv, TypeOK
<1>2. /\ Running(t) /\ (t = "parent" => ~archived) /\ calls < MaxCalls /\ calls' = calls + 1
      /\ Write(t, x)
      /\ UNCHANGED <<flushed, inTurn, forkedAt, archived, turns, ledger, cursors, pc, seen>>
  BY DEF Call
<1>3. /\ log[t] \in Seq(Line) /\ TokensSound(log[t])
      /\ TokenLines(log[t]) \subseteq 1..Len(log[t]) /\ Len(log[t]) \in Nat
  BY LogFacts, LineSeq
<1>4. top \in 0..calls /\ HighWater(log[t], n) = top
  <2>1. {j \in TokenLines(log[t]) : j < n} = TokenLines(log[t])
    BY <1>3
  <2>2. HighWater(log[t], n) = top
    BY <2>1 DEF HighWater
  <2>3. \A j \in TokenLines(log[t]) : j < n => log[t][j].total <= calls
    BY <1>1, <1>3 DEF TokensSound
  <2>4. n \in Nat
    BY <1>3
  <2>5. HighWater(log[t], n) \in 0..calls
    BY <1>1, <1>3, <2>3, <2>4, HighWaterIs
  <2>6. QED
    BY <2>2, <2>5
<1>5. LastOf[calls + 1] \in {0, 1} /\ SourceOf[calls + 1] \in Sources
  <2>1. calls + 1 \in 1..MaxCalls
    BY <1>1, <1>2
  <2>2. QED
    BY <2>1, LineAssumption
<1> HIDE DEF top
<1>6. /\ x \in Line /\ x.at = now + 1 /\ x.kind = "token" /\ x.call = calls + 1
      /\ x.total = top + 1 /\ x.last \in {0, 1}
  BY <1>1, <1>4, <1>5 DEF Line, Kinds
<1> HIDE DEF x
<1>7. Extended(t, x)
  BY <1>2, <1>6, WriteFacts
<1>8. New(log'[t], n)
  <2>1. /\ n \in TokenLines(log'[t]) /\ log'[t][n] = x
        /\ {j \in TokenLines(log'[t]) : j < n} = TokenLines(log[t])
        /\ \A j \in TokenLines(log[t]) : log'[t][j] = log[t][j]
    BY <1>6, <1>7, WrittenAfter
  <2>2. Totals(log'[t], TokenLines(log[t])) = Totals(log[t], TokenLines(log[t]))
    BY <2>1 DEF Totals
  <2>3. HighWater(log'[t], n) = top
    BY <2>1, <2>2 DEF HighWater, top
  <2>4. \A j \in TokenLines(log[t]) : log[t][j].call # calls + 1
    BY <1>1, <1>3 DEF TokensSound
  <2>5. \A j \in TokenLines(log'[t]) : j < n => log'[t][j].call # log'[t][n].call
    BY <1>6, <2>1, <2>4
  <2>6. QED
    BY <1>6, <2>1, <2>3, <2>5 DEF New
<1>9. TokenWritten(t, x)
  BY <1>1, <1>2, <1>4, <1>6, <1>8 DEF TokenWritten
<1>10. TurnWritten(t, x)
  BY <1>2, <1>6 DEF TurnWritten, Running, CodexInv, ParentSound
<1>11. inTurn' \in BOOLEAN /\ calls' \in 0..MaxCalls /\ calls <= calls' /\ turns' \in 0..MaxTurns
  BY <1>1, <1>2
<1>12. UNCHANGED <<flushed, forkedAt, archived, ledger, cursors, pc, seen>>
  BY <1>2
<1>13. QED
  BY <1>2, <1>6, <1>9, <1>10, <1>11, <1>12, WriteKeeps

LEMMA AgainIs ==
  ASSUME now \in Nat, NEW line \in Line, NEW source \in Sources
  PROVE  /\ Again(line, source) \in Line /\ Again(line, source).at = now + 1
         /\ Again(line, source).kind = line.kind /\ Again(line, source).call = line.call
         /\ Again(line, source).total = line.total /\ Again(line, source).last = line.last
         /\ Again(line, source).source = source
<1> DEFINE later == [line EXCEPT !.at = now + 1]
<1>1. later \in Line /\ later = [kind |-> line.kind, at |-> now + 1, total |-> line.total,
                               last |-> line.last, source |-> line.source, call |-> line.call]
  BY DEF Line
<1> HIDE DEF later
<1>2. [later EXCEPT !.source = source] =
        [kind |-> later.kind, at |-> later.at, total |-> later.total,
         last |-> later.last, source |-> source, call |-> later.call]
  BY <1>1 DEF Line
<1>3. Again(line, source) = [later EXCEPT !.source = source]
  BY DEF Again, later
<1>4. QED
  BY <1>1, <1>2, <1>3 DEF Line

LEMMA RefreshKeeps ==
  ASSUME CodexInv, NEW t \in Threads, Refresh(t)
  PROVE  CodexInv'
<1> DEFINE n == Len(log[t]) + 1
<1>1. now \in Nat /\ calls \in 0..MaxCalls /\ calls \in Nat /\ turns \in 0..MaxTurns
      /\ inTurn \in BOOLEAN
  BY BoundAssumption DEF CodexInv, TypeOK
<1>0. PICK i \in TokenLines(log[t]) :
        \E source \in Sources :
          /\ \A j \in TokenLines(log[t]) :
               j > i => log[t][i].source = source /\ log[t][j].source # source
          /\ Write(t, Again(log[t][i], source))
  BY DEF Refresh
<1>2. PICK source \in Sources :
        /\ \A j \in TokenLines(log[t]) :
             j > i => log[t][i].source = source /\ log[t][j].source # source
        /\ Write(t, Again(log[t][i], source))
  BY <1>0
<1>3. /\ Running(t) /\ (t = "parent" => ~archived)
      /\ UNCHANGED <<flushed, inTurn, forkedAt, archived, calls, turns, ledger, cursors, pc, seen>>
  BY DEF Refresh
<1> DEFINE x == Again(log[t][i], source)
<1>4. /\ log[t] \in Seq(Line) /\ TokensSound(log[t])
      /\ TokenLines(log[t]) \subseteq 1..Len(log[t]) /\ Len(log[t]) \in Nat
      /\ log[t][i] \in Line /\ log[t][i].kind = "token"
  BY LogFacts, LineSeq DEF TokenLines
<1>5. /\ x \in Line /\ x.at = now + 1 /\ x.kind = "token" /\ x.call = log[t][i].call
      /\ x.total = log[t][i].total /\ x.last = log[t][i].last /\ x.source = source
  <2>1. now \in Nat /\ log[t][i] \in Line
    BY <1>1, <1>4
  <2>2. QED
    BY <1>4, <2>1, AgainIs
<1>6. Write(t, x)
  BY <1>2
<1> HIDE DEF x
<1>7. Extended(t, x)
  BY <1>3, <1>5, <1>6, WriteFacts
<1>8. Repeated(log'[t], n)
  <2>1. /\ n \in TokenLines(log'[t]) /\ log'[t][n] = x
        /\ {j \in TokenLines(log'[t]) : j < n} = TokenLines(log[t])
        /\ \A j \in TokenLines(log[t]) : log'[t][j] = log[t][j]
    BY <1>5, <1>7, WrittenAfter
  <2>2. i \in TokenLines(log'[t]) /\ i < n /\ log'[t][i] = log[t][i]
    BY <1>2, <2>1
  <2>3. Signature(log'[t][i]) = Signature(log'[t][n])
    BY <1>5, <2>1, <2>2 DEF Signature
  <2> DEFINE between == {k \in TokenLines(log'[t]) : i < k /\ k < n}
  <2>4. \A k \in between : k \in TokenLines(log[t]) /\ k > i /\ log'[t][k] = log[t][k]
    BY <1>4, <2>1
  <2>5. CASE between = {}
    BY <2>2, <2>3, <2>5 DEF Repeated
  <2>6. CASE between # {}
    <3>1. /\ log'[t][i].source = log'[t][n].source
          /\ \A k \in between : log'[t][k].source # log'[t][n].source
      BY <1>2, <1>5, <2>1, <2>2, <2>4, <2>6
    <3>2. QED
      BY <2>2, <2>3, <3>1 DEF Repeated
  <2>7. QED
    BY <2>5, <2>6
<1>9. \E j \in TokenLines(log[t]) : New(log[t], j) /\ log[t][j].call = x.call
  BY <1>4, <1>5 DEF TokensSound
<1>10. /\ x.total \in 1..calls' /\ x.call \in 1..calls' /\ x.last \in {0, 1}
  BY <1>3, <1>4, <1>5 DEF TokensSound
<1>11. TokenWritten(t, x)
  BY <1>8, <1>9, <1>10 DEF TokenWritten
<1>12. TurnWritten(t, x)
  BY <1>3, <1>5 DEF TurnWritten, Running, CodexInv, ParentSound
<1>13. inTurn' \in BOOLEAN /\ calls' \in 0..MaxCalls /\ calls <= calls' /\ turns' \in 0..MaxTurns
  BY <1>1, <1>3
<1>14. UNCHANGED <<flushed, forkedAt, archived, ledger, cursors, pc, seen>>
  BY <1>3
<1>15. QED
  BY <1>5, <1>6, <1>11, <1>12, <1>13, <1>14, WriteKeeps

LEMMA FlushKeeps ==
  ASSUME CodexInv, Flush
  PROVE  CodexInv'
<1>1. /\ flushed < Len(log["parent"]) /\ flushed' = flushed + 1
      /\ now' = now /\ log' = log /\ inTurn' = inTurn /\ forkedAt' = forkedAt
      /\ archived' = archived /\ calls' = calls /\ turns' = turns /\ ledger' = ledger
      /\ cursors' = cursors /\ pc' = pc /\ seen' = seen
  BY DEF Flush
<1>2. /\ flushed \in 0..Len(log["parent"]) /\ Len(log["parent"]) \in Nat
      /\ Len(log["child"]) \in Nat
  BY LogFacts DEF Threads
<1>3. /\ Written("parent")' = flushed + 1 /\ Written("child")' = Len(log["child"])
      /\ Written("parent") = flushed /\ Written("child") = Len(log["child"])
  BY <1>1 DEF Written
<1>4. \A t \in Threads : cursors'[t] <= Written(t)'
  <2>1. \A t \in Threads : cursors[t] \in Nat /\ cursors[t] <= Written(t)
    BY DEF CodexInv, TypeOK
  <2>2. QED
    BY <1>1, <1>2, <1>3, <2>1 DEF Threads
<1>5. TypeOK'
  BY <1>1, <1>2, <1>3, <1>4 DEF CodexInv, TypeOK
<1>6. Copied' = Copied
  BY <1>1 DEF Copied
<1>7. \A t \in Threads : Own(t)' = Own(t) /\ \A i \in Own(t) : CallRow(t, i)' = CallRow(t, i)
  BY <1>1, <1>6 DEF Own, CallRow
<1>8. LedgerSound'
  BY <1>1, <1>7 DEF CodexInv, LedgerSound
<1>9. OwnDisjoint'
  BY <1>1, <1>7 DEF CodexInv, OwnDisjoint, Threads
<1>10. \A t \in Threads : TokensSound(log[t])'
  BY <1>1 DEF CodexInv, TokensSound
<1>11. ParentSound'
  <2>1. ~archived
    BY <1>1, <1>2 DEF CodexInv, ParentSound
  <2>2. QED
    BY <1>1, <2>1 DEF CodexInv, ParentSound
<1>12. CopiesSound'
  <2>1. \A i \in Copied : i \in Nat
    BY <1>2, CopiedFacts
  <2>2. \A i \in Copied : i > flushed' => i > flushed
    BY <1>1, <1>2, <2>1
  <2>3. QED
    BY <1>1, <1>6, <2>2 DEF CodexInv, CopiesSound
<1>13. QED
  BY <1>5, <1>8, <1>9, <1>10, <1>11, <1>12 DEF CodexInv

LEMMA ArchiveKeeps ==
  ASSUME CodexInv, Archive
  PROVE  CodexInv'
<1>1. /\ flushed = Len(log["parent"]) /\ archived' = TRUE
      /\ flushed' = flushed /\ now' = now /\ log' = log /\ inTurn' = inTurn
      /\ forkedAt' = forkedAt /\ calls' = calls /\ turns' = turns /\ ledger' = ledger
      /\ cursors' = cursors /\ pc' = pc /\ seen' = seen
  BY DEF Archive
<1>2. TypeOK'
  BY <1>1 DEF CodexInv, TypeOK, Written
<1>3. Copied' = Copied
  BY <1>1 DEF Copied
<1>4. \A t \in Threads : Own(t)' = Own(t) /\ \A i \in Own(t) : CallRow(t, i)' = CallRow(t, i)
  BY <1>1, <1>3 DEF Own, CallRow
<1>5. LedgerSound'
  BY <1>1, <1>4 DEF CodexInv, LedgerSound
<1>6. OwnDisjoint'
  BY <1>1, <1>4 DEF CodexInv, OwnDisjoint, Threads
<1>7. \A t \in Threads : TokensSound(log[t])'
  BY <1>1 DEF CodexInv, TokensSound
<1>8. ParentSound'
  BY <1>1 DEF CodexInv, ParentSound
<1>9. CopiesSound'
  BY <1>1, <1>3 DEF CodexInv, CopiesSound
<1>10. QED
  BY <1>2, <1>5, <1>6, <1>7, <1>8, <1>9 DEF CodexInv

(* At the fork every line is a copy, and none of the fork's own is there.  *)
LEMMA ForkKeeps ==
  ASSUME CodexInv, Fork
  PROVE  CodexInv'
<1> DEFINE parent == log["parent"]
<1>1. /\ forkedAt = 0 /\ forkedAt' = now + 1 /\ now' = now + 1
      /\ log' = [log EXCEPT !["child"] = log["parent"]]
      /\ \A i \in (flushed + 1)..Len(log["parent"]) : log["parent"][i].kind # "started"
      /\ flushed' = flushed /\ inTurn' = inTurn /\ archived' = archived /\ calls' = calls
      /\ turns' = turns /\ ledger' = ledger /\ cursors' = cursors /\ pc' = pc /\ seen' = seen
  BY DEF Fork
<1>2. /\ log \in [Threads -> Seq(Line)] /\ now \in Nat /\ log["child"] = <<>> /\ seen = 0
      /\ cursors \in [Threads -> Nat] /\ cursors["child"] = 0
  <2>1. /\ log \in [Threads -> Seq(Line)] /\ now \in Nat /\ log["child"] = <<>>
        /\ cursors \in [Threads -> Nat] /\ cursors["child"] <= Written("child")
        /\ seen \in 0..Written("child")
    BY <1>1 DEF CodexInv, TypeOK, Threads
  <2>2. Written("child") = 0
    BY <2>1 DEF Written
  <2>3. cursors["child"] \in Nat
    BY <2>1 DEF Threads
  <2>4. QED
    BY <2>1, <2>2, <2>3
<1>3. /\ parent \in Seq(Line) /\ Len(parent) \in Nat /\ DOMAIN parent = 1..Len(parent)
      /\ TokensSound(parent) /\ flushed \in 0..Len(parent)
      /\ \A i \in 1..Len(parent) : parent[i].at \in 1..now
      /\ TokenLines(parent) \subseteq 1..Len(parent)
  BY LogFacts, LineSeq DEF Threads, CodexInv, ParentSound
<1>4. log'["parent"] = parent /\ log'["child"] = parent /\ log' \in [Threads -> Seq(Line)]
  BY <1>1, <1>2, <1>3 DEF Threads
<1>5. Copied' = 1..Len(parent)
  <2>1. ASSUME NEW i \in 1..Len(parent) PROVE parent[i].at <= now + 1
    <3>1. parent[i].at \in 1..now
      BY <1>3
    <3>2. QED
      BY <1>2, <3>1
  <2>2. QED
    BY <1>1, <1>3, <1>4, <2>1 DEF Copied
<1>6. Own("child")' = {} /\ Own("child") = {} /\ Own("parent")' = Own("parent")
  <2>1. TokenLines(log["child"]) = {}
    BY <1>2 DEF TokenLines
  <2>2. QED
    BY <1>3, <1>4, <1>5, <2>1 DEF Own
<1>7. \A i \in Own("parent") : CallRow("parent", i)' = CallRow("parent", i)
  BY <1>4 DEF CallRow
<1>8. LedgerSound'
  <2>1. \A row \in ledger : \E i \in Own("parent") : row = CallRow("parent", i)
    BY <1>6 DEF CodexInv, LedgerSound, Threads
  <2>2. \A row \in ledger' : \E t \in Threads : \E i \in Own(t)' : row = CallRow(t, i)'
    BY <1>1, <1>6, <1>7, <2>1 DEF Threads
  <2>3. \A i \in Own("parent") : i <= cursors["parent"] => CallRow("parent", i) \in ledger
    BY DEF CodexInv, LedgerSound, Threads
  <2>4. \A t \in Threads : \A i \in Own(t)' : i <= cursors'[t] => CallRow(t, i)' \in ledger'
    BY <1>1, <1>6, <1>7, <2>3 DEF Threads
  <2>5. QED
    BY <2>2, <2>4 DEF LedgerSound
<1>9. OwnDisjoint'
  BY <1>6 DEF OwnDisjoint
<1>10. \A t \in Threads : TokensSound(log[t])'
  BY <1>1, <1>3, <1>4 DEF TokensSound, Threads
<1>11. ParentSound'
  <2>1. \A i \in 1..Len(parent) : parent[i].at \in 1..now'
    BY <1>1, <1>2, <1>3
  <2>2. QED
    BY <1>1, <1>3, <1>4, <2>1 DEF CodexInv, ParentSound
<1>12. CopiesSound'
  <2>1. \A i \in 1..Len(parent) : i > flushed => i \in (flushed + 1)..Len(parent)
    BY <1>3
  <2>2. QED
    BY <1>1, <1>2, <1>3, <1>4, <1>5, <2>1 DEF CopiesSound
<1>13. TypeOK'
  <2>1. Written("parent")' = flushed /\ Written("child")' = Len(parent)
    BY <1>1, <1>4 DEF Written
  <2>2. \A t \in Threads : cursors'[t] <= Written(t)'
    <3>1. cursors["parent"] <= flushed
      BY DEF CodexInv, TypeOK, Threads, Written
    <3>2. QED
      BY <1>1, <1>2, <1>3, <2>1, <3>1 DEF Threads
  <2>3. forkedAt' \in 0..now' /\ now' \in Nat /\ forkedAt' # 0
    BY <1>1, <1>2
  <2>4. seen' \in 0..Written("child")'
    BY <1>1, <1>2, <1>3, <2>1
  <2>5. QED
    BY <1>1, <1>3, <1>4, <2>2, <2>3, <2>4 DEF CodexInv, TypeOK
<1>14. QED
  BY <1>8, <1>9, <1>10, <1>11, <1>12, <1>13 DEF CodexInv

-----------------------------------------------------------------------------
(* The specification.                                                      *)

LEMMA InitSound ==
  ASSUME Init
  PROVE  CodexInv
<1>1. /\ now = 0 /\ log = [t \in Threads |-> <<>>] /\ flushed = 0 /\ inTurn = FALSE
      /\ forkedAt = 0 /\ archived = FALSE /\ calls = 0 /\ turns = 0 /\ ledger = {}
      /\ cursors = [t \in Threads |-> 0] /\ pc = "idle" /\ seen = 0
  BY DEF Init
<1>2. /\ \A t \in Threads : log[t] = <<>> /\ log[t] \in Seq(Line) /\ Len(log[t]) = 0
                            /\ TokenLines(log[t]) = {} /\ DOMAIN log[t] = {}
      /\ log \in [Threads -> Seq(Line)] /\ "parent" \in Threads /\ "child" \in Threads
  BY <1>1 DEF TokenLines, Threads
<1>3. \A t \in Threads : Written(t) = 0
  BY <1>1, <1>2 DEF Written, Threads
<1>4. TypeOK
  <2>1. /\ now \in Nat /\ forkedAt \in 0..now /\ flushed \in 0..Len(log["parent"])
        /\ calls \in 0..MaxCalls /\ turns \in 0..MaxTurns /\ seen \in 0..Written("child")
    BY <1>1, <1>2, <1>3, BoundAssumption
  <2>2. cursors \in [Threads -> Nat] /\ \A t \in Threads : cursors[t] <= Written(t)
    BY <1>1, <1>3
  <2>3. inTurn \in BOOLEAN /\ archived \in BOOLEAN
    BY <1>1, Zenon
  <2>4. QED
    BY <1>1, <1>2, <2>1, <2>2, <2>3 DEF TypeOK
<1>5. Copied = {} /\ \A t \in Threads : Own(t) = {}
  BY <1>2 DEF Copied, Own
<1>6. LedgerSound /\ OwnDisjoint /\ CopiesSound
  BY <1>1, <1>2, <1>5 DEF LedgerSound, OwnDisjoint, CopiesSound
<1>7. ParentSound
  BY <1>1, <1>2 DEF ParentSound, Ends
<1>8. \A t \in Threads : TokensSound(log[t])
  BY <1>2 DEF TokensSound
<1>9. QED
  BY <1>4, <1>6, <1>7, <1>8 DEF CodexInv

LEMMA NextSound ==
  ASSUME CodexInv, [Next]_vars
  PROVE  CodexInv'
<1>1. CASE UNCHANGED vars
  <2>1. /\ UNCHANGED codexVars /\ ledger' = ledger /\ cursors' = cursors /\ pc' = pc
        /\ seen' = seen
    BY <1>1 DEF vars
  <2>2. /\ now' = now /\ log' = log /\ flushed' = flushed /\ inTurn' = inTurn
        /\ forkedAt' = forkedAt /\ archived' = archived /\ calls' = calls /\ turns' = turns
    BY <2>1 DEF codexVars
  <2>3. TypeOK'
    BY <2>1, <2>2 DEF CodexInv, TypeOK, Written
  <2>4. LedgerSound' /\ CopiesSound'
    BY <2>1, <2>2, CodexRests DEF CodexInv, LedgerSound, CopiesSound
  <2>5. QED
    BY <2>1, <2>3, <2>4, CodexRests DEF CodexInv
<1>2. CASE Codex
  BY <1>2, TurnsKeep, ForkKeeps, ArchiveKeeps, FlushKeeps, CallKeeps, RefreshKeeps DEF Codex
<1>3. CASE Import
  BY <1>3, ParseKeeps, CommitKeeps DEF Import
<1>4. QED
  BY <1>1, <1>2, <1>3 DEF Next

LEMMA SpecSound == Spec => []CodexInv
<1>1. Init => CodexInv
  BY InitSound
<1>2. CodexInv /\ [Next]_vars => CodexInv'
  BY NextSound
<1>3. QED
  BY <1>1, <1>2, PTL DEF Spec

(* A row counts one token of one call.  Rows of one call are one row: its  *)
(* line is the thread's own, and no other line of either thread's own is   *)
(* of that call.                                                           *)
LEMMA CountedOnce ==
  ASSUME CodexInv
  PROVE  CallsCountedOnce
<1>1. SUFFICES ASSUME NEW row \in ledger, NEW other \in ledger
               PROVE  row.tokens = 1 /\ (other.call = row.call => other = row)
  BY DEF CallsCountedOnce
<1>2. PICK t \in Threads : \E i \in Own(t) : row = CallRow(t, i)
  BY DEF CodexInv, LedgerSound
<1>3. PICK i \in Own(t) : row = CallRow(t, i)
  BY <1>2
<1>4. PICK u \in Threads : \E j \in Own(u) : other = CallRow(u, j)
  BY DEF CodexInv, LedgerSound
<1>5. PICK j \in Own(u) : other = CallRow(u, j)
  BY <1>4
<1>6. row.tokens = 1 /\ row.call = log[t][i].call /\ other.call = log[u][j].call
  BY <1>3, <1>5 DEF CallRow
<1>7. SUFFICES ASSUME log[t][i].call = log[u][j].call PROVE other = row
  BY <1>6
<1>8. t = u
  <2>1. /\ i \in TokenLines(log[t]) /\ j \in TokenLines(log[u])
    BY OwnFacts
  <2>2. QED
    BY <1>7, <2>1 DEF CodexInv, OwnDisjoint, Threads
<1>9. i = j
  <2>1. log[t] \in Seq(Line)
    BY LogFacts
  <2>2. i \in TokenLines(log[t]) /\ New(log[t], i) /\ j \in TokenLines(log[t]) /\ New(log[t], j)
    BY <1>8, OwnFacts
  <2>3. QED
    BY <1>7, <1>8, <2>1, <2>2, NewCallsDiffer
<1>10. QED
  BY <1>3, <1>5, <1>8, <1>9

LEMMA NoneSkipped ==
  ASSUME CodexInv
  PROVE  NothingSkipped
<1>1. SUFFICES ASSUME NEW t \in Threads, NEW call \in OwnCalls(t, cursors[t])
               PROVE  \E row \in ledger : row.thread = t /\ row.call = call
  BY DEF NothingSkipped
<1>2. PICK i \in TokenLines(log[t]) : i <= cursors[t] /\ log[t][i].call = call
  BY DEF OwnCalls
<1>3. /\ log[t] \in Seq(Line) /\ TokensSound(log[t]) /\ Len(log[t]) \in Nat
      /\ TokenLines(log[t]) \subseteq 1..Len(log[t]) /\ cursors[t] \in Nat
  BY LogFacts, LineSeq DEF CodexInv, TypeOK
<1>4. PICK j \in TokenLines(log[t]) : j <= i /\ New(log[t], j) /\ log[t][j].call = call
  <2>1. CASE New(log[t], i)
    BY <1>2, <1>3, <2>1
  <2>2. CASE ~New(log[t], i)
    <3>1. PICK j \in TokenLines(log[t]) : /\ j < i /\ New(log[t], j)
                                          /\ log[t][j].call = log[t][i].call
      BY <1>3, <2>2 DEF TokensSound
    <3>2. QED
      BY <1>2, <1>3, <3>1
  <2>3. QED
    BY <2>1, <2>2
<1>5. j \in Own(t)
  <2>1. CASE t = "parent"
    BY <1>4, <2>1 DEF Own
  <2>2. CASE t = "child"
    <3>1. j \notin Copied
      <4>1. SUFFICES ASSUME j \in Copied PROVE FALSE
        OBVIOUS
      <4>2. /\ j \in DOMAIN log["parent"] /\ log["parent"][j].at <= forkedAt
            /\ log["parent"][j].call = call
        BY <1>4, <2>2, <4>1, CopiedFacts DEF Copied
      <4>3. QED
        BY <2>2, <4>2 DEF OwnCalls
    <3>2. QED
      BY <1>4, <2>2, <3>1 DEF Own
  <2>3. QED
    BY <2>1, <2>2 DEF Threads
<1>6. CallRow(t, j) \in ledger
  <2>1. j <= cursors[t]
    BY <1>2, <1>3, <1>4
  <2>2. QED
    BY <1>5, <2>1 DEF CodexInv, LedgerSound
<1>7. QED
  BY <1>4, <1>6 DEF CallRow

(* Lines, numbers and cursors are well formed: a number is at most the     *)
(* number of calls, and no cursor is ahead of its file.                    *)
THEOREM SessionTypes == Spec => []TypeOK
<1>1. CodexInv => TypeOK
  BY DEF CodexInv
<1>2. QED
  BY <1>1, SpecSound, PTL

(* No call is counted twice or with another use, for any lag of the        *)
(* parent's file and whenever the files are read: not when it is written   *)
(* again by a refresh, and not when a fork's file repeats it.              *)
THEOREM CallsAreCountedOnce == Spec => []CallsCountedOnce
<1>1. CodexInv => CallsCountedOnce
  BY CountedOnce
<1>2. QED
  BY <1>1, SpecSound, PTL

(* A file that will be skipped has no call of its own thread that was not  *)
(* counted: none is taken for a copy.                                      *)
THEOREM NoCallIsSkipped == Spec => []NothingSkipped
<1>1. CodexInv => NothingSkipped
  BY NoneSkipped
<1>2. QED
  BY <1>1, SpecSound, PTL
=============================================================================
