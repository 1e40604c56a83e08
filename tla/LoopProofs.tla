----------------------------- MODULE LoopProofs -----------------------------
(***************************************************************************)
(* What FoldLeft computes, for a step of one's own: the value a loop over    *)
(* the sequence ends with. The module is instantiated with the step of every *)
(* loop of the model that a theorem is about.                               *)
(***************************************************************************)
EXTENDS Integers, Sequences, SequencesExt, SequenceTheorems, WellFoundedInduction,
        NaturalsInduction, TLAPS

CONSTANT Step(_, _)    \* the state after an element of the sequence

Loop(base, seq) == FoldLeft(Step, base, seq)

\* v[k] is the state of the loop after k elements, up to the n-th.
RunsTo(base, seq, n, v) ==
  /\ v[0] = base
  /\ \A k \in 1..n : v[k] = Step(v[k - 1], seq[k])

IsRun(base, seq, n, v) == DOMAIN seq = 1..n /\ RunsTo(base, seq, n, v)

-----------------------------------------------------------------------------
(***************************************************************************)
(* FoldLeft is defined by a recursive function of the set of indices.       *)
(***************************************************************************)
Entry(base, seq, h, s) ==
  IF s = {} THEN base ELSE Step(h[s \ {Max(s)}], seq[Max(s)])

Unfolds(base, seq, n, h) ==
  h = [s \in SUBSET (1..n) |-> Entry(base, seq, h, s)]

\* A set of numbers that is not empty has a least one.
LEMMA LeastIndex ==
  ASSUME NEW S \in SUBSET Nat, S # {}
  PROVE  \E x \in S : \A y \in S : x <= y
<1> DEFINE R == {x \in Nat \X Nat : x[1] < x[2]}
<1>1. IsWellFoundedOn(R, Nat)
  BY NatLessThanWellFounded DEF OpToRel
<1> HIDE DEF R
<1>2. PICK x \in S : \A y \in S : ~(<<y, x>> \in R)
  BY <1>1, WFMin
<1>3. ASSUME NEW y \in S
      PROVE  x <= y
  <2>1. x \in Nat /\ y \in Nat /\ <<y, x>> \in Nat \X Nat
    OBVIOUS
  <2>2. ~(<<y, x>>[1] < <<y, x>>[2])
    BY <1>2, <2>1 DEF R
  <2> QED BY <2>1, <2>2
<1> QED BY <1>3

\* The last index of a set of indices.
LEMMA LastIndex ==
  ASSUME NEW n \in Nat, NEW s \in SUBSET (1..n), n \in s
  PROVE  Max(s) = n
<1>1. \A y \in s : n >= y
  OBVIOUS
<1>2. \A x \in s : (\A y \in s : x >= y) => x = n
  OBVIOUS
<1>3. Max(s) \in s /\ \A y \in s : Max(s) >= y
  BY <1>1 DEF Max
<1> QED BY <1>2, <1>3

\* One more index.
LEMMA UnfoldsMore ==
  ASSUME NEW base, NEW seq, NEW n \in Nat, NEW g, Unfolds(base, seq, n, g)
  PROVE  \E h : Unfolds(base, seq, n + 1, h)
<1> DEFINE k == n + 1
           h == [s \in SUBSET (1..k) |->
                   IF k \in s THEN Step(g[s \ {k}], seq[k]) ELSE g[s]]
<1>1. \A s \in SUBSET (1..n) : g[s] = Entry(base, seq, g, s)
  BY DEF Unfolds
<1>2. \A s \in SUBSET (1..k) : k \notin s => s \in SUBSET (1..n)
  OBVIOUS
<1>3. \A s \in SUBSET (1..k) : s \ {k} \in SUBSET (1..n)
  OBVIOUS
<1>4. \A s \in SUBSET (1..n) : s \in SUBSET (1..k) /\ k \notin s
  OBVIOUS
<1>5. \A s \in SUBSET (1..n) : h[s] = g[s]
  BY <1>4
<1>6. ASSUME NEW s \in SUBSET (1..k)
      PROVE  h[s] = Entry(base, seq, h, s)
  <2>1. CASE k \in s
    <3>1. Max(s) = k
      BY <2>1, LastIndex
    <3>2. h[s] = Step(g[s \ {k}], seq[k]) /\ s # {}
      BY <2>1
    <3>3. h[s \ {k}] = g[s \ {k}]
      BY <1>3, <1>5
    <3> HIDE DEF h
    <3> QED BY <3>1, <3>2, <3>3 DEF Entry
  <2>2. CASE k \notin s
    <3>1. s \in SUBSET (1..n) /\ s \ {Max(s)} \in SUBSET (1..n)
      BY <1>2, <2>2
    <3>2. h[s] = g[s] /\ h[s \ {Max(s)}] = g[s \ {Max(s)}]
      BY <1>5, <3>1
    <3>3. g[s] = Entry(base, seq, g, s)
      BY <1>1, <3>1
    <3> HIDE DEF h
    <3> QED BY <3>2, <3>3 DEF Entry
  <2> QED BY <2>1, <2>2
<1>7. h = [s \in SUBSET (1..k) |-> h[s]]
  OBVIOUS
<1> HIDE DEF h
<1>8. h = [s \in SUBSET (1..k) |-> Entry(base, seq, h, s)]
  BY <1>6, <1>7
<1> QED BY <1>8 DEF Unfolds

\* The recursion has a solution.
LEMMA UnfoldsExists ==
  ASSUME NEW base, NEW seq, NEW n \in Nat
  PROVE  \E h : Unfolds(base, seq, n, h)
<1> DEFINE bad == {m \in Nat : ~\E h : Unfolds(base, seq, m, h)}
<1>1. SUFFICES ASSUME bad # {} PROVE FALSE
  OBVIOUS
<1>2. PICK m \in bad : \A y \in bad : m <= y
  BY <1>1, LeastIndex
<1>3. CASE m = 0
  <2> DEFINE h == [s \in SUBSET (1..0) |-> base]
  <2>1. \A s \in SUBSET (1..0) : s = {}
    OBVIOUS
  <2>2. \A s \in SUBSET (1..0) : Entry(base, seq, h, s) = base
    BY <2>1 DEF Entry
  <2>3. h = [s \in SUBSET (1..0) |-> Entry(base, seq, h, s)]
    BY <2>2
  <2>4. Unfolds(base, seq, 0, h)
    BY <2>3 DEF Unfolds
  <2> QED BY <1>3, <2>4
<1>4. CASE m # 0
  <2>1. m - 1 \in Nat /\ ~(m <= m - 1) /\ (m - 1) + 1 = m
    BY <1>4
  <2>2. PICK g : Unfolds(base, seq, m - 1, g)
    BY <1>2, <2>1
  <2> QED BY <2>1, <2>2, UnfoldsMore
<1> QED BY <1>3, <1>4

\* A fold is the last state of a run.
LEMMA FoldRuns ==
  ASSUME NEW base, NEW seq, NEW n \in Nat, DOMAIN seq = 1..n
  PROVE  \E v : IsRun(base, seq, n, v) /\ Loop(base, seq) = v[n]
<1> DEFINE h == CHOOSE h : h = [s \in SUBSET (1..n) |->
                  IF s = {} THEN base ELSE Step(h[s \ {Max(s)}], seq[Max(s)])]
<1>1. h = [s \in SUBSET (1..n) |->
             IF s = {} THEN base ELSE Step(h[s \ {Max(s)}], seq[Max(s)])]
  <2>1. \E g : g = [s \in SUBSET (1..n) |->
             IF s = {} THEN base ELSE Step(g[s \ {Max(s)}], seq[Max(s)])]
    <3>1. PICK g : Unfolds(base, seq, n, g)
      BY UnfoldsExists
    <3>2. g = [s \in SUBSET (1..n) |->
             IF s = {} THEN base ELSE Step(g[s \ {Max(s)}], seq[Max(s)])]
      BY <3>1, Zenon DEF Unfolds, Entry
    <3> QED BY <3>2, Zenon
  <2> QED BY <2>1, Zenon
<1>2. Loop(base, seq) = h[1..n]
  BY Zenon DEF Loop, FoldLeft, MapThenFoldSet
<1> HIDE DEF h
<1> DEFINE v == [k \in 0..n |-> h[1..k]]
<1>3. v[0] = base
  <2>1. 1..0 = {} /\ 1..0 \in SUBSET (1..n)
    OBVIOUS
  <2> QED BY <1>1, <2>1
<1>4. ASSUME NEW k \in 1..n
      PROVE  v[k] = Step(v[k - 1], seq[k])
  <2>1. /\ 1..k \in SUBSET (1..n) /\ k \in 1..k /\ k \in 0..n /\ k - 1 \in 0..n
        /\ (1..k) \ {k} = 1..(k - 1) /\ k \in Nat /\ 1..k # {}
    <3>1. k \in Nat /\ k \in 1..k /\ k \in 0..n /\ k - 1 \in 0..n
      OBVIOUS
    <3>2. 1..k \in SUBSET (1..n) /\ 1..k # {}
      BY <3>1
    <3>3. \A j \in 1..k : j # k => j \in 1..(k - 1)
      BY <3>1
    <3>4. \A j \in 1..(k - 1) : j \in 1..k /\ j # k
      BY <3>1
    <3> QED BY <3>1, <3>2, <3>3, <3>4
  <2>2. Max(1..k) = k
    BY <2>1, LastIndex
  <2>3. h[1..k] = Step(h[(1..k) \ {Max(1..k)}], seq[Max(1..k)])
    BY <1>1, <2>1
  <2> QED BY <2>1, <2>2, <2>3
<1>5. v[n] = h[1..n]
  OBVIOUS
<1> HIDE DEF v
<1>6. IsRun(base, seq, n, v)
  BY <1>3, <1>4 DEF IsRun, RunsTo
<1> QED BY <1>2, <1>5, <1>6

\* Two runs along the same elements do not part.
LEMMA RunsAgree ==
  ASSUME NEW base, NEW seq, NEW n \in Nat, NEW u, NEW v,
         RunsTo(base, seq, n, u), RunsTo(base, seq, n, v)
  PROVE  \A k \in 0..n : u[k] = v[k]
<1> DEFINE bad == {m \in 0..n : u[m] # v[m]}
<1>1. SUFFICES ASSUME bad # {} PROVE FALSE
  OBVIOUS
<1>2. PICK m \in bad : \A y \in bad : m <= y
  <2>1. bad \in SUBSET Nat
    OBVIOUS
  <2> QED BY <1>1, <2>1, LeastIndex
<1>3. m # 0
  BY DEF RunsTo
<1>4. m - 1 \in 0..n /\ m \in 1..n /\ ~(m <= m - 1)
  BY <1>3
<1>5. u[m - 1] = v[m - 1]
  BY <1>2, <1>4
<1>6. u[m] = Step(u[m - 1], seq[m]) /\ v[m] = Step(v[m - 1], seq[m])
  BY <1>4 DEF RunsTo
<1> QED BY <1>2, <1>5, <1>6

\* One that stops earlier is where the other was.
LEMMA RunPrefix ==
  ASSUME NEW base, NEW seq, NEW n \in Nat, NEW v, RunsTo(base, seq, n, v),
         NEW m \in Nat, m < n, NEW u, RunsTo(base, seq, m, u)
  PROVE  v[m] = u[m]
<1>1. \A k \in 1..m : k \in 1..n
  OBVIOUS
<1>2. RunsTo(base, seq, m, v)
  BY <1>1 DEF RunsTo
<1>3. \A k \in 0..m : v[k] = u[k]
  BY <1>2, RunsAgree
<1> QED BY <1>3

\* So whatever runs along the sequence ends where the fold does.
LEMMA RunIsFold ==
  ASSUME NEW base, NEW seq, NEW n \in Nat, NEW v, IsRun(base, seq, n, v)
  PROVE  Loop(base, seq) = v[n]
<1>1. DOMAIN seq = 1..n /\ RunsTo(base, seq, n, v) /\ n \in 0..n
  BY DEF IsRun
<1>2. PICK u : IsRun(base, seq, n, u) /\ Loop(base, seq) = u[n]
  BY <1>1, FoldRuns
<1>3. RunsTo(base, seq, n, u)
  BY <1>2 DEF IsRun
<1> QED BY <1>1, <1>2, <1>3, RunsAgree

-----------------------------------------------------------------------------
(***************************************************************************)
(* Loops over the reader of a payload: what is left of it, whether every    *)
(* read has succeeded, and what has been read.                              *)
(***************************************************************************)
IsReader(r) ==
  /\ r = [rest |-> r.rest, ok |-> r.ok, out |-> r.out]
  /\ r.rest \in Seq(Nat) /\ r.ok \in BOOLEAN

\* The reader of a payload that goes on with s.
More(r, s) == [rest |-> r.rest \o s, ok |-> r.ok, out |-> r.out]

\* A read that has failed stays failed; one that succeeds leaves alone what follows.
Steady ==
  \A r, x : IsReader(r) =>
    /\ IsReader(Step(r, x))
    /\ ~r.ok => ~Step(r, x).ok
    /\ Step(r, x).ok => \A s \in Seq(Nat) : Step(More(r, s), x) = More(Step(r, x), s)

\* All along a run.
LEMMA RunSteady ==
  ASSUME Steady, NEW base, IsReader(base), NEW seq, NEW n \in Nat, NEW v,
         RunsTo(base, seq, n, v)
  PROVE  /\ \A k \in 0..n : IsReader(v[k])
         /\ \A j, k \in 0..n : j <= k /\ ~v[j].ok => ~v[k].ok
<1>1. v[0] = base /\ \A k \in 1..n : v[k] = Step(v[k - 1], seq[k])
  BY DEF RunsTo
<1>2. \A k \in 0..n : IsReader(v[k])
  <2> DEFINE bad == {m \in 0..n : ~IsReader(v[m])}
  <2>1. SUFFICES ASSUME bad # {} PROVE FALSE
    OBVIOUS
  <2>2. PICK m \in bad : \A y \in bad : m <= y
    <3>1. bad \in SUBSET Nat
      OBVIOUS
    <3> QED BY <2>1, <3>1, LeastIndex
  <2>3. m # 0
    BY <1>1
  <2>4. m - 1 \in 0..n /\ m \in 1..n /\ ~(m <= m - 1)
    BY <2>3
  <2>5. IsReader(v[m - 1])
    BY <2>2, <2>4
  <2>6. IsReader(Step(v[m - 1], seq[m]))
    BY <2>5 DEF Steady
  <2> QED BY <1>1, <2>2, <2>4, <2>6
<1>3. ASSUME NEW j \in 0..n, NEW k \in 0..n, j <= k, ~v[j].ok
      PROVE  ~v[k].ok
  <2> DEFINE bad == {m \in 0..n : j <= m /\ v[m].ok}
  <2>1. SUFFICES ASSUME bad # {} PROVE FALSE
    BY <1>3
  <2>2. PICK m \in bad : \A y \in bad : m <= y
    <3>1. bad \in SUBSET Nat
      OBVIOUS
    <3> QED BY <2>1, <3>1, LeastIndex
  <2>3. m # j
    BY <1>3
  <2>4. m - 1 \in 0..n /\ m \in 1..n /\ ~(m <= m - 1) /\ j <= m - 1
    BY <2>3
  <2>5. ~v[m - 1].ok /\ IsReader(v[m - 1])
    BY <1>2, <2>2, <2>4
  <2>6. ~Step(v[m - 1], seq[m]).ok
    BY <2>5 DEF Steady
  <2> QED BY <1>1, <2>2, <2>4, <2>6
<1> QED BY <1>2, <1>3

\* A loop of steady steps is steady.
LEMMA LoopSteady ==
  ASSUME Steady, NEW base, IsReader(base), NEW seq, NEW n \in Nat, DOMAIN seq = 1..n
  PROVE  /\ IsReader(Loop(base, seq))
         /\ ~base.ok => ~Loop(base, seq).ok
         /\ Loop(base, seq).ok =>
              \A s \in Seq(Nat) : Loop(More(base, s), seq) = More(Loop(base, seq), s)
<1>1. PICK v : IsRun(base, seq, n, v) /\ Loop(base, seq) = v[n]
  BY FoldRuns
<1>2. RunsTo(base, seq, n, v)
  BY <1>1 DEF IsRun
<1>3. /\ \A k \in 0..n : IsReader(v[k])
      /\ \A j, k \in 0..n : j <= k /\ ~v[j].ok => ~v[k].ok
  BY <1>2, RunSteady
<1>4. 0 \in 0..n /\ n \in 0..n /\ \A k \in 0..n : 0 <= k /\ k <= n
  OBVIOUS
<1>5. v[0] = base /\ \A k \in 1..n : v[k] = Step(v[k - 1], seq[k])
  BY <1>2 DEF RunsTo
<1>6. ASSUME v[n].ok, NEW s \in Seq(Nat)
      PROVE  Loop(More(base, s), seq) = More(v[n], s)
  <2> DEFINE u == [k \in 0..n |-> More(v[k], s)]
  <2>1. u[0] = More(base, s) /\ u[n] = More(v[n], s)
    BY <1>4, <1>5
  <2>2. ASSUME NEW k \in 1..n
        PROVE  u[k] = Step(u[k - 1], seq[k])
    <3>1. k \in 0..n /\ k - 1 \in 0..n
      OBVIOUS
    <3>2. v[k].ok /\ IsReader(v[k - 1]) /\ v[k] = Step(v[k - 1], seq[k])
      BY <1>3, <1>4, <1>5, <1>6, <3>1
    <3>3. Step(More(v[k - 1], s), seq[k]) = More(v[k], s)
      BY <3>2 DEF Steady
    <3> QED BY <3>1, <3>3
  <2> HIDE DEF u
  <2>3. IsRun(More(base, s), seq, n, u)
    BY <2>1, <2>2 DEF IsRun, RunsTo
  <2> QED BY <2>1, <2>3, RunIsFold
<1> QED BY <1>1, <1>3, <1>4, <1>5, <1>6

\* A loop of steady steps fails if the step after the first m does.
LEMMA LoopFails ==
  ASSUME Steady, NEW base, IsReader(base), NEW seq, NEW n \in Nat, DOMAIN seq = 1..n,
         NEW m \in Nat, m < n, NEW u, RunsTo(base, seq, m, u),
         ~Step(u[m], seq[m + 1]).ok
  PROVE  ~Loop(base, seq).ok
<1>1. PICK w : IsRun(base, seq, n, w) /\ Loop(base, seq) = w[n]
  BY FoldRuns
<1>2. RunsTo(base, seq, n, w)
  BY <1>1 DEF IsRun
<1>3. /\ m + 1 \in 1..n /\ m + 1 \in 0..n /\ n \in 0..n /\ m + 1 <= n
      /\ (m + 1) - 1 = m
  OBVIOUS
<1>5. w[m] = u[m]
  BY <1>2, RunPrefix
<1>6. w[m + 1] = Step(w[m], seq[m + 1])
  <2>1. w[m + 1] = Step(w[(m + 1) - 1], seq[m + 1])
    BY <1>2, <1>3 DEF RunsTo
  <2> QED BY <1>3, <2>1
<1>7. ~w[m + 1].ok
  BY <1>5, <1>6
<1> QED BY <1>1, <1>2, <1>3, <1>7, RunSteady

-----------------------------------------------------------------------------
(***************************************************************************)
(* A payload written part by part, and the loop that reads it.              *)
(***************************************************************************)
\* g[i] is the first i parts together.
Joins(w, n, g) == g = [i \in 1..n |-> IF i = 1 THEN w[i] ELSE g[i - 1] \o w[i]]

\* The recursion of FlattenSeq has a solution.
LEMMA JoinsExist ==
  ASSUME NEW w, NEW n \in Nat
  PROVE  \E g : Joins(w, n, g)
<1> DEFINE bad == {m \in Nat : ~\E g : Joins(w, m, g)}
<1>1. SUFFICES ASSUME bad # {} PROVE FALSE
  OBVIOUS
<1>2. PICK m \in bad : \A y \in bad : m <= y
  BY <1>1, LeastIndex
<1>3. CASE m = 0
  <2> DEFINE g == [i \in 1..0 |-> w[i]]
  <2>1. g = [i \in 1..0 |-> IF i = 1 THEN w[i] ELSE g[i - 1] \o w[i]]
    OBVIOUS
  <2>2. Joins(w, 0, g)
    BY <2>1 DEF Joins
  <2> QED BY <1>3, <2>2
<1>4. CASE m # 0
  <2>1. m - 1 \in Nat /\ ~(m <= m - 1)
    BY <1>4
  <2>2. PICK g : Joins(w, m - 1, g)
    BY <1>2, <2>1
  <2> DEFINE h == [i \in 1..m |-> IF i = m THEN IF i = 1 THEN w[i] ELSE g[i - 1] \o w[i]
                                  ELSE g[i]]
  <2>3. ASSUME NEW i \in 1..m
        PROVE  h[i] = IF i = 1 THEN w[i] ELSE h[i - 1] \o w[i]
    <3>1. i # 1 => i - 1 \in 1..m /\ i - 1 # m
      OBVIOUS
    <3>2. i # 1 => h[i - 1] = g[i - 1]
      BY <3>1
    <3>3. i # m => i \in 1..(m - 1)
      OBVIOUS
    <3>4. i # m => g[i] = IF i = 1 THEN w[i] ELSE g[i - 1] \o w[i]
      BY <2>2, <3>3 DEF Joins
    <3>5. h[i] = IF i = m THEN IF i = 1 THEN w[i] ELSE g[i - 1] \o w[i] ELSE g[i]
      OBVIOUS
    <3> HIDE DEF h
    <3> QED BY <3>2, <3>4, <3>5
  <2>4. h = [i \in 1..m |-> h[i]]
    OBVIOUS
  <2> HIDE DEF h
  <2>5. h = [i \in 1..m |-> IF i = 1 THEN w[i] ELSE h[i - 1] \o w[i]]
    BY <2>3, <2>4
  <2> QED BY <2>5 DEF Joins
<1> QED BY <1>3, <1>4

\* FlattenSeq joins the parts one after another.
LEMMA Flattened ==
  ASSUME NEW w \in Seq(Seq(Nat))
  PROVE  \E g : /\ g[0] = <<>> /\ g[Len(w)] = FlattenSeq(w)
                /\ \A k \in 1..Len(w) : g[k] = g[k - 1] \o w[k]
<1> DEFINE n == Len(w)
<1>1. n \in Nat /\ \A k \in 1..n : w[k] \in Seq(Nat)
  BY LenProperties, ElementOfSeq
<1>2. CASE n = 0
  <2> DEFINE g == [k \in {0} |-> <<>>]
  <2>1. w = <<>>
    BY <1>2, EmptySeq
  <2>2. FlattenSeq(w) = w
    BY <1>2 DEF FlattenSeq
  <2>3. g[0] = <<>> /\ 1..0 = {}
    OBVIOUS
  <2> QED BY <1>2, <2>1, <2>2, <2>3
<1>3. CASE n # 0
  <2> DEFINE f == CHOOSE f :
               f = [i \in 1..Len(w) |-> IF i = 1 THEN w[i] ELSE f[i - 1] \o w[i]]
  <2>1. f = [i \in 1..Len(w) |-> IF i = 1 THEN w[i] ELSE f[i - 1] \o w[i]]
    <3>1. \E g : g = [i \in 1..Len(w) |-> IF i = 1 THEN w[i] ELSE g[i - 1] \o w[i]]
      <4>1. PICK g : Joins(w, Len(w), g)
        BY <1>1, JoinsExist
      <4>2. g = [i \in 1..Len(w) |-> IF i = 1 THEN w[i] ELSE g[i - 1] \o w[i]]
        BY <4>1, Zenon DEF Joins
      <4> QED BY <4>2, Zenon
    <3> QED BY <3>1, Zenon
  <2>2. FlattenSeq(w) = f[Len(w)]
    BY <1>3, Zenon DEF FlattenSeq
  <2> HIDE DEF f
  <2> DEFINE g == [k \in 0..n |-> IF k = 0 THEN <<>> ELSE f[k]]
  <2>3. g[0] = <<>> /\ g[n] = f[n] /\ \A k \in 1..n : g[k] = f[k]
    BY <1>1, <1>3
  <2>4. ASSUME NEW k \in 1..n
        PROVE  g[k] = g[k - 1] \o w[k]
    <3>1. f[k] = IF k = 1 THEN w[k] ELSE f[k - 1] \o w[k]
      BY <2>1
    <3>2. CASE k = 1
      <4>1. <<>> \o w[1] = w[1]
        BY <1>1, <3>2, ConcatEmptySeq
      <4>2. g[k - 1] = <<>>
        BY <2>3, <3>2
      <4> QED BY <2>3, <3>1, <3>2, <4>1, <4>2
    <3>3. CASE k # 1
      <4>1. k - 1 \in 1..n
        BY <3>3
      <4> QED BY <2>3, <3>1, <3>3, <4>1
    <3> QED BY <3>2, <3>3
  <2> HIDE DEF g
  <2> QED BY <2>2, <2>3, <2>4
<1> QED BY <1>2, <1>3

\* t[k] is what is left after k parts of a payload that goes on with s.
Tails(w, n, s, t) ==
  /\ t[n] = s
  /\ \A k \in 0..n : t[k] \in Seq(Nat)
  /\ \A k \in 1..n : t[k - 1] = w[k] \o t[k]

\* A payload b of n parts and then x is taken apart.
HasTails(w, n, x, b) == \E t : Tails(w, n, x, t) /\ t[0] = b

\* x is part m and then s.
Leads(w, m, x, s) == s \in Seq(Nat) /\ w[m] \in Seq(Nat) /\ x = w[m] \o s

\* One part more.
LEMMA TailsMore ==
  ASSUME NEW w, NEW n \in Nat, NEW x, NEW b, HasTails(w, n, x, b),
         NEW s, Leads(w, n + 1, x, s)
  PROVE  HasTails(w, n + 1, s, b)
<1>1. s \in Seq(Nat) /\ w[n + 1] \in Seq(Nat) /\ x = w[n + 1] \o s
  BY DEF Leads
<1>2. PICK u : Tails(w, n, x, u) /\ u[0] = b
  BY DEF HasTails
<1> DEFINE t == [k \in 0..(n + 1) |-> IF k = n + 1 THEN s ELSE u[k]]
<1>3. t[n + 1] = s /\ \A k \in 0..n : t[k] = u[k]
  OBVIOUS
<1>4. \A k \in 0..(n + 1) : k = n + 1 \/ k \in 0..n
  OBVIOUS
<1>5. \A k \in 1..(n + 1) : k - 1 \in 0..n /\ (k = n + 1 \/ (k \in 1..n /\ k \in 0..n))
  OBVIOUS
<1>6. (n + 1) - 1 = n /\ n \in 0..n /\ 0 \in 0..n
  OBVIOUS
<1> HIDE DEF t
<1>7. u[n] = w[n + 1] \o s /\ (\A k \in 0..n : u[k] \in Seq(Nat))
      /\ \A k \in 1..n : u[k - 1] = w[k] \o u[k]
  BY <1>1, <1>2 DEF Tails
<1>8. \A k \in 0..(n + 1) : t[k] \in Seq(Nat)
  BY <1>1, <1>3, <1>4, <1>7
<1>9. \A k \in 1..(n + 1) : t[k - 1] = w[k] \o t[k]
  <2> SUFFICES ASSUME NEW k \in 1..(n + 1) PROVE t[k - 1] = w[k] \o t[k]
    OBVIOUS
  <2>1. CASE k = n + 1
    BY <1>3, <1>6, <1>7, <2>1
  <2>2. CASE k # n + 1
    <3>1. k \in 1..n /\ k \in 0..n /\ k - 1 \in 0..n
      BY <1>5, <2>2
    <3> QED BY <1>3, <1>7, <3>1
  <2> QED BY <2>1, <2>2
<1>10. Tails(w, n + 1, s, t) /\ t[0] = b
  BY <1>3, <1>6, <1>8, <1>9, <1>2 DEF Tails
<1> QED BY <1>10 DEF HasTails

\* Parts can be joined in any grouping.
Groups(a, b, c) == (a \o b) \o c = a \o (b \o c)

LEMMA Regroups ==
  ASSUME NEW a \in Seq(Nat), NEW b \in Seq(Nat), NEW c \in Seq(Nat)
  PROVE  Groups(a, b, c)
  BY SMTT(30) DEF Groups

\* What is left exists, from the whole payload on.
LEMMA TailsExist ==
  ASSUME NEW w \in Seq(Seq(Nat)), NEW s \in Seq(Nat)
  PROVE  /\ FlattenSeq(w) \in Seq(Nat)
         /\ \E t : Tails(w, Len(w), s, t) /\ t[0] = FlattenSeq(w) \o s
<1> DEFINE n == Len(w)
<1>1. n \in Nat /\ \A k \in 1..n : w[k] \in Seq(Nat)
  BY LenProperties, ElementOfSeq
<1>2. PICK g : /\ g[0] = <<>> /\ g[n] = FlattenSeq(w)
               /\ \A k \in 1..n : g[k] = g[k - 1] \o w[k]
  BY Flattened
<1> DEFINE Good(m) == /\ g[m] \in Seq(Nat)
                      /\ \A x \in Seq(Nat) : HasTails(w, m, x, g[m] \o x)
           bad == {m \in 0..n : ~Good(m)}
<1>3. Good(0)
  <2>1. g[0] \in Seq(Nat)
    BY <1>2, EmptySeq
  <2>2. ASSUME NEW x \in Seq(Nat)
        PROVE  HasTails(w, 0, x, g[0] \o x)
    <3> DEFINE t == [k \in {0} |-> x]
    <3>1. t[0] = x /\ 0..0 = {0} /\ 1..0 = {}
      OBVIOUS
    <3> HIDE DEF t
    <3>2. Tails(w, 0, x, t)
      BY <3>1 DEF Tails
    <3>3. g[0] \o x = x
      BY <1>2, ConcatEmptySeq
    <3> QED BY <3>1, <3>2, <3>3 DEF HasTails
  <2> QED BY <2>1, <2>2
<1>4. ASSUME NEW m \in Nat, m + 1 \in 1..n, Good(m)
      PROVE  Good(m + 1)
  <2>1. w[m + 1] \in Seq(Nat) /\ g[m + 1] = g[m] \o w[m + 1]
    <3>1. (m + 1) - 1 = m
      OBVIOUS
    <3> QED BY <1>1, <1>2, <1>4, <3>1
  <2>2. g[m + 1] \in Seq(Nat)
    BY <1>4, <2>1, ConcatProperties
  <2>3. ASSUME NEW x \in Seq(Nat)
        PROVE  HasTails(w, m + 1, x, g[m + 1] \o x)
    <3>1. g[m] \in Seq(Nat) /\ w[m + 1] \o x \in Seq(Nat)
      BY <1>4, <2>1, ConcatProperties
    <3>2. HasTails(w, m, w[m + 1] \o x, g[m] \o (w[m + 1] \o x))
      BY <1>4, <3>1
    <3>3. (g[m] \o w[m + 1]) \o x = g[m] \o (w[m + 1] \o x)
      BY <2>1, <3>1, Regroups DEF Groups
    <3>4. Leads(w, m + 1, w[m + 1] \o x, x)
      BY <2>1 DEF Leads
    <3>5. HasTails(w, m + 1, x, g[m] \o (w[m + 1] \o x))
      BY <3>2, <3>4, TailsMore
    <3> QED BY <2>1, <3>3, <3>5
  <2> QED BY <2>2, <2>3
<1> HIDE DEF Good
<1>5. bad = {}
  <2> SUFFICES ASSUME bad # {} PROVE FALSE
    OBVIOUS
  <2>1. PICK m \in bad : \A y \in bad : m <= y
    <3>1. bad \in SUBSET Nat
      OBVIOUS
    <3> QED BY <3>1, LeastIndex
  <2>2. m # 0
    BY <1>3
  <2>3. m - 1 \in Nat /\ m - 1 \in 0..n /\ (m - 1) + 1 = m /\ ~(m <= m - 1) /\ m \in 1..n
    BY <2>2
  <2>4. Good(m - 1)
    BY <2>1, <2>3
  <2>5. Good(m)
    BY <1>4, <2>3, <2>4
  <2> QED BY <2>5
<1>6. Good(n)
  <2>1. n \in 0..n
    BY <1>1
  <2> QED BY <1>5, <2>1
<1> QED BY <1>2, <1>6 DEF Good, HasTails

\* A reader that has read out, with rest left of the payload.
At(rest, out) == [rest |-> rest, ok |-> TRUE, out |-> out]

\* The step for x takes part w, wherever it is in the payload, and makes o into p.
Accepts(x, w, o, p) == \A s \in Seq(Nat) : Step(At(w \o s, o), x) = At(s, p)
Refuses(x, w, o)    == \A s \in Seq(Nat) : ~Step(At(w \o s, o), x).ok

\* So do the first n steps of a loop.
AcceptsAll(seq, w, o, n) == \A k \in 1..n : Accepts(seq[k], w[k], o[k - 1], o[k])

\* The loop's run over the parts.
Reading(t, o, m) == [k \in 0..m |-> At(t[k], o[k])]

\* It is one.
LEMMA ReadingRuns ==
  ASSUME NEW seq, NEW w, NEW o, NEW m \in Nat, AcceptsAll(seq, w, o, m),
         NEW n \in Nat, m <= n, NEW s, NEW t, Tails(w, n, s, t)
  PROVE  RunsTo(At(t[0], o[0]), seq, m, Reading(t, o, m))
<1> DEFINE v == [k \in 0..m |-> At(t[k], o[k])]
<1>1. v[0] = At(t[0], o[0])
  OBVIOUS
<1>2. ASSUME NEW k \in 1..m
      PROVE  v[k] = Step(v[k - 1], seq[k])
  <2>1. k \in 0..m /\ k - 1 \in 0..m /\ k \in 1..n /\ k \in 0..n
    OBVIOUS
  <2>2. v[k] = At(t[k], o[k]) /\ v[k - 1] = At(t[k - 1], o[k - 1])
    BY <2>1
  <2>3. t[k - 1] = w[k] \o t[k] /\ t[k] \in Seq(Nat)
    BY <2>1 DEF Tails
  <2>4. Step(At(w[k] \o t[k], o[k - 1]), seq[k]) = At(t[k], o[k])
    BY <2>3 DEF AcceptsAll, Accepts
  <2> HIDE DEF v
  <2> QED BY <2>2, <2>3, <2>4
<1> HIDE DEF v
<1>3. RunsTo(At(t[0], o[0]), seq, m, v)
  BY <1>1, <1>2 DEF RunsTo
<1> QED BY <1>3 DEF v, Reading

\* A loop whose steps all take their part reads the payload to its end.
LEMMA LoopReads ==
  ASSUME NEW w \in Seq(Seq(Nat)), NEW seq, DOMAIN seq = 1..Len(w), NEW o,
         AcceptsAll(seq, w, o, Len(w)), NEW s \in Seq(Nat)
  PROVE  Loop(At(FlattenSeq(w) \o s, o[0]), seq) = At(s, o[Len(w)])
<1> DEFINE n == Len(w)
<1>1. n \in Nat /\ n \in 0..n /\ n <= n
  BY LenProperties
<1>2. PICK t : Tails(w, n, s, t) /\ t[0] = FlattenSeq(w) \o s
  BY TailsExist
<1> DEFINE v == Reading(t, o, n)
<1>3. v[n] = At(s, o[n])
  <2>1. t[n] = s
    BY <1>2 DEF Tails
  <2> QED BY <1>1, <2>1 DEF Reading
<1>4. RunsTo(At(t[0], o[0]), seq, n, v)
  BY <1>1, <1>2, ReadingRuns, Zenon
<1> HIDE DEF v
<1>5. IsRun(At(t[0], o[0]), seq, n, v)
  BY <1>4 DEF IsRun
<1>6. Loop(At(t[0], o[0]), seq) = v[n]
  BY <1>1, <1>5, RunIsFold
<1> QED BY <1>2, <1>3, <1>6

\* One that refuses a part fails.
LEMMA LoopRefuses ==
  ASSUME Steady, NEW w \in Seq(Seq(Nat)), NEW seq, DOMAIN seq = 1..Len(w), NEW o,
         NEW m \in Nat, m < Len(w), AcceptsAll(seq, w, o, m),
         Refuses(seq[m + 1], w[m + 1], o[m]), NEW s \in Seq(Nat)
  PROVE  ~Loop(At(FlattenSeq(w) \o s, o[0]), seq).ok
<1> DEFINE n == Len(w)
<1>1. n \in Nat /\ m <= n /\ m \in 0..m /\ 0 \in 0..n /\ m + 1 \in 1..n /\ m + 1 \in 0..n
      /\ (m + 1) - 1 = m
  <2>1. n \in Nat
    BY LenProperties
  <2> HIDE DEF n
  <2> QED BY <2>1 DEF n
<1>2. PICK t : Tails(w, n, s, t) /\ t[0] = FlattenSeq(w) \o s
  BY TailsExist
<1> DEFINE u == Reading(t, o, m)
<1>3. u[m] = At(t[m], o[m])
  BY <1>1 DEF Reading
<1>4. RunsTo(At(t[0], o[0]), seq, m, u)
  BY <1>1, <1>2, ReadingRuns, Zenon
<1> HIDE DEF u
<1>5. t[m] = w[m + 1] \o t[m + 1] /\ t[m + 1] \in Seq(Nat) /\ t[0] \in Seq(Nat)
  BY <1>1, <1>2 DEF Tails
<1>6. ~Step(u[m], seq[m + 1]).ok
  BY <1>3, <1>5 DEF Refuses
<1>7. IsReader(At(t[0], o[0]))
  BY <1>5 DEF IsReader, At
<1>8. ~Loop(At(t[0], o[0]), seq).ok
  BY <1>1, <1>4, <1>6, <1>7, LoopFails
<1> QED BY <1>2, <1>8

-----------------------------------------------------------------------------
(***************************************************************************)
(* A list in a payload: how many items, and the items.                      *)
(***************************************************************************)
Put(out, f, v) == [x \in DOMAIN out \cup {f} |-> IF x = f THEN v ELSE out[x]]

Counted(r, f, max) ==
  IF ~r.ok \/ r.rest = <<>> \/ Head(r.rest) > max THEN [r EXCEPT !.ok = FALSE]
  ELSE LET start == [rest |-> Tail(r.rest), ok |-> TRUE, out |-> <<>>]
           end   == Loop(start, [k \in 1..Head(r.rest) |-> k])
       IN  [end EXCEPT !.out = Put(r.out, f, @)]

\* The number at the front of a payload, and what it is in front of.
LEMMA FrontOf ==
  ASSUME NEW b \in Seq(Nat), b # <<>>, NEW s \in Seq(Nat)
  PROVE  /\ Head(b) \in Nat /\ Tail(b) \in Seq(Nat) /\ b \o s \in Seq(Nat)
         /\ b \o s # <<>> /\ Head(b \o s) = Head(b) /\ Tail(b \o s) = Tail(b) \o s
<1>1. Head(b) \in Nat /\ Tail(b) \in Seq(Nat)
  BY HeadTailProperties
<1>2. b \o s \in Seq(Nat) /\ b \o s # <<>>
  BY ConcatProperties, ConcatEqualIffEmpty
<1>3. Len(b) \in Nat \ {0}
  BY EmptySeq
<1>4. Head(b \o s) = Head(b)
  BY <1>2, <1>3
<1>5. Tail(b \o s) = Tail(b) \o s
  BY <1>1, <1>2, <1>3
<1> QED BY <1>1, <1>2, <1>4, <1>5

\* The fields of the readers that a list is read with.
LEMMA ReaderIs ==
  ASSUME NEW r, IsReader(r), NEW s \in Seq(Nat)
  PROVE  /\ IsReader(More(r, s))
         /\ [r EXCEPT !.ok = FALSE] = [rest |-> r.rest, ok |-> FALSE, out |-> r.out]
         /\ \A o : [r EXCEPT !.out = o] = [rest |-> r.rest, ok |-> r.ok, out |-> o]
         /\ More(r, s).rest = r.rest \o s /\ More(r, s).ok = r.ok
         /\ More(r, s).out = r.out
<1>1. r.rest \o s \in Seq(Nat)
  BY ConcatProperties DEF IsReader
<1>2. IsReader(More(r, s))
  BY <1>1 DEF IsReader, More
<1>3. PICK x, y, z : r = [rest |-> x, ok |-> y, out |-> z]
  BY DEF IsReader
<1>4. [r EXCEPT !.ok = FALSE] = [rest |-> r.rest, ok |-> FALSE, out |-> r.out]
  <2>1. PICK w : w = FALSE
    OBVIOUS
  <2>2. [r EXCEPT !.ok = w] = [rest |-> x, ok |-> w, out |-> z]
    BY <1>3
  <2>3. r.rest = x /\ r.out = z
    BY <1>3
  <2> QED BY <2>1, <2>2, <2>3, Zenon
<1>5. ASSUME NEW o
      PROVE  [r EXCEPT !.out = o] = [rest |-> r.rest, ok |-> r.ok, out |-> o]
  BY <1>3
<1>6. /\ More(r, s).rest = r.rest \o s /\ More(r, s).ok = r.ok
      /\ More(r, s).out = r.out
  BY DEF More
<1> QED BY <1>2, <1>4, <1>5, <1>6

\* What Counted does with a list that is not refused at once.
CountedEnd(r) == Loop(At(Tail(r.rest), <<>>), [k \in 1..Head(r.rest) |-> k])

\* Its two cases.
LEMMA CountedIs ==
  ASSUME Steady, NEW r, IsReader(r), NEW f, NEW max
  PROVE  /\ (~r.ok \/ r.rest = <<>> \/ Head(r.rest) > max) =>
              Counted(r, f, max) = [rest |-> r.rest, ok |-> FALSE, out |-> r.out]
         /\ ~(~r.ok \/ r.rest = <<>> \/ Head(r.rest) > max) =>
              LET end == CountedEnd(r) IN
              /\ IsReader(end)
              /\ Counted(r, f, max) =
                   [rest |-> end.rest, ok |-> end.ok, out |-> Put(r.out, f, end.out)]
<1>1. ASSUME ~r.ok \/ r.rest = <<>> \/ Head(r.rest) > max
      PROVE  Counted(r, f, max) = [rest |-> r.rest, ok |-> FALSE, out |-> r.out]
  <2>1. Counted(r, f, max) = [r EXCEPT !.ok = FALSE]
    BY <1>1 DEF Counted
  <2>2. <<>> \in Seq(Nat)
    BY EmptySeq
  <2> QED BY <2>1, <2>2, ReaderIs
<1>2. ASSUME ~(~r.ok \/ r.rest = <<>> \/ Head(r.rest) > max)
      PROVE  /\ IsReader(CountedEnd(r))
             /\ Counted(r, f, max) =
                  [rest |-> CountedEnd(r).rest, ok |-> CountedEnd(r).ok,
                   out |-> Put(r.out, f, CountedEnd(r).out)]
  <2> DEFINE end == CountedEnd(r)
             start == At(Tail(r.rest), <<>>)
             turns == [k \in 1..Head(r.rest) |-> k]
  <2>1. r.rest \in Seq(Nat) /\ r.rest # <<>>
    BY <1>2 DEF IsReader
  <2>2. Head(r.rest) \in Nat /\ Tail(r.rest) \in Seq(Nat)
    BY <2>1, HeadTailProperties
  <2>3. IsReader(start)
    BY <2>2 DEF IsReader, At
  <2>4. DOMAIN turns = 1..Head(r.rest)
    OBVIOUS
  <2> HIDE DEF start, turns
  <2>5. IsReader(Loop(start, turns))
    BY <2>2, <2>3, <2>4, LoopSteady
  <2>6. IsReader(end)
    BY <2>5 DEF CountedEnd, start, turns
  <2>7. Counted(r, f, max) = [end EXCEPT !.out = Put(r.out, f, end.out)]
    BY <1>2, Zenon DEF Counted, CountedEnd, At
  <2> HIDE DEF end
  <2>8. <<>> \in Seq(Nat)
    BY EmptySeq
  <2>9. [end EXCEPT !.out = Put(r.out, f, end.out)] =
          [rest |-> end.rest, ok |-> end.ok, out |-> Put(r.out, f, end.out)]
    BY <2>6, <2>8, ReaderIs
  <2> QED BY <2>6, <2>7, <2>9 DEF end
<1> QED BY <1>1, <1>2

\* Reading a list is steady.
LEMMA ListSteady ==
  ASSUME Steady, NEW r, IsReader(r), NEW f, NEW max \in Nat
  PROVE  /\ IsReader(Counted(r, f, max))
         /\ ~r.ok => ~Counted(r, f, max).ok
         /\ Counted(r, f, max).ok => \A s \in Seq(Nat) :
              Counted(More(r, s), f, max) = More(Counted(r, f, max), s)
<1>1. CASE ~r.ok \/ r.rest = <<>> \/ Head(r.rest) > max
  <2>1. Counted(r, f, max) = [rest |-> r.rest, ok |-> FALSE, out |-> r.out]
    BY <1>1, CountedIs
  <2>2. ~Counted(r, f, max).ok
    BY <2>1
  <2>3. IsReader(Counted(r, f, max))
    BY <2>1 DEF IsReader
  <2> QED BY <2>2, <2>3
<1>2. CASE ~(~r.ok \/ r.rest = <<>> \/ Head(r.rest) > max)
  <2> DEFINE end == CountedEnd(r)
             list == [rest |-> end.rest, ok |-> end.ok, out |-> Put(r.out, f, end.out)]
  <2>1. IsReader(end) /\ Counted(r, f, max) = list
    BY <1>2, CountedIs
  <2>2. r.rest \in Seq(Nat) /\ r.rest # <<>> /\ r.ok
    BY <1>2 DEF IsReader
  <2>3. IsReader(list)
    <3> HIDE DEF end
    <3> QED BY <2>1 DEF IsReader
  <2>4. ASSUME end.ok, NEW s \in Seq(Nat)
        PROVE  Counted(More(r, s), f, max) = More(list, s)
    <3> DEFINE q == More(r, s)
               start == At(Tail(r.rest), <<>>)
               turns == [k \in 1..Head(r.rest) |-> k]
    <3>1. /\ IsReader(q) /\ q.rest = r.rest \o s /\ q.ok = r.ok /\ q.out = r.out
      <4>1. q.rest = r.rest \o s /\ q.ok = r.ok /\ q.out = r.out
        BY DEF More
      <4>2. IsReader(q)
        BY ReaderIs, Zenon
      <4> QED BY <4>1, <4>2
    <3>2. /\ Head(r.rest) \in Nat /\ Tail(r.rest) \in Seq(Nat)
          /\ r.rest \o s # <<>> /\ Head(r.rest \o s) = Head(r.rest)
          /\ Tail(r.rest \o s) = Tail(r.rest) \o s
      BY <2>2, <2>4, FrontOf
    <3>3. ~(~q.ok \/ q.rest = <<>> \/ Head(q.rest) > max)
      BY <1>2, <2>2, <3>1, <3>2
    <3>4. Counted(q, f, max) = [rest |-> CountedEnd(q).rest, ok |-> CountedEnd(q).ok,
                                out |-> Put(q.out, f, CountedEnd(q).out)]
      BY <3>1, <3>3, CountedIs
    <3>5. IsReader(start) /\ DOMAIN turns = 1..Head(r.rest)
      BY <3>2 DEF IsReader, At
    <3>6. More(start, s) = At(Tail(r.rest) \o s, <<>>)
      BY DEF More, At
    <3> HIDE DEF start, turns
    <3>7. end = Loop(start, turns)
      BY DEF CountedEnd, start, turns
    <3>8. Loop(More(start, s), turns) = More(end, s)
      BY <2>4, <3>2, <3>5, <3>7, LoopSteady
    <3>9. CountedEnd(q) = Loop(More(start, s), turns)
      BY <3>1, <3>2, <3>6 DEF CountedEnd, turns
    <3> HIDE DEF end, q
    <3>10. /\ More(end, s).rest = end.rest \o s /\ More(end, s).ok = end.ok
           /\ More(end, s).out = end.out
      BY DEF More
    <3>11. Counted(q, f, max) =
             [rest |-> end.rest \o s, ok |-> end.ok, out |-> Put(r.out, f, end.out)]
      BY <3>1, <3>4, <3>8, <3>9, <3>10
    <3>12. More(list, s) =
             [rest |-> end.rest \o s, ok |-> end.ok, out |-> Put(r.out, f, end.out)]
      BY DEF More
    <3> QED BY <3>11, <3>12 DEF q
  <2>5. list.ok = end.ok
    OBVIOUS
  <2> HIDE DEF list, end
  <2> QED BY <2>1, <2>2, <2>3, <2>4, <2>5
<1> QED BY <1>1, <1>2

\* The first k items.
FirstItems(items, k) == [j \in 1..k |-> items[j]]

\* The k-th turn takes part k as the k-th item, up to the m-th.
ItemsTaken(w, items, m) ==
  \A k \in 1..m :
    Accepts(k, w[k], FirstItems(items, k - 1), Append(FirstItems(items, k - 1), items[k]))

\* An item more.
LEMMA FrontMore ==
  ASSUME NEW items, NEW k \in Nat \ {0}
  PROVE  Append(FirstItems(items, k - 1), items[k]) = FirstItems(items, k)
<1> DEFINE S == {items[j] : j \in 1..k}
           a == FirstItems(items, k - 1)
           b == FirstItems(items, k)
<1>1. k - 1 \in Nat /\ (k - 1) + 1 = k /\ k \in 1..k /\ \A j \in 1..(k - 1) : j \in 1..k
  OBVIOUS
<1>2. a \in [1..(k - 1) -> S] /\ b \in [1..k -> S] /\ items[k] \in S
  BY <1>1 DEF FirstItems
<1>3. a \in Seq(S) /\ Len(a) = k - 1
  <2> HIDE DEF a, S
  <2> QED BY <1>1, <1>2
<1>4. b \in Seq(S) /\ Len(b) = k
  <2> HIDE DEF b, S
  <2> QED BY <1>1, <1>2
<1>5. (\A j \in 1..(k - 1) : a[j] = items[j]) /\ \A j \in 1..k : b[j] = items[j]
  BY DEF FirstItems
<1> DEFINE c == Append(a, items[k])
<1> HIDE DEF a, b, S
<1>6. /\ c \in Seq(S) /\ Len(c) = k
      /\ (\A j \in 1..(k - 1) : c[j] = a[j]) /\ c[k] = items[k]
  BY <1>1, <1>2, <1>3, AppendProperties
<1> HIDE DEF c
<1>7. \A j \in 1..k : c[j] = b[j]
  <2> SUFFICES ASSUME NEW j \in 1..k PROVE c[j] = b[j]
    OBVIOUS
  <2>1. j = k \/ j \in 1..(k - 1)
    OBVIOUS
  <2> QED BY <1>5, <1>6, <2>1
<1>8. c = b
  BY <1>4, <1>6, <1>7, SeqEqual
<1> QED BY <1>8 DEF a, b, c

\* The turns of the loop are the steps of LoopReads.
LEMMA TurnsAccept ==
  ASSUME NEW w, NEW items, NEW m \in Nat, ItemsTaken(w, items, m), NEW n \in Nat, m <= n
  PROVE  AcceptsAll([k \in 1..n |-> k], w, [k \in 0..n |-> FirstItems(items, k)], m)
<1> DEFINE seq == [k \in 1..n |-> k]
           o   == [k \in 0..n |-> FirstItems(items, k)]
<1> SUFFICES ASSUME NEW k \in 1..m PROVE Accepts(seq[k], w[k], o[k - 1], o[k])
  BY Zenon DEF AcceptsAll
<1>1. k \in 1..n /\ k \in 0..n /\ k - 1 \in 0..n /\ k \in Nat \ {0}
  OBVIOUS
<1>2. seq[k] = k /\ o[k - 1] = FirstItems(items, k - 1) /\ o[k] = FirstItems(items, k)
  BY <1>1
<1>3. Accepts(k, w[k], FirstItems(items, k - 1),
              Append(FirstItems(items, k - 1), items[k]))
  BY DEF ItemsTaken
<1>4. Append(FirstItems(items, k - 1), items[k]) = FirstItems(items, k)
  BY <1>1, FrontMore
<1> HIDE DEF seq, o
<1> QED BY <1>2, <1>3, <1>4

\* The payload of a list, with what follows it.
ListOf(w) == <<Len(w)>> \o FlattenSeq(w)

\* Its count and its items.
LEMMA ListFront ==
  ASSUME NEW w \in Seq(Seq(Nat)), NEW s \in Seq(Nat), NEW out
  PROVE  LET r == At(ListOf(w) \o s, out) IN
         /\ ListOf(w) \in Seq(Nat) /\ Len(w) \in Nat
         /\ IsReader(r) /\ r.ok /\ r.rest # <<>> /\ Head(r.rest) = Len(w)
         /\ Tail(r.rest) = FlattenSeq(w) \o s /\ r.out = out
<1> DEFINE b == ListOf(w)
           n == Len(w)
           c == FlattenSeq(w)
<1>1. n \in Nat /\ c \in Seq(Nat)
  BY LenProperties, TailsExist
<1> HIDE DEF n, c
<1>2. <<n>> \in Seq(Nat) /\ <<n>> # <<>> /\ Head(<<n>>) = n /\ Tail(<<n>>) = <<>>
  BY <1>1
<1>3. /\ <<n>> \o c \in Seq(Nat) /\ <<n>> \o c # <<>> /\ Head(<<n>> \o c) = n
      /\ Tail(<<n>> \o c) = <<>> \o c
  BY <1>1, <1>2, FrontOf
<1>4. <<>> \o c = c
  BY <1>1, ConcatEmptySeq
<1>5. b = <<n>> \o c
  BY DEF ListOf, n, c
<1> HIDE DEF b
<1>6. /\ b \in Seq(Nat) /\ b \o s \in Seq(Nat) /\ b \o s # <<>> /\ Head(b \o s) = n
      /\ Tail(b \o s) = c \o s
  <2>1. b \in Seq(Nat) /\ b # <<>> /\ Head(b) = n /\ Tail(b) = c
    BY <1>3, <1>4, <1>5, Zenon
  <2>2. /\ b \o s \in Seq(Nat) /\ b \o s # <<>> /\ Head(b \o s) = Head(b)
        /\ Tail(b \o s) = Tail(b) \o s
    BY <2>1, FrontOf
  <2> QED BY <2>1, <2>2, Zenon
<1>7. /\ At(b \o s, out).rest = b \o s /\ At(b \o s, out).ok
      /\ At(b \o s, out).out = out
  BY DEF At
<1>8. IsReader(At(b \o s, out))
  BY <1>6 DEF IsReader, At
<1> QED BY <1>1, <1>6, <1>7, <1>8 DEF b, c, n

\* A list within the limit whose items are taken is read.
LEMMA ListReads ==
  ASSUME Steady, NEW w \in Seq(Seq(Nat)), NEW items,
         items = [k \in 1..Len(w) |-> items[k]], ItemsTaken(w, items, Len(w)),
         NEW max \in Nat, Len(w) <= max, NEW f, NEW out, NEW s \in Seq(Nat)
  PROVE  Counted(At(ListOf(w) \o s, out), f, max) = At(s, Put(out, f, items))
<1> DEFINE r == At(ListOf(w) \o s, out)
           n == Len(w)
           turns == [k \in 1..n |-> k]
           o == [k \in 0..n |-> FirstItems(items, k)]
           end == CountedEnd(r)
<1>1. /\ n \in Nat /\ IsReader(r) /\ r.ok /\ r.rest # <<>> /\ Head(r.rest) = n
      /\ Tail(r.rest) = FlattenSeq(w) \o s /\ r.out = out
  BY ListFront
<1>2. AcceptsAll(turns, w, o, n)
  <2> HIDE DEF n
  <2>1. n <= n /\ ItemsTaken(w, items, n)
    BY <1>1 DEF n
  <2> QED BY <1>1, <2>1, TurnsAccept, Zenon
<1>3. o[0] = <<>> /\ o[n] = items
  <2>1. 0 \in 0..n /\ n \in 0..n /\ 1..0 = {}
    BY <1>1
  <2>2. o[0] = FirstItems(items, 0) /\ o[n] = FirstItems(items, n)
    BY <2>1
  <2>3. FirstItems(items, 0) = <<>>
    BY <2>1 DEF FirstItems
  <2>4. FirstItems(items, n) = items
    BY DEF FirstItems
  <2> QED BY <2>2, <2>3, <2>4
<1>4. DOMAIN turns = 1..n
  OBVIOUS
<1> HIDE DEF turns, o
<1>5. Loop(At(FlattenSeq(w) \o s, o[0]), turns) = At(s, o[n])
  BY <1>2, <1>4, LoopReads
<1>6. end = At(s, items)
  BY <1>1, <1>3, <1>5 DEF CountedEnd, turns
<1>7. ~(~r.ok \/ r.rest = <<>> \/ Head(r.rest) > max)
  BY <1>1
<1> HIDE DEF r, end
<1>8. Counted(r, f, max) = [rest |-> end.rest, ok |-> end.ok,
                            out |-> Put(r.out, f, end.out)]
  BY <1>1, <1>7, CountedIs DEF end
<1>9. end.rest = s /\ end.ok = TRUE /\ end.out = items
  BY <1>6 DEF At
<1> QED BY <1>1, <1>8, <1>9 DEF r, At

\* A list above the limit, or with an item that is refused, is refused.
LEMMA ListRefuses ==
  ASSUME Steady, NEW w \in Seq(Seq(Nat)), NEW items, NEW max \in Nat,
         NEW m \in Nat, ItemsTaken(w, items, m), m <= Len(w),
         \/ Len(w) > max
         \/ m < Len(w) /\ Refuses(m + 1, w[m + 1], FirstItems(items, m)),
         NEW f, NEW out, NEW s \in Seq(Nat)
  PROVE  ~Counted(At(ListOf(w) \o s, out), f, max).ok
<1> DEFINE r == At(ListOf(w) \o s, out)
           n == Len(w)
           turns == [k \in 1..n |-> k]
           o == [k \in 0..n |-> FirstItems(items, k)]
           end == CountedEnd(r)
<1>1. /\ n \in Nat /\ IsReader(r) /\ r.ok /\ r.rest # <<>> /\ Head(r.rest) = n
      /\ Tail(r.rest) = FlattenSeq(w) \o s /\ r.out = out
  BY ListFront
<1>2. CASE n > max
  <2> HIDE DEF r
  <2>1. Counted(r, f, max) = [rest |-> r.rest, ok |-> FALSE, out |-> r.out]
    BY <1>1, <1>2, CountedIs
  <2> QED BY <2>1 DEF r
<1>3. CASE ~(n > max)
  <2>1. m < n /\ Refuses(m + 1, w[m + 1], FirstItems(items, m))
    BY <1>3
  <2>2. AcceptsAll(turns, w, o, m)
    BY <1>1, TurnsAccept, Zenon
  <2>3. o[0] = <<>> /\ o[m] = FirstItems(items, m) /\ turns[m + 1] = m + 1
        /\ DOMAIN turns = 1..n
    <3> HIDE DEF n
    <3>1. 0 \in 0..n /\ m \in 0..n /\ 1..0 = {} /\ m + 1 \in 1..n
      BY <1>1, <2>1
    <3>2. FirstItems(items, 0) = <<>>
      BY <3>1 DEF FirstItems
    <3> QED BY <3>1, <3>2
  <2> HIDE DEF turns, o
  <2>4. Refuses(turns[m + 1], w[m + 1], o[m])
    BY <2>1, <2>3
  <2>5. ~Loop(At(FlattenSeq(w) \o s, o[0]), turns).ok
    BY <2>1, <2>2, <2>3, <2>4, LoopRefuses
  <2>6. ~end.ok
    BY <1>1, <2>3, <2>5 DEF CountedEnd, turns
  <2>7. ~(~r.ok \/ r.rest = <<>> \/ Head(r.rest) > max)
    BY <1>1, <1>3
  <2> HIDE DEF r, end
  <2>8. Counted(r, f, max) = [rest |-> end.rest, ok |-> end.ok,
                              out |-> Put(r.out, f, end.out)]
    BY <1>1, <2>7, CountedIs DEF end
  <2> QED BY <2>6, <2>8 DEF r
<1> QED BY <1>2, <1>3

\* Each part is taken as its item or refused, whatever was read before it.
ItemsJudged(w, items, good) ==
  \A k \in 1..Len(w) : \A o :
    /\ k \in good => Accepts(k, w[k], o, Append(o, items[k]))
    /\ k \notin good => Refuses(k, w[k], o)

\* Of the loops of decodeSelection: a list written item by item after its count is
\* read back whole if it is within the limit and every item is taken, and refused
\* otherwise, whatever follows it in the payload.
THEOREM ListJudged ==
  ASSUME Steady, NEW w \in Seq(Seq(Nat)), NEW items,
         items = [k \in 1..Len(w) |-> items[k]], NEW good, ItemsJudged(w, items, good),
         NEW max \in Nat, NEW f, NEW out, NEW s \in Seq(Nat)
  PROVE  IF Len(w) <= max /\ \A k \in 1..Len(w) : k \in good
         THEN Counted(At(ListOf(w) \o s, out), f, max) = At(s, Put(out, f, items))
         ELSE ~Counted(At(ListOf(w) \o s, out), f, max).ok
<1>1. Len(w) \in Nat
  BY LenProperties
<1>2. CASE Len(w) <= max /\ \A k \in 1..Len(w) : k \in good
  <2>1. ItemsTaken(w, items, Len(w))
    BY <1>2, Zenon DEF ItemsTaken, ItemsJudged
  <2>2. Counted(At(ListOf(w) \o s, out), f, max) = At(s, Put(out, f, items))
    BY <1>2, <2>1, ListReads
  <2> QED BY <1>2, <2>2
<1>3. CASE ~(Len(w) <= max)
  <2>1. 0 \in Nat /\ 0 <= Len(w) /\ Len(w) > max
    BY <1>1, <1>3
  <2>2. ItemsTaken(w, items, 0)
    BY DEF ItemsTaken
  <2>3. ~Counted(At(ListOf(w) \o s, out), f, max).ok
    BY <2>1, <2>2, ListRefuses
  <2> QED BY <1>3, <2>3
<1>4. CASE ~\A k \in 1..Len(w) : k \in good
  <2> DEFINE bad == {k \in Nat : k \in 1..Len(w) /\ k \notin good}
  <2>1. bad \in SUBSET Nat /\ bad # {}
    <3>1. PICK k \in 1..Len(w) : k \notin good
      BY <1>4, Zenon
    <3>2. k \in Nat
      BY <1>1
    <3>3. k \in bad
      BY <3>1, <3>2, Zenon
    <3> QED BY <3>3, Zenon
  <2>2. PICK q \in bad : \A k \in bad : q <= k
    BY <2>1, LeastIndex
  <2>3. q \in 1..Len(w) /\ q \notin good /\ q - 1 \in Nat /\ q - 1 < Len(w)
        /\ q - 1 <= Len(w) /\ (q - 1) + 1 = q
    BY <1>1, <2>2
  <2>4. \A k \in 1..(q - 1) : k \in 1..Len(w) /\ k \in good
    <3> SUFFICES ASSUME NEW k \in 1..(q - 1) PROVE k \in 1..Len(w) /\ k \in good
      OBVIOUS
    <3>1. k \in Nat /\ k \in 1..Len(w) /\ ~(q <= k)
      BY <1>1, <2>3
    <3> QED BY <2>2, <3>1, Zenon
  <2> HIDE DEF bad
  <2>5. ItemsTaken(w, items, q - 1)
    BY <2>4, Zenon DEF ItemsTaken, ItemsJudged
  <2>6. Refuses((q - 1) + 1, w[(q - 1) + 1], FirstItems(items, q - 1))
    BY <2>3, Zenon DEF ItemsJudged
  <2>7. ~Counted(At(ListOf(w) \o s, out), f, max).ok
    BY <2>3, <2>5, <2>6, ListRefuses
  <2> QED BY <1>4, <2>7
<1> QED BY <1>2, <1>3, <1>4
=============================================================================
