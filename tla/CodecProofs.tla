---------------------------- MODULE CodecProofs ----------------------------
(***************************************************************************)
(* Every decoder of protocol.cpp gets out of a payload what its encoder put *)
(* in, or refuses it because of a reader's limit; and no payload that it    *)
(* accepts can be cut short or continued. Reading is a loop over fields or  *)
(* items, so that this rests on the theorems of LoopProofs.                 *)
(***************************************************************************)
EXTENDS WireProofs, Exchange

FieldLoop    == INSTANCE LoopProofs WITH Step <- ReadField
FactorLoop   == INSTANCE LoopProofs WITH Step <- ReadFactor
RankedLoop   == INSTANCE LoopProofs WITH Step <- ReadRanked
RejectedLoop == INSTANCE LoopProofs WITH Step <- ReadRejected

-----------------------------------------------------------------------------
(***************************************************************************)
(* One field.                                                               *)
(***************************************************************************)
IsReader(r) ==
  /\ r = [rest |-> r.rest, ok |-> r.ok, out |-> r.out]
  /\ r.rest \in Seq(Nat) /\ r.ok \in BOOLEAN

\* The reader of a payload that goes on with s, and one that has read out.
More(r, s)    == [rest |-> r.rest \o s, ok |-> r.ok, out |-> r.out]
At(rest, out) == [rest |-> rest, ok |-> TRUE, out |-> out]

\* What Failed leaves.
LEMMA FailedIs ==
  ASSUME NEW r, IsReader(r)
  PROVE  Failed(r) = [rest |-> r.rest, ok |-> FALSE, out |-> r.out]
<1>1. PICK x, y, z : r = [rest |-> x, ok |-> y, out |-> z]
  BY DEF IsReader
<1>2. PICK w : w = FALSE
  OBVIOUS
<1>3. [r EXCEPT !.ok = w] = [rest |-> x, ok |-> w, out |-> z] /\ r.rest = x /\ r.out = z
  BY <1>1
<1> QED BY <1>2, <1>3, Zenon DEF Failed

\* The units after the first n.
LEMMA DropOf ==
  ASSUME NEW c \in Seq(Nat), NEW n \in Nat, n <= Len(c)
  PROVE  /\ SubSeq(c, n + 1, Len(c)) \in Seq(Nat)
         /\ Len(SubSeq(c, n + 1, Len(c))) = Len(c) - n
         /\ \A i \in 1..(Len(c) - n) : SubSeq(c, n + 1, Len(c))[i] = c[n + i]
<1>1. Len(c) \in Nat
  BY LenProperties
<1> QED BY <1>1

\* The units of a payload that goes on with s.
LEMMA CutOf ==
  ASSUME NEW b \in Seq(Nat), NEW s \in Seq(Nat), NEW n \in Nat, n <= Len(b)
  PROVE  /\ SubSeq(b, n + 1, Len(b)) \in Seq(Nat)
         /\ SubSeq(b \o s, n + 1, Len(b \o s)) = SubSeq(b, n + 1, Len(b)) \o s
         /\ SubSeq(b, 2, n) \in Seq(Nat)
         /\ SubSeq(b \o s, 2, n) = SubSeq(b, 2, n)
<1>1. Len(b) \in Nat /\ Len(s) \in Nat /\ b \o s \in Seq(Nat)
      /\ Len(b \o s) = Len(b) + Len(s)
  BY LenProperties, ConcatProperties
<1>2. SubSeq(b, n + 1, Len(b)) \in Seq(Nat) /\ SubSeq(b, 2, n) \in Seq(Nat)
  BY <1>1
<1>3. SubSeq(b \o s, 2, n) = SubSeq(b, 2, n)
  BY <1>1
<1>4. SubSeq(b \o s, n + 1, Len(b \o s)) = SubSeq(b, n + 1, Len(b)) \o s
  <2> DEFINE p == SubSeq(b \o s, n + 1, Len(b) + Len(s))
             q == SubSeq(b, n + 1, Len(b))
             m == Len(b) - n
  <2>1. m \in Nat /\ m + Len(s) \in Nat
    BY <1>1
  <2>2. q \in Seq(Nat) /\ Len(q) = m /\ \A i \in 1..m : q[i] = b[n + i]
    BY DropOf
  <2>3. /\ p \in Seq(Nat) /\ Len(p) = m + Len(s)
        /\ \A i \in 1..(m + Len(s)) : p[i] = (b \o s)[n + i]
    <3>1. PICK c : c = b \o s
      OBVIOUS
    <3>2. c \in Seq(Nat) /\ Len(c) = Len(b) + Len(s) /\ p = SubSeq(c, n + 1, Len(c))
      BY <1>1, <3>1
    <3>3. n <= Len(c) /\ Len(c) - n = m + Len(s)
      BY <1>1, <3>2
    <3>4. /\ SubSeq(c, n + 1, Len(c)) \in Seq(Nat)
          /\ Len(SubSeq(c, n + 1, Len(c))) = Len(c) - n
          /\ \A i \in 1..(Len(c) - n) : SubSeq(c, n + 1, Len(c))[i] = c[n + i]
      BY <3>2, <3>3, DropOf
    <3> HIDE DEF p
    <3> QED BY <3>1, <3>2, <3>3, <3>4
  <2> HIDE DEF p, q
  <2>4. /\ q \o s \in Seq(Nat) /\ Len(q \o s) = m + Len(s)
        /\ \A i \in 1..(m + Len(s)) : (q \o s)[i] = IF i <= m THEN q[i] ELSE s[i - m]
    <3>1. /\ q \o s \in Seq(Nat) /\ Len(q \o s) = Len(q) + Len(s)
          /\ \A i \in 1..(Len(q) + Len(s)) :
               (q \o s)[i] = IF i <= Len(q) THEN q[i] ELSE s[i - Len(q)]
      BY <2>2, ConcatProperties
    <3> HIDE DEF m
    <3> QED BY <2>2, <3>1
  <2>5. \A i \in 1..(m + Len(s)) :
          (b \o s)[n + i] = IF i <= m THEN b[n + i] ELSE s[i - m]
    <3> SUFFICES ASSUME NEW i \in 1..(m + Len(s))
                 PROVE  (b \o s)[n + i] = IF i <= m THEN b[n + i] ELSE s[i - m]
      OBVIOUS
    <3>1. n + i \in 1..(Len(b) + Len(s)) /\ (n + i <= Len(b) <=> i <= m)
          /\ (n + i) - Len(b) = i - m
      BY <1>1
    <3>2. (b \o s)[n + i] = IF n + i <= Len(b) THEN b[n + i] ELSE s[(n + i) - Len(b)]
      BY <3>1, ConcatProperties
    <3> QED BY <3>1, <3>2
  <2>6. \A i \in 1..(m + Len(s)) : p[i] = (q \o s)[i]
    <3> SUFFICES ASSUME NEW i \in 1..(m + Len(s)) PROVE p[i] = (q \o s)[i]
      OBVIOUS
    <3>1. i <= m => i \in 1..m
      BY <2>1
    <3> HIDE DEF m
    <3> QED BY <2>2, <2>3, <2>4, <2>5, <3>1
  <2>7. p = q \o s
    BY <2>3, <2>4, <2>6, SeqEqual
  <2> QED BY <1>1, <2>7 DEF p, q
<1> QED BY <1>2, <1>3, <1>4

\* A field written in front of s.
LEMMA WrittenField ==
  ASSUME NEW x \in Seq(Nat), NEW s \in Seq(Nat)
  PROVE  LET b == (<<Len(x)>> \o x) \o s IN
         /\ <<Len(x)>> \o x \in Seq(Nat) /\ b \in Seq(Nat) /\ b # <<>>
         /\ Head(b) = Len(x) /\ Len(b) - 1 = Len(x) + Len(s)
         /\ SubSeq(b, 2, Len(x) + 1) = x
         /\ SubSeq(b, (Len(x) + 1) + 1, Len(b)) = s
<1>1. Len(x) \in Nat /\ Len(s) \in Nat
  BY LenProperties
<1> QED BY <1>1

\* ReadField in two cases: the field is not there, or it is taken.
Blocked(r, f) ==
  \/ ~r.ok \/ r.rest = <<>>
  \/ /\ f \in Strings \cup Lists
     /\ Head(r.rest) > Limit(f) \/ Head(r.rest) > Len(r.rest) - 1
Width(r, f) == IF f \in Strings \cup Lists THEN Head(r.rest) + 1 ELSE 1
Value(r, f) ==
  IF f \in Strings \cup Lists THEN SubSeq(r.rest, 2, Width(r, f)) ELSE Head(r.rest)

LEMMA FieldCases ==
  ASSUME NEW r, IsReader(r), NEW f
  PROVE  /\ Blocked(r, f) => ReadField(r, f) = [rest |-> r.rest, ok |-> FALSE, out |-> r.out]
         /\ ~Blocked(r, f) =>
              /\ Width(r, f) \in Nat /\ Width(r, f) <= Len(r.rest)
              /\ ReadField(r, f) = Take(r, Width(r, f), f, Value(r, f))
<1>1. ASSUME Blocked(r, f)
      PROVE  ReadField(r, f) = [rest |-> r.rest, ok |-> FALSE, out |-> r.out]
  <2>1. ReadField(r, f) = Failed(r)
    BY <1>1, Zenon DEF Blocked, ReadField
  <2> QED BY <2>1, FailedIs
<1>2. ASSUME ~Blocked(r, f)
      PROVE  /\ Width(r, f) \in Nat /\ Width(r, f) <= Len(r.rest)
             /\ ReadField(r, f) = Take(r, Width(r, f), f, Value(r, f))
  <2>1. ReadField(r, f) = Take(r, Width(r, f), f, Value(r, f))
    BY <1>2, Zenon DEF Blocked, ReadField, Width, Value
  <2>2. r.rest \in Seq(Nat) /\ r.rest # <<>>
    BY <1>2, Zenon DEF Blocked, IsReader
  <2>3. Head(r.rest) \in Nat /\ Len(r.rest) \in Nat \ {0}
    BY <2>2, HeadTailProperties, EmptySeq, LenProperties
  <2>4. f \in Strings \cup Lists => ~(Head(r.rest) > Len(r.rest) - 1)
    BY <1>2, Zenon DEF Blocked
  <2> QED BY <2>1, <2>3, <2>4 DEF Width
<1> QED BY <1>1, <1>2

\* The same field of a payload that goes on with s.
LEMMA FieldMore ==
  ASSUME NEW r, IsReader(r), NEW f, ~Blocked(r, f), NEW s \in Seq(Nat)
  PROVE  /\ IsReader(More(r, s)) /\ ~Blocked(More(r, s), f)
         /\ Width(More(r, s), f) = Width(r, f) /\ Value(More(r, s), f) = Value(r, f)
<1>1. More(r, s).rest = r.rest \o s /\ More(r, s).ok = r.ok /\ More(r, s).out = r.out
  BY DEF More
<1>2. r.ok /\ r.rest # <<>> /\ r.rest \in Seq(Nat) /\ r.ok \in BOOLEAN
  BY Zenon DEF Blocked, IsReader
<1>3. /\ Head(r.rest) \in Nat /\ r.rest \o s \in Seq(Nat)
      /\ r.rest \o s # <<>> /\ Head(r.rest \o s) = Head(r.rest)
  BY <1>2, FieldLoop!FrontOf
<1>4. Len(r.rest) \in Nat /\ Len(s) \in Nat /\ Len(r.rest \o s) = Len(r.rest) + Len(s)
  BY <1>2, LenProperties, ConcatProperties
<1>5. IsReader(More(r, s))
  BY <1>2, <1>3 DEF IsReader, More
<1>6. Width(More(r, s), f) = Width(r, f)
  BY <1>1, <1>3, Zenon DEF Width
<1>7. ~Blocked(More(r, s), f)
  <2>1. f \in Strings \cup Lists =>
          ~(Head(r.rest) > Limit(f)) /\ ~(Head(r.rest) > Len(r.rest) - 1)
    BY Zenon DEF Blocked
  <2>2. ~(Head(r.rest) > Len(r.rest) - 1) => ~(Head(r.rest) > Len(r.rest \o s) - 1)
    BY <1>3, <1>4
  <2> QED BY <1>1, <1>2, <1>3, <2>1, <2>2, Zenon DEF Blocked
<1>8. Value(More(r, s), f) = Value(r, f)
  <2>1. Width(r, f) \in Nat /\ Width(r, f) <= Len(r.rest)
    BY FieldCases
  <2>2. SubSeq(r.rest \o s, 2, Width(r, f)) = SubSeq(r.rest, 2, Width(r, f))
    BY <1>2, <2>1, CutOf
  <2> QED BY <1>1, <1>3, <1>6, <2>2, Zenon DEF Value
<1> QED BY <1>5, <1>6, <1>7, <1>8

\* A read that has failed stays failed; one that succeeds leaves alone what follows.
Holds(r, q) == ~r.ok => ~q.ok

LEMMA FieldSteady ==
  ASSUME NEW r, IsReader(r), NEW f
  PROVE  /\ IsReader(ReadField(r, f))
         /\ Holds(r, ReadField(r, f))
         /\ ReadField(r, f).ok =>
              \A s \in Seq(Nat) : ReadField(More(r, s), f) = More(ReadField(r, f), s)
<1>1. CASE Blocked(r, f)
  <2>1. ReadField(r, f) = [rest |-> r.rest, ok |-> FALSE, out |-> r.out]
    BY <1>1, FieldCases
  <2>2. ~ReadField(r, f).ok
    BY <2>1
  <2>3. IsReader(ReadField(r, f))
    BY <2>1 DEF IsReader
  <2> QED BY <2>2, <2>3 DEF Holds
<1>2. CASE ~Blocked(r, f)
  <2> DEFINE n == Width(r, f)
             v == Value(r, f)
             c == SubSeq(r.rest, n + 1, Len(r.rest))
             q == [rest |-> c, ok |-> TRUE, out |-> Put(r.out, f, v)]
  <2>1. n \in Nat /\ n <= Len(r.rest) /\ ReadField(r, f) = Take(r, n, f, v)
    BY <1>2, FieldCases
  <2>2. ReadField(r, f) = q
    BY <2>1 DEF Take
  <2>3. r.rest \in Seq(Nat) /\ c \in Seq(Nat) /\ r.ok
    BY <1>2, <2>1, DropOf DEF IsReader, Blocked
  <2>4. ASSUME NEW s \in Seq(Nat)
        PROVE  ReadField(More(r, s), f) = More(ReadField(r, f), s)
    <3>1. /\ IsReader(More(r, s)) /\ ~Blocked(More(r, s), f)
          /\ Width(More(r, s), f) = n /\ Value(More(r, s), f) = v
      BY <1>2, FieldMore
    <3>2. ReadField(More(r, s), f) = Take(More(r, s), n, f, v)
      BY <3>1, FieldCases
    <3>3. More(r, s).rest = r.rest \o s /\ More(r, s).out = r.out
      BY DEF More
    <3>4. SubSeq(r.rest \o s, n + 1, Len(r.rest \o s)) = c \o s
      BY <2>1, <2>3, CutOf
    <3> HIDE DEF n, v, c
    <3>5. Take(More(r, s), n, f, v) = [rest |-> c \o s, ok |-> TRUE, out |-> Put(r.out, f, v)]
      BY <3>3, <3>4, Zenon DEF Take
    <3>6. More(q, s) = [rest |-> c \o s, ok |-> TRUE, out |-> Put(r.out, f, v)]
      BY DEF More
    <3> QED BY <2>2, <3>2, <3>5, <3>6, Zenon
  <2>5. IsReader(q)
    <3> HIDE DEF n, v, c
    <3> QED BY <2>3 DEF IsReader
  <2> QED BY <2>2, <2>3, <2>4, <2>5 DEF Holds
<1> QED BY <1>1, <1>2

\* The loop's notions are those above.
LEMMA FieldsSteady == FieldLoop!Steady
<1> SUFFICES ASSUME NEW r, NEW f, FieldLoop!IsReader(r)
             PROVE  /\ FieldLoop!IsReader(ReadField(r, f))
                    /\ ~r.ok => ~ReadField(r, f).ok
                    /\ ReadField(r, f).ok => \A s \in Seq(Nat) :
                         ReadField(FieldLoop!More(r, s), f)
                           = FieldLoop!More(ReadField(r, f), s)
  BY Zenon DEF FieldLoop!Steady
<1>1. IsReader(r)
  BY Zenon DEF IsReader, FieldLoop!IsReader
<1>2. /\ IsReader(ReadField(r, f))
      /\ Holds(r, ReadField(r, f))
      /\ ReadField(r, f).ok =>
           \A s \in Seq(Nat) : ReadField(More(r, s), f) = More(ReadField(r, f), s)
  BY <1>1, FieldSteady
<1> QED BY <1>2, Zenon DEF IsReader, FieldLoop!IsReader, Holds, More, FieldLoop!More

\* Field f of m is a number, a string or a list of numbers, and not above the limit.
HasField(m, f)   == IF f \in Strings \cup Lists THEN m[f] \in Seq(Nat) ELSE m[f] \in Nat
ShortField(m, f) == f \in Strings \cup Lists => Len(m[f]) <= Limit(f)

\* What the writer wrote is taken by the reader, or refused as too long.
LEMMA FieldReads ==
  ASSUME NEW m, NEW f, HasField(m, f), NEW out, NEW s \in Seq(Nat)
  PROVE  /\ WriteField(m, f) \in Seq(Nat)
         /\ ShortField(m, f) =>
              ReadField(At(WriteField(m, f) \o s, out), f) = At(s, Put(out, f, m[f]))
         /\ ~ShortField(m, f) => ~ReadField(At(WriteField(m, f) \o s, out), f).ok
<1>1. CASE f \in Strings \cup Lists
  <2> DEFINE x == m[f]
             b == (<<Len(x)>> \o x) \o s
             r == At(b, out)
  <2>1. x \in Seq(Nat) /\ WriteField(m, f) = <<Len(x)>> \o x
    BY <1>1 DEF HasField, WriteField
  <2>2. /\ <<Len(x)>> \o x \in Seq(Nat) /\ b \in Seq(Nat) /\ b # <<>>
        /\ Head(b) = Len(x) /\ Len(b) - 1 = Len(x) + Len(s)
        /\ SubSeq(b, 2, Len(x) + 1) = x
        /\ SubSeq(b, (Len(x) + 1) + 1, Len(b)) = s
    BY <2>1, WrittenField
  <2>3. Len(x) \in Nat /\ Len(s) \in Nat /\ Limit(f) \in Nat
    BY <2>1, LenProperties, MessageTypes DEF Limit
  <2>4. ~(Len(x) > Len(b) - 1)
    BY <2>2, <2>3
  <2>5. Len(x) <= Limit(f) <=> ~(Len(x) > Limit(f))
    BY <2>3
  <2> HIDE DEF b
  <2>6. r.rest = b /\ r.ok = TRUE /\ r.out = out
    BY DEF At
  <2>7. IsReader(r)
    BY <2>2 DEF IsReader, At
  <2> HIDE DEF r
  <2>8. ASSUME ShortField(m, f) PROVE ReadField(r, f) = At(s, Put(out, f, x))
    <3>1. ~Blocked(r, f)
      BY <1>1, <2>2, <2>4, <2>5, <2>6, <2>8, Zenon DEF Blocked, ShortField
    <3>2. Width(r, f) = Len(x) + 1
      BY <1>1, <2>2, <2>6, Zenon DEF Width
    <3>3. Value(r, f) = x
      BY <1>1, <2>2, <2>6, <3>2, Zenon DEF Value
    <3>4. ReadField(r, f) = Take(r, Len(x) + 1, f, x)
      BY <2>7, <3>1, <3>2, <3>3, FieldCases
    <3> QED BY <2>2, <2>6, <3>4, Zenon DEF Take, At
  <2>9. ASSUME ~ShortField(m, f) PROVE ~ReadField(r, f).ok
    <3>1. Blocked(r, f)
      BY <1>1, <2>2, <2>5, <2>6, <2>9, Zenon DEF Blocked, ShortField
    <3>2. ReadField(r, f) = [rest |-> r.rest, ok |-> FALSE, out |-> r.out]
      BY <2>7, <3>1, FieldCases
    <3> QED BY <3>2
  <2> QED BY <2>1, <2>2, <2>8, <2>9, Zenon DEF r, b
<1>2. CASE f \notin Strings \cup Lists
  <2> DEFINE x == m[f]
             b == <<x>> \o s
             r == At(b, out)
  <2>1. x \in Nat /\ WriteField(m, f) = <<x>> /\ ShortField(m, f)
    BY <1>2 DEF HasField, WriteField, ShortField
  <2>2. b \in Seq(Nat) /\ b # <<>> /\ Head(b) = x /\ SubSeq(b, 1 + 1, Len(b)) = s
        /\ <<x>> \in Seq(Nat)
    BY <2>1
  <2> HIDE DEF b
  <2>3. r.rest = b /\ r.ok = TRUE /\ r.out = out
    BY DEF At
  <2>4. IsReader(r)
    BY <2>2 DEF IsReader, At
  <2> HIDE DEF r
  <2>5. ~Blocked(r, f)
    BY <1>2, <2>2, <2>3, Zenon DEF Blocked
  <2>6. Width(r, f) = 1 /\ Value(r, f) = x
    BY <1>2, <2>2, <2>3, Zenon DEF Width, Value
  <2>7. ReadField(r, f) = Take(r, 1, f, x)
    BY <2>4, <2>5, <2>6, FieldCases
  <2>8. ReadField(r, f) = At(s, Put(out, f, x))
    BY <2>2, <2>3, <2>7, Zenon DEF Take, At
  <2> QED BY <2>1, <2>2, <2>8, Zenon DEF r, b
<1> QED BY <1>1, <1>2

-----------------------------------------------------------------------------
(***************************************************************************)
(* The fields of a layout.                                                  *)
(***************************************************************************)
IsLayout(layout, n) == n \in Nat /\ DOMAIN layout = 1..n

\* The parts of what is written, and the fields after the first k of them are read.
PartsOf(m, layout)     == [k \in DOMAIN layout |-> WriteField(m, layout[k])]
FieldsTo(m, layout, k) == [f \in {layout[j] : j \in 1..k} |-> m[f]]
AllFields(m, layout)   == [f \in Range(layout) |-> m[f]]

LEMMA FieldsToNext ==
  ASSUME NEW m, NEW layout, NEW k \in Nat \ {0}
  PROVE  Put(FieldsTo(m, layout, k - 1), layout[k], m[layout[k]]) = FieldsTo(m, layout, k)
<1> DEFINE S == {layout[j] : j \in 1..k}
           T == {layout[j] : j \in 1..(k - 1)}
<1>1. S = T \cup {layout[k]}
  <2>1. 1..k = (1..(k - 1)) \cup {k}
    OBVIOUS
  <2> QED BY <2>1, Zenon
<1> HIDE DEF S, T
<1>2. DOMAIN FieldsTo(m, layout, k - 1) = T /\ FieldsTo(m, layout, k) = [f \in S |-> m[f]]
      /\ FieldsTo(m, layout, k - 1) = [f \in T |-> m[f]]
  BY DEF FieldsTo, S, T
<1>3. Put([f \in T |-> m[f]], layout[k], m[layout[k]]) = [f \in S |-> m[f]]
  BY <1>1 DEF Put
<1> QED BY <1>2, <1>3

LEMMA FieldsToEnds ==
  ASSUME NEW m, NEW layout, NEW n, IsLayout(layout, n)
  PROVE  FieldsTo(m, layout, 0) = NoFields /\ FieldsTo(m, layout, n) = AllFields(m, layout)
<1>1. {layout[j] : j \in 1..0} = {}
  OBVIOUS
<1>2. {layout[j] : j \in 1..n} = Range(layout)
  BY DEF IsLayout, Range
<1>3. FieldsTo(m, layout, 0) = NoFields
  BY <1>1 DEF FieldsTo, NoFields
<1> QED BY <1>2, <1>3, Zenon DEF FieldsTo, AllFields

\* The first k fields are read if each of them can be.
LEMMA LayoutAccepts ==
  ASSUME NEW m, NEW layout, NEW n, IsLayout(layout, n), NEW p \in 0..n,
         \A k \in 1..n : HasField(m, layout[k]),
         \A k \in 1..p : ShortField(m, layout[k])
  PROVE  FieldLoop!AcceptsAll(layout, PartsOf(m, layout),
                              [k \in 0..n |-> FieldsTo(m, layout, k)], p)
<1> DEFINE o == [k \in 0..n |-> FieldsTo(m, layout, k)]
           w == PartsOf(m, layout)
<1>1. n \in Nat /\ DOMAIN layout = 1..n
  BY DEF IsLayout
<1> SUFFICES ASSUME NEW k \in 1..p, NEW s \in Seq(Nat)
             PROVE  ReadField(FieldLoop!At(w[k] \o s, o[k - 1]), layout[k])
                      = FieldLoop!At(s, o[k])
  BY Zenon DEF FieldLoop!AcceptsAll, FieldLoop!Accepts
<1>2. k \in 1..n /\ k \in 0..n /\ k - 1 \in 0..n /\ k \in Nat \ {0}
  BY <1>1
<1>3. o[k - 1] = FieldsTo(m, layout, k - 1) /\ o[k] = FieldsTo(m, layout, k)
  BY <1>2
<1>4. w[k] = WriteField(m, layout[k])
  BY <1>1, <1>2 DEF PartsOf
<1>5. HasField(m, layout[k]) /\ ShortField(m, layout[k])
  BY <1>2
<1>6. ReadField(At(WriteField(m, layout[k]) \o s, FieldsTo(m, layout, k - 1)), layout[k])
        = At(s, Put(FieldsTo(m, layout, k - 1), layout[k], m[layout[k]]))
  BY <1>5, FieldReads
<1>7. Put(FieldsTo(m, layout, k - 1), layout[k], m[layout[k]]) = FieldsTo(m, layout, k)
  BY <1>2, FieldsToNext
<1> HIDE DEF o, w
<1> QED BY <1>3, <1>4, <1>6, <1>7, Zenon DEF At, FieldLoop!At

\* ReadFields is the loop, and what it reads is the concatenation of the parts.
LEMMA FieldsAreLoop ==
  ASSUME NEW r, NEW layout
  PROVE  ReadFields(r, layout) = FieldLoop!Loop(r, layout)
BY Zenon DEF ReadFields, FieldLoop!Loop, FieldLoop!FoldLeft, FieldLoop!MapThenFoldSet,
             FieldLoop!Max, FoldLeft, MapThenFoldSet, Max

LEMMA PartsFlatten ==
  ASSUME NEW w
  PROVE  /\ FlattenSeq(w) = FieldLoop!FlattenSeq(w)
         /\ FlattenSeq(w) = FactorLoop!FlattenSeq(w)
         /\ FlattenSeq(w) = RankedLoop!FlattenSeq(w)
         /\ FlattenSeq(w) = RejectedLoop!FlattenSeq(w)
BY Zenon DEF FlattenSeq, FieldLoop!FlattenSeq, FactorLoop!FlattenSeq,
             RankedLoop!FlattenSeq, RejectedLoop!FlattenSeq

LEMMA PartsAre ==
  ASSUME NEW m, NEW layout, NEW n, IsLayout(layout, n), \A k \in 1..n : HasField(m, layout[k])
  PROVE  /\ PartsOf(m, layout) \in Seq(Seq(Nat)) /\ Len(PartsOf(m, layout)) = n
         /\ n \in Nat /\ DOMAIN layout = 1..n
         /\ \A k \in 1..n : PartsOf(m, layout)[k] = WriteField(m, layout[k])
<1>1. n \in Nat /\ DOMAIN layout = 1..n
  BY DEF IsLayout
<1>2. \A k \in 1..n : WriteField(m, layout[k]) \in Seq(Nat)
  <2>1. <<>> \in Seq(Nat)
    BY EmptySeq
  <2> QED BY <2>1, FieldReads
<1>3. PartsOf(m, layout) \in [1..n -> Seq(Nat)]
  BY <1>1, <1>2 DEF PartsOf
<1>4. PartsOf(m, layout) \in Seq(Seq(Nat)) /\ Len(PartsOf(m, layout)) = n
  BY <1>1, <1>3, SeqDef, LenProperties
<1> QED BY <1>1, <1>4 DEF PartsOf

\* HasFields and ShortFields, along a layout.
LEMMA AlongLayout ==
  ASSUME NEW m, NEW layout, NEW n, IsLayout(layout, n)
  PROVE  /\ HasFields(m, layout) => \A k \in 1..n : HasField(m, layout[k])
         /\ ShortFields(m, layout) <=> \A k \in 1..n : ShortField(m, layout[k])
<1>1. Range(layout) = {layout[k] : k \in 1..n}
  BY DEF IsLayout, Range
<1>2. HasFields(m, layout) => \A k \in 1..n : HasField(m, layout[k])
  BY <1>1, Zenon DEF HasFields, HasField
<1>3. ShortFields(m, layout) => \A k \in 1..n : ShortField(m, layout[k])
  BY <1>1, Zenon DEF ShortFields, ShortField
<1>4. (\A k \in 1..n : ShortField(m, layout[k])) => ShortFields(m, layout)
  BY <1>1, Zenon DEF ShortFields, ShortField
<1> QED BY <1>2, <1>3, <1>4

\* The fields of a layout are read as they were written, whatever follows them.
LEMMA LayoutReads ==
  ASSUME NEW m, NEW layout, NEW n, IsLayout(layout, n), HasFields(m, layout),
         ShortFields(m, layout), NEW s \in Seq(Nat)
  PROVE  ReadFields(At(WriteFields(m, layout) \o s, NoFields), layout)
           = At(s, AllFields(m, layout))
<1> DEFINE w == PartsOf(m, layout)
           o == [k \in 0..n |-> FieldsTo(m, layout, k)]
<1>1. /\ \A k \in 1..n : HasField(m, layout[k])
      /\ \A k \in 1..n : ShortField(m, layout[k])
  BY AlongLayout
<1>2. w \in Seq(Seq(Nat)) /\ Len(w) = n /\ n \in Nat /\ DOMAIN layout = 1..n
  BY <1>1, PartsAre
<1>3. n \in 0..n /\ 0 \in 0..n
  BY <1>2
<1>4. FieldLoop!AcceptsAll(layout, w, o, n)
  BY <1>1, <1>3, LayoutAccepts
<1>5. o[0] = NoFields /\ o[n] = AllFields(m, layout)
  BY <1>3, FieldsToEnds
<1> HIDE DEF w, o
<1>6. FieldLoop!Loop(FieldLoop!At(FieldLoop!FlattenSeq(w) \o s, o[0]), layout)
        = FieldLoop!At(s, o[n])
  BY <1>2, <1>4, FieldLoop!LoopReads
<1>7. WriteFields(m, layout) = FieldLoop!FlattenSeq(w)
  BY PartsFlatten, Zenon DEF WriteFields, w, PartsOf
<1> QED BY <1>5, <1>6, <1>7, FieldsAreLoop, Zenon DEF At, FieldLoop!At

\* They are refused if one of them is too long.
LEMMA LayoutRefuses ==
  ASSUME NEW m, NEW layout, NEW n, IsLayout(layout, n), HasFields(m, layout),
         ~ShortFields(m, layout), NEW s \in Seq(Nat)
  PROVE  ~ReadFields(At(WriteFields(m, layout) \o s, NoFields), layout).ok
<1> DEFINE w == PartsOf(m, layout)
           o == [k \in 0..n |-> FieldsTo(m, layout, k)]
           bad == {k \in Nat : k \in 1..n /\ ~ShortField(m, layout[k])}
<1>1. /\ \A k \in 1..n : HasField(m, layout[k])
      /\ ~\A k \in 1..n : ShortField(m, layout[k])
  BY AlongLayout
<1>2. /\ w \in Seq(Seq(Nat)) /\ Len(w) = n /\ n \in Nat /\ DOMAIN layout = 1..n
      /\ \A k \in 1..n : w[k] = WriteField(m, layout[k])
  BY <1>1, PartsAre
<1>3. bad \in SUBSET Nat /\ bad # {}
  <2>1. PICK k \in 1..n : ~ShortField(m, layout[k])
    BY <1>1, Zenon
  <2>2. k \in Nat
    BY <1>2
  <2>3. k \in bad
    BY <2>1, <2>2, Zenon
  <2> QED BY <2>3, Zenon
<1>4. PICK q \in bad : \A k \in bad : q <= k
  BY <1>3, FieldLoop!LeastIndex
<1>5. q \in 1..n /\ ~ShortField(m, layout[q]) /\ q - 1 \in Nat /\ q - 1 < n
      /\ q - 1 \in 0..n /\ (q - 1) + 1 = q /\ 0 \in 0..n
  BY <1>2, <1>4
<1>6. \A k \in 1..(q - 1) : ShortField(m, layout[k])
  <2> SUFFICES ASSUME NEW k \in 1..(q - 1), ~ShortField(m, layout[k]) PROVE FALSE
    OBVIOUS
  <2>1. k \in Nat /\ k \in 1..n /\ ~(q <= k)
    BY <1>2, <1>5
  <2>2. k \in bad
    BY <2>1
  <2> QED BY <1>4, <2>1, <2>2
<1>7. FieldLoop!AcceptsAll(layout, w, o, q - 1)
  BY <1>1, <1>5, <1>6, LayoutAccepts
<1>8. o[0] = NoFields
  BY <1>5, FieldsToEnds
<1> HIDE DEF w, o, bad
<1>9. FieldLoop!Refuses(layout[(q - 1) + 1], w[(q - 1) + 1], o[q - 1])
  <2> SUFFICES ASSUME NEW x \in Seq(Nat)
               PROVE  ~ReadField(FieldLoop!At(w[q] \o x, o[q - 1]), layout[q]).ok
    BY <1>5, Zenon DEF FieldLoop!Refuses
  <2>1. HasField(m, layout[q]) /\ w[q] = WriteField(m, layout[q])
    BY <1>1, <1>2, <1>5
  <2>2. ~ReadField(At(WriteField(m, layout[q]) \o x, o[q - 1]), layout[q]).ok
    BY <1>5, <2>1, FieldReads
  <2> QED BY <2>1, <2>2, Zenon DEF At, FieldLoop!At
<1>10. ~FieldLoop!Loop(FieldLoop!At(FieldLoop!FlattenSeq(w) \o s, o[0]), layout).ok
  BY <1>2, <1>5, <1>7, <1>9, FieldsSteady, FieldLoop!LoopRefuses
<1>11. WriteFields(m, layout) = FieldLoop!FlattenSeq(w)
  BY PartsFlatten, Zenon DEF WriteFields, w, PartsOf
<1> QED BY <1>8, <1>10, <1>11, FieldsAreLoop, Zenon DEF At, FieldLoop!At

\* A reading function is steady: what fails stays failed, and what succeeds leaves
\* alone what follows.
SteadyAt(r, q) == IsReader(q) /\ Holds(r, q)
Extends(q, p, s) == q.ok => p = More(q, s)

LEMMA LayoutSteady ==
  ASSUME NEW r, IsReader(r), NEW layout, NEW n, IsLayout(layout, n)
  PROVE  /\ SteadyAt(r, ReadFields(r, layout))
         /\ \A s \in Seq(Nat) :
              Extends(ReadFields(r, layout), ReadFields(More(r, s), layout), s)
<1>1. n \in Nat /\ DOMAIN layout = 1..n
  BY DEF IsLayout
<1>2. FieldLoop!IsReader(r)
  BY Zenon DEF IsReader, FieldLoop!IsReader
<1>3. /\ FieldLoop!IsReader(FieldLoop!Loop(r, layout))
      /\ ~r.ok => ~FieldLoop!Loop(r, layout).ok
      /\ FieldLoop!Loop(r, layout).ok =>
           \A s \in Seq(Nat) : FieldLoop!Loop(FieldLoop!More(r, s), layout)
                                 = FieldLoop!More(FieldLoop!Loop(r, layout), s)
  BY <1>1, <1>2, FieldsSteady, FieldLoop!LoopSteady
<1> QED BY <1>3, FieldsAreLoop, Zenon
        DEF SteadyAt, Extends, Holds, IsReader, FieldLoop!IsReader, More, FieldLoop!More

-----------------------------------------------------------------------------
(***************************************************************************)
(* The items of a list, each read with no fields yet.                       *)
(***************************************************************************)
LEMMA ItemIs ==
  ASSUME NEW r, IsReader(r), NEW item, IsReader(item)
  PROVE  /\ ItemReader(r) = [rest |-> r.rest, ok |-> r.ok, out |-> NoFields]
         /\ IsReader(ItemReader(r))
         /\ AddItem(r, item)
              = [rest |-> item.rest, ok |-> item.ok, out |-> Append(r.out, item.out)]
         /\ IsReader(AddItem(r, item))
<1>1. PICK x, y, z : r = [rest |-> x, ok |-> y, out |-> z]
  BY DEF IsReader
<1>2. PICK a, b, c : item = [rest |-> a, ok |-> b, out |-> c]
  BY DEF IsReader
<1>3. PICK v : v = NoFields
  OBVIOUS
<1>4. [r EXCEPT !.out = v] = [rest |-> x, ok |-> y, out |-> v] /\ r.rest = x /\ r.ok = y
  BY <1>1
<1>5. ItemReader(r) = [rest |-> r.rest, ok |-> r.ok, out |-> NoFields]
  BY <1>3, <1>4, Zenon DEF ItemReader
<1>6. PICK d : d = Append(r.out, c)
  OBVIOUS
<1>7. [item EXCEPT !.out = d] = [rest |-> a, ok |-> b, out |-> d]
      /\ item.rest = a /\ item.ok = b /\ item.out = c
  BY <1>2
<1>8. AddItem(r, item) = [item EXCEPT !.out = d]
  BY <1>6, <1>7 DEF AddItem
<1>9. AddItem(r, item)
        = [rest |-> item.rest, ok |-> item.ok, out |-> Append(r.out, item.out)]
  BY <1>6, <1>7, <1>8, Zenon
<1>10. IsReader(ItemReader(r))
  BY <1>3, <1>5 DEF IsReader
<1>11. IsReader(AddItem(r, item))
  BY <1>9 DEF IsReader
<1> QED BY <1>5, <1>9, <1>10, <1>11

LEMMA MoreIs ==
  ASSUME NEW r, IsReader(r), NEW s \in Seq(Nat)
  PROVE  /\ IsReader(More(r, s)) /\ More(r, s).rest = r.rest \o s
         /\ More(r, s).ok = r.ok /\ More(r, s).out = r.out
<1>1. r.rest \o s \in Seq(Nat)
  BY ConcatProperties DEF IsReader
<1> QED BY <1>1 DEF IsReader, More

\* Adding an item to a list is steady if reading the item is.
LEMMA ItemSteady ==
  ASSUME NEW r, IsReader(r), NEW q, SteadyAt(ItemReader(r), q)
  PROVE  SteadyAt(r, AddItem(r, q))
<1>1. IsReader(q) /\ Holds(ItemReader(r), q)
  BY DEF SteadyAt
<1>2. /\ ItemReader(r) = [rest |-> r.rest, ok |-> r.ok, out |-> NoFields]
      /\ AddItem(r, q) = [rest |-> q.rest, ok |-> q.ok, out |-> Append(r.out, q.out)]
      /\ IsReader(AddItem(r, q))
  BY <1>1, ItemIs
<1>3. ItemReader(r).ok = r.ok /\ AddItem(r, q).ok = q.ok
  BY <1>2
<1> QED BY <1>1, <1>2, <1>3, Zenon DEF SteadyAt, Holds

LEMMA ItemExtends ==
  ASSUME NEW r, IsReader(r), NEW q, IsReader(q), NEW s \in Seq(Nat), NEW p, Extends(q, p, s)
  PROVE  /\ ItemReader(More(r, s)) = More(ItemReader(r), s)
         /\ Extends(AddItem(r, q), AddItem(More(r, s), p), s)
<1>1. /\ IsReader(More(r, s)) /\ More(r, s).rest = r.rest \o s
      /\ More(r, s).ok = r.ok /\ More(r, s).out = r.out
  BY MoreIs
<1>2. /\ ItemReader(r) = [rest |-> r.rest, ok |-> r.ok, out |-> NoFields]
      /\ AddItem(r, q) = [rest |-> q.rest, ok |-> q.ok, out |-> Append(r.out, q.out)]
  BY ItemIs
<1>3. ItemReader(More(r, s)) = [rest |-> r.rest \o s, ok |-> r.ok, out |-> NoFields]
  BY <1>1, ItemIs
<1>4. More(ItemReader(r), s) = [rest |-> r.rest \o s, ok |-> r.ok, out |-> NoFields]
  <2>1. PICK v : v = NoFields
    OBVIOUS
  <2>2. More([rest |-> r.rest, ok |-> r.ok, out |-> v], s)
          = [rest |-> r.rest \o s, ok |-> r.ok, out |-> v]
    BY DEF More
  <2> QED BY <1>2, <2>1, <2>2
<1>5. ASSUME AddItem(r, q).ok PROVE AddItem(More(r, s), p) = More(AddItem(r, q), s)
  <2>1. q.ok
    BY <1>2, <1>5
  <2>2. p = More(q, s)
    BY <2>1 DEF Extends
  <2>3. IsReader(p) /\ p.rest = q.rest \o s /\ p.ok = q.ok /\ p.out = q.out
    BY <2>2, MoreIs
  <2>4. AddItem(More(r, s), p)
          = [rest |-> q.rest \o s, ok |-> q.ok, out |-> Append(r.out, q.out)]
    <3>1. AddItem(More(r, s), p)
            = [rest |-> p.rest, ok |-> p.ok, out |-> Append(More(r, s).out, p.out)]
      BY <1>1, <2>3, ItemIs, Zenon
    <3> QED BY <1>1, <2>3, <3>1, Zenon
  <2>5. PICK v : v = Append(r.out, q.out)
    OBVIOUS
  <2>6. More([rest |-> q.rest, ok |-> q.ok, out |-> v], s)
          = [rest |-> q.rest \o s, ok |-> q.ok, out |-> v]
    BY DEF More
  <2> QED BY <1>2, <2>4, <2>5, <2>6
<1> QED BY <1>3, <1>4, <1>5 DEF Extends

\* An item read from the front of a payload.
LEMMA ItemAt ==
  ASSUME NEW b \in Seq(Nat), NEW o, NEW s \in Seq(Nat), NEW v
  PROVE  /\ IsReader(At(b, o)) /\ ItemReader(At(b, o)) = At(b, NoFields)
         /\ AddItem(At(b, o), At(s, v)) = At(s, Append(o, v))
<1>1. IsReader(At(b, o)) /\ IsReader(At(s, v))
  BY DEF IsReader, At
<1>2. /\ At(b, o).rest = b /\ At(b, o).ok = TRUE /\ At(b, o).out = o
      /\ At(s, v).rest = s /\ At(s, v).ok = TRUE /\ At(s, v).out = v
  BY DEF At
<1>3. ItemReader(At(b, o)) = [rest |-> b, ok |-> TRUE, out |-> NoFields]
  BY <1>1, <1>2, ItemIs
<1>4. AddItem(At(b, o), At(s, v)) = [rest |-> s, ok |-> TRUE, out |-> Append(o, v)]
  <2>1. AddItem(At(b, o), At(s, v)) = [rest |-> At(s, v).rest, ok |-> At(s, v).ok,
                                       out |-> Append(At(b, o).out, At(s, v).out)]
    BY <1>1, ItemIs, Zenon
  <2> QED BY <1>2, <2>1, Zenon
<1> QED BY <1>1, <1>3, <1>4, Zenon DEF At

\* One that fails.
LEMMA ItemFails ==
  ASSUME NEW r, IsReader(r), NEW q, IsReader(q), ~q.ok
  PROVE  ~AddItem(r, q).ok
<1>1. AddItem(r, q) = [rest |-> q.rest, ok |-> q.ok, out |-> Append(r.out, q.out)]
  BY ItemIs
<1> QED BY <1>1

\* Two readings, one after the other.
LEMMA TwoSteady ==
  ASSUME NEW r, NEW q, NEW t, SteadyAt(r, q), SteadyAt(q, t)
  PROVE  SteadyAt(r, t)
BY Zenon DEF SteadyAt, Holds

LEMMA TwoExtend ==
  ASSUME NEW q, NEW p, NEW s, Extends(q, p, s), NEW t, NEW u, Holds(q, t),
         Extends(t, u, s)
  PROVE  t.ok => p = More(q, s) /\ u = More(t, s)
BY Zenon DEF Extends, Holds

-----------------------------------------------------------------------------
(***************************************************************************)
(* The lists of a selection.                                                *)
(***************************************************************************)
LEMMA Layouts ==
  /\ IsLayout(FactorFields, 4) /\ IsLayout(RankedFields, 5)
  /\ IsLayout(RejectedFields, 5) /\ IsLayout(SelectionHead, 4)
  /\ IsLayout(RegionEvidenceWritten, 21) /\ IsLayout(RequirementsWritten, 24)
  /\ IsLayout(ReservationWritten, 23)
BY DEF IsLayout, FactorFields, RankedFields, RejectedFields, SelectionHead,
       RegionEvidenceWritten, RequirementsWritten, ReservationWritten

\* The payload of a structure.
LEMMA FieldsWritten ==
  ASSUME NEW m, NEW layout, NEW n, IsLayout(layout, n), HasFields(m, layout)
  PROVE  WriteFields(m, layout) \in Seq(Nat)
<1> DEFINE w == PartsOf(m, layout)
<1>1. \A k \in 1..n : HasField(m, layout[k])
  BY AlongLayout
<1>2. w \in Seq(Seq(Nat)) /\ <<>> \in Seq(Nat)
  BY <1>1, PartsAre, EmptySeq
<1>3. WriteFields(m, layout) = FieldLoop!FlattenSeq(w)
  BY PartsFlatten, Zenon DEF WriteFields, w, PartsOf
<1> HIDE DEF w
<1>4. FieldLoop!FlattenSeq(w) \in Seq(Nat)
  BY <1>2, FieldLoop!TailsExist
<1> QED BY <1>3, <1>4

\* A structure as an item: it is added as it was written, or refused as too long.
LEMMA RecordJudged ==
  ASSUME NEW m, NEW layout, NEW n, IsLayout(layout, n), IsRecord(m, layout),
         NEW o, NEW s \in Seq(Nat)
  PROVE  LET r == At(WriteFields(m, layout) \o s, o)
             q == AddItem(r, ReadFields(ItemReader(r), layout)) IN
         IF ShortFields(m, layout) THEN q = At(s, Append(o, m)) ELSE ~q.ok
<1> DEFINE b == WriteFields(m, layout) \o s
           r == At(b, o)
           q == ReadFields(At(b, NoFields), layout)
<1>1. HasFields(m, layout) /\ m = AllFields(m, layout)
  BY Zenon DEF IsRecord, HasOnly, AllFields
<1>2. WriteFields(m, layout) \in Seq(Nat) /\ b \in Seq(Nat)
  BY <1>1, FieldsWritten, ConcatProperties
<1>3. ShortFields(m, layout) => q = At(s, m)
  BY <1>1, LayoutReads, Zenon
<1>4. ~ShortFields(m, layout) => ~q.ok
  BY <1>1, LayoutRefuses
<1> HIDE DEF b
<1>5. IsReader(r) /\ ItemReader(r) = At(b, NoFields) /\ IsReader(At(b, NoFields))
      /\ AddItem(r, At(s, m)) = At(s, Append(o, m))
  <2>1. /\ IsReader(At(b, o)) /\ ItemReader(At(b, o)) = At(b, NoFields)
        /\ AddItem(At(b, o), At(s, m)) = At(s, Append(o, m))
    BY <1>2, ItemAt
  <2>2. IsReader(At(b, NoFields))
    BY <1>2, ItemAt
  <2> QED BY <2>1, <2>2
<1>6. IsReader(q)
  BY <1>5, LayoutSteady DEF SteadyAt
<1>7. ~q.ok => ~AddItem(r, q).ok
  BY <1>5, <1>6, ItemFails
<1> HIDE DEF r, q
<1>8. IF ShortFields(m, layout) THEN AddItem(r, q) = At(s, Append(o, m))
      ELSE ~AddItem(r, q).ok
  BY <1>3, <1>4, <1>5, <1>7
<1> QED BY <1>5, <1>8, Zenon DEF r, q, b

\* Reading one is steady.
LEMMA RecordSteady ==
  ASSUME NEW layout, NEW n, IsLayout(layout, n), NEW r, IsReader(r)
  PROVE  LET Read(x) == AddItem(x, ReadFields(ItemReader(x), layout)) IN
         SteadyAt(r, Read(r)) /\ \A s \in Seq(Nat) : Extends(Read(r), Read(More(r, s)), s)
<1> DEFINE i == ItemReader(r)
           q == ReadFields(i, layout)
<1>1. IsReader(i)
  BY ItemIs
<1>2. SteadyAt(i, q) /\ \A s \in Seq(Nat) : Extends(q, ReadFields(More(i, s), layout), s)
  BY <1>1, LayoutSteady
<1>3. IsReader(q)
  BY <1>2 DEF SteadyAt
<1> HIDE DEF i, q
<1>4. SteadyAt(r, AddItem(r, q))
  BY <1>2, ItemSteady DEF i
<1>5. ASSUME NEW s \in Seq(Nat)
      PROVE  Extends(AddItem(r, q),
                     AddItem(More(r, s), ReadFields(ItemReader(More(r, s)), layout)), s)
  <2> DEFINE p == ReadFields(More(i, s), layout)
  <2>1. Extends(q, p, s)
    BY <1>2
  <2> HIDE DEF p
  <2>2. ItemReader(More(r, s)) = More(i, s) /\ Extends(AddItem(r, q), AddItem(More(r, s), p), s)
    BY <1>3, <2>1, ItemExtends DEF i
  <2> QED BY <2>2 DEF p
<1> QED BY <1>4, <1>5 DEF i, q

LEMMA FactorSteady == FactorLoop!Steady
<1> SUFFICES ASSUME NEW r, NEW x, FactorLoop!IsReader(r)
             PROVE  /\ FactorLoop!IsReader(ReadFactor(r, x))
                    /\ ~r.ok => ~ReadFactor(r, x).ok
                    /\ ReadFactor(r, x).ok => \A s \in Seq(Nat) :
                         ReadFactor(FactorLoop!More(r, s), x)
                           = FactorLoop!More(ReadFactor(r, x), s)
  BY Zenon DEF FactorLoop!Steady
<1>1. IsReader(r)
  BY Zenon DEF IsReader, FactorLoop!IsReader
<1>2. /\ SteadyAt(r, ReadFactor(r, x))
      /\ \A s \in Seq(Nat) : Extends(ReadFactor(r, x), ReadFactor(More(r, s), x), s)
  BY <1>1, Layouts, RecordSteady DEF ReadFactor
<1> QED BY <1>2, Zenon DEF SteadyAt, Extends, Holds, IsReader, FactorLoop!IsReader,
                           More, FactorLoop!More

LEMMA RejectedSteady == RejectedLoop!Steady
<1> SUFFICES ASSUME NEW r, NEW x, RejectedLoop!IsReader(r)
             PROVE  /\ RejectedLoop!IsReader(ReadRejected(r, x))
                    /\ ~r.ok => ~ReadRejected(r, x).ok
                    /\ ReadRejected(r, x).ok => \A s \in Seq(Nat) :
                         ReadRejected(RejectedLoop!More(r, s), x)
                           = RejectedLoop!More(ReadRejected(r, x), s)
  BY Zenon DEF RejectedLoop!Steady
<1>1. IsReader(r)
  BY Zenon DEF IsReader, RejectedLoop!IsReader
<1>2. /\ SteadyAt(r, ReadRejected(r, x))
      /\ \A s \in Seq(Nat) : Extends(ReadRejected(r, x), ReadRejected(More(r, s), x), s)
  BY <1>1, Layouts, RecordSteady DEF ReadRejected
<1> QED BY <1>2, Zenon DEF SteadyAt, Extends, Holds, IsReader, RejectedLoop!IsReader,
                           More, RejectedLoop!More

\* ReadList is the counted loop.
LEMMA FactorsAreLoop ==
  ASSUME NEW r, NEW f
  PROVE  ReadList(r, f, ReadFactor) = FactorLoop!Counted(r, f, kMaxCount)
BY Zenon DEF ReadList, Failed, Put, FactorLoop!Counted, FactorLoop!Put, FactorLoop!Loop,
             FactorLoop!FoldLeft, FactorLoop!MapThenFoldSet, FactorLoop!Max,
             FoldLeft, MapThenFoldSet, Max

LEMMA RejectedAreLoop ==
  ASSUME NEW r, NEW f
  PROVE  ReadList(r, f, ReadRejected) = RejectedLoop!Counted(r, f, kMaxCount)
BY Zenon DEF ReadList, Failed, Put, RejectedLoop!Counted, RejectedLoop!Put,
             RejectedLoop!Loop, RejectedLoop!FoldLeft, RejectedLoop!MapThenFoldSet,
             RejectedLoop!Max, FoldLeft, MapThenFoldSet, Max

LEMMA RankedAreLoop ==
  ASSUME NEW r, NEW f
  PROVE  ReadList(r, f, ReadRanked) = RankedLoop!Counted(r, f, kMaxCount)
BY Zenon DEF ReadList, Failed, Put, RankedLoop!Counted, RankedLoop!Put, RankedLoop!Loop,
             RankedLoop!FoldLeft, RankedLoop!MapThenFoldSet, RankedLoop!Max,
             FoldLeft, MapThenFoldSet, Max

\* So that reading a list is steady, and a list of structures is read as it was
\* written, or refused as too long.
LEMMA FactorListSteady ==
  ASSUME NEW r, IsReader(r), NEW f
  PROVE  /\ SteadyAt(r, ReadList(r, f, ReadFactor))
         /\ \A s \in Seq(Nat) :
              Extends(ReadList(r, f, ReadFactor), ReadList(More(r, s), f, ReadFactor), s)
<1>1. FactorLoop!IsReader(r) /\ kMaxCount \in Nat
  BY MessageTypes, Zenon DEF IsReader, FactorLoop!IsReader
<1>2. /\ FactorLoop!IsReader(FactorLoop!Counted(r, f, kMaxCount))
      /\ ~r.ok => ~FactorLoop!Counted(r, f, kMaxCount).ok
      /\ FactorLoop!Counted(r, f, kMaxCount).ok => \A s \in Seq(Nat) :
           FactorLoop!Counted(FactorLoop!More(r, s), f, kMaxCount)
             = FactorLoop!More(FactorLoop!Counted(r, f, kMaxCount), s)
  BY <1>1, FactorSteady, FactorLoop!ListSteady
<1> QED BY <1>2, FactorsAreLoop, Zenon
         DEF SteadyAt, Extends, Holds, IsReader, FactorLoop!IsReader, More, FactorLoop!More

LEMMA RejectedListSteady ==
  ASSUME NEW r, IsReader(r), NEW f
  PROVE  /\ SteadyAt(r, ReadList(r, f, ReadRejected))
         /\ \A s \in Seq(Nat) :
              Extends(ReadList(r, f, ReadRejected), ReadList(More(r, s), f, ReadRejected), s)
<1>1. RejectedLoop!IsReader(r) /\ kMaxCount \in Nat
  BY MessageTypes, Zenon DEF IsReader, RejectedLoop!IsReader
<1>2. /\ RejectedLoop!IsReader(RejectedLoop!Counted(r, f, kMaxCount))
      /\ ~r.ok => ~RejectedLoop!Counted(r, f, kMaxCount).ok
      /\ RejectedLoop!Counted(r, f, kMaxCount).ok => \A s \in Seq(Nat) :
           RejectedLoop!Counted(RejectedLoop!More(r, s), f, kMaxCount)
             = RejectedLoop!More(RejectedLoop!Counted(r, f, kMaxCount), s)
  BY <1>1, RejectedSteady, RejectedLoop!ListSteady
<1> QED BY <1>2, RejectedAreLoop, Zenon
         DEF SteadyAt, Extends, Holds, IsReader, RejectedLoop!IsReader, More, RejectedLoop!More

LEMMA FactorListJudged ==
  ASSUME NEW items, IsList(items), \A k \in DOMAIN items : IsRecord(items[k], FactorFields),
         NEW f, NEW out, NEW s \in Seq(Nat)
  PROVE  /\ WriteList(items, WriteFactor) \in Seq(Nat)
         /\ LET q == ReadList(At(WriteList(items, WriteFactor) \o s, out), f, ReadFactor) IN
            IF /\ Len(items) <= kMaxCount
               /\ \A k \in DOMAIN items : ShortFields(items[k], FactorFields)
            THEN q = At(s, Put(out, f, items)) ELSE ~q.ok
<1> DEFINE w == [k \in DOMAIN items |-> WriteFactor(items[k])]
           good == {k \in DOMAIN items : ShortFields(items[k], FactorFields)}
           N == Len(items)
<1>1. N \in Nat /\ DOMAIN items = 1..N /\ items = [k \in 1..N |-> items[k]]
  BY DEF IsList
<1>2. \A k \in DOMAIN items : WriteFactor(items[k]) \in Seq(Nat)
  BY FieldsWritten, Layouts DEF WriteFactor, IsRecord
<1>3. w \in Seq(Seq(Nat)) /\ Len(w) = N
  BY <1>1, <1>2, SeqDef, LenProperties
<1>4. WriteList(items, WriteFactor) = FactorLoop!ListOf(w)
  <2>1. WriteList(items, WriteFactor) = <<N>> \o FlattenSeq(w)
    BY Zenon DEF WriteList
  <2> HIDE DEF w
  <2> QED BY <1>3, <2>1, PartsFlatten DEF FactorLoop!ListOf
<1>5. FactorLoop!ItemsJudged(w, items, good)
  <2> SUFFICES ASSUME NEW k \in 1..N, NEW o, NEW x \in Seq(Nat)
               PROVE  LET q == ReadFactor(FactorLoop!At(w[k] \o x, o), k) IN
                      IF k \in good THEN q = FactorLoop!At(x, Append(o, items[k])) ELSE ~q.ok
    BY <1>3, Zenon DEF FactorLoop!ItemsJudged, FactorLoop!Accepts, FactorLoop!Refuses
  <2> DEFINE r == At(WriteFields(items[k], FactorFields) \o x, o)
             q == AddItem(r, ReadFields(ItemReader(r), FactorFields))
  <2>1. k \in DOMAIN items /\ IsRecord(items[k], FactorFields)
    BY <1>1
  <2>2. IF ShortFields(items[k], FactorFields) THEN q = At(x, Append(o, items[k])) ELSE ~q.ok
    BY <2>1, Layouts, RecordJudged
  <2>3. w[k] = WriteFields(items[k], FactorFields)
    BY <2>1, Zenon DEF WriteFactor
  <2>4. k \in good <=> ShortFields(items[k], FactorFields)
    BY <2>1
  <2> HIDE DEF w, good
  <2>5. ReadFactor(FactorLoop!At(w[k] \o x, o), k) = q
    BY <2>3, Zenon DEF ReadFactor, At, FactorLoop!At
  <2> HIDE DEF q
  <2> QED BY <2>2, <2>4, <2>5, Zenon DEF At, FactorLoop!At
<1>6. Len(w) <= kMaxCount /\ (\A k \in 1..Len(w) : k \in good)
      <=> N <= kMaxCount /\ \A k \in DOMAIN items : ShortFields(items[k], FactorFields)
  BY <1>1, <1>3
<1>7. kMaxCount \in Nat /\ items = [k \in 1..Len(w) |-> items[k]]
  BY <1>1, <1>3, MessageTypes
<1> HIDE DEF w, good
<1>8. LET q == FactorLoop!Counted(FactorLoop!At(FactorLoop!ListOf(w) \o s, out),
                     f, kMaxCount) IN
      IF Len(w) <= kMaxCount /\ \A k \in 1..Len(w) : k \in good
      THEN q = FactorLoop!At(s, FactorLoop!Put(out, f, items)) ELSE ~q.ok
  BY <1>3, <1>5, <1>7, FactorSteady, FactorLoop!ListJudged
<1>9. FactorLoop!ListOf(w) \in Seq(Nat)
  BY <1>3, FactorLoop!ListFront
<1>10. ReadList(At(WriteList(items, WriteFactor) \o s, out), f, ReadFactor)
         = FactorLoop!Counted(FactorLoop!At(FactorLoop!ListOf(w) \o s, out), f, kMaxCount)
  BY <1>4, FactorsAreLoop, Zenon DEF At, FactorLoop!At
<1>11. At(s, Put(out, f, items)) = FactorLoop!At(s, FactorLoop!Put(out, f, items))
  BY Zenon DEF At, FactorLoop!At, Put, FactorLoop!Put
<1> QED BY <1>4, <1>6, <1>8, <1>9, <1>10, <1>11, Zenon

LEMMA RejectedListJudged ==
  ASSUME NEW items, IsList(items), \A k \in DOMAIN items : IsRecord(items[k], RejectedFields),
         NEW f, NEW out, NEW s \in Seq(Nat)
  PROVE  /\ WriteList(items, WriteRejected) \in Seq(Nat)
         /\ LET q == ReadList(At(WriteList(items, WriteRejected) \o s, out), f, ReadRejected) IN
            IF /\ Len(items) <= kMaxCount
               /\ \A k \in DOMAIN items : ShortFields(items[k], RejectedFields)
            THEN q = At(s, Put(out, f, items)) ELSE ~q.ok
<1> DEFINE w == [k \in DOMAIN items |-> WriteRejected(items[k])]
           good == {k \in DOMAIN items : ShortFields(items[k], RejectedFields)}
           N == Len(items)
<1>1. N \in Nat /\ DOMAIN items = 1..N /\ items = [k \in 1..N |-> items[k]]
  BY DEF IsList
<1>2. \A k \in DOMAIN items : WriteRejected(items[k]) \in Seq(Nat)
  BY FieldsWritten, Layouts DEF WriteRejected, IsRecord
<1>3. w \in Seq(Seq(Nat)) /\ Len(w) = N
  BY <1>1, <1>2, SeqDef, LenProperties
<1>4. WriteList(items, WriteRejected) = RejectedLoop!ListOf(w)
  <2>1. WriteList(items, WriteRejected) = <<N>> \o FlattenSeq(w)
    BY Zenon DEF WriteList
  <2> HIDE DEF w
  <2> QED BY <1>3, <2>1, PartsFlatten DEF RejectedLoop!ListOf
<1>5. RejectedLoop!ItemsJudged(w, items, good)
  <2> SUFFICES ASSUME NEW k \in 1..N, NEW o, NEW x \in Seq(Nat)
               PROVE  LET q == ReadRejected(RejectedLoop!At(w[k] \o x, o), k) IN
                      IF k \in good THEN q = RejectedLoop!At(x, Append(o, items[k])) ELSE ~q.ok
    BY <1>3, Zenon DEF RejectedLoop!ItemsJudged, RejectedLoop!Accepts, RejectedLoop!Refuses
  <2> DEFINE r == At(WriteFields(items[k], RejectedFields) \o x, o)
             q == AddItem(r, ReadFields(ItemReader(r), RejectedFields))
  <2>1. k \in DOMAIN items /\ IsRecord(items[k], RejectedFields)
    BY <1>1
  <2>2. IF ShortFields(items[k], RejectedFields) THEN q = At(x, Append(o, items[k])) ELSE ~q.ok
    BY <2>1, Layouts, RecordJudged
  <2>3. w[k] = WriteFields(items[k], RejectedFields)
    BY <2>1, Zenon DEF WriteRejected
  <2>4. k \in good <=> ShortFields(items[k], RejectedFields)
    BY <2>1
  <2> HIDE DEF w, good
  <2>5. ReadRejected(RejectedLoop!At(w[k] \o x, o), k) = q
    BY <2>3, Zenon DEF ReadRejected, At, RejectedLoop!At
  <2> HIDE DEF q
  <2> QED BY <2>2, <2>4, <2>5, Zenon DEF At, RejectedLoop!At
<1>6. Len(w) <= kMaxCount /\ (\A k \in 1..Len(w) : k \in good)
      <=> N <= kMaxCount /\ \A k \in DOMAIN items : ShortFields(items[k], RejectedFields)
  BY <1>1, <1>3
<1>7. kMaxCount \in Nat /\ items = [k \in 1..Len(w) |-> items[k]]
  BY <1>1, <1>3, MessageTypes
<1> HIDE DEF w, good
<1>8. LET q == RejectedLoop!Counted(RejectedLoop!At(RejectedLoop!ListOf(w) \o s, out),
                     f, kMaxCount) IN
      IF Len(w) <= kMaxCount /\ \A k \in 1..Len(w) : k \in good
      THEN q = RejectedLoop!At(s, RejectedLoop!Put(out, f, items)) ELSE ~q.ok
  BY <1>3, <1>5, <1>7, RejectedSteady, RejectedLoop!ListJudged
<1>9. RejectedLoop!ListOf(w) \in Seq(Nat)
  BY <1>3, RejectedLoop!ListFront
<1>10. ReadList(At(WriteList(items, WriteRejected) \o s, out), f, ReadRejected)
         = RejectedLoop!Counted(RejectedLoop!At(RejectedLoop!ListOf(w) \o s, out), f, kMaxCount)
  BY <1>4, RejectedAreLoop, Zenon DEF At, RejectedLoop!At
<1>11. At(s, Put(out, f, items)) = RejectedLoop!At(s, RejectedLoop!Put(out, f, items))
  BY Zenon DEF At, RejectedLoop!At, Put, RejectedLoop!Put
<1> QED BY <1>4, <1>6, <1>8, <1>9, <1>10, <1>11, Zenon

-----------------------------------------------------------------------------
(***************************************************************************)
(* A ranked candidate: its fields, and the list of its factors.             *)
(***************************************************************************)
\* Parts of a payload can be joined in either grouping.
Groups(a, b, c) == a \o (b \o c) = (a \o b) \o c

LEMMA Grouped ==
  ASSUME NEW a \in Seq(Nat), NEW b \in Seq(Nat), NEW c \in Seq(Nat)
  PROVE  Groups(a, b, c)
  BY SMTT(30) DEF Groups

\* A message whose last field is put in.
LEMMA PutRest ==
  ASSUME NEW m, NEW S, NEW g, m = [f \in S \cup {g} |-> m[f]]
  PROVE  Put([f \in S |-> m[f]], g, m[g]) = m
<1>1. Put([f \in S |-> m[f]], g, m[g]) = [f \in S \cup {g} |-> m[f]]
  BY DEF Put
<1> QED BY <1>1

\* The fields and the list, before the candidate is added.
ReadCandidate(i) == ReadList(ReadFields(i, RankedFields), "factors", ReadFactor)

LEMMA CandidateSteady ==
  ASSUME NEW i, IsReader(i)
  PROVE  /\ SteadyAt(i, ReadCandidate(i))
         /\ \A s \in Seq(Nat) : Extends(ReadCandidate(i), ReadCandidate(More(i, s)), s)
<1> DEFINE q == ReadFields(i, RankedFields)
<1>1. SteadyAt(i, q) /\ \A s \in Seq(Nat) : Extends(q, ReadFields(More(i, s), RankedFields), s)
  BY Layouts, LayoutSteady
<1>2. IsReader(q)
  BY <1>1 DEF SteadyAt
<1> HIDE DEF q
<1> DEFINE t == ReadList(q, "factors", ReadFactor)
<1>3. SteadyAt(q, t)
      /\ \A s \in Seq(Nat) : Extends(t, ReadList(More(q, s), "factors", ReadFactor), s)
  BY <1>2, FactorListSteady
<1> HIDE DEF t
<1>4. SteadyAt(i, t)
  BY <1>1, <1>3, TwoSteady
<1>5. ReadCandidate(i) = t
  BY DEF ReadCandidate, t, q
<1>6. ASSUME NEW s \in Seq(Nat), t.ok PROVE ReadCandidate(More(i, s)) = More(t, s)
  <2>1. q.ok
    BY <1>3, <1>6, Zenon DEF SteadyAt, Holds
  <2>2. ReadFields(More(i, s), RankedFields) = More(q, s)
    BY <1>1, <2>1, Zenon DEF Extends
  <2>3. ReadList(More(q, s), "factors", ReadFactor) = More(t, s)
    BY <1>3, <1>6, Zenon DEF Extends
  <2> QED BY <2>2, <2>3, Zenon DEF ReadCandidate
<1> QED BY <1>4, <1>5, <1>6 DEF Extends

LEMMA RankedIs ==
  ASSUME NEW r, NEW k
  PROVE  ReadRanked(r, k) = AddItem(r, ReadCandidate(ItemReader(r)))
BY Zenon DEF ReadRanked, ReadCandidate

LEMMA RankedSteady == RankedLoop!Steady
<1> SUFFICES ASSUME NEW r, NEW x, RankedLoop!IsReader(r)
             PROVE  /\ RankedLoop!IsReader(ReadRanked(r, x))
                    /\ ~r.ok => ~ReadRanked(r, x).ok
                    /\ ReadRanked(r, x).ok => \A s \in Seq(Nat) :
                         ReadRanked(RankedLoop!More(r, s), x)
                           = RankedLoop!More(ReadRanked(r, x), s)
  BY Zenon DEF RankedLoop!Steady
<1> DEFINE i == ItemReader(r)
           q == ReadCandidate(i)
<1>1. IsReader(r)
  BY Zenon DEF IsReader, RankedLoop!IsReader
<1>2. IsReader(i)
  BY <1>1, ItemIs
<1>3. SteadyAt(i, q) /\ \A s \in Seq(Nat) : Extends(q, ReadCandidate(More(i, s)), s)
  BY <1>2, CandidateSteady
<1>4. IsReader(q)
  BY <1>3 DEF SteadyAt
<1> HIDE DEF i, q
<1>5. SteadyAt(r, AddItem(r, q))
  BY <1>1, <1>3, ItemSteady DEF i
<1>6. ReadRanked(r, x) = AddItem(r, q)
  BY RankedIs DEF i, q
<1>7. ASSUME NEW s \in Seq(Nat)
      PROVE  Extends(AddItem(r, q), ReadRanked(More(r, s), x), s)
  <2> DEFINE p == ReadCandidate(More(i, s))
  <2>1. Extends(q, p, s)
    BY <1>3
  <2> HIDE DEF p
  <2>2. ItemReader(More(r, s)) = More(i, s) /\ Extends(AddItem(r, q), AddItem(More(r, s), p), s)
    BY <1>1, <1>4, <2>1, ItemExtends DEF i
  <2>3. ReadRanked(More(r, s), x) = AddItem(More(r, s), p)
    BY <2>2, RankedIs DEF p
  <2> QED BY <2>2, <2>3
<1> QED BY <1>5, <1>6, <1>7, Zenon
        DEF SteadyAt, Extends, Holds, IsReader, RankedLoop!IsReader, More, RankedLoop!More

\* A candidate is read as it was written, or refused as too long.
LEMMA CandidateJudged ==
  ASSUME NEW c, IsRanked(c), NEW s \in Seq(Nat)
  PROVE  /\ WriteRanked(c) \in Seq(Nat)
         /\ LET q == ReadCandidate(At(WriteRanked(c) \o s, NoFields)) IN
            IF ShortRanked(c) THEN q = At(s, c) ELSE ~q.ok
<1> DEFINE a == WriteFields(c, RankedFields)
           b == WriteList(c.factors, WriteFactor)
           mid == AllFields(c, RankedFields)
           q == ReadFields(At(a \o (b \o s), NoFields), RankedFields)
           t == ReadList(q, "factors", ReadFactor)
           short == /\ Len(c.factors) <= kMaxCount
                    /\ \A k \in DOMAIN c.factors : ShortFields(c.factors[k], FactorFields)
<1>1. /\ HasFields(c, RankedFields) /\ HasOnly(c, Range(RankedFields) \cup {"factors"})
      /\ IsList(c.factors)
      /\ \A k \in DOMAIN c.factors : IsRecord(c.factors[k], FactorFields)
  BY DEF IsRanked
<1>2. a \in Seq(Nat)
  BY <1>1, Layouts, FieldsWritten
<1>3. /\ b \in Seq(Nat)
      /\ LET p == ReadList(At(b \o s, mid), "factors", ReadFactor) IN
         IF short THEN p = At(s, Put(mid, "factors", c.factors)) ELSE ~p.ok
  BY <1>1, FactorListJudged
<1>4. Put(mid, "factors", c.factors) = c
  BY <1>1, PutRest DEF HasOnly, AllFields
<1>5. b \o s \in Seq(Nat) /\ a \o b \in Seq(Nat) /\ (a \o b) \o s = a \o (b \o s)
  <2> HIDE DEF a, b
  <2>1. b \o s \in Seq(Nat) /\ a \o b \in Seq(Nat)
    BY <1>2, <1>3, ConcatProperties
  <2>2. Groups(a, b, s)
    BY <1>2, <1>3, Grouped
  <2> QED BY <2>1, <2>2, Zenon DEF Groups
<1>6. a \o (b \o s) \in Seq(Nat)
  BY <1>2, <1>5, ConcatProperties
<1>7. ShortFields(c, RankedFields) => q = At(b \o s, mid)
  BY <1>1, <1>5, Layouts, LayoutReads
<1>8. ~ShortFields(c, RankedFields) => ~q.ok
  BY <1>1, <1>5, Layouts, LayoutRefuses
<1>9. IsReader(q)
  <2>1. IsReader(At(a \o (b \o s), NoFields))
    BY <1>6, ItemAt
  <2> QED BY <2>1, Layouts, LayoutSteady DEF SteadyAt
<1> HIDE DEF q, short
<1>10. ~q.ok => ~t.ok
  BY <1>9, FactorListSteady DEF SteadyAt, Holds
<1>11. ShortRanked(c) <=> ShortFields(c, RankedFields) /\ short
  BY Zenon DEF ShortRanked, short
<1>12. WriteRanked(c) = a \o b
  BY Zenon DEF WriteRanked
<1> HIDE DEF a, b, mid
<1>13. ReadCandidate(At(WriteRanked(c) \o s, NoFields)) = t
  BY <1>5, <1>12, Zenon DEF ReadCandidate, q
<1>14. IF ShortRanked(c) THEN t = At(s, c) ELSE ~t.ok
  BY <1>3, <1>4, <1>7, <1>8, <1>10, <1>11, Zenon
<1> HIDE DEF t
<1> QED BY <1>5, <1>12, <1>13, <1>14

LEMMA RankedListSteady ==
  ASSUME NEW r, IsReader(r), NEW f
  PROVE  /\ SteadyAt(r, ReadList(r, f, ReadRanked))
         /\ \A s \in Seq(Nat) :
              Extends(ReadList(r, f, ReadRanked), ReadList(More(r, s), f, ReadRanked), s)
<1>1. RankedLoop!IsReader(r) /\ kMaxCount \in Nat
  BY MessageTypes, Zenon DEF IsReader, RankedLoop!IsReader
<1>2. /\ RankedLoop!IsReader(RankedLoop!Counted(r, f, kMaxCount))
      /\ ~r.ok => ~RankedLoop!Counted(r, f, kMaxCount).ok
      /\ RankedLoop!Counted(r, f, kMaxCount).ok => \A s \in Seq(Nat) :
           RankedLoop!Counted(RankedLoop!More(r, s), f, kMaxCount)
             = RankedLoop!More(RankedLoop!Counted(r, f, kMaxCount), s)
  BY <1>1, RankedSteady, RankedLoop!ListSteady
<1> QED BY <1>2, RankedAreLoop, Zenon DEF SteadyAt, Extends, Holds, IsReader,
                                      RankedLoop!IsReader, More, RankedLoop!More

LEMMA RankedJudged ==
  ASSUME NEW c, IsRanked(c), NEW o, NEW k, NEW s \in Seq(Nat)
  PROVE  LET q == ReadRanked(At(WriteRanked(c) \o s, o), k) IN
         IF ShortRanked(c) THEN q = At(s, Append(o, c)) ELSE ~q.ok
<1> DEFINE b == WriteRanked(c) \o s
           r == At(b, o)
           q == ReadCandidate(At(b, NoFields))
<1>1. WriteRanked(c) \in Seq(Nat) /\ IF ShortRanked(c) THEN q = At(s, c) ELSE ~q.ok
  BY CandidateJudged
<1>2. b \in Seq(Nat)
  BY <1>1, ConcatProperties
<1> HIDE DEF b
<1>3. IsReader(r) /\ ItemReader(r) = At(b, NoFields) /\ IsReader(At(b, NoFields))
      /\ AddItem(r, At(s, c)) = At(s, Append(o, c))
  <2>1. /\ IsReader(At(b, o)) /\ ItemReader(At(b, o)) = At(b, NoFields)
        /\ AddItem(At(b, o), At(s, c)) = At(s, Append(o, c))
    BY <1>2, ItemAt
  <2>2. IsReader(At(b, NoFields))
    BY <1>2, ItemAt
  <2> QED BY <2>1, <2>2
<1>4. IsReader(q)
  BY <1>3, CandidateSteady DEF SteadyAt
<1>5. ~q.ok => ~AddItem(r, q).ok
  BY <1>3, <1>4, ItemFails
<1> HIDE DEF r, q
<1>6. ReadRanked(r, k) = AddItem(r, q)
  BY <1>3, RankedIs DEF q
<1>7. IF ShortRanked(c) THEN ReadRanked(r, k) = At(s, Append(o, c)) ELSE ~ReadRanked(r, k).ok
  BY <1>1, <1>3, <1>5, <1>6
<1> QED BY <1>7, Zenon DEF r, b

LEMMA RankedListJudged ==
  ASSUME NEW items, IsList(items), \A k \in DOMAIN items : IsRanked(items[k]),
         NEW f, NEW out, NEW s \in Seq(Nat)
  PROVE  /\ WriteList(items, WriteRanked) \in Seq(Nat)
         /\ LET q == ReadList(At(WriteList(items, WriteRanked) \o s, out), f, ReadRanked) IN
            IF /\ Len(items) <= kMaxCount
               /\ \A k \in DOMAIN items : ShortRanked(items[k])
            THEN q = At(s, Put(out, f, items)) ELSE ~q.ok
<1> DEFINE w == [k \in DOMAIN items |-> WriteRanked(items[k])]
           good == {k \in DOMAIN items : ShortRanked(items[k])}
           N == Len(items)
<1>1. N \in Nat /\ DOMAIN items = 1..N /\ items = [k \in 1..N |-> items[k]]
  BY DEF IsList
<1>2. \A k \in DOMAIN items : WriteRanked(items[k]) \in Seq(Nat)
  <2>1. <<>> \in Seq(Nat)
    BY EmptySeq
  <2> QED BY <2>1, CandidateJudged
<1>3. w \in Seq(Seq(Nat)) /\ Len(w) = N
  BY <1>1, <1>2, SeqDef, LenProperties
<1>4. WriteList(items, WriteRanked) = RankedLoop!ListOf(w)
  <2>1. WriteList(items, WriteRanked) = <<N>> \o FlattenSeq(w)
    BY Zenon DEF WriteList
  <2> HIDE DEF w
  <2> QED BY <1>3, <2>1, PartsFlatten DEF RankedLoop!ListOf
<1>5. RankedLoop!ItemsJudged(w, items, good)
  <2> SUFFICES ASSUME NEW k \in 1..N, NEW o, NEW x \in Seq(Nat)
               PROVE  LET q == ReadRanked(RankedLoop!At(w[k] \o x, o), k) IN
                      IF k \in good THEN q = RankedLoop!At(x, Append(o, items[k])) ELSE ~q.ok
    BY <1>3, Zenon DEF RankedLoop!ItemsJudged, RankedLoop!Accepts, RankedLoop!Refuses
  <2> DEFINE q == ReadRanked(At(WriteRanked(items[k]) \o x, o), k)
  <2>1. k \in DOMAIN items /\ IsRanked(items[k])
    BY <1>1
  <2>2. IF ShortRanked(items[k]) THEN q = At(x, Append(o, items[k])) ELSE ~q.ok
    BY <2>1, RankedJudged
  <2>3. w[k] = WriteRanked(items[k])
    BY <2>1, Zenon
  <2>4. k \in good <=> ShortRanked(items[k])
    BY <2>1
  <2> HIDE DEF w, good
  <2>5. ReadRanked(RankedLoop!At(w[k] \o x, o), k) = q
    BY <2>3, Zenon DEF At, RankedLoop!At
  <2> HIDE DEF q
  <2> QED BY <2>2, <2>4, <2>5, Zenon DEF At, RankedLoop!At
<1>6. Len(w) <= kMaxCount /\ (\A k \in 1..Len(w) : k \in good)
      <=> N <= kMaxCount /\ \A k \in DOMAIN items : ShortRanked(items[k])
  BY <1>1, <1>3
<1>7. kMaxCount \in Nat /\ items = [k \in 1..Len(w) |-> items[k]]
  BY <1>1, <1>3, MessageTypes
<1> HIDE DEF w, good
<1>8. LET q == RankedLoop!Counted(RankedLoop!At(RankedLoop!ListOf(w) \o s, out),
                     f, kMaxCount) IN
      IF Len(w) <= kMaxCount /\ \A k \in 1..Len(w) : k \in good
      THEN q = RankedLoop!At(s, RankedLoop!Put(out, f, items)) ELSE ~q.ok
  BY <1>3, <1>5, <1>7, RankedSteady, RankedLoop!ListJudged
<1>9. RankedLoop!ListOf(w) \in Seq(Nat)
  BY <1>3, RankedLoop!ListFront
<1>10. ReadList(At(WriteList(items, WriteRanked) \o s, out), f, ReadRanked)
         = RankedLoop!Counted(RankedLoop!At(RankedLoop!ListOf(w) \o s, out), f, kMaxCount)
  BY <1>4, RankedAreLoop, Zenon DEF At, RankedLoop!At
<1>11. At(s, Put(out, f, items)) = RankedLoop!At(s, RankedLoop!Put(out, f, items))
  BY Zenon DEF At, RankedLoop!At, Put, RankedLoop!Put
<1> QED BY <1>4, <1>6, <1>8, <1>9, <1>10, <1>11, Zenon

-----------------------------------------------------------------------------
(***************************************************************************)
(* A selection: its fields and its two lists.                               *)
(***************************************************************************)
LEMMA SelectionSteady ==
  ASSUME NEW r, IsReader(r)
  PROVE  /\ IsReader(ReadSelection(r))
         /\ \A s \in Seq(Nat) : Extends(ReadSelection(r), ReadSelection(More(r, s)), s)
<1> DEFINE q == ReadFields(r, SelectionHead)
<1>1. SteadyAt(r, q) /\ \A s \in Seq(Nat) : Extends(q, ReadFields(More(r, s), SelectionHead), s)
  BY Layouts, LayoutSteady
<1>2. IsReader(q)
  BY <1>1 DEF SteadyAt
<1> HIDE DEF q
<1> DEFINE t == ReadList(q, "ranked", ReadRanked)
<1>3. SteadyAt(q, t)
      /\ \A s \in Seq(Nat) : Extends(t, ReadList(More(q, s), "ranked", ReadRanked), s)
  BY <1>2, RankedListSteady
<1>4. IsReader(t)
  BY <1>3 DEF SteadyAt
<1> HIDE DEF t
<1> DEFINE u == ReadList(t, "rejected", ReadRejected)
<1>5. SteadyAt(t, u)
      /\ \A s \in Seq(Nat) : Extends(u, ReadList(More(t, s), "rejected", ReadRejected), s)
  BY <1>4, RejectedListSteady
<1> HIDE DEF u
<1>6. ReadSelection(r) = u
  BY Zenon DEF ReadSelection, u, t, q
<1>7. ASSUME NEW s \in Seq(Nat), u.ok PROVE ReadSelection(More(r, s)) = More(u, s)
  <2>1. t.ok
    BY <1>5, <1>7, Zenon DEF SteadyAt, Holds
  <2>2. q.ok
    BY <1>3, <2>1, Zenon DEF SteadyAt, Holds
  <2>3. ReadFields(More(r, s), SelectionHead) = More(q, s)
    BY <1>1, <2>2, Zenon DEF Extends
  <2>4. ReadList(More(q, s), "ranked", ReadRanked) = More(t, s)
    BY <1>3, <2>1, Zenon DEF Extends
  <2>5. ReadList(More(t, s), "rejected", ReadRejected) = More(u, s)
    BY <1>5, <1>7, Zenon DEF Extends
  <2> QED BY <2>3, <2>4, <2>5, Zenon DEF ReadSelection
<1>8. IsReader(u)
  BY <1>5 DEF SteadyAt
<1> QED BY <1>6, <1>7, <1>8 DEF Extends

LEMMA PutRestTwo ==
  ASSUME NEW m, NEW S, NEW g, NEW h, m = [f \in S \cup {g, h} |-> m[f]]
  PROVE  Put(Put([f \in S |-> m[f]], g, m[g]), h, m[h]) = m
<1>1. Put([f \in S |-> m[f]], g, m[g]) = [f \in S \cup {g} |-> m[f]]
  BY DEF Put
<1>2. Put([f \in S \cup {g} |-> m[f]], h, m[h]) = [f \in (S \cup {g}) \cup {h} |-> m[f]]
  BY DEF Put
<1>3. (S \cup {g}) \cup {h} = S \cup {g, h}
  OBVIOUS
<1> QED BY <1>1, <1>2, <1>3

\* The parts of a selection's payload, and what follows it, in either grouping.
Joined(a, b, c, s)  == ((a \o b) \o c) \o s
Chained(a, b, c, s) == a \o (b \o (c \o s))

LEMMA FourParts ==
  ASSUME NEW a \in Seq(Nat), NEW b \in Seq(Nat), NEW c \in Seq(Nat), NEW s \in Seq(Nat)
  PROVE  Joined(a, b, c, s) = Chained(a, b, c, s)
<1>1. PICK e, f : e = a \o b /\ f = c \o s
  OBVIOUS
<1>2. e \in Seq(Nat) /\ f \in Seq(Nat)
  BY <1>1, ConcatProperties
<1>3. Groups(e, c, s) /\ Groups(a, b, f)
  BY <1>2, Grouped
<1> QED BY <1>1, <1>3, Zenon DEF Joined, Chained, Groups

LEMMA SelectionJudged ==
  ASSUME NEW m, IsSelection(m)
  PROVE  /\ encodeSelection(m) \in Seq(Nat)
         /\ \A s \in Seq(Nat) :
              LET q == ReadSelection(At(encodeSelection(m) \o s, NoFields)) IN
              IF ShortSelection(m) THEN q = At(s, m) ELSE ~q.ok
<1> DEFINE a == WriteFields(m, SelectionHead)
           b == WriteList(m.ranked, WriteRanked)
           c == WriteList(m.rejected, WriteRejected)
           head == AllFields(m, SelectionHead)
           mid == Put(head, "ranked", m.ranked)
           shortRanked == /\ Len(m.ranked) <= kMaxCount
                          /\ \A k \in DOMAIN m.ranked : ShortRanked(m.ranked[k])
           shortRejected == /\ Len(m.rejected) <= kMaxCount
                            /\ \A k \in DOMAIN m.rejected :
                                 ShortFields(m.rejected[k], RejectedFields)
<1>1. /\ HasFields(m, SelectionHead)
      /\ HasOnly(m, Range(SelectionHead) \cup {"ranked", "rejected"})
      /\ IsList(m.ranked) /\ \A k \in DOMAIN m.ranked : IsRanked(m.ranked[k])
      /\ IsList(m.rejected)
      /\ \A k \in DOMAIN m.rejected : IsRecord(m.rejected[k], RejectedFields)
  BY DEF IsSelection
<1>2. <<>> \in Seq(Nat)
  BY EmptySeq
<1>3. a \in Seq(Nat)
  BY <1>1, Layouts, FieldsWritten
<1>4. b \in Seq(Nat)
  BY <1>1, <1>2, RankedListJudged
<1>5. c \in Seq(Nat)
  BY <1>1, <1>2, RejectedListJudged
<1>6. a \o b \in Seq(Nat) /\ (a \o b) \o c \in Seq(Nat)
  BY <1>3, <1>4, <1>5, ConcatProperties
<1>7. encodeSelection(m) = (a \o b) \o c
  BY Zenon DEF encodeSelection
<1>8. Put(mid, "rejected", m.rejected) = m
  BY <1>1, PutRestTwo DEF HasOnly, AllFields
<1>9. ShortSelection(m) <=> ShortFields(m, SelectionHead) /\ shortRanked /\ shortRejected
  BY Zenon DEF ShortSelection
<1>10. ASSUME NEW s \in Seq(Nat)
       PROVE  LET q == ReadSelection(At(encodeSelection(m) \o s, NoFields)) IN
              IF ShortSelection(m) THEN q = At(s, m) ELSE ~q.ok
  <2> DEFINE x == c \o s
             y == b \o x
             z == a \o y
             q == ReadFields(At(z, NoFields), SelectionHead)
             t == ReadList(q, "ranked", ReadRanked)
             u == ReadList(t, "rejected", ReadRejected)
  <2>1. x \in Seq(Nat) /\ y \in Seq(Nat) /\ z \in Seq(Nat)
    BY <1>3, <1>4, <1>5, ConcatProperties
  <2>2. ((a \o b) \o c) \o s = z
    <3> HIDE DEF a, b, c
    <3>1. Joined(a, b, c, s) = Chained(a, b, c, s)
      BY <1>3, <1>4, <1>5, FourParts
    <3> QED BY <3>1, Zenon DEF Joined, Chained
  <2>3. ShortFields(m, SelectionHead) => q = At(y, head)
    BY <1>1, <2>1, Layouts, LayoutReads
  <2>4. ~ShortFields(m, SelectionHead) => ~q.ok
    BY <1>1, <2>1, Layouts, LayoutRefuses
  <2>5. IF shortRanked THEN ReadList(At(y, head), "ranked", ReadRanked) = At(x, mid)
        ELSE ~ReadList(At(y, head), "ranked", ReadRanked).ok
    BY <1>1, <2>1, RankedListJudged
  <2>6. IF shortRejected THEN ReadList(At(x, mid), "rejected", ReadRejected) = At(s, m)
        ELSE ~ReadList(At(x, mid), "rejected", ReadRejected).ok
    <3>1. IF shortRejected
          THEN ReadList(At(x, mid), "rejected", ReadRejected)
                 = At(s, Put(mid, "rejected", m.rejected))
          ELSE ~ReadList(At(x, mid), "rejected", ReadRejected).ok
      BY <1>1, RejectedListJudged
    <3> HIDE DEF mid, shortRejected, x
    <3> QED BY <1>8, <3>1
  <2> HIDE DEF z, y, x, mid, head, shortRanked, shortRejected
  <2>7. IsReader(q)
    <3>1. IsReader(At(z, NoFields))
      BY <2>1, ItemAt
    <3> QED BY <3>1, Layouts, LayoutSteady DEF SteadyAt
  <2> HIDE DEF q
  <2>8. IsReader(t) /\ (~q.ok => ~t.ok)
    BY <2>7, RankedListSteady DEF SteadyAt, Holds
  <2> HIDE DEF t
  <2>9. ~t.ok => ~u.ok
    BY <2>8, RejectedListSteady DEF SteadyAt, Holds
  <2> HIDE DEF u
  <2>10. IF ShortSelection(m) THEN u = At(s, m) ELSE ~u.ok
    BY <1>9, <2>3, <2>4, <2>5, <2>6, <2>8, <2>9, Zenon DEF t, u
  <2> HIDE DEF a, b, c
  <2>11. ReadSelection(At(encodeSelection(m) \o s, NoFields)) = u
    BY <1>7, <2>2, Zenon DEF ReadSelection, u, t, q
  <2> QED BY <2>10, <2>11
<1> QED BY <1>6, <1>7, <1>10

-----------------------------------------------------------------------------
(***************************************************************************)
(* Any message.                                                             *)
(***************************************************************************)
ReadBody(type, r) ==
  CASE type = PUBLISH_EVIDENCE     -> ReadFields(r, RegionEvidenceRead)
    [] type \in {SELECT, RESERVE} -> ReadFields(r, RequirementsRead)
    [] type = SELECT_RESP          -> ReadSelection(r)
    [] type = COMMIT_RESP          -> ReadFields(r, ReservationRead)

\* What decode does with a payload of one of the four kinds.
LEMMA Kinds ==
  ASSUME NEW m \in Messages
  PROVE  \/ /\ IsRecord(m.body, RegionEvidenceWritten)
            /\ \A r : ReadBody(m.type, r) = ReadFields(r, RegionEvidenceWritten)
            /\ \A b : decode(m.type, b) = Finish(ReadFields(Reader(b), RegionEvidenceWritten))
            /\ encode(m.type, m.body) = WriteFields(m.body, RegionEvidenceWritten)
            /\ Readable(m) <=> ShortFields(m.body, RegionEvidenceWritten)
         \/ /\ IsRecord(m.body, RequirementsWritten)
            /\ \A r : ReadBody(m.type, r) = ReadFields(r, RequirementsWritten)
            /\ \A b : decode(m.type, b) = Finish(ReadFields(Reader(b), RequirementsWritten))
            /\ encode(m.type, m.body) = WriteFields(m.body, RequirementsWritten)
            /\ Readable(m) <=> ShortFields(m.body, RequirementsWritten)
         \/ /\ IsRecord(m.body, ReservationWritten)
            /\ \A r : ReadBody(m.type, r) = ReadFields(r, ReservationWritten)
            /\ \A b : decode(m.type, b) = Finish(ReadFields(Reader(b), ReservationWritten))
            /\ encode(m.type, m.body) = WriteFields(m.body, ReservationWritten)
            /\ Readable(m) <=> ShortFields(m.body, ReservationWritten)
         \/ /\ IsSelection(m.body)
            /\ \A r : ReadBody(m.type, r) = ReadSelection(r)
            /\ \A b : decode(m.type, b) = Finish(ReadSelection(Reader(b)))
            /\ encode(m.type, m.body) = encodeSelection(m.body)
            /\ Readable(m) <=> ShortSelection(m.body)
<1>1. \/ m.type = PUBLISH_EVIDENCE /\ IsRecord(m.body, RegionEvidenceWritten)
      \/ m.type \in {SELECT, RESERVE} /\ IsRecord(m.body, RequirementsWritten)
      \/ m.type = SELECT_RESP /\ IsSelection(m.body)
      \/ m.type = COMMIT_RESP /\ IsRecord(m.body, ReservationWritten)
  BY MessageTypes
<1>2. /\ RegionEvidenceRead = RegionEvidenceWritten
      /\ RequirementsRead = RequirementsWritten /\ ReservationRead = ReservationWritten
  BY DEF RegionEvidenceRead, RegionEvidenceWritten, RequirementsRead, RequirementsWritten,
         ReservationRead, ReservationWritten
<1>3. /\ PUBLISH_EVIDENCE = 5 /\ SELECT = 7 /\ SELECT_RESP = 8 /\ RESERVE = 9
      /\ COMMIT_RESP = 12
  BY DEF PUBLISH_EVIDENCE, SELECT, SELECT_RESP, RESERVE, COMMIT_RESP
<1>4. CASE m.type = PUBLISH_EVIDENCE /\ IsRecord(m.body, RegionEvidenceWritten)
  <2>1. m.type = 5
    BY <1>3, <1>4
  <2>2. /\ \A r : ReadBody(m.type, r) = ReadFields(r, RegionEvidenceRead)
        /\ \A b : decode(m.type, b) = Finish(ReadFields(Reader(b), RegionEvidenceRead))
        /\ encode(m.type, m.body) = WriteFields(m.body, RegionEvidenceWritten)
        /\ Readable(m) = ShortFields(m.body, RegionEvidenceWritten)
    BY <1>3, <2>1 DEF ReadBody, decode, encode, Readable
  <2> QED BY <1>2, <1>4, <2>2
<1>5. CASE m.type \in {SELECT, RESERVE} /\ IsRecord(m.body, RequirementsWritten)
  <2>1. m.type \in {7, 9}
    BY <1>3, <1>5
  <2>2. /\ \A r : ReadBody(m.type, r) = ReadFields(r, RequirementsRead)
        /\ \A b : decode(m.type, b) = Finish(ReadFields(Reader(b), RequirementsRead))
        /\ encode(m.type, m.body) = WriteFields(m.body, RequirementsWritten)
        /\ Readable(m) = ShortFields(m.body, RequirementsWritten)
    BY <1>3, <2>1 DEF ReadBody, decode, encode, Readable
  <2> QED BY <1>2, <1>5, <2>2
<1>6. CASE m.type = COMMIT_RESP /\ IsRecord(m.body, ReservationWritten)
  <2>1. m.type = 12
    BY <1>3, <1>6
  <2>2. /\ \A r : ReadBody(m.type, r) = ReadFields(r, ReservationRead)
        /\ \A b : decode(m.type, b) = Finish(ReadFields(Reader(b), ReservationRead))
        /\ encode(m.type, m.body) = WriteFields(m.body, ReservationWritten)
        /\ Readable(m) = ShortFields(m.body, ReservationWritten)
    BY <1>3, <2>1 DEF ReadBody, decode, encode, Readable
  <2> QED BY <1>2, <1>6, <2>2
<1>7. CASE m.type = SELECT_RESP /\ IsSelection(m.body)
  <2>1. m.type = 8
    BY <1>3, <1>7
  <2>2. /\ \A r : ReadBody(m.type, r) = ReadSelection(r)
        /\ \A b : decode(m.type, b) = decodeSelection(b)
        /\ encode(m.type, m.body) = encodeSelection(m.body)
        /\ Readable(m) = ShortSelection(m.body)
    BY <1>3, <2>1 DEF ReadBody, decode, encode, Readable
  <2> QED BY <1>7, <2>2 DEF decodeSelection
<1> QED BY <1>1, <1>4, <1>5, <1>6, <1>7

\* Reading a message leaves alone what follows it, and gets out what was put in.
BodySteady(m) ==
  \A r : IsReader(r) =>
    /\ IsReader(ReadBody(m.type, r))
    /\ \A s \in Seq(Nat) : Extends(ReadBody(m.type, r), ReadBody(m.type, More(r, s)), s)

BodyJudged(m) ==
  \A s \in Seq(Nat) :
    LET q == ReadBody(m.type, At(encode(m.type, m.body) \o s, NoFields)) IN
    IF Readable(m) THEN q = At(s, m.body) ELSE ~q.ok

LEMMA RecordBody ==
  ASSUME NEW m, NEW layout, NEW n, IsLayout(layout, n), IsRecord(m.body, layout),
         \A r : ReadBody(m.type, r) = ReadFields(r, layout),
         encode(m.type, m.body) = WriteFields(m.body, layout),
         Readable(m) <=> ShortFields(m.body, layout)
  PROVE  encode(m.type, m.body) \in Seq(Nat) /\ BodySteady(m) /\ BodyJudged(m)
<1>1. HasFields(m.body, layout) /\ m.body = AllFields(m.body, layout)
  BY Zenon DEF IsRecord, HasOnly, AllFields
<1>2. encode(m.type, m.body) \in Seq(Nat)
  BY <1>1, FieldsWritten
<1>3. BodySteady(m)
  <2> SUFFICES ASSUME NEW r, IsReader(r)
               PROVE  /\ IsReader(ReadFields(r, layout))
                      /\ \A s \in Seq(Nat) :
                           Extends(ReadFields(r, layout), ReadFields(More(r, s), layout), s)
    BY Zenon DEF BodySteady
  <2> QED BY LayoutSteady DEF SteadyAt
<1>4. BodyJudged(m)
  <2> SUFFICES ASSUME NEW s \in Seq(Nat)
               PROVE  LET q == ReadFields(At(WriteFields(m.body, layout) \o s, NoFields), layout)
                      IN  IF ShortFields(m.body, layout) THEN q = At(s, m.body) ELSE ~q.ok
    BY Zenon DEF BodyJudged
  <2>1. ShortFields(m.body, layout) =>
          ReadFields(At(WriteFields(m.body, layout) \o s, NoFields), layout)
            = At(s, AllFields(m.body, layout))
    BY <1>1, LayoutReads
  <2>2. ~ShortFields(m.body, layout) =>
          ~ReadFields(At(WriteFields(m.body, layout) \o s, NoFields), layout).ok
    BY <1>1, LayoutRefuses
  <2> QED BY <1>1, <2>1, <2>2, Zenon
<1> QED BY <1>2, <1>3, <1>4

LEMMA MessageBody ==
  ASSUME NEW m \in Messages
  PROVE  /\ encode(m.type, m.body) \in Seq(Nat) /\ BodySteady(m) /\ BodyJudged(m)
         /\ \A b : decode(m.type, b) = Finish(ReadBody(m.type, Reader(b)))
<1>1. CASE /\ IsRecord(m.body, RegionEvidenceWritten)
           /\ \A r : ReadBody(m.type, r) = ReadFields(r, RegionEvidenceWritten)
           /\ \A b : decode(m.type, b) = Finish(ReadFields(Reader(b), RegionEvidenceWritten))
           /\ encode(m.type, m.body) = WriteFields(m.body, RegionEvidenceWritten)
           /\ Readable(m) <=> ShortFields(m.body, RegionEvidenceWritten)
  <2>1. encode(m.type, m.body) \in Seq(Nat) /\ BodySteady(m) /\ BodyJudged(m)
    BY <1>1, Layouts, RecordBody
  <2> QED BY <1>1, <2>1, Zenon
<1>2. CASE /\ IsRecord(m.body, RequirementsWritten)
           /\ \A r : ReadBody(m.type, r) = ReadFields(r, RequirementsWritten)
           /\ \A b : decode(m.type, b) = Finish(ReadFields(Reader(b), RequirementsWritten))
           /\ encode(m.type, m.body) = WriteFields(m.body, RequirementsWritten)
           /\ Readable(m) <=> ShortFields(m.body, RequirementsWritten)
  <2>1. encode(m.type, m.body) \in Seq(Nat) /\ BodySteady(m) /\ BodyJudged(m)
    BY <1>2, Layouts, RecordBody
  <2> QED BY <1>2, <2>1, Zenon
<1>3. CASE /\ IsRecord(m.body, ReservationWritten)
           /\ \A r : ReadBody(m.type, r) = ReadFields(r, ReservationWritten)
           /\ \A b : decode(m.type, b) = Finish(ReadFields(Reader(b), ReservationWritten))
           /\ encode(m.type, m.body) = WriteFields(m.body, ReservationWritten)
           /\ Readable(m) <=> ShortFields(m.body, ReservationWritten)
  <2>1. encode(m.type, m.body) \in Seq(Nat) /\ BodySteady(m) /\ BodyJudged(m)
    BY <1>3, Layouts, RecordBody
  <2> QED BY <1>3, <2>1, Zenon
<1>4. CASE /\ IsSelection(m.body)
           /\ \A r : ReadBody(m.type, r) = ReadSelection(r)
           /\ \A b : decode(m.type, b) = Finish(ReadSelection(Reader(b)))
           /\ encode(m.type, m.body) = encodeSelection(m.body)
           /\ Readable(m) <=> ShortSelection(m.body)
  <2>1. encode(m.type, m.body) \in Seq(Nat)
    BY <1>4, SelectionJudged
  <2>2. BodySteady(m)
    BY <1>4, SelectionSteady, Zenon DEF BodySteady
  <2>3. BodyJudged(m)
    BY <1>4, SelectionJudged, Zenon DEF BodyJudged
  <2> QED BY <1>4, <2>1, <2>2, <2>3, Zenon
<1> QED BY <1>1, <1>2, <1>3, <1>4, Kinds, Zenon

-----------------------------------------------------------------------------
(***************************************************************************)
(* What decode says of a payload.                                           *)
(***************************************************************************)
Received(m) ==
  IF Readable(m) THEN [ok |-> TRUE, message |-> m.body] ELSE [ok |-> FALSE, message |-> NoFields]

LEMMA FinishIs ==
  ASSUME NEW r
  PROVE  /\ r.ok /\ r.rest = <<>> => Finish(r) = [ok |-> TRUE, message |-> r.out]
         /\ ~(r.ok /\ r.rest = <<>>) =>
              Finish(r) = [ok |-> FALSE, message |-> NoFields] /\ ~Finish(r).ok
<1>1. r.ok /\ r.rest = <<>> => Finish(r) = [ok |-> TRUE, message |-> r.out]
  BY Zenon DEF Finish
<1>2. ~(r.ok /\ r.rest = <<>>) => Finish(r) = [ok |-> FALSE, message |-> NoFields]
  BY Zenon DEF Finish
<1>3. PICK v : v = NoFields
  OBVIOUS
<1>4. ~[ok |-> FALSE, message |-> v].ok
  OBVIOUS
<1> QED BY <1>1, <1>2, <1>3, <1>4

LEMMA AtFields ==
  ASSUME NEW s, NEW v
  PROVE  At(s, v).ok /\ At(s, v).rest = s /\ At(s, v).out = v
BY DEF At

\* A payload and something after it, at the reader.
LEMMA DecodeRest ==
  ASSUME NEW m \in Messages, NEW s \in Seq(Nat), NEW b, b = encode(m.type, m.body) \o s
  PROVE  /\ s = <<>> => decode(m.type, b) = Received(m)
         /\ s # <<>> => ~decode(m.type, b).ok
<1> DEFINE q == ReadBody(m.type, At(b, NoFields))
<1>1. decode(m.type, b) = Finish(q)
  <2>1. Reader(b) = At(b, NoFields)
    BY Zenon DEF Reader, At
  <2> QED BY <2>1, MessageBody, Zenon
<1>2. IF Readable(m) THEN q = At(s, m.body) ELSE ~q.ok
  BY MessageBody, Zenon DEF BodyJudged
<1> HIDE DEF q
<1>3. ASSUME s = <<>> PROVE Finish(q) = Received(m)
  <2>1. CASE Readable(m)
    <3>1. q.ok /\ q.rest = <<>> /\ q.out = m.body
      BY <1>2, <1>3, <2>1, AtFields
    <3> QED BY <2>1, <3>1, FinishIs, Zenon DEF Received
  <2>2. CASE ~Readable(m)
    BY <1>2, <2>2, FinishIs, Zenon DEF Received
  <2> QED BY <2>1, <2>2
<1>4. ASSUME s # <<>> PROVE ~Finish(q).ok
  <2>1. ASSUME Readable(m) PROVE q.rest # <<>>
    BY <1>2, <1>4, <2>1, AtFields
  <2>2. ~(q.ok /\ q.rest = <<>>)
    BY <1>2, <2>1, Zenon
  <2> QED BY <2>2, FinishIs
<1> QED BY <1>1, <1>3, <1>4

\* A part of one: were it a message, then so would be the whole with something left.
LEMMA DecodePart ==
  ASSUME NEW m \in Messages, NEW b \in Seq(Nat), NEW s \in Seq(Nat), s # <<>>,
         encode(m.type, m.body) = b \o s
  PROVE  ~decode(m.type, b).ok
<1> DEFINE q == ReadBody(m.type, At(b, NoFields))
           p == ReadBody(m.type, At(b \o s, NoFields))
<1>1. decode(m.type, b) = Finish(q)
  <2>1. Reader(b) = At(b, NoFields)
    BY Zenon DEF Reader, At
  <2> QED BY <2>1, MessageBody, Zenon
<1>2. IsReader(At(b, NoFields)) /\ More(At(b, NoFields), s) = At(b \o s, NoFields)
  <2>1. IsReader(At(b, NoFields))
    BY ItemAt
  <2>2. PICK v : v = NoFields
    OBVIOUS
  <2>3. More(At(b, v), s) = At(b \o s, v)
    BY DEF More, At
  <2> QED BY <2>1, <2>2, <2>3
<1>3. IsReader(q) /\ Extends(q, p, s)
  BY <1>2, MessageBody, Zenon DEF BodySteady
<1>4. IF Readable(m) THEN p = At(<<>>, m.body) ELSE ~p.ok
  <2>1. <<>> \in Seq(Nat) /\ (b \o s) \o <<>> = b \o s
    BY EmptySeq, ConcatProperties, ConcatEmptySeq
  <2>2. LET t == ReadBody(m.type, At((b \o s) \o <<>>, NoFields)) IN
        IF Readable(m) THEN t = At(<<>>, m.body) ELSE ~t.ok
    BY <2>1, MessageBody, Zenon DEF BodyJudged
  <2> QED BY <2>1, <2>2
<1> HIDE DEF q, p
<1>5. ~(p.ok /\ p.rest # <<>>)
  <2>1. ASSUME Readable(m) PROVE p.rest = <<>>
    BY <1>4, <2>1, AtFields
  <2> QED BY <1>4, <2>1, Zenon
<1>6. ~(q.ok /\ q.rest = <<>>)
  <2> SUFFICES ASSUME q.ok, q.rest = <<>> PROVE FALSE
    OBVIOUS
  <2>1. p = More(q, s)
    BY <1>3 DEF Extends
  <2>2. p.ok = q.ok /\ p.rest = q.rest \o s
    BY <1>3, <2>1, MoreIs
  <2>3. <<>> \o s = s
    BY ConcatEmptySeq
  <2> QED BY <1>5, <2>2, <2>3
<1> QED BY <1>1, <1>6, FinishIs

\* Of the decoders of protocol.cpp, every message and every value of the limits: what
\* an encoder wrote is decoded to the same message, unless a string or list in it is
\* longer than a reader takes; then it is refused.
THEOREM DecodeEncode ==
  ASSUME NEW m \in Messages
  PROVE  decode(m.type, encode(m.type, m.body)) = Received(m)
<1>1. <<>> \in Seq(Nat) /\ encode(m.type, m.body) \in Seq(Nat)
  BY EmptySeq, MessageBody
<1>2. encode(m.type, m.body) = encode(m.type, m.body) \o <<>>
  BY <1>1, ConcatEmptySeq
<1> QED BY <1>1, <1>2, DecodeRest, Zenon

\* Neither a part of a message nor a message with something after it is one.
LEMMA DecodeCut ==
  ASSUME NEW m \in Messages, NEW b, b = encode(m.type, m.body), NEW n \in 0..(Len(b) - 1)
  PROVE  ~decode(m.type, SubSeq(b, 1, n)).ok
<1>1. b \in Seq(Nat) /\ Len(b) \in Nat
  BY MessageBody, LenProperties
<1> DEFINE c == SubSeq(b, 1, n)
           s == SubSeq(b, n + 1, Len(b))
<1>2. n \in Nat /\ n <= Len(b) /\ Len(b) - n > 0
  BY <1>1
<1>3. s \in Seq(Nat) /\ Len(s) = Len(b) - n /\ \A i \in 1..(Len(b) - n) : s[i] = b[n + i]
  BY <1>1, <1>2, DropOf
<1>4. c \in Seq(Nat) /\ Len(c) = n /\ \A i \in 1..n : c[i] = b[i]
  BY <1>1, <1>2
<1> HIDE DEF c, s
<1>5. s # <<>>
  BY <1>1, <1>2, <1>3
<1>6. /\ c \o s \in Seq(Nat) /\ Len(c \o s) = Len(c) + Len(s)
      /\ \A i \in 1..(Len(c) + Len(s)) :
           (c \o s)[i] = IF i <= Len(c) THEN c[i] ELSE s[i - Len(c)]
  BY <1>3, <1>4, ConcatProperties
<1>7. Len(c) + Len(s) = Len(b)
  BY <1>1, <1>2, <1>3, <1>4
<1>8. ASSUME NEW i \in 1..Len(b) PROVE (c \o s)[i] = b[i]
  <2>1. (c \o s)[i] = IF i <= n THEN c[i] ELSE s[i - n]
    BY <1>4, <1>6, <1>7
  <2>2. CASE i <= n
    <3>1. i \in 1..n
      BY <1>2, <2>2
    <3> QED BY <1>4, <2>1, <2>2, <3>1
  <2>3. CASE ~(i <= n)
    <3>1. i - n \in 1..(Len(b) - n) /\ n + (i - n) = i
      BY <1>1, <1>2, <2>3
    <3> QED BY <1>3, <2>1, <2>3, <3>1
  <2> QED BY <2>2, <2>3
<1>9. c \o s = b
  BY <1>1, <1>6, <1>7, <1>8, SeqEqual
<1>10. ~decode(m.type, c).ok
  BY <1>3, <1>4, <1>5, <1>9, DecodePart
<1> QED BY <1>10 DEF c

LEMMA DecodeLonger ==
  ASSUME NEW m \in Messages, NEW x \in Nat
  PROVE  ~decode(m.type, Append(encode(m.type, m.body), x)).ok
<1>1. encode(m.type, m.body) \in Seq(Nat) /\ <<x>> \in Seq(Nat) /\ <<x>> # <<>>
  BY MessageBody
<1>2. Append(encode(m.type, m.body), x) = encode(m.type, m.body) \o <<x>>
  BY <1>1, AppendIsConcat
<1> QED BY <1>1, <1>2, DecodeRest

-----------------------------------------------------------------------------
(***************************************************************************)
(* The exchange: the last frame dispatched is one that was sent.            *)
(***************************************************************************)
LEMMA LastArrived ==
  ASSUME ChannelInv, Arrived, dispatched # <<>>
  PROVE  /\ Last(dispatched) = sent[Len(dispatched)].frame
         /\ Last(dispatched) \in Frames
<1>1. dispatched \in Seq(Frames) /\ Len(dispatched) \in Nat
  BY LenProperties DEF ChannelInv
<1>2. Len(dispatched) \in 1..Len(dispatched)
  BY <1>1, EmptySeq
<1>3. Last(dispatched) = dispatched[Len(dispatched)]
  BY DEF Last
<1>4. dispatched[Len(dispatched)] = sent[Len(dispatched)].frame
  BY <1>2 DEF Arrived
<1>5. dispatched[Len(dispatched)] \in Frames
  BY <1>1, <1>2, ElementOfSeq
<1> QED BY <1>3, <1>4, <1>5

LEMMA FrameFields ==
  ASSUME NEW m, NEW f, f = FrameOf(m)
  PROVE  f.type = m.type /\ f.payload = encode(m.type, m.body)
<1>1. PICK e : e = encode(m.type, m.body)
  OBVIOUS
<1>2. f = [type |-> m.type, payload |-> e]
  BY <1>1 DEF FrameOf
<1> QED BY <1>1, <1>2

\* RoundTrip, of protocol.cpp and handleConnection: for any messages, limits, and cuts
\* of the stream, what the receiver decodes is what the peer encoded, field by field,
\* or refused because of a string or list above the reader's limit.
THEOREM ExchangeRoundTrip == WireSpec => []RoundTrip
<1>1. ChannelInv /\ Arrived => RoundTrip
  <2> SUFFICES ASSUME ChannelInv, Arrived, at = "decode", dispatched # <<>>,
                      NEW m \in Messages, FrameOf(m) = sent[Len(dispatched)].frame
               PROVE  LET f == Last(dispatched) IN decode(f.type, f.payload) = Received(m)
    BY Zenon DEF RoundTrip, Received
  <2>1. Last(dispatched) = FrameOf(m)
    BY LastArrived
  <2>2. PICK f : f = Last(dispatched)
    OBVIOUS
  <2>3. f.type = m.type /\ f.payload = encode(m.type, m.body)
    BY <2>1, <2>2, FrameFields
  <2>4. decode(m.type, encode(m.type, m.body)) = Received(m)
    BY DecodeEncode
  <2> QED BY <2>2, <2>3, <2>4, Zenon
<1> QED BY <1>1, FramesArrive, PTL

\* TruncatedRefused, of the decoders of protocol.cpp: no part of a payload that was
\* sent, and no payload with a unit more, decodes to a message.
THEOREM ExchangeRefusesCuts == WireSpec => []TruncatedRefused
<1>1. ChannelInv /\ Arrived => TruncatedRefused
  <2> SUFFICES ASSUME ChannelInv, Arrived, dispatched # <<>>,
                      NEW f, f = Last(dispatched)
               PROVE  /\ \A n \in 0..(Len(f.payload) - 1) :
                           ~decode(f.type, SubSeq(f.payload, 1, n)).ok
                      /\ \A x \in {0, 1} : ~decode(f.type, Append(f.payload, x)).ok
    BY Zenon DEF TruncatedRefused
  <2>1. f \in Frames
    BY LastArrived
  <2>2. PICK m \in Messages : f = FrameOf(m)
    BY <2>1, MessageTypes
  <2>3. f.type = m.type /\ f.payload = encode(m.type, m.body)
    BY <2>2, FrameFields
  <2>4. ASSUME NEW n \in 0..(Len(f.payload) - 1)
        PROVE  ~decode(f.type, SubSeq(f.payload, 1, n)).ok
    BY <2>3, DecodeCut
  <2>5. ASSUME NEW x \in {0, 1} PROVE ~decode(f.type, Append(f.payload, x)).ok
    <3>1. x \in Nat
      OBVIOUS
    <3> QED BY <2>3, <3>1, DecodeLonger
  <2> QED BY <2>4, <2>5
<1> QED BY <1>1, FramesArrive, PTL
=============================================================================
