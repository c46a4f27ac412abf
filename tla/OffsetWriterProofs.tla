------------------------- MODULE OffsetWriterProofs -------------------------
(***************************************************************************)
(* What is proved of the database writer, for any set of files, any size   *)
(* of a batch and any number of offsets and of failing calls: ExactlyOnce, *)
(* and that the writer implements OffsetStore.                             *)
(*                                                                         *)
(* Neither follows from itself.  ExactlyOnce speaks of all that was        *)
(* received and not lost; a restart changes that set in the middle, and    *)
(* the property alone does not say that what is lost is the end of it.     *)
(* The invariant therefore cuts received in two: the batch is its end, and *)
(* what is before, Settled, is decided, each offset in its row or lost.    *)
(* Of a flush it says what the transaction has of the batch so far.        *)
(*                                                                         *)
(* Group, Only and VideoFrameCount go over a sequence of any length.       *)
(* Induction is over sets (NaturalInduction, SequenceInduction): the set   *)
(* of the sequences that have the property is all of Seq.                  *)
(***************************************************************************)
EXTENDS OffsetWriter, FiniteSetTheorems, SequenceTheorems, TLAPS

\* What was received before the batch: durable or lost.
Settled == SubSeq(received, 1, Len(received) - Len(batch))

\* The offsets that no discarded batch has taken with it.
Alive == {o \in Offset : o.id \notin lost}

\* The batch is the end of what was received, and nothing of it is lost.
BatchIsNewest ==
    /\ Len(batch) <= Len(received)
    /\ received = Settled \o batch
    /\ \A i \in DOMAIN received : received[i].id = i
    /\ \A x \in lost : x <= Len(received) - Len(batch)

\* The open transaction has the groups that are done, each behind the rows
\* that were there before, and nothing else.
TransactionIsPartOfBatch ==
    /\ pc = "commit" => grouped = {}
    /\ pc \in {"exec", "commit"} =>
           /\ grouped \subseteq KeysOf(batch)
           /\ \A k \in Keys :
                 tx[k] = IF k \in KeysOf(batch) \ grouped
                         THEN Upsert(table[k], Group(batch, k))
                         ELSE table[k]

\* As long as every commit was answered, a row has the offsets of its file
\* that were settled and not lost, once each and in order.
RowsAreSettled ==
    ~unacked => \A k \in Keys :
                    table[k].indexes = Group(Only(Settled, Alive), k)

\* Nothing that is settled has disappeared.
SettledIsAccounted ==
    \A i \in 1..(Len(received) - Len(batch)) : i \in Durable \cup lost

\* The total of a row is the largest count of its offsets.
TotalsAreLargest ==
    \A k \in Keys : table[k].total = VideoFrameCount(table[k].indexes)

IInv ==
    /\ TypeOK
    /\ BatchIsNewest
    /\ TransactionIsPartOfBatch
    /\ RowsAreSettled
    /\ SettledIsAccounted
    /\ TotalsAreLargest

-----------------------------------------------------------------------------
(* Induction over sets.                                                    *)

\* A set that has 0 and the successor of each of its numbers has them all.
\* If n were missing, x |-> x - 1 would map what is missing up to n into
\* itself less n, one to one, which a finite set does not allow.
LEMMA NaturalInduction ==
    ASSUME NEW P, 0 \in P, \A n \in Nat : n \in P => n + 1 \in P
    PROVE  Nat \subseteq P
<1>1. SUFFICES ASSUME NEW n \in Nat, n \notin P
               PROVE  FALSE
  OBVIOUS
<1> DEFINE Missing == (0..n) \ P
           before == [x \in Missing |-> x - 1]
<1>2. IsFiniteSet(Missing)
  BY FS_Interval, FS_Subset, 0 \in Int, n \in Int
<1>3. n \in Missing
  BY <1>1
<1>4. \A x \in Missing : x - 1 \in Missing \ {n}
  <2> TAKE x \in Missing
  <2>1. x # 0 /\ x \in 0..n
    OBVIOUS
  <2>2. x - 1 \in 0..n /\ x - 1 # n /\ x - 1 \in Nat /\ (x - 1) + 1 = x
    BY <2>1
  <2> QED BY <2>1, <2>2
<1>5. before \in [Missing -> Missing \ {n}]
  BY <1>4
<1>6. \A x, y \in Missing : before[x] = before[y] => x = y
  <2>1. Missing \subseteq Int
    OBVIOUS
  <2> HIDE DEF Missing
  <2> QED BY <2>1
<1> HIDE DEF Missing, before
<1>7. IsFiniteSet(Missing \ {n})
      /\ Cardinality(Missing \ {n}) < Cardinality(Missing)
  <2>1. /\ IsFiniteSet(Missing \ {n})
        /\ Cardinality(Missing \ {n}) = Cardinality(Missing) - 1
    BY <1>2, <1>3, FS_RemoveElement
  <2>2. Cardinality(Missing) \in Nat
    BY <1>2, FS_CardinalityType
  <2> QED BY <2>1, <2>2
<1> QED BY <1>2, <1>5, <1>6, <1>7, FS_PigeonHole

\* A set that has the empty sequence and is closed under Append has all
\* sequences.
LEMMA SequenceInduction ==
    ASSUME NEW T, NEW P, <<>> \in P,
           \A s \in Seq(T), e \in T : s \in P => Append(s, e) \in P
    PROVE  Seq(T) \subseteq P
<1> DEFINE Done == {n \in Nat : \A s \in Seq(T) : Len(s) = n => s \in P}
<1>1. 0 \in Done
  <2>1. \A s \in Seq(T) : Len(s) = 0 => s = <<>>
    BY EmptySeq
  <2> QED BY <2>1
<1>2. ASSUME NEW n \in Nat, n \in Done
      PROVE  n + 1 \in Done
  <2> SUFFICES ASSUME NEW s \in Seq(T), Len(s) = n + 1
               PROVE  s \in P
    OBVIOUS
  <2>1. s # <<>>
    BY EmptySeq
  <2>2. PICK t \in Seq(T), e \in T : s = Append(t, e)
    BY <2>1, SequenceEmptyOrAppend
  <2>3. Len(t) = n
    <3>1. Len(t) \in Nat /\ Len(s) = Len(t) + 1
      BY <2>2, LenProperties, AppendProperties
    <3> QED BY <3>1
  <2>4. t \in P
    BY <1>2, <2>3
  <2> QED BY <2>2, <2>4
<1>3. Nat \subseteq Done
  <2> HIDE DEF Done
  <2> QED BY <1>1, <1>2, NaturalInduction
<1> QED BY <1>3, LenProperties

-----------------------------------------------------------------------------
(* Only: the loop over a batch, turn by turn.                              *)

\* f is the slice of the loop after each of the first m turns.
IsSlice(f, b, S, m) ==
    \A n \in 0..m :
        f[n] = IF n = 0 THEN <<>>
               ELSE IF b[n] \in S THEN Append(f[n - 1], b[n])
               ELSE f[n - 1]

\* f is the function that Only defines, for m turns.
IsLoop(f, b, S, m) ==
    f = [n \in 0..m |-> IF n = 0 THEN <<>>
                        ELSE IF b[n] \in S THEN Append(f[n - 1], b[n])
                        ELSE f[n - 1]]

\* The loop can be run for any number of turns.
LEMMA SliceExists ==
    ASSUME NEW b, NEW S, NEW m \in Nat
    PROVE  \E f : IsLoop(f, b, S, m)
<1> DEFINE Turn(f, n) == IF n = 0 THEN <<>>
                         ELSE IF b[n] \in S THEN Append(f[n - 1], b[n])
                         ELSE f[n - 1]
           Done == {k \in Nat : \E f : f = [n \in 0..k |-> Turn(f, n)]}
<1>1. 0 \in Done
  <2> DEFINE f == [n \in 0..0 |-> <<>>]
  <2>1. f = [n \in 0..0 |-> Turn(f, n)]
    <3>1. \A n \in 0..0 : Turn(f, n) = <<>>
      OBVIOUS
    <3> HIDE DEF Turn
    <3> QED BY <3>1
  <2> QED BY <2>1
<1>2. ASSUME NEW k \in Nat, k \in Done
      PROVE  k + 1 \in Done
  <2>1. PICK f : f = [n \in 0..k |-> Turn(f, n)]
    BY <1>2
  <2> DEFINE g == [n \in 0..(k + 1) |-> IF n = k + 1 THEN Turn(f, n)
                                                     ELSE f[n]]
  <2>2. \A n \in 0..(k + 1) : Turn(g, n) = Turn(f, n)
    <3> SUFFICES ASSUME NEW n \in 0..(k + 1), n # 0
                 PROVE  g[n - 1] = f[n - 1]
      OBVIOUS
    <3>1. n - 1 \in 0..(k + 1) /\ n - 1 # k + 1
      OBVIOUS
    <3> HIDE DEF Turn
    <3> QED BY <3>1
  <2>3. \A n \in 0..(k + 1) : g[n] = Turn(f, n)
    <3> HIDE DEF Turn
    <3> QED BY <2>1
  <2>4. g = [n \in 0..(k + 1) |-> Turn(g, n)]
    <3> HIDE DEF Turn
    <3>1. g = [n \in 0..(k + 1) |-> g[n]]
      OBVIOUS
    <3> HIDE DEF g
    <3> QED BY <2>2, <2>3, <3>1
  <2> HIDE DEF Turn, g
  <2> QED BY <2>4
<1>3. m \in Done
  <2> HIDE DEF Done
  <2> QED BY <1>1, <1>2, NaturalInduction
<1> QED BY <1>3 DEF IsLoop

\* Two batches that begin alike have the same slices so far.
LEMMA SliceIsUnique ==
    ASSUME NEW f, NEW g, NEW b, NEW c, NEW S, NEW m \in Nat,
           IsSlice(f, b, S, m), IsSlice(g, c, S, m),
           \A i \in 1..m : b[i] = c[i]
    PROVE  \A n \in 0..m : f[n] = g[n]
<1> DEFINE Alike == {n \in Nat : n <= m => f[n] = g[n]}
<1>1. 0 \in Alike
  BY 0 \in 0..m DEF IsSlice
<1>2. ASSUME NEW n \in Nat, n \in Alike
      PROVE  n + 1 \in Alike
  <2> SUFFICES ASSUME n + 1 <= m
               PROVE  f[n + 1] = g[n + 1]
    OBVIOUS
  <2>1. n + 1 \in 0..m /\ n + 1 \in 1..m /\ n + 1 # 0 /\ (n + 1) - 1 = n
    OBVIOUS
  <2>2. f[n] = g[n]
    BY <1>2
  <2>3. b[n + 1] = c[n + 1]
    BY <2>1
  <2> QED BY <2>1, <2>2, <2>3 DEF IsSlice
<1>3. Nat \subseteq Alike
  <2> HIDE DEF Alike
  <2> QED BY <1>1, <1>2, NaturalInduction
<1> QED BY <1>3

\* Only has the slice after the last turn.
LEMMA OnlyIsLastSlice ==
    ASSUME NEW b, NEW S, Len(b) \in Nat
    PROVE  \E f : IsSlice(f, b, S, Len(b)) /\ Only(b, S) = f[Len(b)]
<1> DEFINE slice == CHOOSE f : IsLoop(f, b, S, Len(b))
<1>1. IsLoop(slice, b, S, Len(b))
  BY SliceExists
<1>2. Only(b, S) = slice[Len(b)]
  BY DEF Only, IsLoop
<1> HIDE DEF slice
<1>3. IsSlice(slice, b, S, Len(b))
  BY <1>1 DEF IsSlice, IsLoop
<1> QED BY <1>2, <1>3

\* Nothing is chosen out of an empty batch.
LEMMA OnlyOfEmpty ==
    ASSUME NEW S
    PROVE  Only(<<>>, S) = <<>>
<1>1. Len(<<>>) = 0
  OBVIOUS
<1>2. PICK f : IsSlice(f, <<>>, S, 0) /\ Only(<<>>, S) = f[0]
  BY <1>1, OnlyIsLastSlice
<1> QED BY <1>2, 0 \in 0..0 DEF IsSlice

\* One more turn adds the offset, or leaves it out.
LEMMA OnlyOfAppend ==
    ASSUME NEW T, NEW b \in Seq(T), NEW e \in T, NEW S
    PROVE  Only(Append(b, e), S) = IF e \in S THEN Append(Only(b, S), e)
                                              ELSE Only(b, S)
<1> DEFINE c == Append(b, e)
           m == Len(b)
<1>1. /\ m \in Nat
      /\ Len(c) = m + 1
      /\ c[m + 1] = e
      /\ \A i \in 1..m : b[i] = c[i]
  BY LenProperties, AppendProperties
<1> HIDE DEF c, m
<1>2. PICK f : IsSlice(f, b, S, m) /\ Only(b, S) = f[m]
  <2>1. Len(b) = m
    BY DEF m
  <2> QED BY <1>1, <2>1, OnlyIsLastSlice
<1>3. PICK g : IsSlice(g, c, S, m + 1) /\ Only(c, S) = g[m + 1]
  <2>1. m + 1 \in Nat
    BY <1>1
  <2> QED BY <1>1, <2>1, OnlyIsLastSlice
<1>4. IsSlice(g, c, S, m)
  BY <1>1, <1>3 DEF IsSlice
<1>5. f[m] = g[m]
  <2>1. \A n \in 0..m : f[n] = g[n]
    BY <1>1, <1>2, <1>4, SliceIsUnique
  <2> QED BY <1>1, <2>1
<1>6. g[m + 1] = IF e \in S THEN Append(g[m], e) ELSE g[m]
  <2>1. m + 1 \in 0..(m + 1) /\ m + 1 # 0 /\ (m + 1) - 1 = m
    BY <1>1
  <2> QED BY <1>1, <1>3, <2>1 DEF IsSlice
<1> QED BY <1>2, <1>3, <1>5, <1>6 DEF c

\* What is chosen out of a sequence over T is one.
LEMMA OnlyType ==
    ASSUME NEW T, NEW S, NEW b \in Seq(T)
    PROVE  Only(b, S) \in Seq(T)
<1> DEFINE P == {s \in Seq(T) : Only(s, S) \in Seq(T)}
<1>1. <<>> \in P
  BY OnlyOfEmpty, EmptySeq
<1>2. ASSUME NEW s \in Seq(T), NEW e \in T, s \in P
      PROVE  Append(s, e) \in P
  <2>1. Append(s, e) \in Seq(T)
    BY AppendProperties
  <2>2. Only(s, S) \in Seq(T) /\ Append(Only(s, S), e) \in Seq(T)
    BY <1>2, AppendProperties
  <2>3. Only(Append(s, e), S) = IF e \in S THEN Append(Only(s, S), e)
                                           ELSE Only(s, S)
    BY OnlyOfAppend
  <2> QED BY <2>1, <2>2, <2>3
<1>3. Seq(T) \subseteq P
  <2> HIDE DEF P
  <2> QED BY <1>1, <1>2, SequenceInduction
<1> QED BY <1>3

\* Appending to a concatenation is appending to its second part.
LEMMA AppendToConcat ==
    ASSUME NEW T, NEW s \in Seq(T), NEW t \in Seq(T), NEW e \in T
    PROVE  s \o Append(t, e) = Append(s \o t, e)
<1>1. <<e>> \in Seq(T)
  OBVIOUS
<1>2. s \o t \in Seq(T)
  BY ConcatProperties
<1>3. Append(t, e) = t \o <<e>> /\ Append(s \o t, e) = (s \o t) \o <<e>>
  BY <1>2, AppendIsConcat
<1>4. (s \o t) \o <<e>> = s \o (t \o <<e>>)
  BY <1>1, ConcatAssociative
<1> QED BY <1>3, <1>4

\* The loop over two batches, one after the other.
LEMMA OnlyOfConcat ==
    ASSUME NEW T, NEW S, NEW s \in Seq(T), NEW t \in Seq(T)
    PROVE  Only(s \o t, S) = Only(s, S) \o Only(t, S)
<1> DEFINE P == {u \in Seq(T) : Only(s \o u, S) = Only(s, S) \o Only(u, S)}
<1>1. <<>> \in P
  <2>1. s \o <<>> = s /\ <<>> \in Seq(T)
    BY ConcatEmptySeq, EmptySeq
  <2>2. Only(s, S) \o <<>> = Only(s, S)
    BY OnlyType, ConcatEmptySeq
  <2> QED BY <2>1, <2>2, OnlyOfEmpty
<1>2. ASSUME NEW u \in Seq(T), NEW e \in T, u \in P
      PROVE  Append(u, e) \in P
  <2>1. s \o u \in Seq(T) /\ Append(u, e) \in Seq(T)
    BY ConcatProperties, AppendProperties
  <2>2. s \o Append(u, e) = Append(s \o u, e)
    BY AppendToConcat
  <2>3. Only(s, S) \in Seq(T) /\ Only(u, S) \in Seq(T)
    BY OnlyType
  <2>4. Only(s \o u, S) = Only(s, S) \o Only(u, S)
    BY <1>2
  <2>5. CASE e \in S
    <3>1. Only(Append(u, e), S) = Append(Only(u, S), e)
      BY <2>5, OnlyOfAppend
    <3>2. Only(s \o Append(u, e), S) = Append(Only(s \o u, S), e)
      BY <2>1, <2>2, <2>5, OnlyOfAppend
    <3>3. Only(s, S) \o Append(Only(u, S), e)
              = Append(Only(s, S) \o Only(u, S), e)
      BY <2>3, AppendToConcat
    <3> QED BY <2>1, <2>4, <3>1, <3>2, <3>3
  <2>6. CASE e \notin S
    <3>1. Only(Append(u, e), S) = Only(u, S)
      BY <2>6, OnlyOfAppend
    <3>2. Only(s \o Append(u, e), S) = Only(s \o u, S)
      BY <2>1, <2>2, <2>6, OnlyOfAppend
    <3> QED BY <2>1, <2>4, <3>1, <3>2
  <2> QED BY <2>5, <2>6
<1>3. Seq(T) \subseteq P
  <2> HIDE DEF P
  <2> QED BY <1>1, <1>2, SequenceInduction
<1> QED BY <1>3

\* Two sets that agree on the elements of s choose the same.
LEMMA OnlyAgrees ==
    ASSUME NEW T, NEW S, NEW R, NEW s \in Seq(T),
           \A i \in 1..Len(s) : s[i] \in S <=> s[i] \in R
    PROVE  Only(s, S) = Only(s, R)
<1> DEFINE P == {u \in Seq(T) :
                   (\A i \in 1..Len(u) : u[i] \in S <=> u[i] \in R)
                      => Only(u, S) = Only(u, R)}
<1>1. <<>> \in P
  BY OnlyOfEmpty, EmptySeq
<1>2. ASSUME NEW u \in Seq(T), NEW e \in T, u \in P
      PROVE  Append(u, e) \in P
  <2>1. /\ Append(u, e) \in Seq(T)
        /\ Len(u) \in Nat
        /\ Len(Append(u, e)) = Len(u) + 1
        /\ Append(u, e)[Len(u) + 1] = e
        /\ \A i \in 1..Len(u) : Append(u, e)[i] = u[i]
    BY LenProperties, AppendProperties
  <2> DEFINE c == Append(u, e)
  <2> SUFFICES ASSUME \A i \in 1..Len(c) : c[i] \in S <=> c[i] \in R
               PROVE  Only(c, S) = Only(c, R)
    BY <2>1
  <2>2. e \in S <=> e \in R
    <3>1. Len(u) + 1 \in 1..Len(c)
      BY <2>1
    <3> QED BY <2>1, <3>1
  <2>3. Only(u, S) = Only(u, R)
    <3>1. \A i \in 1..Len(u) : i \in 1..Len(c)
      BY <2>1
    <3>2. \A i \in 1..Len(u) : u[i] \in S <=> u[i] \in R
      BY <2>1, <3>1
    <3> QED BY <1>2, <3>2
  <2>4. Only(c, S) = IF e \in S THEN Append(Only(u, S), e) ELSE Only(u, S)
    BY OnlyOfAppend
  <2>5. Only(c, R) = IF e \in R THEN Append(Only(u, R), e) ELSE Only(u, R)
    BY OnlyOfAppend
  <2> HIDE DEF c
  <2> QED BY <2>2, <2>3, <2>4, <2>5
<1>3. Seq(T) \subseteq P
  <2> HIDE DEF P
  <2> QED BY <1>1, <1>2, SequenceInduction
<1> QED BY <1>3

\* The set of all there is chooses the whole sequence.
LEMMA OnlyOfAll ==
    ASSUME NEW T, NEW S, NEW s \in Seq(T), \A i \in 1..Len(s) : s[i] \in S
    PROVE  Only(s, S) = s
<1> DEFINE P == {u \in Seq(T) : Only(u, T) = u}
<1>1. <<>> \in P
  BY OnlyOfEmpty, EmptySeq
<1>2. ASSUME NEW u \in Seq(T), NEW e \in T, u \in P
      PROVE  Append(u, e) \in P
  BY <1>2, OnlyOfAppend, AppendProperties
<1>3. Seq(T) \subseteq P
  <2> HIDE DEF P
  <2> QED BY <1>1, <1>2, SequenceInduction
<1>4. \A i \in 1..Len(s) : s[i] \in S <=> s[i] \in T
  BY ElementOfSeq
<1>5. Only(s, S) = Only(s, T)
  BY <1>4, OnlyAgrees
<1> QED BY <1>3, <1>5

\* A set that has none of the elements chooses nothing.
LEMMA OnlyOfNone ==
    ASSUME NEW T, NEW S, NEW s \in Seq(T), \A i \in 1..Len(s) : s[i] \notin S
    PROVE  Only(s, S) = <<>>
<1> DEFINE P == {u \in Seq(T) : Only(u, {}) = <<>>}
<1>1. <<>> \in P
  BY OnlyOfEmpty, EmptySeq
<1>2. ASSUME NEW u \in Seq(T), NEW e \in T, u \in P
      PROVE  Append(u, e) \in P
  <2>1. Append(u, e) \in Seq(T)
    BY AppendProperties
  <2>2. Only(Append(u, e), {}) = Only(u, {})
    BY OnlyOfAppend
  <2> QED BY <1>2, <2>1, <2>2
<1>3. Seq(T) \subseteq P
  <2> HIDE DEF P
  <2> QED BY <1>1, <1>2, SequenceInduction
<1>4. \A i \in 1..Len(s) : s[i] \in S <=> s[i] \in {}
  OBVIOUS
<1>5. Only(s, S) = Only(s, {})
  BY <1>4, OnlyAgrees
<1> QED BY <1>3, <1>5

\* What is in the sequence and in the set is chosen.
LEMMA OnlyHasThem ==
    ASSUME NEW T, NEW S, NEW s \in Seq(T),
           NEW i \in 1..Len(s), s[i] \in S
    PROVE  \E j \in 1..Len(Only(s, S)) : Only(s, S)[j] = s[i]
<1> DEFINE P == {u \in Seq(T) :
                   \A n \in 1..Len(u) :
                       u[n] \in S => \E j \in 1..Len(Only(u, S)) :
                                         Only(u, S)[j] = u[n]}
<1>1. <<>> \in P
  <2>1. <<>> \in Seq(T) /\ 1..Len(<<>>) = {}
    BY EmptySeq
  <2> QED BY <2>1
<1>2. ASSUME NEW u \in Seq(T), NEW e \in T, u \in P
      PROVE  Append(u, e) \in P
  <2> DEFINE c == Append(u, e)
             chosen == Only(u, S)
  <2>1. /\ c \in Seq(T)
        /\ Len(u) \in Nat
        /\ Len(c) = Len(u) + 1
        /\ c[Len(u) + 1] = e
        /\ \A n \in 1..Len(u) : c[n] = u[n]
    BY LenProperties, AppendProperties
  <2>2. chosen \in Seq(T)
    BY OnlyType
  <2>3. Only(c, S) = IF e \in S THEN Append(chosen, e) ELSE chosen
    BY OnlyOfAppend
  <2> SUFFICES ASSUME NEW n \in 1..Len(c), c[n] \in S
               PROVE  \E j \in 1..Len(Only(c, S)) : Only(c, S)[j] = c[n]
    BY <2>1
  <2> HIDE DEF c, chosen
  <2>4. /\ Len(chosen) \in Nat
        /\ Len(Append(chosen, e)) = Len(chosen) + 1
        /\ Append(chosen, e)[Len(chosen) + 1] = e
        /\ \A j \in 1..Len(chosen) : Append(chosen, e)[j] = chosen[j]
    BY <2>2, LenProperties, AppendProperties
  <2>5. CASE n = Len(u) + 1
    <3>1. c[n] = e /\ e \in S
      BY <2>1, <2>5
    <3>2. Len(chosen) + 1 \in 1..Len(Only(c, S))
          /\ Only(c, S)[Len(chosen) + 1] = e
      BY <2>3, <2>4, <3>1
    <3> QED BY <3>1, <3>2
  <2>6. CASE n # Len(u) + 1
    <3>1. n \in 1..Len(u)
      BY <2>1, <2>6
    <3>2. c[n] = u[n] /\ u[n] \in S
      BY <2>1, <3>1
    <3>3. PICK j \in 1..Len(chosen) : chosen[j] = u[n]
      BY <1>2, <3>1, <3>2 DEF chosen
    <3>4. j \in 1..Len(Only(c, S)) /\ Only(c, S)[j] = chosen[j]
      BY <2>3, <2>4
    <3> QED BY <3>2, <3>3, <3>4
  <2> QED BY <2>5, <2>6
<1>3. Seq(T) \subseteq P
  <2> HIDE DEF P
  <2> QED BY <1>1, <1>2, SequenceInduction
<1> QED BY <1>3

-----------------------------------------------------------------------------
(* Max and VideoFrameCount.                                                *)

\* A number of the set that no other exceeds is its maximum.
LEMMA MaxIs ==
    ASSUME NEW S \in SUBSET Nat, NEW m \in S, \A y \in S : m >= y
    PROVE  Max(S) = m
<1>1. Max(S) \in S /\ \A y \in S : Max(S) >= y
  BY DEF Max
<1>2. Max(S) \in Nat /\ m \in Nat
  BY <1>1
<1>3. Max(S) >= m /\ m >= Max(S)
  BY <1>1
<1> QED BY <1>2, <1>3

\* What VideoFrameCount takes the maximum of.
Counts(group) == {0} \cup {group[i].video : i \in DOMAIN group}

\* The counts of a concatenation are those of its parts.
LEMMA CountsOfConcat ==
    ASSUME NEW s \in Seq(Offset), NEW t \in Seq(Offset)
    PROVE  Counts(s \o t) = Counts(s) \cup Counts(t)
<1>1. /\ Len(s) \in Nat /\ Len(t) \in Nat
      /\ DOMAIN s = 1..Len(s) /\ DOMAIN t = 1..Len(t)
  BY LenProperties
<1>2. /\ DOMAIN (s \o t) = 1..(Len(s) + Len(t))
      /\ \A i \in 1..(Len(s) + Len(t)) :
            (s \o t)[i] = IF i <= Len(s) THEN s[i] ELSE t[i - Len(s)]
  BY ConcatProperties, LenProperties
<1> DEFINE st == s \o t
<1>3. Counts(st) \subseteq Counts(s) \cup Counts(t)
  <2>1. \A i \in 1..(Len(s) + Len(t)) :
           \/ i \in 1..Len(s) /\ st[i] = s[i]
           \/ i - Len(s) \in 1..Len(t) /\ st[i] = t[i - Len(s)]
    BY <1>1, <1>2
  <2> HIDE DEF st
  <2>2. DOMAIN st = 1..(Len(s) + Len(t))
    BY <1>2 DEF st
  <2> QED BY <1>1, <2>1, <2>2 DEF Counts
<1>4. Counts(s) \subseteq Counts(st)
  <2>1. \A i \in 1..Len(s) : i \in 1..(Len(s) + Len(t)) /\ st[i] = s[i]
    BY <1>1, <1>2
  <2> HIDE DEF st
  <2>2. DOMAIN st = 1..(Len(s) + Len(t))
    BY <1>2 DEF st
  <2> QED BY <1>1, <2>1, <2>2 DEF Counts
<1>5. Counts(t) \subseteq Counts(st)
  <2>1. \A i \in 1..Len(t) : /\ Len(s) + i \in 1..(Len(s) + Len(t))
                             /\ st[Len(s) + i] = t[i]
    <3> TAKE i \in 1..Len(t)
    <3>1. Len(s) + i \in 1..(Len(s) + Len(t)) /\ ~(Len(s) + i <= Len(s))
          /\ (Len(s) + i) - Len(s) = i
      BY <1>1
    <3> QED BY <1>2, <3>1
  <2> HIDE DEF st
  <2>2. DOMAIN st = 1..(Len(s) + Len(t))
    BY <1>2 DEF st
  <2> QED BY <1>1, <2>1, <2>2 DEF Counts
<1> QED BY <1>3, <1>4, <1>5

\* Among the counts of a batch there is a largest.
LEMMA LargestCount ==
    ASSUME NEW s \in Seq(Offset)
    PROVE  /\ Counts(s) \in SUBSET Nat
           /\ \E m \in Counts(s) : \A y \in Counts(s) : m >= y
<1>1. \A u \in Seq(Offset) : Counts(u) \in SUBSET Nat
  <2> TAKE u \in Seq(Offset)
  <2>1. \A i \in DOMAIN u : u[i] \in Offset
    BY LenProperties, ElementOfSeq
  <2>2. \A o \in Offset : o.video \in Nat
    BY StoreAssumption DEF Offset
  <2> QED BY <2>1, <2>2 DEF Counts
<1> DEFINE P == {u \in Seq(Offset) :
                   \E m \in Counts(u) : \A y \in Counts(u) : m >= y}
<1>2. <<>> \in P
  <2>1. <<>> \in Seq(Offset) /\ DOMAIN <<>> = {}
    BY EmptySeq
  <2>2. Counts(<<>>) = {0}
    BY <2>1 DEF Counts
  <2>3. 0 \in Counts(<<>>) /\ \A y \in Counts(<<>>) : 0 >= y
    BY <2>2
  <2> QED BY <2>1, <2>3
<1>3. ASSUME NEW u \in Seq(Offset), NEW e \in Offset, u \in P
      PROVE  Append(u, e) \in P
  <2>1. Append(u, e) \in Seq(Offset) /\ <<e>> \in Seq(Offset)
    BY AppendProperties
  <2>2. Append(u, e) = u \o <<e>>
    BY AppendIsConcat
  <2>3. Counts(<<e>>) = {0, e.video}
    <3>1. DOMAIN <<e>> = {1} /\ <<e>>[1] = e
      OBVIOUS
    <3> QED BY <3>1 DEF Counts
  <2>4. Counts(Append(u, e)) = Counts(u) \cup {e.video}
    <3>1. 0 \in Counts(u)
      BY DEF Counts
    <3>2. Counts(u \o <<e>>) = Counts(u) \cup Counts(<<e>>)
      BY <2>1, CountsOfConcat
    <3> QED BY <2>2, <2>3, <3>1, <3>2
  <2>5. e.video \in Nat
    BY StoreAssumption DEF Offset
  <2>6. PICK m \in Counts(u) : \A y \in Counts(u) : m >= y
    BY <1>3
  <2>7. m \in Nat /\ Counts(u) \subseteq Nat
    BY <1>1
  <2>8. CASE m >= e.video
    BY <2>1, <2>4, <2>6, <2>8
  <2>9. CASE ~(m >= e.video)
    <3>1. \A y \in Counts(u) : e.video >= y
      BY <2>5, <2>6, <2>7, <2>9
    <3>2. e.video >= e.video
      BY <2>5
    <3> QED BY <2>1, <2>4, <3>1, <3>2
  <2> QED BY <2>8, <2>9
<1>4. Seq(Offset) \subseteq P
  <2> HIDE DEF P
  <2> QED BY <1>2, <1>3, SequenceInduction
<1> QED BY <1>1, <1>4

\* The count of a group is one of its counts, and the largest.
LEMMA CountIsLargest ==
    ASSUME NEW s \in Seq(Offset)
    PROVE  /\ VideoFrameCount(s) \in Nat
           /\ VideoFrameCount(s) \in Counts(s)
           /\ \A y \in Counts(s) : VideoFrameCount(s) >= y
<1>1. Counts(s) \in SUBSET Nat
  BY LargestCount
<1>2. PICK m \in Counts(s) : \A y \in Counts(s) : m >= y
  BY LargestCount
<1>3. VideoFrameCount(s) = m
  <2>1. Max(Counts(s)) = m
    BY <1>1, <1>2, MaxIs
  <2> QED BY <2>1 DEF VideoFrameCount, Counts
<1> QED BY <1>1, <1>2, <1>3

\* The greatest of two totals is the total of the two arrays.
LEMMA CountOfConcat ==
    ASSUME NEW s \in Seq(Offset), NEW t \in Seq(Offset)
    PROVE  VideoFrameCount(s \o t)
               = Max({VideoFrameCount(s), VideoFrameCount(t)})
<1> DEFINE a == VideoFrameCount(s)
           b == VideoFrameCount(t)
<1>1. a \in Nat /\ a \in Counts(s) /\ \A y \in Counts(s) : a >= y
  BY CountIsLargest
<1>2. b \in Nat /\ b \in Counts(t) /\ \A y \in Counts(t) : b >= y
  BY CountIsLargest
<1>3. s \o t \in Seq(Offset)
  BY ConcatProperties
<1>4. Counts(s) \subseteq Nat /\ Counts(t) \subseteq Nat
  BY LargestCount
<1>5. VideoFrameCount(s \o t) = Max(Counts(s) \cup Counts(t))
  BY CountsOfConcat DEF VideoFrameCount, Counts
<1> HIDE DEF a, b
<1>6. CASE a >= b
  <2>1. \A y \in Counts(s) \cup Counts(t) : a >= y
    BY <1>1, <1>2, <1>4, <1>6
  <2>2. Max(Counts(s) \cup Counts(t)) = a
    BY <1>1, <1>4, <2>1, MaxIs
  <2>3. Max({a, b}) = a
    BY <1>1, <1>2, <1>6, MaxIs
  <2> QED BY <1>5, <2>2, <2>3 DEF a, b
<1>7. CASE ~(a >= b)
  <2>1. \A y \in Counts(s) \cup Counts(t) : b >= y
    BY <1>1, <1>2, <1>4, <1>7
  <2>2. Max(Counts(s) \cup Counts(t)) = b
    BY <1>2, <1>4, <2>1, MaxIs
  <2>3. Max({a, b}) = b
    BY <1>1, <1>2, <1>7, MaxIs
  <2> QED BY <1>5, <2>2, <2>3 DEF a, b
<1> QED BY <1>6, <1>7

\* A group is a sequence of offsets, and an extended row is a row.
LEMMA GroupType ==
    ASSUME NEW b \in Seq(Offset), NEW k
    PROVE  Group(b, k) \in Seq(Offset)
BY OnlyType DEF Group

LEMMA UpsertType ==
    ASSUME NEW row \in Row, NEW group \in Seq(Offset)
    PROVE  Upsert(row, group) \in Row
<1>1. row.indexes \in Seq(Offset) /\ row.total \in Nat
  BY DEF Row
<1>2. row.indexes \o group \in Seq(Offset)
  BY <1>1, ConcatProperties
<1>3. Max({row.total, VideoFrameCount(group)}) \in Nat
  <2> DEFINE a == row.total
             b == VideoFrameCount(group)
  <2>1. a \in Nat /\ b \in Nat
    BY <1>1, CountIsLargest
  <2> HIDE DEF a, b
  <2>2. CASE a >= b
    <3>1. Max({a, b}) = a
      BY <2>1, <2>2, MaxIs
    <3> QED BY <2>1, <3>1 DEF a, b
  <2>3. CASE ~(a >= b)
    <3>1. Max({a, b}) = b
      BY <2>1, <2>3, MaxIs
    <3> QED BY <2>1, <3>1 DEF a, b
  <2> QED BY <2>2, <2>3
<1> QED BY <1>2, <1>3 DEF Upsert, Row

-----------------------------------------------------------------------------
(* Types.                                                                  *)

\* The variables start with their types.
LEMMA InitType == Init => TypeOK
<1> SUFFICES ASSUME Init
             PROVE  TypeOK
  OBVIOUS
<1>1. EmptyRow \in Row
  BY EmptySeq DEF EmptyRow, Row
<1> QED BY <1>1, EmptySeq DEF Init, TypeOK

\* Every step keeps them.
LEMMA TypeIsInvariant == TypeOK /\ [Next]_vars => TypeOK'
<1> SUFFICES ASSUME TypeOK, [Next]_vars
             PROVE  TypeOK'
  OBVIOUS
<1> USE DEF TypeOK
<1>1. CASE Cancel
  BY <1>1 DEF Cancel, history, trouble
<1>2. CASE ReceiveOffset
  <2>1. PICK k \in Keys, v \in VideoCounts :
            Receive([id |-> Len(received) + 1, key |-> k, video |-> v])
    BY <1>2 DEF ReceiveOffset
  <2> DEFINE o == [id |-> Len(received) + 1, key |-> k, video |-> v]
  <2>2. o \in Offset
    <3>1. Len(received) < MaxOffsets /\ Len(received) \in Nat
      BY <1>2, LenProperties DEF ReceiveOffset
    <3>2. Len(received) + 1 \in 1..MaxOffsets
      BY <3>1, StoreAssumption
    <3> QED BY <3>2 DEF Offset
  <2> HIDE DEF o
  <2>3. Receive(o)
    BY <2>1 DEF o
  <2>4. batch' \in Seq(Offset) /\ received' \in Seq(Offset)
    BY <2>2, <2>3, AppendProperties DEF Receive
  <2>5. pc' \in {"select", "begin"}
    BY <2>3 DEF Receive
  <2> QED BY <2>3, <2>4, <2>5 DEF Receive, trouble
<1>3. CASE FlushTimer
  BY <1>3 DEF FlushTimer, history, trouble
<1>4. CASE Return
  <2>1. pc' \in {"stopped", "begin"}
    BY <1>4 DEF Return
  <2> QED BY <1>4, <2>1 DEF Return, history, trouble
<1>5. CASE BeginTx
  <2>1. KeysOf(batch) \subseteq Keys
    <3>1. \A i \in DOMAIN batch : batch[i] \in Offset
      BY LenProperties, ElementOfSeq
    <3> QED BY <3>1 DEF KeysOf, Offset
  <2> QED BY <1>5, <2>1 DEF BeginTx, history, trouble
<1>6. ASSUME NEW k \in Keys, ExecInsert(k)
      PROVE  TypeOK'
  <2>1. Upsert(tx[k], Group(batch, k)) \in Row
    BY GroupType, UpsertType
  <2>2. tx' \in [Keys -> Row]
    BY <1>6, <2>1 DEF ExecInsert
  <2>3. pc' \in {"commit", "exec"} /\ grouped' \subseteq Keys
    BY <1>6 DEF ExecInsert
  <2> QED BY <1>6, <2>2, <2>3 DEF ExecInsert, history, trouble
<1>7. CASE Commit
  <2>1. pc' \in {"stopped", "select"}
    BY <1>7 DEF Commit, FlushReturns
  <2>2. batch' \in Seq(Offset)
    BY <1>7, EmptySeq DEF Commit
  <2> QED BY <1>7, <2>1, <2>2 DEF Commit, history, trouble
<1>8. CASE CommitUnacknowledged
  <2>1. pc' \in {"stopped", "select"}
    BY <1>8 DEF CommitUnacknowledged, FlushReturns
  <2>2. unacked' \in BOOLEAN
    BY <1>8 DEF CommitUnacknowledged
  <2> QED BY <1>8, <2>1, <2>2 DEF CommitUnacknowledged, history
<1>9. CASE FlushFails
  <2>1. pc' \in {"stopped", "select"}
    BY <1>9 DEF FlushFails, FlushReturns
  <2>2. faults' \in Nat
    BY <1>9 DEF FlushFails
  <2> QED BY <1>9, <2>1, <2>2 DEF FlushFails, history
<1>10. CASE Restart
  <2>1. lost' \subseteq Nat
    <3>1. \A i \in DOMAIN batch : batch[i] \in Offset
      BY LenProperties, ElementOfSeq
    <3>2. \A o \in Offset : o.id \in Nat
      BY StoreAssumption DEF Offset
    <3> QED BY <1>10, <3>1, <3>2 DEF Restart
  <2>2. batch' \in Seq(Offset)
    BY <1>10, EmptySeq DEF Restart
  <2> QED BY <1>10, <2>1, <2>2 DEF Restart, trouble
<1>11. CASE UNCHANGED vars
  BY <1>11 DEF vars, history, trouble
<1> QED BY <1>1, <1>2, <1>3, <1>4, <1>5, <1>6, <1>7, <1>8, <1>9, <1>10,
           <1>11 DEF Next, Flush

-----------------------------------------------------------------------------
(* What a step does to the batch and to the rows.                          *)

\* Nothing that the properties speak of.
Quiet == UNCHANGED <<batch, received, lost, table, unacked>>

\* An offset is received.
Accepts ==
    /\ \E o \in Offset :
          /\ o.id = Len(received) + 1
          /\ batch' = Append(batch, o)
          /\ received' = Append(received, o)
    /\ UNCHANGED <<lost, table, unacked>>

\* The transaction is committed, and the answer arrives or does not.
Persists ==
    /\ pc = "commit"
    /\ table' = tx
    /\ UNCHANGED <<received, lost>>
    /\ \/ batch' = <<>> /\ UNCHANGED unacked
       \/ UNCHANGED batch /\ unacked' = TRUE

\* The batch is discarded.
Loses ==
    /\ lost' = lost \cup {batch[i].id : i \in DOMAIN batch}
    /\ batch' = <<>>
    /\ UNCHANGED <<received, table, unacked>>

LEMMA StepCases ==
    ASSUME TypeOK, [Next]_vars
    PROVE  Quiet \/ Accepts \/ Persists \/ Loses
<1>1. CASE Cancel
  BY <1>1 DEF Cancel, history, trouble, Quiet
<1>2. CASE ReceiveOffset
  <2>1. PICK k \in Keys, v \in VideoCounts :
            Receive([id |-> Len(received) + 1, key |-> k, video |-> v])
    BY <1>2 DEF ReceiveOffset
  <2> DEFINE o == [id |-> Len(received) + 1, key |-> k, video |-> v]
  <2>2. o \in Offset
    <3>1. Len(received) < MaxOffsets /\ Len(received) \in Nat
      BY <1>2, LenProperties DEF ReceiveOffset, TypeOK
    <3>2. Len(received) + 1 \in 1..MaxOffsets
      BY <3>1, StoreAssumption
    <3> QED BY <3>2 DEF Offset
  <2>3. o.id = Len(received) + 1
    OBVIOUS
  <2> HIDE DEF o
  <2>4. Receive(o)
    BY <2>1 DEF o
  <2> QED BY <2>2, <2>3, <2>4 DEF Receive, trouble, Accepts
<1>3. CASE FlushTimer
  BY <1>3 DEF FlushTimer, history, trouble, Quiet
<1>4. CASE Return
  BY <1>4 DEF Return, history, trouble, Quiet
<1>5. CASE BeginTx
  BY <1>5 DEF BeginTx, history, trouble, Quiet
<1>6. ASSUME NEW k \in Keys, ExecInsert(k)
      PROVE  Quiet
  BY <1>6 DEF ExecInsert, history, trouble, Quiet
<1>7. CASE Commit
  BY <1>7 DEF Commit, history, trouble, Persists
<1>8. CASE CommitUnacknowledged
  BY <1>8 DEF CommitUnacknowledged, history, Persists
<1>9. CASE FlushFails
  BY <1>9 DEF FlushFails, history, Quiet
<1>10. CASE Restart
  BY <1>10 DEF Restart, trouble, Loses
<1>11. CASE UNCHANGED vars
  BY <1>11 DEF vars, history, trouble, Quiet
<1> QED BY <1>1, <1>2, <1>3, <1>4, <1>5, <1>6, <1>7, <1>8, <1>9, <1>10,
           <1>11 DEF Next, Flush

-----------------------------------------------------------------------------
(* The batch is the end of what was received.                              *)

\* The two parts of received, element by element.
LEMMA TwoParts ==
    ASSUME TypeOK, BatchIsNewest
    PROVE  /\ Len(batch) \in Nat /\ DOMAIN batch = 1..Len(batch)
           /\ Len(received) \in Nat /\ DOMAIN received = 1..Len(received)
           /\ Settled \in Seq(Offset)
           /\ Len(Settled) \in Nat
           /\ Len(Settled) = Len(received) - Len(batch)
           /\ \A i \in 1..Len(Settled) : Settled[i].id = i
           /\ \A i \in 1..Len(batch) : /\ batch[i] \in Offset
                                       /\ batch[i].id = Len(Settled) + i
                                       /\ batch[i] = received[Len(Settled) + i]
<1>1. /\ Len(batch) \in Nat /\ DOMAIN batch = 1..Len(batch)
      /\ Len(received) \in Nat /\ DOMAIN received = 1..Len(received)
  BY LenProperties DEF TypeOK
<1> DEFINE n == Len(received) - Len(batch)
<1>2. n \in Nat /\ n <= Len(received)
  BY <1>1 DEF BatchIsNewest
<1>3. /\ Settled \in Seq(Offset)
      /\ Len(Settled) = n
      /\ \A i \in 1..n : Settled[i] = received[i]
  <2>1. \A i \in 1..n : received[i] \in Offset
    <3>1. \A i \in 1..n : i \in 1..Len(received)
      BY <1>1, <1>2
    <3> QED BY <3>1, ElementOfSeq DEF TypeOK
  <2>2. 1 \in Int /\ n \in Int
    BY <1>2
  <2>3. Settled = SubSeq(received, 1, n)
    BY DEF Settled
  <2> HIDE DEF n
  <2>4. /\ SubSeq(received, 1, n) \in Seq(Offset)
        /\ Len(SubSeq(received, 1, n)) = IF 1 <= n THEN n - 1 + 1 ELSE 0
        /\ \A i \in 1..(n - 1 + 1) :
              SubSeq(received, 1, n)[i] = received[1 + i - 1]
    BY <2>1, <2>2, SubSeqProperties
  <2>5. \A i \in 1..n : i \in 1..(n - 1 + 1) /\ 1 + i - 1 = i
    BY <1>2
  <2>6. (IF 1 <= n THEN n - 1 + 1 ELSE 0) = n
    BY <1>2
  <2> QED BY <2>3, <2>4, <2>5, <2>6
<1>4. \A i \in 1..Len(Settled) : Settled[i].id = i
  <2>1. \A i \in 1..n : i \in 1..Len(received)
    BY <1>1, <1>2
  <2> QED BY <1>1, <1>3, <2>1 DEF BatchIsNewest
<1>5. \A i \in 1..Len(batch) : /\ batch[i] \in Offset
                               /\ batch[i] = received[n + i]
                               /\ batch[i].id = n + i
  <2> TAKE i \in 1..Len(batch)
  <2>1. n + i \in 1..Len(received) /\ ~(n + i <= n) /\ (n + i) - n = i
    BY <1>1, <1>2
  <2>2. batch[i] \in Offset
    BY ElementOfSeq DEF TypeOK
  <2>3. (Settled \o batch)[n + i] = batch[i]
    <3>1. n + i \in 1..(Len(Settled) + Len(batch))
      BY <1>1, <1>2, <1>3
    <3>2. batch \in Seq(Offset)
      BY DEF TypeOK
    <3>3. (Settled \o batch)[n + i] = IF n + i <= Len(Settled)
                                      THEN Settled[n + i]
                                      ELSE batch[n + i - Len(Settled)]
      BY <1>3, <3>1, <3>2, ConcatProperties
    <3> QED BY <1>3, <2>1, <3>3
  <2>4. received[n + i] = batch[i]
    BY <2>3 DEF BatchIsNewest
  <2>5. received[n + i].id = n + i
    BY <1>1, <2>1 DEF BatchIsNewest
  <2> QED BY <2>2, <2>4, <2>5
<1> QED BY <1>1, <1>2, <1>3, <1>4, <1>5

\* What is settled changes only when a batch is emptied: then it is all that
\* was received.
LEMMA SettledSteps ==
    ASSUME TypeOK, BatchIsNewest, [Next]_vars
    PROVE  /\ Quiet \/ Accepts \/ (Persists /\ UNCHANGED batch)
                  => /\ Settled' = Settled
                     /\ Len(received') - Len(batch')
                            = Len(received) - Len(batch)
           /\ batch' = <<>> /\ UNCHANGED received
                  => /\ Settled' = received
                     /\ Len(received') - Len(batch') = Len(received)
<1>1. Quiet \/ (Persists /\ UNCHANGED batch)
          => /\ Settled' = Settled
             /\ Len(received') - Len(batch') = Len(received) - Len(batch)
  BY DEF Settled, Quiet, Persists
<1>2. ASSUME Accepts
      PROVE  /\ Settled' = Settled
             /\ Len(received') - Len(batch') = Len(received) - Len(batch)
  <2>1. PICK o \in Offset : /\ batch' = Append(batch, o)
                            /\ received' = Append(received, o)
    BY <1>2 DEF Accepts
  <2> DEFINE n == Len(received) - Len(batch)
  <2>2. Len(received') = Len(received) + 1 /\ Len(batch') = Len(batch) + 1
    BY <2>1, AppendProperties DEF TypeOK
  <2>3. Len(received') - Len(batch') = n
    BY <2>2, TwoParts
  <2>4. n \in 0..Len(received) /\ n \in Nat
    BY TwoParts
  <2>5. SubSeq(Append(received, o), 1, n) = SubSeq(received, 1, n)
    <3> HIDE DEF n
    <3>1. received \in Seq(Offset) /\ Append(received, o) \in Seq(Offset)
      BY AppendProperties DEF TypeOK
    <3> QED BY <2>4, <3>1
  <2>6. Settled' = SubSeq(received', 1, n)
    BY <2>3 DEF Settled
  <2> QED BY <2>1, <2>3, <2>5, <2>6 DEF Settled
<1>3. ASSUME batch' = <<>>, UNCHANGED received
      PROVE  /\ Settled' = received
             /\ Len(received') - Len(batch') = Len(received)
  <2>1. Len(received') - Len(batch') = Len(received)
    BY <1>3, TwoParts
  <2>2. Settled' = SubSeq(received, 1, Len(received))
    BY <1>3, <2>1 DEF Settled
  <2> QED BY <2>1, <2>2, SubSeqFull DEF TypeOK
<1> QED BY <1>1, <1>2, <1>3

\* Every step keeps the batch at the end.
LEMMA NewestIsInvariant ==
    ASSUME TypeOK, BatchIsNewest, [Next]_vars
    PROVE  BatchIsNewest'
<1>1. CASE Quiet
  <2>1. Settled' = Settled
    BY <1>1, SettledSteps
  <2> QED BY <1>1, <2>1 DEF Quiet, BatchIsNewest
<1>2. CASE Accepts
  <2>1. PICK o \in Offset : /\ o.id = Len(received) + 1
                            /\ batch' = Append(batch, o)
                            /\ received' = Append(received, o)
    BY <1>2 DEF Accepts
  <2>2. /\ Settled' = Settled
        /\ Len(received') - Len(batch') = Len(received) - Len(batch)
    BY <1>2, SettledSteps
  <2>3. /\ Len(received') = Len(received) + 1
        /\ Len(batch') = Len(batch) + 1
        /\ received'[Len(received) + 1] = o
        /\ \A i \in 1..Len(received) : received'[i] = received[i]
        /\ DOMAIN received' = 1..(Len(received) + 1)
    BY <2>1, AppendProperties, LenProperties DEF TypeOK
  <2>4. Len(batch') <= Len(received')
    BY <2>3, TwoParts DEF BatchIsNewest
  <2>5. received' = Settled' \o batch'
    <3>1. Settled \o Append(batch, o) = Append(Settled \o batch, o)
      BY TwoParts, AppendToConcat DEF TypeOK
    <3> QED BY <2>1, <2>2, <3>1 DEF BatchIsNewest
  <2>6. \A i \in DOMAIN received' : received'[i].id = i
    <3> TAKE i \in DOMAIN received'
    <3>1. CASE i = Len(received) + 1
      BY <2>1, <2>3, <3>1
    <3>2. CASE i # Len(received) + 1
      <4>1. i \in 1..Len(received)
        BY <2>3, <3>2, TwoParts
      <4> QED BY <2>3, <4>1, TwoParts DEF BatchIsNewest
    <3> QED BY <3>1, <3>2
  <2>7. \A x \in lost' : x <= Len(received') - Len(batch')
    BY <1>2, <2>2 DEF Accepts, BatchIsNewest
  <2> QED BY <2>4, <2>5, <2>6, <2>7 DEF BatchIsNewest
<1>3. ASSUME batch' = <<>>, UNCHANGED received,
             \A x \in lost' : x <= Len(received)
      PROVE  BatchIsNewest'
  <2>1. /\ Settled' = received
        /\ Len(received') - Len(batch') = Len(received)
    BY <1>3, SettledSteps
  <2>2. received' = Settled' \o batch'
    BY <1>3, <2>1, ConcatEmptySeq DEF TypeOK
  <2>3. Len(batch') <= Len(received')
    <3>1. Len(batch') = 0
      BY <1>3
    <3> QED BY <1>3, <3>1, TwoParts
  <2> QED BY <1>3, <2>1, <2>2, <2>3 DEF BatchIsNewest
<1>4. \A x \in lost : x <= Len(received)
  BY TwoParts DEF BatchIsNewest, TypeOK
<1>5. CASE Persists
  <2>1. CASE UNCHANGED batch
    <3>1. Settled' = Settled
      BY <1>5, <2>1, SettledSteps
    <3> QED BY <1>5, <2>1, <3>1 DEF Persists, BatchIsNewest
  <2>2. CASE batch' = <<>>
    BY <1>3, <1>4, <1>5, <2>2 DEF Persists
  <2> QED BY <1>5, <2>1, <2>2 DEF Persists
<1>6. CASE Loses
  <2>1. \A i \in DOMAIN batch : batch[i].id <= Len(received)
    BY TwoParts
  <2>2. \A x \in lost' : x <= Len(received)
    BY <1>4, <1>6, <2>1 DEF Loses
  <2> QED BY <1>3, <1>6, <2>2 DEF Loses
<1> QED BY <1>1, <1>2, <1>5, <1>6, StepCases

-----------------------------------------------------------------------------
(* The transaction.                                                        *)

\* A file of which the batch has nothing has an empty group, and a file of
\* which it has something is among its keys.
LEMMA GroupsAndKeys ==
    ASSUME TypeOK, NEW k
    PROVE  k \notin KeysOf(batch) => Group(batch, k) = <<>>
<1> SUFFICES ASSUME k \notin KeysOf(batch)
             PROVE  Group(batch, k) = <<>>
  OBVIOUS
<1>1. DOMAIN batch = 1..Len(batch)
  BY LenProperties DEF TypeOK
<1>2. \A i \in 1..Len(batch) : batch[i] \notin {o \in Offset : o.key = k}
  BY <1>1 DEF KeysOf
<1> QED BY <1>2, OnlyOfNone DEF Group, TypeOK

\* Every statement adds one group, and no step outside of a transaction
\* changes the batch or the table.
LEMMA TransactionIsInvariant ==
    ASSUME TypeOK, TransactionIsPartOfBatch, [Next]_vars
    PROVE  TransactionIsPartOfBatch'
<1>1. ASSUME pc' \in {"select", "begin", "stopped"}
      PROVE  TransactionIsPartOfBatch'
  BY <1>1 DEF TransactionIsPartOfBatch
<1>2. CASE Cancel
  BY <1>2 DEF Cancel, history, TransactionIsPartOfBatch
<1>3. CASE ReceiveOffset
  BY <1>1, <1>3 DEF ReceiveOffset, Receive
<1>4. CASE FlushTimer
  BY <1>1, <1>4 DEF FlushTimer
<1>5. CASE Return
  BY <1>1, <1>5 DEF Return
<1>6. CASE BeginTx
  BY <1>6 DEF BeginTx, TransactionIsPartOfBatch, TypeOK
<1>7. ASSUME NEW k \in Keys, ExecInsert(k)
      PROVE  TransactionIsPartOfBatch'
  <2>1. /\ k \in grouped
        /\ tx' = [tx EXCEPT ![k] = Upsert(tx[k], Group(batch, k))]
        /\ grouped' = grouped \ {k}
        /\ pc = "exec"
        /\ UNCHANGED <<batch, table>>
    BY <1>7 DEF ExecInsert
  <2>2. /\ grouped \subseteq KeysOf(batch)
        /\ \A j \in Keys : tx[j] = IF j \in KeysOf(batch) \ grouped
                                   THEN Upsert(table[j], Group(batch, j))
                                   ELSE table[j]
    BY <2>1 DEF TransactionIsPartOfBatch
  <2>3. pc' = "commit" => grouped' = {}
    BY <1>7 DEF ExecInsert
  <2>4. \A j \in Keys : tx'[j] = IF j = k THEN Upsert(tx[k], Group(batch, k))
                                          ELSE tx[j]
    BY <2>1 DEF TypeOK
  <2>5. tx[k] = table[k]
    BY <2>1, <2>2
  <2>6. \A j \in Keys : tx'[j] = IF j \in KeysOf(batch) \ grouped'
                                 THEN Upsert(table[j], Group(batch, j))
                                 ELSE table[j]
    BY <2>1, <2>2, <2>4, <2>5
  <2> QED BY <2>1, <2>2, <2>3, <2>6 DEF TransactionIsPartOfBatch
<1>8. CASE Commit
  BY <1>1, <1>8 DEF Commit, FlushReturns
<1>9. CASE CommitUnacknowledged
  BY <1>1, <1>9 DEF CommitUnacknowledged, FlushReturns
<1>10. CASE FlushFails
  BY <1>1, <1>10 DEF FlushFails, FlushReturns
<1>11. CASE Restart
  BY <1>1, <1>11 DEF Restart
<1>12. CASE UNCHANGED vars
  BY <1>12 DEF vars, history, TransactionIsPartOfBatch
<1> QED BY <1>2, <1>3, <1>4, <1>5, <1>6, <1>7, <1>8, <1>9, <1>10, <1>11,
           <1>12 DEF Next, Flush

\* What is committed is every row with its group behind it.
LEMMA CommitExtendsRows ==
    ASSUME TypeOK, TransactionIsPartOfBatch, pc = "commit", NEW k \in Keys
    PROVE  /\ tx[k].indexes = table[k].indexes \o Group(batch, k)
           /\ k \notin KeysOf(batch) => tx[k] = table[k]
           /\ k \in KeysOf(batch) => tx[k] = Upsert(table[k], Group(batch, k))
<1>1. table[k].indexes \in Seq(Offset)
  BY DEF TypeOK, Row
<1>2. tx[k] = IF k \in KeysOf(batch) THEN Upsert(table[k], Group(batch, k))
                                     ELSE table[k]
  BY DEF TransactionIsPartOfBatch
<1>3. CASE k \in KeysOf(batch)
  BY <1>2, <1>3 DEF Upsert
<1>4. CASE k \notin KeysOf(batch)
  BY <1>1, <1>2, <1>4, GroupsAndKeys, ConcatEmptySeq
<1> QED BY <1>2, <1>3, <1>4

-----------------------------------------------------------------------------
(* The rows.                                                               *)

\* The groups of two batches, one after the other.
LEMMA GroupOfConcat ==
    ASSUME NEW b \in Seq(Offset), NEW c \in Seq(Offset), NEW k
    PROVE  Group(b \o c, k) = Group(b, k) \o Group(c, k)
<1> DEFINE S == {o \in Offset : o.key = k}
<1>1. /\ Group(b \o c, k) = Only(b \o c, S)
      /\ Group(b, k) = Only(b, S)
      /\ Group(c, k) = Only(c, S)
  BY DEF Group
<1> HIDE DEF S
<1>2. Only(b \o c, S) = Only(b, S) \o Only(c, S)
  BY OnlyOfConcat
<1> QED BY <1>1, <1>2

\* An offset is in the group of its own key.
LEMMA GroupHasIt ==
    ASSUME NEW b \in Seq(Offset), NEW i \in 1..Len(b)
    PROVE  \E j \in 1..Len(Group(b, b[i].key)) : Group(b, b[i].key)[j] = b[i]
<1> DEFINE k == b[i].key
           S == {o \in Offset : o.key = k}
<1>1. b[i] \in S
  BY ElementOfSeq
<1>2. Group(b, k) = Only(b, S)
  BY DEF Group
<1> HIDE DEF S
<1>3. \E j \in 1..Len(Only(b, S)) : Only(b, S)[j] = b[i]
  BY <1>1, OnlyHasThem
<1> QED BY <1>2, <1>3

\* The batch is alive as a whole.
LEMMA BatchIsAlive ==
    ASSUME TypeOK, BatchIsNewest
    PROVE  /\ Only(batch, Alive) = batch
           /\ Only(received, Alive) = Only(Settled, Alive) \o batch
<1>1. \A i \in 1..Len(batch) : batch[i] \in Alive
  <2> TAKE i \in 1..Len(batch)
  <2>1. batch[i] \in Offset /\ batch[i].id = Len(Settled) + i
    BY TwoParts
  <2>2. \A x \in lost : x <= Len(Settled)
    BY TwoParts DEF BatchIsNewest
  <2>3. Len(Settled) \in Nat /\ ~(Len(Settled) + i <= Len(Settled))
    BY TwoParts
  <2> QED BY <2>1, <2>2, <2>3 DEF Alive
<1>2. batch \in Seq(Offset) /\ Settled \in Seq(Offset)
  BY TwoParts DEF TypeOK
<1>3. Only(batch, Alive) = batch
  BY <1>1, <1>2, OnlyOfAll
<1>4. Only(Settled \o batch, Alive)
          = Only(Settled, Alive) \o Only(batch, Alive)
  BY <1>2, OnlyOfConcat
<1> QED BY <1>3, <1>4 DEF BatchIsNewest

\* While nothing was written twice, a row has what is settled of its file.
LEMMA RowsAreInvariant ==
    ASSUME TypeOK, BatchIsNewest, TransactionIsPartOfBatch, RowsAreSettled,
           [Next]_vars
    PROVE  RowsAreSettled'
<1> SUFFICES ASSUME ~unacked', NEW k \in Keys
             PROVE  table'[k].indexes = Group(Only(Settled', Alive'), k)
  BY DEF RowsAreSettled
<1>1. CASE Quiet \/ Accepts
  <2>1. UNCHANGED <<lost, table, unacked>>
    BY <1>1 DEF Quiet, Accepts
  <2>2. Settled' = Settled
    BY <1>1, SettledSteps
  <2>3. Alive' = Alive
    BY <2>1 DEF Alive
  <2> QED BY <2>1, <2>2, <2>3 DEF RowsAreSettled
<1>2. ASSUME batch' = <<>>, UNCHANGED received
      PROVE  Only(Settled', Alive')
                 = Only(Settled, Alive') \o Only(batch, Alive')
  <2>1. Settled' = Settled \o batch
    BY <1>2, SettledSteps DEF BatchIsNewest
  <2> QED BY <2>1, TwoParts, OnlyOfConcat DEF TypeOK
<1>3. CASE Persists
  <2>1. /\ batch' = <<>>
        /\ UNCHANGED <<received, lost, unacked>>
        /\ table' = tx
        /\ pc = "commit"
    BY <1>3 DEF Persists
  <2>2. Alive' = Alive
    BY <2>1 DEF Alive
  <2>3. Only(batch, Alive) = batch
    BY BatchIsAlive
  <2>4. Only(Settled, Alive) \in Seq(Offset)
    BY TwoParts, OnlyType
  <2>5. Group(Only(Settled, Alive) \o batch, k)
            = Group(Only(Settled, Alive), k) \o Group(batch, k)
    BY <2>4, GroupOfConcat DEF TypeOK
  <2>6. table[k].indexes = Group(Only(Settled, Alive), k)
    BY <2>1 DEF RowsAreSettled
  <2>7. table'[k].indexes = table[k].indexes \o Group(batch, k)
    BY <2>1, CommitExtendsRows
  <2> QED BY <1>2, <2>1, <2>2, <2>3, <2>5, <2>6, <2>7
<1>4. CASE Loses
  <2>1. /\ batch' = <<>>
        /\ UNCHANGED <<received, table, unacked>>
        /\ lost' = lost \cup {batch[i].id : i \in DOMAIN batch}
    BY <1>4 DEF Loses
  <2>2. Only(batch, Alive') = <<>>
    <3>1. \A i \in 1..Len(batch) : batch[i] \notin Alive'
      BY <2>1, TwoParts DEF Alive
    <3> QED BY <3>1, OnlyOfNone DEF TypeOK
  <2>3. Only(Settled, Alive') = Only(Settled, Alive)
    <3>1. \A i \in 1..Len(Settled) :
             Settled[i].id \notin {batch[j].id : j \in DOMAIN batch}
      <4> TAKE i \in 1..Len(Settled)
      <4>1. \A j \in 1..Len(batch) : Len(Settled) + j # i
        BY TwoParts
      <4> QED BY <4>1, TwoParts
    <3>2. \A i \in 1..Len(Settled) :
             Settled[i] \in Alive' <=> Settled[i] \in Alive
      BY <2>1, <3>1 DEF Alive
    <3> QED BY <3>2, TwoParts, OnlyAgrees
  <2>4. Only(Settled, Alive) \o <<>> = Only(Settled, Alive)
    BY TwoParts, OnlyType, ConcatEmptySeq
  <2> QED BY <1>2, <2>1, <2>2, <2>3, <2>4 DEF RowsAreSettled
<1> QED BY <1>1, <1>3, <1>4, StepCases, SettledSteps DEF Persists

\* An offset of the batch is durable once the transaction is.
LEMMA CommittedIsDurable ==
    ASSUME TypeOK, TransactionIsPartOfBatch, pc = "commit", table' = tx
    PROVE  /\ Durable \subseteq Durable'
           /\ \A i \in DOMAIN batch : batch[i].id \in Durable'
<1>1. \A k \in Keys : /\ table[k].indexes \in Seq(Offset)
                      /\ Group(batch, k) \in Seq(Offset)
                      /\ table'[k].indexes
                             = table[k].indexes \o Group(batch, k)
  BY CommitExtendsRows, GroupType DEF TypeOK, Row
<1>2. ASSUME NEW k \in Keys
      PROVE  /\ \A i \in DOMAIN table[k].indexes :
                   table[k].indexes[i].id \in Durable'
             /\ \A i \in DOMAIN Group(batch, k) :
                   Group(batch, k)[i].id \in Durable'
  <2> DEFINE s == table[k].indexes
             t == Group(batch, k)
             st == table'[k].indexes
  <2>1. s \in Seq(Offset) /\ t \in Seq(Offset) /\ st = s \o t
    BY <1>1
  <2>2. \A i \in DOMAIN st : st[i].id \in Durable'
    BY DEF Durable
  <2> HIDE DEF s, t, st
  <2>3. /\ Len(s) \in Nat /\ DOMAIN s = 1..Len(s)
        /\ Len(t) \in Nat /\ DOMAIN t = 1..Len(t)
        /\ DOMAIN st = 1..(Len(s) + Len(t))
        /\ \A i \in 1..(Len(s) + Len(t)) :
              st[i] = IF i <= Len(s) THEN s[i] ELSE t[i - Len(s)]
    BY <2>1, ConcatProperties, LenProperties
  <2>4. \A i \in DOMAIN s : i \in DOMAIN st /\ st[i] = s[i]
    BY <2>3
  <2>5. \A i \in DOMAIN t : Len(s) + i \in DOMAIN st /\ st[Len(s) + i] = t[i]
    <3> TAKE i \in DOMAIN t
    <3>1. Len(s) + i \in 1..(Len(s) + Len(t)) /\ ~(Len(s) + i <= Len(s))
          /\ (Len(s) + i) - Len(s) = i
      BY <2>3
    <3> QED BY <2>3, <3>1
  <2> QED BY <2>2, <2>4, <2>5 DEF s, t
<1>3. Durable \subseteq Durable'
  BY <1>2 DEF Durable
<1>4. ASSUME NEW i \in DOMAIN batch
      PROVE  batch[i].id \in Durable'
  <2>1. i \in 1..Len(batch)
    BY LenProperties DEF TypeOK
  <2>2. batch[i] \in Offset
    BY <2>1, ElementOfSeq DEF TypeOK
  <2> DEFINE k == batch[i].key
  <2>3. k \in Keys
    BY <2>2 DEF Offset
  <2>4. \E j \in 1..Len(Group(batch, k)) : Group(batch, k)[j] = batch[i]
    BY <2>1, GroupHasIt DEF TypeOK
  <2>5. DOMAIN Group(batch, k) = 1..Len(Group(batch, k))
    BY <1>1, <2>3, LenProperties
  <2> QED BY <1>2, <2>3, <2>4, <2>5
<1> QED BY <1>3, <1>4

\* Nothing settled disappears.
LEMMA AccountIsInvariant ==
    ASSUME TypeOK, BatchIsNewest, TransactionIsPartOfBatch,
           SettledIsAccounted, [Next]_vars
    PROVE  SettledIsAccounted'
<1>1. ASSUME Len(received') - Len(batch') = Len(received) - Len(batch),
             Durable \subseteq Durable', lost \subseteq lost'
      PROVE  SettledIsAccounted'
  BY <1>1 DEF SettledIsAccounted
<1>2. CASE Quiet \/ Accepts
  <2>1. UNCHANGED <<lost, table>>
    BY <1>2 DEF Quiet, Accepts
  <2>2. Durable' = Durable
    BY <2>1 DEF Durable
  <2> QED BY <1>1, <1>2, <2>1, <2>2, SettledSteps
<1>3. CASE Persists /\ UNCHANGED batch
  <2>1. Durable \subseteq Durable' /\ UNCHANGED lost
    BY <1>3, CommittedIsDurable DEF Persists
  <2> QED BY <1>1, <1>3, <2>1, SettledSteps
<1>4. ASSUME batch' = <<>>, UNCHANGED received,
             Durable \subseteq Durable', lost \subseteq lost',
             \A j \in DOMAIN batch : batch[j].id \in Durable' \cup lost'
      PROVE  SettledIsAccounted'
  <2>1. Len(received') - Len(batch') = Len(received)
    BY <1>4, SettledSteps
  <2> SUFFICES ASSUME NEW i \in 1..Len(received)
               PROVE  i \in Durable' \cup lost'
    BY <2>1 DEF SettledIsAccounted
  <2> DEFINE n == Len(received) - Len(batch)
  <2>2. n \in Nat /\ n = Len(Settled)
    BY TwoParts
  <2>3. CASE i <= n
    <3>1. i \in 1..n
      BY <2>2, <2>3
    <3> QED BY <1>4, <3>1 DEF SettledIsAccounted
  <2>4. CASE ~(i <= n)
    <3>1. i - n \in 1..Len(batch) /\ n + (i - n) = i
      BY <2>2, <2>4, TwoParts
    <3>2. i - n \in DOMAIN batch /\ batch[i - n].id = n + (i - n)
      BY <2>2, <3>1, TwoParts
    <3> QED BY <1>4, <3>1, <3>2
  <2> QED BY <2>3, <2>4
<1>5. CASE Persists /\ batch' = <<>>
  <2>1. UNCHANGED <<received, lost>> /\ pc = "commit" /\ table' = tx
    BY <1>5 DEF Persists
  <2> QED BY <1>4, <1>5, <2>1, CommittedIsDurable
<1>6. CASE Loses
  <2>1. UNCHANGED <<received, table>> /\ batch' = <<>>
        /\ lost' = lost \cup {batch[i].id : i \in DOMAIN batch}
    BY <1>6 DEF Loses
  <2>2. Durable' = Durable
    BY <2>1 DEF Durable
  <2> QED BY <1>4, <2>1, <2>2
<1> QED BY <1>2, <1>3, <1>5, <1>6, StepCases DEF Persists

\* GREATEST keeps the total the largest count.
LEMMA TotalsAreInvariant ==
    ASSUME TypeOK, TransactionIsPartOfBatch, TotalsAreLargest, [Next]_vars
    PROVE  TotalsAreLargest'
<1>1. CASE UNCHANGED table
  BY <1>1 DEF TotalsAreLargest
<1>2. CASE Persists
  <2> SUFFICES ASSUME NEW k \in Keys
               PROVE  table'[k].total = VideoFrameCount(table'[k].indexes)
    BY DEF TotalsAreLargest
  <2>1. pc = "commit" /\ table' = tx
    BY <1>2 DEF Persists
  <2>2. table[k].total = VideoFrameCount(table[k].indexes)
    BY DEF TotalsAreLargest
  <2>3. CASE k \in KeysOf(batch)
    <3>1. tx[k] = Upsert(table[k], Group(batch, k))
      BY <2>1, <2>3, CommitExtendsRows
    <3>2. /\ tx[k].indexes = table[k].indexes \o Group(batch, k)
          /\ tx[k].total = Max({table[k].total,
                                VideoFrameCount(Group(batch, k))})
      BY <3>1 DEF Upsert
    <3>3. table[k].indexes \in Seq(Offset) /\ Group(batch, k) \in Seq(Offset)
      BY GroupType DEF TypeOK, Row
    <3> QED BY <2>1, <2>2, <3>2, <3>3, CountOfConcat
  <2>4. CASE k \notin KeysOf(batch)
    BY <2>1, <2>2, <2>4, CommitExtendsRows
  <2> QED BY <2>3, <2>4
<1> QED BY <1>1, <1>2, StepCases DEF Quiet, Accepts, Loses

-----------------------------------------------------------------------------
(* The invariant and what follows from it.                                 *)

LEMMA InitInvariant == Init => IInv
<1> SUFFICES ASSUME Init
             PROVE  IInv
  OBVIOUS
<1>1. TypeOK
  BY InitType
<1>2. /\ batch = <<>> /\ received = <<>> /\ lost = {} /\ unacked = FALSE
      /\ pc = "select"
      /\ \A k \in Keys : table[k] = EmptyRow
  BY DEF Init
<1>3. Len(batch) = 0 /\ Len(received) = 0 /\ DOMAIN received = {}
  BY <1>2
<1>4. Settled = <<>>
  <2>1. Settled = SubSeq(<<>>, 1, 0)
    BY <1>2, <1>3 DEF Settled
  <2> QED BY <2>1, SubSeqEmpty
<1>5. BatchIsNewest
  <2>1. received = Settled \o batch
    BY <1>2, <1>4
  <2> QED BY <1>2, <1>3, <2>1 DEF BatchIsNewest
<1>6. TransactionIsPartOfBatch
  BY <1>2 DEF TransactionIsPartOfBatch
<1>7. RowsAreSettled
  BY <1>2, <1>4, OnlyOfEmpty DEF RowsAreSettled, Group, EmptyRow
<1>8. SettledIsAccounted
  BY <1>3 DEF SettledIsAccounted
<1>9. TotalsAreLargest
  <2>1. VideoFrameCount(<<>>) = 0
    <3>1. {0} \cup {<<>>[i].video : i \in DOMAIN <<>>} = {0}
      OBVIOUS
    <3>2. Max({0}) = 0
      BY MaxIs
    <3> QED BY <3>1, <3>2 DEF VideoFrameCount
  <2> QED BY <1>2, <2>1 DEF TotalsAreLargest, EmptyRow
<1> QED BY <1>1, <1>5, <1>6, <1>7, <1>8, <1>9 DEF IInv

LEMMA NextInvariant == IInv /\ [Next]_vars => IInv'
BY TypeIsInvariant, NewestIsInvariant, TransactionIsInvariant,
   RowsAreInvariant, AccountIsInvariant, TotalsAreInvariant DEF IInv

\* The batch is the end of what was received, a transaction has part of it,
\* and what is before the batch is in its row or lost.
THEOREM InvariantHolds == Spec => []IInv
<1>1. Init => IInv
  BY InitInvariant
<1>2. IInv /\ [Next]_vars => IInv'
  BY NextInvariant
<1> QED BY <1>1, <1>2, PTL DEF Spec

\* The database writer keeps its types: in particular a row is extended to
\* a row, whatever the groups.
THEOREM TypeCorrect == Spec => []TypeOK
<1>1. IInv => TypeOK
  BY DEF IInv
<1> QED BY <1>1, InvariantHolds, PTL

LEMMA InvariantMeansOnce == IInv => ExactlyOnce
<1> SUFFICES ASSUME IInv
             PROVE  ExactlyOnce
  OBVIOUS
<1> USE DEF IInv
<1>1. ASSUME ~unacked, NEW k \in Keys
      PROVE  table[k].indexes \o Group(batch, k) = Group(Survivors, k)
  <2>1. Survivors = Only(received, Alive)
    BY DEF Survivors, Alive
  <2>2. Only(received, Alive) = Only(Settled, Alive) \o batch
    BY BatchIsAlive
  <2>3. Only(Settled, Alive) \in Seq(Offset)
    BY TwoParts, OnlyType
  <2>4. Group(Only(Settled, Alive) \o batch, k)
            = Group(Only(Settled, Alive), k) \o Group(batch, k)
    BY <2>3, GroupOfConcat DEF TypeOK
  <2> QED BY <1>1, <2>1, <2>2, <2>4 DEF RowsAreSettled
<1>2. ASSUME NEW i \in DOMAIN received
      PROVE  \/ i \in Durable \cup lost
             \/ \E j \in DOMAIN batch : batch[j] = received[i]
  <2> DEFINE n == Len(received) - Len(batch)
  <2>1. n \in Nat /\ n = Len(Settled) /\ i \in 1..Len(received)
    BY TwoParts
  <2>2. CASE i <= n
    <3>1. i \in 1..n
      BY <2>1, <2>2
    <3> QED BY <3>1 DEF SettledIsAccounted
  <2>3. CASE ~(i <= n)
    <3>1. i - n \in 1..Len(batch) /\ n + (i - n) = i
      BY <2>1, <2>3, TwoParts
    <3>2. i - n \in DOMAIN batch /\ batch[i - n] = received[n + (i - n)]
      BY <2>1, <3>1, TwoParts
    <3> QED BY <3>1, <3>2
  <2> QED BY <2>2, <2>3
<1> QED BY <1>1, <1>2 DEF ExactlyOnce, TotalsAreLargest

\* Whatever calls fail, in whatever place, and however the offsets are split
\* over batches: while commits are answered an offset that was received is
\* in the row of its file once, in order, or in the batch, or was lost with
\* a batch; after a lost answer it still does not disappear.
THEOREM OffsetsExactlyOnce == Spec => []ExactlyOnce
<1>1. IInv => ExactlyOnce
  BY InvariantMeansOnce
<1> QED BY <1>1, InvariantHolds, PTL

-----------------------------------------------------------------------------
(* The writer implements the store.                                        *)

\* Both choose the groups of a batch alike.
LEMMA SameGroups ==
    ASSUME NEW b, NEW k
    PROVE  Store!Group(b, k) = Group(b, k) /\ Store!KeysOf(b) = KeysOf(b)
BY DEF Store!Group, Group, Store!Only, Only, Store!KeysOf, KeysOf

\* The writer starts as an empty store.
LEMMA InitImplements == Init => Store!Init
BY DEF Init, Store!Init, EmptyRow

\* Every step is one of the store or changes neither batch nor rows: all the
\* groups of a batch become durable at once, with the commit.
LEMMA StepImplements ==
    ASSUME TypeOK, TransactionIsPartOfBatch, [Next]_vars
    PROVE  [Store!Next]_(Store!vars)
<1> DEFINE stored == [k \in Keys |-> table[k].indexes]
<1>1. CASE Quiet
  BY <1>1 DEF Quiet, Store!vars
<1>2. CASE Accepts
  BY <1>2 DEF Accepts, Store!Next, Store!Accept
<1>3. CASE Persists
  <2>1. stored' = Store!Extended(stored, batch)
    <3>1. stored' = [k \in Keys |-> tx[k].indexes]
      BY <1>3 DEF Persists
    <3>2. \A k \in Keys :
             tx[k].indexes = IF k \in KeysOf(batch)
                             THEN table[k].indexes \o Group(batch, k)
                             ELSE table[k].indexes
      BY <1>3, CommitExtendsRows DEF Persists
    <3>3. Store!Extended(stored, batch)
              = [k \in Keys |-> IF k \in KeysOf(batch)
                                THEN stored[k] \o Group(batch, k)
                                ELSE stored[k]]
      BY SameGroups DEF Store!Extended
    <3> QED BY <3>1, <3>2, <3>3
  <2>2. CASE batch' = <<>>
    BY <2>1, <2>2 DEF Store!Next, Store!Persist
  <2>3. CASE UNCHANGED batch
    BY <2>1, <2>3 DEF Store!Next, Store!PersistUnacknowledged
  <2> QED BY <1>3, <2>2, <2>3 DEF Persists
<1>4. CASE Loses
  BY <1>4 DEF Loses, Store!Next, Store!Lose
<1> QED BY <1>1, <1>2, <1>3, <1>4, StepCases

\* The loop over the map of groups, the rollbacks, the retries and the
\* restarts implement a store in which offsets become durable a whole batch
\* at a time.
THEOREM StoreIsImplemented == Spec => ImplementsStore
<1>1. Init => Store!Init
  BY InitImplements
<1>2. IInv /\ [Next]_vars => [Store!Next]_(Store!vars)
  BY StepImplements DEF IInv
<1> QED BY <1>1, <1>2, InvariantHolds, PTL DEF Spec, ImplementsStore, Store!Spec
=============================================================================
