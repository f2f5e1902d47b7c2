------------------------- MODULE RecompressionProofs -------------------------
(***************************************************************************)
(* Theorems about Recompression, for archives of any number of entries of any *)
(* size, any block and chunk, any ceiling.                                    *)
(*                                                                         *)
(* The model's sums, chunks and joined sequences are recursive functions.     *)
(* What they give for every input is proved here by the smallest              *)
(* counterexample (NatInSet), because an induction theorem over an operator   *)
(* cannot be instantiated.  The invariant says, between two entries, in one   *)
(* and behind what it holds, which pieces have been written and where in the  *)
(* tar that is: RInv.                                                         *)
(***************************************************************************)
EXTENDS Recompression, SequenceTheorems, WellFoundedInduction, TLAPS

-----------------------------------------------------------------------------
(* Induction, and functions defined by it. *)

\* What holds of zero and is handed on by every number holds of all of them.
LEMMA NatInSet ==
  ASSUME NEW S, 0 \in S, \A n \in Nat : n \in S => n + 1 \in S
  PROVE  Nat \subseteq S
<1> DEFINE Left == Nat \ S
<1> SUFFICES ASSUME Left # {}
             PROVE  FALSE
  OBVIOUS
<1>1. IsWellFoundedOn(OpToRel(<, Nat), Nat)
  BY NatLessThanWellFounded
<1>2. PICK m \in Left : \A n \in Left : ~(<<n, m>> \in OpToRel(<, Nat))
  <2>1. Left \subseteq Nat
    OBVIOUS
  <2> QED
    BY <1>1, <2>1, WFMin
<1>3. m # 0 /\ m \in Nat
  OBVIOUS
<1>4. m - 1 \in Nat /\ m - 1 < m /\ m - 1 + 1 = m
  BY <1>3
<1>5. <<m - 1, m>> \in OpToRel(<, Nat)
  BY <1>3, <1>4 DEF OpToRel
<1>6. m - 1 \in S
  BY <1>2, <1>4, <1>5
<1> QED
  BY <1>3, <1>4, <1>6

\* A function may be defined step by step.
Follows(f, a, step, n) == f[0] = a /\ \A i \in 1 .. n : f[i] = step[<<i, f[i - 1]>>]

LEMMA StepsExist ==
  ASSUME NEW A, NEW a \in A, NEW step \in [Nat \X A -> A], NEW n \in Nat
  PROVE  \E f \in [0 .. n -> A] : Follows(f, a, step, n)
<1> DEFINE S == {m \in Nat : \E f \in [0 .. m -> A] : Follows(f, a, step, m)}
<1>1. 0 \in S
  <2> DEFINE f == [i \in 0 .. 0 |-> a]
  <2>1. f \in [0 .. 0 -> A] /\ f[0] = a /\ 1 .. 0 = {}
    OBVIOUS
  <2>2. Follows(f, a, step, 0)
    BY <2>1 DEF Follows
  <2> QED
    BY <2>1, <2>2
<1>2. ASSUME NEW m \in Nat, m \in S
      PROVE  m + 1 \in S
  <2>1. PICK f \in [0 .. m -> A] : Follows(f, a, step, m)
    BY <1>2
  <2> DEFINE g == [i \in 0 .. m + 1 |-> IF i = m + 1 THEN step[<<m + 1, f[m]>>] ELSE f[i]]
  <2>2. f[m] \in A /\ step[<<m + 1, f[m]>>] \in A
    OBVIOUS
  <2>3. g \in [0 .. m + 1 -> A]
    BY <2>2
  <2>4. g[0] = a
    BY <2>1 DEF Follows
  <2>5. ASSUME NEW i \in 1 .. m + 1
        PROVE  g[i] = step[<<i, g[i - 1]>>]
    <3>1. CASE i = m + 1
      <4>1. i - 1 = m /\ m # m + 1 /\ m \in 0 .. m + 1 /\ i \in 0 .. m + 1
        BY <3>1
      <4>2. g[i] = step[<<m + 1, f[m]>>] /\ g[i - 1] = f[m]
        BY <3>1, <4>1
      <4> QED
        BY <3>1, <4>2
    <3>2. CASE i # m + 1
      <4>1. i \in 1 .. m /\ i - 1 \in 0 .. m /\ i \in 0 .. m + 1 /\ i - 1 # m + 1
        BY <3>2
      <4>2. g[i] = f[i] /\ g[i - 1] = f[i - 1]
        BY <3>2, <4>1
      <4>3. f[i] = step[<<i, f[i - 1]>>]
        BY <2>1, <4>1 DEF Follows
      <4> QED
        BY <4>2, <4>3
    <3> QED
      BY <3>1, <3>2
  <2> HIDE DEF g
  <2>6. Follows(g, a, step, m + 1)
    BY <2>4, <2>5 DEF Follows
  <2> QED
    BY <2>3, <2>6
<1> HIDE DEF S
<1>3. n \in S
  BY <1>1, <1>2, NatInSet
<1> QED
  BY <1>3 DEF S

\* Two functions that start alike and go on alike are the same.
Alike(f, g, n) == f[0] = g[0] /\ \A i \in 1 .. n : f[i - 1] = g[i - 1] => f[i] = g[i]

LEMMA StepsAlike ==
  ASSUME NEW n \in Nat, NEW f, NEW g, Alike(f, g, n)
  PROVE  \A i \in 0 .. n : f[i] = g[i]
<1> DEFINE S == {m \in Nat : m <= n => f[m] = g[m]}
<1>1. 0 \in S
  BY DEF Alike
<1>2. ASSUME NEW m \in Nat, m \in S
      PROVE  m + 1 \in S
  <2> SUFFICES ASSUME m + 1 <= n
               PROVE  f[m + 1] = g[m + 1]
    OBVIOUS
  <2>1. m + 1 \in 1 .. n /\ m + 1 - 1 = m
    OBVIOUS
  <2>2. f[m] = g[m]
    BY <1>2
  <2>3. f[m + 1 - 1] = g[m + 1 - 1] => f[m + 1] = g[m + 1]
    BY <2>1 DEF Alike
  <2> QED
    BY <2>1, <2>2, <2>3
<1> HIDE DEF S
<1>3. Nat \subseteq S
  BY <1>1, <1>2, NatInSet
<1> QED
  BY <1>3 DEF S

-----------------------------------------------------------------------------
(* Total *)

\* The sums of the first lengths, up to all of them.
SumsTo(f, s) == f[0] = 0 /\ \A i \in 1 .. Len(s) : f[i] = f[i - 1] + s[i]

LEMMA TotalBySums ==
  ASSUME NEW s \in Seq(Nat)
  PROVE  \E f \in [0 .. Len(s) -> Nat] : SumsTo(f, s) /\ Total(s) = f[Len(s)]
<1> DEFINE n == Len(s)
           step == [p \in Nat \X Nat |-> IF p[1] \in 1 .. n THEN p[2] + s[p[1]] ELSE 0]
           IsSum(g) == g = [i \in 0 .. n |-> IF i = 0 THEN 0 ELSE g[i - 1] + s[i]]
           sum == CHOOSE g : IsSum(g)
<1>1. n \in Nat /\ \A i \in 1 .. n : s[i] \in Nat
  OBVIOUS
<1>2. step \in [Nat \X Nat -> Nat]
  <2>1. ASSUME NEW p \in Nat \X Nat
        PROVE  (IF p[1] \in 1 .. n THEN p[2] + s[p[1]] ELSE 0) \in Nat
    BY <1>1
  <2> QED
    BY <2>1
<1> HIDE DEF step, n
<1>3. PICK f \in [0 .. n -> Nat] : Follows(f, 0, step, n)
  BY <1>1, <1>2, StepsExist
<1>4. ASSUME NEW i \in 1 .. n
      PROVE  f[i] = f[i - 1] + s[i]
  <2>1. i \in Nat /\ i - 1 \in 0 .. n
    BY <1>1
  <2>2. f[i - 1] \in Nat
    BY <2>1, <1>3
  <2>3. <<i, f[i - 1]>> \in Nat \X Nat
    BY <2>1, <2>2
  <2>4. step[<<i, f[i - 1]>>] = f[i - 1] + s[i]
    BY <2>3 DEF step
  <2> QED
    BY <1>3, <2>4 DEF Follows
<1>5. IsSum(f)
  <2> DEFINE h == [i \in 0 .. n |-> IF i = 0 THEN 0 ELSE f[i - 1] + s[i]]
  <2>1. ASSUME NEW i \in 0 .. n
        PROVE  f[i] = h[i]
    <3>1. CASE i = 0
      BY <3>1, <1>3 DEF Follows
    <3>2. CASE i # 0
      <4>1. i \in 1 .. n
        BY <3>2, <1>1
      <4> QED
        BY <4>1, <3>2, <1>4
    <3> QED
      BY <3>1, <3>2
  <2> QED
    BY <2>1, <1>3
<1>6. IsSum(sum)
  BY <1>5
<1> HIDE DEF sum
<1>7. sum[0] = 0 /\ \A i \in 1 .. n : sum[i] = sum[i - 1] + s[i]
  BY <1>1, <1>6
<1>8. \A i \in 0 .. n : f[i] = sum[i]
  <2>1. \A i \in 1 .. n : f[i - 1] = sum[i - 1] => f[i] = sum[i]
    BY <1>4, <1>7
  <2>2. f[0] = sum[0]
    BY <1>3, <1>7 DEF Follows
  <2>3. Alike(f, sum, n)
    BY <2>1, <2>2 DEF Alike
  <2> QED
    BY <1>1, <2>3, StepsAlike
<1>9. Total(s) = sum[n]
  BY DEF Total, sum, n
<1>10. Total(s) = f[n]
  BY <1>1, <1>8, <1>9
<1>11. SumsTo(f, s)
  BY <1>3, <1>4 DEF SumsTo, Follows, n
<1> QED
  BY <1>3, <1>10, <1>11 DEF n

\* A function that gives the sums gives the total.
LEMMA SumsAreTotal ==
  ASSUME NEW s \in Seq(Nat), NEW g, SumsTo(g, s)
  PROVE  Total(s) = g[Len(s)] /\ Total(s) \in Nat
<1>1. PICK f \in [0 .. Len(s) -> Nat] : SumsTo(f, s) /\ Total(s) = f[Len(s)]
  BY TotalBySums
<1>2. Len(s) \in Nat /\ Len(s) \in 0 .. Len(s)
  OBVIOUS
<1>3. \A i \in 1 .. Len(s) : f[i - 1] = g[i - 1] => f[i] = g[i]
  BY <1>1 DEF SumsTo
<1>4. f[Len(s)] = g[Len(s)]
  <2>1. f[0] = g[0]
    BY <1>1 DEF SumsTo
  <2>2. \A i \in 0 .. Len(s) : f[i] = g[i]
    BY <1>2, <1>3, <2>1, StepsAlike DEF Alike
  <2> QED
    BY <1>2, <2>2
<1> QED
  BY <1>1, <1>2, <1>4

LEMMA TotalType ==
  ASSUME NEW s \in Seq(Nat)
  PROVE  Total(s) \in Nat
<1>1. PICK f \in [0 .. Len(s) -> Nat] : SumsTo(f, s) /\ Total(s) = f[Len(s)]
  BY TotalBySums
<1>2. Len(s) \in 0 .. Len(s)
  OBVIOUS
<1> QED
  BY <1>1, <1>2

LEMMA TotalOfNone == Total(<< >>) = 0
<1>1. << >> \in Seq(Nat) /\ Len(<< >>) = 0
  OBVIOUS
<1>2. PICK f \in [0 .. 0 -> Nat] : SumsTo(f, << >>) /\ Total(<< >>) = f[0]
  BY <1>1, TotalBySums
<1> QED
  BY <1>2 DEF SumsTo

LEMMA TotalOfMore ==
  ASSUME NEW s \in Seq(Nat), NEW n \in Nat
  PROVE  Total(Append(s, n)) = Total(s) + n /\ Total(s) \in Nat
<1> DEFINE t == Append(s, n)
<1>1. t \in Seq(Nat) /\ Len(t) = Len(s) + 1 /\ t[Len(s) + 1] = n
      /\ \A i \in 1 .. Len(s) : t[i] = s[i]
  OBVIOUS
<1>2. Len(s) \in Nat
  OBVIOUS
<1> HIDE DEF t
<1>3. PICK f \in [0 .. Len(t) -> Nat] : SumsTo(f, t) /\ Total(t) = f[Len(t)]
  BY <1>1, TotalBySums
<1>4. SumsTo(f, s)
  <2>1. \A i \in 1 .. Len(s) : i \in 1 .. Len(t)
    BY <1>1, <1>2
  <2> QED
    BY <1>1, <1>3, <2>1 DEF SumsTo
<1>5. Total(s) = f[Len(s)] /\ Total(s) \in Nat
  BY <1>4, SumsAreTotal
<1>6. f[Len(s) + 1] = f[Len(s) + 1 - 1] + t[Len(s) + 1]
  <2>1. Len(s) + 1 \in 1 .. Len(t)
    BY <1>1, <1>2
  <2> QED
    BY <1>3, <2>1 DEF SumsTo
<1>7. Len(s) + 1 - 1 = Len(s)
  BY <1>2
<1>8. Total(t) = f[Len(s)] + n
  BY <1>1, <1>3, <1>6, <1>7
<1> QED
  BY <1>5, <1>8 DEF t

LEMMA TotalOfBoth ==
  ASSUME NEW s \in Seq(Nat), NEW t \in Seq(Nat)
  PROVE  Total(s \o t) = Total(s) + Total(t) /\ Total(s) \in Nat /\ Total(t) \in Nat
<1>0. Total(s) \in Nat /\ Total(t) \in Nat
  BY TotalType
<1> DEFINE Holds(u) == Total(s \o u) = Total(s) + Total(u)
           S == {n \in Nat : \A u \in Seq(Nat) : Len(u) = n => Holds(u)}
<1>1. 0 \in S
  <2> SUFFICES ASSUME NEW u \in Seq(Nat), Len(u) = 0
               PROVE  Holds(u)
    OBVIOUS
  <2>1. u = << >>
    BY EmptySeq
  <2>2. s \o << >> = s
    BY ConcatEmptySeq
  <2> QED
    BY <2>1, <2>2, <1>0, TotalOfNone
<1>2. ASSUME NEW n \in Nat, n \in S
      PROVE  n + 1 \in S
  <2> SUFFICES ASSUME NEW u \in Seq(Nat), Len(u) = n + 1
               PROVE  Holds(u)
    OBVIOUS
  <2>1. u # << >>
    BY EmptySeq
  <2>2. PICK v \in Seq(Nat), e \in Nat : u = Append(v, e)
    BY <2>1, SequenceEmptyOrAppend
  <2>3. Len(v) = n
    BY <2>2, AppendProperties
  <2>4. Holds(v)
    BY <1>2, <2>3
  <2>5. s \o u = Append(s \o v, e)
    BY <2>2
  <2>6. s \o v \in Seq(Nat)
    BY ConcatProperties
  <2>7. Total(s \o u) = Total(s \o v) + e
    BY <2>5, <2>6, TotalOfMore
  <2>8. Total(u) = Total(v) + e /\ Total(v) \in Nat
    BY <2>2, TotalOfMore
  <2> QED
    BY <1>0, <2>4, <2>7, <2>8
<1> HIDE DEF S
<1>3. Len(t) \in S
  <2>1. Len(t) \in Nat
    OBVIOUS
  <2> QED
    BY <1>1, <1>2, <2>1, NatInSet
<1> QED
  BY <1>0, <1>3 DEF S

\* The first of the pieces: each adds its length, and they are part of the whole.
LEMMA TotalOfFirst ==
  ASSUME NEW s \in Seq(Nat), NEW i \in 0 .. Len(s)
  PROVE  /\ Total(SubSeq(s, 1, i)) \in Nat
         /\ Total(SubSeq(s, 1, i)) <= Total(s) /\ Total(s) \in Nat
         /\ i > 0 => /\ s[i] \in Nat
                     /\ Total(SubSeq(s, 1, i)) = Total(SubSeq(s, 1, i - 1)) + s[i]
<1>0. Len(s) \in Nat /\ i \in Nat
  OBVIOUS
<1>1. SubSeq(s, 1, i) \in Seq(Nat) /\ SubSeq(s, i + 1, Len(s)) \in Seq(Nat)
  <2>1. \A j \in 1 .. Len(s) : s[j] \in Nat
    OBVIOUS
  <2>2. (\A j \in 1 .. i : s[j] \in Nat) /\ (\A j \in i + 1 .. Len(s) : s[j] \in Nat)
    BY <1>0, <2>1
  <2> QED
    BY <1>0, <2>2, SubSeqProperties
<1>2. SubSeq(s, 1, i) \o SubSeq(s, i + 1, Len(s)) = s
  <2>1. 1 \in 1 .. Len(s) + 1 /\ i \in 1 - 1 .. Len(s) /\ Len(s) \in i .. Len(s)
    BY <1>0
  <2>2. SubSeq(s, 1, i) \o SubSeq(s, i + 1, Len(s)) = SubSeq(s, 1, Len(s))
    BY <2>1, ConcatAdjacentSubSeq
  <2> QED
    BY <2>2, SubSeqFull
<1>3. Total(SubSeq(s, 1, i)) <= Total(s) /\ Total(SubSeq(s, 1, i)) \in Nat /\ Total(s) \in Nat
  <2>1. /\ Total(s) = Total(SubSeq(s, 1, i)) + Total(SubSeq(s, i + 1, Len(s)))
        /\ Total(SubSeq(s, 1, i)) \in Nat /\ Total(SubSeq(s, i + 1, Len(s))) \in Nat
    BY <1>1, <1>2, TotalOfBoth
  <2> QED
    BY <2>1
<1>4. ASSUME i > 0
      PROVE  s[i] \in Nat /\ Total(SubSeq(s, 1, i)) = Total(SubSeq(s, 1, i - 1)) + s[i]
  <2>1. i \in 1 .. Len(s) /\ 1 \in 1 .. Len(s) /\ s[i] \in Nat
    BY <1>0, <1>4
  <2>2. SubSeq(s, 1, i) = SubSeq(s, 1, i - 1) \o << s[i] >>
    <3>1. i \in 1 .. Len(s)
      BY <2>1
    <3> QED
      BY <2>1, <3>1, SubSeqRecursiveSecond
  <2>3. SubSeq(s, 1, i - 1) \in Seq(Nat)
    <3>1. \A j \in 1 .. i - 1 : s[j] \in Nat
      BY <1>0, <1>4
    <3>2. i - 1 \in Int
      BY <1>0
    <3> QED
      BY <3>1, <3>2, SubSeqProperties
  <2>4. SubSeq(s, 1, i) = Append(SubSeq(s, 1, i - 1), s[i])
    BY <2>1, <2>2, <2>3, AppendIsConcat
  <2> QED
    BY <2>1, <2>3, <2>4, TotalOfMore
<1> QED
  BY <1>3, <1>4

-----------------------------------------------------------------------------
(* What a writer writes. *)

Piece == Nat \ {0}

LEMMA PadParts ==
  ASSUME NEW n \in Nat
  PROVE  PadOf(n) \in Nat
BY RecompressionAssumption DEF PadOf

\* How many chunks there are of n bytes: one more for a whole chunk more.
LEMMA ChunkCount ==
  ASSUME NEW n \in Nat
  PROVE  /\ (n + CopyChunk - 1) \div CopyChunk \in Nat
         /\ n = 0 => (n + CopyChunk - 1) \div CopyChunk = 0
         /\ n > 0 /\ n <= CopyChunk => (n + CopyChunk - 1) \div CopyChunk = 1
         /\ n > CopyChunk =>
              (n + CopyChunk - 1) \div CopyChunk = (n - CopyChunk + CopyChunk - 1) \div CopyChunk + 1
<1>1. CopyChunk \in Nat /\ CopyChunk > 0
  BY RecompressionAssumption
<1>2. (n + CopyChunk - 1) \div CopyChunk \in Nat
  BY <1>1
<1>3. n = 0 => (n + CopyChunk - 1) \div CopyChunk = 0
  BY <1>1
<1>4. n > 0 /\ n <= CopyChunk => (n + CopyChunk - 1) \div CopyChunk = 1
  BY <1>1
<1>5. n > CopyChunk =>
        (n + CopyChunk - 1) \div CopyChunk = (n - CopyChunk + CopyChunk - 1) \div CopyChunk + 1
  BY <1>1
<1> QED
  BY <1>2, <1>3, <1>4, <1>5

\* Each chunk is some of the bytes.
LEMMA ChunksType ==
  ASSUME NEW n \in Nat
  PROVE  /\ Chunks(n) \in Seq(Piece)
         /\ Len(Chunks(n)) = (n + CopyChunk - 1) \div CopyChunk
<1> DEFINE q == (n + CopyChunk - 1) \div CopyChunk
<1>1. CopyChunk \in Nat /\ CopyChunk > 0 /\ q \in Nat
  BY ChunkCount, RecompressionAssumption
<1>2. CopyChunk * q <= n + CopyChunk - 1
  BY <1>1
<1> HIDE DEF q
<1>3. ASSUME NEW i \in 1 .. q
      PROVE  Smaller(CopyChunk, n - (i - 1) * CopyChunk) \in Piece
  <2>1. i \in Nat /\ i - 1 \in Nat /\ i - 1 <= q - 1
    BY <1>1
  <2>2. (i - 1) * CopyChunk <= (q - 1) * CopyChunk /\ (i - 1) * CopyChunk \in Nat
    BY <1>1, <2>1
  <2>3. (q - 1) * CopyChunk = CopyChunk * q - CopyChunk
    BY <1>1
  <2>4. n - (i - 1) * CopyChunk \in Nat /\ n - (i - 1) * CopyChunk > 0
    BY <1>1, <1>2, <2>2, <2>3
  <2> QED
    BY <1>1, <2>4 DEF Smaller, Piece
<1>4. Chunks(n) = [i \in 1 .. q |-> Smaller(CopyChunk, n - (i - 1) * CopyChunk)]
  BY DEF Chunks, q
<1>5. Chunks(n) \in [1 .. q -> Piece]
  BY <1>3, <1>4
<1>6. Chunks(n) \in Seq(Piece) /\ Len(Chunks(n)) = q
  BY <1>1, <1>5
<1> QED
  BY <1>6 DEF q

LEMMA ChunksOfNone == Chunks(0) = << >>
<1>1. Chunks(0) \in Seq(Piece) /\ Len(Chunks(0)) = 0
  BY ChunksType, ChunkCount
<1> QED
  BY <1>1, EmptySeq

\* The first chunk, and those of what is left.
LEMMA ChunksOfMore ==
  ASSUME NEW n \in Nat, n > 0
  PROVE  LET w == Smaller(CopyChunk, n) IN
         /\ w \in Piece /\ n - w \in Nat /\ n - w < n
         /\ Chunks(n) = << w >> \o Chunks(n - w)
<1> DEFINE w == Smaller(CopyChunk, n)
           q == (n + CopyChunk - 1) \div CopyChunk
           r == (n - w + CopyChunk - 1) \div CopyChunk
           s == << w >> \o Chunks(n - w)
<1>1. CopyChunk \in Nat /\ CopyChunk > 0
  BY RecompressionAssumption
<1>2. w \in Piece /\ n - w \in Nat /\ n - w < n
  BY <1>1 DEF Smaller, Piece
<1>3. q = r + 1 /\ r \in Nat
  <2>1. CASE n <= CopyChunk
    <3>1. w = n /\ n - w = 0
      BY <1>1, <2>1 DEF Smaller
    <3>2. q = 1 /\ r = 0
      BY <3>1, <2>1, ChunkCount
    <3> QED
      BY <3>2
  <2>2. CASE n > CopyChunk
    <3>1. w = CopyChunk
      BY <1>1, <2>2 DEF Smaller
    <3>2. n - CopyChunk \in Nat
      BY <1>1, <2>2
    <3>3. q = r + 1
      BY <3>1, <2>2, ChunkCount
    <3>4. r \in Nat
      BY <3>1, <3>2, ChunkCount
    <3> QED
      BY <3>3, <3>4
  <2> QED
    BY <1>1, <2>1, <2>2
<1>4. Chunks(n) \in Seq(Piece) /\ Len(Chunks(n)) = q
  BY ChunksType
<1>5. Chunks(n - w) \in Seq(Piece) /\ Len(Chunks(n - w)) = r
  BY <1>2, ChunksType
<1>6. << w >> \in Seq(Piece) /\ Len(<< w >>) = 1
  BY <1>2
<1>7. s \in Seq(Piece) /\ Len(s) = q
  BY <1>3, <1>5, <1>6, ConcatProperties
<1>8. ASSUME NEW i \in 1 .. q
      PROVE  Chunks(n)[i] = s[i]
  <2>1. Chunks(n)[i] = Smaller(CopyChunk, n - (i - 1) * CopyChunk)
    BY DEF Chunks
  <2>2. CASE i = 1
    <3>1. s[i] = w
      BY <1>3, <1>5, <1>6, <2>2
    <3>2. n - (i - 1) * CopyChunk = n
      BY <1>1, <2>2
    <3> QED
      BY <2>1, <3>1, <3>2
  <2>3. CASE i # 1
    <3>1. i - 1 \in 1 .. r /\ i \in Nat /\ ~(i <= 1)
      BY <1>3, <2>3
    <3>2. s[i] = Chunks(n - w)[i - 1]
      <4>1. i \in 1 .. Len(<< w >>) + Len(Chunks(n - w))
        BY <1>3, <1>5, <1>6
      <4>2. s[i] = IF i <= Len(<< w >>) THEN << w >>[i] ELSE Chunks(n - w)[i - Len(<< w >>)]
        BY <1>5, <1>6, <4>1, ConcatProperties
      <4> QED
        BY <1>6, <3>1, <4>2
    <3>3. Chunks(n - w)[i - 1] = Smaller(CopyChunk, n - w - (i - 1 - 1) * CopyChunk)
      BY <3>1 DEF Chunks
    <3>4. w = CopyChunk
      <4>1. n > CopyChunk
        <5> SUFFICES ASSUME n <= CopyChunk
                     PROVE  FALSE
          BY <1>1
        <5>1. q = 1
          BY ChunkCount
        <5> QED
          BY <5>1, <1>3, <3>1
      <4> QED
        BY <1>1, <4>1 DEF Smaller
    <3>5. n - w - (i - 1 - 1) * CopyChunk = n - (i - 1) * CopyChunk
      BY <1>1, <3>1, <3>4
    <3> QED
      BY <2>1, <3>2, <3>3, <3>5
  <2> QED
    BY <2>2, <2>3
<1> HIDE DEF s, q, r
<1>9. Chunks(n) = s
  BY <1>4, <1>7, <1>8, SeqEqual
<1> QED
  BY <1>2, <1>9 DEF s

\* The chunks are the bytes.
LEMMA ChunksTotal ==
  ASSUME NEW n \in Nat
  PROVE  Chunks(n) \in Seq(Nat) /\ Total(Chunks(n)) = n
<1>1. \A m \in Nat : Chunks(m) \in Seq(Nat)
  <2> TAKE m \in Nat
  <2>1. Chunks(m) \in Seq(Piece) /\ Piece \subseteq Nat
    BY ChunksType DEF Piece
  <2> QED
    BY <2>1, SeqMonotonic
<1> DEFINE S == {m \in Nat : \A k \in 0 .. m : Total(Chunks(k)) = k}
<1>2. 0 \in S
  BY ChunksOfNone, TotalOfNone
<1>3. ASSUME NEW m \in Nat, m \in S
      PROVE  m + 1 \in S
  <2> SUFFICES ASSUME NEW k \in 0 .. m + 1
               PROVE  Total(Chunks(k)) = k
    OBVIOUS
  <2>1. CASE k \in 0 .. m
    BY <2>1, <1>3
  <2>2. CASE k = m + 1
    <3> DEFINE w == Smaller(CopyChunk, k)
    <3>1. k \in Nat /\ k > 0
      BY <2>2
    <3>2. w \in Piece /\ k - w \in Nat /\ k - w < k /\ Chunks(k) = << w >> \o Chunks(k - w)
      BY <3>1, ChunksOfMore
    <3> HIDE DEF w
    <3>3. Total(Chunks(k - w)) = k - w
      BY <1>3, <2>2, <3>2
    <3>4. << w >> \in Seq(Nat) /\ << w >> = Append(<< >>, w) /\ << >> \in Seq(Nat) /\ w \in Nat
      BY <3>2 DEF Piece
    <3>5. Total(<< w >>) = w
      <4>1. Total(Append(<< >>, w)) = Total(<< >>) + w
        BY <3>4, TotalOfMore
      <4> QED
        BY <3>4, <4>1, TotalOfNone
    <3>6. Total(Chunks(k)) = Total(<< w >>) + Total(Chunks(k - w))
      BY <1>1, <3>2, <3>4, TotalOfBoth
    <3> QED
      BY <3>1, <3>2, <3>3, <3>4, <3>5, <3>6
  <2> QED
    BY <2>1, <2>2
<1> HIDE DEF S
<1>4. n \in S
  BY <1>2, <1>3, NatInSet
<1> QED
  BY <1>1, <1>4 DEF S

-----------------------------------------------------------------------------
(* FlattenSeq *)

\* The first sequences joined, up to all of them.
JoinsTo(f, ss) == f[0] = << >> /\ \A i \in 1 .. Len(ss) : f[i] = f[i - 1] \o ss[i]

LEMMA FlattenByJoins ==
  ASSUME NEW ss \in Seq(Seq(Piece))
  PROVE  \E f \in [0 .. Len(ss) -> Seq(Piece)] : JoinsTo(f, ss) /\ FlattenSeq(ss) = f[Len(ss)]
<1> DEFINE n == Len(ss)
           step == [p \in Nat \X Seq(Piece) |->
                      IF p[1] \in 1 .. n THEN p[2] \o ss[p[1]] ELSE << >>]
           IsFlat(g) == g = [i \in 1 .. n |-> IF i = 1 THEN ss[i] ELSE g[i - 1] \o ss[i]]
           flat == CHOOSE g : IsFlat(g)
<1>1. n \in Nat /\ \A i \in 1 .. n : ss[i] \in Seq(Piece)
  OBVIOUS
<1>2. step \in [Nat \X Seq(Piece) -> Seq(Piece)]
  <2>1. ASSUME NEW p \in Nat \X Seq(Piece)
        PROVE  (IF p[1] \in 1 .. n THEN p[2] \o ss[p[1]] ELSE << >>) \in Seq(Piece)
    <3>1. CASE p[1] \in 1 .. n
      <4>1. p[2] \in Seq(Piece) /\ ss[p[1]] \in Seq(Piece)
        BY <1>1, <3>1
      <4> QED
        BY <3>1, <4>1, ConcatProperties
    <3>2. CASE p[1] \notin 1 .. n
      BY <3>2
    <3> QED
      BY <3>1, <3>2
  <2> QED
    BY <2>1
<1> HIDE DEF step, n
<1>3. PICK f \in [0 .. n -> Seq(Piece)] : Follows(f, << >>, step, n)
  <2>1. << >> \in Seq(Piece)
    OBVIOUS
  <2> QED
    BY <1>1, <1>2, <2>1, StepsExist
<1>4. ASSUME NEW i \in 1 .. n
      PROVE  f[i] = f[i - 1] \o ss[i]
  <2>1. i \in Nat /\ i - 1 \in 0 .. n
    BY <1>1
  <2>2. f[i - 1] \in Seq(Piece)
    BY <2>1, <1>3
  <2>3. <<i, f[i - 1]>> \in Nat \X Seq(Piece)
    BY <2>1, <2>2
  <2>4. step[<<i, f[i - 1]>>] = f[i - 1] \o ss[i]
    BY <2>3 DEF step
  <2> QED
    BY <1>3, <2>4 DEF Follows
<1>5. f[0] = << >> /\ (n # 0 => f[1] = ss[1])
  <2>1. f[0] = << >>
    BY <1>3 DEF Follows
  <2>2. ASSUME n # 0
        PROVE  f[1] = ss[1]
    <3>1. 1 \in 1 .. n /\ 1 - 1 = 0
      BY <1>1, <2>2
    <3>2. f[1] = << >> \o ss[1]
      BY <1>4, <2>1, <3>1
    <3> QED
      BY <1>1, <3>1, <3>2, ConcatEmptySeq
  <2> QED
    BY <2>1, <2>2
<1>6. CASE n = 0
  <2>1. ss = << >> /\ FlattenSeq(ss) = ss
    BY <1>6, EmptySeq DEF FlattenSeq, n
  <2> QED
    BY <1>3, <1>4, <1>5, <1>6, <2>1 DEF JoinsTo, n
<1>7. CASE n # 0
  <2> DEFINE h == [i \in 1 .. n |-> f[i]]
  <2>1. IsFlat(h)
    <3> DEFINE k == [i \in 1 .. n |-> IF i = 1 THEN ss[i] ELSE h[i - 1] \o ss[i]]
    <3>1. ASSUME NEW i \in 1 .. n
          PROVE  h[i] = k[i]
      <4>1. CASE i = 1
        BY <4>1, <1>5, <1>7
      <4>2. CASE i # 1
        <5>1. i - 1 \in 1 .. n
          BY <4>2, <1>1
        <5>2. h[i - 1] = f[i - 1] /\ h[i] = f[i]
          BY <5>1
        <5> QED
          BY <4>2, <5>2, <1>4
      <4> QED
        BY <4>1, <4>2
    <3> QED
      BY <3>1
  <2> HIDE DEF h
  <2>2. IsFlat(flat)
    BY <2>1
  <2> HIDE DEF flat
  <2>3. ASSUME NEW i \in 1 .. n
        PROVE  flat[i] = IF i = 1 THEN ss[i] ELSE flat[i - 1] \o ss[i]
    BY <2>2
  <2> DEFINE g == [i \in 0 .. n |-> IF i = 0 THEN << >> ELSE flat[i]]
  <2>4. ASSUME NEW i \in 1 .. n, f[i - 1] = g[i - 1]
        PROVE  f[i] = g[i]
    <3>1. g[i] = flat[i]
      BY <1>1
    <3>2. CASE i = 1
      BY <1>5, <1>7, <2>3, <3>1, <3>2
    <3>3. CASE i # 1
      <4>1. g[i - 1] = flat[i - 1]
        BY <1>1, <3>3
      <4>2. flat[i] = flat[i - 1] \o ss[i]
        BY <2>3, <3>3
      <4>3. f[i] = f[i - 1] \o ss[i]
        BY <1>4
      <4>4. f[i - 1] = flat[i - 1]
        BY <2>4, <4>1
      <4> QED
        BY <3>1, <4>2, <4>3, <4>4
    <3> QED
      BY <3>2, <3>3
  <2>5. f[0] = g[0]
    BY <1>1, <1>5
  <2>6. g[n] = flat[n]
    BY <1>1, <1>7
  <2> HIDE DEF g
  <2>7. Alike(f, g, n)
    BY <2>4, <2>5 DEF Alike
  <2>8. f[n] = g[n]
    BY <1>1, <2>7, StepsAlike
  <2>9. FlattenSeq(ss) = flat[n]
    BY <1>7 DEF FlattenSeq, flat, n
  <2>10. FlattenSeq(ss) = f[n]
    BY <2>6, <2>8, <2>9
  <2>11. JoinsTo(f, ss)
    BY <1>4, <1>5 DEF JoinsTo, n
  <2> QED
    BY <1>3, <2>10, <2>11 DEF n
<1> QED
  BY <1>6, <1>7

\* A function that joins them gives the whole.
LEMMA JoinsAreFlatten ==
  ASSUME NEW ss \in Seq(Seq(Piece)), NEW g, JoinsTo(g, ss)
  PROVE  FlattenSeq(ss) = g[Len(ss)] /\ FlattenSeq(ss) \in Seq(Piece)
<1>1. PICK f \in [0 .. Len(ss) -> Seq(Piece)] : JoinsTo(f, ss) /\ FlattenSeq(ss) = f[Len(ss)]
  BY FlattenByJoins
<1>2. Len(ss) \in Nat /\ Len(ss) \in 0 .. Len(ss)
  OBVIOUS
<1>3. Alike(f, g, Len(ss))
  BY <1>1 DEF JoinsTo, Alike
<1>4. f[Len(ss)] = g[Len(ss)]
  BY <1>2, <1>3, StepsAlike
<1> QED
  BY <1>1, <1>2, <1>4

LEMMA FlattenOfNone == FlattenSeq(<< >>) = << >>
BY DEF FlattenSeq

LEMMA FlattenOfMore ==
  ASSUME NEW ss \in Seq(Seq(Piece)), NEW t \in Seq(Piece)
  PROVE  /\ FlattenSeq(ss) \in Seq(Piece)
         /\ FlattenSeq(Append(ss, t)) = FlattenSeq(ss) \o t
<1> DEFINE tt == Append(ss, t)
<1>1. tt \in Seq(Seq(Piece)) /\ Len(tt) = Len(ss) + 1 /\ tt[Len(ss) + 1] = t
      /\ \A i \in 1 .. Len(ss) : tt[i] = ss[i]
  BY AppendProperties
<1>2. Len(ss) \in Nat
  OBVIOUS
<1> HIDE DEF tt
<1>3. PICK f \in [0 .. Len(tt) -> Seq(Piece)] : JoinsTo(f, tt) /\ FlattenSeq(tt) = f[Len(tt)]
  BY <1>1, FlattenByJoins
<1>4. JoinsTo(f, ss)
  <2>1. \A i \in 1 .. Len(ss) : i \in 1 .. Len(tt)
    BY <1>1, <1>2
  <2>2. f[0] = << >> /\ \A i \in 1 .. Len(tt) : f[i] = f[i - 1] \o tt[i]
    BY <1>3 DEF JoinsTo
  <2>3. ASSUME NEW i \in 1 .. Len(ss)
        PROVE  f[i] = f[i - 1] \o ss[i]
    <3>1. f[i] = f[i - 1] \o tt[i]
      BY <2>1, <2>2
    <3>2. tt[i] = ss[i]
      BY <1>1
    <3> QED
      BY <3>1, <3>2
  <2> QED
    BY <2>2, <2>3 DEF JoinsTo
<1>5. FlattenSeq(ss) = f[Len(ss)] /\ FlattenSeq(ss) \in Seq(Piece)
  BY <1>4, JoinsAreFlatten
<1>6. PICK k : k = Len(ss) + 1
  OBVIOUS
<1>7. k \in 1 .. Len(tt) /\ k - 1 = Len(ss) /\ k = Len(tt) /\ tt[k] = t
  BY <1>1, <1>2, <1>6
<1>8. FlattenSeq(tt) = f[Len(ss)] \o t
  <2>1. \A i \in 1 .. Len(tt) : f[i] = f[i - 1] \o tt[i]
    BY <1>3 DEF JoinsTo
  <2>2. f[k] = f[k - 1] \o tt[k]
    BY <1>7, <2>1
  <2> QED
    BY <1>3, <1>7, <2>2
<1> QED
  BY <1>5, <1>8 DEF tt

-----------------------------------------------------------------------------
(* An entry's pieces. *)

\* The header and the payload; with the NUL of a long name.
Begun(e) == <<Block>> \o Chunks(e.size)
Named(e) == Begun(e) \o OneUnless(~e.long, 1)

LEMMA PieceSequences ==
  ASSUME NEW s \in Seq(Piece)
  PROVE  s \in Seq(Nat)
<1>1. Piece \subseteq Nat
  BY DEF Piece
<1> QED
  BY <1>1, SeqMonotonic

LEMMA OneUnlessType ==
  ASSUME NEW none \in BOOLEAN, NEW n \in Nat, none \/ n # 0
  PROVE  /\ OneUnless(none, n) \in Seq(Piece)
         /\ Total(OneUnless(none, n)) = IF none THEN 0 ELSE n
<1>1. CASE none
  <2>1. OneUnless(none, n) = << >>
    BY <1>1 DEF OneUnless
  <2>2. << >> \in Seq(Piece)
    OBVIOUS
  <2> QED
    BY <1>1, <2>1, <2>2, TotalOfNone
<1>2. CASE ~none
  <2>1. n \in Piece
    BY <1>2 DEF Piece
  <2>2. OneUnless(none, n) = << n >> /\ << n >> \in Seq(Piece)
    BY <1>2, <2>1 DEF OneUnless
  <2>3. << n >> = Append(<< >>, n) /\ << >> \in Seq(Nat)
    OBVIOUS
  <2>4. Total(Append(<< >>, n)) = Total(<< >>) + n
    BY <2>3, TotalOfMore
  <2>5. Total(<< n >>) = n
    BY <2>3, <2>4, TotalOfNone
  <2> QED
    BY <1>2, <2>2, <2>5
<1> QED
  BY <1>1, <1>2

LEMMA TotalOfPieces ==
  ASSUME NEW s \in Seq(Piece), NEW t \in Seq(Piece)
  PROVE  s \o t \in Seq(Piece) /\ Total(s \o t) = Total(s) + Total(t)
<1>1. s \in Seq(Nat) /\ t \in Seq(Nat)
  BY PieceSequences
<1> QED
  BY <1>1, TotalOfBoth, ConcatProperties

\* The pieces of an entry are its bytes: a header, what it holds and the padding.
LEMMA EntryPiecesType ==
  ASSUME NEW e \in Entry
  PROVE  /\ Begun(e) \in Seq(Piece) /\ Total(Begun(e)) = Block + e.size
         /\ Named(e) \in Seq(Piece) /\ Total(Named(e)) = Block + Payload(e)
         /\ EntryPieces(e) \in Seq(Piece) /\ Total(EntryPieces(e)) = Span(e)
         /\ Payload(e) \in Nat /\ Span(e) \in Nat /\ Span(e) >= Block + Payload(e)
<1>1. e.size \in Nat /\ e.long \in BOOLEAN /\ Block \in Piece /\ Block \in Nat
  BY RecompressionAssumption DEF Entry, Piece
<1>2. Payload(e) \in Nat /\ Payload(e) = e.size + (IF e.long THEN 1 ELSE 0)
  BY <1>1 DEF Payload
<1>3. PadOf(Payload(e)) \in Nat
  BY <1>2, PadParts
<1>4. Span(e) = Block + Payload(e) + PadOf(Payload(e))
  BY DEF Span
<1>5. << Block >> \in Seq(Piece) /\ Total(<< Block >>) = Block
  <2>1. OneUnless(FALSE, Block) \in Seq(Piece) /\ Total(OneUnless(FALSE, Block)) = Block
    <3>1. Block # 0 /\ FALSE \in BOOLEAN
      BY <1>1 DEF Piece
    <3>2. Total(OneUnless(FALSE, Block)) = IF FALSE THEN 0 ELSE Block
      BY <1>1, <3>1, OneUnlessType
    <3> QED
      BY <1>1, <3>1, <3>2, OneUnlessType
  <2> QED
    BY <2>1 DEF OneUnless
<1>6. Chunks(e.size) \in Seq(Piece) /\ Total(Chunks(e.size)) = e.size
  BY <1>1, ChunksType, ChunksTotal
<1>7. Begun(e) \in Seq(Piece) /\ Total(Begun(e)) = Block + e.size
  BY <1>5, <1>6, TotalOfPieces DEF Begun
<1>8. /\ OneUnless(~e.long, 1) \in Seq(Piece)
      /\ Total(OneUnless(~e.long, 1)) = IF e.long THEN 1 ELSE 0
  <2>1. (~e.long) \in BOOLEAN /\ 1 \in Nat /\ 1 # 0
    BY <1>1
  <2>2. Total(OneUnless(~e.long, 1)) = IF ~e.long THEN 0 ELSE 1
    BY <2>1, OneUnlessType
  <2> QED
    BY <2>1, <2>2, OneUnlessType
<1>9. Named(e) \in Seq(Piece) /\ Total(Named(e)) = Block + Payload(e)
  <2>1. Named(e) \in Seq(Piece) /\ Total(Named(e)) = Block + e.size + (IF e.long THEN 1 ELSE 0)
    BY <1>7, <1>8, TotalOfPieces DEF Named
  <2> QED
    BY <1>1, <1>2, <2>1
<1> DEFINE pad == PadOf(Payload(e))
<1>10. /\ OneUnless(pad = 0, pad) \in Seq(Piece)
       /\ Total(OneUnless(pad = 0, pad)) = pad
  <2>1. (pad = 0) \in BOOLEAN /\ (pad = 0 \/ pad # 0) /\ pad \in Nat
    BY <1>3
  <2> HIDE DEF pad
  <2>2. Total(OneUnless(pad = 0, pad)) = IF pad = 0 THEN 0 ELSE pad
    BY <2>1, OneUnlessType
  <2> QED
    BY <2>1, <2>2, OneUnlessType
<1>11. EntryPieces(e) = Named(e) \o OneUnless(pad = 0, pad)
  BY DEF EntryPieces, Named, Begun
<1> HIDE DEF pad
<1>12. EntryPieces(e) \in Seq(Piece) /\ Total(EntryPieces(e)) = Block + Payload(e) + pad
  BY <1>9, <1>10, <1>11, TotalOfPieces
<1>13. Total(EntryPieces(e)) = Span(e)
  BY <1>4, <1>12 DEF pad
<1>14. Span(e) \in Nat /\ Span(e) >= Block + Payload(e)
  BY <1>1, <1>2, <1>3, <1>4
<1> QED
  BY <1>2, <1>7, <1>9, <1>12, <1>13, <1>14

-----------------------------------------------------------------------------
(* An archive's pieces. *)

\* Those of the first k entries.
Flat(es, k) == FlattenSeq([i \in 1 .. k |-> EntryPieces(es[i])])

LEMMA FlatOfNone ==
  ASSUME NEW es
  PROVE  Flat(es, 0) = << >>
<1>1. [i \in 1 .. 0 |-> EntryPieces(es[i])] = << >>
  <2>1. [i \in 1 .. 0 |-> EntryPieces(es[i])] \in [1 .. 0 -> Seq(Piece)]
    OBVIOUS
  <2>2. [i \in 1 .. 0 |-> EntryPieces(es[i])] \in Seq(Seq(Piece))
        /\ Len([i \in 1 .. 0 |-> EntryPieces(es[i])]) = 0
    BY <2>1
  <2> QED
    BY <2>2, EmptySeq
<1> QED
  BY <1>1, FlattenOfNone DEF Flat

LEMMA FlatOfMore ==
  ASSUME NEW es \in Seq(Entry), NEW k \in 1 .. Len(es)
  PROVE  /\ Flat(es, k - 1) \in Seq(Piece)
         /\ Flat(es, k) = Flat(es, k - 1) \o EntryPieces(es[k])
<1> DEFINE ss == [i \in 1 .. k - 1 |-> EntryPieces(es[i])]
           tt == [i \in 1 .. k |-> EntryPieces(es[i])]
<1>1. k \in Nat /\ k - 1 \in Nat /\ k - 1 + 1 = k
  OBVIOUS
<1>2. \A i \in 1 .. k : EntryPieces(es[i]) \in Seq(Piece)
  <2> TAKE i \in 1 .. k
  <2>1. es[i] \in Entry
    OBVIOUS
  <2> QED
    BY <2>1, EntryPiecesType
<1>3. ss \in Seq(Seq(Piece)) /\ Len(ss) = k - 1
  BY <1>1, <1>2
<1>4. tt \in Seq(Seq(Piece)) /\ Len(tt) = k
  BY <1>1, <1>2
<1>5. EntryPieces(es[k]) \in Seq(Piece)
  BY <1>1, <1>2
<1>6. tt = Append(ss, EntryPieces(es[k]))
  <2> DEFINE uu == Append(ss, EntryPieces(es[k]))
  <2> HIDE DEF ss
  <2>1. /\ uu \in Seq(Seq(Piece)) /\ Len(uu) = k
        /\ \A i \in 1 .. Len(ss) : uu[i] = ss[i]
        /\ uu[Len(ss) + 1] = EntryPieces(es[k])
    BY <1>1, <1>3, <1>5, AppendProperties
  <2>2. ASSUME NEW i \in 1 .. k
        PROVE  tt[i] = uu[i]
    <3>1. CASE i = k
      BY <3>1, <1>1, <1>3, <2>1
    <3>2. CASE i # k
      <4>1. i \in 1 .. k - 1
        BY <3>2, <1>1
      <4>2. ss[i] = EntryPieces(es[i])
        BY <4>1 DEF ss
      <4> QED
        BY <4>1, <4>2, <1>3, <2>1
    <3> QED
      BY <3>1, <3>2
  <2> HIDE DEF uu, tt
  <2>3. tt = uu
    BY <1>4, <2>1, <2>2, SeqEqual
  <2> QED
    BY <2>3 DEF uu
<1> HIDE DEF ss, tt
<1>7. FlattenSeq(ss) \in Seq(Piece) /\ FlattenSeq(tt) = FlattenSeq(ss) \o EntryPieces(es[k])
  BY <1>3, <1>5, <1>6, FlattenOfMore
<1> QED
  BY <1>7 DEF Flat, ss, tt

LEMMA StartOfFirst ==
  ASSUME NEW es
  PROVE  Start(es, 1) = 0
<1> DEFINE s == [j \in 1 .. 0 |-> Span(es[j])]
<1>1. s = << >>
  <2>1. s \in [1 .. 0 -> Nat]
    OBVIOUS
  <2>2. s \in Seq(Nat) /\ Len(s) = 0
    BY <2>1
  <2> HIDE DEF s
  <2> QED
    BY <2>2, EmptySeq
<1>2. Start(es, 1) = Total(s)
  <2>1. 1 .. 1 - 1 = 1 .. 0
    OBVIOUS
  <2> QED
    BY <2>1 DEF Start
<1> QED
  BY <1>1, <1>2, TotalOfNone

\* Where an entry starts, and where the next one does.
LEMMA StartOfNext ==
  ASSUME NEW es \in Seq(Entry), NEW k \in 1 .. Len(es)
  PROVE  Start(es, k) \in Nat /\ Start(es, k + 1) = Start(es, k) + Span(es[k])
<1> DEFINE ss == [i \in 1 .. k - 1 |-> Span(es[i])]
           tt == [i \in 1 .. k + 1 - 1 |-> Span(es[i])]
<1>1. k \in Nat /\ k - 1 \in Nat /\ k - 1 + 1 = k /\ k + 1 - 1 = k
  OBVIOUS
<1>2. \A i \in 1 .. k : Span(es[i]) \in Nat
  <2> TAKE i \in 1 .. k
  <2>1. es[i] \in Entry
    OBVIOUS
  <2> QED
    BY <2>1, EntryPiecesType
<1>3. ss \in Seq(Nat) /\ Len(ss) = k - 1
  BY <1>1, <1>2
<1>4. tt \in Seq(Nat) /\ Len(tt) = k
  BY <1>1, <1>2
<1>5. Span(es[k]) \in Nat
  BY <1>1, <1>2
<1>6. tt = Append(ss, Span(es[k]))
  <2> DEFINE uu == Append(ss, Span(es[k]))
  <2> HIDE DEF ss
  <2>1. /\ uu \in Seq(Nat) /\ Len(uu) = k
        /\ \A i \in 1 .. Len(ss) : uu[i] = ss[i]
        /\ uu[Len(ss) + 1] = Span(es[k])
    BY <1>1, <1>3, <1>5, AppendProperties
  <2>2. ASSUME NEW i \in 1 .. k
        PROVE  tt[i] = uu[i]
    <3>1. CASE i = k
      BY <3>1, <1>1, <1>3, <2>1
    <3>2. CASE i # k
      <4>1. i \in 1 .. k - 1
        BY <3>2, <1>1
      <4>2. ss[i] = Span(es[i])
        BY <4>1 DEF ss
      <4> QED
        BY <4>1, <4>2, <1>1, <1>3, <2>1
    <3> QED
      BY <3>1, <3>2
  <2> HIDE DEF uu, tt
  <2>3. tt = uu
    BY <1>4, <2>1, <2>2, SeqEqual
  <2> QED
    BY <2>3 DEF uu
<1> HIDE DEF ss, tt
<1>7. Total(ss) \in Nat /\ Total(tt) = Total(ss) + Span(es[k])
  BY <1>3, <1>5, <1>6, TotalOfMore
<1> QED
  BY <1>7 DEF Start, ss, tt

\* Up to any entry, the pieces are the bytes before the next.
LEMMA FlatTotal ==
  ASSUME NEW es \in Seq(Entry), NEW k \in 0 .. Len(es)
  PROVE  /\ Flat(es, k) \in Seq(Piece) /\ Start(es, k + 1) \in Nat
         /\ Total(Flat(es, k)) = Start(es, k + 1)
<1> DEFINE Holds(m) == /\ Flat(es, m) \in Seq(Piece) /\ Start(es, m + 1) \in Nat
                       /\ Total(Flat(es, m)) = Start(es, m + 1)
           S == {m \in Nat : m <= Len(es) => Holds(m)}
<1>0. Len(es) \in Nat
  OBVIOUS
<1>1. 0 \in S
  <2>1. 0 + 1 = 1 /\ << >> \in Seq(Piece)
    OBVIOUS
  <2>2. Flat(es, 0) = << >> /\ Start(es, 1) = 0
    BY FlatOfNone, StartOfFirst
  <2>3. Start(es, 0 + 1) = 0
    BY <2>1, <2>2
  <2>4. Holds(0)
    <3>1. Flat(es, 0) \in Seq(Piece)
      BY <2>1, <2>2
    <3>2. Total(Flat(es, 0)) = Start(es, 0 + 1) /\ Start(es, 0 + 1) \in Nat
      BY <2>2, <2>3, TotalOfNone
    <3> QED
      BY <3>1, <3>2
  <2> QED
    BY <2>4
<1>2. ASSUME NEW m \in Nat, m \in S
      PROVE  m + 1 \in S
  <2> SUFFICES ASSUME m + 1 <= Len(es)
               PROVE  Holds(m + 1)
    OBVIOUS
  <2>1. m <= Len(es)
    BY <1>0
  <2>2. Holds(m)
    BY <1>2, <2>1
  <2>3. PICK n : n = m + 1
    OBVIOUS
  <2>4. n \in 1 .. Len(es) /\ n - 1 = m
    BY <1>0, <2>3
  <2>5. es[n] \in Entry
    BY <2>4
  <2>6. /\ EntryPieces(es[n]) \in Seq(Piece) /\ Total(EntryPieces(es[n])) = Span(es[n])
        /\ Span(es[n]) \in Nat
    BY <2>5, EntryPiecesType
  <2>7. Flat(es, n) = Flat(es, n - 1) \o EntryPieces(es[n])
    BY <2>4, FlatOfMore
  <2>8. Flat(es, n) \in Seq(Piece) /\ Total(Flat(es, n)) = Total(Flat(es, m)) + Span(es[n])
    BY <2>2, <2>4, <2>6, <2>7, TotalOfPieces
  <2>9. Start(es, n + 1) = Start(es, n) + Span(es[n])
    BY <2>4, StartOfNext
  <2>10. Start(es, n) \in Nat /\ Total(Flat(es, m)) = Start(es, n)
    BY <2>2, <2>3
  <2>11. Holds(n)
    BY <2>6, <2>8, <2>9, <2>10
  <2> QED
    BY <2>3, <2>11
<1> HIDE DEF S
<1>3. k \in S
  BY <1>0, <1>1, <1>2, NatInSet
<1> QED
  BY <1>0, <1>3 DEF S

\* An entry starts after those before it, by a header at least.
LEMMA StartOrder ==
  ASSUME NEW es \in Seq(Entry), NEW i \in 1 .. Len(es), NEW k \in i + 1 .. Len(es) + 1
  PROVE  /\ Start(es, i) \in Nat /\ Start(es, k) \in Nat
         /\ Start(es, k) >= Start(es, i) + Span(es[i])
         /\ Start(es, k) > Start(es, i)
<1> DEFINE S == {m \in Nat : i + m <= Len(es) =>
                   Start(es, i + m + 1) >= Start(es, i) + Span(es[i])}
<1>0. Len(es) \in Nat /\ i \in Nat /\ k \in Nat
  OBVIOUS
<1>1. ASSUME NEW n \in 1 .. Len(es)
      PROVE  /\ Start(es, n) \in Nat /\ Start(es, n + 1) = Start(es, n) + Span(es[n])
             /\ Span(es[n]) \in Nat /\ Span(es[n]) > 0
  <2>1. es[n] \in Entry
    OBVIOUS
  <2>2. Block \in Nat /\ Block > 0
    BY RecompressionAssumption
  <2>3. Span(es[n]) \in Nat /\ Payload(es[n]) \in Nat /\ Span(es[n]) >= Block + Payload(es[n])
    BY <2>1, EntryPiecesType
  <2>4. Start(es, n) \in Nat /\ Start(es, n + 1) = Start(es, n) + Span(es[n])
    BY StartOfNext
  <2> QED
    BY <2>2, <2>3, <2>4
<1>2. Start(es, i) \in Nat /\ Start(es, i + 1) = Start(es, i) + Span(es[i])
      /\ Span(es[i]) \in Nat /\ Span(es[i]) > 0
  BY <1>1
<1>3. 0 \in S
  <2>1. i + 0 + 1 = i + 1
    BY <1>0
  <2>2. Start(es, i + 0 + 1) >= Start(es, i) + Span(es[i])
    BY <1>2, <2>1
  <2> QED
    BY <2>2
<1>4. ASSUME NEW m \in Nat, m \in S
      PROVE  m + 1 \in S
  <2> SUFFICES ASSUME i + (m + 1) <= Len(es)
               PROVE  Start(es, i + (m + 1) + 1) >= Start(es, i) + Span(es[i])
    OBVIOUS
  <2>1. PICK n : n = i + m + 1
    OBVIOUS
  <2>2. n \in 1 .. Len(es) /\ i + (m + 1) + 1 = n + 1 /\ i + m <= Len(es)
    BY <1>0, <2>1
  <2>3. Start(es, n) >= Start(es, i) + Span(es[i])
    BY <1>4, <2>1, <2>2
  <2>4. Start(es, n) \in Nat /\ Start(es, n + 1) = Start(es, n) + Span(es[n])
        /\ Span(es[n]) \in Nat
    BY <1>1, <2>2
  <2>5. Start(es, n + 1) >= Start(es, i) + Span(es[i])
    BY <1>2, <2>3, <2>4
  <2> QED
    BY <2>2, <2>5
<1> HIDE DEF S
<1>5. PICK d : d = k - i - 1
  OBVIOUS
<1>6. d \in Nat /\ i + d <= Len(es) /\ i + d + 1 = k
  BY <1>0, <1>5
<1>7. d \in S
  BY <1>3, <1>4, <1>6, NatInSet
<1>8. Start(es, k) >= Start(es, i) + Span(es[i])
  BY <1>6, <1>7 DEF S
<1>9. Start(es, k) \in Nat
  <2>1. PICK n : n = k - 1
    OBVIOUS
  <2>2. n \in 0 .. Len(es) /\ n + 1 = k
    BY <1>0, <2>1
  <2>3. Start(es, n + 1) \in Nat
    BY <2>2, FlatTotal
  <2> QED
    BY <2>2, <2>3
<1> QED
  BY <1>2, <1>8, <1>9

-----------------------------------------------------------------------------
(* What comes before the whole. *)

\* The pieces s are not all of t: others follow.
Leads(s, t) == \E r \in Seq(Piece) : r # << >> /\ t = s \o r

LEMMA LeadsFurther ==
  ASSUME NEW s \in Seq(Piece), NEW u \in Seq(Piece), NEW t, Leads(s \o u, t)
  PROVE  Leads(s, t)
<1>1. PICK r \in Seq(Piece) : r # << >> /\ t = (s \o u) \o r
  BY DEF Leads
<1>2. t = s \o (u \o r)
  BY <1>1, ConcatAssociative
<1>3. u \o r \in Seq(Piece) /\ u \o r # << >>
  <2>1. u \o r \in Seq(Piece) /\ Len(u \o r) = Len(u) + Len(r)
    BY ConcatProperties
  <2>2. Len(r) \in Nat \ {0} /\ Len(u) \in Nat
    BY <1>1, EmptySeq
  <2>3. Len(<< >>) = 0
    OBVIOUS
  <2> QED
    BY <2>1, <2>2, <2>3
<1> QED
  BY <1>2, <1>3 DEF Leads

LEMMA LeadsWithin ==
  ASSUME NEW s \in Seq(Piece), NEW u \in Seq(Piece), NEW v \in Seq(Piece), NEW t,
         Leads(s \o (u \o v), t)
  PROVE  Leads(s \o u, t)
<1>1. (s \o u) \o v = s \o (u \o v)
  BY ConcatAssociative
<1>2. s \o u \in Seq(Piece)
  BY ConcatProperties
<1>3. Leads((s \o u) \o v, t)
  BY <1>1
<1> QED
  BY <1>2, <1>3, LeadsFurther

LEMMA LeadsIsStrict ==
  ASSUME NEW s \in Seq(Piece), NEW t, Leads(s, t)
  PROVE  IsStrictPrefix(s, t)
<1>1. PICK r \in Seq(Piece) : r # << >> /\ t = s \o r
  BY DEF Leads
<1>2. Len(r) \in Nat \ {0} /\ Len(s) \in Nat
  BY <1>1, EmptySeq
<1>3. t \in Seq(Piece) /\ Len(t) = Len(s) + Len(r)
  BY <1>1, ConcatProperties
<1>4. ASSUME NEW i \in 1 .. Len(s)
      PROVE  t[i] = s[i]
  <2>1. i \in 1 .. Len(s) + Len(r) /\ i <= Len(s)
    BY <1>2
  <2>2. (s \o r)[i] = IF i <= Len(s) THEN s[i] ELSE r[i - Len(s)]
    BY <2>1, ConcatProperties
  <2> QED
    BY <1>1, <2>1, <2>2
<1>5. SubSeq(s, 1, Len(s)) = s
  BY SubSeqFull
<1>6. SubSeq(t, 1, Len(s)) = s
  <2> DEFINE u == SubSeq(t, 1, Len(s))
  <2>1. \A i \in 1 .. Len(s) : t[i] \in Piece
    BY <1>4
  <2>2. 1 \in Int /\ Len(s) \in Int
    BY <1>2
  <2>3. /\ u \in Seq(Piece)
        /\ Len(u) = IF 1 <= Len(s) THEN Len(s) - 1 + 1 ELSE 0
        /\ \A i \in 1 .. Len(s) - 1 + 1 : u[i] = t[1 + i - 1]
    BY <2>1, <2>2, SubSeqProperties
  <2> HIDE DEF u
  <2>4. Len(u) = Len(s)
    BY <1>2, <2>3
  <2>5. ASSUME NEW i \in 1 .. Len(s)
        PROVE  u[i] = s[i]
    <3>1. i \in 1 .. Len(s) - 1 + 1 /\ 1 + i - 1 = i
      BY <1>2
    <3>2. u[i] = t[1 + i - 1]
      BY <2>3, <3>1
    <3> QED
      BY <1>4, <3>1, <3>2
  <2>6. u = s
    BY <2>3, <2>4, <2>5, SeqEqual
  <2> QED
    BY <2>6 DEF u
<1>7. s # t
  BY <1>2, <1>3
<1> QED
  BY <1>2, <1>3, <1>5, <1>6, <1>7 DEF IsStrictPrefix, IsPrefix

LEMMA WriterIsFlat ==
  ASSUME NEW es \in Seq(Entry)
  PROVE  /\ WriterPieces(es) = Flat(es, Len(es)) \o << Trailer >>
         /\ << Trailer >> \in Seq(Piece) /\ Trailer \in Piece
<1>1. DOMAIN es = 1 .. Len(es)
  OBVIOUS
<1>2. Trailer \in Piece
  BY RecompressionAssumption DEF Piece
<1> QED
  BY <1>1, <1>2 DEF WriterPieces, Flat

\* What the writer makes is the entries and the trailer.
LEMMA WriterTotal ==
  ASSUME NEW es \in Seq(Entry)
  PROVE  /\ WriterPieces(es) \in Seq(Piece)
         /\ Total(WriterPieces(es)) = End(es) + Trailer
         /\ End(es) \in Nat
<1>1. Len(es) \in 0 .. Len(es)
  OBVIOUS
<1>2. /\ Flat(es, Len(es)) \in Seq(Piece) /\ Start(es, Len(es) + 1) \in Nat
      /\ Total(Flat(es, Len(es))) = Start(es, Len(es) + 1)
  BY <1>1, FlatTotal
<1>3. WriterPieces(es) = Flat(es, Len(es)) \o << Trailer >> /\ << Trailer >> \in Seq(Piece)
  BY WriterIsFlat
<1>4. Total(<< Trailer >>) = Trailer
  <2>1. Trailer \in Nat /\ << Trailer >> = Append(<< >>, Trailer) /\ << >> \in Seq(Nat)
    BY RecompressionAssumption
  <2>2. Total(Append(<< >>, Trailer)) = Total(<< >>) + Trailer
    BY <2>1, TotalOfMore
  <2> QED
    BY <2>1, <2>2, TotalOfNone
<1>5. WriterPieces(es) \in Seq(Piece)
      /\ Total(WriterPieces(es)) = Total(Flat(es, Len(es))) + Total(<< Trailer >>)
  BY <1>2, <1>3, TotalOfPieces
<1> QED
  BY <1>2, <1>4, <1>5 DEF End

\* The pieces of the first entries, any number of them, are never the whole.
LEMMA FlatLeads ==
  ASSUME NEW es \in Seq(Entry), NEW k \in 0 .. Len(es)
  PROVE  Leads(Flat(es, k), WriterPieces(es))
<1> DEFINE all == WriterPieces(es)
           S == {m \in Nat : m <= Len(es) => Leads(Flat(es, Len(es) - m), all)}
<1>0. Len(es) \in Nat /\ k \in Nat
  OBVIOUS
<1>1. 0 \in S
  <2>1. all = Flat(es, Len(es)) \o << Trailer >> /\ << Trailer >> \in Seq(Piece)
    BY WriterIsFlat
  <2>2. << Trailer >> # << >>
    OBVIOUS
  <2> HIDE DEF all
  <2>3. Leads(Flat(es, Len(es)), all)
    BY <2>1, <2>2 DEF Leads
  <2>4. Len(es) - 0 = Len(es)
    BY <1>0
  <2> QED
    BY <2>3, <2>4
<1> HIDE DEF all
<1>2. ASSUME NEW m \in Nat, m \in S
      PROVE  m + 1 \in S
  <2> SUFFICES ASSUME m + 1 <= Len(es)
               PROVE  Leads(Flat(es, Len(es) - (m + 1)), all)
    OBVIOUS
  <2>1. PICK n : n = Len(es) - m
    OBVIOUS
  <2>2. n \in 1 .. Len(es) /\ Len(es) - (m + 1) = n - 1 /\ m <= Len(es)
    BY <1>0, <2>1
  <2>3. Leads(Flat(es, n), all)
    BY <1>2, <2>1, <2>2
  <2>4. Flat(es, n - 1) \in Seq(Piece) /\ Flat(es, n) = Flat(es, n - 1) \o EntryPieces(es[n])
    BY <2>2, FlatOfMore
  <2>5. es[n] \in Entry
    BY <2>2
  <2>6. EntryPieces(es[n]) \in Seq(Piece)
    BY <2>5, EntryPiecesType
  <2>7. Leads(Flat(es, n - 1) \o EntryPieces(es[n]), all)
    BY <2>3, <2>4
  <2>8. Leads(Flat(es, n - 1), all)
    BY <2>4, <2>6, <2>7, LeadsFurther
  <2> QED
    BY <2>2, <2>8
<1> HIDE DEF S
<1>3. PICK d : d = Len(es) - k
  OBVIOUS
<1>4. d \in Nat /\ d <= Len(es) /\ Len(es) - d = k
  BY <1>0, <1>3
<1>5. d \in S
  BY <1>1, <1>2, <1>4, NatInSet
<1> QED
  BY <1>4, <1>5 DEF S, all

-----------------------------------------------------------------------------
(* The invariant. *)

Phases == {"obtain", "stat", "header", "payload", "padding", "done", "refused", "broken"}
Replaying == {"header", "payload", "padding", "done"}

GivenOK ==
  /\ given.via \in {"gz", "app", "patch"}
  /\ given.entries \in Seq(Entry) /\ given.says \in Seq(Said)
  /\ Len(given.says) = Len(given.entries)
  /\ given.length \in Nat /\ given.limit \in Nat
  /\ given.via = "app" => Intact(given)

Typed ==
  /\ phase \in Phases
  /\ tar \in Nat \cup {None} /\ pos \in Nat /\ consumed \in Nat
  /\ entry \in [declared : Nat, long : BOOLEAN, left : Nat]
  /\ entry.left <= entry.declared
  /\ pieces \in Seq(Piece)

\* Where the replay stands against what its sizes say.
Placed ==
  /\ phase = "header" => pos = consumed
  /\ phase = "payload" => pos + entry.left = consumed + entry.declared
  /\ phase = "padding" => entry.left = 0 /\ pos = consumed + Written(entry)

\* The tar ends between two of the writer's writes.
PartOf(s, n) == \E i \in 0 .. Len(s) : n = Total(SubSeq(s, 1, i))

TarOK ==
  /\ phase = "obtain" =>
       /\ tar \in Nat
       /\ given.via # "patch" => tar <= given.limit
       /\ given.via = "patch" => tar = given.length
       /\ given.via = "gz" => tar <= given.length
       /\ given.via = "app" => PartOf(WriterPieces(given.entries), tar)
  /\ phase \in Replaying \cup {"stat"} => tar = given.length
  /\ phase \in {"refused", "broken"} => tar \in {given.length, None}

\* The headers say what the entries hold, and every long name is padded.
Honest(g) == g.says = Declared(g.entries)
Regular(g) == Honest(g) /\ NamesArePadded(g.entries)

\* The archive as the replay reads it: a long name with its NUL is taken for the
\* name, and the first byte of the padding for the NUL.
AsRead(entries) ==
  [i \in DOMAIN entries |-> [size |-> Payload(entries[i]), long |-> entries[i].long]]

\* Between two entries; in the k-th one; behind what the k-th one holds.
AtHeader(es, k) == pieces = Flat(es, k) /\ pos = Start(es, k + 1)
Copying(e) == entry.declared = e.size /\ entry.long = e.long
AtPayload(es, k) ==
  /\ Copying(es[k])
  /\ pieces \o Chunks(entry.left) = Flat(es, k - 1) \o Begun(es[k])
  /\ pos + entry.left = Start(es, k) + Block + es[k].size
AtPadding(es, k) ==
  /\ Copying(es[k])
  /\ pieces = Flat(es, k - 1) \o Named(es[k])
  /\ pos = Start(es, k) + Block + Payload(es[k])

ReplayOK ==
  LET es == AsRead(given.entries) IN
  Regular(given) =>
    /\ phase = "header" => \E k \in 0 .. Len(es) : AtHeader(es, k)
    /\ phase = "payload" => \E k \in 1 .. Len(es) : AtPayload(es, k)
    /\ phase = "padding" => \E k \in 1 .. Len(es) : AtPadding(es, k)
    /\ phase = "done" => pieces = WriterPieces(es) /\ pos = End(es) + Block

\* Nothing is refused that the writer made, but for its size.
NeverRefused ==
  phase = "refused" /\ Intact(given) /\ NamesArePadded(given.entries)
  => given.length > given.limit \/ given.length > MaxTarBytes

\* Nothing has been read before the replay begins.
Unread == phase \in {"obtain", "stat"} => pos = 0 /\ consumed = 0 /\ pieces = << >>

Core == GivenOK /\ Typed /\ Placed /\ TarOK /\ Unread

RInv == Core /\ ReplayOK /\ NeverRefused

LEMMA WrittenType ==
  ASSUME NEW e \in [declared : Nat, long : BOOLEAN, left : Nat]
  PROVE  Written(e) \in Nat /\ Padding(e) \in Nat
<1>1. Written(e) \in Nat
  BY DEF Written
<1> QED
  BY <1>1, PadParts DEF Padding

\* What is read as a header has a size field and a kind.
LEMMA SeesType ==
  ASSUME GivenOK, NEW seen \in Sees, seen # Zeros
  PROVE  seen \in [says : Said, long : BOOLEAN]
<1> DEFINE at == {i \in DOMAIN given.entries : Start(given.entries, i) = pos}
<1>1. CASE pos >= End(given.entries)
  BY <1>1 DEF Sees
<1>2. CASE ~(pos >= End(given.entries)) /\ at # {}
  <2>1. seen \in {[says |-> given.says[i], long |-> given.entries[i].long] : i \in at}
    BY <1>2 DEF Sees
  <2>2. PICK i \in DOMAIN given.entries :
          seen = [says |-> given.says[i], long |-> given.entries[i].long]
    BY <2>1
  <2>3. given.says[i] \in Said /\ given.entries[i] \in Entry
    <3>1. i \in 1 .. Len(given.entries) /\ i \in 1 .. Len(given.says)
      BY DEF GivenOK
    <3> QED
      BY <3>1 DEF GivenOK
  <2> QED
    BY <2>2, <2>3 DEF Entry
<1>3. CASE ~(pos >= End(given.entries)) /\ at = {}
  <2>1. seen \in [says : Claims \cup {NotOctal}, long : BOOLEAN]
    BY <1>3 DEF Sees
  <2>2. Claims \cup {NotOctal} \subseteq Said
    BY RecompressionAssumption DEF Said
  <2> QED
    BY <2>1, <2>2
<1> QED
  BY <1>1, <1>2, <1>3

\* As far as the writer got, one write further.
LEMMA RebuildStep ==
  ASSUME GivenOK, given.via = "app", PartOf(WriterPieces(given.entries), tar)
  PROVE  LET all == WriterPieces(given.entries)
             next == CHOOSE i \in 1 .. Len(all) + 1 : Total(SubSeq(all, 1, i - 1)) = tar
         IN /\ next \in 1 .. Len(all) + 1
            /\ next > Len(all) => tar = given.length
            /\ ~(next > Len(all)) =>
                 /\ all[next] \in Nat
                 /\ PartOf(all, tar + all[next])
                 /\ tar + all[next] \in Nat /\ tar + all[next] <= given.length
<1> DEFINE all == WriterPieces(given.entries)
           next == CHOOSE i \in 1 .. Len(all) + 1 : Total(SubSeq(all, 1, i - 1)) = tar
<1>1. given.entries \in Seq(Entry) /\ given.length = End(given.entries) + Trailer
  BY DEF GivenOK, Intact
<1>2. all \in Seq(Nat) /\ Total(all) = given.length
  <2>1. all \in Seq(Piece) /\ Total(all) = given.length
    BY <1>1, WriterTotal
  <2> QED
    BY <2>1, PieceSequences
<1>3. PartOf(all, tar)
  OBVIOUS
<1> HIDE DEF all
<1>4. Len(all) \in Nat
  BY <1>2
<1>5. PICK j \in 0 .. Len(all) : tar = Total(SubSeq(all, 1, j))
  BY <1>3 DEF PartOf
<1>6. \E i \in 1 .. Len(all) + 1 : Total(SubSeq(all, 1, i - 1)) = tar
  <2>1. PICK i : i = j + 1
    OBVIOUS
  <2>2. i \in 1 .. Len(all) + 1 /\ i - 1 = j
    BY <1>4, <2>1
  <2> QED
    BY <1>5, <2>2
<1>7. next \in 1 .. Len(all) + 1 /\ Total(SubSeq(all, 1, next - 1)) = tar
  BY <1>6
<1> HIDE DEF next
<1>8. ASSUME next > Len(all)
      PROVE  tar = given.length
  <2>1. next - 1 = Len(all)
    BY <1>4, <1>7, <1>8
  <2>2. SubSeq(all, 1, Len(all)) = all
    BY <1>2, SubSeqFull
  <2> QED
    BY <1>2, <1>7, <2>1, <2>2
<1>9. ASSUME ~(next > Len(all))
      PROVE  /\ all[next] \in Nat /\ PartOf(all, tar + all[next])
             /\ tar + all[next] \in Nat /\ tar + all[next] <= given.length
  <2>1. next \in 0 .. Len(all) /\ next > 0
    BY <1>4, <1>7, <1>9
  <2>2. /\ all[next] \in Nat /\ Total(SubSeq(all, 1, next)) \in Nat
        /\ Total(SubSeq(all, 1, next)) <= Total(all)
        /\ Total(SubSeq(all, 1, next)) = Total(SubSeq(all, 1, next - 1)) + all[next]
    BY <1>2, <2>1, TotalOfFirst
  <2>3. tar + all[next] = Total(SubSeq(all, 1, next))
    BY <1>7, <2>2
  <2>4. PartOf(all, tar + all[next])
    BY <2>1, <2>3 DEF PartOf
  <2> QED
    BY <1>2, <2>2, <2>3, <2>4
<1> QED
  BY <1>7, <1>8, <1>9 DEF all, next

-----------------------------------------------------------------------------
(* The tar is obtained, and read in its place. *)

LEMMA CoreInit == RecompressionInit => Core
<1> SUFFICES ASSUME RecompressionInit
             PROVE  Core
  OBVIOUS
<1>1. PICK c \in Cases, l \in Limits :
        given = [via |-> c.via, entries |-> c.entries, says |-> c.says, length |-> c.length,
                 limit |-> l]
  BY DEF RecompressionInit
<1>2. /\ c \in [via : {"gz", "app", "patch"}, entries : Seq(Entry), says : Seq(Said), length : Nat]
      /\ Len(c.says) = Len(c.entries)
      /\ c.via = "app" => Intact(c)
  BY CasesAssumption
<1>3. l \in Nat
  BY RecompressionAssumption
<1>4. Intact(c) => Intact(given)
  BY <1>1 DEF Intact
<1>5. GivenOK
  BY <1>1, <1>2, <1>3, <1>4 DEF GivenOK
<1>6. /\ phase = "obtain" /\ tar = (IF given.via = "patch" THEN given.length ELSE 0)
      /\ pos = 0 /\ consumed = 0 /\ entry = NoEntry /\ pieces = << >>
  BY DEF RecompressionInit
<1>7. Typed
  BY <1>5, <1>6 DEF Typed, Phases, NoEntry, GivenOK
<1>8. Placed /\ Unread
  BY <1>6 DEF Placed, Unread
<1>9. TarOK
  <2>1. given.via = "app" => PartOf(WriterPieces(given.entries), tar)
    <3> DEFINE all == WriterPieces(given.entries)
    <3> SUFFICES ASSUME given.via = "app"
                 PROVE  PartOf(all, 0)
      BY <1>6
    <3>1. all \in Seq(Piece)
      BY <1>5, WriterTotal DEF GivenOK
    <3> HIDE DEF all
    <3>2. 0 \in 0 .. Len(all)
      BY <3>1
    <3>3. SubSeq(all, 1, 0) = << >>
      BY SubSeqEmpty
    <3> QED
      BY <3>2, <3>3, TotalOfNone DEF PartOf
  <2>2. given.length \in Nat /\ given.limit \in Nat
    BY <1>5 DEF GivenOK
  <2> QED
    BY <1>6, <2>1, <2>2 DEF TarOK, Replaying
<1> QED
  BY <1>5, <1>7, <1>8, <1>9 DEF Core

\* A step that goes on to write n more bytes, or gives up.
LEMMA GrowthStep ==
  ASSUME Core, phase = "obtain", given.via # "patch",
         NEW n \in Nat, tar + n <= given.length,
         given.via = "app" => PartOf(WriterPieces(given.entries), tar + n),
         IF Ample(n) THEN Grows(n) ELSE Removed("refused")
  PROVE  Core'
<1>1. tar \in Nat /\ given.limit \in Nat
  BY DEF Core, TarOK, GivenOK
<1>2. CASE Ample(n)
  <2>1. Grows(n) /\ tar + n <= given.limit /\ tar + n \in Nat
    BY <1>1, <1>2 DEF Ample
  <2>2. GivenOK' /\ Placed' /\ Unread'
    BY <2>1 DEF Core, Grows, GivenOK, Intact, Placed, Unread
  <2>3. Typed'
    BY <2>1 DEF Core, Grows, Typed
  <2>4. TarOK'
    BY <2>1 DEF TarOK, Grows, Replaying
  <2> QED
    BY <2>2, <2>3, <2>4 DEF Core
<1>3. CASE ~Ample(n)
  <2>1. Removed("refused")
    BY <1>3
  <2>2. GivenOK' /\ Placed' /\ Unread'
    BY <2>1 DEF Core, Removed, GivenOK, Intact, Placed, Unread
  <2>3. Typed'
    BY <2>1 DEF Core, Removed, Typed, Phases
  <2>4. TarOK'
    BY <2>1 DEF TarOK, Removed, Replaying
  <2> QED
    BY <2>2, <2>3, <2>4 DEF Core
<1> QED
  BY <1>2, <1>3

LEMMA ObtainedStep ==
  ASSUME Core, phase = "obtain", tar = given.length, Obtained
  PROVE  Core'
<1>1. GivenOK' /\ Placed' /\ Unread'
  BY DEF Core, Obtained, GivenOK, Intact, Placed, Unread
<1>2. Typed'
  BY DEF Core, Obtained, Typed, Phases
<1>3. TarOK'
  BY DEF TarOK, Obtained, Replaying
<1> QED
  BY <1>1, <1>2, <1>3 DEF Core

\* The replay, or the work on the tar, gives up.
LEMMA FailsStep ==
  ASSUME Core, phase \in {"stat", "header", "payload", "padding"},
         NEW outcome \in {"refused", "broken"}, Fails(outcome)
  PROVE  Core'
<1>1. GivenOK' /\ Placed' /\ Unread'
  BY DEF Core, Fails, GivenOK, Intact, Placed, Unread
<1>2. Typed'
  BY DEF Core, Fails, Typed, Phases
<1>3. TarOK'
  BY DEF Core, TarOK, Fails, Replaying
<1> QED
  BY <1>1, <1>2, <1>3 DEF Core

\* A step of the replay leaves the tar alone and goes on.
LEMMA GoesOn ==
  ASSUME Core, phase \in {"stat", "header", "payload", "padding"}, UNCHANGED <<given, tar>>,
         phase' \in Replaying,
         pos' \in Nat, consumed' \in Nat, pieces' \in Seq(Piece),
         entry' \in [declared : Nat, long : BOOLEAN, left : Nat], entry'.left <= entry'.declared,
         Placed'
  PROVE  Core'
<1>1. GivenOK' /\ Unread'
  BY DEF Core, GivenOK, Intact, Unread, Replaying
<1>2. Typed'
  BY DEF Core, Typed, Phases, Replaying
<1>3. TarOK'
  BY DEF Core, TarOK, Replaying
<1> QED
  BY <1>1, <1>2, <1>3 DEF Core

LEMMA CoreStep == Core /\ [RecompressionNext]_vars => Core'
<1> SUFFICES ASSUME Core, [RecompressionNext]_vars
             PROVE  Core'
  OBVIOUS
<1>0. GivenOK /\ Typed /\ Placed /\ TarOK
  BY DEF Core
<1>1. CASE Expand
  <2>1. phase = "obtain" /\ given.via = "gz" /\ tar \in Nat /\ tar <= given.length
        /\ given.length \in Nat
    BY <1>0, <1>1 DEF Expand, TarOK, GivenOK
  <2>2. CASE tar = given.length
    <3>1. Obtained
      BY <1>1, <2>2 DEF Expand
    <3> QED
      BY <2>1, <2>2, <3>1, ObtainedStep
  <2>3. CASE tar # given.length
    <3>1. PICK n \in 1 .. Smaller(CopyChunk, given.length - tar) :
            IF Ample(n) THEN Grows(n) ELSE Removed("refused")
      BY <1>1, <2>3 DEF Expand
    <3>2. n \in Nat /\ tar + n <= given.length
      <4>1. given.length - tar \in Nat /\ CopyChunk \in Nat
        BY <2>1, RecompressionAssumption
      <4>2. n \in Nat /\ n <= given.length - tar
        BY <4>1 DEF Smaller
      <4> QED
        BY <2>1, <4>2
    <3>3. given.via # "patch" /\ given.via # "app"
      BY <2>1
    <3> QED
      BY <2>1, <3>1, <3>2, <3>3, GrowthStep
  <2> QED
    BY <2>2, <2>3
<1>2. CASE Rebuild
  <2> DEFINE all == WriterPieces(given.entries)
             next == CHOOSE i \in 1 .. Len(all) + 1 : Total(SubSeq(all, 1, i - 1)) = tar
  <2>1. phase = "obtain" /\ given.via = "app" /\ PartOf(all, tar)
    BY <1>0, <1>2 DEF Rebuild, TarOK
  <2>2. /\ next > Len(all) => tar = given.length
        /\ ~(next > Len(all)) =>
             /\ all[next] \in Nat /\ PartOf(all, tar + all[next])
             /\ tar + all[next] <= given.length
    BY <1>0, <2>1, RebuildStep
  <2>3. IF next > Len(all) THEN Obtained
        ELSE IF Ample(all[next]) THEN Grows(all[next]) ELSE Removed("refused")
    BY <1>2 DEF Rebuild
  <2>4. CASE next > Len(all)
    BY <2>1, <2>2, <2>3, <2>4, ObtainedStep
  <2>5. CASE ~(next > Len(all))
    <3> DEFINE n == all[next]
    <3>1. n \in Nat /\ tar + n <= given.length /\ PartOf(all, tar + n)
      BY <2>2, <2>5
    <3>2. IF Ample(n) THEN Grows(n) ELSE Removed("refused")
      BY <2>3, <2>5
    <3>3. given.via # "patch"
      BY <2>1
    <3> HIDE DEF n, next
    <3> QED
      BY <2>1, <3>1, <3>2, <3>3, GrowthStep
  <2> QED
    BY <2>4, <2>5
<1>3. CASE Patched
  BY <1>3, ObtainedStep DEF Patched
<1>4. CASE ObtainFails
  <2>1. phase = "obtain" /\ Removed("broken")
    BY <1>4 DEF ObtainFails
  <2>2. GivenOK' /\ Placed' /\ Unread'
    BY <2>1 DEF Core, Removed, GivenOK, Intact, Placed, Unread
  <2>3. Typed'
    BY <2>1 DEF Core, Removed, Typed, Phases
  <2>4. TarOK'
    BY <2>1 DEF TarOK, Removed, Replaying
  <2> QED
    BY <2>2, <2>3, <2>4 DEF Core
<1>5. CASE Stat
  <2>1. phase = "stat"
    BY <1>5 DEF Stat
  <2>2. CASE tar > MaxTarBytes
    <3>1. Fails("refused")
      BY <1>5, <2>2 DEF Stat
    <3> QED
      BY <2>1, <3>1, FailsStep
  <2>3. CASE ~(tar > MaxTarBytes)
    <3>1. phase' = "header" /\ UNCHANGED <<given, tar, pos, consumed, entry, pieces>>
      BY <1>5, <2>3 DEF Stat
    <3>2. Placed'
      BY <2>1, <3>1 DEF Core, Unread, Placed
    <3>3. phase' \in Replaying
      BY <3>1 DEF Replaying
    <3>4. /\ pos' \in Nat /\ consumed' \in Nat /\ pieces' \in Seq(Piece)
          /\ entry' \in [declared : Nat, long : BOOLEAN, left : Nat]
          /\ entry'.left <= entry'.declared
      BY <1>0, <3>1 DEF Typed
    <3> QED
      BY <2>1, <3>1, <3>2, <3>3, <3>4, GoesOn
  <2> QED
    BY <2>2, <2>3
<1>6. CASE Header
  <2>1. phase = "header" /\ pos = consumed /\ pos \in Nat /\ pieces \in Seq(Piece)
        /\ Block \in Nat /\ Block \in Piece /\ Trailer \in Piece
    BY <1>0, <1>6, RecompressionAssumption DEF Header, Placed, Typed, Piece
  <2>2. CASE Fails("refused")
    BY <2>1, <2>2, FailsStep
  <2>3. CASE Finish
    <3>1. pos' \in Nat /\ consumed' \in Nat /\ phase' = "done" /\ UNCHANGED <<given, tar, entry>>
      BY <2>1, <2>3 DEF Finish
    <3>2. pieces' \in Seq(Piece)
      BY <2>1, <2>3, AppendProperties DEF Finish
    <3>3. Placed' /\ phase' \in Replaying
      BY <3>1 DEF Placed, Replaying
    <3>4. /\ entry' \in [declared : Nat, long : BOOLEAN, left : Nat]
          /\ entry'.left <= entry'.declared
      BY <1>0, <3>1 DEF Typed
    <3> QED
      BY <2>1, <3>1, <3>2, <3>3, <3>4, GoesOn
  <2>4. ASSUME NEW seen \in Sees, seen # Zeros, BeginEntry(seen)
        PROVE  Core'
    <3>1. seen.says \in Said /\ seen.long \in BOOLEAN
      BY <1>0, <2>4, SeesType
    <3> DEFINE e == [declared |-> seen.says, long |-> seen.long, left |-> seen.says]
    <3>2. CASE seen.says = NotOctal \/ consumed + Block + Written(e) > tar
      <4>1. Fails("refused")
        BY <2>4, <3>2 DEF BeginEntry
      <4> QED
        BY <4>1, <2>2
    <3>3. CASE ~(seen.says = NotOctal \/ consumed + Block + Written(e) > tar)
      <4>1. /\ Copies(Block) /\ consumed' = consumed + Block /\ entry' = e
            /\ phase' = "payload" /\ UNCHANGED <<given, tar>>
        BY <2>4, <3>3 DEF BeginEntry
      <4>2. seen.says \in Nat
        BY <3>1, <3>3 DEF Said
      <4>3. entry' \in [declared : Nat, long : BOOLEAN, left : Nat]
            /\ entry'.left = entry'.declared /\ entry'.left \in Nat
        BY <3>1, <4>1, <4>2
      <4>4. pos' = pos + Block /\ pos' \in Nat /\ consumed' = pos' /\ consumed' \in Nat
        BY <2>1, <4>1 DEF Copies
      <4>5. pieces' \in Seq(Piece)
        BY <2>1, <4>1, AppendProperties DEF Copies
      <4>6. Placed' /\ phase' \in Replaying
        BY <4>1, <4>3, <4>4 DEF Placed, Replaying
      <4>7. entry'.left <= entry'.declared
        BY <4>3
      <4> HIDE DEF e
      <4> QED
        BY <2>1, <4>1, <4>3, <4>4, <4>5, <4>6, <4>7, GoesOn
    <3> QED
      BY <3>2, <3>3
  <2>5. CASE ~Brings(Block)
    BY <1>6, <2>2, <2>5 DEF Header
  <2>6. CASE Brings(Block)
    <3>1. PICK seen \in Sees : IF seen = Zeros THEN Finish ELSE BeginEntry(seen)
      BY <1>6, <2>6 DEF Header
    <3> QED
      BY <2>3, <2>4, <3>1
  <2> QED
    BY <2>5, <2>6
<1>7. CASE CopyPayload
  <2> DEFINE want == Smaller(CopyChunk, entry.left)
  <2>1. /\ phase = "payload" /\ entry.left > 0 /\ entry.left \in Nat /\ entry.declared \in Nat
        /\ entry \in [declared : Nat, long : BOOLEAN, left : Nat]
        /\ entry.left <= entry.declared
        /\ pos \in Nat /\ consumed \in Nat /\ pieces \in Seq(Piece)
        /\ pos + entry.left = consumed + entry.declared
    BY <1>0, <1>7 DEF CopyPayload, Typed, Placed
  <2>2. want \in Piece /\ want \in Nat /\ entry.left - want \in Nat
    BY <2>1, ChunksOfMore DEF Piece
  <2>3. CASE ~Brings(want)
    <3>1. Fails("refused")
      BY <1>7, <2>3 DEF CopyPayload
    <3> QED
      BY <2>1, <3>1, FailsStep
  <2>4. CASE Brings(want)
    <3>1. /\ Copies(want) /\ entry' = [entry EXCEPT !.left = @ - want]
          /\ UNCHANGED <<given, phase, tar, consumed>>
      BY <1>7, <2>4 DEF CopyPayload
    <3> HIDE DEF want
    <3>2. /\ entry' \in [declared : Nat, long : BOOLEAN, left : Nat]
          /\ entry'.left = entry.left - want /\ entry'.declared = entry.declared
      BY <2>1, <2>2, <3>1
    <3>3. pos' = pos + want /\ pos' \in Nat /\ consumed' = consumed /\ consumed' \in Nat
      BY <2>1, <2>2, <3>1 DEF Copies
    <3>4. pieces' \in Seq(Piece)
      BY <2>1, <2>2, <3>1, AppendProperties DEF Copies
    <3>5. entry'.left <= entry'.declared /\ pos' + entry'.left = consumed' + entry'.declared
      BY <2>1, <2>2, <3>2, <3>3
    <3>6. Placed' /\ phase' \in Replaying
      BY <2>1, <3>1, <3>5 DEF Placed, Replaying
    <3> QED
      BY <2>1, <3>1, <3>2, <3>3, <3>4, <3>5, <3>6, GoesOn
  <2> QED
    BY <2>3, <2>4
<1>8. CASE CopyNul
  <2>1. /\ phase = "payload" /\ entry.left = 0 /\ entry.declared \in Nat /\ entry.long \in BOOLEAN
        /\ entry \in [declared : Nat, long : BOOLEAN, left : Nat]
        /\ pos \in Nat /\ consumed \in Nat /\ pieces \in Seq(Piece)
        /\ pos = consumed + entry.declared
        /\ UNCHANGED <<given, tar, consumed, entry>>
    BY <1>0, <1>8 DEF CopyNul, Typed, Placed
  <2>2. CASE phase' = "refused"
    <3>1. Fails("refused")
      BY <1>8, <2>1, <2>2 DEF CopyNul, Copies, Fails
    <3> QED
      BY <2>1, <3>1, FailsStep
  <2>3. CASE phase' # "refused"
    <3>1. phase' = "padding"
          /\ IF entry.long THEN Copies(1) ELSE UNCHANGED <<pos, pieces>>
      BY <1>8, <2>3 DEF CopyNul
    <3>2. pos' = consumed + Written(entry) /\ pos' \in Nat
      BY <2>1, <3>1 DEF Copies, Written
    <3>3. pieces' \in Seq(Piece)
      <4>1. 1 \in Piece
        BY DEF Piece
      <4>2. Append(pieces, 1) \in Seq(Piece)
        BY <2>1, <4>1, AppendProperties
      <4> QED
        BY <2>1, <3>1, <4>2 DEF Copies
    <3>4. Written(entry)' = Written(entry)
      BY <2>1 DEF Written
    <3>5. Placed' /\ phase' \in Replaying
      BY <2>1, <3>1, <3>2, <3>4 DEF Placed, Replaying
    <3>6. /\ entry' \in [declared : Nat, long : BOOLEAN, left : Nat] /\ consumed' \in Nat
          /\ entry'.left <= entry'.declared
      BY <2>1
    <3> QED
      BY <2>1, <3>1, <3>2, <3>3, <3>5, <3>6, GoesOn
  <2> QED
    BY <2>2, <2>3
<1>9. CASE CopyPadding
  <2> DEFINE n == Padding(entry)
  <2>1. /\ phase = "padding" /\ pos \in Nat /\ consumed \in Nat /\ pieces \in Seq(Piece)
        /\ pos = consumed + Written(entry)
        /\ entry \in [declared : Nat, long : BOOLEAN, left : Nat]
    BY <1>0, <1>9 DEF CopyPadding, Typed, Placed
  <2>2. Written(entry) \in Nat /\ n \in Nat
    BY <2>1, WrittenType
  <2>3. CASE ~Brings(n)
    <3>1. Fails("refused")
      BY <1>9, <2>3 DEF CopyPadding
    <3> QED
      BY <2>1, <3>1, FailsStep
  <2>4. CASE Brings(n)
    <3>1. /\ IF n = 0 THEN UNCHANGED <<pos, pieces>> ELSE Copies(n)
          /\ consumed' = consumed + Written(entry) + n
          /\ phase' = "header" /\ entry' = NoEntry
          /\ UNCHANGED <<given, tar>>
      BY <1>9, <2>4 DEF CopyPadding
    <3> HIDE DEF n
    <3>2. pos' = pos + n /\ pos' \in Nat /\ consumed' = pos' /\ consumed' \in Nat
      BY <2>1, <2>2, <3>1 DEF Copies
    <3>3. pieces' \in Seq(Piece)
      <4>1. CASE n = 0
        BY <2>1, <3>1, <4>1
      <4>2. CASE n # 0
        <5>1. n \in Piece
          BY <2>2, <4>2 DEF Piece
        <5> QED
          BY <2>1, <3>1, <4>2, <5>1, AppendProperties DEF Copies
      <4> QED
        BY <4>1, <4>2
    <3>4. /\ entry' \in [declared : Nat, long : BOOLEAN, left : Nat]
          /\ entry'.left <= entry'.declared
      BY <3>1 DEF NoEntry
    <3>5. Placed' /\ phase' \in Replaying
      BY <3>1, <3>2 DEF Placed, Replaying
    <3> QED
      BY <2>1, <3>1, <3>2, <3>3, <3>4, <3>5, GoesOn
  <2> QED
    BY <2>3, <2>4
<1>10. CASE ReplayFails
  BY <1>10, FailsStep DEF ReplayFails
<1>11. CASE UNCHANGED vars
  <2>1. UNCHANGED <<given, phase, tar, pos, consumed, entry, pieces>>
    BY <1>11 DEF vars
  <2>2. GivenOK' /\ Typed'
    BY <1>0, <2>1 DEF GivenOK, Intact, Typed
  <2>3. Placed' /\ Unread'
    BY <2>1 DEF Core, Placed, Written, Unread
  <2>4. TarOK'
    BY <1>0, <2>1 DEF TarOK, Replaying
  <2> QED
    BY <2>2, <2>3, <2>4 DEF Core
<1> QED
  BY <1>1, <1>2, <1>3, <1>4, <1>5, <1>6, <1>7, <1>8, <1>9, <1>10, <1>11
     DEF RecompressionNext, Obtain, Replay

THEOREM RecompressionCore == RecompressionSpec => []Core
<1>1. RecompressionInit => Core
  BY CoreInit
<1>2. Core /\ [RecompressionNext]_vars => Core'
  BY CoreStep
<1> QED
  BY <1>1, <1>2, PTL DEF RecompressionSpec

\* recompress.rs: every position, size and piece of the replay has its type, between
\* two entries exactly what the sizes account for has been read, and behind a long
\* name its NUL besides.
THEOREM RecompressionTyped == RecompressionSpec => []RecompressionTypeOK
<1>1. Core => RecompressionTypeOK
  <2> SUFFICES ASSUME Core
               PROVE  RecompressionTypeOK
    OBVIOUS
  <2>1. /\ given.entries \in Seq(Entry) /\ given.says \in Seq(Said)
        /\ Len(given.says) = Len(given.entries)
    BY DEF Core, GivenOK
  <2>2. phase \in {"header", "padding"}
        => pos = consumed + IF phase = "padding" THEN Written(entry) ELSE 0
    <3>1. pos \in Nat /\ consumed \in Nat
      BY DEF Core, Typed
    <3> QED
      BY <3>1 DEF Core, Placed
  <2> QED
    BY <2>1, <2>2 DEF Core, Typed, Phases, Piece, RecompressionTypeOK
<1> QED
  BY <1>1, RecompressionCore, PTL

\* BoundedWriter and decompress_reader_bounded: whatever is expanded or rebuilt, the
\* bytes on disk never pass the ceiling.
THEOREM ExpansionBounded == RecompressionSpec => []TarBounded
<1>1. Core => TarBounded
  BY DEF Core, TarOK, TarBounded
<1> QED
  BY <1>1, RecompressionCore, PTL

\* What is replayed is the whole tar, and of one that was not obtained nothing is left.
THEOREM NoPartOfATar == RecompressionSpec => []TarWholeOrGone
<1>1. Core => TarWholeOrGone
  BY DEF Core, TarOK, Replaying, TarWholeOrGone
<1> QED
  BY <1>1, RecompressionCore, PTL

-----------------------------------------------------------------------------
(* The pieces of an entry, one by one. *)

\* A chunk of what is left, and those of the rest.
LEMMA ChunkStep ==
  ASSUME NEW ps \in Seq(Piece), NEW n \in Nat, n > 0
  PROVE  LET w == Smaller(CopyChunk, n)
         IN  Append(ps, w) \o Chunks(n - w) = ps \o Chunks(n)
<1> DEFINE w == Smaller(CopyChunk, n)
<1>1. w \in Piece /\ n - w \in Nat /\ Chunks(n) = << w >> \o Chunks(n - w)
  BY ChunksOfMore
<1> HIDE DEF w
<1>2. << w >> \in Seq(Piece) /\ Append(ps, w) = ps \o << w >>
  BY <1>1, AppendIsConcat
<1>3. Chunks(n - w) \in Seq(Piece)
  BY <1>1, ChunksType
<1>4. (ps \o << w >>) \o Chunks(n - w) = ps \o (<< w >> \o Chunks(n - w))
  BY <1>2, <1>3, ConcatAssociative
<1>5. Append(ps, w) \o Chunks(n - w) = ps \o Chunks(n)
  BY <1>1, <1>2, <1>4
<1> QED
  BY <1>5 DEF w

\* The header, the NUL of a long name and the padding, each if it is written.
LEMMA EntrySteps ==
  ASSUME NEW fs \in Seq(Piece), NEW e \in Entry
  PROVE  /\ Append(fs, Block) \o Chunks(e.size) = fs \o Begun(e)
         /\ e.long => Append(fs \o Begun(e), 1) = fs \o Named(e)
         /\ ~e.long => fs \o Begun(e) = fs \o Named(e)
         /\ PadOf(Payload(e)) # 0 =>
              Append(fs \o Named(e), PadOf(Payload(e))) = fs \o EntryPieces(e)
         /\ PadOf(Payload(e)) = 0 => fs \o Named(e) = fs \o EntryPieces(e)
<1> DEFINE pad == PadOf(Payload(e))
<1>1. /\ Begun(e) \in Seq(Piece) /\ Named(e) \in Seq(Piece) /\ Payload(e) \in Nat
      /\ e.size \in Nat /\ e.long \in BOOLEAN
  BY EntryPiecesType DEF Entry
<1>2. Append(fs, Block) \o Chunks(e.size) = fs \o Begun(e)
  <2>1. Block \in Piece
    BY RecompressionAssumption DEF Piece
  <2>2. << Block >> \in Seq(Piece) /\ Append(fs, Block) = fs \o << Block >>
    BY <2>1, AppendIsConcat
  <2>3. Chunks(e.size) \in Seq(Piece)
    BY <1>1, ChunksType
  <2>4. (fs \o << Block >>) \o Chunks(e.size) = fs \o (<< Block >> \o Chunks(e.size))
    BY <2>2, <2>3, ConcatAssociative
  <2> QED
    BY <2>2, <2>4 DEF Begun
<1>3. ASSUME NEW s \in Seq(Piece), NEW n \in Piece
      PROVE  Append(fs \o s, n) = fs \o (s \o << n >>)
  <2>1. << n >> \in Seq(Piece) /\ fs \o s \in Seq(Piece)
    BY ConcatProperties
  <2>2. Append(fs \o s, n) = (fs \o s) \o << n >>
    BY <2>1, AppendIsConcat
  <2> QED
    BY <2>1, <2>2, ConcatAssociative
<1>4. ASSUME e.long
      PROVE  Append(fs \o Begun(e), 1) = fs \o Named(e)
  <2>1. 1 \in Piece
    BY DEF Piece
  <2>2. Named(e) = Begun(e) \o << 1 >>
    BY <1>4 DEF Named, OneUnless
  <2> QED
    BY <1>1, <1>3, <2>1, <2>2
<1>5. ASSUME ~e.long
      PROVE  Begun(e) = Named(e)
  <2>1. Named(e) = Begun(e) \o << >>
    BY <1>5 DEF Named, OneUnless
  <2> QED
    BY <1>1, <2>1, ConcatEmptySeq
<1>6. EntryPieces(e) = Named(e) \o OneUnless(pad = 0, pad)
  BY DEF EntryPieces, Named, Begun
<1>7. pad \in Nat
  BY <1>1, PadParts
<1> HIDE DEF pad
<1>8. ASSUME pad # 0
      PROVE  Append(fs \o Named(e), pad) = fs \o EntryPieces(e)
  <2>1. pad \in Piece
    BY <1>7, <1>8 DEF Piece
  <2>2. EntryPieces(e) = Named(e) \o << pad >>
    BY <1>6, <1>8 DEF OneUnless
  <2> QED
    BY <1>1, <1>3, <2>1, <2>2
<1>9. ASSUME pad = 0
      PROVE  Named(e) = EntryPieces(e)
  <2>1. EntryPieces(e) = Named(e) \o << >>
    BY <1>6, <1>9 DEF OneUnless
  <2> QED
    BY <1>1, <2>1, ConcatEmptySeq
<1> QED
  BY <1>2, <1>4, <1>5, <1>8, <1>9 DEF pad

\* What has been copied of an entry is not all there is.
LEMMA EntryLeads ==
  ASSUME NEW es \in Seq(Entry), NEW k \in 1 .. Len(es)
  PROVE  /\ Flat(es, k - 1) \o Begun(es[k]) \in Seq(Piece)
         /\ Leads(Flat(es, k - 1) \o Begun(es[k]), WriterPieces(es))
         /\ Flat(es, k - 1) \o Named(es[k]) \in Seq(Piece)
         /\ Leads(Flat(es, k - 1) \o Named(es[k]), WriterPieces(es))
<1> DEFINE e == es[k]
           fs == Flat(es, k - 1)
           all == WriterPieces(es)
           nul == OneUnless(~e.long, 1)
           pad == OneUnless(PadOf(Payload(e)) = 0, PadOf(Payload(e)))
<1>1. e \in Entry /\ k \in 0 .. Len(es)
  OBVIOUS
<1>2. /\ Begun(e) \in Seq(Piece) /\ Named(e) \in Seq(Piece) /\ Payload(e) \in Nat
      /\ e.long \in BOOLEAN
  BY <1>1, EntryPiecesType DEF Entry
<1>3. fs \in Seq(Piece) /\ Flat(es, k) = fs \o EntryPieces(e)
  BY FlatOfMore
<1>4. Leads(fs \o EntryPieces(e), all)
  BY <1>1, <1>3, FlatLeads
<1>5. pad \in Seq(Piece)
  <2> DEFINE n == PadOf(Payload(e))
  <2>1. n \in Nat
    BY <1>2, PadParts
  <2> HIDE DEF n
  <2>2. OneUnless(n = 0, n) \in Seq(Piece)
    BY <2>1, OneUnlessType
  <2> QED
    BY <2>2 DEF n
<1>6. nul \in Seq(Piece)
  <2>1. (~e.long) \in BOOLEAN /\ 1 \in Nat /\ 1 # 0
    BY <1>2
  <2> QED
    BY <2>1, OneUnlessType
<1>7. Named(e) = Begun(e) \o nul /\ EntryPieces(e) = Named(e) \o pad
  BY DEF EntryPieces, Named, Begun
<1> HIDE DEF e, fs, all, nul, pad
<1>8. fs \o Named(e) \in Seq(Piece) /\ fs \o Begun(e) \in Seq(Piece)
  BY <1>2, <1>3, ConcatProperties
<1>9. Leads(fs \o Named(e), all)
  <2>1. Leads(fs \o (Named(e) \o pad), all)
    BY <1>4, <1>7
  <2> QED
    BY <1>2, <1>3, <1>5, <2>1, LeadsWithin
<1>10. Leads(fs \o Begun(e), all)
  <2>1. Leads(fs \o (Begun(e) \o nul), all)
    BY <1>7, <1>9
  <2> QED
    BY <1>2, <1>3, <1>6, <2>1, LeadsWithin
<1> QED
  BY <1>8, <1>9, <1>10 DEF e, fs, all

\* At an entry its header is read, as it says; behind the last there is none.
LEMMA SeesHonest ==
  ASSUME GivenOK, Honest(given), NEW k \in 0 .. Len(given.entries),
         pos = Start(given.entries, k + 1), NEW seen \in Sees
  PROVE  /\ k = Len(given.entries) => seen = Zeros
         /\ k # Len(given.entries) =>
              /\ seen # Zeros
              /\ seen = [says |-> Payload(given.entries[k + 1]), long |-> given.entries[k + 1].long]
<1> DEFINE es == given.entries
           at == {i \in DOMAIN es : Start(es, i) = pos}
<1>1. es \in Seq(Entry) /\ Len(given.says) = Len(es) /\ given.says \in Seq(Said)
  BY DEF GivenOK
<1>2. DOMAIN es = 1 .. Len(es) /\ DOMAIN given.says = 1 .. Len(es) /\ Len(es) \in Nat
  BY <1>1
<1>3. pos \in Nat /\ End(es) \in Nat
  BY <1>1, FlatTotal, WriterTotal
<1>4. ASSUME k = Len(es)
      PROVE  seen = Zeros
  <2>1. pos = End(es)
    BY <1>4 DEF End
  <2>2. pos >= End(es)
    BY <1>3, <2>1
  <2> QED
    BY <2>2 DEF Sees
<1>5. ASSUME k # Len(es)
      PROVE  /\ seen # Zeros
             /\ seen = [says |-> Payload(es[k + 1]), long |-> es[k + 1].long]
  <2>1. PICK n : n = k + 1
    OBVIOUS
  <2>2. n \in 1 .. Len(es) /\ Len(es) + 1 \in n + 1 .. Len(es) + 1
    BY <1>2, <1>5, <2>1
  <2>3. pos < End(es)
    <3>1. Start(es, Len(es) + 1) > Start(es, n)
      BY <1>1, <2>2, StartOrder
    <3> QED
      BY <1>3, <2>1, <3>1 DEF End
  <2>4. n \in at
    BY <1>2, <2>1, <2>2
  <2>5. at # {} /\ ~(pos >= End(es))
    BY <1>3, <2>3, <2>4
  <2>6. seen \in {[says |-> given.says[i], long |-> es[i].long] : i \in at}
    BY <2>5 DEF Sees
  <2>7. PICK i \in at : seen = [says |-> given.says[i], long |-> es[i].long]
    BY <2>6
  <2>8. i \in 1 .. Len(es) /\ Start(es, i) = pos /\ Start(es, n) = pos
    BY <1>2, <2>1
  <2>9. i = n
    <3>1. CASE i < n
      <4>1. n \in i + 1 .. Len(es) + 1
        BY <2>2, <2>8, <3>1
      <4>2. Start(es, n) > Start(es, i)
        BY <1>1, <2>8, <4>1, StartOrder
      <4> QED
        BY <1>3, <2>8, <4>2
    <3>2. CASE n < i
      <4>1. i \in n + 1 .. Len(es) + 1
        BY <2>2, <2>8, <3>2
      <4>2. Start(es, i) > Start(es, n)
        BY <1>1, <2>2, <4>1, StartOrder
      <4> QED
        BY <1>3, <2>8, <4>2
    <3> QED
      BY <2>2, <2>8, <3>1, <3>2
  <2>10. given.says[n] = Payload(es[n])
    BY <1>2, <2>2 DEF Honest, Declared
  <2>11. seen = [says |-> Payload(es[n]), long |-> es[n].long]
    BY <2>7, <2>9, <2>10
  <2>12. es[n] \in Entry
    BY <1>1, <2>2
  <2>13. seen \in [says : Said, long : BOOLEAN]
    BY <2>11, <2>12 DEF Entry, Said, Payload
  <2> QED
    BY <2>1, <2>11, <2>13, ZerosAssumption
<1> QED
  BY <1>4, <1>5

\* Each entry as it is read.
LEMMA ReadEntry ==
  ASSUME NEW es \in Seq(Entry), NEW i \in 1 .. Len(es)
  PROVE  LET e == AsRead(es)[i] IN
         /\ e \in Entry /\ es[i] \in Entry
         /\ e.size = Payload(es[i]) /\ e.long = es[i].long
<1>1. AsRead(es)[i] = [size |-> Payload(es[i]), long |-> es[i].long]
  BY DEF AsRead
<1>2. es[i] \in Entry
  OBVIOUS
<1>3. Payload(es[i]) \in Nat /\ es[i].long \in BOOLEAN
  BY <1>2 DEF Entry, Payload
<1> QED
  BY <1>1, <1>2, <1>3 DEF Entry

LEMMA AsReadType ==
  ASSUME NEW es \in Seq(Entry)
  PROVE  AsRead(es) \in Seq(Entry) /\ Len(AsRead(es)) = Len(es)
<1>1. \A i \in 1 .. Len(es) : AsRead(es)[i] \in Entry
  BY ReadEntry
<1>2. DOMAIN es = 1 .. Len(es) /\ Len(es) \in Nat
  OBVIOUS
<1>3. AsRead(es) = [i \in 1 .. Len(es) |-> AsRead(es)[i]]
  BY <1>2, Zenon DEF AsRead
<1> QED
  BY <1>1, <1>2, <1>3

\* One byte more leaves one less to a block's end, if any was left.
LEMMA PadOfOneMore ==
  ASSUME NEW n \in Nat, PadOf(n) # 0
  PROVE  PadOf(n + 1) \in Nat /\ PadOf(n) = PadOf(n + 1) + 1
<1>1. Block \in Nat /\ Block > 1
  BY RecompressionAssumption
<1> PICK B \in Nat : B = Block
  BY <1>1
<1> PICK r : r = n % B
  OBVIOUS
<1>2. r \in 0 .. B - 1
  BY <1>1
<1>3. \A m \in 1 .. B - 1 : m % B = m
  BY <1>1
<1>4. B % B = 0
  BY <1>1
<1>5. r # 0
  BY <1>1, <1>2, <1>4 DEF PadOf
<1>6. PadOf(n) = B - r
  BY <1>1, <1>2, <1>3, <1>5 DEF PadOf
<1>7. (n + 1) % B = IF r = B - 1 THEN 0 ELSE r + 1
  <2>1. PICK q \in Nat : n = B * q + r
    <3>1. PICK p \in Nat, m \in 0 .. B - 1 : n = B * p + m /\ m = n % B
      BY <1>1
    <3> QED
      BY <3>1
  <2>2. PICK p \in Nat, m \in 0 .. B - 1 : n + 1 = B * p + m /\ m = (n + 1) % B
    BY <1>1
  <2>3. B * p - B * q = B * (p - q) /\ B * (p - q) = r + 1 - m
    BY <1>2, <2>1, <2>2
  <2>4. ~(p - q > 1)
    <3>1. p - q > 1 => B * (p - q) >= B * 2
      BY <1>1
    <3> QED
      BY <1>1, <1>2, <2>2, <2>3, <3>1
  <2>5. ~(p - q < 0)
    <3>1. p - q < 0 => B * (p - q) <= B * (-1)
      BY <1>1
    <3> QED
      BY <1>1, <1>2, <2>2, <2>3, <3>1
  <2>6. CASE p - q = 0
    BY <1>1, <1>2, <2>2, <2>3, <2>6
  <2>7. CASE p - q = 1
    BY <1>1, <1>2, <2>2, <2>3, <2>7
  <2> QED
    BY <2>4, <2>5, <2>6, <2>7
<1>8. PadOf(n + 1) = B - r - 1
  <2>1. CASE r = B - 1
    BY <1>1, <1>2, <1>4, <1>7, <2>1 DEF PadOf
  <2>2. CASE r # B - 1
    BY <1>1, <1>2, <1>3, <1>7, <2>2 DEF PadOf
  <2> QED
    BY <2>1, <2>2
<1> QED
  BY <1>1, <1>2, <1>6, <1>8

\* Read so, a padded name takes no more room than it has, and what follows it is
\* found where it is.
LEMMA ReadSpans ==
  ASSUME NEW es \in Seq(Entry), NamesArePadded(es)
  PROVE  /\ \A i \in 1 .. Len(es) : Span(AsRead(es)[i]) = Span(es[i])
         /\ \A k \in 1 .. Len(es) + 1 : Start(AsRead(es), k) = Start(es, k)
         /\ End(AsRead(es)) = End(es)
<1> PICK rs : rs = AsRead(es)
  OBVIOUS
<1>1. Len(es) \in Nat /\ DOMAIN es = 1 .. Len(es) /\ Len(rs) = Len(es) /\ Block \in Nat
  BY AsReadType, RecompressionAssumption
<1>2. ASSUME NEW i \in 1 .. Len(es)
      PROVE  Span(rs[i]) = Span(es[i])
  <2>1. rs[i].size = Payload(es[i]) /\ rs[i].long = es[i].long /\ es[i] \in Entry
    BY ReadEntry
  <2>2. Payload(es[i]) \in Nat /\ es[i].long \in BOOLEAN
    BY <2>1 DEF Entry, Payload
  <2>3. CASE ~es[i].long
    BY <2>1, <2>3 DEF Span, Payload
  <2>4. CASE es[i].long
    <3>1. PadOf(Payload(es[i])) # 0
      BY <1>1, <2>4 DEF NamesArePadded
    <3>2. PICK n \in Nat : n = Payload(es[i])
      BY <2>2
    <3>3. PadOf(n + 1) \in Nat /\ PadOf(n) = PadOf(n + 1) + 1
      BY <3>1, <3>2, PadOfOneMore
    <3>4. Payload(rs[i]) = n + 1
      BY <2>1, <2>4, <3>2 DEF Payload
    <3>5. Span(rs[i]) = Block + (n + 1) + PadOf(n + 1)
      BY <3>4 DEF Span
    <3>6. Span(es[i]) = Block + n + PadOf(n)
      BY <3>2 DEF Span
    <3> QED
      BY <1>1, <3>3, <3>5, <3>6
  <2> QED
    BY <2>2, <2>3, <2>4
<1>3. ASSUME NEW k \in 1 .. Len(es) + 1
      PROVE  Start(rs, k) = Start(es, k)
  <2>1. \A j \in 1 .. k - 1 : j \in 1 .. Len(es)
    BY <1>1
  <2>2. [j \in 1 .. k - 1 |-> Span(rs[j])] = [j \in 1 .. k - 1 |-> Span(es[j])]
    BY <1>2, <2>1
  <2> QED
    BY <2>2 DEF Start
<1>4. End(rs) = End(es)
  <2>1. Len(es) + 1 \in 1 .. Len(es) + 1
    BY <1>1
  <2> QED
    BY <1>1, <1>3, <2>1 DEF End
<1> QED
  BY <1>2, <1>3, <1>4

\* What the replay sees where it is, of the archive as it is read.
LEMMA SeesAsRead ==
  ASSUME GivenOK, Regular(given), NEW es, es = AsRead(given.entries),
         NEW k \in 0 .. Len(es), pos = Start(es, k + 1), NEW seen \in Sees
  PROVE  /\ k = Len(es) => seen = Zeros
         /\ k # Len(es) =>
              /\ seen # Zeros
              /\ seen = [says |-> es[k + 1].size, long |-> es[k + 1].long]
<1> PICK bs : bs = given.entries
  OBVIOUS
<1>1. bs \in Seq(Entry) /\ Honest(given) /\ NamesArePadded(bs)
  BY DEF GivenOK, Regular
<1>2. Len(es) = Len(bs) /\ Len(bs) \in Nat /\ k \in 0 .. Len(bs)
  BY <1>1, AsReadType
<1>3. pos = Start(bs, k + 1)
  <2>1. k + 1 \in 1 .. Len(bs) + 1
    BY <1>2
  <2> QED
    BY <1>1, <2>1, ReadSpans
<1>4. /\ k = Len(bs) => seen = Zeros
      /\ k # Len(bs) =>
           seen # Zeros /\ seen = [says |-> Payload(bs[k + 1]), long |-> bs[k + 1].long]
  <2>1. pos = Start(given.entries, k + 1) /\ k \in 0 .. Len(given.entries)
    BY <1>2, <1>3
  <2> QED
    BY <1>1, <2>1, SeesHonest
<1>5. ASSUME k # Len(bs)
      PROVE  es[k + 1].size = Payload(bs[k + 1]) /\ es[k + 1].long = bs[k + 1].long
  <2>1. k + 1 \in 1 .. Len(bs)
    BY <1>2, <1>5
  <2> QED
    BY <1>1, <2>1, ReadEntry
<1> QED
  BY <1>2, <1>4, <1>5

\* A writer's archive has room for every entry and for what closes it.
LEMMA Room ==
  ASSUME GivenOK, Intact(given)
  PROVE  LET es == given.entries IN
         /\ Honest(given)
         /\ \A k \in 0 .. Len(es) : Start(es, k + 1) \in Nat /\ Start(es, k + 1) + Block <= given.length
         /\ \A k \in 1 .. Len(es) : Start(es, k) \in Nat /\ Start(es, k) + Span(es[k]) <= given.length
<1> DEFINE es == given.entries
<1>1. es \in Seq(Entry) /\ given.length = Start(es, Len(es) + 1) + Trailer
      /\ DOMAIN es = 1 .. Len(es) /\ Len(es) \in Nat
      /\ DOMAIN given.says = 1 .. Len(es)
  BY DEF GivenOK, Intact, End
<1>2. Trailer \in Nat /\ Trailer >= Block /\ Block \in Nat
  BY RecompressionAssumption
<1>3. Honest(given)
  BY DEF Honest, Intact
<1>4. ASSUME NEW k \in 1 .. Len(es)
      PROVE  Start(es, k) \in Nat /\ Start(es, k) + Span(es[k]) <= Start(es, Len(es) + 1)
             /\ Start(es, k) <= Start(es, Len(es) + 1) /\ Start(es, Len(es) + 1) \in Nat
  <2>1. Len(es) + 1 \in k + 1 .. Len(es) + 1
    BY <1>1
  <2>2. es[k] \in Entry
    BY <1>1
  <2>3. Span(es[k]) \in Nat
    BY <2>2, EntryPiecesType
  <2>4. /\ Start(es, k) \in Nat /\ Start(es, Len(es) + 1) \in Nat
        /\ Start(es, Len(es) + 1) >= Start(es, k) + Span(es[k])
    BY <1>1, <2>1, StartOrder
  <2> QED
    BY <2>3, <2>4
<1>5. Start(es, Len(es) + 1) \in Nat
  BY <1>1, WriterTotal DEF End
<1>6. ASSUME NEW k \in 0 .. Len(es)
      PROVE  Start(es, k + 1) \in Nat /\ Start(es, k + 1) + Block <= given.length
  <2>1. PICK n : n = k + 1
    OBVIOUS
  <2>2. CASE k = Len(es)
    BY <1>1, <1>2, <1>5, <2>2
  <2>3. CASE k # Len(es)
    <3>1. n \in 1 .. Len(es)
      BY <1>1, <2>1, <2>3
    <3>2. Start(es, n) \in Nat /\ Start(es, n) <= Start(es, Len(es) + 1)
      BY <1>4, <3>1
    <3> QED
      BY <1>1, <1>2, <1>5, <2>1, <3>2
  <2> QED
    BY <2>2, <2>3
<1>7. ASSUME NEW k \in 1 .. Len(es)
      PROVE  Start(es, k) \in Nat /\ Start(es, k) + Span(es[k]) <= given.length
  <2>1. es[k] \in Entry
    BY <1>1
  <2>2. Span(es[k]) \in Nat
    BY <2>1, EntryPiecesType
  <2> QED
    BY <1>1, <1>2, <1>4, <1>5, <2>2
<1> QED
  BY <1>3, <1>6, <1>7

-----------------------------------------------------------------------------
(* The replay of an archive whose headers are true. *)

LEMMA ReplayInit == RecompressionInit => ReplayOK
BY DEF RecompressionInit, ReplayOK

LEMMA ReplayStep ==
  ASSUME Core, ReplayOK, [RecompressionNext]_vars
  PROVE  ReplayOK'
<1>1. GivenOK /\ Typed /\ Unread
  BY DEF Core
<1>2. CASE phase' \notin Replaying
  BY <1>2 DEF ReplayOK, Replaying
<1>3. CASE ~Regular(given) /\ given' = given
  BY <1>3 DEF ReplayOK, Regular, Honest
<1>4. CASE UNCHANGED vars
  BY <1>4 DEF vars, ReplayOK, Regular, Honest, AtHeader, AtPayload, AtPadding, Copying
<1> PICK es : es = AsRead(given.entries)
  OBVIOUS
<1>5. es \in Seq(Entry) /\ Len(es) \in Nat
  BY <1>1, AsReadType DEF GivenOK
<1>6. ASSUME Regular(given)
      PROVE  /\ phase = "header" => \E k \in 0 .. Len(es) : AtHeader(es, k)
             /\ phase = "payload" => \E k \in 1 .. Len(es) : AtPayload(es, k)
             /\ phase = "padding" => \E k \in 1 .. Len(es) : AtPadding(es, k)
  BY <1>6 DEF ReplayOK
<1>7. ASSUME NEW k \in 0 .. Len(es), given' = given, phase' = "header", AtHeader(es, k)'
      PROVE  ReplayOK'
  BY <1>7 DEF ReplayOK
<1>8. ASSUME NEW k \in 1 .. Len(es), given' = given, phase' = "payload", AtPayload(es, k)'
      PROVE  ReplayOK'
  BY <1>8 DEF ReplayOK
<1>9. ASSUME NEW k \in 1 .. Len(es), given' = given, phase' = "padding", AtPadding(es, k)'
      PROVE  ReplayOK'
  BY <1>9 DEF ReplayOK
<1>10. ASSUME given' = given, phase' = "done", pieces' = WriterPieces(es),
              pos' = End(es) + Block
       PROVE  ReplayOK'
  BY <1>10 DEF ReplayOK
<1>11. CASE Stat /\ phase' = "header"
  <2>1. phase = "stat" /\ given' = given /\ pos' = pos /\ pieces' = pieces
    BY <1>11 DEF Stat, Fails
  <2>2. pos' = 0 /\ pieces' = << >>
    BY <1>1, <2>1 DEF Unread
  <2>3. Flat(es, 0) = << >> /\ Start(es, 1) = 0 /\ 0 + 1 = 1 /\ 0 \in 0 .. Len(es)
    BY <1>5, FlatOfNone, StartOfFirst
  <2>4. Start(es, 0 + 1) = 0
    BY <2>3
  <2>5. AtHeader(es, 0)'
    BY <2>2, <2>3, <2>4 DEF AtHeader
  <2> QED
    BY <1>7, <1>11, <2>1, <2>3, <2>5
<1>12. CASE Header /\ phase' \in Replaying /\ Regular(given)
  <2>1. phase = "header" /\ Brings(Block)
    BY <1>12 DEF Header, Fails, Replaying
  <2>2. PICK seen \in Sees : IF seen = Zeros THEN Finish ELSE BeginEntry(seen)
    BY <1>12, <2>1 DEF Header
  <2>3. PICK k \in 0 .. Len(es) : AtHeader(es, k)
    BY <1>6, <1>12, <2>1
  <2>4. pieces = Flat(es, k) /\ pos = Start(es, k + 1)
    BY <2>3 DEF AtHeader
  <2>5. /\ k = Len(es) => seen = Zeros
        /\ k # Len(es) =>
             seen # Zeros /\ seen = [says |-> es[k + 1].size, long |-> es[k + 1].long]
    <3>1. pos = Start(es, k + 1)
      BY <2>4
    <3> QED
      BY <1>1, <1>12, <3>1, SeesAsRead
  <2>6. CASE k = Len(es)
    <3>1. Finish
      BY <2>2, <2>5, <2>6
    <3>2. given' = given /\ phase' = "done" /\ pieces' = Append(Flat(es, Len(es)), Trailer)
      BY <2>4, <2>6, <3>1 DEF Finish
    <3>3. /\ WriterPieces(es) = Flat(es, Len(es)) \o << Trailer >>
          /\ Trailer \in Piece
      BY <1>5, WriterIsFlat
    <3>4. Flat(es, Len(es)) \in Seq(Piece)
      <4>1. Len(es) \in 0 .. Len(es)
        BY <1>5
      <4> QED
        BY <1>5, <4>1, FlatTotal
    <3>5. Append(Flat(es, Len(es)), Trailer) = Flat(es, Len(es)) \o << Trailer >>
      BY <3>3, <3>4, AppendIsConcat
    <3>6. pos' = End(es) + Block
      BY <2>4, <2>6, <3>1 DEF Finish, End
    <3> QED
      BY <1>10, <3>2, <3>3, <3>5, <3>6
  <2>7. CASE k # Len(es)
    <3>1. BeginEntry(seen)
      BY <2>2, <2>5, <2>7
    <3>2. PICK n : n = k + 1
      OBVIOUS
    <3>3. n \in 1 .. Len(es) /\ n - 1 = k
      BY <1>5, <2>7, <3>2
    <3>4. seen.says = es[n].size /\ seen.long = es[n].long
      BY <2>5, <2>7, <3>2
    <3>5. es[n] \in Entry
      BY <1>5, <3>3
    <3>6. es[n].size \in Nat /\ Block \in Nat
      BY <3>5, RecompressionAssumption DEF Entry
    <3>7. /\ Copies(Block) /\ given' = given /\ phase' = "payload"
          /\ entry' = [declared |-> seen.says, long |-> seen.long, left |-> seen.says]
      BY <1>12, <3>1 DEF BeginEntry, Fails, Replaying
    <3>8. Flat(es, n - 1) \in Seq(Piece) /\ Start(es, n) \in Nat
      BY <1>5, <3>3, FlatOfMore, StartOfNext
    <3>9. pieces' = Append(Flat(es, n - 1), Block) /\ pos' = Start(es, n) + Block
      BY <2>4, <3>2, <3>3, <3>7 DEF Copies
    <3>10. Append(Flat(es, n - 1), Block) \o Chunks(es[n].size) = Flat(es, n - 1) \o Begun(es[n])
      BY <3>5, <3>8, EntrySteps
    <3>11. entry'.left = es[n].size /\ entry'.declared = es[n].size /\ entry'.long = es[n].long
      BY <3>4, <3>7
    <3>12. pieces' \o Chunks(entry'.left) = Flat(es, n - 1) \o Begun(es[n])
      BY <3>9, <3>10, <3>11
    <3>13. pos' + entry'.left = Start(es, n) + Block + es[n].size
      BY <3>9, <3>11
    <3>14. AtPayload(es, n)'
      BY <3>11, <3>12, <3>13 DEF AtPayload, Copying
    <3> QED
      BY <1>8, <3>3, <3>7, <3>14
  <2> QED
    BY <2>6, <2>7
<1>13. CASE CopyPayload /\ phase' \in Replaying /\ Regular(given)
  <2> DEFINE w == Smaller(CopyChunk, entry.left)
  <2>1. phase = "payload" /\ entry.left > 0
    BY <1>13 DEF CopyPayload
  <2>2. Copies(w) /\ entry' = [entry EXCEPT !.left = @ - w] /\ given' = given /\ phase' = "payload"
    BY <1>13, <2>1 DEF CopyPayload, Fails, Replaying
  <2>3. PICK k \in 1 .. Len(es) : AtPayload(es, k)
    BY <1>6, <1>13, <2>1
  <2>4. /\ Copying(es[k])
        /\ pieces \o Chunks(entry.left) = Flat(es, k - 1) \o Begun(es[k])
        /\ pos + entry.left = Start(es, k) + Block + es[k].size
    BY <2>3 DEF AtPayload
  <2>5. /\ pieces \in Seq(Piece) /\ entry.left \in Nat /\ pos \in Nat
        /\ entry \in [declared : Nat, long : BOOLEAN, left : Nat]
    BY <1>1 DEF Typed
  <2>6. Append(pieces, w) \o Chunks(entry.left - w) = pieces \o Chunks(entry.left)
    BY <2>1, <2>5, ChunkStep
  <2>7. w \in Piece /\ w \in Nat
    BY <2>1, <2>5, ChunksOfMore DEF Piece
  <2> HIDE DEF w
  <2>8. /\ entry'.left = entry.left - w /\ entry'.declared = entry.declared
        /\ entry'.long = entry.long
    BY <2>2, <2>5
  <2>9. pieces' = Append(pieces, w) /\ pos' = pos + w
    BY <2>2 DEF Copies
  <2>10. pieces' \o Chunks(entry'.left) = Flat(es, k - 1) \o Begun(es[k])
    BY <2>4, <2>6, <2>8, <2>9
  <2>11. pos' + entry'.left = Start(es, k) + Block + es[k].size
    <3>1. pos' + entry'.left = pos + entry.left
      BY <2>5, <2>7, <2>8, <2>9
    <3> QED
      BY <2>4, <3>1
  <2>12. Copying(es[k])'
    BY <2>4, <2>8 DEF Copying
  <2>13. AtPayload(es, k)'
    BY <2>10, <2>11, <2>12 DEF AtPayload
  <2> QED
    BY <1>8, <2>2, <2>13
<1>14. CASE CopyNul /\ phase' \in Replaying /\ Regular(given)
  <2>1. phase = "payload" /\ entry.left = 0 /\ entry' = entry /\ given' = given
    BY <1>14 DEF CopyNul
  <2>2. phase' = "padding" /\ IF entry.long THEN Copies(1) ELSE UNCHANGED <<pos, pieces>>
    BY <1>14 DEF CopyNul, Replaying
  <2>3. PICK k \in 1 .. Len(es) : AtPayload(es, k)
    BY <1>6, <1>14, <2>1
  <2>4. /\ Copying(es[k])
        /\ pieces \o Chunks(entry.left) = Flat(es, k - 1) \o Begun(es[k])
        /\ pos + entry.left = Start(es, k) + Block + es[k].size
    BY <2>3 DEF AtPayload
  <2>5. pieces \in Seq(Piece) /\ pos \in Nat
    BY <1>1 DEF Typed
  <2>6. pieces = Flat(es, k - 1) \o Begun(es[k])
    <3>1. pieces \o Chunks(0) = pieces
      BY <2>5, ChunksOfNone, ConcatEmptySeq
    <3> QED
      BY <2>1, <2>4, <3>1
  <2>7. pos = Start(es, k) + Block + es[k].size
    BY <2>1, <2>4, <2>5
  <2>8. es[k] \in Entry /\ es[k].size \in Nat /\ es[k].long \in BOOLEAN
    <3>1. es[k] \in Entry
      BY <1>5
    <3> QED
      BY <3>1 DEF Entry
  <2>9. Flat(es, k - 1) \in Seq(Piece) /\ Start(es, k) \in Nat /\ Block \in Nat
    BY <1>5, FlatOfMore, StartOfNext, RecompressionAssumption
  <2>10. /\ es[k].long => Append(Flat(es, k - 1) \o Begun(es[k]), 1) = Flat(es, k - 1) \o Named(es[k])
         /\ ~es[k].long => Flat(es, k - 1) \o Begun(es[k]) = Flat(es, k - 1) \o Named(es[k])
    BY <2>8, <2>9, EntrySteps
  <2>11. entry.long = es[k].long
    BY <2>4 DEF Copying
  <2>12. pieces' = Flat(es, k - 1) \o Named(es[k])
    BY <2>2, <2>6, <2>8, <2>10, <2>11 DEF Copies
  <2>13. pos' = Start(es, k) + Block + Payload(es[k])
    BY <2>2, <2>7, <2>8, <2>9, <2>11 DEF Copies, Payload
  <2>14. Copying(es[k])'
    BY <2>1, <2>4 DEF Copying
  <2>15. AtPadding(es, k)'
    BY <2>12, <2>13, <2>14 DEF AtPadding
  <2> QED
    BY <1>9, <2>1, <2>2, <2>15
<1>15. CASE CopyPadding /\ phase' \in Replaying /\ Regular(given)
  <2> DEFINE n == Padding(entry)
  <2>1. phase = "padding"
    BY <1>15 DEF CopyPadding
  <2>2. /\ IF n = 0 THEN UNCHANGED <<pos, pieces>> ELSE Copies(n)
        /\ phase' = "header" /\ given' = given
    BY <1>15 DEF CopyPadding, Fails, Replaying
  <2>3. PICK k \in 1 .. Len(es) : AtPadding(es, k)
    BY <1>6, <1>15, <2>1
  <2>4. /\ Copying(es[k])
        /\ pieces = Flat(es, k - 1) \o Named(es[k])
        /\ pos = Start(es, k) + Block + Payload(es[k])
    BY <2>3 DEF AtPadding
  <2>5. es[k] \in Entry /\ pos \in Nat
    BY <1>1, <1>5 DEF Typed
  <2>6. n = PadOf(Payload(es[k]))
    BY <2>4, <2>5 DEF Padding, Written, Payload, Copying, Entry
  <2>7. /\ Payload(es[k]) \in Nat /\ PadOf(Payload(es[k])) \in Nat
        /\ Span(es[k]) = Block + Payload(es[k]) + PadOf(Payload(es[k]))
        /\ Block \in Nat
    BY <2>5, EntryPiecesType, PadParts, RecompressionAssumption DEF Span
  <2>8. /\ Flat(es, k - 1) \in Seq(Piece) /\ Start(es, k) \in Nat
        /\ Start(es, k + 1) = Start(es, k) + Span(es[k])
        /\ Flat(es, k) = Flat(es, k - 1) \o EntryPieces(es[k])
    BY <1>5, FlatOfMore, StartOfNext
  <2>9. /\ n # 0 => Append(Flat(es, k - 1) \o Named(es[k]), n) = Flat(es, k - 1) \o EntryPieces(es[k])
        /\ n = 0 => Flat(es, k - 1) \o Named(es[k]) = Flat(es, k - 1) \o EntryPieces(es[k])
    <3>1. /\ PadOf(Payload(es[k])) # 0 =>
               Append(Flat(es, k - 1) \o Named(es[k]), PadOf(Payload(es[k])))
                 = Flat(es, k - 1) \o EntryPieces(es[k])
          /\ PadOf(Payload(es[k])) = 0 =>
               Flat(es, k - 1) \o Named(es[k]) = Flat(es, k - 1) \o EntryPieces(es[k])
      BY <2>5, <2>8, EntrySteps
    <3> QED
      BY <2>6, <3>1
  <2> HIDE DEF n
  <2>10. pieces' = Flat(es, k)
    BY <2>2, <2>4, <2>8, <2>9 DEF Copies
  <2>11. pos' = Start(es, k + 1)
    <3>1. pos' = pos + n
      BY <2>2, <2>5 DEF Copies
    <3> QED
      BY <2>4, <2>6, <2>7, <2>8, <3>1
  <2>12. AtHeader(es, k)'
    BY <2>10, <2>11 DEF AtHeader
  <2>13. k \in 0 .. Len(es)
    BY <1>5
  <2> QED
    BY <1>7, <2>2, <2>12, <2>13
<1>16. CASE phase' \in Replaying /\ RecompressionNext
  <2>1. given' = given /\ (Stat \/ Header \/ CopyPayload \/ CopyNul \/ CopyPadding)
    <3>1. ~ObtainFails /\ ~ReplayFails
      BY <1>16 DEF ObtainFails, ReplayFails, Removed, Fails, Replaying
    <3>2. ~Expand /\ ~Patched
      BY <1>16 DEF Expand, Patched, Obtained, Grows, Removed, Replaying
    <3>3. ~Rebuild
      BY <1>16 DEF Rebuild, Obtained, Grows, Removed, Replaying
    <3>4. Stat \/ Header \/ CopyPayload \/ CopyNul \/ CopyPadding
      BY <1>16, <3>1, <3>2, <3>3 DEF RecompressionNext, Obtain, Replay
    <3>5. Header => given' = given
      BY DEF Header, Finish, BeginEntry, Fails
    <3> QED
      BY <3>4, <3>5 DEF Stat, CopyPayload, CopyNul, CopyPadding, Fails
  <2>2. Stat => phase' = "header"
    BY <1>16 DEF Stat, Fails, Replaying
  <2> QED
    BY <1>3, <1>11, <1>12, <1>13, <1>14, <1>15, <1>16, <2>1, <2>2
<1> QED
  BY <1>2, <1>4, <1>16

\* The replay never refuses what the writer made, unless it is larger than it takes.
LEMMA RefusalStep ==
  ASSUME Core, ReplayOK, NeverRefused, [RecompressionNext]_vars
  PROVE  NeverRefused'
<1>1. GivenOK /\ Typed /\ Placed /\ TarOK
  BY DEF Core
<1>2. CASE UNCHANGED vars
  BY <1>2 DEF vars, NeverRefused, Intact
<1>3. CASE phase' # "refused"
  BY <1>3 DEF NeverRefused
<1> SUFFICES ASSUME RecompressionNext, phase' = "refused"
             PROVE  NeverRefused'
  BY <1>2, <1>3
<1>4. given' = given
  <2>1. Obtain \/ ObtainFails => given' = given
    BY DEF Obtain, Expand, Rebuild, Patched, ObtainFails, Obtained, Grows, Removed
  <2>2. Replay \/ ReplayFails => given' = given
    BY DEF Replay, Stat, Header, Finish, BeginEntry, CopyPayload, CopyNul, CopyPadding, ReplayFails,
           Fails
  <2> QED
    BY <2>1, <2>2 DEF RecompressionNext
<1> SUFFICES ASSUME Intact(given), NamesArePadded(given.entries),
                    ~(given.length > given.limit),
                    ~(given.length > MaxTarBytes)
             PROVE  FALSE
  BY <1>4 DEF NeverRefused, Intact
<1> PICK es : es = AsRead(given.entries)
  OBVIOUS
<1>5. es \in Seq(Entry) /\ Len(es) \in Nat /\ given.length \in Nat /\ given.limit \in Nat
      /\ MaxTarBytes \in Nat /\ Block \in Nat
  BY <1>1, AsReadType, RecompressionAssumption DEF GivenOK
<1>6. /\ Regular(given)
      /\ \A k \in 0 .. Len(es) : Start(es, k + 1) \in Nat /\ Start(es, k + 1) + Block <= given.length
      /\ \A k \in 1 .. Len(es) : Start(es, k) \in Nat /\ Start(es, k) + Span(es[k]) <= given.length
  <2> PICK bs : bs = given.entries
    OBVIOUS
  <2>1. LET cs == given.entries IN
        /\ Honest(given)
        /\ \A k \in 0 .. Len(cs) : Start(cs, k + 1) \in Nat /\ Start(cs, k + 1) + Block <= given.length
        /\ \A k \in 1 .. Len(cs) : Start(cs, k) \in Nat /\ Start(cs, k) + Span(cs[k]) <= given.length
    BY <1>1, Room
  <2>2. bs \in Seq(Entry) /\ NamesArePadded(bs)
    BY <1>1 DEF GivenOK
  <2>3. Len(es) = Len(bs) /\ Len(bs) \in Nat
    BY <2>2, AsReadType
  <2>4. /\ \A i \in 1 .. Len(bs) : Span(es[i]) = Span(bs[i])
        /\ \A k \in 1 .. Len(bs) + 1 : Start(es, k) = Start(bs, k)
    BY <2>2, ReadSpans
  <2>5. ASSUME NEW k \in 0 .. Len(es)
        PROVE  Start(es, k + 1) \in Nat /\ Start(es, k + 1) + Block <= given.length
    <3>1. k + 1 \in 1 .. Len(bs) + 1 /\ k \in 0 .. Len(bs)
      BY <2>3
    <3> QED
      BY <2>1, <2>4, <3>1
  <2>6. ASSUME NEW k \in 1 .. Len(es)
        PROVE  Start(es, k) \in Nat /\ Start(es, k) + Span(es[k]) <= given.length
    <3>1. k \in 1 .. Len(bs) + 1 /\ k \in 1 .. Len(bs)
      BY <2>3
    <3> QED
      BY <2>1, <2>4, <3>1
  <2> QED
    BY <2>1, <2>5, <2>6 DEF Regular
<1>7. /\ phase = "header" => \E k \in 0 .. Len(es) : AtHeader(es, k)
      /\ phase = "payload" => \E k \in 1 .. Len(es) : AtPayload(es, k)
      /\ phase = "padding" => \E k \in 1 .. Len(es) : AtPadding(es, k)
  BY <1>6 DEF ReplayOK
<1>8. ASSUME NEW k \in 1 .. Len(es)
      PROVE  /\ es[k] \in Entry /\ es[k].size \in Nat /\ es[k].long \in BOOLEAN
             /\ Payload(es[k]) = es[k].size + (IF es[k].long THEN 1 ELSE 0)
             /\ Payload(es[k]) \in Nat /\ PadOf(Payload(es[k])) \in Nat
             /\ Start(es, k) \in Nat
             /\ Start(es, k) + Block + Payload(es[k]) + PadOf(Payload(es[k])) <= given.length
  <2>1. es[k] \in Entry
    BY <1>5
  <2>2. es[k].size \in Nat /\ es[k].long \in BOOLEAN
    BY <2>1 DEF Entry
  <2>3. Payload(es[k]) = es[k].size + (IF es[k].long THEN 1 ELSE 0) /\ Payload(es[k]) \in Nat
    BY <2>2 DEF Payload
  <2>4. PadOf(Payload(es[k])) \in Nat
    BY <2>3, PadParts
  <2>5. Span(es[k]) = Block + Payload(es[k]) + PadOf(Payload(es[k]))
    BY DEF Span
  <2>6. Start(es, k) \in Nat /\ Start(es, k) + Span(es[k]) <= given.length
    BY <1>6
  <2> QED
    BY <1>5, <2>1, <2>2, <2>3, <2>4, <2>5, <2>6
<1>9. ~Expand
  <2> SUFFICES ASSUME Expand
               PROVE  FALSE
    OBVIOUS
  <2>1. /\ phase = "obtain" /\ given.via = "gz" /\ tar \in Nat /\ tar <= given.length
        /\ tar # given.length
    BY <1>1 DEF Expand, TarOK, Obtained
  <2>2. PICK n \in 1 .. Smaller(CopyChunk, given.length - tar) :
          IF Ample(n) THEN Grows(n) ELSE Removed("refused")
    BY <2>1 DEF Expand
  <2>3. n \in Nat /\ tar + n <= given.length
    <3>1. given.length - tar \in Nat /\ CopyChunk \in Nat
      BY <1>5, <2>1, RecompressionAssumption
    <3>2. n \in Nat /\ n <= given.length - tar
      BY <3>1 DEF Smaller
    <3> QED
      BY <1>5, <2>1, <3>2
  <2>4. Ample(n)
    BY <1>5, <2>1, <2>3 DEF Ample
  <2> QED
    BY <2>1, <2>2, <2>4 DEF Grows
<1>10. ~Rebuild
  <2> SUFFICES ASSUME Rebuild
               PROVE  FALSE
    OBVIOUS
  <2> DEFINE all == WriterPieces(given.entries)
             next == CHOOSE i \in 1 .. Len(all) + 1 : Total(SubSeq(all, 1, i - 1)) = tar
  <2>1. phase = "obtain" /\ given.via = "app" /\ PartOf(all, tar) /\ tar \in Nat
    BY <1>1 DEF Rebuild, TarOK
  <2>2. ~(next > Len(all)) => all[next] \in Nat /\ tar + all[next] <= given.length
    BY <1>1, <2>1, RebuildStep
  <2>3. IF next > Len(all) THEN Obtained
        ELSE IF Ample(all[next]) THEN Grows(all[next]) ELSE Removed("refused")
    BY DEF Rebuild
  <2> HIDE DEF next, all
  <2>4. ~(next > Len(all)) => Ample(all[next])
    BY <1>5, <2>1, <2>2 DEF Ample
  <2> QED
    BY <2>1, <2>3, <2>4 DEF Grows, Obtained
<1>11. ~Patched /\ ~ObtainFails /\ ~ReplayFails
  BY DEF Patched, Obtained, ObtainFails, Removed, ReplayFails, Fails
<1>12. phase \in {"stat", "header", "payload", "padding"} => tar = given.length
  BY <1>1 DEF TarOK, Replaying
<1>13. ~Stat
  BY <1>5, <1>12 DEF Stat
<1>14. ~Header
  <2> SUFFICES ASSUME Header
               PROVE  FALSE
    OBVIOUS
  <2>1. phase = "header" /\ tar = given.length /\ pos = consumed /\ pos \in Nat
    BY <1>1, <1>12 DEF Header, Placed, Typed
  <2>2. PICK k \in 0 .. Len(es) : AtHeader(es, k)
    BY <1>7, <2>1
  <2>3. pos = Start(es, k + 1)
    BY <2>2 DEF AtHeader
  <2>4. Brings(Block)
    BY <1>5, <1>6, <2>1, <2>3 DEF Brings
  <2>5. PICK seen \in Sees : IF seen = Zeros THEN Finish ELSE BeginEntry(seen)
    BY <2>4 DEF Header
  <2>6. seen # Zeros /\ BeginEntry(seen)
    BY <2>5 DEF Finish
  <2>7. PICK n : n = k + 1
    OBVIOUS
  <2>8. n \in 1 .. Len(es) /\ seen = [says |-> es[n].size, long |-> es[n].long]
    <3>1. pos = Start(es, k + 1)
      BY <2>3
    <3>2. /\ k = Len(es) => seen = Zeros
          /\ k # Len(es) =>
               seen # Zeros /\ seen = [says |-> es[k + 1].size, long |-> es[k + 1].long]
      BY <1>1, <1>6, <3>1, SeesAsRead
    <3>3. k # Len(es)
      BY <2>6, <3>2
    <3>4. n \in 1 .. Len(es)
      BY <1>5, <2>7, <3>3
    <3> QED
      BY <2>7, <3>2, <3>3, <3>4
  <2> DEFINE e == [declared |-> seen.says, long |-> seen.long, left |-> seen.says]
  <2>9. Written(e) = Payload(es[n]) /\ seen.says = es[n].size
    BY <2>8 DEF Written, Payload
  <2>10. seen.says # NotOctal
    BY <1>8, <2>8, <2>9, RecompressionAssumption
  <2>11. pos = Start(es, n)
    BY <2>3, <2>7
  <2>12. ~(consumed + Block + Written(e) > tar)
    <3>1. /\ Start(es, n) \in Nat /\ Payload(es[n]) \in Nat /\ PadOf(Payload(es[n])) \in Nat
          /\ Start(es, n) + Block + Payload(es[n]) + PadOf(Payload(es[n])) <= given.length
      BY <1>8, <2>8
    <3> HIDE DEF e
    <3>2. consumed = Start(es, n) /\ tar = given.length
      BY <2>1, <2>11
    <3>3. Start(es, n) + Block + Payload(es[n]) <= given.length
      BY <1>5, <3>1
    <3> QED
      BY <1>5, <2>9, <3>1, <3>2, <3>3
  <2>13. phase' = "payload"
    BY <2>6, <2>10, <2>12 DEF BeginEntry
  <2> QED
    BY <2>13
<1>15. ~CopyPayload
  <2> SUFFICES ASSUME CopyPayload
               PROVE  FALSE
    OBVIOUS
  <2> DEFINE w == Smaller(CopyChunk, entry.left)
  <2>1. phase = "payload" /\ tar = given.length /\ pos \in Nat /\ entry.left \in Nat
        /\ entry.left > 0
    BY <1>1, <1>12 DEF CopyPayload, Typed
  <2>2. PICK k \in 1 .. Len(es) : AtPayload(es, k)
    BY <1>7, <2>1
  <2>3. pos + entry.left = Start(es, k) + Block + es[k].size
    BY <2>2 DEF AtPayload
  <2>4. pos + entry.left <= given.length
    <3>1. /\ Start(es, k) \in Nat /\ Payload(es[k]) \in Nat /\ PadOf(Payload(es[k])) \in Nat
          /\ es[k].size \in Nat
          /\ Payload(es[k]) = es[k].size + (IF es[k].long THEN 1 ELSE 0)
          /\ Start(es, k) + Block + Payload(es[k]) + PadOf(Payload(es[k])) <= given.length
      BY <1>8
    <3>2. es[k].size <= Payload(es[k])
      BY <3>1
    <3>3. /\ Start(es, k) \in Nat /\ Payload(es[k]) \in Nat /\ es[k].size \in Nat
          /\ Start(es, k) + Block + Payload(es[k]) <= given.length
      BY <1>5, <3>1
    <3>4. Start(es, k) + Block + es[k].size <= given.length
      BY <1>5, <3>2, <3>3
    <3> QED
      BY <2>3, <3>4
  <2>5. w \in Nat /\ w <= entry.left
    BY <2>1, RecompressionAssumption DEF Smaller
  <2>6. Brings(w)
    <3> HIDE DEF w
    <3> QED
      BY <1>5, <2>1, <2>4, <2>5 DEF Brings
  <2> QED
    BY <2>1, <2>6 DEF CopyPayload
<1>16. ~CopyNul
  <2> SUFFICES ASSUME CopyNul
               PROVE  FALSE
    OBVIOUS
  <2>1. phase = "payload" /\ tar = given.length /\ pos \in Nat /\ entry.left = 0
        /\ entry.long /\ ~Brings(1)
    BY <1>1, <1>12 DEF CopyNul, Typed
  <2>2. PICK k \in 1 .. Len(es) : AtPayload(es, k)
    BY <1>7, <2>1
  <2>3. pos + entry.left = Start(es, k) + Block + es[k].size /\ entry.long = es[k].long
    BY <2>2 DEF AtPayload, Copying
  <2>4. Payload(es[k]) = es[k].size + 1
    BY <1>8, <2>1, <2>3
  <2>5. pos + 1 <= given.length
    <3>1. /\ Start(es, k) \in Nat /\ Payload(es[k]) \in Nat /\ PadOf(Payload(es[k])) \in Nat
          /\ es[k].size \in Nat
          /\ Payload(es[k]) = es[k].size + (IF es[k].long THEN 1 ELSE 0)
          /\ Start(es, k) + Block + Payload(es[k]) + PadOf(Payload(es[k])) <= given.length
      BY <1>8
    <3>2. pos = Start(es, k) + Block + es[k].size
      BY <2>1, <2>3
    <3>3. /\ Start(es, k) \in Nat /\ es[k].size \in Nat /\ Payload(es[k]) \in Nat
          /\ Start(es, k) + Block + Payload(es[k]) <= given.length
      BY <1>5, <3>1
    <3>4. Start(es, k) + Block + es[k].size + 1 <= given.length
      BY <1>5, <2>4, <3>3
    <3> QED
      BY <3>2, <3>4
  <2> QED
    BY <1>5, <2>1, <2>5 DEF Brings
<1>17. ~CopyPadding
  <2> SUFFICES ASSUME CopyPadding
               PROVE  FALSE
    OBVIOUS
  <2> DEFINE n == Padding(entry)
  <2>1. phase = "padding" /\ tar = given.length /\ pos \in Nat
    BY <1>1, <1>12 DEF CopyPadding, Typed
  <2>2. PICK k \in 1 .. Len(es) : AtPadding(es, k)
    BY <1>7, <2>1
  <2>3. Copying(es[k]) /\ pos = Start(es, k) + Block + Payload(es[k])
    BY <2>2 DEF AtPadding
  <2>4. n = PadOf(Payload(es[k]))
    BY <1>8, <2>3 DEF Padding, Written, Payload, Copying
  <2>5. Brings(n)
    <3> HIDE DEF n
    <3> QED
      BY <1>5, <1>8, <2>1, <2>3, <2>4 DEF Brings
  <2> QED
    BY <2>1, <2>5 DEF CopyPadding
<1> QED
  BY <1>9, <1>10, <1>11, <1>13, <1>14, <1>15, <1>16, <1>17 DEF RecompressionNext, Obtain, Replay

-----------------------------------------------------------------------------
(* What the encoder is handed. *)

THEOREM RecompressionInvariant == RecompressionSpec => []RInv
<1>1. RecompressionInit => RInv
  <2>1. RecompressionInit => NeverRefused
    BY DEF RecompressionInit, NeverRefused
  <2> QED
    BY <2>1, CoreInit, ReplayInit DEF RInv
<1>2. RInv /\ [RecompressionNext]_vars => RInv'
  <2> SUFFICES ASSUME RInv, [RecompressionNext]_vars
               PROVE  RInv'
    OBVIOUS
  <2>1. Core /\ ReplayOK /\ NeverRefused
    BY DEF RInv
  <2>2. Core'
    BY <2>1, CoreStep
  <2>3. ReplayOK'
    BY <2>1, ReplayStep
  <2>4. NeverRefused'
    BY <2>1, RefusalStep
  <2> QED
    BY <2>2, <2>3, <2>4 DEF RInv
<1> QED
  BY <1>1, <1>2, PTL DEF RecompressionSpec

\* recompress.rs: what the writer made of any bundle is replayed to its end, every
\* entry found where it is, or is refused for its size alone, unless a long name fills
\* its last block: then the byte that the replay takes for its NUL is the next header's.
THEOREM WriterIsNeverRefused == RecompressionSpec => []IntactIsReplayed
<1>1. RInv => IntactIsReplayed
  <2> SUFFICES ASSUME RInv, Intact(given), NamesArePadded(given.entries)
               PROVE  /\ phase = "refused" => given.length > given.limit \/ given.length > MaxTarBytes
                      /\ phase = "done" => pos = End(given.entries) + Block
    BY DEF IntactIsReplayed
  <2>1. phase = "refused" => given.length > given.limit \/ given.length > MaxTarBytes
    BY DEF RInv, NeverRefused
  <2>2. Regular(given) /\ given.entries \in Seq(Entry)
    BY DEF RInv, Core, GivenOK, Regular, Honest, Intact
  <2>3. phase = "done" => pos = End(AsRead(given.entries)) + Block
    BY <2>2 DEF RInv, ReplayOK
  <2>4. End(AsRead(given.entries)) = End(given.entries)
    BY <2>2, ReadSpans
  <2> QED
    BY <2>1, <2>3, <2>4
<1> QED
  BY <1>1, RecompressionInvariant, PTL

\* recompress.rs: for every archive whose headers are true and whose names are short,
\* of any number of entries of any size, the encoder is handed the writer's pieces,
\* one by one in their order, and all of them when the replay is done.
THEOREM ReplayIsTheWriters == RecompressionSpec => []ReplayedAsWritten
<1>1. RInv => ReplayedAsWritten
  <2> SUFFICES ASSUME RInv, Honest(given), phase \in Replaying,
                      \A i \in DOMAIN given.entries : ~given.entries[i].long
               PROVE  IF phase = "done" THEN pieces = WriterPieces(given.entries)
                      ELSE IsStrictPrefix(pieces, WriterPieces(given.entries))
    BY DEF ReplayedAsWritten, Honest, Replaying
  <2> PICK es : es = given.entries
    OBVIOUS
  <2>1. es \in Seq(Entry) /\ Len(es) \in Nat /\ pieces \in Seq(Piece) /\ entry.left \in Nat
    BY DEF RInv, Core, GivenOK, Typed
  <2>a. AsRead(es) = es
    <3>1. \A i \in DOMAIN es : [size |-> Payload(es[i]), long |-> es[i].long] = es[i]
      <4> TAKE i \in DOMAIN es
      <4>1. es[i] \in Entry /\ ~es[i].long
        BY <2>1
      <4>2. Payload(es[i]) = es[i].size
        BY <4>1 DEF Payload
      <4> QED
        BY <4>1, <4>2 DEF Entry
    <3> QED
      <4>1. es = [i \in DOMAIN es |-> es[i]]
        BY <2>1
      <4>2. AsRead(es) = [i \in DOMAIN es |-> es[i]]
        BY <3>1 DEF AsRead
      <4> QED
        BY <4>1, <4>2
  <2>b. Regular(given)
    BY DEF Regular, NamesArePadded
  <2>2. /\ phase = "header" => \E k \in 0 .. Len(es) : AtHeader(es, k)
        /\ phase = "payload" => \E k \in 1 .. Len(es) : AtPayload(es, k)
        /\ phase = "padding" => \E k \in 1 .. Len(es) : AtPadding(es, k)
        /\ phase = "done" => pieces = WriterPieces(es)
    BY <2>a, <2>b DEF RInv, ReplayOK
  <2>3. CASE phase = "done"
    BY <2>2, <2>3
  <2>4. ASSUME Leads(pieces, WriterPieces(es)), phase # "done"
        PROVE  IF phase = "done" THEN pieces = WriterPieces(given.entries)
               ELSE IsStrictPrefix(pieces, WriterPieces(given.entries))
    BY <2>1, <2>4, LeadsIsStrict
  <2>5. CASE phase = "header"
    <3>1. PICK k \in 0 .. Len(es) : AtHeader(es, k)
      BY <2>2, <2>5
    <3>2. pieces = Flat(es, k)
      BY <3>1 DEF AtHeader
    <3>3. Leads(pieces, WriterPieces(es))
      BY <2>1, <3>2, FlatLeads
    <3> QED
      BY <2>4, <2>5, <3>3
  <2>6. CASE phase = "payload"
    <3>1. PICK k \in 1 .. Len(es) : AtPayload(es, k)
      BY <2>2, <2>6
    <3>2. pieces \o Chunks(entry.left) = Flat(es, k - 1) \o Begun(es[k])
      BY <3>1 DEF AtPayload
    <3>3. Leads(Flat(es, k - 1) \o Begun(es[k]), WriterPieces(es))
      BY <2>1, EntryLeads
    <3>4. Leads(pieces \o Chunks(entry.left), WriterPieces(es))
      BY <3>2, <3>3
    <3>5. Chunks(entry.left) \in Seq(Piece)
      BY <2>1, ChunksType
    <3>6. Leads(pieces, WriterPieces(es))
      BY <2>1, <3>4, <3>5, LeadsFurther
    <3> QED
      BY <2>4, <2>6, <3>6
  <2>7. CASE phase = "padding"
    <3>1. PICK k \in 1 .. Len(es) : AtPadding(es, k)
      BY <2>2, <2>7
    <3>2. pieces = Flat(es, k - 1) \o Named(es[k])
      BY <3>1 DEF AtPadding
    <3>3. Leads(Flat(es, k - 1) \o Named(es[k]), WriterPieces(es))
      BY <2>1, EntryLeads
    <3>4. Leads(pieces, WriterPieces(es))
      BY <3>2, <3>3
    <3> QED
      BY <2>4, <2>7, <3>4
  <2> QED
    BY <2>3, <2>5, <2>6, <2>7 DEF Replaying
<1> QED
  BY <1>1, RecompressionInvariant, PTL

=============================================================================
