---------------------------- MODULE Delivery_proofs ---------------------------
(* Proofs about Undelivered and Delivery, for any senders, any sizes and       *)
(* numbers of messages, logins and restarts: what undel_load reads is what     *)
(* undel_add_message wrote, and a message is sent once.                        *)
EXTENDS Delivery, SequenceTheorems, WellFoundedInduction, TLAPS
(* Induction over a set of numbers: the least number not in it does not exist. *)
LEMMA Least ==
    ASSUME NEW T \in SUBSET Nat, T # {}
    PROVE  \E n \in T : \A k \in T : n <= k
  <1> DEFINE R == {p \in Nat \X Nat : p[1] < p[2]}
  <1>1. IsWellFoundedOn(R, Nat)
    BY NatLessThanWellFounded DEF OpToRel
  <1>2. PICK n \in T : \A k \in T : <<k, n>> \notin R
    <2> HIDE DEF R
    <2> QED
      BY <1>1, WFMin
  <1>3. \A k \in T : n <= k
    <2> SUFFICES ASSUME NEW k \in T PROVE n <= k
      OBVIOUS
    <2>1. k \in Nat /\ n \in Nat
      OBVIOUS
    <2>2. <<k, n>> \notin R
      BY <1>2
    <2> QED
      BY <2>1, <2>2
  <1> QED
    BY <1>3

(* Induction over 0 .. N.                                                       *)
LEMMA UpTo ==
    ASSUME NEW N \in Nat, NEW T, 0 \in T,
           \A k \in 1 .. N : k - 1 \in T => k \in T
    PROVE  0 .. N \subseteq T
  <1> DEFINE Bad == {k \in 0 .. N : k \notin T}
  <1>1. ASSUME Bad # {} PROVE FALSE
    <2>1. PICK n \in Bad : \A k \in Bad : n <= k
      <3>1. Bad \in SUBSET Nat
        OBVIOUS
      <3> HIDE DEF Bad
      <3> QED
        BY <1>1, <3>1, Least
    <2>2. n \in 1 .. N /\ n - 1 \in 0 .. N
      OBVIOUS
    <2>3. n - 1 \in T
      <3>1. n - 1 \notin Bad
        BY <2>1, <2>2
      <3> QED
        BY <2>2, <3>1
    <2> QED
      BY <2>2, <2>3
  <1> QED
    BY <1>1
LEMMA UpToLast ==
    ASSUME NEW N \in Nat, NEW T, 0 \in T,
           \A k \in 1 .. N : k - 1 \in T => k \in T
    PROVE  N \in T
  <1>1. 0 .. N \subseteq T
    BY Zenon, UpTo
  <1> QED
    BY <1>1

(* A value that a loop of N turns changes: there is the function of its values.*)
Trace(g, V, base, N, f) ==
    /\ g \in [0 .. N -> V]
    /\ g[0] = base
    /\ \A k \in 1 .. N : g[k] = f[k][g[k - 1]]

LEMMA Iterate ==
    ASSUME NEW V, NEW base \in V, NEW N \in Nat,
           NEW f \in [1 .. N -> [V -> V]]
    PROVE  \E g : Trace(g, V, base, N, f)
  <1> DEFINE T == {n \in 0 .. N : \E g : Trace(g, V, base, n, f)}
  <1>1. 0 \in T
    <2>1. Trace([k \in 0 .. 0 |-> base], V, base, 0, f)
      BY DEF Trace
    <2> QED
      BY <2>1
  <1>2. ASSUME NEW n \in 1 .. N, n - 1 \in T PROVE n \in T
    <2>1. PICK g : Trace(g, V, base, n - 1, f)
      BY <1>2
    <2> DEFINE h == [k \in 0 .. n |-> IF k = n THEN f[n][g[n - 1]] ELSE g[k]]
    <2>2. n - 1 \in 0 .. n - 1 /\ g[n - 1] \in V
      BY <2>1 DEF Trace
    <2>3. f[n][g[n - 1]] \in V
      BY <2>2
    <2>4. h \in [0 .. n -> V]
      BY <2>1, <2>3 DEF Trace
    <2>5. h[0] = base
      BY <2>1 DEF Trace
    <2>6. ASSUME NEW k \in 1 .. n PROVE h[k] = f[k][h[k - 1]]
      <3>1. CASE k = n
        BY <3>1
      <3>2. CASE k # n
        <4>1. k \in 1 .. n - 1 /\ k - 1 \in 0 .. n - 1 /\ k - 1 # n /\ k \in 0 .. n
          BY <3>2
        <4>2. h[k] = g[k] /\ h[k - 1] = g[k - 1]
          BY <3>2, <4>1
        <4> QED
          BY <4>1, <4>2, <2>1 DEF Trace
      <3> QED
        BY <3>1, <3>2
    <2>7. Trace(h, V, base, n, f)
      <3> HIDE DEF h
      <3> QED
        BY <2>4, <2>5, <2>6 DEF Trace
    <2> QED
      BY <2>7
  <1>3. N \in T
    <2> HIDE DEF T
    <2>1. 0 .. N \subseteq T
      BY <1>1, <1>2, UpTo
    <2> QED
      BY <2>1
  <1> QED
    BY <1>3

-------------------------------------------------------------------------------
Cell == [kind : {"code", "text", "hole", "bad"}, of : Seq(Message), part : Nat]

LEMMA ConcatAt ==
    ASSUME NEW T, NEW p \in Seq(T), NEW q \in Seq(T)
    PROVE  /\ p \o q \in Seq(T)
           /\ Len(p) \in Nat /\ Len(q) \in Nat /\ Len(p \o q) = Len(p) + Len(q)
           /\ \A i \in 1 .. Len(p) : i \in 1 .. Len(p \o q) /\ (p \o q)[i] = p[i]
           /\ \A i \in 1 .. Len(q) : /\ Len(p) + i \in 1 .. Len(p \o q)
                                    /\ (p \o q)[Len(p) + i] = q[i]
           /\ \A i \in 1 .. Len(p \o q) :
                 i > Len(p) => /\ i - Len(p) \in 1 .. Len(q)
                               /\ (p \o q)[i] = q[i - Len(p)]
  OBVIOUS

LEMMA BlockType ==
    ASSUME NEW x \in Message, NEW c \in Cell
    PROVE  /\ BlockOf(x, c) \in Seq(Cell)
           /\ Len(BlockOf(x, c)) = Size[x[1]] + 1
           /\ Size[x[1]] \in Nat \ {0}
           /\ \A i \in 1 .. Size[x[1]] : BlockOf(x, c)[i] = Text(x, i)
           /\ BlockOf(x, c)[Size[x[1]] + 1] = c
  <1>1. Size[x[1]] \in Nat \ {0}
    BY UndeliveredAssumption DEF Message
  <1>2. \A i \in 1 .. Size[x[1]] : Text(x, i) \in Cell
    BY DEF Text, Cell
  <1> DEFINE t == [i \in 1 .. Size[x[1]] |-> Text(x, i)]
  <1>3. t \in Seq(Cell) /\ Len(t) = Size[x[1]]
    BY <1>1, <1>2
  <1>4. BlockOf(x, c) = t \o <<c>>
    BY DEF BlockOf
  <1>5. \A i \in 1 .. Size[x[1]] : t[i] = Text(x, i)
    OBVIOUS
  <1> HIDE DEF t
  <1> QED
    BY SMTT(30), <1>1, <1>3, <1>4, <1>5

LEMMA CodeType ==
    ASSUME NEW S \in Seq(Message)
    PROVE  Code(S) \in Cell
  BY DEF Code, Cell

LEMMA PrefixType ==
    ASSUME NEW S \in Seq(Message), NEW k \in 0 .. Len(S)
    PROVE  SubSeq(S, 1, k) \in Seq(Message) /\ Len(SubSeq(S, 1, k)) = k
  OBVIOUS

(* The k-th block of the file of S; and g[k]: its first k blocks.              *)
BlockAt(S, k) == BlockOf(S[k], Code(SubSeq(S, 1, k)))
Blocks(g, S) ==
    /\ g \in [0 .. Len(S) -> Seq(Cell)]
    /\ g[0] = <<>>
    /\ \A k \in 1 .. Len(S) : g[k] = g[k - 1] \o BlockAt(S, k)

LEMMA BlockAtType ==
    ASSUME NEW S \in Seq(Message), NEW k \in 1 .. Len(S)
    PROVE  /\ BlockAt(S, k) \in Seq(Cell)
           /\ Len(BlockAt(S, k)) = Size[S[k][1]] + 1
           /\ Size[S[k][1]] \in Nat \ {0}
           /\ \A i \in 1 .. Size[S[k][1]] : BlockAt(S, k)[i] = Text(S[k], i)
           /\ BlockAt(S, k)[Size[S[k][1]] + 1] = Code(SubSeq(S, 1, k))
  <1>1. S[k] \in Message /\ k \in 0 .. Len(S)
    OBVIOUS
  <1>2. Code(SubSeq(S, 1, k)) \in Cell
    BY <1>1, PrefixType, CodeType
  <1> QED
    BY <1>1, <1>2, BlockType DEF BlockAt

LEMMA BlocksStep ==
    ASSUME NEW S \in Seq(Message), NEW g, Blocks(g, S), NEW k \in 1 .. Len(S)
    PROVE  /\ g[k] = g[k - 1] \o BlockAt(S, k)
           /\ g[k] \in Seq(Cell) /\ g[k - 1] \in Seq(Cell)
  <1>1. k \in 0 .. Len(S) /\ k - 1 \in 0 .. Len(S)
    OBVIOUS
  <1> QED
    BY <1>1 DEF Blocks

LEMMA BlocksExist ==
    ASSUME NEW S \in Seq(Message)
    PROVE  \E g : Blocks(g, S)
  <1> DEFINE f == [k \in 1 .. Len(S) |-> [v \in Seq(Cell) |-> v \o BlockAt(S, k)]]
  <1>1. \A k \in 1 .. Len(S) : BlockAt(S, k) \in Seq(Cell)
    BY BlockAtType
  <1>2. <<>> \in Seq(Cell) /\ Len(S) \in Nat
    OBVIOUS
  <1>3. f \in [1 .. Len(S) -> [Seq(Cell) -> Seq(Cell)]]
    BY <1>1
  <1>4. PICK g : Trace(g, Seq(Cell), <<>>, Len(S), f)
    <2> HIDE DEF f
    <2> QED
      BY <1>2, <1>3, Iterate
  <1>5. g \in [0 .. Len(S) -> Seq(Cell)] /\ g[0] = <<>>
    BY <1>4 DEF Trace
  <1>6. ASSUME NEW k \in 1 .. Len(S) PROVE g[k] = g[k - 1] \o BlockAt(S, k)
    <2>1. g[k - 1] \in Seq(Cell)
      BY <1>5
    <2>2. g[k] = f[k][g[k - 1]]
      <3> HIDE DEF f
      <3> QED
        BY <1>4 DEF Trace
    <2> QED
      BY <2>1, <2>2
  <1>7. Blocks(g, S)
    BY <1>5, <1>6 DEF Blocks
  <1> QED
    BY <1>7

LEMMA BlocksFile ==
    ASSUME NEW S \in Seq(Message)
    PROVE  \E g : Blocks(g, S) /\ FileOf(S) = g[Len(S)]
  <1> DEFINE Eq(g) == g = [k \in 0 .. Len(S) |->
                 IF k = 0 THEN <<>>
                 ELSE g[k - 1] \o BlockAt(S, k)]
  <1>1. PICK h : Blocks(h, S)
    BY BlocksExist
  <1>2. Eq(h)
    <2>1. h \in [0 .. Len(S) -> Seq(Cell)]
      BY <1>1 DEF Blocks
    <2>2. \A k \in 0 .. Len(S) : h[k] = IF k = 0 THEN <<>> ELSE h[k - 1] \o BlockAt(S, k)
      BY <1>1 DEF Blocks
    <2> QED
      BY <2>1, <2>2
  <1> DEFINE g == CHOOSE g : Eq(g)
  <1>3. Eq(g)
    <2> HIDE DEF Eq
    <2> QED
      BY <1>2
  <1>4. FileOf(S) = g[Len(S)]
    BY DEF FileOf, BlockAt
  <1> HIDE DEF g
  <1>5. g[0] = <<>> /\ \A k \in 1 .. Len(S) :
          g[k] = g[k - 1] \o BlockAt(S, k)
    <2>1. 0 \in 0 .. Len(S) /\ \A k \in 1 .. Len(S) : k \in 0 .. Len(S) /\ k # 0
      OBVIOUS
    <2>2. \A k \in 0 .. Len(S) : g[k] = IF k = 0 THEN <<>> ELSE g[k - 1] \o BlockAt(S, k)
      BY <1>3
    <2> QED
      BY <2>1, <2>2
  <1> DEFINE T == {k \in 0 .. Len(S) : g[k] = h[k]}
  <1>6. 0 .. Len(S) \subseteq T
    <2>1. 0 \in T
      BY <1>1, <1>5 DEF Blocks
    <2>2. \A k \in 1 .. Len(S) : k - 1 \in T => k \in T
      <3>1. \A k \in 1 .. Len(S) : k \in 0 .. Len(S)
        OBVIOUS
      <3> QED
        BY <1>1, <1>5, <3>1 DEF Blocks
    <2>3. Len(S) \in Nat
      OBVIOUS
    <2> HIDE DEF T
    <2> QED
      BY <2>1, <2>2, <2>3, UpTo
  <1>7. Len(S) \in T
    BY <1>6
  <1>8. g[Len(S)] = h[Len(S)]
    BY <1>7
  <1> QED
    BY <1>1, <1>4, <1>8

LEMMA BlocksUnique ==
    ASSUME NEW S \in Seq(Message), NEW g, Blocks(g, S),
           NEW R \in Seq(Message), NEW h, Blocks(h, R), Len(S) <= Len(R),
           \A k \in 1 .. Len(S) : S[k] = R[k] /\ SubSeq(S, 1, k) = SubSeq(R, 1, k)
    PROVE  g[Len(S)] = h[Len(S)]
  <1> DEFINE T == {k \in 0 .. Len(S) : g[k] = h[k]}
  <1>1. 0 \in T
    BY DEF Blocks
  <1>2. ASSUME NEW k \in 1 .. Len(S), k - 1 \in T PROVE k \in T
    <2>1. k \in 1 .. Len(R) /\ k \in 0 .. Len(S)
      OBVIOUS
    <2>2. BlockAt(S, k) = BlockAt(R, k)
      BY DEF BlockAt
    <2>3. g[k] = g[k - 1] \o BlockAt(S, k) /\ h[k] = h[k - 1] \o BlockAt(R, k)
      BY <2>1 DEF Blocks
    <2> QED
      BY <1>2, <2>1, <2>2, <2>3
  <1>3. 0 .. Len(S) \subseteq T
    <2>3. Len(S) \in Nat
      OBVIOUS
    <2> HIDE DEF T
    <2> QED
      BY <1>1, <1>2, <2>3, UpTo
  <1> QED
    BY <1>3

(* The file of one message more.                                               *)
LEMMA FileAppend ==
    ASSUME NEW S \in Seq(Message), NEW x \in Message
    PROVE  FileOf(Append(S, x)) = FileOf(S) \o BlockOf(x, Code(Append(S, x)))
  <1> DEFINE R == Append(S, x)
  <1> DEFINE n == Len(S)
  <1>1. R \in Seq(Message) /\ Len(R) = n + 1 /\ R[n + 1] = x
    OBVIOUS
  <1>2. SubSeq(R, 1, n + 1) = R
    BY <1>1
  <1>3. \A k \in 1 .. n : S[k] = R[k] /\ SubSeq(S, 1, k) = SubSeq(R, 1, k)
    OBVIOUS
  <1> HIDE DEF R
  <1>4. PICK g : Blocks(g, S) /\ FileOf(S) = g[Len(S)]
    BY BlocksFile
  <1>5. PICK h : Blocks(h, R) /\ FileOf(R) = h[Len(R)]
    BY <1>1, BlocksFile
  <1>6. g[n] = h[n]
    BY <1>1, <1>3, <1>4, <1>5, BlocksUnique
  <1>7. h[n + 1] = h[n] \o BlockOf(x, Code(R))
    <2>1. PICK k : k = n + 1
      OBVIOUS
    <2>2. k \in 1 .. Len(R) /\ k - 1 = n /\ R[k] = x
      BY <1>1, <2>1
    <2>3. BlockAt(R, k) = BlockOf(x, Code(R))
      BY <1>2, <2>1, <2>2 DEF BlockAt
    <2>4. h[k] = h[k - 1] \o BlockAt(R, k)
      BY <1>1, <1>5, <2>2, BlocksStep
    <2> QED
      BY <2>1, <2>2, <2>3, <2>4
  <1>8. FileOf(R) = FileOf(S) \o BlockOf(x, Code(R))
    BY <1>1, <1>4, <1>5, <1>6, <1>7
  <1> QED
    BY <1>8 DEF R

LEMMA FileEmpty == FileOf(<<>>) = <<>>
  <1>1. <<>> \in Seq(Message) /\ Len(<<>>) = 0
    OBVIOUS
  <1> QED
    BY <1>1, BlocksFile DEF Blocks

(* What the file of S holds: S is read from its last cell, and every code in it*)
(* is that of a first part of S.                                               *)
CodesIn(c, S, n) ==
    \A p \in 1 .. Len(c) : c[p].kind = "code" => \E i \in 1 .. n : c[p] = Code(SubSeq(S, 1, i))

LEMMA FileType ==
    ASSUME NEW S \in Seq(Message)
    PROVE  /\ FileOf(S) \in Seq(Cell)
           /\ S = <<>> => FileOf(S) = <<>>
           /\ S # <<>> => /\ FileOf(S) # <<>>
                          /\ FileOf(S)[Len(FileOf(S))] = Code(S)
           /\ CodesIn(FileOf(S), S, Len(S))
  <1>1. PICK g : Blocks(g, S) /\ FileOf(S) = g[Len(S)]
    BY BlocksFile
  <1>2. \A k \in 0 .. Len(S) : g[k] \in Seq(Cell)
    BY <1>1 DEF Blocks
  <1>3. ASSUME S # <<>>
        PROVE  FileOf(S) # <<>> /\ FileOf(S)[Len(FileOf(S))] = Code(S)
    <2> DEFINE n == Len(S)
    <2>1. n \in 1 .. Len(S) /\ S[n] \in Message /\ SubSeq(S, 1, n) = S
      BY <1>3
    <2> HIDE DEF n
    <2> DEFINE b == BlockAt(S, n)
    <2> DEFINE c == g[n - 1]
    <2>2. g[n] = c \o b
      BY <1>1, <2>1, BlocksStep
    <2>3. c \in Seq(Cell)
      BY <1>1, <2>1, BlocksStep
    <2>4. /\ b \in Seq(Cell) /\ Len(b) = Size[S[n][1]] + 1 /\ Size[S[n][1]] \in Nat
          /\ b[Size[S[n][1]] + 1] = Code(S)
      BY <2>1, BlockAtType
    <2> HIDE DEF b
    <2>5. Len(b) \in 1 .. Len(b) /\ b[Len(b)] = Code(S)
      BY <2>4
    <2> HIDE DEF c
    <2>6. /\ c \o b \in Seq(Cell) /\ Len(c \o b) = Len(c) + Len(b) /\ Len(c) \in Nat
          /\ (c \o b)[Len(c) + Len(b)] = b[Len(b)]
      <3>1. /\ c \o b \in Seq(Cell) /\ Len(c \o b) = Len(c) + Len(b) /\ Len(c) \in Nat
            /\ \A i \in 1 .. Len(b) : (c \o b)[Len(c) + i] = b[i]
        <4>1. b \in Seq(Cell)
          BY <2>4
        <4> QED
          BY <2>3, <4>1, ConcatAt
      <3> QED
        BY <2>5, <3>1
    <2>7. g[n] \in Seq(Cell) /\ Len(g[n]) # 0 /\ g[n][Len(g[n])] = Code(S)
      BY <2>2, <2>4, <2>5, <2>6
    <2>8. FileOf(S) = g[n]
      BY <1>1 DEF n
    <2>9. FileOf(S) # <<>>
      BY <2>7, <2>8
    <2> QED
      BY <2>7, <2>8, <2>9
  <1> DEFINE T == {k \in 0 .. Len(S) : CodesIn(g[k], S, k)}
  <1>4. 0 \in T
    BY <1>1 DEF Blocks, CodesIn
  <1>5. ASSUME NEW k \in 1 .. Len(S), k - 1 \in T PROVE k \in T
    <2> DEFINE b == BlockAt(S, k)
    <2>1. g[k] = g[k - 1] \o b /\ g[k - 1] \in Seq(Cell)
      BY <1>1, <1>2 DEF Blocks
    <2>2. CodesIn(g[k - 1], S, k - 1)
      BY <1>5
    <2>3. S[k] \in Message
      OBVIOUS
    <2>4. /\ b \in Seq(Cell) /\ Len(b) = Size[S[k][1]] + 1 /\ Size[S[k][1]] \in Nat
          /\ \A i \in 1 .. Size[S[k][1]] : b[i] = Text(S[k], i)
          /\ b[Len(b)] = Code(SubSeq(S, 1, k))
      BY BlockAtType
    <2> HIDE DEF b
    <2>5. \A i \in 1 .. Len(b) : b[i].kind = "code" => b[i] = Code(SubSeq(S, 1, k))
      <3> SUFFICES ASSUME NEW i \in 1 .. Len(b), b[i].kind = "code", i # Len(b)
                   PROVE  FALSE
        BY <2>4
      <3>1. b[i] = Text(S[k], i)
        BY <2>4
      <3> QED
        BY <3>1 DEF Text
    <2>6. CodesIn(g[k - 1] \o b, S, k)
      <3> SUFFICES ASSUME NEW p \in 1 .. Len(g[k - 1] \o b),
                          (g[k - 1] \o b)[p].kind = "code"
                   PROVE  \E i \in 1 .. k : (g[k - 1] \o b)[p] = Code(SubSeq(S, 1, i))
        BY DEF CodesIn
      <3>1. CASE p <= Len(g[k - 1])
        <4>1. (g[k - 1] \o b)[p] = g[k - 1][p] /\ p \in 1 .. Len(g[k - 1])
          BY <2>1, <2>4, <3>1, ConcatAt
        <4>2. 1 .. k - 1 \subseteq 1 .. k
          OBVIOUS
        <4> QED
          BY <2>2, <4>1, <4>2 DEF CodesIn
      <3>2. CASE p > Len(g[k - 1])
        <4> DEFINE c == g[k - 1]
        <4>1. c \in Seq(Cell) /\ p \in 1 .. Len(c \o b) /\ p > Len(c)
          BY <2>1, <3>2
        <4> HIDE DEF c
        <4>2. (c \o b)[p] = b[p - Len(c)] /\ p - Len(c) \in 1 .. Len(b)
          <5>1. \A i \in 1 .. Len(c \o b) :
                   i > Len(c) => /\ i - Len(c) \in 1 .. Len(b)
                                 /\ (c \o b)[i] = b[i - Len(c)]
            BY ZenonT(60), <2>4, <4>1, ConcatAt
          <5> QED
            BY Zenon, <4>1, <5>1
        <4> QED
          BY <2>5, <4>2 DEF c
      <3> QED
        BY <2>1, <3>1, <3>2
    <2>7. k \in 0 .. Len(S) /\ CodesIn(g[k], S, k)
      BY <2>1, <2>6
    <2> QED
      BY <2>7
  <1>6. Len(S) \in T
    <2>1. PICK N \in Nat : N = Len(S)
      OBVIOUS
    <2>2. \A k \in 1 .. N : k - 1 \in T => k \in T
      BY Zenon, <1>5, <2>1
    <2> HIDE DEF T
    <2>3. N \in T
      BY Zenon, <1>4, <2>2, UpToLast
    <2> QED
      BY Zenon, <2>1, <2>3
  <1>7. S = <<>> => FileOf(S) = <<>>
    BY FileEmpty
  <1> QED
    BY <1>1, <1>2, <1>3, <1>6, <1>7

(* Where the file of S holds its messages: in their order.                     *)
TextsIn(c, S, n) ==
    /\ \A i \in 1 .. n : \E p \in 1 .. Len(c) : c[p] = Text(S[i], 1)
    /\ \A i, j \in 1 .. n : i < j =>
          \E p, q \in 1 .. Len(c) : p < q /\ c[p] = Text(S[i], 1) /\ c[q] = Text(S[j], 1)

LEMMA FileTexts ==
    ASSUME NEW S \in Seq(Message)
    PROVE  TextsIn(FileOf(S), S, Len(S))
  <1>1. PICK g : Blocks(g, S) /\ FileOf(S) = g[Len(S)]
    BY BlocksFile
  <1>2. \A k \in 0 .. Len(S) : g[k] \in Seq(Cell)
    BY <1>1 DEF Blocks
  <1> DEFINE T == {k \in 0 .. Len(S) : TextsIn(g[k], S, k)}
  <1>3. 0 \in T
    BY DEF TextsIn
  <1>4. ASSUME NEW k \in 1 .. Len(S), k - 1 \in T PROVE k \in T
    <2> DEFINE b == BlockAt(S, k)
    <2> DEFINE c == g[k - 1]
    <2> DEFINE d == c \o b
    <2>1. g[k] = d /\ c \in Seq(Cell)
      BY <1>1, <1>2 DEF Blocks
    <2>2. TextsIn(c, S, k - 1)
      BY <1>4
    <2>3. S[k] \in Message
      OBVIOUS
    <2>4. b \in Seq(Cell) /\ Len(b) >= 1 /\ b[1] = Text(S[k], 1)
      <3>1. 1 \in 1 .. Size[S[k][1]]
        BY BlockAtType
      <3> QED
        BY <3>1, BlockAtType
    <2> HIDE DEF b, c
    <2>5. /\ \A p \in 1 .. Len(c) : p \in 1 .. Len(d) /\ d[p] = c[p]
          /\ Len(c) \in Nat
          /\ Len(c) + 1 \in 1 .. Len(d) /\ d[Len(c) + 1] = Text(S[k], 1)
      BY <2>1, <2>4
    <2> HIDE DEF d
    <2>6. ASSUME NEW i \in 1 .. k PROVE \E p \in 1 .. Len(d) : d[p] = Text(S[i], 1)
      <3>1. CASE i = k
        BY <2>5, <3>1
      <3>2. CASE i # k
        BY <2>2, <2>5, <3>2 DEF TextsIn
      <3> QED
        BY <3>1, <3>2
    <2>7. ASSUME NEW i \in 1 .. k, NEW j \in 1 .. k, i < j
          PROVE  \E p, q \in 1 .. Len(d) :
                    p < q /\ d[p] = Text(S[i], 1) /\ d[q] = Text(S[j], 1)
      <3>1. i \in 1 .. k - 1
        BY <2>7
      <3>2. CASE j = k
        <4>1. PICK p \in 1 .. Len(c) : c[p] = Text(S[i], 1)
          BY <2>2, <3>1 DEF TextsIn
        <4>2. p < Len(c) + 1
          BY <2>5
        <4> QED
          BY <2>5, <3>2, <4>1, <4>2
      <3>3. CASE j # k
        <4>1. j \in 1 .. k - 1
          BY <3>3
        <4> QED
          BY SMTT(30), <2>2, <2>5, <2>7, <3>1, <4>1 DEF TextsIn
      <3> QED
        BY <3>2, <3>3
    <2>8. TextsIn(d, S, k)
      BY <2>6, <2>7 DEF TextsIn
    <2> QED
      BY <2>1, <2>8
  <1>5. Len(S) \in T
    <2>1. PICK N \in Nat : N = Len(S)
      OBVIOUS
    <2>2. \A k \in 1 .. N : k - 1 \in T => k \in T
      BY Zenon, <1>4, <2>1
    <2> HIDE DEF T
    <2>3. N \in T
      BY Zenon, <1>3, <2>2, UpToLast
    <2> QED
      BY Zenon, <2>1, <2>3
  <1> QED
    BY <1>1, <1>5

-------------------------------------------------------------------------------
Head0 == {h \in [end : Nat, number : Nat] : h.end = 0 => h.number = 0}
Heads == Head0 \cup {NoHeader}
Busy(t) == pc[t] # "idle"

(* The messages whose call has returned or was given up, or which went to a    *)
(* session: no call will send or store them again.                             *)
Done == {x \in Message :
            /\ x[2] <= nadds[x[1]]
            /\ Busy(x[1]) => x[2] < nadds[x[1]]}

Once(q) == \A i, j \in 1 .. Len(q) : q[i] = q[j] => i = j
In(x, q) == \E i \in 1 .. Len(q) : q[i] = x
TextOf(x, c) == \E i \in 1 .. Len(c), k \in Nat : c[i] = Text(x, k)
OneText(c) ==
    \A i, j \in 1 .. Len(c) : c[i].kind = "text" /\ c[i] = c[j] => i = j

Types ==
    /\ overlap \in BOOLEAN
    /\ header \in Heads /\ cells \in Seq(Cell)
    /\ pc \in [Adder -> {"idle", "header", "prev", "block"}]
    /\ m \in [Adder -> Message]
    /\ seen \in [Adder -> Heads]
    /\ prev \in [Adder -> Cell]
    /\ nadds \in [Adder -> Nat] /\ \A t \in Adder : nadds[t] \in 0 .. MaxAdds[t]
    /\ lpc \in {"idle", "truncate", "init"}
    /\ loaded \in Seq(Message) /\ taken \in Seq(Message)
    /\ cut \in BOOLEAN
    /\ nloads \in 0 .. MaxLoads /\ ncrashes \in 0 .. MaxCrashes
    /\ added \subseteq Message

(* What holds even when calls overlap and the server stops in them.            *)
Fresh ==
    /\ \A t \in Adder : Busy(t) => /\ seen[t] # NoHeader
                                   /\ m[t] = <<t, nadds[t]>> /\ nadds[t] >= 1
    /\ added \subseteq Done
    /\ OneText(cells) /\ \A x \in Message : TextOf(x, cells) => x \in Done
    /\ Once(loaded) /\ \A x \in Message : In(x, loaded) => x \in Done
    /\ lpc = "idle" => loaded = <<>>
    /\ lpc = "init" => \A x \in Message : ~(In(x, loaded) /\ TextOf(x, cells))

(* What holds when they do not: the file is that of S, and the header agrees,  *)
(* except where the one call under way has changed one and not the other.      *)
Full(S) == Header(Len(cells), Len(S))
At(t, S) ==
    /\ pc[t] = "header" => seen[t] = Full(S) /\ header = Full(S)
    /\ pc[t] \in {"prev", "block"} =>
          /\ seen[t] = Full(S)
          /\ header = Header(Len(cells) + Size[t] + 1, Len(S) + 1)
    /\ pc[t] = "block" => prev[t] = Code(S)
Agrees(S) ==
    /\ cells = FileOf(S)
    /\ \A t, u \in Adder : Busy(t) /\ Busy(u) => t = u
    /\ lpc # "idle" => \A t \in Adder : ~Busy(t)
    /\ \A t \in Adder : Busy(t) => At(t, S)
    /\ lpc = "truncate" => loaded = S
    /\ lpc = "init" => S = <<>> /\ header = NoHeader
    /\ lpc # "init" /\ (\A t \in Adder : ~Busy(t)) => header = Full(S)

(* What holds once the server has stopped with the file half written: it is    *)
(* that of S for ever, and no call gets as far as a block or a list.           *)
Ahead(h, S) == h.end > Len(cells) /\ h.number > Len(S)
Dead(S) ==
    /\ cells = FileOf(S) /\ lpc = "idle"
    /\ header = NoHeader \/ Ahead(header, S)
    /\ \A t \in Adder : pc[t] # "block" /\ (Busy(t) => Ahead(seen[t], S))
Serial == ~overlap => \E S \in Seq(Message) : IF cut THEN Dead(S) ELSE Agrees(S)

FileI == Types /\ Fresh /\ Serial

-------------------------------------------------------------------------------
LEMMA MessageType ==
    /\ \A x \in Message : x[1] \in Adder /\ x[2] \in Nat \ {0} /\ x[2] <= MaxAdds[x[1]]
                          /\ x = <<x[1], x[2]>>
    /\ \A t \in Adder : MaxAdds[t] \in Nat \ {0}
    /\ \A t \in Adder, k \in Nat \ {0} : k <= MaxAdds[t] => <<t, k>> \in Message
  <1>1. \A t \in Adder : MaxAdds[t] \in Nat \ {0}
    BY UndeliveredAssumption
  <1> QED
    BY <1>1 DEF Message

(* What is read from a file with every code right.                             *)
LEMMA Readable ==
    ASSUME cells \in Seq(Cell), NEW c \in GoodEnds
    PROVE  /\ MsgsTo(c) \in Seq(Message)
           /\ FileOf(MsgsTo(c)) = SubSeq(cells, 1, c)
           /\ c \in 0 .. Len(cells)
  <1>1. CASE c = 0
    <2>1. SubSeq(cells, 1, 0) = <<>>
      OBVIOUS
    <2>2. Len(cells) \in Nat
      OBVIOUS
    <2>3. MsgsTo(c) = <<>>
      BY <1>1 DEF MsgsTo
    <2>4. FileOf(MsgsTo(c)) = SubSeq(cells, 1, c)
      BY <1>1, <2>1, <2>3, FileEmpty
    <2>5. MsgsTo(c) \in Seq(Message) /\ c \in 0 .. Len(cells)
      <3>1. <<>> \in Seq(Message) /\ 0 \in 0 .. Len(cells)
        BY <2>2
      <3> QED
        BY <1>1, <2>3, <3>1
    <2> QED
      BY <2>4, <2>5
  <1>2. CASE c # 0
    <2>1. MsgsTo(c) = cells[c].of
      BY <1>2 DEF MsgsTo
    <2>2. c \in DOMAIN cells /\ FileOf(cells[c].of) = SubSeq(cells, 1, c)
      BY <1>2 DEF GoodEnds
    <2>3. c \in 1 .. Len(cells) /\ cells[c] \in Cell
      BY <2>2
    <2> QED
      BY <2>1, <2>2, <2>3 DEF Cell
  <1> QED
    BY <1>1, <1>2

(* ... is there once, and its texts are in the file.                           *)
LEMMA ReadOnce ==
    ASSUME cells \in Seq(Cell), OneText(cells), NEW c \in GoodEnds
    PROVE  /\ Once(MsgsTo(c))
           /\ \A x \in Message : In(x, MsgsTo(c)) => TextOf(x, cells)
  <1> DEFINE S == MsgsTo(c)
  <1> DEFINE F == FileOf(S)
  <1>1. S \in Seq(Message) /\ F = SubSeq(cells, 1, c) /\ c \in 0 .. Len(cells)
    BY Readable
  <1>2. TextsIn(F, S, Len(S))
    BY <1>1, FileTexts
  <1>3. \A p \in 1 .. Len(F) : p \in 1 .. Len(cells) /\ F[p] = cells[p]
    <2> HIDE DEF S, F
    <2> QED
      BY <1>1
  <1> HIDE DEF F, S
  <1>4. Once(S)
    <2> SUFFICES ASSUME NEW i \in 1 .. Len(S), NEW j \in 1 .. Len(S), i < j, S[i] = S[j]
                 PROVE  FALSE
      BY <1>1 DEF Once
    <2>1. PICK p, q \in 1 .. Len(F) : p < q /\ F[p] = Text(S[i], 1) /\ F[q] = Text(S[j], 1)
      BY <1>2 DEF TextsIn
    <2>2. cells[p] = cells[q] /\ cells[p].kind = "text" /\ p # q
      BY <1>3, <2>1 DEF Text
    <2> QED
      BY <1>3, <2>2 DEF OneText
  <1>5. \A x \in Message : In(x, S) => TextOf(x, cells)
    BY <1>2, <1>3 DEF TextsIn, In, TextOf
  <1> QED
    BY <1>4, <1>5 DEF S

(* The file of S is read as S, and a part of it with as many messages is S.    *)
LEMMA ReadsAll ==
    ASSUME cells \in Seq(Cell), NEW S \in Seq(Message), cells = FileOf(S)
    PROVE  /\ Len(cells) \in GoodEnds /\ Max(GoodEnds) = Len(cells)
           /\ MsgsTo(Len(cells)) = S /\ Stored = S
           /\ \A c \in GoodEnds : Len(MsgsTo(c)) = Len(S) => MsgsTo(c) = S
  <1>1. /\ S = <<>> => cells = <<>>
        /\ S # <<>> => cells # <<>> /\ cells[Len(cells)] = Code(S)
        /\ CodesIn(cells, S, Len(S))
    BY FileType
  <1>2. Len(cells) \in GoodEnds /\ MsgsTo(Len(cells)) = S
    <2>1. CASE S = <<>>
      BY <1>1, <2>1 DEF GoodEnds, MsgsTo
    <2>2. CASE S # <<>>
      <3>1. Len(cells) \in DOMAIN cells /\ Len(cells) # 0
        BY <1>1, <2>2
      <3>2. cells[Len(cells)].kind = "code" /\ cells[Len(cells)].of = S
        BY <1>1, <2>2 DEF Code
      <3>3. SubSeq(cells, 1, Len(cells)) = cells
        OBVIOUS
      <3> QED
        BY <3>1, <3>2, <3>3 DEF GoodEnds, MsgsTo
    <2> QED
      BY <2>1, <2>2
  <1>3. \A c \in GoodEnds : c \in 0 .. Len(cells)
    BY Readable
  <1>4. Max(GoodEnds) = Len(cells)
    <2>1. Len(cells) \in Nat /\ GoodEnds \subseteq Nat
      BY <1>3
    <2>2. \A c \in GoodEnds : Len(cells) >= c
      BY <1>3
    <2>3. \A c \in GoodEnds : (\A d \in GoodEnds : c >= d) => c = Len(cells)
      BY <1>2, <2>1, <2>2
    <2> QED
      BY <1>2, <2>2, <2>3 DEF Max
  <1>5. ASSUME NEW c \in GoodEnds, Len(MsgsTo(c)) = Len(S) PROVE MsgsTo(c) = S
    <2>1. CASE c = 0
      <3>1. Len(S) = 0
        BY <1>5, <2>1 DEF MsgsTo
      <3> QED
        BY <2>1, <3>1 DEF MsgsTo
    <2>2. CASE c # 0
      <3>1. c \in 1 .. Len(cells) /\ cells[c].kind = "code" /\ MsgsTo(c) = cells[c].of
        BY <1>3, <2>2 DEF GoodEnds, MsgsTo
      <3>2. PICK i \in 1 .. Len(S) : cells[c] = Code(SubSeq(S, 1, i))
        BY <1>1, <3>1 DEF CodesIn
      <3>3. MsgsTo(c) = SubSeq(S, 1, i)
        BY <3>1, <3>2 DEF Code
      <3>4. i = Len(S)
        BY <1>5, <3>3, PrefixType
      <3> QED
        BY <3>3, <3>4
    <2> QED
      BY <2>1, <2>2
  <1> QED
    BY <1>2, <1>4, <1>5 DEF Stored

-------------------------------------------------------------------------------
(* A block written to the file.                                                *)
LEMMA WriteFacts ==
    ASSUME cells \in Seq(Cell), NEW end \in Nat, NEW block \in Seq(Cell)
    PROVE  /\ WriteAt(end, block) \in Seq(Cell)
           /\ \A i \in 1 .. Len(WriteAt(end, block)) :
                 \/ i - end \in 1 .. Len(block) /\ WriteAt(end, block)[i] = block[i - end]
                 \/ i \in 1 .. Len(cells) /\ WriteAt(end, block)[i] = cells[i]
                 \/ WriteAt(end, block)[i] = Hole
           /\ end = Len(cells) => WriteAt(end, block) = cells \o block
  <1> DEFINE n == IF end + Len(block) > Len(cells) THEN end + Len(block) ELSE Len(cells)
  <1> DEFINE e(i) == IF i \in end + 1 .. end + Len(block) THEN block[i - end]
                     ELSE IF i <= Len(cells) THEN cells[i] ELSE Hole
  <1> DEFINE w == [i \in 1 .. n |-> e(i)]
  <1>1. w = WriteAt(end, block)
    BY DEF WriteAt
  <1>2. n \in Nat /\ Len(cells) \in Nat /\ Len(block) \in Nat /\ n >= Len(cells)
    OBVIOUS
  <1>3. Hole \in Cell
    BY DEF Hole, Cell
  <1>4. ASSUME NEW i \in 1 .. n
        PROVE  /\ e(i) \in Cell
               /\ \/ i - end \in 1 .. Len(block) /\ e(i) = block[i - end]
                  \/ i \in 1 .. Len(cells) /\ e(i) = cells[i]
                  \/ e(i) = Hole
    <2>1. CASE i \in end + 1 .. end + Len(block)
      <3>1. i - end \in 1 .. Len(block) /\ e(i) = block[i - end]
        BY <2>1, <1>2
      <3> QED
        BY <3>1
    <2>2. CASE i \notin end + 1 .. end + Len(block) /\ i <= Len(cells)
      <3>1. i \in 1 .. Len(cells) /\ e(i) = cells[i]
        BY <2>2, <1>2
      <3> QED
        BY <3>1
    <2>3. CASE i \notin end + 1 .. end + Len(block) /\ ~(i <= Len(cells))
      BY <2>3, <1>3
    <2> QED
      BY <2>1, <2>2, <2>3
  <1>5. ASSUME end = Len(cells) PROVE w = cells \o block
    <2>1. n = Len(cells) + Len(block)
      BY <1>2, <1>5
    <2>2. cells \o block \in Seq(Cell) /\ Len(cells \o block) = n
      BY <2>1, ConcatAt
    <2>3. ASSUME NEW i \in 1 .. n PROVE e(i) = (cells \o block)[i]
      <3>1. CASE i <= Len(cells)
        <4>1. i \in 1 .. Len(cells) /\ i \notin end + 1 .. end + Len(block)
          BY <1>2, <1>5, <3>1
        <4>2. e(i) = cells[i]
          BY <4>1
        <4> QED
          BY <4>1, <4>2, ConcatAt
      <3>2. CASE ~(i <= Len(cells))
        <4>1. i > Len(cells) /\ i \in end + 1 .. end + Len(block)
          BY <1>2, <1>5, <2>1, <3>2
        <4>2. e(i) = block[i - Len(cells)]
          BY <1>5, <4>1
        <4> QED
          BY <2>2, <4>1, <4>2, ConcatAt
      <3> QED
        BY <3>1, <3>2
    <2> HIDE DEF e, n
    <2>4. w \in [1 .. n -> Cell] /\ cells \o block \in [1 .. n -> Cell]
      <3>1. w \in [1 .. n -> Cell]
        BY <1>4
      <3>2. cells \o block \in [1 .. n -> Cell]
        <4> DEFINE q == cells \o block
        <4>1. q \in Seq(Cell) /\ Len(q) = n
          BY <2>2
        <4> HIDE DEF q
        <4>2. q \in [1 .. n -> Cell]
          BY <4>1
        <4> QED
          BY <4>2 DEF q
      <3> QED
        BY <3>1, <3>2
    <2> QED
      BY <2>3, <2>4
  <1> HIDE DEF n, e
  <1>6. w \in Seq(Cell) /\ Len(w) = n /\ \A i \in 1 .. n : w[i] = e(i)
    BY <1>2, <1>4
  <1> HIDE DEF w
  <1> QED
    BY <1>1, <1>4, <1>5, <1>6

(* The block of a message that was not there.                                  *)
LEMMA WriteText ==
    ASSUME cells \in Seq(Cell), OneText(cells), NEW end \in Nat,
           NEW x \in Message, ~TextOf(x, cells),
           NEW c \in Cell, c.kind # "text", NEW w, w = WriteAt(end, BlockOf(x, c))
    PROVE  /\ OneText(w)
           /\ \A y \in Message : TextOf(y, w) => y = x \/ TextOf(y, cells)
  <1> DEFINE b == BlockOf(x, c)
  <1>1. /\ b \in Seq(Cell) /\ Len(b) = Size[x[1]] + 1 /\ Size[x[1]] \in Nat
        /\ \A i \in 1 .. Size[x[1]] : b[i] = Text(x, i)
        /\ b[Size[x[1]] + 1] = c
    BY BlockType
  <1> HIDE DEF b
  <1>2. /\ w \in Seq(Cell)
        /\ \A i \in 1 .. Len(w) :
              \/ i - end \in 1 .. Len(b) /\ w[i] = b[i - end]
              \/ i \in 1 .. Len(cells) /\ w[i] = cells[i]
              \/ w[i] = Hole
    <2>1. w = WriteAt(end, b)
      BY DEF b
    <2> QED
      BY SMTT(30), <1>1, <2>1, WriteFacts
  <1>3. \A i \in 1 .. Len(b) : b[i].kind = "text" => b[i] = Text(x, i)
    <2> SUFFICES ASSUME NEW i \in 1 .. Len(b), b[i].kind = "text" PROVE b[i] = Text(x, i)
      OBVIOUS
    <2>1. i \in 1 .. Size[x[1]]
      BY <1>1
    <2> QED
      BY <1>1, <2>1
  <1>4. ASSUME NEW i \in 1 .. Len(w), w[i].kind = "text"
        PROVE  \/ i - end \in Nat /\ w[i] = Text(x, i - end)
               \/ i \in 1 .. Len(cells) /\ w[i] = cells[i]
    <2>1. Hole.kind # "text"
      BY DEF Hole
    <2>2. \/ i - end \in 1 .. Len(b) /\ w[i] = b[i - end]
          \/ i \in 1 .. Len(cells) /\ w[i] = cells[i]
      BY <1>2, <1>4, <2>1
    <2> QED
      BY <1>1, <1>3, <1>4, <2>2
  <1>5. \A k, l \in Nat : Text(x, k) = Text(x, l) => k = l
    BY DEF Text
  <1>6. \A i \in 1 .. Len(cells), k \in Nat : cells[i] # Text(x, k)
    BY DEF TextOf
  <1>7. OneText(w)
    <2> SUFFICES ASSUME NEW i \in 1 .. Len(w), NEW j \in 1 .. Len(w),
                        w[i].kind = "text", w[i] = w[j]
                 PROVE  i = j
      BY DEF OneText
    <2>1. w[j].kind = "text"
      OBVIOUS
    <2>2. w \in Seq(Cell) /\ Len(w) \in Nat
      BY <1>2
    <2>3. CASE i - end \in Nat /\ w[i] = Text(x, i - end)
      <3>1. j - end \in Nat /\ w[j] = Text(x, j - end)
        BY <1>4, <1>6, <2>1, <2>3
      <3>2. i - end = j - end
        BY <1>5, <2>3, <3>1
      <3> QED
        BY <2>2, <3>2
    <2>4. CASE i \in 1 .. Len(cells) /\ w[i] = cells[i]
      <3>1. j \in 1 .. Len(cells) /\ w[j] = cells[j]
        BY <1>4, <1>6, <2>1, <2>4
      <3> QED
        BY <2>4, <3>1 DEF OneText
    <2> QED
      BY <1>4, <2>3, <2>4
  <1>8. ASSUME NEW y \in Message, TextOf(y, w) PROVE y = x \/ TextOf(y, cells)
    <2>1. PICK i \in 1 .. Len(w), k \in Nat : w[i] = Text(y, k)
      BY <1>8 DEF TextOf
    <2>2. w[i].kind = "text"
      BY <2>1 DEF Text
    <2>3. CASE i - end \in Nat /\ w[i] = Text(x, i - end)
      BY <2>1, <2>3 DEF Text
    <2>4. CASE i \in 1 .. Len(cells) /\ w[i] = cells[i]
      BY <2>1, <2>4 DEF TextOf
    <2> QED
      BY <1>4, <2>2, <2>3, <2>4
  <1> QED
    BY <1>7, <1>8

LEMMA DoneGrows ==
    ASSUME Types, nadds' \in [Adder -> Nat],
           \A t \in Adder : nadds'[t] >= nadds[t],
           \A t \in Adder : Busy(t)' => \/ nadds'[t] > nadds[t]
                                        \/ Busy(t) /\ nadds'[t] = nadds[t]
    PROVE  Done \subseteq Done'
  <1> SUFFICES ASSUME NEW x \in Done PROVE x \in Done'
    OBVIOUS
  <1>1. x \in Message /\ x[1] \in Adder /\ x[2] \in Nat
    BY MessageType DEF Done
  <1>2. nadds[x[1]] \in Nat /\ nadds'[x[1]] \in Nat /\ nadds'[x[1]] >= nadds[x[1]]
    BY <1>1 DEF Types
  <1>3. x[2] <= nadds[x[1]] /\ (Busy(x[1]) => x[2] < nadds[x[1]])
    BY DEF Done
  <1>4. x[2] <= nadds'[x[1]] /\ (Busy(x[1])' => x[2] < nadds'[x[1]])
    BY <1>1, <1>2, <1>3
  <1> QED
    BY <1>1, <1>4 DEF Done

-------------------------------------------------------------------------------
(* The types.                                                                  *)
LEMMA HeadType ==
    /\ NoHeader \in Heads /\ Header(0, 0) \in Head0
    /\ \A h \in Heads : h # NoHeader => h \in Head0 /\ h.end \in Nat /\ h.number \in Nat
                                        /\ (h.end = 0 => h.number = 0)
    /\ \A a, b \in Nat : a # 0 => Header(a, b) \in Head0
    /\ \A h \in Head0 : h # NoHeader
    /\ \A a, b, c, d : Header(a, b) = Header(c, d) => a = c /\ b = d
  BY DEF Heads, Head0, Header, NoHeader

LEMMA NextCodeType ==
    ASSUME Types, NEW t \in Adder
    PROVE  NextCode(t) \in Cell /\ NextCode(t).kind # "text"
  <1>1. prev[t] \in Cell /\ m[t] \in Message
    BY DEF Types
  <1>2. Append(prev[t].of, m[t]) \in Seq(Message)
    BY <1>1 DEF Cell
  <1> QED
    BY <1>2 DEF NextCode, Code, BadCode, Cell

LEMMA AddTypes ==
    ASSUME Types, Fresh, NEW t \in Adder, undel_add_message(t)
    PROVE  Types'
  <1>1. CASE add_open(t)
    <2>1. nadds[t] \in Nat /\ MaxAdds[t] \in Nat /\ nadds[t] < MaxAdds[t]
      BY <1>1, MessageType DEF add_open, Types
    <2>2. <<t, nadds[t] + 1>> \in Message
      BY <2>1, MessageType
    <2>3. nadds' = [nadds EXCEPT ![t] = @ + 1]
      BY <1>1 DEF add_open
    <2>4. nadds' \in [Adder -> Nat] /\ \A u \in Adder : nadds'[u] \in 0 .. MaxAdds[u]
      BY <2>1, <2>3 DEF Types
    <2>5. m' \in [Adder -> Message]
      BY <1>1, <2>2 DEF add_open, Types
    <2>6. /\ pc' \in [Adder -> {"idle", "header", "prev", "block"}]
          /\ seen' \in [Adder -> Heads]
      BY ZenonT(40), <1>1 DEF add_open, goto, Types
    <2> QED
      BY <1>1, <2>4, <2>5, <2>6 DEF add_open, Types, file, loader, stops
  <1>2. CASE add_header(t)
    <2>1. seen[t].end \in Nat /\ seen[t].number \in Nat
      BY <1>2, HeadType DEF add_header, goto, Types, Fresh, Busy
    <2>2. Size[t] \in Nat
      BY UndeliveredAssumption
    <2>3. seen[t].end + Size[t] + 1 \in Nat \ {0} /\ seen[t].number + 1 \in Nat
      BY <2>1, <2>2
    <2>4. header' \in Heads
      BY <1>2, <2>3, HeadType DEF add_header, Heads
    <2> QED
      BY <1>2, <2>4 DEF add_header, goto, Types, loader, stops
  <1>3. CASE add_prev_mac(t)
    <2>1. seen[t].end \in Nat /\ (seen[t].end = 0 => seen[t].number = 0)
      BY <1>3, HeadType DEF add_prev_mac, Types, Fresh, Busy
    <2>2. prev' \in [Adder -> Cell]
      <3>1. CASE UNCHANGED prev
        BY <3>1 DEF Types
      <3>2. CASE prev' = [prev EXCEPT ![t] =
                    IF seen[t].number = 0 THEN Code(<<>>) ELSE cells[seen[t].end]]
                 /\ (seen[t].end # 0 => seen[t].end <= Len(cells))
        <4>1. Code(<<>>) \in Cell
          <5>1. <<>> \in Seq(Message)
            OBVIOUS
          <5> QED
            BY <5>1, CodeType
        <4>2. CASE seen[t].number = 0
          BY <3>2, <4>1, <4>2 DEF Types
        <4>3. CASE seen[t].number # 0
          <5>1. seen[t].end \in 1 .. Len(cells)
            BY <2>1, <3>2, <4>3 DEF Types
          <5>2. cells[seen[t].end] \in Cell
            BY <5>1 DEF Types
          <5> QED
            BY <3>2, <4>3, <5>2 DEF Types
        <4> QED
          BY <4>2, <4>3
      <3> QED
        BY <1>3, <3>1, <3>2 DEF add_prev_mac
    <2>3. pc' \in [Adder -> {"idle", "header", "prev", "block"}]
      BY <1>3 DEF add_prev_mac, goto, Types
    <2> QED
      BY <1>3, <2>2, <2>3 DEF add_prev_mac, Types, file, loader, stops
  <1>4. CASE add_block(t)
    <2>1. seen[t].end \in Nat
      BY <1>4, HeadType DEF add_block, goto, Types, Fresh, Busy
    <2>2. m[t] \in Message /\ NextCode(t) \in Cell /\ cells \in Seq(Cell)
      BY NextCodeType DEF Types
    <2>3. BlockOf(m[t], NextCode(t)) \in Seq(Cell)
      BY <2>2, BlockType
    <2>4. cells' \in Seq(Cell)
      BY <1>4, <2>1, <2>2, <2>3, WriteFacts DEF add_block
    <2> QED
      BY <1>4, <2>2, <2>4 DEF add_block, goto, Types, loader, stops
  <1> QED
    BY <1>1, <1>2, <1>3, <1>4 DEF undel_add_message

LEMMA LoadTypes ==
    ASSUME Types, undel_load
    PROVE  Types'
  <1>1. CASE load_read
    <2>1. loaded' \in Seq(Message)
      <3>1. CASE UNCHANGED loaded
        BY <3>1 DEF Types
      <3>2. ASSUME NEW c \in GoodEnds, loaded' = MsgsTo(c) PROVE loaded' \in Seq(Message)
        BY <3>2, Readable DEF Types
      <3> QED
        BY <1>1, <3>1, <3>2 DEF load_read
    <2>2. nloads' \in 0 .. MaxLoads
      BY <1>1, UndeliveredAssumption DEF load_read, Types
    <2>3. lpc' \in {"idle", "truncate", "init"}
      BY <1>1 DEF load_read, Types
    <2> QED
      BY <1>1, <2>1, <2>2, <2>3 DEF load_read, Types, file, adder, stops
  <1>2. CASE init_truncate
    <2>1. taken \o loaded \in Seq(Message)
      BY DEF Types
    <2>2. taken' \in Seq(Message)
      BY <1>2, <2>1 DEF init_truncate
    <2>3. <<>> \in Seq(Cell)
      OBVIOUS
    <2> QED
      BY <1>2, <2>2, <2>3, HeadType DEF init_truncate, Types, adder, stops
  <1>3. CASE init_header
    <2>1. <<>> \in Seq(Message)
      OBVIOUS
    <2> QED
      BY <1>3, <2>1, HeadType DEF init_header, Types, adder, stops, Heads
  <1> QED
    BY <1>1, <1>2, <1>3 DEF undel_load

LEMMA CrashTypes ==
    ASSUME Types, Crash
    PROVE  Types'
  <1>1. ncrashes' \in 0 .. MaxCrashes
    BY UndeliveredAssumption DEF Crash, Types
  <1>2. <<>> \in Seq(Message)
    OBVIOUS
  <1>3. cut' \in BOOLEAN
    BY Zenon DEF Crash, Types, HalfWritten
  <1> QED
    BY <1>1, <1>2, <1>3 DEF Crash, Types, file

(* A call that is given to a session instead of the file.                      *)
Skip(t) ==
    /\ nadds[t] < MaxAdds[t] /\ ~Busy(t)
    /\ nadds' = [nadds EXCEPT ![t] = @ + 1]
    /\ UNCHANGED <<file, pc, m, seen, prev, loader, stops, added, taken>>

LEMMA SkipTypes ==
    ASSUME Types, NEW t \in Adder, Skip(t)
    PROVE  Types'
  <1>1. nadds[t] \in Nat /\ MaxAdds[t] \in Nat /\ nadds[t] < MaxAdds[t]
    BY MessageType DEF Skip, Types
  <1>2. nadds' \in [Adder -> Nat] /\ \A u \in Adder : nadds'[u] \in 0 .. MaxAdds[u]
    BY <1>1 DEF Skip, Types
  <1> QED
    BY <1>2 DEF Skip, Types, file, loader, stops

-------------------------------------------------------------------------------
(* Nothing is stored or sent a second time, even when calls overlap.           *)
LEMMA Pending ==
    ASSUME Types, Fresh, NEW t \in Adder, Busy(t)
    PROVE  m[t] \in Message /\ m[t] \notin Done /\ m[t][1] = t
  BY DEF Types, Fresh, Done

(* What a step keeps when it changes neither the cells nor the list loaded.    *)
LEMMA KeepFresh ==
    ASSUME Types, Fresh, Done \subseteq Done', added' = added,
           UNCHANGED <<cells, loaded, lpc>>,
           \A t \in Adder : Busy(t)' =>
              seen'[t] # NoHeader /\ m'[t] = <<t, nadds'[t]>> /\ nadds'[t] >= 1
    PROVE  Fresh'
  <1>1. \A x \in Message : (TextOf(x, cells))' = TextOf(x, cells)
    BY DEF TextOf
  <1>2. \A x \in Message : (In(x, loaded))' = In(x, loaded)
    BY DEF In
  <1>3. OneText(cells)' /\ Once(loaded)'
    BY DEF Fresh, OneText, Once
  <1> QED
    BY <1>1, <1>2, <1>3 DEF Fresh

LEMMA AddFresh ==
    ASSUME Types, Types', Fresh, NEW t \in Adder, undel_add_message(t)
    PROVE  Done \subseteq Done' /\ Fresh'
  <1>1. CASE add_open(t)
    <2>1. ~Busy(t) /\ nadds' = [nadds EXCEPT ![t] = @ + 1]
          /\ UNCHANGED <<cells, loaded, lpc, added>>
      BY <1>1 DEF add_open, Busy, file, loader
    <2>2. \A u \in Adder : nadds[u] \in Nat /\ nadds' \in [Adder -> Nat]
      BY DEF Types
    <2>3. \A u \in Adder : Busy(u)' => u = t \/ Busy(u)
      BY SMTT(30), <1>1 DEF add_open, goto, Types, Busy
    <2>4. \A u \in Adder : nadds'[u] = IF u = t THEN nadds[u] + 1 ELSE nadds[u]
      BY <2>1 DEF Types
    <2>5. Done \subseteq Done'
      <3>1. \A u \in Adder : nadds'[u] >= nadds[u] /\ (u = t => nadds'[u] > nadds[u])
        BY <2>2, <2>4
      <3>2. \A u \in Adder : Busy(u)' => \/ nadds'[u] > nadds[u]
                                         \/ Busy(u) /\ nadds'[u] = nadds[u]
        BY <2>1, <2>3, <2>4, <3>1
      <3> QED
        BY <3>1, <3>2, DoneGrows DEF Types
    <2>6. ASSUME NEW u \in Adder, Busy(u)'
          PROVE  seen'[u] # NoHeader /\ m'[u] = <<u, nadds'[u]>> /\ nadds'[u] >= 1
      <3>1. CASE u = t
        <4>1. header # NoHeader /\ m' = [m EXCEPT ![t] = <<t, nadds[t] + 1>>]
              /\ seen' = [seen EXCEPT ![t] = header]
          BY <1>1, <2>6, <3>1, <2>1 DEF add_open, Busy
        <4> QED
          BY <2>2, <2>4, <3>1, <4>1 DEF Types
      <3>2. CASE u # t
        <4>1. seen'[u] = seen[u] /\ m'[u] = m[u]
          BY SMTT(30), <1>1, <3>2 DEF add_open, Types
        <4> QED
          BY <2>3, <2>4, <2>6, <3>2, <4>1 DEF Fresh
      <3> QED
        BY <3>1, <3>2
    <2> QED
      BY <2>1, <2>5, <2>6, KeepFresh
  <1>2. CASE add_header(t) \/ add_prev_mac(t)
    <2>1. UNCHANGED <<cells, loaded, lpc, added, nadds, m, seen>>
      BY <1>2 DEF add_header, add_prev_mac, file, loader
    <2>2. \A u \in Adder : Busy(u)' => Busy(u)
      BY <1>2 DEF add_header, add_prev_mac, goto, Types, Busy
    <2>3. Done \subseteq Done'
      BY SMTT(30), <2>1, <2>2, DoneGrows DEF Types
    <2> QED
      BY <2>1, <2>2, <2>3, KeepFresh DEF Fresh
  <1>3. CASE add_block(t)
    <2>1. /\ Busy(t) /\ pc' = [pc EXCEPT ![t] = "idle"]
          /\ cells' = WriteAt(seen[t].end, BlockOf(m[t], NextCode(t)))
          /\ added' = added \cup {m[t]}
          /\ UNCHANGED <<loaded, lpc, nadds, m, seen>>
      BY <1>3 DEF add_block, goto, Busy, loader
    <2>2. \A u \in Adder : Busy(u)' => Busy(u)
      BY <2>1 DEF Types, Busy
    <2>3. Done \subseteq Done'
      BY SMTT(30), <2>1, <2>2, DoneGrows DEF Types
    <2>4. m[t] \in Message /\ m[t] \notin Done /\ m[t][1] = t
      BY <2>1, Pending
    <2>5. m[t] \in Done'
      BY <2>1, <2>4 DEF Done, Busy, Types, Fresh
    <2>6. ~TextOf(m[t], cells) /\ ~In(m[t], loaded)
      BY <2>4 DEF Fresh
    <2>7. seen[t].end \in Nat
      BY <2>1, HeadType DEF Types, Fresh
    <2>8. /\ OneText(cells')
          /\ \A y \in Message : TextOf(y, cells') => y = m[t] \/ TextOf(y, cells)
      <3>1. cells \in Seq(Cell) /\ OneText(cells)
        BY DEF Types, Fresh
      <3>2. NextCode(t) \in Cell /\ NextCode(t).kind # "text"
        BY NextCodeType
      <3> QED
        BY <2>1, <2>4, <2>6, <2>7, <3>1, <3>2, WriteText
    <2>9. \A x \in Message : (In(x, loaded))' = In(x, loaded)
      BY <2>1 DEF In
    <2>10. \A x \in Message : (TextOf(x, cells))' => x = m[t] \/ TextOf(x, cells)
      BY <2>8 DEF TextOf
    <2>11. OneText(cells)' /\ Once(loaded)'
      BY <2>1, <2>8 DEF Fresh, OneText, Once
    <2> QED
      BY <2>1, <2>2, <2>3, <2>5, <2>6, <2>9, <2>10, <2>11 DEF Fresh
  <1> QED
    BY <1>1, <1>2, <1>3 DEF undel_add_message

LEMMA NoTexts == OneText(<<>>) /\ Once(<<>>) /\ \A x : ~TextOf(x, <<>>) /\ ~In(x, <<>>)
  BY DEF OneText, Once, TextOf, In

LEMMA LoadFresh ==
    ASSUME Types, Types', Fresh, undel_load
    PROVE  Done' = Done /\ Fresh'
  <1>1. Done' = Done /\ UNCHANGED <<added, adder>>
    BY DEF undel_load, load_read, init_truncate, init_header, Done, Busy, adder
  <1>2. \A t \in Adder : Busy(t)' =>
          seen'[t] # NoHeader /\ m'[t] = <<t, nadds'[t]>> /\ nadds'[t] >= 1
    BY <1>1 DEF Fresh, Busy, adder
  <1>3. CASE load_read
    <2>1. UNCHANGED cells /\ lpc' # "init"
      BY <1>3 DEF load_read, file
    <2>2. CASE UNCHANGED <<lpc, loaded>>
      BY <1>1, <1>2, <2>1, <2>2, KeepFresh
    <2>3. ASSUME NEW c \in GoodEnds, loaded' = MsgsTo(c), lpc' = "truncate" PROVE Fresh'
      <3>1. /\ Once(MsgsTo(c))
            /\ \A x \in Message : In(x, MsgsTo(c)) => TextOf(x, cells)
        BY ReadOnce DEF Types, Fresh
      <3>2. Once(loaded)' /\ \A x \in Message : In(x, loaded)' => x \in Done
        BY <2>3, <3>1 DEF Once, In, Fresh
      <3>3. OneText(cells)' /\ \A x \in Message : TextOf(x, cells)' => x \in Done
        BY <2>1 DEF Fresh, OneText, TextOf
      <3> QED
        BY <1>1, <1>2, <2>3, <3>2, <3>3 DEF Fresh
    <2>4. \/ UNCHANGED <<lpc, loaded>>
          \/ lpc' = "truncate" /\ \E c \in GoodEnds : loaded' = MsgsTo(c)
      BY <1>3 DEF load_read
    <2> QED
      BY <1>1, <2>2, <2>3, <2>4
  <1>4. CASE init_truncate
    <2>1. cells' = <<>> /\ loaded' = loaded /\ lpc' = "init"
      BY <1>4 DEF init_truncate
    <2>2. OneText(cells)' /\ \A x \in Message : ~TextOf(x, cells)'
      BY <2>1 DEF OneText, TextOf
    <2>3. Once(loaded)' /\ \A x \in Message : In(x, loaded)' => x \in Done
      BY <2>1 DEF Once, In, Fresh
    <2> QED
      BY <1>1, <1>2, <2>1, <2>2, <2>3 DEF Fresh
  <1>5. CASE init_header
    <2>1. cells' = cells /\ loaded' = <<>> /\ lpc' = "idle"
      BY <1>5 DEF init_header
    <2>2. OneText(cells)' /\ \A x \in Message : TextOf(x, cells)' => x \in Done
      BY <2>1 DEF OneText, TextOf, Fresh
    <2>3. Once(loaded)' /\ \A x \in Message : ~In(x, loaded)'
      BY <2>1 DEF Once, In
    <2> QED
      BY <1>1, <1>2, <2>1, <2>2, <2>3 DEF Fresh
  <1> QED
    BY <1>1, <1>3, <1>4, <1>5 DEF undel_load

LEMMA CrashFresh ==
    ASSUME Types, Types', Fresh, Crash
    PROVE  Done \subseteq Done' /\ Fresh'
  <1>1. /\ UNCHANGED <<added, cells, nadds>> /\ loaded' = <<>> /\ lpc' = "idle"
        /\ \A t \in Adder : ~Busy(t)'
    BY DEF Crash, file, Busy
  <1>2. Done \subseteq Done'
    BY <1>1, DoneGrows DEF Types
  <1>3. OneText(cells)' /\ \A x \in Message : TextOf(x, cells)' => x \in Done
    BY <1>1 DEF OneText, TextOf, Fresh
  <1>4. Once(loaded)' /\ \A x \in Message : ~In(x, loaded)'
    BY <1>1 DEF Once, In
  <1> QED
    BY <1>1, <1>2, <1>3, <1>4 DEF Fresh

LEMMA SkipFresh ==
    ASSUME Types, Types', Fresh, NEW t \in Adder, Skip(t)
    PROVE  /\ Done \subseteq Done' /\ Fresh'
           /\ <<t, nadds[t] + 1>> \in Done' /\ <<t, nadds[t] + 1>> \in Message \ Done
           /\ ~TextOf(<<t, nadds[t] + 1>>, cells') /\ ~In(<<t, nadds[t] + 1>>, loaded')
  <1>1. /\ UNCHANGED <<cells, loaded, lpc, added, pc, m, seen>>
        /\ nadds' = [nadds EXCEPT ![t] = @ + 1] /\ ~Busy(t)
    BY DEF Skip, file, loader
  <1>2. \A u \in Adder : nadds[u] \in Nat /\ nadds' \in [Adder -> Nat]
    BY DEF Types
  <1>3. \A u \in Adder : nadds'[u] = IF u = t THEN nadds[u] + 1 ELSE nadds[u]
    BY <1>1 DEF Types
  <1>4. \A u \in Adder : (Busy(u)' <=> Busy(u)) /\ (Busy(u) => u # t)
    BY <1>1 DEF Busy
  <1>5. Done \subseteq Done'
    <2>1. \A u \in Adder : nadds'[u] >= nadds[u] /\ (u # t => nadds'[u] = nadds[u])
      BY <1>2, <1>3
    <2> QED
      BY <1>4, <2>1, DoneGrows DEF Types
  <1>6. \A u \in Adder : Busy(u)' =>
          seen'[u] # NoHeader /\ m'[u] = <<u, nadds'[u]>> /\ nadds'[u] >= 1
    BY <1>1, <1>2, <1>3, <1>4 DEF Fresh
  <1>7. Fresh'
    BY <1>1, <1>5, <1>6, KeepFresh
  <1> DEFINE x == <<t, nadds[t] + 1>>
  <1>8. x \in Message
    BY <1>2, MessageType DEF Skip
  <1>9. x \notin Done /\ x \in Done'
    <2>1. x[1] = t /\ x[2] = nadds[t] + 1
      OBVIOUS
    <2> HIDE DEF x
    <2> QED
      BY <1>2, <1>3, <1>4, <1>8, <2>1 DEF Done
  <1>10. ~TextOf(x, cells) /\ ~In(x, loaded)
    BY <1>8, <1>9 DEF Fresh
  <1> QED
    <2>1. ~TextOf(x, cells') /\ ~In(x, loaded')
      BY <1>1, <1>10
    <2> HIDE DEF x
    <2> QED
      BY <1>5, <1>7, <1>8, <1>9, <2>1 DEF x

-------------------------------------------------------------------------------
(* When calls do not overlap: which messages are in the file after each step.  *)
LEMMA CellsType ==
    ASSUME Types, NEW S \in Seq(Message), Agrees(S)
    PROVE  /\ Len(cells) \in Nat /\ Len(S) \in Nat
           /\ Len(cells) = 0 <=> S = <<>>
           /\ S # <<>> => cells[Len(cells)] = Code(S)
  <1>1. /\ S = <<>> => cells = <<>>
        /\ S # <<>> => cells # <<>> /\ cells[Len(cells)] = Code(S)
    BY FileType DEF Agrees
  <1>2. cells \in Seq(Cell)
    BY DEF Types
  <1> QED
    BY <1>1, <1>2

LEMMA OpenAgrees ==
    ASSUME Types, Fresh, ~overlap, NEW S \in Seq(Message), Agrees(S),
           NEW t \in Adder, add_open(t)
    PROVE  Agrees(S)'
  <1>1. Quiet /\ lpc' = lpc /\ lpc = "idle" /\ UNCHANGED <<cells, header, loaded, prev>>
        /\ \A u \in Adder : ~Busy(u)
    BY DEF add_open, MayStart, Quiet, file, loader, Busy
  <1>2. header = Full(S)
    BY <1>1 DEF Agrees
  <1>3. header # NoHeader
    BY <1>2, CellsType, HeadType DEF Full, Header, NoHeader
  <1>4. pc' = [pc EXCEPT ![t] = "header"] /\ seen' = [seen EXCEPT ![t] = header]
    BY <1>3 DEF add_open, goto
  <1>5. /\ \A u \in Adder : Busy(u)' <=> u = t
        /\ pc'[t] = "header" /\ seen'[t] = header
    BY <1>1, <1>4 DEF Busy, Types
  <1>6. Full(S)' = Full(S)
    BY <1>1 DEF Full
  <1>7. At(t, S)'
    BY <1>1, <1>2, <1>5, <1>6 DEF At
  <1> QED
    BY <1>1, <1>2, <1>5, <1>6, <1>7 DEF Agrees

LEMMA CountAgrees ==
    ASSUME Types, Fresh, ~overlap, NEW S \in Seq(Message), Agrees(S),
           NEW t \in Adder, add_header(t)
    PROVE  Agrees(S)'
  <1>1. /\ pc[t] = "header" /\ pc' = [pc EXCEPT ![t] = "prev"]
        /\ header' = Header(seen[t].end + Size[t] + 1, seen[t].number + 1)
        /\ UNCHANGED <<cells, seen, lpc, loaded, prev>>
    BY DEF add_header, goto, loader
  <1>2. seen[t] = Full(S)
    BY <1>1 DEF Agrees, At, Busy
  <1>3. \A u \in Adder : (Busy(u)' <=> Busy(u)) /\ (Busy(u) <=> u = t)
    BY <1>1 DEF Busy, Types, Agrees
  <1>4. lpc = "idle"
    BY <1>3 DEF Agrees, Types
  <1>5. Full(S)' = Full(S)
    BY <1>1 DEF Full
  <1>6. header' = Header(Len(cells) + Size[t] + 1, Len(S) + 1)
    BY <1>1, <1>2 DEF Full, Header
  <1>7. pc'[t] = "prev" /\ seen'[t] = Full(S)
    BY <1>1, <1>2 DEF Types
  <1>8. At(t, S)'
    BY <1>1, <1>5, <1>6, <1>7 DEF At
  <1> QED
    BY <1>1, <1>3, <1>4, <1>8 DEF Agrees

LEMMA PrevAgrees ==
    ASSUME Types, Fresh, ~overlap, NEW S \in Seq(Message), Agrees(S),
           NEW t \in Adder, add_prev_mac(t)
    PROVE  Agrees(S)' /\ pc'[t] = "block"
  <1>1. pc[t] = "prev" /\ UNCHANGED <<cells, header, seen, lpc, loaded>>
    BY DEF add_prev_mac, file, loader
  <1>2. /\ seen[t] = Full(S)
        /\ header = Header(Len(cells) + Size[t] + 1, Len(S) + 1)
    BY <1>1 DEF Agrees, At, Busy
  <1>3. seen[t].end = Len(cells) /\ seen[t].number = Len(S)
    BY <1>2 DEF Full, Header
  <1>4. Len(cells) \in Nat /\ Len(S) \in Nat /\ Size[t] \in Nat
    BY CellsType, UndeliveredAssumption
  <1>5. header # NoHeader
    BY <1>2, <1>4 DEF Header, NoHeader
  <1>6. /\ pc' = [pc EXCEPT ![t] = "block"]
        /\ prev' = [prev EXCEPT ![t] =
              IF seen[t].number = 0 THEN Code(<<>>) ELSE cells[Len(cells)]]
    BY <1>1, <1>3, <1>4, <1>5 DEF add_prev_mac, goto
  <1>7. prev'[t] = Code(S)
    <2>1. CASE S = <<>>
      BY <1>3, <1>6, <2>1 DEF Types
    <2>2. CASE S # <<>>
      <3>1. Len(S) # 0
        BY <2>2
      <3> QED
        BY <1>3, <1>6, <2>2, <3>1, CellsType DEF Types
    <2> QED
      BY <2>1, <2>2
  <1>8. \A u \in Adder : (Busy(u)' <=> Busy(u)) /\ (Busy(u) <=> u = t)
    BY <1>1, <1>6 DEF Busy, Types, Agrees
  <1>9. lpc = "idle"
    BY <1>8 DEF Agrees, Types
  <1>10. Full(S)' = Full(S)
    BY <1>1 DEF Full
  <1>11. pc'[t] = "block"
    BY <1>6 DEF Types
  <1>12. At(t, S)'
    BY <1>1, <1>2, <1>7, <1>10, <1>11 DEF At
  <1> QED
    BY <1>1, <1>8, <1>9, <1>11, <1>12 DEF Agrees

LEMMA BlockAgrees ==
    ASSUME Types, Fresh, ~overlap, NEW S \in Seq(Message), Agrees(S),
           NEW t \in Adder, add_block(t), NEW R, R = Append(S, m[t])
    PROVE  Agrees(R)' /\ R \in Seq(Message)
  <1>1. /\ pc[t] = "block" /\ pc' = [pc EXCEPT ![t] = "idle"]
        /\ cells' = WriteAt(seen[t].end, BlockOf(m[t], NextCode(t)))
        /\ UNCHANGED <<header, lpc, loaded>>
    BY DEF add_block, goto, loader
  <1>2. /\ seen[t] = Full(S) /\ prev[t] = Code(S)
        /\ header = Header(Len(cells) + Size[t] + 1, Len(S) + 1)
    BY <1>1 DEF Agrees, At, Busy
  <1>3. NextCode(t) = Code(R)
    BY <1>2 DEF NextCode, Code
  <1>4. m[t] \in Message /\ m[t][1] = t /\ R \in Seq(Message) /\ Len(R) = Len(S) + 1
    BY <1>1 DEF Types, Fresh, Busy
  <1> DEFINE b == BlockOf(m[t], Code(R))
  <1>5. b \in Seq(Cell) /\ Len(b) = Size[t] + 1 /\ Size[t] \in Nat
    <2>1. Code(R) \in Cell
      BY <1>4, CodeType
    <2> QED
      BY <1>4, <2>1, BlockType
  <1> HIDE DEF b
  <1>6. cells' = WriteAt(Len(cells), b)
    BY <1>1, <1>2, <1>3 DEF b, Full, Header
  <1>7. cells \in Seq(Cell) /\ Len(cells) \in Nat
    BY DEF Types
  <1>8. cells' = cells \o b
    BY <1>5, <1>6, <1>7, WriteFacts
  <1>9. cells' = FileOf(R)
    <2>1. FileOf(R) = FileOf(S) \o b
      BY <1>4, FileAppend DEF b
    <2> QED
      BY <1>8, <2>1 DEF Agrees
  <1>10. Len(cells') = Len(cells) + Size[t] + 1
    <2>1. b \in Seq(Cell) /\ cells \in Seq(Cell)
      BY <1>5, <1>7
    <2>2. Len(cells \o b) = Len(cells) + Len(b)
      BY <2>1, ConcatAt
    <2> QED
      BY <1>5, <1>7, <1>8, <2>2
  <1>11. \A u \in Adder : ~Busy(u)'
    BY <1>1 DEF Busy, Types, Agrees
  <1>12. lpc = "idle"
    BY <1>1 DEF Agrees, Types, Busy
  <1>13. header' = Full(R)'
    BY <1>1, <1>2, <1>4, <1>10 DEF Full
  <1> QED
    BY <1>1, <1>4, <1>9, <1>11, <1>12, <1>13 DEF Agrees

LEMMA LoadAgrees ==
    ASSUME Types, Fresh, ~overlap, NEW S \in Seq(Message), Agrees(S), load_read
    PROVE  Agrees(S)' /\ lpc' = "truncate" /\ loaded' = S
  <1>1. /\ Quiet /\ lpc = "idle" /\ UNCHANGED <<cells, header, pc>>
        /\ \A u \in Adder : ~Busy(u) /\ ~Busy(u)'
    BY DEF load_read, MayStart, Quiet, file, adder, Busy
  <1>2. header = Full(S)
    BY <1>1 DEF Agrees
  <1>3. header # NoHeader /\ header.number = Len(S)
    BY <1>2, CellsType DEF Full, Header, NoHeader
  <1>4. /\ Len(cells) \in GoodEnds /\ MsgsTo(Len(cells)) = S
        /\ \A c \in GoodEnds : Len(MsgsTo(c)) = Len(S) => MsgsTo(c) = S
    BY ReadsAll DEF Agrees, Types
  <1>5. lpc' = "truncate" /\ \E c \in GoodEnds :
                Len(MsgsTo(c)) = header.number /\ loaded' = MsgsTo(c)
    BY <1>3, <1>4 DEF load_read
  <1>6. loaded' = S
    BY <1>3, <1>4, <1>5
  <1>7. header' = Full(S)'
    BY <1>1, <1>2 DEF Full
  <1> QED
    BY <1>1, <1>5, <1>6, <1>7 DEF Agrees

LEMMA TruncateAgrees ==
    ASSUME Types, Fresh, ~overlap, NEW S \in Seq(Message), Agrees(S), init_truncate
    PROVE  Agrees(<<>>)' /\ loaded = S
  <1>1. /\ cells' = <<>> /\ header' = NoHeader /\ lpc' = "init" /\ loaded = S
        /\ \A u \in Adder : ~Busy(u)'
    BY DEF init_truncate, Agrees, adder, Busy
  <1> QED
    BY <1>1, FileEmpty DEF Agrees

LEMMA InitAgrees ==
    ASSUME Types, Fresh, ~overlap, NEW S \in Seq(Message), Agrees(S), init_header
    PROVE  Agrees(S)' /\ S = <<>>
  <1>1. /\ cells' = cells /\ header' = Header(0, 0) /\ lpc' = "idle" /\ S = <<>>
        /\ \A u \in Adder : ~Busy(u) /\ ~Busy(u)'
    BY DEF init_header, Agrees, adder, Busy
  <1>2. cells = <<>>
    BY <1>1, FileEmpty DEF Agrees
  <1>3. header' = Full(S)'
    BY <1>1, <1>2 DEF Full
  <1> QED
    BY <1>1, <1>3 DEF Agrees

LEMMA SkipAgrees ==
    ASSUME Types, NEW S \in Seq(Message), Agrees(S),
           UNCHANGED <<pc, seen, prev, header, cells, lpc, loaded>>
    PROVE  Agrees(S)'
  BY DEF Agrees, At, Busy, Full

(* The server stops: the file stays as it is, whole or not.                    *)
LEMMA CrashAgrees ==
    ASSUME Types, Fresh, ~overlap, ~cut, NEW S \in Seq(Message), Agrees(S), Crash
    PROVE  IF cut' THEN Dead(S)' ELSE Agrees(S)'
  <1>1. /\ UNCHANGED <<header, cells>> /\ lpc' = "idle"
        /\ \A t \in Adder : pc'[t] = "idle" /\ ~Busy(t)'
    BY DEF Crash, file, Busy
  <1>5. cut' <=> HalfWritten
    BY Zenon DEF Crash
  <1>2. Len(cells) \in Nat /\ Len(S) \in Nat
    BY CellsType
  <1>3. ASSUME HalfWritten PROVE Dead(S)'
    <2>1. header = NoHeader \/ Ahead(header, S)
      <3>1. ASSUME NEW t \in Adder, pc[t] \in {"prev", "block"} PROVE Ahead(header, S)
        <4>1. header = Header(Len(cells) + Size[t] + 1, Len(S) + 1)
          BY <3>1 DEF Agrees, At, Busy
        <4>2. Size[t] \in Nat
          BY UndeliveredAssumption
        <4> QED
          BY <1>2, <4>1, <4>2 DEF Ahead, Header
      <3> QED
        BY <1>3, <3>1 DEF HalfWritten, Agrees
    <2>2. Ahead(header, S) => Ahead(header, S)'
      BY <1>1 DEF Ahead
    <2> QED
      BY <1>1, <2>1, <2>2 DEF Dead, Agrees
  <1>4. ASSUME ~HalfWritten PROVE Agrees(S)'
    <2>1. lpc # "init" /\ \A t \in Adder : Busy(t) => pc[t] = "header"
      BY <1>4 DEF HalfWritten, Busy, Types
    <2>2. header = Full(S)
      <3>1. CASE \E t \in Adder : Busy(t)
        BY <2>1, <3>1 DEF Agrees, At
      <3>2. CASE \A t \in Adder : ~Busy(t)
        BY <2>1, <3>2 DEF Agrees
      <3> QED
        BY <3>1, <3>2
    <2>3. Full(S)' = Full(S)
      BY <1>1 DEF Full
    <2> QED
      BY <1>1, <2>2, <2>3 DEF Agrees
  <1> QED
    BY <1>3, <1>4, <1>5

(* The invariant, of the file alone.                                           *)
LEMMA FileInit == Init => FileI
  <1> SUFFICES ASSUME Init PROVE FileI
    OBVIOUS
  <1>1. <<>> \in Seq(Cell) /\ <<>> \in Seq(Message)
    OBVIOUS
  <1>2. Types
    <2>1. \A t \in Adder : <<t, 1>> \in Message
      BY MessageType
    <2>2. Hole \in Cell
      BY <1>1 DEF Hole, Cell
    <2>3. 0 \in 0 .. MaxLoads /\ 0 \in 0 .. MaxCrashes /\ \A t \in Adder : 0 \in 0 .. MaxAdds[t]
      BY UndeliveredAssumption
    <2>4. overlap \in BOOLEAN
      BY UndeliveredAssumption DEF Init
    <2> QED
      BY <1>1, <2>1, <2>2, <2>3, <2>4, HeadType DEF Init, Types, Heads
  <1>3. Fresh
    BY NoTexts DEF Init, Fresh, Busy
  <1>4. Agrees(<<>>)
    BY FileEmpty DEF Init, Agrees, Busy, Full
  <1>5. cut = FALSE
    BY DEF Init
  <1> QED
    BY <1>1, <1>2, <1>3, <1>4, <1>5 DEF FileI, Serial

FileMove == Next \/ (\E t \in Adder : Skip(t)) \/ UNCHANGED vars

(* A file that was left half written: no step changes it or reads it.          *)
LEMMA ReadsLess ==
    ASSUME Types, NEW S \in Seq(Message), cells = FileOf(S), NEW c \in GoodEnds
    PROVE  Len(MsgsTo(c)) <= Len(S)
  <1>1. /\ CodesIn(cells, S, Len(S)) /\ cells \in Seq(Cell)
    BY FileType DEF Types
  <1>2. CASE c = 0
    BY <1>2 DEF MsgsTo
  <1>3. CASE c # 0
    <2>1. c \in 1 .. Len(cells) /\ cells[c].kind = "code" /\ MsgsTo(c) = cells[c].of
      BY <1>1, <1>3, Readable DEF GoodEnds, MsgsTo
    <2>2. PICK i \in 1 .. Len(S) : cells[c] = Code(SubSeq(S, 1, i))
      BY <1>1, <2>1 DEF CodesIn
    <2>3. MsgsTo(c) = SubSeq(S, 1, i)
      BY <2>1, <2>2 DEF Code
    <2>4. Len(SubSeq(S, 1, i)) = i
      BY PrefixType
    <2> QED
      BY <2>3, <2>4
  <1> QED
    BY <1>2, <1>3

SameStore == UNCHANGED <<cells, loaded, lpc, taken, added>>

LEMMA DeadStep ==
    ASSUME Types, Fresh, ~overlap, cut, NEW S \in Seq(Message), Dead(S), FileMove
    PROVE  Dead(S)' /\ cut' /\ SameStore
  <1>1. Len(cells) \in Nat /\ Len(S) \in Nat
    BY DEF Types
  <1>2. ASSUME UNCHANGED cells, NEW h PROVE Ahead(h, S) => Ahead(h, S)'
    BY <1>2 DEF Ahead
  <1>3. ASSUME NEW t \in Adder, add_open(t) PROVE Dead(S)' /\ cut' /\ SameStore
    <2>1. UNCHANGED <<cells, header, lpc, loaded, taken, added, cut>>
      BY <1>3 DEF add_open, file, loader, stops
    <2>2. CASE UNCHANGED <<pc, seen>>
      BY <1>3, <2>1, <2>2 DEF Dead, Busy, Ahead, SameStore
    <2>3. CASE header # NoHeader /\ pc' = [pc EXCEPT ![t] = "header"]
               /\ seen' = [seen EXCEPT ![t] = header]
      <3>1. Ahead(header, S)
        BY <2>3 DEF Dead
      <3>2. ASSUME NEW u \in Adder
            PROVE  pc'[u] # "block" /\ (Busy(u)' => Ahead(seen'[u], S))
        BY <2>3, <3>1 DEF Dead, Busy, Types
      <3> QED
        BY <2>1, <3>1, <3>2 DEF Dead, Ahead, SameStore
    <2> QED
      BY <1>3, <2>2, <2>3 DEF add_open, goto
  <1>4. ASSUME NEW t \in Adder, add_header(t) PROVE Dead(S)' /\ cut' /\ SameStore
    <2>1. /\ pc[t] = "header" /\ pc' = [pc EXCEPT ![t] = "prev"]
          /\ header' = Header(seen[t].end + Size[t] + 1, seen[t].number + 1)
          /\ UNCHANGED <<cells, seen, lpc, loaded, taken, added, cut>>
      BY <1>4 DEF add_header, goto, loader, stops
    <2>2. Ahead(seen[t], S) /\ seen[t].end \in Nat /\ seen[t].number \in Nat
      BY <2>1, HeadType DEF Dead, Busy, Types, Fresh
    <2>3. Size[t] \in Nat
      BY UndeliveredAssumption
    <2>4. header'.end = seen[t].end + Size[t] + 1 /\ header'.number = seen[t].number + 1
      BY <2>1 DEF Header
    <2>5. Ahead(header', S)
      BY <1>1, <2>2, <2>3, <2>4 DEF Ahead
    <2>6. \A u \in Adder : pc'[u] # "block" /\ (Busy(u)' => Ahead(seen[u], S))
      BY <2>1, <2>2 DEF Dead, Busy, Types
    <2> QED
      BY <2>1, <2>5, <2>6 DEF Dead, Ahead, SameStore
  <1>5. ASSUME NEW t \in Adder, add_prev_mac(t) PROVE Dead(S)' /\ cut' /\ SameStore
    <2>1. pc[t] = "prev" /\ UNCHANGED <<cells, header, seen, lpc, loaded, taken, added, cut>>
      BY <1>5 DEF add_prev_mac, file, loader, stops
    <2>2. Ahead(seen[t], S) /\ seen[t].end \in Nat
      BY <2>1, HeadType DEF Dead, Busy, Types, Fresh
    <2>3. seen[t].end # 0 /\ ~(seen[t].end <= Len(cells))
      BY <1>1, <2>2 DEF Ahead
    <2>4. pc' = [pc EXCEPT ![t] = "idle"]
      BY <1>5, <2>3 DEF add_prev_mac, goto
    <2>5. \A u \in Adder : pc'[u] # "block" /\ (Busy(u)' => Ahead(seen[u], S))
      BY <2>4 DEF Dead, Busy, Types
    <2> QED
      BY <2>1, <2>5 DEF Dead, Ahead, SameStore
  <1>6. ASSUME NEW t \in Adder, add_block(t) PROVE FALSE
    BY <1>6 DEF add_block, goto, Dead
  <1>7. ASSUME load_read PROVE Dead(S)' /\ cut' /\ SameStore
    <2>1. \A c \in GoodEnds : Len(MsgsTo(c)) <= Len(S) /\ Len(MsgsTo(c)) \in Nat
      BY ReadsLess, Readable DEF Dead, Types
    <2>2. header # NoHeader => Ahead(header, S) /\ header.number \in Nat
      BY HeadType DEF Dead, Types
    <2>3. \A c \in GoodEnds : header # NoHeader => Len(MsgsTo(c)) # header.number
      BY <1>1, <2>1, <2>2 DEF Ahead
    <2>4. UNCHANGED <<lpc, loaded>>
      BY <1>7, <2>3 DEF load_read
    <2>5. UNCHANGED <<cells, header, pc, seen, taken, added, cut>>
      BY <1>7 DEF load_read, file, adder, stops
    <2> QED
      BY <2>4, <2>5 DEF Dead, Busy, Ahead, SameStore
  <1>8. ~init_truncate /\ ~init_header
    BY DEF init_truncate, init_header, Dead
  <1>9. ASSUME Crash PROVE Dead(S)' /\ cut' /\ SameStore
    <2>1. /\ UNCHANGED <<cells, header, taken, added>> /\ cut' /\ lpc' = "idle" /\ loaded' = <<>>
          /\ \A u \in Adder : pc'[u] = "idle"
      BY <1>9 DEF Crash, file
    <2>2. lpc = "idle" /\ loaded = <<>>
      BY DEF Dead, Fresh
    <2> QED
      BY <2>1, <2>2 DEF Dead, Busy, Ahead, SameStore
  <1>10. ASSUME NEW t \in Adder, Skip(t) PROVE Dead(S)' /\ cut' /\ SameStore
    <2>1. UNCHANGED <<cells, header, pc, seen, lpc, loaded, taken, added, cut>>
      BY <1>10 DEF Skip, file, loader, stops
    <2> QED
      BY <2>1 DEF Dead, Busy, Ahead, SameStore
  <1>11. ASSUME UNCHANGED vars PROVE Dead(S)' /\ cut' /\ SameStore
    <2>1. UNCHANGED <<cells, header, pc, seen, lpc, loaded, taken, added, cut>>
      BY <1>11 DEF vars, file, adder, loader, stops
    <2> QED
      BY <2>1 DEF Dead, Busy, Ahead, SameStore
  <1> QED
    BY <1>3, <1>4, <1>5, <1>6, <1>7, <1>8, <1>9, <1>10, <1>11
       DEF FileMove, Next, undel_add_message, undel_load

LEMMA CutKept ==
    ASSUME FileMove
    PROVE  overlap' = overlap /\ (cut' = cut \/ Crash)
  BY DEF FileMove, Next, Skip, undel_add_message, undel_load, add_open, add_header,
         add_prev_mac, add_block, load_read, init_truncate, init_header, Crash, vars, file, stops

LEMMA SerialStep ==
    ASSUME Types, Types', Fresh, Serial, FileMove
    PROVE  Serial'
  <1> SUFFICES ASSUME ~overlap
               PROVE  \E S \in Seq(Message) : IF cut' THEN Dead(S)' ELSE Agrees(S)'
    BY CutKept DEF Serial
  <1>1. PICK S \in Seq(Message) : IF cut THEN Dead(S) ELSE Agrees(S)
    BY DEF Serial
  <1>2. CASE cut
    BY <1>1, <1>2, DeadStep
  <1>3. CASE ~cut /\ Crash
    BY <1>1, <1>3, CrashAgrees
  <1>4. CASE ~cut /\ ~Crash
    <2>1. ~cut' /\ Agrees(S)
      BY <1>1, <1>4, CutKept DEF Types
    <2>2. ASSUME NEW t \in Adder, undel_add_message(t)
          PROVE  \E R \in Seq(Message) : Agrees(R)'
      <3>1. CASE add_open(t)
        BY <2>1, <3>1, OpenAgrees
      <3>2. CASE add_header(t)
        BY <2>1, <3>2, CountAgrees
      <3>3. CASE add_prev_mac(t)
        BY <2>1, <3>3, PrevAgrees
      <3>4. CASE add_block(t)
        BY <2>1, <3>4, BlockAgrees
      <3> QED
        BY <2>2, <3>1, <3>2, <3>3, <3>4 DEF undel_add_message
    <2>3. ASSUME undel_load PROVE \E R \in Seq(Message) : Agrees(R)'
      <3>1. <<>> \in Seq(Message)
        OBVIOUS
      <3> QED
        BY <2>1, <2>3, <3>1, LoadAgrees, TruncateAgrees, InitAgrees DEF undel_load
    <2>4. CASE (\E t \in Adder : Skip(t)) \/ UNCHANGED vars
      <3>1. UNCHANGED <<pc, seen, prev, header, cells, lpc, loaded>>
        BY <2>4 DEF Skip, vars, file, adder, loader
      <3> QED
        BY <2>1, <3>1, SkipAgrees
    <2>5. \E R \in Seq(Message) : Agrees(R)'
      <3>1. \/ \E t \in Adder : undel_add_message(t)
            \/ undel_load
            \/ (\E t \in Adder : Skip(t)) \/ UNCHANGED vars
        BY Zenon, <1>4 DEF FileMove, Next
      <3>2. CASE \E t \in Adder : undel_add_message(t)
        BY <2>2, <3>2
      <3>3. CASE undel_load
        BY <2>3, <3>3
      <3>4. CASE (\E t \in Adder : Skip(t)) \/ UNCHANGED vars
        BY <2>1, <2>4, <3>4
      <3> QED
        BY <3>1, <3>2, <3>3, <3>4
    <2> QED
      BY <2>1, <2>5
  <1> QED
    BY <1>2, <1>3, <1>4

LEMMA SameFile ==
    ASSUME Types, Fresh, UNCHANGED vars
    PROVE  Types' /\ Fresh' /\ Done' = Done
  <1>1. Types'
    BY DEF Types, vars, file, adder, loader, stops
  <1>2. Done' = Done
    BY DEF Done, Busy, vars, adder
  <1>3. \A t \in Adder : Busy(t)' =>
          seen'[t] # NoHeader /\ m'[t] = <<t, nadds'[t]>> /\ nadds'[t] >= 1
    BY DEF Busy, Fresh, vars, adder
  <1>4. Fresh'
    BY <1>2, <1>3, KeepFresh DEF vars, file, loader
  <1> QED
    BY <1>1, <1>2, <1>4

LEMMA FileStep ==
    ASSUME FileI, FileMove
    PROVE  FileI' /\ Done \subseteq Done'
  <1> USE DEF FileI
  <1>1. Types' /\ Fresh' /\ Done \subseteq Done'
    <2>1. ASSUME NEW t \in Adder, undel_add_message(t)
          PROVE  Types' /\ Fresh' /\ Done \subseteq Done'
      BY <2>1, AddTypes, AddFresh
    <2>2. CASE undel_load
      BY <2>2, LoadTypes, LoadFresh
    <2>3. CASE Crash
      BY <2>3, CrashTypes, CrashFresh
    <2>4. ASSUME NEW t \in Adder, Skip(t)
          PROVE  Types' /\ Fresh' /\ Done \subseteq Done'
      BY <2>4, SkipTypes, SkipFresh
    <2>5. CASE UNCHANGED vars
      BY <2>5, SameFile
    <2> QED
      BY <2>1, <2>2, <2>3, <2>4, <2>5 DEF FileMove, Next
  <1>2. Serial'
    BY <1>1, SerialStep
  <1> QED
    BY <1>1, <1>2

ReadsRight ==
    \A S \in Seq(Message) :
        Agrees(S) \/ Dead(S) => Stored = S /\ Max(GoodEnds) = Len(cells)

LEMMA Reads == Types => ReadsRight
  <1> SUFFICES ASSUME Types, NEW S \in Seq(Message), Agrees(S) \/ Dead(S)
               PROVE  Stored = S /\ Max(GoodEnds) = Len(cells)
    BY DEF ReadsRight
  <1> QED
    BY ReadsAll DEF Types, Agrees, Dead

LEMMA FileHolds == FileI => FileInv
  <1> SUFFICES ASSUME FileI PROVE FileInv
    OBVIOUS
  <1>1. TypeOK
    <2>1. header.end \in Int /\ header.number \in Nat
      BY HeadType DEF FileI, Types, NoHeader, Header
    <2> QED
      BY <2>1 DEF FileI, Types, TypeOK
  <1>2. HeaderAgrees
    <2> SUFFICES ASSUME ~overlap, Quiet PROVE IF cut THEN Refused ELSE Whole
      BY DEF HeaderAgrees
    <2>1. PICK S \in Seq(Message) : IF cut THEN Dead(S) ELSE Agrees(S)
      BY DEF FileI, Serial
    <2>2. Stored = S /\ Max(GoodEnds) = Len(cells)
      BY <2>1, Reads DEF FileI, ReadsRight
    <2>3. CASE cut
      BY <2>1, <2>2, <2>3 DEF Dead, Ahead, Refused
    <2>4. CASE ~cut
      BY <2>1, <2>2, <2>4 DEF Agrees, Quiet, Busy, Full, Whole
    <2> QED
      BY <2>3, <2>4
  <1> QED
    BY <1>1, <1>2 DEF FileInv

-------------------------------------------------------------------------------
(* The store: each step of the file is a step of MessageStore or none.         *)
Store == IF overlap THEN <<>> ELSE Stored
Taken == IF overlap THEN <<>> ELSE taken

LEMMA StoreInit == Init => Abstract!Init
  <1> SUFFICES ASSUME Init PROVE Abstract!Init
    OBVIOUS
  <1>1. GoodEnds = {0}
    BY DEF Init, GoodEnds
  <1>2. Stored = <<>>
    <2>1. Max(GoodEnds) = 0
      BY <1>1 DEF Max
    <2> QED
      BY <2>1 DEF Stored, MsgsTo
  <1> QED
    BY <1>2 DEF Abstract!Init, Init

LEMMA StoreStep ==
    ASSUME FileI, FileI', ReadsRight, ReadsRight', FileMove
    PROVE  [Abstract!Next]_<<Store, Taken>>
  <1>1. overlap' = overlap
    BY CutKept
  <1>2. CASE overlap
    BY <1>1, <1>2 DEF Store, Taken
  <1> USE DEF FileI
  <1>3. CASE ~overlap /\ cut
    <2>1. PICK S \in Seq(Message) : Dead(S)
      BY <1>3 DEF Serial
    <2>2. Dead(S)' /\ SameStore
      BY <1>3, <2>1, DeadStep
    <2>3. Stored = S /\ Stored' = S
      BY <2>1, <2>2 DEF ReadsRight
    <2> QED
      BY <1>1, <2>2, <2>3 DEF Store, Taken, SameStore
  <1>4. CASE ~overlap /\ ~cut
    <2>1. PICK S \in Seq(Message) : Agrees(S)
      BY <1>4 DEF Serial
    <2>2. Store = S
      BY <1>4, <2>1 DEF ReadsRight, Store
    <2>3. \A R \in Seq(Message) : Agrees(R)' \/ Dead(R)' => Store' = R
      BY <1>1, <1>4 DEF ReadsRight, Store
    <2>4. ASSUME NEW t \in Adder, add_open(t) \/ add_header(t) \/ add_prev_mac(t)
          PROVE  UNCHANGED <<Store, Taken>>
      <3>1. Agrees(S)'
        BY <1>4, <2>1, <2>4, OpenAgrees, CountAgrees, PrevAgrees
      <3>2. UNCHANGED taken
        BY <2>4 DEF add_open, add_header, add_prev_mac
      <3> QED
        BY <1>1, <2>2, <2>3, <3>1, <3>2 DEF Taken
    <2>5. ASSUME NEW t \in Adder, add_block(t) PROVE Abstract!Put(m[t])
      <3> PICK R : R = Append(S, m[t])
        OBVIOUS
      <3>1. Agrees(R)' /\ R \in Seq(Message)
        BY <1>4, <2>1, <2>5, BlockAgrees
      <3>2. UNCHANGED taken
        BY <2>5 DEF add_block
      <3>3. Store' = Append(Store, m[t]) /\ Taken' = Taken
        BY <1>1, <2>2, <2>3, <3>1, <3>2 DEF Taken
      <3> QED
        BY <3>3 DEF Abstract!Put, Store, Taken
    <2>6. ASSUME load_read PROVE UNCHANGED <<Store, Taken>>
      <3>1. Agrees(S)'
        BY <1>4, <2>1, <2>6, LoadAgrees
      <3>2. taken' = taken
        BY <2>6 DEF load_read
      <3> QED
        BY <1>1, <2>2, <2>3, <3>1, <3>2 DEF Taken
    <2>7. ASSUME init_truncate PROVE Abstract!TakeAll
      <3>1. Agrees(<<>>)' /\ loaded = S
        BY <1>4, <2>1, <2>7, TruncateAgrees
      <3>2. taken' = taken \o S
        BY <2>7, <3>1 DEF init_truncate
      <3>3. <<>> \in Seq(Message)
        OBVIOUS
      <3>4. Store' = <<>>
        BY <2>3, <3>1, <3>3
      <3>5. Taken = taken /\ Taken' = taken \o S
        BY <1>1, <1>4, <3>2 DEF Taken
      <3> QED
        BY <2>2, <3>4, <3>5 DEF Abstract!TakeAll, Store, Taken
    <2>8. ASSUME init_header PROVE UNCHANGED <<Store, Taken>>
      <3>1. Agrees(S)'
        BY <1>4, <2>1, <2>8, InitAgrees
      <3>2. taken' = taken
        BY <2>8 DEF init_header
      <3> QED
        BY <1>1, <2>2, <2>3, <3>1, <3>2 DEF Taken
    <2>9. CASE (\E t \in Adder : Skip(t)) \/ UNCHANGED vars
      <3>1. UNCHANGED <<pc, seen, prev, header, cells, lpc, loaded, taken>>
        BY <2>9 DEF Skip, vars, file, adder, loader
      <3>2. Agrees(S)'
        BY <2>1, <3>1, SkipAgrees
      <3> QED
        BY <1>1, <2>2, <2>3, <3>1, <3>2 DEF Taken
    <2>10. ASSUME Crash PROVE UNCHANGED <<Store, Taken>>
      <3>1. Agrees(S)' \/ Dead(S)'
        BY <1>4, <2>1, <2>10, CrashAgrees
      <3>2. taken' = taken
        BY <2>10 DEF Crash
      <3> QED
        BY <1>1, <2>2, <2>3, <3>1, <3>2 DEF Taken
    <2>11. \A t \in Adder : m[t] \in Message
      BY DEF Types
    <2>12. CASE \E t \in Adder : undel_add_message(t)
      BY <2>4, <2>5, <2>11, <2>12 DEF undel_add_message, Abstract!Next
    <2>13. CASE undel_load
      BY <2>6, <2>7, <2>8, <2>13 DEF undel_load, Abstract!Next
    <2> QED
      BY <2>9, <2>10, <2>12, <2>13 DEF FileMove, Next
  <1> QED
    BY <1>2, <1>3, <1>4

LEMMA FileInductive == Spec => []FileI
  <1>1. FileI /\ [Next]_vars => FileI'
    BY FileStep DEF FileMove
  <1> QED
    BY FileInit, <1>1, PTL DEF Spec

(* undel_add_message, undel_load, undel_init_file: whenever no call is under   *)
(* way the header has the end and the number of the messages that undel_load   *)
(* will read, unless calls have overlapped or the server has stopped with the  *)
(* file half written: then it is refused.                                      *)
THEOREM FileAgrees == Spec => []FileInv
  BY FileInductive, FileHolds, PTL

(* When calls do not overlap: each of their writes is a step of MessageStore or*)
(* none; the block that undel_add_message writes puts the message after the    *)
(* others, undel_init_file takes all.  So none is overwritten or read twice,   *)
(* and they are read in the order in which they were put, wherever the server  *)
(* stops.                                                                      *)
THEOREM FileIsStore == Spec => ImplementsStore
  <1>1. FileI => ReadsRight
    BY Reads DEF FileI
  <1>2. FileI /\ FileI' /\ ReadsRight /\ ReadsRight' /\ [Next]_vars
        => [Abstract!Next]_<<Store, Taken>>
    BY StoreStep DEF FileMove
  <1> QED
    BY <1>1, <1>2, StoreInit, FileInductive, PTL
       DEF Spec, ImplementsStore, Abstract!Spec, Store, Taken

-------------------------------------------------------------------------------
(* Delivery: where a message can be when its call has returned.                *)
SentI ==
    /\ sent \in Seq(Message) /\ backlog \in Seq(Message) /\ lost \subseteq Message
    /\ Once(sent) /\ Once(backlog)
    /\ \A x \in Message :
          /\ ~(In(x, sent) /\ In(x, backlog))
          /\ x \in lost => ~In(x, sent) /\ ~In(x, backlog)
          /\ In(x, sent) \/ In(x, backlog) \/ x \in lost =>
                x \in Done /\ ~TextOf(x, cells) /\ ~In(x, loaded)

SessionI ==
    /\ session \in Nat /\ online \in {0, session}
    /\ opc \in {"off", "load", "send", "serving"}
    /\ route \in [Adder -> NoRoute .. session]
    /\ session <= nloads + ncrashes + (IF opc = "load" /\ lpc = "idle" THEN 1 ELSE 0)
    /\ opc = "load" /\ lpc = "idle" => nloads < MaxLoads
    /\ opc # "send" => backlog = <<>>
    /\ lpc # "idle" => opc = "load"
    /\ \A t \in Adder : /\ Busy(t) => route[t] = NULL
                        /\ ~Busy(t) /\ route[t] # NoRoute => nadds[t] < MaxAdds[t]

Loaded(x) == lpc = "init" /\ In(x, loaded)
KeptI == ~overlap => \A x \in added :
            In(x, Stored) \/ Loaded(x) \/ In(x, backlog) \/ In(x, sent) \/ x \in lost

DI == FileI /\ SentI /\ SessionI /\ KeptI

LEMMA DInitHolds == DInit => DI
  <1> SUFFICES ASSUME DInit PROVE DI
    OBVIOUS
  <1>1. Init
    BY DEF DInit
  <1>2. FileI
    BY <1>1, FileInit
  <1>3. <<>> \in Seq(Message)
    OBVIOUS
  <1>4. SentI
    BY <1>3, NoTexts DEF DInit, SentI
  <1>5. SessionI
    <2>1. nloads = 0 /\ ncrashes = 0 /\ lpc = "idle" /\ \A t \in Adder : ~Busy(t)
      BY <1>1 DEF Init, Busy
    <2> QED
      BY <2>1 DEF DInit, SessionI, NoRoute, NULL
  <1>6. KeptI
    BY <1>1 DEF Init, KeptI
  <1> QED
    BY <1>2, <1>4, <1>5, <1>6 DEF DI

(* Each step is one of the file, one that leaves it, or a call to a session.   *)
LEMMA DMoves ==
    ASSUME DI, [DNext]_dvars
    PROVE  FileMove
  <1>1. ASSUME NEW t \in Adder, send_live(t) PROVE Skip(t)
    <2>1. ~Busy(t) /\ nadds[t] < MaxAdds[t]
      BY <1>1 DEF send_live, DI, SessionI
    <2> QED
      BY <1>1, <2>1 DEF send_live, Skip
  <1>2. ASSUME NEW t \in Adder, get_handler(t) \/ store(t) PROVE FileMove
    BY <1>2 DEF get_handler, store, FileMove, Next
  <1>3. ASSUME client_handler PROVE FileMove
    BY <1>3 DEF client_handler, add_handler, load, send_undelivered, rem_handler,
                FileMove, Next
  <1>4. ASSUME Restart PROVE FileMove
    BY <1>4 DEF Restart, FileMove, Next
  <1>5. CASE UNCHANGED dvars
    BY <1>5 DEF dvars, FileMove
  <1> QED
    BY <1>1, <1>2, <1>3, <1>4, <1>5 DEF DNext, handle_message, FileMove

-------------------------------------------------------------------------------
(* Sequences that list each value once.                                        *)
LEMMA AppendOnce ==
    ASSUME NEW T, NEW q \in Seq(T), NEW y \in T
    PROVE  /\ Append(q, y) \in Seq(T)
           /\ \A x \in T : In(x, Append(q, y)) <=> In(x, q) \/ x = y
           /\ Once(q) /\ ~In(y, q) => Once(Append(q, y))
  <1> DEFINE r == Append(q, y)
  <1>1. /\ r \in Seq(T) /\ Len(r) = Len(q) + 1 /\ Len(q) \in Nat /\ r[Len(q) + 1] = y
        /\ \A i \in 1 .. Len(q) : r[i] = q[i]
    OBVIOUS
  <1> HIDE DEF r
  <1>2. \A i \in 1 .. Len(r) : i \in 1 .. Len(q) \/ i = Len(q) + 1
    BY <1>1
  <1>3. \A i \in 1 .. Len(q) : i \in 1 .. Len(r) /\ i # Len(q) + 1
    BY <1>1
  <1>4. Len(q) + 1 \in 1 .. Len(r)
    BY <1>1
  <1>5. \A x \in T : In(x, r) <=> In(x, q) \/ x = y
    BY <1>1, <1>2, <1>3, <1>4 DEF In
  <1>6. Once(q) /\ ~In(y, q) => Once(r)
    BY <1>1, <1>2, <1>3, <1>4 DEF In, Once
  <1> QED
    BY <1>1, <1>5, <1>6 DEF r

LEMMA TailOnce ==
    ASSUME NEW T, NEW q \in Seq(T), q # <<>>
    PROVE  /\ Head(q) \in T /\ Tail(q) \in Seq(T)
           /\ \A x \in T : In(x, q) <=> In(x, Tail(q)) \/ x = Head(q)
           /\ Once(q) => Once(Tail(q)) /\ ~In(Head(q), Tail(q))
  <1> DEFINE r == Tail(q)
  <1>1. /\ r \in Seq(T) /\ Len(r) = Len(q) - 1 /\ Len(q) \in Nat \ {0} /\ Head(q) = q[1]
        /\ \A i \in 1 .. Len(r) : r[i] = q[i + 1]
    OBVIOUS
  <1> HIDE DEF r
  <1>2. \A i \in 1 .. Len(q) : i = 1 \/ (i - 1 \in 1 .. Len(r) /\ q[i] = r[i - 1])
    BY <1>1
  <1>3. \A i \in 1 .. Len(r) : i + 1 \in 1 .. Len(q) /\ i + 1 # 1
    BY <1>1
  <1>4. 1 \in 1 .. Len(q)
    BY <1>1
  <1>5. \A x \in T : In(x, q) <=> In(x, r) \/ x = Head(q)
    BY <1>1, <1>2, <1>3, <1>4 DEF In
  <1>6. ASSUME Once(q) PROVE Once(r) /\ ~In(Head(q), r)
    <2>1. \A i \in 1 .. Len(r) : q[i + 1] # q[1]
      BY <1>3, <1>4, <1>6 DEF Once
    <2>2. \A i, j \in 1 .. Len(r) : q[i + 1] = q[j + 1] => i + 1 = j + 1
      BY <1>3, <1>6 DEF Once
    <2> QED
      BY <1>1, <2>1, <2>2 DEF In, Once
  <1> QED
    BY <1>1, <1>5, <1>6 DEF r

LEMMA ConcatOnce ==
    ASSUME NEW T, NEW p \in Seq(T), NEW q \in Seq(T)
    PROVE  /\ p \o q \in Seq(T)
           /\ \A x \in T : In(x, p \o q) <=> In(x, p) \/ In(x, q)
           /\ Once(p) /\ Once(q) /\ (\A x \in T : ~(In(x, p) /\ In(x, q))) => Once(p \o q)
  <1> DEFINE r == p \o q
  <1>1. /\ r \in Seq(T)
        /\ Len(p) \in Nat /\ Len(q) \in Nat /\ Len(r) = Len(p) + Len(q)
        /\ \A i \in 1 .. Len(p) : i \in 1 .. Len(r) /\ r[i] = p[i]
        /\ \A i \in 1 .. Len(q) : Len(p) + i \in 1 .. Len(r) /\ r[Len(p) + i] = q[i]
        /\ \A i \in 1 .. Len(r) : i > Len(p) =>
              i - Len(p) \in 1 .. Len(q) /\ r[i] = q[i - Len(p)]
    BY ConcatAt
  <1> HIDE DEF r
  <1>2. \A i \in 1 .. Len(r) : \/ i \in 1 .. Len(p) /\ r[i] = p[i]
                               \/ i - Len(p) \in 1 .. Len(q) /\ r[i] = q[i - Len(p)]
    BY <1>1
  <1>3. \A x \in T : In(x, r) <=> In(x, p) \/ In(x, q)
    BY ZenonT(40), <1>1, <1>2 DEF In
  <1>4. ASSUME Once(p), Once(q), \A x \in T : ~(In(x, p) /\ In(x, q)) PROVE Once(r)
    <2> SUFFICES ASSUME NEW i \in 1 .. Len(r), NEW j \in 1 .. Len(r), r[i] = r[j]
                 PROVE  i = j
      BY DEF Once
    <2>1. r[i] \in T
      BY <1>1
    <2>2. CASE i \in 1 .. Len(p) /\ r[i] = p[i]
      <3>1. In(r[i], p)
        BY <2>2 DEF In
      <3>2. ~In(r[i], q)
        BY <1>4, <2>1, <3>1
      <3>3. j \in 1 .. Len(p) /\ r[j] = p[j]
        BY <1>2, <3>2 DEF In
      <3> QED
        BY <1>4, <2>2, <3>3 DEF Once
    <2>3. CASE i - Len(p) \in 1 .. Len(q) /\ r[i] = q[i - Len(p)]
      <3>1. In(r[i], q)
        BY <2>3 DEF In
      <3>2. ~In(r[i], p)
        BY <1>4, <2>1, <3>1
      <3>3. j - Len(p) \in 1 .. Len(q) /\ r[j] = q[j - Len(p)]
        BY <1>2, <3>2 DEF In
      <3>4. i - Len(p) = j - Len(p)
        BY <1>4, <2>3, <3>3 DEF Once
      <3> QED
        BY <1>1, <3>4
    <2> QED
      BY <1>2, <2>2, <2>3
  <1> QED
    BY <1>1, <1>3, <1>4 DEF r
Joined(r, p, q) == r = p \o q
LEMMA JoinedOnce ==
    ASSUME NEW T, NEW p \in Seq(T), NEW q \in Seq(T), NEW r, Joined(r, p, q)
    PROVE  /\ r \in Seq(T)
           /\ \A x \in T : In(x, r) <=> In(x, p) \/ In(x, q)
           /\ Once(p) /\ Once(q) /\ (\A x \in T : ~(In(x, p) /\ In(x, q))) => Once(r)
  <1>1. r = p \o q
    BY DEF Joined
  <1> QED
    BY Zenon, <1>1, ConcatOnce

-------------------------------------------------------------------------------
(* What a step of the file brings into it, and what it reads from it.          *)
NewTexts ==
    \A x \in Message :
        /\ TextOf(x, cells') => TextOf(x, cells) \/ x \notin Done
        /\ In(x, loaded') => In(x, loaded) \/ TextOf(x, cells)

LEMMA FileNews ==
    ASSUME FileI, FileMove
    PROVE  NewTexts
  <1> USE DEF FileI
  <1>1. CASE UNCHANGED <<cells, loaded>>
    BY <1>1 DEF NewTexts
  <1>2. ASSUME NEW t \in Adder, add_block(t) PROVE NewTexts
    <2>1. Busy(t) /\ cells' = WriteAt(seen[t].end, BlockOf(m[t], NextCode(t)))
          /\ loaded' = loaded
      BY <1>2 DEF add_block, goto, Busy, loader
    <2>2. m[t] \in Message /\ m[t] \notin Done
      BY <2>1, Pending
    <2>3. ~TextOf(m[t], cells) /\ seen[t].end \in Nat
      BY <2>1, <2>2, HeadType DEF Types, Fresh
    <2>4. \A y \in Message : TextOf(y, cells') => y = m[t] \/ TextOf(y, cells)
      <3>1. cells \in Seq(Cell) /\ OneText(cells)
        BY DEF Types, Fresh
      <3>2. NextCode(t) \in Cell /\ NextCode(t).kind # "text"
        BY NextCodeType
      <3> QED
        BY <2>1, <2>2, <2>3, <3>1, <3>2, WriteText
    <2> QED
      BY <2>1, <2>2, <2>4 DEF NewTexts
  <1>3. ASSUME load_read PROVE NewTexts
    <2>1. cells' = cells
      BY <1>3 DEF load_read, file
    <2>2. ASSUME NEW c \in GoodEnds, loaded' = MsgsTo(c) PROVE NewTexts
      <3>1. \A x \in Message : In(x, MsgsTo(c)) => TextOf(x, cells)
        BY ReadOnce DEF Types, Fresh
      <3> QED
        BY <2>1, <2>2, <3>1 DEF NewTexts
    <2> QED
      BY <1>1, <1>3, <2>1, <2>2 DEF load_read
  <1>4. CASE (init_truncate \/ init_header \/ Crash)
    <2>1. (cells' = cells \/ cells' = <<>>) /\ (loaded' = loaded \/ loaded' = <<>>)
      BY <1>4 DEF init_truncate, init_header, Crash, file
    <2> QED
      BY <2>1, NoTexts DEF NewTexts
  <1>5. ASSUME NEW t \in Adder, add_open(t) \/ add_header(t) \/ add_prev_mac(t) \/ Skip(t)
        PROVE  UNCHANGED <<cells, loaded>>
    BY <1>5 DEF add_open, add_header, add_prev_mac, Skip, file, loader
  <1>6. UNCHANGED vars => UNCHANGED <<cells, loaded>>
    BY DEF vars, file, loader
  <1> QED
    BY <1>1, <1>2, <1>3, <1>4, <1>5, <1>6
       DEF FileMove, Next, undel_add_message, undel_load

(* What is sent, when a step does not send.                                    *)
LEMMA KeepSent ==
    ASSUME FileI, FileI', FileMove, SentI, UNCHANGED <<sent, backlog, lost>>
    PROVE  SentI'
  <1>1. Done \subseteq Done' /\ NewTexts
    BY FileStep, FileNews
  <1>2. \A x \in Message : (In(x, sent) \/ In(x, backlog) \/ x \in lost) =>
          x \in Done' /\ ~TextOf(x, cells') /\ ~In(x, loaded')
    BY <1>1 DEF SentI, NewTexts
  <1> QED
    BY <1>2 DEF SentI, In, TextOf, Once

(* What a stop finds in hand.                                                  *)
LEMMA HandOnce ==
    ASSUME FileI, SentI
    PROVE  /\ InHand \in Seq(Message) /\ Once(InHand)
           /\ ToSet(InHand) \subseteq Message
           /\ \A x \in Message : In(x, InHand) <=> Loaded(x) \/ In(x, backlog)
           /\ \A x \in Message : x \in ToSet(InHand) <=> Loaded(x) \/ In(x, backlog)
  <1> DEFINE l == IF lpc = "init" THEN loaded ELSE <<>>
  <1>1. /\ l \in Seq(Message) /\ Once(l)
        /\ \A y \in Message : In(y, l) <=> Loaded(y)
        /\ \A y \in Message : In(y, l) => In(y, loaded)
    <2>1. CASE lpc = "init"
      BY <2>1 DEF FileI, Types, Fresh, Loaded
    <2>2. CASE lpc # "init"
      <3>1. l = <<>> /\ <<>> \in Seq(Message)
        BY <2>2
      <3> QED
        BY <2>2, <3>1, NoTexts DEF Loaded
    <2> QED
      BY <2>1, <2>2
  <1>2. InHand = l \o backlog
    BY DEF InHand
  <1> HIDE DEF l
  <1>3. /\ backlog \in Seq(Message) /\ Once(backlog)
        /\ \A y \in Message : ~(In(y, l) /\ In(y, backlog))
    BY <1>1 DEF SentI
  <1>4. PICK h : Joined(h, l, backlog)
    BY DEF Joined
  <1>5. /\ h \in Seq(Message) /\ Once(h)
        /\ \A y \in Message : In(y, h) <=> In(y, l) \/ In(y, backlog)
    BY <1>1, <1>3, <1>4, JoinedOnce
  <1>6. InHand = h
    BY <1>2, <1>4 DEF Joined
  <1>7. /\ ToSet(h) \subseteq Message
        /\ \A x \in Message : x \in ToSet(h) <=> In(x, h)
    BY <1>5 DEF ToSet, In
  <1> QED
    BY <1>1, <1>5, <1>6, <1>7

LEMMA SentStep ==
    ASSUME DI, FileI', [DNext]_dvars
    PROVE  SentI'
  <1> USE DEF DI
  <1>1. FileMove
    BY DMoves
  <1>2. Done \subseteq Done' /\ NewTexts
    BY <1>1, FileStep, FileNews
  <1>3. sent \in Seq(Message) /\ backlog \in Seq(Message) /\ Once(sent) /\ Once(backlog)
        /\ lost \subseteq Message
    BY DEF SentI
  <1>4. CASE UNCHANGED <<sent, backlog, lost>>
    BY <1>1, <1>4, KeepSent
  <1>5. ASSUME NEW t \in Adder, send_live(t) PROVE SentI'
    <2> DEFINE x == <<t, nadds[t] + 1>>
    <2>1. Skip(t)
      BY <1>5 DEF send_live, SessionI, Skip
    <2>2. /\ x \in Message /\ x \in Done' /\ x \notin Done
          /\ ~TextOf(x, cells') /\ ~In(x, loaded')
      BY <2>1, SkipFresh DEF FileI
    <2>3. backlog' = backlog /\ lost' = lost /\ (sent' = sent \/ sent' = Append(sent, x))
      BY <1>5 DEF send_live, own
    <2> HIDE DEF x
    <2>4. ~In(x, sent) /\ ~In(x, backlog) /\ x \notin lost
      BY <2>2 DEF SentI
    <2>5. CASE sent' = Append(sent, x)
      <3>1. /\ sent' \in Seq(Message) /\ Once(sent')
            /\ \A y \in Message : In(y, sent') <=> In(y, sent) \/ y = x
        BY <1>3, <2>2, <2>4, <2>5, AppendOnce
      <3>2. \A y \in Message :
              /\ ~(In(y, sent') /\ In(y, backlog'))
              /\ y \in lost' => ~In(y, sent') /\ ~In(y, backlog')
              /\ In(y, sent') \/ In(y, backlog') \/ y \in lost' =>
                    y \in Done' /\ ~TextOf(y, cells') /\ ~In(y, loaded')
        BY <1>2, <2>2, <2>3, <2>4, <3>1 DEF SentI, NewTexts
      <3> QED
        BY <1>3, <2>3, <3>1, <3>2 DEF SentI, In, TextOf, Once
    <2> QED
      BY <1>4, <2>3, <2>5
  <1>6. ASSUME load PROVE SentI'
    <2>1. undel_load /\ opc = "load" /\ sent' = sent /\ lost' = lost /\ backlog = <<>>
      BY <1>6 DEF load, SessionI
    <2>2. CASE lpc' # "idle"
      BY <1>4, <1>6, <2>2 DEF load
    <2>3. CASE lpc' = "idle" /\ ~init_header
      <3>1. lpc = "idle"
        BY <2>1, <2>3 DEF undel_load, load_read, init_truncate
      <3>2. backlog' = <<>>
        BY <1>6, <2>3, <3>1 DEF load, FileI, Fresh
      <3> QED
        BY <1>4, <2>1, <3>2
    <2>4. CASE init_header
      <3>1. /\ lpc' = "idle" /\ loaded' = <<>> /\ cells' = cells /\ lpc = "init"
        BY <2>4 DEF init_header
      <3>2. backlog' = loaded
        BY <1>6, <3>1 DEF load
      <3>3. /\ Once(loaded) /\ loaded \in Seq(Message)
            /\ \A x \in Message : In(x, loaded) => x \in Done /\ ~TextOf(x, cells)
        BY <3>1 DEF FileI, Fresh, Types
      <3>4. \A x \in Message :
              /\ ~(In(x, sent') /\ In(x, backlog'))
              /\ x \in lost' => ~In(x, sent') /\ ~In(x, backlog')
              /\ In(x, sent') \/ In(x, backlog') \/ x \in lost' =>
                    x \in Done' /\ ~TextOf(x, cells') /\ ~In(x, loaded')
        BY <1>2, <2>1, <3>1, <3>2, <3>3, NoTexts DEF SentI
      <3> QED
        BY <1>3, <2>1, <3>2, <3>3, <3>4 DEF SentI, In, TextOf, Once
    <2> QED
      BY <2>2, <2>3, <2>4
  <1>7. ASSUME send_undelivered PROVE SentI'
    <2>1. CASE backlog = <<>>
      BY <1>4, <1>7, <2>1 DEF send_undelivered
    <2>2. CASE backlog # <<>>
      <3>1. /\ sent' = Append(sent, Head(backlog)) /\ backlog' = Tail(backlog)
            /\ lost' = lost /\ UNCHANGED vars
        BY <1>7, <2>2 DEF send_undelivered
      <3> DEFINE h == Head(backlog)
      <3>2. /\ h \in Message /\ backlog' \in Seq(Message) /\ Once(backlog') /\ ~In(h, backlog')
            /\ \A x \in Message : In(x, backlog) <=> In(x, backlog') \/ x = h
        BY <1>3, <2>2, <3>1, TailOnce
      <3> HIDE DEF h
      <3>3. ~In(h, sent) /\ h \notin lost
        BY <3>2 DEF SentI
      <3>4. /\ sent' \in Seq(Message) /\ Once(sent')
            /\ \A y \in Message : In(y, sent') <=> In(y, sent) \/ y = h
        BY <1>3, <3>1, <3>2, <3>3, AppendOnce DEF h
      <3>5. cells' = cells /\ loaded' = loaded
        BY <3>1 DEF vars, file, loader
      <3>6. \A y \in Message :
              /\ ~(In(y, sent') /\ In(y, backlog'))
              /\ y \in lost' => ~In(y, sent') /\ ~In(y, backlog')
              /\ In(y, sent') \/ In(y, backlog') \/ y \in lost' =>
                    y \in Done' /\ ~TextOf(y, cells') /\ ~In(y, loaded')
        BY <1>2, <3>1, <3>2, <3>3, <3>4, <3>5 DEF SentI
      <3> QED
        BY <1>3, <3>1, <3>2, <3>4, <3>6 DEF SentI, In, TextOf, Once
    <2> QED
      BY <2>1, <2>2
  <1>8. ASSUME Restart PROVE SentI'
    <2>1. backlog' = <<>> /\ sent' = sent /\ lost' = lost \cup ToSet(InHand) /\ Crash
      BY <1>8 DEF Restart
    <2>2. loaded' = <<>> /\ cells' = cells
      BY <2>1 DEF Crash, file
    <2>3. /\ ToSet(InHand) \subseteq Message
          /\ \A x \in Message : x \in ToSet(InHand) <=> Loaded(x) \/ In(x, backlog)
      BY HandOnce
    <2>4. \A x \in Message : Loaded(x) =>
            x \in Done /\ ~TextOf(x, cells) /\ ~In(x, sent) /\ ~In(x, backlog)
      BY DEF Loaded, SentI, FileI, Fresh
    <2>5. \A x \in Message :
            /\ ~(In(x, sent') /\ In(x, backlog'))
            /\ x \in lost' => ~In(x, sent') /\ ~In(x, backlog')
            /\ In(x, sent') \/ In(x, backlog') \/ x \in lost' =>
                  x \in Done' /\ ~TextOf(x, cells') /\ ~In(x, loaded')
      BY <1>2, <2>1, <2>2, <2>3, <2>4, NoTexts DEF SentI
    <2>6. <<>> \in Seq(Message) /\ Once(<<>>)
      BY NoTexts
    <2> QED
      BY <1>3, <2>1, <2>3, <2>5, <2>6 DEF SentI, In, TextOf, Once
  <1>9. ASSUME NEW t \in Adder, get_handler(t) \/ store(t) PROVE UNCHANGED <<sent, backlog, lost>>
    BY <1>9 DEF get_handler, store, own
  <1>10. add_handler \/ rem_handler \/ UNCHANGED dvars => UNCHANGED <<sent, backlog, lost>>
    BY DEF add_handler, rem_handler, dvars, own
  <1> QED
    BY <1>4, <1>5, <1>6, <1>7, <1>8, <1>9, <1>10 DEF DNext, handle_message, client_handler

LEMMA SessionStep ==
    ASSUME DI, FileI', [DNext]_dvars
    PROVE  SessionI'
  <1> USE DEF DI, NoRoute, NULL
  <1>1. /\ nloads \in Nat /\ ncrashes \in Nat /\ session \in Nat
        /\ nloads <= MaxLoads /\ MaxLoads \in Nat
        /\ \A t \in Adder : nadds[t] \in Nat /\ MaxAdds[t] \in Nat
    BY UndeliveredAssumption, MessageType DEF FileI, Types, SessionI
  <1>2. ASSUME NEW t \in Adder, get_handler(t) PROVE SessionI'
    <2>1. /\ route' = [route EXCEPT ![t] = online] /\ nadds[t] < MaxAdds[t]
          /\ UNCHANGED <<vars, own>> /\ route[t] = -1
      BY <1>2 DEF get_handler
    <2>2. online \in 0 .. session
      BY <1>1 DEF SessionI
    <2>3. route' \in [Adder -> -1 .. session]
      BY <1>1, <2>1, <2>2 DEF SessionI
    <2>4. \A u \in Adder : Busy(u)' <=> Busy(u)
      BY <2>1 DEF vars, adder, Busy
    <2>5. \A u \in Adder : u # t => route'[u] = route[u]
      BY <2>1 DEF SessionI
    <2>6. ~Busy(t)
      BY <2>1 DEF SessionI
    <2> QED
      BY <2>1, <2>3, <2>4, <2>5, <2>6 DEF SessionI, vars, adder, own, loader, stops
  <1>3. ASSUME NEW t \in Adder, store(t) PROVE SessionI'
    <2>1. /\ route[t] = 0 /\ undel_add_message(t) /\ UNCHANGED own
          /\ route' = IF pc'[t] = "idle" THEN [route EXCEPT ![t] = -1] ELSE route
      BY <1>3 DEF store
    <2>2. /\ UNCHANGED <<nloads, ncrashes, lpc>>
          /\ \A u \in Adder : u # t => pc'[u] = pc[u] /\ nadds'[u] = nadds[u]
      BY ZenonT(40), <2>1 DEF undel_add_message, add_open, add_header, add_prev_mac, add_block, goto,
                  loader, stops, FileI, Types
    <2>3. route' \in [Adder -> -1 .. session]
      BY <1>1, <2>1 DEF SessionI
    <2>4. \A u \in Adder : u # t => route'[u] = route[u]
      BY <2>1 DEF SessionI
    <2>5. /\ Busy(t)' => route'[t] = 0
          /\ ~Busy(t)' => route'[t] = -1
      BY <2>1 DEF SessionI, Busy
    <2>6. ASSUME NEW u \in Adder
          PROVE  /\ Busy(u)' => route'[u] = 0
                 /\ ~Busy(u)' /\ route'[u] # -1 => nadds'[u] < MaxAdds[u]
      BY <2>2, <2>4, <2>5 DEF SessionI, Busy
    <2> QED
      BY <2>1, <2>2, <2>3, <2>6 DEF SessionI, own
  <1>4. ASSUME NEW t \in Adder, send_live(t) PROVE SessionI'
    <2>1. /\ nadds' = [nadds EXCEPT ![t] = @ + 1] /\ route' = [route EXCEPT ![t] = -1]
          /\ UNCHANGED <<pc, loader, ncrashes, own>> /\ route[t] # 0
      BY <1>4 DEF send_live, stops
    <2>2. route' \in [Adder -> -1 .. session]
      BY <1>1, <2>1 DEF SessionI
    <2>3. \A u \in Adder : u # t => route'[u] = route[u] /\ nadds'[u] = nadds[u]
      BY <2>1 DEF SessionI, FileI, Types
    <2>4. \A u \in Adder : Busy(u)' <=> Busy(u)
      BY <2>1 DEF Busy
    <2>5. route'[t] = -1 /\ ~Busy(t)
      BY <2>1 DEF SessionI
    <2> QED
      BY <2>1, <2>2, <2>3, <2>4, <2>5 DEF SessionI, own, loader
  <1>5. ASSUME UNCHANGED <<adder, route, ncrashes>>,
               session' \in Nat, session' >= session, online' \in {0, session'},
               opc' \in {"off", "load", "send", "serving"},
               session' <= nloads' + ncrashes + (IF opc' = "load" /\ lpc' = "idle" THEN 1 ELSE 0),
               opc' = "load" /\ lpc' = "idle" => nloads' < MaxLoads,
               opc' # "send" => backlog' = <<>>, lpc' # "idle" => opc' = "load"
        PROVE  SessionI'
    <2>1. route' \in [Adder -> -1 .. session']
      BY <1>1, <1>5 DEF SessionI
    <2>2. \A u \in Adder : Busy(u)' <=> Busy(u)
      BY <1>5 DEF Busy, adder
    <2> QED
      BY <1>5, <2>1, <2>2 DEF SessionI, adder
  <1>6. ASSUME add_handler PROVE SessionI'
    <2>1. /\ session' = session + 1 /\ online' = session + 1 /\ opc' = "load" /\ opc = "off"
          /\ nloads < MaxLoads /\ backlog' = backlog /\ UNCHANGED vars /\ route' = route
      BY <1>6 DEF add_handler
    <2>2. lpc = "idle" /\ lpc' = "idle" /\ nloads' = nloads /\ UNCHANGED <<adder, ncrashes>>
      BY <2>1 DEF SessionI, vars, loader, stops
    <2>3. session <= nloads + ncrashes /\ backlog = <<>>
      BY <1>1, <2>1 DEF SessionI
    <2> QED
      BY <1>1, <1>5, <2>1, <2>2, <2>3
  <1>7. ASSUME load PROVE SessionI'
    <2>1. /\ opc = "load" /\ undel_load /\ UNCHANGED <<online, session, route>>
          /\ \/ lpc' # "idle" /\ UNCHANGED <<opc, backlog>>
             \/ lpc' = "idle" /\ opc' = "send"
      BY <1>7 DEF load
    <2>2. UNCHANGED <<adder, ncrashes>>
      BY <2>1 DEF undel_load, load_read, init_truncate, init_header, stops
    <2>3. \/ lpc = "idle" /\ nloads' = nloads + 1
          \/ lpc # "idle" /\ nloads' = nloads
      BY <2>1 DEF undel_load, load_read, init_truncate, init_header
    <2>4. session <= nloads' + ncrashes
      BY <1>1, <2>1, <2>3 DEF SessionI
    <2>5. /\ online \in {0, session} /\ backlog = <<>>
      BY <2>1 DEF SessionI
    <2> QED
      <3>1. CASE lpc' = "idle"
        <4>1. opc' = "send"
          BY <2>1, <3>1
        <4>2. session' = session /\ online' = online /\ UNCHANGED route
          BY <2>1
        <4>3. nloads' \in Nat
          BY <1>1, <2>3
        <4>4. session' <= nloads' + ncrashes
                           + (IF opc' = "load" /\ lpc' = "idle" THEN 1 ELSE 0)
          <5> DEFINE b == IF opc' = "load" /\ lpc' = "idle" THEN 1 ELSE 0
          <5>1. b = 0
            BY <3>1, <4>1
          <5> HIDE DEF b
          <5>2. session' <= nloads' + ncrashes + b
            <6>1. nloads' \in Nat /\ ncrashes \in Nat /\ session' <= nloads' + ncrashes
              BY <1>1, <2>4, <4>2, <4>3
            <6> QED
              BY <5>1, <6>1
          <5> QED
            BY <5>2 DEF b
        <4>5. session' \in Nat /\ session' >= session /\ online' \in {0, session'}
          BY <1>1, <2>5, <4>2
        <4> QED
          BY <1>5, <2>2, <3>1, <4>1, <4>2, <4>4, <4>5
      <3>2. CASE lpc' # "idle"
        <4>1. opc' = "load" /\ backlog' = <<>>
          BY <2>1, <2>5, <3>2
        <4>2. session' = session /\ online' = online /\ UNCHANGED route
          BY <2>1
        <4>3. nloads' \in Nat
          BY <1>1, <2>3
        <4>4. session' <= nloads' + ncrashes
                           + (IF opc' = "load" /\ lpc' = "idle" THEN 1 ELSE 0)
          <5> DEFINE b == IF opc' = "load" /\ lpc' = "idle" THEN 1 ELSE 0
          <5>1. b = 0
            BY <3>2, <4>1
          <5> HIDE DEF b
          <5>2. session' <= nloads' + ncrashes + b
            <6>1. nloads' \in Nat /\ ncrashes \in Nat /\ session' <= nloads' + ncrashes
              BY <1>1, <2>4, <4>2, <4>3
            <6> QED
              BY <5>1, <6>1
          <5> QED
            BY <5>2 DEF b
        <4>5. session' \in Nat /\ session' >= session /\ online' \in {0, session'}
          BY <1>1, <2>5, <4>2
        <4> QED
          BY <1>5, <2>2, <3>2, <4>1, <4>2, <4>4, <4>5
      <3> QED
        BY <3>1, <3>2
  <1>8. ASSUME send_undelivered \/ rem_handler PROVE SessionI'
    <2>1. /\ UNCHANGED <<vars, session, route>> /\ opc \in {"send", "serving"}
          /\ online' = online \/ online' = 0
          /\ \/ opc' = "send" /\ opc = "send"
             \/ opc' \in {"serving", "off"} /\ backlog' = <<>>
      BY <1>8 DEF send_undelivered, rem_handler, SessionI
    <2>2. lpc = "idle" /\ lpc' = "idle" /\ nloads' = nloads /\ UNCHANGED <<adder, ncrashes>>
      BY <2>1 DEF SessionI, vars, loader, stops
    <2>3. session <= nloads + ncrashes /\ online \in {0, session}
      BY <1>1, <2>1 DEF SessionI
    <2> QED
      BY <1>1, <1>5, <2>1, <2>2, <2>3
  <1>9. ASSUME Restart PROVE SessionI'
    <2>1. /\ Crash /\ online' = 0 /\ opc' = "off" /\ backlog' = <<>>
          /\ route' = [t \in Adder |-> -1] /\ session' = session
      BY <1>9 DEF Restart
    <2>2. /\ ncrashes' = ncrashes + 1 /\ nloads' = nloads /\ lpc' = "idle"
          /\ \A t \in Adder : ~Busy(t)'
      BY <2>1 DEF Crash, Busy
    <2>3. session <= nloads + ncrashes + 1
      BY <1>1 DEF SessionI
    <2>4. session <= nloads' + ncrashes'
      BY <1>1, <2>2, <2>3
    <2>5. route' \in [Adder -> -1 .. session']
      BY <1>1, <2>1
    <2>6. \A t \in Adder : route'[t] = -1
      BY <2>1
    <2>7. session' <= nloads' + ncrashes' + 0
      BY <1>1, <2>1, <2>2, <2>4
    <2> QED
      BY <1>1, <2>1, <2>2, <2>5, <2>6, <2>7 DEF SessionI
  <1>10. ASSUME UNCHANGED dvars PROVE SessionI'
    BY <1>10 DEF SessionI, dvars, vars, own, adder, loader, stops, Busy
  <1> QED
    BY <1>2, <1>3, <1>4, <1>6, <1>7, <1>8, <1>9, <1>10
       DEF DNext, handle_message, client_handler

(* A message that was accepted is somewhere.                                   *)
Somewhere(x) ==
    In(x, Stored) \/ Loaded(x) \/ In(x, backlog) \/ In(x, sent) \/ x \in lost

LEMMA KeptStep ==
    ASSUME DI, FileI', SentI', ReadsRight, ReadsRight', [DNext]_dvars
    PROVE  KeptI'
  <1> USE DEF DI
  <1>1. FileMove
    BY DMoves
  <1>2. overlap' = overlap
    BY <1>1, CutKept
  <1> SUFFICES ASSUME ~overlap, NEW x \in Message, x \in added'
               PROVE  Somewhere(x)'
    <2>1. added' \subseteq Message
      BY DEF FileI, Types
    <2> QED
      BY <1>2, <2>1 DEF KeptI, Somewhere
  <1>3. PICK S \in Seq(Message) : IF cut THEN Dead(S) ELSE Agrees(S)
    BY DEF FileI, Serial
  <1>4. Stored = S /\ \A R \in Seq(Message) : Agrees(R)' \/ Dead(R)' => Stored' = R
    BY <1>3 DEF ReadsRight
  <1>5. x \in added => In(x, S) \/ Loaded(x) \/ In(x, backlog) \/ In(x, sent) \/ x \in lost
    BY <1>4 DEF KeptI
  <1>6. sent \in Seq(Message) /\ backlog \in Seq(Message)
    BY DEF SentI
  <1>7. ASSUME Agrees(S)' \/ Dead(S)', added' = added,
               Loaded(x) => Loaded(x)' \/ In(x, backlog)' \/ x \in lost',
               In(x, backlog) => In(x, backlog)' \/ In(x, sent)' \/ x \in lost',
               In(x, sent) => In(x, sent)', x \in lost => x \in lost'
        PROVE  Somewhere(x)'
    BY <1>4, <1>5, <1>7 DEF In, Somewhere
  <1>8. cut /\ FileMove => Dead(S)' /\ SameStore
    BY <1>3, DeadStep DEF FileI
  <1>9. ASSUME UNCHANGED <<pc, seen, prev, header, cells, lpc, loaded, added, lost>>,
               In(x, backlog) => In(x, backlog)' \/ In(x, sent)',
               In(x, sent) => In(x, sent)'
        PROVE  Somewhere(x)'
    <2>1. Agrees(S)' \/ Dead(S)'
      <3>1. CASE cut
        BY <1>1, <1>8, <3>1
      <3>2. CASE ~cut
        BY <1>3, <1>9, <3>2, SkipAgrees DEF FileI
      <3> QED
        BY <3>1, <3>2
    <2>2. Loaded(x) => Loaded(x)'
      BY <1>9 DEF Loaded, In
    <2> QED
      BY <1>7, <1>9, <2>1, <2>2
  <1>10. ASSUME NEW t \in Adder, store(t) PROVE Somewhere(x)'
    <2>1. undel_add_message(t) /\ UNCHANGED <<backlog, sent, lost>>
      BY <1>10 DEF store, own
    <2>2. In(x, backlog) => In(x, backlog)'
      BY <2>1 DEF In
    <2>3. In(x, sent) => In(x, sent)'
      BY <2>1 DEF In
    <2>4. Loaded(x) => Loaded(x)'
      BY <2>1 DEF undel_add_message, add_open, add_header, add_prev_mac, add_block, loader,
                  Loaded, In
    <2>5. CASE cut
      <3>1. Dead(S)' /\ added' = added
        BY <1>1, <1>8, <2>5 DEF SameStore
      <3> QED
        BY <1>7, <2>1, <2>2, <2>3, <2>4, <3>1
    <2>6. CASE ~cut /\ (add_open(t) \/ add_header(t) \/ add_prev_mac(t))
      <3>1. Agrees(S)'
        BY <1>3, <2>6, OpenAgrees, CountAgrees, PrevAgrees DEF FileI
      <3>2. added' = added
        BY <2>6 DEF add_open, add_header, add_prev_mac
      <3> QED
        BY <1>7, <2>1, <2>2, <2>3, <2>4, <3>1, <3>2
    <2>7. CASE ~cut /\ add_block(t)
      <3> PICK R : R = Append(S, m[t])
        OBVIOUS
      <3>1. Agrees(R)' /\ R \in Seq(Message)
        BY <1>3, <2>7, BlockAgrees DEF FileI
      <3>2. Stored' = R
        BY <1>4, <3>1
      <3>3. m[t] \in Message /\ added' = added \cup {m[t]}
        BY <2>7 DEF add_block, FileI, Types
      <3>4. In(x, R) <=> In(x, S) \/ x = m[t]
        BY <3>3, AppendOnce
      <3>5. In(x, Stored)' <=> In(x, R)
        BY <3>2 DEF In
      <3> QED
        BY <1>5, <2>1, <2>2, <2>3, <2>4, <3>3, <3>4, <3>5 DEF Somewhere
    <2> QED
      BY <2>1, <2>5, <2>6, <2>7 DEF undel_add_message
  <1>11. ASSUME load PROVE Somewhere(x)'
    <2>1. /\ undel_load /\ opc = "load" /\ sent' = sent /\ backlog = <<>> /\ lost' = lost
      BY <1>11 DEF load, SessionI
    <2>2. ~In(x, backlog)
      BY <2>1, NoTexts
    <2>3. In(x, sent) => In(x, sent)'
      BY <2>1 DEF In
    <2>4. added' = added
      BY <2>1 DEF undel_load, load_read, init_truncate, init_header
    <2>5. CASE cut
      <3>1. Dead(S)' /\ lpc' = lpc /\ loaded' = loaded
        BY <1>1, <1>8, <2>5 DEF SameStore
      <3>2. Loaded(x) => Loaded(x)'
        BY <3>1 DEF Loaded, In
      <3> QED
        BY <1>7, <2>1, <2>2, <2>3, <2>4, <3>1, <3>2
    <2>6. CASE ~cut /\ load_read
      <3>1. Agrees(S)' /\ ~Loaded(x)
        BY <1>3, <2>6, LoadAgrees DEF FileI, load_read, Loaded
      <3> QED
        BY <1>7, <2>1, <2>2, <2>3, <2>4, <3>1
    <2>7. CASE ~cut /\ init_truncate
      <3>1. loaded = S /\ lpc' = "init" /\ loaded' = loaded /\ lpc # "init"
        BY <1>3, <2>7, TruncateAgrees DEF FileI, init_truncate
      <3>2. In(x, S) => Loaded(x)'
        BY <3>1 DEF Loaded, In
      <3> QED
        BY <1>5, <2>1, <2>2, <2>3, <2>4, <3>1, <3>2 DEF Loaded, Somewhere
    <2>8. CASE ~cut /\ init_header
      <3>1. Agrees(S)'
        BY <1>3, <2>8, InitAgrees DEF FileI
      <3>2. lpc' = "idle" /\ backlog' = loaded
        BY <1>11, <2>8 DEF init_header, load
      <3>3. Loaded(x) => In(x, backlog)'
        BY <3>2 DEF Loaded, In
      <3> QED
        BY <1>7, <2>1, <2>2, <2>3, <2>4, <3>1, <3>3
    <2> QED
      BY <2>1, <2>5, <2>6, <2>7, <2>8 DEF undel_load
  <1>12. ASSUME send_undelivered PROVE Somewhere(x)'
    <2>1. UNCHANGED <<vars, lost>>
      BY <1>12 DEF send_undelivered
    <2>2. (In(x, backlog) => In(x, backlog)' \/ In(x, sent)') /\ (In(x, sent) => In(x, sent)')
      <3>1. CASE backlog = <<>>
        BY <1>12, <3>1, NoTexts DEF send_undelivered, In
      <3>2. CASE backlog # <<>>
        <4>1. sent' = Append(sent, Head(backlog)) /\ backlog' = Tail(backlog)
          BY <1>12, <3>2 DEF send_undelivered
        <4>2. /\ Head(backlog) \in Message
              /\ In(x, backlog) => In(x, backlog') \/ x = Head(backlog)
          BY <1>6, <3>2, <4>1, TailOnce
        <4>3. In(x, sent') <=> In(x, sent) \/ x = Head(backlog)
          BY <1>6, <4>1, <4>2, AppendOnce
        <4> QED
          BY <4>2, <4>3 DEF In
      <3> QED
        BY <3>1, <3>2
    <2> QED
      BY <1>9, <2>1, <2>2 DEF vars, file, adder, loader
  <1>13. ASSUME NEW t \in Adder, send_live(t) PROVE Somewhere(x)'
    <2> PICK y : y = <<t, nadds[t] + 1>>
      OBVIOUS
    <2>1. /\ UNCHANGED <<pc, seen, prev, header, cells, lpc, loaded, added, backlog, lost>>
          /\ sent' = sent \/ sent' = Append(sent, y)
      BY <1>13 DEF send_live, own, file, loader
    <2>2. y \in Message
      <3>1. Skip(t)
        BY <1>13 DEF send_live, SessionI, Skip
      <3> QED
        BY <3>1, SkipFresh DEF FileI
    <2>3. In(x, sent) => In(x, sent')
      <3>1. CASE sent' = Append(sent, y)
        <4>1. sent \in Seq(Message)
          BY <1>6
        <4> QED
          BY <2>2, <3>1, <4>1, AppendOnce
      <3> QED
        BY <2>1, <3>1
    <2> QED
      BY <1>9, <2>1, <2>3 DEF In
  <1>14. ASSUME UNCHANGED <<vars, backlog, sent, lost>> PROVE Somewhere(x)'
    BY <1>9, <1>14 DEF vars, file, adder, loader, In
  <1>15. ASSUME Restart PROVE Somewhere(x)'
    <2>1. Crash /\ sent' = sent /\ lost' = lost \cup ToSet(InHand) /\ added' = added
      BY <1>15 DEF Restart, Crash
    <2>2. Agrees(S)' \/ Dead(S)'
      <3>1. CASE cut
        BY <1>1, <1>8, <3>1
      <3>2. CASE ~cut
        BY <1>3, <2>1, <3>2, CrashAgrees DEF FileI
      <3> QED
        BY <3>1, <3>2
    <2>3. Loaded(x) \/ In(x, backlog) => x \in lost'
      BY <2>1, HandOnce
    <2>4. In(x, sent) => In(x, sent)'
      BY <2>1 DEF In
    <2> QED
      BY <1>7, <2>1, <2>2, <2>3, <2>4
  <1>16. ASSUME NEW t \in Adder, get_handler(t) PROVE UNCHANGED <<vars, backlog, sent, lost>>
    BY <1>16 DEF get_handler, own
  <1>17. add_handler \/ rem_handler \/ UNCHANGED dvars => UNCHANGED <<vars, backlog, sent, lost>>
    BY DEF add_handler, rem_handler, dvars, own
  <1> QED
    BY <1>10, <1>11, <1>12, <1>13, <1>14, <1>15, <1>16, <1>17
       DEF DNext, handle_message, client_handler

LEMMA DeliveryInductive == DSpec => []DI
  <1>1. FileI => ReadsRight
    BY Reads DEF FileI
  <1>2. DI /\ [DNext]_dvars => FileI'
    BY DMoves, FileStep DEF DI
  <1>3. DI /\ FileI' /\ [DNext]_dvars => SentI' /\ SessionI'
    BY SentStep, SessionStep
  <1>4. DI /\ FileI' /\ SentI' /\ ReadsRight /\ ReadsRight' /\ [DNext]_dvars => KeptI'
    BY KeptStep
  <1>5. DI => FileI
    BY DEF DI
  <1>6. FileI /\ SentI /\ SessionI /\ KeptI => DI
    BY DEF DI
  <1> QED
    BY DInitHolds, <1>1, <1>2, <1>3, <1>4, <1>5, <1>6, PTL DEF DSpec

LEMMA DTypes == DI => DTypeOK
  <1> SUFFICES ASSUME DI PROVE DTypeOK
    OBVIOUS
  <1> USE DEF DI
  <1>1. TypeOK
    BY FileHolds DEF FileInv
  <1>2. session \in 0 .. MaxLoads + MaxCrashes
    <2>1. /\ nloads \in Nat /\ ncrashes \in Nat /\ MaxLoads \in Nat /\ MaxCrashes \in Nat
          /\ nloads <= MaxLoads /\ ncrashes <= MaxCrashes
      BY UndeliveredAssumption DEF FileI, Types
    <2> QED
      BY <2>1 DEF SessionI
  <1> QED
    BY <1>1, <1>2 DEF DTypeOK, SessionI, SentI

LEMMA DOnePlace == DI => OnePlace
  <1> SUFFICES ASSUME DI, ~overlap, NEW x \in added
               PROVE  IF x \in lost THEN ~Contains(Places, x)
                      ELSE \E i \in DOMAIN Places :
                              \A j \in DOMAIN Places : Places[j] = x <=> j = i
    BY DEF OnePlace
  <1> USE DEF DI
  <1>1. PICK S \in Seq(Message) : IF cut THEN Dead(S) ELSE Agrees(S)
    BY DEF FileI, Serial
  <1>2. Stored = S /\ cells = FileOf(S)
    BY <1>1, Reads DEF FileI, ReadsRight, Agrees, Dead
  <1>3. Once(S) /\ \A y \in Message : In(y, S) => TextOf(y, cells)
    <2>1. Len(cells) \in GoodEnds /\ MsgsTo(Len(cells)) = S
      BY <1>2, ReadsAll DEF FileI, Types
    <2> QED
      BY <2>1, ReadOnce DEF FileI, Types, Fresh
  <1>4. /\ InHand \in Seq(Message) /\ Once(InHand)
        /\ \A y \in Message : In(y, InHand) <=> Loaded(y) \/ In(y, backlog)
    BY HandOnce
  <1>5. /\ sent \in Seq(Message) /\ Once(sent)
        /\ \A y \in Message : /\ In(y, InHand) => ~TextOf(y, cells) /\ ~In(y, sent)
                              /\ In(y, sent) => ~TextOf(y, cells)
                              /\ y \in lost => /\ ~TextOf(y, cells)
                                               /\ ~In(y, InHand) /\ ~In(y, sent)
    BY <1>4 DEF SentI, Loaded, FileI, Fresh
  <1>6. x \in Message
    BY DEF FileI, Types
  <1>7. PICK q : Joined(q, S, InHand)
    BY DEF Joined
  <1>8. /\ q \in Seq(Message) /\ Once(q)
        /\ \A y \in Message : In(y, q) <=> In(y, S) \/ In(y, InHand)
    BY <1>3, <1>4, <1>5, <1>7, JoinedOnce
  <1>9. PICK r : Joined(r, q, sent)
    BY DEF Joined
  <1>10. \A y \in Message : ~(In(y, q) /\ In(y, sent))
    BY <1>3, <1>5, <1>8
  <1>11. /\ r \in Seq(Message) /\ Once(r)
         /\ \A y \in Message : In(y, r) <=> In(y, q) \/ In(y, sent)
    BY <1>5, <1>8, <1>9, <1>10, JoinedOnce
  <1>12. Places = r
    BY Zenon, <1>2, <1>7, <1>9 DEF Places, Joined
  <1>13. DOMAIN r = 1 .. Len(r) /\ Len(r) \in Nat
    BY <1>11
  <1>14. CASE x \in lost
    <2>1. ~In(x, r)
      BY <1>3, <1>5, <1>6, <1>8, <1>11, <1>14
    <2>2. ~Contains(r, x)
      BY <1>13, <2>1 DEF Contains, In
    <2> QED
      BY <1>12, <1>14, <2>2
  <1>15. CASE x \notin lost
    <2>1. In(x, r)
      BY <1>2, <1>4, <1>6, <1>8, <1>11, <1>15 DEF KeptI
    <2>2. PICK i \in 1 .. Len(r) : r[i] = x
      BY <2>1 DEF In
    <2>3. \A j \in 1 .. Len(r) : r[j] = x <=> j = i
      BY <1>11, <2>2 DEF Once
    <2> QED
      BY SMTT(30), <1>12, <1>13, <1>15, <2>2, <2>3
  <1> QED
    BY <1>14, <1>15

(* Whatever calls overlap, and wherever the server stops: no message is given  *)
(* to send_message twice, be it live and from the file, or by two logins.  When*)
(* calls do not overlap an accepted message is in exactly one place: the file, *)
(* the list undel_load returns, the list still to be sent, or sent; unless the *)
(* server has stopped with it in one of those lists: then it is nowhere.       *)
THEOREM NothingSentTwice == DSpec => []DeliveryInv
  <1>1. DI => SentOnce
    BY DEF DI, SentI, SentOnce, Once
  <1>2. DI => DeliveryInv
    BY <1>1, DTypes, DOnePlace DEF DeliveryInv
  <1> QED
    BY <1>2, DeliveryInductive, PTL

(* The same file within the server: its header agrees whenever no call is under*)
(* way, and it implements the store.                                           *)
THEOREM FileAgreesInServer == DSpec => []FileInv
  <1>1. DI => FileInv
    BY FileHolds DEF DI
  <1> QED
    BY <1>1, DeliveryInductive, PTL

(* ... with handle_message and client_handler as the callers.                  *)
THEOREM FileIsStoreInServer == DSpec => ImplementsStore
  <1>1. DI => FileI /\ ReadsRight
    BY Reads DEF DI, FileI
  <1>2. DI /\ [DNext]_dvars => FileMove
    BY DMoves
  <1>3. FileI /\ FileI' /\ ReadsRight /\ ReadsRight' /\ FileMove
        => [Abstract!Next]_<<Store, Taken>>
    BY StoreStep
  <1>4. DInit => Abstract!Init
    BY StoreInit DEF DInit
  <1> QED
    BY <1>1, <1>2, <1>3, <1>4, DeliveryInductive, PTL
       DEF DSpec, ImplementsStore, Abstract!Spec, Store, Taken
===============================================================================
