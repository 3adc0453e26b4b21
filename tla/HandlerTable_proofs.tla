-------------------------- MODULE HandlerTable_proofs -------------------------
(* Proofs about HandlerTable, for any sessions, users, hashes and sizes.       *)
EXTENDS HandlerTable, FiniteSetTheorems, SequenceTheorems, WellFoundedInduction,
        TLAPS

Sizes == size \in Nat /\ size >= MIN_SIZE /\ size <= MAX_SIZE /\ elements \in Int
LoadInv == Sizes /\ LoadBounded

LEMMA Bounds == MIN_SIZE \in Nat /\ MIN_SIZE >= 1 /\ MAX_SIZE \in Nat
  BY TableAssumption

(* A table of n handlers that is doubled, and one that is halved.              *)
LEMMA Doubled ==
    ASSUME LoadInv, elements' = elements + 1, elements' > Top,
           NEW b, resize_handler_table(b, size * 2)
    PROVE  LoadInv'
  <1> USE Bounds DEF LoadInv, Sizes, LoadBounded, Top, Bot
  <1>1. CASE size * 2 > MAX_SIZE
    BY <1>1 DEF resize_handler_table
  <1>2. CASE size * 2 <= MAX_SIZE
    <2>1. size' = size * 2
      BY <1>2 DEF resize_handler_table
    <2>2. elements <= (size * 3) \div 4
      BY <1>2
    <2>3. elements + 1 <= (size * 2 * 3) \div 4
      BY <2>2
    <2>4. elements + 1 >= (size * 2) \div 4
      OBVIOUS
    <2> QED
      BY <1>2, <2>1, <2>3, <2>4
  <1> QED
    BY <1>1, <1>2

LEMMA Halved ==
    ASSUME LoadInv, elements' = elements - 1, elements' < Bot,
           NEW b, resize_handler_table(b, size \div 2)
    PROVE  LoadInv'
  <1> USE Bounds DEF LoadInv, Sizes, LoadBounded, Top, Bot
  <1>1. CASE size \div 2 < MIN_SIZE
    BY <1>1 DEF resize_handler_table
  <1>2. CASE size \div 2 >= MIN_SIZE
    <2>1. size' = size \div 2
      BY <1>2 DEF resize_handler_table
    <2>2. elements >= size \div 4
      BY <1>2
    <2>3. elements - 1 <= ((size \div 2) * 3) \div 4
      OBVIOUS
    <2>4. elements - 1 >= (size \div 2) \div 4 \/ (size \div 2) \div 2 < MIN_SIZE
      BY <2>2
    <2> QED
      BY <1>2, <2>1, <2>3, <2>4
  <1> QED
    BY <1>1, <1>2

LEMMA Added ==
    ASSUME LoadInv, NEW s \in Session, add_handler(s)
    PROVE  LoadInv'
  <1>1. CASE UNCHANGED table
    BY <1>1 DEF LoadInv, Sizes, LoadBounded, Top, Bot, table
  <1>2. ASSUME NEW b, elements' = elements + 1, elements' > Top,
               resize_handler_table(b, size * 2)
        PROVE  LoadInv'
    BY <1>2, Doubled
  <1>3. ASSUME NEW b, elements' = elements + 1, ~(elements' > Top), Keep(b)
        PROVE  LoadInv'
    BY <1>3, Bounds DEF Keep, LoadInv, Sizes, LoadBounded, Top, Bot
  <1> QED
    BY <1>1, <1>2, <1>3 DEF add_handler

LEMMA Removed ==
    ASSUME LoadInv, NEW s \in Session, rem_handler(s)
    PROVE  LoadInv'
  <1>1. CASE UNCHANGED table
    BY <1>1 DEF LoadInv, Sizes, LoadBounded, Top, Bot, table
  <1>2. ASSUME NEW b, elements' = elements - 1, elements' < Bot,
               resize_handler_table(b, size \div 2)
        PROVE  LoadInv'
    BY <1>2, Halved
  <1>3. ASSUME NEW b, elements' = elements - 1, ~(elements' < Bot), Keep(b)
        PROVE  LoadInv'
    BY <1>3, Bounds DEF Keep, LoadInv, Sizes, LoadBounded, Top, Bot
  <1> QED
    BY <1>1, <1>2, <1>3 DEF rem_handler

(* However sessions come and go, and for any hash: the load of the table is at *)
(* most TOP_LOAD unless it cannot grow, and at least BOT_LOAD unless it cannot *)
(* shrink (add_handler, rem_handler).  That a step which resizes stays within  *)
(* the other bound is what the rounding of the thresholds could break.         *)
THEOREM LoadStaysBounded == Spec => []LoadBounded
  <1>1. Init => LoadInv
    BY Bounds, TableAssumption
       DEF Init, init_handler_table, LoadInv, Sizes, LoadBounded, Top, Bot
  <1>2. LoadInv /\ [Next]_vars => LoadInv'
    <2> SUFFICES ASSUME LoadInv, [Next]_vars PROVE LoadInv'
      OBVIOUS
    <2>1. ASSUME NEW s \in Session, client_handler(s) PROVE LoadInv'
      <3>1. CASE add_handler(s)
        BY <3>1, Added
      <3>2. CASE rem_handler(s)
        BY <3>2, Removed
      <3>3. CASE UNCHANGED table
        BY <3>3 DEF LoadInv, Sizes, LoadBounded, Top, Bot, table
      <3> QED
        BY <2>1, <3>1, <3>2, <3>3
           DEF client_handler, destroy_handler_table, spawn_handler
    <2>2. CASE UNCHANGED table
      BY <2>2 DEF LoadInv, Sizes, LoadBounded, Top, Bot, table
    <2> QED
      BY <2>1, <2>2 DEF Next, end_handlers, vars
  <1>3. LoadInv => LoadBounded
    BY DEF LoadInv
  <1> QED
    BY <1>1, <1>2, <1>3, PTL DEF Spec

-------------------------------------------------------------------------------
(* Induction over a set of numbers: the least number not in it does not exist. *)
LEMMA Least ==
    ASSUME NEW T \in SUBSET Nat, T # {}
    PROVE  \E n \in T : \A m \in T : n <= m
  <1> DEFINE R == {p \in Nat \X Nat : p[1] < p[2]}
  <1>1. IsWellFoundedOn(R, Nat)
    BY NatLessThanWellFounded DEF OpToRel
  <1>2. PICK n \in T : \A m \in T : <<m, n>> \notin R
    <2> HIDE DEF R
    <2> QED
      BY <1>1, WFMin
  <1>3. \A m \in T : n <= m
    <2> SUFFICES ASSUME NEW m \in T PROVE n <= m
      OBVIOUS
    <2>1. m \in Nat /\ n \in Nat
      OBVIOUS
    <2>2. <<m, n>> \notin R
      BY <1>2
    <2> QED
      BY <2>1, <2>2
  <1> QED
    BY <1>3

(* Induction over 0 .. N.                                                       *)
LEMMA UpTo ==
    ASSUME NEW N \in Nat, NEW T, 0 \in T,
           \A k \in 1 .. N : k - 1 \in T => k \in T
    PROVE  0 .. N \subseteq T
  <1> DEFINE Bad == {k \in 0 .. N : k \notin T}
  <1>1. ASSUME Bad # {} PROVE FALSE
    <2>1. PICK n \in Bad : \A m \in Bad : n <= m
      <3>1. Bad \in SUBSET Nat
        OBVIOUS
      <3> HIDE DEF Bad
      <3> QED
        BY <1>1, <3>1, Least
    <2>2. n \in 1 .. N /\ n - 1 \in 0 .. N
      OBVIOUS
    <2>3. n - 1 \in T
      <3>1. n - 1 \notin Bad
        BY <2>1, <2>2
      <3> QED
        BY <2>2, <3>1
    <2> QED
      BY <2>2, <2>3
  <1> QED
    BY <1>1

(* A value that a loop of N turns changes: there is the function of its values.*)
Trace(g, V, base, N, f) ==
    /\ g \in [0 .. N -> V]
    /\ g[0] = base
    /\ \A k \in 1 .. N : g[k] = f[k][g[k - 1]]

LEMMA Iterate ==
    ASSUME NEW V, NEW base \in V, NEW N \in Nat,
           NEW f \in [1 .. N -> [V -> V]]
    PROVE  \E g : Trace(g, V, base, N, f)
  <1> DEFINE T == {n \in 0 .. N : \E g : Trace(g, V, base, n, f)}
  <1>1. 0 \in T
    <2>1. Trace([k \in 0 .. 0 |-> base], V, base, 0, f)
      BY DEF Trace
    <2> QED
      BY <2>1
  <1>2. ASSUME NEW n \in 1 .. N, n - 1 \in T PROVE n \in T
    <2>1. PICK g : Trace(g, V, base, n - 1, f)
      BY <1>2
    <2> DEFINE h == [k \in 0 .. n |-> IF k = n THEN f[n][g[n - 1]] ELSE g[k]]
    <2>2. n - 1 \in 0 .. n - 1 /\ g[n - 1] \in V
      BY <2>1 DEF Trace
    <2>3. f[n][g[n - 1]] \in V
      BY <2>2
    <2>4. h \in [0 .. n -> V]
      BY <2>1, <2>3 DEF Trace
    <2>5. h[0] = base
      BY <2>1 DEF Trace
    <2>6. ASSUME NEW k \in 1 .. n PROVE h[k] = f[k][h[k - 1]]
      <3>1. CASE k = n
        BY <3>1
      <3>2. CASE k # n
        <4>1. k \in 1 .. n - 1 /\ k - 1 \in 0 .. n - 1 /\ k - 1 # n /\ k \in 0 .. n
          BY <3>2
        <4>2. h[k] = g[k] /\ h[k - 1] = g[k - 1]
          BY <3>2, <4>1
        <4> QED
          BY <4>1, <4>2, <2>1 DEF Trace
      <3> QED
        BY <3>1, <3>2
    <2>7. Trace(h, V, base, n, f)
      <3> HIDE DEF h
      <3> QED
        BY <2>4, <2>5, <2>6 DEF Trace
    <2> QED
      BY <2>7
  <1>3. N \in T
    <2> HIDE DEF T
    <2>1. 0 .. N \subseteq T
      BY <1>1, <1>2, UpTo
    <2> QED
      BY <2>1
  <1> QED
    BY <1>3

-------------------------------------------------------------------------------
(* q lists the members of T, each once.                                        *)
Once(q) == \A i, j \in 1 .. Len(q) : q[i] = q[j] => i = j
Lists(q, T) ==
    /\ q \in Seq(T)
    /\ Once(q)
    /\ \A s \in T : \E i \in 1 .. Len(q) : q[i] = s

LEMMA ListsEmpty == Lists(<<>>, {})
  BY DEF Lists, Once

LEMMA ListsCons ==
    ASSUME NEW T, NEW q, Lists(q, T), NEW s, s \notin T
    PROVE  Lists(<<s>> \o q, T \cup {s})
  <1> DEFINE r == <<s>> \o q
  <1>1. q \in Seq(T) /\ Len(q) \in Nat
    BY DEF Lists
  <1>2. r \in Seq(T \cup {s}) /\ Len(r) = Len(q) + 1
    <2>1. q \in Seq(T \cup {s}) /\ <<s>> \in Seq(T \cup {s}) /\ Len(<<s>>) = 1
      BY <1>1
    <2> QED
      BY <1>1, <2>1, ConcatProperties
  <1>3. r[1] = s /\ \A i \in 1 .. Len(q) : r[i + 1] = q[i]
    BY <1>1
  <1>4. \A i \in 2 .. Len(r) : i - 1 \in 1 .. Len(q) /\ r[i] = q[i - 1] /\ r[i] \in T
    BY <1>1, <1>2
  <1>5. Once(r)
    <2> HIDE DEF r
    <2> SUFFICES ASSUME NEW i \in 1 .. Len(r), NEW j \in 1 .. Len(r), r[i] = r[j]
                 PROVE  i = j
      BY DEF Once
    <2>1. CASE i = 1 \/ j = 1
      BY <2>1, <1>3, <1>4, <1>2, <1>1
    <2>2. CASE i # 1 /\ j # 1
      <3>1. i - 1 \in 1 .. Len(q) /\ j - 1 \in 1 .. Len(q) /\ q[i - 1] = q[j - 1]
        BY <2>2, <1>4, <1>1, <1>2
      <3>2. i - 1 = j - 1
        BY <3>1 DEF Lists, Once
      <3> QED
        BY <3>2
    <2> QED
      BY <2>1, <2>2
  <1>6. \A x \in T \cup {s} : \E i \in 1 .. Len(r) : r[i] = x
    <2> HIDE DEF r
    <2> SUFFICES ASSUME NEW x \in T \cup {s} PROVE \E i \in 1 .. Len(r) : r[i] = x
      OBVIOUS
    <2>1. CASE x = s
      BY <2>1, <1>1, <1>2, <1>3
    <2>2. CASE x \in T
      <3>1. PICK i \in 1 .. Len(q) : q[i] = x
        BY <2>2 DEF Lists
      <3>2. i + 1 \in 1 .. Len(r) /\ r[i + 1] = x
        BY <3>1, <1>1, <1>2, <1>3
      <3> QED
        BY <3>2
    <2> QED
      BY <2>1, <2>2
  <1> QED
    BY <1>2, <1>5, <1>6 DEF Lists

LEMMA ListsAppend ==
    ASSUME NEW T, NEW q, Lists(q, T), NEW s, s \notin T
    PROVE  Lists(Append(q, s), T \cup {s})
  <1> DEFINE r == Append(q, s)
  <1>1. q \in Seq(T) /\ Len(q) \in Nat
    BY DEF Lists
  <1>2. r \in Seq(T \cup {s}) /\ Len(r) = Len(q) + 1
    <2>1. q \in Seq(T \cup {s})
      BY <1>1
    <2> QED
      BY <1>1, <2>1, AppendProperties
  <1>3. r[Len(q) + 1] = s /\ \A i \in 1 .. Len(q) : r[i] = q[i] /\ r[i] \in T
    BY <1>1
  <1>5. Once(r)
    <2> HIDE DEF r
    <2>1. \A i, j \in 1 .. Len(q) : q[i] = q[j] => i = j
      BY DEF Lists, Once
    <2> QED
      BY <1>1, <1>2, <1>3, <2>1 DEF Once
  <1>6. \A x \in T \cup {s} : \E i \in 1 .. Len(r) : r[i] = x
    <2> HIDE DEF r
    <2> SUFFICES ASSUME NEW x \in T \cup {s} PROVE \E i \in 1 .. Len(r) : r[i] = x
      OBVIOUS
    <2>1. CASE x = s
      BY <2>1, <1>1, <1>2, <1>3
    <2>2. CASE x \in T
      <3>1. PICK i \in 1 .. Len(q) : q[i] = x
        BY <2>2 DEF Lists
      <3> QED
        BY <3>1, <1>1, <1>2, <1>3
    <2> QED
      BY <2>1, <2>2
  <1> QED
    BY <1>2, <1>5, <1>6 DEF Lists

LEMMA ListsRemoveAt ==
    ASSUME NEW T, NEW q, Lists(q, T), NEW k \in 1 .. Len(q)
    PROVE  Lists(RemoveAt(q, k), T \ {q[k]})
  <1> DEFINE r == RemoveAt(q, k)
             old(i) == IF i < k THEN i ELSE i + 1
  <1>1. q \in Seq(T) /\ Len(q) \in Nat /\ k \in Int /\ 1 <= k /\ k <= Len(q)
    BY DEF Lists
  <1>a. DEFINE a == SubSeq(q, 1, k - 1)
               b == SubSeq(q, k + 1, Len(q))
  <1>b. a \in Seq(T) /\ Len(a) = k - 1 /\ \A i \in 1 .. k - 1 : a[i] = q[i]
    <2>1. k - 1 \in Int /\ \A i \in 1 .. k - 1 : q[i] \in T
      BY <1>1
    <2> QED
      BY <1>1, <2>1, SubSeqProperties
  <1>c. b \in Seq(T) /\ Len(b) = Len(q) - k /\ \A i \in 1 .. Len(q) - k : b[i] = q[i + k]
    <2>1. k + 1 \in Int /\ Len(q) \in Int /\ \A i \in k + 1 .. Len(q) : q[i] \in T
      BY <1>1
    <2>2. \A i \in 1 .. Len(q) - k : (k + 1) + i - 1 = i + k
      BY <1>1
    <2> QED
      BY <1>1, <2>1, <2>2, SubSeqProperties
  <1>2. r \in Seq(T) /\ Len(r) = Len(q) - 1
    <2>1. r = a \o b
      BY DEF RemoveAt
    <2> HIDE DEF a, b, r
    <2> QED
      BY SMTT(30), <1>1, <1>b, <1>c, <2>1
  <1>3. \A i \in 1 .. Len(r) : r[i] = q[old(i)]
    <2> SUFFICES ASSUME NEW i \in 1 .. Len(r) PROVE r[i] = q[old(i)]
      OBVIOUS
    <2>1. r = a \o b
      BY DEF RemoveAt
    <2> HIDE DEF a, b, r
    <2>2. CASE i < k
      BY <2>1, <2>2, <1>1, <1>2, <1>b, <1>c
    <2>3. CASE ~(i < k)
      <3>1. r[i] = b[i - (k - 1)]
        <4>1. i \in 1 .. Len(a) + Len(b) /\ ~(i <= Len(a))
          BY <2>3, <1>1, <1>2, <1>b, <1>c
        <4> QED
          BY SMTT(30), <2>1, <4>1, <1>b, <1>c, ConcatProperties
      <3>2. b[i - (k - 1)] = q[i + 1]
        <4>1. i - (k - 1) \in 1 .. Len(q) - k /\ i - (k - 1) + k = i + 1
          BY <2>3, <1>1, <1>2
        <4> QED
          BY <4>1, <1>c
      <3> QED
        BY <3>1, <3>2, <2>3
    <2> QED
      BY <2>2, <2>3
  <1>4. \A i \in 1 .. Len(r) : old(i) \in 1 .. Len(q) /\ old(i) # k
    <2> HIDE DEF r
    <2> QED
      BY <1>1, <1>2
  <1>5. \A i, j \in 1 .. Len(r) : old(i) = old(j) => i = j
    <2> HIDE DEF r
    <2> QED
      BY <1>1, <1>2
  <1>6. \A i \in 1 .. Len(q) : i # k => \E j \in 1 .. Len(r) : old(j) = i
    <2> HIDE DEF r
    <2> SUFFICES ASSUME NEW i \in 1 .. Len(q), i # k PROVE \E j \in 1 .. Len(r) : old(j) = i
      OBVIOUS
    <2>1. CASE i < k
      BY <2>1, <1>1, <1>2
    <2>2. CASE i > k
      <3>1. i - 1 \in 1 .. Len(r) /\ old(i - 1) = i
        BY <2>2, <1>1, <1>2
      <3> QED
        BY <3>1
    <2> QED
      BY <2>1, <2>2
  <1> HIDE DEF r, old
  <1>7. \A i \in 1 .. Len(r) : r[i] \in T \ {q[k]}
    <2>1. \A i \in 1 .. Len(q) : q[i] \in T /\ (q[i] = q[k] => i = k)
      BY SMTT(30), <1>1 DEF Lists, Once
    <2> QED
      BY <1>3, <1>4, <2>1
  <1>8. r \in Seq(T \ {q[k]})
    BY <1>2, <1>7
  <1>9. Once(r)
    <2>1. \A i, j \in 1 .. Len(q) : q[i] = q[j] => i = j
      BY DEF Lists, Once
    <2> QED
      BY <1>3, <1>4, <1>5, <2>1 DEF Once
  <1>10. \A x \in T \ {q[k]} : \E i \in 1 .. Len(r) : r[i] = x
    <2> SUFFICES ASSUME NEW x \in T, x # q[k] PROVE \E i \in 1 .. Len(r) : r[i] = x
      OBVIOUS
    <2>1. PICK i \in 1 .. Len(q) : q[i] = x
      BY DEF Lists
    <2> QED
      BY <2>1, <1>3, <1>6
  <1> QED
    BY <1>8, <1>9, <1>10 DEF Lists, r

-------------------------------------------------------------------------------
(* The chains c, of n, hold the sessions S: each once and where its hash says. *)
Chains(n) == [0 .. n - 1 -> Seq(Session)]
Of(S, n, i) == {s \in S : Index(IdOf[s], n) = i}
Spread(c, n, S) ==
    /\ c \in Chains(n)
    /\ \A i \in 0 .. n - 1 : Lists(c[i], Of(S, n, i))

LEMMA IndexType ==
    ASSUME NEW n \in Nat \ {0}, NEW s \in Session
    PROVE  Index(IdOf[s], n) \in 0 .. n - 1
  <1>1. Hash[IdOf[s]] \in Nat
    BY TableAssumption
  <1> QED
    BY <1>1 DEF Index

LEMMA PrependType ==
    ASSUME NEW n \in Nat \ {0}, NEW c \in Chains(n), NEW s \in Session
    PROVE  Prepend(c, s, n) \in Chains(n)
  <1>1. c[Index(IdOf[s], n)] \in Seq(Session) /\ <<s>> \in Seq(Session)
    BY IndexType DEF Chains
  <1>2. <<s>> \o c[Index(IdOf[s], n)] \in Seq(Session)
    BY <1>1, ConcatProperties
  <1> QED
    BY <1>2 DEF Prepend, Chains

LEMMA PrependSpread ==
    ASSUME NEW n \in Nat \ {0}, NEW S \in SUBSET Session, NEW c, Spread(c, n, S),
           NEW s \in Session \ S
    PROVE  Spread(Prepend(c, s, n), n, S \cup {s})
  <1> DEFINE x == Index(IdOf[s], n)
  <1>1. c \in Chains(n) /\ x \in 0 .. n - 1 /\ Prepend(c, s, n) \in Chains(n)
    BY IndexType, PrependType DEF Spread
  <1>2. ASSUME NEW i \in 0 .. n - 1
        PROVE  Lists(Prepend(c, s, n)[i], Of(S \cup {s}, n, i))
    <2>1. Lists(c[i], Of(S, n, i))
      BY DEF Spread
    <2>2. CASE i = x
      <3>1. Of(S \cup {s}, n, i) = Of(S, n, i) \cup {s} /\ s \notin Of(S, n, i)
        BY <2>2 DEF Of
      <3>2. Prepend(c, s, n)[i] = <<s>> \o c[i]
        BY <2>2, <1>1 DEF Prepend, Chains
      <3>3. Lists(<<s>> \o c[i], Of(S, n, i) \cup {s})
        BY <2>1, <3>1, ListsCons
      <3> QED
        BY <3>1, <3>2, <3>3
    <2>3. CASE i # x
      <3>1. Of(S \cup {s}, n, i) = Of(S, n, i)
        BY <2>3 DEF Of
      <3>2. Prepend(c, s, n)[i] = c[i]
        BY <2>3, <1>1 DEF Prepend, Chains
      <3> QED
        BY <2>1, <3>1, <3>2
    <2> QED
      BY <2>2, <2>3
  <1> QED
    BY <1>1, <1>2 DEF Spread

(* The recursive function of MoveChain has the values the loop goes through.   *)
Moved(m, q, c, n) ==
    m = [k \in 0 .. Len(q) |->
            IF k = 0 THEN c ELSE Prepend(m[k - 1], q[k], n)]

LEMMA MoveChainTrace ==
    ASSUME NEW n \in Nat \ {0}, NEW c \in Chains(n), NEW q \in Seq(Session)
    PROVE  \E m \in [0 .. Len(q) -> Chains(n)] :
              Moved(m, q, c, n) /\ MoveChain(q, c, n) = m[Len(q)]
  <1> DEFINE f == [k \in 1 .. Len(q) |-> [v \in Chains(n) |-> Prepend(v, q[k], n)]]
  <1>1. Len(q) \in Nat /\ \A k \in 1 .. Len(q) : q[k] \in Session
    OBVIOUS
  <1>2. f \in [1 .. Len(q) -> [Chains(n) -> Chains(n)]]
    BY <1>1, PrependType
  <1>3. PICK g : Trace(g, Chains(n), c, Len(q), f)
    <2> HIDE DEF f
    <2> QED
      BY <1>1, <1>2, Iterate
  <1>4. g \in [0 .. Len(q) -> Chains(n)] /\ g[0] = c
    BY <1>3 DEF Trace
  <1>5. \A k \in 1 .. Len(q) : g[k] = Prepend(g[k - 1], q[k], n)
    <2> SUFFICES ASSUME NEW k \in 1 .. Len(q) PROVE g[k] = Prepend(g[k - 1], q[k], n)
      OBVIOUS
    <2>1. g[k] = f[k][g[k - 1]] /\ g[k - 1] \in Chains(n)
      BY SMTT(30), <1>1, <1>3, <1>4 DEF Trace
    <2> QED
      BY <2>1
  <1>6. Moved(g, q, c, n)
    BY <1>1, <1>4, <1>5 DEF Moved
  <1> DEFINE m == CHOOSE moved : Moved(moved, q, c, n)
  <1>7. Moved(m, q, c, n) /\ MoveChain(q, c, n) = m[Len(q)]
    BY <1>6 DEF MoveChain, Moved
  <1> HIDE DEF m
  <1>8. m[0] = c /\ \A k \in 1 .. Len(q) : m[k] = Prepend(m[k - 1], q[k], n)
    BY SMTT(30), <1>1, <1>7 DEF Moved
  <1> DEFINE T == {k \in 0 .. Len(q) : m[k] \in Chains(n)}
  <1>9. 0 .. Len(q) \subseteq T
    <2>1. 0 \in T /\ \A k \in 1 .. Len(q) : k - 1 \in T => k \in T
      BY SMTT(30), <1>1, <1>8, PrependType
    <2> HIDE DEF T
    <2> QED
      BY <1>1, <2>1, UpTo
  <1>10. m \in [0 .. Len(q) -> Chains(n)]
    BY <1>7, <1>9 DEF Moved
  <1> QED
    BY <1>7, <1>10

LEMMA MoveChainSpread ==
    ASSUME NEW n \in Nat \ {0}, NEW S \in SUBSET Session, NEW T \in SUBSET Session,
           S \cap T = {}, NEW c, Spread(c, n, S), NEW q, Lists(q, T)
    PROVE  Spread(MoveChain(q, c, n), n, S \cup T)
  <1>1. q \in Seq(Session) /\ Len(q) \in Nat /\ c \in Chains(n)
    BY DEF Lists, Spread
  <1>2. PICK m \in [0 .. Len(q) -> Chains(n)] :
              Moved(m, q, c, n) /\ MoveChain(q, c, n) = m[Len(q)]
    BY <1>1, MoveChainTrace
  <1> DEFINE Before(k) == {q[i] : i \in 1 .. k}
             K == {k \in 0 .. Len(q) : Spread(m[k], n, S \cup Before(k))}
  <1>3. 0 \in K
    <2>1. m[0] = c /\ S \cup Before(0) = S
      BY <1>1, <1>2 DEF Moved
    <2> QED
      BY <1>1, <2>1
  <1>4. ASSUME NEW k \in 1 .. Len(q), k - 1 \in K PROVE k \in K
    <2>1. m[k] = Prepend(m[k - 1], q[k], n)
      BY <1>1, <1>2 DEF Moved
    <2>2. q[k] \in Session \ (S \cup Before(k - 1))
      <3>1. q[k] \in T
        BY <1>1 DEF Lists
      <3>2. q[k] \notin Before(k - 1)
        BY SMTT(30), <1>1 DEF Lists, Once
      <3> QED
        BY <3>1, <3>2
    <2>3. S \cup Before(k) = (S \cup Before(k - 1)) \cup {q[k]}
      BY <1>1
    <2>4. S \cup Before(k - 1) \in SUBSET Session /\ Spread(m[k - 1], n, S \cup Before(k - 1))
      BY <1>1, <1>4
    <2> HIDE DEF Before
    <2> QED
      BY <2>1, <2>2, <2>3, <2>4, PrependSpread
  <1>5. 0 .. Len(q) \subseteq K
    <2> HIDE DEF K
    <2> QED
      BY <1>1, <1>3, <1>4, UpTo
  <1>6. Before(Len(q)) = T
    BY SMTT(30), <1>1 DEF Lists
  <1> QED
    BY <1>1, <1>2, <1>5, <1>6

Rehashed(m, b, n) ==
    m = [i \in 0 .. size |->
            IF i = 0 THEN [j \in 0 .. n - 1 |-> <<>>]
                     ELSE MoveChain(b[i - 1], m[i - 1], n)]

LEMMA MoveChainType ==
    ASSUME NEW n \in Nat \ {0}, NEW c \in Chains(n), NEW q \in Seq(Session)
    PROVE  MoveChain(q, c, n) \in Chains(n)
  <1>1. PICK m \in [0 .. Len(q) -> Chains(n)] : MoveChain(q, c, n) = m[Len(q)]
    BY MoveChainTrace
  <1> QED
    BY <1>1

LEMMA RehashTrace ==
    ASSUME size \in Nat, NEW n \in Nat \ {0}, NEW b \in Chains(size)
    PROVE  \E m : Rehashed(m, b, n) /\ Rehash(b, n) = m[size]
  <1> DEFINE f == [i \in 1 .. size |-> [v \in Chains(n) |-> MoveChain(b[i - 1], v, n)]]
             none == [j \in 0 .. n - 1 |-> <<>>]
  <1>1. none \in Chains(n) /\ \A i \in 1 .. size : b[i - 1] \in Seq(Session)
    BY DEF Chains
  <1>2. f \in [1 .. size -> [Chains(n) -> Chains(n)]]
    BY <1>1, MoveChainType
  <1>3. PICK g : Trace(g, Chains(n), none, size, f)
    <2> HIDE DEF f, none
    <2> QED
      BY <1>1, <1>2, Iterate
  <1>4. g \in [0 .. size -> Chains(n)] /\ g[0] = none
    BY <1>3 DEF Trace
  <1>5. \A i \in 1 .. size : g[i] = MoveChain(b[i - 1], g[i - 1], n)
    <2> SUFFICES ASSUME NEW i \in 1 .. size PROVE g[i] = MoveChain(b[i - 1], g[i - 1], n)
      OBVIOUS
    <2>1. g[i] = f[i][g[i - 1]] /\ g[i - 1] \in Chains(n)
      BY <1>3, <1>4 DEF Trace
    <2> QED
      BY <2>1
  <1>6. Rehashed(g, b, n)
    BY <1>4, <1>5 DEF Rehashed
  <1> DEFINE m == CHOOSE moved : Rehashed(moved, b, n)
  <1>7. Rehashed(m, b, n) /\ Rehash(b, n) = m[size]
    BY <1>6 DEF Rehash, Rehashed
  <1> QED
    BY <1>7

(* Rehashing moves every session to where the new size looks for it.           *)
LEMMA RehashSpread ==
    ASSUME size \in Nat \ {0}, NEW n \in Nat \ {0}, NEW S \in SUBSET Session,
           NEW b, Spread(b, size, S)
    PROVE  Spread(Rehash(b, n), n, S)
  <1>1. b \in Chains(size)
    BY DEF Spread
  <1>2. PICK m : Rehashed(m, b, n) /\ Rehash(b, n) = m[size]
    BY <1>1, RehashTrace
  <1>3. /\ m[0] = [j \in 0 .. n - 1 |-> <<>>]
        /\ \A i \in 1 .. size : m[i] = MoveChain(b[i - 1], m[i - 1], n)
    <2>1. 0 \in 0 .. size /\ \A i \in 1 .. size : i \in 0 .. size /\ i # 0
      OBVIOUS
    <2> QED
      BY <1>2, <2>1, Zenon DEF Rehashed
  <1> DEFINE Below(k) == {s \in S : Index(IdOf[s], size) < k}
             K == {k \in 0 .. size : Spread(m[k], n, Below(k))}
  <1>4. \A s \in S : Index(IdOf[s], size) \in 0 .. size - 1
    BY IndexType
  <1>5. 0 \in K
    <2>1. Below(0) = {}
      BY <1>4
    <2>2. Spread(m[0], n, {})
      <3>1. m[0] \in Chains(n)
        BY <1>3 DEF Chains
      <3>2. \A i \in 0 .. n - 1 : m[0][i] = <<>> /\ Of({}, n, i) = {}
        BY <1>3 DEF Of
      <3> QED
        BY <3>1, <3>2, ListsEmpty DEF Spread
    <2> QED
      BY <2>1, <2>2
  <1>6. ASSUME NEW k \in 1 .. size, k - 1 \in K PROVE k \in K
    <2>1. m[k] = MoveChain(b[k - 1], m[k - 1], n)
      BY <1>3
    <2>2. k - 1 \in 0 .. size - 1 /\ Lists(b[k - 1], Of(S, size, k - 1))
      BY DEF Spread
    <2>3. Below(k) = Below(k - 1) \cup Of(S, size, k - 1)
      BY <1>4 DEF Of
    <2>4. Below(k - 1) \cap Of(S, size, k - 1) = {}
      BY <1>4 DEF Of
    <2>5. Below(k - 1) \in SUBSET Session /\ Of(S, size, k - 1) \in SUBSET Session
      BY DEF Of
    <2>6. Spread(m[k - 1], n, Below(k - 1))
      BY <1>6
    <2> HIDE DEF Below
    <2>7. Spread(MoveChain(b[k - 1], m[k - 1], n), n, Below(k - 1) \cup Of(S, size, k - 1))
      BY <2>2, <2>4, <2>5, <2>6, MoveChainSpread
    <2> QED
      BY <2>1, <2>3, <2>7
  <1>7. 0 .. size \subseteq K
    <2> HIDE DEF K
    <2> QED
      BY <1>5, <1>6, UpTo
  <1>8. Below(size) = S
    BY <1>4
  <1> QED
    BY <1>2, <1>7, <1>8

-------------------------------------------------------------------------------
Serving == {s \in Session : pc[s] = "serving"}
Gone == {s \in Session : pc[s] = "gone"}

Sized == size \in Nat /\ size >= MIN_SIZE /\ size <= MAX_SIZE
OnePerUser == \A s, t \in Serving : IdOf[s] = IdOf[t] => s = t
TableI ==
    /\ Sized
    /\ Spread(buckets, size, Serving)
    /\ elements = Cardinality(Serving)
    /\ OnePerUser

(* A session that has destroyed the table stays gone: the server is ending.    *)
ThreadI ==
    /\ pc \in [Session -> {"authorized", "serving", "removed", "gone"}]
    /\ stop \in [Session -> BOOLEAN]
    /\ ending \in BOOLEAN
    /\ (\E s \in Session : stop[s]) => ending
    /\ destroyed \in Nat /\ destroyed <= Cardinality(Gone)
    /\ destroyed > 0 => ending

TableIInv == TableI /\ ThreadI

LEMMA FirstIn ==
    ASSUME NEW u, NEW T, Lists(Chain(u), T)
    PROVE  /\ First(u) = 0 => \A s \in T : IdOf[s] # u
           /\ First(u) # 0 => /\ First(u) \in 1 .. Len(Chain(u))
                              /\ Chain(u)[First(u)] \in T
                              /\ IdOf[Chain(u)[First(u)]] = u
  <1> DEFINE I == {i \in 1 .. Len(Chain(u)) : IdOf[Chain(u)[i]] = u}
  <1>1. First(u) = IF I # {} THEN Min(I) ELSE 0
    BY DEF First, SelectInSeq
  <1>2. Chain(u) \in Seq(T) /\ \A s \in T : \E i \in 1 .. Len(Chain(u)) : Chain(u)[i] = s
    BY DEF Lists
  <1>3. CASE I = {}
    BY <1>1, <1>2, <1>3
  <1>4. CASE I # {}
    <2>1. I \in SUBSET Nat
      OBVIOUS
    <2>2. \E n \in I : \A m \in I : n <= m
      <3> HIDE DEF I
      <3> QED
        BY <1>4, <2>1, Least
    <2>3. Min(I) \in I
      <3> HIDE DEF I
      <3> QED
        BY <2>2 DEF Min
    <2> QED
      BY SMTT(30), <1>1, <1>2, <1>4, <2>3
  <1> QED
    BY <1>3, <1>4

(* What a look at the table finds: the session that serves the user.           *)
LEMMA Lookup ==
    ASSUME TableI, NEW u \in Uid
    PROVE  /\ ~InChain(u) => \A s \in Serving : IdOf[s] # u
           /\ InChain(u) => /\ First(u) \in 1 .. Len(Chain(u))
                            /\ Chain(u)[First(u)] \in Serving
                            /\ IdOf[Chain(u)[First(u)]] = u
  <1> DEFINE x == Index(u, size)
  <1>1. size \in Nat \ {0}
    BY TableAssumption DEF TableI, Sized
  <1>2. x \in 0 .. size - 1
    BY <1>1, TableAssumption DEF Index
  <1>3. Lists(Chain(u), Of(Serving, size, x))
    BY <1>2 DEF TableI, Spread, Chain
  <1>4. \A s \in Serving : IdOf[s] = u => s \in Of(Serving, size, x)
    BY DEF Of
  <1> HIDE DEF x
  <1>5. Of(Serving, size, x) \subseteq Serving
    BY DEF Of
  <1> QED
    BY <1>3, <1>4, <1>5, FirstIn DEF InChain

(* get_handler(u) is the session that serves u, if there is one.               *)
Finds(u) ==
    /\ (\A s \in Serving : IdOf[s] # u) <=> get_handler(u) = None
    /\ \A s \in Serving : IdOf[s] = u => get_handler(u) = s
MapRight == \A u \in Uid : Finds(u)

LEMMA Handler == TableI => MapRight
  <1> SUFFICES ASSUME TableI, NEW u \in Uid PROVE Finds(u)
    BY DEF MapRight
  <1>1. CASE InChain(u)
    <2>1. get_handler(u) \in Serving /\ IdOf[get_handler(u)] = u
      BY <1>1, Lookup DEF get_handler
    <2>2. get_handler(u) # None
      BY <2>1, TableAssumption DEF Serving
    <2> QED
      BY <2>1, <2>2 DEF TableI, OnePerUser, Finds
  <1>2. CASE ~InChain(u)
    BY <1>2, Lookup, TableAssumption DEF get_handler, Finds, Serving
  <1> QED
    BY <1>1, <1>2

LEMMA AppendSpread ==
    ASSUME NEW n \in Nat \ {0}, NEW S \in SUBSET Session, NEW c, Spread(c, n, S),
           NEW s \in Session \ S
    PROVE  Spread([c EXCEPT ![Index(IdOf[s], n)] = Append(@, s)], n, S \cup {s})
  <1> DEFINE x == Index(IdOf[s], n)
             d == [c EXCEPT ![x] = Append(@, s)]
  <1>1. c \in Chains(n) /\ x \in 0 .. n - 1
    BY IndexType DEF Spread
  <1> HIDE DEF x
  <1>2. d \in Chains(n)
    <2>1. c[x] \in Seq(Session)
      BY <1>1 DEF Chains
    <2>2. Append(c[x], s) \in Seq(Session)
      BY <2>1, AppendProperties
    <2> QED
      BY <1>1, <2>2 DEF Chains
  <1>3. ASSUME NEW i \in 0 .. n - 1
        PROVE  Lists(d[i], Of(S \cup {s}, n, i))
    <2>1. Lists(c[i], Of(S, n, i))
      BY DEF Spread
    <2>2. CASE i = x
      <3>1. Of(S \cup {s}, n, i) = Of(S, n, i) \cup {s} /\ s \notin Of(S, n, i)
        BY <2>2 DEF Of, x
      <3>2. d[i] = Append(c[i], s)
        BY <2>2, <1>1 DEF Chains
      <3>3. Lists(Append(c[i], s), Of(S, n, i) \cup {s})
        BY <2>1, <3>1, ListsAppend
      <3> QED
        BY <3>1, <3>2, <3>3
    <2>3. CASE i # x
      <3>1. Of(S \cup {s}, n, i) = Of(S, n, i)
        BY <2>3 DEF Of, x
      <3>2. d[i] = c[i]
        BY <2>3, <1>1 DEF Chains
      <3> QED
        BY <2>1, <3>1, <3>2
    <2> QED
      BY <2>2, <2>3
  <1>4. Spread(d, n, S \cup {s})
    <2> HIDE DEF d
    <2> QED
      BY <1>2, <1>3 DEF Spread
  <1> QED
    BY <1>4 DEF x

LEMMA RemoveSpread ==
    ASSUME NEW n \in Nat \ {0}, NEW S \in SUBSET Session, NEW c, Spread(c, n, S),
           NEW x \in 0 .. n - 1, NEW k \in 1 .. Len(c[x])
    PROVE  Spread([c EXCEPT ![x] = RemoveAt(@, k)], n, S \ {c[x][k]})
  <1> DEFINE d == [c EXCEPT ![x] = RemoveAt(@, k)]
             s == c[x][k]
  <1>1. c \in Chains(n) /\ Lists(c[x], Of(S, n, x))
    BY DEF Spread
  <1>2. s \in Of(S, n, x)
    BY <1>1 DEF Lists
  <1>3. Lists(RemoveAt(c[x], k), Of(S, n, x) \ {s})
    BY <1>1, ListsRemoveAt
  <1>4. d \in Chains(n)
    <2>1. RemoveAt(c[x], k) \in Seq(Session)
      BY <1>3, SeqMonotonic DEF Lists, Of
    <2> QED
      BY <1>1, <2>1 DEF Chains
  <1>5. ASSUME NEW i \in 0 .. n - 1
        PROVE  Lists(d[i], Of(S \ {s}, n, i))
    <2>1. Lists(c[i], Of(S, n, i))
      BY DEF Spread
    <2>2. CASE i = x
      <3>1. Of(S \ {s}, n, i) = Of(S, n, i) \ {s}
        BY DEF Of
      <3>2. d[i] = RemoveAt(c[i], k)
        BY <2>2, <1>1 DEF Chains
      <3> QED
        BY <1>3, <2>2, <3>1, <3>2
    <2>3. CASE i # x
      <3>1. Of(S \ {s}, n, i) = Of(S, n, i)
        BY <2>3, <1>2 DEF Of
      <3>2. d[i] = c[i]
        BY <2>3, <1>1 DEF Chains
      <3> QED
        BY <2>1, <3>1, <3>2
    <2> QED
      BY <2>2, <2>3
  <1>6. Spread(d, n, S \ {s})
    <2> HIDE DEF d
    <2> QED
      BY <1>4, <1>5 DEF Spread
  <1> QED
    BY <1>6

LEMMA SizeFacts == Sized => size \in Nat \ {0} /\ size * 2 \in Nat \ {0}
  BY TableAssumption DEF Sized

(* The two ways an operation ends: with the table b, or b resized.             *)
LEMMA ResizeSpread ==
    ASSUME Sized, NEW n \in Nat, NEW S \in SUBSET Session, NEW b, Spread(b, size, S),
           resize_handler_table(b, n) \/ Keep(b)
    PROVE  Sized' /\ Spread(buckets', size', S)
  <1>1. CASE buckets' = b /\ size' = size
    BY <1>1 DEF Sized
  <1>2. CASE buckets' = Rehash(b, n) /\ size' = n /\ n >= MIN_SIZE /\ n <= MAX_SIZE
    <2>1. n \in Nat \ {0} /\ size \in Nat \ {0}
      BY <1>2, TableAssumption DEF Sized
    <2>2. Spread(Rehash(b, n), n, S)
      BY <2>1, RehashSpread
    <2> QED
      BY <1>2, <2>1, <2>2 DEF Sized
  <1>3. MIN_SIZE \in Nat /\ MAX_SIZE \in Nat
    BY TableAssumption
  <1> QED
    BY <1>1, <1>2, <1>3 DEF resize_handler_table, Keep

LEMMA SessionsFinite ==
    ASSUME NEW S \in SUBSET Session
    PROVE  /\ IsFiniteSet(S) /\ Cardinality(S) \in Nat
           /\ Cardinality(S) <= Cardinality(Session)
  BY TableAssumption, FS_Subset, FS_CardinalityType

LEMMA ServingFinite ==
    /\ IsFiniteSet(Serving) /\ Cardinality(Serving) \in Nat
    /\ IsFiniteSet(Gone) /\ Cardinality(Gone) \in Nat
    /\ Cardinality(Gone) <= Cardinality(Session)
  <1>1. Serving \in SUBSET Session /\ Gone \in SUBSET Session
    BY DEF Serving, Gone
  <1> QED
    BY <1>1, SessionsFinite

LEMMA AddTable ==
    ASSUME TableIInv, NEW s \in Session, add_handler(s), ~InChain(IdOf[s])
    PROVE  TableI'
  <1> DEFINE b == [buckets EXCEPT ![Index(IdOf[s], size)] = Append(@, s)]
  <1>1. Sized /\ size \in Nat \ {0} /\ size * 2 \in Nat /\ IdOf[s] \in Uid
    BY SizeFacts, TableAssumption DEF TableIInv, TableI
  <1>2. pc[s] = "authorized" /\ pc' = [pc EXCEPT ![s] = "serving"]
        /\ elements' = elements + 1
        /\ (resize_handler_table(b, size * 2) \/ Keep(b))
    BY DEF add_handler, TableIInv, ThreadI
  <1>3. Serving' = Serving \cup {s} /\ s \in Session \ Serving
    BY <1>2 DEF Serving, TableIInv, ThreadI
  <1>4. Spread(b, size, Serving \cup {s})
    <2>1. Serving \in SUBSET Session
      BY DEF Serving
    <2> QED
      BY <1>1, <1>3, <2>1, AppendSpread DEF TableIInv, TableI
  <1>5. Sized' /\ Spread(buckets', size', Serving \cup {s})
    <2>1. Serving \cup {s} \in SUBSET Session
      BY DEF Serving
    <2> HIDE DEF b
    <2> QED
      BY <1>1, <1>2, <1>4, <2>1, ResizeSpread
  <1>6. elements' = Cardinality(Serving')
    BY <1>2, <1>3, ServingFinite, FS_AddElement DEF TableIInv, TableI
  <1>7. OnePerUser'
    <2>1. \A t \in Serving : IdOf[t] # IdOf[s]
      BY <1>1, Lookup DEF TableIInv
    <2> QED
      BY <1>3, <2>1 DEF OnePerUser, TableIInv, TableI
  <1> QED
    BY <1>3, <1>5, <1>6, <1>7 DEF TableI

LEMMA RemoveTable ==
    ASSUME TableIInv, NEW s \in Session, rem_handler(s)
    PROVE  InChain(IdOf[s]) /\ TableI' /\ Serving' = Serving \ {s}
  <1> DEFINE u == IdOf[s]
             x == Index(u, size)
             b == [buckets EXCEPT ![x] = RemoveAt(@, First(u))]
  <1>1. /\ Sized /\ size \in Nat \ {0} /\ size \div 2 \in Nat /\ u \in Uid
        /\ x \in 0 .. size - 1 /\ s \in Serving
    BY SizeFacts, IndexType, TableAssumption
       DEF TableIInv, TableI, rem_handler, Serving
  <1>2. InChain(u)
    BY <1>1, Lookup DEF TableIInv
  <1>3. /\ pc' = [pc EXCEPT ![s] = "removed"]
        /\ elements' = elements - 1
        /\ resize_handler_table(b, size \div 2) \/ Keep(b)
    BY <1>2 DEF rem_handler
  <1>4. First(u) \in 1 .. Len(buckets[x]) /\ buckets[x][First(u)] = s
    <2>1. /\ First(u) \in 1 .. Len(Chain(u)) /\ Chain(u)[First(u)] \in Serving
          /\ IdOf[Chain(u)[First(u)]] = u
      BY <1>1, <1>2, Lookup DEF TableIInv
    <2>2. Chain(u)[First(u)] = s
      BY <2>1, <1>1 DEF TableIInv, TableI, OnePerUser
    <2> QED
      BY <2>1, <2>2 DEF Chain
  <1>5. Serving' = Serving \ {s}
    BY <1>3 DEF Serving, TableIInv, ThreadI
  <1>6. Spread(b, size, Serving \ {s})
    <2>1. Serving \in SUBSET Session
      BY DEF Serving
    <2>2. Spread(b, size, Serving \ {buckets[x][First(u)]})
      <3> HIDE DEF x, u
      <3> QED
        BY <1>1, <1>4, <2>1, RemoveSpread DEF TableIInv, TableI
    <2> QED
      BY <1>4, <2>2
  <1>7. Sized' /\ Spread(buckets', size', Serving \ {s})
    <2>1. Serving \ {s} \in SUBSET Session
      BY DEF Serving
    <2> HIDE DEF b
    <2> QED
      BY <1>1, <1>3, <1>6, <2>1, ResizeSpread
  <1>8. elements' = Cardinality(Serving')
    BY <1>1, <1>3, <1>5, ServingFinite, FS_RemoveElement DEF TableIInv, TableI
  <1> QED
    BY <1>2, <1>5, <1>7, <1>8 DEF TableI, OnePerUser, TableIInv

LEMMA SameTable ==
    ASSUME TableI, UNCHANGED table, Serving' = Serving
    PROVE  TableI'
  BY DEF TableI, table, Sized, OnePerUser

LEMMA GoneGrows ==
    ASSUME Gone \subseteq Gone'
    PROVE  Cardinality(Gone) <= Cardinality(Gone')
  <1>1. IsFiniteSet(Gone')
    <2>1. Gone' \in SUBSET Session
      BY DEF Gone
    <2> QED
      BY <2>1, TableAssumption, FS_Subset
  <1> QED
    BY <1>1, FS_Subset

LEMMA NoneDestroyed ==
    ASSUME TableIInv, destroyed' = 0,
           ending' \in BOOLEAN, stop' \in [Session -> BOOLEAN],
           pc' \in [Session -> {"authorized", "serving", "removed", "gone"}],
           (\E s \in Session : stop'[s]) => ending'
    PROVE  ThreadI'
  <1>1. Gone' \in SUBSET Session
    BY DEF Gone
  <1>2. Cardinality(Gone') \in Nat
    BY <1>1, SessionsFinite
  <1> QED
    BY <1>2 DEF ThreadI

LEMMA ThreadStep ==
    ASSUME TableIInv, [Next]_vars
    PROVE  ThreadI'
  <1> USE DEF TableIInv
  <1>1. ASSUME NEW s \in Session, add_handler(s) \/ rem_handler(s) \/ spawn_handler(s)
        PROVE  ThreadI'
    <2>1. destroyed' = 0 /\ UNCHANGED <<stop, ending>>
      BY <1>1 DEF add_handler, rem_handler, spawn_handler, ThreadI
    <2>2. pc' \in [Session -> {"authorized", "serving", "removed", "gone"}]
      BY <1>1 DEF add_handler, rem_handler, spawn_handler, ThreadI
    <2> QED
      BY <2>1, <2>2, NoneDestroyed DEF ThreadI
  <1>2. ASSUME NEW s \in Session, destroy_handler_table(s) PROVE ThreadI'
    <2>1. /\ pc[s] = "removed" /\ pc' = [pc EXCEPT ![s] = "gone"]
          /\ destroyed' = IF stop[s] /\ elements = 0 THEN destroyed + 1 ELSE destroyed
          /\ UNCHANGED <<stop, ending>>
      BY <1>2 DEF destroy_handler_table
    <2>2. Gone' = Gone \cup {s} /\ s \notin Gone
      BY <2>1 DEF Gone, ThreadI
    <2>3. Cardinality(Gone') = Cardinality(Gone) + 1 /\ Cardinality(Gone) \in Nat
      BY <2>2, ServingFinite, FS_AddElement
    <2>4. destroyed' \in Nat /\ destroyed' <= Cardinality(Gone')
      BY <2>1, <2>3 DEF ThreadI
    <2>5. pc' \in [Session -> {"authorized", "serving", "removed", "gone"}]
      BY <2>1 DEF ThreadI
    <2> QED
      BY <2>1, <2>4, <2>5 DEF ThreadI
  <1>3. CASE end_handlers
    <2>1. destroyed' = 0 /\ ending' = TRUE /\ pc' = pc /\ stop' \in [Session -> BOOLEAN]
      BY <1>3 DEF end_handlers, ThreadI, Contains
    <2> QED
      BY <2>1, NoneDestroyed DEF ThreadI
  <1>4. CASE UNCHANGED vars
    BY <1>4 DEF ThreadI, vars, Gone
  <1> QED
    BY <1>1, <1>2, <1>3, <1>4 DEF Next, client_handler

LEMMA TableStep ==
    ASSUME TableIInv, [Next]_vars
    PROVE  TableI'
  <1>1. ASSUME NEW s \in Session, add_handler(s) PROVE TableI'
    <2>1. CASE InChain(IdOf[s])
      <3>1. UNCHANGED table /\ pc[s] = "authorized" /\ pc' = [pc EXCEPT ![s] = "gone"]
        BY <1>1, <2>1 DEF add_handler
      <3>2. Serving' = Serving
        BY <3>1 DEF Serving, TableIInv, ThreadI
      <3> QED
        BY <3>1, <3>2, SameTable DEF TableIInv
    <2> QED
      BY <1>1, <2>1, AddTable
  <1>2. ASSUME NEW s \in Session, rem_handler(s) PROVE TableI'
    BY <1>2, RemoveTable
  <1>3. ASSUME NEW s \in Session, destroy_handler_table(s) \/ spawn_handler(s)
        PROVE  TableI'
    <2>1. /\ UNCHANGED table /\ pc[s] # "serving"
          /\ \E p \in {"gone", "authorized"} : pc' = [pc EXCEPT ![s] = p]
      BY <1>3 DEF destroy_handler_table, spawn_handler
    <2>2. Serving' = Serving
      BY <2>1 DEF Serving, TableIInv, ThreadI
    <2> QED
      BY <2>1, <2>2, SameTable DEF TableIInv
  <1>4. CASE end_handlers \/ UNCHANGED vars
    <2>1. UNCHANGED <<table, pc>>
      BY <1>4 DEF end_handlers, vars
    <2> QED
      BY <2>1, SameTable DEF TableIInv, Serving
  <1> QED
    BY <1>1, <1>2, <1>3, <1>4 DEF Next, client_handler

LEMMA TableInit == Init => TableIInv
  <1> SUFFICES ASSUME Init PROVE TableIInv
    OBVIOUS
  <1>1. Serving = {}
    BY DEF Init, Serving
  <1>2. Sized
    BY TableAssumption DEF Init, init_handler_table, Sized
  <1>3. Spread(buckets, size, {})
    <2>1. \A i \in 0 .. size - 1 : buckets[i] = <<>> /\ Of({}, size, i) = {}
      BY DEF Init, init_handler_table, Of
    <2>2. buckets \in Chains(size)
      BY DEF Init, init_handler_table, Chains
    <2> QED
      BY <2>1, <2>2, ListsEmpty DEF Spread
  <1>4. elements = Cardinality({})
    BY FS_EmptySet DEF Init, init_handler_table
  <1>5. ThreadI
    <2>1. destroyed = 0 /\ Cardinality(Gone) \in Nat
      BY ServingFinite DEF Init
    <2>2. ~\E s \in Session : stop[s]
      BY DEF Init
    <2>3. /\ pc \in [Session -> {"authorized", "serving", "removed", "gone"}]
          /\ stop \in [Session -> BOOLEAN] /\ ending \in BOOLEAN
      BY DEF Init
    <2> QED
      BY <2>1, <2>2, <2>3 DEF ThreadI
  <1> QED
    BY <1>1, <1>2, <1>3, <1>4, <1>5 DEF TableIInv, TableI, OnePerUser

(* The places of the table and the serving sessions, one for one.              *)
LEMMA PlacesHold ==
    ASSUME TableIInv
    PROVE  HoldsServing
  <1> DEFINE f == [p \in Places |-> At(p)]
  <1>1. size \in Nat \ {0} /\ Serving \in SUBSET Session
    BY SizeFacts DEF TableIInv, TableI, Serving
  <1>2. ASSUME NEW p \in Places
        PROVE  /\ p[1] \in 0 .. size - 1 /\ p[2] \in 1 .. Len(buckets[p[1]])
               /\ p = <<p[1], p[2]>>
               /\ At(p) \in Serving /\ Index(IdOf[At(p)], size) = p[1]
    <2>1. PICK i \in 0 .. size - 1 : p \in {i} \X DOMAIN buckets[i]
      BY DEF Places
    <2>2. Lists(buckets[i], Of(Serving, size, i))
      BY DEF TableIInv, TableI, Spread
    <2>3. DOMAIN buckets[i] = 1 .. Len(buckets[i])
      BY <2>2 DEF Lists
    <2>4. p[1] = i /\ p[2] \in 1 .. Len(buckets[i]) /\ p = <<p[1], p[2]>>
      BY <2>1, <2>3
    <2>5. At(p) \in Of(Serving, size, i)
      BY <2>2, <2>4, ElementOfSeq DEF Lists, At
    <2> QED
      BY <2>4, <2>5 DEF Of
  <1>3. \A p, q \in Places : At(p) = At(q) => p = q
    <2> SUFFICES ASSUME NEW p \in Places, NEW q \in Places, At(p) = At(q) PROVE p = q
      OBVIOUS
    <2>1. p[1] = q[1]
      BY <1>2
    <2>2. Lists(buckets[p[1]], Of(Serving, size, p[1]))
      BY <1>2 DEF TableIInv, TableI, Spread
    <2>3. p[2] = q[2]
      BY SMTT(30), <1>2, <2>1, <2>2 DEF Lists, Once, At
    <2> QED
      BY <1>2, <2>1, <2>3
  <1>4. ASSUME NEW s \in Serving PROVE \E p \in Places : At(p) = s
    <2> DEFINE i == Index(IdOf[s], size)
    <2>1. i \in 0 .. size - 1 /\ s \in Of(Serving, size, i)
      BY <1>1, IndexType DEF Of
    <2>2. Lists(buckets[i], Of(Serving, size, i))
      BY <2>1 DEF TableIInv, TableI, Spread
    <2> HIDE DEF i
    <2>3. PICK j \in 1 .. Len(buckets[i]) : buckets[i][j] = s
      BY <2>1, <2>2 DEF Lists
    <2>4. j \in DOMAIN buckets[i]
      BY <2>2, <2>3 DEF Lists
    <2>5. <<i, j>> \in Places /\ At(<<i, j>>) = s
      BY <2>1, <2>3, <2>4 DEF Places, At
    <2> QED
      BY <2>5
  <1>5. f \in Injection(Places, Serving) /\ f \in Surjection(Places, Serving)
    BY <1>2, <1>3, <1>4 DEF Injection, IsInjective, Surjection
  <1>6. Cardinality(Places) = Cardinality(Serving)
    BY <1>5, ServingFinite, FS_Injection
  <1>7. {At(p) : p \in Places} = Serving
    BY <1>2, <1>4
  <1> QED
    BY <1>2, <1>3, <1>6, <1>7 DEF HoldsServing, TableIInv, TableI, Serving

LEMMA TypesHold ==
    ASSUME TableIInv
    PROVE  TypeOK
  <1>1. size \in MIN_SIZE .. MAX_SIZE
    BY TableAssumption DEF TableIInv, TableI, Sized
  <1>2. buckets \in [0 .. size - 1 -> Seq(Session)]
    BY DEF TableIInv, TableI, Spread, Chains
  <1>3. elements \in 0 .. Cardinality(Uid)
    <2> DEFINE f == [s \in Serving |-> IdOf[s]]
    <2>1. f \in Injection(Serving, Uid)
      BY TableAssumption DEF Injection, IsInjective, TableIInv, TableI, OnePerUser, Serving
    <2>2. Cardinality(Serving) <= Cardinality(Uid) /\ Cardinality(Uid) \in Nat
      BY <2>1, TableAssumption, FS_Injection, FS_CardinalityType
    <2> QED
      BY <2>2, ServingFinite DEF TableIInv, TableI
  <1>4. destroyed \in 0 .. Cardinality(Session)
    BY ServingFinite, FS_CardinalityType, TableAssumption DEF TableIInv, ThreadI
  <1> QED
    BY <1>1, <1>2, <1>3, <1>4 DEF TypeOK, TableIInv, ThreadI

LEMMA TableInductive == Spec => []TableIInv
  <1>1. TableIInv /\ [Next]_vars => TableIInv'
    BY TableStep, ThreadStep DEF TableIInv
  <1> QED
    BY TableInit, <1>1, PTL DEF Spec

(* Through any series of logins, ends and resizes, for   *)
(* any hash: the table holds the serving sessions and no other, each once and  *)
(* in the chain where get_handler and rem_handler look for it, and elements    *)
(* counts them.  That a session is never in it twice, that no user has two,    *)
(* and that the loops of resize_handler_table lose none is what it rests on.   *)
THEOREM TableHoldsServing == Spec => []TableInv
  <1>1. TableIInv => TableInv
    BY TypesHold, PlacesHold DEF TableInv
  <1> QED
    BY TableInductive, <1>1, PTL

-------------------------------------------------------------------------------
LEMMA MapInit == Init => Abstract!Init
  <1> SUFFICES ASSUME Init PROVE Abstract!Init
    OBVIOUS
  <1>1. MapRight /\ Serving = {}
    BY TableInit, Handler DEF TableIInv, Serving, Init
  <1>2. \A u \in Uid : get_handler(u) = None
    BY <1>1 DEF MapRight, Finds
  <1> QED
    BY <1>2 DEF Abstract!Init

Map == [u \in Uid |-> get_handler(u)]

LEMMA SameMap ==
    ASSUME MapRight, MapRight', Serving' = Serving
    PROVE  Map' = Map
  BY DEF Map, MapRight, Finds

LEMMA AddMap ==
    ASSUME MapRight, MapRight', NEW s \in Session, s \notin Serving,
           \A t \in Serving : IdOf[t] # IdOf[s], Serving' = Serving \cup {s}
    PROVE  Abstract!Add(s)
  <1>1. IdOf[s] \in Uid
    BY TableAssumption
  <1>2. get_handler(IdOf[s]) = None /\ get_handler(IdOf[s])' = s
    BY <1>1 DEF MapRight, Finds
  <1>3. \A u \in Uid : u # IdOf[s] => get_handler(u)' = get_handler(u)
    BY DEF MapRight, Finds
  <1> QED
    BY <1>1, <1>2, <1>3 DEF Abstract!Add

LEMMA RemoveMap ==
    ASSUME MapRight, MapRight', OnePerUser, NEW s \in Serving, Serving' = Serving \ {s}
    PROVE  Abstract!Remove(s)
  <1>1. IdOf[s] \in Uid
    BY TableAssumption DEF Serving
  <1>2. get_handler(IdOf[s]) = s
    BY <1>1 DEF MapRight, Finds
  <1>3. get_handler(IdOf[s])' = None
    BY <1>1 DEF MapRight, Finds, OnePerUser
  <1>4. \A u \in Uid : u # IdOf[s] => get_handler(u)' = get_handler(u)
    BY DEF MapRight, Finds
  <1> QED
    BY <1>1, <1>2, <1>3, <1>4 DEF Abstract!Remove

LEMMA MapStep ==
    ASSUME TableIInv, TableIInv', [Next]_vars, MapRight, MapRight'
    PROVE  [Abstract!Next]_Map
  <1>1. ASSUME NEW s \in Session, add_handler(s) PROVE [Abstract!Next]_Map
    <2>1. CASE InChain(IdOf[s])
      <3>1. Serving' = Serving
        BY <1>1, <2>1 DEF add_handler, Serving, TableIInv, ThreadI
      <3> QED
        BY <3>1, SameMap
    <2>2. CASE ~InChain(IdOf[s])
      <3>1. Serving' = Serving \cup {s} /\ s \notin Serving
        BY <1>1, <2>2 DEF add_handler, Serving, TableIInv, ThreadI
      <3>2. \A t \in Serving : IdOf[t] # IdOf[s]
        BY <2>2, Lookup, TableAssumption DEF TableIInv
      <3> QED
        BY <3>1, <3>2, AddMap DEF Abstract!Next
    <2> QED
      BY <2>1, <2>2
  <1>2. ASSUME NEW s \in Session, rem_handler(s) PROVE [Abstract!Next]_Map
    <2>1. Serving' = Serving \ {s} /\ s \in Serving
      BY <1>2, RemoveTable DEF rem_handler, Serving
    <2> QED
      BY <2>1, RemoveMap DEF Abstract!Next, TableIInv, TableI, Serving
  <1>3. ASSUME NEW s \in Session, destroy_handler_table(s) \/ spawn_handler(s)
        PROVE  [Abstract!Next]_Map
    <2>1. Serving' = Serving
      BY <1>3 DEF destroy_handler_table, spawn_handler, Serving, TableIInv, ThreadI
    <2> QED
      BY <2>1, SameMap
  <1>4. CASE end_handlers \/ UNCHANGED vars
    <2>1. Serving' = Serving
      BY <1>4 DEF end_handlers, vars, Serving
    <2> QED
      BY <2>1, SameMap
  <1> QED
    BY <1>1, <1>2, <1>3, <1>4 DEF Next, client_handler

(* The table is the map HandlerMap: a look-up by get_handler tells, for every  *)
(* user, the session that serves them, and each step of the table is a step of *)
(* the map or leaves it as it is, the moves of a resize among them.            *)
THEOREM TableIsMap == Spec => ImplementsMap
  <1>1. TableIInv => MapRight
    BY Handler DEF TableIInv
  <1>2. TableIInv /\ TableIInv' /\ [Next]_vars /\ MapRight /\ MapRight'
        => [Abstract!Next]_Map
    BY MapStep
  <1> QED
    BY <1>1, <1>2, MapInit, TableInductive, PTL
       DEF Spec, ImplementsMap, Abstract!Spec, Map
===============================================================================
