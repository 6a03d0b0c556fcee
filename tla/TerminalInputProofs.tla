-------------------------- MODULE TerminalInputProofs --------------------------
(***************************************************************************)
(* What TerminalInput keeps for whatever the host gives, in whatever mode  *)
(* the program reads and however reads, flushes, undos and ends of the     *)
(* program follow each other: bytes and tokens reach the program in the    *)
(* order given, and no read is left waiting for what is there.             *)
(*                                                                         *)
(* Everything given has a number.  The log keeps what was taken out of the *)
(* queue, entry by entry, in the order of the numbers: what the older      *)
(* entries hold is before what the newer ones hold, which is before what   *)
(* is queued.  So undo, which puts an entry's part in front of the queue,  *)
(* keeps the order.                                                        *)
(***************************************************************************)
EXTENDS TerminalInput, FiniteSetTheorems, SequenceTheorems, TLAPS

-----------------------------------------------------------------------------
(* Sequences and sets. *)

LEMMA MinIs ==
  ASSUME NEW S, S \subseteq Nat, NEW m \in S, \A x \in S : m <= x
  PROVE  Min(S) = m
<1>1. \A x \in S : (\A y \in S : x <= y) => x = m
  OBVIOUS
<1> QED  BY <1>1 DEF Min

LEMMA MinOfTwo ==
  ASSUME NEW a \in Nat, NEW b \in Nat
  PROVE  Min({a, b}) = IF a <= b THEN a ELSE b
<1>1. CASE a <= b
  <2>1. a \in {a, b} /\ \A x \in {a, b} : a <= x
    BY <1>1
  <2> QED  BY <1>1, <2>1, MinIs
<1>2. CASE ~(a <= b)
  <2>1. b \in {a, b} /\ \A x \in {a, b} : b <= x
    BY <1>2
  <2> QED  BY <1>2, <2>1, MinIs
<1> QED  BY <1>1, <1>2

LEMMA MaxOfTwo ==
  ASSUME NEW a \in Nat, NEW b \in Nat
  PROVE  Max({a, b}) = IF a <= b THEN b ELSE a
BY DEF Max


Rising(seq) == \A i, j \in DOMAIN seq : i < j => seq[i].id < seq[j].id
Nums(seq) == {seq[i].id : i \in DOMAIN seq}
Below(A, B) == \A a \in A, b \in B : a < b
Tokens == [at : Index, id : Nat]

LEMMA EmptyRises == Rising(<<>>) /\ Nums(<<>>) = {}
BY DEF Rising, Nums

LEMMA ConcatRises ==
  ASSUME NEW S, NEW s \in Seq(S), NEW t \in Seq(S), Rising(s), Rising(t), Below(Nums(s), Nums(t))
  PROVE  /\ s \o t \in Seq(S) /\ Rising(s \o t) /\ Nums(s \o t) = Nums(s) \cup Nums(t)
         /\ Len(s \o t) = Len(s) + Len(t)
<1> DEFINE u == s \o t
<1>1. /\ u \in Seq(S) /\ Len(u) = Len(s) + Len(t)
      /\ \A i \in 1 .. Len(s) + Len(t) : u[i] = IF i <= Len(s) THEN s[i] ELSE t[i - Len(s)]
  BY ConcatProperties
<1> HIDE DEF u
<1>2. /\ DOMAIN u = 1 .. Len(s) + Len(t) /\ DOMAIN s = 1 .. Len(s) /\ DOMAIN t = 1 .. Len(t)
      /\ Len(s) \in Nat /\ Len(t) \in Nat
  BY <1>1, LenProperties
<1>3. \A i \in DOMAIN u : \/ i \in DOMAIN s /\ u[i] = s[i]
                          \/ i > Len(s) /\ i - Len(s) \in DOMAIN t /\ u[i] = t[i - Len(s)]
  BY <1>1, <1>2
<1>4. \A i \in DOMAIN s : s[i].id \in Nums(s)
  BY DEF Nums
<1>5. \A i \in DOMAIN t : t[i].id \in Nums(t)
  BY DEF Nums
<1>6. ASSUME NEW i \in DOMAIN u, NEW j \in DOMAIN u, i < j
      PROVE  u[i].id < u[j].id
  <2>1. CASE i \in DOMAIN s /\ j \in DOMAIN s
    BY <1>1, <1>2, <1>6, <2>1 DEF Rising
  <2>2. CASE i \in DOMAIN s /\ j > Len(s)
    <3>1. u[i] = s[i] /\ u[j] = t[j - Len(s)] /\ j - Len(s) \in DOMAIN t
      BY <1>1, <1>2, <2>2
    <3> QED  BY <1>4, <1>5, <2>2, <3>1 DEF Below
  <2>3. CASE i > Len(s)
    <3>1. /\ u[i] = t[i - Len(s)] /\ u[j] = t[j - Len(s)]
          /\ i - Len(s) \in DOMAIN t /\ j - Len(s) \in DOMAIN t /\ i - Len(s) < j - Len(s)
      BY <1>1, <1>2, <1>6, <2>3
    <3> QED  BY <3>1 DEF Rising
  <2> QED  BY <1>2, <1>3, <1>6, <2>1, <2>2, <2>3
<1>7. Nums(u) \subseteq Nums(s) \cup Nums(t)
  BY <1>3, <1>4, <1>5 DEF Nums
<1>8. ASSUME NEW i \in DOMAIN s PROVE s[i].id \in Nums(u)
  <2>1. i \in DOMAIN u /\ u[i] = s[i]
    BY <1>1, <1>2
  <2> QED  BY <2>1 DEF Nums
<1>9. ASSUME NEW i \in DOMAIN t PROVE t[i].id \in Nums(u)
  <2>1. i + Len(s) \in DOMAIN u /\ u[i + Len(s)] = t[i]
    BY <1>1, <1>2
  <2> QED  BY <2>1 DEF Nums
<1>10. Nums(s) \subseteq Nums(u) /\ Nums(t) \subseteq Nums(u)
  BY <1>8, <1>9 DEF Nums
<1>11. Rising(u) /\ Nums(u) = Nums(s) \cup Nums(t)
  BY <1>6, <1>7, <1>10 DEF Rising
<1> QED  BY <1>1, <1>11 DEF u

\* What lies between two places of a rising sequence
PartOf(u, s, m, n) ==
  /\ Rising(u) /\ Nums(u) \subseteq Nums(s)
  /\ Len(u) = IF m <= n THEN n - m + 1 ELSE 0
  /\ \A i \in 1 .. n - m + 1 : u[i] = s[m + i - 1]
  /\ \A x \in Nums(u) : \E i \in m .. n : x = s[i].id

LEMMA PartRises ==
  ASSUME NEW S, NEW s \in Seq(S), Rising(s), NEW m \in Nat, NEW n \in Nat, m >= 1, n <= Len(s)
  PROVE  SubSeq(s, m, n) \in Seq(S) /\ PartOf(SubSeq(s, m, n), s, m, n)
<1> DEFINE u == SubSeq(s, m, n)
<1>1. \A i \in m .. n : s[i] \in S /\ i \in DOMAIN s
  BY LenProperties, ElementOfSeq
<1>2. /\ u \in Seq(S) /\ Len(u) = IF m <= n THEN n - m + 1 ELSE 0
      /\ \A i \in 1 .. n - m + 1 : u[i] = s[m + i - 1]
  BY <1>1, SubSeqProperties
<1> HIDE DEF u
<1>3. DOMAIN u = 1 .. n - m + 1
  BY <1>2, LenProperties
<1>4. ASSUME NEW i \in DOMAIN u
      PROVE  m + i - 1 \in m .. n /\ m + i - 1 \in DOMAIN s /\ u[i] = s[m + i - 1]
  <2>1. i \in 1 .. n - m + 1 /\ m + i - 1 \in m .. n
    BY <1>3
  <2> QED  BY <1>1, <1>2, <2>1
<1>5. \A i, j \in DOMAIN u : i < j => m + i - 1 < m + j - 1
  BY <1>3
<1>6. Rising(u)
  BY <1>4, <1>5 DEF Rising
<1>7. Nums(u) \subseteq Nums(s) /\ \A x \in Nums(u) : \E i \in m .. n : x = s[i].id
  BY <1>4 DEF Nums
<1> QED  BY <1>2, <1>6, <1>7 DEF u, PartOf

\* No more are queued than were given.
LEMMA Short ==
  ASSUME NEW S, NEW q \in Seq(S), Rising(q), NEW g \in Nat, Nums(q) \subseteq 1 .. g
  PROVE  Len(q) <= g
<1> DEFINE f == [i \in 1 .. Len(q) |-> q[i].id]
<1>1. DOMAIN q = 1 .. Len(q) /\ Len(q) \in Nat
  BY LenProperties
<1>2. \A i \in 1 .. Len(q) : q[i].id \in 1 .. g
  BY <1>1 DEF Nums
<1>3. \A i, j \in 1 .. Len(q) : q[i].id = q[j].id => i = j
  BY <1>1, <1>2 DEF Rising
<1>4. f \in Injection(1 .. Len(q), 1 .. g)
  BY <1>2, <1>3 DEF Injection, IsInjective
<1>5. IsFiniteSet(1 .. g) /\ Cardinality(1 .. g) = g /\ Cardinality(1 .. Len(q)) = Len(q)
  <2>1. \A n \in Nat : IsFiniteSet(1 .. n) /\ Cardinality(1 .. n) = IF 1 > n THEN 0 ELSE n - 1 + 1
    BY FS_Interval
  <2> QED  BY <1>1, <2>1
<1>6. Cardinality(1 .. Len(q)) <= Cardinality(1 .. g)
  BY <1>4, <1>5, FS_Injection
<1> QED  BY <1>5, <1>6

-----------------------------------------------------------------------------
(* Indices. *)

LEMMA ModIs ==
  ASSUME NEW K \in Nat, K > 0, NEW x \in Int, -K <= x, x < 2 * K
  PROVE  x % K = IF x < 0 THEN x + K ELSE IF x < K THEN x ELSE x - K
<1>1. CASE x < 0
  BY <1>1
<1>2. CASE x >= 0 /\ x < K
  BY <1>2
<1>3. CASE x >= K
  BY <1>3
<1> QED  BY <1>1, <1>2, <1>3

LEMMA IndicesAre ==
  /\ Indices \in Nat /\ Indices > 0 /\ Indices > 2 * MaxGiven /\ MaxGiven \in Nat /\ 0 \in Index
  /\ \A p \in Index : p \in Nat /\ p < Indices
  /\ \A p \in Nat : p < Indices => p \in Index
BY TerminalAssumption DEF Index

LEMMA AfterIs ==
  ASSUME NEW p \in Index, NEW n \in Index
  PROVE  After(p, n) = IF p + n < Indices THEN p + n ELSE p + n - Indices
<1>1. /\ p \in Nat /\ n \in Nat /\ p < Indices /\ n < Indices /\ Indices \in Nat /\ Indices > 0
  BY IndicesAre
<1>2. (p + n) % Indices = IF p + n < Indices THEN p + n ELSE p + n - Indices
  BY <1>1, ModIs
<1> QED  BY <1>2 DEF After

LEMMA BeforeIs ==
  ASSUME NEW p \in Index, NEW n \in Index
  PROVE  Before(p, n) = IF n <= p THEN p - n ELSE p - n + Indices
<1>1. /\ p \in Nat /\ n \in Nat /\ p < Indices /\ n < Indices /\ Indices \in Nat /\ Indices > 0
  BY IndicesAre
<1>2. (p - n) % Indices = IF n <= p THEN p - n ELSE p - n + Indices
  BY <1>1, ModIs
<1> QED  BY <1>2 DEF Before

\* How far an index is ahead, from a position that moves.
LEMMA Moved ==
  ASSUME NEW p \in Index, NEW n \in Index, NEW a \in Index
  PROVE  /\ After(p, n) \in Index /\ Before(p, n) \in Index /\ Before(a, p) \in Index
         /\ n <= Before(a, p) => Before(a, After(p, n)) = Before(a, p) - n
         /\ n + Before(a, p) < Indices => Before(a, Before(p, n)) = Before(a, p) + n
         /\ Before(After(p, n), p) = n
         /\ Before(p, p) = 0
<1>1. /\ p \in Nat /\ n \in Nat /\ a \in Nat /\ p < Indices /\ n < Indices /\ a < Indices
      /\ Indices \in Nat
  BY IndicesAre
<1>2. /\ After(p, n) = IF p + n < Indices THEN p + n ELSE p + n - Indices
      /\ Before(p, n) = IF n <= p THEN p - n ELSE p - n + Indices
      /\ Before(a, p) = IF p <= a THEN a - p ELSE a - p + Indices
      /\ Before(p, p) = IF p <= p THEN p - p ELSE p - p + Indices
  BY AfterIs, BeforeIs
<1>3. After(p, n) \in Index /\ Before(p, n) \in Index /\ Before(a, p) \in Index
  BY <1>1, <1>2, IndicesAre
<1> DEFINE f == After(p, n)
           b == Before(p, n)
<1>4. /\ Before(a, f) = IF f <= a THEN a - f ELSE a - f + Indices
      /\ Before(a, b) = IF b <= a THEN a - b ELSE a - b + Indices
      /\ Before(f, p) = IF p <= f THEN f - p ELSE f - p + Indices
  BY <1>3, BeforeIs
<1>5. /\ f = IF p + n < Indices THEN p + n ELSE p + n - Indices
      /\ b = IF n <= p THEN p - n ELSE p - n + Indices
  BY <1>2
<1> HIDE DEF f, b
<1>6. n <= Before(a, p) => Before(a, f) = Before(a, p) - n
  BY <1>1, <1>2, <1>4, <1>5
<1>7. n + Before(a, p) < Indices => Before(a, b) = Before(a, p) + n
  BY <1>1, <1>2, <1>4, <1>5
<1>8. Before(f, p) = n
  BY <1>1, <1>4, <1>5
<1> QED  BY <1>1, <1>2, <1>3, <1>6, <1>7, <1>8 DEF f, b

-----------------------------------------------------------------------------
(* The queue. *)

\* A token with number n is at place d: behind the d bytes given before it.
At(q, d, n) ==
  /\ d \in 0 .. Len(q)
  /\ \A i \in DOMAIN q : (i <= d => q[i].id < n) /\ (i > d => q[i].id > n)
Place(T, k) == Before(T.ends[k].at, T.position)

Placed(T) ==
  /\ T \in Terminals /\ Rising(T.queue) /\ Rising(T.ends)
  /\ \A k \in DOMAIN T.ends : At(T.queue, Place(T, k), T.ends[k].id)
Items(T) == Nums(T.queue) \cup Nums(T.ends)

LEMMA SeqIs ==
  ASSUME NEW S, NEW s \in Seq(S)
  PROVE  Len(s) \in Nat /\ DOMAIN s = 1 .. Len(s) /\ \A i \in DOMAIN s : s[i] \in S
<1>1. Len(s) \in Nat /\ DOMAIN s = 1 .. Len(s) /\ s \in [1 .. Len(s) -> S]
  BY LenProperties
<1> QED  BY <1>1

LEMMA TerminalIs ==
  ASSUME NEW T \in Terminals
  PROVE  /\ T.queue \in Seq(Bytes) /\ T.position \in Index /\ T.ends \in Seq(Tokens)
         /\ DOMAIN T.queue = 1 .. Len(T.queue) /\ Len(T.queue) \in Nat
         /\ DOMAIN T.ends = 1 .. Len(T.ends) /\ Len(T.ends) \in Nat
         /\ \A i \in DOMAIN T.queue : T.queue[i] \in Bytes /\ T.queue[i].id \in Nat
         /\ \A k \in DOMAIN T.ends : /\ T.ends[k] \in Tokens /\ T.ends[k].at \in Index
                                     /\ T.ends[k].id \in Nat
         /\ Items(T) \subseteq Nat
<1>1. T.queue \in Seq(Bytes) /\ T.position \in Index /\ T.ends \in Seq(Tokens)
  BY DEF Terminals, Tokens
<1>2. /\ DOMAIN T.queue = 1 .. Len(T.queue) /\ Len(T.queue) \in Nat
      /\ \A i \in DOMAIN T.queue : T.queue[i] \in Bytes
  BY <1>1, SeqIs
<1>3. /\ DOMAIN T.ends = 1 .. Len(T.ends) /\ Len(T.ends) \in Nat
      /\ \A i \in DOMAIN T.ends : T.ends[i] \in Tokens
  BY <1>1, SeqIs
<1>4. \A i \in DOMAIN T.queue : T.queue[i].id \in Nat
  BY <1>2 DEF Bytes
<1>5. \A k \in DOMAIN T.ends : T.ends[k].at \in Index /\ T.ends[k].id \in Nat
  BY <1>3 DEF Tokens
<1> QED  BY <1>1, <1>2, <1>3, <1>4, <1>5 DEF Items, Nums

\* Parts of a queue make one.
Parts(U, q, p, e) == U.queue = q /\ U.position = p /\ U.ends = e
LEMMA TerminalMade ==
  ASSUME NEW q \in Seq(Bytes), NEW p \in Index, NEW e \in Seq(Tokens),
         NEW T \in Terminals, NEW U, U = [T EXCEPT !.queue = q, !.ends = e, !.position = p]
  PROVE  U \in Terminals /\ Parts(U, q, p, e)
BY DEF Terminals, Tokens, Parts

LEMMA EmptyPlaced ==
  ASSUME NEW T \in Terminals, T.queue = <<>>, T.ends = <<>>
  PROVE  Placed(T) /\ Items(T) = {}
<1>1. DOMAIN T.queue = {} /\ DOMAIN T.ends = {}
  OBVIOUS
<1> QED  BY <1>1 DEF Placed, Items, Nums, Rising

LEMMA FlushedPlaced ==
  ASSUME NEW T, Placed(T), Len(T.queue) \in Index, NEW U, U = Flushed(T)
  PROVE  Placed(U) /\ Items(U) = {} /\ U.queue = <<>> /\ U.ends = <<>>
<1>1. T \in Terminals /\ T.position \in Index
  BY TerminalIs DEF Placed
<1> DEFINE p == After(T.position, Len(T.queue))
<1>2. p \in Index
  BY <1>1, Moved
<1>3. U = [T EXCEPT !.queue = <<>>, !.ends = <<>>, !.position = p]
  BY DEF Flushed
<1> HIDE DEF p
<1>4. <<>> \in Seq(Bytes) /\ <<>> \in Seq(Tokens)
  BY EmptySeq
<1>5. U \in Terminals /\ U.queue = <<>> /\ U.ends = <<>>
  BY <1>1, <1>2, <1>3, <1>4 DEF Terminals, Tokens
<1> QED  BY <1>5, EmptyPlaced

\* What the host gives comes behind all.
LEMMA GivenPlaced ==
  ASSUME NEW T, Placed(T), given \in Nat, Items(T) \subseteq 1 .. given,
         NEW chunk \in Seq(BOOLEAN), NEW U, U = Given(T, chunk)
  PROVE  Placed(U) /\ Items(U) \subseteq Items(T) \cup (given + 1 .. given + Len(chunk))
<1> DEFINE more == [i \in DOMAIN chunk |-> [id |-> given + i, newline |-> chunk[i]]]
           q == T.queue \o more
<1>1. DOMAIN chunk = 1 .. Len(chunk) /\ Len(chunk) \in Nat /\ \A i \in DOMAIN chunk : chunk[i] \in BOOLEAN
  BY LenProperties, ElementOfSeq
<1>2. /\ T \in Terminals /\ T.queue \in Seq(Bytes) /\ T.position \in Index /\ T.ends \in Seq(Tokens)
      /\ DOMAIN T.queue = 1 .. Len(T.queue) /\ Len(T.queue) \in Nat
  BY TerminalIs DEF Placed
<1>3. /\ more \in Seq(Bytes) /\ DOMAIN more = 1 .. Len(chunk)
      /\ \A i \in DOMAIN more : more[i].id = given + i
  BY <1>1 DEF Bytes
<1> HIDE DEF more
<1>4. Rising(more)
  BY <1>1, <1>3 DEF Rising
<1>5. Nums(more) \subseteq given + 1 .. given + Len(chunk)
  BY <1>1, <1>3 DEF Nums
<1>6. Below(Nums(T.queue), Nums(more))
  BY <1>1, <1>5 DEF Below, Items
<1>7. q \in Seq(Bytes) /\ Rising(q) /\ Nums(q) = Nums(T.queue) \cup Nums(more)
      /\ Len(q) = Len(T.queue) + Len(more)
  <2>1. Rising(T.queue)
    BY DEF Placed
  <2> HIDE DEF q
  <2>2. q = T.queue \o more
    BY DEF q
  <2>3. T.queue \in Seq(Bytes) /\ more \in Seq(Bytes)
    BY <1>2, <1>3
  <2> QED  BY <1>4, <1>6, <2>1, <2>2, <2>3, ConcatRises
<1>8. DOMAIN q = 1 .. Len(q) /\ Len(more) \in Nat
      /\ \A i \in DOMAIN q : q[i] = IF i <= Len(T.queue) THEN T.queue[i] ELSE more[i - Len(T.queue)]
  BY <1>2, <1>3, <1>7, ConcatProperties, LenProperties
<1> HIDE DEF q
<1>9. U = [T EXCEPT !.queue = q]
  BY DEF Given, q, more
<1>10. U \in Terminals /\ U.queue = q /\ U.position = T.position /\ U.ends = T.ends
  BY <1>2, <1>7, <1>9 DEF Terminals, Tokens
<1>11. ASSUME NEW k \in DOMAIN U.ends PROVE At(q, Place(U, k), U.ends[k].id)
  <2> DEFINE d == Place(T, k)
             n == T.ends[k].id
  <2>1. At(T.queue, d, n)
    BY <1>10 DEF Placed
  <2>2. Place(U, k) = d /\ U.ends[k].id = n
    BY <1>10 DEF Place
  <2>3. n \in 1 .. given
    BY <1>10 DEF Items, Nums
  <2> HIDE DEF d, n
  <2>4. ASSUME NEW i \in DOMAIN q PROVE (i <= d => q[i].id < n) /\ (i > d => q[i].id > n)
    <3>1. CASE i <= Len(T.queue)
      <4>1. i \in DOMAIN T.queue /\ q[i] = T.queue[i]
        BY <1>2, <1>7, <1>8, <3>1
      <4> QED  BY <2>1, <4>1 DEF At
    <3>2. CASE i > Len(T.queue)
      <4>1. i - Len(T.queue) \in DOMAIN more /\ q[i] = more[i - Len(T.queue)]
        BY <1>2, <1>3, <1>7, <1>8, <3>2, LenProperties
      <4>2. q[i].id > given
        BY <1>1, <1>3, <4>1
      <4>3. d \in 0 .. Len(T.queue)
        BY <2>1 DEF At
      <4>4. i \in Nat
        BY <1>2, <1>7, <1>8
      <4>5. q[i].id \in Nat
        BY <1>1, <1>3, <4>1
      <4>6. i > d /\ ~(i <= d)
        BY <1>2, <3>2, <4>3, <4>4
      <4>7. q[i].id > n
        BY <2>3, <4>2, <4>5
      <4> QED  BY <4>6, <4>7
    <3> QED  BY <1>2, <1>8, <1>7, <3>1, <3>2
  <2> QED  BY <1>2, <1>7, <1>8, <2>1, <2>2, <2>4 DEF At
<1> QED  BY <1>5, <1>7, <1>10, <1>11 DEF Placed, Items

\* End of input: behind all that is queued.
TokenGiven(T) == [T EXCEPT !.ends = Append(@, [at |-> TailIndex(T), id |-> given + 1])]
LEMMA TokenPlaced ==
  ASSUME NEW T, Placed(T), given \in Nat, Items(T) \subseteq 1 .. given, Len(T.queue) \in Index,
         NEW U, U = TokenGiven(T)
  PROVE  Placed(U) /\ Items(U) \subseteq Items(T) \cup {given + 1}
<1> DEFINE token == [at |-> TailIndex(T), id |-> given + 1]
           ends == Append(T.ends, token)
<1>1. /\ T \in Terminals /\ T.queue \in Seq(Bytes) /\ T.position \in Index /\ T.ends \in Seq(Tokens)
      /\ DOMAIN T.queue = 1 .. Len(T.queue) /\ Len(T.queue) \in Nat
      /\ DOMAIN T.ends = 1 .. Len(T.ends) /\ Len(T.ends) \in Nat
  BY TerminalIs DEF Placed
<1>2. TailIndex(T) \in Index /\ Before(TailIndex(T), T.position) = Len(T.queue)
  BY <1>1, Moved DEF TailIndex
<1>3. token \in Tokens /\ token.at = TailIndex(T) /\ token.id = given + 1
  BY <1>2 DEF Tokens
<1> HIDE DEF token
<1>4. /\ ends \in Seq(Tokens) /\ Len(ends) = Len(T.ends) + 1 /\ ends[Len(T.ends) + 1] = token
      /\ \A k \in 1 .. Len(T.ends) : ends[k] = T.ends[k]
  BY <1>1, <1>3, AppendProperties
<1>5. DOMAIN ends = 1 .. Len(T.ends) + 1
  BY <1>4, LenProperties
<1> HIDE DEF ends
<1>6. U = [T EXCEPT !.ends = ends]
  BY DEF ends, token, TokenGiven
<1>7. U \in Terminals /\ U.queue = T.queue /\ U.position = T.position /\ U.ends = ends
  BY <1>1, <1>4, <1>6 DEF Terminals, Tokens
<1>8. \A k \in DOMAIN ends : \/ k \in DOMAIN T.ends /\ ends[k] = T.ends[k]
                             \/ k = Len(T.ends) + 1 /\ ends[k] = token
  BY <1>1, <1>4, <1>5
<1>9. Nums(ends) \subseteq Nums(T.ends) \cup {given + 1}
  BY <1>3, <1>8 DEF Nums
<1>10. Rising(ends)
  <2> SUFFICES ASSUME NEW i \in DOMAIN ends, NEW j \in DOMAIN ends, i < j
               PROVE  ends[i].id < ends[j].id
    BY DEF Rising
  <2>1. i \in DOMAIN T.ends /\ ends[i] = T.ends[i]
    BY <1>1, <1>4, <1>5
  <2>2. CASE j \in DOMAIN T.ends /\ ends[j] = T.ends[j]
    BY <2>1, <2>2 DEF Placed, Rising
  <2>3. CASE ends[j] = token
    <3>1. ends[i].id \in 1 .. given
      BY <2>1 DEF Items, Nums
    <3> QED  BY <1>3, <2>3, <3>1
  <2> QED  BY <1>8, <2>2, <2>3
<1>11. ASSUME NEW k \in DOMAIN U.ends PROVE At(U.queue, Place(U, k), U.ends[k].id)
  <2>1. CASE k \in DOMAIN T.ends /\ ends[k] = T.ends[k]
    BY <1>7, <2>1 DEF Placed, Place
  <2>2. CASE ends[k] = token
    <3>1. Place(U, k) = Len(T.queue) /\ U.ends[k].id = given + 1
      BY <1>2, <1>3, <1>7, <2>2 DEF Place
    <3>2. \A i \in DOMAIN T.queue : T.queue[i].id \in 1 .. given
      BY DEF Items, Nums
    <3>3. \A i \in DOMAIN T.queue : i <= Len(T.queue) /\ i \in Nat /\ T.queue[i].id < given + 1
      BY <1>1, <3>2
    <3>4. At(T.queue, Len(T.queue), given + 1)
      BY <1>1, <3>3 DEF At
    <3> QED  BY <1>7, <3>1, <3>4
  <2> QED  BY <1>7, <1>8, <2>1, <2>2
<1> QED  BY <1>7, <1>9, <1>10, <1>11 DEF Placed, Items

\* What comes before the first token comes before all.
LEMMA AvailableIs ==
  ASSUME NEW T, Placed(T)
  PROVE  /\ Available(T) \in 0 .. Len(T.queue)
         /\ \A k \in DOMAIN T.ends : Available(T) <= Place(T, k) /\ Place(T, k) <= Len(T.queue)
         /\ T.ends = <<>> => Available(T) = Len(T.queue)
<1>1. /\ T \in Terminals /\ Len(T.queue) \in Nat /\ DOMAIN T.queue = 1 .. Len(T.queue)
      /\ DOMAIN T.ends = 1 .. Len(T.ends) /\ Len(T.ends) \in Nat
      /\ \A k \in DOMAIN T.ends : T.ends[k].id \in Nat
      /\ \A i \in DOMAIN T.queue : T.queue[i].id \in Nat
  BY TerminalIs DEF Placed
<1>2. CASE T.ends = <<>>
  BY <1>1, <1>2 DEF Available
<1>3. CASE T.ends # <<>>
  <2>1. 1 \in DOMAIN T.ends
    <3>1. T.ends \in Seq(Tokens)
      BY <1>1, TerminalIs
    <3> QED  BY <1>1, <1>3, <3>1, EmptySeq
  <2> DEFINE d == Place(T, 1)
  <2>2. At(T.queue, d, T.ends[1].id) /\ d \in Nat /\ d <= Len(T.queue)
    BY <1>1, <2>1 DEF Placed, At
  <2>3. Available(T) = Min({Len(T.queue), d})
    BY <1>3 DEF Available, Place
  <2> HIDE DEF d
  <2>4. Available(T) = d
    BY <1>1, <2>2, <2>3, MinOfTwo
  <2>5. ASSUME NEW k \in DOMAIN T.ends PROVE d <= Place(T, k) /\ Place(T, k) <= Len(T.queue)
    <3> DEFINE e == Place(T, k)
    <3>1. At(T.queue, e, T.ends[k].id) /\ e \in 0 .. Len(T.queue)
      BY DEF Placed, At
    <3>2. T.ends[1].id <= T.ends[k].id
      <4>1. T.ends[1].id \in Nat /\ T.ends[k].id \in Nat /\ (k = 1 \/ 1 < k)
        BY <1>1, <2>1
      <4>2. 1 < k => T.ends[1].id < T.ends[k].id
        BY <2>1 DEF Placed, Rising
      <4> QED  BY <4>1, <4>2
    <3> HIDE DEF e
    <3>3. CASE e < d
      <4>1. d \in DOMAIN T.queue /\ d <= d /\ d > e
        BY <1>1, <2>2, <3>1, <3>3
      <4>2. T.queue[d].id < T.ends[1].id /\ T.queue[d].id > T.ends[k].id
        BY <2>2, <3>1, <4>1 DEF At
      <4>3. T.ends[1].id \in Nat /\ T.ends[k].id \in Nat /\ T.queue[d].id \in Nat
        BY <1>1, <2>1, <4>1
      <4> QED  BY <3>2, <4>2, <4>3
    <3> QED  BY <1>1, <2>2, <3>1, <3>3 DEF e
  <2> QED  BY <1>3, <2>2, <2>4, <2>5
<1> QED  BY <1>2, <1>3

\* The first n bytes go.
LEMMA WithoutPlaced ==
  ASSUME NEW T, Placed(T), Len(T.queue) \in Index, NEW n \in 0 .. Available(T),
         NEW U, U = Without(T, n)
  PROVE  /\ Placed(U) /\ Items(U) \subseteq Items(T) /\ U.ends = T.ends
         /\ \A i \in 1 .. n : Below({T.queue[i].id}, Items(U))
<1> DEFINE q == SubSeq(T.queue, n + 1, Len(T.queue))
           p == After(T.position, n)
<1>1. /\ T \in Terminals /\ T.queue \in Seq(Bytes) /\ Len(T.queue) \in Nat /\ T.position \in Index
      /\ DOMAIN T.queue = 1 .. Len(T.queue) /\ Rising(T.queue) /\ Rising(T.ends)
  BY TerminalIs DEF Placed
<1>2. n \in Nat /\ n <= Len(T.queue) /\ n \in Index
      /\ \A k \in DOMAIN T.ends : n <= Place(T, k) /\ Place(T, k) <= Len(T.queue)
  <2>1. n \in Nat /\ n <= Len(T.queue)
    BY <1>1, AvailableIs
  <2>2. ASSUME NEW k \in DOMAIN T.ends PROVE n <= Place(T, k) /\ Place(T, k) <= Len(T.queue)
    <3>1. At(T.queue, Place(T, k), T.ends[k].id)
      BY DEF Placed
    <3>2. Place(T, k) \in Nat
      BY <1>1, <3>1 DEF At
    <3> QED  BY <1>1, <2>1, <3>2, AvailableIs
  <2>3. n \in Index
    BY <1>1, <2>1, IndicesAre
  <2> QED  BY <2>1, <2>2, <2>3
<1>3. /\ q \in Seq(Bytes) /\ Rising(q) /\ Nums(q) \subseteq Nums(T.queue)
      /\ Len(q) = Len(T.queue) - n
      /\ \A i \in 1 .. Len(T.queue) - n : q[i] = T.queue[n + i]
      /\ \A x \in Nums(q) : \E i \in n + 1 .. Len(T.queue) : x = T.queue[i].id
  <2>1. n + 1 \in Nat /\ n + 1 >= 1 /\ Len(T.queue) <= Len(T.queue)
    BY <1>1, <1>2
  <2> DEFINE m == n + 1
             l == Len(T.queue)
  <2>2. /\ q \in Seq(Bytes) /\ Rising(q) /\ Nums(q) \subseteq Nums(T.queue)
        /\ Len(q) = IF m <= l THEN l - m + 1 ELSE 0
        /\ \A i \in 1 .. l - m + 1 : q[i] = T.queue[m + i - 1]
        /\ \A x \in Nums(q) : \E i \in m .. l : x = T.queue[i].id
    <3>1. m \in Nat /\ m >= 1 /\ l \in Nat /\ l <= Len(T.queue) /\ q = SubSeq(T.queue, m, l)
      BY <1>1, <2>1
    <3> HIDE DEF m, l
    <3>2. q \in Seq(Bytes) /\ PartOf(q, T.queue, m, l)
      BY <1>1, <3>1, PartRises
    <3> HIDE DEF q
    <3> QED  BY <3>2 DEF PartOf
  <2> HIDE DEF q
  <2>4. ASSUME NEW i \in 1 .. l - n PROVE q[i] = T.queue[n + i]
    <3>1. i \in 1 .. l - m + 1 /\ m + i - 1 = n + i
      BY <1>1, <1>2
    <3> HIDE DEF m
    <3> QED  BY <2>2, <3>1
  <2> QED  BY <1>1, <1>2, <2>2, <2>4
<1>4. DOMAIN q = 1 .. Len(T.queue) - n
  BY <1>3, LenProperties
<1> HIDE DEF q
<1>5. p \in Index /\ \A k \in DOMAIN T.ends : Before(T.ends[k].at, p) = Place(T, k) - n
  <2>1. \A k \in DOMAIN T.ends : T.ends[k].at \in Index
    BY <1>1, TerminalIs
  <2> QED  BY <1>1, <1>2, <2>1, Moved DEF Place
<1> HIDE DEF p
<1>6. U = [T EXCEPT !.queue = q, !.position = p]
  BY DEF Without, q, p
<1>7. U \in Terminals /\ U.queue = q /\ U.position = p /\ U.ends = T.ends
  BY <1>1, <1>3, <1>5, <1>6 DEF Terminals, Tokens
<1>8. ASSUME NEW k \in DOMAIN U.ends PROVE At(q, Place(U, k), U.ends[k].id)
  <2> DEFINE d == Place(T, k)
  <2>1. At(T.queue, d, T.ends[k].id) /\ d \in Nat /\ n <= d /\ d <= Len(T.queue)
    BY <1>1, <1>2, <1>7 DEF Placed, At
  <2>2. Place(U, k) = d - n /\ U.ends[k] = T.ends[k]
    BY <1>5, <1>7 DEF Place
  <2> HIDE DEF d
  <2>3. ASSUME NEW i \in DOMAIN q
        PROVE  (i <= d - n => q[i].id < T.ends[k].id) /\ (i > d - n => q[i].id > T.ends[k].id)
    <3>1. q[i] = T.queue[n + i] /\ n + i \in DOMAIN T.queue
      BY <1>1, <1>2, <1>3, <1>4
    <3>2. (i <= d - n => n + i <= d) /\ (i > d - n => n + i > d)
      BY <1>2, <1>4, <2>1
    <3> QED  BY <2>1, <3>1, <3>2 DEF At
  <2> QED  BY <1>1, <1>2, <1>3, <2>1, <2>2, <2>3 DEF At
<1>9. Placed(U) /\ Items(U) \subseteq Items(T)
  BY <1>1, <1>3, <1>7, <1>8 DEF Placed, Items
<1>10. ASSUME NEW i \in 1 .. n PROVE Below({T.queue[i].id}, Items(U))
  <2>1. i \in DOMAIN T.queue /\ i \in Nat
    BY <1>1, <1>2
  <2>2. ASSUME NEW x \in Nums(q) PROVE T.queue[i].id < x
    <3>1. PICK j \in n + 1 .. Len(T.queue) : x = T.queue[j].id
      BY <1>3
    <3>2. j \in DOMAIN T.queue /\ i < j
      BY <1>1, <1>2
    <3> QED  BY <1>1, <2>1, <3>1, <3>2 DEF Rising
  <2>3. ASSUME NEW k \in DOMAIN T.ends PROVE T.queue[i].id < T.ends[k].id
    <3>1. At(T.queue, Place(T, k), T.ends[k].id) /\ Place(T, k) \in Nat
      BY <1>1 DEF Placed, At
    <3>2. i <= Place(T, k)
      BY <1>2, <2>1, <3>1
    <3> QED  BY <2>1, <3>1, <3>2 DEF At
  <2> QED  BY <1>7, <2>2, <2>3 DEF Below, Items, Nums
<1> QED  BY <1>7, <1>9, <1>10

\* What comes back comes in front of all.
LEMMA PrependPlaced ==
  ASSUME NEW T, Placed(T), NEW bytes \in Seq(Bytes), Rising(bytes),
         Below(Nums(bytes), Items(T)), Len(bytes) + Len(T.queue) < Indices,
         NEW U, U = Prepend(T, bytes)
  PROVE  Placed(U) /\ Items(U) = Items(T) \cup Nums(bytes) /\ U.ends = T.ends
         /\ U.queue = bytes \o T.queue
<1> DEFINE q == bytes \o T.queue
           n == Len(bytes)
           p == Before(T.position, n)
<1>1. /\ T \in Terminals /\ T.queue \in Seq(Bytes) /\ Len(T.queue) \in Nat /\ T.position \in Index
      /\ DOMAIN T.queue = 1 .. Len(T.queue) /\ Rising(T.queue) /\ Rising(T.ends)
  BY TerminalIs DEF Placed
<1>2. n \in Nat /\ DOMAIN bytes = 1 .. n /\ n \in Index
  <2>1. n \in Nat /\ DOMAIN bytes = 1 .. n
    BY LenProperties
  <2> QED  BY <1>1, <2>1, IndicesAre
<1>3. Below(Nums(bytes), Nums(T.queue))
  BY DEF Below, Items
<1>4. /\ q \in Seq(Bytes) /\ Rising(q) /\ Nums(q) = Nums(bytes) \cup Nums(T.queue)
      /\ Len(q) = n + Len(T.queue)
  BY <1>1, <1>3, ConcatRises
<1>5. /\ DOMAIN q = 1 .. n + Len(T.queue)
      /\ \A i \in 1 .. n + Len(T.queue) : q[i] = IF i <= n THEN bytes[i] ELSE T.queue[i - n]
  BY <1>1, <1>4, ConcatProperties, LenProperties
<1> HIDE DEF q
<1>6. p \in Index /\ \A k \in DOMAIN T.ends :
                       n + Place(T, k) < Indices => Before(T.ends[k].at, p) = Place(T, k) + n
  <2>1. \A k \in DOMAIN T.ends : T.ends[k].at \in Index
    BY <1>1, TerminalIs
  <2>2. T.position \in Index /\ n \in Index /\ n \in Nat
    BY <1>1, <1>2
  <2> HIDE DEF n
  <2>3. ASSUME NEW k \in DOMAIN T.ends
        PROVE  n + Place(T, k) < Indices => Before(T.ends[k].at, p) = Place(T, k) + n
    <3> DEFINE a == T.ends[k].at
               b == T.position
    <3>1. a \in Index /\ b \in Index
      BY <2>1, <2>2
    <3> HIDE DEF a, b
    <3>2. n + Before(a, b) < Indices => Before(a, Before(b, n)) = Before(a, b) + n
      BY <2>2, <3>1, Moved
    <3> QED  BY <3>2 DEF Place, a, b
  <2> QED  BY <2>2, <2>3, Moved
<1>7. U = [T EXCEPT !.queue = q, !.position = p]
  BY DEF Prepend, q
<1> HIDE DEF n, p
<1>8. U \in Terminals /\ U.queue = q /\ U.position = p /\ U.ends = T.ends
  BY <1>1, <1>4, <1>6, <1>7 DEF Terminals, Tokens
<1>9. ASSUME NEW k \in DOMAIN U.ends PROVE At(q, Place(U, k), U.ends[k].id)
  <2> DEFINE d == Place(T, k)
  <2>1. At(T.queue, d, T.ends[k].id) /\ d \in Nat /\ d <= Len(T.queue)
    BY <1>1, <1>8 DEF Placed, At
  <2>2. n + d < Indices
    BY <1>1, <1>2, <2>1, IndicesAre DEF n
  <2>3. Place(U, k) = d + n /\ U.ends[k] = T.ends[k]
    BY <1>6, <1>8, <2>2 DEF Place
  <2>4. T.ends[k].id \in Items(T)
    BY <1>8 DEF Items, Nums
  <2> HIDE DEF d
  <2>5. ASSUME NEW i \in DOMAIN q
        PROVE  (i <= d + n => q[i].id < T.ends[k].id) /\ (i > d + n => q[i].id > T.ends[k].id)
    <3>1. CASE i <= n
      <4>1. q[i] = bytes[i] /\ bytes[i].id \in Nums(bytes) /\ ~(i > d + n)
        BY <1>1, <1>2, <1>5, <2>1, <3>1 DEF Nums
      <4> QED  BY <2>4, <4>1 DEF Below
    <3>2. CASE i > n
      <4>1. q[i] = T.queue[i - n] /\ i - n \in DOMAIN T.queue
        BY <1>1, <1>2, <1>5, <3>2
      <4>2. (i <= d + n => i - n <= d) /\ (i > d + n => i - n > d)
        BY <1>1, <1>2, <1>5, <2>1
      <4> QED  BY <2>1, <4>1, <4>2 DEF At
    <3> QED  BY <1>1, <1>2, <1>5, <3>1, <3>2
  <2> QED  BY <1>1, <1>2, <1>4, <2>1, <2>3, <2>5 DEF At
<1> QED  BY <1>1, <1>4, <1>8, <1>9 DEF Placed, Items, q

\* Tokens come back in front of the others.
LEMMA TokensPlaced ==
  ASSUME NEW T, Placed(T), NEW new \in Seq(Tokens), Rising(new), Below(Nums(new), Nums(T.ends)),
         \A i \in DOMAIN new : At(T.queue, Before(new[i].at, T.position), new[i].id),
         NEW U, U = [T EXCEPT !.ends = new \o @]
  PROVE  Placed(U) /\ Items(U) = Items(T) \cup Nums(new)
<1> DEFINE ends == new \o T.ends
<1>1. /\ T \in Terminals /\ T.queue \in Seq(Bytes) /\ T.ends \in Seq(Tokens)
      /\ DOMAIN T.ends = 1 .. Len(T.ends) /\ Len(T.ends) \in Nat
      /\ Rising(T.queue) /\ Rising(T.ends) /\ T.position \in Index
  BY TerminalIs DEF Placed
<1>2. Len(new) \in Nat /\ DOMAIN new = 1 .. Len(new)
  BY LenProperties
<1>3. /\ ends \in Seq(Tokens) /\ Rising(ends) /\ Nums(ends) = Nums(new) \cup Nums(T.ends)
      /\ Len(ends) = Len(new) + Len(T.ends)
  BY <1>1, ConcatRises
<1>4. /\ DOMAIN ends = 1 .. Len(new) + Len(T.ends)
      /\ \A i \in 1 .. Len(new) + Len(T.ends) :
           ends[i] = IF i <= Len(new) THEN new[i] ELSE T.ends[i - Len(new)]
  BY <1>1, <1>3, ConcatProperties, LenProperties
<1> HIDE DEF ends
<1>5. U = [T EXCEPT !.ends = ends]
  BY DEF ends
<1>6. U \in Terminals /\ U.queue = T.queue /\ U.position = T.position /\ U.ends = ends
  BY <1>1, <1>3, <1>5 DEF Terminals, Tokens
<1>7. ASSUME NEW k \in DOMAIN ends PROVE At(U.queue, Place(U, k), U.ends[k].id)
  <2>1. \/ k \in DOMAIN new /\ ends[k] = new[k]
        \/ k - Len(new) \in DOMAIN T.ends /\ ends[k] = T.ends[k - Len(new)]
    BY <1>1, <1>2, <1>4
  <2>2. CASE k \in DOMAIN new /\ ends[k] = new[k]
    BY <1>6, <2>2 DEF Place
  <2>3. CASE k - Len(new) \in DOMAIN T.ends /\ ends[k] = T.ends[k - Len(new)]
    <3> DEFINE j == k - Len(new)
    <3>1. At(T.queue, Place(T, j), T.ends[j].id)
      BY <2>3 DEF Placed
    <3> QED  BY <1>6, <2>3, <3>1 DEF Place
  <2> QED  BY <2>1, <2>2, <2>3
<1> QED  BY <1>1, <1>3, <1>6, <1>7 DEF Placed, Items

\* The program reads the end of input.
LEMMA TokenTaken ==
  ASSUME NEW T, Placed(T), T.ends # <<>>, T.ends[1].at = T.position,
         NEW U, U = [T EXCEPT !.ends = Tail(@)]
  PROVE  /\ Placed(U) /\ Items(U) \subseteq Items(T)
         /\ T.ends[1].id \in Items(T) /\ Below({T.ends[1].id}, Items(U))
<1> DEFINE ends == Tail(T.ends)
<1>1. /\ T \in Terminals /\ T.queue \in Seq(Bytes) /\ T.ends \in Seq(Tokens)
      /\ DOMAIN T.ends = 1 .. Len(T.ends) /\ Len(T.ends) \in Nat
      /\ DOMAIN T.queue = 1 .. Len(T.queue) /\ Len(T.queue) \in Nat
      /\ Rising(T.queue) /\ Rising(T.ends) /\ T.position \in Index
  BY TerminalIs DEF Placed
<1>2. 1 \in DOMAIN T.ends
  BY <1>1, EmptySeq
<1>3. /\ ends \in Seq(Tokens) /\ Len(ends) = Len(T.ends) - 1
      /\ \A i \in 1 .. Len(ends) : ends[i] = T.ends[i + 1]
  BY <1>1, HeadTailProperties
<1>4. DOMAIN ends = 1 .. Len(T.ends) - 1
  BY <1>3, LenProperties
<1> HIDE DEF ends
<1>5. \A i \in DOMAIN ends : i + 1 \in DOMAIN T.ends /\ ends[i] = T.ends[i + 1] /\ 1 < i + 1
  BY <1>1, <1>3, <1>4
<1>6. U = [T EXCEPT !.ends = ends]
  BY DEF ends
<1>7. U \in Terminals /\ U.queue = T.queue /\ U.position = T.position /\ U.ends = ends
  BY <1>1, <1>3, <1>6 DEF Terminals, Tokens
<1>8. \A i, j \in DOMAIN ends : i < j => i + 1 < j + 1
  BY <1>1, <1>4
<1>9. Rising(ends) /\ Nums(ends) \subseteq Nums(T.ends)
  BY <1>1, <1>5, <1>8 DEF Rising, Nums
<1>10. \A k \in DOMAIN ends : At(U.queue, Place(U, k), U.ends[k].id)
  BY <1>5, <1>7 DEF Placed, Place
<1>11. \A i \in DOMAIN ends : T.ends[1].id < ends[i].id
  BY <1>1, <1>2, <1>5 DEF Rising
<1>12. At(T.queue, 0, T.ends[1].id)
  <2>1. Place(T, 1) = 0
    BY <1>1, Moved DEF Place
  <2> QED  BY <1>2, <2>1 DEF Placed
<1>13. \A i \in DOMAIN T.queue : T.ends[1].id < T.queue[i].id
  <2>1. \A i \in DOMAIN T.queue : i > 0
    BY <1>1
  <2>2. \A i \in DOMAIN T.queue : T.queue[i].id > T.ends[1].id
    BY <1>12, <2>1 DEF At
  <2>3. \A i \in DOMAIN T.queue : T.queue[i].id \in Nat /\ T.ends[1].id \in Nat
    BY <1>1, <1>2, TerminalIs
  <2> QED  BY <2>2, <2>3
<1> QED  BY <1>1, <1>2, <1>7, <1>9, <1>10, <1>11, <1>13 DEF Placed, Items, Below, Nums

-----------------------------------------------------------------------------
(* What the log holds. *)

ReadRecords ==
  {r \in [kind : {"read"}, waited : BOOLEAN, putback : Seq(Bytes), drop : Nat, end : Seq(Nat)] :
     Rising(r.putback) /\ Len(r.end) <= 1 /\ (r.end # <<>> => r.putback = <<>>)}
FlushRecords ==
  {r \in [kind : {"flush"}, bytes : Seq(Bytes), tokens : Seq(Tokens)] :
     /\ Rising(r.bytes) /\ Rising(r.tokens)
     /\ \A i \in DOMAIN r.tokens : At(r.bytes, r.tokens[i].at, r.tokens[i].id)}
ModeRecords == [kind : {"mode"}, termios : Modes]
Records == ReadRecords \cup FlushRecords \cup ModeRecords

\* The numbers of the bytes and tokens that undo puts back.
Values(seq) == {seq[i] : i \in DOMAIN seq}
Holds(r) ==
  CASE r.kind = "read" -> Nums(r.putback) \cup Values(r.end)
    [] r.kind = "flush" -> Nums(r.bytes) \cup Nums(r.tokens)
    [] OTHER -> {}

\* One record of the terminal, or a flush and the settings.
Journals ==
  {rs \in Seq(Records) : Len(rs) <= 2 /\ (Len(rs) = 2 => rs[2].kind = "mode")}
HoldsAll(rs) == IF rs = <<>> THEN {} ELSE Holds(rs[1])

LEMMA RecordIs ==
  ASSUME NEW r \in Records
  PROVE  /\ r.kind \in {"read", "flush", "mode"}
         /\ r.kind = "read" => r \in ReadRecords
         /\ r.kind = "flush" => r \in FlushRecords
         /\ r.kind = "mode" => r \in ModeRecords
BY DEF Records, ReadRecords, FlushRecords, ModeRecords

\* FoldRight() over a journal: the newest record first.
LEMMA JournalUndone ==
  ASSUME NEW T, NEW rs, NEW n \in Nat, n <= 2, DOMAIN rs = 1 .. n
  PROVE  FoldRight(UndoRecord, rs, T) =
           IF n = 0 THEN T
           ELSE IF n = 1 THEN UndoRecord(rs[1], T)
           ELSE UndoRecord(rs[1], UndoRecord(rs[2], T))
<1> DEFINE D == DOMAIN rs
           It == CHOOSE f : f = [s \in SUBSET D |->
                   IF s = {} THEN T ELSE UndoRecord(rs[Min(s)], f[s \ {Min(s)}])]
           two == UndoRecord(rs[2], T)
           w == [s \in SUBSET D |->
                   CASE s = {} -> T [] s = {1} -> UndoRecord(rs[1], T) [] s = {2} -> two
                     [] OTHER -> UndoRecord(rs[1], two)]
<1>1. FoldRight(UndoRecord, rs, T) = It[D]
  BY Zenon DEF FoldRight, MapThenFoldSet
<1>2. (D = {} /\ n = 0) \/ (D = {1} /\ n = 1) \/ (D = {1, 2} /\ n = 2)
  <2>1. 1 .. 0 = {} /\ 1 .. 1 = {1} /\ 1 .. 2 = {1, 2}
    OBVIOUS
  <2>2. n = 0 \/ n = 1 \/ n = 2
    OBVIOUS
  <2>3. D = 1 .. n
    OBVIOUS
  <2> HIDE DEF D
  <2>4. CASE n = 0
    BY <2>1, <2>3, <2>4
  <2>5. CASE n = 1
    BY <2>1, <2>3, <2>5
  <2>6. CASE n = 2
    BY <2>1, <2>3, <2>6
  <2> QED  BY <2>2, <2>4, <2>5, <2>6
<1>3. Min({1}) = 1 /\ Min({2}) = 2 /\ Min({1, 2}) = 1
  BY MinIs
<1> HIDE DEF D
<1>4. \A s \in SUBSET D : s = {} \/ s = {1} \/ s = {2} \/ s = {1, 2}
  BY <1>2
<1>5. w = [s \in SUBSET D |-> IF s = {} THEN T ELSE UndoRecord(rs[Min(s)], w[s \ {Min(s)}])]
  <2>1. ASSUME NEW s \in SUBSET D
        PROVE  w[s] = IF s = {} THEN T ELSE UndoRecord(rs[Min(s)], w[s \ {Min(s)}])
    <3>1. CASE s = {}
      BY <3>1
    <3>2. CASE s = {1}
      <4>1. s \ {1} = {} /\ {} \in SUBSET D
        BY <3>2
      <4> QED  BY <1>3, <3>2, <4>1
    <3>3. CASE s = {2}
      <4>1. s \ {2} = {} /\ {} \in SUBSET D /\ {2} # {1}
        BY <3>3
      <4> QED  BY <1>3, <3>3, <4>1
    <3>4. CASE s = {1, 2}
      <4>1. s \ {1} = {2} /\ {2} \in SUBSET D /\ {2} # {1} /\ {2} # {} /\ s # {} /\ s # {1} /\ s # {2}
        BY <3>4
      <4>2. w[s] = UndoRecord(rs[1], two) /\ w[{2}] = two
        BY <4>1
      <4> QED  BY <1>3, <3>4, <4>1, <4>2
    <3> QED  BY <1>4, <3>1, <3>2, <3>3, <3>4
  <2>2. DOMAIN w = SUBSET D /\ w = [s \in SUBSET D |-> w[s]]
    OBVIOUS
  <2> HIDE DEF w
  <2> QED  BY <2>1, <2>2
<1>6. \E f : f = [s \in SUBSET D |->
                    IF s = {} THEN T ELSE UndoRecord(rs[Min(s)], f[s \ {Min(s)}])]
  <2> HIDE DEF w
  <2> QED  BY <1>5
<1>7. It = [s \in SUBSET D |-> IF s = {} THEN T ELSE UndoRecord(rs[Min(s)], It[s \ {Min(s)}])]
  BY <1>6, Zenon
<1> HIDE DEF It
<1>8. It[{}] = T
  BY <1>7
<1>9. CASE n = 0
  <2>1. D = {}
    BY <1>2, <1>9
  <2> QED  BY <1>1, <1>8, <1>9, <2>1
<1>10. CASE n = 1
  <2>1. D = {1} /\ D \ {1} = {} /\ D \in SUBSET D
    BY <1>2, <1>10
  <2>2. It[D] = UndoRecord(rs[1], It[{}])
    BY <1>3, <1>7, <2>1
  <2> QED  BY <1>1, <1>8, <1>10, <2>2
<1>11. CASE n = 2
  <2>1. D = {1, 2} /\ D \ {1} = {2} /\ {2} \ {2} = {} /\ {2} \in SUBSET D /\ {2} # {}
    BY <1>2, <1>11
  <2>2. It[{2}] = UndoRecord(rs[2], It[{}])
    BY <1>3, <1>7, <2>1
  <2>3. It[D] = UndoRecord(rs[1], It[{2}])
    BY <1>3, <1>7, <2>1
  <2> QED  BY <1>1, <1>8, <1>11, <2>2, <2>3
<1> QED  BY <1>2, <1>9, <1>10, <1>11

-----------------------------------------------------------------------------
(* Undo puts back in order. *)

\* All that is put back has its place in the order, and there is room for it.
Fits(T, nums, g) ==
  /\ Placed(T) /\ Items(T) \subseteq 1 .. g /\ nums \subseteq 1 .. g /\ Below(nums, Items(T))
  /\ g \in 0 .. MaxGiven

LEMMA RoomEnough ==
  ASSUME NEW T, NEW g, Placed(T), Items(T) \subseteq 1 .. g, g \in 0 .. MaxGiven,
         NEW bytes \in Seq(Bytes), Rising(bytes), Nums(bytes) \subseteq 1 .. g,
         Below(Nums(bytes), Items(T))
  PROVE  /\ Len(bytes) + Len(T.queue) < Indices /\ Len(T.queue) \in Index /\ Len(bytes) \in Index
<1>1. /\ T.queue \in Seq(Bytes) /\ Len(T.queue) \in Nat /\ Rising(T.queue) /\ Len(bytes) \in Nat
  BY TerminalIs, LenProperties DEF Placed
<1>2. Below(Nums(bytes), Nums(T.queue)) /\ Nums(T.queue) \subseteq 1 .. g
  BY DEF Below, Items
<1>3. /\ bytes \o T.queue \in Seq(Bytes) /\ Rising(bytes \o T.queue)
      /\ Nums(bytes \o T.queue) = Nums(bytes) \cup Nums(T.queue)
      /\ Len(bytes \o T.queue) = Len(bytes) + Len(T.queue)
  BY <1>1, <1>2, ConcatRises
<1> DEFINE q == bytes \o T.queue
<1> HIDE DEF q
<1>4. Nums(q) \subseteq 1 .. g /\ q \in Seq(Bytes) /\ Rising(q) /\ g \in Nat
  BY <1>2, <1>3, IndicesAre DEF q
<1>5. Len(q) <= g
  BY <1>4, Short
<1> QED  BY <1>1, <1>3, <1>5, IndicesAre DEF q

LEMMA ReadUndone ==
  ASSUME NEW T, NEW g, NEW r \in ReadRecords, Fits(T, Holds(r), g), NEW U, U = UndoRead(T, r)
  PROVE  Placed(U) /\ Items(U) \subseteq Items(T) \cup Holds(r)
<1> DEFINE n == Min({r.drop, Available(T)})
           W == Without(T, n)
           back == Prepend(W, r.putback)
<1>1. /\ r.kind = "read" /\ r.putback \in Seq(Bytes) /\ Rising(r.putback) /\ r.drop \in Nat
      /\ r.end \in Seq(Nat) /\ Len(r.end) <= 1 /\ (r.end # <<>> => r.putback = <<>>)
      /\ Holds(r) = Nums(r.putback) \cup {r.end[i] : i \in DOMAIN r.end}
  BY DEF ReadRecords, Holds, Values
<1>2. Placed(T) /\ Items(T) \subseteq 1 .. g /\ Below(Holds(r), Items(T)) /\ g \in 0 .. MaxGiven
      /\ Nums(r.putback) \subseteq 1 .. g
  BY <1>1 DEF Fits
<1>3. Len(T.queue) \in Index /\ Len(T.queue) \in Nat
  <2>1. <<>> \in Seq(Bytes) /\ Nums(<<>>) \subseteq 1 .. g /\ Below(Nums(<<>>), Items(T)) /\ Rising(<<>>)
    BY EmptySeq, EmptyRises DEF Below
  <2> QED  BY <1>2, <2>1, RoomEnough, IndicesAre
<1>4. n \in 0 .. Available(T)
  <2>1. Available(T) \in Nat
    BY <1>2, <1>3, AvailableIs
  <2> QED  BY <1>1, <2>1, MinOfTwo
<1> HIDE DEF n
<1>5. Placed(W) /\ Items(W) \subseteq Items(T)
  BY <1>2, <1>3, <1>4, WithoutPlaced
<1> HIDE DEF W
<1>6. Below(Nums(r.putback), Items(W)) /\ Items(W) \subseteq 1 .. g
  BY <1>1, <1>2, <1>5 DEF Below
<1>7. Len(r.putback) + Len(W.queue) < Indices
  BY <1>1, <1>2, <1>5, <1>6, RoomEnough
<1>8. Placed(back) /\ Items(back) = Items(W) \cup Nums(r.putback)
  <2> DEFINE bytes == r.putback
  <2>1. bytes \in Seq(Bytes) /\ Rising(bytes)
    BY <1>1
  <2>2. Below(Nums(bytes), Items(W)) /\ Len(bytes) + Len(W.queue) < Indices
    BY <1>6, <1>7
  <2>3. back = Prepend(W, bytes)
    OBVIOUS
  <2> HIDE DEF back, bytes
  <2>4. Placed(back) /\ Items(back) = Items(W) \cup Nums(bytes)
    BY <1>5, <2>1, <2>2, <2>3, PrependPlaced
  <2> QED  BY <2>4 DEF bytes
<1> HIDE DEF back
<1>9. CASE r.end # <<>> /\ ~r.waited
  <2> DEFINE token == [at |-> back.position, id |-> r.end[1]]
             new == <<token>>
  <2>1. U = [back EXCEPT !.ends = new \o @]
    BY <1>9 DEF UndoRead, back, W, n
  <2>2. 1 \in DOMAIN r.end /\ r.end[1] \in Nat /\ r.end[1] \in Holds(r)
    <3>1. Len(r.end) \in Nat /\ DOMAIN r.end = 1 .. Len(r.end) /\ \A i \in DOMAIN r.end : r.end[i] \in Nat
      BY <1>1, SeqIs
    <3>2. Len(r.end) # 0
      BY <1>1, <1>9, EmptySeq
    <3> QED  BY <1>1, <3>1, <3>2
  <2>3. back.position \in Index /\ back \in Terminals
    BY <1>8, TerminalIs DEF Placed
  <2>4. token \in Tokens /\ token.id = r.end[1] /\ token.at = back.position
    BY <2>2, <2>3 DEF Tokens
  <2> HIDE DEF token
  <2>5. /\ new \in Seq(Tokens) /\ DOMAIN new = {1} /\ new[1] = token
    BY <2>4
  <2> HIDE DEF new
  <2>6. Rising(new) /\ Nums(new) = {r.end[1]}
    BY <2>4, <2>5 DEF Rising, Nums
  <2>7. Items(back) \subseteq Items(T)
    BY <1>1, <1>5, <1>8, <1>9, EmptyRises
  <2>8. Below(Nums(new), Nums(back.ends)) /\ \A x \in Items(back) : r.end[1] < x
    BY <1>2, <2>2, <2>6, <2>7 DEF Below, Items
  <2>9. At(back.queue, 0, r.end[1])
    <3>1. \A i \in DOMAIN back.queue : i > 0 /\ back.queue[i].id \in Items(back) /\ back.queue[i].id \in Nat
      BY <2>3, TerminalIs DEF Items, Nums
    <3>2. Len(back.queue) \in Nat
      BY <2>3, TerminalIs
    <3>3. \A i \in DOMAIN back.queue : i \in Nat
      BY <2>3, TerminalIs
    <3> QED  BY <2>2, <2>8, <3>1, <3>2, <3>3 DEF At
  <2>10. Before(token.at, back.position) = 0
    BY <2>3, <2>4, Moved
  <2>11. \A i \in DOMAIN new : At(back.queue, Before(new[i].at, back.position), new[i].id)
    BY <2>4, <2>5, <2>9, <2>10
  <2>12. Placed(U) /\ Items(U) = Items(back) \cup Nums(new)
    BY <1>8, <2>1, <2>5, <2>6, <2>8, <2>11, TokensPlaced
  <2> QED  BY <2>2, <2>6, <2>7, <2>12
<1>10. CASE ~(r.end # <<>> /\ ~r.waited)
  <2>1. U = back
    BY <1>10 DEF UndoRead, back, W, n
  <2> QED  BY <1>1, <1>5, <1>8, <2>1
<1> QED  BY <1>9, <1>10

LEMMA FlushUndone ==
  ASSUME NEW T, NEW g, NEW r \in FlushRecords, Fits(T, Holds(r), g), NEW U, U = UndoFlush(T, r)
  PROVE  Placed(U) /\ Items(U) \subseteq Items(T) \cup Holds(r)
<1> DEFINE back == Prepend(T, r.bytes)
           new == [i \in DOMAIN r.tokens |-> [r.tokens[i] EXCEPT !.at = After(back.position, @)]]
<1>1. /\ r.kind = "flush" /\ r.bytes \in Seq(Bytes) /\ r.tokens \in Seq(Tokens)
      /\ Rising(r.bytes) /\ Rising(r.tokens)
      /\ \A i \in DOMAIN r.tokens : At(r.bytes, r.tokens[i].at, r.tokens[i].id)
      /\ Holds(r) = Nums(r.bytes) \cup Nums(r.tokens)
  BY DEF FlushRecords, Holds
<1>2. Placed(T) /\ Items(T) \subseteq 1 .. g /\ Below(Holds(r), Items(T)) /\ g \in 0 .. MaxGiven
      /\ Nums(r.bytes) \subseteq 1 .. g
  BY <1>1 DEF Fits
<1>3. Below(Nums(r.bytes), Items(T)) /\ Below(Nums(r.tokens), Items(T))
  BY <1>1, <1>2 DEF Below
<1>4. Len(r.bytes) + Len(T.queue) < Indices /\ Len(r.bytes) \in Index
  BY <1>1, <1>2, <1>3, RoomEnough
<1>5. /\ Placed(back) /\ Items(back) = Items(T) \cup Nums(r.bytes) /\ back.ends = T.ends
      /\ back.queue = r.bytes \o T.queue
  BY <1>1, <1>2, <1>3, <1>4, PrependPlaced
<1>6. U = [back EXCEPT !.ends = new \o @]
  BY DEF UndoFlush
<1> HIDE DEF back
<1>7. /\ back.position \in Index /\ T.queue \in Seq(Bytes) /\ Len(T.queue) \in Nat
      /\ DOMAIN T.queue = 1 .. Len(T.queue) /\ Len(r.bytes) \in Nat
      /\ DOMAIN r.bytes = 1 .. Len(r.bytes)
      /\ \A i \in DOMAIN T.queue : T.queue[i].id \in Nat
  BY <1>1, <1>2, <1>5, TerminalIs, SeqIs DEF Placed
<1>8. /\ Len(r.tokens) \in Nat /\ DOMAIN r.tokens = 1 .. Len(r.tokens)
      /\ \A i \in DOMAIN r.tokens : r.tokens[i] \in Tokens /\ r.tokens[i].at \in Index
                                    /\ r.tokens[i].id \in Nat
  <2>1. /\ Len(r.tokens) \in Nat /\ DOMAIN r.tokens = 1 .. Len(r.tokens)
        /\ \A i \in DOMAIN r.tokens : r.tokens[i] \in Tokens
    BY <1>1, SeqIs
  <2> QED  BY <2>1 DEF Tokens
<1>9. ASSUME NEW i \in DOMAIN r.tokens
      PROVE  /\ new[i] \in Tokens /\ new[i].id = r.tokens[i].id
             /\ Before(new[i].at, back.position) = r.tokens[i].at
  <2> DEFINE a == After(back.position, r.tokens[i].at)
  <2>1. a \in Index /\ Before(a, back.position) = r.tokens[i].at
    BY <1>7, <1>8, Moved
  <2>2. new[i] = [r.tokens[i] EXCEPT !.at = a]
    OBVIOUS
  <2> HIDE DEF a, new
  <2> QED  BY <1>8, <2>1, <2>2 DEF Tokens
<1>10. new \in Seq(Tokens) /\ DOMAIN new = DOMAIN r.tokens
  <2>1. DOMAIN new = 1 .. Len(r.tokens) /\ new = [i \in 1 .. Len(r.tokens) |-> new[i]]
    BY <1>8
  <2> HIDE DEF new
  <2>2. \A i \in 1 .. Len(r.tokens) : new[i] \in Tokens
    BY <1>8, <1>9
  <2> QED  BY <1>8, <2>1, <2>2
<1> HIDE DEF new
<1>11. Rising(new) /\ Nums(new) = Nums(r.tokens)
  BY <1>1, <1>9, <1>10 DEF Rising, Nums
<1>12. Below(Nums(new), Nums(back.ends))
  BY <1>3, <1>5, <1>11 DEF Below, Items
<1>13. ASSUME NEW i \in DOMAIN new
       PROVE  At(back.queue, Before(new[i].at, back.position), new[i].id)
  <2> DEFINE d == r.tokens[i].at
             x == r.tokens[i].id
  <2>1. At(r.bytes, d, x) /\ d \in Nat /\ d <= Len(r.bytes) /\ x \in Nums(r.tokens) /\ x \in Nat
    BY <1>1, <1>7, <1>8, <1>10 DEF At, Nums
  <2>2. Before(new[i].at, back.position) = d /\ new[i].id = x
    BY <1>9, <1>10
  <2> HIDE DEF d, x
  <2>3. /\ Len(back.queue) = Len(r.bytes) + Len(T.queue)
        /\ \A j \in 1 .. Len(r.bytes) + Len(T.queue) :
             back.queue[j] = IF j <= Len(r.bytes) THEN r.bytes[j] ELSE T.queue[j - Len(r.bytes)]
        /\ DOMAIN back.queue = 1 .. Len(r.bytes) + Len(T.queue)
    <3> DEFINE q == T.queue
               bytes == r.bytes
               u == bytes \o q
    <3>1. q \in Seq(Bytes) /\ bytes \in Seq(Bytes) /\ back.queue = u
      BY <1>1, <1>5, <1>7
    <3> HIDE DEF q, bytes
    <3>2. /\ u \in Seq(Bytes) /\ Len(u) = Len(bytes) + Len(q)
          /\ \A j \in 1 .. Len(bytes) + Len(q) :
               u[j] = IF j <= Len(bytes) THEN bytes[j] ELSE q[j - Len(bytes)]
      BY <3>1, ConcatProperties
    <3> HIDE DEF u
    <3>3. DOMAIN u = 1 .. Len(bytes) + Len(q)
      BY <3>2, LenProperties
    <3> QED  BY <3>1, <3>2, <3>3 DEF q, bytes
  <2>4. ASSUME NEW j \in DOMAIN back.queue
        PROVE  (j <= d => back.queue[j].id < x) /\ (j > d => back.queue[j].id > x)
    <3>1. CASE j <= Len(r.bytes)
      <4>1. j \in DOMAIN r.bytes /\ back.queue[j] = r.bytes[j]
        <5> DEFINE l == Len(r.bytes)
                   m == Len(T.queue)
        <5>1. l \in Nat /\ m \in Nat /\ j \in 1 .. l + m /\ j <= l
          BY <1>7, <2>3, <3>1
        <5>2. back.queue[j] = IF j <= l THEN r.bytes[j] ELSE T.queue[j - l]
          BY <2>3
        <5> HIDE DEF l, m
        <5>3. j \in 1 .. l
          BY <5>1
        <5> QED  BY <1>7, <5>1, <5>2, <5>3 DEF l
      <4> QED  BY <2>1, <4>1 DEF At
    <3>2. CASE j > Len(r.bytes)
      <4> DEFINE k == j - Len(r.bytes)
      <4>1. k \in DOMAIN T.queue /\ back.queue[j] = T.queue[k] /\ ~(j <= d)
        <5> DEFINE l == Len(r.bytes)
                   m == Len(T.queue)
        <5>1. l \in Nat /\ m \in Nat /\ j \in 1 .. l + m /\ j > l /\ d \in Nat /\ d <= l
          BY <1>7, <2>1, <2>3, <3>2
        <5>2. back.queue[j] = IF j <= l THEN r.bytes[j] ELSE T.queue[j - l]
          BY <2>3
        <5>3. DOMAIN T.queue = 1 .. m /\ k = j - l
          BY <1>7
        <5> HIDE DEF l, m, k
        <5>4. k \in 1 .. m /\ ~(j <= d) /\ ~(j <= l)
          BY <5>1, <5>3
        <5> QED  BY <5>2, <5>3, <5>4
      <4> HIDE DEF k
      <4>2. T.queue[k].id \in Items(T) /\ T.queue[k].id \in Nat
        BY <1>7, <4>1 DEF Items, Nums
      <4>3. x < T.queue[k].id
        BY <1>3, <2>1, <4>2 DEF Below
      <4> QED  BY <2>1, <4>1, <4>2, <4>3
    <3> QED  BY <1>7, <2>3, <3>1, <3>2
  <2>5. d \in 0 .. Len(back.queue)
    <3> DEFINE l == Len(r.bytes)
               m == Len(T.queue)
               h == Len(back.queue)
    <3>1. l \in Nat /\ m \in Nat /\ d \in Nat /\ d <= l /\ h = l + m
      BY <1>7, <2>1, <2>3
    <3> HIDE DEF l, m, h
    <3>2. d \in 0 .. h
      BY <3>1
    <3> QED  BY <3>2 DEF h
  <2> QED  BY <2>2, <2>4, <2>5 DEF At
<1>14. Placed(U) /\ Items(U) = Items(back) \cup Nums(new)
  BY <1>5, <1>6, <1>10, <1>11, <1>12, <1>13, TokensPlaced
<1> QED  BY <1>1, <1>5, <1>11, <1>14

LEMMA UndoRecordIs ==
  ASSUME NEW r, NEW T
  PROVE  /\ r.kind = "read" => UndoRecord(r, T) = UndoRead(T, r)
         /\ r.kind = "flush" => UndoRecord(r, T) = UndoFlush(T, r)
         /\ r.kind = "mode" => UndoRecord(r, T) = T
<1>1. "read" # "flush" /\ "read" # "mode" /\ "flush" # "mode"
  OBVIOUS
<1>2. ASSUME r.kind = "read" PROVE UndoRecord(r, T) = UndoRead(T, r)
  BY <1>2, SMT DEF UndoRecord
<1>3. ASSUME r.kind = "flush" PROVE UndoRecord(r, T) = UndoFlush(T, r)
  BY <1>3, SMT DEF UndoRecord
<1>4. ASSUME r.kind = "mode" PROVE UndoRecord(r, T) = T
  BY <1>4, SMT DEF UndoRecord
<1> QED  BY <1>2, <1>3, <1>4

LEMMA Undone ==
  ASSUME NEW T, NEW g, NEW rs \in Journals, Fits(T, HoldsAll(rs), g),
         NEW U, U = FoldRight(UndoRecord, rs, T)
  PROVE  Placed(U) /\ Items(U) \subseteq Items(T) \cup HoldsAll(rs)
<1>1. /\ rs \in Seq(Records) /\ Len(rs) \in Nat /\ DOMAIN rs = 1 .. Len(rs) /\ Len(rs) <= 2
      /\ \A i \in DOMAIN rs : rs[i] \in Records
      /\ Len(rs) = 2 => rs[2].kind = "mode"
  BY SeqIs DEF Journals
<1>2. U = IF Len(rs) = 0 THEN T
          ELSE IF Len(rs) = 1 THEN UndoRecord(rs[1], T)
          ELSE UndoRecord(rs[1], UndoRecord(rs[2], T))
  BY <1>1, JournalUndone
<1>3. CASE Len(rs) = 0
  BY <1>2, <1>3 DEF Fits
<1>4. CASE Len(rs) # 0
  <2>1. rs # <<>> /\ 1 \in DOMAIN rs /\ rs[1] \in Records
    BY <1>1, <1>4
  <2>2. U = UndoRecord(rs[1], T)
    <3>1. Len(rs) = 2 => UndoRecord(rs[2], T) = T
      BY <1>1, UndoRecordIs
    <3>2. Len(rs) = 1 \/ Len(rs) = 2
      BY <1>1, <1>4
    <3> QED  BY <1>2, <3>1, <3>2
  <2>3. HoldsAll(rs) = Holds(rs[1])
    BY <2>1 DEF HoldsAll
  <2> DEFINE r == rs[1]
  <2> HIDE DEF r
  <2>4. CASE r.kind = "read"
    <3>1. r \in ReadRecords /\ U = UndoRead(T, r) /\ Fits(T, Holds(r), g)
      BY <2>1, <2>2, <2>3, <2>4, RecordIs, UndoRecordIs DEF r
    <3>2. Placed(U) /\ Items(U) \subseteq Items(T) \cup Holds(r)
      BY <3>1, ReadUndone
    <3> QED  BY <2>3, <3>2 DEF r
  <2>5. CASE r.kind = "flush"
    <3>1. r \in FlushRecords /\ U = UndoFlush(T, r) /\ Fits(T, Holds(r), g)
      BY <2>1, <2>2, <2>3, <2>5, RecordIs, UndoRecordIs DEF r
    <3>2. Placed(U) /\ Items(U) \subseteq Items(T) \cup Holds(r)
      BY <3>1, FlushUndone
    <3> QED  BY <2>3, <3>2 DEF r
  <2>6. CASE r.kind = "mode"
    <3>1. U = T
      BY <2>2, <2>6, UndoRecordIs DEF r
    <3> QED  BY <3>1 DEF Fits
  <2> QED  BY <2>1, <2>4, <2>5, <2>6, RecordIs DEF r
<1> QED  BY <1>3, <1>4

-----------------------------------------------------------------------------
(* The invariant. *)

Reads ==
  [size : Nat, nonblock : BOOLEAN, waited : BOOLEAN, wait_tail : Index, seen : Nat,
   elapsed : Nat, timed : BOOLEAN, interrupted : BOOLEAN, barred : BOOLEAN, found : Terminals]
Entries ==
  [records : Journals, exits : BOOLEAN, found : Terminals, mode : Modes, waited : BOOLEAN,
   upto : Nat, reached : Nat, cleared : BOOLEAN]

\* What is queued comes after what the program has read.
Queued(T, g, last) ==
  /\ Placed(T) /\ Items(T) \subseteq 1 .. g
  /\ g \in 0 .. MaxGiven /\ last \in 0 .. g /\ Below({last}, Items(T))

\* An entry's part comes after those of the older ones and before what is queued.
Part(e) == {e.reached} \cup HoldsAll(e.records)
EntryKept(e, T, g) ==
  /\ HoldsAll(e.records) \subseteq 1 .. g /\ e.reached <= g
  /\ Below({e.reached}, HoldsAll(e.records)) /\ Below(Part(e), Items(T))
InTurn(L) ==
  \A i, j \in DOMAIN L : i < j => Below(Part(L[i]), HoldsAll(L[j].records))
Logged(L, T, g) ==
  /\ L \in Seq(Entries) /\ InTurn(L)
  /\ \A i \in DOMAIN L : EntryKept(L[i], T, g)

\* What a read that waits has not found.
Missing(T, R) ==
  R.size > 0 /\ T.ends = <<>> /\ Len(T.queue) < Need(R)

TInv ==
  /\ Queued(terminal, given, reached) /\ Logged(log, terminal, given)
  /\ mode \in Modes /\ exited \in BOOLEAN
  /\ read \in Reads /\ phase \in {"idle", "waiting"}
  /\ phase = "waiting" => Missing(terminal, read)

-----------------------------------------------------------------------------
(* The log through what happens to the queue. *)

LEMMA EntryIs ==
  ASSUME NEW e \in Entries
  PROVE  /\ e.records \in Journals /\ e.reached \in Nat /\ e.found \in Terminals /\ e.mode \in Modes
BY DEF Entries

\* What is held is numbered.
LEMMA HeldNumbers ==
  ASSUME NEW rs \in Journals
  PROVE  HoldsAll(rs) \subseteq Nat
<1>1. /\ rs \in Seq(Records) /\ Len(rs) \in Nat /\ DOMAIN rs = 1 .. Len(rs)
      /\ \A i \in DOMAIN rs : rs[i] \in Records
  BY SeqIs DEF Journals
<1>2. CASE rs = <<>>
  BY <1>2 DEF HoldsAll
<1>3. CASE rs # <<>>
  <2> DEFINE r == rs[1]
  <2>1. Len(rs) # 0
    BY <1>1, <1>3, EmptySeq
  <2>2. r \in Records /\ HoldsAll(rs) = Holds(r)
    BY <1>1, <1>3, <2>1 DEF HoldsAll
  <2> HIDE DEF r
  <2>3. CASE r.kind = "read"
    <3>1. r.putback \in Seq(Bytes) /\ r.end \in Seq(Nat)
      BY <2>2, <2>3, RecordIs DEF ReadRecords
    <3>2. /\ \A i \in DOMAIN r.putback : r.putback[i] \in Bytes
          /\ \A i \in DOMAIN r.end : r.end[i] \in Nat
      BY <3>1, SeqIs
    <3>3. Nums(r.putback) \subseteq Nat
      BY <3>2 DEF Nums, Bytes
    <3>4. Holds(r) = Nums(r.putback) \cup {r.end[i] : i \in DOMAIN r.end}
      BY <2>3 DEF Holds, Values
    <3> QED  BY <2>2, <3>2, <3>3, <3>4
  <2>4. CASE r.kind = "flush"
    <3>1. r.bytes \in Seq(Bytes) /\ r.tokens \in Seq(Tokens)
      BY <2>2, <2>4, RecordIs DEF FlushRecords
    <3>2. /\ \A i \in DOMAIN r.bytes : r.bytes[i] \in Bytes
          /\ \A i \in DOMAIN r.tokens : r.tokens[i] \in Tokens
      BY <3>1, SeqIs
    <3>3. Nums(r.bytes) \subseteq Nat /\ Nums(r.tokens) \subseteq Nat
      BY <3>2 DEF Nums, Bytes, Tokens
    <3>4. Holds(r) = Nums(r.bytes) \cup Nums(r.tokens)
      BY <2>4 DEF Holds
    <3> QED  BY <2>2, <3>3, <3>4
  <2>5. CASE r.kind = "mode"
    BY <2>2, <2>5 DEF Holds
  <2> QED  BY <2>2, <2>3, <2>4, <2>5, RecordIs
<1> QED  BY <1>2, <1>3

\* What comes new comes behind all of it.
LEMMA EntryLeft ==
  ASSUME NEW e \in Entries, NEW T, NEW U, NEW g \in Nat, NEW h \in Nat, g <= h,
         EntryKept(e, T, g), Items(U) \subseteq Items(T) \cup (g + 1 .. h)
  PROVE  EntryKept(e, U, h)
<1>1. /\ HoldsAll(e.records) \subseteq 1 .. g /\ e.reached <= g /\ e.reached \in Nat
      /\ Below({e.reached}, HoldsAll(e.records)) /\ Below(Part(e), Items(T))
  BY EntryIs DEF EntryKept
<1>2. HoldsAll(e.records) \subseteq 1 .. h /\ e.reached <= h
  BY <1>1
<1>3. \A a \in Part(e) : a \in Nat /\ a <= g
  BY <1>1 DEF Part
<1>4. ASSUME NEW a \in Part(e), NEW b \in Items(U)
      PROVE  a < b
  <2>1. CASE b \in Items(T)
    BY <1>1, <2>1 DEF Below
  <2>2. CASE b \in g + 1 .. h
    BY <1>3, <2>2
  <2> QED  BY <2>1, <2>2
<1> QED  BY <1>1, <1>2, <1>4 DEF EntryKept, Below

LEMMA LogLeft ==
  ASSUME NEW L, NEW T, NEW U, NEW g \in Nat, NEW h \in Nat, g <= h,
         Logged(L, T, g), Items(U) \subseteq Items(T) \cup (g + 1 .. h)
  PROVE  Logged(L, U, h)
<1>1. L \in Seq(Entries) /\ InTurn(L) /\ \A i \in DOMAIN L : L[i] \in Entries /\ EntryKept(L[i], T, g)
  BY SeqIs DEF Logged
<1>2. \A i \in DOMAIN L : EntryKept(L[i], U, h)
  BY <1>1, EntryLeft
<1> QED  BY <1>1, <1>2 DEF Logged

\* An entry that holds what is taken out of the queue.
LEMMA LogGrows ==
  ASSUME NEW L, NEW T, NEW U, NEW g \in Nat, Logged(L, T, g), NEW e \in Entries,
         Items(T) \subseteq 1 .. g, Items(U) \subseteq Items(T),
         HoldsAll(e.records) \subseteq Items(T), Below(HoldsAll(e.records), Items(U)),
         e.reached <= g, Below({e.reached}, Items(T))
  PROVE  Logged(Append(L, e), U, g)
<1> DEFINE K == Append(L, e)
<1>1. /\ L \in Seq(Entries) /\ InTurn(L)
      /\ \A i \in DOMAIN L : L[i] \in Entries /\ EntryKept(L[i], T, g)
      /\ Len(L) \in Nat /\ DOMAIN L = 1 .. Len(L)
  BY SeqIs DEF Logged
<1>2. /\ K \in Seq(Entries) /\ Len(K) = Len(L) + 1
      /\ \A i \in 1 .. Len(L) : K[i] = L[i]
      /\ K[Len(L) + 1] = e
  BY <1>1, AppendProperties
<1>3. DOMAIN K = 1 .. Len(L) + 1
  BY <1>2, LenProperties
<1> DEFINE n == Len(L)
<1> HIDE DEF K, n
<1>4. \A i \in DOMAIN K : (i \in DOMAIN L /\ K[i] = L[i]) \/ (i = n + 1 /\ K[i] = e)
  BY <1>1, <1>2, <1>3 DEF n
<1>5. \A i \in DOMAIN L : EntryKept(L[i], U, g)
  <2>1. Items(U) \subseteq Items(T) \cup (g + 1 .. g) /\ g <= g
    OBVIOUS
  <2> QED  BY <1>1, <2>1, EntryLeft
<1>6. EntryKept(e, U, g)
  <2>1. HoldsAll(e.records) \subseteq 1 .. g /\ Below({e.reached}, HoldsAll(e.records))
    BY DEF Below
  <2>2. Below(Part(e), Items(U))
    BY DEF Below, Part
  <2> QED  BY <2>1, <2>2 DEF EntryKept
<1>7. \A i \in DOMAIN L : Below(Part(L[i]), HoldsAll(e.records))
  BY <1>1 DEF EntryKept, Below
<1>8. InTurn(K)
  <2>1. ASSUME NEW i \in DOMAIN K, NEW j \in DOMAIN K, i < j
        PROVE  Below(Part(K[i]), HoldsAll(K[j].records))
    <3>1. i \in DOMAIN L /\ K[i] = L[i]
      BY <1>1, <1>3, <1>4, <2>1 DEF n
    <3>2. CASE j \in DOMAIN L /\ K[j] = L[j]
      BY <1>1, <2>1, <3>1, <3>2 DEF InTurn
    <3>3. CASE K[j] = e
      BY <1>7, <3>1, <3>3
    <3> QED  BY <1>4, <3>2, <3>3
  <2> QED  BY <2>1 DEF InTurn
<1>9. \A i \in DOMAIN K : EntryKept(K[i], U, g)
  BY <1>4, <1>5, <1>6
<1> QED  BY <1>2, <1>8, <1>9 DEF Logged, K

\* The newest entry gone, its part may be queued again.
LEMMA LogShrinks ==
  ASSUME NEW L, NEW T, NEW U, NEW g \in Nat, Logged(L, T, g), L # <<>>,
         Items(U) \subseteq Items(T) \cup HoldsAll(Last(L).records)
  PROVE  /\ Logged(Front(L), U, g)
         /\ Last(L) \in Entries /\ EntryKept(Last(L), T, g)
<1> DEFINE n == Len(L)
           K == Front(L)
<1>1. /\ L \in Seq(Entries) /\ InTurn(L)
      /\ \A i \in DOMAIN L : L[i] \in Entries /\ EntryKept(L[i], T, g)
      /\ n \in Nat /\ DOMAIN L = 1 .. n
  BY SeqIs DEF Logged
<1>2. n # 0
  BY <1>1, EmptySeq
<1>3. Last(L) = L[n] /\ n \in DOMAIN L
  BY <1>1, <1>2 DEF Last
<1>4. K \in Seq(Entries) /\ DOMAIN K = 1 .. n - 1 /\ \A i \in DOMAIN K : K[i] = L[i]
  <2>1. K = SubSeq(L, 1, n - 1)
    BY DEF Front
  <2>2. n - 1 <= n /\ n - 1 \in Nat /\ 1 \in Int
    BY <1>1, <1>2
  <2>3. K \in Seq(Entries) /\ Len(K) = n - 1 /\ \A i \in 1 .. n - 1 : K[i] = L[i]
    <3>1. 1 .. n - 1 \subseteq DOMAIN L
      BY <1>1, <2>2
    <3>2. K = [i \in 1 .. n - 1 |-> L[i]]
      BY <1>1, <2>1, <2>2
    <3> HIDE DEF K, n
    <3>3. \A i \in 1 .. n - 1 : L[i] \in Entries
      BY <1>1, <3>1
    <3> QED  BY <2>2, <3>2, <3>3
  <2> HIDE DEF K
  <2> QED  BY <2>3, LenProperties
<1> HIDE DEF K, n
<1>5. \A i \in DOMAIN K : i \in DOMAIN L /\ i < n
  BY <1>1, <1>4
<1>6. InTurn(K)
  BY <1>1, <1>4, <1>5 DEF InTurn
<1>7. ASSUME NEW i \in DOMAIN K
      PROVE  EntryKept(K[i], U, g)
  <2>1. Below(Part(L[i]), HoldsAll(Last(L).records)) /\ EntryKept(L[i], T, g)
    BY <1>1, <1>3, <1>5 DEF InTurn
  <2>2. Below(Part(L[i]), Items(U))
    BY <2>1 DEF EntryKept, Below
  <2> QED  BY <1>4, <2>1, <2>2 DEF EntryKept
<1> QED  BY <1>1, <1>3, <1>4, <1>6, <1>7 DEF Logged, K

LEMMA NothingLogged ==
  ASSUME NEW T, NEW g
  PROVE  Logged(<<>>, T, g)
<1>1. <<>> \in Seq(Entries) /\ DOMAIN <<>> = {}
  BY EmptySeq
<1> QED  BY <1>1 DEF Logged, InTurn

LEMMA QueueLeft ==
  ASSUME NEW T, NEW U, NEW g, NEW h \in 0 .. MaxGiven, g <= h, NEW last, Queued(T, g, last),
         Placed(U), Items(U) \subseteq Items(T) \cup (g + 1 .. h)
  PROVE  Queued(U, h, last) /\ g \in Nat /\ h \in Nat
<1>1. /\ Items(T) \subseteq 1 .. g /\ g \in Nat /\ last \in 0 .. g /\ Below({last}, Items(T)) /\ h \in Nat
  BY TerminalAssumption DEF Queued
<1>2. Items(U) \subseteq 1 .. h /\ last \in 0 .. h
  BY <1>1
<1>3. ASSUME NEW b \in Items(U)
      PROVE  last < b
  <2>1. CASE b \in Items(T)
    BY <1>1, <2>1 DEF Below
  <2>2. CASE b \in g + 1 .. h
    BY <1>1, <2>2
  <2> QED  BY <2>1, <2>2
<1> QED  BY <1>1, <1>2, <1>3 DEF Queued, Below

-----------------------------------------------------------------------------
(* A read takes what it finds. *)

LEMMA Least ==
  ASSUME NEW S \in SUBSET Nat, S # {}
  PROVE  \E n \in S : \A m \in S : n <= m
<1>1. \E n \in S : \A m \in S : ~(<<m, n>> \in OpToRel(<, Nat))
  BY NatLessThanWellFounded, WFMin, Zenon
<1>2. PICK n \in S : \A m \in S : ~(<<m, n>> \in OpToRel(<, Nat))
  BY <1>1, Zenon
<1>3. \A m \in Nat : m < n => <<m, n>> \in OpToRel(<, Nat)
  BY DEF OpToRel
<1>4. \A m \in S : m \in Nat /\ n \in Nat
  OBVIOUS
<1>5. \A m \in S : ~(m < n)
  BY <1>2, <1>3, <1>4, Zenon
<1> QED  BY <1>4, <1>5

LEMMA SomeAvailable ==
  ASSUME NEW T, Placed(T), T.queue # <<>>, ~(T.ends # <<>> /\ T.ends[1].at = T.position)
  PROVE  Available(T) >= 1
<1>1. /\ T \in Terminals /\ T.queue \in Seq(Bytes) /\ Len(T.queue) \in Nat /\ T.position \in Index
      /\ T.ends \in Seq(Tokens) /\ DOMAIN T.ends = 1 .. Len(T.ends) /\ Len(T.ends) \in Nat
      /\ \A k \in DOMAIN T.ends : T.ends[k].at \in Index
  BY TerminalIs DEF Placed
<1>2. Len(T.queue) >= 1
  BY <1>1, EmptySeq
<1>3. CASE T.ends = <<>>
  BY <1>2, <1>3, AvailableIs
<1>4. CASE T.ends # <<>>
  <2> DEFINE a == T.ends[1].at
             p == T.position
             d == Place(T, 1)
             l == Len(T.queue)
  <2>1. 1 \in DOMAIN T.ends
    BY <1>1, <1>4, EmptySeq
  <2>2. a \in Index /\ p \in Index /\ a # p
    BY <1>1, <1>4, <2>1
  <2>3. d = Before(a, p)
    BY DEF Place
  <2>4. d \in Nat
    BY <1>1, <2>1 DEF Placed, At
  <2>5. Available(T) = Min({l, d})
    BY <1>4 DEF Available, Place
  <2> HIDE DEF a, p, d
  <2>6. d # 0
    <3>1. d = IF p <= a THEN a - p ELSE a - p + Indices
      BY <2>2, <2>3, BeforeIs
    <3> QED  BY <2>2, <3>1, IndicesAre
  <2>7. Available(T) = IF l <= d THEN l ELSE d
    BY <1>1, <2>4, <2>5, MinOfTwo
  <2> QED  BY <1>1, <1>2, <2>4, <2>6, <2>7
<1> QED  BY <1>3, <1>4

LEMMA CopiedIs ==
  ASSUME NEW T, Placed(T), Available(T) >= 1, NEW R \in Reads, R.size > 0
  PROVE  Copied(R, T) \in 1 .. Available(T)
<1> DEFINE a == Available(T)
           limit == Min({R.size, a})
           feeds == {i \in 1 .. limit : T.queue[i].newline}
<1>1. a \in Nat /\ a >= 1 /\ R.size \in Nat
  <2>1. Len(T.queue) \in Nat
    BY TerminalIs DEF Placed
  <2>2. R.size \in Nat
    BY DEF Reads
  <2> QED  BY <2>1, <2>2, AvailableIs
<1>2. limit \in 1 .. a
  BY <1>1, MinOfTwo
<1>3. Copied(R, T) = IF mode.canonical /\ feeds # {} THEN Min(feeds) ELSE limit
  BY DEF Copied
<1>4. \A i \in feeds : i \in 1 .. limit
  OBVIOUS
<1> HIDE DEF a, limit, feeds
<1>5. ASSUME feeds # {} PROVE Min(feeds) \in 1 .. limit
  <2>1. feeds \in SUBSET Nat
    BY <1>2, <1>4
  <2>2. PICK n \in feeds : \A m \in feeds : n <= m
    BY <1>5, <2>1, Least, Zenon
  <2>3. Min(feeds) = n
    BY <2>1, <2>2, MinIs
  <2> QED  BY <1>4, <2>2, <2>3
<1> QED  BY <1>1, <1>2, <1>3, <1>5 DEF a

LEMMA RoomHere ==
  ASSUME NEW T, NEW g, NEW last, Queued(T, g, last)
  PROVE  /\ Len(T.queue) \in Index /\ TailIndex(T) \in Index
         /\ T \in Terminals /\ Placed(T) /\ g \in Nat /\ Items(T) \subseteq 1 .. g
         /\ last \in Nat /\ last <= g /\ g <= MaxGiven /\ Below({last}, Items(T))
<1>1. /\ Placed(T) /\ Items(T) \subseteq 1 .. g /\ g \in 0 .. MaxGiven /\ g \in Nat /\ last \in 0 .. g
      /\ T \in Terminals /\ Below({last}, Items(T))
  BY TerminalAssumption DEF Queued, Placed
<1>2. Len(T.queue) \in Index
  <2>1. <<>> \in Seq(Bytes) /\ Nums(<<>>) \subseteq 1 .. g /\ Below(Nums(<<>>), Items(T)) /\ Rising(<<>>)
    BY EmptySeq, EmptyRises DEF Below
  <2> QED  BY <1>1, <2>1, RoomEnough
<1>3. T.position \in Index
  BY <1>1, TerminalIs
<1>4. TailIndex(T) \in Index
  BY <1>2, <1>3, Moved DEF TailIndex
<1> QED  BY <1>1, <1>2, <1>4, TerminalAssumption

LEMMA PutBackIs ==
  ASSUME NEW R \in Reads, NEW T \in Terminals, NEW n \in Nat
  PROVE  PutBack(R, T, n) \in 0 .. n
<1> DEFINE a == R.wait_tail
           p == T.position
<1>1. a \in Nat /\ p \in Nat
  BY TerminalIs, IndicesAre DEF Reads
<1>2. PutBack(R, T, n) = IF ~R.waited THEN n ELSE IF a > p THEN Min({a - p, n}) ELSE 0
  BY DEF PutBack
<1> HIDE DEF a, p
<1>3. CASE a > p
  <2>1. a - p \in Nat
    BY <1>1, <1>3
  <2>2. Min({a - p, n}) = IF a - p <= n THEN a - p ELSE n
    BY <2>1, MinOfTwo
  <2> QED  BY <1>2, <1>3, <2>1, <2>2
<1> QED  BY <1>2, <1>3

LEMMA DropIs ==
  ASSUME NEW R \in Reads, NEW T \in Terminals, TailIndex(T) \in Index, NEW n \in Index
  PROVE  Drop(R, T, n) \in Nat
<1> DEFINE a == After(T.position, n)
           b == R.wait_tail
           t == TailIndex(T)
           rest == Max({a, b})
<1>1. a \in Nat /\ b \in Nat /\ t \in Nat
  <2>1. T.position \in Index /\ b \in Index
    BY TerminalIs DEF Reads
  <2>2. a \in Index
    BY <2>1, Moved
  <2> QED  BY <2>1, <2>2, IndicesAre
<1>2. Drop(R, T, n) = IF R.waited /\ t > rest THEN t - rest ELSE 0
  BY DEF Drop
<1>3. rest \in Nat
  <2> HIDE DEF a, b
  <2> QED  BY <1>1, MaxOfTwo
<1> HIDE DEF t, rest
<1> QED  BY <1>1, <1>2, <1>3

\* The numbers of the first n bytes.
Firsts(T, n) == {T.queue[i].id : i \in 1 .. n}

LEMMA ReadRecordIs ==
  ASSUME NEW R \in Reads, NEW T, Placed(T), Len(T.queue) \in Index, TailIndex(T) \in Index,
         NEW n \in Nat, n <= Len(T.queue), NEW end \in Seq(Nat), Len(end) <= 1,
         end = <<>> \/ n = 0
  PROVE  /\ ReadRecord(R, T, n, end) \in ReadRecords
         /\ Holds(ReadRecord(R, T, n, end)) \subseteq Firsts(T, n) \cup Values(end)
<1> DEFINE k == PutBack(R, T, n)
           bytes == SubSeq(T.queue, 1, k)
           drop == Drop(R, T, n)
           r == [kind |-> "read", waited |-> R.waited, putback |-> bytes, drop |-> drop, end |-> end]
<1>1. ReadRecord(R, T, n, end) = r
  BY DEF ReadRecord
<1>2. T \in Terminals /\ T.queue \in Seq(Bytes) /\ Len(T.queue) \in Nat /\ Rising(T.queue)
  BY TerminalIs DEF Placed
<1>3. n \in Nat /\ n \in Index /\ n <= Len(T.queue)
  BY <1>2, IndicesAre
<1>4. k \in 0 .. n
  BY <1>2, <1>3, PutBackIs
<1>5. drop \in Nat
  BY <1>2, <1>3, DropIs
<1>6. k \in Nat /\ k <= n /\ k <= Len(T.queue)
  BY <1>2, <1>3, <1>4
<1> HIDE DEF k
<1>7. bytes \in Seq(Bytes) /\ PartOf(bytes, T.queue, 1, k)
  BY <1>2, <1>6, PartRises
<1>8. Rising(bytes) /\ Nums(bytes) \subseteq Firsts(T, n)
  BY <1>3, <1>6, <1>7 DEF PartOf, Firsts
<1>9. end # <<>> => bytes = <<>>
  <2>1. k = 0 => bytes = <<>>
    <3>1. k = 0 => bytes = SubSeq(T.queue, 1, 0)
      OBVIOUS
    <3> QED  BY <1>2, <3>1, SubSeqEmpty
  <2> QED  BY <1>3, <1>4, <2>1
<1>10. R.waited \in BOOLEAN
  BY DEF Reads
<1> HIDE DEF bytes, drop
<1>11. r \in ReadRecords
  BY <1>5, <1>7, <1>8, <1>9, <1>10 DEF ReadRecords
<1>12. Holds(r) = Nums(bytes) \cup Values(end)
  BY DEF Holds
<1> QED  BY <1>1, <1>8, <1>11, <1>12

LEMMA OneRecord ==
  ASSUME NEW r \in Records
  PROVE  <<r>> \in Journals /\ HoldsAll(<<r>>) = Holds(r)
<1> DEFINE rs == <<r>>
<1>1. rs \in Seq(Records) /\ Len(rs) = 1 /\ rs[1] = r /\ rs # <<>>
  OBVIOUS
<1> HIDE DEF rs
<1>2. rs \in Journals
  <2>1. Len(rs) <= 2 /\ ~(Len(rs) = 2)
    BY <1>1
  <2> QED  BY <1>1, <2>1, Zenon DEF Journals
<1>3. HoldsAll(rs) = Holds(r)
  BY <1>1 DEF HoldsAll
<1> QED  BY <1>2, <1>3 DEF rs

LEMMA NoRecord == <<>> \in Journals /\ HoldsAll(<<>>) = {}
<1>1. <<>> \in Seq(Records) /\ Len(<<>>) = 0
  BY EmptySeq
<1> QED  BY <1>1 DEF Journals, HoldsAll

\* An instruction's entry, unless a signal bars it.
LEMMA Recorded ==
  ASSUME NEW T, NEW U, NEW g, Queued(T, g, reached), Logged(log, T, g), given' = g,
         mode \in Modes, NEW rs \in Journals, NEW exits \in BOOLEAN, NEW found \in Terminals,
         NEW waited \in BOOLEAN, NEW barred, log' = Record(Entry(rs, exits, found, waited), barred),
         Items(U) \subseteq Items(T), HoldsAll(rs) \subseteq Items(T),
         Below(HoldsAll(rs), Items(U))
  PROVE  Logged(log', U, g)
<1> DEFINE e == Entry(rs, exits, found, waited)
<1>1. /\ g \in Nat /\ Items(T) \subseteq 1 .. g /\ reached \in Nat /\ reached <= g
      /\ Below({reached}, Items(T))
  BY RoomHere
<1>2. e \in Entries /\ e.records = rs /\ e.reached = reached
  BY <1>1 DEF Entry, Entries
<1>3. log' = IF barred THEN <<>> ELSE Append(log, e)
  BY DEF Record
<1> HIDE DEF e
<1>4. HoldsAll(e.records) \subseteq Items(T) /\ Below(HoldsAll(e.records), Items(U))
  BY <1>2
<1>5. e.reached <= g /\ Below({e.reached}, Items(T))
  BY <1>1, <1>2
<1>6. Logged(Append(log, e), U, g)
  BY <1>1, <1>2, <1>4, <1>5, LogGrows
<1> QED  BY <1>3, <1>6, NothingLogged

LEMMA TakeKeeps ==
  ASSUME NEW T, NEW g, NEW R \in Reads, Queued(T, g, reached), Logged(log, T, g), given' = g,
         mode \in Modes, R.size > 0, Take(R, T)
  PROVE  Queued(terminal', g, reached') /\ Logged(log', terminal', g)
<1> DEFINE n == Copied(R, T)
           found == IF R.waited THEN R.found ELSE T
           ends == <<T.ends[1].id>>
<1>1. /\ Len(T.queue) \in Index /\ TailIndex(T) \in Index /\ T \in Terminals /\ Placed(T)
      /\ g \in Nat /\ Items(T) \subseteq 1 .. g /\ reached \in Nat /\ reached <= g
      /\ g <= MaxGiven /\ Below({reached}, Items(T))
  BY RoomHere
<1>2. R.waited \in BOOLEAN /\ found \in Terminals
  BY <1>1 DEF Reads
<1> HIDE DEF found
<1>3. CASE T.ends # <<>> /\ T.ends[1].at = T.position
  <2> DEFINE U == [T EXCEPT !.ends = Tail(@)]
             r == ReadRecord(R, T, 0, ends)
             x == T.ends[1].id
  <2>1. /\ terminal' = U /\ log' = Record(Entry(<<r>>, FALSE, found, R.waited), R.barred)
        /\ reached' = reached
    BY <1>3 DEF Take, found
  <2>2. /\ Placed(U) /\ Items(U) \subseteq Items(T)
        /\ x \in Items(T) /\ Below({x}, Items(U))
    BY <1>1, <1>3, TokenTaken
  <2> HIDE DEF U
  <2>3. x \in Nat
    BY <1>1, <2>2
  <2> HIDE DEF x
  <2>4. /\ ends \in Seq(Nat) /\ Len(ends) = 1 /\ DOMAIN ends = {1} /\ ends[1] = x
    BY <2>3 DEF x
  <2> DEFINE z == 0
  <2>5. z <= Len(T.queue) /\ z \in Nat /\ z = 0 /\ Len(ends) <= 1
    BY <1>1, <2>4, IndicesAre
  <2> HIDE DEF ends, z
  <2>6. r \in ReadRecords /\ Holds(r) \subseteq Firsts(T, z) \cup Values(ends)
    <3>1. r = ReadRecord(R, T, z, ends)
      BY <2>5
    <3> HIDE DEF r
    <3> QED  BY <1>1, <2>4, <2>5, <3>1, ReadRecordIs
  <2> HIDE DEF r
  <2>7. Holds(r) \subseteq {x}
    BY <2>4, <2>5, <2>6 DEF Firsts, Values
  <2>8. <<r>> \in Journals /\ HoldsAll(<<r>>) = Holds(r)
    <3>1. r \in Records
      BY <2>6 DEF Records
    <3> QED  BY <3>1, OneRecord
  <2> DEFINE rs == <<r>>
  <2> HIDE DEF rs
  <2>9. rs \in Journals /\ HoldsAll(rs) \subseteq Items(T) /\ Below(HoldsAll(rs), Items(U))
    BY <2>2, <2>7, <2>8 DEF rs, Below
  <2>10. log' = Record(Entry(rs, FALSE, found, R.waited), R.barred)
    BY <2>1 DEF rs
  <2>11. Logged(log', U, g)
    BY <1>2, <2>2, <2>9, <2>10, Recorded
  <2>12. Queued(U, g, reached)
    <3>1. Below({reached}, Items(U)) /\ Items(U) \subseteq 1 .. g
      BY <1>1, <2>2 DEF Below
    <3> QED  BY <1>1, <2>2, <3>1 DEF Queued
  <2> QED  BY <2>1, <2>11, <2>12
<1>4. CASE ~(T.ends # <<>> /\ T.ends[1].at = T.position) /\ T.queue = <<>>
  <2>1. /\ terminal' = T /\ log' = Record(Entry(<<>>, FALSE, T, FALSE), R.barred)
        /\ reached' = reached
    BY <1>4 DEF Take
  <2>2. <<>> \in Journals /\ HoldsAll(<<>>) \subseteq Items(T) /\ Below(HoldsAll(<<>>), Items(T))
    BY NoRecord DEF Below
  <2>3. Logged(log', T, g)
    BY <1>1, <2>1, <2>2, Recorded
  <2> QED  BY <2>1, <2>3
<1>5. CASE ~(T.ends # <<>> /\ T.ends[1].at = T.position) /\ T.queue # <<>>
  <2> DEFINE U == Without(T, n)
             r == ReadRecord(R, T, n, <<>>)
             x == T.queue[n].id
  <2>1. /\ terminal' = U /\ log' = Record(Entry(<<r>>, FALSE, found, R.waited), R.barred)
        /\ reached' = x
    <3>1. ~(T.ends # <<>> /\ T.ends[1].at = T.position) /\ ~(T.queue = <<>>)
      BY <1>5
    <3> QED  BY <3>1 DEF Take, found
  <2>2. n \in 1 .. Available(T) /\ Available(T) \in 0 .. Len(T.queue) /\ Available(T) \in Nat
    <3>1. Len(T.queue) \in Nat
      BY <1>1, TerminalIs
    <3> QED  BY <1>1, <1>5, <3>1, SomeAvailable, CopiedIs, AvailableIs
  <2> HIDE DEF n
  <2>3. n \in Nat /\ n \in 0 .. Available(T) /\ n <= Len(T.queue) /\ n \in 1 .. n
    <3>1. Len(T.queue) \in Nat
      BY <1>1, TerminalIs
    <3> QED  BY <2>2, <3>1
  <2>4. /\ Placed(U) /\ Items(U) \subseteq Items(T)
        /\ \A i \in 1 .. n : Below({T.queue[i].id}, Items(U))
    BY <1>1, <2>3, WithoutPlaced
  <2> HIDE DEF U
  <2>5. Firsts(T, n) \subseteq Items(T)
    <3>1. DOMAIN T.queue = 1 .. Len(T.queue) /\ Len(T.queue) \in Nat
      BY <1>1, TerminalIs
    <3>2. \A i \in 1 .. n : i \in DOMAIN T.queue
      BY <2>3, <3>1
    <3> QED  BY <3>2 DEF Firsts, Items, Nums
  <2>6. Below(Firsts(T, n), Items(U))
    BY <2>4 DEF Below, Firsts
  <2>7. r \in ReadRecords /\ Holds(r) \subseteq Firsts(T, n)
    <3> DEFINE none == <<>>
    <3>1. none \in Seq(Nat) /\ Len(none) <= 1 /\ none = <<>> /\ DOMAIN none = {}
      BY EmptySeq
    <3>2. r = ReadRecord(R, T, n, none)
      OBVIOUS
    <3> HIDE DEF none, r
    <3>3. r \in ReadRecords /\ Holds(r) \subseteq Firsts(T, n) \cup Values(none)
      BY <1>1, <2>3, <3>1, <3>2, ReadRecordIs
    <3> QED  BY <3>1, <3>3 DEF Values
  <2> HIDE DEF r
  <2>8. <<r>> \in Journals /\ HoldsAll(<<r>>) = Holds(r)
    <3>1. r \in Records
      BY <2>7 DEF Records
    <3> QED  BY <3>1, OneRecord
  <2> DEFINE rs == <<r>>
  <2> HIDE DEF rs
  <2>9. rs \in Journals /\ HoldsAll(rs) \subseteq Items(T) /\ Below(HoldsAll(rs), Items(U))
    BY <2>5, <2>6, <2>7, <2>8 DEF rs, Below
  <2>10. log' = Record(Entry(rs, FALSE, found, R.waited), R.barred)
    BY <2>1 DEF rs
  <2>11. Logged(log', U, g)
    BY <1>2, <2>4, <2>9, <2>10, Recorded
  <2>12. Queued(U, g, x)
    <3>1. x \in Firsts(T, n)
      BY <2>3 DEF Firsts
    <3>2. x \in 1 .. g
      BY <1>1, <2>5, <3>1
    <3>3. Below({x}, Items(U)) /\ Items(U) \subseteq 1 .. g
      BY <1>1, <2>3, <2>4
    <3> HIDE DEF x
    <3>5. x \in 0 .. g
      BY <1>1, <3>2
    <3>4. g \in 0 .. MaxGiven
      BY <1>1, TerminalAssumption
    <3> QED  BY <2>4, <3>3, <3>4, <3>5 DEF Queued
  <2> QED  BY <2>1, <2>11, <2>12
<1> QED  BY <1>3, <1>4, <1>5

\* A read, when it starts and each time it starts over.
LEMMA AttemptKeeps ==
  ASSUME NEW T, NEW g, NEW started \in Reads, Queued(T, g, reached), Logged(log, T, g),
         given' = g, mode \in Modes, started.size > 0, Attempt(started, T)
  PROVE  /\ Queued(terminal', g, reached') /\ Logged(log', terminal', g)
         /\ read' \in Reads /\ phase' \in {"idle", "waiting"}
         /\ phase' = "waiting" => Missing(terminal', read')
<1> DEFINE R == Timing(started, T)
           W == [R EXCEPT !.timed = HasTimer(T), !.waited = TRUE,
                  !.wait_tail = IF R.waited THEN @ ELSE TailIndex(T),
                  !.found = IF R.waited THEN @ ELSE T]
<1>1. T \in Terminals /\ Len(T.queue) \in Nat /\ TailIndex(T) \in Index
  BY RoomHere, TerminalIs
<1>2. mode.canonical \in BOOLEAN /\ mode.vtime \in Nat /\ mode.vmin \in Nat
  BY TerminalAssumption DEF Settings
<1>3. HasTimer(T) \in BOOLEAN
  BY DEF HasTimer
<1>4. R \in Reads /\ R.size = started.size
  <2> DEFINE V == [started EXCEPT !.seen = Len(T.queue), !.elapsed = 0]
  <2>1. R = started \/ R = V
    BY DEF Timing
  <2> HIDE DEF R
  <2>2. V \in Reads /\ V.size = started.size
    BY <1>1 DEF Reads
  <2> QED  BY <2>1, <2>2
<1>5. R.size > 0
  BY <1>4
<1> HIDE DEF R
<1>6. EmptyTerminal \in Terminals
  BY IndicesAre, EmptySeq DEF EmptyTerminal, Terminals
<1>7. NoRead \in Reads
  BY <1>6, IndicesAre DEF NoRead, Reads
<1>8. CASE ~MustHalt(R, T)
  <2>1. phase' = "idle" /\ read' = NoRead /\ Take(R, T)
    BY <1>8 DEF Attempt, EndRead, R
  <2>2. Queued(terminal', g, reached') /\ Logged(log', terminal', g)
    BY <1>4, <1>5, <2>1, TakeKeeps
  <2> QED  BY <1>7, <2>1, <2>2
<1>9. CASE MustHalt(R, T) /\ R.interrupted
  <2>1. /\ phase' = "idle" /\ read' = NoRead /\ terminal' = T /\ reached' = reached
        /\ log' = Record(Entry(<<>>, FALSE, T, FALSE), R.barred)
    BY <1>9 DEF Attempt, EndRead, R
  <2>2. <<>> \in Journals /\ HoldsAll(<<>>) \subseteq Items(T) /\ Below(HoldsAll(<<>>), Items(T))
    BY NoRecord DEF Below
  <2>3. Logged(log', T, g)
    BY <1>1, <2>1, <2>2, Recorded
  <2> QED  BY <1>7, <2>1, <2>3
<1>10. CASE MustHalt(R, T) /\ ~R.interrupted
  <2>1. /\ phase' = "waiting" /\ terminal' = T /\ read' = W /\ log' = log /\ reached' = reached
    BY <1>10 DEF Attempt, R
  <2>2. W \in Reads /\ W.size = R.size
    BY <1>1, <1>3, <1>4 DEF Reads
  <2> HIDE DEF W
  <2>3. Need(W) = Need(R)
    BY <2>2 DEF Need
  <2>4. T.ends = <<>> /\ Len(T.queue) < Need(R)
    BY <1>10 DEF MustHalt
  <2>5. Missing(T, W)
    BY <1>5, <2>2, <2>3, <2>4 DEF Missing
  <2> QED  BY <2>1, <2>2, <2>5
<1> QED  BY <1>8, <1>9, <1>10

-----------------------------------------------------------------------------
(* Each action keeps the invariant. *)

LEMMA NoneRead == NoRead \in Reads /\ EmptyTerminal \in Terminals
                  /\ Placed(EmptyTerminal) /\ Items(EmptyTerminal) = {}
<1>1. EmptyTerminal \in Terminals
  BY IndicesAre, EmptySeq DEF EmptyTerminal, Terminals
<1>2. NoRead \in Reads
  BY <1>1, IndicesAre DEF NoRead, Reads
<1>3. EmptyTerminal.queue = <<>> /\ EmptyTerminal.ends = <<>>
  BY DEF EmptyTerminal
<1> QED  BY <1>1, <1>2, <1>3, EmptyPlaced

\* What TInv says of a queue that has been emptied.
LEMMA NothingQueued ==
  ASSUME NEW T, NEW U, NEW g, NEW last, Queued(T, g, last), Placed(U), Items(U) = {}
  PROVE  Queued(U, g, last)
BY DEF Queued, Below

LEMMA InitInv == Init => TInv
<1> SUFFICES ASSUME Init PROVE TInv
  OBVIOUS
<1>1. Queued(EmptyTerminal, 0, 0)
  BY NoneRead, TerminalAssumption DEF Queued, Below
<1>2. Logged(<<>>, EmptyTerminal, 0)
  BY NothingLogged
<1> QED  BY <1>1, <1>2, NoneRead, TerminalAssumption DEF Init, TInv

\* TInv of the next state, from its parts.
Kept ==
  /\ Queued(terminal', given', reached') /\ Logged(log', terminal', given')
  /\ mode' \in Modes /\ exited' \in BOOLEAN
  /\ read' \in Reads /\ phase' \in {"idle", "waiting"}
  /\ phase' = "waiting" => terminal'.ends = <<>> /\ read'.size > 0
                           /\ Len(terminal'.queue) < Need(read)'
LEMMA KeptIs == ASSUME Kept PROVE TInv'
BY DEF Kept, TInv, Queued, Logged, Missing

LEMMA NeedsSame ==
  ASSUME mode' = mode
  PROVE  Need(read)' = Need(read')
BY DEF Need

\* A step that attempts a read keeps TInv.
LEMMA AttemptInv ==
  ASSUME NEW T, NEW started \in Reads, given' \in 0 .. MaxGiven, Queued(T, given', reached),
         Logged(log, T, given'), mode \in Modes, exited \in BOOLEAN, started.size > 0,
         Attempt(started, T), mode' = mode, exited' = exited
  PROVE  TInv'
<1> DEFINE g == given'
<1>1. g = given'
  OBVIOUS
<1> HIDE DEF g
<1>2. /\ Queued(terminal', g, reached') /\ Logged(log', terminal', g)
      /\ read' \in Reads /\ phase' \in {"idle", "waiting"}
      /\ phase' = "waiting" => Missing(terminal', read')
  BY <1>1, AttemptKeeps
<1> QED  BY <1>1, <1>2, NeedsSame, KeptIs DEF Kept, Missing

LEMMA ReadInv ==
  ASSUME TInv, NEW size \in Sizes, NEW nonblock \in BOOLEAN, Read(size, nonblock)
  PROVE  TInv'
<1> DEFINE started == [NoRead EXCEPT !.size = size, !.nonblock = nonblock]
<1>1. /\ mode' = mode /\ exited' = exited /\ given' = given
      /\ Attempt(started, terminal)
  BY DEF Read
<1>2. size \in Nat /\ size > 0
  BY TerminalAssumption
<1>3. started \in Reads /\ started.size = size
  BY <1>2, NoneRead DEF Reads
<1> HIDE DEF started
<1>4. /\ given' \in 0 .. MaxGiven /\ Queued(terminal, given', reached) /\ Logged(log, terminal, given')
      /\ mode \in Modes /\ exited \in BOOLEAN
  BY <1>1 DEF TInv, Queued
<1>5. started.size > 0
  BY <1>2, <1>3
<1> QED  BY <1>1, <1>3, <1>4, <1>5, AttemptInv

LEMMA TickInv ==
  ASSUME TInv, Tick
  PROVE  TInv'
<1> DEFINE R == [read EXCEPT !.elapsed = @ + 1]
<1>1. /\ phase = "waiting" /\ read' = R
      /\ UNCHANGED <<terminal, mode, phase, exited, log, given, reached>>
  BY DEF Tick
<1>2. R \in Reads /\ R.size = read.size
  BY DEF TInv, Reads
<1> HIDE DEF R
<1>3. Need(read)' = Need(read)
  BY <1>1, <1>2 DEF Need
<1>4. Kept
  BY <1>1, <1>2, <1>3 DEF TInv, Kept, Missing
<1> QED  BY <1>4, KeptIs

LEMMA ResumeInv ==
  ASSUME TInv, Resume
  PROVE  TInv'
<1>1. /\ phase = "waiting" /\ mode' = mode /\ exited' = exited /\ given' = given
      /\ Attempt(read, terminal)
  BY DEF Resume
<1>2. /\ given' \in 0 .. MaxGiven /\ Queued(terminal, given', reached) /\ Logged(log, terminal, given')
      /\ mode \in Modes /\ exited \in BOOLEAN /\ read \in Reads /\ read.size > 0
  BY <1>1 DEF TInv, Queued, Missing
<1> QED  BY <1>1, <1>2, AttemptInv

LEMMA CancelInv ==
  ASSUME TInv, Cancel
  PROVE  TInv'
<1> DEFINE R == [read EXCEPT !.interrupted = TRUE]
<1>1. /\ phase = "waiting" /\ mode' = mode /\ exited' = exited /\ given' = given
      /\ Attempt(R, terminal)
  BY DEF Cancel
<1>2. /\ given' \in 0 .. MaxGiven /\ Queued(terminal, given', reached) /\ Logged(log, terminal, given')
      /\ mode \in Modes /\ exited \in BOOLEAN /\ read \in Reads /\ read.size > 0
  BY <1>1 DEF TInv, Queued, Missing
<1>3. R \in Reads /\ R.size = read.size
  BY <1>2 DEF Reads
<1> HIDE DEF R
<1>4. R.size > 0
  BY <1>2, <1>3
<1> QED  BY <1>1, <1>2, <1>3, <1>4, AttemptInv

\* Input: the read that waits is attempted again, and otherwise it queues.
LEMMA InputInv ==
  ASSUME TInv, NEW T, given' \in 0 .. MaxGiven, given <= given', Placed(T),
         Items(T) \subseteq Items(terminal) \cup (given + 1 .. given'),
         ResumeRead(T), mode' = mode, exited' = exited
  PROVE  TInv'
<1> DEFINE g == given
           h == given'
<1>1. /\ h \in 0 .. MaxGiven /\ g <= h /\ Items(T) \subseteq Items(terminal) \cup (g + 1 .. h)
      /\ Queued(terminal, g, reached) /\ Logged(log, terminal, g) /\ h = given'
  BY DEF TInv
<1> HIDE DEF g, h
<1>2. Queued(T, h, reached) /\ g \in Nat /\ h \in Nat
  BY <1>1, QueueLeft
<1>3. Logged(log, T, h)
  BY <1>1, <1>2, LogLeft
<1>4. CASE phase = "waiting"
  <2>1. Attempt(read, T)
    BY <1>4 DEF ResumeRead
  <2>2. mode \in Modes /\ exited \in BOOLEAN /\ read \in Reads /\ read.size > 0
    BY <1>4 DEF TInv, Missing
  <2> QED  BY <1>1, <1>2, <1>3, <2>1, <2>2, AttemptInv
<1>5. CASE phase # "waiting"
  <2>1. terminal' = T /\ UNCHANGED <<phase, read, log, reached>>
    BY <1>5 DEF ResumeRead
  <2>2. Kept
    BY <1>1, <1>2, <1>3, <1>5, <2>1 DEF Kept, TInv
  <2> QED  BY <2>2, KeptIs
<1> QED  BY <1>4, <1>5

LEMMA ProvideInputInv ==
  ASSUME TInv, NEW chunk \in Chunks, ProvideInput(chunk)
  PROVE  TInv'
<1> DEFINE T == Given(terminal, chunk)
           n == Len(chunk)
<1>1. /\ given + n <= MaxGiven /\ given' = given + n /\ mode' = mode /\ exited' = exited
      /\ ResumeRead(T)
  BY DEF ProvideInput
<1>2. chunk \in Seq(BOOLEAN) /\ n \in Nat
  BY TerminalAssumption, LenProperties
<1>3. Placed(terminal) /\ given \in Nat /\ Items(terminal) \subseteq 1 .. given
  BY TerminalAssumption DEF TInv, Queued
<1>4. T = Given(terminal, chunk)
  OBVIOUS
<1> HIDE DEF T
<1>5. Placed(T) /\ Items(T) \subseteq Items(terminal) \cup (given + 1 .. given + n)
  BY <1>2, <1>3, <1>4, GivenPlaced
<1> HIDE DEF n
<1>6. given' \in 0 .. MaxGiven /\ given <= given'
  BY <1>1, <1>2, <1>3, TerminalAssumption
<1> QED  BY <1>1, <1>5, <1>6, InputInv

LEMMA ProvideEndInv ==
  ASSUME TInv, ProvideEndOfInput
  PROVE  TInv'
<1> DEFINE T == [terminal EXCEPT
                   !.ends = Append(@, [at |-> TailIndex(terminal), id |-> given + 1])]
<1>1. /\ given < MaxGiven /\ given' = given + 1 /\ mode' = mode /\ exited' = exited
      /\ ResumeRead(T)
  BY DEF ProvideEndOfInput
<1>2. Queued(terminal, given, reached)
  BY DEF TInv
<1>3. /\ Placed(terminal) /\ given \in Nat /\ Items(terminal) \subseteq 1 .. given
      /\ Len(terminal.queue) \in Index
  BY <1>2, RoomHere
<1>4. T = TokenGiven(terminal)
  BY DEF TokenGiven
<1> HIDE DEF T
<1>5. Placed(T) /\ Items(T) \subseteq Items(terminal) \cup {given + 1}
  BY <1>3, <1>4, TokenPlaced
<1>6. given' \in 0 .. MaxGiven /\ given <= given' /\ given + 1 \in given + 1 .. given'
  BY <1>1, <1>3, TerminalAssumption
<1>7. Items(T) \subseteq Items(terminal) \cup (given + 1 .. given')
  BY <1>5, <1>6
<1> QED  BY <1>1, <1>5, <1>6, <1>7, InputInv

LEMMA FlushRecordIs ==
  ASSUME NEW T, Placed(T), Len(T.queue) \in Index
  PROVE  FlushRecord(T) \in FlushRecords /\ Holds(FlushRecord(T)) = Items(T)
<1> DEFINE tokens == [i \in DOMAIN T.ends |-> [at |-> Before(T.ends[i].at, T.position),
                                               id |-> T.ends[i].id]]
           r == [kind |-> "flush", bytes |-> T.queue, tokens |-> tokens]
<1>1. FlushRecord(T) = r
  BY DEF FlushRecord
<1>2. /\ T \in Terminals /\ T.queue \in Seq(Bytes) /\ T.position \in Index
      /\ DOMAIN T.ends = 1 .. Len(T.ends) /\ Len(T.ends) \in Nat
      /\ \A k \in DOMAIN T.ends : T.ends[k].at \in Index /\ T.ends[k].id \in Nat
      /\ Rising(T.queue) /\ Rising(T.ends)
  BY TerminalIs DEF Placed
<1>3. \A k \in DOMAIN T.ends : Place(T, k) \in Index
  BY <1>2, Moved DEF Place
<1>4. DOMAIN tokens = 1 .. Len(T.ends) /\ tokens = [i \in 1 .. Len(T.ends) |-> tokens[i]]
  BY <1>2
<1>5. \A k \in DOMAIN T.ends : tokens[k] = [at |-> Place(T, k), id |-> T.ends[k].id]
  BY DEF Place
<1> HIDE DEF tokens
<1>6. ASSUME NEW k \in DOMAIN T.ends
      PROVE  /\ tokens[k] \in Tokens /\ tokens[k].at = Place(T, k)
             /\ tokens[k].id = T.ends[k].id
  <2> DEFINE a == Place(T, k)
             b == T.ends[k].id
  <2>1. a \in Index /\ b \in Nat /\ tokens[k] = [at |-> a, id |-> b]
    BY <1>2, <1>3, <1>5
  <2> HIDE DEF a, b
  <2>2. tokens[k] \in Tokens /\ tokens[k].at = a /\ tokens[k].id = b
    BY <2>1 DEF Tokens
  <2> QED  BY <2>2 DEF a, b
<1> DEFINE n == Len(T.ends)
<1>7. /\ n \in Nat /\ DOMAIN tokens = 1 .. n /\ DOMAIN T.ends = 1 .. n
      /\ tokens = [i \in 1 .. n |-> tokens[i]] /\ \A i \in 1 .. n : tokens[i] \in Tokens
  BY <1>2, <1>4, <1>6
<1> HIDE DEF n
<1>8. tokens \in Seq(Tokens)
  BY <1>7
<1>9. Rising(tokens) /\ Nums(tokens) = Nums(T.ends)
  <2>1. \A k \in DOMAIN tokens : tokens[k].id = T.ends[k].id
    BY <1>6, <1>7
  <2> QED  BY <1>2, <1>7, <2>1 DEF Rising, Nums
<1>10. \A k \in DOMAIN tokens : At(T.queue, tokens[k].at, tokens[k].id)
  BY <1>2, <1>4, <1>6 DEF Placed
<1>11. r \in FlushRecords
  <2>1. r \in [kind : {"flush"}, bytes : Seq(Bytes), tokens : Seq(Tokens)]
    BY <1>2, <1>8
  <2>2. r.bytes = T.queue /\ r.tokens = tokens
    OBVIOUS
  <2> HIDE DEF r
  <2> QED  BY <1>2, <1>9, <1>10, <2>1, <2>2 DEF FlushRecords
<1>12. Holds(r) = Items(T)
  <2>1. r.kind = "flush" /\ r.bytes = T.queue /\ r.tokens = tokens /\ "flush" # "read"
    OBVIOUS
  <2> HIDE DEF r
  <2> QED  BY <1>9, <2>1 DEF Holds, Items
<1> QED  BY <1>1, <1>11, <1>12

\* What TCSETS records.
LEMMA ModeRecordIs ==
  ASSUME mode \in Modes
  PROVE  LET r == [kind |-> "mode", termios |-> mode]
         IN r \in Records /\ Holds(r) = {} /\ r.kind = "mode"
BY DEF Records, ModeRecords, Holds

LEMMA TwoRecords ==
  ASSUME NEW r \in Records, NEW m \in Records, m.kind = "mode"
  PROVE  <<r>> \o <<m>> \in Journals /\ HoldsAll(<<r>> \o <<m>>) = Holds(r)
<1> DEFINE a == <<r>>
           b == <<m>>
           rs == a \o b
<1>1. a \in Seq(Records) /\ Len(a) = 1 /\ a[1] = r /\ b \in Seq(Records) /\ Len(b) = 1 /\ b[1] = m
  OBVIOUS
<1> HIDE DEF a, b
<1>2. /\ rs \in Seq(Records) /\ Len(rs) = 2
      /\ \A i \in 1 .. 2 : rs[i] = IF i <= 1 THEN a[i] ELSE b[i - 1]
  <2>1. /\ rs \in Seq(Records) /\ Len(rs) = Len(a) + Len(b)
        /\ \A i \in 1 .. Len(a) + Len(b) :
             rs[i] = IF i <= Len(a) THEN a[i] ELSE b[i - Len(a)]
    BY <1>1, ConcatProperties
  <2> HIDE DEF rs
  <2> QED  BY <1>1, <2>1
<1>3. rs[1] = r /\ rs[2] = m
  BY <1>1, <1>2
<1>4. rs # <<>>
  BY <1>2, EmptySeq
<1> HIDE DEF rs
<1>5. rs \in Journals
  <2>1. Len(rs) <= 2
    BY <1>2
  <2> QED  BY <1>2, <1>3, <2>1 DEF Journals
<1>6. HoldsAll(rs) = Holds(r)
  BY <1>3, <1>4 DEF HoldsAll
<1> QED  BY <1>5, <1>6 DEF rs, a, b

LEMMA IoctlInv ==
  ASSUME TInv, NEW flush \in BOOLEAN, NEW settings \in Modes, Ioctl(flush, settings)
  PROVE  TInv'
<1> DEFINE flushes == flush /\ HasInput(terminal)
           U == IF flush THEN Flushed(terminal) ELSE terminal
           first == IF flushes THEN <<FlushRecord(terminal)>> ELSE <<>>
           second == IF settings # mode THEN <<[kind |-> "mode", termios |-> mode]>> ELSE <<>>
           rs == first \o second
<1>1. /\ phase = "idle" /\ UNCHANGED <<phase, read, exited, given, reached>>
      /\ terminal' = U /\ mode' = settings
      /\ log' = Append(log, Entry(rs, FALSE, terminal, FALSE))
  BY DEF Ioctl, Executes
<1>2. /\ Queued(terminal, given, reached) /\ Logged(log, terminal, given) /\ mode \in Modes
      /\ read \in Reads /\ exited \in BOOLEAN
  BY DEF TInv
<1>3. terminal \in Terminals /\ Placed(terminal) /\ Len(terminal.queue) \in Index
  BY <1>2, RoomHere
<1>4. FlushRecord(terminal) \in Records /\ Holds(FlushRecord(terminal)) = Items(terminal)
  BY <1>3, FlushRecordIs DEF Records
<1>5. /\ rs \in Journals
      /\ HoldsAll(rs) = IF flushes THEN Items(terminal) ELSE {}
  <2> DEFINE r == FlushRecord(terminal)
             m == [kind |-> "mode", termios |-> mode]
  <2>1. m \in Records /\ Holds(m) = {} /\ m.kind = "mode" /\ r \in Records /\ Holds(r) = Items(terminal)
    BY <1>2, <1>4, ModeRecordIs
  <2>2. /\ first = IF flushes THEN <<r>> ELSE <<>>
        /\ second = IF settings # mode THEN <<m>> ELSE <<>>
    OBVIOUS
  <2> HIDE DEF r, m, flushes, first, second
  <2>3. CASE flushes /\ settings # mode
    <3>1. rs = <<r>> \o <<m>>
      BY <2>2, <2>3
    <3> QED  BY <2>1, <2>3, <3>1, TwoRecords
  <2>4. CASE flushes /\ settings = mode
    <3>1. <<r>> \in Seq(Records)
      BY <2>1
    <3>2. rs = <<r>>
      BY <2>2, <2>4, <3>1, ConcatEmptySeq
    <3> QED  BY <2>1, <2>4, <3>2, OneRecord
  <2>5. CASE ~flushes /\ settings # mode
    <3>1. <<m>> \in Seq(Records)
      BY <2>1
    <3>2. rs = <<m>>
      BY <2>2, <2>5, <3>1, ConcatEmptySeq
    <3> QED  BY <2>1, <2>5, <3>2, OneRecord
  <2>6. CASE ~flushes /\ settings = mode
    <3>1. <<>> \in Seq(Records)
      BY EmptySeq
    <3>2. rs = <<>>
      BY <2>2, <2>6, <3>1, ConcatEmptySeq
    <3> QED  BY <2>6, <3>2, NoRecord
  <2> QED  BY <2>3, <2>4, <2>5, <2>6
<1> HIDE DEF rs
<1>6. /\ Placed(U) /\ Items(U) \subseteq Items(terminal) /\ HoldsAll(rs) \subseteq Items(terminal)
      /\ Below(HoldsAll(rs), Items(U)) /\ (Items(U) = {} \/ U = terminal)
  <2>1. CASE flush
    <3>1. U = Flushed(terminal)
      BY <2>1
    <3> HIDE DEF U
    <3>2. Placed(U) /\ Items(U) = {}
      BY <1>3, <3>1, FlushedPlaced
    <3> QED  BY <1>5, <3>2 DEF Below
  <2>2. CASE ~flush
    BY <1>3, <1>5, <2>2 DEF Below
  <2> QED  BY <2>1, <2>2
<1>7. log' = Record(Entry(rs, FALSE, terminal, FALSE), FALSE)
  BY <1>1 DEF Record
<1> HIDE DEF U
<1>8. Logged(log', U, given)
  BY <1>1, <1>2, <1>3, <1>5, <1>6, <1>7, Recorded
<1>9. Queued(U, given, reached)
  BY <1>2, <1>6, NothingQueued
<1>10. Kept
  BY <1>1, <1>2, <1>8, <1>9 DEF Kept
<1> QED  BY <1>10, KeptIs

LEMMA NeedIs ==
  ASSUME mode \in Modes, NEW R, R.size \in Nat, R.size > 0
  PROVE  Need(R) \in Nat /\ Need(R) > 0
<1>1. mode.vmin \in Nat
  BY TerminalAssumption DEF Settings
<1>2. CASE mode.canonical \/ mode.vmin = 0
  BY <1>2 DEF Need
<1>3. CASE ~(mode.canonical \/ mode.vmin = 0)
  <2> DEFINE a == mode.vmin
             b == R.size
  <2>1. Need(R) = Min({a, b}) /\ a \in Nat /\ b \in Nat /\ a > 0 /\ b > 0
    BY <1>1, <1>3 DEF Need
  <2> HIDE DEF a, b
  <2>2. Min({a, b}) = IF a <= b THEN a ELSE b
    BY <2>1, MinOfTwo
  <2> QED  BY <2>1, <2>2
<1> QED  BY <1>2, <1>3

LEMMA SignalInv ==
  ASSUME TInv, NEW handled \in BOOLEAN, SendSignal(handled)
  PROVE  TInv'
<1> DEFINE U == IF mode.noflsh THEN terminal ELSE Flushed(terminal)
           R == [read EXCEPT !.interrupted = @ \/ handled, !.barred = TRUE]
<1>1. /\ terminal' = U /\ log' = <<>> /\ read' = (IF phase = "waiting" THEN R ELSE read)
      /\ UNCHANGED <<mode, phase, exited, given, reached>>
  BY DEF SendSignal
<1>2. /\ Queued(terminal, given, reached) /\ mode \in Modes /\ read \in Reads
      /\ exited \in BOOLEAN /\ phase \in {"idle", "waiting"}
      /\ phase = "waiting" => Missing(terminal, read)
  BY DEF TInv
<1>3. Placed(terminal) /\ Len(terminal.queue) \in Index
  BY <1>2, RoomHere
<1>4. R \in Reads /\ R.size = read.size
  BY <1>2 DEF Reads
<1> HIDE DEF R
<1>5. Need(R) = Need(read)
  BY <1>4 DEF Need
<1>6. /\ Queued(U, given, reached)
      /\ (U = terminal \/ (U.queue = <<>> /\ U.ends = <<>>))
  <2>1. CASE mode.noflsh
    BY <1>2, <2>1
  <2>2. CASE ~mode.noflsh
    <3>1. U = Flushed(terminal)
      BY <2>2
    <3> HIDE DEF U
    <3>2. Placed(U) /\ Items(U) = {} /\ U.queue = <<>> /\ U.ends = <<>>
      BY <1>3, <3>1, FlushedPlaced
    <3> QED  BY <1>2, <3>2, NothingQueued
  <2> QED  BY <2>1, <2>2
<1> HIDE DEF U
<1>7. phase = "waiting" => Missing(U, R)
  <2> SUFFICES ASSUME phase = "waiting" PROVE Missing(U, R)
    OBVIOUS
  <2>1. read.size \in Nat /\ read.size > 0 /\ Missing(terminal, read)
    BY <1>2 DEF Reads, Missing
  <2>2. Need(R) \in Nat /\ Need(R) > 0
    BY <1>2, <1>5, <2>1, NeedIs
  <2>3. CASE U = terminal
    BY <1>4, <1>5, <2>1, <2>3 DEF Missing
  <2>4. CASE U.queue = <<>> /\ U.ends = <<>>
    <3>1. Len(U.queue) = 0
      BY <2>4, EmptySeq
    <3> QED  BY <1>4, <2>1, <2>2, <2>4, <3>1 DEF Missing
  <2> QED  BY <1>6, <2>3, <2>4
<1>8. Logged(<<>>, U, given)
  BY NothingLogged
<1>9. Need(read)' = Need(read')
  BY <1>1, NeedsSame
<1>10. Kept
  BY <1>1, <1>2, <1>4, <1>6, <1>7, <1>8, <1>9 DEF Kept, Missing
<1> QED  BY <1>10, KeptIs

LEMMA UndoInv ==
  ASSUME TInv, Undo
  PROVE  TInv'
<1> DEFINE e == Last(log)
           U == FoldRight(UndoRecord, e.records, terminal)
           modes == {i \in DOMAIN e.records : e.records[i].kind = "mode"}
<1>1. /\ phase = "idle" /\ log # <<>> /\ terminal' = U
      /\ mode' = (IF modes = {} THEN mode ELSE e.records[Min(modes)].termios)
      /\ exited' = (exited /\ ~e.exits) /\ log' = Front(log) /\ reached' = e.reached
      /\ UNCHANGED <<phase, read, given>>
  BY DEF Undo
<1>2. /\ Queued(terminal, given, reached) /\ Logged(log, terminal, given) /\ mode \in Modes
      /\ read \in Reads
  BY DEF TInv
<1>3. /\ Placed(terminal) /\ given \in Nat /\ Items(terminal) \subseteq 1 .. given
      /\ given \in 0 .. MaxGiven
  BY <1>2, RoomHere DEF Queued
<1>4. Items(terminal) \subseteq Items(terminal) \cup HoldsAll(Last(log).records)
  OBVIOUS
<1>5. e \in Entries /\ EntryKept(e, terminal, given)
  BY <1>1, <1>2, <1>3, <1>4, LogShrinks
<1> HIDE DEF e
<1>6. e.records \in Journals /\ e.reached \in Nat
  BY <1>5, EntryIs
<1>7. /\ HoldsAll(e.records) \subseteq 1 .. given /\ e.reached <= given
      /\ Below({e.reached}, HoldsAll(e.records)) /\ Below(Part(e), Items(terminal))
  BY <1>5 DEF EntryKept
<1>8. Fits(terminal, HoldsAll(e.records), given)
  BY <1>3, <1>7 DEF Fits, Below, Part
<1> HIDE DEF U
<1>9. Placed(U) /\ Items(U) \subseteq Items(terminal) \cup HoldsAll(e.records)
  BY <1>6, <1>8, Undone DEF U
<1>10. Logged(log', U, given)
  BY <1>1, <1>2, <1>3, <1>9, LogShrinks DEF e
<1>11. Queued(U, given, e.reached)
  <2>1. Items(U) \subseteq 1 .. given
    BY <1>3, <1>7, <1>9
  <2>2. Below({e.reached}, Items(U))
    BY <1>7, <1>9 DEF Below, Part
  <2>3. e.reached \in 0 .. given
    BY <1>3, <1>6, <1>7
  <2> QED  BY <1>3, <1>9, <2>1, <2>2, <2>3 DEF Queued
<1>12. mode' \in Modes
  <2>1. CASE modes = {}
    BY <1>1, <1>2, <2>1
  <2>2. CASE modes # {}
    <3>1. /\ DOMAIN e.records = 1 .. Len(e.records) /\ Len(e.records) \in Nat
          /\ \A i \in DOMAIN e.records : e.records[i] \in Records
      BY <1>6, SeqIs DEF Journals
    <3>2. modes \in SUBSET Nat /\ \A i \in modes : i \in DOMAIN e.records /\ e.records[i].kind = "mode"
      BY <3>1
    <3> HIDE DEF modes
    <3>3. PICK n \in modes : \A m \in modes : n <= m
      BY <2>2, <3>2, Least, Zenon
    <3>4. Min(modes) = n
      BY <3>2, <3>3, MinIs
    <3>5. e.records[n] \in ModeRecords
      BY <3>1, <3>2, RecordIs
    <3> QED  BY <1>1, <2>2, <3>4, <3>5 DEF ModeRecords
  <2> QED  BY <2>1, <2>2
<1>13. exited' \in BOOLEAN
  BY <1>1
<1>14. Kept
  BY <1>1, <1>2, <1>10, <1>11, <1>12, <1>13 DEF Kept
<1> QED  BY <1>14, KeptIs

\* The entries marked, once the program has ended.
LEMMA LogMarked ==
  ASSUME NEW K, NEW T, NEW g, Logged(K, T, g),
         NEW M, M = [i \in DOMAIN K |-> [K[i] EXCEPT !.cleared = TRUE]]
  PROVE  Logged(M, T, g)
<1>1. /\ K \in Seq(Entries) /\ InTurn(K) /\ Len(K) \in Nat /\ DOMAIN K = 1 .. Len(K)
      /\ \A i \in DOMAIN K : K[i] \in Entries /\ EntryKept(K[i], T, g)
  BY SeqIs DEF Logged
<1>2. ASSUME NEW i \in DOMAIN K
      PROVE  /\ M[i] \in Entries /\ M[i].records = K[i].records /\ M[i].reached = K[i].reached
  <2> DEFINE e == K[i]
  <2>1. e \in Entries /\ M[i] = [e EXCEPT !.cleared = TRUE]
    BY <1>1
  <2> HIDE DEF e
  <2>2. M[i] \in Entries /\ M[i].records = e.records /\ M[i].reached = e.reached
    BY <2>1 DEF Entries
  <2> QED  BY <2>2 DEF e
<1> DEFINE n == Len(K)
<1>3. n \in Nat /\ DOMAIN M = 1 .. n /\ DOMAIN K = 1 .. n /\ M = [i \in 1 .. n |-> M[i]]
  BY <1>1
<1> HIDE DEF n
<1>4. M \in Seq(Entries)
  <2>1. \A i \in 1 .. n : M[i] \in Entries
    BY <1>2, <1>3
  <2> QED  BY <1>3, <2>1
<1>5. InTurn(M)
  <2>1. \A i \in DOMAIN M : /\ i \in DOMAIN K /\ Part(M[i]) = Part(K[i])
                            /\ HoldsAll(M[i].records) = HoldsAll(K[i].records)
    BY <1>2, <1>3 DEF Part
  <2> QED  BY <1>1, <2>1 DEF InTurn
<1>6. \A i \in DOMAIN M : EntryKept(M[i], T, g)
  BY <1>1, <1>2, <1>3 DEF EntryKept, Part
<1> QED  BY <1>4, <1>5, <1>6 DEF Logged

LEMMA ExitInv ==
  ASSUME TInv, NEW killed \in BOOLEAN, Exit(killed)
  PROVE  TInv'
<1> DEFINE U == EmptyTerminal
           e == Entry(<<>>, TRUE, terminal, FALSE)
           K == Append(log, e)
           M == [i \in DOMAIN K |-> [K[i] EXCEPT !.cleared = TRUE]]
<1>1. /\ UNCHANGED <<mode, given, reached>> /\ exited' = TRUE /\ terminal' = U
      /\ phase' = "idle" /\ read' = NoRead
      /\ log' = IF killed THEN <<>>
                ELSE [i \in 1 .. Len(log) + 1 |-> [K[i] EXCEPT !.cleared = TRUE]]
  BY DEF Exit, EndRead
<1>2. /\ Queued(terminal, given, reached) /\ Logged(log, terminal, given) /\ mode \in Modes
      /\ read \in Reads
  BY DEF TInv
<1>3. Placed(U) /\ Items(U) = {} /\ terminal \in Terminals
  BY <1>2, NoneRead, RoomHere
<1> HIDE DEF U
<1>4. Queued(U, given, reached)
  BY <1>2, <1>3, NothingQueued
<1>5. Logged(log', U, given)
  <2>1. CASE killed
    BY <1>1, <2>1, NothingLogged
  <2>2. CASE ~killed
    <3>1. /\ given \in Nat /\ Items(terminal) \subseteq 1 .. given /\ reached \in Nat
          /\ reached <= given /\ Below({reached}, Items(terminal))
      BY <1>2, RoomHere
    <3>2. e \in Entries /\ e.records = <<>> /\ e.reached = reached
      BY <1>1, <1>2, <1>3, <3>1, NoRecord DEF Entry, Entries
    <3>3. DOMAIN K = 1 .. Len(log) + 1
      <4>1. log \in Seq(Entries)
        BY <1>2 DEF Logged
      <4>2. K \in Seq(Entries) /\ Len(K) = Len(log) + 1
        BY <3>2, <4>1, AppendProperties
      <4> HIDE DEF K
      <4> QED  BY <4>2, LenProperties
    <3> HIDE DEF e
    <3>4. /\ HoldsAll(e.records) \subseteq Items(terminal) /\ Below(HoldsAll(e.records), Items(U))
          /\ e.reached <= given /\ Below({e.reached}, Items(terminal))
          /\ Items(U) \subseteq Items(terminal)
      BY <1>3, <3>1, <3>2, NoRecord DEF Below
    <3>5. Logged(K, U, given)
      BY <1>2, <3>1, <3>2, <3>4, LogGrows
    <3>6. log' = M
      BY <1>1, <2>2, <3>3
    <3> HIDE DEF K
    <3>7. Logged(M, U, given)
      BY <3>5, LogMarked
    <3> HIDE DEF M
    <3> QED  BY <3>6, <3>7
  <2> QED  BY <2>1, <2>2
<1>6. Kept
  BY <1>1, <1>2, <1>4, <1>5, NoneRead DEF Kept
<1> QED  BY <1>6, KeptIs

LEMMA StartInv ==
  ASSUME TInv, NEW built \in BOOLEAN, StartProgram(built)
  PROVE  TInv'
<1> DEFINE U == IF exited /\ ~built THEN terminal ELSE EmptyTerminal
<1>1. /\ terminal' = U /\ mode' = DefaultMode /\ exited' = FALSE /\ log' = <<>>
      /\ phase' = "idle" /\ read' = NoRead /\ UNCHANGED <<given, reached>>
  BY DEF StartProgram, EndRead
<1>2. Queued(terminal, given, reached)
  BY DEF TInv
<1>3. Queued(U, given, reached)
  BY <1>2, NoneRead, NothingQueued
<1> HIDE DEF U
<1>4. Kept
  BY <1>1, <1>3, NoneRead, NothingLogged, TerminalAssumption DEF Kept
<1> QED  BY <1>4, KeptIs

LEMMA StepInv ==
  ASSUME TInv, [Next]_vars
  PROVE  TInv'
<1>1. CASE UNCHANGED vars
  <2>1. UNCHANGED <<terminal, mode, phase, read, exited, log, given, reached>>
    BY <1>1 DEF vars
  <2>2. Need(read)' = Need(read)
    BY <2>1 DEF Need
  <2>3. Kept
    BY <2>1, <2>2 DEF TInv, Kept, Missing
  <2> QED  BY <2>3, KeptIs
<1>2. CASE Next
  <2>1. CASE \E size \in Sizes, nonblock \in BOOLEAN : Read(size, nonblock)
    BY <2>1, ReadInv
  <2>2. CASE Tick
    BY <2>2, TickInv
  <2>3. CASE Resume
    BY <2>3, ResumeInv
  <2>4. CASE Cancel
    BY <2>4, CancelInv
  <2>5. CASE \E chunk \in Chunks : ProvideInput(chunk)
    BY <2>5, ProvideInputInv
  <2>6. CASE ProvideEndOfInput
    BY <2>6, ProvideEndInv
  <2>7. CASE \E flush \in BOOLEAN, settings \in Modes : Ioctl(flush, settings)
    BY <2>7, IoctlInv
  <2>8. CASE \E handled \in BOOLEAN : SendSignal(handled)
    BY <2>8, SignalInv
  <2>9. CASE Undo
    BY <2>9, UndoInv
  <2>10. CASE \E killed \in BOOLEAN : Exit(killed)
    BY <2>10, ExitInv
  <2>11. CASE \E built \in BOOLEAN : StartProgram(built)
    BY <2>11, StartInv
  <2> QED  BY <1>2, <2>1, <2>2, <2>3, <2>4, <2>5, <2>6, <2>7, <2>8, <2>9, <2>10, <2>11 DEF Next
<1> QED  BY <1>1, <1>2

-----------------------------------------------------------------------------
(* The theorems. *)

\* What the log, the queue and the read under way keep, in every state.
THEOREM TerminalInvariantHolds == Spec => []TInv
<1>1. Init => TInv
  BY InitInv
<1>2. TInv /\ [Next]_vars => TInv'
  BY StepInv
<1> QED  BY <1>1, <1>2, PTL DEF Spec

\* The numbers of what rises ascend.
LEMMA IdsAscend ==
  ASSUME NEW S, NEW seq \in Seq(S), Rising(seq), Nums(seq) \subseteq Nat
  PROVE  /\ Ascending(Ids(seq)) /\ Ids(seq) \in Seq(Nat) /\ DOMAIN Ids(seq) = DOMAIN seq
         /\ \A i \in DOMAIN seq : Ids(seq)[i] = seq[i].id /\ Ids(seq)[i] \in Nums(seq)
<1> DEFINE ids == Ids(seq)
           n == Len(seq)
<1>1. n \in Nat /\ DOMAIN seq = 1 .. n
  BY SeqIs
<1>2. ids = [i \in 1 .. n |-> seq[i].id]
  BY <1>1 DEF Ids
<1>3. \A i \in 1 .. n : seq[i].id \in Nums(seq) /\ seq[i].id \in Nat
  BY <1>1 DEF Nums
<1> HIDE DEF ids, n
<1>4. DOMAIN ids = 1 .. n /\ \A i \in 1 .. n : ids[i] = seq[i].id
  BY <1>2
<1>5. ids \in Seq(Nat)
  BY <1>1, <1>2, <1>3
<1>6. Ascending(ids)
  BY <1>1, <1>4 DEF Ascending, Rising
<1> QED  BY <1>1, <1>3, <1>4, <1>5, <1>6 DEF ids

\* One before them all keeps them ascending.
LEMMA FirstAscends ==
  ASSUME NEW x \in Nat, NEW ids \in Seq(Nat), Ascending(ids), \A i \in DOMAIN ids : x < ids[i]
  PROVE  Ascending(<<x>> \o ids)
<1> DEFINE a == <<x>>
           u == a \o ids
           n == Len(ids)
<1>1. a \in Seq(Nat) /\ Len(a) = 1 /\ a[1] = x
  OBVIOUS
<1>2. n \in Nat /\ DOMAIN ids = 1 .. n /\ \A i \in DOMAIN ids : ids[i] \in Nat
  BY SeqIs
<1> HIDE DEF a
<1>3. /\ u \in Seq(Nat) /\ Len(u) = 1 + n
      /\ \A i \in 1 .. 1 + n : u[i] = IF i <= 1 THEN a[i] ELSE ids[i - 1]
  <2>1. /\ u \in Seq(Nat) /\ Len(u) = Len(a) + n
        /\ \A i \in 1 .. Len(a) + n : u[i] = IF i <= Len(a) THEN a[i] ELSE ids[i - Len(a)]
    BY <1>1, ConcatProperties
  <2> HIDE DEF u, n
  <2> QED  BY <1>1, <2>1
<1>4. DOMAIN u = 1 .. 1 + n
  <2> HIDE DEF u
  <2> QED  BY <1>3, LenProperties
<1> HIDE DEF u, n
<1>5. ASSUME NEW i \in DOMAIN u, NEW j \in DOMAIN u, i < j
      PROVE  u[i] < u[j]
  <2> DEFINE h == i - 1
             l == j - 1
  <2>1. i \in 1 .. 1 + n /\ j \in 1 .. 1 + n /\ i < j /\ n \in Nat
    BY <1>2, <1>4, <1>5
  <2>2. l \in 1 .. n /\ ~(j <= 1) /\ (i # 1 => h \in 1 .. n /\ ~(i <= 1) /\ h < l)
    BY <2>1
  <2>3. u[j] = ids[l] /\ (i # 1 => u[i] = ids[h])
    BY <1>3, <2>1, <2>2
  <2> HIDE DEF h, l
  <2>4. CASE i = 1
    <3>1. u[i] = x
      BY <1>1, <1>2, <1>3, <2>4
    <3> QED  BY <1>2, <2>2, <2>3, <3>1
  <2>5. CASE i # 1
    BY <1>2, <2>5, <2>2, <2>3 DEF Ascending
  <2> QED  BY <2>4, <2>5
<1> QED  BY <1>5 DEF Ascending, u

\* A token's place is the number of bytes given before it.
LEMMA AheadIs ==
  ASSUME NEW T, Placed(T), NEW k \in DOMAIN T.ends
  PROVE  Before(T.ends[k].at, T.position) = Ahead(T, k)
<1> DEFINE d == Place(T, k)
           S == {i \in DOMAIN T.queue : T.queue[i].id < T.ends[k].id}
<1>1. /\ T \in Terminals /\ DOMAIN T.queue = 1 .. Len(T.queue) /\ Len(T.queue) \in Nat
      /\ T.ends[k].id \in Nat /\ \A i \in DOMAIN T.queue : T.queue[i].id \in Nat
  BY TerminalIs DEF Placed
<1>2. /\ d \in 0 .. Len(T.queue)
      /\ \A i \in DOMAIN T.queue : (i <= d => T.queue[i].id < T.ends[k].id)
                                   /\ (i > d => T.queue[i].id > T.ends[k].id)
  BY DEF Placed, At
<1> HIDE DEF d
<1>3. S = 1 .. d
  <2>1. ASSUME NEW i \in DOMAIN T.queue PROVE T.queue[i].id < T.ends[k].id <=> i <= d
    <3>1. i \in Nat /\ d \in Nat /\ T.queue[i].id \in Nat /\ T.ends[k].id \in Nat
      BY <1>1, <1>2
    <3> QED  BY <1>2, <3>1
  <2>2. \A i \in 1 .. d : i \in DOMAIN T.queue /\ i <= d
    BY <1>1, <1>2
  <2>3. \A i \in DOMAIN T.queue : i <= d => i \in 1 .. d
    BY <1>1, <1>2
  <2> QED  BY <2>1, <2>2, <2>3
<1>4. Cardinality(S) = d
  <2> HIDE DEF S
  <2>1. Cardinality(1 .. d) = IF 1 > d THEN 0 ELSE d - 1 + 1
    BY <1>1, <1>2, FS_Interval
  <2> QED  BY <1>1, <1>2, <1>3, <2>1
<1> QED  BY <1>4 DEF Ahead, Place, d

\* Bytes reach the program once and in the order given, each token at its place among
\* them, whatever is read, undone, flushed or forgotten (terminal.c:85).
THEOREM InOrderHolds == Spec => []InOrder
<1>1. TInv => InOrder
  <2> SUFFICES ASSUME TInv PROVE InOrder
    OBVIOUS
  <2>1. /\ Queued(terminal, given, reached) /\ Logged(log, terminal, given) /\ mode \in Modes
        /\ exited \in BOOLEAN /\ read \in Reads /\ phase \in {"idle", "waiting"}
    BY DEF TInv
  <2>2. /\ terminal \in Terminals /\ Placed(terminal) /\ given \in Nat
        /\ reached \in Nat /\ reached <= given /\ Below({reached}, Items(terminal))
    BY <2>1, RoomHere
  <2>3. TypeOK
    <3>1. \A i \in DOMAIN log : log[i] \in Entries
      BY <2>1, SeqIs DEF Logged
    <3>2. \A i \in DOMAIN log : log[i].found \in Terminals /\ log[i].mode \in Modes
      BY <3>1, EntryIs
    <3>3. read.size \in Nat /\ read.wait_tail \in Index /\ read.found \in Terminals
      BY <2>1 DEF Reads
    <3>4. reached \in 0 .. given
      BY <2>2
    <3> QED  BY <2>1, <2>2, <3>2, <3>3, <3>4 DEF TypeOK
  <2>4. /\ terminal.queue \in Seq(Bytes) /\ Rising(terminal.queue)
        /\ terminal.ends \in Seq(Tokens) /\ Rising(terminal.ends)
        /\ Nums(terminal.queue) \subseteq Nat /\ Nums(terminal.ends) \subseteq Nat
    BY <2>2, TerminalIs DEF Placed, Items
  <2>5. /\ Ascending(Ids(terminal.queue)) /\ Ids(terminal.queue) \in Seq(Nat)
        /\ \A i \in DOMAIN Ids(terminal.queue) : Ids(terminal.queue)[i] \in Nums(terminal.queue)
    BY <2>4, IdsAscend
  <2>6. Ascending(Ids(terminal.ends))
    BY <2>4, IdsAscend
  <2>7. Ascending(<<reached>> \o Ids(terminal.queue))
    <3> DEFINE ids == Ids(terminal.queue)
    <3>1. \A i \in DOMAIN ids : reached < ids[i]
      BY <2>2, <2>5 DEF Below, Items
    <3>2. ids \in Seq(Nat) /\ Ascending(ids)
      BY <2>5
    <3> HIDE DEF ids
    <3>3. Ascending(<<reached>> \o ids)
      BY <2>2, <3>1, <3>2, FirstAscends
    <3> QED  BY <3>3 DEF ids
  <2>8. \A k \in DOMAIN terminal.ends :
          Before(terminal.ends[k].at, terminal.position) = Ahead(terminal, k)
    BY <2>2, AheadIs
  <2> QED  BY <2>3, <2>6, <2>7, <2>8 DEF InOrder
<1> QED  BY <1>1, TerminalInvariantHolds, PTL

\* A read is left waiting only while there is no token, and too few bytes for it
\* (provideInput, WaitForTerminalInput).
THEOREM NoneMissedHolds == Spec => []NoneMissed
<1>1. TInv => NoneMissed
  BY DEF TInv, Missing, NoneMissed
<1> QED  BY <1>1, TerminalInvariantHolds, PTL
=============================================================================
