----------------------------- MODULE EvdevProofs -----------------------------
(***************************************************************************)
(* What Evdev guarantees for any readers, keys, locks, packets and sizes:  *)
(* packets are read whole, no wait misses one, the console's LEDs follow   *)
(* its locks, and undo gives back what a call found.                       *)
(*                                                                         *)
(* First folds, as functions of a place in the sequence folded; then what  *)
(* a packet does to a reader (Grown: more behind, or a loss), an event and *)
(* several to the device (DoesAll), and a flush to a queue.  Then undo: of *)
(* a record, of an entry for each reader (LinkOf) and for the device       *)
(* (Looks), and the log that ties each entry to the next (LogOK).  Last    *)
(* the inductive invariant IInv, one action after another.                 *)
(***************************************************************************)
EXTENDS Evdev, TLAPS, WellFoundedInduction, SequenceTheorems, FiniteSetTheorems

-----------------------------------------------------------------------------
(* Numbers, and folds over a sequence. *)

LEMMA Least ==
  ASSUME NEW S \in SUBSET Nat, S # {}
  PROVE  \E n \in S : \A m \in S : n <= m
<1>1. \E n \in S : \A m \in S : ~(<<m, n>> \in OpToRel(<, Nat))
  BY NatLessThanWellFounded, WFMin, Zenon
<1>2. PICK n \in S : \A m \in S : ~(<<m, n>> \in OpToRel(<, Nat))
  BY <1>1, Zenon
<1>3. \A m \in Nat : m < n => <<m, n>> \in OpToRel(<, Nat)
  BY DEF OpToRel
<1>4. \A m \in S : m \in Nat /\ n \in Nat
  OBVIOUS
<1>5. \A m \in S : ~(m < n)
  BY <1>2, <1>3, <1>4, Zenon
<1> QED  BY <1>4, <1>5

\* What holds at the start and is kept by each step holds at the end.
LEMMA UpTo ==
  ASSUME NEW n \in Nat, NEW S, 0 \in S, \A j \in 1 .. n : j - 1 \in S => j \in S
  PROVE  \A j \in 0 .. n : j \in S
<1> DEFINE Bad == {j \in 0 .. n : j \notin S}
<1>1. SUFFICES ASSUME Bad # {} PROVE FALSE
  OBVIOUS
<1>2. Bad \in SUBSET Nat
  OBVIOUS
<1>3. PICK b \in Bad : \A m \in Bad : b <= m
  BY <1>1, <1>2, Least
<1>4. b # 0 /\ b \in 1 .. n /\ b - 1 \in 0 .. n
  BY <1>3
<1>5. b - 1 \notin Bad
  BY <1>3, <1>4
<1>6. b - 1 \in S
  BY <1>4, <1>5
<1> QED  BY <1>3, <1>4, <1>6

LEMMA MaxIs ==
  ASSUME NEW S, S \subseteq Int, NEW m \in S, \A x \in S : x <= m
  PROVE  Max(S) = m
<1>1. \A x \in S : (\A y \in S : x >= y) => x = m
  OBVIOUS
<1> QED  BY <1>1 DEF Max

LEMMA MinIs ==
  ASSUME NEW S, S \subseteq Int, NEW m \in S, \A x \in S : m <= x
  PROVE  Min(S) = m
<1>1. \A x \in S : (\A y \in S : x =< y) => x = m
  OBVIOUS
<1> QED  BY <1>1 DEF Min

\* The folds of the model, told apart by a name.
Step(fold, x, y) ==
  CASE fold.op = "pass" -> PassUnlessFiltered(x, y)
    [] fold.op = "handle" -> HandleEvent(x, y)
    [] fold.op = "fire" ->
         IF y \in fold.on THEN HandleEvent(x, Led(y, Bit(y \in x.dev.leds))) ELSE x
    [] OTHER -> Seen(x, y)
Passes == [op |-> "pass", on |-> {}]
Handles == [op |-> "handle", on |-> {}]
Fires(changed) == [op |-> "fire", on |-> changed]
Sees == [op |-> "see", on |-> {}]
Folds(fold, base, seq, n, f) ==
  f = [s \in SUBSET (1 .. n) |->
         IF s = {} THEN base ELSE Step(fold, f[s \ {Max(s)}], seq[Max(s)])]

LEMMA FoldExists ==
  ASSUME NEW fold, NEW base, NEW seq, NEW n \in Nat
  PROVE  \E f : Folds(fold, base, seq, n, f)
<1> DEFINE S == {j \in 0 .. n : \E f : Folds(fold, base, seq, j, f)}
<1>1. 0 \in S
  <2>1. SUBSET (1 .. 0) = {{}}
    <3>1. 1 .. 0 = {}
      OBVIOUS
    <3> QED  BY <3>1
  <2> DEFINE f == [s \in SUBSET (1 .. 0) |-> base]
  <2>2. f = [s \in SUBSET (1 .. 0) |->
               IF s = {} THEN base ELSE Step(fold, f[s \ {Max(s)}], seq[Max(s)])]
    <3>1. \A s \in SUBSET (1 .. 0) : s = {}
      BY <2>1
    <3>2. [s \in SUBSET (1 .. 0) |->
             IF s = {} THEN base ELSE Step(fold, f[s \ {Max(s)}], seq[Max(s)])] = f
      BY <3>1
    <3> QED  BY <3>2
  <2> HIDE DEF f
  <2>3. Folds(fold, base, seq, 0, f)
    BY <2>2 DEF Folds
  <2> QED  BY <2>3
<1>2. ASSUME NEW j \in 1 .. n, j - 1 \in S PROVE j \in S
  <2>1. PICK f : Folds(fold, base, seq, j - 1, f)
    BY <1>2
  <2>2. /\ DOMAIN f = SUBSET (1 .. j - 1)
        /\ \A s \in SUBSET (1 .. j - 1) :
             f[s] = IF s = {} THEN base ELSE Step(fold, f[s \ {Max(s)}], seq[Max(s)])
    BY <2>1, Zenon DEF Folds
  <2> DEFINE g == [s \in SUBSET (1 .. j) |->
                     IF j \in s THEN Step(fold, f[s \ {j}], seq[j]) ELSE f[s]]
  <2>3. ASSUME NEW s \in SUBSET (1 .. j)
        PROVE  g[s] = IF s = {} THEN base ELSE Step(fold, g[s \ {Max(s)}], seq[Max(s)])
    <3>1. CASE j \in s
      <4>0. s \subseteq Int /\ \A x \in s : x <= j
        OBVIOUS
      <4>1. Max(s) = j
        BY <3>1, <4>0, MaxIs
      <4>2. s \ {j} \in SUBSET (1 .. j) /\ j \notin s \ {j} /\ s # {}
        BY <3>1
      <4>3. g[s \ {j}] = f[s \ {j}] /\ g[s] = Step(fold, f[s \ {j}], seq[j])
        BY <3>1, <4>2
      <4> HIDE DEF g
      <4> QED  BY <4>1, <4>2, <4>3
    <3>2. CASE j \notin s
      <4>1. s \in SUBSET (1 .. j - 1)
        <5>1. \A x \in 1 .. j : x # j => x \in 1 .. j - 1
          OBVIOUS
        <5> QED  BY <3>2, <5>1
      <4>2. s \ {Max(s)} \in SUBSET (1 .. j) /\ j \notin s \ {Max(s)}
        BY <3>2
      <4>3. g[s \ {Max(s)}] = f[s \ {Max(s)}] /\ g[s] = f[s]
        BY <3>2, <4>2
      <4> HIDE DEF g
      <4> QED  BY <2>2, <4>1, <4>3
    <3> QED  BY <3>1, <3>2
  <2>4. DOMAIN g = SUBSET (1 .. j) /\ g = [s \in SUBSET (1 .. j) |-> g[s]]
    OBVIOUS
  <2> HIDE DEF g
  <2>5. g = [s \in SUBSET (1 .. j) |->
               IF s = {} THEN base ELSE Step(fold, g[s \ {Max(s)}], seq[Max(s)])]
    BY <2>3, <2>4
  <2>6. Folds(fold, base, seq, j, g)
    BY <2>5 DEF Folds
  <2> QED  BY <2>6
<1>3. \A j \in 0 .. n : j \in S
  <2> HIDE DEF S
  <2> QED  BY <1>1, <1>2, UpTo
<1> QED  BY <1>3

\* A fold goes through the sequence in order.
Through(fold, base, seq, G) ==
  /\ G[0] = base
  /\ \A j \in 1 .. Len(seq) : G[j] = Step(fold, G[j - 1], seq[j])
LEMMA FoldSteps ==
  ASSUME NEW fold, NEW base, NEW E, NEW seq \in Seq(E), NEW f,
         Folds(fold, base, seq, Len(seq), f)
  PROVE  \E G : Through(fold, base, seq, G) /\ G[Len(seq)] = f[1 .. Len(seq)]
<1> DEFINE n == Len(seq)
           G == [j \in 0 .. n |-> f[1 .. j]]
<1>1. n \in Nat
  BY LenProperties
<1>2. \A s \in SUBSET (1 .. n) :
             f[s] = IF s = {} THEN base ELSE Step(fold, f[s \ {Max(s)}], seq[Max(s)])
  <2>1. f = [s \in SUBSET (1 .. n) |->
               IF s = {} THEN base ELSE Step(fold, f[s \ {Max(s)}], seq[Max(s)])]
    BY DEF Folds
  <2> HIDE DEF n
  <2> QED  BY <2>1, Zenon
<1> HIDE DEF n
<1>3. G[0] = base
  <2>1. 1 .. 0 = {} /\ {} \in SUBSET (1 .. n) /\ 0 \in 0 .. n
    BY <1>1
  <2>2. f[{}] = base
    BY <1>2, <2>1
  <2> QED  BY <2>1, <2>2
<1>4. ASSUME NEW j \in 1 .. n PROVE G[j] = Step(fold, G[j - 1], seq[j])
  <2>1. /\ 1 .. j \in SUBSET (1 .. n) /\ 1 .. j # {}
        /\ j \in 0 .. n /\ j - 1 \in 0 .. n /\ j \in 1 .. j
    <3>1. j \in Nat /\ 1 <= j /\ j <= n
      BY <1>1
    <3>2. j \in 1 .. j /\ \A x \in 1 .. j : x \in 1 .. n
      BY <1>1, <3>1
    <3> QED  BY <1>1, <3>1, <3>2
  <2>5. (1 .. j) \ {j} = 1 .. j - 1
    BY <1>1
  <2>6. 1 .. j \subseteq Int /\ \A x \in 1 .. j : x <= j
    BY <1>1
  <2>2. Max(1 .. j) = j
    BY <2>1, <2>6, MaxIs
  <2>3. f[1 .. j] = Step(fold, f[1 .. j - 1], seq[j])
    BY <1>2, <2>1, <2>2, <2>5
  <2>4. G[j] = f[1 .. j] /\ G[j - 1] = f[1 .. j - 1]
    BY <2>1
  <2> QED  BY <2>3, <2>4
<1>5. G[n] = f[1 .. n]
  BY <1>1
<1> HIDE DEF G
<1> QED  BY <1>3, <1>4, <1>5 DEF Through, n

LEMMA PassFolded ==
  ASSUME NEW c, NEW E, NEW packet \in Seq(E)
  PROVE  \E G : /\ Through(Passes, c, packet, G)
                /\ FoldLeft(PassUnlessFiltered, c, packet) = G[Len(packet)]
<1> DEFINE D == DOMAIN packet
           It == CHOOSE f : f = [s \in SUBSET D |->
                   IF s = {} THEN c ELSE PassUnlessFiltered(f[s \ {Max(s)}], packet[Max(s)])]
<1>1. FoldLeft(PassUnlessFiltered, c, packet) = It[D]
  BY Zenon DEF FoldLeft, MapThenFoldSet
<1>2. D = 1 .. Len(packet) /\ Len(packet) \in Nat
  BY LenProperties
<1> HIDE DEF D
<1>3. PICK f : Folds(Passes, c, packet, Len(packet), f)
  BY <1>2, FoldExists
<1>4. \A x, y : Step(Passes, x, y) = PassUnlessFiltered(x, y)
  BY DEF Step, Passes
<1>5. f = [s \in SUBSET D |->
             IF s = {} THEN c ELSE PassUnlessFiltered(f[s \ {Max(s)}], packet[Max(s)])]
  BY <1>2, <1>3, <1>4 DEF Folds
<1>6. It = [s \in SUBSET D |->
             IF s = {} THEN c ELSE PassUnlessFiltered(It[s \ {Max(s)}], packet[Max(s)])]
  BY <1>5, Zenon
<1> HIDE DEF It
<1>7. Folds(Passes, c, packet, Len(packet), It)
  BY <1>2, <1>4, <1>6 DEF Folds
<1> QED  BY <1>1, <1>2, <1>7, FoldSteps

LEMMA HandleFolded ==
  ASSUME NEW c, NEW E, NEW events \in Seq(E)
  PROVE  \E G : Through(Handles, c, events, G) /\ HandleAll(c, events) = G[Len(events)]
<1> DEFINE D == DOMAIN events
           It == CHOOSE f : f = [s \in SUBSET D |->
                   IF s = {} THEN c ELSE HandleEvent(f[s \ {Max(s)}], events[Max(s)])]
<1>1. HandleAll(c, events) = It[D]
  BY Zenon DEF FoldLeft, MapThenFoldSet, HandleAll
<1>2. D = 1 .. Len(events) /\ Len(events) \in Nat
  BY LenProperties
<1> HIDE DEF D
<1>3. PICK f : Folds(Handles, c, events, Len(events), f)
  BY <1>2, FoldExists
<1>4. \A x, y : Step(Handles, x, y) = HandleEvent(x, y)
  BY DEF Step, Handles
<1>5. f = [s \in SUBSET D |->
             IF s = {} THEN c ELSE HandleEvent(f[s \ {Max(s)}], events[Max(s)])]
  BY <1>2, <1>3, <1>4 DEF Folds
<1>6. It = [s \in SUBSET D |->
             IF s = {} THEN c ELSE HandleEvent(It[s \ {Max(s)}], events[Max(s)])]
  BY <1>5, Zenon
<1> HIDE DEF It
<1>7. Folds(Handles, c, events, Len(events), It)
  BY <1>2, <1>4, <1>6 DEF Folds
<1> QED  BY <1>1, <1>2, <1>7, FoldSteps

LEMMA LedsFired ==
  ASSUME NEW s, NEW changed
  PROVE  \E G : /\ Through(Fires(changed), s, Locks, G)
                /\ FireLeds(s, changed) = G[Len(Locks)]
<1> DEFINE D == DOMAIN Locks
           Fire(x, y) == IF y \in changed THEN HandleEvent(x, Led(y, Bit(y \in x.dev.leds))) ELSE x
           It == CHOOSE f : f = [a \in SUBSET D |->
                   IF a = {} THEN s ELSE Fire(f[a \ {Max(a)}], Locks[Max(a)])]
<1>0. Locks \in Seq(Keys)
  BY EvdevAssumption
<1>1. FireLeds(s, changed) = It[D]
  BY Zenon DEF FireLeds, FoldLeft, MapThenFoldSet
<1>2. D = 1 .. Len(Locks) /\ Len(Locks) \in Nat
  BY <1>0, LenProperties
<1> HIDE DEF D
<1>3. PICK f : Folds(Fires(changed), s, Locks, Len(Locks), f)
  BY <1>2, FoldExists
<1>4. \A x, y : Step(Fires(changed), x, y) = Fire(x, y)
  BY DEF Step, Fires
<1>5. f = [a \in SUBSET D |-> IF a = {} THEN s ELSE Fire(f[a \ {Max(a)}], Locks[Max(a)])]
  BY <1>2, <1>3, <1>4 DEF Folds
<1>6. It = [a \in SUBSET D |-> IF a = {} THEN s ELSE Fire(It[a \ {Max(a)}], Locks[Max(a)])]
  BY <1>5, Zenon
<1> HIDE DEF It
<1>7. Folds(Fires(changed), s, Locks, Len(Locks), It)
  BY <1>2, <1>4, <1>6 DEF Folds
<1> QED  BY <1>0, <1>1, <1>2, <1>7, FoldSteps
-----------------------------------------------------------------------------
(* Events, packets and readers. *)

Plain == Event \ {Report, Dropped}

\* A packet passed on, and what packets leave in a queue that does not overflow.
Packed == {p \in Seq(Event) : /\ Len(p) >= 1 /\ p[Len(p)] = Report
                              /\ \A i \in 1 .. Len(p) - 1 : p[i] \in Plain}
Ends == {X \in Seq(Event) : X = <<>> \/ X[Len(X)] = Report}

Reader ==
  {c \in [open : BOOLEAN, queue : Seq(Event), readable : Nat, epoch : Nat,
          clock : {"real", "monotonic"}, masked : SUBSET MaskTypes, revoked : BOOLEAN] :
     c.readable <= Len(c.queue)}

LEMMA EventIs ==
  /\ Report \in Event /\ Dropped \in Event /\ Scan \in Plain /\ Report # Dropped
  /\ Report.type = "SYN" /\ Dropped.type = "SYN"
  /\ \A ev \in Plain : ev.type \in Types /\ ev # Report /\ ev # Dropped
  /\ \A ev \in Event : ev.type = "SYN" => ev = Report \/ ev = Dropped
  /\ \A ev \in Event : ev \in Plain \/ ev = Report \/ ev = Dropped
  /\ \A ev \in Plain : ev.type = "KEY" => ev.code \in Keys /\ ev.value \in 0..2
  /\ \A ev \in Plain : ev.type = "LED" => ev.code \in ToSet(Locks) /\ ev.value \in 0..2
  /\ \A k \in Keys, value \in 0..2 : Key(k, value) \in Plain
  /\ \A k \in ToSet(Locks), value \in 0..2 : Led(k, value) \in Plain
<1> DEFINE KeyEvents == {Key(k, value) : k \in Keys, value \in 0..2}
           LedEvents == {Led(k, value) : k \in ToSet(Locks), value \in 0..2}
<1>1. Event = KeyEvents \cup LedEvents \cup {Scan, Report, Dropped}
  BY DEF Event
<1>2. \A ev \in KeyEvents : ev.type = "KEY" /\ ev.code \in Keys /\ ev.value \in 0..2
  BY DEF Key
<1>3. \A ev \in LedEvents : ev.type = "LED" /\ ev.code \in ToSet(Locks) /\ ev.value \in 0..2
  BY DEF Led
<1>4. Report.type = "SYN" /\ Dropped.type = "SYN" /\ Report # Dropped /\ Scan.type = "MSC"
  BY DEF Report, Dropped, Scan
<1>5. "SYN" # "KEY" /\ "SYN" # "LED" /\ "SYN" # "MSC" /\ "KEY" # "LED" /\ "KEY" # "MSC" /\ "LED" # "MSC"
      /\ {"KEY", "LED", "MSC"} \subseteq Types
  BY DEF Types
<1>6. \A k \in Keys, value \in 0..2 : Key(k, value) \in KeyEvents
  OBVIOUS
<1>7. \A k \in ToSet(Locks), value \in 0..2 : Led(k, value) \in LedEvents
  OBVIOUS
<1> HIDE DEF KeyEvents, LedEvents
<1> QED  BY <1>1, <1>2, <1>3, <1>4, <1>5, <1>6, <1>7 DEF Plain

LEMMA ReaderIs ==
  ASSUME NEW c \in Reader
  PROVE  /\ c.open \in BOOLEAN /\ c.queue \in Seq(Event) /\ c.readable \in Nat /\ c.epoch \in Nat
         /\ c.clock \in {"real", "monotonic"} /\ c.masked \in SUBSET MaskTypes
         /\ c.revoked \in BOOLEAN /\ c.readable <= Len(c.queue) /\ Len(c.queue) \in Nat
BY DEF Reader

LEMMA ReaderSame ==
  ASSUME NEW c \in Reader, NEW d \in Reader, c.open = d.open, c.queue = d.queue,
         c.readable = d.readable, c.epoch = d.epoch, c.clock = d.clock, c.masked = d.masked,
         c.revoked = d.revoked
  PROVE  c = d
BY DEF Reader

LEMMA Joined ==
  ASSUME NEW E, NEW p \in Seq(E), NEW q \in Seq(E), NEW r \in Seq(E)
  PROVE  (p \o q) \o r = p \o (q \o r)
OBVIOUS

LEMMA AppendIs ==
  ASSUME NEW E, NEW q \in Seq(E), NEW x \in E
  PROVE  /\ Append(q, x) \in Seq(E) /\ Len(Append(q, x)) = Len(q) + 1
         /\ Append(q, x)[Len(q) + 1] = x /\ Len(q) \in Nat
         /\ \A i \in 1 .. Len(q) : Append(q, x)[i] = q[i]
OBVIOUS

\* What a sequence has behind another that it starts with.
Past(q, p, X) == /\ q = p \o X /\ Len(X) = Len(q) - Len(p)
                 /\ \A i \in 1 .. Len(X) : X[i] = q[Len(p) + i]
LEMMA Behind ==
  ASSUME NEW E, NEW p \in Seq(E), NEW q \in Seq(E), Len(p) <= Len(q),
         \A i \in 1 .. Len(p) : q[i] = p[i]
  PROVE  \E X \in Seq(E) : Past(q, p, X)
<1>1. PICK m \in Nat, n \in Nat : m = Len(p) /\ n = Len(q) /\ m <= n
  OBVIOUS
<1> DEFINE X == [i \in 1 .. n - m |-> q[m + i]]
<1>2. X \in Seq(E) /\ Len(X) = n - m
  <2>1. \A i \in 1 .. n - m : q[m + i] \in E
    BY <1>1
  <2> QED  BY <1>1, <2>1
<1>3. p \o X \in Seq(E) /\ Len(p \o X) = n
  BY <1>1, <1>2
<1>4. \A i \in 1 .. n : (p \o X)[i] = q[i]
  <2>1. ASSUME NEW i \in 1 .. n PROVE (p \o X)[i] = q[i]
    <3>1. CASE i <= m
      BY <1>1, <1>2, <3>1
    <3>2. CASE i > m
      <4>1. i - m \in 1 .. n - m /\ m + (i - m) = i
        BY <1>1, <3>2
      <4>2. (p \o X)[i] = X[i - m]
        BY <1>1, <1>2, <3>2
      <4> QED  BY <4>1, <4>2
    <3> QED  BY <1>1, <3>1, <3>2
  <2> QED  BY <2>1
<1>5. \A i \in 1 .. n - m : X[i] = q[m + i]
  OBVIOUS
<1> HIDE DEF X
<1>6. PICK y \in Seq(E) : y = p \o X
  BY <1>3
<1>7. Len(y) = Len(q) /\ \A i \in 1 .. Len(y) : y[i] = q[i]
  BY <1>1, <1>3, <1>4, <1>6
<1>8. q = p \o X
  BY <1>6, <1>7, SeqEqual
<1> QED  BY <1>1, <1>2, <1>5, <1>8 DEF Past

\* A reader whose queue is another.
Refill(c, q, n, e) == [c EXCEPT !.queue = q, !.readable = n, !.epoch = e]

LEMMA Refilled ==
  ASSUME NEW c \in Reader, NEW q \in Seq(Event), NEW n \in Nat, NEW e \in Nat, n <= Len(q)
  PROVE  LET f == Refill(c, q, n, e)
         IN /\ f \in Reader /\ f.queue = q /\ f.readable = n /\ f.epoch = e
            /\ f.open = c.open /\ f.revoked = c.revoked /\ f.clock = c.clock /\ f.masked = c.masked
<1> DEFINE R == [open : BOOLEAN, queue : Seq(Event), readable : Nat, epoch : Nat,
                 clock : {"real", "monotonic"}, masked : SUBSET MaskTypes, revoked : BOOLEAN]
           f == Refill(c, q, n, e)
<1>1. c \in R
  BY DEF Reader
<1>3. /\ f \in R /\ f.queue = q /\ f.readable = n /\ f.epoch = e
      /\ f.open = c.open /\ f.revoked = c.revoked /\ f.clock = c.clock /\ f.masked = c.masked
  BY <1>1 DEF Refill
<1> QED  BY <1>3 DEF Reader

\* Other ways to write it.
LEMMA RefillIs ==
  ASSUME NEW c \in Reader, NEW q, NEW n
  PROVE  /\ [c EXCEPT !.queue = q, !.readable = n] = Refill(c, q, n, c.epoch)
         /\ [c EXCEPT !.queue = q] = Refill(c, q, c.readable, c.epoch)
BY DEF Refill, Reader

\* What reaches a queue that does not overflow.
Fed(c, X) == [c EXCEPT !.queue = @ \o X,
                       !.readable = IF X = <<>> THEN @ ELSE Len(c.queue) + Len(X)]

LEMMA FedIs ==
  ASSUME NEW c \in Reader, NEW X \in Seq(Event)
  PROVE  /\ Fed(c, X) \in Reader
         /\ Fed(c, X).queue = c.queue \o X /\ Fed(c, X).epoch = c.epoch
         /\ Fed(c, X).readable = IF X = <<>> THEN c.readable ELSE Len(c.queue) + Len(X)
         /\ Fed(c, X).open = c.open /\ Fed(c, X).revoked = c.revoked
         /\ Fed(c, X).clock = c.clock /\ Fed(c, X).masked = c.masked
         /\ Len(Fed(c, X).queue) = Len(c.queue) + Len(X)
         /\ X = <<>> => Fed(c, X) = c
<1>1. c.queue \o X \in Seq(Event) /\ Len(c.queue \o X) = Len(c.queue) + Len(X) /\ Len(X) \in Nat
  BY DEF Reader
<1>2. X = <<>> => c.queue \o X = c.queue
  BY DEF Reader
<1>3. Fed(c, X) \in Reader
  <2>1. c \in [open : BOOLEAN, queue : Seq(Event), readable : Nat, epoch : Nat,
               clock : {"real", "monotonic"}, masked : SUBSET MaskTypes, revoked : BOOLEAN]
        /\ c.readable <= Len(c.queue)
    BY DEF Reader
  <2>2. Len(c.queue) \in Nat /\ Len(X) \in Nat
    BY <2>1
  <2> DEFINE n == IF X = <<>> THEN c.readable ELSE Len(c.queue) + Len(X)
  <2>3. n \in Nat /\ n <= Len(c.queue) + Len(X)
    BY <2>1, <2>2
  <2>4. Fed(c, X) = [c EXCEPT !.queue = c.queue \o X, !.readable = n]
    BY DEF Fed
  <2> HIDE DEF n
  <2>5. /\ Fed(c, X) \in [open : BOOLEAN, queue : Seq(Event), readable : Nat, epoch : Nat,
               clock : {"real", "monotonic"}, masked : SUBSET MaskTypes, revoked : BOOLEAN]
        /\ Fed(c, X).queue = c.queue \o X /\ Fed(c, X).readable = n
    BY <1>1, <2>1, <2>3, <2>4
  <2> QED  BY <1>1, <2>3, <2>5 DEF Reader
<1>4. X = <<>> => Fed(c, X) = c
  BY <1>2, <1>3, ReaderSame DEF Fed, Reader
<1> QED  BY <1>1, <1>3, <1>4 DEF Reader, Fed

LEMMA FedAgain ==
  ASSUME NEW c \in Reader, NEW X \in Seq(Event), NEW Y \in Seq(Event)
  PROVE  Fed(Fed(c, X), Y) = Fed(c, X \o Y)
<1>1. PICK d \in Reader : d = Fed(c, X)
  BY FedIs
<1>2. PICK e \in Reader : e = Fed(c, X \o Y)
  <2>1. X \o Y \in Seq(Event)
    OBVIOUS
  <2> QED  BY <2>1, FedIs
<1>3. PICK f \in Reader : f = Fed(d, Y)
  BY FedIs
<1>4. /\ d.queue = c.queue \o X /\ d.epoch = c.epoch /\ d.open = c.open
      /\ d.revoked = c.revoked /\ d.clock = c.clock /\ d.masked = c.masked
      /\ d.readable = (IF X = <<>> THEN c.readable ELSE Len(c.queue) + Len(X))
  BY <1>1, FedIs
<1>5. /\ f.queue = d.queue \o Y /\ f.epoch = d.epoch /\ f.open = d.open
      /\ f.revoked = d.revoked /\ f.clock = d.clock /\ f.masked = d.masked
      /\ f.readable = (IF Y = <<>> THEN d.readable ELSE Len(d.queue) + Len(Y))
  BY <1>3, FedIs
<1>6. /\ e.queue = c.queue \o (X \o Y) /\ e.epoch = c.epoch /\ e.open = c.open
      /\ e.revoked = c.revoked /\ e.clock = c.clock /\ e.masked = c.masked
      /\ e.readable = (IF X \o Y = <<>> THEN c.readable ELSE Len(c.queue) + Len(X \o Y))
  <2>1. X \o Y \in Seq(Event)
    OBVIOUS
  <2> QED  BY <1>2, <2>1, FedIs
<1>7. PICK q \in Seq(Event) : q = c.queue
  BY ReaderIs
<1>8. f.queue = e.queue
  <2>1. (q \o X) \o Y = q \o (X \o Y)
    BY Joined
  <2> QED  BY <1>4, <1>5, <1>6, <1>7, <2>1
<1>9. f.readable = e.readable
  <2>1. Len(d.queue) = Len(q) + Len(X) /\ Len(X \o Y) = Len(X) + Len(Y)
        /\ Len(q) \in Nat /\ Len(X) \in Nat /\ Len(Y) \in Nat
    BY <1>4, <1>7
  <2>2. CASE Y = <<>>
    <3>1. X \o Y = X
      BY <2>2
    <3> QED  BY <1>4, <1>5, <1>6, <2>2, <3>1
  <2>3. CASE Y # <<>>
    <3>1. X \o Y # <<>>
      BY <2>3, ConcatEqualIffEmpty
    <3>2. f.readable = Len(d.queue) + Len(Y)
      BY <1>5, <2>3
    <3>3. e.readable = Len(q) + Len(X \o Y)
      BY <1>6, <1>7, <3>1
    <3> QED  BY <2>1, <3>2, <3>3
  <2> QED  BY <2>2, <2>3
<1>10. f = e
  BY <1>4, <1>5, <1>6, <1>8, <1>9, ReaderSame
<1> QED  BY <1>1, <1>2, <1>3, <1>10

LEMMA EndsJoined ==
  ASSUME NEW X \in Ends, NEW Y \in Ends
  PROVE  X \o Y \in Ends
<1>1. X \in Seq(Event) /\ Y \in Seq(Event)
  BY DEF Ends
<1>2. X \o Y \in Seq(Event) /\ Len(X \o Y) = Len(X) + Len(Y) /\ Len(X) \in Nat /\ Len(Y) \in Nat
  BY <1>1
<1>3. (X \o Y) = <<>> \/ (X \o Y)[Len(X \o Y)] = Report
  <2>1. Y = <<>> => X \o Y = X
    BY <1>1
  <2>2. Y # <<>> => Len(Y) >= 1 /\ (X \o Y)[Len(X) + Len(Y)] = Y[Len(Y)]
    BY <1>1, <1>2
  <2> QED  BY <1>2, <2>1, <2>2 DEF Ends
<1> QED  BY <1>2, <1>3 DEF Ends

LEMMA FedTwice ==
  ASSUME NEW c \in Reader, NEW X \in Ends, NEW Y \in Ends
  PROVE  /\ X \o Y \in Ends /\ Fed(c, X) \in Reader /\ Fed(c, Y) \in Reader
         /\ Fed(Fed(c, X), Y) = Fed(c, X \o Y)
<1>1. X \in Seq(Event) /\ Y \in Seq(Event)
  BY DEF Ends
<1> QED  BY <1>1, FedIs, FedAgain, EndsJoined

\* An overflow, told of in front of what is left.
Lost(c, d) ==
  /\ d.epoch > c.epoch /\ d.open = c.open /\ d.revoked = c.revoked
  /\ d.clock = c.clock /\ d.masked = c.masked
  /\ Len(d.queue) >= 2 /\ d.queue[1] = Dropped /\ d.queue[Len(d.queue)] = Report
  /\ d.readable = Len(d.queue)
Grown(c, d) == d \in Reader /\ ((\E X \in Ends : d = Fed(c, X)) \/ Lost(c, d))

LEMMA GrownNot ==
  ASSUME NEW c \in Reader
  PROVE  Grown(c, c)
<1>1. <<>> \in Ends /\ <<>> \in Seq(Event)
  BY DEF Ends
<1>2. Fed(c, <<>>) = c
  BY <1>1, FedIs
<1> QED  BY <1>1, <1>2 DEF Grown

LEMMA GrownTwice ==
  ASSUME NEW a \in Reader, NEW b \in Reader, NEW c, Grown(a, b), Grown(b, c)
  PROVE  Grown(a, c)
<1>1. c \in Reader
  BY DEF Grown
<1>2. CASE \E X \in Ends : c = Fed(b, X)
  <2>1. PICK Y \in Ends : c = Fed(b, Y)
    BY <1>2
  <2>2. CASE \E X \in Ends : b = Fed(a, X)
    <3>1. PICK X \in Ends : b = Fed(a, X)
      BY <2>2
    <3>2. c = Fed(a, X \o Y) /\ X \o Y \in Ends
      BY <2>1, <3>1, FedTwice
    <3> QED  BY <1>1, <3>2 DEF Grown
  <2>3. CASE Lost(a, b)
    <3>1. Y \in Seq(Event) /\ Len(Y) \in Nat /\ (Y # <<>> => Len(Y) >= 1 /\ Y[Len(Y)] = Report)
      BY DEF Ends
    <3>2. /\ c.queue = b.queue \o Y /\ c.epoch = b.epoch /\ c.open = b.open /\ c.revoked = b.revoked
          /\ c.clock = b.clock /\ c.masked = b.masked
          /\ c.readable = IF Y = <<>> THEN b.readable ELSE Len(b.queue) + Len(Y)
      BY <2>1, <3>1, FedIs
    <3>3. b.queue \in Seq(Event) /\ Len(b.queue) >= 2 /\ b.queue[1] = Dropped
      BY <2>3, ReaderIs DEF Lost
    <3>4. Len(c.queue) = Len(b.queue) + Len(Y) /\ c.queue[1] = Dropped
      BY <3>1, <3>2, <3>3
    <3>5. CASE Y = <<>>
      <4>1. c.queue = b.queue
        BY <3>2, <3>3, <3>5
      <4> QED  BY <1>1, <2>3, <3>2, <3>5, <4>1 DEF Grown, Lost
    <3>6. CASE Y # <<>>
      <4>1. c.queue[Len(c.queue)] = Report
        BY <3>1, <3>2, <3>3, <3>4, <3>6
      <4> QED  BY <1>1, <2>3, <3>1, <3>2, <3>3, <3>4, <3>6, <4>1 DEF Grown, Lost
    <3> QED  BY <3>5, <3>6
  <2> QED  BY <2>2, <2>3 DEF Grown
<1>3. CASE Lost(b, c)
  <2>1. b.epoch >= a.epoch /\ b.open = a.open /\ b.revoked = a.revoked /\ b.clock = a.clock
        /\ b.masked = a.masked
    <3>1. CASE \E X \in Ends : b = Fed(a, X)
      <4>1. PICK X \in Ends : b = Fed(a, X)
        BY <3>1
      <4>2. X \in Seq(Event)
        BY DEF Ends
      <4> QED  BY <4>1, <4>2, FedIs, ReaderIs
    <3>2. CASE Lost(a, b)
      BY <3>2, ReaderIs DEF Lost
    <3> QED  BY <3>1, <3>2 DEF Grown
  <2>2. Lost(a, c)
    BY <1>1, <1>3, <2>1, ReaderIs DEF Lost
  <2> QED  BY <1>1, <2>2 DEF Grown
<1> QED  BY <1>2, <1>3 DEF Grown
-----------------------------------------------------------------------------
(* A packet, passed to a reader. *)

\* Between two events of a packet, from the reader c it found.
Going(c, d, p, j) ==
  /\ d \in Reader /\ d.open = c.open /\ d.revoked = c.revoked /\ d.clock = c.clock
  /\ d.masked = c.masked
  /\ \/ /\ d.epoch = c.epoch /\ d.readable = c.readable /\ Len(c.queue) <= Len(d.queue)
        /\ \A i \in 1 .. Len(c.queue) : d.queue[i] = c.queue[i]
     \/ /\ d.epoch > c.epoch /\ d.readable = 0
        /\ Len(d.queue) >= 2 /\ d.queue[1] = Dropped
  /\ (\A i \in 1 .. j : p[i].type \in c.masked) => d = c

LEMMA PassPlain ==
  ASSUME NEW c \in Reader, NEW d, NEW p, NEW j \in Nat, NEW ev \in Plain, p[j + 1] = ev,
         Going(c, d, p, j)
  PROVE  Going(c, PassUnlessFiltered(d, ev), p, j + 1)
<1>1. ev \in Event /\ ev # Report /\ Dropped \in Event /\ ev # Dropped
  BY EventIs DEF Plain
<1>2. d \in Reader /\ d.masked = c.masked
  BY DEF Going
<1>3. CASE ev.type \in d.masked
  <2>1. PassUnlessFiltered(d, ev) = d
    BY <1>3 DEF PassUnlessFiltered
  <2>2. (\A i \in 1 .. j + 1 : p[i].type \in c.masked) => (\A i \in 1 .. j : p[i].type \in c.masked)
    OBVIOUS
  <2> QED  BY <2>1, <2>2 DEF Going
<1>4. CASE ev.type \notin d.masked
  <2> DEFINE f == PassUnlessFiltered(d, ev)
  <2>1. f = PassEvent(d, ev)
    BY <1>1, <1>4 DEF PassUnlessFiltered
  <2>2. ~(\A i \in 1 .. j + 1 : p[i].type \in c.masked)
    BY <1>2, <1>4
  <2>3. d.queue \in Seq(Event) /\ Len(d.queue) \in Nat /\ d.readable \in Nat /\ d.epoch \in Nat
        /\ c.epoch \in Nat /\ c.queue \in Seq(Event) /\ d.readable <= Len(d.queue)
    BY <1>2, ReaderIs
  <2>4. CASE Len(d.queue) + 1 >= Limit
    <3>1. f = [d EXCEPT !.queue = <<Dropped, ev>>, !.readable = 0, !.epoch = d.epoch + 1]
      BY <1>1, <2>1, <2>4 DEF PassEvent
    <3>2. <<Dropped, ev>> \in Seq(Event) /\ Len(<<Dropped, ev>>) = 2 /\ <<Dropped, ev>>[1] = Dropped
      BY <1>1
    <3>3. f \in Reader /\ f.queue = <<Dropped, ev>> /\ f.readable = 0 /\ f.epoch = d.epoch + 1
          /\ f.open = d.open /\ f.revoked = d.revoked /\ f.clock = d.clock /\ f.masked = d.masked
      <4>1. PICK q \in Seq(Event) : q = <<Dropped, ev>>
        BY <3>2
      <4>2. PICK e \in Nat : e = d.epoch + 1
        BY <2>3
      <4>3. PICK n \in Nat : n = 0 /\ n <= Len(q)
        BY <3>2, <4>1
      <4>4. f = Refill(d, q, n, e)
        BY <3>1, <4>1, <4>2, <4>3 DEF Refill
      <4> HIDE DEF f
      <4>5. /\ f \in Reader /\ f.queue = q /\ f.readable = n /\ f.epoch = e /\ f.open = d.open
            /\ f.revoked = d.revoked /\ f.clock = d.clock /\ f.masked = d.masked
        BY <1>2, <4>3, <4>4, Refilled
      <4> QED  BY <4>1, <4>2, <4>3, <4>5
    <3>4. d.epoch >= c.epoch
      BY <2>3 DEF Going
    <3> HIDE DEF f
    <3>5. f.epoch > c.epoch /\ Len(f.queue) >= 2 /\ f.queue[1] = Dropped
      BY <2>3, <3>2, <3>3, <3>4
    <3> QED  BY <2>2, <3>3, <3>5 DEF Going, f
  <2>5. CASE ~(Len(d.queue) + 1 >= Limit)
    <3>1. f = [d EXCEPT !.queue = Append(d.queue, ev)]
      BY <1>1, <2>1, <2>5 DEF PassEvent
    <3>2. Append(d.queue, ev) \in Seq(Event) /\ Len(Append(d.queue, ev)) = Len(d.queue) + 1
          /\ \A i \in 1 .. Len(d.queue) : Append(d.queue, ev)[i] = d.queue[i]
      BY <1>1, <2>3
    <3>3. f \in Reader /\ f.queue = Append(d.queue, ev) /\ f.readable = d.readable
          /\ f.epoch = d.epoch
          /\ f.open = d.open /\ f.revoked = d.revoked /\ f.clock = d.clock /\ f.masked = d.masked
      <4>1. PICK q \in Seq(Event) : q = Append(d.queue, ev)
        BY <3>2
      <4>2. PICK n \in Nat, e \in Nat : n = d.readable /\ e = d.epoch /\ n <= Len(q)
        BY <2>3, <3>2, <4>1
      <4>3. f = Refill(d, q, n, e)
        BY <1>2, <3>1, <4>1, <4>2, RefillIs
      <4> HIDE DEF f
      <4>4. /\ f \in Reader /\ f.queue = q /\ f.readable = n /\ f.epoch = e /\ f.open = d.open
            /\ f.revoked = d.revoked /\ f.clock = d.clock /\ f.masked = d.masked
        <5>1. n <= Len(q)
          BY <4>2
        <5>2. d \in Reader
          BY <1>2
        <5> QED  BY <4>3, <5>1, <5>2, Refilled
      <4> QED  BY <4>1, <4>2, <4>4
    <3> HIDE DEF f
    <3>4. \/ /\ f.epoch = c.epoch /\ f.readable = c.readable /\ Len(c.queue) <= Len(f.queue)
             /\ \A i \in 1 .. Len(c.queue) : f.queue[i] = c.queue[i]
          \/ /\ f.epoch > c.epoch /\ f.readable = 0
             /\ Len(f.queue) >= 2 /\ f.queue[1] = Dropped
      <4>1. CASE /\ d.epoch = c.epoch /\ d.readable = c.readable /\ Len(c.queue) <= Len(d.queue)
                 /\ \A i \in 1 .. Len(c.queue) : d.queue[i] = c.queue[i]
        <5>1. PICK a \in Nat, b \in Nat : a = Len(c.queue) /\ b = Len(d.queue) /\ a <= b
          BY <2>3, <4>1
        <5>2. Len(f.queue) = b + 1 /\ \A i \in 1 .. b : f.queue[i] = d.queue[i]
          BY <3>2, <3>3, <5>1
        <5> QED  BY <3>3, <4>1, <5>1, <5>2
      <4>2. CASE d.epoch > c.epoch /\ d.readable = 0 /\ Len(d.queue) >= 2 /\ d.queue[1] = Dropped
        <5>1. f.queue[1] = Dropped
          BY <2>3, <3>2, <3>3, <4>2
        <5> QED  BY <2>3, <3>2, <3>3, <4>2, <5>1
      <4> QED  BY <4>1, <4>2 DEF Going
    <3> QED  BY <2>2, <3>3, <3>4 DEF Going, f
  <2> QED  BY <2>4, <2>5
<1> QED  BY <1>3, <1>4

\* The report at its end, unless all of the packet was masked.
LEMMA PassReport ==
  ASSUME NEW c \in Reader, NEW d, NEW p, NEW j \in Nat, Going(c, d, p, j)
  PROVE  /\ Grown(c, PassUnlessFiltered(d, Report))
         /\ (\A i \in 1 .. j : p[i].type \in c.masked) /\ c.readable = Len(c.queue) =>
              PassUnlessFiltered(d, Report) = c
<1>1. Report \in Event /\ Dropped \in Event /\ Report # Dropped
  BY EventIs
<1>2. d \in Reader /\ d.masked = c.masked /\ d.open = c.open /\ d.revoked = c.revoked
      /\ d.clock = c.clock
  BY DEF Going
<1>3. Report.type \notin d.masked
  BY <1>2, ReaderIs, EventIs, EvdevAssumption DEF Types
<1>4. d.queue \in Seq(Event) /\ Len(d.queue) \in Nat /\ d.readable \in Nat /\ d.epoch \in Nat
      /\ c.epoch \in Nat /\ c.queue \in Seq(Event) /\ Len(c.queue) \in Nat
      /\ d.readable <= Len(d.queue) /\ c.readable \in Nat /\ c.readable <= Len(c.queue)
  BY <1>2, ReaderIs
<1>5. (\A i \in 1 .. j : p[i].type \in c.masked) /\ c.readable = Len(c.queue) =>
              PassUnlessFiltered(d, Report) = c
  <2>1. (\A i \in 1 .. j : p[i].type \in c.masked) => d = c
    BY DEF Going
  <2> QED  BY <1>3, <2>1 DEF PassUnlessFiltered
<1>6. CASE d.readable = Len(d.queue)
  <2>1. PassUnlessFiltered(d, Report) = d
    BY <1>6 DEF PassUnlessFiltered
  <2>2. d.epoch = c.epoch /\ d.readable = c.readable /\ Len(c.queue) <= Len(d.queue)
        /\ \A i \in 1 .. Len(c.queue) : d.queue[i] = c.queue[i]
    BY <1>4, <1>6 DEF Going
  <2>3. Len(c.queue) = Len(d.queue)
    BY <1>4, <1>6, <2>2
  <2>7. d.queue = c.queue
    BY <1>4, <2>2, <2>3, SeqEqual
  <2>8. d = c
    BY <1>2, <2>2, <2>7, ReaderSame
  <2> QED  BY <1>5, <2>1, <2>8, GrownNot
<1>7. CASE d.readable # Len(d.queue)
  <2> DEFINE f == PassUnlessFiltered(d, Report)
  <2>1. f = PassEvent(d, Report)
    BY <1>3, <1>7 DEF PassUnlessFiltered
  <2>2. CASE Len(d.queue) + 1 >= Limit
    <3>1. f = [d EXCEPT !.queue = <<Dropped, Report>>, !.readable = 2, !.epoch = d.epoch + 1]
      BY <2>1, <2>2, <1>2 DEF PassEvent, Reader
    <3>2. /\ <<Dropped, Report>> \in Seq(Event) /\ Len(<<Dropped, Report>>) = 2
          /\ <<Dropped, Report>>[1] = Dropped /\ <<Dropped, Report>>[2] = Report
      BY <1>1
    <3>3. f \in Reader /\ f.queue = <<Dropped, Report>> /\ f.readable = 2 /\ f.epoch = d.epoch + 1
          /\ f.open = d.open /\ f.revoked = d.revoked /\ f.clock = d.clock /\ f.masked = d.masked
      <4>1. PICK q \in Seq(Event) : q = <<Dropped, Report>>
        BY <3>2
      <4>2. PICK e \in Nat : e = d.epoch + 1
        BY <1>4
      <4>3. PICK n \in Nat : n = 2 /\ n <= Len(q)
        BY <3>2, <4>1
      <4>4. f = Refill(d, q, n, e)
        BY <3>1, <4>1, <4>2, <4>3 DEF Refill
      <4> HIDE DEF f
      <4>5. /\ f \in Reader /\ f.queue = q /\ f.readable = n /\ f.epoch = e /\ f.open = d.open
            /\ f.revoked = d.revoked /\ f.clock = d.clock /\ f.masked = d.masked
        BY <1>2, <4>3, <4>4, Refilled
      <4> QED  BY <4>1, <4>2, <4>3, <4>5
    <3>4. d.epoch >= c.epoch
      BY <1>4 DEF Going
    <3> HIDE DEF f
    <3>5. Lost(c, f)
      BY <1>2, <1>4, <3>2, <3>3, <3>4 DEF Lost
    <3> QED  BY <1>5, <3>3, <3>5 DEF Grown, f
  <2>3. CASE ~(Len(d.queue) + 1 >= Limit)
    <3>1. f = [d EXCEPT !.queue = Append(d.queue, Report),
                         !.readable = Len(Append(d.queue, Report))]
      BY <2>1, <2>3, <1>2 DEF PassEvent, Reader
    <3>2. /\ Append(d.queue, Report) \in Seq(Event)
          /\ Len(Append(d.queue, Report)) = Len(d.queue) + 1
          /\ Append(d.queue, Report)[Len(d.queue) + 1] = Report
          /\ \A i \in 1 .. Len(d.queue) : Append(d.queue, Report)[i] = d.queue[i]
      BY <1>1, <1>4
    <3>3. f \in Reader /\ f.queue = Append(d.queue, Report) /\ f.readable = Len(d.queue) + 1
          /\ f.epoch = d.epoch
          /\ f.open = d.open /\ f.revoked = d.revoked /\ f.clock = d.clock /\ f.masked = d.masked
      <4>1. PICK q \in Seq(Event) : q = Append(d.queue, Report)
        BY <3>2
      <4>2. PICK n \in Nat, e \in Nat : n = Len(d.queue) + 1 /\ e = d.epoch /\ n <= Len(q)
        BY <1>4, <3>2, <4>1
      <4>3. f = Refill(d, q, n, e)
        <5>1. f = [d EXCEPT !.queue = q, !.readable = n]
          BY <3>1, <3>2, <4>1, <4>2
        <5>2. [d EXCEPT !.queue = q, !.readable = n] = Refill(d, q, n, d.epoch)
          BY <1>2, RefillIs
        <5> QED  BY <4>2, <5>1, <5>2
      <4> HIDE DEF f
      <4>4. /\ f \in Reader /\ f.queue = q /\ f.readable = n /\ f.epoch = e /\ f.open = d.open
            /\ f.revoked = d.revoked /\ f.clock = d.clock /\ f.masked = d.masked
        <5>1. n <= Len(q)
          BY <4>2
        <5>2. d \in Reader
          BY <1>2
        <5> QED  BY <4>3, <5>1, <5>2, Refilled
      <4> QED  BY <4>1, <4>2, <4>4
    <3> HIDE DEF f
    <3>4. CASE /\ d.epoch = c.epoch /\ d.readable = c.readable /\ Len(c.queue) <= Len(d.queue)
               /\ \A i \in 1 .. Len(c.queue) : d.queue[i] = c.queue[i]
      <4>1. PICK a \in Nat, b \in Nat : a = Len(c.queue) /\ b = Len(d.queue) /\ a <= b
        BY <1>4, <3>4
      <4>2. /\ Len(f.queue) = b + 1 /\ \A i \in 1 .. b : f.queue[i] = d.queue[i]
            /\ f.queue \in Seq(Event) /\ f.queue[b + 1] = Report
        BY <3>2, <3>3, <4>1
      <4>3. Len(c.queue) <= Len(f.queue) /\ \A i \in 1 .. Len(c.queue) : f.queue[i] = c.queue[i]
        BY <3>4, <4>1, <4>2
      <4>4. PICK Y \in Seq(Event) : Past(f.queue, c.queue, Y)
        BY <1>4, <4>2, <4>3, Behind
      <4>5. Len(Y) = (b + 1) - a /\ Y # <<>> /\ Y[Len(Y)] = Report /\ a + Len(Y) = b + 1
        <5>1. Len(Y) = (b + 1) - a
          BY <4>1, <4>2, <4>4 DEF Past
        <5>2. Len(Y) \in 1 .. Len(Y) /\ a + Len(Y) = b + 1
          BY <4>1, <5>1
        <5>3. Y[Len(Y)] = f.queue[a + Len(Y)]
          BY <4>1, <4>4, <5>2 DEF Past
        <5> QED  BY <4>2, <5>1, <5>2, <5>3
      <4>6. Y \in Ends
        BY <4>5 DEF Ends
      <4>7. PICK e \in Reader : e = Fed(c, Y)
        BY FedIs
      <4>8. /\ e.queue = c.queue \o Y /\ e.epoch = c.epoch /\ e.open = c.open
            /\ e.revoked = c.revoked /\ e.clock = c.clock /\ e.masked = c.masked
            /\ e.readable = Len(c.queue) + Len(Y)
        BY <4>5, <4>7, FedIs
      <4>9. f.queue = e.queue /\ f.readable = e.readable
        BY <3>3, <4>1, <4>4, <4>5, <4>8 DEF Past
      <4>10. f = e
        <5>1. /\ f.open = e.open /\ f.epoch = e.epoch /\ f.clock = e.clock /\ f.masked = e.masked
              /\ f.revoked = e.revoked
          BY <1>2, <3>3, <3>4, <4>8, Zenon
        <5>2. f \in Reader /\ e \in Reader
          BY <3>3
        <5> QED  BY <4>9, <5>1, <5>2, ReaderSame
      <4> QED  BY <1>5, <3>3, <4>6, <4>7, <4>10 DEF Grown, f
    <3>5. CASE d.epoch > c.epoch /\ d.readable = 0 /\ Len(d.queue) >= 2 /\ d.queue[1] = Dropped
      <4>1. f.queue[1] = Dropped /\ Len(f.queue) = Len(d.queue) + 1
            /\ f.queue[Len(f.queue)] = Report
        BY <1>4, <3>2, <3>3, <3>5
      <4>2. Lost(c, f)
        BY <1>2, <1>4, <3>3, <3>5, <4>1 DEF Lost
      <4> QED  BY <1>5, <3>3, <4>2 DEF Grown, f
    <3> QED  BY <3>4, <3>5 DEF Going
  <2> QED  BY <2>2, <2>3
<1> QED  BY <1>6, <1>7

\* PassToClient() of a packet gives the queue all of it, or loses what was in it.
LEMMA PassedOn ==
  ASSUME NEW c \in Reader, NEW p \in Packed
  PROVE  /\ Grown(c, PassToClient(c, p))
         /\ ~Wakes(c, p) => PassToClient(c, p) = c
<1>1. CASE c.revoked
  BY <1>1, GrownNot DEF PassToClient
<1>2. CASE ~c.revoked
  <2>1. p \in Seq(Event) /\ Len(p) \in Nat /\ Len(p) >= 1 /\ p[Len(p)] = Report
        /\ \A i \in 1 .. Len(p) - 1 : p[i] \in Plain
    BY DEF Packed
  <2>2. PICK G : Through(Passes, c, p, G) /\ FoldLeft(PassUnlessFiltered, c, p) = G[Len(p)]
    BY <2>1, PassFolded
  <2>3. G[0] = c /\ \A j \in 1 .. Len(p) : G[j] = PassUnlessFiltered(G[j - 1], p[j])
    BY <2>2 DEF Through, Step, Passes
  <2> DEFINE n == Len(p) - 1
             S == {j \in 0 .. n : Going(c, G[j], p, j)}
  <2>4. n \in Nat /\ Len(p) = n + 1
    BY <2>1
  <2>5. 0 \in S
    <3>2. Going(c, c, p, 0)
      BY ReaderIs DEF Going
    <3> QED  BY <2>3, <2>4, <3>2
  <2>6. ASSUME NEW j \in 1 .. n, j - 1 \in S PROVE j \in S
    <3>1. p[j] \in Plain /\ G[j] = PassUnlessFiltered(G[j - 1], p[j]) /\ j - 1 \in Nat
          /\ (j - 1) + 1 = j
      BY <2>1, <2>3, <2>4
    <3>2. Going(c, G[j - 1], p, j - 1)
      BY <2>6
    <3>3. Going(c, G[j], p, (j - 1) + 1)
      BY <3>1, <3>2, PassPlain
    <3> QED  BY <3>1, <3>3
  <2> HIDE DEF S
  <2>7. n \in S
    <3>1. \A j \in 0 .. n : j \in S
      <4> HIDE DEF n
      <4> QED  BY <2>4, <2>5, <2>6, UpTo
    <3> QED  BY <2>4, <3>1
  <2>8. Going(c, G[n], p, n)
    BY <2>7 DEF S
  <2>9. PassToClient(c, p) = PassUnlessFiltered(G[n], Report)
    <3>1. G[n + 1] = PassUnlessFiltered(G[n], p[n + 1])
      BY <2>1, <2>3, <2>4
    <3> QED  BY <1>2, <2>1, <2>2, <2>4, <3>1 DEF PassToClient
  <2>10. ~Wakes(c, p) => (\A i \in 1 .. n : p[i].type \in c.masked) /\ c.readable = Len(c.queue)
    <3>1. \A i \in 1 .. n : p[i] \in ToSet(Front(p))
      <4>1. Front(p) = [i \in 1 .. n |-> p[i]]
        BY <2>1, <2>4 DEF Front
      <4> QED  BY <4>1 DEF ToSet
    <3> QED  BY <1>2, <3>1 DEF Wakes
  <2> HIDE DEF n
  <2> QED  BY <2>4, <2>8, <2>9, <2>10, PassReport
<1> QED  BY <1>1, <1>2
-----------------------------------------------------------------------------
(* The device and its readers, while events are handled. *)

Vals == {v \in Seq(Plain) : Len(v) < MaxVals - 2}
Device ==
  [key : SUBSET Keys, led : SUBSET ToSet(Locks), vals : Vals, grab : {None} \cup Readers,
   last : Keys \cup {None}, flags : SUBSET ToSet(Locks), leds : SUBSET ToSet(Locks),
   pending : BOOLEAN]
State ==
  [dev : Device, readers : [Readers -> Reader], woke : BOOLEAN,
   missed : [Readers -> SUBSET (Types \cup {"SYN"})]]

LEMMA StateIs ==
  ASSUME NEW s \in State
  PROVE  /\ s.dev \in Device /\ s.readers \in [Readers -> Reader] /\ s.woke \in BOOLEAN
         /\ s.missed \in [Readers -> SUBSET (Types \cup {"SYN"})]
         /\ \A r \in Readers : s.readers[r] \in Reader
BY DEF State

LEMMA DeviceIs ==
  ASSUME NEW d \in Device
  PROVE  /\ d.key \in SUBSET Keys /\ d.led \in SUBSET ToSet(Locks) /\ d.vals \in Vals
         /\ d.grab \in {None} \cup Readers /\ d.last \in Keys \cup {None}
         /\ d.flags \in SUBSET ToSet(Locks) /\ d.leds \in SUBSET ToSet(Locks)
         /\ d.pending \in BOOLEAN
BY DEF Device

LEMMA ValsIs ==
  ASSUME NEW v \in Vals
  PROVE  v \in Seq(Plain) /\ v \in Seq(Event) /\ Len(v) \in Nat /\ Len(v) < MaxVals - 2
BY DEF Vals, Plain

\* What the input core does to the readers: they get packets, and a wait is woken if one does.
Goes(a, b) ==
  /\ b \in State /\ b.dev.grab = a.dev.grab
  /\ \A r \in Readers : Grown(a.readers[r], b.readers[r])
  /\ ~b.woke => ~a.woke /\ b.readers = a.readers

LEMMA GoesNowhere ==
  ASSUME NEW a \in State
  PROVE  Goes(a, a)
BY StateIs, GrownNot DEF Goes

LEMMA GoesTwice ==
  ASSUME NEW a \in State, NEW b \in State, NEW c, Goes(a, b), Goes(b, c)
  PROVE  Goes(a, c)
<1>1. \A r \in Readers : Grown(a.readers[r], c.readers[r])
  <2>1. ASSUME NEW r \in Readers PROVE Grown(a.readers[r], c.readers[r])
    <3>1. Grown(a.readers[r], b.readers[r]) /\ Grown(b.readers[r], c.readers[r])
      BY DEF Goes
    <3> QED  BY <3>1, StateIs, GrownTwice
  <2> QED  BY <2>1
<1> QED  BY <1>1 DEF Goes

LEMMA PassedValues ==
  ASSUME NEW s \in State, NEW p \in Packed
  PROVE  LET t == PassValues(s, p)
         IN /\ Goes(s, t)
            /\ t.dev.key = s.dev.key /\ t.dev.led = s.dev.led /\ t.dev.vals = s.dev.vals
            /\ t.dev.last = s.dev.last /\ t.dev.leds = s.dev.leds
            /\ t.dev.flags = IF s.dev.grab = None THEN ConsoleEvents(s.dev.flags, p) ELSE s.dev.flags
            /\ t.dev.pending = (s.dev.pending \/ s.dev.grab = None)
<1> DEFINE reached == IF s.dev.grab # None THEN {s.dev.grab} ELSE {r \in Readers : s.readers[r].open}
           t == PassValues(s, p)
           rs == [r \in Readers |->
                    IF r \in reached THEN PassToClient(s.readers[r], p) ELSE s.readers[r]]
           missed == [r \in Readers |->
                        s.missed[r] \cup (IF r \in reached THEN TypesOf(p) \cap s.readers[r].masked
                                                           ELSE TypesOf(p))]
           woke == s.woke \/ \E r \in reached : Wakes(s.readers[r], p)
           flags == IF s.dev.grab = None THEN ConsoleEvents(s.dev.flags, p) ELSE s.dev.flags
           pending == s.dev.pending \/ s.dev.grab = None
<1>1. s \in [dev : Device, readers : [Readers -> Reader], woke : BOOLEAN,
             missed : [Readers -> SUBSET (Types \cup {"SYN"})]]
  BY DEF State
<1>2. s.dev \in Device /\ s.readers \in [Readers -> Reader] /\ reached \subseteq Readers
  <2>1. s.dev \in Device /\ s.readers \in [Readers -> Reader]
    BY StateIs
  <2>2. s.dev.grab # None => s.dev.grab \in Readers
    BY <2>1, DeviceIs
  <2> QED  BY <2>1, <2>2
<1>3. t = [s EXCEPT !.readers = rs, !.woke = woke, !.missed = missed,
                    !.dev = [s.dev EXCEPT !.flags = flags, !.pending = pending]]
  BY <1>1 DEF PassValues, Device
<1>4. \A r \in Readers : Grown(s.readers[r], rs[r])
  <2>1. ASSUME NEW r \in Readers PROVE Grown(s.readers[r], rs[r])
    <3>1. s.readers[r] \in Reader
      BY <1>2
    <3>2. Grown(s.readers[r], PassToClient(s.readers[r], p)) /\ Grown(s.readers[r], s.readers[r])
      BY <3>1, PassedOn, GrownNot
    <3> HIDE DEF reached
    <3> QED  BY <3>2
  <2> QED  BY <2>1
<1>5. rs \in [Readers -> Reader]
  BY <1>4 DEF Grown
<1>6. missed \in [Readers -> SUBSET (Types \cup {"SYN"})]
  <2>1. TypesOf(p) \subseteq Types \cup {"SYN"}
    <3>1. p \in Seq(Event) /\ \A i \in DOMAIN p : p[i] \in Event
      BY DEF Packed
    <3>2. \A ev \in Event : ev.type \in Types \cup {"SYN"}
      BY EventIs
    <3> QED  BY <3>1, <3>2 DEF TypesOf
  <2>2. s.missed \in [Readers -> SUBSET (Types \cup {"SYN"})]
    BY StateIs
  <2> HIDE DEF reached
  <2> QED  BY <2>1, <2>2
<1>7. woke \in BOOLEAN /\ flags \in SUBSET ToSet(Locks) /\ pending \in BOOLEAN
  BY <1>1, <1>2, DeviceIs DEF ConsoleEvents
<1>8. ~woke => ~s.woke /\ rs = s.readers
  <2>1. ASSUME ~woke PROVE rs = s.readers
    <3>1. \A r \in Readers : rs[r] = s.readers[r]
      <4>1. ASSUME NEW r \in reached PROVE PassToClient(s.readers[r], p) = s.readers[r]
        <5>1. ~Wakes(s.readers[r], p) /\ s.readers[r] \in Reader
          BY <1>2, <2>1, <4>1
        <5> QED  BY <5>1, PassedOn
      <4> HIDE DEF reached
      <4> QED  BY <4>1
    <3>2. DOMAIN rs = Readers /\ DOMAIN s.readers = Readers
      BY <1>2
    <3> HIDE DEF rs
    <3> QED  BY <1>2, <1>5, <3>1, <3>2
  <2> HIDE DEF reached
  <2> QED  BY <2>1
<1> HIDE DEF rs, missed, woke, flags, pending, t, reached
<1>9. PICK d : d = [s.dev EXCEPT !.flags = flags, !.pending = pending]
  OBVIOUS
<1>10. /\ d \in Device /\ d.key = s.dev.key /\ d.led = s.dev.led /\ d.vals = s.dev.vals
       /\ d.last = s.dev.last /\ d.leds = s.dev.leds /\ d.flags = flags /\ d.pending = pending
       /\ d.grab = s.dev.grab
  BY <1>2, <1>7, <1>9 DEF Device
<1>11. t = [s EXCEPT !.readers = rs, !.woke = woke, !.missed = missed, !.dev = d]
  BY <1>3, <1>9
<1>12. t \in State /\ t.readers = rs /\ t.woke = woke /\ t.dev = d
  BY <1>1, <1>5, <1>6, <1>7, <1>10, <1>11 DEF State
<1>13. Goes(s, t)
  BY <1>4, <1>8, <1>10, <1>12 DEF Goes
<1> QED  BY <1>10, <1>12, <1>13 DEF flags, pending, t

\* A packet that a report, or its size, ends.
Flush(t, p) == [PassValues(t, p) EXCEPT !.dev.vals = <<>>]

LEMMA Flushed ==
  ASSUME NEW s \in State, NEW p \in Packed
  PROVE  LET t == Flush(s, p)
         IN /\ Goes(s, t)
            /\ t.dev.key = s.dev.key /\ t.dev.led = s.dev.led /\ t.dev.vals = <<>>
            /\ t.dev.last = s.dev.last /\ t.dev.leds = s.dev.leds
            /\ t.dev.flags = IF s.dev.grab = None THEN ConsoleEvents(s.dev.flags, p) ELSE s.dev.flags
            /\ t.dev.pending = (s.dev.pending \/ s.dev.grab = None)
<1>1. PICK u \in State : u = PassValues(s, p) /\ Goes(s, u)
  BY PassedValues DEF Goes
<1>2. <<>> \in Vals
  BY EvdevAssumption DEF Vals
<1>3. PICK t : t = [u EXCEPT !.dev = [u.dev EXCEPT !.vals = <<>>]] /\ t = Flush(s, p)
  BY <1>1 DEF Flush, State
<1>4. u \in [dev : Device, readers : [Readers -> Reader], woke : BOOLEAN,
             missed : [Readers -> SUBSET (Types \cup {"SYN"})]] /\ u.dev \in Device
  BY DEF State
<1>5. PICK d \in Device : d = [u.dev EXCEPT !.vals = <<>>]
  BY <1>2, <1>4 DEF Device
<1>6. /\ d.key = u.dev.key /\ d.led = u.dev.led /\ d.vals = <<>> /\ d.last = u.dev.last
      /\ d.leds = u.dev.leds /\ d.flags = u.dev.flags /\ d.pending = u.dev.pending
      /\ d.grab = u.dev.grab
  BY <1>4, <1>5 DEF Device
<1>7. t \in State /\ t.dev = d /\ t.readers = u.readers /\ t.woke = u.woke
  BY <1>3, <1>4, <1>5 DEF State
<1>8. Goes(s, t)
  BY <1>1, <1>6, <1>7 DEF Goes
<1>9. /\ u.dev.key = s.dev.key /\ u.dev.led = s.dev.led
      /\ u.dev.last = s.dev.last /\ u.dev.leds = s.dev.leds
      /\ u.dev.flags = IF s.dev.grab = None THEN ConsoleEvents(s.dev.flags, p) ELSE s.dev.flags
      /\ u.dev.pending = (s.dev.pending \/ s.dev.grab = None)
  BY <1>1, PassedValues
<1> QED  BY <1>3, <1>6, <1>7, <1>8, <1>9
-----------------------------------------------------------------------------
(* One event, and several. *)

LEMMA KeptIs ==
  ASSUME NEW s \in State, NEW ev \in Plain
  PROVE  LET t == Kept(s, ev)
         IN /\ t \in State /\ t.readers = s.readers /\ t.woke = s.woke
            /\ t.dev.vals = s.dev.vals /\ t.dev.grab = s.dev.grab /\ t.dev.last = s.dev.last
            /\ t.dev.flags = s.dev.flags /\ t.dev.leds = s.dev.leds
            /\ t.dev.pending = s.dev.pending
<1>1. s \in [dev : Device, readers : [Readers -> Reader], woke : BOOLEAN,
             missed : [Readers -> SUBSET (Types \cup {"SYN"})]] /\ s.dev \in Device
  BY DEF State
<1>2. CASE ev.type = "KEY" /\ ev.value # 2
  <2>1. ev.code \in Keys
    BY <1>2, EventIs
  <2>2. PICK keys \in SUBSET Keys : keys = Toggled(s.dev.key, ev.code)
    BY <1>1, <2>1 DEF Device, Toggled
  <2>3. PICK d \in Device : d = [s.dev EXCEPT !.key = keys]
    BY <1>1 DEF Device
  <2>4. /\ d.vals = s.dev.vals /\ d.grab = s.dev.grab /\ d.last = s.dev.last
        /\ d.flags = s.dev.flags /\ d.leds = s.dev.leds /\ d.pending = s.dev.pending
    BY <1>1, <2>3 DEF Device
  <2>5. Kept(s, ev) = [s EXCEPT !.dev = d]
    BY <1>2, <2>2, <2>3 DEF Kept
  <2> QED  BY <1>1, <2>4, <2>5 DEF State
<1>3. CASE ev.type = "LED"
  <2>1. ev.code \in ToSet(Locks)
    BY <1>3, EventIs
  <2>2. PICK leds \in SUBSET ToSet(Locks) : leds = Toggled(s.dev.led, ev.code)
    BY <1>1, <2>1 DEF Device, Toggled
  <2>3. PICK d \in Device : d = [s.dev EXCEPT !.led = leds]
    BY <1>1 DEF Device
  <2>4. /\ d.vals = s.dev.vals /\ d.grab = s.dev.grab /\ d.last = s.dev.last
        /\ d.flags = s.dev.flags /\ d.leds = s.dev.leds /\ d.pending = s.dev.pending
    BY <1>1, <2>3 DEF Device
  <2>5. Kept(s, ev) = [s EXCEPT !.dev = d]
    BY <1>3, <2>2, <2>3 DEF Kept
  <2> QED  BY <1>1, <2>4, <2>5 DEF State
<1>4. CASE ~(ev.type = "KEY" /\ ev.value # 2) /\ ev.type # "LED"
  BY <1>4 DEF Kept
<1> QED  BY <1>2, <1>3, <1>4

\* A packet that presses no lock toggles none.
Press(ev) == ev \in {Key(k, 1) : k \in ToSet(Locks)}
NoPress(seq) == \A i \in 1 .. Len(seq) : ~Press(seq[i])

LEMMA NoToggle ==
  ASSUME NEW flags \in SUBSET ToSet(Locks), NEW p \in Seq(Event), NoPress(p)
  PROVE  ConsoleEvents(flags, p) = flags
<1>1. \A k \in ToSet(Locks) : {i \in DOMAIN p : p[i] = Key(k, 1)} = {}
  BY DEF NoPress, Press
<1>2. Cardinality({}) = 0
  BY FS_EmptySet
<1>3. \A k \in ToSet(Locks) : (k \in flags) # (Cardinality({i \in DOMAIN p : p[i] = Key(k, 1)}) % 2 = 1)
                              <=> k \in flags
  <2>1. ASSUME NEW k \in ToSet(Locks)
        PROVE  ~(Cardinality({i \in DOMAIN p : p[i] = Key(k, 1)}) % 2 = 1)
    <3>1. Cardinality({i \in DOMAIN p : p[i] = Key(k, 1)}) = 0
      BY <1>1, <1>2
    <3>2. 0 % 2 = 0
      OBVIOUS
    <3> QED  BY <3>1, <3>2
  <2> QED  BY <2>1
<1> QED  BY <1>3 DEF ConsoleEvents

LEMMA PackedIs ==
  ASSUME NEW v \in Seq(Plain)
  PROVE  Append(v, Report) \in Packed /\ (NoPress(v) => NoPress(Append(v, Report)))
<1>1. PICK p \in Seq(Event) : p = Append(v, Report)
  <2>1. v \in Seq(Event)
    BY DEF Plain
  <2>2. PICK x \in Event : x = Report
    BY EventIs
  <2>3. Append(v, x) \in Seq(Event)
    BY <2>1
  <2> QED  BY <2>2, <2>3
<1>2. Len(p) = Len(v) + 1 /\ p[Len(v) + 1] = Report /\ Len(v) \in Nat
      /\ \A i \in 1 .. Len(v) : p[i] = v[i] /\ v[i] \in Plain
  BY <1>1
<1>3. PICK n \in Nat : n = Len(v)
  BY <1>2
<1>4. Len(p) = n + 1 /\ p[n + 1] = Report /\ \A i \in 1 .. n : p[i] \in Plain
  BY <1>2, <1>3
<1>5. p \in Packed
  BY <1>4 DEF Packed
<1>6. ~Press(Report)
  BY DEF Press, Report, Key
<1>7. NoPress(v) => NoPress(p)
  BY <1>2, <1>3, <1>4, <1>6 DEF NoPress
<1> QED  BY <1>1, <1>5, <1>7

\* HandleEvent(), case by case.
LEMMA HandleCases ==
  ASSUME NEW s \in State, NEW ev \in Event
  PROVE  HandleEvent(s, ev) =
           IF Ignored(s, ev) THEN s
           ELSE IF ev = Report
                THEN IF s.dev.vals = <<>> THEN s ELSE Flush(s, Append(s.dev.vals, Report))
                ELSE IF Len(s.dev.vals) + 1 >= MaxVals - 2
                     THEN Flush(Kept(s, ev), Append(Append(s.dev.vals, ev), Report))
                     ELSE [Kept(s, ev) EXCEPT !.dev.vals = Append(s.dev.vals, ev)]
<1>1. s.dev.vals \in Seq(Event)
  BY StateIs, DeviceIs, ValsIs
<1>2. Len(Append(s.dev.vals, ev)) = Len(s.dev.vals) + 1 /\ Len(s.dev.vals) \in Nat
  BY <1>1
<1>3. (Len(s.dev.vals) + 1 < 2) <=> s.dev.vals = <<>>
  BY <1>1, <1>2
<1>4. MaxVals \in Nat
  BY EvdevAssumption
<1> QED  BY <1>2, <1>3, <1>4 DEF HandleEvent, Flush

\* What one event does.
Does(s, t, ev) ==
  /\ Goes(s, t)
  /\ t.dev.last = s.dev.last /\ t.dev.leds = s.dev.leds
  /\ s.dev.pending \/ t.dev.flags # s.dev.flags => t.dev.pending
  /\ t.dev.vals = <<>> \/ (t.dev.flags = s.dev.flags /\ t.dev.vals \in {s.dev.vals, Append(s.dev.vals, ev)})
  /\ ev = Report => t.dev.vals = <<>>
  /\ NoPress(s.dev.vals) /\ ~Press(ev) => t.dev.flags = s.dev.flags

LEMMA FlushDoes ==
  ASSUME NEW s \in State, NEW v \in Seq(Plain)
  PROVE  LET t == Flush(s, Append(v, Report))
         IN /\ Goes(s, t) /\ t.dev.last = s.dev.last /\ t.dev.leds = s.dev.leds
            /\ s.dev.pending \/ t.dev.flags # s.dev.flags => t.dev.pending
            /\ t.dev.vals = <<>> /\ (NoPress(v) => t.dev.flags = s.dev.flags)
<1>1. PICK p \in Packed : p = Append(v, Report) /\ (NoPress(v) => NoPress(p))
  BY PackedIs
<1>2. PICK t : t = Flush(s, p)
  OBVIOUS
<1>3. /\ Goes(s, t)
      /\ t.dev.vals = <<>>
      /\ t.dev.last = s.dev.last /\ t.dev.leds = s.dev.leds
      /\ t.dev.flags = IF s.dev.grab = None THEN ConsoleEvents(s.dev.flags, p) ELSE s.dev.flags
      /\ t.dev.pending = (s.dev.pending \/ s.dev.grab = None)
  BY <1>2, Flushed
<1>4. NoPress(v) => t.dev.flags = s.dev.flags
  <2>1. p \in Seq(Event) /\ s.dev.flags \in SUBSET ToSet(Locks)
    BY StateIs, DeviceIs DEF Packed
  <2> QED  BY <1>1, <1>3, <2>1, NoToggle
<1> QED  BY <1>1, <1>2, <1>3, <1>4

LEMMA Handled ==
  ASSUME NEW s \in State, NEW ev \in Event
  PROVE  Does(s, HandleEvent(s, ev), ev)
<1>1. s.dev.vals \in Vals /\ s.dev.vals \in Seq(Plain) /\ Len(s.dev.vals) \in Nat
  BY StateIs, DeviceIs, ValsIs
<1>2. CASE Ignored(s, ev)
  <2>1. ev # Report
    BY <1>2, EventIs DEF Ignored
  <2>2. HandleEvent(s, ev) = s
    BY <1>2, HandleCases
  <2> QED  BY <2>1, <2>2, GoesNowhere DEF Does
<1>3. CASE ~Ignored(s, ev) /\ ev = Report /\ s.dev.vals = <<>>
  <2>1. HandleEvent(s, ev) = s
    BY <1>3, HandleCases
  <2> QED  BY <1>3, <2>1, GoesNowhere DEF Does
<1>4. CASE ~Ignored(s, ev) /\ ev = Report /\ s.dev.vals # <<>>
  <2>1. PICK v \in Seq(Plain) : v = s.dev.vals
    BY <1>1
  <2>2. HandleEvent(s, ev) = Flush(s, Append(v, Report))
    BY <1>4, <2>1, HandleCases
  <2> QED  BY <2>1, <2>2, FlushDoes DEF Does
<1>5. CASE ~Ignored(s, ev) /\ ev # Report
  <2>1. ev \in Plain
    BY <1>5, EventIs DEF Ignored
  <2>2. PICK u \in State : /\ u = Kept(s, ev) /\ u.readers = s.readers /\ u.woke = s.woke
                           /\ u.dev.vals = s.dev.vals /\ u.dev.grab = s.dev.grab
                           /\ u.dev.last = s.dev.last /\ u.dev.flags = s.dev.flags
                           /\ u.dev.leds = s.dev.leds /\ u.dev.pending = s.dev.pending
    BY <2>1, KeptIs
  <2>3. Goes(s, u)
    BY <2>2, StateIs, GrownNot DEF Goes
  <2>4. PICK v \in Seq(Plain) : v = Append(s.dev.vals, ev) /\ Len(v) = Len(s.dev.vals) + 1
                                /\ (NoPress(s.dev.vals) /\ ~Press(ev) => NoPress(v))
    <3>1. PICK w \in Seq(Plain) : w = s.dev.vals
      BY <1>1
    <3>2. Append(w, ev) \in Seq(Plain) /\ Len(Append(w, ev)) = Len(w) + 1
          /\ Append(w, ev)[Len(w) + 1] = ev /\ \A i \in 1 .. Len(w) : Append(w, ev)[i] = w[i]
      BY <2>1
    <3>3. PICK n \in Nat : n = Len(w)
      BY <3>1
    <3>4. NoPress(w) /\ ~Press(ev) => NoPress(Append(w, ev))
      BY <3>2, <3>3 DEF NoPress
    <3> QED  BY <3>1, <3>2, <3>4
  <2>5. CASE Len(s.dev.vals) + 1 >= MaxVals - 2
    <3>1. HandleEvent(s, ev) = Flush(u, Append(v, Report))
      BY <1>5, <2>2, <2>4, <2>5, HandleCases
    <3>2. PICK t \in State : t = Flush(u, Append(v, Report)) /\ Goes(u, t)
      BY FlushDoes DEF Goes
    <3>3. Goes(s, t)
      BY <2>3, <3>2, GoesTwice
    <3>4. /\ t.dev.last = u.dev.last /\ t.dev.leds = u.dev.leds
          /\ u.dev.pending \/ t.dev.flags # u.dev.flags => t.dev.pending
          /\ t.dev.vals = <<>> /\ (NoPress(v) => t.dev.flags = u.dev.flags)
      BY <3>2, FlushDoes
    <3> QED  BY <1>5, <2>2, <2>4, <3>1, <3>2, <3>3, <3>4 DEF Does
  <2>6. CASE ~(Len(s.dev.vals) + 1 >= MaxVals - 2)
    <3>1. HandleEvent(s, ev) = [u EXCEPT !.dev.vals = v]
      BY <1>5, <2>2, <2>4, <2>6, HandleCases
    <3>2. v \in Vals
      BY <1>1, <2>4, <2>6, EvdevAssumption DEF Vals
    <3>3. u \in [dev : Device, readers : [Readers -> Reader], woke : BOOLEAN,
                 missed : [Readers -> SUBSET (Types \cup {"SYN"})]] /\ u.dev \in Device
      BY DEF State
    <3>4. PICK d \in Device : d = [u.dev EXCEPT !.vals = v]
      BY <3>2, <3>3 DEF Device
    <3>5. /\ d.vals = v /\ d.last = u.dev.last
          /\ d.leds = u.dev.leds /\ d.flags = u.dev.flags /\ d.pending = u.dev.pending
          /\ d.grab = u.dev.grab
      BY <3>3, <3>4 DEF Device
    <3>6. PICK t \in State : t = [u EXCEPT !.dev = d] /\ t.dev = d /\ t.readers = u.readers
                             /\ t.woke = u.woke
      <4> DEFINE x == [u EXCEPT !.dev = d]
      <4>1. x \in State /\ x.dev = d /\ x.readers = u.readers /\ x.woke = u.woke
        BY <3>3 DEF State
      <4> QED  BY <4>1
    <3>7. HandleEvent(s, ev) = t
      BY <3>1, <3>4, <3>6
    <3>8. Goes(s, t)
      BY <2>2, <2>3, <3>5, <3>6 DEF Goes
    <3> QED  BY <1>5, <2>2, <2>4, <3>5, <3>6, <3>7, <3>8 DEF Does
  <2> QED  BY <2>5, <2>6
<1> QED  BY <1>2, <1>3, <1>4, <1>5
\* A lock pressed by an event that is not the first, with no report behind it up to n.
Pressed(events, n) ==
  \E i \in 2 .. n : Press(events[i]) /\ \A m \in i + 1 .. n : events[m] # Report

\* What several events do, and what of the locks the console has not seen.
DoesAll(s, t, events, n) ==
  /\ Goes(s, t)
  /\ t.dev.last = s.dev.last /\ t.dev.leds = s.dev.leds
  /\ s.dev.pending \/ t.dev.flags # s.dev.flags => t.dev.pending
  /\ s.dev.flags = s.dev.leds =>
       \/ t.dev.flags = t.dev.leds
       \/ NoPress(t.dev.vals)
       \/ Pressed(events, n)

LEMMA DoesOneMore ==
  ASSUME NEW s \in State, NEW a \in State, NEW t, NEW events \in Seq(Event),
         NEW n \in 1 .. Len(events), DoesAll(s, a, events, n - 1), Does(a, t, events[n]),
         n = 1 => a = s
  PROVE  DoesAll(s, t, events, n)
<1>1. t \in State /\ Goes(s, t)
  <2>1. Goes(s, a) /\ Goes(a, t)
    BY DEF DoesAll, Does
  <2> QED  BY <2>1, GoesTwice DEF Goes
<1>2. /\ t.dev.last = s.dev.last /\ t.dev.leds = s.dev.leds
      /\ s.dev.pending \/ t.dev.flags # s.dev.flags => t.dev.pending
  BY DEF DoesAll, Does
<1>3. ASSUME s.dev.flags = s.dev.leds
      PROVE  t.dev.flags = t.dev.leds \/ NoPress(t.dev.vals) \/ Pressed(events, n)
  <2> DEFINE ev == events[n]
  <2>1. \/ a.dev.flags = a.dev.leds
        \/ NoPress(a.dev.vals)
        \/ Pressed(events, n - 1)
    BY <1>3 DEF DoesAll
  <2>2. CASE t.dev.vals = <<>>
    BY <2>2 DEF NoPress
  <2>3. CASE t.dev.vals # <<>>
    <3>1. /\ ev # Report /\ t.dev.flags = a.dev.flags /\ t.dev.leds = a.dev.leds
          /\ t.dev.vals \in {a.dev.vals, Append(a.dev.vals, ev)}
      BY <2>3 DEF Does
    <3>2. CASE a.dev.flags = a.dev.leds
      BY <3>1, <3>2
    <3>3. CASE Pressed(events, n - 1)
      <4>1. PICK i \in 2 .. n - 1 : Press(events[i]) /\ \A m \in i + 1 .. n - 1 : events[m] # Report
        BY <3>3 DEF Pressed
      <4>2. i \in 2 .. n /\ \A m \in i + 1 .. n : m \in i + 1 .. n - 1 \/ m = n
        BY <4>1
      <4>3. \A m \in i + 1 .. n : events[m] # Report
        BY <3>1, <4>1, <4>2
      <4>4. Pressed(events, n)
        BY <4>1, <4>2, <4>3 DEF Pressed
      <4> QED  BY <4>4
    <3>4. CASE NoPress(a.dev.vals)
      <4>1. CASE t.dev.vals = a.dev.vals
        BY <3>4, <4>1
      <4>2. CASE t.dev.vals = Append(a.dev.vals, ev) /\ ~Press(ev)
        <5>1. PICK w \in Seq(Plain) : w = a.dev.vals /\ Len(w) \in Nat
          BY StateIs, DeviceIs, ValsIs
        <5>2. PICK m \in Nat : m = Len(w)
          BY <5>1
        <5>3. Len(Append(w, ev)) = m + 1 /\ Append(w, ev)[m + 1] = ev
              /\ \A i \in 1 .. m : Append(w, ev)[i] = w[i]
          BY <5>1, <5>2
        <5>4. \A i \in 1 .. m + 1 : i \in 1 .. m \/ i = m + 1
          OBVIOUS
        <5> HIDE DEF ev
        <5>5. NoPress(Append(w, ev))
          BY <3>4, <4>2, <5>1, <5>2, <5>3, <5>4 DEF NoPress
        <5> QED  BY <4>2, <5>1, <5>5
      <4>3. CASE Press(ev)
        <5>1. CASE n = 1
          <6>1. a.dev.flags = a.dev.leds
            BY <1>3, <5>1
          <6> QED  BY <3>1, <6>1
        <5>2. CASE n # 1
          <6>1. n \in 2 .. n /\ \A m \in n + 1 .. n : events[m] # Report
            BY <5>2
          <6>2. Pressed(events, n)
            BY <4>3, <6>1 DEF Pressed
          <6> QED  BY <6>2
        <5> QED  BY <5>1, <5>2
      <4> QED  BY <3>1, <4>1, <4>2, <4>3
    <3> QED  BY <2>1, <3>2, <3>3, <3>4
  <2> QED  BY <2>2, <2>3
<1> QED  BY <1>1, <1>2, <1>3 DEF DoesAll

LEMMA HandledAll ==
  ASSUME NEW s \in State, NEW events \in Seq(Event)
  PROVE  DoesAll(s, HandleAll(s, events), events, Len(events))
<1>1. PICK G : Through(Handles, s, events, G) /\ HandleAll(s, events) = G[Len(events)]
  BY HandleFolded
<1>2. G[0] = s /\ \A j \in 1 .. Len(events) : G[j] = HandleEvent(G[j - 1], events[j])
  BY <1>1 DEF Through, Step, Handles
<1>3. PICK n \in Nat : n = Len(events)
  BY LenProperties
<1> DEFINE S == {j \in 0 .. n : G[j] \in State /\ DoesAll(s, G[j], events, j)}
<1>4. 0 \in S
  <2>1. DoesAll(s, s, events, 0)
    BY GoesNowhere DEF DoesAll
  <2> QED  BY <1>2, <2>1
<1>5. ASSUME NEW j \in 1 .. n, j - 1 \in S PROVE j \in S
  <2>1. G[j - 1] \in State /\ DoesAll(s, G[j - 1], events, j - 1) /\ events[j] \in Event
    BY <1>3, <1>5
  <2>2. G[j] = HandleEvent(G[j - 1], events[j])
    BY <1>2, <1>3
  <2>3. Does(G[j - 1], G[j], events[j])
    BY <2>1, <2>2, Handled
  <2>4. G[j] \in State
    BY <2>3 DEF Does, Goes
  <2>5. j = 1 => G[j - 1] = s
    BY <1>2
  <2>6. DoesAll(s, G[j], events, j)
    BY <1>3, <2>1, <2>3, <2>5, DoesOneMore
  <2> QED  BY <2>4, <2>6
<1> HIDE DEF S
<1>6. \A j \in 0 .. n : j \in S
  BY <1>4, <1>5, UpTo
<1>7. n \in S
  BY <1>6
<1> QED  BY <1>1, <1>3, <1>7 DEF S

\* The LEDs of the locks toggle no lock if none was pressed in the packet.
LEMMA LedsFire ==
  ASSUME NEW s \in State, NEW changed \in SUBSET ToSet(Locks)
  PROVE  LET t == FireLeds(s, changed)
         IN /\ Goes(s, t) /\ t.dev.last = s.dev.last /\ t.dev.leds = s.dev.leds
            /\ NoPress(s.dev.vals) \/ changed = {} => t.dev.flags = s.dev.flags
<1>1. PICK G : Through(Fires(changed), s, Locks, G) /\ FireLeds(s, changed) = G[Len(Locks)]
  BY LedsFired
<1>2. /\ G[0] = s
      /\ \A j \in 1 .. Len(Locks) :
           G[j] = IF Locks[j] \in changed
                  THEN HandleEvent(G[j - 1], Led(Locks[j], Bit(Locks[j] \in G[j - 1].dev.leds)))
                  ELSE G[j - 1]
  BY <1>1 DEF Through, Step, Fires
<1>3. PICK n \in Nat : n = Len(Locks)
  BY LenProperties, EvdevAssumption
<1> DEFINE Fine(t) == /\ t \in State /\ Goes(s, t) /\ t.dev.last = s.dev.last
                      /\ t.dev.leds = s.dev.leds
                      /\ NoPress(s.dev.vals) \/ changed = {} =>
                           /\ t.dev.flags = s.dev.flags
                           /\ NoPress(t.dev.vals) \/ changed = {}
           S == {j \in 0 .. n : Fine(G[j])}
<1>4. 0 \in S
  BY <1>2, GoesNowhere
<1>5. ASSUME NEW j \in 1 .. n, j - 1 \in S PROVE j \in S
  <2>1. Fine(G[j - 1])
    BY <1>5
  <2>2. CASE Locks[j] \notin changed
    BY <1>2, <1>3, <2>1, <2>2
  <2>3. CASE Locks[j] \in changed
    <3>1. PICK a \in State : a = G[j - 1]
      BY <2>1
    <3>8. Goes(s, a) /\ a.dev.last = s.dev.last /\ a.dev.leds = s.dev.leds
      BY <2>1, <3>1
    <3>9. NoPress(s.dev.vals) => a.dev.flags = s.dev.flags /\ NoPress(a.dev.vals)
      BY <2>1, <2>3, <3>1
    <3>2. PICK ev \in Plain : ev = Led(Locks[j], Bit(Locks[j] \in a.dev.leds))
      <4>1. Bit(Locks[j] \in a.dev.leds) \in 0 .. 2
        BY DEF Bit
      <4>2. Locks[j] \in ToSet(Locks)
        BY <2>3
      <4> QED  BY <4>1, <4>2, EventIs
    <3>3. ev \in Event /\ ~Press(ev)
      <4>1. ev.type = "LED"
        BY <3>2 DEF Led
      <4> QED  BY <4>1 DEF Plain, Press, Key
    <3>4. PICK t \in State : t = G[j] /\ Does(a, t, ev)
      <4>1. G[j] = HandleEvent(a, ev)
        BY <1>2, <1>3, <2>3, <3>1, <3>2
      <4>2. Does(a, G[j], ev)
        BY <3>3, <4>1, Handled
      <4> QED  BY <4>2 DEF Does, Goes
    <3>5. Goes(s, t)
      BY <3>4, <3>8, GoesTwice DEF Does
    <3>6. NoPress(s.dev.vals) => NoPress(t.dev.vals)
      <4>1. CASE t.dev.vals \in {<<>>, a.dev.vals}
        BY <3>9, <4>1 DEF NoPress
      <4>2. CASE t.dev.vals = Append(a.dev.vals, ev)
        <5>1. PICK w \in Seq(Plain) : w = a.dev.vals /\ Len(w) \in Nat
          BY StateIs, DeviceIs, ValsIs
        <5>2. PICK m \in Nat : m = Len(w)
          BY <5>1
        <5>3. Len(Append(w, ev)) = m + 1 /\ Append(w, ev)[m + 1] = ev
              /\ \A i \in 1 .. m : Append(w, ev)[i] = w[i]
          BY <5>1, <5>2
        <5>4. \A i \in 1 .. m + 1 : i \in 1 .. m \/ i = m + 1
          OBVIOUS
        <5>5. NoPress(s.dev.vals) => NoPress(Append(w, ev))
          BY <3>3, <3>9, <5>1, <5>2, <5>3, <5>4 DEF NoPress
        <5> QED  BY <4>2, <5>1, <5>5
      <4> QED  BY <3>4, <4>1, <4>2 DEF Does
    <3>7. t.dev.last = s.dev.last /\ t.dev.leds = s.dev.leds
          /\ (NoPress(s.dev.vals) => t.dev.flags = s.dev.flags)
      BY <3>3, <3>4, <3>8, <3>9 DEF Does
    <3> QED  BY <2>3, <3>4, <3>5, <3>6, <3>7
  <2> QED  BY <2>2, <2>3
<1> HIDE DEF S
<1>6. \A j \in 0 .. n : j \in S
  BY <1>4, <1>5, UpTo
<1>7. n \in S
  BY <1>6
<1> QED  BY <1>1, <1>3, <1>7 DEF S
-----------------------------------------------------------------------------
(* A report and a write. *)

LEMMA Settling ==
  ASSUME NEW s \in State
  PROVE  LET t == ConsoleBottomHalf(s)
         IN /\ t \in State /\ t.dev.grab = s.dev.grab /\ t.dev.last = s.dev.last
            /\ Goes(s, t)
            /\ s.dev.flags = s.dev.leds \/ (s.dev.pending /\ NoPress(s.dev.vals)) =>
                 t.dev.flags = t.dev.leds
<1> DEFINE changed == {k \in ToSet(Locks) : (k \in s.dev.flags) # (k \in s.dev.leds)}
           settled == [s EXCEPT !.dev.pending = FALSE, !.dev.leds = s.dev.flags]
           t == ConsoleBottomHalf(s)
<1>1. CASE ~s.dev.pending
  <2>1. t = s
    BY <1>1 DEF ConsoleBottomHalf
  <2> QED  BY <1>1, <2>1, GoesNowhere DEF Goes
<1>2. CASE s.dev.pending
  <2>1. s \in [dev : Device, readers : [Readers -> Reader], woke : BOOLEAN,
               missed : [Readers -> SUBSET (Types \cup {"SYN"})]] /\ s.dev \in Device
    BY DEF State
  <2>2. s.dev.flags \in SUBSET ToSet(Locks) /\ s.dev.leds \in SUBSET ToSet(Locks)
    BY <2>1, DeviceIs
  <2>3. PICK d \in Device : d = [s.dev EXCEPT !.pending = FALSE, !.leds = s.dev.flags]
    BY <2>1, <2>2 DEF Device
  <2>4. /\ d.vals = s.dev.vals /\ d.last = s.dev.last /\ d.leds = s.dev.flags
        /\ d.flags = s.dev.flags /\ d.grab = s.dev.grab
    BY <2>1, <2>3 DEF Device
  <2>5. PICK u \in State : /\ u = [s EXCEPT !.dev = d] /\ u.dev = d /\ u.readers = s.readers
                           /\ u.woke = s.woke
    <3> DEFINE x == [s EXCEPT !.dev = d]
    <3>1. x \in State /\ x.dev = d /\ x.readers = s.readers /\ x.woke = s.woke
      BY <2>1 DEF State
    <3> QED  BY <3>1
  <2>6. settled = u
    BY <2>1, <2>3, <2>5
  <2>7. Goes(s, u)
    BY <2>4, <2>5, StateIs, GrownNot DEF Goes
  <2> HIDE DEF settled
  <2>8. CASE s.dev.grab # None
    <3>1. t = settled
      BY <1>2, <2>8 DEF ConsoleBottomHalf, settled
    <3> QED  BY <2>4, <2>5, <2>6, <2>7, <3>1
  <2>9. CASE s.dev.grab = None
    <3>1. t = FireLeds(settled, changed)
      BY <1>2, <2>9 DEF ConsoleBottomHalf, settled
    <3>2. PICK c \in SUBSET ToSet(Locks) : c = changed
      OBVIOUS
    <3>3. s.dev.flags = s.dev.leds => c = {}
      BY <3>2
    <3>4. t = FireLeds(u, c)
      BY <2>6, <3>1, <3>2
    <3> HIDE DEF t, changed
    <3>5. Goes(u, t) /\ t.dev.last = u.dev.last
      BY <3>4, LedsFire
    <3>6. Goes(s, t)
      BY <2>7, <3>5, GoesTwice
    <3>7. ASSUME s.dev.flags = s.dev.leds \/ (s.dev.pending /\ NoPress(s.dev.vals))
          PROVE  t.dev.flags = t.dev.leds
      <4>1. NoPress(u.dev.vals) \/ c = {}
        BY <2>4, <2>5, <3>3, <3>7
      <4>2. t.dev.leds = u.dev.leds /\ t.dev.flags = u.dev.flags
        BY <3>4, <4>1, LedsFire
      <4> QED  BY <2>4, <2>5, <4>2
    <3> QED  BY <2>4, <2>5, <3>5, <3>6, <3>7 DEF Goes, t
  <2> QED  BY <2>8, <2>9
<1> QED  BY <1>1, <1>2

\* What a write does.
LEMMA WriteDoes ==
  ASSUME NEW s \in State, NEW events \in Seq(Event)
  PROVE  LET t == ConsoleBottomHalf(HandleAll(s, events))
         IN /\ Goes(s, t) /\ t.dev.last = s.dev.last
            /\ s.dev.flags = s.dev.leds /\ ~Pressed(events, Len(events)) => t.dev.flags = t.dev.leds
<1>1. PICK a \in State : a = HandleAll(s, events) /\ DoesAll(s, a, events, Len(events))
  BY HandledAll DEF DoesAll, Goes
<1>2. s.dev.flags = s.dev.leds => a.dev.flags = a.dev.leds \/ a.dev.pending
  BY <1>1 DEF DoesAll
<1>3. PICK t \in State : t = ConsoleBottomHalf(a) /\ Goes(a, t) /\ t.dev.last = a.dev.last
                         /\ (a.dev.flags = a.dev.leds \/ (a.dev.pending /\ NoPress(a.dev.vals)) =>
                               t.dev.flags = t.dev.leds)
  BY Settling
<1>4. Goes(s, t) /\ t.dev.last = s.dev.last
  BY <1>1, <1>3, GoesTwice DEF DoesAll
<1> QED  BY <1>1, <1>2, <1>3, <1>4 DEF DoesAll

\* What a report of the host does.
LEMMA ReportDoes ==
  ASSUME NEW s \in State, NEW k \in Keys, NEW down \in BOOLEAN, NEW soon \in BOOLEAN
  PROVE  LET t == HostKeyboardReport(s, k, down, soon)
         IN Goes(s, t) /\ (s.dev.flags = s.dev.leds => t.dev.flags = t.dev.leds)
<1> DEFINE repeats == down /\ k \in s.dev.key
           value == CASE ~down -> 0
                      [] repeats /\ ~(soon /\ s.dev.last = k) -> 2
                      [] OTHER -> 1
           last == CASE ~down -> None [] repeats -> s.dev.last [] OTHER -> k
           events == <<Scan, Key(k, value), Report>>
           u == [s EXCEPT !.dev.last = last]
<1>1. s \in [dev : Device, readers : [Readers -> Reader], woke : BOOLEAN,
             missed : [Readers -> SUBSET (Types \cup {"SYN"})]] /\ s.dev \in Device
  BY DEF State
<1>2. value \in 0 .. 2
  OBVIOUS
<1>3. last \in Keys \cup {None}
  BY <1>1, DeviceIs
<1>4. HostKeyboardReport(s, k, down, soon) = ConsoleBottomHalf(HandleAll(u, events))
  BY DEF HostKeyboardReport, AtkbdByte
<1> HIDE DEF last, value
<1>5. Key(k, value) \in Event /\ Scan \in Event /\ Report \in Event
  BY <1>2, EventIs DEF Plain
<1>6. events \in Seq(Event) /\ Len(events) = 3 /\ events[3] = Report /\ events[1] = Scan
  BY <1>5
<1>7. ~Pressed(events, Len(events))
  <2>1. ~Press(Report)
    BY DEF Press, Report, Key
  <2>2. \A i \in 2 .. 3 : i = 2 \/ i = 3
    OBVIOUS
  <2>3. 3 \in 2 + 1 .. 3
    OBVIOUS
  <2> HIDE DEF events
  <2> QED  BY <1>6, <2>1, <2>2, <2>3 DEF Pressed
<1>8. PICK d \in Device : d = [s.dev EXCEPT !.last = last]
  BY <1>1, <1>3 DEF Device
<1>9. /\ d.vals = s.dev.vals /\ d.leds = s.dev.leds /\ d.flags = s.dev.flags
      /\ d.grab = s.dev.grab /\ d.pending = s.dev.pending
  BY <1>1, <1>8 DEF Device
<1>10. PICK v \in State : /\ v = [s EXCEPT !.dev = d] /\ v.dev = d /\ v.readers = s.readers
                          /\ v.woke = s.woke
  <2> DEFINE x == [s EXCEPT !.dev = d]
  <2>1. x \in State /\ x.dev = d /\ x.readers = s.readers /\ x.woke = s.woke
    BY <1>1 DEF State
  <2> QED  BY <2>1
<1>11. u = v
  BY <1>1, <1>8, <1>10
<1>12. Goes(s, v)
  BY <1>9, <1>10, StateIs, GrownNot DEF Goes
<1> HIDE DEF events, u
<1>14. PICK es \in Seq(Event) : es = events
  BY <1>6
<1>15. PICK t : t = ConsoleBottomHalf(HandleAll(v, es))
  OBVIOUS
<1>16. Goes(v, t) /\ (v.dev.flags = v.dev.leds => t.dev.flags = t.dev.leds)
  BY <1>7, <1>14, <1>15, WriteDoes
<1>17. Goes(s, t)
  BY <1>12, <1>16, GoesTwice
<1> QED  BY <1>4, <1>9, <1>10, <1>11, <1>14, <1>15, <1>16, <1>17
-----------------------------------------------------------------------------
(* Whole packets. *)

Whole(c) ==
  LET report == Max({0} \cup {i \in DOMAIN c.queue : c.queue[i] = Report})
      drop == Max({0} \cup {i \in DOMAIN c.queue : c.queue[i] = Dropped})
  IN IF report > drop THEN c.readable = report ELSE c.readable < Max({drop, 1})

\* Where a sequence has x last, or 0.
IsLast(q, x, p) ==
  p \in 0 .. Len(q) /\ (p > 0 => q[p] = x) /\ \A i \in 1 .. Len(q) : i > p => q[i] # x

LEMMA LastExists ==
  ASSUME NEW q \in Seq(Event), NEW x
  PROVE  \E p \in 0 .. Len(q) : IsLast(q, x, p)
<1> DEFINE S == {j \in 0 .. Len(q) :
                   \E p \in 0 .. j : (p > 0 => q[p] = x) /\ \A i \in 1 .. j : i > p => q[i] # x}
<1>1. Len(q) \in Nat
  OBVIOUS
<1>2. 0 \in S
  BY <1>1
<1>3. ASSUME NEW j \in 1 .. Len(q), j - 1 \in S PROVE j \in S
  <2>1. PICK p \in 0 .. j - 1 : (p > 0 => q[p] = x) /\ \A i \in 1 .. j - 1 : i > p => q[i] # x
    BY <1>3
  <2>2. CASE q[j] = x
    <3>1. j \in 0 .. j /\ \A i \in 1 .. j : ~(i > j)
      OBVIOUS
    <3> QED  BY <2>2, <3>1
  <2>3. CASE q[j] # x
    <3>1. p \in 0 .. j /\ \A i \in 1 .. j : i \in 1 .. j - 1 \/ i = j
      OBVIOUS
    <3>2. \A i \in 1 .. j : i > p => q[i] # x
      BY <2>1, <2>3, <3>1
    <3> QED  BY <2>1, <3>1, <3>2
  <2> QED  BY <2>2, <2>3
<1> HIDE DEF S
<1>4. \A j \in 0 .. Len(q) : j \in S
  BY <1>1, <1>2, <1>3, UpTo
<1>5. Len(q) \in S
  BY <1>1, <1>4
<1> QED  BY <1>1, <1>5 DEF S, IsLast

LEMMA LastIs ==
  ASSUME NEW q \in Seq(Event), NEW x, NEW p, IsLast(q, x, p)
  PROVE  Max({0} \cup {i \in DOMAIN q : q[i] = x}) = p
<1> DEFINE S == {0} \cup {i \in DOMAIN q : q[i] = x}
<1>1. DOMAIN q = 1 .. Len(q) /\ Len(q) \in Nat /\ p \in 0 .. Len(q)
  BY DEF IsLast
<1>2. S \subseteq Int
  BY <1>1
<1>3. p \in S
  BY <1>1 DEF IsLast
<1>4. \A i \in S : i <= p
  BY <1>1 DEF IsLast
<1> HIDE DEF S
<1>5. Max(S) = p
  BY <1>2, <1>3, <1>4, MaxIs
<1> QED  BY <1>5 DEF S

LEMMA WholeIs ==
  ASSUME NEW c \in Reader, NEW p \in Nat, NEW d \in Nat,
         IsLast(c.queue, Report, p), IsLast(c.queue, Dropped, d)
  PROVE  Whole(c) <=> IF p > d THEN c.readable = p ELSE c.readable < (IF d = 0 THEN 1 ELSE d)
<1>1. c.queue \in Seq(Event) /\ c.readable \in Nat
  BY ReaderIs
<1>2. Max({0} \cup {i \in DOMAIN c.queue : c.queue[i] = Report}) = p
      /\ Max({0} \cup {i \in DOMAIN c.queue : c.queue[i] = Dropped}) = d
  BY <1>1, LastIs
<1>3. Max({d, 1}) = IF d = 0 THEN 1 ELSE d
  <2>1. {d, 1} \subseteq Int /\ d \in {d, 1} /\ 1 \in {d, 1}
    OBVIOUS
  <2>2. d = 0 => \A x \in {d, 1} : x <= 1
    OBVIOUS
  <2>3. d # 0 => \A x \in {d, 1} : x <= d
    OBVIOUS
  <2>4. d = 0 => Max({d, 1}) = 1
    BY <2>1, <2>2, MaxIs
  <2>5. d # 0 => Max({d, 1}) = d
    BY <2>1, <2>3, MaxIs
  <2> QED  BY <2>4, <2>5
<1> QED  BY <1>1, <1>2, <1>3 DEF Whole

\* What ends in a report is whole when all of it can be read.
LEMMA WholeAtEnd ==
  ASSUME NEW c \in Reader, Len(c.queue) >= 1, c.queue[Len(c.queue)] = Report,
         c.readable = Len(c.queue)
  PROVE  Whole(c)
<1>1. c.queue \in Seq(Event) /\ Len(c.queue) \in Nat
  BY ReaderIs
<1>2. IsLast(c.queue, Report, Len(c.queue))
  BY <1>1 DEF IsLast
<1>3. PICK d \in 0 .. Len(c.queue) : IsLast(c.queue, Dropped, d)
  BY <1>1, LastExists
<1>4. d # Len(c.queue) /\ d \in Nat
  BY <1>1, <1>3, EventIs DEF IsLast
<1>5. Len(c.queue) > d
  BY <1>1, <1>3, <1>4
<1> QED  BY <1>1, <1>2, <1>3, <1>4, <1>5, WholeIs

LEMMA WholeGrown ==
  ASSUME NEW c \in Reader, NEW d, Whole(c), Grown(c, d)
  PROVE  d \in Reader /\ Whole(d)
<1>1. d \in Reader
  BY DEF Grown
<1>2. CASE Lost(c, d)
  <2>1. Len(d.queue) >= 1
    BY <1>1, <1>2, ReaderIs DEF Lost
  <2> QED  BY <1>1, <1>2, <2>1, WholeAtEnd DEF Lost
<1>3. CASE \E X \in Ends : d = Fed(c, X)
  <2>1. PICK X \in Ends : d = Fed(c, X)
    BY <1>3
  <2>2. X \in Seq(Event)
    BY DEF Ends
  <2>3. CASE X = <<>>
    BY <2>1, <2>2, <2>3, FedIs, <1>1
  <2>4. CASE X # <<>>
    <3>1. PICK m \in Nat, n \in Nat : m = Len(c.queue) /\ n = Len(X) /\ n >= 1 /\ X[n] = Report
      BY <2>2, <2>4, ReaderIs DEF Ends
    <3>2. d.queue = c.queue \o X /\ d.readable = m + n /\ Len(d.queue) = m + n
      BY <2>1, <2>2, <2>4, <3>1, FedIs
    <3>3. (c.queue \o X)[m + n] = X[n]
      BY <2>2, <3>1, ReaderIs
    <3>4. Len(d.queue) >= 1 /\ d.queue[Len(d.queue)] = Report /\ d.readable = Len(d.queue)
      BY <3>1, <3>2, <3>3
    <3> QED  BY <1>1, <3>4, WholeAtEnd
  <2> QED  BY <2>3, <2>4
<1> QED  BY <1>1, <1>2, <1>3 DEF Grown

\* A read takes what is in front.
LEMMA WholeBehind ==
  ASSUME NEW c \in Reader, Whole(c), NEW k \in 0 .. c.readable, NEW d \in Reader,
         d.readable = c.readable - k, Len(d.queue) = Len(c.queue) - k,
         \A i \in 1 .. Len(d.queue) : d.queue[i] = c.queue[k + i]
  PROVE  Whole(d)
<1>1. PICK n \in Nat : n = Len(c.queue)
  BY ReaderIs
<1>2. /\ c.queue \in Seq(Event) /\ d.queue \in Seq(Event) /\ c.readable \in Nat /\ d.readable \in Nat
      /\ c.readable <= n /\ k \in Nat /\ k <= c.readable /\ Len(d.queue) = n - k
  BY <1>1, ReaderIs
<1>3. PICK p \in 0 .. n : IsLast(c.queue, Report, p)
  BY <1>1, <1>2, LastExists
<1>4. PICK l \in 0 .. n : IsLast(c.queue, Dropped, l)
  BY <1>1, <1>2, LastExists
<1>5. ASSUME NEW x, NEW j \in 0 .. n, IsLast(c.queue, x, j)
      PROVE  IsLast(d.queue, x, IF j > k THEN j - k ELSE 0)
  <2>1. (j > 0 => c.queue[j] = x) /\ \A i \in 1 .. n : i > j => c.queue[i] # x
    BY <1>1, <1>5 DEF IsLast
  <2>2. \A i \in 1 .. n - k : d.queue[i] = c.queue[k + i] /\ k + i \in 1 .. n
    <3>1. \A i \in 1 .. n - k : k + i \in 1 .. n
      BY <1>2
    <3>2. Len(d.queue) = n - k
      BY <1>2
    <3>3. \A i \in 1 .. n - k : d.queue[i] = c.queue[k + i]
      BY <3>2, Zenon
    <3> QED  BY <3>1, <3>3
  <2>3. CASE j > k
    <3>1. j - k \in 1 .. n - k /\ k + (j - k) = j
      BY <1>2, <2>3
    <3>2. d.queue[j - k] = x
      BY <2>1, <2>2, <3>1
    <3>3. \A i \in 1 .. n - k : i > j - k => k + i > j
      BY <1>2
    <3>4. \A i \in 1 .. n - k : i > j - k => d.queue[i] # x
      BY <2>1, <2>2, <3>3
    <3> QED  BY <1>2, <2>3, <3>1, <3>2, <3>4 DEF IsLast
  <2>4. CASE ~(j > k)
    <3>1. \A i \in 1 .. n - k : k + i > j
      BY <1>2, <2>4
    <3>2. \A i \in 1 .. n - k : d.queue[i] # x
      BY <2>1, <2>2, <3>1
    <3> QED  BY <1>2, <2>4, <3>2 DEF IsLast
  <2> QED  BY <2>3, <2>4
<1>6. PICK a \in Nat : a = IF p > k THEN p - k ELSE 0
  <2>1. (IF p > k THEN p - k ELSE 0) \in Nat
    BY <1>1
  <2> QED  BY <2>1
<1>7. PICK b \in Nat : b = IF l > k THEN l - k ELSE 0
  <2>1. (IF l > k THEN l - k ELSE 0) \in Nat
    BY <1>1
  <2> QED  BY <2>1
<1>8. IsLast(d.queue, Report, a) /\ IsLast(d.queue, Dropped, b)
  BY <1>3, <1>4, <1>5, <1>6, <1>7
<1>9. IF p > l THEN c.readable = p ELSE c.readable < (IF l = 0 THEN 1 ELSE l)
  <2>1. p \in Nat /\ l \in Nat
    BY <1>1
  <2> QED  BY <1>3, <1>4, <2>1, WholeIs
<1>10. IF a > b THEN d.readable = a ELSE d.readable < (IF b = 0 THEN 1 ELSE b)
  <2>1. PICK r \in Nat : r = c.readable
    BY <1>2
  <2>2. p \in Nat /\ l \in Nat /\ k <= r /\ d.readable = r - k
        /\ (IF p > l THEN r = p ELSE r < (IF l = 0 THEN 1 ELSE l))
    BY <1>1, <1>2, <1>9, <2>1
  <2>3. p = l => p = 0 /\ l = 0
    BY <1>3, <1>4, EventIs DEF IsLast
  <2> QED  BY <1>2, <1>6, <1>7, <2>2, <2>3
<1> QED  BY <1>8, <1>10, WholeIs

\* What undo of a read puts back in front of a queue that lost events since.
LEMMA WholeInFront ==
  ASSUME NEW c \in Reader, Whole(c), NEW k \in Nat, NEW d \in Reader,
         d.readable = c.readable + k, Len(d.queue) = Len(c.queue) + k,
         \A i \in 1 .. Len(c.queue) : d.queue[k + i] = c.queue[i],
         NEW h \in 1 .. Len(c.queue), c.queue[h] = Dropped
  PROVE  Whole(d)
<1>1. PICK n \in Nat : n = Len(c.queue)
  BY ReaderIs
<1>2. /\ c.queue \in Seq(Event) /\ d.queue \in Seq(Event) /\ c.readable \in Nat /\ d.readable \in Nat
      /\ c.readable <= n /\ Len(d.queue) = n + k
  BY <1>1, ReaderIs
<1>3. PICK p \in 0 .. n : IsLast(c.queue, Report, p)
  BY <1>1, <1>2, LastExists
<1>4. PICK l \in 0 .. n : IsLast(c.queue, Dropped, l)
  BY <1>1, <1>2, LastExists
<1>5. ASSUME NEW x, NEW j \in 1 .. n, IsLast(c.queue, x, j)
      PROVE  IsLast(d.queue, x, j + k)
  <2>1. c.queue[j] = x /\ \A i \in 1 .. n : i > j => c.queue[i] # x
    BY <1>1, <1>5 DEF IsLast
  <2>2. d.queue[j + k] = x
    <3>1. k + j = j + k
      OBVIOUS
    <3> QED  BY <1>1, <2>1, <3>1
  <2>3. ASSUME NEW i \in 1 .. n + k, i > j + k PROVE d.queue[i] # x
    <3>1. i - k \in 1 .. n /\ i - k > j /\ k + (i - k) = i
      BY <2>3
    <3> QED  BY <1>1, <2>1, <3>1
  <2> QED  BY <1>2, <2>2, <2>3 DEF IsLast
<1>6. l \in 1 .. n
  BY <1>1, <1>4 DEF IsLast
<1>7. IsLast(d.queue, Dropped, l + k)
  BY <1>4, <1>5, <1>6
<1>8. PICK a \in 0 .. n + k : IsLast(d.queue, Report, a) /\ (p >= 1 => a = p + k) /\ (p = 0 => a <= k)
  <2>1. CASE p >= 1
    <3>1. p \in 1 .. n /\ p + k \in 0 .. n + k
      BY <2>1
    <3> QED  BY <1>3, <1>5, <2>1, <3>1
  <2>2. CASE p = 0
    <3>1. PICK a \in 0 .. n + k : IsLast(d.queue, Report, a)
      BY <1>2, LastExists
    <3>2. \A i \in 1 .. n : c.queue[i] # Report
      BY <1>1, <1>3, <2>2 DEF IsLast
    <3>3. ASSUME a > k PROVE FALSE
      <4>1. a - k \in 1 .. n /\ k + (a - k) = a
        BY <3>3
      <4>2. d.queue[a] = c.queue[a - k]
        BY <1>1, <4>1
      <4>3. d.queue[a] = Report
        BY <3>1, <3>3 DEF IsLast
      <4> QED  BY <3>2, <4>1, <4>2, <4>3
    <3> QED  BY <2>2, <3>1, <3>3
  <2> QED  BY <2>1, <2>2
<1>9. IF p > l THEN c.readable = p ELSE c.readable < (IF l = 0 THEN 1 ELSE l)
  <2>1. p \in Nat /\ l \in Nat
    BY <1>1
  <2> QED  BY <1>3, <1>4, <2>1, WholeIs
<1>10. IF a > l + k THEN d.readable = a ELSE d.readable < (IF l + k = 0 THEN 1 ELSE l + k)
  <2>1. PICK r \in Nat : r = c.readable
    BY <1>2
  <2>2. d.readable = r + k /\ (IF p > l THEN r = p ELSE r < (IF l = 0 THEN 1 ELSE l))
    BY <1>9, <2>1
  <2>3. p \in Nat /\ a \in Nat /\ l \in Nat /\ l >= 1
    BY <1>6
  <2>4. CASE p > l
    <3>1. p >= 1 /\ r = p
      BY <2>2, <2>3, <2>4
    <3>2. a = p + k
      BY <1>8, <3>1
    <3>3. p + k > l + k /\ d.readable = p + k
      BY <2>2, <2>3, <2>4, <3>1
    <3> QED  BY <3>2, <3>3
  <2>5. CASE ~(p > l)
    <3>1. r + k < l + k
      BY <2>2, <2>3, <2>5
    <3>2. a <= l + k
      BY <1>8, <2>3, <2>5
    <3> QED  BY <2>2, <2>3, <3>1, <3>2
  <2> QED  BY <2>4, <2>5
<1>11. a \in Nat /\ l + k \in Nat
  BY <1>6
<1> QED  BY <1>7, <1>8, <1>10, <1>11, WholeIs
-----------------------------------------------------------------------------
(* What a flush leaves, and where. *)

\* How many of K are at i or before.
Rank(K, i) == Cardinality({j \in K : j <= i})

LEMMA RankStep ==
  ASSUME NEW N \in Nat, NEW K \in SUBSET (1 .. N)
  PROVE  /\ Rank(K, 0) = 0 /\ Rank(K, N) = Cardinality(K) /\ Cardinality(K) \in Nat
         /\ \A i \in 0 .. N : Rank(K, i) \in Nat
         /\ \A i \in 1 .. N : /\ i \in K => Rank(K, i) = Rank(K, i - 1) + 1
                              /\ i \notin K => Rank(K, i) = Rank(K, i - 1)
<1>0. \A j \in K : j \in 1 .. N /\ j \in Nat /\ j >= 1 /\ j <= N
  OBVIOUS
<1>1. \A T \in SUBSET (1 .. N) : IsFiniteSet(T) /\ Cardinality(T) \in Nat
  <2>1. IsFiniteSet(1 .. N)
    BY FS_Interval
  <2> QED  BY <2>1, FS_Subset, FS_CardinalityType
<1>2. Rank(K, 0) = 0
  <2>2. \A j \in K : ~(j <= 0)
    BY <1>0
  <2>1. {j \in K : j <= 0} = {}
    BY <2>2, Zenon
  <2> QED  BY <2>1, FS_EmptySet DEF Rank
<1>3. Rank(K, N) = Cardinality(K)
  <2>1. {j \in K : j <= N} = K
    BY <1>0
  <2> QED  BY <2>1 DEF Rank
<1>4. \A i \in 0 .. N : Rank(K, i) \in Nat
  <2>1. \A i \in 0 .. N : {j \in K : j <= i} \in SUBSET (1 .. N)
    OBVIOUS
  <2> QED  BY <1>1, <2>1 DEF Rank
<1>5. ASSUME NEW i \in 1 .. N
      PROVE  /\ i \in K => Rank(K, i) = Rank(K, i - 1) + 1
             /\ i \notin K => Rank(K, i) = Rank(K, i - 1)
  <2>1. PICK T \in SUBSET (1 .. N) : T = {j \in K : j <= i - 1}
    OBVIOUS
  <2>5. \A j \in K : j <= i <=> j <= i - 1 \/ j = i
    BY <1>0
  <2>2. i \notin T /\ IsFiniteSet(T) /\ Cardinality(T) \in Nat
    BY <1>1, <2>1
  <2>3. CASE i \in K
    <3>1. {j \in K : j <= i} = T \cup {i}
      BY <2>1, <2>3, <2>5
    <3>2. Cardinality(T \cup {i}) = Cardinality(T) + 1
      BY <2>2, FS_AddElement
    <3> QED  BY <2>1, <2>3, <3>1, <3>2 DEF Rank
  <2>4. CASE i \notin K
    <3>1. {j \in K : j <= i} = T
      BY <2>1, <2>4, <2>5
    <3> QED  BY <2>1, <2>2, <2>4, <3>1 DEF Rank
  <2> QED  BY <2>3, <2>4
<1> QED  BY <1>1, <1>2, <1>3, <1>4, <1>5

LEMMA RankSum ==
  ASSUME NEW N \in Nat, NEW K \in SUBSET (1 .. N), NEW G \in SUBSET (1 .. N),
         \A i \in 1 .. N : (i \in K) # (i \in G)
  PROVE  \A i \in 0 .. N : Rank(K, i) + Rank(G, i) = i
<1> DEFINE S == {i \in 0 .. N : Rank(K, i) + Rank(G, i) = i}
<1>1. 0 \in S
  <2>1. Rank(K, 0) = 0
    BY RankStep
  <2>2. Rank(G, 0) = 0
    BY RankStep
  <2> QED  BY <2>1, <2>2
<1>2. ASSUME NEW j \in 1 .. N, j - 1 \in S PROVE j \in S
  <2>1. PICK a \in Nat, b \in Nat : a = Rank(K, j - 1) /\ b = Rank(G, j - 1)
    <3>1. j - 1 \in 0 .. N
      OBVIOUS
    <3>2. Rank(K, j - 1) \in Nat /\ Rank(G, j - 1) \in Nat
      BY <3>1, RankStep
    <3> QED  BY <3>2
  <2>2. a + b = j - 1
    BY <1>2, <2>1
  <2>3. (j \in K => Rank(K, j) = a + 1) /\ (j \notin K => Rank(K, j) = a)
    BY <2>1, RankStep
  <2>4. (j \in G => Rank(G, j) = b + 1) /\ (j \notin G => Rank(G, j) = b)
    BY <2>1, RankStep
  <2> QED  BY <2>2, <2>3, <2>4
<1> HIDE DEF S
<1>3. \A j \in 0 .. N : j \in S
  BY <1>1, <1>2, UpTo
<1> QED  BY <1>3 DEF S

LEMMA RankGrows ==
  ASSUME NEW N \in Nat, NEW K \in SUBSET (1 .. N), NEW i \in 0 .. N
  PROVE  \A j \in 0 .. N : j >= i => Rank(K, j) >= Rank(K, i)
<1> DEFINE S == {j \in 0 .. N : j >= i => Rank(K, j) >= Rank(K, i)}
<1>1. 0 \in S
  <2>1. 0 >= i => i = 0
    OBVIOUS
  <2>2. Rank(K, 0) \in Nat
    BY RankStep
  <2> QED  BY <2>1, <2>2
<1>2. ASSUME NEW j \in 1 .. N, j - 1 \in S PROVE j \in S
  <2>1. PICK a \in Nat, b \in Nat : a = Rank(K, j - 1) /\ b = Rank(K, i)
    <3>1. j - 1 \in 0 .. N
      OBVIOUS
    <3> QED  BY <3>1, RankStep
  <2>2. j - 1 >= i => a >= b
    BY <1>2, <2>1
  <2>3. Rank(K, j) = a + 1 \/ Rank(K, j) = a
    BY <2>1, RankStep
  <2>4. j >= i => j = i \/ j - 1 >= i
    OBVIOUS
  <2> QED  BY <2>1, <2>2, <2>3, <2>4
<1> HIDE DEF S
<1>3. \A j \in 0 .. N : j \in S
  BY <1>1, <1>2, UpTo
<1> QED  BY <1>3 DEF S

\* Each of K has a rank of its own, and every rank up to how many they are is one's.
LEMMA RankPick ==
  ASSUME NEW N \in Nat, NEW K \in SUBSET (1 .. N)
  PROVE  /\ \A i \in K : Rank(K, i) \in 1 .. Cardinality(K)
         /\ \A i, j \in K : Rank(K, i) = Rank(K, j) => i = j
         /\ \A n \in 1 .. Cardinality(K) : \E i \in K : Rank(K, i) = n
<1>1. ASSUME NEW i \in K PROVE Rank(K, i) \in 1 .. Cardinality(K)
  <2>1. i \in 1 .. N /\ i \in 0 .. N /\ i - 1 \in 0 .. N /\ N \in 0 .. N /\ N >= i
    OBVIOUS
  <2>2. Rank(K, i) = Rank(K, i - 1) + 1 /\ Rank(K, i - 1) \in Nat
    BY <2>1, RankStep
  <2>3. Rank(K, N) >= Rank(K, i)
    BY <2>1, RankGrows
  <2>4. Rank(K, N) = Cardinality(K) /\ Cardinality(K) \in Nat
    BY RankStep
  <2> QED  BY <2>2, <2>3, <2>4
<1>2. ASSUME NEW i \in K, NEW j \in K, i < j PROVE Rank(K, i) # Rank(K, j)
  <2>1. i \in 0 .. N /\ j \in 1 .. N /\ j - 1 \in 0 .. N /\ j - 1 >= i
    BY <1>2
  <2>2. Rank(K, j) = Rank(K, j - 1) + 1 /\ Rank(K, j - 1) \in Nat /\ Rank(K, i) \in Nat
    BY <2>1, RankStep
  <2>3. Rank(K, j - 1) >= Rank(K, i)
    BY <2>1, RankGrows
  <2> QED  BY <2>2, <2>3
<1>3. ASSUME NEW i \in K, NEW j \in K, Rank(K, i) = Rank(K, j) PROVE i = j
  <2>1. i < j \/ j < i \/ i = j
    OBVIOUS
  <2> QED  BY <1>2, <1>3, <2>1
<1>4. ASSUME NEW n \in 1 .. Cardinality(K) PROVE \E i \in K : Rank(K, i) = n
  <2> DEFINE S == {i \in 1 .. N : Rank(K, i) >= n}
  <2>1. Cardinality(K) \in Nat /\ Rank(K, N) = Cardinality(K) /\ Rank(K, 0) = 0
    BY RankStep
  <2>2. N # 0
    BY <2>1
  <2>3. N \in S
    BY <2>1, <2>2
  <2>4. S \in SUBSET Nat /\ S # {}
    BY <2>3
  <2> HIDE DEF S
  <2>5. PICK i \in S : \A m \in S : i <= m
    BY <2>4, Least
  <2>6. i \in 1 .. N /\ Rank(K, i) >= n /\ i - 1 \in 0 .. N
    BY <2>5 DEF S
  <2>7. Rank(K, i - 1) < n
    <3>1. CASE i = 1
      BY <2>1, <3>1
    <3>2. CASE i > 1
      <4>1. i - 1 \in 1 .. N /\ i - 1 \notin S
        BY <2>5, <2>6, <3>2
      <4>2. ~(Rank(K, i - 1) >= n) /\ Rank(K, i - 1) \in Nat
        BY <2>6, <4>1, RankStep DEF S
      <4> QED  BY <4>2
    <3> QED  BY <2>6, <3>1, <3>2
  <2>8. /\ i \in K => Rank(K, i) = Rank(K, i - 1) + 1
        /\ i \notin K => Rank(K, i) = Rank(K, i - 1)
        /\ Rank(K, i - 1) \in Nat
    BY <2>6, RankStep
  <2>9. i \in K /\ Rank(K, i) = n
    BY <2>6, <2>7, <2>8
  <2> QED  BY <2>9
<1> QED  BY <1>1, <1>3, <1>4

\* FlushQueue() leaves the others in their order, to be read up to the last report.
Before(G, i) == Cardinality({j \in G : j < i})
LeftBy(f, c, N, G, m, kept, n) ==
  /\ N = Len(c.queue) /\ m = Len(kept) /\ G \in SUBSET (1 .. N) /\ n <= m
  /\ m + Cardinality(G) = N /\ Cardinality(G) \in Nat
  /\ f = [removed |-> G, kept |-> kept, readable |-> n]
  /\ IsLast(kept, Report, n)
  /\ \A i \in (1 .. N) \ G : /\ i - Before(G, i) \in 1 .. m
                             /\ kept[i - Before(G, i)] = c.queue[i]
Line(q, K) == [x \in 1 .. Cardinality(K) |-> q[CHOOSE i \in K : Rank(K, i) = x]]
LEMMA FlushIs ==
  ASSUME NEW c \in Reader, NEW type
  PROVE  \E N \in Nat, m \in Nat, n \in Nat, kept \in Seq(Event) :
           \E G \in SUBSET (1 .. N) : LeftBy(FlushQueue(c, type), c, N, G, m, kept, n)
<1> DEFINE removed == {i \in DOMAIN c.queue : Flushes(c.queue, type, i)}
           left == DOMAIN c.queue \ removed
           Place(i) == Cardinality({j \in left : j <= i})
           line == [x \in 1 .. Cardinality(left) |-> c.queue[CHOOSE i \in left : Place(i) = x]]
           ready == {0} \cup {Place(i) : i \in {j \in left : c.queue[j] = Report}}
<1>1. FlushQueue(c, type) = [removed |-> removed, kept |-> line, readable |-> Max(ready)]
  BY DEF FlushQueue
<1>2. PICK N \in Nat : N = Len(c.queue)
  BY ReaderIs
<1>3. c.queue \in Seq(Event) /\ DOMAIN c.queue = 1 .. N
  BY <1>2, ReaderIs
<1>4. PICK G \in SUBSET (1 .. N) : G = removed
  BY <1>3
<1>5. PICK K \in SUBSET (1 .. N) : K = left /\ K = (1 .. N) \ G
  BY <1>3, <1>4
<1>6. PICK m \in Nat : m = Cardinality(K)
  BY RankStep
<1>7. PICK q \in Seq(Event) : q = c.queue /\ Len(q) = N /\ \A i \in 1 .. N : q[i] \in Event
  BY <1>2, <1>3
<1>8. line = [x \in 1 .. m |-> q[CHOOSE i \in K : Rank(K, i) = x]]
  <2>1. line = Line(c.queue, left)
    BY DEF Line, Rank
  <2>2. line = Line(q, K)
    BY <1>5, <1>7, <2>1
  <2>3. Line(q, K) = [x \in 1 .. m |-> q[CHOOSE i \in K : Rank(K, i) = x]]
    BY <1>6, Zenon DEF Line
  <2> QED  BY <2>2, <2>3
<1>9. ready = {0} \cup {Rank(K, i) : i \in {j \in K : q[j] = Report}}
  BY <1>5, <1>7 DEF Rank
<1> HIDE DEF line, ready, left, removed
<1>10. /\ \A i \in K : Rank(K, i) \in 1 .. m
       /\ \A i, j \in K : Rank(K, i) = Rank(K, j) => i = j
       /\ \A x \in 1 .. m : \E i \in K : Rank(K, i) = x
  BY <1>6, RankPick
<1>11. \A x \in 1 .. m : (CHOOSE i \in K : Rank(K, i) = x) \in K
                         /\ Rank(K, CHOOSE i \in K : Rank(K, i) = x) = x
  BY <1>10
<1>12. PICK kept \in Seq(Event) : kept = line /\ Len(kept) = m
  <2>1. ASSUME NEW x \in 1 .. m PROVE q[CHOOSE i \in K : Rank(K, i) = x] \in Event
    <3>1. PICK y \in K : y = CHOOSE i \in K : Rank(K, i) = x
      BY <1>11
    <3>2. q[y] \in Event
      BY <1>7
    <3> QED  BY <3>1, <3>2
  <2> DEFINE at(x) == q[CHOOSE i \in K : Rank(K, i) = x]
  <2>3. line = [x \in 1 .. m |-> at(x)] /\ \A x \in 1 .. m : at(x) \in Event
    BY <1>8, <2>1
  <2> HIDE DEF at
  <2>2. line \in Seq(Event) /\ Len(line) = m
    BY <2>3
  <2> QED  BY <2>2
<1>13. ASSUME NEW i \in K PROVE kept[Rank(K, i)] = q[i]
  <2>1. PICK x \in 1 .. m : x = Rank(K, i)
    BY <1>10
  <2>2. (CHOOSE j \in K : Rank(K, j) = x) = i
    BY <1>10, <1>11, <2>1
  <2>3. kept[x] = q[CHOOSE j \in K : Rank(K, j) = x]
    BY <1>8, <1>12
  <2> QED  BY <2>1, <2>2, <2>3
<1>14. PICK n \in 0 .. m : IsLast(kept, Report, n)
  BY <1>12, LastExists
<1>15. Max(ready) = n
  <2>1. ready \subseteq Int
    BY <1>9, <1>10
  <2>2. n \in ready
    <3>1. CASE n = 0
      BY <1>9, <3>1
    <3>2. CASE n > 0
      <4>1. n \in 1 .. m /\ kept[n] = Report
        BY <1>14, <3>2 DEF IsLast
      <4>2. PICK i \in K : Rank(K, i) = n
        BY <1>10, <4>1
      <4>3. q[i] = Report
        BY <1>13, <4>1, <4>2
      <4> QED  BY <1>9, <4>2, <4>3
    <3> QED  BY <3>1, <3>2
  <2>3. ASSUME NEW x \in ready PROVE x <= n
    <3>1. CASE x = 0
      BY <3>1
    <3>2. CASE x # 0
      <4>1. PICK i \in K : q[i] = Report /\ x = Rank(K, i)
        BY <1>9, <3>2
      <4>2. kept[x] = Report /\ x \in 1 .. m
        BY <1>10, <1>13, <4>1
      <4>3. ~(x > n)
        BY <1>12, <1>14, <4>2 DEF IsLast
      <4> QED  BY <4>2, <4>3
    <3> QED  BY <3>1, <3>2
  <2> QED  BY <2>1, <2>2, <2>3, MaxIs
<1>16. \A i \in 0 .. N : Rank(K, i) + Rank(G, i) = i
  <2>1. \A i \in 1 .. N : (i \in K) # (i \in G)
    BY <1>5
  <2> QED  BY <2>1, RankSum
<1>17. m + Cardinality(G) = N /\ Cardinality(G) \in Nat
  <2>1. Rank(K, N) = m
    BY <1>6, RankStep
  <2>2. Rank(G, N) = Cardinality(G) /\ Cardinality(G) \in Nat
    BY RankStep
  <2>3. N \in 0 .. N
    OBVIOUS
  <2> QED  BY <1>16, <2>1, <2>2, <2>3
<1>18. ASSUME NEW i \in (1 .. N) \ G
       PROVE  /\ i - Before(G, i) \in 1 .. m
              /\ kept[i - Before(G, i)] = q[i]
  <2>1. i \in K /\ i \in 0 .. N /\ i \in 1 .. N
    BY <1>5
  <2>2. \A j \in G : j < i <=> j <= i
    <3>1. \A j \in G : j \in Nat /\ j # i
      OBVIOUS
    <3> QED  BY <2>1, <3>1
  <2>3. {j \in G : j < i} = {j \in G : j <= i}
    BY <2>2
  <2>4. Before(G, i) = Rank(G, i)
    BY <2>3 DEF Rank, Before
  <2>5. Rank(G, i) \in Nat /\ Rank(K, i) \in 1 .. m
    BY <1>10, <2>1, RankStep
  <2>6. i - Rank(G, i) = Rank(K, i)
    BY <1>16, <2>1, <2>5
  <2> QED  BY <1>13, <2>1, <2>4, <2>5, <2>6
<1>19. FlushQueue(c, type) = [removed |-> G, kept |-> kept, readable |-> n]
  BY <1>1, <1>4, <1>12, <1>15
<1>20. n \in Nat /\ n <= m
  OBVIOUS
<1>21. LeftBy(FlushQueue(c, type), c, N, G, m, kept, n)
  BY <1>2, <1>7, <1>12, <1>14, <1>17, <1>18, <1>19, <1>20 DEF LeftBy
<1> QED  BY <1>20, <1>21

\* What ends in no report that can be read is whole up to the last that can.
LEMMA WholeLast ==
  ASSUME NEW c \in Reader, IsLast(c.queue, Report, c.readable)
  PROVE  Whole(c)
<1>1. PICK p \in Nat : p = c.readable
  BY ReaderIs
<1>2. c.queue \in Seq(Event)
  BY ReaderIs
<1>3. PICK d \in 0 .. Len(c.queue) : IsLast(c.queue, Dropped, d)
  BY <1>2, LastExists
<1>4. p = d => p = 0
  BY <1>1, <1>3, EventIs DEF IsLast
<1>5. d \in Nat
  BY <1>3
<1>6. IF p > d THEN p = p ELSE p < (IF d = 0 THEN 1 ELSE d)
  BY <1>1, <1>4, <1>5
<1> QED  BY <1>1, <1>3, <1>5, <1>6, WholeIs

LEMMA WholeDropped ==
  ASSUME NEW c \in Reader
  PROVE  LET d == QueueSynDropped(c)
         IN /\ d \in Reader /\ Whole(d) /\ d.open = c.open /\ d.revoked = c.revoked
            /\ d.clock = c.clock /\ d.masked = c.masked
            /\ \E i \in 1 .. Len(d.queue) : d.queue[i] = Dropped
            /\ \/ d.queue = <<Dropped>> /\ d.readable = 0 /\ d.epoch = c.epoch + 1
               \/ /\ d.queue = Append(c.queue, Dropped) /\ d.readable = c.readable
                  /\ d.epoch = c.epoch
<1>1. PICK q \in Seq(Event), n \in Nat, e \in Nat :
        /\ QueueSynDropped(c) = Refill(c, q, n, e) /\ n < Len(q) /\ q[Len(q)] = Dropped
        /\ \/ q = <<Dropped>> /\ n = 0 /\ e = c.epoch + 1
           \/ q = Append(c.queue, Dropped) /\ n = c.readable /\ e = c.epoch
  <2>1. CASE Len(c.queue) + 1 >= Limit
    <3>1. QueueSynDropped(c) = Refill(c, <<Dropped>>, 0, c.epoch + 1)
      BY <2>1 DEF QueueSynDropped, Refill, Reader
    <3>5. <<Dropped>> \in Seq(Event)
      BY EventIs
    <3>2. PICK q \in Seq(Event) : q = <<Dropped>> /\ Len(q) = 1 /\ q[1] = Dropped
      BY <3>5
    <3>3. PICK e \in Nat : e = c.epoch + 1
      BY ReaderIs
    <3>4. 0 < Len(q) /\ q[Len(q)] = Dropped /\ 0 \in Nat
      BY <3>2
    <3> QED  BY <3>1, <3>2, <3>3, <3>4
  <2>2. CASE ~(Len(c.queue) + 1 >= Limit)
    <3>0. PICK b \in Seq(Event) : b = c.queue
      BY ReaderIs
    <3>4. Dropped \in Event
      BY EventIs
    <3>1. PICK q \in Seq(Event) : q = Append(b, Dropped) /\ Len(q) = Len(b) + 1 /\ q[Len(b) + 1] = Dropped
      BY <3>4, AppendIs
    <3>2. QueueSynDropped(c) = Refill(c, q, c.readable, c.epoch)
      BY <2>2, <3>0, <3>1 DEF QueueSynDropped, Refill, Reader
    <3>3. c.readable \in Nat /\ c.epoch \in Nat /\ c.readable < Len(q) /\ q[Len(q)] = Dropped
      BY <3>0, <3>1, ReaderIs
    <3> QED  BY <3>0, <3>1, <3>2, <3>3
  <2> QED  BY <2>1, <2>2
<1>2. PICK d \in Reader : /\ d = QueueSynDropped(c) /\ d.queue = q /\ d.readable = n /\ d.epoch = e
                          /\ d.open = c.open /\ d.revoked = c.revoked
                          /\ d.clock = c.clock /\ d.masked = c.masked
  BY <1>1, Refilled
<1>3. PICK l \in Nat : l = Len(q) /\ l >= 1
  BY <1>1
<1>4. IsLast(d.queue, Dropped, l)
  BY <1>1, <1>2, <1>3 DEF IsLast
<1>5. PICK p \in 0 .. l : IsLast(d.queue, Report, p)
  BY <1>2, <1>3, LastExists
<1>6. p # l
  BY <1>1, <1>2, <1>3, <1>5, EventIs DEF IsLast
<1>7. IF p > l THEN d.readable = p ELSE d.readable < (IF l = 0 THEN 1 ELSE l)
  BY <1>1, <1>2, <1>3, <1>6
<1>8. Whole(d)
  BY <1>4, <1>5, <1>7, WholeIs
<1>9. l \in 1 .. Len(d.queue) /\ d.queue[l] = Dropped
  BY <1>1, <1>2, <1>3
<1> QED  BY <1>1, <1>2, <1>8, <1>9
-----------------------------------------------------------------------------
(* A record undone, for each reader and for the device. *)

Unflush(c, rec) ==
  LET gone == DOMAIN rec.removed
      before == [i \in 1..rec.count_before |->
                   IF i \in gone THEN rec.removed[i]
                   ELSE c.queue[i - Cardinality({j \in gone : j < i})]]
  IN IF \/ c.epoch # rec.epoch \/ Len(c.queue) < rec.count_after
        \/ rec.count_before - Cardinality(gone) > rec.count_after
     THEN c
     ELSE [c EXCEPT !.queue = before \o SubSeq(@, rec.count_after + 1, Len(@)),
                    !.readable = IF @ <= rec.count_after THEN rec.readable_before
                                 ELSE @ - rec.count_after + rec.count_before]
OfReader(rec, r, c) ==
  CASE rec.kind = "read" /\ rec.reader = r ->
         [c EXCEPT !.queue = rec.taken \o @, !.readable = @ + Len(rec.taken)]
    [] rec.kind = "flush" /\ rec.reader = r -> Unflush(c, rec)
    [] rec.kind = "inject" /\ r \in DOMAIN rec.deliveries -> WithoutDelivery(c, rec.deliveries[r])
    [] rec.kind = "clock" /\ rec.reader = r ->
         IF c.clock = rec.after THEN [c EXCEPT !.clock = rec.before] ELSE c
    [] rec.kind = "mask" /\ rec.reader = r -> [c EXCEPT !.masked = rec.before]
    [] OTHER -> c
OfDevice(rec, d) ==
  CASE rec.kind = "inject" -> RestoreState(d, rec.before, rec.after)
    [] rec.kind = "grab" -> IF d.grab = rec.after THEN [d EXCEPT !.grab = rec.before] ELSE d
    [] OTHER -> d

Found(d, f, w, m) == [dev |-> d, readers |-> f, woke |-> w, missed |-> m]
OfReaders(rec, f) == [r \in Readers |-> OfReader(rec, r, f[r])]

LEMMA RecordUndone ==
  ASSUME NEW d \in Device, NEW f \in [Readers -> Reader], NEW w, NEW m, NEW rec,
         rec.kind \in {"read", "flush", "inject", "clock", "grab", "mask"},
         rec.kind \in {"read", "flush", "clock", "mask"} => rec.reader \in Readers
  PROVE  UndoRecord(rec, Found(d, f, w, m)) = Found(OfDevice(rec, d), OfReaders(rec, f), w, m)
<1> DEFINE s == Found(d, f, w, m)
<1>0. /\ s.dev = d /\ s.readers = f /\ \A r \in Readers : f[r] \in Reader
      /\ \A x : [s EXCEPT !.dev = x] = Found(x, f, w, m)
      /\ \A x : [s EXCEPT !.readers = x] = Found(d, x, w, m)
  BY DEF Found
<1>1. CASE rec.kind = "read"
  <2>1. PICK r \in Readers : r = rec.reader
    BY <1>1
  <2>2. UndoRecord(rec, s) = [s EXCEPT !.readers = [f EXCEPT ![r] =
          [f[r] EXCEPT !.queue = rec.taken \o @, !.readable = @ + Len(rec.taken)]]]
    <3> DEFINE c == f[r]
               q == rec.taken \o c.queue
               n == c.readable + Len(rec.taken)
    <3>1. c \in Reader /\ s.readers[rec.reader] = c
      BY <1>0, <2>1
    <3>2. [c EXCEPT !.queue = rec.taken \o @, !.readable = @ + Len(rec.taken)]
            = [c EXCEPT !.queue = q, !.readable = n]
      BY <3>1 DEF Reader
    <3>3. [s EXCEPT !.readers[rec.reader].queue = q].readers[rec.reader].readable = c.readable
      BY <1>0, <2>1, <3>1 DEF Found, Reader
    <3>4. UndoRead(s, rec) = [s EXCEPT !.readers[rec.reader].queue = q,
                                       !.readers[rec.reader].readable = n]
      BY <3>1, <3>3 DEF UndoRead
    <3> HIDE DEF q, n, s
    <3>5. [s EXCEPT !.readers[rec.reader].queue = q, !.readers[rec.reader].readable = n]
            = [s EXCEPT !.readers = [f EXCEPT ![r] = [c EXCEPT !.queue = q, !.readable = n]]]
      BY <1>0, <2>1, <3>1 DEF Found, Reader, s
    <3>6. UndoRecord(rec, s) = UndoRead(s, rec)
      BY <1>1 DEF UndoRecord
    <3> QED  BY <3>2, <3>4, <3>5, <3>6
  <2>3. [f EXCEPT ![r] = OfReader(rec, r, f[r])] = OfReaders(rec, f)
    BY <1>1, <2>1 DEF OfReaders, OfReader
  <2>4. OfReader(rec, r, f[r]) = [f[r] EXCEPT !.queue = rec.taken \o @, !.readable = @ + Len(rec.taken)]
    BY <1>1, <2>1 DEF OfReader
  <2>5. OfDevice(rec, d) = d
    BY <1>1 DEF OfDevice
  <2> QED  BY <1>0, <2>2, <2>3, <2>4, <2>5
<1>2. CASE rec.kind = "flush"
  <2>1. PICK r \in Readers : r = rec.reader
    BY <1>2
  <2>2. UndoRecord(rec, s) = [s EXCEPT !.readers = [f EXCEPT ![r] = Unflush(f[r], rec)]]
    <3> DEFINE c == f[r]
               gone == DOMAIN rec.removed
               before == [i \in 1..rec.count_before |->
                            IF i \in gone THEN rec.removed[i]
                            ELSE c.queue[i - Cardinality({j \in gone : j < i})]]
               q == before \o SubSeq(c.queue, rec.count_after + 1, Len(c.queue))
               n == IF c.readable <= rec.count_after THEN rec.readable_before
                    ELSE c.readable - rec.count_after + rec.count_before
               late == \/ c.epoch # rec.epoch \/ Len(c.queue) < rec.count_after
                       \/ rec.count_before - Cardinality(gone) > rec.count_after
    <3>1. c \in Reader /\ s.readers[rec.reader] = c
      BY <1>0, <2>1
    <3>2. Unflush(c, rec) = IF late THEN c ELSE [c EXCEPT !.queue = q, !.readable = n]
      BY <3>1 DEF Unflush, Reader
    <3>3. [s EXCEPT !.readers[rec.reader].queue = q].readers[rec.reader].readable = c.readable
      BY <1>0, <2>1, <3>1 DEF Found, Reader
    <3>4. UndoFlush(s, rec) = IF late THEN s ELSE [s EXCEPT !.readers[rec.reader].queue = q,
                                                            !.readers[rec.reader].readable = n]
      BY <3>1, <3>3 DEF UndoFlush
    <3> HIDE DEF q, n, late, s
    <3>5. [s EXCEPT !.readers[rec.reader].queue = q, !.readers[rec.reader].readable = n]
            = [s EXCEPT !.readers = [f EXCEPT ![r] = [c EXCEPT !.queue = q, !.readable = n]]]
      BY <1>0, <2>1, <3>1 DEF Found, Reader, s
    <3>6. [s EXCEPT !.readers = [f EXCEPT ![r] = c]] = s
      BY <1>0 DEF Found, s
    <3>7. UndoRecord(rec, s) = UndoFlush(s, rec)
      BY <1>2 DEF UndoRecord
    <3> QED  BY <3>2, <3>4, <3>5, <3>6, <3>7
  <2>3. [f EXCEPT ![r] = OfReader(rec, r, f[r])] = OfReaders(rec, f)
    BY <1>2, <2>1 DEF OfReaders, OfReader
  <2>4. OfReader(rec, r, f[r]) = Unflush(f[r], rec)
    BY <1>2, <2>1 DEF OfReader
  <2>5. OfDevice(rec, d) = d
    BY <1>2 DEF OfDevice
  <2> QED  BY <1>0, <2>2, <2>3, <2>4, <2>5
<1>3. CASE rec.kind = "inject"
  <2>1. PICK g : g = [r \in Readers |-> IF r \in DOMAIN rec.deliveries
                                        THEN WithoutDelivery(f[r], rec.deliveries[r]) ELSE f[r]]
    OBVIOUS
  <2>2. g = OfReaders(rec, f)
    BY <1>3, <2>1 DEF OfReaders, OfReader
  <2>3. UndoRecord(rec, s) = UndoInject(s, rec)
    BY <1>3 DEF UndoRecord
  <2>4. UndoInject(s, rec) = Found(OfDevice(rec, d), g, w, m)
    <3>1. PICK e : e = RestoreState(d, rec.before, rec.after)
      OBVIOUS
    <3>2. OfDevice(rec, d) = e
      BY <1>3, <3>1 DEF OfDevice
    <3>3. UndoInject(s, rec) = [s EXCEPT !.readers = g, !.dev = e]
      BY <1>0, <1>3, <2>1, <3>1 DEF UndoInject, Found
    <3>4. [s EXCEPT !.readers = g, !.dev = e] = Found(e, g, w, m)
      <4>1. \A y, h, x : [Found(y, h, w, m) EXCEPT !.readers = x] = Found(y, x, w, m)
        BY DEF Found
      <4>2. \A y, h, x : [Found(y, h, w, m) EXCEPT !.dev = x] = Found(x, h, w, m)
        BY DEF Found
      <4>3. [Found(d, g, w, m) EXCEPT !.dev = e] = Found(e, g, w, m)
        BY <4>2
      <4>4. [s EXCEPT !.readers = g] = Found(d, g, w, m)
        BY <4>1
      <4> HIDE DEF s
      <4> QED  BY <4>3, <4>4
    <3> QED  BY <3>2, <3>3, <3>4
  <2> QED  BY <2>2, <2>3, <2>4
<1>4. CASE rec.kind = "clock"
  <2>1. PICK r \in Readers : r = rec.reader
    BY <1>4
  <2>2. UndoRecord(rec, s) = [s EXCEPT !.readers = [f EXCEPT ![r] = OfReader(rec, r, f[r])]]
    BY <1>0, <1>4, <2>1 DEF UndoRecord, OfReader, Found
  <2>3. [f EXCEPT ![r] = OfReader(rec, r, f[r])] = OfReaders(rec, f)
    BY <1>4, <2>1 DEF OfReaders, OfReader
  <2>5. OfDevice(rec, d) = d
    BY <1>4 DEF OfDevice
  <2> QED  BY <1>0, <2>2, <2>3, <2>5
<1>5. CASE rec.kind = "grab"
  <2>1. UndoRecord(rec, s) = Found(OfDevice(rec, d), f, w, m)
    BY <1>0, <1>5 DEF UndoRecord, OfDevice, Found
  <2>2. OfReaders(rec, f) = f
    BY <1>5 DEF OfReaders, OfReader
  <2> QED  BY <2>1, <2>2
<1>6. CASE rec.kind = "mask"
  <2>1. PICK r \in Readers : r = rec.reader
    BY <1>6
  <2>2. UndoRecord(rec, s) = [s EXCEPT !.readers = [f EXCEPT ![r] = OfReader(rec, r, f[r])]]
    BY <1>0, <1>6, <2>1 DEF UndoRecord, OfReader, Found
  <2>3. [f EXCEPT ![r] = OfReader(rec, r, f[r])] = OfReaders(rec, f)
    BY <1>6, <2>1 DEF OfReaders, OfReader
  <2>5. OfDevice(rec, d) = d
    BY <1>6 DEF OfDevice
  <2> QED  BY <1>0, <2>2, <2>3, <2>5
<1> QED  BY <1>1, <1>2, <1>3, <1>4, <1>5, <1>6

\* FoldRight() over an entry's records: the newest record first.
LEMMA RecordsUndone ==
  ASSUME NEW T, NEW rs, NEW n \in Nat, n <= 2, DOMAIN rs = 1 .. n
  PROVE  FoldRight(UndoRecord, rs, T) =
           IF n = 0 THEN T
           ELSE IF n = 1 THEN UndoRecord(rs[1], T)
           ELSE UndoRecord(rs[1], UndoRecord(rs[2], T))
<1> DEFINE D == DOMAIN rs
           It == CHOOSE f : f = [s \in SUBSET D |->
                   IF s = {} THEN T ELSE UndoRecord(rs[Min(s)], f[s \ {Min(s)}])]
           two == UndoRecord(rs[2], T)
           w == [s \in SUBSET D |->
                   CASE s = {} -> T [] s = {1} -> UndoRecord(rs[1], T) [] s = {2} -> two
                     [] OTHER -> UndoRecord(rs[1], two)]
<1>1. FoldRight(UndoRecord, rs, T) = It[D]
  BY Zenon DEF FoldRight, MapThenFoldSet
<1>2. (D = {} /\ n = 0) \/ (D = {1} /\ n = 1) \/ (D = {1, 2} /\ n = 2)
  <2>1. 1 .. 0 = {} /\ 1 .. 1 = {1} /\ 1 .. 2 = {1, 2}
    OBVIOUS
  <2>2. n = 0 \/ n = 1 \/ n = 2
    OBVIOUS
  <2>3. D = 1 .. n
    OBVIOUS
  <2> HIDE DEF D
  <2>4. CASE n = 0
    BY <2>1, <2>3, <2>4
  <2>5. CASE n = 1
    BY <2>1, <2>3, <2>5
  <2>6. CASE n = 2
    BY <2>1, <2>3, <2>6
  <2> QED  BY <2>2, <2>4, <2>5, <2>6
<1>3. Min({1}) = 1 /\ Min({2}) = 2 /\ Min({1, 2}) = 1
  <2>1. Min({1}) = 1
    <3>1. {1} \subseteq Int /\ 1 \in {1} /\ \A x \in {1} : 1 <= x
      OBVIOUS
    <3> QED  BY <3>1, MinIs
  <2>2. Min({2}) = 2
    <3>1. {2} \subseteq Int /\ 2 \in {2} /\ \A x \in {2} : 2 <= x
      OBVIOUS
    <3> QED  BY <3>1, MinIs
  <2>3. Min({1, 2}) = 1
    <3>1. \A x \in {1, 2} : (\A y \in {1, 2} : x =< y) => x = 1
      OBVIOUS
    <3>2. 1 \in {1, 2} /\ \A y \in {1, 2} : 1 =< y
      OBVIOUS
    <3> QED  BY <3>1, <3>2 DEF Min
  <2> QED  BY <2>1, <2>2, <2>3
<1> HIDE DEF D
<1>4. \A s \in SUBSET D : s = {} \/ s = {1} \/ s = {2} \/ s = {1, 2}
  BY <1>2
<1>5. w = [s \in SUBSET D |-> IF s = {} THEN T ELSE UndoRecord(rs[Min(s)], w[s \ {Min(s)}])]
  <2>1. ASSUME NEW s \in SUBSET D
        PROVE  w[s] = IF s = {} THEN T ELSE UndoRecord(rs[Min(s)], w[s \ {Min(s)}])
    <3>1. CASE s = {}
      BY <3>1
    <3>2. CASE s = {1}
      <4>1. s \ {1} = {} /\ {} \in SUBSET D
        BY <3>2
      <4> QED  BY <1>3, <3>2, <4>1
    <3>3. CASE s = {2}
      <4>1. s \ {2} = {} /\ {} \in SUBSET D /\ {2} # {1}
        BY <3>3
      <4> QED  BY <1>3, <3>3, <4>1
    <3>4. CASE s = {1, 2}
      <4>1. s \ {1} = {2} /\ {2} \in SUBSET D /\ {2} # {1} /\ {2} # {} /\ s # {} /\ s # {1} /\ s # {2}
        BY <3>4
      <4>2. w[s] = UndoRecord(rs[1], two) /\ w[{2}] = two
        BY <4>1
      <4> QED  BY <1>3, <3>4, <4>1, <4>2
    <3> QED  BY <1>4, <3>1, <3>2, <3>3, <3>4
  <2>2. DOMAIN w = SUBSET D /\ w = [s \in SUBSET D |-> w[s]]
    OBVIOUS
  <2> HIDE DEF w
  <2> QED  BY <2>1, <2>2
<1>6. \E f : f = [s \in SUBSET D |->
                    IF s = {} THEN T ELSE UndoRecord(rs[Min(s)], f[s \ {Min(s)}])]
  <2> HIDE DEF w
  <2> QED  BY <1>5
<1>7. It = [s \in SUBSET D |-> IF s = {} THEN T ELSE UndoRecord(rs[Min(s)], It[s \ {Min(s)}])]
  BY <1>6, Zenon
<1> HIDE DEF It
<1>8. It[{}] = T
  BY <1>7
<1>9. CASE n = 0
  <2>1. D = {}
    BY <1>2, <1>9
  <2> QED  BY <1>1, <1>8, <1>9, <2>1
<1>10. CASE n = 1
  <2>1. D = {1} /\ D \ {1} = {} /\ D \in SUBSET D
    BY <1>2, <1>10
  <2>2. It[D] = UndoRecord(rs[1], It[{}])
    BY <1>3, <1>7, <2>1
  <2> QED  BY <1>1, <1>8, <1>10, <2>2
<1>11. CASE n = 2
  <2>1. D = {1, 2} /\ D \ {1} = {2} /\ {2} \ {2} = {} /\ {2} \in SUBSET D /\ {2} # {}
    BY <1>2, <1>11
  <2>2. It[{2}] = UndoRecord(rs[2], It[{}])
    BY <1>3, <1>7, <2>1
  <2>3. It[D] = UndoRecord(rs[1], It[{2}])
    BY <1>3, <1>7, <2>1
  <2> QED  BY <1>1, <1>8, <1>11, <2>2, <2>3
<1> QED  BY <1>2, <1>9, <1>10, <1>11

\* What undo of an entry makes of a reader.
OfEntry(rs, r, c) ==
  IF Len(rs) = 1 THEN OfReader(rs[1], r, c) ELSE OfReader(rs[1], r, OfReader(rs[2], r, c))

\* An entry has one record, or the clock's with the flush that it made.
RecordsOK(rs) ==
  /\ DOMAIN rs = 1 .. Len(rs) /\ (Len(rs) = 1 \/ Len(rs) = 2)
  /\ \A i \in 1 .. Len(rs) :
       /\ rs[i].kind \in {"read", "flush", "inject", "clock", "grab", "mask"}
       /\ rs[i].kind \in {"read", "flush", "clock", "mask"} => rs[i].reader \in Readers
  /\ Len(rs) = 2 => /\ rs[1].kind = "clock" /\ rs[2].kind = "flush"
                    /\ \A r \in Readers, c \in Reader : OfReader(rs[2], r, c) \in Reader

LEMMA EntryUndone ==
  ASSUME NEW d \in Device, NEW f \in [Readers -> Reader], NEW w, NEW m, NEW rs, RecordsOK(rs)
  PROVE  FoldRight(UndoRecord, rs, Found(d, f, w, m)) =
           Found(OfDevice(rs[1], d), [r \in Readers |-> OfEntry(rs, r, f[r])], w, m)
<1>1. CASE Len(rs) = 1
  <2>1. 1 \in Nat /\ 1 <= 2 /\ 1 # 0 /\ DOMAIN rs = 1 .. 1 /\ 1 \in 1 .. 1
    BY <1>1 DEF RecordsOK
  <2>2. FoldRight(UndoRecord, rs, Found(d, f, w, m)) = UndoRecord(rs[1], Found(d, f, w, m))
    BY <2>1, RecordsUndone
  <2>3. UndoRecord(rs[1], Found(d, f, w, m)) = Found(OfDevice(rs[1], d), OfReaders(rs[1], f), w, m)
    <3>1. /\ rs[1].kind \in {"read", "flush", "inject", "clock", "grab", "mask"}
          /\ rs[1].kind \in {"read", "flush", "clock", "mask"} => rs[1].reader \in Readers
      BY <1>1, <2>1 DEF RecordsOK
    <3> QED  BY <3>1, RecordUndone
  <2>4. [r \in Readers |-> OfEntry(rs, r, f[r])] = OfReaders(rs[1], f)
    BY <1>1 DEF OfEntry, OfReaders
  <2> QED  BY <2>2, <2>3, <2>4
<1>2. CASE Len(rs) = 2
  <2>1. 2 \in Nat /\ 2 <= 2 /\ 2 # 0 /\ 2 # 1 /\ DOMAIN rs = 1 .. 2 /\ 1 \in 1 .. 2 /\ 2 \in 1 .. 2
    BY <1>2 DEF RecordsOK
  <2>2. FoldRight(UndoRecord, rs, Found(d, f, w, m))
          = UndoRecord(rs[1], UndoRecord(rs[2], Found(d, f, w, m)))
    BY <2>1, RecordsUndone
  <2>3. /\ \A i \in {1, 2} :
             /\ rs[i].kind \in {"read", "flush", "inject", "clock", "grab", "mask"}
             /\ rs[i].kind \in {"read", "flush", "clock", "mask"} => rs[i].reader \in Readers
        /\ rs[1].kind = "clock" /\ rs[2].kind = "flush"
        /\ \A r \in Readers, c \in Reader : OfReader(rs[2], r, c) \in Reader
    BY <1>2, <2>1 DEF RecordsOK
  <2>4. PICK g \in [Readers -> Reader] : g = OfReaders(rs[2], f)
    BY <2>3 DEF OfReaders
  <2>5. UndoRecord(rs[2], Found(d, f, w, m)) = Found(d, g, w, m)
    <3>1. UndoRecord(rs[2], Found(d, f, w, m)) = Found(OfDevice(rs[2], d), OfReaders(rs[2], f), w, m)
      BY <2>3, RecordUndone
    <3>2. OfDevice(rs[2], d) = d
      BY <2>3 DEF OfDevice
    <3> QED  BY <2>4, <3>1, <3>2
  <2>6. UndoRecord(rs[1], Found(d, g, w, m)) = Found(OfDevice(rs[1], d), OfReaders(rs[1], g), w, m)
    BY <2>3, RecordUndone
  <2>7. [r \in Readers |-> OfEntry(rs, r, f[r])] = OfReaders(rs[1], g)
    BY <1>2, <2>1, <2>4 DEF OfEntry, OfReaders
  <2> QED  BY <2>2, <2>5, <2>6, <2>7
<1> QED  BY <1>1, <1>2 DEF RecordsOK

\* The record of a flush that took G out of a queue and left M events in it.
FlushOf(rec, r, c, G, M) ==
  /\ rec.kind = "flush" /\ rec.reader = r /\ rec.epoch = c.epoch
  /\ rec.count_before = Len(c.queue) /\ rec.readable_before = c.readable /\ rec.count_after = M
  /\ rec.removed = [i \in G |-> c.queue[i]]
  /\ G \in SUBSET (1 .. Len(c.queue)) /\ M \in Nat /\ Cardinality(G) \in Nat
  /\ Len(c.queue) - Cardinality(G) <= M
  /\ \A i \in (1 .. Len(c.queue)) \ G : i - Before(G, i) \in 1 .. M

\* What undo of a flush makes of a queue that did not overflow since.
PutBack(y, x, c, G, M, b) ==
  /\ Len(b) = Len(c.queue)
  /\ \A i \in 1 .. Len(c.queue) :
       b[i] = IF i \in G THEN c.queue[i] ELSE x.queue[i - Before(G, i)]
  /\ y.queue = b \o SubSeq(x.queue, M + 1, Len(x.queue))
  /\ y.readable = IF x.readable <= M THEN c.readable ELSE x.readable - M + Len(c.queue)
LEMMA UnflushIs ==
  ASSUME NEW c \in Reader, NEW r, NEW G, NEW M, NEW rec, FlushOf(rec, r, c, G, M), NEW x \in Reader
  PROVE  LET y == Unflush(x, rec)
         IN /\ y \in Reader /\ y.open = x.open /\ y.revoked = x.revoked /\ y.epoch = x.epoch
            /\ y.clock = x.clock /\ y.masked = x.masked
            /\ x.epoch # c.epoch => y = x
            /\ x.epoch = c.epoch /\ Len(x.queue) >= M =>
                 \E b \in Seq(Event) : PutBack(y, x, c, G, M, b)
<1> DEFINE before == [i \in 1 .. rec.count_before |->
                        IF i \in DOMAIN rec.removed THEN rec.removed[i]
                        ELSE x.queue[i - Before(DOMAIN rec.removed, i)]]
           late == \/ x.epoch # rec.epoch \/ Len(x.queue) < rec.count_after
                   \/ rec.count_before - Cardinality(DOMAIN rec.removed) > rec.count_after
           q == before \o SubSeq(x.queue, rec.count_after + 1, Len(x.queue))
           n == IF x.readable <= rec.count_after THEN rec.readable_before
                ELSE x.readable - rec.count_after + rec.count_before
<1>1. Unflush(x, rec) = IF late THEN x ELSE [x EXCEPT !.queue = q, !.readable = n]
  BY DEF Unflush, Reader, Before
<1>2. PICK N \in Nat : N = Len(c.queue)
  BY ReaderIs
<1>3. /\ rec.epoch = c.epoch /\ rec.count_before = N /\ rec.readable_before = c.readable
      /\ rec.count_after = M /\ rec.removed = [i \in G |-> c.queue[i]]
      /\ G \in SUBSET (1 .. N) /\ M \in Nat /\ Cardinality(G) \in Nat /\ N - Cardinality(G) <= M
      /\ \A i \in (1 .. N) \ G : i - Before(G, i) \in 1 .. M
  BY <1>2 DEF FlushOf
<1>4. DOMAIN rec.removed = G /\ \A i \in G : rec.removed[i] = c.queue[i]
  BY <1>3
<1>5. late <=> x.epoch # c.epoch \/ Len(x.queue) < M
  BY <1>2, <1>3, <1>4
<1>6. CASE x.epoch # c.epoch \/ Len(x.queue) < M
  <2>1. Unflush(x, rec) = x
    BY <1>1, <1>5, <1>6
  <2>2. ~(Len(x.queue) >= M) \/ x.epoch # c.epoch
    BY <1>3, <1>6, ReaderIs
  <2> QED  BY <2>1, <2>2
<1>7. CASE x.epoch = c.epoch /\ ~(Len(x.queue) < M)
  <2>1. PICK l \in Nat, p \in Nat, a \in Nat : l = Len(x.queue) /\ p = x.readable /\ a = c.readable
                                               /\ p <= l /\ a <= N
    BY <1>2, ReaderIs
  <2>2. l >= M /\ x.queue \in Seq(Event) /\ c.queue \in Seq(Event)
    BY <1>3, <1>7, <2>1, ReaderIs
  <2> DEFINE at(i) == IF i \in G THEN c.queue[i] ELSE x.queue[i - Before(G, i)]
  <2>3. before = [i \in 1 .. N |-> at(i)]
    BY <1>3, <1>4
  <2>4. \A i \in 1 .. N : at(i) \in Event
    <3>1. ASSUME NEW i \in 1 .. N PROVE at(i) \in Event
      <4>1. CASE i \in G
        BY <1>2, <2>2, <4>1
      <4>2. CASE i \notin G
        <5>1. PICK k \in 1 .. M : k = i - Before(G, i)
          BY <1>3, <4>2
        <5>2. k \in 1 .. l
          BY <1>3, <2>2
        <5>3. x.queue[k] \in Event
          BY <2>1, <2>2, <5>2
        <5> QED  BY <4>2, <5>1, <5>3
      <4> QED  BY <4>1, <4>2
    <3> QED  BY <3>1
  <2>5. PICK b \in Seq(Event) : b = before /\ Len(b) = N /\ \A i \in 1 .. N : b[i] = at(i)
    <3> HIDE DEF at
    <3>1. [i \in 1 .. N |-> at(i)] \in Seq(Event) /\ Len([i \in 1 .. N |-> at(i)]) = N
      BY <2>4
    <3>2. \A i \in 1 .. N : [j \in 1 .. N |-> at(j)][i] = at(i)
      OBVIOUS
    <3> QED  BY <2>3, <3>1, <3>2
  <2>6. PICK t \in Seq(Event) : t = SubSeq(x.queue, M + 1, l) /\ Len(t) = l - M
    <3>5. PICK k \in Nat : k = M + 1 /\ 1 <= k /\ k <= l + 1
      <4>1. M + 1 \in Nat /\ 1 <= M + 1 /\ M + 1 <= l + 1
        BY <1>3, <2>2
      <4> QED  BY <4>1
    <3>6. PICK s \in Seq(Event) : s = x.queue /\ Len(s) = l
      BY <2>1, <2>2, Zenon
    <3>1. k = M + 1 /\ s = x.queue /\ Len(s) = l /\ 1 <= k /\ k <= l + 1
      BY <3>5, <3>6, Zenon
    <3>2. \A i \in k .. l : s[i] \in Event
      BY <3>1
    <3>3. SubSeq(s, k, l) \in Seq(Event) /\ Len(SubSeq(s, k, l)) = IF k <= l THEN l - k + 1 ELSE 0
      BY <3>1, <3>2, SubSeqProperties
    <3>4. (IF k <= l THEN l - k + 1 ELSE 0) = l - M
      BY <1>3, <2>2, <3>1
    <3> QED  BY <3>1, <3>3, <3>4
  <2>7. PICK z \in Seq(Event) : z = b \o t /\ Len(z) = N + (l - M)
    <3>1. b \o t \in Seq(Event) /\ Len(b \o t) = Len(b) + Len(t)
      OBVIOUS
    <3> QED  BY <2>5, <2>6, <3>1
  <2>8. PICK k \in Nat : k = (IF p <= M THEN a ELSE p - M + N) /\ k <= Len(z)
    <3>1. M \in Nat /\ l >= M /\ Len(z) = N + (l - M)
      BY <1>3, <2>2, <2>7, Zenon
    <3>2. p <= l /\ a <= N
      BY <2>1, Zenon
    <3>3. CASE p <= M
      <4>1. a <= N + (l - M)
        BY <3>1, <3>2
      <4> QED  BY <3>1, <3>3, <4>1
    <3>4. CASE ~(p <= M)
      <4>1. p - M + N \in Nat /\ p - M + N <= N + (l - M)
        BY <3>1, <3>2, <3>4
      <4> QED  BY <3>1, <3>4, <4>1
    <3> QED  BY <3>3, <3>4
  <2> HIDE DEF before, at
  <2>9. q = z
    BY <1>3, <2>1, <2>5, <2>6, <2>7
  <2>10. n = k
    BY <1>3, <2>1, <2>8
  <2> HIDE DEF q, n, late
  <2>11. Unflush(x, rec) = Refill(x, z, k, x.epoch)
    BY <1>1, <1>5, <1>7, <2>9, <2>10, RefillIs
  <2>12. /\ Unflush(x, rec) \in Reader /\ Unflush(x, rec).queue = z /\ Unflush(x, rec).readable = k
         /\ Unflush(x, rec).open = x.open /\ Unflush(x, rec).revoked = x.revoked
         /\ Unflush(x, rec).epoch = x.epoch
         /\ Unflush(x, rec).clock = x.clock /\ Unflush(x, rec).masked = x.masked
    <3>1. PICK e \in Nat : e = x.epoch
      BY ReaderIs
    <3>2. Unflush(x, rec) = Refill(x, z, k, e) /\ k <= Len(z)
      BY <2>8, <2>11, <3>1, Zenon
    <3>3. LET f == Refill(x, z, k, e)
          IN /\ f \in Reader /\ f.queue = z /\ f.readable = k /\ f.epoch = e
             /\ f.open = x.open /\ f.revoked = x.revoked /\ f.clock = x.clock /\ f.masked = x.masked
      BY <3>2, Refilled
    <3> QED  BY <3>1, <3>2, <3>3, Zenon
  <2>13. \A i \in 1 .. N : b[i] = IF i \in G THEN c.queue[i]
                                  ELSE x.queue[i - Before(G, i)]
    BY <2>5 DEF at
  <2>14. PutBack(Unflush(x, rec), x, c, G, M, b)
    BY <1>2, <2>1, <2>5, <2>6, <2>7, <2>8, <2>12, <2>13 DEF PutBack
  <2> QED  BY <1>7, <2>12, <2>14
<1> QED  BY <1>6, <1>7

LEMMA SubSeqIs ==
  ASSUME NEW E, NEW s \in Seq(E), NEW k \in Int, NEW l \in Int, \A i \in k .. l : s[i] \in E
  PROVE  /\ SubSeq(s, k, l) \in Seq(E) /\ Len(SubSeq(s, k, l)) = (IF k <= l THEN l - k + 1 ELSE 0)
         /\ \A i \in 1 .. l - k + 1 : SubSeq(s, k, l)[i] = s[k + i - 1]
<1>1. SubSeq(s, k, l) \in Seq(E) /\ Len(SubSeq(s, k, l)) = (IF k <= l THEN l - k + 1 ELSE 0)
  BY SubSeqProperties
<1>2. \A i \in 1 .. l - k + 1 : SubSeq(s, k, l)[i] = s[k + i - 1]
  BY SubSeqProperties
<1> QED  BY <1>1, <1>2

LEMMA TailIs ==
  ASSUME NEW E, NEW P \in Seq(E), NEW s \in Seq(E), NEW m \in Nat, Len(s) = m + Len(P),
         \A j \in 1 .. Len(P) : s[m + j] = P[j]
  PROVE  SubSeq(s, m + 1, Len(s)) = P
<1>1. \A i \in m + 1 .. Len(s) : s[i] \in E
  OBVIOUS
<1>2. PICK k \in Int, l \in Int : k = m + 1 /\ l = Len(s)
  OBVIOUS
<1>3. \A i \in k .. l : s[i] \in E
  BY <1>1, <1>2
<1>4. PICK t : t = SubSeq(s, k, l)
  OBVIOUS
<1>5. /\ SubSeq(s, k, l) \in Seq(E) /\ Len(SubSeq(s, k, l)) = (IF k <= l THEN l - k + 1 ELSE 0)
      /\ \A i \in 1 .. l - k + 1 : SubSeq(s, k, l)[i] = s[k + i - 1]
  BY <1>3, SubSeqIs
<1>6. /\ t \in Seq(E) /\ Len(t) = (IF k <= l THEN l - k + 1 ELSE 0)
      /\ \A i \in 1 .. l - k + 1 : t[i] = s[k + i - 1]
  BY <1>4, <1>5, Zenon
<1>7. Len(t) = Len(P)
  BY <1>2, <1>6
<1>8. ASSUME NEW i \in 1 .. Len(P) PROVE t[i] = P[i]
  <2>1. i \in 1 .. l - k + 1 /\ k + i - 1 = m + i
    BY <1>2
  <2> QED  BY <1>6, <2>1
<1>9. t = P
  BY <1>6, <1>7, <1>8, SeqEqual
<1> QED  BY <1>2, <1>4, <1>9, Zenon

LEMMA TailOf ==
  ASSUME NEW E, NEW q \in Seq(E), NEW P \in Seq(E)
  PROVE  SubSeq(q \o P, Len(q) + 1, Len(q \o P)) = P
<1>1. /\ q \o P \in Seq(E) /\ Len(q \o P) = Len(q) + Len(P) /\ Len(q) \in Nat
      /\ \A j \in 1 .. Len(P) : (q \o P)[Len(q) + j] = P[j]
  OBVIOUS
<1> QED  BY <1>1, TailIs, Zenon

\* What comes behind what a flush left stays behind what undo puts back.
LEMMA Unflushed ==
  ASSUME NEW c \in Reader, NEW d \in Reader, NEW r, NEW G, NEW M, NEW rec,
         FlushOf(rec, r, c, G, M), Len(d.queue) = M, d.epoch = c.epoch, d.open = c.open,
         d.revoked = c.revoked, d.clock = c.clock, d.masked = c.masked,
         \A i \in (1 .. Len(c.queue)) \ G :
           d.queue[i - Before(G, i)] = c.queue[i],
         NEW P \in Ends
  PROVE  Unflush(Fed(d, P), rec) = Fed(c, P)
<1>1. P \in Seq(Event)
  BY DEF Ends
<1>2. PICK x \in Reader : x = Fed(d, P)
  BY <1>1, FedIs
<1>3. PICK p \in Nat : p = Len(P) /\ (P = <<>> <=> p = 0)
  BY <1>1, EmptySeq
<1>4. PICK N \in Nat : N = Len(c.queue)
  BY ReaderIs
<1>5. /\ x.queue = d.queue \o P /\ x.epoch = c.epoch /\ x.open = c.open /\ x.revoked = c.revoked
      /\ x.clock = c.clock /\ x.masked = c.masked /\ Len(x.queue) = M + p
      /\ x.readable = IF p = 0 THEN d.readable ELSE M + p
  BY <1>1, <1>2, <1>3, FedIs
<1>6. M \in Nat /\ G \in SUBSET (1 .. N)
      /\ \A i \in (1 .. N) \ G : i - Before(G, i) \in 1 .. M
  BY <1>4 DEF FlushOf
<1>7. /\ d.queue \in Seq(Event) /\ d.readable \in Nat /\ d.readable <= M /\ c.queue \in Seq(Event)
      /\ c.readable \in Nat
  BY ReaderIs
<1>8. PICK y \in Reader : y = Unflush(x, rec) /\ y.open = x.open /\ y.revoked = x.revoked
                          /\ y.epoch = x.epoch /\ y.clock = x.clock /\ y.masked = x.masked
  BY UnflushIs
<1>9. PICK b \in Seq(Event) :
        /\ Len(b) = N
        /\ \A i \in 1 .. N : b[i] = IF i \in G THEN c.queue[i]
                                    ELSE x.queue[i - Before(G, i)]
        /\ y.queue = b \o SubSeq(x.queue, M + 1, Len(x.queue))
        /\ y.readable = IF x.readable <= M THEN c.readable ELSE x.readable - M + N
  <2>1. Len(x.queue) >= M /\ x.epoch = c.epoch
    BY <1>5, <1>6
  <2>2. PICK b \in Seq(Event) : PutBack(Unflush(x, rec), x, c, G, M, b)
    BY <2>1, UnflushIs
  <2> QED  BY <1>4, <1>5, <1>8, <2>2, Zenon DEF PutBack
<1>10. b = c.queue
  <2>1. ASSUME NEW i \in 1 .. N PROVE b[i] = c.queue[i]
    <3>1. CASE i \in G
      BY <1>9, <3>1
    <3>2. CASE i \notin G
      <4>1. PICK k \in 1 .. M : k = i - Before(G, i)
        BY <1>6, <3>2
      <4>2. (d.queue \o P)[k] = d.queue[k]
        BY <1>1, <1>6, <1>7
      <4>3. d.queue[k] = c.queue[i]
        BY <1>4, <3>2, <4>1
      <4> QED  BY <1>5, <1>9, <3>2, <4>1, <4>2, <4>3
    <3> QED  BY <3>1, <3>2
  <2>2. \A i \in 1 .. Len(b) : b[i] = c.queue[i]
    BY <1>9, <2>1
  <2>3. Len(b) = Len(c.queue)
    BY <1>4, <1>9
  <2> QED  BY <1>7, <2>2, <2>3, SeqEqual
<1>11. SubSeq(x.queue, M + 1, Len(x.queue)) = P
  <2>1. SubSeq(d.queue \o P, Len(d.queue) + 1, Len(d.queue \o P)) = P
    BY <1>1, <1>7, TailOf, Zenon
  <2> QED  BY <1>5, <2>1, Zenon
<1>12. y.queue = c.queue \o P
  BY <1>9, <1>10, <1>11, Zenon
<1>13. y.readable = IF p = 0 THEN c.readable ELSE N + p
  BY <1>5, <1>6, <1>7, <1>9
<1>14. PICK z \in Reader : z = Fed(c, P) /\ z.queue = c.queue \o P /\ z.epoch = c.epoch
         /\ z.readable = (IF P = <<>> THEN c.readable ELSE N + p) /\ z.open = c.open
         /\ z.revoked = c.revoked /\ z.clock = c.clock /\ z.masked = c.masked
  BY <1>1, <1>3, <1>4, FedIs
<1>15. y = z
  <2>1. y.queue = z.queue
    BY <1>12, <1>14, Zenon
  <2>2. y.readable = z.readable
    BY <1>3, <1>13, <1>14
  <2>3. /\ y.open = z.open /\ y.epoch = z.epoch /\ y.clock = z.clock /\ y.masked = z.masked
        /\ y.revoked = z.revoked
    BY <1>5, <1>8, <1>14, Zenon
  <2> QED  BY <2>1, <2>2, <2>3, ReaderSame
<1> QED  BY <1>2, <1>8, <1>14, <1>15

LEMMA HeadOf ==
  ASSUME NEW E, NEW q \in Seq(E), NEW P \in Seq(E)
  PROVE  SubSeq(q \o P, 1, Len(q)) = q
<1>0. /\ q \o P \in Seq(E) /\ Len(q \o P) = Len(q) + Len(P)
      /\ \A i \in 1 .. Len(q) : (q \o P)[i] = q[i]
  OBVIOUS
<1>1. PICK s \in Seq(E) : /\ s = q \o P /\ Len(s) = Len(q) + Len(P)
                          /\ \A i \in 1 .. Len(q) : s[i] = q[i]
  BY <1>0, Zenon
<1>2. PICK l \in Int : l = Len(q) /\ l >= 0 /\ l <= Len(s)
  BY <1>1
<1>3. \A i \in 1 .. l : s[i] \in E
  BY <1>1, <1>2
<1>4. PICK t : t = SubSeq(s, 1, l)
  OBVIOUS
<1>5. /\ SubSeq(s, 1, l) \in Seq(E) /\ Len(SubSeq(s, 1, l)) = (IF 1 <= l THEN l - 1 + 1 ELSE 0)
      /\ \A i \in 1 .. l - 1 + 1 : SubSeq(s, 1, l)[i] = s[1 + i - 1]
  BY <1>3, SubSeqIs
<1>6. /\ t \in Seq(E) /\ Len(t) = (IF 1 <= l THEN l - 1 + 1 ELSE 0)
      /\ \A i \in 1 .. l - 1 + 1 : t[i] = s[1 + i - 1]
  BY <1>4, <1>5, Zenon
<1>7. Len(t) = Len(q)
  BY <1>2, <1>6
<1>8. ASSUME NEW i \in 1 .. Len(q) PROVE t[i] = q[i]
  <2>1. i \in 1 .. l - 1 + 1 /\ 1 + i - 1 = i
    BY <1>2
  <2> QED  BY <1>1, <1>6, <2>1
<1>9. t = q
  BY <1>6, <1>7, <1>8, SeqEqual
<1> QED  BY <1>1, <1>2, <1>4, <1>9, Zenon

\* What a write put into a queue comes out of it, what came since stays.
LEMMA DeliveryTaken ==
  ASSUME NEW c \in Reader, NEW X \in Ends, X # <<>>, NEW P \in Ends, NEW rec,
         rec.epoch = c.epoch, rec.count_before = Len(c.queue), rec.readable_before = c.readable,
         rec.appended = Len(X)
  PROVE  WithoutDelivery(Fed(Fed(c, X), P), rec) = Fed(c, P)
<1>1. P \in Seq(Event) /\ X \in Seq(Event) /\ X \o P \in Ends /\ X \o P \in Seq(Event)
  BY EndsJoined DEF Ends
<1>2. PICK x \in Reader : x = Fed(Fed(c, X), P) /\ x = Fed(c, X \o P)
  BY FedTwice, <1>1, FedIs
<1>3. PICK q \in Seq(Event) : q = c.queue
  BY ReaderIs
<1>4. PICK m \in Nat, a \in Nat, p \in Nat, n \in Nat :
        m = Len(q) /\ a = Len(X) /\ p = Len(P) /\ (P = <<>> <=> p = 0) /\ a >= 1 /\ n = c.readable
        /\ Len(X \o P) = a + p
  <2>1. Len(X) \in Nat /\ Len(P) \in Nat /\ (P = <<>> <=> Len(P) = 0) /\ Len(X) >= 1
        /\ Len(X \o P) = Len(X) + Len(P)
    BY <1>1, EmptySeq
  <2> QED  BY <2>1, ReaderIs
<1>5. X \o P # <<>>
  BY <1>1, ConcatEqualIffEmpty
<1>6. /\ x.queue = q \o (X \o P) /\ x.epoch = c.epoch /\ x.open = c.open /\ x.revoked = c.revoked
      /\ x.clock = c.clock /\ x.masked = c.masked /\ x.readable = m + (a + p)
      /\ Len(x.queue) = m + (a + p)
  <2>1. /\ Fed(c, X \o P).queue = c.queue \o (X \o P) /\ Fed(c, X \o P).epoch = c.epoch
        /\ Fed(c, X \o P).readable = Len(c.queue) + Len(X \o P)
        /\ Fed(c, X \o P).open = c.open /\ Fed(c, X \o P).revoked = c.revoked
        /\ Fed(c, X \o P).clock = c.clock /\ Fed(c, X \o P).masked = c.masked
        /\ Len(Fed(c, X \o P).queue) = Len(c.queue) + Len(X \o P)
    BY <1>1, <1>5, FedIs
  <2> QED  BY <1>2, <1>3, <1>4, <2>1
<1>7. x.queue = (q \o X) \o P
  <2>1. (q \o X) \o P = q \o (X \o P)
    BY <1>1, Joined
  <2> QED  BY <1>6, <2>1, Zenon
<1>8. SubSeq(x.queue, 1, m) = q
  BY <1>1, <1>4, <1>6, HeadOf, Zenon
<1>9. q \o X \in Seq(Event) /\ Len(q \o X) = m + a
  BY <1>1, <1>4
<1>10. SubSeq(x.queue, m + a + 1, Len(x.queue)) = P
  <2>1. SubSeq((q \o X) \o P, Len(q \o X) + 1, Len((q \o X) \o P)) = P
    BY <1>1, <1>9, TailOf, Zenon
  <2> QED  BY <1>7, <1>9, <2>1, Zenon
<1> DEFINE w == [x EXCEPT
          !.queue = SubSeq(@, 1, rec.count_before)
                      \o SubSeq(@, rec.count_before + rec.appended + 1, Len(@)),
          !.readable = CASE @ = rec.count_before + rec.appended -> rec.readable_before
                         [] @ > rec.count_before + rec.appended -> @ - rec.appended
                         [] OTHER -> @]
<1>11. WithoutDelivery(x, rec) = w
  <2>1. x.epoch = rec.epoch /\ rec.appended # 0 /\ ~(Len(x.queue) < rec.count_before + rec.appended)
    <3>1. rec.count_before = m /\ rec.appended = a /\ x.epoch = rec.epoch /\ Len(x.queue) = m + (a + p)
      BY <1>3, <1>4, <1>6, Zenon
    <3>2. a # 0 /\ ~(m + (a + p) < m + a)
      BY <1>4
    <3> QED  BY <3>1, <3>2, Zenon
  <2> QED  BY <2>1 DEF WithoutDelivery
<1>12. PICK k \in Nat : k = (IF p = 0 THEN n ELSE m + p) /\ k <= m + p
  <2>1. n <= m
    BY <1>3, <1>4, ReaderIs
  <2>2. p = 0 => n <= m + p
    BY <2>1
  <2> QED  BY <2>2
<1>13. (CASE x.readable = rec.count_before + rec.appended -> rec.readable_before
          [] x.readable > rec.count_before + rec.appended -> x.readable - rec.appended
          [] OTHER -> x.readable) = k
  <2>1. /\ rec.count_before = m /\ rec.appended = a /\ rec.readable_before = n
        /\ x.readable = m + (a + p)
    BY <1>3, <1>4, <1>6
  <2>2. CASE p = 0
    BY <1>12, <2>1, <2>2
  <2>3. CASE p # 0
    <3>1. m + (a + p) > m + a /\ m + (a + p) - a = m + p /\ m + (a + p) # m + a
      BY <2>3
    <3> QED  BY <1>12, <2>1, <2>3, <3>1
  <2> QED  BY <2>2, <2>3
<1>14. SubSeq(x.queue, 1, rec.count_before)
         \o SubSeq(x.queue, rec.count_before + rec.appended + 1, Len(x.queue)) = q \o P
  BY <1>3, <1>4, <1>8, <1>10, Zenon
<1>15. PICK z \in Seq(Event) : z = q \o P /\ Len(z) = m + p
  <2>1. q \o P \in Seq(Event) /\ Len(q \o P) = Len(q) + Len(P)
    BY <1>1
  <2> QED  BY <1>4, <2>1, Zenon
<1>16. PICK e \in Nat : e = x.epoch
  BY ReaderIs
<1>17. w = Refill(x, z, k, e)
  <2>1. w = [x EXCEPT
          !.queue = SubSeq(x.queue, 1, rec.count_before)
                      \o SubSeq(x.queue, rec.count_before + rec.appended + 1, Len(x.queue)),
          !.readable = CASE x.readable = rec.count_before + rec.appended -> rec.readable_before
                         [] x.readable > rec.count_before + rec.appended -> x.readable - rec.appended
                         [] OTHER -> x.readable]
    BY DEF Reader
  <2>2. [x EXCEPT !.queue = z, !.readable = k] = Refill(x, z, k, e)
    BY <1>16, RefillIs, Zenon
  <2> HIDE DEF w
  <2> QED  BY <1>13, <1>14, <1>15, <2>1, <2>2, Zenon
<1> HIDE DEF w
<1>18. PICK y \in Reader : /\ y = Refill(x, z, k, e) /\ y.queue = z /\ y.readable = k /\ y.epoch = e
                           /\ y.open = x.open /\ y.revoked = x.revoked /\ y.clock = x.clock
                           /\ y.masked = x.masked
  <2>1. k <= Len(z)
    BY <1>12, <1>15
  <2>2. LET f == Refill(x, z, k, e)
        IN /\ f \in Reader /\ f.queue = z /\ f.readable = k /\ f.epoch = e
           /\ f.open = x.open /\ f.revoked = x.revoked /\ f.clock = x.clock /\ f.masked = x.masked
    BY <2>1, Refilled
  <2> QED  BY <2>2, Zenon
<1>19. PICK v \in Reader : v = Fed(c, P) /\ v.queue = c.queue \o P /\ v.epoch = c.epoch
         /\ v.readable = (IF P = <<>> THEN c.readable ELSE Len(c.queue) + Len(P)) /\ v.open = c.open
         /\ v.revoked = c.revoked /\ v.clock = c.clock /\ v.masked = c.masked
  BY <1>1, FedIs
<1>20. y = v
  <2>1. y.queue = v.queue
    BY <1>3, <1>15, <1>18, <1>19, Zenon
  <2>2. y.readable = v.readable
    <3>1. v.readable = IF p = 0 THEN n ELSE m + p
      BY <1>3, <1>4, <1>19
    <3> QED  BY <1>12, <1>18, <3>1
  <2>3. /\ y.open = v.open /\ y.epoch = v.epoch /\ y.clock = v.clock /\ y.masked = v.masked
        /\ y.revoked = v.revoked
    BY <1>6, <1>16, <1>18, <1>19, Zenon
  <2> QED  BY <2>1, <2>2, <2>3, ReaderSame
<1> QED  BY <1>2, <1>11, <1>17, <1>18, <1>19, <1>20, Zenon
-----------------------------------------------------------------------------
(* What undo of an entry does to a reader, whatever came to it since. *)

Holds(q, x) == \E i \in 1 .. Len(q) : q[i] = x

\* Undo of an entry whose reader lost events since only puts some back in front.
InFront(c, x, y) ==
  /\ y \in Reader /\ y.open = x.open /\ y.revoked = x.revoked /\ y.epoch = x.epoch
  /\ y.clock = c.clock /\ y.masked = c.masked
  /\ \E k \in Nat : /\ y.readable = x.readable + k /\ Len(y.queue) = Len(x.queue) + k
                    /\ \A i \in 1 .. Len(x.queue) : y.queue[k + i] = x.queue[i]

\* An entry of these records found the reader c, which was d when the next was made, or is
\* d now, and S came to it since: without a loss undo gives back c with S behind it.
LinkOf(rs, r, c, S, d) ==
  /\ c \in Reader /\ d \in Reader /\ Whole(c) /\ S \in Ends
  /\ d.open = c.open /\ d.revoked = c.revoked /\ c.epoch <= d.epoch
  /\ c.epoch < d.epoch => Holds(d.queue, Dropped)
  /\ c.epoch = d.epoch => \A P \in Ends : OfEntry(rs, r, Fed(d, P)) = Fed(c, S \o P)
  /\ \A x \in Reader :
       x.epoch # c.epoch /\ x.clock = d.clock /\ x.masked = d.masked =>
         InFront(c, x, OfEntry(rs, r, x))

LEMMA InFrontSame ==
  ASSUME NEW c \in Reader, NEW x \in Reader, x.clock = c.clock, x.masked = c.masked
  PROVE  InFront(c, x, x)
<1>1. /\ 0 \in Nat /\ x.readable = x.readable + 0 /\ Len(x.queue) = Len(x.queue) + 0
      /\ \A i \in 1 .. Len(x.queue) : x.queue[0 + i] = x.queue[i]
  BY ReaderIs
<1> QED  BY <1>1 DEF InFront

LEMMA EmptyEnds ==
  /\ <<>> \in Ends
  /\ \A P \in Ends : P \in Seq(Event) /\ <<>> \o P = P /\ P \o <<>> = P
BY DEF Ends

\* A reader that an entry has nothing of.
LEMMA LinkUntouched ==
  ASSUME NEW rs, NEW r, NEW c \in Reader, Whole(c), \A x \in Reader : OfEntry(rs, r, x) = x
  PROVE  LinkOf(rs, r, c, <<>>, c)
<1>1. c.epoch \in Nat
  BY ReaderIs
<1>2. \A P \in Ends : OfEntry(rs, r, Fed(c, P)) = Fed(c, <<>> \o P)
  <2>1. \A P \in Ends : Fed(c, P) \in Reader
    BY EmptyEnds, FedIs
  <2> QED  BY <2>1, EmptyEnds
<1>3. \A x \in Reader : x.clock = c.clock /\ x.masked = c.masked => InFront(c, x, OfEntry(rs, r, x))
  BY InFrontSame
<1> QED  BY <1>1, <1>2, <1>3, EmptyEnds DEF LinkOf

\* More came.
LEMMA LinkFed ==
  ASSUME NEW rs, NEW r, NEW c, NEW S, NEW d, LinkOf(rs, r, c, S, d), NEW A \in Ends
  PROVE  LinkOf(rs, r, c, S \o A, Fed(d, A))
<1>1. /\ c \in Reader /\ d \in Reader /\ Whole(c) /\ S \in Ends
      /\ d.open = c.open /\ d.revoked = c.revoked /\ c.epoch <= d.epoch
      /\ c.epoch < d.epoch => Holds(d.queue, Dropped)
      /\ c.epoch = d.epoch => \A P \in Ends : OfEntry(rs, r, Fed(d, P)) = Fed(c, S \o P)
      /\ \A x \in Reader :
           x.epoch # c.epoch /\ x.clock = d.clock /\ x.masked = d.masked =>
             InFront(c, x, OfEntry(rs, r, x))
  BY DEF LinkOf
<1>2. A \in Seq(Event) /\ S \in Seq(Event)
  BY <1>1, EmptyEnds
<1>3. PICK e \in Reader :
        /\ e = Fed(d, A) /\ e.queue = d.queue \o A /\ e.epoch = d.epoch /\ e.open = d.open
        /\ e.revoked = d.revoked /\ e.clock = d.clock /\ e.masked = d.masked
  BY <1>1, <1>2, FedIs
<1>4. S \o A \in Ends
  BY <1>1, EndsJoined
<1>5. ASSUME c.epoch < e.epoch PROVE Holds(e.queue, Dropped)
  <2>1. PICK i \in 1 .. Len(d.queue) : d.queue[i] = Dropped
    BY <1>1, <1>3, <1>5 DEF Holds
  <2>2. d.queue \in Seq(Event)
    BY <1>1, ReaderIs
  <2>3. i \in 1 .. Len(d.queue \o A) /\ (d.queue \o A)[i] = d.queue[i]
    BY <1>2, <2>2
  <2> QED  BY <1>3, <2>1, <2>3 DEF Holds
<1>6. ASSUME c.epoch = e.epoch, NEW P \in Ends
      PROVE  OfEntry(rs, r, Fed(e, P)) = Fed(c, (S \o A) \o P)
  <2>1. A \o P \in Ends /\ Fed(e, P) = Fed(d, A \o P)
    BY <1>1, <1>3, FedTwice
  <2>2. OfEntry(rs, r, Fed(d, A \o P)) = Fed(c, S \o (A \o P))
    BY <1>1, <1>3, <1>6, <2>1
  <2>3. (S \o A) \o P = S \o (A \o P)
    BY <1>2, EmptyEnds, Joined
  <2> QED  BY <2>1, <2>2, <2>3
<1> QED  BY <1>1, <1>3, <1>4, <1>5, <1>6 DEF LinkOf

\* Some was lost.
LEMMA LinkLost ==
  ASSUME NEW rs, NEW r, NEW c, NEW S, NEW d, LinkOf(rs, r, c, S, d), NEW e \in Reader, Lost(d, e)
  PROVE  LinkOf(rs, r, c, S, e)
<1>1. c.epoch \in Nat /\ d.epoch \in Nat /\ e.epoch \in Nat /\ c.epoch <= d.epoch /\ d.epoch < e.epoch
  BY ReaderIs DEF LinkOf, Lost
<1>2. Holds(e.queue, Dropped)
  <2>1. 1 \in 1 .. Len(e.queue)
    BY ReaderIs DEF Lost
  <2> QED  BY <2>1 DEF Holds, Lost
<1>3. c.epoch < e.epoch /\ c.epoch # e.epoch
  BY <1>1
<1> QED  BY <1>1, <1>2, <1>3 DEF LinkOf, Lost

\* What SinceReport() adds.
LEMMA AddedIs ==
  ASSUME NEW c \in Reader, NEW d, Grown(c, d)
  PROVE  /\ Added(c, d) \in Ends
         /\ d = Fed(c, Added(c, d)) \/ (Added(c, d) = <<>> /\ Lost(c, d))
<1>1. CASE \E X \in Ends : d = Fed(c, X)
  <2>1. PICK X \in Ends : d = Fed(c, X)
    BY <1>1
  <2>2. X \in Seq(Event)
    BY EmptyEnds
  <2>3. d.queue = c.queue \o X /\ d.epoch = c.epoch
    BY <2>1, <2>2, FedIs
  <2>4. c.queue \in Seq(Event)
    BY ReaderIs
  <2>5. SubSeq(d.queue, Len(c.queue) + 1, Len(d.queue)) = X
    BY <2>2, <2>3, <2>4, TailOf, Zenon
  <2>6. Added(c, d) = X
    BY <2>3, <2>5, Zenon DEF Added
  <2> QED  BY <2>1, <2>6
<1>2. CASE Lost(c, d)
  <2>1. c.epoch # d.epoch
    BY <1>2, ReaderIs DEF Lost, Grown
  <2> QED  BY <1>2, <2>1, EmptyEnds DEF Added
<1> QED  BY <1>1, <1>2 DEF Grown

LEMMA LinkGrown ==
  ASSUME NEW rs, NEW r, NEW c, NEW S, NEW d, LinkOf(rs, r, c, S, d), NEW e, Grown(d, e)
  PROVE  LinkOf(rs, r, c, S \o Added(d, e), e)
<1>1. d \in Reader /\ e \in Reader /\ S \in Ends
  BY DEF LinkOf, Grown
<1>2. CASE e = Fed(d, Added(d, e))
  <2>1. PICK A \in Ends : A = Added(d, e)
    BY <1>1, AddedIs
  <2>2. LinkOf(rs, r, c, S \o A, Fed(d, A))
    BY LinkFed
  <2> QED  BY <1>2, <2>1, <2>2, Zenon
<1>3. CASE Added(d, e) = <<>> /\ Lost(d, e)
  <2>1. S \o <<>> = S
    BY <1>1, EmptyEnds
  <2>2. LinkOf(rs, r, c, S, e)
    BY <1>1, <1>3, LinkLost
  <2> QED  BY <1>3, <2>1, <2>2, Zenon
<1> QED  BY <1>1, <1>2, <1>3, AddedIs

\* An entry undone, and the one before it.
Undone(c, S, d, y) ==
  /\ y \in Reader /\ Whole(y) /\ y.open = c.open /\ y.revoked = c.revoked
  /\ y.clock = c.clock /\ y.masked = c.masked
  /\ d.epoch = c.epoch => y = Fed(c, S)
  /\ d.epoch # c.epoch => c.epoch < y.epoch /\ Holds(y.queue, Dropped)

LEMMA LinkUndone ==
  ASSUME NEW rs, NEW r, NEW c, NEW S, NEW d, LinkOf(rs, r, c, S, d), Whole(d)
  PROVE  Undone(c, S, d, OfEntry(rs, r, d))
<1>1. /\ c \in Reader /\ d \in Reader /\ Whole(c) /\ S \in Ends
      /\ d.open = c.open /\ d.revoked = c.revoked /\ c.epoch <= d.epoch
      /\ c.epoch < d.epoch => Holds(d.queue, Dropped)
      /\ c.epoch = d.epoch => \A P \in Ends : OfEntry(rs, r, Fed(d, P)) = Fed(c, S \o P)
      /\ \A x \in Reader :
           x.epoch # c.epoch /\ x.clock = d.clock /\ x.masked = d.masked =>
             InFront(c, x, OfEntry(rs, r, x))
  BY DEF LinkOf
<1>2. PICK y : y = OfEntry(rs, r, d)
  OBVIOUS
<1>3. CASE c.epoch = d.epoch
  <2>1. <<>> \in Ends /\ Fed(d, <<>>) = d /\ S \o <<>> = S /\ S \in Seq(Event)
    BY <1>1, EmptyEnds, FedIs
  <2>2. y = Fed(c, S)
    BY <1>1, <1>2, <1>3, <2>1
  <2>3. /\ y \in Reader /\ y.open = c.open /\ y.revoked = c.revoked /\ y.clock = c.clock
        /\ y.masked = c.masked
    BY <1>1, <2>1, <2>2, FedIs
  <2>4. Whole(y)
    <3>1. Grown(c, y)
      BY <1>1, <2>2, <2>3 DEF Grown
    <3> QED  BY <1>1, <3>1, WholeGrown
  <2> QED  BY <1>2, <1>3, <2>2, <2>3, <2>4 DEF Undone
<1>4. CASE c.epoch # d.epoch
  <2>1. c.epoch < d.epoch
    BY <1>1, <1>4, ReaderIs
  <2>2. InFront(c, d, y)
    BY <1>1, <1>2, <1>4
  <2>3. PICK k \in Nat : /\ y.readable = d.readable + k /\ Len(y.queue) = Len(d.queue) + k
                         /\ \A i \in 1 .. Len(d.queue) : y.queue[k + i] = d.queue[i]
    BY <2>2 DEF InFront
  <2>4. PICK h \in 1 .. Len(d.queue) : d.queue[h] = Dropped
    BY <1>1, <2>1 DEF Holds
  <2>5. y \in Reader /\ Whole(y)
    <3>1. y \in Reader
      BY <2>2 DEF InFront
    <3> QED  BY <1>1, <2>3, <2>4, <3>1, WholeInFront
  <2>6. Holds(y.queue, Dropped)
    <3>1. PICK n \in Nat : n = Len(d.queue)
      BY <1>1, ReaderIs
    <3>2. k + h \in 1 .. n + k
      BY <3>1
    <3> QED  BY <2>3, <2>4, <3>1, <3>2 DEF Holds
  <2> QED  BY <1>1, <1>2, <1>4, <2>1, <2>2, <2>5, <2>6 DEF Undone, InFront
<1> QED  BY <1>3, <1>4

LEMMA LinkBack ==
  ASSUME NEW rs, NEW r, NEW b, NEW R, NEW c \in Reader, NEW S \in Ends, NEW d \in Reader, NEW y,
         LinkOf(rs, r, b, R, Fed(c, S)), Undone(c, S, d, y)
  PROVE  LinkOf(rs, r, b, R, y)
<1>1. CASE d.epoch = c.epoch
  BY <1>1 DEF Undone
<1>2. CASE d.epoch # c.epoch
  <2>1. S \in Seq(Event)
    BY EmptyEnds
  <2>2. PICK z \in Reader : /\ z = Fed(c, S) /\ z.open = c.open /\ z.revoked = c.revoked
                            /\ z.epoch = c.epoch /\ z.clock = c.clock /\ z.masked = c.masked
    BY <2>1, FedIs
  <2>3. /\ y \in Reader /\ y.open = z.open /\ y.revoked = z.revoked /\ y.clock = z.clock
        /\ y.masked = z.masked /\ z.epoch < y.epoch /\ Holds(y.queue, Dropped)
    BY <1>2, <2>2 DEF Undone
  <2>4. /\ b \in Reader /\ Whole(b) /\ R \in Ends
        /\ z.open = b.open /\ z.revoked = b.revoked /\ b.epoch <= z.epoch
        /\ \A x \in Reader :
             x.epoch # b.epoch /\ x.clock = z.clock /\ x.masked = z.masked =>
               InFront(b, x, OfEntry(rs, r, x))
    BY <2>2 DEF LinkOf
  <2>5. b.epoch < y.epoch /\ b.epoch # y.epoch /\ b.epoch <= y.epoch
    BY <2>3, <2>4, ReaderIs
  <2> QED  BY <2>3, <2>4, <2>5 DEF LinkOf
<1> QED  BY <1>1, <1>2
-----------------------------------------------------------------------------
(* What each call leaves for undo. *)

Timed(c, clock) == [c EXCEPT !.clock = clock]
LEMMA TimedIs ==
  ASSUME NEW c \in Reader, NEW clock \in {"real", "monotonic"}
  PROVE  LET d == Timed(c, clock)
         IN /\ d \in Reader /\ d.queue = c.queue /\ d.readable = c.readable /\ d.epoch = c.epoch
            /\ d.open = c.open /\ d.revoked = c.revoked /\ d.clock = clock /\ d.masked = c.masked
<1> DEFINE d == Timed(c, clock)
<1>1. /\ d \in [open : BOOLEAN, queue : Seq(Event), readable : Nat, epoch : Nat,
               clock : {"real", "monotonic"}, masked : SUBSET MaskTypes, revoked : BOOLEAN]
      /\ d.queue = c.queue /\ d.readable = c.readable /\ d.epoch = c.epoch
      /\ d.open = c.open /\ d.revoked = c.revoked /\ d.clock = clock /\ d.masked = c.masked
  BY DEF Timed, Reader
<1>2. d.readable <= Len(d.queue)
  BY <1>1, ReaderIs
<1> QED  BY <1>1, <1>2 DEF Reader

Masking(c, types) == [c EXCEPT !.masked = types]
LEMMA MaskingIs ==
  ASSUME NEW c \in Reader, NEW types \in SUBSET MaskTypes
  PROVE  LET d == Masking(c, types)
         IN /\ d \in Reader /\ d.queue = c.queue /\ d.readable = c.readable /\ d.epoch = c.epoch
            /\ d.open = c.open /\ d.revoked = c.revoked /\ d.clock = c.clock /\ d.masked = types
<1> DEFINE d == Masking(c, types)
<1>1. /\ d \in [open : BOOLEAN, queue : Seq(Event), readable : Nat, epoch : Nat,
               clock : {"real", "monotonic"}, masked : SUBSET MaskTypes, revoked : BOOLEAN]
      /\ d.queue = c.queue /\ d.readable = c.readable /\ d.epoch = c.epoch
      /\ d.open = c.open /\ d.revoked = c.revoked /\ d.clock = c.clock /\ d.masked = types
  BY DEF Masking, Reader
<1>2. d.readable <= Len(d.queue)
  BY <1>1, ReaderIs
<1> QED  BY <1>1, <1>2 DEF Reader

\* One that has the same queue is as whole.
LEMMA WholeSame ==
  ASSUME NEW c \in Reader, NEW d \in Reader, Whole(c), d.queue = c.queue, d.readable = c.readable
  PROVE  Whole(d)
BY DEF Whole

LEMMA FedSame ==
  ASSUME NEW c \in Reader, NEW d \in Reader, d.queue = c.queue, d.readable = c.readable,
         d.epoch = c.epoch, d.open = c.open, d.revoked = c.revoked, NEW P \in Ends,
         NEW y \in Reader, y.queue = Fed(d, P).queue, y.readable = Fed(d, P).readable,
         y.epoch = c.epoch, y.open = c.open, y.revoked = c.revoked, y.clock = c.clock,
         y.masked = c.masked
  PROVE  y = Fed(c, P)
<1>1. P \in Seq(Event)
  BY EmptyEnds
<1>2. PICK z \in Reader : /\ z = Fed(c, P) /\ z.queue = c.queue \o P
        /\ z.readable = (IF P = <<>> THEN c.readable ELSE Len(c.queue) + Len(P))
        /\ z.epoch = c.epoch /\ z.open = c.open /\ z.revoked = c.revoked /\ z.clock = c.clock
        /\ z.masked = c.masked
  BY <1>1, FedIs
<1>3. /\ Fed(d, P).queue = d.queue \o P
      /\ Fed(d, P).readable = IF P = <<>> THEN d.readable ELSE Len(d.queue) + Len(P)
  BY <1>1, FedIs
<1>4. y.queue = z.queue /\ y.readable = z.readable
  BY <1>2, <1>3, Zenon
<1>5. y = z
  BY <1>2, <1>4, ReaderSame
<1> QED  BY <1>2, <1>5

LEMMA OneEntry ==
  ASSUME NEW rec, NEW r, NEW x
  PROVE  OfEntry(<<rec>>, r, x) = OfReader(rec, r, x)
BY DEF OfEntry

LEMMA LinkMask ==
  ASSUME NEW r, NEW c \in Reader, Whole(c), NEW types \in SUBSET MaskTypes, NEW rec,
         rec.kind = "mask", rec.reader = r, rec.before = c.masked
  PROVE  LinkOf(<<rec>>, r, c, <<>>, Masking(c, types)) /\ Whole(Masking(c, types))
<1>1. PICK d \in Reader : /\ d = Masking(c, types) /\ d.queue = c.queue /\ d.readable = c.readable
        /\ d.epoch = c.epoch /\ d.open = c.open /\ d.revoked = c.revoked /\ d.clock = c.clock
        /\ d.masked = types
  BY MaskingIs
<1>2. ASSUME NEW x \in Reader PROVE OfEntry(<<rec>>, r, x) = Masking(x, c.masked)
  <2>1. OfReader(rec, r, x) = [x EXCEPT !.masked = rec.before]
    BY DEF OfReader
  <2> QED  BY <2>1, OneEntry, Zenon DEF Masking
<1>3. c.masked \in SUBSET MaskTypes /\ c.epoch \in Nat
  BY ReaderIs
<1>4. ASSUME NEW P \in Ends PROVE OfEntry(<<rec>>, r, Fed(d, P)) = Fed(c, <<>> \o P)
  <2>1. P \in Seq(Event) /\ <<>> \o P = P
    BY EmptyEnds
  <2>2. PICK x \in Reader : /\ x = Fed(d, P) /\ x.epoch = d.epoch /\ x.open = d.open
                            /\ x.revoked = d.revoked /\ x.clock = d.clock
    BY <2>1, FedIs
  <2>3. PICK y \in Reader : /\ y = Masking(x, c.masked) /\ y.queue = x.queue
          /\ y.readable = x.readable /\ y.epoch = x.epoch /\ y.open = x.open
          /\ y.revoked = x.revoked /\ y.clock = x.clock /\ y.masked = c.masked
    BY <1>3, MaskingIs
  <2>4. y = Fed(c, P)
    BY <1>1, <2>2, <2>3, FedSame
  <2> QED  BY <1>2, <2>1, <2>2, <2>3, <2>4
<1>5. ASSUME NEW x \in Reader, x.clock = d.clock PROVE InFront(c, x, OfEntry(<<rec>>, r, x))
  <2>1. PICK y \in Reader : /\ y = Masking(x, c.masked) /\ y.queue = x.queue
          /\ y.readable = x.readable /\ y.epoch = x.epoch /\ y.open = x.open
          /\ y.revoked = x.revoked /\ y.clock = x.clock /\ y.masked = c.masked
    BY <1>3, MaskingIs
  <2>2. /\ 0 \in Nat /\ y.readable = x.readable + 0 /\ Len(y.queue) = Len(x.queue) + 0
        /\ \A i \in 1 .. Len(x.queue) : y.queue[0 + i] = x.queue[i]
    BY <2>1, ReaderIs
  <2>3. InFront(c, x, y)
    BY <1>1, <1>5, <2>1, <2>2 DEF InFront
  <2> QED  BY <1>2, <2>1, <2>3
<1>6. Whole(d)
  BY <1>1, WholeSame
<1>7. LinkOf(<<rec>>, r, c, <<>>, d)
  BY <1>1, <1>3, <1>4, <1>5, EmptyEnds DEF LinkOf
<1> QED  BY <1>1, <1>6, <1>7

\* A write that the reader had packets of.
LEMMA LinkInject ==
  ASSUME NEW r, NEW c \in Reader, Whole(c), NEW d, Grown(c, d), d # c, NEW rec,
         rec.kind = "inject", r \in DOMAIN rec.deliveries,
         rec.deliveries[r].epoch = c.epoch, rec.deliveries[r].count_before = Len(c.queue),
         rec.deliveries[r].readable_before = c.readable,
         rec.deliveries[r].appended = IF d.epoch = c.epoch THEN Len(d.queue) - Len(c.queue) ELSE 0
  PROVE  LinkOf(<<rec>>, r, c, <<>>, d)
<1>1. \A x : OfEntry(<<rec>>, r, x) = WithoutDelivery(x, rec.deliveries[r])
  BY OneEntry DEF OfReader
<1>2. d \in Reader /\ c.epoch \in Nat /\ d.epoch \in Nat
  BY ReaderIs DEF Grown
<1>3. \A x : x.epoch # c.epoch => OfEntry(<<rec>>, r, x) = x
  BY <1>1 DEF WithoutDelivery
<1>4. CASE \E X \in Ends : d = Fed(c, X)
  <2>1. PICK X \in Ends : d = Fed(c, X)
    BY <1>4
  <2>2. X \in Seq(Event)
    BY EmptyEnds
  <2>3. X # <<>>
    BY <2>1, <2>2, FedIs
  <2>4. /\ d.epoch = c.epoch /\ d.open = c.open /\ d.revoked = c.revoked /\ d.clock = c.clock
        /\ d.masked = c.masked /\ Len(d.queue) = Len(c.queue) + Len(X)
    BY <2>1, <2>2, FedIs
  <2>5. rec.deliveries[r].appended = Len(X)
    <3>1. Len(c.queue) \in Nat /\ Len(X) \in Nat
      BY <2>2, ReaderIs
    <3> QED  BY <2>4, <3>1
  <2>6. ASSUME NEW P \in Ends PROVE OfEntry(<<rec>>, r, Fed(d, P)) = Fed(c, <<>> \o P)
    <3>1. WithoutDelivery(Fed(Fed(c, X), P), rec.deliveries[r]) = Fed(c, P)
      <4>1. PICK rc : rc = rec.deliveries[r]
        OBVIOUS
      <4>2. WithoutDelivery(Fed(Fed(c, X), P), rc) = Fed(c, P)
        BY <2>3, <2>5, <4>1, DeliveryTaken
      <4> QED  BY <4>1, <4>2
    <3>2. <<>> \o P = P
      BY EmptyEnds
    <3> QED  BY <1>1, <2>1, <3>1, <3>2
  <2>7. \A x \in Reader : x.epoch # c.epoch /\ x.clock = d.clock /\ x.masked = d.masked =>
          InFront(c, x, OfEntry(<<rec>>, r, x))
    BY <1>3, <2>4, InFrontSame
  <2> QED  BY <1>2, <2>4, <2>6, <2>7, EmptyEnds DEF LinkOf
<1>5. CASE Lost(c, d)
  <2>1. /\ d.epoch > c.epoch /\ d.open = c.open /\ d.revoked = c.revoked /\ d.clock = c.clock
        /\ d.masked = c.masked /\ Holds(d.queue, Dropped)
    <3>1. 1 \in 1 .. Len(d.queue)
      BY <1>2, <1>5, ReaderIs DEF Lost
    <3> QED  BY <1>5, <3>1 DEF Lost, Holds
  <2>2. \A x \in Reader : x.epoch # c.epoch /\ x.clock = d.clock /\ x.masked = d.masked =>
          InFront(c, x, OfEntry(<<rec>>, r, x))
    BY <1>3, <2>1, InFrontSame
  <2>3. c.epoch # d.epoch /\ c.epoch <= d.epoch
    BY <1>2, <2>1
  <2> QED  BY <1>2, <2>1, <2>2, <2>3, EmptyEnds DEF LinkOf
<1> QED  BY <1>4, <1>5 DEF Grown

LEMMA LinkRead ==
  ASSUME NEW r, NEW c \in Reader, Whole(c), NEW taken \in Seq(Event), NEW tail \in Seq(Event),
         c.queue = taken \o tail, Len(taken) <= c.readable, NEW rec,
         rec.kind = "read", rec.reader = r, rec.taken = taken
  PROVE  LET d == Refill(c, tail, c.readable - Len(taken), c.epoch)
         IN LinkOf(<<rec>>, r, c, <<>>, d) /\ Whole(d)
<1>1. PICK k \in Nat, l \in Nat, p \in Nat, e \in Nat :
        k = Len(taken) /\ l = Len(tail) /\ p = c.readable /\ e = c.epoch /\ k <= p
  BY ReaderIs
<1>2. Len(c.queue) = k + l /\ p <= k + l /\ p - k \in Nat /\ p - k <= l
  <2>1. Len(taken \o tail) = k + l
    BY <1>1
  <2>2. p <= Len(c.queue)
    BY <1>1, ReaderIs
  <2> QED  BY <1>1, <2>1, <2>2
<1>3. PICK n \in Nat : n = p - k
  BY <1>2
<1>4. PICK d \in Reader : /\ d = Refill(c, tail, n, e) /\ d.queue = tail /\ d.readable = n
         /\ d.epoch = e /\ d.open = c.open /\ d.revoked = c.revoked /\ d.clock = c.clock
         /\ d.masked = c.masked
  <2>1. n <= Len(tail)
    BY <1>1, <1>2, <1>3
  <2> QED  BY <2>1, Refilled
<1>5. d = Refill(c, tail, c.readable - Len(taken), c.epoch)
  BY <1>1, <1>3, <1>4
<1>6. ASSUME NEW x \in Reader
      PROVE  LET y == OfEntry(<<rec>>, r, x)
             IN /\ y \in Reader /\ y.open = x.open /\ y.revoked = x.revoked /\ y.epoch = x.epoch
                /\ y.clock = x.clock /\ y.masked = x.masked /\ y.queue = taken \o x.queue
                /\ y.readable = x.readable + k
  <2>1. OfReader(rec, r, x) = [x EXCEPT !.queue = taken \o x.queue, !.readable = x.readable + k]
    BY <1>1 DEF OfReader, Reader
  <2>2. PICK q \in Seq(Event), m \in Nat, f \in Nat :
          q = taken \o x.queue /\ m = x.readable + k /\ f = x.epoch /\ m <= Len(q)
    <3>1. PICK b \in Seq(Event), g \in Nat, f \in Nat : b = x.queue /\ g = x.readable /\ f = x.epoch
                                                      /\ g <= Len(b)
      BY ReaderIs
    <3>2. taken \o b \in Seq(Event) /\ Len(taken \o b) = k + Len(b) /\ g + k \in Nat
      BY <1>1, <3>1
    <3>3. g + k <= Len(taken \o b)
      BY <3>1, <3>2
    <3> QED  BY <3>1, <3>2, <3>3
  <2>3. [x EXCEPT !.queue = q, !.readable = m] = Refill(x, q, m, x.epoch)
    BY RefillIs, Zenon
  <2>4. OfEntry(<<rec>>, r, x) = Refill(x, q, m, f)
    <3>1. OfReader(rec, r, x) = [x EXCEPT !.queue = q, !.readable = m]
      BY <2>1, <2>2
    <3>2. f = x.epoch
      BY <2>2
    <3>3. OfEntry(<<rec>>, r, x) = OfReader(rec, r, x)
      BY OneEntry
    <3>4. OfEntry(<<rec>>, r, x) = Refill(x, q, m, x.epoch)
      BY <2>3, <3>1, <3>3, Zenon
    <3> QED  BY <3>2, <3>4, Zenon
  <2>5. LET y == Refill(x, q, m, f)
        IN /\ y \in Reader /\ y.queue = q /\ y.readable = m /\ y.epoch = f
           /\ y.open = x.open /\ y.revoked = x.revoked /\ y.clock = x.clock /\ y.masked = x.masked
    <3>1. m <= Len(q)
      BY <2>2
    <3> QED  BY <3>1, Refilled
  <2> QED  BY <2>2, <2>4, <2>5, Zenon
<1>7. ASSUME NEW P \in Ends PROVE OfEntry(<<rec>>, r, Fed(d, P)) = Fed(c, <<>> \o P)
  <2>1. P \in Seq(Event) /\ <<>> \o P = P
    BY EmptyEnds
  <2>2. PICK m \in Nat : m = Len(P) /\ (P = <<>> <=> m = 0)
    BY <2>1, EmptySeq
  <2>3. PICK x \in Reader : /\ x = Fed(d, P) /\ x.epoch = d.epoch /\ x.open = d.open
          /\ x.revoked = d.revoked /\ x.clock = d.clock /\ x.masked = d.masked
          /\ x.queue = d.queue \o P
          /\ x.readable = IF P = <<>> THEN d.readable ELSE Len(d.queue) + Len(P)
    BY <2>1, FedIs, Zenon
  <2>4. PICK y \in Reader : /\ y = OfEntry(<<rec>>, r, x) /\ y.open = x.open
          /\ y.revoked = x.revoked /\ y.epoch = x.epoch
          /\ y.clock = x.clock /\ y.masked = x.masked /\ y.queue = taken \o x.queue
          /\ y.readable = x.readable + k
    BY <1>6
  <2>5. PICK z \in Reader : /\ z = Fed(c, P) /\ z.epoch = c.epoch /\ z.open = c.open
          /\ z.revoked = c.revoked /\ z.clock = c.clock /\ z.masked = c.masked
          /\ z.queue = c.queue \o P
          /\ z.readable = IF P = <<>> THEN c.readable ELSE Len(c.queue) + Len(P)
    BY <2>1, FedIs, Zenon
  <2>6. y.queue = z.queue
    <3>1. (taken \o tail) \o P = taken \o (tail \o P)
      BY <2>1, Joined
    <3>2. z.queue = (taken \o tail) \o P
      BY <2>5, Zenon
    <3>3. y.queue = taken \o (tail \o P)
      BY <1>4, <2>3, <2>4, Zenon
    <3> QED  BY <3>1, <3>2, <3>3, Zenon
  <2>7. y.readable = z.readable
    <3>1. x.readable = (IF m = 0 THEN n ELSE l + m) /\ z.readable = (IF m = 0 THEN p ELSE k + l + m)
      BY <1>1, <1>2, <1>4, <2>2, <2>3, <2>5
    <3> QED  BY <1>2, <1>3, <2>4, <3>1
  <2>8. y = z
    <3>1. /\ y.open = z.open /\ y.revoked = z.revoked /\ y.epoch = z.epoch /\ y.clock = z.clock
          /\ y.masked = z.masked
      BY <1>1, <1>4, <2>3, <2>4, <2>5
    <3> QED  BY <2>6, <2>7, <3>1, ReaderSame
  <2> QED  BY <2>1, <2>3, <2>4, <2>5, <2>8, Zenon
<1>8. ASSUME NEW x \in Reader, x.clock = d.clock, x.masked = d.masked
      PROVE  InFront(c, x, OfEntry(<<rec>>, r, x))
  <2>1. PICK y \in Reader : /\ y = OfEntry(<<rec>>, r, x) /\ y.open = x.open
          /\ y.revoked = x.revoked /\ y.epoch = x.epoch
          /\ y.clock = x.clock /\ y.masked = x.masked /\ y.queue = taken \o x.queue
          /\ y.readable = x.readable + k
    BY <1>6
  <2>2. x.queue \in Seq(Event)
    BY ReaderIs
  <2>3. Len(y.queue) = Len(x.queue) + k
    <3>1. Len(taken \o x.queue) = Len(x.queue) + k
      BY <1>1, <2>2
    <3> QED  BY <2>1, <3>1
  <2>4. ASSUME NEW i \in 1 .. Len(x.queue) PROVE y.queue[k + i] = x.queue[i]
    <3>1. (taken \o x.queue)[Len(taken) + i] = x.queue[i]
      BY <2>2
    <3> QED  BY <1>1, <2>1, <3>1
  <2>5. y.clock = c.clock /\ y.masked = c.masked
    BY <1>4, <1>8, <2>1, Zenon
  <2>6. \E h \in Nat : /\ y.readable = x.readable + h /\ Len(y.queue) = Len(x.queue) + h
                       /\ \A i \in 1 .. Len(x.queue) : y.queue[h + i] = x.queue[i]
    BY <2>1, <2>3, <2>4
  <2>7. InFront(c, x, y)
    BY <2>1, <2>5, <2>6, Zenon DEF InFront
  <2> QED  BY <2>1, <2>7, Zenon
<1>9. Whole(d)
  <2>1. k \in 0 .. c.readable
    BY <1>1
  <2>2. Len(d.queue) = Len(c.queue) - k /\ d.readable = c.readable - k
    BY <1>1, <1>2, <1>3, <1>4
  <2>3. ASSUME NEW i \in 1 .. Len(d.queue) PROVE d.queue[i] = c.queue[k + i]
    <3>1. i \in 1 .. Len(tail)
      BY <1>4
    <3>2. (taken \o tail)[Len(taken) + i] = tail[i]
      BY <3>1
    <3> QED  BY <1>1, <1>4, <3>2
  <2> QED  BY <2>1, <2>2, <2>3, WholeBehind
<1>10. LinkOf(<<rec>>, r, c, <<>>, d)
  <2>1. c.epoch = d.epoch /\ c.epoch \in Nat
    BY <1>1, <1>4
  <2>2. c.epoch <= d.epoch /\ ~(c.epoch < d.epoch)
    BY <2>1
  <2> QED  BY <1>4, <1>7, <1>8, <2>2, EmptyEnds, Zenon DEF LinkOf
<1> QED  BY <1>5, <1>9, <1>10, Zenon

\* What a read takes, and what is behind it.
LEMMA SplitAt ==
  ASSUME NEW E, NEW q \in Seq(E), NEW k \in 0 .. Len(q)
  PROVE  \E taken \in Seq(E), tail \in Seq(E) :
           /\ q = taken \o tail /\ Len(taken) = k
           /\ SubSeq(q, 1, k) = taken /\ SubSeq(q, k + 1, Len(q)) = tail
<1>1. PICK n \in Nat, a \in Int, b \in Int : n = Len(q) /\ a = 1 /\ b = k + 1 /\ k \in Nat /\ k <= n
  BY LenProperties
<1>2. PICK taken \in Seq(E) : /\ taken = SubSeq(q, a, k) /\ Len(taken) = k
                              /\ \A i \in 1 .. k : taken[i] = q[i]
  <2>1. \A i \in a .. k : q[i] \in E
    BY <1>1
  <2>2. PICK t : t = SubSeq(q, a, k)
    OBVIOUS
  <2>3. /\ SubSeq(q, a, k) \in Seq(E) /\ Len(SubSeq(q, a, k)) = (IF a <= k THEN k - a + 1 ELSE 0)
        /\ \A i \in 1 .. k - a + 1 : SubSeq(q, a, k)[i] = q[a + i - 1]
    BY <1>1, <2>1, SubSeqIs
  <2>4. /\ t \in Seq(E) /\ Len(t) = (IF a <= k THEN k - a + 1 ELSE 0)
        /\ \A i \in 1 .. k - a + 1 : t[i] = q[a + i - 1]
    BY <2>2, <2>3, Zenon
  <2>5. Len(t) = k /\ \A i \in 1 .. k : t[i] = q[i]
    <3>1. \A i \in 1 .. k : a + i - 1 = i /\ i \in 1 .. k - a + 1
      BY <1>1
    <3> QED  BY <1>1, <2>4, <3>1
  <2> QED  BY <2>2, <2>4, <2>5
<1>3. PICK tail \in Seq(E) : /\ tail = SubSeq(q, b, n) /\ Len(tail) = n - k
                             /\ \A i \in 1 .. n - k : tail[i] = q[k + i]
  <2>1. \A i \in b .. n : q[i] \in E
    BY <1>1
  <2>2. PICK t : t = SubSeq(q, b, n)
    OBVIOUS
  <2>3. /\ SubSeq(q, b, n) \in Seq(E) /\ Len(SubSeq(q, b, n)) = (IF b <= n THEN n - b + 1 ELSE 0)
        /\ \A i \in 1 .. n - b + 1 : SubSeq(q, b, n)[i] = q[b + i - 1]
    BY <1>1, <2>1, SubSeqIs
  <2>4. /\ t \in Seq(E) /\ Len(t) = (IF b <= n THEN n - b + 1 ELSE 0)
        /\ \A i \in 1 .. n - b + 1 : t[i] = q[b + i - 1]
    BY <2>2, <2>3, Zenon
  <2>5. Len(t) = n - k /\ \A i \in 1 .. n - k : t[i] = q[k + i]
    <3>1. \A i \in 1 .. n - k : b + i - 1 = k + i /\ i \in 1 .. n - b + 1
      BY <1>1
    <3> QED  BY <1>1, <2>4, <3>1
  <2> QED  BY <2>2, <2>4, <2>5
<1>5. Len(taken) = k /\ Len(tail) = n - k
  BY <1>2, <1>3, Zenon
<1>6. k \in Nat /\ k <= n
  BY <1>1
<1>4. q = taken \o tail
  <2>1. PICK j \in Seq(E) : j = taken \o tail /\ Len(j) = n
    <3>1. taken \o tail \in Seq(E) /\ Len(taken \o tail) = Len(taken) + Len(tail)
      OBVIOUS
    <3>2. Len(taken) + Len(tail) = n
      BY <1>5, <1>6
    <3> QED  BY <3>1, <3>2
  <2>2. ASSUME NEW i \in 1 .. n PROVE j[i] = q[i]
    <3>1. CASE i <= k
      <4>1. i \in 1 .. Len(taken)
        BY <1>1, <1>2, <3>1
      <4>2. (taken \o tail)[i] = taken[i]
        BY <4>1
      <4> QED  BY <1>1, <1>2, <2>1, <3>1, <4>2
    <3>2. CASE ~(i <= k)
      <4>1. PICK x \in 1 .. Len(tail) : i = Len(taken) + x /\ i = k + x /\ x \in 1 .. n - k
        <5>1. i - k \in 1 .. n - k /\ i = k + (i - k)
          BY <1>6, <3>2
        <5>2. PICK x : x = i - k
          OBVIOUS
        <5>3. x \in 1 .. n - k /\ i = k + x
          BY <5>1, <5>2, Zenon
        <5>4. x \in 1 .. Len(tail) /\ i = Len(taken) + x
          BY <1>5, <5>3, Zenon
        <5> QED  BY <5>2, <5>3, <5>4, Zenon
      <4>2. (taken \o tail)[Len(taken) + x] = tail[x]
        BY <4>1
      <4>3. tail[x] = q[k + x] /\ k + x = i
        BY <1>1, <1>3, <4>1
      <4> QED  BY <2>1, <4>1, <4>2, <4>3
    <3> QED  BY <3>1, <3>2
  <2>3. j = q
    <3>1. Len(j) = Len(q) /\ \A i \in 1 .. Len(j) : j[i] = q[i]
      BY <1>1, <2>1, <2>2
    <3> QED  BY <3>1, SeqEqual
  <2> QED  BY <2>1, <2>3
<1> QED  BY <1>1, <1>2, <1>3, <1>4, Zenon

\* A flush, and one whose loss overflowed the queue.
LEMMA LinkFlush ==
  ASSUME NEW r, NEW c \in Reader, Whole(c), NEW d \in Reader, NEW G, NEW M, NEW rec,
         FlushOf(rec, r, c, G, M), Len(d.queue) = M, d.epoch = c.epoch, d.open = c.open,
         d.revoked = c.revoked, d.clock = c.clock, d.masked = c.masked,
         \A i \in (1 .. Len(c.queue)) \ G :
           d.queue[i - Before(G, i)] = c.queue[i]
  PROVE  LinkOf(<<rec>>, r, c, <<>>, d)
<1>1. ASSUME NEW x \in Reader PROVE OfEntry(<<rec>>, r, x) = Unflush(x, rec)
  <2>1. rec.kind = "flush" /\ rec.reader = r
    BY DEF FlushOf
  <2>2. OfReader(rec, r, x) = Unflush(x, rec)
    BY <2>1 DEF OfReader
  <2> QED  BY <2>2, OneEntry
<1>2. ASSUME NEW P \in Ends PROVE OfEntry(<<rec>>, r, Fed(d, P)) = Fed(c, <<>> \o P)
  <2>1. P \in Seq(Event) /\ <<>> \o P = P
    BY EmptyEnds
  <2>2. Fed(d, P) \in Reader
    BY <2>1, FedIs
  <2>3. Unflush(Fed(d, P), rec) = Fed(c, P)
    BY Unflushed
  <2> QED  BY <1>1, <2>1, <2>2, <2>3
<1>3. ASSUME NEW x \in Reader, x.epoch # c.epoch, x.clock = d.clock, x.masked = d.masked
      PROVE  InFront(c, x, OfEntry(<<rec>>, r, x))
  <2>1. Unflush(x, rec) = x
    BY <1>3, UnflushIs
  <2> QED  BY <1>1, <1>3, <2>1, InFrontSame
<1>4. c.epoch <= d.epoch /\ ~(c.epoch < d.epoch)
  BY ReaderIs
<1> QED  BY <1>2, <1>3, <1>4, EmptyEnds, Zenon DEF LinkOf

LEMMA LinkFlushLost ==
  ASSUME NEW r, NEW c \in Reader, Whole(c), NEW d \in Reader, NEW rec,
         rec.kind = "flush", rec.reader = r, rec.epoch = c.epoch, d.epoch = c.epoch + 1,
         d.open = c.open, d.revoked = c.revoked, d.clock = c.clock, d.masked = c.masked,
         Holds(d.queue, Dropped)
  PROVE  LinkOf(<<rec>>, r, c, <<>>, d)
<1>1. ASSUME NEW x \in Reader, x.epoch # c.epoch PROVE OfEntry(<<rec>>, r, x) = x
  <2>1. OfReader(rec, r, x) = Unflush(x, rec)
    BY DEF OfReader
  <2>2. Unflush(x, rec) = x
    BY <1>1, Zenon DEF Unflush
  <2> QED  BY <2>1, <2>2, OneEntry
<1>2. c.epoch <= d.epoch /\ c.epoch # d.epoch
  BY ReaderIs
<1>3. ASSUME NEW x \in Reader, x.epoch # c.epoch, x.clock = d.clock, x.masked = d.masked
      PROVE  InFront(c, x, OfEntry(<<rec>>, r, x))
  BY <1>1, <1>3, InFrontSame
<1> QED  BY <1>2, <1>3, EmptyEnds, Zenon DEF LinkOf

\* EVIOCGKEY and EVIOCGLED: what is left of a queue, with a loss behind it if ~ok.
Got(r, c, type, ok, f, k, d, rec) ==
  /\ c \in Reader /\ Whole(c) /\ f = FlushQueue(c, type)
  /\ k = Refill(c, f.kept, f.readable, c.epoch)
  /\ (ok /\ d = k) \/ d = QueueSynDropped(k)
  /\ rec.kind = "flush" /\ rec.reader = r /\ rec.epoch = c.epoch
  /\ rec.count_before = Len(c.queue) /\ rec.readable_before = c.readable
  /\ rec.count_after = Len(d.queue) /\ rec.removed = [i \in f.removed |-> c.queue[i]]
LEMMA LinkGot ==
  ASSUME NEW r, NEW c, NEW type, NEW ok, NEW f, NEW k, NEW d, NEW rec,
         Got(r, c, type, ok, f, k, d, rec)
  PROVE  LinkOf(<<rec>>, r, c, <<>>, d) /\ Whole(d)
<1> /\ c \in Reader /\ Whole(c) /\ f = FlushQueue(c, type)
    /\ k = Refill(c, f.kept, f.readable, c.epoch)
    /\ (ok /\ d = k) \/ d = QueueSynDropped(k)
    /\ rec.kind = "flush" /\ rec.reader = r /\ rec.epoch = c.epoch
    /\ rec.count_before = Len(c.queue) /\ rec.readable_before = c.readable
    /\ rec.count_after = Len(d.queue) /\ rec.removed = [i \in f.removed |-> c.queue[i]]
  BY Zenon DEF Got
<1>1. PICK N \in Nat, m \in Nat, n \in Nat, kept \in Seq(Event) :
        \E G \in SUBSET (1 .. N) : LeftBy(f, c, N, G, m, kept, n)
  BY FlushIs
<1>2. PICK G \in SUBSET (1 .. N) : LeftBy(f, c, N, G, m, kept, n)
  BY <1>1
<1>3. /\ N = Len(c.queue) /\ Len(kept) = m /\ n <= m
      /\ m + Cardinality(G) = N /\ Cardinality(G) \in Nat
      /\ f.removed = G /\ f.kept = kept /\ f.readable = n
      /\ IsLast(kept, Report, n)
      /\ \A i \in (1 .. N) \ G : /\ i - Before(G, i) \in 1 .. m
                                 /\ kept[i - Before(G, i)] = c.queue[i]
  BY <1>2 DEF LeftBy
<1>4. PICK e \in Nat : e = c.epoch
  BY ReaderIs
<1>5. k = Refill(c, kept, n, e)
  BY <1>3, <1>4, Zenon
<1>6. /\ k \in Reader /\ k.queue = kept /\ k.readable = n /\ k.epoch = e
      /\ k.open = c.open /\ k.revoked = c.revoked /\ k.clock = c.clock /\ k.masked = c.masked
  <2>1. n <= Len(kept)
    BY <1>3
  <2>2. PICK x : x = Refill(c, kept, n, e)
    OBVIOUS
  <2>3. /\ x \in Reader /\ x.queue = kept /\ x.readable = n /\ x.epoch = e
        /\ x.open = c.open /\ x.revoked = c.revoked /\ x.clock = c.clock /\ x.masked = c.masked
    BY <2>1, <2>2, Refilled
  <2> QED  BY <1>5, <2>2, <2>3, Zenon
<1>7. Whole(k)
  BY <1>3, <1>6, WholeLast
<1>8. ASSUME NEW M \in Nat, m <= M, Len(d.queue) = M PROVE FlushOf(rec, r, c, G, M)
  <2>1. \A i \in (1 .. N) \ G : i - Before(G, i) \in 1 .. M
    <3>1. 1 .. m \subseteq 1 .. M
      BY <1>8
    <3> QED  BY <1>3, <3>1, Zenon
  <2>2. N - Cardinality(G) <= M
    BY <1>3, <1>8
  <2>3. rec.removed = [i \in G |-> c.queue[i]]
    BY <1>3, Zenon
  <2> QED  BY <1>3, <1>8, <2>1, <2>2, <2>3, Zenon DEF FlushOf
<1>9. CASE d = k
  <2>1. Len(d.queue) = m /\ m <= m
    BY <1>3, <1>6, <1>9
  <2>2. FlushOf(rec, r, c, G, m)
    BY <1>8, <2>1
  <2>3. \A i \in (1 .. Len(c.queue)) \ G : d.queue[i - Before(G, i)] = c.queue[i]
    <3>1. d.queue = kept /\ N = Len(c.queue)
      BY <1>3, <1>6, <1>9, Zenon
    <3>2. \A i \in (1 .. N) \ G : kept[i - Before(G, i)] = c.queue[i]
      BY <1>3, Zenon
    <3> QED  BY <3>1, <3>2, Zenon
  <2>4. /\ d \in Reader /\ d.epoch = c.epoch /\ d.open = c.open /\ d.revoked = c.revoked
        /\ d.clock = c.clock /\ d.masked = c.masked
    BY <1>4, <1>6, <1>9, Zenon
  <2>5. LinkOf(<<rec>>, r, c, <<>>, d)
    BY <2>1, <2>2, <2>3, <2>4, LinkFlush
  <2> QED  BY <1>7, <1>9, <2>5
<1>10. CASE d = QueueSynDropped(k)
  <2>1. /\ d \in Reader /\ Whole(d) /\ d.open = k.open /\ d.revoked = k.revoked
        /\ d.clock = k.clock /\ d.masked = k.masked /\ Holds(d.queue, Dropped)
        /\ \/ d.queue = <<Dropped>> /\ d.readable = 0 /\ d.epoch = k.epoch + 1
           \/ /\ d.queue = Append(k.queue, Dropped) /\ d.readable = k.readable
              /\ d.epoch = k.epoch
    BY <1>6, <1>10, WholeDropped, Zenon DEF Holds
  <2>2. d.open = c.open /\ d.revoked = c.revoked /\ d.clock = c.clock /\ d.masked = c.masked
    BY <1>6, <2>1, Zenon
  <2>3. CASE d.epoch = k.epoch + 1
    <3>1. d.epoch = c.epoch + 1
      BY <1>4, <1>6, <2>3, Zenon
    <3>2. LinkOf(<<rec>>, r, c, <<>>, d)
      BY <2>1, <2>2, <3>1, LinkFlushLost
    <3> QED  BY <2>1, <3>2
  <2>4. CASE d.queue = Append(k.queue, Dropped) /\ d.epoch = k.epoch
    <3>1. PICK M \in Nat : M = m + 1 /\ m <= M
      OBVIOUS
    <3>2. d.queue = Append(kept, Dropped) /\ d.epoch = c.epoch
      BY <1>4, <1>6, <2>4, Zenon
    <3>3. /\ Len(Append(kept, Dropped)) = m + 1
          /\ \A i \in 1 .. m : Append(kept, Dropped)[i] = kept[i]
      BY <1>3, AppendIs, EventIs
    <3>4. Len(d.queue) = M
      BY <3>1, <3>2, <3>3
    <3>5. FlushOf(rec, r, c, G, M)
      BY <1>8, <3>1, <3>4
    <3>6. ASSUME NEW i \in (1 .. Len(c.queue)) \ G PROVE d.queue[i - Before(G, i)] = c.queue[i]
      <4>1. i - Before(G, i) \in 1 .. m /\ kept[i - Before(G, i)] = c.queue[i]
        BY <1>3, <3>6, Zenon
      <4> QED  BY <3>2, <3>3, <4>1, Zenon
    <3>7. LinkOf(<<rec>>, r, c, <<>>, d)
      BY <2>1, <2>2, <3>2, <3>4, <3>5, <3>6, LinkFlush
    <3> QED  BY <2>1, <3>7
  <2> QED  BY <2>1, <2>3, <2>4
<1> QED  BY <1>9, <1>10

\* A clock set back in front of what undo of the flush gave back.
LEMMA ClockBack ==
  ASSUME NEW r, NEW rec, rec.kind = "clock", rec.reader = r, NEW x \in Reader, x.clock = rec.after
  PROVE  OfReader(rec, r, x) = Timed(x, rec.before)
<1>1. OfReader(rec, r, x) = IF x.clock = rec.after THEN [x EXCEPT !.clock = rec.before] ELSE x
  BY DEF OfReader
<1> QED  BY <1>1, Zenon DEF Timed

LEMMA LinkClock ==
  ASSUME NEW r, NEW c \in Reader, Whole(c), NEW clock \in {"real", "monotonic"}, NEW rec,
         rec.kind = "clock", rec.reader = r, rec.before = c.clock, rec.after = clock
  PROVE  LinkOf(<<rec>>, r, c, <<>>, Timed(c, clock)) /\ Whole(Timed(c, clock))
<1>1. PICK d \in Reader : /\ d = Timed(c, clock) /\ d.queue = c.queue /\ d.readable = c.readable
        /\ d.epoch = c.epoch /\ d.open = c.open /\ d.revoked = c.revoked /\ d.clock = clock
        /\ d.masked = c.masked
  BY TimedIs
<1>2. ASSUME NEW x \in Reader, x.clock = clock PROVE OfEntry(<<rec>>, r, x) = Timed(x, c.clock)
  <2>1. OfReader(rec, r, x) = Timed(x, rec.before)
    BY <1>2, ClockBack
  <2> QED  BY <2>1, OneEntry
<1>3. c.clock \in {"real", "monotonic"} /\ c.epoch \in Nat
  BY ReaderIs
<1>4. ASSUME NEW P \in Ends PROVE OfEntry(<<rec>>, r, Fed(d, P)) = Fed(c, <<>> \o P)
  <2>1. P \in Seq(Event) /\ <<>> \o P = P
    BY EmptyEnds
  <2>2. PICK x \in Reader : /\ x = Fed(d, P) /\ x.epoch = d.epoch /\ x.open = d.open
                            /\ x.revoked = d.revoked /\ x.clock = d.clock /\ x.masked = d.masked
    BY <2>1, FedIs
  <2>3. PICK y \in Reader : /\ y = Timed(x, c.clock) /\ y.queue = x.queue
          /\ y.readable = x.readable /\ y.epoch = x.epoch /\ y.open = x.open
          /\ y.revoked = x.revoked /\ y.clock = c.clock /\ y.masked = x.masked
    BY <1>3, TimedIs
  <2>4. y = Fed(c, P)
    BY <1>1, <2>2, <2>3, FedSame
  <2>5. x.clock = clock
    BY <1>1, <2>2
  <2> QED  BY <1>2, <2>1, <2>2, <2>3, <2>4, <2>5
<1>5. ASSUME NEW x \in Reader, x.clock = d.clock, x.masked = d.masked
      PROVE  InFront(c, x, OfEntry(<<rec>>, r, x))
  <2>1. PICK y \in Reader : /\ y = Timed(x, c.clock) /\ y.queue = x.queue
          /\ y.readable = x.readable /\ y.epoch = x.epoch /\ y.open = x.open
          /\ y.revoked = x.revoked /\ y.clock = c.clock /\ y.masked = x.masked
    BY <1>3, TimedIs
  <2>2. /\ 0 \in Nat /\ y.readable = x.readable + 0 /\ Len(y.queue) = Len(x.queue) + 0
        /\ \A i \in 1 .. Len(x.queue) : y.queue[0 + i] = x.queue[i]
    BY <2>1, ReaderIs
  <2>3. InFront(c, x, y)
    BY <1>1, <1>5, <2>1, <2>2 DEF InFront
  <2>4. x.clock = clock
    BY <1>1, <1>5
  <2> QED  BY <1>2, <2>1, <2>3, <2>4
<1>6. Whole(d)
  BY <1>1, WholeSame
<1>7. LinkOf(<<rec>>, r, c, <<>>, d)
  BY <1>1, <1>3, <1>4, <1>5, EmptyEnds DEF LinkOf
<1> QED  BY <1>1, <1>6, <1>7

ClockGot(r, c, clock, k, f, set, rec) ==
  /\ c \in Reader /\ Whole(c) /\ clock \in {"real", "monotonic"}
  /\ k = Refill(c, <<>>, 0, c.epoch) /\ f = QueueSynDropped(k)
  /\ set.kind = "clock" /\ set.reader = r /\ set.before = c.clock /\ set.after = clock
  /\ rec.kind = "flush" /\ rec.reader = r /\ rec.epoch = c.epoch
  /\ rec.count_before = Len(c.queue) /\ rec.readable_before = c.readable
  /\ rec.count_after = Len(f.queue)
  /\ rec.removed = [i \in 1 .. Len(c.queue) |-> c.queue[i]]
LEMMA LinkClockFlush ==
  ASSUME NEW r, NEW c, NEW clock, NEW k, NEW f, NEW set, NEW rec,
         ClockGot(r, c, clock, k, f, set, rec)
  PROVE  /\ LinkOf(<<set, rec>>, r, c, <<>>, Timed(f, clock)) /\ Whole(Timed(f, clock))
         /\ \A x \in Reader : OfReader(rec, r, x) \in Reader
<1> /\ c \in Reader /\ Whole(c) /\ clock \in {"real", "monotonic"}
    /\ k = Refill(c, <<>>, 0, c.epoch) /\ f = QueueSynDropped(k)
    /\ set.kind = "clock" /\ set.reader = r /\ set.before = c.clock /\ set.after = clock
    /\ rec.kind = "flush" /\ rec.reader = r /\ rec.epoch = c.epoch
    /\ rec.count_before = Len(c.queue) /\ rec.readable_before = c.readable
    /\ rec.count_after = Len(f.queue)
    /\ rec.removed = [i \in 1 .. Len(c.queue) |-> c.queue[i]]
  BY Zenon DEF ClockGot
<1>1. PICK e \in Nat : e = c.epoch
  BY ReaderIs
<1>2. <<>> \in Seq(Event) /\ Len(<<>>) = 0
  OBVIOUS
<1>3. /\ k \in Reader /\ k.queue = <<>> /\ k.readable = 0 /\ k.epoch = e
      /\ k.open = c.open /\ k.revoked = c.revoked /\ k.clock = c.clock /\ k.masked = c.masked
  <2>1. ASSUME NEW z \in Seq(Event), Len(z) = 0
        PROVE  LET x == Refill(c, z, 0, e)
               IN /\ x \in Reader /\ x.queue = z /\ x.readable = 0 /\ x.epoch = e
                  /\ x.open = c.open /\ x.revoked = c.revoked /\ x.clock = c.clock
                  /\ x.masked = c.masked
    <3>1. 0 <= Len(z) /\ 0 \in Nat
      BY <2>1
    <3>2. ASSUME NEW n \in Nat, n <= Len(z)
          PROVE  LET x == Refill(c, z, n, e)
                 IN /\ x \in Reader /\ x.queue = z /\ x.readable = n /\ x.epoch = e
                    /\ x.open = c.open /\ x.revoked = c.revoked /\ x.clock = c.clock
                    /\ x.masked = c.masked
      BY <3>2, Refilled
    <3> QED  BY <3>1, <3>2, Zenon
  <2>2. k = Refill(c, <<>>, 0, e)
    BY <1>1, Zenon
  <2>3. ASSUME NEW z \in Seq(Event), Len(z) = 0, k = Refill(c, z, 0, e)
        PROVE  /\ k \in Reader /\ k.queue = z /\ k.readable = 0 /\ k.epoch = e
               /\ k.open = c.open /\ k.revoked = c.revoked /\ k.clock = c.clock
               /\ k.masked = c.masked
    BY <2>1, <2>3, Zenon
  <2> QED  BY <1>2, <2>2, <2>3, Zenon
<1>4. /\ f \in Reader /\ Whole(f) /\ f.open = c.open /\ f.revoked = c.revoked
      /\ f.clock = c.clock /\ f.masked = c.masked /\ Len(f.queue) = 1 /\ f.epoch = c.epoch
  <2>1. /\ f \in Reader /\ Whole(f) /\ f.open = k.open /\ f.revoked = k.revoked
        /\ f.clock = k.clock /\ f.masked = k.masked
    BY <1>3, WholeDropped, Zenon
  <2>2. ~(Len(k.queue) + 1 >= Limit)
    BY <1>2, <1>3, EvdevAssumption
  <2>3. f = [k EXCEPT !.queue = Append(@, Dropped)]
    BY <2>2 DEF QueueSynDropped
  <2>4. f.queue = Append(<<>>, Dropped) /\ f.epoch = k.epoch
    BY <1>3, <2>3 DEF Reader
  <2>5. Len(f.queue) = 1
    <3>1. \A z \in Seq(Event) : Len(Append(z, Dropped)) = Len(z) + 1
      BY EventIs, AppendIs
    <3>2. Len(Append(<<>>, Dropped)) = Len(<<>>) + 1
      BY <1>2, <3>1, Zenon
    <3>3. Len(<<>>) + 1 = 1
      BY <1>2
    <3> QED  BY <2>4, <3>2, <3>3, Zenon
  <2> QED  BY <1>1, <1>3, <2>1, <2>4, <2>5, Zenon
<1>5. PICK N \in Nat : N = Len(c.queue)
  BY ReaderIs
<1>6. PICK G : G = 1 .. N
  OBVIOUS
<1>7. FlushOf(rec, r, c, G, 1)
  <2>1. Cardinality(G) = N
    BY <1>6, FS_Interval
  <2>2. (1 .. N) \ G = {} /\ G \in SUBSET (1 .. N)
    BY <1>6
  <2>3. rec.removed = [i \in G |-> c.queue[i]]
    BY <1>5, <1>6, Zenon
  <2>4. N - Cardinality(G) <= 1 /\ Cardinality(G) \in Nat /\ 1 \in Nat
    BY <2>1
  <2> QED  BY <1>4, <1>5, <2>2, <2>3, <2>4, Zenon DEF FlushOf
<1>8. PICK b \in Reader : /\ b = Timed(c, clock) /\ b.queue = c.queue /\ b.readable = c.readable
        /\ b.epoch = c.epoch /\ b.open = c.open /\ b.revoked = c.revoked /\ b.clock = clock
        /\ b.masked = c.masked
  BY TimedIs
<1>9. PICK d \in Reader : /\ d = Timed(f, clock) /\ d.queue = f.queue /\ d.readable = f.readable
        /\ d.epoch = f.epoch /\ d.open = f.open /\ d.revoked = f.revoked /\ d.clock = clock
        /\ d.masked = f.masked
  BY <1>4, TimedIs
<1>10. FlushOf(rec, r, b, G, 1)
  BY <1>7, <1>8, Zenon DEF FlushOf
<1>11. ASSUME NEW x \in Reader
       PROVE  OfReader(rec, r, x) = Unflush(x, rec) /\ OfReader(rec, r, x) \in Reader
  <2>1. OfReader(rec, r, x) = Unflush(x, rec)
    BY DEF OfReader
  <2>2. Unflush(x, rec) \in Reader
    BY <1>7, UnflushIs
  <2> QED  BY <2>1, <2>2
<1>12. ASSUME NEW x \in Reader
       PROVE  OfEntry(<<set, rec>>, r, x) = OfReader(set, r, Unflush(x, rec))
  <2>1. OfEntry(<<set, rec>>, r, x) = OfReader(set, r, OfReader(rec, r, x))
    BY DEF OfEntry
  <2> QED  BY <1>11, <2>1, Zenon
<1>13. c.clock \in {"real", "monotonic"} /\ c.epoch \in Nat
  BY ReaderIs
<1>14. ASSUME NEW P \in Ends PROVE OfEntry(<<set, rec>>, r, Fed(d, P)) = Fed(c, <<>> \o P)
  <2>1. P \in Seq(Event) /\ <<>> \o P = P
    BY EmptyEnds
  <2>2. Fed(d, P) \in Reader
    BY <2>1, FedIs
  <2>3. Unflush(Fed(d, P), rec) = Fed(b, P)
    <3>1. Len(d.queue) = 1 /\ d.epoch = b.epoch /\ d.open = b.open /\ d.revoked = b.revoked
          /\ d.clock = b.clock /\ d.masked = b.masked
      BY <1>4, <1>8, <1>9
    <3>2. \A i \in (1 .. Len(b.queue)) \ G : d.queue[i - Before(G, i)] = b.queue[i]
      BY <1>5, <1>6, <1>8
    <3>3. \A M : FlushOf(rec, r, b, G, M) /\ Len(d.queue) = M =>
                 Unflush(Fed(d, P), rec) = Fed(b, P)
      BY <3>1, <3>2, Unflushed
    <3> QED  BY <1>10, <3>1, <3>3, Zenon
  <2>4. PICK x \in Reader : /\ x = Fed(b, P) /\ x.epoch = b.epoch /\ x.open = b.open
                            /\ x.revoked = b.revoked /\ x.clock = b.clock /\ x.masked = b.masked
    BY <2>1, FedIs
  <2>5. PICK y \in Reader : /\ y = Timed(x, c.clock) /\ y.queue = x.queue
          /\ y.readable = x.readable /\ y.epoch = x.epoch /\ y.open = x.open
          /\ y.revoked = x.revoked /\ y.clock = c.clock /\ y.masked = x.masked
    BY <1>13, TimedIs
  <2>6. y = Fed(c, P)
    BY <1>8, <2>4, <2>5, FedSame
  <2>7. OfReader(set, r, x) = Timed(x, set.before)
    BY <1>8, <2>4, ClockBack
  <2> QED  BY <1>12, <2>1, <2>2, <2>3, <2>4, <2>5, <2>6, <2>7
<1>15. ASSUME NEW x \in Reader, x.epoch # c.epoch, x.clock = d.clock, x.masked = d.masked
       PROVE  InFront(c, x, OfEntry(<<set, rec>>, r, x))
  <2>1. Unflush(x, rec) = x
    BY <1>7, <1>15, UnflushIs
  <2>2. PICK y \in Reader : /\ y = Timed(x, c.clock) /\ y.queue = x.queue
          /\ y.readable = x.readable /\ y.epoch = x.epoch /\ y.open = x.open
          /\ y.revoked = x.revoked /\ y.clock = c.clock /\ y.masked = x.masked
    BY <1>13, TimedIs
  <2>3. /\ 0 \in Nat /\ y.readable = x.readable + 0 /\ Len(y.queue) = Len(x.queue) + 0
        /\ \A i \in 1 .. Len(x.queue) : y.queue[0 + i] = x.queue[i]
    BY <2>2, ReaderIs
  <2>4. InFront(c, x, y)
    BY <1>4, <1>9, <1>15, <2>2, <2>3 DEF InFront
  <2>5. OfReader(set, r, x) = Timed(x, set.before)
    BY <1>9, <1>15, ClockBack
  <2> QED  BY <1>12, <2>1, <2>2, <2>4, <2>5
<1>16. Whole(d)
  BY <1>4, <1>9, WholeSame
<1>17. LinkOf(<<set, rec>>, r, c, <<>>, d)
  <2>1. c.epoch = d.epoch /\ d.open = c.open /\ d.revoked = c.revoked
    BY <1>4, <1>9
  <2>2. c.epoch <= d.epoch /\ ~(c.epoch < d.epoch)
    BY <1>13, <2>1
  <2> QED  BY <1>14, <1>15, <2>1, <2>2, EmptyEnds, Zenon DEF LinkOf
<1> QED  BY <1>9, <1>11, <1>16, <1>17
-----------------------------------------------------------------------------
(* What undo of an entry does to the device. *)

LEMMA BitsRestored ==
  ASSUME NEW now, NEW before, NEW after, NEW k
  PROVE  k \in RestoreBits(now, before, after) <=>
           IF (k \in before) # (k \in after) /\ (k \in now) = (k \in after)
           THEN k \in before ELSE k \in now
<1>1. k \in RestoreBits(now, before, after) <=>
        /\ k \in now \/ k \in before
        /\ IF (k \in before) # (k \in after) /\ (k \in now) = (k \in after)
           THEN k \in before ELSE k \in now
  BY DEF RestoreBits
<1> QED  BY <1>1

\* AtRest(), of two devices.
Alike(d, e) == /\ d.key = e.key /\ d.led = e.led /\ d.vals = e.vals /\ d.grab = e.grab
               /\ d.flags = e.flags /\ d.leds = e.leds
LEMMA DeviceSame ==
  ASSUME NEW d \in Device, NEW e \in Device, Alike(d, e), d.last = e.last, d.pending = e.pending
  PROVE  d = e
BY DEF Device, Alike

LEMMA AtRestIs ==
  ASSUME NEW d \in Device, NEW e \in Device
  PROVE  AtRest(d) = AtRest(e) <=> Alike(d, e)
<1>1. ASSUME NEW x \in Device
      PROVE  /\ AtRest(x) \in Device /\ Alike(AtRest(x), x)
             /\ AtRest(x).last = None /\ AtRest(x).pending = FALSE
  <2>1. PICK n \in Keys \cup {None} : n = None
    OBVIOUS
  <2>2. AtRest(x) = [x EXCEPT !.last = n, !.pending = FALSE]
    BY <2>1 DEF AtRest
  <2>3. PICK y : y = [x EXCEPT !.last = n, !.pending = FALSE]
    OBVIOUS
  <2>4. y \in Device /\ y.last = n /\ y.pending = FALSE
    BY <2>3 DEF Device
  <2>5. Alike(y, x)
    BY <2>3 DEF Alike, Device
  <2> QED  BY <2>1, <2>2, <2>3, <2>4, <2>5, Zenon
<1>2. PICK a \in Device, b \in Device :
        /\ a = AtRest(d) /\ b = AtRest(e) /\ Alike(a, d) /\ Alike(b, e)
        /\ a.last = b.last /\ a.pending = b.pending
  BY <1>1, Zenon
<1>3. a = b => Alike(d, e)
  BY <1>2, Zenon DEF Alike
<1>4. Alike(d, e) => a = b
  <2>1. Alike(d, e) => Alike(a, b)
    BY <1>2, Zenon DEF Alike
  <2> QED  BY <1>2, <2>1, DeviceSame, Zenon
<1> QED  BY <1>2, <1>3, <1>4, Zenon

\* The device that an entry's instruction left.
After(e) ==
  CASE e.records[1].kind = "inject" -> e.records[1].after
    [] e.records[1].kind = "grab" -> [e.dev EXCEPT !.grab = e.records[1].after]
    [] OTHER -> e.dev
SameBits(d, e, k) == (k \in d.key <=> k \in e.key) /\ (k \in d.led <=> k \in e.led)
DeviceOK(e) ==
  /\ e.dev \in Device /\ e.keys \in SUBSET Keys
  /\ e.records[1].kind = "inject" =>
       /\ e.records[1].before = e.dev /\ e.records[1].after \in Device
       /\ e.records[1].after.grab = e.dev.grab
       /\ \A k \in Keys \ e.wrote : SameBits(e.records[1].after, e.dev, k)
       /\ LocksReported => e.records[1].after.leds = e.records[1].after.flags
  /\ e.records[1].kind = "grab" =>
       e.records[1].before = e.dev.grab /\ e.records[1].after \in {None} \cup Readers
  /\ LocksReported => e.dev.leds = e.dev.flags
Looks(e, d) ==
  /\ d \in Device /\ d.grab = After(e).grab
  /\ \A k \in Keys \ e.keys : SameBits(d, After(e), k)
  /\ e.keys = {} => Alike(d, After(e))

LEMMA Restores ==
  ASSUME NEW d \in Device, NEW a \in Device, NEW b \in Device
  PROVE  LET x == RestoreState(d, a, b)
         IN /\ x \in Device /\ x.grab = d.grab
            /\ x.key = RestoreBits(d.key, a.key, b.key) /\ x.led = RestoreBits(d.led, a.led, b.led)
            /\ x.vals = Restored(d.vals, a.vals, b.vals)
            /\ x.flags = Restored(d.flags, a.flags, b.flags)
            /\ x.leds = Restored(d.leds, a.leds, b.leds)
<1> DEFINE key == RestoreBits(d.key, a.key, b.key)
           led == RestoreBits(d.led, a.led, b.led)
           vals == Restored(d.vals, a.vals, b.vals)
           flags == Restored(d.flags, a.flags, b.flags)
           leds == Restored(d.leds, a.leds, b.leds)
<1>1. key \in SUBSET Keys
  <2>1. d.key \in SUBSET Keys /\ a.key \in SUBSET Keys
    BY DeviceIs
  <2>2. \A k \in key : k \in d.key \/ k \in a.key
    BY DEF RestoreBits
  <2> QED  BY <2>1, <2>2
<1>2. led \in SUBSET ToSet(Locks)
  <2>1. d.led \in SUBSET ToSet(Locks) /\ a.led \in SUBSET ToSet(Locks)
    BY DeviceIs
  <2>2. \A k \in led : k \in d.led \/ k \in a.led
    BY DEF RestoreBits
  <2> QED  BY <2>1, <2>2
<1>3. vals \in Vals /\ flags \in SUBSET ToSet(Locks) /\ leds \in SUBSET ToSet(Locks)
  BY DeviceIs DEF Restored
<1>4. d \in [key : SUBSET Keys, led : SUBSET ToSet(Locks), vals : Vals, grab : {None} \cup Readers,
             last : Keys \cup {None}, flags : SUBSET ToSet(Locks), leds : SUBSET ToSet(Locks),
             pending : BOOLEAN]
  BY DEF Device
<1>5. RestoreState(d, a, b) = [d EXCEPT !.key = key, !.led = led, !.vals = vals, !.flags = flags,
                                        !.leds = leds]
  BY <1>4 DEF RestoreState
<1> HIDE DEF key, led, vals, flags, leds
<1>6. PICK x : x = [d EXCEPT !.key = key, !.led = led, !.vals = vals, !.flags = flags, !.leds = leds]
  OBVIOUS
<1>7. /\ x \in Device /\ x.grab = d.grab /\ x.key = key /\ x.led = led /\ x.vals = vals
      /\ x.flags = flags /\ x.leds = leds
  BY <1>1, <1>2, <1>3, <1>4, <1>6 DEF Device
<1>8. RestoreState(d, a, b) = x
  BY <1>5, <1>6, Zenon
<1> QED  BY <1>7, <1>8, Zenon DEF key, led, vals, flags, leds

\* Undo gives the device back what the entry changed of it, and keeps what came since.
DeviceBack(e, d, x) ==
  /\ x \in Device /\ x.grab = e.dev.grab
  /\ \A k \in Keys \ e.keys : SameBits(x, e.dev, k)
  /\ \A k \in e.keys \ e.wrote : SameBits(x, d, k)
  /\ e.keys = {} => Alike(x, e.dev)
  /\ LocksReported /\ d.leds = d.flags => x.leds = x.flags
LEMMA DeviceUndone ==
  ASSUME NEW e, DeviceOK(e), NEW d, Looks(e, d),
         e.records[1].kind \in {"read", "flush", "inject", "clock", "grab", "mask"}
  PROVE  DeviceBack(e, d, OfDevice(e.records[1], d))
<1>1. PICK rec : rec = e.records[1]
  OBVIOUS
<1>2. PICK x : x = OfDevice(rec, d)
  OBVIOUS
<1>3. /\ d \in Device /\ e.dev \in Device /\ e.keys \in SUBSET Keys
      /\ d.grab = After(e).grab /\ \A k \in Keys \ e.keys : SameBits(d, After(e), k)
      /\ e.keys = {} => Alike(d, After(e))
      /\ LocksReported => e.dev.leds = e.dev.flags
  BY Zenon DEF DeviceOK, Looks
<1>4. CASE rec.kind = "inject"
  <2>1. PICK a \in Device, b \in Device : a = rec.before /\ b = rec.after
    BY <1>1, <1>4, Zenon DEF DeviceOK
  <2>2. /\ a = e.dev /\ b.grab = a.grab /\ \A k \in Keys \ e.wrote : SameBits(b, a, k)
        /\ LocksReported => b.leds = b.flags
    BY <1>1, <1>4, <2>1, Zenon DEF DeviceOK
  <2>3. After(e) = b
    BY <1>1, <1>4, <2>1 DEF After
  <2>4. x = RestoreState(d, a, b)
    BY <1>2, <1>4, <2>1 DEF OfDevice
  <2>5. /\ x \in Device /\ x.grab = d.grab
        /\ x.key = RestoreBits(d.key, a.key, b.key) /\ x.led = RestoreBits(d.led, a.led, b.led)
        /\ x.vals = Restored(d.vals, a.vals, b.vals)
        /\ x.flags = Restored(d.flags, a.flags, b.flags)
        /\ x.leds = Restored(d.leds, a.leds, b.leds)
    BY <1>3, <2>4, Restores
  <2>6. ASSUME NEW k
        PROVE  /\ SameBits(d, b, k) => SameBits(x, a, k)
               /\ SameBits(b, a, k) => SameBits(x, d, k)
    <3>1. k \in x.key <=> IF (k \in a.key) # (k \in b.key) /\ (k \in d.key) = (k \in b.key)
                          THEN k \in a.key ELSE k \in d.key
      BY <2>5, BitsRestored
    <3>2. k \in x.led <=> IF (k \in a.led) # (k \in b.led) /\ (k \in d.led) = (k \in b.led)
                          THEN k \in a.led ELSE k \in d.led
      BY <2>5, BitsRestored
    <3> QED  BY <3>1, <3>2 DEF SameBits
  <2>7. \A k \in Keys \ e.keys : SameBits(x, e.dev, k)
    BY <1>3, <2>2, <2>3, <2>6, Zenon
  <2>8. \A k \in e.keys \ e.wrote : SameBits(x, d, k)
    BY <1>3, <2>2, <2>6
  <2>9. ASSUME Alike(d, b) PROVE Alike(x, a)
    <3>1. x.vals = a.vals /\ x.flags = a.flags /\ x.leds = a.leds
      BY <2>5, <2>9 DEF Alike, Restored
    <3>2. \A k : SameBits(d, b, k)
      BY <2>9 DEF SameBits, Alike
    <3>3. \A k : SameBits(x, a, k)
      BY <2>6, <3>2
    <3>4. x.key = a.key /\ x.led = a.led
      BY <3>3 DEF SameBits
    <3>5. x.grab = a.grab
      BY <1>3, <2>2, <2>3, <2>5
    <3> QED  BY <3>1, <3>4, <3>5 DEF Alike
  <2>10. LocksReported /\ d.leds = d.flags => x.leds = x.flags
    BY <1>3, <2>2, <2>5 DEF Restored
  <2>11. x.grab = e.dev.grab
    BY <1>3, <2>2, <2>3, <2>5
  <2> QED  BY <1>1, <1>2, <1>3, <2>2, <2>3, <2>5, <2>7, <2>8, <2>9, <2>10, <2>11, Zenon DEF DeviceBack
<1>5. CASE rec.kind = "grab"
  <2>1. PICK g \in {None} \cup Readers, h \in {None} \cup Readers :
          g = e.dev.grab /\ h = rec.after /\ rec.before = g
    BY <1>1, <1>3, <1>5, DeviceIs DEF DeviceOK
  <2>2. After(e) = [e.dev EXCEPT !.grab = h]
    BY <1>1, <1>5, <2>1 DEF After
  <2>3. /\ After(e).grab = h /\ After(e).key = e.dev.key /\ After(e).led = e.dev.led
        /\ After(e).vals = e.dev.vals /\ After(e).flags = e.dev.flags /\ After(e).leds = e.dev.leds
    BY <1>3, <2>2 DEF Device
  <2>4. x = [d EXCEPT !.grab = g]
    <3>1. x = IF d.grab = rec.after THEN [d EXCEPT !.grab = rec.before] ELSE d
      BY <1>2, <1>5 DEF OfDevice
    <3>2. d.grab = h
      BY <1>3, <2>3
    <3> QED  BY <2>1, <3>1, <3>2
  <2>5. /\ x \in Device /\ x.grab = g /\ x.key = d.key /\ x.led = d.led /\ x.vals = d.vals
        /\ x.flags = d.flags /\ x.leds = d.leds
    BY <1>3, <2>4 DEF Device
  <2>6. \A k \in Keys \ e.keys : SameBits(x, e.dev, k)
    BY <1>3, <2>3, <2>5 DEF SameBits
  <2>7. \A k : SameBits(x, d, k)
    BY <2>5 DEF SameBits
  <2>8. e.keys = {} => Alike(x, e.dev)
    BY <1>3, <2>1, <2>3, <2>5 DEF Alike
  <2>9. DeviceBack(e, d, x)
    BY <2>1, <2>5, <2>6, <2>7, <2>8 DEF DeviceBack
  <2> QED  BY <1>1, <1>2, <2>9
<1>6. CASE rec.kind \notin {"inject", "grab"}
  <2>1. x = d
    BY <1>2, <1>6 DEF OfDevice
  <2>2. After(e) = e.dev
    BY <1>1, <1>6 DEF After
  <2>3. DeviceBack(e, d, d)
    BY <1>3, <2>2, Zenon DEF DeviceBack, SameBits
  <2> QED  BY <1>1, <1>2, <2>1, <2>3
<1> QED  BY <1>4, <1>5, <1>6

\* An entry undone leaves the one before it as it was.
LEMMA LooksBack ==
  ASSUME NEW b, NEW e, b.keys \in SUBSET Keys, e.keys \in SUBSET b.keys, Looks(b, e.dev),
         NEW d, NEW x, DeviceBack(e, d, x)
  PROVE  Looks(b, x)
<1>1. /\ x \in Device /\ x.grab = e.dev.grab /\ \A k \in Keys \ e.keys : SameBits(x, e.dev, k)
      /\ e.keys = {} => Alike(x, e.dev)
  BY DEF DeviceBack
<1>2. /\ e.dev.grab = After(b).grab /\ \A k \in Keys \ b.keys : SameBits(e.dev, After(b), k)
      /\ b.keys = {} => Alike(e.dev, After(b))
  BY DEF Looks
<1>3. \A k \in Keys \ b.keys : SameBits(x, After(b), k)
  BY <1>1, <1>2 DEF SameBits
<1>4. b.keys = {} => Alike(x, After(b))
  BY <1>1, <1>2 DEF Alike
<1> QED  BY <1>1, <1>2, <1>3, <1>4 DEF Looks
-----------------------------------------------------------------------------
(* The log: each entry with what came since, up to the next. *)

Made(records, wrote, d, f, v, since, keys) ==
  [records |-> records, wrote |-> wrote, dev |-> d, readers |-> f, view |-> v, since |-> since,
   keys |-> keys]
IsMade(e) == e = Made(e.records, e.wrote, e.dev, e.readers, e.view, e.since, e.keys)
Grabbed(d, f) == d.grab # None => d.grab \in Readers /\ f[d.grab].open /\ ~f[d.grab].revoked
EntryOK(e) ==
  /\ IsMade(e) /\ RecordsOK(e.records) /\ DeviceOK(e) /\ Grabbed(e.dev, e.readers)
  /\ e.readers \in [Readers -> Reader] /\ e.since \in [Readers -> Ends]

\* The readers of an entry with what came to them since.
Grew(e) == [r \in Readers |-> Fed(e.readers[r], e.since[r])]
Leads(e, d, f) ==
  /\ Looks(e, d)
  /\ \A r \in Readers : LinkOf(e.records, r, e.readers[r], e.since[r], f[r])

IsSeq(s) == \E S : s \in Seq(S)
LogOK(l, d, f) ==
  /\ IsSeq(l)
  /\ \A i \in 1 .. Len(l) : EntryOK(l[i])
  /\ \A i \in 1 .. Len(l) : i = Len(l) => Leads(l[i], d, f)
  /\ \A i \in 1 .. Len(l) - 1 : /\ Leads(l[i], l[i + 1].dev, Grew(l[i + 1]))
                                /\ l[i + 1].keys \in SUBSET l[i].keys

LEMMA MadeIs ==
  ASSUME NEW records, NEW wrote, NEW d, NEW f, NEW v, NEW since, NEW keys,
         NEW e, e = Made(records, wrote, d, f, v, since, keys)
  PROVE  /\ IsMade(e) /\ e.records = records /\ e.wrote = wrote /\ e.dev = d /\ e.readers = f
         /\ e.view = v /\ e.since = since /\ e.keys = keys
<1>1. /\ e.records = records /\ e.wrote = wrote /\ e.dev = d /\ e.readers = f
      /\ e.view = v /\ e.since = since /\ e.keys = keys
  BY DEF Made
<1> QED  BY <1>1, Zenon DEF IsMade

\* Sequences of anything.
LEMMA SeqIs ==
  ASSUME NEW l, IsSeq(l)
  PROVE  Len(l) \in Nat /\ DOMAIN l = 1 .. Len(l) /\ (l = <<>> <=> Len(l) = 0)
<1>1. PICK S : l \in Seq(S)
  BY DEF IsSeq
<1> QED  BY <1>1

LEMMA SeqAppended ==
  ASSUME NEW l, IsSeq(l), NEW e
  PROVE  /\ IsSeq(Append(l, e)) /\ Len(Append(l, e)) = Len(l) + 1
         /\ \A i \in 1 .. Len(l) : Append(l, e)[i] = l[i]
         /\ Append(l, e)[Len(l) + 1] = e
<1>1. PICK S : l \in Seq(S)
  BY DEF IsSeq
<1>2. PICK T : T = S \cup {e}
  OBVIOUS
<1>3. l \in Seq(T) /\ e \in T
  <2>1. Len(l) \in Nat /\ \A i \in 1 .. Len(l) : l[i] \in T
    BY <1>1, <1>2
  <2>2. l = [i \in 1 .. Len(l) |-> l[i]]
    BY <1>1
  <2> QED  BY <1>1, <1>2, <2>1, <2>2
<1>4. /\ Append(l, e) \in Seq(T) /\ Len(Append(l, e)) = Len(l) + 1
      /\ Append(l, e)[Len(l) + 1] = e /\ Len(l) \in Nat
      /\ \A i \in 1 .. Len(l) : Append(l, e)[i] = l[i]
  BY <1>3, AppendIs
<1> QED  BY <1>4 DEF IsSeq

LEMMA LogEmpty ==
  ASSUME NEW d, NEW f
  PROVE  LogOK(<<>>, d, f)
<1>1. IsSeq(<<>>)
  <2>1. <<>> \in Seq({})
    OBVIOUS
  <2> QED  BY <2>1, Zenon DEF IsSeq
<1>2. 1 .. Len(<<>>) = {} /\ 1 .. Len(<<>>) - 1 = {}
  OBVIOUS
<1> QED  BY <1>1, <1>2, Zenon DEF LogOK

\* A new entry.
LEMMA LogPush ==
  ASSUME NEW l, NEW d, NEW f, LogOK(l, d, f), NEW e, EntryOK(e), e.dev = d, Grew(e) = f,
         e.keys = {}, NEW d2, NEW f2, Leads(e, d2, f2)
  PROVE  LogOK(Append(l, e), d2, f2)
<1>1. /\ IsSeq(l) /\ \A i \in 1 .. Len(l) : EntryOK(l[i])
      /\ \A i \in 1 .. Len(l) : i = Len(l) => Leads(l[i], d, f)
      /\ \A i \in 1 .. Len(l) - 1 : /\ Leads(l[i], l[i + 1].dev, Grew(l[i + 1]))
                                    /\ l[i + 1].keys \in SUBSET l[i].keys
  BY Zenon DEF LogOK
<1>2. PICK n \in Nat : n = Len(l)
  BY <1>1, SeqIs
<1>3. PICK m : /\ m = Append(l, e) /\ IsSeq(m) /\ Len(m) = n + 1 /\ m[n + 1] = e
               /\ \A i \in 1 .. n : m[i] = l[i]
  <2>1. /\ IsSeq(Append(l, e)) /\ Len(Append(l, e)) = Len(l) + 1
        /\ \A i \in 1 .. Len(l) : Append(l, e)[i] = l[i]
        /\ Append(l, e)[Len(l) + 1] = e
    BY <1>1, SeqAppended
  <2> QED  BY <1>2, <2>1, Zenon
<1>4. \A i \in 1 .. n + 1 : i \in 1 .. n \/ i = n + 1
  OBVIOUS
<1>5. \A i \in 1 .. Len(m) : EntryOK(m[i])
  BY <1>1, <1>2, <1>3, <1>4, Zenon
<1>6. ASSUME NEW i \in 1 .. Len(m), i = Len(m) PROVE Leads(m[i], d2, f2)
  BY <1>3, <1>6, Zenon
<1>7. ASSUME NEW i \in 1 .. Len(m) - 1
      PROVE  Leads(m[i], m[i + 1].dev, Grew(m[i + 1])) /\ m[i + 1].keys \in SUBSET m[i].keys
  <2>1. i \in 1 .. n
    BY <1>3
  <2>2. m[i] = l[i]
    BY <1>3, <2>1
  <2>3. CASE i = n
    <3>1. m[i + 1] = e
      BY <1>3, <2>3
    <3>2. Leads(l[i], d, f)
      BY <1>1, <1>2, <2>1, <2>3
    <3> QED  BY <2>2, <3>1, <3>2
  <2>4. CASE i # n
    <3>1. i \in 1 .. Len(l) - 1 /\ i + 1 \in 1 .. n
      BY <1>2, <2>1, <2>4
    <3>2. m[i + 1] = l[i + 1]
      BY <1>3, <3>1
    <3> QED  BY <1>1, <2>2, <3>1, <3>2, Zenon
  <2> QED  BY <2>3, <2>4
<1>8. LogOK(m, d2, f2)
  BY <1>3, <1>5, <1>6, <1>7, Zenon DEF LogOK
<1> QED  BY <1>3, <1>8

\* What a report of the host does to an entry.
Since(e, k, s, x) ==
  /\ EntryOK(x) /\ x.records = e.records /\ x.wrote = e.wrote /\ x.dev = e.dev
  /\ x.readers = e.readers /\ After(x) = After(e)
  /\ x.since = [r \in Readers |-> e.since[r] \o Added(readers[r], s.readers[r])]
  /\ x.keys = e.keys \cup {k} \cup Changed(s)
LEMMA SinceIs ==
  ASSUME dev \in Device, readers \in [Readers -> Reader], NEW e, EntryOK(e), NEW k \in Keys,
         NEW s, Goes(Now, s), NEW x, x = SinceReport(e, k, s)
  PROVE  Since(e, k, s, x)
<1>1. /\ IsMade(e) /\ RecordsOK(e.records) /\ DeviceOK(e) /\ Grabbed(e.dev, e.readers)
      /\ e.readers \in [Readers -> Reader] /\ e.since \in [Readers -> Ends]
  BY Zenon DEF EntryOK
<1>2. /\ Now.readers = readers /\ \A r \in Readers : Grown(readers[r], s.readers[r])
  BY DEF Goes, Now
<1>3. PICK since \in [Readers -> Ends] :
        since = [r \in Readers |-> e.since[r] \o Added(readers[r], s.readers[r])]
  <2>1. ASSUME NEW r \in Readers PROVE e.since[r] \o Added(readers[r], s.readers[r]) \in Ends
    <3>1. PICK A \in Ends : A = Added(readers[r], s.readers[r])
      BY <1>2, AddedIs
    <3>2. e.since[r] \in Ends
      BY <1>1
    <3>3. e.since[r] \o A \in Ends
      BY <3>2, EndsJoined
    <3> QED  BY <3>1, <3>3
  <2> QED  BY <2>1
<1>4. PICK keys \in SUBSET Keys : keys = e.keys \cup {k} \cup Changed(s)
  <2>1. e.keys \in SUBSET Keys
    BY <1>1 DEF DeviceOK
  <2>2. Changed(s) \in SUBSET Keys
    BY DEF Changed
  <2>3. e.keys \cup {k} \cup Changed(s) \in SUBSET Keys
    BY <2>1, <2>2
  <2> QED  BY <2>3
<1>5. PICK v : v = [r \in Readers |-> Missing(e.view[r], s.missed[r])]
  OBVIOUS
<1>6. x = Made(e.records, e.wrote, e.dev, e.readers, v, since, keys)
  <2>1. PICK a, b, c, d, f, g, h : e = [records |-> a, wrote |-> b, dev |-> c, readers |-> d,
                                        view |-> f, since |-> g, keys |-> h]
    BY <1>1, Zenon DEF IsMade, Made
  <2>2. /\ e.records = a /\ e.wrote = b /\ e.dev = c /\ e.readers = d /\ e.view = f
        /\ e.since = g /\ e.keys = h
    BY <2>1
  <2>3. /\ keys = h \cup {k} \cup Changed(s)
        /\ since = [r \in Readers |-> g[r] \o Added(readers[r], s.readers[r])]
        /\ v = [r \in Readers |-> Missing(f[r], s.missed[r])]
    BY <1>3, <1>4, <1>5, <2>2, Zenon
  <2>4. x = [e EXCEPT !.keys = keys, !.since = since, !.view = v]
    <3>1. SinceReport(e, k, s) =
            [e EXCEPT !.keys = e.keys \cup {k} \cup Changed(s),
                      !.since = [r \in Readers |-> e.since[r] \o Added(readers[r], s.readers[r])],
                      !.view = [r \in Readers |-> Missing(e.view[r], s.missed[r])]]
      BY <2>1 DEF SinceReport
    <3> QED  BY <1>3, <1>4, <1>5, <3>1, Zenon
  <2>5. x = [records |-> a, wrote |-> b, dev |-> c, readers |-> d, view |-> v, since |-> since,
             keys |-> keys]
    BY <2>1, <2>4
  <2> QED  BY <2>2, <2>5, Zenon DEF Made
<1>7. /\ IsMade(x) /\ x.records = e.records /\ x.wrote = e.wrote /\ x.dev = e.dev
      /\ x.readers = e.readers /\ x.view = v /\ x.since = since /\ x.keys = keys
  BY <1>6, MadeIs
<1>8. After(x) = After(e)
  BY <1>7, Zenon DEF After
<1>9. DeviceOK(x)
  BY <1>1, <1>7, Zenon DEF DeviceOK
<1>10. EntryOK(x)
  BY <1>1, <1>7, <1>9, Zenon DEF EntryOK
<1> QED  BY <1>3, <1>4, <1>7, <1>8, <1>10, Zenon DEF Since

LEMMA ReportLeads ==
  ASSUME dev \in Device, readers \in [Readers -> Reader], NEW e, EntryOK(e), NEW k \in Keys,
         NEW s, Goes(Now, s), NEW x, x = SinceReport(e, k, s), Leads(e, dev, readers)
  PROVE  Leads(x, s.dev, s.readers)
<1>1. /\ EntryOK(x) /\ x.records = e.records /\ x.wrote = e.wrote /\ x.dev = e.dev
      /\ x.readers = e.readers /\ After(x) = After(e)
      /\ x.since = [r \in Readers |-> e.since[r] \o Added(readers[r], s.readers[r])]
      /\ x.keys = e.keys \cup {k} \cup Changed(s)
  <2>1. Since(e, k, s, x)
    BY SinceIs
  <2> QED  BY <2>1, Zenon DEF Since
<1>2. /\ Now.readers = readers /\ Now.dev = dev /\ s \in State /\ s.dev.grab = dev.grab
      /\ \A r \in Readers : Grown(readers[r], s.readers[r])
  BY DEF Goes, Now
<1>3. s.dev \in Device /\ s.readers \in [Readers -> Reader]
  BY <1>2, StateIs
<1>4. Looks(e, dev) /\ \A r \in Readers : LinkOf(e.records, r, e.readers[r], e.since[r], readers[r])
  BY DEF Leads
<1>5. Looks(x, s.dev)
  <2>1. ASSUME NEW h \in Keys \ x.keys PROVE SameBits(s.dev, After(x), h)
    <3>1. h \in Keys \ e.keys /\ h \in Keys /\ h \notin Changed(s)
      BY <1>1
    <3>2. SameBits(dev, After(e), h)
      BY <1>4, <3>1 DEF Looks
    <3>3. SameBits(s.dev, dev, h)
      BY <3>1 DEF Changed, SameBits
    <3> QED  BY <1>1, <3>2, <3>3 DEF SameBits
  <2>2. x.keys # {}
    BY <1>1
  <2>3. s.dev.grab = After(x).grab
    BY <1>1, <1>2, <1>4, Zenon DEF Looks
  <2> QED  BY <1>3, <2>1, <2>2, <2>3, Zenon DEF Looks
<1>6. ASSUME NEW r \in Readers
      PROVE  LinkOf(x.records, r, x.readers[r], x.since[r], s.readers[r])
  <2>1. LinkOf(e.records, r, e.readers[r], e.since[r], readers[r])
    BY <1>4
  <2>2. LinkOf(e.records, r, e.readers[r], e.since[r] \o Added(readers[r], s.readers[r]), s.readers[r])
    BY <1>2, <2>1, LinkGrown
  <2>3. x.since[r] = e.since[r] \o Added(readers[r], s.readers[r])
    BY <1>1
  <2> QED  BY <1>1, <2>2, <2>3, Zenon
<1> QED  BY <1>5, <1>6 DEF Leads

LEMMA ReportLeadsOn ==
  ASSUME dev \in Device, readers \in [Readers -> Reader], NEW k \in Keys, NEW s, Goes(Now, s),
         NEW e, EntryOK(e), NEW x, x = SinceReport(e, k, s),
         NEW f, EntryOK(f), NEW y, y = SinceReport(f, k, s),
         Leads(e, f.dev, Grew(f)), f.keys \in SUBSET e.keys
  PROVE  Leads(x, y.dev, Grew(y)) /\ y.keys \in SUBSET x.keys
<1>1. /\ EntryOK(x) /\ x.records = e.records /\ x.wrote = e.wrote /\ x.dev = e.dev
      /\ x.readers = e.readers /\ After(x) = After(e)
      /\ x.since = [r \in Readers |-> e.since[r] \o Added(readers[r], s.readers[r])]
      /\ x.keys = e.keys \cup {k} \cup Changed(s)
  <2>1. Since(e, k, s, x)
    BY SinceIs
  <2> QED  BY <2>1, Zenon DEF Since
<1>2. /\ EntryOK(y) /\ y.records = f.records /\ y.wrote = f.wrote /\ y.dev = f.dev
      /\ y.readers = f.readers /\ After(y) = After(f)
      /\ y.since = [r \in Readers |-> f.since[r] \o Added(readers[r], s.readers[r])]
      /\ y.keys = f.keys \cup {k} \cup Changed(s)
  <2>1. Since(f, k, s, y)
    BY SinceIs
  <2> QED  BY <2>1, Zenon DEF Since
<1>3. \A r \in Readers : Grown(readers[r], s.readers[r])
  BY DEF Goes, Now
<1>4. /\ Looks(e, f.dev)
      /\ \A r \in Readers : LinkOf(e.records, r, e.readers[r], e.since[r], Grew(f)[r])
  BY DEF Leads
<1>5. f.readers \in [Readers -> Reader] /\ f.since \in [Readers -> Ends]
  BY Zenon DEF EntryOK
<1>6. y.keys \in SUBSET x.keys
  BY <1>1, <1>2
<1>7. Looks(x, y.dev)
  <2>1. ASSUME NEW h \in Keys \ x.keys PROVE SameBits(y.dev, After(x), h)
    <3>1. h \in Keys \ e.keys
      BY <1>1
    <3> QED  BY <1>1, <1>2, <1>4, <3>1 DEF Looks
  <2>2. x.keys # {}
    BY <1>1
  <2>3. y.dev \in Device /\ y.dev.grab = After(x).grab
    BY <1>1, <1>2, <1>4, Zenon DEF Looks
  <2> QED  BY <2>1, <2>2, <2>3, Zenon DEF Looks
<1>8. ASSUME NEW r \in Readers
      PROVE  LinkOf(x.records, r, x.readers[r], x.since[r], Grew(y)[r])
  <2>1. PICK A \in Ends : A = Added(readers[r], s.readers[r])
    BY <1>3, AddedIs
  <2>2. PICK c \in Reader, S \in Ends : c = f.readers[r] /\ S = f.since[r]
    BY <1>5
  <2>3. LinkOf(e.records, r, e.readers[r], e.since[r], Fed(c, S))
    <3>1. Grew(f)[r] = Fed(c, S)
      BY <2>2 DEF Grew
    <3> QED  BY <1>4, <3>1, Zenon
  <2>4. LinkOf(e.records, r, e.readers[r], e.since[r] \o A, Fed(Fed(c, S), A))
    BY <2>3, LinkFed
  <2>5. Fed(Fed(c, S), A) = Fed(c, S \o A)
    BY FedTwice
  <2>6. Grew(y)[r] = Fed(c, S \o A)
    <3>1. Grew(y)[r] = Fed(y.readers[r], y.since[r])
      BY DEF Grew
    <3>2. y.since[r] = S \o A
      BY <1>2, <2>1, <2>2
    <3>3. y.readers[r] = c
      BY <1>2, <2>2
    <3> QED  BY <3>1, <3>2, <3>3, Zenon
  <2>7. x.since[r] = e.since[r] \o A
    BY <1>1, <2>1
  <2> QED  BY <1>1, <2>4, <2>5, <2>6, <2>7, Zenon
<1> QED  BY <1>6, <1>7, <1>8 DEF Leads

LEMMA LogReported ==
  ASSUME dev \in Device, readers \in [Readers -> Reader], NEW k \in Keys, NEW s, Goes(Now, s),
         NEW l, LogOK(l, dev, readers)
  PROVE  LogOK([i \in DOMAIN l |-> SinceReport(l[i], k, s)], s.dev, s.readers)
<1>1. /\ IsSeq(l) /\ \A i \in 1 .. Len(l) : EntryOK(l[i])
      /\ \A i \in 1 .. Len(l) : i = Len(l) => Leads(l[i], dev, readers)
      /\ \A i \in 1 .. Len(l) - 1 : /\ Leads(l[i], l[i + 1].dev, Grew(l[i + 1]))
                                    /\ l[i + 1].keys \in SUBSET l[i].keys
  BY Zenon DEF LogOK
<1>2. PICK n \in Nat : n = Len(l) /\ DOMAIN l = 1 .. n
  BY <1>1, SeqIs
<1>3. PICK m : /\ m = [i \in DOMAIN l |-> SinceReport(l[i], k, s)] /\ IsSeq(m) /\ Len(m) = n
               /\ \A i \in 1 .. n : m[i] = SinceReport(l[i], k, s)
  <2> DEFINE at(i) == SinceReport(l[i], k, s)
             S == {at(i) : i \in 1 .. n}
  <2>1. [i \in DOMAIN l |-> SinceReport(l[i], k, s)] = [i \in 1 .. n |-> at(i)]
    BY <1>2
  <2> HIDE DEF at
  <2>2. \A i \in 1 .. n : at(i) \in S
    OBVIOUS
  <2> HIDE DEF S
  <2>3. PICK m : m = [i \in 1 .. n |-> at(i)]
    OBVIOUS
  <2>4. m \in Seq(S) /\ Len(m) = n /\ \A i \in 1 .. n : m[i] = at(i)
    BY <2>2, <2>3
  <2>5. IsSeq(m)
    BY <2>4, Zenon DEF IsSeq
  <2> QED  BY <2>1, <2>3, <2>4, <2>5, Zenon DEF at
<1>4. \A i \in 1 .. Len(m) : EntryOK(m[i])
  <2>1. ASSUME NEW i \in 1 .. n PROVE EntryOK(m[i])
    <3>1. EntryOK(l[i]) /\ m[i] = SinceReport(l[i], k, s)
      BY <1>1, <1>2, <1>3, Zenon
    <3>2. PICK e, x : e = l[i] /\ x = m[i]
      OBVIOUS
    <3>3. EntryOK(e) /\ x = SinceReport(e, k, s)
      BY <3>1, <3>2, Zenon
    <3>4. Since(e, k, s, x)
      BY <3>3, SinceIs
    <3>5. EntryOK(x)
      BY <3>4, Zenon DEF Since
    <3> QED  BY <3>2, <3>5, Zenon
  <2> QED  BY <1>3, <2>1
<1>5. ASSUME NEW i \in 1 .. Len(m), i = Len(m) PROVE Leads(m[i], s.dev, s.readers)
  <2>1. i \in 1 .. n /\ i = n
    BY <1>3, <1>5
  <2>2. PICK e, x : e = l[i] /\ x = m[i]
    OBVIOUS
  <2>3. EntryOK(e) /\ x = SinceReport(e, k, s) /\ Leads(e, dev, readers)
    BY <1>1, <1>2, <1>3, <2>1, <2>2, Zenon
  <2>4. Leads(x, s.dev, s.readers)
    BY <2>3, ReportLeads
  <2> QED  BY <2>2, <2>4, Zenon
<1>6. ASSUME NEW i \in 1 .. Len(m) - 1
      PROVE  Leads(m[i], m[i + 1].dev, Grew(m[i + 1])) /\ m[i + 1].keys \in SUBSET m[i].keys
  <2>1. i \in 1 .. n /\ i + 1 \in 1 .. n /\ i \in 1 .. Len(l) - 1
    BY <1>2, <1>3
  <2>2. PICK j \in 1 .. n : j = i + 1
    BY <2>1
  <2>3. PICK e, x, f, y : e = l[i] /\ x = m[i] /\ f = l[j] /\ y = m[j]
    OBVIOUS
  <2>4. /\ EntryOK(e) /\ x = SinceReport(e, k, s) /\ EntryOK(f) /\ y = SinceReport(f, k, s)
    BY <1>1, <1>2, <1>3, <2>1, <2>3, Zenon
  <2>5. Leads(e, f.dev, Grew(f)) /\ f.keys \in SUBSET e.keys
    BY <1>1, <2>1, <2>2, <2>3, Zenon
  <2>6. Leads(x, y.dev, Grew(y)) /\ y.keys \in SUBSET x.keys
    BY <2>4, <2>5, ReportLeadsOn
  <2> QED  BY <2>2, <2>3, <2>6, Zenon
<1>7. LogOK(m, s.dev, s.readers)
  BY <1>3, <1>4, <1>5, <1>6, Zenon DEF LogOK
<1> QED  BY <1>3, <1>7, Zenon

\* An entry that only its view changed of.
Twin(x, e) ==
  /\ IsMade(x) /\ x.records = e.records /\ x.wrote = e.wrote /\ x.dev = e.dev
  /\ x.readers = e.readers /\ x.since = e.since /\ x.keys = e.keys
LEMMA TwinIs ==
  ASSUME NEW e, EntryOK(e), NEW v, NEW x, x = [e EXCEPT !.view = v] \/ x = e
  PROVE  Twin(x, e)
<1>1. IsMade(e)
  BY DEF EntryOK
<1>2. CASE x = e
  BY <1>1, <1>2 DEF Twin
<1>3. CASE x = [e EXCEPT !.view = v]
  <2>1. x = Made(e.records, e.wrote, e.dev, e.readers, v, e.since, e.keys)
    <3>1. PICK a, b, c, d, f, g, h : e = [records |-> a, wrote |-> b, dev |-> c, readers |-> d,
                                          view |-> f, since |-> g, keys |-> h]
      BY <1>1, Zenon DEF IsMade, Made
    <3>2. /\ e.records = a /\ e.wrote = b /\ e.dev = c /\ e.readers = d
          /\ e.since = g /\ e.keys = h
      BY <3>1
    <3>3. x = [records |-> a, wrote |-> b, dev |-> c, readers |-> d, view |-> v, since |-> g,
               keys |-> h]
      BY <1>3, <3>1
    <3> QED  BY <3>2, <3>3, Zenon DEF Made
  <2> QED  BY <2>1, MadeIs DEF Twin
<1> QED  BY <1>2, <1>3

LEMMA TwinSame ==
  ASSUME NEW e, EntryOK(e), NEW x, Twin(x, e)
  PROVE  /\ EntryOK(x) /\ Grew(x) = Grew(e)
         /\ \A d, f : Leads(e, d, f) => Leads(x, d, f)
<1>1. /\ IsMade(x) /\ x.records = e.records /\ x.wrote = e.wrote /\ x.dev = e.dev
      /\ x.readers = e.readers /\ x.since = e.since /\ x.keys = e.keys
  BY Zenon DEF Twin
<1>2. After(x) = After(e)
  BY <1>1, Zenon DEF After
<1>3. DeviceOK(x)
  <2>1. DeviceOK(e)
    BY Zenon DEF EntryOK
  <2> QED  BY <1>1, <2>1, Zenon DEF DeviceOK
<1>4. EntryOK(x)
  BY <1>1, <1>3, Zenon DEF EntryOK
<1>5. Grew(x) = Grew(e)
  BY <1>1, Zenon DEF Grew
<1>6. \A d, f : Leads(e, d, f) => Leads(x, d, f)
  BY <1>1, <1>2, Zenon DEF Leads, Looks
<1> QED  BY <1>4, <1>5, <1>6

\* The newest entry undone.
Back(e, d, f, x, g) ==
  /\ EntryOK(e) /\ DeviceBack(e, d, x) /\ Grabbed(x, g)
  /\ g \in [Readers -> Reader] /\ \A r \in Readers : Whole(g[r])
  /\ \A r \in Readers : Undone(e.readers[r], e.since[r], f[r], g[r])
Cut(l, n, c, v, m) == m = [i \in 1 .. n |-> IF c THEN [l[i] EXCEPT !.view = v] ELSE l[i]]
LEMMA CutIs ==
  ASSUME NEW l, NEW n \in Nat, NEW c, NEW v, NEW m, Cut(l, n, c, v, m)
  PROVE  /\ IsSeq(m) /\ Len(m) = n
         /\ \A i \in 1 .. n : m[i] = IF c THEN [l[i] EXCEPT !.view = v] ELSE l[i]
<1> DEFINE at(i) == IF c THEN [l[i] EXCEPT !.view = v] ELSE l[i]
           S == {at(i) : i \in 1 .. n}
<1>1. m = [i \in 1 .. n |-> at(i)]
  BY Zenon DEF Cut
<1> HIDE DEF at
<1>2. \A i \in 1 .. n : at(i) \in S
  OBVIOUS
<1> HIDE DEF S
<1>3. m \in Seq(S) /\ Len(m) = n /\ \A i \in 1 .. n : m[i] = at(i)
  BY <1>1, <1>2
<1>4. IsSeq(m)
  BY <1>3, Zenon DEF IsSeq
<1> QED  BY <1>3, <1>4, Zenon DEF at

Undoing(d, f, l, e, x, g, c, v, m) ==
  /\ f \in [Readers -> Reader] /\ LogOK(l, d, f) /\ l # <<>>
  /\ \A r \in Readers : Whole(f[r])
  /\ e = l[Len(l)] /\ x = OfDevice(e.records[1], d)
  /\ g = [r \in Readers |-> OfEntry(e.records, r, f[r])]
  /\ m = [i \in 1 .. Len(l) - 1 |-> IF c THEN [l[i] EXCEPT !.view = v] ELSE l[i]]
LEMMA LogUndone ==
  ASSUME NEW d, NEW f, NEW l, NEW e, NEW x, NEW g, NEW c, NEW v, NEW m,
         Undoing(d, f, l, e, x, g, c, v, m)
  PROVE  LogOK(m, x, g) /\ Back(e, d, f, x, g)
<1> /\ f \in [Readers -> Reader] /\ LogOK(l, d, f) /\ l # <<>>
    /\ \A r \in Readers : Whole(f[r])
    /\ e = l[Len(l)] /\ x = OfDevice(e.records[1], d)
    /\ g = [r \in Readers |-> OfEntry(e.records, r, f[r])]
    /\ m = [i \in 1 .. Len(l) - 1 |-> IF c THEN [l[i] EXCEPT !.view = v] ELSE l[i]]
  BY Zenon DEF Undoing
<1>1. /\ IsSeq(l) /\ \A i \in 1 .. Len(l) : EntryOK(l[i])
      /\ \A i \in 1 .. Len(l) : i = Len(l) => Leads(l[i], d, f)
      /\ \A i \in 1 .. Len(l) - 1 : /\ Leads(l[i], l[i + 1].dev, Grew(l[i + 1]))
                                    /\ l[i + 1].keys \in SUBSET l[i].keys
  BY Zenon DEF LogOK
<1>2. PICK n \in Nat : n + 1 = Len(l)
  <2>1. Len(l) \in Nat /\ Len(l) # 0
    BY <1>1, SeqIs
  <2>2. Len(l) - 1 \in Nat /\ (Len(l) - 1) + 1 = Len(l)
    BY <2>1
  <2> QED  BY <2>2
<1>3. EntryOK(e) /\ Leads(e, d, f)
  <2>1. n + 1 \in 1 .. Len(l) /\ n + 1 = Len(l)
    BY <1>2
  <2> QED  BY <1>1, <2>1
<1>4. /\ RecordsOK(e.records) /\ DeviceOK(e) /\ Grabbed(e.dev, e.readers)
      /\ e.readers \in [Readers -> Reader] /\ e.since \in [Readers -> Ends] /\ Looks(e, d)
      /\ \A r \in Readers : LinkOf(e.records, r, e.readers[r], e.since[r], f[r])
  BY <1>3, Zenon DEF EntryOK, Leads
<1>5. DeviceBack(e, d, x)
  <2>1. e.records[1].kind \in {"read", "flush", "inject", "clock", "grab", "mask"}
    <3>1. 1 \in 1 .. Len(e.records)
      BY <1>4 DEF RecordsOK
    <3> QED  BY <1>4, <3>1 DEF RecordsOK
  <2> QED  BY <1>4, <2>1, DeviceUndone
<1>6. ASSUME NEW r \in Readers PROVE Undone(e.readers[r], e.since[r], f[r], g[r])
  <2>1. LinkOf(e.records, r, e.readers[r], e.since[r], f[r]) /\ Whole(f[r])
    BY <1>4
  <2>2. g[r] = OfEntry(e.records, r, f[r])
    OBVIOUS
  <2>3. Undone(e.readers[r], e.since[r], f[r], OfEntry(e.records, r, f[r]))
    BY <2>1, LinkUndone
  <2> QED  BY <2>2, <2>3, Zenon
<1>7. /\ g \in [Readers -> Reader] /\ \A r \in Readers : Whole(g[r])
      /\ \A r \in Readers : g[r].open = e.readers[r].open /\ g[r].revoked = e.readers[r].revoked
  <2>1. ASSUME NEW r \in Readers
        PROVE  /\ g[r] \in Reader /\ Whole(g[r])
               /\ g[r].open = e.readers[r].open /\ g[r].revoked = e.readers[r].revoked
    BY <1>6, Zenon DEF Undone
  <2>2. g = [r \in Readers |-> g[r]]
    OBVIOUS
  <2> QED  BY <2>1, <2>2
<1>8. Grabbed(x, g)
  <2>1. x.grab = e.dev.grab
    BY <1>5 DEF DeviceBack
  <2> QED  BY <1>4, <1>7, <2>1, Zenon DEF Grabbed
<1>9. /\ IsSeq(m) /\ Len(m) = n
      /\ \A i \in 1 .. n : m[i] = IF c THEN [l[i] EXCEPT !.view = v] ELSE l[i]
  <2>1. Len(l) - 1 = n
    BY <1>2
  <2>2. Cut(l, n, c, v, m)
    BY <2>1, Zenon DEF Cut
  <2> QED  BY <2>2, CutIs
<1>10. ASSUME NEW i \in 1 .. n
       PROVE  /\ EntryOK(l[i]) /\ Twin(m[i], l[i]) /\ EntryOK(m[i]) /\ Grew(m[i]) = Grew(l[i])
              /\ \A a, b : Leads(l[i], a, b) => Leads(m[i], a, b)
  <2>1. EntryOK(l[i])
    BY <1>1, <1>2
  <2>2. m[i] = [l[i] EXCEPT !.view = v] \/ m[i] = l[i]
    BY <1>9, Zenon
  <2>3. PICK y, z : y = l[i] /\ z = m[i]
    OBVIOUS
  <2>4. EntryOK(y) /\ (z = [y EXCEPT !.view = v] \/ z = y)
    BY <2>1, <2>2, <2>3, Zenon
  <2>5. Twin(z, y)
    BY <2>4, TwinIs, Zenon
  <2>6. EntryOK(z) /\ Grew(z) = Grew(y) /\ \A a, b : Leads(y, a, b) => Leads(z, a, b)
    BY <2>4, <2>5, TwinSame
  <2> QED  BY <2>3, <2>4, <2>5, <2>6, Zenon
<1>11. \A i \in 1 .. Len(m) : EntryOK(m[i])
  BY <1>9, <1>10
<1>12. ASSUME NEW i \in 1 .. Len(m), i = Len(m) PROVE Leads(m[i], x, g)
  <2>1. i = n /\ n \in 1 .. n /\ n \in 1 .. Len(l) - 1
    BY <1>2, <1>9, <1>12
  <2>2. Leads(l[n], e.dev, Grew(e)) /\ e.keys \in SUBSET l[n].keys
    BY <1>1, <1>2, <2>1
  <2>3. PICK b : b = l[n]
    OBVIOUS
  <2>4. /\ Looks(b, e.dev) /\ e.keys \in SUBSET b.keys
        /\ \A r \in Readers : LinkOf(b.records, r, b.readers[r], b.since[r], Grew(e)[r])
    BY <2>2, <2>3, Zenon DEF Leads
  <2>5. b.keys \in SUBSET Keys
    BY <1>10, <2>1, <2>3 DEF EntryOK, DeviceOK
  <2>6. Looks(b, x)
    BY <1>5, <2>4, <2>5, LooksBack
  <2>7. ASSUME NEW r \in Readers PROVE LinkOf(b.records, r, b.readers[r], b.since[r], g[r])
    <3>1. PICK a \in Reader, S \in Ends : a = e.readers[r] /\ S = e.since[r]
      BY <1>4
    <3>2. f[r] \in Reader /\ Undone(a, S, f[r], g[r])
      BY <1>6, <3>1, Zenon
    <3>3. LinkOf(b.records, r, b.readers[r], b.since[r], Fed(a, S))
      <4>1. Grew(e)[r] = Fed(a, S)
        BY <3>1 DEF Grew
      <4> QED  BY <2>4, <4>1, Zenon
    <3> QED  BY <3>2, <3>3, LinkBack
  <2>8. Leads(b, x, g)
    BY <2>6, <2>7 DEF Leads
  <2> QED  BY <1>10, <2>1, <2>3, <2>8, Zenon
<1>13. ASSUME NEW i \in 1 .. Len(m) - 1
       PROVE  Leads(m[i], m[i + 1].dev, Grew(m[i + 1])) /\ m[i + 1].keys \in SUBSET m[i].keys
  <2>1. i \in 1 .. n /\ i + 1 \in 1 .. n /\ i \in 1 .. Len(l) - 1
    BY <1>2, <1>9
  <2>2. Leads(l[i], l[i + 1].dev, Grew(l[i + 1])) /\ l[i + 1].keys \in SUBSET l[i].keys
    BY <1>1, <2>1, Zenon
  <2>3. /\ Twin(m[i], l[i]) /\ \A a, b : Leads(l[i], a, b) => Leads(m[i], a, b)
        /\ Twin(m[i + 1], l[i + 1]) /\ Grew(m[i + 1]) = Grew(l[i + 1])
    BY <1>10, <2>1, Zenon
  <2>4. m[i].keys = l[i].keys /\ m[i + 1].keys = l[i + 1].keys /\ m[i + 1].dev = l[i + 1].dev
    BY <2>3, Zenon DEF Twin
  <2> QED  BY <2>2, <2>3, <2>4, Zenon
<1>14. LogOK(m, x, g)
  BY <1>9, <1>11, <1>12, <1>13, Zenon DEF LogOK
<1> QED  BY <1>3, <1>5, <1>6, <1>7, <1>8, <1>14 DEF Back

\* What a call logs, of the device d2 that it left.
Did(rec, wrote, d, d2) ==
  /\ rec.kind = "inject" =>
       /\ rec.before = d /\ rec.after = d2 /\ d2.grab = d.grab
       /\ \A k \in Keys \ wrote : SameBits(d2, d, k)
       /\ LocksReported => d2.leds = d2.flags
  /\ rec.kind = "grab" =>
       /\ rec.before = d.grab /\ rec.after \in {None} \cup Readers
       /\ d2 = [d EXCEPT !.grab = rec.after]
  /\ rec.kind \notin {"inject", "grab"} => d2 = d
Nothing == [r \in Readers |-> <<>>]
Sound(d, f) ==
  /\ d \in Device /\ f \in [Readers -> Reader] /\ Grabbed(d, f)
  /\ \A r \in Readers : Whole(f[r])
  /\ LocksReported => d.leds = d.flags

LEMMA LogCalled ==
  ASSUME NEW d, NEW f, Sound(d, f), NEW l, LogOK(l, d, f), NEW records, RecordsOK(records),
         NEW wrote, NEW v, NEW e, e = Made(records, wrote, d, f, v, Nothing, {}),
         NEW d2 \in Device, Did(records[1], wrote, d, d2), NEW f2,
         \A r \in Readers : LinkOf(records, r, f[r], <<>>, f2[r])
  PROVE  LogOK(Append(l, e), d2, f2)
<1>1. /\ IsMade(e) /\ e.records = records /\ e.wrote = wrote /\ e.dev = d /\ e.readers = f
      /\ e.view = v /\ e.since = Nothing /\ e.keys = {}
  BY MadeIs
<1>2. /\ d \in Device /\ f \in [Readers -> Reader] /\ Grabbed(d, f)
      /\ LocksReported => d.leds = d.flags
  BY Zenon DEF Sound
<1>3. PICK rec : rec = records[1]
  OBVIOUS
<1>4. Did(rec, wrote, d, d2) /\ e.records[1] = rec
  BY <1>1, <1>3, Zenon
<1>5. DeviceOK(e)
  <2>1. rec.kind = "inject" =>
          /\ rec.before = e.dev /\ rec.after \in Device /\ rec.after.grab = e.dev.grab
          /\ \A k \in Keys \ e.wrote : SameBits(rec.after, e.dev, k)
          /\ LocksReported => rec.after.leds = rec.after.flags
    BY <1>1, <1>4, Zenon DEF Did
  <2>2. rec.kind = "grab" => rec.before = e.dev.grab /\ rec.after \in {None} \cup Readers
    BY <1>1, <1>4, Zenon DEF Did
  <2>3. e.dev \in Device /\ e.keys \in SUBSET Keys /\ (LocksReported => e.dev.leds = e.dev.flags)
    BY <1>1, <1>2
  <2> QED  BY <1>4, <2>1, <2>2, <2>3, Zenon DEF DeviceOK
<1>6. EntryOK(e)
  <2>1. Nothing \in [Readers -> Ends]
    BY EmptyEnds DEF Nothing
  <2> QED  BY <1>1, <1>2, <1>5, <2>1, Zenon DEF EntryOK
<1>7. Grew(e) = f
  <2>1. ASSUME NEW r \in Readers PROVE Grew(e)[r] = f[r]
    <3>1. f[r] \in Reader /\ <<>> \in Seq(Event)
      BY <1>2
    <3>2. Fed(f[r], <<>>) = f[r]
      BY <3>1, FedIs
    <3>3. e.readers[r] = f[r] /\ e.since[r] = <<>>
      BY <1>1 DEF Nothing
    <3>4. Grew(e)[r] = Fed(e.readers[r], e.since[r])
      BY DEF Grew
    <3> QED  BY <3>2, <3>3, <3>4, Zenon
  <2>2. Grew(e) = [r \in Readers |-> Grew(e)[r]]
    BY DEF Grew
  <2> HIDE DEF Grew
  <2>3. f = [r \in Readers |-> f[r]]
    BY <1>2
  <2>4. [r \in Readers |-> Grew(e)[r]] = [r \in Readers |-> f[r]]
    BY <2>1
  <2> QED  BY <2>2, <2>3, <2>4, Zenon
<1>8. After(e).grab = d2.grab /\ Alike(d2, After(e))
  <2>1. CASE rec.kind = "inject"
    <3>1. After(e) = d2
      BY <1>4, <2>1 DEF After, Did
    <3> QED  BY <3>1, Zenon DEF Alike
  <2>2. CASE rec.kind = "grab"
    <3>1. After(e) = [d EXCEPT !.grab = rec.after]
      BY <1>1, <1>4, <2>2 DEF After
    <3>2. After(e) = d2
      BY <1>4, <2>2, <3>1 DEF Did
    <3> QED  BY <3>2, Zenon DEF Alike
  <2>3. CASE rec.kind \notin {"inject", "grab"}
    <3>1. After(e) = d2
      BY <1>1, <1>4, <2>3 DEF After, Did
    <3> QED  BY <3>1, Zenon DEF Alike
  <2> QED  BY <2>1, <2>2, <2>3
<1>9. Looks(e, d2)
  <2>1. \A k : SameBits(d2, After(e), k)
    BY <1>8 DEF Alike, SameBits
  <2> QED  BY <1>8, <2>1, Zenon DEF Looks
<1>10. ASSUME NEW r \in Readers PROVE LinkOf(e.records, r, e.readers[r], e.since[r], f2[r])
  <2>1. e.since[r] = <<>>
    BY <1>1 DEF Nothing
  <2> QED  BY <1>1, <2>1, Zenon
<1>11. Leads(e, d2, f2)
  BY <1>9, <1>10 DEF Leads
<1> QED  BY <1>1, <1>6, <1>7, <1>11, LogPush

\* A call that only puts the console off.
LEMMA LogKept ==
  ASSUME NEW d, NEW f, NEW l, LogOK(l, d, f), NEW d2 \in Device, Alike(d2, d)
  PROVE  LogOK(l, d2, f)
<1>1. ASSUME NEW e, Leads(e, d, f) PROVE Leads(e, d2, f)
  <2>1. Looks(e, d) /\ \A r \in Readers : LinkOf(e.records, r, e.readers[r], e.since[r], f[r])
    BY <1>1, Zenon DEF Leads
  <2>2. \A k : SameBits(d2, d, k)
    BY DEF Alike, SameBits
  <2>3. \A k \in Keys \ e.keys : SameBits(d2, After(e), k)
    BY <2>1, <2>2 DEF Looks, SameBits
  <2>4. e.keys = {} => Alike(d2, After(e))
    BY <2>1, Zenon DEF Looks, Alike
  <2>5. d2.grab = After(e).grab
    BY <2>1, Zenon DEF Looks, Alike
  <2>6. Looks(e, d2)
    BY <2>3, <2>4, <2>5, Zenon DEF Looks
  <2> QED  BY <2>1, <2>6, Zenon DEF Leads
<1> QED  BY <1>1, Zenon DEF LogOK

\* A record that has nothing of a reader.
Others(rec, r) ==
  /\ rec.kind \in {"read", "flush", "clock", "mask"} => rec.reader # r
  /\ rec.kind = "inject" => r \notin DOMAIN rec.deliveries
LEMMA LinkOther ==
  ASSUME NEW r, NEW c \in Reader, Whole(c), NEW rec, Others(rec, r)
  PROVE  /\ LinkOf(<<rec>>, r, c, <<>>, c)
         /\ \A set : Others(set, r) => LinkOf(<<set, rec>>, r, c, <<>>, c)
<1>1. ASSUME NEW x, NEW y, Others(y, r) PROVE OfReader(y, r, x) = x
  <2>1. /\ ~(y.kind = "read" /\ y.reader = r) /\ ~(y.kind = "flush" /\ y.reader = r)
        /\ ~(y.kind = "inject" /\ r \in DOMAIN y.deliveries)
        /\ ~(y.kind = "clock" /\ y.reader = r) /\ ~(y.kind = "mask" /\ y.reader = r)
    BY <1>1 DEF Others
  <2> QED  BY <2>1, Zenon DEF OfReader
<1>2. \A x \in Reader : OfEntry(<<rec>>, r, x) = x
  BY <1>1, OneEntry
<1>3. ASSUME NEW set, Others(set, r) PROVE \A x \in Reader : OfEntry(<<set, rec>>, r, x) = x
  <2>1. ASSUME NEW x PROVE OfEntry(<<set, rec>>, r, x) = OfReader(set, r, OfReader(rec, r, x))
    BY DEF OfEntry
  <2> QED  BY <1>1, <1>3, <2>1
<1>4. LinkOf(<<rec>>, r, c, <<>>, c)
  BY <1>2, LinkUntouched
<1>5. ASSUME NEW set, Others(set, r) PROVE LinkOf(<<set, rec>>, r, c, <<>>, c)
  <2>1. PICK rs : rs = <<set, rec>>
    OBVIOUS
  <2>2. \A x \in Reader : OfEntry(rs, r, x) = x
    BY <1>3, <1>5, <2>1, Zenon
  <2>3. LinkOf(rs, r, c, <<>>, c)
    BY <2>2, LinkUntouched
  <2> QED  BY <2>1, <2>3, Zenon
<1> QED  BY <1>4, <1>5

LEMMA OneRecord ==
  ASSUME NEW rec, rec.kind \in {"read", "flush", "inject", "clock", "grab", "mask"},
         rec.kind \in {"read", "flush", "clock", "mask"} => rec.reader \in Readers
  PROVE  RecordsOK(<<rec>>) /\ <<rec>>[1] = rec
<1>1. Len(<<rec>>) = 1 /\ DOMAIN <<rec>> = 1 .. 1 /\ <<rec>>[1] = rec /\ \A i \in 1 .. 1 : i = 1
  OBVIOUS
<1> QED  BY <1>1 DEF RecordsOK

LEMMA SoundIs ==
  ASSUME NEW d, NEW f, Sound(d, f)
  PROVE  /\ d \in Device /\ f \in [Readers -> Reader] /\ Grabbed(d, f)
         /\ \A r \in Readers : f[r] \in Reader /\ Whole(f[r])
         /\ LocksReported => d.leds = d.flags
BY DEF Sound

\* A call that changes one reader, and logs it.
LEMMA LogOne ==
  ASSUME NEW d, NEW f, Sound(d, f), NEW l, LogOK(l, d, f), NEW r \in Readers,
         NEW rs, RecordsOK(rs), rs[1].kind \notin {"inject", "grab"},
         \A x \in Readers \ {r} : LinkOf(rs, x, f[x], <<>>, f[x]),
         NEW y, LinkOf(rs, r, f[r], <<>>, y), Whole(y),
         NEW wrote, NEW v, NEW e, e = Made(rs, wrote, d, f, v, Nothing, {}),
         NEW g, g = [f EXCEPT ![r] = y]
  PROVE  Sound(d, g) /\ LogOK(Append(l, e), d, g)
<1>1. /\ d \in Device /\ f \in [Readers -> Reader] /\ Grabbed(d, f)
      /\ \A x \in Readers : f[x] \in Reader /\ Whole(f[x])
      /\ LocksReported => d.leds = d.flags
  BY SoundIs
<1>2. y \in Reader /\ y.open = f[r].open /\ y.revoked = f[r].revoked
  BY DEF LinkOf
<1>3. g \in [Readers -> Reader] /\ g[r] = y /\ \A x \in Readers \ {r} : g[x] = f[x]
  BY <1>1, <1>2
<1>4. \A x \in Readers : Whole(g[x]) /\ g[x].open = f[x].open /\ g[x].revoked = f[x].revoked
  BY <1>1, <1>2, <1>3
<1>5. Sound(d, g)
  <2>1. Grabbed(d, g)
    BY <1>1, <1>4, Zenon DEF Grabbed
  <2> QED  BY <1>1, <1>3, <1>4, <2>1, Zenon DEF Sound
<1>6. \A x \in Readers : LinkOf(rs, x, f[x], <<>>, g[x])
  BY <1>3
<1>7. Did(rs[1], wrote, d, d)
  <2>1. rs[1].kind # "inject" /\ rs[1].kind # "grab"
    OBVIOUS
  <2> QED  BY <2>1, Zenon DEF Did
<1>8. LogOK(Append(l, e), d, g)
  BY <1>1, <1>6, <1>7, LogCalled
<1> QED  BY <1>5, <1>8

\* A call that leaves one record, of the one reader it changes.
Records(l, d, f, r, rec, y) ==
  /\ Sound(d, f) /\ LogOK(l, d, f) /\ r \in Readers
  /\ rec.kind \in {"read", "flush", "clock", "mask"} /\ rec.reader = r
  /\ LinkOf(<<rec>>, r, f[r], <<>>, y) /\ Whole(y)
Recorded(l, d, f, r, rec, y, wrote, v) ==
  /\ Sound(d, [f EXCEPT ![r] = y])
  /\ LogOK(Append(l, Made(<<rec>>, wrote, d, f, v, Nothing, {})), d, [f EXCEPT ![r] = y])
LEMMA LogRecord ==
  ASSUME NEW d, NEW f, NEW l, NEW r, NEW rec, NEW y, Records(l, d, f, r, rec, y),
         NEW wrote, NEW v
  PROVE  Recorded(l, d, f, r, rec, y, wrote, v)
<1> /\ Sound(d, f) /\ LogOK(l, d, f) /\ r \in Readers
    /\ rec.kind \in {"read", "flush", "clock", "mask"} /\ rec.reader = r
    /\ LinkOf(<<rec>>, r, f[r], <<>>, y) /\ Whole(y)
  BY Zenon DEF Records
<1>1. RecordsOK(<<rec>>) /\ <<rec>>[1] = rec
  BY OneRecord
<1>2. ASSUME NEW x \in Readers \ {r} PROVE LinkOf(<<rec>>, x, f[x], <<>>, f[x])
  <2>1. f[x] \in Reader /\ Whole(f[x])
    BY SoundIs
  <2>2. Others(rec, x)
    BY DEF Others
  <2> QED  BY <2>1, <2>2, LinkOther
<1>3. PICK rs, e, g : /\ rs = <<rec>> /\ e = Made(rs, wrote, d, f, v, Nothing, {})
                      /\ g = [f EXCEPT ![r] = y]
  OBVIOUS
<1>4. /\ RecordsOK(rs) /\ rs[1].kind \notin {"inject", "grab"}
      /\ \A x \in Readers \ {r} : LinkOf(rs, x, f[x], <<>>, f[x])
      /\ LinkOf(rs, r, f[r], <<>>, y)
  <2>1. rs[1].kind \notin {"inject", "grab"}
    BY <1>1, <1>3
  <2> QED  BY <1>1, <1>2, <1>3, <2>1, Zenon
<1>5. Sound(d, g) /\ LogOK(Append(l, e), d, g)
  BY <1>3, <1>4, LogOne
<1> QED  BY <1>3, <1>5, Zenon DEF Recorded

LEMMA EntryIs ==
  ASSUME NEW s, NEW v, NEW records, NEW wrote
  PROVE  Entry(s, v, records, wrote) = Made(records, wrote, s.dev, s.readers, v, Nothing, {})
BY Zenon DEF Entry, Made, Nothing

LEMMA ReadsSound ==
  ASSUME NEW s, Sound(s.dev, s.readers), NEW r \in Readers, NEW n \in Nat, NEW v, NEW entries,
         LogOK(entries, s.dev, s.readers), ReadsNow(s, r, n, v, entries)
  PROVE  Sound(dev', readers') /\ LogOK(log', dev', readers') /\ doing' = Running
<1>1. PICK c \in Reader : c = s.readers[r] /\ Whole(c)
  BY SoundIs
<1>2. PICK p \in Nat : p = c.readable /\ p <= Len(c.queue) /\ c.queue \in Seq(Event) /\ Len(c.queue) \in Nat
  BY ReaderIs
<1>3. PICK k \in 0 .. Len(c.queue) : k = Min({n, c.readable}) /\ k <= p
  <2>1. CASE n <= p
    <3>1. Min({n, p}) = n
      <4>1. {n, p} \subseteq Int /\ n \in {n, p} /\ \A x \in {n, p} : n <= x
        BY <2>1
      <4> QED  BY <4>1, MinIs
    <3>2. n \in 0 .. Len(c.queue)
      BY <1>2, <2>1
    <3> QED  BY <1>2, <2>1, <3>1, <3>2
  <2>2. CASE ~(n <= p)
    <3>1. Min({n, p}) = p
      <4>1. {n, p} \subseteq Int /\ p \in {n, p} /\ \A x \in {n, p} : p <= x
        BY <2>2
      <4> QED  BY <4>1, MinIs
    <3>2. p \in 0 .. Len(c.queue) /\ p <= p
      BY <1>2
    <3> QED  BY <1>2, <3>1, <3>2
  <2> QED  BY <2>1, <2>2
<1>4. PICK taken \in Seq(Event), tail \in Seq(Event) :
        /\ c.queue = taken \o tail /\ Len(taken) = k
        /\ SubSeq(c.queue, 1, k) = taken /\ SubSeq(c.queue, k + 1, Len(c.queue)) = tail
  <2>1. \A q \in Seq(Event) : \A i \in 0 .. Len(q) :
          \E a \in Seq(Event), b \in Seq(Event) :
            /\ q = a \o b /\ Len(a) = i
            /\ SubSeq(q, 1, i) = a /\ SubSeq(q, i + 1, Len(q)) = b
    BY SplitAt
  <2>2. c.queue \in Seq(Event)
    BY <1>2
  <2> QED  BY <2>1, <2>2, Zenon
<1>5. PICK rec : rec = [kind |-> "read", reader |-> r, taken |-> taken]
  OBVIOUS
<1>6. rec.kind = "read" /\ rec.reader = r /\ rec.taken = taken
  BY <1>5
<1>7. PICK m : m = c.readable - Len(taken)
  OBVIOUS
<1>8. PICK y : y = Refill(c, tail, m, c.epoch)
  OBVIOUS
<1>9. LinkOf(<<rec>>, r, c, <<>>, y) /\ Whole(y)
  <2>1. Len(taken) <= c.readable
    BY <1>2, <1>3, <1>4
  <2>2. LET d == Refill(c, tail, c.readable - Len(taken), c.epoch)
        IN LinkOf(<<rec>>, r, c, <<>>, d) /\ Whole(d)
    <3>1. Whole(c) /\ c.queue = taken \o tail
      BY <1>1, <1>4, Zenon
    <3> QED  BY <1>6, <2>1, <3>1, LinkRead
  <2> QED  BY <1>7, <1>8, <2>2, Zenon
<1>10. PICK f \in [Readers -> Reader] : f = s.readers
  BY SoundIs
<1>11. /\ dev' = s.dev /\ doing' = Running
       /\ readers' = [f EXCEPT ![r].queue = SubSeq(@, Len(taken) + 1, Len(@)),
                               ![r].readable = @ - Len(taken)]
       /\ log' = Append(entries, Entry(s, v, <<rec>>, {}))
  <2>1. SubSeq(s.readers[r].queue, 1, Min({n, s.readers[r].readable})) = taken
    BY <1>1, <1>3, <1>4, Zenon
  <2> QED  BY <1>5, <1>10, <2>1, Zenon DEF ReadsNow
<1>12. readers' = [f EXCEPT ![r] = y]
  <2>1. f[r] = c
    BY <1>1, <1>10
  <2>2. [f EXCEPT ![r].queue = SubSeq(@, Len(taken) + 1, Len(@))][r].readable = c.readable
    BY <2>1 DEF Reader
  <2>3. SubSeq(f[r].queue, Len(taken) + 1, Len(f[r].queue)) = tail
    BY <1>4, <2>1, Zenon
  <2>4. readers' = [f EXCEPT ![r].queue = tail, ![r].readable = m]
    BY <1>7, <1>11, <2>2, <2>3
  <2>5. [f EXCEPT ![r].queue = tail, ![r].readable = m] = [f EXCEPT ![r] = [c EXCEPT !.queue = tail, !.readable = m]]
    BY <2>1 DEF Reader
  <2>6. [c EXCEPT !.queue = tail, !.readable = m] = Refill(c, tail, m, c.epoch)
    BY RefillIs, Zenon
  <2> QED  BY <1>8, <2>4, <2>5, <2>6, Zenon
<1>13. Entry(s, v, <<rec>>, {}) = Made(<<rec>>, {}, s.dev, f, v, Nothing, {})
  <2>1. Entry(s, v, <<rec>>, {}) = Made(<<rec>>, {}, s.dev, s.readers, v, Nothing, {})
    BY EntryIs
  <2> QED  BY <1>10, <2>1, Zenon
<1>14. PICK d : d = s.dev
  OBVIOUS
<1>15. Records(entries, d, f, r, rec, y)
  <2>1. rec.kind \in {"read", "flush", "clock", "mask"} /\ rec.reader = r
    BY <1>6
  <2> QED  BY <1>1, <1>9, <1>10, <1>14, <2>1, Zenon DEF Records
<1>16. Recorded(entries, d, f, r, rec, y, {}, v)
  BY <1>15, LogRecord
<1> QED  BY <1>11, <1>12, <1>13, <1>14, <1>16, Zenon DEF Recorded

-----------------------------------------------------------------------------
(* The invariant, kept by each action. *)

WaitsOK(w, f) ==
  /\ w.on \in SUBSET Readers /\ w.state \in {"run", "read", "poll"}
  /\ w.state = "run" => w.on = {}
  /\ w.state = "read" => w.n \in Sizes
  /\ \A r \in w.on : f[r].open /\ ~f[r].revoked /\ f[r].readable = 0
IInv ==
  /\ Sound(dev, readers) /\ LogOK(log, dev, readers) /\ WaitsOK(doing, readers)
  /\ reports \in 0 .. MaxReports /\ calls \in 0 .. MaxCalls

LEMMA RunningIs ==
  ASSUME NEW f
  PROVE  WaitsOK(Running, f)
BY DEF WaitsOK, Running

LEMMA NowIs ==
  ASSUME Sound(dev, readers)
  PROVE  Now \in State /\ Now.dev = dev /\ Now.readers = readers /\ Now.woke = FALSE
BY SoundIs DEF Now, State

LEMMA GrownUses ==
  ASSUME NEW c \in Reader, NEW d, Grown(c, d)
  PROVE  d \in Reader /\ d.open = c.open /\ d.revoked = c.revoked
<1>1. CASE Lost(c, d)
  BY <1>1 DEF Grown, Lost
<1>2. CASE \E X \in Ends : d = Fed(c, X)
  <2>1. PICK X \in Ends : d = Fed(c, X)
    BY <1>2
  <2>2. X \in Seq(Event)
    BY DEF Ends
  <2>3. Fed(c, X) \in Reader /\ Fed(c, X).open = c.open /\ Fed(c, X).revoked = c.revoked
    BY <2>2, FedIs
  <2> QED  BY <2>1, <2>3, Zenon
<1> QED  BY <1>1, <1>2 DEF Grown

\* What events did leaves all sound.
LEMMA GoesSound ==
  ASSUME Sound(dev, readers), NEW s, Goes(Now, s), LocksReported => s.dev.leds = s.dev.flags
  PROVE  /\ Sound(s.dev, s.readers) /\ s.dev \in Device /\ s.readers \in [Readers -> Reader]
         /\ \A r \in Readers : /\ Grown(readers[r], s.readers[r]) /\ s.readers[r] \in Reader
                               /\ s.readers[r].open = readers[r].open
                               /\ s.readers[r].revoked = readers[r].revoked
<1>1. /\ dev \in Device /\ readers \in [Readers -> Reader] /\ Grabbed(dev, readers)
      /\ \A r \in Readers : readers[r] \in Reader /\ Whole(readers[r])
  BY SoundIs
<1>2. s \in State /\ s.dev.grab = dev.grab /\ \A r \in Readers : Grown(readers[r], s.readers[r])
  BY NowIs, Zenon DEF Goes
<1>3. s.dev \in Device /\ s.readers \in [Readers -> Reader]
  BY <1>2, StateIs
<1>4. ASSUME NEW r \in Readers
      PROVE  /\ s.readers[r] \in Reader /\ Whole(s.readers[r])
             /\ s.readers[r].open = readers[r].open /\ s.readers[r].revoked = readers[r].revoked
  <2>1. PICK c, d : c \in Reader /\ c = readers[r] /\ d = s.readers[r] /\ Whole(c) /\ Grown(c, d)
    BY <1>1, <1>2
  <2>2. d \in Reader /\ Whole(d) /\ d.open = c.open /\ d.revoked = c.revoked
    BY <2>1, WholeGrown, GrownUses
  <2> QED  BY <2>1, <2>2, Zenon
<1>5. Grabbed(s.dev, s.readers)
  BY <1>1, <1>2, <1>4, Zenon DEF Grabbed
<1> QED  BY <1>2, <1>3, <1>4, <1>5, Zenon DEF Sound

LEMMA ReportKeeps ==
  ASSUME IInv, NEW k \in Keys, NEW down \in BOOLEAN, NEW soon \in BOOLEAN,
         InputReport(k, down, soon)
  PROVE  IInv'
<1>1. /\ Sound(dev, readers) /\ LogOK(log, dev, readers) /\ WaitsOK(doing, readers)
      /\ reports \in 0 .. MaxReports /\ calls \in 0 .. MaxCalls
  BY Zenon DEF IInv
<1>2. /\ dev \in Device /\ readers \in [Readers -> Reader]
      /\ \A r \in Readers : readers[r] \in Reader
      /\ LocksReported => dev.leds = dev.flags
  BY <1>1, SoundIs
<1>3. PICK s : s = HostKeyboardReport(Now, k, down, soon)
  OBVIOUS
<1>4. PICK v : v = [r \in Readers |-> Missing(view[r], s.missed[r])]
  OBVIOUS
<1>5. PICK entries : entries = [i \in DOMAIN log |-> SinceReport(log[i], k, s)]
  OBVIOUS
<1>6. PICK ready : ready = {r \in doing.on : s.readers[r].readable > 0}
  OBVIOUS
<1>7. /\ reports < MaxReports /\ reports' = reports + 1 /\ calls' = calls
      /\ \/ /\ s.woke /\ doing.state = "read" /\ ready # {}
            /\ \E r \in ready : ReadsNow(s, r, doing.n, v, entries)
         \/ /\ ~(s.woke /\ doing.state = "read" /\ ready # {})
            /\ dev' = s.dev /\ readers' = s.readers /\ log' = entries
            /\ doing' = IF s.woke /\ ready # {} THEN Running ELSE doing
  BY <1>3, <1>4, <1>5, <1>6, Zenon DEF InputReport
<1>8. Goes(Now, s) /\ (dev.leds = dev.flags => s.dev.leds = s.dev.flags)
  <2>1. LET t == HostKeyboardReport(Now, k, down, soon)
        IN Goes(Now, t) /\ (Now.dev.flags = Now.dev.leds => t.dev.flags = t.dev.leds)
    BY <1>1, NowIs, ReportDoes
  <2> QED  BY <1>1, <1>3, <2>1, NowIs, Zenon
<1>9. /\ Sound(s.dev, s.readers) /\ s.readers \in [Readers -> Reader]
      /\ \A r \in Readers : /\ s.readers[r] \in Reader /\ s.readers[r].open = readers[r].open
                            /\ s.readers[r].revoked = readers[r].revoked
  BY <1>1, <1>2, <1>8, GoesSound
<1>10. LogOK(entries, s.dev, s.readers)
  <2>1. LogOK([i \in DOMAIN log |-> SinceReport(log[i], k, s)], s.dev, s.readers)
    BY <1>1, <1>2, <1>8, LogReported
  <2> QED  BY <1>5, <2>1, Zenon
<1>11. /\ doing.on \in SUBSET Readers /\ doing.state \in {"run", "read", "poll"}
       /\ doing.state = "run" => doing.on = {}
       /\ doing.state = "read" => doing.n \in Sizes
       /\ \A r \in doing.on : readers[r].open /\ ~readers[r].revoked /\ readers[r].readable = 0
  BY <1>1, Zenon DEF WaitsOK
<1>12. reports' \in 0 .. MaxReports /\ calls' \in 0 .. MaxCalls
  <2>1. MaxReports \in Nat
    BY EvdevAssumption
  <2> QED  BY <1>1, <1>7, <2>1
<1>13. CASE \E r \in ready : ReadsNow(s, r, doing.n, v, entries) /\ doing.state = "read"
  <2>1. PICK r \in ready : ReadsNow(s, r, doing.n, v, entries) /\ doing.state = "read"
    BY <1>13
  <2>2. r \in Readers
    BY <1>6, <1>11
  <2>3. PICK n \in Nat : n = doing.n
    BY <1>11, <2>1, EvdevAssumption
  <2>4. ReadsNow(s, r, n, v, entries)
    BY <2>1, <2>3, Zenon
  <2>5. Sound(dev', readers') /\ LogOK(log', dev', readers') /\ doing' = Running
    BY <1>9, <1>10, <2>2, <2>4, ReadsSound
  <2>6. WaitsOK(doing', readers')
    BY <2>5, RunningIs, Zenon
  <2> QED  BY <1>12, <2>5, <2>6, Zenon DEF IInv
<1>14. CASE /\ dev' = s.dev /\ readers' = s.readers /\ log' = entries
            /\ doing' = IF s.woke /\ ready # {} THEN Running ELSE doing
  <2>1. Sound(dev', readers') /\ LogOK(log', dev', readers')
    BY <1>9, <1>10, <1>14, Zenon
  <2>2. WaitsOK(doing', readers')
    <3>1. CASE s.woke /\ ready # {}
      BY <1>14, <3>1, RunningIs, Zenon
    <3>2. CASE ~s.woke
      <4>1. s.readers = readers
        BY <1>1, <1>8, <3>2, NowIs, Zenon DEF Goes
      <4> QED  BY <1>1, <1>14, <3>2, <4>1, Zenon
    <3>3. CASE s.woke /\ ready = {}
      <4>1. ASSUME NEW r \in doing.on PROVE s.readers[r].readable = 0
        <5>1. r \in Readers /\ ~(s.readers[r].readable > 0)
          BY <1>6, <1>11, <3>3
        <5>2. s.readers[r].readable \in Nat
          BY <1>9, <5>1, ReaderIs
        <5> QED  BY <5>1, <5>2
      <4>2. doing' = doing
        BY <1>14, <3>3
      <4>3. WaitsOK(doing, s.readers)
        <5>1. \A r \in doing.on : s.readers[r].open = readers[r].open /\ s.readers[r].revoked = readers[r].revoked
          BY <1>9, <1>11
        <5> QED  BY <1>11, <4>1, <5>1, Zenon DEF WaitsOK
      <4> QED  BY <1>14, <4>2, <4>3, Zenon
    <3> QED  BY <3>1, <3>2, <3>3
  <2> QED  BY <1>12, <2>1, <2>2, Zenon DEF IInv
<1> QED  BY <1>7, <1>13, <1>14, Zenon

LEMMA CallIs ==
  ASSUME IInv, Calls
  PROVE  calls' \in 0 .. MaxCalls /\ \A f : WaitsOK(doing, f)
<1>1. calls \in 0 .. MaxCalls /\ WaitsOK(doing, readers)
  BY Zenon DEF IInv
<1>2. doing.state = "run" /\ calls < MaxCalls /\ calls' = calls + 1
  BY DEF Calls
<1>3. calls' \in 0 .. MaxCalls
  <2>1. MaxCalls \in Nat
    BY EvdevAssumption
  <2> QED  BY <1>1, <1>2, <2>1
<1>4. \A f : WaitsOK(doing, f)
  BY <1>1, <1>2 DEF WaitsOK
<1> QED  BY <1>3, <1>4

\* A call leaves the bounds and waits for nothing.
LEMMA CallKeeps ==
  ASSUME IInv, Calls, doing' = doing, reports' = reports, Sound(dev', readers'),
         LogOK(log', dev', readers')
  PROVE  IInv'
<1>1. calls' \in 0 .. MaxCalls /\ WaitsOK(doing', readers')
  BY CallIs
<1>2. reports' \in 0 .. MaxReports
  BY DEF IInv
<1> QED  BY <1>1, <1>2, Zenon DEF IInv

LEMMA NoteOne ==
  ASSUME NEW rec, NEW wrote, NoteUndo(<<rec>>, wrote)
  PROVE  log' = Append(log, Made(<<rec>>, wrote, dev, readers, view, Nothing, {}))
<1>1. <<rec>> # <<>>
  OBVIOUS
<1>2. log' = Append(log, Entry(Now, view, <<rec>>, wrote))
  BY <1>1, Zenon DEF NoteUndo
<1>3. Entry(Now, view, <<rec>>, wrote) = Made(<<rec>>, wrote, Now.dev, Now.readers, view, Nothing, {})
  BY EntryIs
<1>4. Now.dev = dev /\ Now.readers = readers
  BY DEF Now
<1> QED  BY <1>2, <1>3, <1>4, Zenon

Noted(r, rec, y) ==
  /\ dev' = dev /\ readers' = [readers EXCEPT ![r] = y] /\ NoteUndo(<<rec>>, {})
LEMMA RecordKept ==
  ASSUME NEW r, NEW rec, NEW y, Records(log, dev, readers, r, rec, y), Noted(r, rec, y)
  PROVE  Sound(dev', readers') /\ LogOK(log', dev', readers')
<1>1. dev' = dev /\ readers' = [readers EXCEPT ![r] = y] /\ NoteUndo(<<rec>>, {})
  BY Zenon DEF Noted
<1>2. Recorded(log, dev, readers, r, rec, y, {}, view)
  BY LogRecord
<1>3. log' = Append(log, Made(<<rec>>, {}, dev, readers, view, Nothing, {}))
  BY <1>1, NoteOne
<1> QED  BY <1>1, <1>2, <1>3, Zenon DEF Recorded

LEMMA ReadKeeps ==
  ASSUME IInv, NEW r \in Readers, NEW n \in Sizes, Read(r, n)
  PROVE  IInv'
<1>1. Calls /\ Uses(r) /\ reports' = reports
  BY DEF Read
<1>2. Sound(dev, readers) /\ LogOK(log, dev, readers) /\ reports \in 0 .. MaxReports
  BY Zenon DEF IInv
<1>3. calls' \in 0 .. MaxCalls /\ reports' \in 0 .. MaxReports
  BY <1>1, <1>2, CallIs
<1>4. CASE readers[r].readable > 0
  <2>1. ReadsNow(Now, r, n, view, log)
    BY <1>4 DEF Read
  <2>2. PICK s : s = Now
    OBVIOUS
  <2>3. n \in Nat
    BY EvdevAssumption
  <2>4. Sound(s.dev, s.readers) /\ LogOK(log, s.dev, s.readers) /\ ReadsNow(s, r, n, view, log)
    BY <1>2, <2>1, <2>2, NowIs, Zenon
  <2>5. Sound(dev', readers') /\ LogOK(log', dev', readers') /\ doing' = Running
    BY <2>3, <2>4, ReadsSound
  <2>6. WaitsOK(doing', readers')
    BY <2>5, RunningIs, Zenon
  <2> QED  BY <1>3, <2>5, <2>6, Zenon DEF IInv
<1>5. CASE ~(readers[r].readable > 0)
  <2>1. /\ doing' = [state |-> "read", on |-> {r}, n |-> n]
        /\ dev' = dev /\ readers' = readers /\ log' = log
    BY <1>5 DEF Read
  <2>2. readers[r].readable = 0
    <3>1. readers[r] \in Reader
      BY <1>2, SoundIs
    <3>2. readers[r].readable \in Nat
      BY <3>1, ReaderIs
    <3> QED  BY <1>5, <3>2
  <2>3. WaitsOK(doing', readers')
    BY <1>1, <2>1, <2>2 DEF WaitsOK, Uses
  <2> QED  BY <1>2, <1>3, <2>1, <2>3, Zenon DEF IInv
<1> QED  BY <1>4, <1>5

LEMMA PollKeeps ==
  ASSUME IInv, NEW rs \in SUBSET Readers, Poll(rs)
  PROVE  IInv'
<1>1. /\ Calls /\ \A r \in rs : Uses(r) /\ readers[r].readable = 0
      /\ doing' = [state |-> "poll", on |-> rs, n |-> 0]
      /\ dev' = dev /\ readers' = readers /\ log' = log /\ reports' = reports
  BY DEF Poll
<1>2. calls' \in 0 .. MaxCalls
  BY <1>1, CallIs
<1>3. WaitsOK(doing', readers')
  BY <1>1 DEF WaitsOK, Uses
<1> QED  BY <1>1, <1>2, <1>3 DEF IInv

LEMMA InterruptKeeps ==
  ASSUME IInv, Interrupt
  PROVE  IInv'
<1>1. /\ doing' = Running /\ dev' = dev /\ readers' = readers /\ log' = log
      /\ reports' = reports /\ calls' = calls
  BY DEF Interrupt
<1>2. WaitsOK(doing', readers')
  BY <1>1, RunningIs, Zenon
<1> QED  BY <1>1, <1>2 DEF IInv

LEMMA MaskKeeps ==
  ASSUME IInv, NEW r \in Readers, NEW type \in MaskTypes, NEW filtered \in BOOLEAN,
         SetMask(r, type, filtered)
  PROVE  IInv'
<1>1. Sound(dev, readers) /\ LogOK(log, dev, readers)
  BY Zenon DEF IInv
<1>2. PICK c \in Reader : c = readers[r] /\ Whole(c)
  BY <1>1, SoundIs
<1>3. PICK types \in SUBSET MaskTypes :
        types = IF filtered THEN c.masked \cup {type} ELSE c.masked \ {type}
  <2>1. c.masked \in SUBSET MaskTypes
    BY ReaderIs
  <2>2. (IF filtered THEN c.masked \cup {type} ELSE c.masked \ {type}) \in SUBSET MaskTypes
    BY <2>1
  <2> QED  BY <2>2
<1>4. PICK rec : rec = [kind |-> "mask", reader |-> r, before |-> c.masked]
  OBVIOUS
<1>5. rec.kind = "mask" /\ rec.reader = r /\ rec.before = c.masked
  BY <1>4
<1>6. PICK y : y = Masking(c, types)
  OBVIOUS
<1>7. LinkOf(<<rec>>, r, c, <<>>, y) /\ Whole(y)
  <2>1. LinkOf(<<rec>>, r, c, <<>>, Masking(c, types)) /\ Whole(Masking(c, types))
    BY <1>2, <1>5, LinkMask
  <2> QED  BY <1>6, <2>1, Zenon
<1>8. /\ Calls /\ doing' = doing /\ reports' = reports /\ dev' = dev
      /\ NoteUndo(<<rec>>, {})
      /\ readers' = [readers EXCEPT ![r].masked = IF filtered THEN @ \cup {type} ELSE @ \ {type}]
  BY <1>2, <1>4, Zenon DEF SetMask
<1>9. readers' = [readers EXCEPT ![r] = y]
  <2>1. readers' = [readers EXCEPT ![r].masked = types]
    BY <1>2, <1>3, <1>8
  <2>2. readers' = [readers EXCEPT ![r] = [c EXCEPT !.masked = types]]
    BY <1>2, <2>1
  <2> QED  BY <1>6, <2>2, Zenon DEF Masking
<1>10. Sound(dev', readers') /\ LogOK(log', dev', readers')
  <2>1. rec.kind \in {"read", "flush", "clock", "mask"} /\ LinkOf(<<rec>>, r, readers[r], <<>>, y)
    BY <1>2, <1>5, <1>7
  <2>2. Records(log, dev, readers, r, rec, y)
    BY <1>1, <1>5, <1>7, <2>1, Zenon DEF Records
  <2>3. Noted(r, rec, y)
    BY <1>8, <1>9, Zenon DEF Noted
  <2> QED  BY <2>2, <2>3, RecordKept
<1> QED  BY <1>8, <1>10, CallKeeps

LEMMA GrabKeeps ==
  ASSUME IInv, NEW r \in Readers, Grab(r)
  PROVE  IInv'
<1>1. Sound(dev, readers) /\ LogOK(log, dev, readers)
  BY Zenon DEF IInv
<1>2. /\ dev \in Device /\ readers \in [Readers -> Reader] /\ Grabbed(dev, readers)
      /\ \A x \in Readers : readers[x] \in Reader /\ Whole(readers[x])
      /\ LocksReported => dev.leds = dev.flags
  BY <1>1, SoundIs
<1>3. PICK after : after = IF dev.grab = None THEN r ELSE None
  OBVIOUS
<1>4. PICK rec : rec = [kind |-> "grab", before |-> dev.grab, after |-> after]
  OBVIOUS
<1>5. rec.kind = "grab" /\ rec.before = dev.grab /\ rec.after = after
  BY <1>4
<1>6. /\ Calls /\ Uses(r) /\ doing' = doing /\ reports' = reports /\ readers' = readers
      /\ dev' = [dev EXCEPT !.grab = after] /\ NoteUndo(<<rec>>, {})
  BY <1>3, <1>4, Zenon DEF Grab
<1>7. after \in {None} \cup Readers
  BY <1>3
<1>8. dev' \in Device /\ dev'.grab = after /\ dev'.leds = dev.leds /\ dev'.flags = dev.flags
  BY <1>2, <1>6, <1>7 DEF Device
<1>9. Grabbed(dev', readers')
  BY <1>3, <1>6, <1>7, <1>8 DEF Grabbed, Uses
<1>10. Sound(dev', readers')
  BY <1>2, <1>6, <1>8, <1>9, Zenon DEF Sound
<1>11. RecordsOK(<<rec>>) /\ <<rec>>[1] = rec
  BY <1>5, OneRecord
<1>12. Did(rec, {}, dev, dev')
  BY <1>5, <1>6, <1>7 DEF Did
<1>13. ASSUME NEW x \in Readers PROVE LinkOf(<<rec>>, x, readers[x], <<>>, readers'[x])
  <2>1. Others(rec, x)
    BY <1>5 DEF Others
  <2>2. LinkOf(<<rec>>, x, readers[x], <<>>, readers[x])
    BY <1>2, <2>1, LinkOther
  <2> QED  BY <1>6, <2>2, Zenon
<1>14. PICK rs, e, d2, f2 : /\ rs = <<rec>> /\ d2 = dev' /\ f2 = readers'
                           /\ e = Made(rs, {}, dev, readers, view, Nothing, {})
  OBVIOUS
<1>15. /\ RecordsOK(rs) /\ d2 \in Device /\ Did(rs[1], {}, dev, d2)
       /\ \A x \in Readers : LinkOf(rs, x, readers[x], <<>>, f2[x])
  BY <1>8, <1>11, <1>12, <1>13, <1>14, Zenon
<1>16. LogOK(Append(log, e), d2, f2)
  BY <1>1, <1>14, <1>15, LogCalled
<1>17. log' = Append(log, Made(<<rec>>, {}, dev, readers, view, Nothing, {}))
  BY <1>6, NoteOne
<1>18. LogOK(log', dev', readers')
  BY <1>14, <1>16, <1>17, Zenon
<1> QED  BY <1>6, <1>10, <1>18, CallKeeps

\* What no undo crosses leaves no entry.
LEMMA BarrierKeeps ==
  ASSUME IInv, Calls, doing' = doing, reports' = reports, log' = <<>>, Sound(dev', readers')
  PROVE  IInv'
<1>1. LogOK(log', dev', readers')
  BY LogEmpty, Zenon
<1> QED  BY <1>1, CallKeeps

LEMMA ReaderChanged ==
  ASSUME Sound(dev, readers), NEW r \in Readers, NEW y \in Reader, Whole(y),
         readers' = [readers EXCEPT ![r] = y], dev' = dev, dev.grab # r
  PROVE  Sound(dev', readers')
<1>1. /\ dev \in Device /\ readers \in [Readers -> Reader] /\ Grabbed(dev, readers)
      /\ \A x \in Readers : readers[x] \in Reader /\ Whole(readers[x])
      /\ LocksReported => dev.leds = dev.flags
  BY SoundIs
<1>2. /\ readers' \in [Readers -> Reader] /\ readers'[r] = y
      /\ \A x \in Readers \ {r} : readers'[x] = readers[x]
  BY <1>1
<1>3. \A x \in Readers : Whole(readers'[x])
  BY <1>1, <1>2
<1>4. Grabbed(dev', readers')
  BY <1>1, <1>2 DEF Grabbed
<1> QED  BY <1>1, <1>2, <1>3, <1>4, Zenon DEF Sound

LEMMA ReaderLetGo ==
  ASSUME Sound(dev, readers), NEW r \in Readers, NEW y \in Reader, Whole(y),
         readers' = [readers EXCEPT ![r] = y], LetGo(r)
  PROVE  Sound(dev', readers')
<1>1. /\ dev \in Device /\ readers \in [Readers -> Reader] /\ Grabbed(dev, readers)
      /\ \A x \in Readers : readers[x] \in Reader /\ Whole(readers[x])
      /\ LocksReported => dev.leds = dev.flags
  BY SoundIs
<1>2. /\ readers' \in [Readers -> Reader] /\ readers'[r] = y
      /\ \A x \in Readers \ {r} : readers'[x] = readers[x]
  BY <1>1
<1>3. \A x \in Readers : Whole(readers'[x])
  BY <1>1, <1>2
<1>4. PICK grab : grab = IF dev.grab = r THEN None ELSE dev.grab
  OBVIOUS
<1>5. grab \in {None} \cup Readers /\ grab # r /\ (grab # None => grab = dev.grab)
  <2>1. None # r
    BY EvdevAssumption
  <2>2. dev.grab \in {None} \cup Readers
    BY <1>1, DeviceIs
  <2> QED  BY <1>4, <2>1, <2>2
<1>6. /\ dev' \in Device /\ dev'.grab = grab /\ dev'.leds = dev.leds /\ dev'.flags = dev.flags
  <2>1. dev' = [dev EXCEPT !.grab = grab]
    BY <1>1, <1>4 DEF LetGo, Device
  <2> QED  BY <1>1, <1>5, <2>1 DEF Device
<1>7. Grabbed(dev', readers')
  BY <1>1, <1>2, <1>5, <1>6 DEF Grabbed
<1>8. LocksReported => dev'.leds = dev'.flags
  BY <1>1, <1>6
<1> QED  BY <1>2, <1>3, <1>6, <1>7, <1>8, Zenon DEF Sound

LEMMA NewIs ==
  ASSUME NEW c, c = NewReader \/ c = [NewReader EXCEPT !.open = FALSE]
  PROVE  c \in Reader /\ Whole(c)
<1>1. c \in Reader /\ c.queue = <<>> /\ c.readable = 0
  <2> DEFINE of(o, q, n, w, m, v) == [open |-> o, queue |-> q, readable |-> n, epoch |-> n,
                                      clock |-> w, masked |-> m, revoked |-> v]
             Clients == [open : BOOLEAN, queue : Seq(Event), readable : Nat, epoch : Nat,
                     clock : {"real", "monotonic"}, masked : SUBSET MaskTypes, revoked : BOOLEAN]
  <2>1. \/ c = [open |-> TRUE, queue |-> <<>>, readable |-> 0, epoch |-> 0, clock |-> "real",
                masked |-> {}, revoked |-> FALSE]
        \/ c = [open |-> FALSE, queue |-> <<>>, readable |-> 0, epoch |-> 0, clock |-> "real",
                masked |-> {}, revoked |-> FALSE]
    BY DEF NewReader
  <2>2. c.queue = <<>> /\ c.readable = 0 /\ c.epoch = 0 /\ c.clock = "real" /\ c.masked = {}
    BY <2>1
  <2>3. c.open \in BOOLEAN
    <3>1. c.open = TRUE \/ c.open = FALSE
      BY <2>1
    <3> QED  BY <3>1, Zenon
  <2>4. c.revoked \in BOOLEAN
    <3>1. c.revoked = TRUE \/ c.revoked = FALSE
      BY <2>1
    <3> QED  BY <3>1, Zenon
  <2>5. /\ <<>> \in Seq(Event) /\ {} \in SUBSET MaskTypes /\ 0 \in Nat
        /\ "real" \in {"real", "monotonic"}
    OBVIOUS
  <2>6. ASSUME NEW o \in BOOLEAN, NEW q \in Seq(Event), NEW n \in Nat,
               NEW w \in {"real", "monotonic"}, NEW m \in SUBSET MaskTypes, NEW v \in BOOLEAN
        PROVE  of(o, q, n, w, m, v) \in Clients
    OBVIOUS
  <2>7. c = of(c.open, c.queue, c.readable, c.clock, c.masked, c.revoked)
    BY <2>1
  <2>8. Clients = [open : BOOLEAN, queue : Seq(Event), readable : Nat, epoch : Nat,
               clock : {"real", "monotonic"}, masked : SUBSET MaskTypes, revoked : BOOLEAN]
    OBVIOUS
  <2> HIDE DEF of, Clients
  <2>9. PICK o \in BOOLEAN, v \in BOOLEAN : c = of(o, <<>>, 0, "real", {}, v)
    BY <2>2, <2>3, <2>4, <2>7, Zenon
  <2>10. c \in Clients
    BY <2>5, <2>6, <2>9, Zenon
  <2>11. c.readable <= Len(c.queue)
    BY <2>2
  <2> QED  BY <2>2, <2>8, <2>10, <2>11, Zenon DEF Reader
<1>2. Len(c.queue) = 0
  BY <1>1
<1>3. \A x : IsLast(c.queue, x, 0)
  BY <1>2 DEF IsLast
<1>4. Whole(c) <=> c.readable < 1
  <2>1. PICK p \in Nat : p = 0
    OBVIOUS
  <2>2. IsLast(c.queue, Report, p) /\ IsLast(c.queue, Dropped, p)
    BY <1>3, <2>1, Zenon
  <2>3. Whole(c) <=> IF p > p THEN c.readable = p ELSE c.readable < (IF p = 0 THEN 1 ELSE p)
    BY <1>1, <2>2, WholeIs
  <2> QED  BY <2>1, <2>3
<1> QED  BY <1>1, <1>4

LEMMA RevokeKeeps ==
  ASSUME IInv, NEW r \in Readers, Revoke(r)
  PROVE  IInv'
<1>1. Sound(dev, readers)
  BY Zenon DEF IInv
<1>2. PICK c \in Reader : c = readers[r] /\ Whole(c)
  BY <1>1, SoundIs
<1>3. PICK y : y = [c EXCEPT !.revoked = TRUE]
  OBVIOUS
<1>4. y \in Reader /\ y.queue = c.queue /\ y.readable = c.readable
  BY <1>3 DEF Reader
<1>5. Whole(y)
  BY <1>2, <1>4, WholeSame
<1>6. /\ Calls /\ LetGo(r) /\ log' = <<>> /\ doing' = doing /\ reports' = reports
      /\ readers' = [readers EXCEPT ![r].revoked = TRUE]
  BY DEF Revoke, Barrier
<1>7. readers' = [readers EXCEPT ![r] = y]
  BY <1>2, <1>3, <1>6
<1>8. Sound(dev', readers')
  BY <1>1, <1>4, <1>5, <1>6, <1>7, ReaderLetGo
<1> QED  BY <1>6, <1>8, BarrierKeeps

LEMMA OpenKeeps ==
  ASSUME IInv, NEW r \in Readers, OpenEvdev(r)
  PROVE  IInv'
<1>1. Sound(dev, readers)
  BY Zenon DEF IInv
<1>2. /\ Calls /\ ~readers[r].open /\ log' = <<>> /\ doing' = doing /\ reports' = reports
      /\ readers' = [readers EXCEPT ![r] = NewReader] /\ dev' = dev
  BY DEF OpenEvdev, Barrier
<1>3. PICK y : y = NewReader
  OBVIOUS
<1>4. readers' = [readers EXCEPT ![r] = y]
  BY <1>2, <1>3, Zenon
<1>5. y \in Reader /\ Whole(y)
  BY <1>3, NewIs
<1>6. dev.grab # r
  <2>1. Grabbed(dev, readers) /\ r # None
    BY <1>1, SoundIs, EvdevAssumption
  <2> QED  BY <1>2, <2>1 DEF Grabbed
<1>7. Sound(dev', readers')
  BY <1>1, <1>2, <1>4, <1>5, <1>6, ReaderChanged
<1> QED  BY <1>2, <1>7, BarrierKeeps

LEMMA ReleaseKeeps ==
  ASSUME IInv, NEW r \in Readers, ReleaseEvdev(r)
  PROVE  IInv'
<1>1. Sound(dev, readers)
  BY Zenon DEF IInv
<1>2. PICK y : y = [NewReader EXCEPT !.open = FALSE]
  OBVIOUS
<1>3. /\ Calls /\ LetGo(r) /\ log' = <<>> /\ doing' = doing /\ reports' = reports
      /\ readers' = [readers EXCEPT ![r] = y]
  BY <1>2 DEF ReleaseEvdev, Barrier
<1>4. y \in Reader /\ Whole(y)
  BY <1>2, NewIs
<1>5. Sound(dev', readers')
  BY <1>1, <1>3, <1>4, ReaderLetGo
<1> QED  BY <1>3, <1>5, BarrierKeeps

LEMMA GetKeeps ==
  ASSUME IInv, NEW r \in Readers, NEW type \in {"KEY", "LED"}, NEW ok \in BOOLEAN,
         GetValues(r, type, ok)
  PROVE  IInv'
<1>1. Sound(dev, readers) /\ LogOK(log, dev, readers) /\ readers \in [Readers -> Reader]
  BY SoundIs DEF IInv
<1>2. PICK c \in Reader : c = readers[r] /\ Whole(c)
  BY <1>1, SoundIs
<1>3. PICK f : f = FlushQueue(c, type)
  OBVIOUS
<1>4. PICK k : k = Refill(c, f.kept, f.readable, c.epoch)
  OBVIOUS
<1>5. PICK d : d = IF ok THEN k ELSE QueueSynDropped(k)
  OBVIOUS
<1>6. PICK rec : rec = FlushRecord(r, d, f.removed)
  OBVIOUS
<1>7. /\ rec.kind = "flush" /\ rec.reader = r /\ rec.epoch = c.epoch
      /\ rec.count_before = Len(c.queue) /\ rec.readable_before = c.readable
      /\ rec.count_after = Len(d.queue) /\ rec.removed = [i \in f.removed |-> c.queue[i]]
  BY <1>2, <1>6 DEF FlushRecord
<1>8. LinkOf(<<rec>>, r, c, <<>>, d) /\ Whole(d)
  <2>1. (ok /\ d = k) \/ d = QueueSynDropped(k)
    BY <1>5
  <2>2. Got(r, c, type, ok, f, k, d, rec)
    BY <1>2, <1>3, <1>4, <1>7, <2>1, Zenon DEF Got
  <2> QED  BY <2>2, LinkGot
<1>9. /\ Calls /\ doing' = doing /\ reports' = reports /\ dev' = dev
      /\ readers' = [readers EXCEPT ![r] = d]
      /\ NoteUndo(IF d = c THEN <<>> ELSE <<rec>>, {})
  <2>1. [readers[r] EXCEPT !.queue = f.kept, !.readable = f.readable] = k
    BY <1>2, <1>4, RefillIs
  <2>2. f = FlushQueue(readers[r], type)
    BY <1>2, <1>3
  <2> QED  BY <1>2, <1>5, <1>6, <2>1, <2>2, Zenon DEF GetValues
<1>10. CASE d = c
  <2>1. readers' = readers
    BY <1>1, <1>2, <1>9, <1>10
  <2>2. log' = log
    BY <1>9, <1>10, Zenon DEF NoteUndo
  <2> QED  BY <1>1, <1>9, <2>1, <2>2, CallKeeps
<1>11. CASE d # c
  <2>1. rec.kind \in {"read", "flush", "clock", "mask"}
    BY <1>7
  <2>2. Records(log, dev, readers, r, rec, d)
    BY <1>1, <1>2, <1>7, <1>8, <2>1, Zenon DEF Records
  <2>3. Noted(r, rec, d)
    BY <1>9, <1>11, Zenon DEF Noted
  <2>4. Sound(dev', readers') /\ LogOK(log', dev', readers')
    BY <2>2, <2>3, RecordKept
  <2> QED  BY <1>9, <2>4, CallKeeps
<1> QED  BY <1>10, <1>11

LEMMA ClockKeeps ==
  ASSUME IInv, NEW r \in Readers, NEW clock \in {"real", "monotonic"}, SetClock(r, clock)
  PROVE  IInv'
<1>1. Sound(dev, readers) /\ LogOK(log, dev, readers) /\ readers \in [Readers -> Reader]
  BY SoundIs DEF IInv
<1>2. PICK c \in Reader : c = readers[r] /\ Whole(c)
  BY <1>1, SoundIs
<1>3. PICK set : set = [kind |-> "clock", reader |-> r, before |-> c.clock, after |-> clock]
  OBVIOUS
<1>4. set.kind = "clock" /\ set.reader = r /\ set.before = c.clock /\ set.after = clock
  BY <1>3
<1>5. CASE c.queue = <<>>
  <2>1. PICK y : y = Timed(c, clock)
    OBVIOUS
  <2>2. LinkOf(<<set>>, r, c, <<>>, y) /\ Whole(y)
    <3>1. LinkOf(<<set>>, r, c, <<>>, Timed(c, clock)) /\ Whole(Timed(c, clock))
      BY <1>2, <1>4, LinkClock
    <3> QED  BY <2>1, <3>1, Zenon
  <2>3. /\ Calls /\ doing' = doing /\ reports' = reports /\ dev' = dev
        /\ readers' = [readers EXCEPT ![r] = y] /\ NoteUndo(<<set>> \o <<>>, {})
    BY <1>2, <1>3, <1>5, <2>1, Zenon DEF SetClock, Timed
  <2>4. <<set>> \o <<>> = <<set>>
    OBVIOUS
  <2>5. Records(log, dev, readers, r, set, y)
    <3>1. set.kind \in {"read", "flush", "clock", "mask"}
      BY <1>4
    <3> QED  BY <1>1, <1>2, <1>4, <2>2, <3>1, Zenon DEF Records
  <2>6. Noted(r, set, y)
    BY <2>3, <2>4, Zenon DEF Noted
  <2>7. Sound(dev', readers') /\ LogOK(log', dev', readers')
    BY <2>5, <2>6, RecordKept
  <2> QED  BY <2>3, <2>7, CallKeeps
<1>6. CASE c.queue # <<>>
  <2>1. PICK k : k = Refill(c, <<>>, 0, c.epoch)
    OBVIOUS
  <2>2. PICK f : f = QueueSynDropped(k)
    OBVIOUS
  <2>3. PICK rec : rec = FlushRecord(r, f, DOMAIN c.queue)
    OBVIOUS
  <2>4. PICK y : y = Timed(f, clock)
    OBVIOUS
  <2>5. /\ rec.kind = "flush" /\ rec.reader = r /\ rec.epoch = c.epoch
        /\ rec.count_before = Len(c.queue) /\ rec.readable_before = c.readable
        /\ rec.count_after = Len(f.queue)
        /\ rec.removed = [i \in 1 .. Len(c.queue) |-> c.queue[i]]
    <3>1. DOMAIN c.queue = 1 .. Len(c.queue)
      BY ReaderIs
    <3>2. rec.removed = [i \in DOMAIN c.queue |-> c.queue[i]]
      BY <1>2, <2>3 DEF FlushRecord
    <3>3. rec.removed = [i \in 1 .. Len(c.queue) |-> c.queue[i]]
      BY <3>1, <3>2, Zenon
    <3> QED  BY <1>2, <2>3, <3>3 DEF FlushRecord
  <2>6. ClockGot(r, c, clock, k, f, set, rec)
    BY <1>2, <1>4, <2>1, <2>2, <2>5, Zenon DEF ClockGot
  <2>7. PICK rs : rs = <<set, rec>>
    OBVIOUS
  <2>8. LinkOf(rs, r, c, <<>>, y) /\ Whole(y)
    <3>1. LinkOf(<<set, rec>>, r, c, <<>>, Timed(f, clock)) /\ Whole(Timed(f, clock))
      BY <2>6, LinkClockFlush
    <3> QED  BY <2>4, <2>7, <3>1, Zenon
  <2>9. /\ DOMAIN rs = 1 .. Len(rs) /\ Len(rs) = 2 /\ rs[1] = set /\ rs[2] = rec
    BY <2>7
  <2>10. \A x \in Readers, d \in Reader : OfReader(rec, x, d) \in Reader
    <3>1. ASSUME NEW x \in Readers, NEW d \in Reader PROVE OfReader(rec, x, d) \in Reader
      <4>1. CASE x = r
        BY <2>6, <4>1, LinkClockFlush
      <4>2. CASE x # r
        <5>1. ~(rec.kind = "read" /\ rec.reader = x) /\ ~(rec.kind = "flush" /\ rec.reader = x)
              /\ ~(rec.kind = "inject" /\ x \in DOMAIN rec.deliveries)
              /\ ~(rec.kind = "clock" /\ rec.reader = x) /\ ~(rec.kind = "mask" /\ rec.reader = x)
          BY <2>5, <4>2
        <5>2. OfReader(rec, x, d) = d
          BY <5>1, Zenon DEF OfReader
        <5> QED  BY <5>2
      <4> QED  BY <4>1, <4>2
    <3> QED  BY <3>1
  <2>11. RecordsOK(rs)
    <3>1. \A i \in 1 .. Len(rs) : i = 1 \/ i = 2
      BY <2>9
    <3>2. \A i \in 1 .. Len(rs) :
            /\ rs[i].kind \in {"read", "flush", "inject", "clock", "grab", "mask"}
            /\ rs[i].kind \in {"read", "flush", "clock", "mask"} => rs[i].reader \in Readers
      BY <1>4, <2>5, <2>9, <3>1
    <3>3. \A x \in Readers, d \in Reader : OfReader(rs[2], x, d) \in Reader
      BY <2>9, <2>10, Zenon
    <3> QED  BY <1>4, <2>5, <2>9, <3>2, <3>3 DEF RecordsOK
  <2>12. ASSUME NEW x \in Readers \ {r} PROVE LinkOf(rs, x, readers[x], <<>>, readers[x])
    <3>1. Others(set, x) /\ Others(rec, x)
      BY <1>4, <2>5 DEF Others
    <3>2. readers[x] \in Reader /\ Whole(readers[x])
      BY <1>1, SoundIs
    <3>3. LinkOf(<<set, rec>>, x, readers[x], <<>>, readers[x])
      BY <3>1, <3>2, LinkOther, Zenon
    <3> QED  BY <2>7, <3>3, Zenon
  <2>13. /\ Calls /\ doing' = doing /\ reports' = reports /\ dev' = dev
         /\ readers' = [readers EXCEPT ![r] = y] /\ NoteUndo(<<set>> \o <<rec>>, {})
    <3>1. [c EXCEPT !.queue = <<>>, !.readable = 0] = k
      <4>1. \A q, n : [c EXCEPT !.queue = q, !.readable = n] = Refill(c, q, n, c.epoch)
        BY RefillIs
      <4> QED  BY <2>1, <4>1, Zenon
    <3> QED  BY <1>2, <1>3, <1>6, <2>2, <2>3, <2>4, <3>1, Zenon DEF SetClock, Timed
  <2>14. log' = Append(log, Made(rs, {}, dev, readers, view, Nothing, {}))
    <3>1. <<set>> \o <<rec>> = <<set, rec>> /\ <<set, rec>> # <<>>
      <4>1. PICK E : E = {set, rec}
        OBVIOUS
      <4>2. <<set>> \in Seq(E) /\ <<rec>> \in Seq(E) /\ <<set, rec>> \in Seq(E)
        BY <4>1
      <4>3. PICK a \in Seq(E), b \in Seq(E), w \in Seq(E) : a = <<set>> /\ b = <<rec>> /\ w = <<set, rec>>
        BY <4>2
      <4>4. Len(a) = 1 /\ Len(b) = 1 /\ Len(w) = 2 /\ a[1] = set /\ b[1] = rec /\ w[1] = set /\ w[2] = rec
        BY <4>3
      <4>5. a \o b = w
        <5>1. /\ a \o b \in Seq(E) /\ Len(a \o b) = Len(a) + Len(b)
              /\ \A i \in 1 .. Len(a) + Len(b) : (a \o b)[i] = IF i <= Len(a) THEN a[i] ELSE b[i - Len(a)]
          BY ConcatProperties
        <5>5. 1 \in 1 .. Len(a) + Len(b) /\ 2 \in 1 .. Len(a) + Len(b) /\ 2 - 1 = 1 /\ ~(2 <= 1)
          BY <4>4
        <5>2. (a \o b)[1] = set
          BY <4>4, <5>1, <5>5
        <5>3. (a \o b)[2] = rec
          BY <4>4, <5>1, <5>5
        <5>4. \A i \in 1 .. 2 : i = 1 \/ i = 2
          OBVIOUS
        <5>6. Len(a \o b) = 2
          BY <4>4, <5>1
        <5> QED  BY <4>4, <5>1, <5>2, <5>3, <5>4, <5>6
      <4> QED  BY <4>3, <4>5
    <3>2. NoteUndo(rs, {}) /\ rs # <<>>
      BY <2>7, <2>13, <3>1, Zenon
    <3>3. log' = Append(log, Entry(Now, view, rs, {}))
      BY <3>2, Zenon DEF NoteUndo
    <3>4. Entry(Now, view, rs, {}) = Made(rs, {}, Now.dev, Now.readers, view, Nothing, {})
      BY EntryIs
    <3>5. Now.dev = dev /\ Now.readers = readers
      BY DEF Now
    <3> QED  BY <3>3, <3>4, <3>5, Zenon
  <2>15. PICK e, g : e = Made(rs, {}, dev, readers, view, Nothing, {}) /\ g = [readers EXCEPT ![r] = y]
    OBVIOUS
  <2>16. rs[1].kind \notin {"inject", "grab"} /\ LinkOf(rs, r, readers[r], <<>>, y)
    BY <1>2, <1>4, <2>8, <2>9
  <2>17. Sound(dev, g) /\ LogOK(Append(log, e), dev, g)
    BY <1>1, <2>8, <2>11, <2>12, <2>15, <2>16, LogOne
  <2>18. Sound(dev', readers') /\ LogOK(log', dev', readers')
    BY <2>13, <2>14, <2>15, <2>17, Zenon
  <2> QED  BY <2>13, <2>18, CallKeeps
<1> QED  BY <1>5, <1>6

LEMMA WriteKeeps ==
  ASSUME IInv, NEW r \in Readers, NEW packet \in Packets, Write(r, packet)
  PROVE  IInv'
<1>1. Sound(dev, readers) /\ LogOK(log, dev, readers)
  BY DEF IInv
<1>2. /\ dev \in Device /\ readers \in [Readers -> Reader]
      /\ \A x \in Readers : readers[x] \in Reader /\ Whole(readers[x])
      /\ LocksReported => dev.leds = dev.flags
  BY <1>1, SoundIs
<1>3. PICK s : s = ConsoleBottomHalf(HandleAll(Now, packet))
  OBVIOUS
<1>4. packet \in Seq(Event)
  BY EvdevAssumption
<1>5. Goes(Now, s) /\ (LocksReported => s.dev.leds = s.dev.flags)
  <2>1. LET t == ConsoleBottomHalf(HandleAll(Now, packet))
        IN /\ Goes(Now, t)
           /\ Now.dev.flags = Now.dev.leds /\ ~Pressed(packet, Len(packet)) => t.dev.flags = t.dev.leds
    BY <1>1, <1>4, NowIs, WriteDoes
  <2>2. LocksReported => ~Pressed(packet, Len(packet))
    <3>1. SUFFICES ASSUME LocksReported, NEW i \in 2 .. Len(packet), Press(packet[i])
                   PROVE  \E m \in i + 1 .. Len(packet) : packet[m] = Report
      BY DEF Pressed
    <3>2. i \in DOMAIN packet \ {1} /\ DOMAIN packet = 1 .. Len(packet)
      BY <1>4, <3>1
    <3>3. packet[i] \in {Key(k, 1) : k \in ToSet(Locks)}
      BY <3>1, Zenon DEF Press
    <3>4. PICK j \in DOMAIN packet : j > i /\ packet[j] = Report
      BY <3>1, <3>2, <3>3, Zenon DEF LocksReported
    <3>5. j \in i + 1 .. Len(packet)
      BY <3>2, <3>4
    <3> QED  BY <3>4, <3>5
  <2> QED  BY <1>1, <1>2, <1>3, <2>1, <2>2, NowIs, Zenon
<1>6. /\ Sound(s.dev, s.readers) /\ s.dev \in Device /\ s.readers \in [Readers -> Reader]
      /\ s.dev.grab = dev.grab
      /\ \A x \in Readers : Grown(readers[x], s.readers[x])
  <2>1. s.dev.grab = dev.grab
    BY <1>1, <1>5, NowIs, Zenon DEF Goes
  <2> QED  BY <1>1, <1>5, <2>1, GoesSound
<1>7. /\ Calls /\ doing' = doing /\ reports' = reports /\ dev' = s.dev /\ readers' = s.readers
      /\ NoteUndo(Injected(s), Changed(s))
  BY <1>3, Zenon DEF Write
<1>8. Sound(dev', readers')
  BY <1>6, <1>7, Zenon
<1>9. PICK reached : reached = {x \in Readers : s.readers[x] # readers[x]}
  OBVIOUS
<1>10. CASE reached = {} /\ [s.dev EXCEPT !.pending = dev.pending] = dev
  <2>1. Injected(s) = <<>>
    BY <1>9, <1>10, Zenon DEF Injected
  <2>2. log' = log
    BY <1>7, <2>1, Zenon DEF NoteUndo
  <2>3. readers' = readers
    <3>1. \A x \in Readers : s.readers[x] = readers[x]
      BY <1>9, <1>10
    <3> QED  BY <1>2, <1>6, <1>7, <3>1
  <2>4. Alike(s.dev, dev)
    <3>1. [s.dev EXCEPT !.pending = dev.pending] = dev
      BY <1>10
    <3>2. PICK a \in Device, b \in Device : a = s.dev /\ b = dev
      BY <1>2, <1>6
    <3>3. [a EXCEPT !.pending = b.pending] = b
      BY <3>1, <3>2, Zenon
    <3>4. Alike(a, b)
      BY <3>3 DEF Alike, Device
    <3> QED  BY <3>2, <3>4
  <2>5. LogOK(log, s.dev, readers)
    BY <1>1, <1>6, <2>4, LogKept
  <2>6. LogOK(log', dev', readers')
    BY <1>7, <2>2, <2>3, <2>5, Zenon
  <2> QED  BY <1>7, <1>8, <2>6, CallKeeps
<1>11. CASE ~(reached = {} /\ [s.dev EXCEPT !.pending = dev.pending] = dev)
  <2> DEFINE Delivery(x) ==
        [epoch |-> readers[x].epoch, count_before |-> Len(readers[x].queue),
         readable_before |-> readers[x].readable,
         appended |-> IF s.readers[x].epoch = readers[x].epoch
                      THEN Len(s.readers[x].queue) - Len(readers[x].queue) ELSE 0]
  <2>1. PICK deliveries : deliveries = [x \in reached |-> Delivery(x)]
    OBVIOUS
  <2>2. PICK rec : rec = [kind |-> "inject", before |-> dev, after |-> s.dev, deliveries |-> deliveries]
    OBVIOUS
  <2>3. Injected(s) = <<rec>>
    BY <1>9, <1>11, <2>1, <2>2, Zenon DEF Injected
  <2>4. /\ rec.kind = "inject" /\ rec.before = dev /\ rec.after = s.dev
        /\ DOMAIN rec.deliveries = reached
        /\ \A x \in reached : rec.deliveries[x] = Delivery(x)
    BY <2>1, <2>2
  <2>5. ASSUME NEW x \in Readers PROVE LinkOf(<<rec>>, x, readers[x], <<>>, s.readers[x])
    <3>1. PICK c, d : c \in Reader /\ c = readers[x] /\ d = s.readers[x] /\ Whole(c) /\ Grown(c, d)
      BY <1>2, <1>6
    <3>2. CASE x \in reached
      <4>1. d # c
        BY <1>9, <3>1, <3>2
      <4>2. /\ rec.deliveries[x].epoch = c.epoch /\ rec.deliveries[x].count_before = Len(c.queue)
            /\ rec.deliveries[x].readable_before = c.readable
            /\ rec.deliveries[x].appended = IF d.epoch = c.epoch THEN Len(d.queue) - Len(c.queue) ELSE 0
        <5>1. PICK v : v = rec.deliveries[x]
          OBVIOUS
        <5>2. v = [epoch |-> c.epoch, count_before |-> Len(c.queue), readable_before |-> c.readable,
                   appended |-> IF d.epoch = c.epoch THEN Len(d.queue) - Len(c.queue) ELSE 0]
          BY <2>4, <3>1, <3>2, <5>1, Zenon
        <5>3. PICK n : n = IF d.epoch = c.epoch THEN Len(d.queue) - Len(c.queue) ELSE 0
          OBVIOUS
        <5>4. v = [epoch |-> c.epoch, count_before |-> Len(c.queue), readable_before |-> c.readable,
                   appended |-> n]
          BY <5>2, <5>3, Zenon
        <5>5. /\ v.epoch = c.epoch /\ v.count_before = Len(c.queue) /\ v.readable_before = c.readable
              /\ v.appended = n
          BY <5>4
        <5> QED  BY <5>1, <5>3, <5>5, Zenon
      <4>3. LinkOf(<<rec>>, x, c, <<>>, d)
        BY <2>4, <3>1, <3>2, <4>1, <4>2, LinkInject
      <4> QED  BY <3>1, <4>3, Zenon
    <3>3. CASE x \notin reached
      <4>1. d = c
        BY <1>9, <3>1, <3>3
      <4>2. Others(rec, x)
        BY <2>4, <3>3 DEF Others
      <4>3. LinkOf(<<rec>>, x, c, <<>>, c)
        BY <3>1, <4>2, LinkOther
      <4> QED  BY <3>1, <4>1, <4>3, Zenon
    <3> QED  BY <3>2, <3>3
  <2>6. RecordsOK(<<rec>>) /\ <<rec>>[1] = rec
    BY <2>4, OneRecord
  <2>7. PICK w : w = Changed(s)
    OBVIOUS
  <2>8. Did(rec, w, dev, s.dev)
    <3>1. \A k \in Keys \ w : SameBits(s.dev, dev, k)
      BY <2>7 DEF Changed, SameBits
    <3>2. rec.kind # "grab" /\ rec.kind = "inject" /\ rec.kind \in {"inject", "grab"}
      BY <2>4
    <3> QED  BY <1>5, <1>6, <2>4, <3>1, <3>2, Zenon DEF Did
  <2>9. PICK rs, e, d2, f2 : /\ rs = <<rec>> /\ d2 = s.dev /\ f2 = s.readers
                            /\ e = Made(rs, w, dev, readers, view, Nothing, {})
    OBVIOUS
  <2>10. /\ RecordsOK(rs) /\ d2 \in Device /\ Did(rs[1], w, dev, d2)
         /\ \A x \in Readers : LinkOf(rs, x, readers[x], <<>>, f2[x])
    BY <1>6, <2>5, <2>6, <2>8, <2>9, Zenon
  <2>11. LogOK(Append(log, e), d2, f2)
    BY <1>1, <2>9, <2>10, LogCalled
  <2>12. log' = Append(log, Made(<<rec>>, w, dev, readers, view, Nothing, {}))
    <3>1. NoteUndo(<<rec>>, w)
      BY <1>7, <2>3, <2>7, Zenon
    <3> QED  BY <3>1, NoteOne
  <2>13. LogOK(log', dev', readers')
    BY <1>7, <2>9, <2>11, <2>12, Zenon
  <2> QED  BY <1>7, <1>8, <2>13, CallKeeps
<1> QED  BY <1>10, <1>11

LEMMA UndoIs ==
  ASSUME IInv, Undo
  PROVE  /\ IInv' /\ Back(Last(log), dev, readers, dev', readers')
<1>1. Sound(dev, readers) /\ LogOK(log, dev, readers)
  BY DEF IInv
<1>2. /\ dev \in Device /\ readers \in [Readers -> Reader]
      /\ \A x \in Readers : readers[x] \in Reader /\ Whole(readers[x])
      /\ LocksReported => dev.leds = dev.flags
  BY <1>1, SoundIs
<1>3. PICK c, v : c = Raced(Last(log)) /\ v = [r \in Readers |-> NoView]
  OBVIOUS
<1>4. PICK n \in Nat : n = Len(log)
  BY <1>1, SeqIs DEF LogOK
<1>5. PICK e : e = log[Len(log)]
  OBVIOUS
<1>6. Last(log) = e
  BY <1>5 DEF Last
<1>7. /\ log # <<>> /\ reports' = reports /\ calls' = calls /\ doing' = doing
      /\ doing.state = "run"
      /\ dev' = FoldRight(UndoRecord, e.records, Now).dev
      /\ readers' = FoldRight(UndoRecord, e.records, Now).readers
      /\ log' = [i \in DOMAIN Front(log) |-> IF c THEN [log[i] EXCEPT !.view = v] ELSE log[i]]
  BY <1>3, <1>6, Zenon DEF Undo
<1>8. EntryOK(e)
  <2>1. n # 0 /\ \A i \in 1 .. Len(log) : EntryOK(log[i])
    BY <1>1, <1>4, <1>7, SeqIs DEF LogOK
  <2>2. n \in 1 .. Len(log)
    BY <1>4, <2>1
  <2> QED  BY <1>4, <1>5, <2>1, <2>2, Zenon
<1>9. PICK x, g : x = OfDevice(e.records[1], dev) /\ g = [r \in Readers |-> OfEntry(e.records, r, readers[r])]
  OBVIOUS
<1>10. dev' = x /\ readers' = g
  <2>1. RecordsOK(e.records)
    BY <1>8 DEF EntryOK
  <2>2. PICK w, m : Now = Found(dev, readers, w, m)
    BY DEF Now, Found
  <2>3. PICK rs : rs = e.records
    OBVIOUS
  <2>4. FoldRight(UndoRecord, rs, Found(dev, readers, w, m)) =
          Found(OfDevice(rs[1], dev), [r \in Readers |-> OfEntry(rs, r, readers[r])], w, m)
    BY <1>2, <2>1, <2>3, EntryUndone
  <2>5. FoldRight(UndoRecord, e.records, Now) = Found(x, g, w, m)
    BY <1>9, <2>2, <2>3, <2>4, Zenon
  <2>6. Found(x, g, w, m).dev = x /\ Found(x, g, w, m).readers = g
    BY DEF Found
  <2> QED  BY <1>7, <2>5, <2>6, Zenon
<1>11. PICK m : /\ m = [i \in 1 .. Len(log) - 1 |-> IF c THEN [log[i] EXCEPT !.view = v] ELSE log[i]]
                /\ m = log'
  <2>1. DOMAIN Front(log) = 1 .. Len(log) - 1
    BY DEF Front
  <2> QED  BY <1>7, <2>1
<1>12. LogOK(m, x, g) /\ Back(e, dev, readers, x, g)
  <2>1. Undoing(dev, readers, log, e, x, g, c, v, m)
    BY <1>1, <1>2, <1>5, <1>7, <1>9, <1>11, Zenon DEF Undoing
  <2> QED  BY <2>1, LogUndone
<1>13. Sound(x, g)
  <2>1. /\ DeviceBack(e, dev, x) /\ Grabbed(x, g) /\ g \in [Readers -> Reader]
        /\ \A r \in Readers : Whole(g[r])
    BY <1>12 DEF Back
  <2>2. x \in Device /\ (LocksReported => x.leds = x.flags)
    BY <1>2, <2>1 DEF DeviceBack
  <2> QED  BY <2>1, <2>2, Zenon DEF Sound
<1>14. WaitsOK(doing', readers')
  <2>1. WaitsOK(doing, readers)
    BY DEF IInv
  <2> QED  BY <1>7, <2>1 DEF WaitsOK
<1>15. IInv'
  <2>1. Sound(dev', readers') /\ LogOK(log', dev', readers')
    BY <1>10, <1>11, <1>12, <1>13, Zenon
  <2>2. reports' \in 0 .. MaxReports /\ calls' \in 0 .. MaxCalls
    BY <1>7 DEF IInv
  <2> QED  BY <1>14, <2>1, <2>2, Zenon DEF IInv
<1>16. Back(Last(log), dev, readers, dev', readers')
  BY <1>6, <1>10, <1>12, Zenon
<1> QED  BY <1>15, <1>16

LEMMA InitOK ==
  ASSUME Init
  PROVE  IInv
<1>1. /\ dev = Booted /\ readers = [r \in Readers |-> NewReader] /\ doing = Running
      /\ log = <<>> /\ reports = 0 /\ calls = 0
  BY DEF Init
<1>2. PICK y : y = NewReader
  OBVIOUS
<1>3. y \in Reader /\ Whole(y)
  BY <1>2, NewIs
<1>4. readers \in [Readers -> Reader] /\ \A r \in Readers : Whole(readers[r])
  BY <1>1, <1>2, <1>3
<1>5. dev \in Device /\ dev.grab = None /\ dev.leds = dev.flags
  <2>1. <<>> \in Vals
    BY EvdevAssumption DEF Vals
  <2> QED  BY <1>1, <2>1 DEF Booted, Device
<1>6. Sound(dev, readers)
  BY <1>4, <1>5 DEF Sound, Grabbed
<1>7. LogOK(log, dev, readers)
  BY <1>1, LogEmpty, Zenon
<1>8. WaitsOK(doing, readers)
  BY <1>1, RunningIs, Zenon
<1>9. reports \in 0 .. MaxReports /\ calls \in 0 .. MaxCalls
  BY <1>1, EvdevAssumption
<1> QED  BY <1>6, <1>7, <1>8, <1>9, Zenon DEF IInv

LEMMA NextKeeps ==
  ASSUME IInv, [Next]_vars
  PROVE  IInv'
<1>1. ASSUME NEW k \in Keys, NEW down \in BOOLEAN, NEW soon \in BOOLEAN, InputReport(k, down, soon)
      PROVE  IInv'
  BY <1>1, ReportKeeps
<1>2. ASSUME NEW r \in Readers, NEW n \in Sizes, Read(r, n) PROVE IInv'
  BY <1>2, ReadKeeps
<1>3. ASSUME NEW rs \in SUBSET Readers \ {{}}, Poll(rs) PROVE IInv'
  BY <1>3, PollKeeps
<1>4. CASE Interrupt
  BY <1>4, InterruptKeeps
<1>5. ASSUME NEW r \in Readers, NEW packet \in Packets, Write(r, packet) PROVE IInv'
  BY <1>5, WriteKeeps
<1>6. ASSUME NEW r \in Readers, NEW type \in {"KEY", "LED"}, NEW ok \in BOOLEAN, GetValues(r, type, ok)
      PROVE  IInv'
  BY <1>6, GetKeeps
<1>7. ASSUME NEW r \in Readers, NEW clock \in {"real", "monotonic"}, SetClock(r, clock) PROVE IInv'
  BY <1>7, ClockKeeps
<1>8. ASSUME NEW r \in Readers, Grab(r) \/ Revoke(r) \/ OpenEvdev(r) \/ ReleaseEvdev(r) PROVE IInv'
  BY <1>8, GrabKeeps, RevokeKeeps, OpenKeeps, ReleaseKeeps
<1>9. ASSUME NEW r \in Readers, NEW type \in MaskTypes, NEW filtered \in BOOLEAN,
             SetMask(r, type, filtered)
      PROVE  IInv'
  BY <1>9, MaskKeeps
<1>10. CASE Undo
  BY <1>10, UndoIs
<1>11. CASE UNCHANGED vars
  BY <1>11 DEF vars, IInv
<1> QED  BY <1>1, <1>2, <1>3, <1>4, <1>5, <1>6, <1>7, <1>8, <1>9, <1>10, <1>11, Zenon DEF Next

-----------------------------------------------------------------------------
\* What the proofs rest on: the device and the readers are as the code leaves them, each
\* entry of the undo log has what undo needs, and a wait is for readers with nothing.
THEOREM Invariant == Spec => []IInv
<1>1. Init => IInv
  BY InitOK
<1>2. IInv /\ [Next]_vars => IInv'
  BY NextKeeps
<1> QED  BY <1>1, <1>2, PTL DEF Spec

LEMMA WholePackets ==
  ASSUME IInv
  PROVE  PacketsWhole
<1>1. Sound(dev, readers) /\ WaitsOK(doing, readers)
  BY DEF IInv
<1>2. /\ dev \in Device /\ readers \in [Readers -> Reader] /\ Grabbed(dev, readers)
      /\ \A x \in Readers : readers[x] \in Reader /\ Whole(readers[x])
  BY <1>1, SoundIs
<1>3. dev.key \subseteq Keys /\ dev.led \subseteq ToSet(Locks)
  BY <1>2, DeviceIs
<1>4. dev.vals \in Seq(Event) /\ Len(dev.vals) < MaxVals - 2
  BY <1>2, DeviceIs, ValsIs
<1>5. dev.grab \in {None} \cup {r \in Readers : Uses(r)}
  BY <1>2 DEF Grabbed, Uses
<1>6. ASSUME NEW r \in Readers
      PROVE  /\ readers[r].queue \in Seq(Event) /\ readers[r].readable \in 0 .. Len(readers[r].queue)
             /\ readers[r].masked \subseteq MaskTypes
  <2>1. readers[r] \in Reader
    BY <1>2
  <2>2. /\ readers[r].queue \in Seq(Event) /\ readers[r].readable \in Nat
        /\ readers[r].masked \in SUBSET MaskTypes
        /\ readers[r].readable <= Len(readers[r].queue) /\ Len(readers[r].queue) \in Nat
    BY <2>1, ReaderIs
  <2> QED  BY <2>2
<1>7. doing.state \in {"run", "read", "poll"} /\ \A r \in doing.on : Uses(r)
  BY <1>1 DEF WaitsOK, Uses
<1>8. TypeOK
  <2>1. reports \in 0 .. MaxReports /\ calls \in 0 .. MaxCalls
    BY DEF IInv
  <2> QED  BY <1>3, <1>4, <1>5, <1>6, <1>7, <2>1, Zenon DEF TypeOK
<1> QED  BY <1>2, <1>8, Zenon DEF PacketsWhole, Whole

\* Every variable has its type, and a program reads up to the end of a packet and never into
\* one still being passed on: through overflows, flushes, masks, writes and every undo of
\* them, for any queue size, packets and number of readers.
THEOREM PacketsStayWhole == Spec => []PacketsWhole
<1>1. IInv => PacketsWhole
  BY WholePackets
<1> QED  BY <1>1, Invariant, PTL

\* No read or poll waits while a packet is there for it.
THEOREM NoPacketMissed == Spec => []NoMissedPacket
<1>1. IInv => NoMissedPacket
  BY DEF IInv, WaitsOK, NoMissedPacket
<1> QED  BY <1>1, Invariant, PTL

\* Between two calls the console has set the LEDs its locks ask for, provided that what
\* programs write has a report behind each lock that does not come first.
THEOREM ConsoleStaysSettled == Spec => []ConsoleSettled
<1>1. IInv => ConsoleSettled
  BY DEF IInv, Sound, ConsoleSettled
<1> QED  BY <1>1, Invariant, PTL

LEMMA GivenBack ==
  ASSUME IInv, Undo, NEW e, e = Last(log)
  PROVE  /\ \A r \in Readers :
              /\ readers'[r].masked = e.readers[r].masked
              /\ readers'[r].clock = e.readers[r].clock
              /\ readers[r].epoch = e.readers[r].epoch =>
                   readers'[r].queue = e.readers[r].queue \o e.since[r]
         /\ dev'.grab = e.dev.grab
         /\ \A k \in Keys \ e.keys : /\ k \in dev'.key <=> k \in e.dev.key
                                     /\ k \in dev'.led <=> k \in e.dev.led
         /\ \A k \in e.keys \ e.wrote : /\ k \in dev'.key <=> k \in dev.key
                                        /\ k \in dev'.led <=> k \in dev.led
         /\ e.keys = {} => AtRest(dev') = AtRest(e.dev)
<1>1. /\ EntryOK(e) /\ DeviceBack(e, dev, dev')
      /\ \A r \in Readers : Undone(e.readers[r], e.since[r], readers[r], readers'[r])
  <2>1. Back(Last(log), dev, readers, dev', readers')
    BY UndoIs
  <2>2. Back(e, dev, readers, dev', readers')
    BY <2>1, Zenon
  <2> QED  BY <2>2, Zenon DEF Back
<1>2. e.dev \in Device /\ e.readers \in [Readers -> Reader] /\ e.since \in [Readers -> Ends]
  BY <1>1, Zenon DEF EntryOK, DeviceOK
<1>3. ASSUME NEW r \in Readers
      PROVE  /\ readers'[r].masked = e.readers[r].masked
             /\ readers'[r].clock = e.readers[r].clock
             /\ readers[r].epoch = e.readers[r].epoch =>
                  readers'[r].queue = e.readers[r].queue \o e.since[r]
  <2>1. PICK c \in Reader, S \in Ends : c = e.readers[r] /\ S = e.since[r]
    BY <1>2
  <2>2. Undone(c, S, readers[r], readers'[r])
    BY <1>1, <2>1, Zenon
  <2>3. S \in Seq(Event)
    BY DEF Ends
  <2>4. Fed(c, S).queue = c.queue \o S
    BY <2>3, FedIs
  <2>5. /\ readers'[r].masked = c.masked /\ readers'[r].clock = c.clock
        /\ readers[r].epoch = c.epoch => readers'[r] = Fed(c, S)
    BY <2>2, Zenon DEF Undone
  <2> QED  BY <2>1, <2>4, <2>5, Zenon
<1>4. /\ dev' \in Device /\ dev'.grab = e.dev.grab
      /\ \A k \in Keys \ e.keys : SameBits(dev', e.dev, k)
      /\ \A k \in e.keys \ e.wrote : SameBits(dev', dev, k)
      /\ e.keys = {} => Alike(dev', e.dev)
  BY <1>1, Zenon DEF DeviceBack
<1>5. e.keys = {} => AtRest(dev') = AtRest(e.dev)
  <2>1. PICK a \in Device, b \in Device : a = dev' /\ b = e.dev
    BY <1>2, <1>4
  <2>2. AtRest(a) = AtRest(b) <=> Alike(a, b)
    BY AtRestIs
  <2> QED  BY <1>4, <2>1, <2>2, Zenon
<1> QED  BY <1>3, <1>4, <1>5, Zenon DEF SameBits

\* Undo gives a reader that did not overflow the queue the instruction found, with what the
\* host reported since behind it, and the device what the instruction changed of it, and
\* keeps what the host did since: however many calls are undone, in whatever order
\* they and the host's reports came.
THEOREM UndoGives == Spec => UndoGivesBack
<1>1. ASSUME IInv, Undo
      PROVE  LET e == Last(log)
             IN /\ \A r \in Readers :
                     /\ readers'[r].masked = e.readers[r].masked
                     /\ readers'[r].clock = e.readers[r].clock
                     /\ readers[r].epoch = e.readers[r].epoch =>
                          readers'[r].queue = e.readers[r].queue \o e.since[r]
                /\ dev'.grab = e.dev.grab
                /\ \A k \in Keys \ e.keys : /\ k \in dev'.key <=> k \in e.dev.key
                                            /\ k \in dev'.led <=> k \in e.dev.led
                /\ \A k \in e.keys \ e.wrote : /\ k \in dev'.key <=> k \in dev.key
                                               /\ k \in dev'.led <=> k \in dev.led
                /\ e.keys = {} => AtRest(dev') = AtRest(e.dev)
  BY <1>1, GivenBack, Zenon
<1> QED  BY <1>1, Invariant, PTL DEF UndoGivesBack
=============================================================================
