----------------------------- MODULE DspProofs -----------------------------
(***************************************************************************)
(* Proofs about Dsp: the ring and the host's schedule agree, a write's     *)
(* bytes play once and in order, undo takes back what a call did, and what *)
(* the card tells of its room is so.                                       *)
(*                                                                         *)
(* The inductive invariant IInv says three things at once.  What is there  *)
(* fits together (RingOK, BufferOK, HostOK, StreamOK): Sound says the same *)
(* of a pass at each of its steps, so that every call is one chain of      *)
(* lemmas from BeginPass() to its end.  The call that waits waits for room *)
(* that comes (Halts).  And the log leads from each state an instruction   *)
(* found to the next (LogOK): a record takes what it left back to what it  *)
(* found (Back), and that holds on as time passes and frames play, as long *)
(* as what undo comes back to is what was found but for what has played    *)
(* since (Aged).                                                           *)
(***************************************************************************)
EXTENDS Dsp, TLAPS, WellFoundedInduction, SequenceTheorems, FiniteSetTheorems

-----------------------------------------------------------------------------
(* Numbers. *)

\* A set of natural numbers that is not empty has a least one.
LEMMA Least ==
  ASSUME NEW S \in SUBSET Nat, S # {}
  PROVE  \E n \in S : \A m \in S : n <= m
<1>1. \E n \in S : \A m \in S : ~(<<m, n>> \in OpToRel(<, Nat))
  BY NatLessThanWellFounded, WFMin, Zenon
<1>2. PICK n \in S : \A m \in S : ~(<<m, n>> \in OpToRel(<, Nat))
  BY <1>1, Zenon
<1>3. \A m \in Nat : m < n => <<m, n>> \in OpToRel(<, Nat)
  BY DEF OpToRel
<1>4. \A m \in S : m \in Nat /\ n \in Nat
  OBVIOUS
<1>5. \A m \in S : ~(m < n)
  BY <1>2, <1>3, <1>4, Zenon
<1> QED  BY <1>4, <1>5

\* What holds at the start and is kept by each step holds at the end.
LEMMA UpTo ==
  ASSUME NEW n \in Nat, NEW S, 0 \in S, \A j \in 1 .. n : j - 1 \in S => j \in S
  PROVE  \A j \in 0 .. n : j \in S
<1> DEFINE Bad == {j \in 0 .. n : j \notin S}
<1>1. SUFFICES ASSUME Bad # {} PROVE FALSE
  OBVIOUS
<1>2. Bad \in SUBSET Nat
  OBVIOUS
<1>3. PICK b \in Bad : \A m \in Bad : b <= m
  BY <1>1, <1>2, Least
<1>4. b # 0 /\ b \in 1 .. n /\ b - 1 \in 0 .. n
  BY <1>3
<1>5. b - 1 \notin Bad
  BY <1>3, <1>4
<1>6. b - 1 \in S
  BY <1>4, <1>5
<1> QED  BY <1>3, <1>4, <1>6

\* The lesser and the greater of two.
LEMMA MinTwo ==
  ASSUME NEW a \in Int, NEW b \in Int
  PROVE  Min({a, b}) = IF a <= b THEN a ELSE b
<1> DEFINE m == IF a <= b THEN a ELSE b
<1>1. m \in {a, b} /\ \A x \in {a, b} : m <= x
  OBVIOUS
<1>2. \A x \in {a, b} : (\A y \in {a, b} : x =< y) => x = m
  BY <1>1
<1> HIDE DEF m
<1>3. Min({a, b}) = m
  BY <1>1, <1>2 DEF Min
<1> QED  BY <1>3 DEF m

LEMMA MaxTwo ==
  ASSUME NEW a \in Int, NEW b \in Int
  PROVE  Max({a, b}) = IF a >= b THEN a ELSE b
<1> DEFINE m == IF a >= b THEN a ELSE b
<1>1. m \in {a, b} /\ \A x \in {a, b} : m >= x
  OBVIOUS
<1>2. \A x \in {a, b} : (\A y \in {a, b} : x >= y) => x = m
  BY <1>1
<1> HIDE DEF m
<1>3. Max({a, b}) = m
  BY <1>1, <1>2 DEF Max
<1> QED  BY <1>3 DEF m

LEMMA Times ==
  ASSUME NEW p \in Nat, NEW n \in Nat
  PROVE  p * n \in Nat /\ (n >= 2 => p * n >= p + p)
<1>1. p * n \in Nat
  OBVIOUS
<1>2. ASSUME n >= 2 PROVE p * n >= p + p
  <2>1. PICK k \in Nat : n = k + 2
    BY <1>2
  <2>2. p * n = p * k + p + p /\ p * k \in Nat
    BY <2>1
  <2> QED  BY <2>2
<1> QED  BY <1>1, <1>2

LEMMA Rest ==
  ASSUME NEW a \in Nat, NEW b \in Nat, b > 0
  PROVE  a % b \in 0 .. b - 1 /\ (a < b => a % b = a) /\ (a = b => a % b = 0)
  OBVIOUS

-----------------------------------------------------------------------------
(* A clock that plays a frame a unit. *)

LEMMA FrameClockIs ==
  ASSUME NEW D, NEW t
  PROVE  /\ D.state = "xrun" => Played(D, t) = D.written
         /\ D.state # "xrun" /\ D.state # "running" => Played(D, t) = 0
         /\ t \in Int /\ D.t0 \in Int /\ D.state = "running" =>
              Played(D, t) = Min({Max({t - D.t0, 0}), D.written})
<1>1. ASSUME t \in Int, D.t0 \in Int, D.state = "running"
      PROVE  Played(D, t) = Min({Max({t - D.t0, 0}), D.written})
  <2> DEFINE m == Max({t - D.t0, 0})
  <2>1. m \in Int
    <3>1. t - D.t0 \in Int
      BY <1>1
    <3> QED  BY <3>1, MaxTwo
  <2>2. Played(D, t) = Min({(m * FrameClock.rate) \div FrameClock.second, D.written})
    BY <1>1 DEF Played, PlayedOn
  <2> HIDE DEF m
  <2>3. (m * FrameClock.rate) \div FrameClock.second = m
    BY <2>1 DEF FrameClock
  <2> QED  BY <2>2, <2>3 DEF m
<1>2. D.state = "xrun" => Played(D, t) = D.written
  BY DEF Played, PlayedOn
<1>3. D.state # "xrun" /\ D.state # "running" => Played(D, t) = 0
  BY DEF Played, PlayedOn
<1> QED  BY <1>1, <1>2, <1>3

LEMMA FrameQueue ==
  ASSUME NEW D, NEW t
  PROVE  Queued(D, t) = IF D.state = "running" THEN D.written - Played(D, t) ELSE 0
  BY Zenon DEF Queued, QueuedOn, Played

LEMMA FrameTimes ==
  ASSUME NEW D, NEW frame \in Int, D.t0 \in Int
  PROVE  FrameTime(D, frame) = D.t0 + frame /\ PlayedBy(D, frame) = D.t0 + frame
  BY DEF FrameTime, PlayedBy, FrameTimeOn, PlayedByOn, FrameClock

LEMMA FrameDeadline ==
  ASSUME NEW D, NEW n, NEW t
  PROVE  RoomDeadline(D, n, t) =
           LET frames == Min({n, Capacity(D)})
           IN IF D.state # "running" \/ Queued(D, t) + frames <= Capacity(D) THEN t
              ELSE PlayedBy(D, D.written + frames - Capacity(D))
  BY Zenon DEF RoomDeadline, RoomDeadlineOn, Queued, PlayedBy

-----------------------------------------------------------------------------
(* The ring. *)

States == {"setup", "prepared", "running", "xrun"}
Ring == [set : Settings, params : BOOLEAN, prepare : BOOLEAN, period : Nat, periods : Nat,
         buffer_used : Nat, period_ptr : Nat, bytes : Nat, state : States, segment : Nat,
         t0 : Nat, written : Nat]
Plays(D) == D.state \in {"running", "xrun"}
RingOK(D, t) ==
  /\ D \in Ring
  /\ D.buffer_used <= D.period /\ D.period_ptr <= D.buffer_used
  /\ D.period_ptr > 0 => D.buffer_used = D.period /\ D.period_ptr < D.period
  /\ D.period > 0 => D.periods >= 2
  /\ D.t0 <= t
  /\ IF Plays(D) THEN D.written > 0 ELSE D.written = 0
  /\ IF D.state = "setup" THEN D.params \/ D.prepare ELSE D.period > 0 /\ ~D.prepare
  /\ D.state = "xrun" => D.t0 + D.written <= t
  /\ ~D.params => D.period > 0

\* When the ring will have played all it was given.
EndOf(D, t) == IF D.state = "running" /\ D.t0 + D.written > t THEN D.t0 + D.written ELSE t
Fits(D, t) == D.state = "running" => D.t0 + D.written - t <= Capacity(D)

\* A ring of two fragments or more holds two.
LEMMA CapacityIs ==
  ASSUME NEW D \in Ring
  PROVE  Capacity(D) \in Nat /\ (D.periods >= 2 => Capacity(D) >= D.period + D.period)
<1>1. D.period \in Nat /\ D.periods \in Nat
  BY DEF Ring
<1> QED  BY <1>1, Times DEF Capacity

LEMMA EndIs ==
  ASSUME NEW D \in Ring, NEW t \in Int
  PROVE  EndOf(D, t) \in Int /\ EndOf(D, t) >= t
<1>1. D.t0 \in Nat /\ D.written \in Nat
  BY DEF Ring
<1> QED  BY <1>1 DEF EndOf

\* How much of what was written has played.
LEMMA PlayedIs ==
  ASSUME NEW t \in Int, NEW D, RingOK(D, t)
  PROVE  Played(D, t) =
           IF Plays(D) THEN IF D.t0 + D.written <= t THEN D.written ELSE t - D.t0 ELSE 0
<1>1. /\ D.t0 \in Nat /\ D.written \in Nat /\ D.t0 <= t
      /\ D.state = "xrun" => D.t0 + D.written <= t
  BY DEF RingOK, Ring
<1>2. CASE D.state = "running"
  <2>1. t - D.t0 \in Int /\ Max({t - D.t0, 0}) = t - D.t0
    BY <1>1, MaxTwo
  <2>2. Min({t - D.t0, D.written}) = IF t - D.t0 <= D.written THEN t - D.t0 ELSE D.written
    BY <2>1, <1>1, MinTwo
  <2>3. Played(D, t) = Min({t - D.t0, D.written})
    BY <1>1, <1>2, <2>1, FrameClockIs
  <2> QED  BY <1>1, <1>2, <2>2, <2>3 DEF Plays
<1>3. CASE D.state = "xrun"
  BY <1>1, <1>3, FrameClockIs DEF Plays
<1>4. CASE D.state # "running" /\ D.state # "xrun"
  BY <1>4, FrameClockIs DEF Plays
<1> QED  BY <1>2, <1>3, <1>4

\* What is queued is what has not played.
LEMMA QueuedIs ==
  ASSUME NEW t \in Int, NEW D, RingOK(D, t)
  PROVE  Queued(D, t) = EndOf(D, t) - t /\ Queued(D, t) \in Nat
<1>1. D.t0 \in Nat /\ D.written \in Nat
  BY DEF RingOK, Ring
<1> QED  BY <1>1, PlayedIs, FrameQueue DEF EndOf, Plays

\* A ring that is looked at stays as it was, or stops having played out.
LEMMA UpdatedIs ==
  ASSUME NEW t \in Int, NEW D, RingOK(D, t)
  PROVE  /\ RingOK(Updated(D, t), t) /\ EndOf(Updated(D, t), t) = EndOf(D, t)
         /\ Updated(D, t).state = "running" => Updated(D, t) = D /\ D.t0 + D.written > t
         /\ Updated(D, t) = D \/ /\ Updated(D, t) = [D EXCEPT !.state = "xrun"]
                                 /\ D.state = "running" /\ D.t0 + D.written <= t
<1>1. D.t0 \in Nat /\ D.written \in Nat /\ D \in Ring
  BY DEF RingOK, Ring
<1>2. CASE D.state = "running" /\ D.t0 + D.written <= t
  <2>1. Updated(D, t) = [D EXCEPT !.state = "xrun"]
    BY <1>1, <1>2, PlayedIs DEF Updated, Plays
  <2>2. RingOK([D EXCEPT !.state = "xrun"], t)
    BY <1>1, <1>2 DEF RingOK, Ring, Plays, States
  <2>3. [D EXCEPT !.state = "xrun"].state = "xrun"
    BY <1>1 DEF Ring
  <2>4. EndOf([D EXCEPT !.state = "xrun"], t) = t /\ EndOf(D, t) = t
    BY <1>1, <1>2, <2>3 DEF EndOf
  <2> QED  BY <1>2, <2>1, <2>2, <2>3, <2>4
<1>3. CASE ~(D.state = "running" /\ D.t0 + D.written <= t)
  <2>1. Updated(D, t) = D
    BY <1>1, <1>3, PlayedIs DEF Updated, Plays
  <2> QED  BY <1>1, <1>3, <2>1
<1> QED  BY <1>2, <1>3

\* Later the ring is as it was, and holds what it has not played since.
LEMMA RingLater ==
  ASSUME NEW t \in Int, NEW u \in Int, t <= u, NEW D, RingOK(D, t)
  PROVE  RingOK(D, u) /\ (Fits(D, t) => Fits(D, u))
<1>1. D.t0 \in Nat /\ D.written \in Nat /\ D \in Ring /\ Capacity(D) \in Nat
  BY CapacityIs DEF RingOK, Ring
<1>2. RingOK(D, u)
  BY <1>1 DEF RingOK
<1>3. Fits(D, t) => Fits(D, u)
  BY <1>1 DEF Fits
<1> QED  BY <1>2, <1>3

-----------------------------------------------------------------------------
(* The host's schedule, and the bytes that are to be heard. *)

Notes == [at : Int, byte : Nat]
HostOK(D, H, t, loose) ==
  /\ H \in SUBSET Notes
  /\ \A h \in H : t <= h.at /\ h.at < EndOf(D, t)
  /\ loose \/ \A k \in t .. EndOf(D, t) - 1 : \E h \in H : h.at = k

\* A byte is with the host, or staged at a place from p + 1 to b of S.
Holds(p, b, S, H, x) == (\E h \in H : h.byte = x) \/ (\E i \in p + 1 .. b : S[i] = x)

\* N bytes were written, and staged ones thrown away up to L.
StreamOK(p, b, params, S, H, N, L) ==
  /\ N \in Nat /\ L \in 0 .. N
  /\ \A h \in H : h.byte \in 0 .. N
  /\ \A i \in 1 .. b : S[i] \in 0 .. N
  /\ \A g, h \in H : g.byte # 0 /\ h.byte # 0 /\ g.at < h.at => g.byte < h.byte
  /\ \A i \in p + 1 .. b : S[i] # 0 => \A h \in H : h.byte < S[i]
  /\ \A i, j \in p + 1 .. b : i < j /\ S[i] # 0 /\ S[j] # 0 => S[i] < S[j]
  /\ \A x \in 1 .. N - 1 : Holds(p, b, S, H, x) =>
       Holds(p, b, S, H, x + 1) \/ (L = N /\ b = 0 /\ params /\ \A h \in H : h.byte <= x)

\* k notes at e with the bytes that follow place p of S.
Sent(e, p, S, k) == {[at |-> e + i - 1, byte |-> S[p + i]] : i \in 1 .. k}

\* Staged bytes go to the host, behind what it has.
LEMMA StreamGives ==
  ASSUME NEW p \in Nat, NEW b \in Nat, NEW params, NEW S, NEW H \in SUBSET Notes, NEW N, NEW L,
         StreamOK(p, b, params, S, H, N, L), p < b,
         NEW k \in 1 .. b - p, NEW e \in Int, \A h \in H : h.at < e
  PROVE  StreamOK(p + k, b, params, S, H \cup Sent(e, p, S, k), N, L)
<1> DEFINE G == H \cup Sent(e, p, S, k)
<1>1. /\ N \in Nat /\ L \in 0 .. N
      /\ \A h \in H : h.byte \in 0 .. N
      /\ \A i \in 1 .. b : S[i] \in 0 .. N
      /\ \A g, h \in H : g.byte # 0 /\ h.byte # 0 /\ g.at < h.at => g.byte < h.byte
      /\ \A i \in p + 1 .. b : S[i] # 0 => \A h \in H : h.byte < S[i]
      /\ \A i, j \in p + 1 .. b : i < j /\ S[i] # 0 /\ S[j] # 0 => S[i] < S[j]
      /\ \A x \in 1 .. N - 1 : Holds(p, b, S, H, x) => Holds(p, b, S, H, x + 1)
  BY DEF StreamOK
<1>2. \A i \in 1 .. k : p + i \in p + 1 .. b /\ p + i \in 1 .. b
  OBVIOUS
<1>3. \A h \in H : h.at \in Int /\ h.byte \in Nat
  BY DEF Notes
<1>4. \A i \in p + k + 1 .. b : i \in p + 1 .. b /\ i \in 1 .. b
  OBVIOUS
<1>5. ASSUME NEW g \in G
      PROVE  g \in H \/ \E i \in 1 .. k : g.at = e + i - 1 /\ g.byte = S[p + i]
  BY DEF Sent
<1>6. \A i \in 1 .. k : \E g \in G : g.at = e + i - 1 /\ g.byte = S[p + i]
  <2> TAKE i \in 1 .. k
  <2>1. [at |-> e + i - 1, byte |-> S[p + i]] \in G
    BY DEF Sent
  <2> QED  BY <2>1
<1> HIDE DEF G
<1>7. \A h \in G : h.byte \in 0 .. N
  BY <1>1, <1>2, <1>5
<1>8. ASSUME NEW g \in G, NEW h \in G, g.byte # 0, h.byte # 0, g.at < h.at
      PROVE  g.byte < h.byte
  <2>1. CASE g \in H /\ h \in H
    BY <1>1, <1>8, <2>1
  <2>2. CASE g \in H /\ h \notin H
    <3>1. PICK i \in 1 .. k : h.at = e + i - 1 /\ h.byte = S[p + i]
      BY <1>5, <2>2
    <3> QED  BY <1>1, <1>2, <1>8, <2>2, <3>1
  <2>3. CASE g \notin H /\ h \in H
    <3>1. PICK i \in 1 .. k : g.at = e + i - 1 /\ g.byte = S[p + i]
      BY <1>5, <2>3
    <3>2. h.at < e /\ h.at \in Int
      BY <1>3, <2>3
    <3> QED  BY <1>8, <3>1, <3>2
  <2>4. CASE g \notin H /\ h \notin H
    <3>1. PICK i \in 1 .. k : g.at = e + i - 1 /\ g.byte = S[p + i]
      BY <1>5, <2>4
    <3>2. PICK j \in 1 .. k : h.at = e + j - 1 /\ h.byte = S[p + j]
      BY <1>5, <2>4
    <3>3. p + i < p + j
      BY <1>8, <3>1, <3>2
    <3> QED  BY <1>1, <1>2, <1>8, <3>1, <3>2, <3>3
  <2> QED  BY <2>1, <2>2, <2>3, <2>4
<1>9. ASSUME NEW i \in p + k + 1 .. b, S[i] # 0, NEW h \in G PROVE h.byte < S[i]
  <2>1. CASE h \in H
    BY <1>1, <1>4, <1>9, <2>1
  <2>2. CASE h \notin H
    <3>1. PICK j \in 1 .. k : h.byte = S[p + j]
      BY <1>5, <2>2
    <3>2. p + j < i /\ p + j \in p + 1 .. b /\ i \in p + 1 .. b /\ p + j \in 1 .. b /\ i \in 1 .. b
      OBVIOUS
    <3>3. S[p + j] \in 0 .. N /\ S[i] \in 0 .. N
      BY <1>1, <3>2
    <3> QED  BY <1>1, <1>9, <3>1, <3>2, <3>3
  <2> QED  BY <2>1, <2>2
<1>10. \A x : Holds(p, b, S, H, x) <=> Holds(p + k, b, S, G, x)
  <2>1. ASSUME NEW x, Holds(p, b, S, H, x) PROVE Holds(p + k, b, S, G, x)
    <3>1. CASE \E h \in H : h.byte = x
      BY <3>1 DEF Holds, G
    <3>2. CASE \E i \in p + 1 .. b : S[i] = x
      <4>1. PICK i \in p + 1 .. b : S[i] = x
        BY <3>2
      <4>2. CASE i \in p + k + 1 .. b
        BY <4>1, <4>2 DEF Holds
      <4>3. CASE i \notin p + k + 1 .. b
        <5>1. i - p \in 1 .. k /\ p + (i - p) = i
          BY <4>3
        <5>2. \E g \in G : g.byte = S[p + (i - p)]
          BY <1>6, <5>1
        <5> QED  BY <4>1, <5>1, <5>2 DEF Holds
      <4> QED  BY <4>2, <4>3
    <3> QED  BY <2>1, <3>1, <3>2 DEF Holds
  <2>2. ASSUME NEW x, Holds(p + k, b, S, G, x) PROVE Holds(p, b, S, H, x)
    <3>1. CASE \E h \in G : h.byte = x
      BY <1>2, <1>5, <3>1 DEF Holds
    <3>2. CASE \E i \in p + k + 1 .. b : S[i] = x
      BY <1>4, <3>2 DEF Holds
    <3> QED  BY <2>2, <3>1, <3>2 DEF Holds
  <2> QED  BY <2>1, <2>2
<1>11. StreamOK(p + k, b, params, S, G, N, L)
  BY <1>1, <1>4, <1>7, <1>8, <1>9, <1>10 DEF StreamOK
<1> QED  BY <1>11 DEF G

\* All that was staged is given.
LEMMA StreamEmpty ==
  ASSUME NEW b \in Nat, NEW params, NEW S, NEW H, NEW N, NEW L,
         StreamOK(b, b, params, S, H, N, L), NEW T
  PROVE  StreamOK(0, 0, params, T, H, N, L)
<1>1. b + 1 .. b = {} /\ 0 + 1 .. 0 = {} /\ 1 .. 0 = {}
  OBVIOUS
<1>2. \A x : /\ Holds(b, b, S, H, x) <=> \E h \in H : h.byte = x
             /\ Holds(0, 0, T, H, x) <=> \E h \in H : h.byte = x
  BY <1>1 DEF Holds
<1> QED  BY <1>1, <1>2 DEF StreamOK

\* Nothing staged: what the buffer is does not matter.
LEMMA StreamBuffer ==
  ASSUME NEW p, NEW b \in Nat, NEW params, NEW S, NEW T, NEW H, NEW N, NEW L,
         StreamOK(p, b, params, S, H, N, L), \A i \in 1 .. b : S[i] = T[i], p \in Nat
  PROVE  StreamOK(p, b, params, T, H, N, L)
<1>1. \A i \in p + 1 .. b : i \in 1 .. b
  OBVIOUS
<1>2. \A x : Holds(p, b, S, H, x) <=> Holds(p, b, T, H, x)
  BY <1>1 DEF Holds
<1>3. \A i \in p + 1 .. b : S[i] = T[i]
  BY <1>1
<1> QED  BY <1>2, <1>3 DEF StreamOK

\* n more bytes are staged.
LEMMA StreamStages ==
  ASSUME NEW p \in Nat, NEW b \in Nat, p <= b, NEW S, NEW H \in SUBSET Notes, NEW N, NEW L,
         StreamOK(p, b, FALSE, S, H, N, L), NEW n \in Nat, NEW T,
         \A i \in 1 .. b : T[i] = S[i], \A i \in b + 1 .. b + n : T[i] = N + (i - b)
  PROVE  StreamOK(p, b + n, FALSE, T, H, N + n, L)
<1>1. /\ N \in Nat /\ L \in 0 .. N
      /\ \A h \in H : h.byte \in 0 .. N
      /\ \A i \in 1 .. b : S[i] \in 0 .. N
      /\ \A g, h \in H : g.byte # 0 /\ h.byte # 0 /\ g.at < h.at => g.byte < h.byte
      /\ \A i \in p + 1 .. b : S[i] # 0 => \A h \in H : h.byte < S[i]
      /\ \A i, j \in p + 1 .. b : i < j /\ S[i] # 0 /\ S[j] # 0 => S[i] < S[j]
      /\ \A x \in 1 .. N - 1 : Holds(p, b, S, H, x) => Holds(p, b, S, H, x + 1)
  BY DEF StreamOK
<1>2. \A i \in 1 .. b + n : i \in 1 .. b \/ i \in b + 1 .. b + n
  OBVIOUS
<1>3. \A i \in 1 .. b + n : T[i] \in 0 .. N + n /\ (i > b => T[i] > N)
  BY <1>1, <1>2
<1>4. \A i \in p + 1 .. b + n : i \in 1 .. b + n /\ (i <= b => i \in p + 1 .. b /\ i \in 1 .. b)
                                /\ (i > b => i \in b + 1 .. b + n)
  OBVIOUS
<1>5. ASSUME NEW i \in p + 1 .. b + n, T[i] # 0, NEW h \in H PROVE h.byte < T[i]
  <2>1. CASE i <= b
    BY <1>1, <1>4, <1>5, <2>1
  <2>2. CASE i > b
    BY <1>1, <1>3, <1>4, <2>2
  <2> QED  BY <2>1, <2>2
<1>6. ASSUME NEW i \in p + 1 .. b + n, NEW j \in p + 1 .. b + n, i < j, T[i] # 0, T[j] # 0
      PROVE  T[i] < T[j]
  <2>1. CASE j <= b
    BY <1>1, <1>4, <1>6, <2>1
  <2>2. CASE i <= b /\ j > b
    <3>1. T[i] \in 0 .. N /\ T[j] > N /\ T[j] \in Int
      BY <1>1, <1>3, <1>4, <2>2
    <3> QED  BY <1>1, <3>1
  <2>3. CASE i > b
    <3>1. T[i] = N + (i - b) /\ T[j] = N + (j - b)
      BY <1>4, <1>6, <2>3
    <3> QED  BY <1>1, <1>6, <3>1
  <2> QED  BY <2>1, <2>2, <2>3
<1>7. ASSUME NEW x \in 1 .. N + n - 1, Holds(p, b + n, T, H, x)
      PROVE  Holds(p, b + n, T, H, x + 1)
  <2>1. CASE x >= N
    <3>1. x + 1 - N \in 1 .. n /\ b + (x + 1 - N) \in p + 1 .. b + n
          /\ b + (x + 1 - N) \in b + 1 .. b + n
      BY <1>1, <2>1
    <3>2. T[b + (x + 1 - N)] = x + 1
      BY <1>1, <3>1
    <3> QED  BY <3>1, <3>2 DEF Holds
  <2>2. CASE x < N
    <3>1. x \in 1 .. N - 1
      BY <1>1, <2>2
    <3>2. Holds(p, b, S, H, x)
      <4>1. \A i \in p + 1 .. b + n : T[i] = x => i \in p + 1 .. b /\ S[i] = x
        BY <1>1, <1>3, <1>4, <3>1
      <4> QED  BY <1>7, <4>1 DEF Holds
    <3>3. Holds(p, b, S, H, x + 1)
      BY <1>1, <3>1, <3>2
    <3>4. \A i \in p + 1 .. b : i \in p + 1 .. b + n /\ T[i] = S[i]
      OBVIOUS
    <3> QED  BY <3>3, <3>4 DEF Holds
  <2> QED  BY <1>1, <2>1, <2>2
<1>8. N + n \in Nat /\ L \in 0 .. N + n /\ \A h \in H : h.byte \in 0 .. N + n
  BY <1>1
<1> QED  BY <1>1, <1>3, <1>5, <1>6, <1>7, <1>8 DEF StreamOK

\* Silence to a fragment's end.
LEMMA StreamPads ==
  ASSUME NEW p \in Nat, NEW b \in Nat, p <= b, b > 0, NEW params, NEW S, NEW H \in SUBSET Notes,
         NEW N, NEW L, StreamOK(p, b, params, S, H, N, L), NEW c \in Nat, b <= c, NEW T,
         \A i \in 1 .. b : T[i] = S[i], \A i \in b + 1 .. c : T[i] = 0
  PROVE  StreamOK(p, c, params, T, H, N, L)
<1>1. /\ N \in Nat /\ L \in 0 .. N
      /\ \A i \in 1 .. b : S[i] \in 0 .. N
      /\ \A i \in p + 1 .. b : S[i] # 0 => \A h \in H : h.byte < S[i]
      /\ \A i, j \in p + 1 .. b : i < j /\ S[i] # 0 /\ S[j] # 0 => S[i] < S[j]
      /\ \A x \in 1 .. N - 1 : Holds(p, b, S, H, x) => Holds(p, b, S, H, x + 1)
  BY DEF StreamOK
<1>2. \A i \in p + 1 .. c : i \in 1 .. c /\ (T[i] # 0 => i \in p + 1 .. b /\ T[i] = S[i])
  OBVIOUS
<1>3. \A i \in 1 .. c : T[i] \in 0 .. N
  <2> TAKE i \in 1 .. c
  <2>1. i \in 1 .. b \/ i \in b + 1 .. c
    OBVIOUS
  <2> QED  BY <1>1, <2>1
<1>4. \A x \in 1 .. N : Holds(p, b, S, H, x) <=> Holds(p, c, T, H, x)
  <2> TAKE x \in 1 .. N
  <2>1. \A i \in p + 1 .. b : i \in p + 1 .. c /\ T[i] = S[i]
    OBVIOUS
  <2>2. x # 0
    BY <1>1
  <2> QED  BY <1>2, <2>1, <2>2 DEF Holds
<1>5. \A x \in 1 .. N - 1 : x \in 1 .. N /\ x + 1 \in 1 .. N
  BY <1>1
<1>6. \A x \in 1 .. N - 1 : Holds(p, c, T, H, x) => Holds(p, c, T, H, x + 1)
  BY <1>1, <1>4, <1>5
<1>7. \A i, j \in p + 1 .. c : i < j /\ T[i] # 0 /\ T[j] # 0 => T[i] < T[j]
  BY <1>1, <1>2
<1>8. \A i \in p + 1 .. c : T[i] # 0 => \A h \in H : h.byte < T[i]
  BY <1>1, <1>2
<1> QED  BY <1>1, <1>3, <1>6, <1>7, <1>8 DEF StreamOK

\* The host is handed silence.
LEMMA StreamSilent ==
  ASSUME NEW p \in Nat, NEW b \in Nat, NEW params, NEW S, NEW H \in SUBSET Notes, NEW N, NEW L,
         StreamOK(p, b, params, S, H, N, L), NEW Z \in SUBSET Notes, \A z \in Z : z.byte = 0
  PROVE  StreamOK(p, b, params, S, H \cup Z, N, L)
<1>1. /\ N \in Nat /\ L \in 0 .. N
      /\ \A h \in H : h.byte \in 0 .. N
      /\ \A i \in 1 .. b : S[i] \in 0 .. N
      /\ \A g, h \in H : g.byte # 0 /\ h.byte # 0 /\ g.at < h.at => g.byte < h.byte
      /\ \A i \in p + 1 .. b : S[i] # 0 => \A h \in H : h.byte < S[i]
  BY DEF StreamOK
<1>2. \A h \in H \cup Z : h.byte \in 0 .. N /\ (h.byte # 0 => h \in H)
  BY <1>1
<1>3. \A x \in 1 .. N : Holds(p, b, S, H, x) <=> Holds(p, b, S, H \cup Z, x)
  <2> TAKE x \in 1 .. N
  <2>1. x # 0
    BY <1>1
  <2> QED  BY <1>2, <2>1 DEF Holds
<1>4. \A x \in 1 .. N - 1 : x \in 1 .. N /\ x + 1 \in 1 .. N
  BY <1>1
<1>5. \A i \in p + 1 .. b : S[i] # 0 => \A h \in H \cup Z : h.byte < S[i]
  <2>1. \A i \in p + 1 .. b : i \in 1 .. b
    OBVIOUS
  <2>2. \A i \in p + 1 .. b : S[i] # 0 => 0 < S[i]
    BY <1>1, <2>1
  <2> QED  BY <1>1, <1>2, <2>2
<1>6. \A x \in 1 .. N - 1 : \A z \in Z : z.byte <= x
  BY <1>1
<1>7. ASSUME NEW x \in 1 .. N - 1, Holds(p, b, S, H \cup Z, x)
      PROVE  \/ Holds(p, b, S, H \cup Z, x + 1)
             \/ L = N /\ b = 0 /\ params /\ \A h \in H \cup Z : h.byte <= x
  <2>1. Holds(p, b, S, H, x)
    BY <1>3, <1>4, <1>7
  <2>2. Holds(p, b, S, H, x + 1) \/ (L = N /\ b = 0 /\ params /\ \A h \in H : h.byte <= x)
    BY <2>1 DEF StreamOK
  <2> QED  BY <1>3, <1>4, <1>6, <2>2
<1>8. \A i, j \in p + 1 .. b : i < j /\ S[i] # 0 /\ S[j] # 0 => S[i] < S[j]
  BY DEF StreamOK
<1>9. \A g, h \in H \cup Z : g.byte # 0 /\ h.byte # 0 /\ g.at < h.at => g.byte < h.byte
  BY <1>1, <1>2
<1>10. \A h \in H \cup Z : h.byte \in 0 .. N
  BY <1>2
<1> QED  BY <1>1, <1>5, <1>7, <1>8, <1>9, <1>10 DEF StreamOK

\* Staged bytes are thrown away.
LEMMA StreamUnstages ==
  ASSUME NEW p \in Nat, NEW b \in Nat, NEW params, NEW S, NEW H \in SUBSET Notes, NEW N, NEW L,
         StreamOK(p, b, params, S, H, N, L), params \/ H = {}, NEW T, NEW M,
         M = IF b > 0 THEN N ELSE L
  PROVE  StreamOK(0, 0, params, T, H, N, M)
<1>1. /\ N \in Nat /\ L \in 0 .. N
      /\ \A h \in H : h.byte \in 0 .. N
      /\ \A i \in 1 .. b : S[i] \in 0 .. N
      /\ \A g, h \in H : g.byte # 0 /\ h.byte # 0 /\ g.at < h.at => g.byte < h.byte
      /\ \A i \in p + 1 .. b : S[i] # 0 => \A h \in H : h.byte < S[i]
  BY DEF StreamOK
<1>2. 0 + 1 .. 0 = {} /\ 1 .. 0 = {}
  OBVIOUS
<1>3. \A x : Holds(0, 0, T, H, x) <=> \E h \in H : h.byte = x
  BY <1>2 DEF Holds
<1>4. ASSUME NEW x \in 1 .. N - 1, Holds(0, 0, T, H, x)
      PROVE  Holds(0, 0, T, H, x + 1) \/ (M = N /\ params /\ \A h \in H : h.byte <= x)
  <2>1. Holds(p, b, S, H, x) /\ params
    BY <1>3, <1>4 DEF Holds
  <2>2. Holds(p, b, S, H, x + 1) \/ (L = N /\ b = 0 /\ \A h \in H : h.byte <= x)
    BY <2>1 DEF StreamOK
  <2>3. CASE L = N /\ b = 0 /\ \A h \in H : h.byte <= x
    BY <2>1, <2>3
  <2>4. CASE \E h \in H : h.byte = x + 1
    BY <1>3, <2>4
  <2>5. CASE \E i \in p + 1 .. b : S[i] = x + 1
    <3>1. PICK i \in p + 1 .. b : S[i] = x + 1
      BY <2>5
    <3>2. \A h \in H : h.byte < x + 1
      BY <1>1, <3>1
    <3>3. \A h \in H : h.byte <= x /\ b > 0
      BY <1>1, <3>2
    <3> QED  BY <2>1, <3>3
  <2> QED  BY <2>2, <2>3, <2>4, <2>5 DEF Holds
<1>5. M \in 0 .. N
  BY <1>1
<1> QED  BY <1>1, <1>2, <1>4, <1>5 DEF StreamOK

\* Nothing is to be heard but what is staged.
LEMMA StreamCut ==
  ASSUME NEW p \in Nat, NEW b \in Nat, NEW params, NEW par, NEW S, NEW H \in SUBSET Notes, NEW N,
         NEW L, StreamOK(p, b, params, S, H, N, L), NEW M \in 0 .. N, b > 0 => par = params
  PROVE  StreamOK(p, b, par, S, {}, N, M)
<1>1. /\ N \in Nat /\ L \in 0 .. N
      /\ \A i \in 1 .. b : S[i] \in 0 .. N
      /\ \A i \in p + 1 .. b : S[i] # 0 => \A h \in H : h.byte < S[i]
      /\ \A i, j \in p + 1 .. b : i < j /\ S[i] # 0 /\ S[j] # 0 => S[i] < S[j]
  BY DEF StreamOK
<1>2. \A x : Holds(p, b, S, {}, x) <=> \E i \in p + 1 .. b : S[i] = x
  BY DEF Holds
<1>3. ASSUME NEW x \in 1 .. N - 1, Holds(p, b, S, {}, x)
      PROVE  Holds(p, b, S, {}, x + 1)
  <2>1. PICK i \in p + 1 .. b : S[i] = x
    BY <1>2, <1>3
  <2>2. b > 0 /\ Holds(p, b, S, H, x)
    BY <2>1 DEF Holds
  <2>3. Holds(p, b, S, H, x + 1)
    BY <2>2 DEF StreamOK
  <2>4. \A h \in H : h.byte < x
    BY <1>1, <2>1
  <2>5. ~ \E h \in H : h.byte = x + 1
    BY <2>4 DEF Notes
  <2> QED  BY <2>3, <2>5 DEF Holds
<1> QED  BY <1>1, <1>3 DEF StreamOK

\* What plays is no longer to be heard.
Left(H, t) == {h \in H : h.at >= t}
LEMMA StreamLater ==
  ASSUME NEW p \in Nat, NEW b \in Nat, NEW params, NEW S, NEW H \in SUBSET Notes, NEW N,
         NEW L, StreamOK(p, b, params, S, H, N, L), NEW t \in Int
  PROVE  StreamOK(p, b, params, S, Left(H, t), N, L)
<1>1. /\ N \in Nat /\ L \in 0 .. N
      /\ \A h \in H : h.byte \in 0 .. N
      /\ \A i \in 1 .. b : S[i] \in 0 .. N
      /\ \A g, h \in H : g.byte # 0 /\ h.byte # 0 /\ g.at < h.at => g.byte < h.byte
      /\ \A i \in p + 1 .. b : S[i] # 0 => \A h \in H : h.byte < S[i]
      /\ \A i, j \in p + 1 .. b : i < j /\ S[i] # 0 /\ S[j] # 0 => S[i] < S[j]
  BY DEF StreamOK
<1>2. \A h \in Left(H, t) : h \in H /\ h.at >= t
  BY DEF Left
<1>3. \A h \in H : h.at \in Int /\ h.byte \in Int
  BY DEF Notes
<1>4. ASSUME NEW x \in 1 .. N - 1, Holds(p, b, S, Left(H, t), x)
      PROVE  \/ Holds(p, b, S, Left(H, t), x + 1)
             \/ L = N /\ b = 0 /\ params /\ \A h \in Left(H, t) : h.byte <= x
  <2>1. Holds(p, b, S, H, x)
    BY <1>2, <1>4 DEF Holds
  <2>2. Holds(p, b, S, H, x + 1) \/ (L = N /\ b = 0 /\ params /\ \A h \in H : h.byte <= x)
    BY <2>1 DEF StreamOK
  <2>3. CASE \E i \in p + 1 .. b : S[i] = x + 1
    BY <2>3 DEF Holds
  <2>4. CASE \E h \in H : h.byte = x + 1
    <3>1. PICK g \in H : g.byte = x + 1
      BY <2>4
    <3>2. CASE \E i \in p + 1 .. b : S[i] = x
      BY <1>1, <3>1, <3>2
    <3>3. CASE \E h \in Left(H, t) : h.byte = x
      <4>1. PICK h \in Left(H, t) : h.byte = x
        BY <3>3
      <4>2. h \in H /\ h.at >= t /\ h.byte # 0 /\ g.byte # 0 /\ ~(g.byte < h.byte)
        BY <1>2, <3>1, <4>1
      <4>3. ~(g.at < h.at)
        BY <1>1, <4>2
      <4>4. g.at >= t
        BY <1>3, <4>2, <4>3
      <4> QED  BY <3>1, <4>4 DEF Holds, Left
    <3> QED  BY <1>4, <3>2, <3>3 DEF Holds
  <2>5. CASE L = N /\ b = 0 /\ params /\ \A h \in H : h.byte <= x
    BY <1>2, <2>5
  <2> QED  BY <2>2, <2>3, <2>4, <2>5 DEF Holds
<1> QED  BY <1>1, <1>2, <1>4 DEF StreamOK

\* That settings are pending lets more happen.
LEMMA StreamSet ==
  ASSUME NEW p, NEW b, NEW params, NEW S, NEW H, NEW N, NEW L,
         StreamOK(p, b, params, S, H, N, L)
  PROVE  StreamOK(p, b, TRUE, S, H, N, L)
BY Zenon DEF StreamOK

\* What the host plays later.
LEMMA HostLater ==
  ASSUME NEW D \in Ring, NEW H, NEW t \in Int, NEW u \in Int, t <= u, NEW loose, HostOK(D, H, t, loose)
  PROVE  HostOK(D, Left(H, u), u, loose)
<1>1. D.t0 \in Nat /\ D.written \in Nat
  BY DEF Ring
<1>2. \A h \in H : h.at \in Int /\ t <= h.at /\ h.at < EndOf(D, t)
  BY DEF HostOK, Notes
<1>3. EndOf(D, u) = IF EndOf(D, t) > u THEN EndOf(D, t) ELSE u
  BY <1>1 DEF EndOf
<1>4. EndOf(D, t) \in Int
  BY EndIs
<1>5. \A h \in Left(H, u) : h \in H /\ u <= h.at /\ h.at < EndOf(D, u)
  BY <1>2, <1>3, <1>4 DEF Left
<1>6. ASSUME NEW k \in u .. EndOf(D, u) - 1, ~loose
      PROVE  \E h \in Left(H, u) : h.at = k
  <2>1. k \in t .. EndOf(D, t) - 1 /\ k >= u
    BY <1>3, <1>4
  <2>2. PICK h \in H : h.at = k
    BY <1>6, <2>1 DEF HostOK
  <2> QED  BY <2>1, <2>2 DEF Left
<1>7. Left(H, u) \in SUBSET Notes
  BY DEF Left, HostOK
<1> QED  BY <1>5, <1>6, <1>7 DEF HostOK

-----------------------------------------------------------------------------
(* A pass, and what is true all through it. *)

Outcomes == {"ok", "halt", "failed", "again", "signal"}
PassRec == [D : Ring, S : Seq(Nat), H : SUBSET Notes, progress : Nat, rc : Outcomes, lost : Nat,
            saved : BOOLEAN, staged : Seq(Nat), transferred : BOOLEAN, dropped : BOOLEAN,
            first : Int, halt_at : Int, need : Int]

BufferOK(D, S) == S \in Seq(Nat) /\ (D.period # 0 => Len(S) = D.period)
Begun ==
  /\ now \in Nat /\ sent \in Nat /\ RingOK(dsp, now) /\ BufferOK(dsp, staging)
  /\ HostOK(dsp, host, now, restarted)

\* The stream is the one the pass found, or a later one.
Segments(D, dropped) ==
  /\ D.segment >= dsp.segment
  /\ D.segment = dsp.segment /\ Plays(dsp) =>
       Plays(D) /\ D.t0 = dsp.t0 /\ D.written >= dsp.written
  /\ D.segment = dsp.segment /\ D.state # "setup" => dsp.state # "setup"
  /\ D.segment > dsp.segment => dropped \/ EndOf(dsp, now) = now
Fresh(D, transferred, first) ==
  IF transferred
  THEN /\ D.state = "running" /\ D.t0 + D.written > now /\ ~D.params
       /\ now <= first /\ first < EndOf(D, now)
  ELSE first = -1
Keeps(D, S) ==
  D.period = dsp.period /\ D.buffer_used >= dsp.buffer_used
  /\ \A i \in 1 .. dsp.buffer_used : S[i] = staging[i]
SavedOK(D, S, rc, saved, staged) ==
  /\ IF saved THEN staged = SubSeq(staging, 1, dsp.buffer_used) ELSE staged = <<>> /\ Keeps(D, S)
  /\ D.segment = dsp.segment /\ D.bytes = dsp.bytes =>
       Keeps(D, S) \/ (D.buffer_used = 0 /\ rc # "ok")
  /\ D.bytes >= dsp.bytes
\* The host has what it had and what was transferred, or that only.
Tells(H, transferred, dropped, first) ==
  IF dropped THEN \A h \in H : transferred /\ h.at >= first
  ELSE /\ host \subseteq H /\ \A h \in H : h \in host \/ (transferred /\ h.at >= first)
       /\ transferred => \A h \in host : h.at < first
Halts(D, rc, halt_at, need) ==
  rc = "halt" => /\ D.state = "running" /\ need \in 1 .. Capacity(D)
                 /\ halt_at = D.t0 + D.written + need - Capacity(D) /\ halt_at >= D.t0

Sound(C, mode) ==
  /\ Begun /\ C \in PassRec
  /\ RingOK(C.D, now) /\ BufferOK(C.D, C.S) /\ HostOK(C.D, C.H, now, restarted)
  /\ StreamOK(C.D.period_ptr, C.D.buffer_used, C.D.params, C.S, C.H, sent + C.progress, C.lost)
  /\ Segments(C.D, C.dropped) /\ Fresh(C.D, C.transferred, C.first)
  /\ SavedOK(C.D, C.S, C.rc, C.saved, C.staged) /\ Tells(C.H, C.transferred, C.dropped, C.first)
  /\ Halts(C.D, C.rc, C.halt_at, C.need)
  /\ mode = "force" \/ Fits(C.D, now)

\* What the parts of a pass are.
LEMMA Types ==
  ASSUME NEW C, NEW mode, Sound(C, mode)
  PROVE  /\ Begun /\ C \in PassRec
         /\ now \in Int /\ now \in Nat /\ sent \in Nat /\ dsp \in Ring /\ staging \in Seq(Nat)
         /\ host \in SUBSET Notes
         /\ C.D \in Ring /\ C.S \in Seq(Nat) /\ C.H \in SUBSET Notes /\ C.progress \in Nat
         /\ C.rc \in Outcomes /\ C.lost \in Nat /\ C.saved \in BOOLEAN /\ C.staged \in Seq(Nat)
         /\ C.transferred \in BOOLEAN /\ C.dropped \in BOOLEAN /\ C.first \in Int
         /\ C.halt_at \in Int /\ C.need \in Int
BY SMTT(40) DEF Sound, Begun, PassRec, RingOK, BufferOK, HostOK

LEMMA RingIs ==
  ASSUME NEW D \in Ring
  PROVE  /\ D.set \in Settings /\ D.params \in BOOLEAN /\ D.prepare \in BOOLEAN /\ D.period \in Nat
         /\ D.periods \in Nat /\ D.buffer_used \in Nat /\ D.period_ptr \in Nat /\ D.bytes \in Nat
         /\ D.state \in States /\ D.segment \in Nat /\ D.t0 \in Nat /\ D.written \in Nat
BY DEF Ring

\* The first n of a sequence that has them.
LEMMA Prefix ==
  ASSUME NEW T, NEW S \in Seq(T), NEW n \in Nat, n <= Len(S)
  PROVE  /\ SubSeq(S, 1, n) \in Seq(T) /\ Len(SubSeq(S, 1, n)) = n
         /\ \A i \in 1 .. n : SubSeq(S, 1, n)[i] = S[i]
<1>1. n + 1 - 1 = n /\ \A i \in 1 .. n : 1 + i - 1 = i
  OBVIOUS
<1>2. \A i \in 1 .. n : i \in 1 .. Len(S)
  BY LenProperties
<1> QED  BY <1>1, <1>2

LEMMA SamePrefix ==
  ASSUME NEW T, NEW S \in Seq(T), NEW R \in Seq(T), NEW n \in Nat, n <= Len(S), n <= Len(R),
         \A i \in 1 .. n : S[i] = R[i]
  PROVE  SubSeq(S, 1, n) = SubSeq(R, 1, n)
<1> DEFINE A == SubSeq(S, 1, n)
           B == SubSeq(R, 1, n)
<1>1. /\ A \in Seq(T) /\ Len(A) = n /\ \A i \in 1 .. n : A[i] = S[i]
      /\ B \in Seq(T) /\ Len(B) = n /\ \A i \in 1 .. n : B[i] = R[i]
  BY Prefix
<1> HIDE DEF A, B
<1>2. A = B
  BY <1>1, SeqEqual
<1> QED  BY <1>2 DEF A, B

\* The staged bytes are in the buffer.
LEMMA Fitting ==
  ASSUME NEW D, NEW t, NEW S, RingOK(D, t), BufferOK(D, S)
  PROVE  D.buffer_used \in Nat /\ D.buffer_used <= Len(S) /\ S \in Seq(Nat)
<1>1. D.period \in Nat /\ D.buffer_used \in Nat /\ D.buffer_used <= D.period /\ S \in Seq(Nat)
  BY DEF RingOK, Ring, BufferOK
<1>2. Len(S) \in Nat
  BY <1>1
<1> QED  BY <1>1, <1>2 DEF BufferOK

\* SaveStaging() keeps what is true of a pass.
LEMMA SavedIs ==
  ASSUME NEW C, NEW mode, Sound(C, mode)
  PROVE  LET G == SaveStaging(C)
         IN /\ Sound(G, mode) /\ G.saved
            /\ G.D = C.D /\ G.S = C.S /\ G.H = C.H /\ G.progress = C.progress /\ G.rc = C.rc
            /\ G.lost = C.lost /\ G.transferred = C.transferred /\ G.dropped = C.dropped
            /\ G.first = C.first
<1> DEFINE G == SaveStaging(C)
<1>1. CASE C.saved
  BY <1>1 DEF SaveStaging
<1>2. CASE ~C.saved
  <2>1. SavedOK(C.D, C.S, C.rc, C.saved, C.staged) /\ Keeps(C.D, C.S)
    BY <1>2 DEF Sound, SavedOK
  <2>2. /\ dsp.buffer_used \in Nat /\ dsp.buffer_used <= Len(staging) /\ staging \in Seq(Nat)
        /\ C.D.buffer_used <= Len(C.S) /\ C.D.buffer_used \in Nat /\ C.S \in Seq(Nat)
    BY Fitting DEF Sound, Begun
  <2>3. dsp.buffer_used <= Len(C.S)
    BY <2>1, <2>2 DEF Keeps
  <2>4. SubSeq(C.S, 1, dsp.buffer_used) = SubSeq(staging, 1, dsp.buffer_used)
    BY <2>1, <2>2, <2>3, SamePrefix DEF Keeps
  <2>5. SubSeq(C.S, 1, dsp.buffer_used) \in Seq(Nat)
    BY <2>2, <2>3, Prefix
  <2> DEFINE s == SubSeq(C.S, 1, dsp.buffer_used)
  <2>6. G = [C EXCEPT !.saved = TRUE, !.staged = s]
    BY <1>2 DEF SaveStaging
  <2>7. s = SubSeq(staging, 1, dsp.buffer_used) /\ s \in Seq(Nat)
    BY <2>4, <2>5
  <2> HIDE DEF s, G
  <2>8. /\ G \in PassRec /\ G.saved = TRUE /\ G.staged = s
        /\ G.D = C.D /\ G.S = C.S /\ G.H = C.H /\ G.progress = C.progress /\ G.rc = C.rc
        /\ G.lost = C.lost /\ G.transferred = C.transferred /\ G.dropped = C.dropped
        /\ G.first = C.first /\ G.halt_at = C.halt_at /\ G.need = C.need
    <3>1. C \in PassRec
      BY Types
    <3>2. s \in Seq(Nat)
      BY <2>7
    <3> QED  BY <2>6, <3>1, <3>2 DEF PassRec
  <2>9. SavedOK(G.D, G.S, G.rc, G.saved, G.staged)
    BY <2>1, <2>7, <2>8 DEF SavedOK
  <2>10. Sound(G, mode)
    BY <2>8, <2>9, Zenon DEF Sound
  <2> QED  BY <2>8, <2>10 DEF G
<1> QED  BY <1>1, <1>2, Types

\* Staged bytes are thrown away.
Unstages(C, G) ==
  /\ G \in PassRec /\ G.D = [C.D EXCEPT !.buffer_used = 0, !.period_ptr = 0] /\ G.S = C.S
  /\ G.H = C.H /\ G.progress = C.progress
  /\ G.lost = (IF C.D.buffer_used > 0 THEN sent + C.progress ELSE C.lost)
  /\ G.saved = C.saved /\ G.staged = C.staged /\ G.transferred = C.transferred
  /\ G.dropped = C.dropped /\ G.first = C.first
  /\ G.rc = "failed" \/ (G.rc = C.rc /\ C.rc # "halt" /\ C.D.segment > dsp.segment)

LEMMA UnstagesSound ==
  ASSUME NEW C, NEW mode, Sound(C, mode), C.saved, C.D.params \/ C.H = {},
         NEW G, Unstages(C, G)
  PROVE  Sound(G, mode)
<1>1. /\ C.D \in Ring /\ C.H \in SUBSET Notes /\ sent \in Nat /\ C.progress \in Nat /\ now \in Int
      /\ RingOK(C.D, now) /\ dsp \in Ring
  BY Types DEF Sound
<1> DEFINE D == [C.D EXCEPT !.buffer_used = 0, !.period_ptr = 0]
<1>2. /\ D \in Ring /\ D.buffer_used = 0 /\ D.period_ptr = 0 /\ D.params = C.D.params
      /\ D.prepare = C.D.prepare /\ D.period = C.D.period /\ D.periods = C.D.periods
      /\ D.bytes = C.D.bytes /\ D.state = C.D.state /\ D.segment = C.D.segment
      /\ D.t0 = C.D.t0 /\ D.written = C.D.written
  BY <1>1 DEF Ring
<1>3. G.D = D
  BY DEF Unstages
<1> HIDE DEF D
<1>4. RingOK(D, now) /\ EndOf(D, now) = EndOf(C.D, now) /\ Capacity(D) = Capacity(C.D)
  BY <1>1, <1>2, RingIs DEF RingOK, EndOf, Capacity, Plays
<1>5. BufferOK(D, G.S) /\ HostOK(D, G.H, now, restarted) /\ (Fits(C.D, now) => Fits(D, now))
  BY <1>2, <1>4, ZenonT(60) DEF Unstages, Sound, BufferOK, HostOK, Fits
<1>6. StreamOK(D.period_ptr, D.buffer_used, D.params, G.S, G.H, sent + G.progress, G.lost)
  <2>1. StreamOK(C.D.period_ptr, C.D.buffer_used, C.D.params, C.S, C.H, sent + C.progress, C.lost)
    BY DEF Sound
  <2>2. C.D.period_ptr \in Nat /\ C.D.buffer_used \in Nat
    BY <1>1, RingIs
  <2>3. PICK N : N = sent + C.progress
    OBVIOUS
  <2>4. StreamOK(C.D.period_ptr, C.D.buffer_used, C.D.params, C.S, C.H, N, C.lost)
        /\ G.lost = IF C.D.buffer_used > 0 THEN N ELSE C.lost
    BY <2>1, <2>3 DEF Unstages
  <2>5. StreamOK(0, 0, C.D.params, G.S, C.H, N, G.lost)
    BY <2>4, <2>2, <1>1, StreamUnstages
  <2> QED  BY <2>5, <2>3, <1>2 DEF Unstages
<1>7. Segments(D, G.dropped) /\ Fresh(D, G.transferred, G.first)
      /\ Tells(G.H, G.transferred, G.dropped, G.first)
  BY <1>2, <1>4, Zenon DEF Unstages, Sound, Segments, Fresh, Tells, Plays
<1>8. SavedOK(D, G.S, G.rc, G.saved, G.staged)
  <2>1. SavedOK(C.D, C.S, C.rc, C.saved, C.staged)
    BY DEF Sound
  <2>2. G.rc # "ok" \/ D.segment # dsp.segment
    BY <1>1, <1>2, RingIs DEF Unstages
  <2> QED  BY <2>1, <2>2, <1>2 DEF SavedOK, Unstages
<1>9. Halts(D, G.rc, G.halt_at, G.need)
  BY DEF Halts, Unstages
<1>10. Begun /\ G \in PassRec /\ (mode = "force" \/ Fits(C.D, now))
  BY DEF Sound, Unstages
<1> QED  BY <1>3, <1>4, <1>5, <1>6, <1>7, <1>8, <1>9, <1>10, Zenon DEF Sound

LEMMA UnstagedIs ==
  ASSUME NEW C \in PassRec, sent \in Nat
  PROVE  LET G == Unstaged(C)
         IN /\ G \in PassRec /\ G.D = [C.D EXCEPT !.buffer_used = 0, !.period_ptr = 0] /\ G.S = C.S
            /\ G.H = C.H /\ G.progress = C.progress
            /\ G.lost = (IF C.D.buffer_used > 0 THEN sent + C.progress ELSE C.lost)
            /\ G.saved = C.saved /\ G.staged = C.staged /\ G.transferred = C.transferred
            /\ G.dropped = C.dropped /\ G.first = C.first /\ G.rc = C.rc
            /\ G.halt_at = C.halt_at /\ G.need = C.need
<1> DEFINE D == [C.D EXCEPT !.buffer_used = 0, !.period_ptr = 0]
           L == IF C.D.buffer_used > 0 THEN sent + C.progress ELSE C.lost
           G == Unstaged(C)
<1>1. C.D \in Ring /\ C.progress \in Nat /\ C.lost \in Nat
  BY DEF PassRec
<1>2. D \in Ring
  BY <1>1 DEF Ring
<1>3. L \in Nat
  BY <1>1
<1>4. G = [C EXCEPT !.D = D, !.lost = L]
  BY DEF Unstaged, PassRec
<1> HIDE DEF D, L, G
<1>5. /\ G \in PassRec /\ G.D = D /\ G.S = C.S /\ G.H = C.H /\ G.progress = C.progress
      /\ G.lost = L
      /\ G.saved = C.saved /\ G.staged = C.staged /\ G.transferred = C.transferred
      /\ G.dropped = C.dropped /\ G.first = C.first /\ G.rc = C.rc
      /\ G.halt_at = C.halt_at /\ G.need = C.need
  BY <1>2, <1>3, <1>4 DEF PassRec
<1> QED  BY <1>5 DEF D, L, G

\* The host has nothing of a ring that has played out.
LEMMA Silent ==
  ASSUME NEW D \in Ring, NEW H, NEW t \in Int, NEW loose, HostOK(D, H, t, loose), EndOf(D, t) = t
  PROVE  H = {}
<1>1. \A h \in H : h.at \in Int /\ t <= h.at /\ h.at < t
  BY DEF HostOK, Notes
<1> QED  BY <1>1

\* What a pass may still do to the ring when nothing was transferred, and what stays.
Same(C, G) ==
  /\ G.progress = C.progress /\ G.transferred = C.transferred /\ G.first = C.first
  /\ G.saved = C.saved /\ G.staged = C.staged /\ G.rc = C.rc
Stream(C, G, state) ==
  /\ G \in PassRec /\ Same(C, G) /\ G.S = C.S /\ G.H = {}
  /\ G.D.state = state /\ G.D.written = 0 /\ G.D.t0 <= now /\ G.D.segment = C.D.segment + 1
  /\ G.D.set = C.D.set /\ G.D.params = C.D.params /\ G.D.period = C.D.period
  /\ G.D.periods = C.D.periods /\ G.D.buffer_used = C.D.buffer_used
  /\ G.D.period_ptr = C.D.period_ptr /\ G.D.bytes = C.D.bytes
  /\ \/ state = "setup" /\ (G.D.params \/ G.D.prepare)
     \/ state = "prepared" /\ ~G.D.prepare /\ G.D.period > 0
  /\ \/ G.dropped = C.dropped /\ EndOf(C.D, now) = now /\ G.lost = C.lost
     \/ G.dropped = TRUE /\ G.lost = sent + C.progress

LEMMA StreamSound ==
  ASSUME NEW C, NEW mode, Sound(C, mode), ~C.transferred, C.rc # "halt",
         NEW G, NEW state, Stream(C, G, state)
  PROVE  Sound(G, mode)
<1>1. /\ C.D \in Ring /\ C.H \in SUBSET Notes /\ sent \in Nat /\ C.progress \in Nat /\ now \in Int
      /\ RingOK(C.D, now) /\ dsp \in Ring /\ C.lost \in Nat
  BY Types DEF Sound
<1>2. G \in PassRec /\ G.D \in Ring
  BY DEF Stream, PassRec
<1>3. ~Plays(G.D) /\ G.D.state # "running" /\ G.D.state # "xrun"
  BY DEF Stream, Plays
<1>4. RingOK(G.D, now)
  BY <1>1, <1>2, <1>3 DEF RingOK, Stream
<1>5. EndOf(G.D, now) = now /\ Fits(G.D, now)
  BY <1>3, Zenon DEF EndOf, Fits
<1>6. BufferOK(G.D, G.S) /\ HostOK(G.D, G.H, now, restarted)
  <2>1. BufferOK(G.D, G.S)
    BY DEF Sound, BufferOK, Stream
  <2>2. G.H = {} /\ now .. now - 1 = {}
    BY <1>1 DEF Stream
  <2> QED  BY <1>5, <2>1, <2>2 DEF HostOK
<1>7. StreamOK(G.D.period_ptr, G.D.buffer_used, G.D.params, G.S, G.H, sent + G.progress, G.lost)
  <2>1. PICK p, b, N : p = C.D.period_ptr /\ b = C.D.buffer_used /\ N = sent + C.progress
    OBVIOUS
  <2>2. StreamOK(p, b, C.D.params, C.S, C.H, N, C.lost) /\ p \in Nat /\ b \in Nat
    BY <1>1, <2>1, RingIs DEF Sound
  <2>3. C.lost \in 0 .. N /\ N \in Nat
    BY <2>2 DEF StreamOK
  <2>4. G.lost \in 0 .. N
    BY <2>1, <2>3 DEF Stream
  <2>5. StreamOK(p, b, C.D.params, C.S, {}, N, G.lost)
    BY <1>1, <2>2, <2>4, StreamCut
  <2>6. /\ G.D.period_ptr = p /\ G.D.buffer_used = b /\ G.D.params = C.D.params /\ G.S = C.S
        /\ G.H = {} /\ sent + G.progress = N
    BY <2>1 DEF Stream, Same
  <2> QED  BY <2>5, <2>6
<1>8. Segments(C.D, C.dropped) /\ Tells(C.H, C.transferred, C.dropped, C.first)
      /\ HostOK(C.D, C.H, now, restarted) /\ RingOK(dsp, now)
  BY DEF Sound, Begun
<1>9. Segments(G.D, G.dropped)
  <2>1. G.D.segment = C.D.segment + 1 /\ C.D.segment \in Nat /\ dsp.segment \in Nat
    BY <1>1, RingIs DEF Stream
  <2>2. G.D.segment > dsp.segment
    BY <1>8, <2>1 DEF Segments
  <2>3. ASSUME EndOf(C.D, now) = now PROVE C.dropped \/ EndOf(dsp, now) = now
    <3>1. CASE C.D.segment > dsp.segment
      BY <1>8, <3>1 DEF Segments
    <3>2. CASE C.D.segment = dsp.segment
      <4>1. CASE dsp.state # "running"
        BY <4>1 DEF EndOf
      <4>2. CASE dsp.state = "running"
        <5>1. Plays(C.D) /\ C.D.t0 = dsp.t0 /\ C.D.written >= dsp.written
          BY <1>8, <3>2, <4>2 DEF Segments, Plays
        <5>2. C.D.t0 + C.D.written <= now
          BY <1>1, <2>3, <5>1, RingIs DEF EndOf, RingOK, Plays
        <5> QED  BY <1>1, <5>1, <5>2, RingIs DEF EndOf
      <4> QED  BY <4>1, <4>2
    <3> QED  BY <1>8, <2>1, <3>1, <3>2 DEF Segments
  <2>4. G.dropped \/ EndOf(dsp, now) = now
    BY <2>3 DEF Stream
  <2> QED  BY <2>1, <2>2, <2>4 DEF Segments
<1>10. Fresh(G.D, G.transferred, G.first)
  BY DEF Sound, Fresh, Stream, Same
<1>11. SavedOK(G.D, G.S, G.rc, G.saved, G.staged)
  <2>1. SavedOK(C.D, C.S, C.rc, C.saved, C.staged)
    BY DEF Sound
  <2>2. G.D.segment # dsp.segment
    BY <1>1, <1>8, RingIs DEF Stream, Segments
  <2> QED  BY <2>1, <2>2 DEF SavedOK, Stream, Same, Keeps
<1>12. Tells(G.H, G.transferred, G.dropped, G.first)
  <2>1. CASE G.dropped
    BY <2>1 DEF Tells, Stream
  <2>2. CASE ~G.dropped
    <3>1. ~C.dropped /\ EndOf(C.D, now) = now
      BY <2>2 DEF Stream
    <3>2. C.H = {}
      BY <1>1, <1>8, <3>1, Silent
    <3> QED  BY <1>8, <2>2, <3>1, <3>2 DEF Tells, Stream, Same
  <2> QED  BY <2>1, <2>2
<1>13. Halts(G.D, G.rc, G.halt_at, G.need)
  BY DEF Halts, Stream, Same
<1> QED  BY <1>2, <1>4, <1>5, <1>6, <1>7, <1>9, <1>10, <1>11, <1>12, <1>13, Zenon DEF Sound

LEMMA StoppedIs ==
  ASSUME NEW D \in Ring, NEW state \in States
  PROVE  LET U == Stopped(D, state)
         IN /\ U \in Ring /\ U.state = state /\ U.written = 0 /\ U.t0 = 0
            /\ U.segment = D.segment + 1 /\ U.set = D.set /\ U.params = D.params
            /\ U.prepare = D.prepare /\ U.period = D.period /\ U.periods = D.periods
            /\ U.buffer_used = D.buffer_used /\ U.period_ptr = D.period_ptr /\ U.bytes = D.bytes
<1> DEFINE n == D.segment + 1
           U == Stopped(D, state)
<1>1. n \in Nat
  BY DEF Ring
<1>2. U = [D EXCEPT !.state = state, !.written = 0, !.t0 = 0, !.segment = n]
  BY DEF Stopped, Ring
<1> HIDE DEF n, U
<1>3. U \in Ring
  BY <1>1, <1>2 DEF Ring
<1>4. U.segment = n /\ U.state = state /\ U.written = 0 /\ U.t0 = 0
  BY <1>2 DEF Ring
<1>5. /\ U.set = D.set /\ U.params = D.params
      /\ U.prepare = D.prepare /\ U.period = D.period /\ U.periods = D.periods
      /\ U.buffer_used = D.buffer_used /\ U.period_ptr = D.period_ptr /\ U.bytes = D.bytes
  BY <1>2 DEF Ring
<1> QED  BY <1>3, <1>4, <1>5 DEF n, U

\* DropRing() leaves a stopped stream and nothing to be heard.
LEMMA DropRingIs ==
  ASSUME NEW C, NEW mode, Sound(C, mode), ~C.transferred, C.rc = "ok",
         C.D.params \/ C.D.prepare
  PROVE  LET G == DropRing(C)
         IN Sound(G, mode) /\ Stream(C, G, "setup")
<1> DEFINE D == Stopped(C.D, "setup")
           G == DropRing(C)
<1>1. /\ C.D \in Ring /\ C.H \in SUBSET Notes /\ sent \in Nat /\ C.progress \in Nat /\ now \in Nat
      /\ RingOK(C.D, now) /\ C \in PassRec /\ HostOK(C.D, C.H, now, restarted)
  BY Types DEF Sound
<1>2. /\ D \in Ring /\ D.state = "setup" /\ D.written = 0 /\ D.t0 = 0
      /\ D.segment = C.D.segment + 1 /\ D.set = C.D.set /\ D.params = C.D.params
      /\ D.prepare = C.D.prepare /\ D.period = C.D.period /\ D.periods = C.D.periods
      /\ D.buffer_used = C.D.buffer_used /\ D.period_ptr = C.D.period_ptr /\ D.bytes = C.D.bytes
  BY <1>1, StoppedIs DEF States
<1>3. Queued(C.D, now) = EndOf(C.D, now) - now /\ Queued(C.D, now) \in Nat
  BY <1>1, QueuedIs
<1> HIDE DEF D
<1>4. CASE Queued(C.D, now) > 0
  <2>1. Cut(C.H, now) = {}
    BY <1>1 DEF Cut, HostOK, Notes
  <2> DEFINE n == sent + C.progress
  <2>2. n \in Nat
    BY <1>1
  <2>3. G = [C EXCEPT !.D = D, !.H = {}, !.dropped = TRUE, !.lost = n]
    BY <1>1, <1>4, <2>1 DEF DropRing, D, PassRec
  <2> HIDE DEF n, G
  <2>4. /\ G \in PassRec /\ G.D = D /\ G.H = {} /\ G.dropped = TRUE /\ G.lost = n /\ G.S = C.S
        /\ Same(C, G)
    BY <1>1, <1>2, <2>2, <2>3 DEF PassRec, Same
  <2>5. Stream(C, G, "setup")
    BY <1>1, <1>2, <2>4 DEF Stream, n
  <2>6. Sound(G, mode)
    BY <2>5, StreamSound
  <2> QED  BY <2>5, <2>6 DEF G
<1>5. CASE ~(Queued(C.D, now) > 0)
  <2>1. EndOf(C.D, now) = now
    BY <1>1, <1>3, <1>5, EndIs
  <2>2. C.H = {}
    BY <1>1, <2>1, Silent
  <2>3. G = [C EXCEPT !.D = D]
    BY <1>1, <1>5 DEF DropRing, D
  <2> HIDE DEF G
  <2>4. /\ G \in PassRec /\ G.D = D /\ G.H = {} /\ G.dropped = C.dropped /\ G.lost = C.lost
        /\ G.S = C.S /\ Same(C, G)
    BY <1>1, <1>2, <2>2, <2>3 DEF PassRec, Same
  <2>5. Stream(C, G, "setup")
    BY <1>1, <1>2, <2>1, <2>4 DEF Stream
  <2>6. Sound(G, mode)
    BY <2>5, StreamSound
  <2> QED  BY <2>5, <2>6 DEF G
<1> QED  BY <1>4, <1>5

LEMMA ResizedIs ==
  ASSUME NEW S \in Seq(Nat), NEW n \in Nat
  PROVE  /\ Resized(S, n) \in Seq(Nat) /\ Len(Resized(S, n)) = n
         /\ \A i \in 1 .. n : Resized(S, n)[i] = IF i <= Len(S) THEN S[i] ELSE 0
<1> DEFINE R == Resized(S, n)
<1>1. \A i \in 1 .. n : (IF i <= Len(S) THEN S[i] ELSE 0) \in Nat
  OBVIOUS
<1>2. R = [i \in 1 .. n |-> IF i <= Len(S) THEN S[i] ELSE 0]
  BY DEF Resized
<1>3. R \in [1 .. n -> Nat]
  BY <1>1, <1>2
<1>4. R \in Seq(Nat) /\ Len(R) = n
  BY <1>3, <1>2
<1> QED  BY <1>2, <1>4

LEMMA Failed ==
  ASSUME NEW C, NEW mode, Sound(C, mode)
  PROVE  LET G == [C EXCEPT !.rc = "failed"]
         IN /\ Sound(G, mode) /\ G.rc = "failed" /\ G.D = C.D /\ G.progress = C.progress
            /\ G.transferred = C.transferred
<1> DEFINE G == [C EXCEPT !.rc = "failed"]
<1>1. C \in PassRec
  BY Types
<1>2. /\ G \in PassRec /\ G.rc = "failed" /\ G.D = C.D /\ G.S = C.S /\ G.H = C.H
      /\ G.progress = C.progress /\ G.lost = C.lost /\ G.saved = C.saved /\ G.staged = C.staged
      /\ G.transferred = C.transferred /\ G.dropped = C.dropped /\ G.first = C.first
      /\ G.halt_at = C.halt_at /\ G.need = C.need
  BY <1>1 DEF PassRec, Outcomes
<1> HIDE DEF G
<1>3. SavedOK(G.D, G.S, G.rc, G.saved, G.staged) /\ Halts(G.D, G.rc, G.halt_at, G.need)
  BY <1>2 DEF Sound, SavedOK, Halts
<1>4. Sound(G, mode)
  BY <1>2, <1>3, Zenon DEF Sound
<1> QED  BY <1>2, <1>4 DEF G

GeometryOK(g) ==
  g.fails \in {"no", "early", "late"} /\ g.period \in Nat \ {0} /\ g.periods \in Nat \ {0, 1}

\* Fragments are configured for a stream that is stopped, with nothing staged.
LEMMA ConfiguredIs ==
  ASSUME NEW C, NEW mode, Sound(C, mode), C.rc = "ok", C.H = {}, C.D.state = "setup",
         C.D.buffer_used = 0, C.D.period_ptr = 0, C.D.segment > dsp.segment, C.saved,
         ~C.transferred, NEW g, GeometryOK(g), g.fails = "no"
  PROVE  LET G == Configured(C, g)
         IN /\ Sound(G, mode) /\ G.rc = "ok" /\ ~G.D.params /\ G.progress = C.progress
            /\ G.transferred = C.transferred
<1> DEFINE P == [C.D EXCEPT !.period = g.period, !.periods = g.periods, !.params = FALSE,
                            !.prepare = TRUE]
           R == Resized(C.S, g.period)
           G == Configured(C, g)
<1>1. /\ C \in PassRec /\ C.D \in Ring /\ C.S \in Seq(Nat) /\ RingOK(C.D, now) /\ now \in Nat
      /\ dsp \in Ring /\ g.period \in Nat /\ g.period > 0 /\ g.periods \in Nat /\ g.periods >= 2
      /\ sent \in Nat /\ C.progress \in Nat
  <2>1. /\ C \in PassRec /\ C.D \in Ring /\ C.S \in Seq(Nat) /\ now \in Nat
        /\ dsp \in Ring /\ sent \in Nat /\ C.progress \in Nat
    BY Types
  <2>2. g.period \in Nat /\ g.period > 0 /\ g.periods \in Nat /\ g.periods >= 2
    BY DEF GeometryOK
  <2> QED  BY <2>1, <2>2 DEF Sound
<1>2. R \in Seq(Nat) /\ Len(R) = g.period
  BY <1>1, ResizedIs
<1>3. /\ P \in Ring /\ P.params = FALSE /\ P.prepare = TRUE /\ P.period = g.period
      /\ P.periods = g.periods
      /\ P.buffer_used = 0 /\ P.period_ptr = 0 /\ P.bytes = C.D.bytes /\ P.state = "setup"
      /\ P.segment = C.D.segment /\ P.t0 = C.D.t0 /\ P.written = C.D.written
  BY <1>1 DEF Ring
<1>4. G = [C EXCEPT !.D = P, !.S = R]
  BY <1>1 DEF Configured, PassRec
<1> HIDE DEF P, R, G
<1>5. /\ G \in PassRec /\ G.D = P /\ G.S = R /\ G.H = C.H
      /\ G.progress = C.progress /\ G.lost = C.lost /\ G.saved = C.saved /\ G.staged = C.staged
      /\ G.transferred = C.transferred /\ G.dropped = C.dropped /\ G.first = C.first
      /\ G.halt_at = C.halt_at /\ G.need = C.need /\ G.rc = C.rc
  BY <1>1, <1>2, <1>3, <1>4 DEF PassRec
<1>6. RingOK(P, now) /\ EndOf(P, now) = now /\ Fits(P, now) /\ BufferOK(P, R)
  BY <1>1, <1>2, <1>3, RingIs DEF RingOK, Plays, EndOf, Fits, BufferOK
<1>7. HostOK(P, {}, now, restarted)
  <2>1. now .. now - 1 = {}
    BY <1>1
  <2> QED  BY <2>1, <1>6 DEF HostOK
<1>8. StreamOK(0, 0, FALSE, R, {}, sent + C.progress, C.lost)
  <2>1. StreamOK(0, 0, C.D.params, C.S, {}, sent + C.progress, C.lost)
    BY DEF Sound
  <2>2. 1 .. 0 = {} /\ 0 + 1 .. 0 = {}
    OBVIOUS
  <2>3. \A x : ~Holds(0, 0, R, {}, x)
    BY <2>2 DEF Holds
  <2> QED  BY <2>1, <2>2, <2>3 DEF StreamOK
<1>9. Segments(P, C.dropped) /\ Fresh(P, C.transferred, C.first) /\ Halts(P, C.rc, C.halt_at, C.need)
      /\ Tells({}, C.transferred, C.dropped, C.first)
  BY <1>1, <1>3, RingIs DEF Sound, Segments, Fresh, Halts, Plays
<1>10. SavedOK(P, R, C.rc, C.saved, C.staged)
  <2>1. SavedOK(C.D, C.S, C.rc, C.saved, C.staged)
    BY DEF Sound
  <2>2. P.segment # dsp.segment
    BY <1>1, <1>3, RingIs
  <2> QED  BY <2>1, <2>2, <1>3 DEF SavedOK
<1>11. Sound(G, mode)
  <2>1. Begun
    BY DEF Sound
  <2> QED  BY <2>1, <1>3, <1>5, <1>6, <1>7, <1>8, <1>9, <1>10 DEF Sound
<1> QED  BY <1>3, <1>5, <1>11 DEF G

\* A pass begins with what is there.
LEMMA BeginIs ==
  ASSUME Begun, NEW p \in Nat, NEW mode, lost \in Nat, mode = "force" \/ Fits(dsp, now),
         StreamOK(dsp.period_ptr, dsp.buffer_used, dsp.params, staging, host, sent + p, lost)
  PROVE  LET C == BeginPass(p)
         IN /\ Sound(C, mode) /\ C.rc = "ok" /\ C.progress = p /\ ~C.transferred /\ ~C.dropped
            /\ C.D = dsp /\ C.S = staging /\ C.H = host /\ C.lost = lost /\ ~C.saved
<1> DEFINE C == BeginPass(p)
<1>1. /\ dsp \in Ring /\ staging \in Seq(Nat) /\ host \in SUBSET Notes /\ RingOK(dsp, now)
      /\ HostOK(dsp, host, now, restarted) /\ BufferOK(dsp, staging)
  BY DEF Begun, RingOK, BufferOK, HostOK
<1>2. /\ C.D = dsp /\ C.S = staging /\ C.H = host /\ C.progress = p /\ C.rc = "ok" /\ C.lost = lost
      /\ C.saved = FALSE /\ C.staged = <<>> /\ C.transferred = FALSE /\ C.dropped = FALSE
      /\ C.first = -1 /\ C.halt_at = 0 /\ C.need = 0
  BY DEF BeginPass
<1>3. C \in PassRec
  <2>1. <<>> \in Seq(Nat)
    OBVIOUS
  <2>2. "ok" \in Outcomes
    BY DEF Outcomes
  <2> QED  BY <1>1, <2>1, <2>2 DEF BeginPass, PassRec
<1> HIDE DEF C
<1>4. Segments(dsp, FALSE) /\ Fresh(dsp, FALSE, -1) /\ Tells(host, FALSE, FALSE, -1)
      /\ Halts(dsp, "ok", 0, 0)
  BY <1>1, RingIs DEF Segments, Fresh, Tells, Halts, Plays, RingOK, States
<1>5. SavedOK(dsp, staging, "ok", FALSE, <<>>)
  BY <1>1, RingIs DEF SavedOK, Keeps
<1>6. Sound(C, mode)
  BY <1>1, <1>2, <1>3, <1>4, <1>5 DEF Sound
<1> QED  BY <1>2, <1>6 DEF C

\* ApplyParams() leads to set parameters, or fails.
LEMMA ApplyIs ==
  ASSUME NEW C, NEW mode, Sound(C, mode), C.rc = "ok"
  PROVE  LET G == ApplyParams(C)
         IN /\ Sound(G, mode) /\ G.rc \in {"ok", "failed"} /\ (G.rc = "ok" => ~G.D.params)
            /\ G.progress = C.progress /\ G.transferred = C.transferred
<1>1. CASE ~C.D.params
  <2>1. ApplyParams(C) = C
    BY <1>1 DEF ApplyParams
  <2> QED  BY <1>1, <2>1
<1>2. CASE C.D.params
  <2> DEFINE g == Geometry[C.D.set]
             B == IF g.fails = "early" THEN C ELSE DropRing(C)
             X == SaveStaging(B)
             U == Unstaged(X)
             G == Configured(U, g)
  <2>1. GeometryOK(g)
    <3>1. C.D.set \in Settings
      BY Types, RingIs
    <3> QED  BY <3>1, DspAssumption DEF GeometryOK
  <2>2. ApplyParams(C) = G
    BY <1>2 DEF ApplyParams
  <2>3. ~C.transferred
    BY <1>2 DEF Sound, Fresh
  <2> HIDE DEF g
  <2>4. CASE g.fails = "early"
    <3>1. Sound(X, mode) /\ X.saved /\ X.D = C.D /\ X.progress = C.progress
          /\ X.transferred = C.transferred
      BY <2>4, SavedIs
    <3> HIDE DEF X
    <3>2. X \in PassRec /\ sent \in Nat
      BY <3>1, Types
    <3>3. G = [U EXCEPT !.rc = "failed"]
      BY <2>4 DEF Configured
    <3>4. Unstages(X, G)
      <4>1. /\ U \in PassRec /\ U.D = [X.D EXCEPT !.buffer_used = 0, !.period_ptr = 0]
            /\ U.S = X.S /\ U.H = X.H /\ U.progress = X.progress
            /\ U.lost = (IF X.D.buffer_used > 0 THEN sent + X.progress ELSE X.lost)
            /\ U.saved = X.saved /\ U.staged = X.staged /\ U.transferred = X.transferred
            /\ U.dropped = X.dropped /\ U.first = X.first
        BY <3>2, UnstagedIs
      <4> HIDE DEF U, G
      <4>2. /\ G \in PassRec /\ G.rc = "failed" /\ G.D = U.D /\ G.S = U.S /\ G.H = U.H
            /\ G.progress = U.progress /\ G.lost = U.lost /\ G.saved = U.saved
            /\ G.staged = U.staged /\ G.transferred = U.transferred /\ G.dropped = U.dropped
            /\ G.first = U.first
        BY <3>3, <4>1 DEF PassRec, Outcomes
      <4> QED  BY <4>1, <4>2, Zenon DEF Unstages
    <3> HIDE DEF G
    <3>5. Sound(G, mode)
      BY <1>2, <3>1, <3>4, UnstagesSound
    <3>6. G.rc = "failed" /\ G.progress = C.progress /\ G.transferred = C.transferred
      <4>1. U.rc \in Outcomes /\ U \in PassRec
        BY <3>2, UnstagedIs, Types DEF PassRec
      <4>2. G.rc = "failed"
        BY <3>3, <4>1 DEF PassRec
      <4> QED  BY <3>1, <3>4, <4>2 DEF Unstages
    <3> QED  BY <2>2, <3>5, <3>6
  <2>5. CASE g.fails # "early"
    <3>1. B = DropRing(C)
      BY <2>5
    <3>2. Sound(B, mode) /\ Stream(C, B, "setup")
      BY <1>2, <2>3, <3>1, DropRingIs
    <3>3. /\ B.D.state = "setup" /\ B.H = {} /\ B.D.segment = C.D.segment + 1 /\ B.rc = "ok"
          /\ B.progress = C.progress /\ B.transferred = C.transferred
      BY <3>2 DEF Stream, Same
    <3> HIDE DEF B
    <3>4. Sound(X, mode) /\ X.saved /\ X.D = B.D /\ X.progress = B.progress /\ X.rc = B.rc
          /\ X.transferred = B.transferred /\ X.H = B.H
      BY <3>2, SavedIs
    <3> HIDE DEF X
    <3>5. X \in PassRec /\ sent \in Nat /\ X.D \in Ring
      BY <3>4, Types
    <3>6. X.D.segment > dsp.segment
      <4>1. C.D.segment >= dsp.segment
        BY DEF Sound, Segments
      <4>2. C.D \in Ring /\ dsp \in Ring
        BY Types
      <4> QED  BY <3>3, <3>4, <4>1, <4>2, RingIs
    <3>7. Unstages(X, U)
      <4>1. /\ U \in PassRec /\ U.D = [X.D EXCEPT !.buffer_used = 0, !.period_ptr = 0]
            /\ U.S = X.S /\ U.H = X.H /\ U.progress = X.progress
            /\ U.lost = (IF X.D.buffer_used > 0 THEN sent + X.progress ELSE X.lost)
            /\ U.saved = X.saved /\ U.staged = X.staged /\ U.transferred = X.transferred
            /\ U.dropped = X.dropped /\ U.first = X.first /\ U.rc = X.rc
        BY <3>5, UnstagedIs
      <4>2. X.rc # "halt"
        BY <3>3, <3>4
      <4> HIDE DEF U
      <4> QED  BY <3>6, <4>1, <4>2, Zenon DEF Unstages
    <3>8. U.rc = "ok"
      BY <3>3, <3>4, <3>5, UnstagedIs
    <3> HIDE DEF U
    <3>9. Sound(U, mode)
      BY <3>3, <3>4, <3>7, UnstagesSound
    <3>10. /\ U.H = {} /\ U.D.buffer_used = 0 /\ U.D.period_ptr = 0 /\ U.D.state = "setup"
           /\ U.D.segment > dsp.segment /\ U.saved /\ ~U.transferred
           /\ U.progress = C.progress /\ U.transferred = C.transferred
      BY <2>3, <3>3, <3>4, <3>5, <3>6, <3>7 DEF Unstages, Ring
    <3>11. CASE g.fails = "no"
      <4>1. /\ Sound(G, mode) /\ G.rc = "ok" /\ ~G.D.params /\ G.progress = U.progress
            /\ G.transferred = U.transferred
        BY <2>1, <3>8, <3>9, <3>10, <3>11, ConfiguredIs
      <4> QED  BY <2>2, <3>10, <4>1
    <3>12. CASE g.fails # "no"
      <4>1. G = [U EXCEPT !.rc = "failed"]
        BY <3>12 DEF Configured
      <4>2. /\ Sound(G, mode) /\ G.rc = "failed" /\ G.progress = U.progress
            /\ G.transferred = U.transferred
        BY <3>9, <4>1, Failed
      <4> QED  BY <2>2, <3>10, <4>2
    <3> QED  BY <3>11, <3>12
  <2> QED  BY <2>4, <2>5
<1> QED  BY <1>1, <1>2

\* A prepared stream, with nothing staged.
LEMMA PrepareIs ==
  ASSUME NEW C, NEW mode, Sound(C, mode), C.rc = "ok", C.D.prepare, ~C.D.params
  PROVE  LET G == Prepare(C)
         IN /\ Sound(G, mode) /\ G.rc = "ok" /\ ~G.D.params /\ ~G.D.prepare
            /\ G.D.state = "prepared" /\ G.D.period = C.D.period /\ G.D.buffer_used = 0
            /\ G.D.period_ptr = 0 /\ G.D.periods = C.D.periods
            /\ G.progress = C.progress /\ G.transferred = C.transferred
<1> DEFINE X == SaveStaging(C)
           U == Unstaged(X)
           P == [Stopped(X.D, "prepared") EXCEPT !.prepare = FALSE]
           Y == [X EXCEPT !.D = P]
           Q == [P EXCEPT !.buffer_used = 0, !.period_ptr = 0]
           G == Prepare(C)
<1>1. C.D.state = "setup" /\ ~C.transferred /\ C.D \in Ring /\ C.D.period > 0
  <2>1. RingOK(C.D, now) /\ Fresh(C.D, C.transferred, C.first)
    BY DEF Sound
  <2> QED  BY <2>1 DEF RingOK, Fresh
<1>2. EndOf(C.D, now) = now
  BY <1>1 DEF EndOf
<1>3. C.H = {}
  <2>1. HostOK(C.D, C.H, now, restarted) /\ now \in Int
    BY Types DEF Sound
  <2> QED  BY <1>1, <1>2, <2>1, Silent
<1>4. /\ Sound(X, mode) /\ X.saved /\ X.D = C.D /\ X.H = C.H /\ X.progress = C.progress
      /\ X.rc = C.rc /\ X.lost = C.lost /\ X.transferred = C.transferred
  BY SavedIs
<1>5. G = [U EXCEPT !.D = [Stopped(@, "prepared") EXCEPT !.prepare = FALSE]]
  BY DEF Prepare
<1> HIDE DEF X, G
<1>6. X \in PassRec /\ X.D \in Ring /\ sent \in Nat /\ now \in Nat
  BY <1>4, Types
<1>7. /\ P \in Ring /\ P.state = "prepared" /\ P.written = 0 /\ P.t0 = 0
      /\ P.segment = X.D.segment + 1 /\ P.set = X.D.set /\ P.params = X.D.params
      /\ P.prepare = FALSE /\ P.period = X.D.period /\ P.periods = X.D.periods
      /\ P.buffer_used = X.D.buffer_used /\ P.period_ptr = X.D.period_ptr /\ P.bytes = X.D.bytes
  <2> DEFINE O == Stopped(X.D, "prepared")
  <2>1. /\ O \in Ring /\ O.state = "prepared" /\ O.written = 0 /\ O.t0 = 0
        /\ O.segment = X.D.segment + 1 /\ O.set = X.D.set /\ O.params = X.D.params
        /\ O.period = X.D.period /\ O.periods = X.D.periods
        /\ O.buffer_used = X.D.buffer_used /\ O.period_ptr = X.D.period_ptr /\ O.bytes = X.D.bytes
    BY <1>6, StoppedIs DEF States
  <2> HIDE DEF O
  <2>2. /\ [O EXCEPT !.prepare = FALSE] \in Ring
        /\ [O EXCEPT !.prepare = FALSE].prepare = FALSE
        /\ [O EXCEPT !.prepare = FALSE].state = O.state
        /\ [O EXCEPT !.prepare = FALSE].written = O.written
        /\ [O EXCEPT !.prepare = FALSE].t0 = O.t0
        /\ [O EXCEPT !.prepare = FALSE].segment = O.segment
        /\ [O EXCEPT !.prepare = FALSE].set = O.set
        /\ [O EXCEPT !.prepare = FALSE].params = O.params
        /\ [O EXCEPT !.prepare = FALSE].period = O.period
        /\ [O EXCEPT !.prepare = FALSE].periods = O.periods
        /\ [O EXCEPT !.prepare = FALSE].buffer_used = O.buffer_used
        /\ [O EXCEPT !.prepare = FALSE].period_ptr = O.period_ptr
        /\ [O EXCEPT !.prepare = FALSE].bytes = O.bytes
    BY <2>1 DEF Ring
  <2> QED  BY <2>1, <2>2 DEF O
<1>8. /\ U.D = [X.D EXCEPT !.buffer_used = 0, !.period_ptr = 0] /\ U \in PassRec
      /\ U.S = X.S /\ U.H = X.H /\ U.progress = X.progress
      /\ U.lost = (IF X.D.buffer_used > 0 THEN sent + X.progress ELSE X.lost)
      /\ U.saved = X.saved /\ U.staged = X.staged /\ U.transferred = X.transferred
      /\ U.dropped = X.dropped /\ U.first = X.first /\ U.rc = X.rc
  BY <1>6, UnstagedIs
<1>9. [Stopped(U.D, "prepared") EXCEPT !.prepare = FALSE] = Q
  BY <1>6, <1>8 DEF Stopped, Ring
<1> HIDE DEF U, P
<1>10. /\ Y \in PassRec /\ Y.D = P /\ Y.S = X.S /\ Y.H = X.H /\ Y.progress = X.progress
       /\ Y.lost = X.lost
       /\ Y.saved = X.saved /\ Y.staged = X.staged /\ Y.transferred = X.transferred
       /\ Y.dropped = X.dropped /\ Y.first = X.first /\ Y.rc = X.rc
  BY <1>6, <1>7 DEF PassRec
<1> HIDE DEF Y
<1>11. Stream(X, Y, "prepared")
  BY <1>1, <1>2, <1>3, <1>4, <1>6, <1>7, <1>10 DEF Stream, Same
<1>12. Sound(Y, mode)
  BY <1>1, <1>4, <1>11, StreamSound
<1>13. Q \in Ring /\ Q.buffer_used = 0 /\ Q.period_ptr = 0 /\ Q.params = P.params /\ Q.prepare = P.prepare
       /\ Q.state = P.state /\ Q.period = P.period /\ Q.periods = P.periods
  BY <1>7 DEF Ring
<1>14. G = [U EXCEPT !.D = Q]
  BY <1>5, <1>8, <1>9 DEF PassRec
<1>15. Q = [P EXCEPT !.buffer_used = 0, !.period_ptr = 0]
  OBVIOUS
<1> HIDE DEF Q
<1>16. /\ G \in PassRec /\ G.D = Q /\ G.S = U.S /\ G.H = U.H /\ G.progress = U.progress
       /\ G.lost = U.lost
       /\ G.saved = U.saved /\ G.staged = U.staged /\ G.transferred = U.transferred
       /\ G.dropped = U.dropped /\ G.first = U.first /\ G.rc = U.rc
  BY <1>8, <1>13, <1>14 DEF PassRec
<1>17. Y.D.segment > dsp.segment
  <2>1. Segments(X.D, X.dropped) /\ dsp \in Ring
    BY <1>4, Types DEF Sound
  <2> QED  BY <2>1, <1>6, <1>7, <1>10, RingIs DEF Segments
<1>18. Unstages(Y, G)
  BY <1>1, <1>4, <1>7, <1>8, <1>10, <1>15, <1>16, <1>17 DEF Unstages
<1>19. Sound(G, mode)
  BY <1>3, <1>4, <1>10, <1>12, <1>18, UnstagesSound
<1> QED  BY <1>4, <1>7, <1>8, <1>13, <1>16, <1>19 DEF G

\* MakeReady() leads to a stream that frames can go to, or fails.
LEMMA MakeReadyIs ==
  ASSUME NEW C, NEW mode, Sound(C, mode), C.rc = "ok"
  PROVE  LET G == MakeReady(C)
         IN /\ Sound(G, mode) /\ G.rc \in {"ok", "failed"}
            /\ G.rc = "ok" => ~G.D.params /\ ~G.D.prepare
            /\ G.progress = C.progress /\ G.transferred = C.transferred
<1> DEFINE A == ApplyParams(C)
<1>1. /\ Sound(A, mode) /\ A.rc \in {"ok", "failed"} /\ (A.rc = "ok" => ~A.D.params)
      /\ A.progress = C.progress /\ A.transferred = C.transferred
  BY ApplyIs
<1>2. MakeReady(C) = IF A.rc = "ok" THEN IF A.D.prepare THEN Prepare(A) ELSE A ELSE A
  BY Zenon DEF MakeReady, Then
<1> HIDE DEF A
<1>3. CASE A.rc = "ok" /\ A.D.prepare
  BY <1>1, <1>2, <1>3, PrepareIs
<1>4. CASE ~(A.rc = "ok" /\ A.D.prepare)
  BY <1>1, <1>2, <1>4
<1> QED  BY <1>3, <1>4

-----------------------------------------------------------------------------
(* What goes to the ring. *)

\* What is written goes to the ring: all that is true of a pass but for the bytes.
Almost(C, mode) ==
  /\ Begun /\ C \in PassRec
  /\ RingOK(C.D, now) /\ BufferOK(C.D, C.S) /\ HostOK(C.D, C.H, now, restarted)
  /\ Segments(C.D, C.dropped) /\ Fresh(C.D, C.transferred, C.first)
  /\ SavedOK(C.D, C.S, C.rc, C.saved, C.staged) /\ Tells(C.H, C.transferred, C.dropped, C.first)
  /\ Halts(C.D, C.rc, C.halt_at, C.need)
  /\ mode = "force" \/ Fits(C.D, now)
StreamIn(C) ==
  StreamOK(C.D.period_ptr, C.D.buffer_used, C.D.params, C.S, C.H, sent + C.progress, C.lost)

LEMMA SoundIs ==
  ASSUME NEW C, NEW mode
  PROVE  Sound(C, mode) <=> Almost(C, mode) /\ StreamIn(C)
BY Zenon DEF Sound, Almost, StreamIn

\* The same ring but for how much was written to it.
SameFragment(D, E) ==
  /\ E.set = D.set /\ E.params = D.params /\ E.prepare = D.prepare /\ E.period = D.period
  /\ E.periods = D.periods /\ E.buffer_used = D.buffer_used /\ E.period_ptr = D.period_ptr
Startables == {"setup", "prepared", "running"}
Started(D) == D.state \in Startables /\ (D.state = "running" => D.t0 + D.written > now)

\* A stream that ran dry starts again with nothing to play.
LEMMA StartedIs ==
  ASSUME NEW C, NEW mode, Sound(C, mode), C.rc = "ok"
  PROVE  LET B == [C EXCEPT !.D = Startable(@)]
         IN /\ Sound(B, mode) /\ Started(B.D) /\ SameFragment(C.D, B.D) /\ B.rc = "ok"
            /\ B.D.bytes = C.D.bytes /\ B.S = C.S /\ B.H = C.H /\ B.progress = C.progress
            /\ B.lost = C.lost /\ B.saved = C.saved /\ B.staged = C.staged
<1> DEFINE U == Updated(C.D, now)
           B == [C EXCEPT !.D = Startable(@)]
<1>1. /\ C \in PassRec /\ C.D \in Ring /\ now \in Int /\ now \in Nat /\ sent \in Nat
      /\ RingOK(C.D, now) /\ HostOK(C.D, C.H, now, restarted)
  BY Types DEF Sound
<1>2. /\ RingOK(U, now) /\ EndOf(U, now) = EndOf(C.D, now)
      /\ U.state = "running" => U = C.D /\ C.D.t0 + C.D.written > now
      /\ U = C.D \/ /\ U = [C.D EXCEPT !.state = "xrun"]
                    /\ C.D.state = "running" /\ C.D.t0 + C.D.written <= now
  BY <1>1, UpdatedIs
<1>3. U \in Ring
  BY <1>2 DEF RingOK
<1> HIDE DEF U
<1>4. CASE U.state = "xrun"
  <2> DEFINE n == U.segment + 1
             D == [U EXCEPT !.state = "prepared", !.written = 0, !.segment = n]
  <2>1. n \in Nat
    BY <1>3, RingIs
  <2>2. Startable(C.D) = D
    BY <1>3, <1>4 DEF Startable, U, Ring
  <2> HIDE DEF n
  <2>3. /\ D \in Ring /\ D.state = "prepared" /\ D.written = 0 /\ D.segment = n
        /\ D.t0 = U.t0 /\ D.bytes = U.bytes /\ SameFragment(U, D)
    BY <1>3, <2>1 DEF Ring, States, SameFragment
  <2>4. /\ U.t0 = C.D.t0 /\ U.bytes = C.D.bytes /\ U.segment = C.D.segment
        /\ SameFragment(C.D, U) /\ (C.D.state = "running" \/ C.D.state = "xrun")
    BY <1>1, <1>2, <1>4 DEF Ring, SameFragment
  <2>5. B = [C EXCEPT !.D = D]
    BY <2>2
  <2> HIDE DEF D, B
  <2>6. /\ B \in PassRec /\ B.D = D /\ B.S = C.S /\ B.H = C.H /\ Same(C, B) /\ B.lost = C.lost
        /\ B.dropped = C.dropped
    BY <1>1, <2>3, <2>5 DEF PassRec, Same
  <2>7. EndOf(C.D, now) = now
    BY <1>1, <1>2, <1>4, RingIs DEF EndOf
  <2>8. C.H = {}
    BY <1>1, <2>7, Silent
  <2>9. ~C.transferred
    BY <1>1, <2>7, RingIs DEF Sound, Fresh, EndOf
  <2>10. C.D.period > 0 /\ ~C.D.prepare /\ C.D.t0 <= now
    BY <1>1, <2>4 DEF RingOK
  <2>11. Stream(C, B, "prepared")
    BY <2>3, <2>4, <2>6, <2>7, <2>8, <2>10 DEF Stream, SameFragment, n
  <2>12. Sound(B, mode)
    BY <2>9, <2>11, StreamSound
  <2> QED  BY <2>3, <2>4, <2>6, <2>12 DEF Started, Startables, SameFragment, Same, B
<1>5. CASE U.state # "xrun"
  <2>1. U = C.D
    BY <1>1, <1>2, <1>5 DEF Ring
  <2>2. Startable(C.D) = C.D
    BY <1>5, <2>1 DEF Startable, U
  <2>3. B = C
    BY <1>1, <2>2 DEF PassRec
  <2>4. Started(C.D)
    BY <1>2, <1>3, <1>5, <2>1, RingIs DEF Started, Startables, States
  <2> QED  BY <2>3, <2>4 DEF SameFragment
<1> QED  BY <1>4, <1>5

\* The notes for k of the bytes of data from e on.
Played1(e, data, k) == {[at |-> e + i - 1, byte |-> data[i]] : i \in 1 .. k}
Gives(C, G, mode, e, data, k) ==
  /\ Almost(G, mode) /\ G.rc = "ok" /\ G.transferred
  /\ \A h \in C.H : h.at < e
  /\ G.H = C.H \cup Played1(e, data, k) /\ G.S = C.S
  /\ G.progress = C.progress /\ G.lost = C.lost /\ G.saved = C.saved /\ G.staged = C.staged
  /\ G.D.bytes = C.D.bytes + k /\ SameFragment(C.D, G.D)

LEMMA NotesIs ==
  ASSUME NEW e \in Int, NEW data, NEW k \in Nat, \A i \in 1 .. k : data[i] \in Nat
  PROVE  /\ Played1(e, data, k) \in SUBSET Notes
         /\ \A h \in Played1(e, data, k) : e <= h.at /\ h.at < e + k
         /\ \A j \in e .. e + k - 1 : \E h \in Played1(e, data, k) : h.at = j
<1>1. ASSUME NEW h \in Played1(e, data, k) PROVE h \in Notes /\ e <= h.at /\ h.at < e + k
  <2>1. PICK i \in 1 .. k : h = [at |-> e + i - 1, byte |-> data[i]]
    BY DEF Played1
  <2> QED  BY <2>1 DEF Notes
<1>2. ASSUME NEW j \in e .. e + k - 1 PROVE \E h \in Played1(e, data, k) : h.at = j
  <2>1. j - e + 1 \in 1 .. k /\ e + (j - e + 1) - 1 = j
    OBVIOUS
  <2>2. [at |-> e + (j - e + 1) - 1, byte |-> data[j - e + 1]] \in Played1(e, data, k)
    BY <2>1 DEF Played1
  <2> QED  BY <2>1, <2>2
<1> QED  BY <1>1, <1>2

\* k frames go behind what the ring holds: what that does to it and to what is told.
Grows(C, G, e, data, k) ==
  /\ G \in PassRec /\ G.D.state = "running" /\ SameFragment(C.D, G.D)
  /\ G.D.segment = C.D.segment /\ e = EndOf(C.D, now)
  /\ IF C.D.state = "running" THEN G.D.t0 = C.D.t0 ELSE G.D.t0 = now
  /\ G.D.written = C.D.written + k
  /\ G.H = C.H \cup Played1(e, data, k)
  /\ G.first = (IF C.transferred THEN C.first ELSE e) /\ G.transferred = TRUE
  /\ G.dropped = C.dropped

\* What was true of the ring and of the host is, with the k frames.
LEMMA Grown ==
  ASSUME NEW C, NEW mode, Almost(C, mode), Started(C.D), ~C.D.params, ~C.D.prepare,
         NEW data, NEW k \in Nat, k > 0, \A i \in 1 .. k : data[i] \in Nat,
         NEW e, NEW G, Grows(C, G, e, data, k)
  PROVE  /\ RingOK(G.D, now) /\ HostOK(G.D, G.H, now, restarted) /\ Segments(G.D, G.dropped)
         /\ Fresh(G.D, G.transferred, G.first) /\ Tells(G.H, G.transferred, G.dropped, G.first)
         /\ \A h \in C.H : h.at < e
         /\ e \in Int /\ EndOf(G.D, now) = e + k /\ now <= e
         /\ k <= Capacity(C.D) - Queued(C.D, now) => Fits(G.D, now)
<1>1. /\ now \in Nat /\ RingOK(C.D, now) /\ C.D \in Ring /\ G.D \in Ring /\ C.H \in SUBSET Notes
      /\ dsp \in Ring /\ C.dropped \in BOOLEAN /\ C.transferred \in BOOLEAN /\ C.first \in Int
  BY DEF Almost, Begun, RingOK, Grows, PassRec
<1>2. e \in Int /\ now <= e /\ EndOf(C.D, now) = e
  BY <1>1, EndIs DEF Grows
<1>3. C.D.state # "xrun"
  BY DEF Started, Startables
<1>4. C.D.state # "setup"  \/ C.D.written = 0
  BY <1>1 DEF RingOK, Plays
<1>5. /\ C.D.t0 \in Nat /\ C.D.written \in Nat /\ G.D.written \in Nat /\ G.D.written > 0
      /\ G.D.t0 \in Nat /\ G.D.t0 <= now /\ G.D.t0 + G.D.written = e + k
  <2>1. CASE C.D.state = "running"
    BY <1>1, <2>1, RingIs DEF Grows, Started, EndOf, RingOK
  <2>2. CASE C.D.state # "running"
    <3>1. C.D.written = 0
      BY <1>1, <1>3, <2>2 DEF RingOK, Plays
    <3> QED  BY <1>1, <2>2, <3>1, RingIs DEF Grows, EndOf
  <2> QED  BY <2>1, <2>2
<1>6. G.D.state = "running" /\ EndOf(G.D, now) = e + k
  BY <1>1, <1>2, <1>5 DEF Grows, EndOf
<1>7. RingOK(G.D, now)
  BY <1>1, <1>5, <1>6 DEF RingOK, Plays, Grows, SameFragment
<1>8. /\ Played1(e, data, k) \in SUBSET Notes
      /\ \A h \in Played1(e, data, k) : e <= h.at /\ h.at < e + k
      /\ \A j \in e .. e + k - 1 : \E h \in Played1(e, data, k) : h.at = j
  BY <1>2, NotesIs
<1>9. \A h \in C.H : now <= h.at /\ h.at < e /\ h.at \in Int
  BY <1>2 DEF Almost, HostOK, Notes
<1>10. HostOK(G.D, G.H, now, restarted)
  <2>1. G.H = C.H \cup Played1(e, data, k)
    BY DEF Grows
  <2>2. \A h \in G.H : now <= h.at /\ h.at < e + k
    BY <1>1, <1>2, <1>8, <1>9, <2>1 DEF Notes
  <2>3. ASSUME NEW j \in now .. (e + k) - 1, ~restarted PROVE \E h \in G.H : h.at = j
    <3>1. CASE j < e
      <4>1. j \in now .. EndOf(C.D, now) - 1
        BY <1>1, <1>2, <3>1
      <4> QED  BY <2>1, <2>3, <4>1 DEF Almost, HostOK
    <3>2. CASE j >= e
      <4>1. j \in e .. e + k - 1
        BY <1>1, <1>2, <3>2
      <4> QED  BY <1>8, <2>1, <4>1
    <3> QED  BY <1>1, <1>2, <3>1, <3>2
  <2> QED  BY <1>1, <1>6, <1>8, <2>1, <2>2, <2>3 DEF HostOK
<1>11. Segments(G.D, G.dropped)
  <2>1. Segments(C.D, C.dropped) /\ G.D.segment = C.D.segment /\ G.dropped = C.dropped
    BY DEF Almost, Grows
  <2>2. C.D.state # "setup"
    BY <1>1 DEF RingOK
  <2>3. Plays(C.D) => C.D.state = "running"
    BY <1>3 DEF Plays
  <2> QED  BY <1>1, <1>5, <1>6, <2>1, <2>2, <2>3, RingIs DEF Segments, Plays, Grows
<1>12. Fresh(G.D, G.transferred, G.first)
  <2>1. Fresh(C.D, C.transferred, C.first)
    BY DEF Almost
  <2> QED  BY <1>1, <1>2, <1>5, <1>6, <2>1 DEF Fresh, Grows, SameFragment
<1>13. Tells(G.H, G.transferred, G.dropped, G.first)
  <2>1. /\ Tells(C.H, C.transferred, C.dropped, C.first) /\ G.H = C.H \cup Played1(e, data, k)
        /\ Fresh(C.D, C.transferred, C.first) /\ G.transferred /\ G.dropped = C.dropped
    BY DEF Almost, Grows
  <2>2. CASE C.transferred
    <3>1. G.first = C.first /\ C.first < e
      BY <1>2, <2>1, <2>2 DEF Fresh, Grows
    <3>2. \A h \in Played1(e, data, k) : h.at >= C.first
      BY <1>1, <1>2, <1>8, <3>1 DEF Notes
    <3> QED  BY <2>1, <2>2, <3>1, <3>2 DEF Tells
  <2>3. CASE ~C.transferred
    <3>1. G.first = e
      BY <2>3 DEF Grows
    <3> QED  BY <1>1, <1>8, <1>9, <2>1, <2>3, <3>1 DEF Tells
  <2> QED  BY <2>2, <2>3
<1>14. k <= Capacity(C.D) - Queued(C.D, now) => Fits(G.D, now)
  <2>1. Queued(C.D, now) = e - now /\ Capacity(C.D) \in Int
    BY <1>1, <1>2, QueuedIs, CapacityIs
  <2>2. Capacity(G.D) = Capacity(C.D)
    BY DEF Capacity, Grows, SameFragment
  <2> QED  BY <1>1, <1>2, <1>5, <2>1, <2>2 DEF Fits
<1> QED  BY <1>2, <1>6, <1>7, <1>9, <1>10, <1>11, <1>12, <1>13, <1>14

\* Transfer() gives all of data.
LEMMA TransferIs ==
  ASSUME NEW C, NEW mode, Sound(C, mode), C.rc = "ok", Started(C.D), ~C.D.params, ~C.D.prepare,
         NEW data \in Seq(Nat), Len(data) > 0,
         mode = "force" \/ Len(data) <= Capacity(C.D) - Queued(C.D, now)
  PROVE  \E e \in Int : Gives(C, Transfer(C, data), mode, e, data, Len(data))
<1> DEFINE k == Len(data)
           e == EndOf(C.D, now)
           R == IF C.D.state = "running" THEN C.D ELSE [C.D EXCEPT !.state = "running", !.t0 = now]
           w == R.written + k
           n == R.bytes + k
           D == [R EXCEPT !.written = w, !.bytes = n]
           H == C.H \cup Played1(e, data, k)
           f == IF C.transferred THEN C.first ELSE e
           G == Transfer(C, data)
<1>1. /\ C \in PassRec /\ C.D \in Ring /\ now \in Int /\ now \in Nat /\ RingOK(C.D, now)
      /\ Almost(C, mode) /\ C.H \in SUBSET Notes /\ C.first \in Int
  BY Types, SoundIs DEF Sound
<1>2. /\ k \in Nat /\ k > 0 /\ e \in Int /\ \A i \in 1 .. k : data[i] \in Nat
      /\ DOMAIN data = 1 .. k
  BY <1>1, EndIs, LenProperties
<1>3. /\ R \in Ring /\ R.state = "running" /\ SameFragment(C.D, R) /\ R.segment = C.D.segment
      /\ R.written = C.D.written /\ R.bytes = C.D.bytes
      /\ R.t0 = IF C.D.state = "running" THEN C.D.t0 ELSE now
  BY <1>1 DEF Ring, States, SameFragment
<1>4. FrameTime(R, R.written) = e
  <2>1. C.D.state = "running" => C.D.t0 + C.D.written > now
    BY DEF Started
  <2>2. C.D.state # "running" => C.D.written = 0
    BY <1>1 DEF RingOK, Plays, Started, Startables
  <2>3. R.t0 \in Nat /\ R.written \in Nat
    BY <1>3, RingIs
  <2>4. FrameTime(R, R.written) = R.t0 + R.written
    <3> HIDE DEF R
    <3> QED  BY <2>3, FrameTimes
  <2> QED  BY <1>1, <1>3, <2>1, <2>2, <2>4, RingIs DEF EndOf
<1> HIDE DEF R
<1>5. /\ w \in Nat /\ n \in Nat
  BY <1>2, <1>3, RingIs, SMTT(40)
<1>6. /\ D \in Ring /\ D.state = "running" /\ SameFragment(C.D, D) /\ D.segment = C.D.segment
      /\ D.written = C.D.written + k /\ D.bytes = C.D.bytes + k /\ D.t0 = R.t0
  <2> HIDE DEF k
  <2>1. w = C.D.written + k /\ n = C.D.bytes + k
    BY <1>3
  <2> HIDE DEF w, n
  <2> QED  BY <1>3, <1>5, <2>1 DEF Ring, SameFragment
<1>7. H \in SUBSET Notes /\ f \in Int
  <2>1. Played1(e, data, k) \in SUBSET Notes
    BY <1>2, NotesIs
  <2> QED  BY <1>1, <1>2, <2>1
<1>8. G = [C EXCEPT !.D = D, !.H = H, !.first = f, !.transferred = TRUE]
  <2>1. {[at |-> e + i - 1, byte |-> data[i]] : i \in DOMAIN data} = Played1(e, data, k)
    BY <1>2 DEF Played1
  <2> HIDE DEF e, k
  <2>2. G = [C EXCEPT !.D = [R EXCEPT !.written = @ + Len(data), !.bytes = @ + Len(data)],
               !.H = @ \cup {[at |-> e + i - 1, byte |-> data[i]] : i \in DOMAIN data},
               !.first = IF C.transferred THEN @ ELSE e,
               !.transferred = TRUE]
    <3> DEFINE N(s) == {[at |-> s + i - 1, byte |-> data[i]] : i \in DOMAIN data}
    <3>1. G = [C EXCEPT !.D = [R EXCEPT !.written = @ + Len(data), !.bytes = @ + Len(data)],
                 !.H = @ \cup N(FrameTime(R, R.written)),
                 !.first = IF C.transferred THEN @ ELSE FrameTime(R, R.written),
                 !.transferred = TRUE]
      BY Zenon DEF Transfer, R
    <3> HIDE DEF N
    <3>2. G = [C EXCEPT !.D = [R EXCEPT !.written = @ + Len(data), !.bytes = @ + Len(data)],
                 !.H = @ \cup N(e), !.first = IF C.transferred THEN @ ELSE e,
                 !.transferred = TRUE]
      BY <1>4, <3>1, Zenon
    <3> QED  BY <3>2, Zenon DEF N
  <2>3. D = [R EXCEPT !.written = @ + Len(data), !.bytes = @ + Len(data)]
    BY <1>3 DEF Ring, k
  <2> HIDE DEF G, D
  <2> QED  BY <1>1, <2>1, <2>2, <2>3 DEF PassRec
<1> HIDE DEF G, D, H, f, w, n
<1>9. /\ G \in PassRec /\ G.D = D /\ G.H = H /\ G.first = f /\ G.transferred = TRUE
      /\ G.S = C.S /\ G.progress = C.progress /\ G.rc = C.rc /\ G.lost = C.lost
      /\ G.saved = C.saved /\ G.staged = C.staged /\ G.dropped = C.dropped
      /\ G.halt_at = C.halt_at /\ G.need = C.need
  BY <1>1, <1>6, <1>7, <1>8 DEF PassRec
<1>10. Grows(C, G, e, data, k)
  BY <1>3, <1>6, <1>9 DEF Grows, H, f
<1>11. /\ RingOK(D, now) /\ HostOK(D, G.H, now, restarted) /\ Segments(D, G.dropped)
       /\ Fresh(D, G.transferred, G.first) /\ Tells(G.H, G.transferred, G.dropped, G.first)
       /\ \A h \in C.H : h.at < e
       /\ k <= Capacity(C.D) - Queued(C.D, now) => Fits(D, now)
  <2> HIDE DEF k, e
  <2> QED  BY <1>1, <1>2, <1>9, <1>10, Grown
<1>12. SavedOK(D, C.S, C.rc, C.saved, C.staged)
  <2>1. SavedOK(C.D, C.S, C.rc, C.saved, C.staged)
    BY DEF Sound
  <2>2. D.bytes > dsp.bytes /\ D.bytes >= dsp.bytes /\ D.bytes # dsp.bytes
    <3>1. C.D.bytes >= dsp.bytes /\ dsp.bytes \in Nat /\ C.D.bytes \in Nat
      BY <1>1, <2>1, Types, RingIs DEF SavedOK
    <3> QED  BY <1>2, <1>6, <3>1
  <2> QED  BY <1>6, <2>1, <2>2 DEF SavedOK, Keeps, SameFragment
<1>13. BufferOK(D, C.S) /\ Halts(D, C.rc, C.halt_at, C.need)
  BY <1>6 DEF Sound, BufferOK, SameFragment, Halts
<1>14. Almost(G, mode)
  <2>1. mode = "force" \/ Fits(D, now)
    BY <1>11
  <2> QED  BY <1>1, <1>9, <1>11, <1>12, <1>13, <2>1 DEF Almost
<1>15. Gives(C, G, mode, e, data, k)
  BY <1>6, <1>9, <1>11, <1>14 DEF Gives, H
<1> QED  BY <1>2, <1>15 DEF G

Modes == {"block", "nonblock", "force"}
Ready(C, mode) == Sound(C, mode) /\ C.rc = "ok" /\ ~C.D.params /\ ~C.D.prepare

\* What is true of a stream that is ready.
LEMMA ReadyIs ==
  ASSUME NEW C, NEW mode, Ready(C, mode)
  PROVE  /\ C \in PassRec /\ C.D \in Ring /\ C.S \in Seq(Nat) /\ C.H \in SUBSET Notes
         /\ C.progress \in Nat /\ sent \in Nat /\ now \in Nat /\ dsp \in Ring
         /\ RingOK(C.D, now) /\ C.D.period \in Nat /\ C.D.period > 0 /\ Len(C.S) = C.D.period
         /\ C.D.buffer_used \in 0 .. C.D.period /\ C.D.period_ptr \in 0 .. C.D.buffer_used
         /\ C.D.period_ptr < C.D.period
         /\ Capacity(C.D) \in Nat /\ Capacity(C.D) >= C.D.period + C.D.period
         /\ C.D.params = FALSE
<1>1. /\ C \in PassRec /\ C.D \in Ring /\ C.S \in Seq(Nat) /\ C.H \in SUBSET Notes
      /\ C.progress \in Nat /\ sent \in Nat /\ now \in Nat /\ dsp \in Ring /\ RingOK(C.D, now)
      /\ BufferOK(C.D, C.S)
  BY Types DEF Ready, Sound
<1>2. C.D.period > 0 /\ C.D.periods >= 2 /\ C.D.params = FALSE
  BY <1>1, RingIs DEF Ready, RingOK
<1>3. Capacity(C.D) \in Nat /\ Capacity(C.D) >= C.D.period + C.D.period
  BY <1>1, <1>2, CapacityIs
<1>4. /\ C.D.period \in Nat /\ C.D.buffer_used \in Nat /\ C.D.period_ptr \in Nat
      /\ C.D.buffer_used <= C.D.period /\ C.D.period_ptr <= C.D.buffer_used
      /\ C.D.period_ptr > 0 => C.D.period_ptr < C.D.period
  BY <1>1, RingIs DEF RingOK
<1>5. Len(C.S) = C.D.period
  BY <1>1, <1>2, <1>4 DEF BufferOK
<1>6. /\ C.D.buffer_used \in 0 .. C.D.period /\ C.D.period_ptr \in 0 .. C.D.buffer_used
      /\ C.D.period_ptr < C.D.period
  BY <1>2, <1>4
<1> QED  BY <1>1, <1>2, <1>3, <1>4, <1>5, <1>6, Zenon

LEMMA EndsAs ==
  ASSUME NEW C, NEW mode, Sound(C, mode), NEW rc \in {"failed", "signal", "again"}
  PROVE  LET G == [C EXCEPT !.rc = rc]
         IN /\ Sound(G, mode) /\ G.rc = rc /\ G.D = C.D /\ G.progress = C.progress
            /\ G.transferred = C.transferred
<1> DEFINE G == [C EXCEPT !.rc = rc]
<1>1. C \in PassRec
  BY Types
<1>2. /\ G \in PassRec /\ G.rc = rc /\ G.D = C.D /\ G.S = C.S /\ G.H = C.H
      /\ G.progress = C.progress /\ G.lost = C.lost /\ G.saved = C.saved /\ G.staged = C.staged
      /\ G.transferred = C.transferred /\ G.dropped = C.dropped /\ G.first = C.first
      /\ G.halt_at = C.halt_at /\ G.need = C.need
  BY <1>1 DEF PassRec, Outcomes
<1> HIDE DEF G
<1>3. SavedOK(G.D, G.S, G.rc, G.saved, G.staged) /\ Halts(G.D, G.rc, G.halt_at, G.need)
  BY <1>2 DEF Sound, SavedOK, Halts
<1>4. Sound(G, mode)
  BY <1>2, <1>3, Zenon DEF Sound
<1> QED  BY <1>2, <1>4 DEF G

\* The pass waits until the ring has room.
LEMMA HaltedIs ==
  ASSUME NEW C, NEW mode, Ready(C, mode), NEW until \in Int, NEW need \in 1 .. Capacity(C.D),
         C.D.state = "running", until = C.D.t0 + C.D.written + need - Capacity(C.D),
         until >= C.D.t0
  PROVE  LET G == Halted(C, until, need)
         IN /\ Sound(G, mode) /\ G.rc = "halt" /\ G.D = C.D /\ G.progress = C.progress
            /\ G.transferred = C.transferred
<1> DEFINE G == Halted(C, until, need)
<1>1. C \in PassRec /\ Sound(C, mode) /\ need \in Int
  <2>1. C \in PassRec /\ Sound(C, mode) /\ Capacity(C.D) \in Nat
    BY ReadyIs DEF Ready
  <2> QED  BY <2>1
<1>2. G = [C EXCEPT !.rc = "halt", !.halt_at = until, !.need = need]
  BY DEF Halted
<1> HIDE DEF G
<1>3. /\ G \in PassRec /\ G.rc = "halt" /\ G.D = C.D /\ G.S = C.S /\ G.H = C.H
      /\ G.progress = C.progress /\ G.lost = C.lost /\ G.saved = C.saved /\ G.staged = C.staged
      /\ G.transferred = C.transferred /\ G.dropped = C.dropped /\ G.first = C.first
      /\ G.halt_at = until /\ G.need = need
  BY <1>1, <1>2 DEF PassRec, Outcomes
<1>4. SavedOK(G.D, G.S, G.rc, G.saved, G.staged)
  BY <1>1, <1>3 DEF Sound, SavedOK
<1>5. Halts(G.D, G.rc, G.halt_at, G.need)
  BY <1>3 DEF Halts
<1>6. Sound(G, mode)
  BY <1>1, <1>3, <1>4, <1>5, Zenon DEF Sound
<1> QED  BY <1>3, <1>6 DEF G

\* When there is room for n frames, if there is none now.
LEMMA DeadlineIs ==
  ASSUME NEW D, NEW t \in Nat, RingOK(D, t), Capacity(D) \in Nat, NEW n \in Nat, n <= Capacity(D),
         Capacity(D) - Queued(D, t) < n
  PROVE  /\ D.state = "running" /\ RoomDeadline(D, n, t) = D.t0 + D.written + n - Capacity(D)
         /\ RoomDeadline(D, n, t) > t /\ RoomDeadline(D, n, t) >= D.t0
<1>1. D \in Ring /\ D.t0 \in Nat /\ D.written \in Nat /\ D.t0 <= t
  BY RingIs DEF RingOK
<1>2. Queued(D, t) = EndOf(D, t) - t /\ Queued(D, t) \in Nat
  BY QueuedIs
<1>3. D.state = "running" /\ D.t0 + D.written > t /\ EndOf(D, t) = D.t0 + D.written
  BY <1>1, <1>2 DEF EndOf
<1>4. Min({n, Capacity(D)}) = n
  BY MinTwo
<1>5. RoomDeadline(D, n, t) = PlayedBy(D, D.written + n - Capacity(D))
  <2> DEFINE frames == Min({n, Capacity(D)})
  <2>1. RoomDeadline(D, n, t) =
          IF D.state # "running" \/ Queued(D, t) + frames <= Capacity(D) THEN t
          ELSE PlayedBy(D, D.written + frames - Capacity(D))
    BY FrameDeadline, Zenon
  <2>2. frames = n /\ ~(Queued(D, t) + n <= Capacity(D))
    BY <1>2, <1>4
  <2> HIDE DEF frames
  <2> QED  BY <1>3, <2>1, <2>2, Zenon
<1>6. RoomDeadline(D, n, t) = D.t0 + (D.written + n - Capacity(D))
  <2>1. Capacity(D) \in Int /\ D.written + n - Capacity(D) \in Int /\ D.t0 \in Int
    BY <1>1
  <2> QED  BY <1>5, <2>1, FrameTimes
<1> QED  BY <1>1, <1>2, <1>3, <1>6

\* Write2() gives what there is room for, or it waits, or says to try again.
LEMMA Write2Is ==
  ASSUME NEW C, NEW mode \in Modes, Ready(C, mode), NEW data \in Seq(Nat),
         Len(data) \in 1 .. C.D.period
  PROVE  LET W == Write2(C, data, mode)
         IN \/ /\ W.rc \in {"halt", "again"} /\ Sound(W, mode) /\ W.progress = C.progress
               /\ ~W.D.params /\ (W.rc = "halt" => mode = "block")
            \/ \E k \in 1 .. Len(data), e \in Int :
                 (k = Len(data) \/ mode = "nonblock") /\ Gives(C, W, mode, e, data, k)
<1> DEFINE B == [C EXCEPT !.D = Startable(@)]
           room == Room(B.D, data, mode)
           W == Write2(C, data, mode)
<1>1. /\ Sound(B, mode) /\ Started(B.D) /\ SameFragment(C.D, B.D) /\ B.rc = "ok"
      /\ B.D.bytes = C.D.bytes /\ B.S = C.S /\ B.H = C.H /\ B.progress = C.progress
      /\ B.lost = C.lost /\ B.saved = C.saved /\ B.staged = C.staged
  BY StartedIs DEF Ready
<1>2. W = Given(B, data, mode)
  BY DEF Write2
<1> HIDE DEF B
<1>3. Ready(B, mode) /\ ~B.D.params
  BY <1>1 DEF Ready, SameFragment
<1>4. /\ B \in PassRec /\ B.D \in Ring /\ RingOK(B.D, now) /\ now \in Nat /\ Capacity(B.D) \in Nat
      /\ Capacity(B.D) >= B.D.period + B.D.period /\ B.D.period = C.D.period
      /\ B.D.period \in Nat
  BY <1>1, <1>3, ReadyIs DEF SameFragment
<1>5. Queued(B.D, now) = EndOf(B.D, now) - now /\ Queued(B.D, now) \in Nat
  BY <1>4, QueuedIs
<1>6. Len(data) \in Nat /\ Len(data) > 0 /\ Len(data) <= Capacity(B.D)
  BY <1>4
<1>7. /\ room \in Int /\ room <= Len(data)
      /\ mode = "force" => room = Len(data)
      /\ mode # "force" => room <= Capacity(B.D) - Queued(B.D, now)
      /\ mode # "force" /\ room < Len(data) => room = Capacity(B.D) - Queued(B.D, now)
  <2>1. Capacity(B.D) - Queued(B.D, now) \in Int
    BY <1>4, <1>5
  <2> QED  BY <1>6, <2>1, MinTwo DEF Room
<1> HIDE DEF W, room
<1>8. CASE room < Len(data) /\ mode = "block"
  <2> DEFINE until == RoomDeadline(B.D, Len(data), now)
  <2>1. W = Halted(B, until, Len(data))
    BY <1>2, <1>8 DEF Given, room
  <2>2. Capacity(B.D) - Queued(B.D, now) < Len(data)
    BY <1>7, <1>8
  <2>3. /\ B.D.state = "running" /\ until = B.D.t0 + B.D.written + Len(data) - Capacity(B.D)
        /\ until >= B.D.t0
    BY <1>4, <1>6, <2>2, DeadlineIs
  <2>4. until \in Int
    BY <1>4, <1>6, <2>3, RingIs, SMTT(40)
  <2> HIDE DEF until
  <2>5. Len(data) \in 1 .. Capacity(B.D)
    BY <1>4, <1>6
  <2>6. /\ Sound(W, mode) /\ W.rc = "halt" /\ W.D = B.D /\ W.progress = B.progress
    BY <1>3, <2>1, <2>3, <2>4, <2>5, HaltedIs
  <2> QED  BY <1>1, <1>3, <1>8, <2>6 DEF W
<1>9. CASE ~(room < Len(data) /\ mode = "block") /\ room = 0
  <2>1. W = [B EXCEPT !.rc = "again"]
    BY <1>2, <1>9 DEF Given, room
  <2>2. Sound(W, mode) /\ W.rc = "again" /\ W.D = B.D /\ W.progress = B.progress
    BY <1>1, <2>1, EndsAs
  <2> QED  BY <1>1, <1>3, <2>2 DEF W
<1>10. CASE ~(room < Len(data) /\ mode = "block") /\ room # 0
  <2> DEFINE part == SubSeq(data, 1, room)
  <2>1. W = Transfer(B, part)
    BY <1>2, <1>10 DEF Given, room
  <2>2. room > 0 /\ (room = Len(data) \/ mode = "nonblock")
    <3>1. Capacity(B.D) - Queued(B.D, now) >= 0 \/ room = Len(data)
      <4>1. CASE mode = "force"
        BY <1>7, <4>1
      <4>2. CASE mode # "force"
        <5>1. Fits(B.D, now)
          BY <1>1, <4>2 DEF Sound
        <5>2. B.D.t0 \in Nat /\ B.D.written \in Nat
          BY <1>4, RingIs
        <5>3. CASE B.D.state = "running"
          <6>1. B.D.t0 + B.D.written - now <= Capacity(B.D)
            BY <5>1, <5>3 DEF Fits
          <6>2. EndOf(B.D, now) = now \/ EndOf(B.D, now) = B.D.t0 + B.D.written
            BY <5>3 DEF EndOf
          <6> DEFINE c == Capacity(B.D)
                     q == Queued(B.D, now)
          <6>3. c \in Nat /\ now \in Nat
            BY <1>4
          <6>4. q = 0 \/ q = B.D.t0 + B.D.written - now
            BY <1>5, <5>2, <6>2, <6>3
          <6>5. B.D.t0 + B.D.written - now <= c
            BY <6>1
          <6> HIDE DEF c, q, room, part
          <6>6. c - q >= 0
            BY <5>2, <6>3, <6>4, <6>5
          <6> QED  BY <6>6 DEF c, q
        <5>4. CASE B.D.state # "running"
          <6>1. EndOf(B.D, now) = now
            BY <5>4 DEF EndOf
          <6> QED  BY <1>4, <1>5, <6>1
        <5> QED  BY <5>3, <5>4
      <4> QED  BY <4>1, <4>2
    <3> QED  BY <1>5, <1>6, <1>7, <1>10, <3>1 DEF Modes
  <2>3. part \in Seq(Nat) /\ Len(part) = room /\ \A i \in 1 .. room : part[i] = data[i]
    BY <1>6, <1>7, <2>2, Prefix, SMTT(40)
  <2> HIDE DEF part
  <2>4. PICK e \in Int : Gives(B, W, mode, e, part, Len(part))
    BY <1>1, <1>3, <1>7, <2>1, <2>2, <2>3, TransferIs DEF Ready
  <2>5. Played1(e, part, room) = Played1(e, data, room)
    BY <2>3 DEF Played1
  <2>6. Gives(C, W, mode, e, data, room)
    <3>1. Gives(B, W, mode, e, part, room)
      BY <2>3, <2>4
    <3> QED  BY <1>1, <2>5, <3>1 DEF Gives, SameFragment
  <2>7. room \in 1 .. Len(data)
    BY <1>6, <1>7, <2>2
  <2> QED  BY <2>2, <2>6, <2>7 DEF W
<1> QED  BY <1>8, <1>9, <1>10

\* The staging buffer with data at a place.
LEMMA OverwrittenIs ==
  ASSUME NEW S \in Seq(Nat), NEW from \in Nat, NEW data \in Seq(Nat)
  PROVE  LET T == Overwritten(S, from, data)
         IN /\ T \in Seq(Nat) /\ Len(T) = Len(S)
            /\ \A i \in 1 .. Len(S) :
                 T[i] = IF i > from /\ i <= from + Len(data) THEN data[i - from] ELSE S[i]
<1> DEFINE T == Overwritten(S, from, data)
<1>1. DOMAIN S = 1 .. Len(S) /\ Len(S) \in Nat /\ Len(data) \in Nat
  BY LenProperties
<1>2. T = [i \in 1 .. Len(S) |->
             IF i > from /\ i <= from + Len(data) THEN data[i - from] ELSE S[i]]
  BY <1>1 DEF Overwritten
<1>3. \A i \in 1 .. Len(S) :
        (IF i > from /\ i <= from + Len(data) THEN data[i - from] ELSE S[i]) \in Nat
  <2> TAKE i \in 1 .. Len(S)
  <2>1. CASE i > from /\ i <= from + Len(data)
    <3>1. i - from \in 1 .. Len(data)
      BY <1>1, <2>1
    <3> QED  BY <2>1, <3>1
  <2> QED  BY <1>1, <2>1
<1>4. T \in [1 .. Len(S) -> Nat]
  BY <1>2, <1>3
<1>5. T \in Seq(Nat) /\ Len(T) = Len(S)
  BY <1>1, <1>2, <1>4
<1> QED  BY <1>2, <1>5

LEMMA Slice ==
  ASSUME NEW T, NEW S \in Seq(T), NEW p \in Nat, NEW b \in Nat, p <= b, b <= Len(S)
  PROVE  /\ SubSeq(S, p + 1, b) \in Seq(T) /\ Len(SubSeq(S, p + 1, b)) = b - p
         /\ \A i \in 1 .. b - p : SubSeq(S, p + 1, b)[i] = S[p + i]
<1> DEFINE data == SubSeq(S, p + 1, b)
<1>1. p + 1 \in 1 .. Len(S) + 1 /\ b \in (p + 1) - 1 .. Len(S) /\ Len(S) \in Nat
  OBVIOUS
<1>2. /\ data \in Seq(T) /\ Len(data) = b - (p + 1) + 1
      /\ \A i \in 1 .. b - (p + 1) + 1 : data[i] = S[(p + 1) + i - 1]
  BY <1>1, SubSeqProperties
<1> HIDE DEF data
<1>3. b - (p + 1) + 1 = b - p /\ \A i \in 1 .. b - p : (p + 1) + i - 1 = p + i
  OBVIOUS
<1>4. data \in Seq(T) /\ Len(data) = b - p /\ \A i \in 1 .. b - p : data[i] = S[p + i]
  BY <1>2, <1>3
<1> QED  BY <1>4 DEF data

\* The bytes staged from place p to b have gone to the ring, k of them.
Gave(C, W, mode, p, b, data, k, e) ==
  /\ Ready(C, mode) /\ C.saved
  /\ p \in Nat /\ b \in Nat /\ p = C.D.period_ptr /\ b = C.D.buffer_used /\ b = C.D.period /\ p < b
  /\ k \in Nat /\ k > 0 /\ p + k <= b /\ \A i \in 1 .. k : data[i] = C.S[p + i]
  /\ k = b - p \/ mode = "nonblock"
  /\ e \in Int /\ Gives(C, W, mode, e, data, k)

Advances(G, C, W, mode, k, b, p) ==
  /\ Sound(G, mode) /\ G.progress = C.progress /\ G.rc \in {"ok", "again"} /\ ~G.D.params
  /\ ~G.D.prepare /\ (G.rc = "ok" => G.D.buffer_used = 0)
  /\ k = b - p => G.rc = "ok" /\ G = [W EXCEPT !.D.buffer_used = 0, !.D.period_ptr = 0]
\* The place in the staged fragment goes on, to none when all of it was given.
LEMMA AdvancedAll ==
  ASSUME NEW C, NEW mode \in Modes, NEW p, NEW b, NEW data, NEW k, NEW e, NEW W,
         Gave(C, W, mode, p, b, data, k, e)
  PROVE  Advances(Advanced(C, W, mode), C, W, mode, k, b, p)
<1> DEFINE G == Advanced(C, W, mode)
           q == IF p + k = b THEN 0 ELSE p + k
           c == IF p + k = b THEN 0 ELSE b
           rc == IF p + k = b THEN "ok" ELSE "again"
           P == [W.D EXCEPT !.period_ptr = q, !.buffer_used = c]
<1>0. /\ Ready(C, mode) /\ C.saved
      /\ p \in Nat /\ b \in Nat /\ p = C.D.period_ptr /\ b = C.D.buffer_used /\ b = C.D.period /\ p < b
      /\ k \in Nat /\ k > 0 /\ p + k <= b /\ \A i \in 1 .. k : data[i] = C.S[p + i]
      /\ k = b - p \/ mode = "nonblock"
      /\ e \in Int /\ Gives(C, W, mode, e, data, k)
  BY Zenon DEF Gave
<1> USE <1>0
<1>1. /\ C \in PassRec /\ C.D \in Ring /\ C.S \in Seq(Nat) /\ C.H \in SUBSET Notes
      /\ C.progress \in Nat /\ sent \in Nat /\ now \in Nat /\ dsp \in Ring
      /\ C.D.period \in Nat /\ C.D.period > 0 /\ Len(C.S) = C.D.period
  BY ReadyIs
<1>2. /\ Almost(W, mode) /\ W.rc = "ok" /\ W.transferred /\ \A h \in C.H : h.at < e
      /\ W.H = C.H \cup Played1(e, data, k) /\ W.S = C.S
      /\ W.progress = C.progress /\ W.lost = C.lost /\ W.saved
      /\ W.D.bytes = C.D.bytes + k /\ SameFragment(C.D, W.D)
  BY Zenon DEF Gives
<1>3. /\ W \in PassRec /\ W.D \in Ring /\ W.D.period = b /\ W.D.params = FALSE
      /\ RingOK(W.D, now) /\ W.D.buffer_used = b /\ W.D.prepare = FALSE
  <2>1. /\ W \in PassRec /\ RingOK(W.D, now)
    BY <1>2 DEF Almost
  <2>2. W.D \in Ring
    BY <2>1 DEF PassRec
  <2>3. C.D.params = FALSE /\ C.D.prepare = FALSE
    BY <1>1, RingIs DEF Ready
  <2> QED  BY <1>2, <2>1, <2>2, <2>3, Zenon DEF SameFragment
<1>4. Took(C, W) = k
  <2>1. C.D.bytes \in Nat
    BY <1>1, RingIs
  <2> QED  BY <1>2, <2>1 DEF Took
<1>5. b > 0 /\ p + k \in Nat
  OBVIOUS
<1>6. (p + k) % b = q
  <2>1. CASE p + k = b
    BY <1>5, <2>1, Rest
  <2>2. CASE p + k # b
    <3>1. p + k < b
      BY <2>2
    <3> QED  BY <1>5, <2>2, <3>1, Rest
  <2> QED  BY <2>1, <2>2
<1>7. q = 0 <=> p + k = b
  BY <1>5
<1>8. G = [W EXCEPT !.D = P, !.rc = rc]
  <2>1. CASE p + k = b
    <3>1. G = [W EXCEPT !.D.period_ptr = 0, !.D.buffer_used = 0]
      BY <1>3, <1>4, <1>6, <1>7, <2>1, Zenon DEF Advanced
    <3>2. q = 0 /\ c = 0 /\ rc = "ok"
      BY <2>1
    <3>3. P = [W.D EXCEPT !.period_ptr = 0, !.buffer_used = 0]
      BY <3>2
    <3> HIDE DEF P, rc, G
    <3>4. G = [W EXCEPT !.D = P]
      BY <1>3, <3>1, <3>3 DEF PassRec
    <3>5. W = [W EXCEPT !.rc = W.rc]
      BY <1>3 DEF PassRec
    <3> QED  BY <1>2, <1>3, <3>2, <3>4, <3>5 DEF PassRec
  <2>2. CASE p + k # b
    <3>1. mode = "nonblock"
      BY <2>2
    <3>2. G = [W EXCEPT !.D.period_ptr = q, !.rc = IF mode = "nonblock" THEN "again" ELSE @]
      BY <1>3, <1>4, <1>6, <1>7, <2>2, Zenon DEF Advanced
    <3>3. P = [W.D EXCEPT !.period_ptr = q]
      BY <1>3, <2>2 DEF Ring
    <3> HIDE DEF q
    <3> QED  BY <1>3, <2>2, <3>1, <3>2, <3>3 DEF PassRec
  <2> QED  BY <2>1, <2>2
<1>9. /\ P \in Ring /\ P.period_ptr = q /\ P.buffer_used = c /\ P.set = W.D.set
      /\ P.params = W.D.params /\ P.prepare = W.D.prepare /\ P.period = W.D.period
      /\ P.periods = W.D.periods /\ P.bytes = W.D.bytes /\ P.state = W.D.state
      /\ P.segment = W.D.segment /\ P.t0 = W.D.t0 /\ P.written = W.D.written
  <2>1. q \in Nat /\ c \in Nat
    BY <1>5
  <2> HIDE DEF q, c
  <2> QED  BY <1>3, <2>1 DEF Ring
<1>10. rc \in {"ok", "again"} /\ (rc = "ok" => c = 0)
  OBVIOUS
<1>101. k = b - p => /\ rc = "ok" /\ P = [W.D EXCEPT !.buffer_used = 0, !.period_ptr = 0]
                     /\ [W EXCEPT !.D.buffer_used = 0, !.D.period_ptr = 0] = G
  <2>1. HAVE k = b - p
  <2>2. p + k = b
    BY <2>1
  <2>3. q = 0 /\ c = 0 /\ rc = "ok" /\ rc = W.rc
    BY <1>2, <2>2
  <2>4. P = [W.D EXCEPT !.buffer_used = 0, !.period_ptr = 0]
    <3>1. P = [W.D EXCEPT !.period_ptr = 0, !.buffer_used = 0]
      BY <2>3
    <3> QED  BY <1>3, <3>1 DEF Ring
  <2> HIDE DEF P, rc, q, c, G
  <2>5. [W EXCEPT !.D.buffer_used = 0, !.D.period_ptr = 0] = [W EXCEPT !.D = P]
    BY <1>3, <2>4 DEF PassRec
  <2>6. [W EXCEPT !.D = P] = [W EXCEPT !.D = P, !.rc = rc]
    BY <1>3, <2>3 DEF PassRec
  <2> QED  BY <1>8, <2>3, <2>4, <2>5, <2>6
<1> HIDE DEF P, rc, G
<1>11. /\ G \in PassRec /\ G.D = P /\ G.rc = rc /\ G.S = W.S /\ G.H = W.H
       /\ G.progress = W.progress /\ G.lost = W.lost /\ G.saved = W.saved /\ G.staged = W.staged
       /\ G.transferred = W.transferred /\ G.dropped = W.dropped /\ G.first = W.first
       /\ G.halt_at = W.halt_at /\ G.need = W.need
  <2>1. rc \in Outcomes
    BY <1>10 DEF Outcomes
  <2> QED  BY <1>3, <1>8, <1>9, <2>1 DEF PassRec
<1>12. RingOK(P, now) /\ EndOf(P, now) = EndOf(W.D, now) /\ Capacity(P) = Capacity(W.D)
  <2>1. c <= P.period /\ q <= c /\ (q > 0 => c = P.period /\ q < P.period)
    BY <1>3, <1>9
  <2> HIDE DEF q, c
  <2> QED  BY <1>3, <1>9, <2>1 DEF RingOK, EndOf, Capacity, Plays
<1>13. StreamOK(q, c, FALSE, C.S, W.H, sent + C.progress, C.lost)
  <2>1. StreamOK(p, b, FALSE, C.S, C.H, sent + C.progress, C.lost)
    <3>1. StreamOK(C.D.period_ptr, C.D.buffer_used, C.D.params, C.S, C.H, sent + C.progress, C.lost)
      BY DEF Ready, Sound
    <3>2. C.D.params = FALSE
      BY ReadyIs
    <3> QED  BY <3>1, <3>2, Zenon
  <2>2. Played1(e, data, k) = Sent(e, p, C.S, k)
    BY DEF Played1, Sent
  <2>3. \A h \in C.H : h.at < e
    BY <1>2
  <2> DEFINE N == sent + C.progress
             T == C.S
             J == C.H
             L == C.lost
  <2>4. k \in 1 .. b - p /\ J \in SUBSET Notes /\ \A h \in J : h.at < e
    <3>1. k \in 1 .. b - p
      OBVIOUS
    <3> QED  BY <1>1, <1>2, <3>1, Zenon
  <2>5. StreamOK(p, b, FALSE, T, J, N, L)
    BY <2>1
  <2> HIDE DEF N, T, J, L
  <2>6. StreamOK(p + k, b, FALSE, T, J \cup Sent(e, p, T, k), N, L)
    BY <2>4, <2>5, StreamGives
  <2>7. StreamOK(p + k, b, FALSE, T, W.H, N, L)
    BY <1>2, <2>2, <2>6 DEF T, J
  <2>8. CASE p + k = b
    <3>1. StreamOK(b, b, FALSE, T, W.H, N, L)
      BY <2>7, <2>8
    <3>2. StreamOK(0, 0, FALSE, T, W.H, N, L)
      BY <3>1, StreamEmpty
    <3> QED  BY <2>8, <3>2 DEF N, T, L
  <2>9. CASE p + k # b
    BY <2>7, <2>9 DEF N, T, L
  <2> QED  BY <2>8, <2>9
<1>14. SavedOK(P, G.S, G.rc, G.saved, G.staged)
  <2>1. SavedOK(W.D, W.S, W.rc, W.saved, W.staged)
    BY <1>2 DEF Almost
  <2>2. SavedOK(C.D, C.S, C.rc, C.saved, C.staged)
    BY DEF Ready, Sound
  <2>3. C.D.bytes >= dsp.bytes /\ P.bytes = C.D.bytes + k /\ dsp.bytes \in Nat
        /\ C.D.bytes \in Nat
    BY <1>1, <1>2, <1>9, <2>2, RingIs DEF SavedOK
  <2>4. P.bytes >= dsp.bytes /\ P.bytes # dsp.bytes
    BY <2>3
  <2> QED  BY <1>2, <1>11, <2>1, <2>4 DEF SavedOK
<1>15. BufferOK(P, G.S) /\ HostOK(P, G.H, now, restarted)
  <2>1. BufferOK(W.D, W.S) /\ HostOK(W.D, W.H, now, restarted)
    BY <1>2 DEF Almost
  <2> QED  BY <1>9, <1>11, <1>12, <2>1, ZenonT(60) DEF BufferOK, HostOK
<1>16. Segments(P, G.dropped) /\ Fresh(P, G.transferred, G.first)
  <2>1. Segments(W.D, W.dropped) /\ Fresh(W.D, W.transferred, W.first)
    BY <1>2 DEF Almost
  <2> QED  BY <1>9, <1>11, <1>12, <2>1, Zenon DEF Segments, Fresh, Plays
<1>17. Tells(G.H, G.transferred, G.dropped, G.first) /\ (mode = "force" \/ Fits(P, now)) /\ Begun
  <2>1. Tells(W.H, W.transferred, W.dropped, W.first) /\ (mode = "force" \/ Fits(W.D, now)) /\ Begun
    BY <1>2 DEF Almost
  <2> QED  BY <1>9, <1>11, <1>12, <2>1, Zenon DEF Fits
<1>18. Halts(P, G.rc, G.halt_at, G.need)
  BY <1>10, <1>11 DEF Halts
<1>19. StreamOK(P.period_ptr, P.buffer_used, P.params, G.S, G.H, sent + G.progress, G.lost)
  BY <1>2, <1>3, <1>9, <1>11, <1>13, ZenonT(60)
<1>20. Sound(G, mode)
  BY <1>11, <1>12, <1>14, <1>15, <1>16, <1>17, <1>18, <1>19, Zenon DEF Sound
<1>21. k = b - p => G.rc = "ok" /\ G = [W EXCEPT !.D.buffer_used = 0, !.D.period_ptr = 0]
  BY <1>11, <1>101
<1>22. /\ Sound(G, mode) /\ G.progress = C.progress /\ G.rc \in {"ok", "again"} /\ ~G.D.params
       /\ ~G.D.prepare /\ (G.rc = "ok" => G.D.buffer_used = 0)
  BY <1>2, <1>3, <1>9, <1>10, <1>11, <1>20
<1> QED  BY <1>21, <1>22 DEF G, Advances

LEMMA AdvancedIs ==
  ASSUME NEW C, NEW mode \in Modes, NEW p, NEW b, NEW data, NEW k, NEW e, NEW W,
         Gave(C, W, mode, p, b, data, k, e)
  PROVE  LET G == Advanced(C, W, mode)
         IN /\ Sound(G, mode) /\ G.progress = C.progress /\ G.rc \in {"ok", "again"} /\ ~G.D.params
            /\ ~G.D.prepare /\ (G.rc = "ok" => G.D.buffer_used = 0)
<1> DEFINE G == Advanced(C, W, mode)
<1> HIDE DEF G
<1>1. Advances(G, C, W, mode, k, b, p)
  BY AdvancedAll DEF G
<1>2. /\ Sound(G, mode) /\ G.progress = C.progress /\ G.rc \in {"ok", "again"} /\ ~G.D.params
      /\ ~G.D.prepare /\ (G.rc = "ok" => G.D.buffer_used = 0)
  BY <1>1 DEF Advances
<1> QED  BY <1>2 DEF G

Emptied(G, W) == G = [W EXCEPT !.D.buffer_used = 0, !.D.period_ptr = 0] /\ G.rc = "ok"
LEMMA AdvancedWhole ==
  ASSUME NEW C, NEW mode \in Modes, NEW p, NEW b, NEW data, NEW k, NEW e, NEW W,
         Gave(C, W, mode, p, b, data, k, e), k = b - p
  PROVE  Emptied(Advanced(C, W, mode), W)
<1> DEFINE G == Advanced(C, W, mode)
<1> HIDE DEF G
<1>1. Advances(G, C, W, mode, k, b, p)
  BY AdvancedAll DEF G
<1>2. G = [W EXCEPT !.D.buffer_used = 0, !.D.period_ptr = 0] /\ G.rc = "ok"
  BY <1>1 DEF Advances
<1> QED  BY <1>2 DEF G, Emptied

\* What a step of a pass leads to, whatever it was.
Goes(G, mode, progress) ==
  /\ Sound(G, mode) /\ G.progress = progress /\ (G.rc = "halt" => mode = "block")
  /\ ~G.D.params

\* The whole fragment that is staged is given, or what the ring takes of it.
LEMMA GiveStagedIs ==
  ASSUME NEW C, NEW mode \in Modes, Ready(C, mode), C.D.buffer_used = C.D.period
  PROVE  LET G == GiveStaged(C, mode)
         IN /\ Goes(G, mode, C.progress)
            /\ G.rc = "ok" => ~G.D.prepare /\ G.D.buffer_used = 0
<1> DEFINE X == SaveStaging(C)
           p == C.D.period_ptr
           b == C.D.buffer_used
           data == SubSeq(C.S, p + 1, b)
           W == Write2(X, data, mode)
           G == GiveStaged(C, mode)
<1>1. /\ C \in PassRec /\ C.D \in Ring /\ C.S \in Seq(Nat)
      /\ p \in Nat /\ b \in Nat /\ p < b /\ b = C.D.period /\ Len(C.S) = b
  <2>1. /\ C \in PassRec /\ C.D \in Ring /\ C.S \in Seq(Nat)
        /\ C.D.period \in Nat /\ C.D.period > 0 /\ Len(C.S) = C.D.period
        /\ C.D.period_ptr \in 0 .. C.D.buffer_used /\ C.D.period_ptr < C.D.period
    BY ReadyIs
  <2> QED  BY <2>1
<1>2. /\ Sound(X, mode) /\ X.saved /\ X.D = C.D /\ X.S = C.S
      /\ X.progress = C.progress /\ X.rc = C.rc
  BY SavedIs DEF Ready
<1>3. G = IF W.rc = "ok" THEN Advanced(X, W, mode) ELSE W
  <2>1. GiveStaged(C, mode) =
          Then(Write2(X, data, mode), LAMBDA g : Advanced(C, g, mode))
    BY Zenon DEF GiveStaged
  <2>2. GiveStaged(C, mode) = IF W.rc = "ok" THEN Advanced(C, W, mode) ELSE W
    BY <2>1, Zenon DEF Then
  <2>3. Advanced(C, W, mode) = Advanced(X, W, mode)
    BY <1>2 DEF Advanced, Took
  <2> QED  BY <2>2, <2>3
<1>4. Ready(X, mode)
  BY <1>2 DEF Ready
<1>5. /\ data \in Seq(Nat) /\ Len(data) = b - p
      /\ \A i \in 1 .. b - p : data[i] = C.S[p + i]
  <2> HIDE DEF p, b
  <2>1. p <= b /\ b <= Len(C.S) /\ p \in Nat /\ b \in Nat /\ C.S \in Seq(Nat)
    BY <1>1
  <2> HIDE <1>1, <1>2, <1>3, <1>4
  <2> QED  BY <2>1, Slice
<1> HIDE DEF X, W, G, data
<1>7. ASSUME NEW k \in 1 .. Len(data), NEW e \in Int, k = Len(data) \/ mode = "nonblock",
             Gives(X, W, mode, e, data, k)
      PROVE  Goes(G, mode, C.progress) /\ (G.rc = "ok" => ~G.D.prepare /\ G.D.buffer_used = 0)
  <2>1. G = Advanced(X, W, mode)
    BY <1>3, <1>7, Zenon DEF Gives
  <2>2. /\ k \in Nat /\ k > 0 /\ p + k <= b /\ (k = b - p \/ mode = "nonblock")
    <3> HIDE DEF p, b
    <3> QED  BY <1>1, <1>5, <1>7
  <2>3. \A i \in 1 .. k : data[i] = X.S[p + i]
    <3> HIDE DEF p, b
    <3>1. \A i \in 1 .. k : i \in 1 .. b - p
      BY <1>1, <2>2
    <3> QED  BY <1>2, <1>5, <3>1
  <2>4. p = X.D.period_ptr /\ b = X.D.buffer_used /\ b = X.D.period
    BY <1>1, <1>2
  <2> HIDE DEF p, b
  <2>5. /\ Sound(G, mode) /\ G.progress = X.progress /\ G.rc \in {"ok", "again"} /\ ~G.D.params
        /\ ~G.D.prepare /\ (G.rc = "ok" => G.D.buffer_used = 0)
    <3>1. Gave(X, W, mode, p, b, data, k, e)
      BY <1>1, <1>2, <1>4, <1>7, <2>2, <2>3, <2>4, Zenon DEF Gave
    <3> DEFINE A == Advanced(X, W, mode)
    <3>2. /\ Sound(A, mode) /\ A.progress = X.progress /\ A.rc \in {"ok", "again"} /\ ~A.D.params
          /\ ~A.D.prepare /\ (A.rc = "ok" => A.D.buffer_used = 0)
      BY <3>1, AdvancedIs
    <3> QED  BY <2>1, <3>2, Zenon
  <2> QED  BY <1>2, <2>5 DEF Goes
<1>8. Len(data) \in 1 .. X.D.period
  <2> HIDE DEF p, b
  <2> QED  BY <1>1, <1>2, <1>5, SMTT(40)
<1>9. \/ /\ W.rc \in {"halt", "again"} /\ Sound(W, mode) /\ W.progress = X.progress /\ ~W.D.params
         /\ (W.rc = "halt" => mode = "block")
      \/ \E k \in 1 .. Len(data), e \in Int :
           (k = Len(data) \/ mode = "nonblock") /\ Gives(X, W, mode, e, data, k)
  BY <1>4, <1>5, <1>8, Write2Is DEF W
<1>10. Goes(G, mode, C.progress) /\ (G.rc = "ok" => ~G.D.prepare /\ G.D.buffer_used = 0)
  <2>1. CASE \E k \in 1 .. Len(data), e \in Int :
               (k = Len(data) \/ mode = "nonblock") /\ Gives(X, W, mode, e, data, k)
    BY <1>7, <2>1, Zenon
  <2>2. CASE W.rc \in {"halt", "again"} /\ Sound(W, mode) /\ W.progress = X.progress /\ ~W.D.params
             /\ (W.rc = "halt" => mode = "block")
    <3>1. G = W /\ W.rc # "ok"
      BY <1>3, <2>2 DEF G
    <3> QED  BY <1>2, <2>2, <3>1, Zenon DEF Goes
  <2> QED  BY <1>9, <2>1, <2>2, Zenon
<1> QED  BY <1>10 DEF G

-----------------------------------------------------------------------------
(* A write. *)

\* The next n bytes of the program's.
LEMMA FromIs ==
  ASSUME NEW C, C.progress \in Nat, sent \in Nat, NEW n \in Nat
  PROVE  /\ FromProgram(C, n) \in Seq(Nat) /\ Len(FromProgram(C, n)) = n
         /\ \A i \in 1 .. n : FromProgram(C, n)[i] = sent + C.progress + i
<1> DEFINE F == FromProgram(C, n)
<1>1. F = [i \in 1 .. n |-> sent + C.progress + i]
  BY DEF FromProgram
<1>2. \A i \in 1 .. n : sent + C.progress + i \in Nat
  OBVIOUS
<1>3. F \in [1 .. n -> Nat]
  BY <1>1, <1>2
<1>4. F \in Seq(Nat) /\ Len(F) = n
  BY <1>1, <1>3
<1> QED  BY <1>1, <1>4

\* n bytes of the program's are staged behind the b that are.
LEMMA StagesIs ==
  ASSUME NEW C, NEW mode, Ready(C, mode), NEW n \in Nat, C.D.buffer_used + n <= C.D.period
  PROVE  LET F == [C EXCEPT !.S = Overwritten(@, C.D.buffer_used, FromProgram(C, n)),
                            !.D.buffer_used = @ + n, !.progress = @ + n]
         IN /\ Ready(F, mode) /\ F.progress = C.progress + n
            /\ F.D.buffer_used = C.D.buffer_used + n /\ F.D.period = C.D.period
            /\ F.D.state = C.D.state /\ F.D.t0 = C.D.t0 /\ F.D.written = C.D.written
            /\ F.D.periods = C.D.periods /\ F.D.period_ptr = C.D.period_ptr
<1> DEFINE b == C.D.buffer_used
           p == C.D.period_ptr
           N == sent + C.progress
           c == b + n
           T == Overwritten(C.S, b, FromProgram(C, n))
           m == C.progress + n
           P == [C.D EXCEPT !.buffer_used = c]
           F == [C EXCEPT !.S = Overwritten(@, C.D.buffer_used, FromProgram(C, n)),
                          !.D.buffer_used = @ + n, !.progress = @ + n]
<1>1. /\ C \in PassRec /\ C.D \in Ring /\ C.S \in Seq(Nat) /\ C.H \in SUBSET Notes
      /\ C.progress \in Nat /\ sent \in Nat /\ now \in Nat /\ dsp \in Ring
      /\ RingOK(C.D, now) /\ C.D.params = FALSE
  BY ReadyIs
<1>2. /\ C.D.period \in Nat /\ C.D.period > 0 /\ Len(C.S) = C.D.period
      /\ b \in Nat /\ p \in Nat /\ p <= b /\ b <= C.D.period /\ p < C.D.period
  <2>1. /\ C.D.period \in Nat /\ C.D.period > 0 /\ Len(C.S) = C.D.period
        /\ C.D.buffer_used \in 0 .. C.D.period /\ C.D.period_ptr \in 0 .. C.D.buffer_used
        /\ C.D.period_ptr < C.D.period
    BY ReadyIs
  <2> QED  BY <2>1
<1>3. p > 0 => b = C.D.period
  BY <1>1 DEF RingOK
<1>4. F = [C EXCEPT !.S = T, !.D = P, !.progress = m]
  BY <1>1 DEF PassRec
<1> HIDE DEF F
<1>5. /\ FromProgram(C, n) \in Seq(Nat) /\ Len(FromProgram(C, n)) = n
      /\ \A i \in 1 .. n : FromProgram(C, n)[i] = N + i
  BY <1>1, FromIs
<1>6. c \in Nat /\ c <= C.D.period /\ b <= c /\ p <= c /\ m \in Nat /\ N \in Nat /\ sent + m = N + n
      /\ (p > 0 => c = C.D.period)
  <2>1. b + n <= C.D.period
    OBVIOUS
  <2>2. m \in Nat /\ N \in Nat /\ sent + m = N + n
    BY <1>1
  <2> HIDE DEF b, p, m, N
  <2> QED  BY <1>2, <1>3, <2>1, <2>2
<1> HIDE DEF b, p
<1>7. /\ T \in Seq(Nat) /\ Len(T) = Len(C.S)
      /\ \A i \in 1 .. b : T[i] = C.S[i]
      /\ \A i \in b + 1 .. b + n : T[i] = N + (i - b)
  <2>1. /\ T \in Seq(Nat) /\ Len(T) = Len(C.S)
        /\ \A i \in 1 .. Len(C.S) :
             T[i] = IF i > b /\ i <= b + n THEN FromProgram(C, n)[i - b] ELSE C.S[i]
    <3> DEFINE S == C.S
               data == FromProgram(C, n)
    <3>1. S \in Seq(Nat) /\ b \in Nat /\ data \in Seq(Nat) /\ Len(data) = n
      BY <1>1, <1>2, <1>5
    <3> HIDE DEF S, data
    <3>2. LET U == Overwritten(S, b, data)
          IN /\ U \in Seq(Nat) /\ Len(U) = Len(S)
             /\ \A i \in 1 .. Len(S) :
                  U[i] = IF i > b /\ i <= b + Len(data) THEN data[i - b] ELSE S[i]
      BY <3>1, OverwrittenIs
    <3> QED  BY <3>1, <3>2, Zenon DEF S, data, T
  <2> HIDE DEF T, N
  <2>2. ASSUME NEW i \in 1 .. b PROVE T[i] = C.S[i]
    <3>1. i \in 1 .. Len(C.S) /\ ~(i > b)
      BY <1>2
    <3> QED  BY <2>1, <3>1
  <2>3. ASSUME NEW i \in b + 1 .. b + n PROVE T[i] = N + (i - b)
    <3>1. i \in 1 .. Len(C.S) /\ i > b /\ i <= b + n /\ i - b \in 1 .. n
      BY <1>2, <1>6
    <3>2. T[i] = FromProgram(C, n)[i - b]
      BY <2>1, <3>1
    <3> QED  BY <1>5, <3>1, <3>2
  <2> QED  BY <2>1, <2>2, <2>3
<1> HIDE DEF T, c, m, N
<1>8. /\ P \in Ring /\ P.buffer_used = c /\ P.period_ptr = p /\ P.set = C.D.set
      /\ P.params = C.D.params /\ P.prepare = C.D.prepare /\ P.period = C.D.period
      /\ P.periods = C.D.periods /\ P.bytes = C.D.bytes /\ P.state = C.D.state
      /\ P.segment = C.D.segment /\ P.t0 = C.D.t0 /\ P.written = C.D.written
  BY <1>1, <1>6 DEF Ring, p
<1> HIDE DEF P
<1>9. /\ F \in PassRec /\ F.D = P /\ F.S = T /\ F.H = C.H /\ F.progress = m
      /\ F.lost = C.lost /\ F.saved = C.saved /\ F.staged = C.staged
      /\ F.transferred = C.transferred /\ F.dropped = C.dropped /\ F.first = C.first
      /\ F.halt_at = C.halt_at /\ F.need = C.need /\ F.rc = C.rc
  BY <1>1, <1>4, <1>6, <1>7, <1>8 DEF PassRec
<1>10. RingOK(P, now) /\ EndOf(P, now) = EndOf(C.D, now) /\ Capacity(P) = Capacity(C.D)
  BY <1>1, <1>2, <1>6, <1>8 DEF RingOK, EndOf, Capacity, Plays
<1>11. BufferOK(P, T)
  BY <1>2, <1>7, <1>8 DEF BufferOK
<1>12. /\ HostOK(C.D, C.H, now, restarted) /\ Segments(C.D, C.dropped)
       /\ Fresh(C.D, C.transferred, C.first) /\ Tells(C.H, C.transferred, C.dropped, C.first)
       /\ (mode = "force" \/ Fits(C.D, now)) /\ Begun /\ C.rc = "ok"
       /\ SavedOK(C.D, C.S, C.rc, C.saved, C.staged)
       /\ StreamOK(C.D.period_ptr, C.D.buffer_used, C.D.params, C.S, C.H, sent + C.progress, C.lost)
  BY DEF Ready, Sound
<1>13. HostOK(P, F.H, now, restarted) /\ Segments(P, F.dropped)
  BY <1>8, <1>9, <1>10, <1>12, Zenon DEF HostOK, Segments, Plays
<1>14. Fresh(P, F.transferred, F.first) /\ Tells(F.H, F.transferred, F.dropped, F.first)
       /\ (mode = "force" \/ Fits(P, now))
  BY <1>8, <1>9, <1>10, <1>12, Zenon DEF Fresh, Fits
<1>15. SavedOK(P, F.S, F.rc, F.saved, F.staged)
  <2>1. Keeps(C.D, C.S) => Keeps(P, T)
    <3>1. dsp.buffer_used \in Nat /\ C.D.buffer_used \in Nat
      BY <1>1, RingIs
    <3>2. HAVE Keeps(C.D, C.S)
    <3>3. C.D.period = dsp.period /\ b >= dsp.buffer_used
          /\ \A i \in 1 .. dsp.buffer_used : C.S[i] = staging[i]
      BY <3>2 DEF Keeps, b
    <3>4. c >= dsp.buffer_used
      BY <1>2, <1>6, <3>1, <3>3
    <3>5. \A i \in 1 .. dsp.buffer_used : i \in 1 .. b
      BY <1>2, <3>1, <3>3
    <3>6. \A i \in 1 .. dsp.buffer_used : T[i] = staging[i]
      BY <1>7, <3>3, <3>5, Zenon
    <3> QED  BY <1>8, <3>3, <3>4, <3>6, Zenon DEF Keeps
  <2>2. dsp.segment \in Nat
    BY <1>1, RingIs
  <2> QED  BY <1>8, <1>9, <1>12, <2>1, Zenon DEF SavedOK
<1>16. Halts(P, F.rc, F.halt_at, F.need)
  BY <1>9, <1>12 DEF Halts
<1>17. StreamOK(P.period_ptr, P.buffer_used, P.params, F.S, F.H, sent + F.progress, F.lost)
  <2> DEFINE S == C.S
             H == C.H
             L == C.lost
  <2>1. StreamOK(p, b, FALSE, S, H, N, L) /\ H \in SUBSET Notes
    BY <1>1, <1>12, Zenon DEF p, b, N
  <2>2. \A i \in 1 .. b : T[i] = S[i]
    BY <1>7
  <2> HIDE DEF S, H, L
  <2>3. StreamOK(p, b + n, FALSE, T, H, N + n, L)
    BY <1>2, <1>7, <2>1, <2>2, StreamStages
  <2>4. c = b + n
    BY DEF c
  <2> QED  BY <1>1, <1>6, <1>8, <1>9, <2>3, <2>4, Zenon DEF H, L
<1>18. Sound(F, mode)
  BY <1>9, <1>10, <1>11, <1>12, <1>13, <1>14, <1>15, <1>16, <1>17, Zenon DEF Sound
<1>19. Ready(F, mode)
  BY <1>8, <1>9, <1>18 DEF Ready
<1> QED  BY <1>8, <1>9, <1>19 DEF F, m, c, b, p

\* Write1() stages a part, and gives the fragment it fills.
LEMMA StageIs ==
  ASSUME NEW C, NEW mode \in Modes, Ready(C, mode), NEW size \in Nat, C.progress <= size
  PROVE  \E q \in 0 .. size : Goes(Stage(C, size, mode), mode, q)
<1> DEFINE n == Min({size - C.progress, C.D.period - C.D.buffer_used})
           F == [C EXCEPT !.S = Overwritten(@, C.D.buffer_used, FromProgram(C, n)),
                          !.D.buffer_used = @ + n, !.progress = @ + n]
           G == Stage(C, size, mode)
<1>1. /\ C.progress \in Nat /\ C.D.period \in Nat /\ C.D.buffer_used \in 0 .. C.D.period
  BY ReadyIs
<1>2. n \in Nat /\ C.D.buffer_used + n <= C.D.period /\ C.progress + n <= size
  <2>1. size - C.progress \in Nat /\ C.D.period - C.D.buffer_used \in Nat
    BY <1>1
  <2>2. n = IF size - C.progress <= C.D.period - C.D.buffer_used THEN size - C.progress
            ELSE C.D.period - C.D.buffer_used
    BY <2>1, MinTwo
  <2> HIDE DEF n
  <2> QED  BY <1>1, <2>1, <2>2
<1>3. G = Then(F, LAMBDA f : IF f.D.buffer_used = f.D.period THEN GiveStaged(f, mode) ELSE f)
  BY Zenon DEF Stage, Staging
<1> HIDE DEF n
<1>4. Ready(F, mode) /\ F.progress = C.progress + n
  BY <1>2, StagesIs
<1> HIDE DEF F, G
<1>5. G = IF F.D.buffer_used = F.D.period THEN GiveStaged(F, mode) ELSE F
  BY <1>3, <1>4, Zenon DEF Then, Ready
<1>6. Goes(G, mode, F.progress)
  <2>1. CASE F.D.buffer_used = F.D.period
    BY <1>4, <1>5, <2>1, GiveStagedIs
  <2>2. CASE F.D.buffer_used # F.D.period
    BY <1>4, <1>5, <2>2 DEF Goes, Ready
  <2> QED  BY <2>1, <2>2
<1>7. F.progress \in 0 .. size
  BY <1>1, <1>2, <1>4
<1> QED  BY <1>6, <1>7 DEF G

\* Bytes go to the host past the staging buffer.
LEMMA StreamPasses ==
  ASSUME NEW S, NEW H \in SUBSET Notes, NEW N \in Nat, NEW L, StreamOK(0, 0, FALSE, S, H, N, L),
         NEW k \in Nat, k > 0, NEW T, \A i \in 1 .. k : T[i] = N + i,
         NEW e \in Int, \A h \in H : h.at < e
  PROVE  StreamOK(0, 0, FALSE, T, H \cup Sent(e, 0, T, k), N + k, L)
<1>1. 0 + k = k /\ k - 0 = k
  OBVIOUS
<1>2. \A i \in 1 .. 0 : T[i] = S[i]
  OBVIOUS
<1>3. \A i \in 0 + 1 .. 0 + k : i \in 1 .. k /\ i - 0 = i
  OBVIOUS
<1>4. \A i \in 0 + 1 .. 0 + k : T[i] = N + (i - 0)
  BY <1>3
<1>5. 0 \in Nat /\ 0 <= 0
  OBVIOUS
<1>6. StreamOK(0, 0 + k, FALSE, T, H, N + k, L)
  BY <1>2, <1>4, <1>5, StreamStages
<1>7. StreamOK(0, k, FALSE, T, H, N + k, L)
  BY <1>1, <1>6, Zenon
<1>8. k \in 1 .. k - 0 /\ 0 < k
  OBVIOUS
<1>9. StreamOK(0 + k, k, FALSE, T, H \cup Sent(e, 0, T, k), N + k, L)
  BY <1>5, <1>7, <1>8, StreamGives
<1>10. StreamOK(k, k, FALSE, T, H \cup Sent(e, 0, T, k), N + k, L)
  BY <1>1, <1>9, Zenon
<1> QED  BY <1>10, StreamEmpty

\* A whole fragment that is not staged went to the ring, k bytes of it.
Went(C, V, W, mode, data, k, e) ==
  /\ Ready(C, mode) /\ C.saved /\ C.D.buffer_used = 0
  /\ Ready(V, mode) /\ V.D = C.D /\ V.H = C.H /\ V.progress = C.progress /\ V.saved
  /\ V.lost = C.lost /\ V.transferred = C.transferred /\ V.dropped = C.dropped
  /\ data = FromProgram(C, C.D.period) /\ V.S = Overwritten(C.S, 0, data)
  /\ k \in Nat /\ k > 0 /\ k <= C.D.period /\ (k = C.D.period \/ mode = "nonblock")
  /\ e \in Int /\ Gives(V, W, mode, e, data, k)

LEMMA PassedOf ==
  ASSUME NEW C, NEW V, NEW mode \in Modes, NEW W, NEW data, NEW k, NEW e,
         Went(C, V, W, mode, data, k, e)
  PROVE  LET G == [W EXCEPT !.progress = @ + k,
                            !.rc = IF mode = "nonblock" /\ k # C.D.period THEN "again" ELSE @]
         IN /\ Goes(G, mode, C.progress + k) /\ G.rc \in {"ok", "again"}
<1> DEFINE rc == IF k = C.D.period THEN "ok" ELSE "again"
           m == W.progress + k
           N == sent + C.progress
           G == [W EXCEPT !.progress = @ + k,
                          !.rc = IF mode = "nonblock" /\ k # C.D.period THEN "again" ELSE @]
           X == [W EXCEPT !.progress = m, !.rc = rc]
<1>0. /\ Ready(C, mode) /\ C.saved /\ C.D.buffer_used = 0
      /\ Ready(V, mode) /\ V.D = C.D /\ V.H = C.H /\ V.progress = C.progress /\ V.saved
      /\ V.lost = C.lost /\ V.transferred = C.transferred /\ V.dropped = C.dropped
      /\ data = FromProgram(C, C.D.period) /\ V.S = Overwritten(C.S, 0, data)
      /\ k \in Nat /\ k > 0 /\ k <= C.D.period /\ (k = C.D.period \/ mode = "nonblock")
      /\ e \in Int /\ Gives(V, W, mode, e, data, k)
  BY Zenon DEF Went
<1>1. /\ C \in PassRec /\ C.D \in Ring /\ C.S \in Seq(Nat) /\ C.H \in SUBSET Notes
      /\ C.progress \in Nat /\ sent \in Nat /\ now \in Nat /\ dsp \in Ring
      /\ C.D.period \in Nat /\ C.D.period > 0 /\ Len(C.S) = C.D.period /\ C.D.params = FALSE
  BY <1>0, ReadyIs
<1>2. C.D.period_ptr = 0
  <2>1. C.D.period_ptr \in 0 .. C.D.buffer_used
    BY <1>0, ReadyIs
  <2> QED  BY <1>0, <2>1
<1>3. /\ Almost(W, mode) /\ W.rc = "ok" /\ W.transferred /\ \A h \in C.H : h.at < e
      /\ W.H = C.H \cup Played1(e, data, k) /\ W.S = V.S
      /\ W.progress = C.progress /\ W.lost = C.lost /\ W.saved
      /\ W.D.bytes = C.D.bytes + k /\ SameFragment(C.D, W.D)
  BY <1>0, Zenon DEF Gives
<1>4. /\ W \in PassRec /\ W.D \in Ring /\ W.D.params = FALSE
      /\ RingOK(W.D, now) /\ W.D.buffer_used = 0 /\ W.D.period_ptr = 0
  <2>1. /\ W \in PassRec /\ RingOK(W.D, now)
    BY <1>3 DEF Almost
  <2>2. W.D \in Ring
    BY <2>1 DEF PassRec
  <2> QED  BY <1>0, <1>1, <1>2, <1>3, <2>1, <2>2, Zenon DEF SameFragment
<1>5. m \in Nat /\ m = C.progress + k /\ N \in Nat /\ sent + m = N + k
  BY <1>0, <1>1, <1>3
<1>6. rc \in {"ok", "again"} /\ rc \in Outcomes
  BY DEF Outcomes
<1>7. G = X
  <2>1. CASE k = C.D.period
    <3>1. rc = "ok" /\ W.rc = "ok"
      BY <1>3, <2>1
    <3> HIDE DEF rc
    <3> QED  BY <1>4, <2>1, <3>1 DEF PassRec
  <2>2. CASE k # C.D.period
    <3>1. rc = "again" /\ mode = "nonblock"
      BY <1>0, <2>2
    <3> HIDE DEF rc
    <3> QED  BY <1>4, <2>2, <3>1 DEF PassRec
  <2> QED  BY <2>1, <2>2
<1> HIDE DEF rc, m, G
<1>8. /\ X \in PassRec /\ X.D = W.D /\ X.rc = rc /\ X.S = W.S /\ X.H = W.H
      /\ X.progress = m /\ X.lost = W.lost /\ X.saved = W.saved /\ X.staged = W.staged
      /\ X.transferred = W.transferred /\ X.dropped = W.dropped /\ X.first = W.first
      /\ X.halt_at = W.halt_at /\ X.need = W.need
  BY <1>4, <1>5, <1>6 DEF PassRec
<1> HIDE DEF X, N
<1>9. StreamOK(0, 0, FALSE, W.S, W.H, N + k, C.lost)
  <2> DEFINE T == V.S
             J == C.H
             L == C.lost
  <2>1. StreamOK(0, 0, FALSE, C.S, J, N, L)
    BY <1>0, <1>1, <1>2, Zenon DEF Ready, Sound, N
  <2>2. /\ data \in Seq(Nat) /\ Len(data) = C.D.period
        /\ \A i \in 1 .. C.D.period : data[i] = N + i
    <3>1. C.D.period \in Nat /\ C.progress \in Nat /\ sent \in Nat /\ data = FromProgram(C, C.D.period)
      BY <1>0, <1>1
    <3> QED  BY <3>1, FromIs DEF N
  <2>3. \A i \in 1 .. C.D.period : T[i] = data[i]
    <3> DEFINE S == C.S
    <3>1. S \in Seq(Nat) /\ 0 \in Nat /\ data \in Seq(Nat) /\ Len(S) = C.D.period
      BY <1>1, <2>2
    <3> HIDE DEF S
    <3>2. LET U == Overwritten(S, 0, data)
          IN \A i \in 1 .. Len(S) :
               U[i] = IF i > 0 /\ i <= 0 + Len(data) THEN data[i - 0] ELSE S[i]
      BY <3>1, OverwrittenIs
    <3>3. \A i \in 1 .. C.D.period :
            i > 0 /\ i <= 0 + Len(data) /\ i - 0 = i /\ i \in 1 .. Len(S)
      BY <1>1, <2>2, <3>1
    <3>4. T = Overwritten(S, 0, data)
      BY <1>0 DEF S
    <3> HIDE DEF T
    <3> QED  BY <3>2, <3>3, <3>4
  <2>4. \A i \in 1 .. k : i \in 1 .. C.D.period
    BY <1>0, <1>1
  <2>5. \A i \in 1 .. k : T[i] = N + i
    BY <2>2, <2>3, <2>4, Zenon
  <2> HIDE DEF T, J, L
  <2>7. J \in SUBSET Notes /\ \A h \in J : h.at < e
    BY <1>1, <1>3, Zenon DEF J
  <2>12. StreamOK(0, 0, FALSE, T, J \cup Sent(e, 0, T, k), N + k, L)
    BY <1>0, <1>5, <2>1, <2>5, <2>7, StreamPasses
  <2>13. Played1(e, data, k) = Sent(e, 0, T, k)
    <3>1. \A i \in 1 .. k : T[0 + i] = data[i]
      BY <2>3, <2>4 DEF T
    <3> QED  BY <3>1 DEF Played1, Sent
  <2> QED  BY <1>3, <2>12, <2>13, Zenon DEF T, J, L
<1>10. StreamOK(X.D.period_ptr, X.D.buffer_used, X.D.params, X.S, X.H, sent + X.progress, X.lost)
  BY <1>3, <1>4, <1>5, <1>8, <1>9, Zenon
<1>11. SavedOK(X.D, X.S, X.rc, X.saved, X.staged)
  <2>1. SavedOK(W.D, W.S, W.rc, W.saved, W.staged)
    BY <1>3 DEF Almost
  <2>2. SavedOK(C.D, C.S, C.rc, C.saved, C.staged)
    BY <1>0 DEF Ready, Sound
  <2>3. C.D.bytes >= dsp.bytes /\ X.D.bytes = C.D.bytes + k /\ dsp.bytes \in Nat
        /\ C.D.bytes \in Nat
    BY <1>1, <1>3, <1>8, <2>2, RingIs DEF SavedOK
  <2>4. X.D.bytes >= dsp.bytes /\ X.D.bytes # dsp.bytes
    BY <1>0, <2>3
  <2> QED  BY <1>3, <1>8, <2>1, <2>4 DEF SavedOK
<1>12. Halts(X.D, X.rc, X.halt_at, X.need)
  BY <1>6, <1>8 DEF Halts
<1>13. Sound(X, mode)
  BY <1>3, <1>8, <1>10, <1>11, <1>12, Zenon DEF Sound, Almost
<1>14. Goes(X, mode, C.progress + k) /\ X.rc \in {"ok", "again"}
  BY <1>4, <1>5, <1>6, <1>8, <1>13 DEF Goes
<1> QED  BY <1>7, <1>14 DEF G

\* Nothing is staged: what the buffer holds does not matter.
LEMMA BufferedIs ==
  ASSUME NEW C, NEW mode, Ready(C, mode), C.saved, C.D.buffer_used = 0,
         NEW T \in Seq(Nat), Len(T) = C.D.period
  PROVE  LET V == [C EXCEPT !.S = T]
         IN /\ Ready(V, mode) /\ V.S = T
            /\ V.D = C.D /\ V.H = C.H /\ V.progress = C.progress /\ V.saved
            /\ V.lost = C.lost /\ V.transferred = C.transferred /\ V.dropped = C.dropped
<1> DEFINE V == [C EXCEPT !.S = T]
<1>1. /\ C \in PassRec /\ C.D \in Ring /\ dsp \in Ring /\ C.D.period_ptr \in 0 .. C.D.buffer_used
  BY ReadyIs
<1>2. /\ V \in PassRec /\ V.D = C.D /\ V.S = T /\ V.H = C.H /\ V.progress = C.progress
      /\ V.lost = C.lost /\ V.saved = C.saved /\ V.staged = C.staged
      /\ V.transferred = C.transferred /\ V.dropped = C.dropped /\ V.first = C.first
      /\ V.halt_at = C.halt_at /\ V.need = C.need /\ V.rc = C.rc
  BY <1>1 DEF PassRec
<1> HIDE DEF V
<1>3. C.D.period_ptr = 0
  BY <1>1
<1>4. BufferOK(C.D, T)
  BY DEF BufferOK
<1>5. StreamOK(C.D.period_ptr, C.D.buffer_used, C.D.params, T, C.H, sent + C.progress, C.lost)
  <2>1. StreamOK(0, 0, C.D.params, C.S, C.H, sent + C.progress, C.lost)
    BY <1>3, Zenon DEF Ready, Sound
  <2>2. StreamOK(0, 0, C.D.params, T, C.H, sent + C.progress, C.lost)
    BY <2>1, StreamEmpty
  <2> QED  BY <1>3, <2>2, Zenon
<1>6. SavedOK(C.D, T, C.rc, C.saved, C.staged)
  <2>1. SavedOK(C.D, C.S, C.rc, C.saved, C.staged)
    BY DEF Ready, Sound
  <2>2. Keeps(C.D, C.S) => Keeps(C.D, T)
    <3>1. dsp.buffer_used \in Nat
      BY <1>1, RingIs
    <3> QED  BY <3>1 DEF Keeps
  <2> QED  BY <2>1, <2>2, Zenon DEF SavedOK
<1>7. Sound(V, mode)
  BY <1>2, <1>4, <1>5, <1>6, Zenon DEF Ready, Sound
<1> QED  BY <1>2, <1>7 DEF Ready, V

\* Write1() gives a whole fragment past the staging buffer.
LEMMA PassIs ==
  ASSUME NEW C, NEW mode \in Modes, Ready(C, mode), C.D.buffer_used = 0,
         NEW size \in Nat, size - C.progress >= C.D.period
  PROVE  \E q \in 0 .. size : Goes(Pass(C, mode), mode, q)
<1> DEFINE X == SaveStaging(C)
           data == FromProgram(C, C.D.period)
           T == Overwritten(C.S, 0, data)
           V == [X EXCEPT !.S = T]
           W == Write2(V, data, mode)
           G == Pass(C, mode)
<1>1. /\ C \in PassRec /\ C.D \in Ring /\ C.S \in Seq(Nat) /\ C.progress \in Nat /\ sent \in Nat
      /\ C.D.period \in Nat /\ C.D.period > 0 /\ Len(C.S) = C.D.period
  BY ReadyIs
<1>2. /\ Sound(X, mode) /\ X.saved /\ X.D = C.D /\ X.S = C.S
      /\ X.progress = C.progress /\ X.rc = C.rc
  BY SavedIs DEF Ready
<1>3. X.D.bytes \in Nat
  BY <1>1, <1>2, RingIs
<1>4. /\ data \in Seq(Nat) /\ Len(data) = C.D.period
  BY <1>1, FromIs
<1>5. T \in Seq(Nat) /\ Len(T) = C.D.period
  <2> DEFINE S == C.S
  <2>1. S \in Seq(Nat) /\ 0 \in Nat /\ data \in Seq(Nat) /\ Len(S) = C.D.period
    BY <1>1, <1>4
  <2> HIDE DEF S, data
  <2>2. Overwritten(S, 0, data) \in Seq(Nat) /\ Len(Overwritten(S, 0, data)) = Len(S)
    BY <2>1, OverwrittenIs
  <2> QED  BY <2>1, <2>2, Zenon DEF S
<1>6. G = IF W.rc = "ok"
          THEN [W EXCEPT !.progress = @ + Took(C, W),
                         !.rc = IF mode = "nonblock" /\ Took(C, W) # C.D.period THEN "again" ELSE @]
          ELSE W
  <2>1. V = [SaveStaging(C) EXCEPT !.S = Overwritten(@, 0, data)]
    BY <1>2
  <2> HIDE DEF V
  <2>2. G = Then(Write2(V, data, mode),
                 LAMBDA g : [g EXCEPT !.progress = @ + Took(C, g),
                               !.rc = IF mode = "nonblock" /\ Took(C, g) # C.D.period
                                      THEN "again" ELSE @])
    BY <2>1, Zenon DEF Pass, Passed
  <2> QED  BY <2>2, Zenon DEF Then
<1> HIDE DEF X, data, T, W, G
<1>7. Ready(X, mode)
  BY <1>2 DEF Ready
<1>8. /\ Ready(V, mode) /\ V.S = T
      /\ V.D = X.D /\ V.H = X.H /\ V.progress = X.progress /\ V.saved
      /\ V.lost = X.lost /\ V.transferred = X.transferred /\ V.dropped = X.dropped
  BY <1>2, <1>5, <1>7, BufferedIs
<1> HIDE DEF V
<1>9. Len(data) \in 1 .. V.D.period
  BY <1>1, <1>2, <1>4, <1>8
<1>10. \/ /\ W.rc \in {"halt", "again"} /\ Sound(W, mode) /\ W.progress = V.progress /\ ~W.D.params
          /\ (W.rc = "halt" => mode = "block")
       \/ \E k \in 1 .. Len(data), e \in Int :
            (k = Len(data) \/ mode = "nonblock") /\ Gives(V, W, mode, e, data, k)
  BY <1>4, <1>8, <1>9, Write2Is DEF W
<1>11. C.progress \in 0 .. size
  BY <1>1
<1>12. CASE W.rc \in {"halt", "again"} /\ Sound(W, mode) /\ W.progress = V.progress /\ ~W.D.params
            /\ (W.rc = "halt" => mode = "block")
  <2>1. G = W
    BY <1>6, <1>12
  <2>2. Goes(G, mode, C.progress)
    BY <1>2, <1>8, <1>12, <2>1, Zenon DEF Goes
  <2> QED  BY <1>11, <2>2, Zenon DEF G
<1>13. CASE \E k \in 1 .. Len(data), e \in Int :
              (k = Len(data) \/ mode = "nonblock") /\ Gives(V, W, mode, e, data, k)
  <2>1. PICK k \in 1 .. Len(data), e \in Int :
          (k = Len(data) \/ mode = "nonblock") /\ Gives(V, W, mode, e, data, k)
    BY <1>13, Zenon
  <2>2. k \in Nat /\ k > 0 /\ k <= C.D.period /\ (k = C.D.period \/ mode = "nonblock")
    BY <1>1, <1>4, <2>1
  <2>3. W.rc = "ok" /\ W.D.bytes = X.D.bytes + k
    BY <1>8, <2>1, Zenon DEF Gives
  <2>4. Took(C, W) = k
    BY <1>2, <1>3, <2>2, <2>3 DEF Took
  <2>5. data = FromProgram(X, X.D.period) /\ T = Overwritten(X.S, 0, data)
    BY <1>2, Zenon DEF data, T, FromProgram
  <2>6. Went(X, V, W, mode, data, k, e)
    BY <1>2, <1>7, <1>8, <2>1, <2>2, <2>5, Zenon DEF Went
  <2> DEFINE Y == [W EXCEPT !.progress = @ + k,
                            !.rc = IF mode = "nonblock" /\ k # X.D.period THEN "again" ELSE @]
  <2>7. Goes(Y, mode, X.progress + k)
    BY <2>6, PassedOf
  <2>8. G = Y
    BY <1>2, <1>6, <2>3, <2>4
  <2>9. C.progress + k \in 0 .. size
    BY <1>1, <2>2
  <2> HIDE DEF Y
  <2>10. Goes(G, mode, C.progress + k)
    BY <1>2, <2>7, <2>8
  <2> QED  BY <2>9, <2>10, Zenon DEF G
<1> QED  BY <1>10, <1>12, <1>13, Zenon

\* All through a write: what it leads to after each round.
Rounds(C, mode, size) ==
  Sound(C, mode) /\ C.progress \in 0 .. size /\ (C.rc = "halt" => mode = "block")

\* Once around Write1()'s loop.
LEMMA AroundIs ==
  ASSUME NEW C, NEW mode \in Modes, NEW size \in Nat, Rounds(C, mode, size), C.rc = "ok",
         NEW signal
  PROVE  Rounds(Around(C, size, mode, signal), mode, size)
<1> DEFINE R == MakeReady(C)
           M == IF size - R.progress < R.D.period \/ R.D.buffer_used > 0
                THEN Stage(R, size, mode) ELSE Pass(R, mode)
           G == Around(C, size, mode, signal)
<1>1. /\ Sound(R, mode) /\ R.rc \in {"ok", "failed"}
      /\ R.rc = "ok" => ~R.D.params /\ ~R.D.prepare
      /\ R.progress = C.progress
  BY MakeReadyIs DEF Rounds
<1>2. G = Then(Then(R, LAMBDA r : IF size - r.progress < r.D.period \/ r.D.buffer_used > 0
                                  THEN Stage(r, size, mode) ELSE Pass(r, mode)),
               LAMBDA m : IF m.progress < size /\ signal THEN [m EXCEPT !.rc = "signal"] ELSE m)
  BY Zenon DEF Around
<1> HIDE DEF R, G
<1>3. CASE R.rc # "ok"
  <2>1. G = R
    BY <1>2, <1>3, Zenon DEF Then
  <2> QED  BY <1>1, <1>3, <2>1 DEF Rounds, G
<1>4. CASE R.rc = "ok"
  <2>1. Ready(R, mode) /\ R.progress \in 0 .. size
    BY <1>1, <1>4 DEF Ready, Rounds
  <2>2. PICK q \in 0 .. size : Goes(M, mode, q)
    <3>1. CASE size - R.progress < R.D.period \/ R.D.buffer_used > 0
      <4>1. R.progress <= size
        BY <2>1
      <4>2. \E q \in 0 .. size : Goes(Stage(R, size, mode), mode, q)
        BY <2>1, <4>1, StageIs
      <4> QED  BY <3>1, <4>2
    <3>2. CASE ~(size - R.progress < R.D.period \/ R.D.buffer_used > 0)
      <4>1. R.D.buffer_used \in 0 .. R.D.period /\ R.D.period \in Nat
        BY <2>1, ReadyIs
      <4>2. R.D.buffer_used = 0 /\ size - R.progress >= R.D.period
        BY <2>1, <3>2, <4>1
      <4>3. \E q \in 0 .. size : Goes(Pass(R, mode), mode, q)
        BY <2>1, <4>2, PassIs
      <4> QED  BY <3>2, <4>3, Zenon
    <3> QED  BY <3>1, <3>2, Zenon
  <2>3. G = Then(M, LAMBDA m : IF m.progress < size /\ signal THEN [m EXCEPT !.rc = "signal"] ELSE m)
    BY <1>2, <1>4, Zenon DEF Then
  <2> HIDE DEF M
  <2>4. G = IF M.rc = "ok" THEN IF M.progress < size /\ signal THEN [M EXCEPT !.rc = "signal"] ELSE M
            ELSE M
    BY <2>3, Zenon DEF Then
  <2>5. Sound(M, mode) /\ M.progress = q /\ (M.rc = "halt" => mode = "block")
    BY <2>2, Zenon DEF Goes
  <2>6. CASE M.rc = "ok" /\ M.progress < size /\ signal
    <3>1. Sound(G, mode) /\ G.rc = "signal" /\ G.progress = M.progress
      BY <2>4, <2>5, <2>6, EndsAs
    <3> QED  BY <2>5, <3>1 DEF Rounds, G
  <2>7. CASE ~(M.rc = "ok" /\ M.progress < size /\ signal)
    <3>1. G = M
      BY <2>4, <2>7, Zenon
    <3> QED  BY <2>5, <3>1 DEF Rounds, G
  <2> QED  BY <2>6, <2>7, Zenon
<1> QED  BY <1>3, <1>4

Round(D, size, mode, signal) ==
  IF D.rc # "ok" \/ D.progress = size THEN D ELSE Around(D, size, mode, signal)
Loops(f, C, size, mode, signal, n) ==
  f = [m \in 0 .. n |-> IF m = 0 THEN C ELSE Round(f[m - 1], size, mode, signal)]

\* The rounds of a write, as a function.
LEMMA LoopExists ==
  ASSUME NEW C, NEW size, NEW mode, NEW signal, NEW n \in Nat
  PROVE  \E f : Loops(f, C, size, mode, signal, n)
<1> DEFINE S == {j \in 0 .. n : \E f : Loops(f, C, size, mode, signal, j)}
<1>1. 0 \in S
  <2> DEFINE f == [m \in 0 .. 0 |-> C]
  <2>1. f = [m \in 0 .. 0 |-> IF m = 0 THEN C ELSE Round(f[m - 1], size, mode, signal)]
    <3>1. \A m \in 0 .. 0 : m = 0
      OBVIOUS
    <3> QED  BY <3>1
  <2> HIDE DEF f
  <2>2. Loops(f, C, size, mode, signal, 0)
    BY <2>1 DEF Loops
  <2> QED  BY <2>2
<1>2. ASSUME NEW j \in 1 .. n, j - 1 \in S PROVE j \in S
  <2>1. PICK f : Loops(f, C, size, mode, signal, j - 1)
    BY <1>2
  <2>2. \A m \in 0 .. j - 1 : f[m] = IF m = 0 THEN C ELSE Round(f[m - 1], size, mode, signal)
    <3>1. f = [m \in 0 .. j - 1 |-> IF m = 0 THEN C ELSE Round(f[m - 1], size, mode, signal)]
      BY <2>1, Zenon DEF Loops
    <3> QED  BY <3>1, Zenon
  <2> DEFINE g == [m \in 0 .. j |-> IF m = j THEN Round(f[j - 1], size, mode, signal) ELSE f[m]]
  <2>3. ASSUME NEW m \in 0 .. j
        PROVE  g[m] = IF m = 0 THEN C ELSE Round(g[m - 1], size, mode, signal)
    <3>1. CASE m = j
      <4>1. j - 1 \in 0 .. j /\ j - 1 # j /\ j # 0
        OBVIOUS
      <4>2. g[j - 1] = f[j - 1] /\ g[m] = Round(f[j - 1], size, mode, signal)
        BY <3>1, <4>1
      <4> HIDE DEF g
      <4> QED  BY <3>1, <4>1, <4>2
    <3>2. CASE m # j
      <4>1. m \in 0 .. j - 1 /\ (m # 0 => m - 1 \in 0 .. j /\ m - 1 # j)
        BY <3>2
      <4>2. g[m] = f[m] /\ (m # 0 => g[m - 1] = f[m - 1])
        BY <3>2, <4>1
      <4> HIDE DEF g
      <4> QED  BY <2>2, <4>1, <4>2, Zenon
    <3> QED  BY <3>1, <3>2
  <2>4. g = [m \in 0 .. j |-> g[m]]
    OBVIOUS
  <2> HIDE DEF g
  <2>5. g = [m \in 0 .. j |-> IF m = 0 THEN C ELSE Round(g[m - 1], size, mode, signal)]
    BY <2>3, <2>4
  <2>6. Loops(g, C, size, mode, signal, j)
    BY <2>5 DEF Loops
  <2> QED  BY <2>6
<1> HIDE DEF S
<1>3. n \in S
  BY <1>1, <1>2, UpTo
<1> QED  BY <1>3 DEF S

\* The rounds of a write, one by one.
LEMMA WriteLoops ==
  ASSUME NEW C, NEW size \in Nat, NEW mode, NEW signal
  PROVE  \E G : /\ G[0] = C /\ Write1(C, size, mode, signal) = G[size + 2]
                /\ \A j \in 1 .. size + 2 : G[j] = Round(G[j - 1], size, mode, signal)
<1> DEFINE L == CHOOSE f : f = [m \in 0 .. size + 2 |->
                  IF m = 0 THEN C
                  ELSE IF f[m - 1].rc # "ok" \/ f[m - 1].progress = size THEN f[m - 1]
                  ELSE Around(f[m - 1], size, mode, signal)]
<1>1. Write1(C, size, mode, signal) = L[size + 2]
  BY Zenon DEF Write1
<1>2. size + 2 \in Nat
  OBVIOUS
<1>3. PICK f : Loops(f, C, size, mode, signal, size + 2)
  BY <1>2, LoopExists
<1>4. f = [m \in 0 .. size + 2 |->
                  IF m = 0 THEN C
                  ELSE IF f[m - 1].rc # "ok" \/ f[m - 1].progress = size THEN f[m - 1]
                  ELSE Around(f[m - 1], size, mode, signal)]
  BY <1>3 DEF Loops, Round
<1>5. L = [m \in 0 .. size + 2 |->
                  IF m = 0 THEN C
                  ELSE IF L[m - 1].rc # "ok" \/ L[m - 1].progress = size THEN L[m - 1]
                  ELSE Around(L[m - 1], size, mode, signal)]
  BY <1>4, Zenon
<1> HIDE DEF L
<1>6. \A m \in 0 .. size + 2 : L[m] = IF m = 0 THEN C ELSE Round(L[m - 1], size, mode, signal)
  BY <1>5, Zenon DEF Round
<1>7. 0 \in 0 .. size + 2 /\ \A j \in 1 .. size + 2 : j \in 0 .. size + 2 /\ j # 0
  OBVIOUS
<1>8. L[0] = C /\ \A j \in 1 .. size + 2 : L[j] = Round(L[j - 1], size, mode, signal)
  BY <1>6, <1>7, Zenon
<1> QED  BY <1>1, <1>8

\* A write.
LEMMA Write1Is ==
  ASSUME NEW C, NEW mode \in Modes, NEW size \in Nat, Rounds(C, mode, size), NEW signal
  PROVE  Rounds(Write1(C, size, mode, signal), mode, size)
<1>1. PICK G : /\ G[0] = C /\ Write1(C, size, mode, signal) = G[size + 2]
               /\ \A j \in 1 .. size + 2 : G[j] = Round(G[j - 1], size, mode, signal)
  BY WriteLoops
<1> DEFINE n == size + 2
           S == {j \in 0 .. n : Rounds(G[j], mode, size)}
<1>2. n \in Nat
  OBVIOUS
<1> HIDE DEF n
<1>3. 0 \in S
  BY <1>1, <1>2
<1>4. ASSUME NEW j \in 1 .. n, j - 1 \in S PROVE j \in S
  <2>1. Rounds(G[j - 1], mode, size) /\ j \in 0 .. n /\ j \in 1 .. size + 2
    BY <1>2, <1>4 DEF n
  <2>2. G[j] = Round(G[j - 1], size, mode, signal)
    BY <1>1, <2>1
  <2>3. Rounds(G[j], mode, size)
    <3>1. CASE G[j - 1].rc # "ok" \/ G[j - 1].progress = size
      BY <2>1, <2>2, <3>1, Zenon DEF Round
    <3>2. CASE ~(G[j - 1].rc # "ok" \/ G[j - 1].progress = size)
      <4>1. G[j] = Around(G[j - 1], size, mode, signal)
        BY <2>2, <3>2, Zenon DEF Round
      <4>2. Rounds(Around(G[j - 1], size, mode, signal), mode, size)
        BY <2>1, <3>2, AroundIs
      <4> QED  BY <4>1, <4>2, Zenon
    <3> QED  BY <3>1, <3>2, Zenon
  <2> QED  BY <2>1, <2>3
<1> HIDE DEF S
<1>5. n \in S
  BY <1>2, <1>3, <1>4, UpTo
<1> QED  BY <1>1, <1>5, Zenon DEF S, n

-----------------------------------------------------------------------------
(* A sync. *)

\* The staged fragment is padded with silence.
Fills(T, S, u, c) ==
  /\ u > 0 /\ T \in Seq(Nat) /\ Len(T) = c
  /\ \A i \in 1 .. u : T[i] = S[i]
  /\ \A i \in u + 1 .. c : T[i] = 0
Padded(C, T) == C.saved /\ Fills(T, C.S, C.D.buffer_used, C.D.period)

Pads(C, T) == [C EXCEPT !.S = T, !.D.buffer_used = C.D.period]

\* Padded, the staged fragment can be given.
LEMMA PadsIs ==
  ASSUME NEW C, NEW mode, Ready(C, mode), NEW T, Padded(C, T), NEW V, V = Pads(C, T)
  PROVE  /\ Ready(V, mode) /\ V.saved /\ V.S = T /\ V.progress = C.progress
         /\ V.D.buffer_used = C.D.period /\ V.D.period = C.D.period
         /\ V.D.period_ptr = C.D.period_ptr /\ V.D.bytes = C.D.bytes
<1> DEFINE b == C.D.buffer_used
           p == C.D.period_ptr
           c == C.D.period
           P == [C.D EXCEPT !.buffer_used = c]
<1>0. /\ C.saved /\ C.D.buffer_used > 0 /\ T \in Seq(Nat) /\ Len(T) = C.D.period
      /\ \A i \in 1 .. C.D.buffer_used : T[i] = C.S[i]
      /\ \A i \in C.D.buffer_used + 1 .. C.D.period : T[i] = 0
  BY DEF Padded, Fills
<1> USE <1>0
<1>1. /\ C \in PassRec /\ C.D \in Ring /\ C.S \in Seq(Nat) /\ C.H \in SUBSET Notes
      /\ C.progress \in Nat /\ sent \in Nat /\ now \in Nat /\ dsp \in Ring
      /\ RingOK(C.D, now) /\ C.D.params = FALSE
  BY ReadyIs
<1>2. /\ C.D.period \in Nat /\ C.D.period > 0 /\ Len(C.S) = C.D.period
      /\ b \in Nat /\ p \in Nat /\ p <= b /\ b <= C.D.period /\ p < C.D.period /\ b > 0
  <2>1. /\ C.D.period \in Nat /\ C.D.period > 0 /\ Len(C.S) = C.D.period
        /\ C.D.buffer_used \in 0 .. C.D.period /\ C.D.period_ptr \in 0 .. C.D.buffer_used
        /\ C.D.period_ptr < C.D.period
    BY ReadyIs
  <2> QED  BY <2>1
<1>3. V = [C EXCEPT !.S = T, !.D = P]
  BY <1>1 DEF PassRec, Pads
<1>4. /\ P \in Ring /\ P.buffer_used = c /\ P.period_ptr = p /\ P.set = C.D.set
      /\ P.params = C.D.params /\ P.prepare = C.D.prepare /\ P.period = C.D.period
      /\ P.periods = C.D.periods /\ P.bytes = C.D.bytes /\ P.state = C.D.state
      /\ P.segment = C.D.segment /\ P.t0 = C.D.t0 /\ P.written = C.D.written
  BY <1>1, <1>2 DEF Ring
<1> HIDE DEF P
<1>5. /\ V \in PassRec /\ V.D = P /\ V.S = T /\ V.H = C.H /\ V.progress = C.progress
      /\ V.lost = C.lost /\ V.saved = C.saved /\ V.staged = C.staged
      /\ V.transferred = C.transferred /\ V.dropped = C.dropped /\ V.first = C.first
      /\ V.halt_at = C.halt_at /\ V.need = C.need /\ V.rc = C.rc
  BY <1>1, <1>3, <1>4, ZenonT(60) DEF PassRec
<1>6. RingOK(P, now) /\ EndOf(P, now) = EndOf(C.D, now) /\ Capacity(P) = Capacity(C.D)
  BY <1>1, <1>2, <1>4 DEF RingOK, EndOf, Capacity, Plays
<1>7. BufferOK(P, T)
  BY <1>2, <1>4 DEF BufferOK
<1>8. /\ HostOK(C.D, C.H, now, restarted) /\ Segments(C.D, C.dropped)
       /\ Fresh(C.D, C.transferred, C.first) /\ Tells(C.H, C.transferred, C.dropped, C.first)
       /\ (mode = "force" \/ Fits(C.D, now)) /\ Begun /\ C.rc = "ok"
       /\ SavedOK(C.D, C.S, C.rc, C.saved, C.staged)
       /\ StreamOK(C.D.period_ptr, C.D.buffer_used, C.D.params, C.S, C.H, sent + C.progress, C.lost)
  BY DEF Ready, Sound
<1>9. HostOK(P, V.H, now, restarted) /\ Segments(P, V.dropped)
  <2>1. HostOK(P, V.H, now, restarted)
    BY <1>5, <1>6, <1>8, ZenonT(60) DEF HostOK
  <2>2. Segments(P, C.dropped)
    BY <1>4, <1>8, Zenon DEF Segments, Plays
  <2> QED  BY <1>5, <2>1, <2>2, Zenon
<1>10. Fresh(P, V.transferred, V.first) /\ Tells(V.H, V.transferred, V.dropped, V.first)
       /\ (mode = "force" \/ Fits(P, now))
  BY <1>4, <1>5, <1>6, <1>8, Zenon DEF Fresh, Fits
<1> HIDE DEF b, p, c
<1>11. SavedOK(P, V.S, V.rc, V.saved, V.staged)
  <2>1. Keeps(C.D, C.S) => Keeps(P, T)
    <3>1. dsp.buffer_used \in Nat /\ C.D.buffer_used \in Nat
      BY <1>1, RingIs
    <3>2. HAVE Keeps(C.D, C.S)
    <3>3. C.D.period = dsp.period /\ b >= dsp.buffer_used
          /\ \A i \in 1 .. dsp.buffer_used : C.S[i] = staging[i]
      BY <3>2 DEF Keeps, b
    <3>4. c >= dsp.buffer_used
      BY <1>2, <3>1, <3>3 DEF c
    <3>5. \A i \in 1 .. dsp.buffer_used : i \in 1 .. b
      BY <1>2, <3>1, <3>3
    <3>6. \A i \in 1 .. dsp.buffer_used : T[i] = staging[i]
      BY <3>3, <3>5, Zenon DEF b
    <3> QED  BY <1>4, <3>3, <3>4, <3>6, Zenon DEF Keeps
  <2> QED  BY <1>4, <1>5, <1>8, <2>1, Zenon DEF SavedOK
<1>12. Halts(P, V.rc, V.halt_at, V.need)
  BY <1>5, <1>8 DEF Halts
<1>13. StreamOK(P.period_ptr, P.buffer_used, P.params, V.S, V.H, sent + V.progress, V.lost)
  <2> DEFINE S == C.S
             H == C.H
             L == C.lost
             N == sent + C.progress
  <2>1. StreamOK(p, b, FALSE, S, H, N, L) /\ H \in SUBSET Notes
    BY <1>1, <1>8, Zenon DEF p, b
  <2>2. \A i \in 1 .. b : T[i] = S[i]
    BY DEF b
  <2>3. \A i \in b + 1 .. c : T[i] = 0
    BY DEF b, c
  <2>4. c \in Nat /\ b <= c
    BY <1>2 DEF c
  <2> HIDE DEF S, H, L, N
  <2>5. StreamOK(p, c, FALSE, T, H, N, L)
    BY <1>2, <2>1, <2>2, <2>3, <2>4, StreamPads
  <2> QED  BY <1>1, <1>4, <1>5, <2>5, Zenon DEF H, L, N
<1>14. Sound(V, mode)
  BY <1>5, <1>6, <1>7, <1>8, <1>9, <1>10, <1>11, <1>12, <1>13, Zenon DEF Sound
<1>15. Ready(V, mode)
  BY <1>4, <1>5, <1>14 DEF Ready
<1> QED  BY <1>4, <1>5, <1>15 DEF b, p, c

\* Sync() gives the staged fragment, padded.
LEMMA PadStagedIs ==
  ASSUME NEW C, NEW mode \in {"block", "force"}, Ready(C, mode)
  PROVE  LET G == PadStaged(C, mode)
         IN Goes(G, mode, C.progress) /\ (G.rc = "ok" => ~G.D.prepare)
<1> DEFINE silence == [i \in 1 .. C.D.period - C.D.buffer_used |-> 0]
           T == Overwritten(C.S, C.D.buffer_used, silence)
           X == SaveStaging(C)
           V == [X EXCEPT !.S = T, !.D.buffer_used = C.D.period]
           p == C.D.period_ptr
           b == C.D.period
           data == SubSeq(T, p + 1, b)
           W == Write2(V, data, mode)
           G == PadStaged(C, mode)
<1>1. CASE C.D.buffer_used = 0
  <2>1. G = C
    BY <1>1, Zenon DEF PadStaged
  <2> HIDE DEF G
  <2> QED  BY <2>1 DEF Goes, Ready, G
<1>2. CASE C.D.buffer_used # 0
  <2>1. /\ C \in PassRec /\ C.D \in Ring /\ C.S \in Seq(Nat) /\ C.progress \in Nat /\ sent \in Nat
        /\ C.D.period \in Nat /\ C.D.period > 0 /\ Len(C.S) = C.D.period
        /\ C.D.buffer_used \in 0 .. C.D.period /\ C.D.period_ptr \in 0 .. C.D.buffer_used
        /\ C.D.period_ptr < C.D.period
    BY ReadyIs
  <2>2. /\ Sound(X, mode) /\ X.saved /\ X.D = C.D /\ X.S = C.S
        /\ X.progress = C.progress /\ X.rc = C.rc
    BY SavedIs DEF Ready
  <2>3. G = IF W.rc = "ok" THEN [W EXCEPT !.D.buffer_used = 0, !.D.period_ptr = 0] ELSE W
    <3>1. G = Then(Write2(V, data, mode),
                   LAMBDA g : [g EXCEPT !.D.buffer_used = 0, !.D.period_ptr = 0])
      BY <1>2, Zenon DEF PadStaged
    <3> QED  BY <3>1, Zenon DEF Then
  <2> DEFINE n == C.D.period - C.D.buffer_used
  <2>4. n \in Nat /\ silence = [i \in 1 .. n |-> 0]
    BY <2>1
  <2> HIDE DEF n, silence
  <2>5. silence \in Seq(Nat) /\ Len(silence) = n /\ \A i \in 1 .. n : silence[i] = 0
    <3>1. silence \in [1 .. n -> Nat]
      BY <2>4
    <3> QED  BY <2>4, <3>1
  <2>6. /\ T \in Seq(Nat) /\ Len(T) = C.D.period
        /\ \A i \in 1 .. C.D.buffer_used : T[i] = C.S[i]
        /\ \A i \in C.D.buffer_used + 1 .. C.D.period : T[i] = 0
    <3> DEFINE S == C.S
               u == C.D.buffer_used
    <3>1. S \in Seq(Nat) /\ u \in Nat /\ u <= b /\ Len(S) = b /\ b \in Nat /\ u + n = b
      BY <2>1 DEF n
    <3> HIDE DEF S, u, b
    <3>2. LET U == Overwritten(S, u, silence)
          IN /\ U \in Seq(Nat) /\ Len(U) = Len(S)
             /\ \A i \in 1 .. Len(S) :
                  U[i] = IF i > u /\ i <= u + Len(silence) THEN silence[i - u] ELSE S[i]
      BY <2>5, <3>1, OverwrittenIs
    <3> DEFINE Y == Overwritten(S, u, silence)
    <3> HIDE DEF Y
    <3>3. /\ Y \in Seq(Nat) /\ Len(Y) = b
          /\ \A i \in 1 .. b : Y[i] = IF i > u /\ i <= u + n THEN silence[i - u] ELSE S[i]
      BY <2>5, <3>1, <3>2, Zenon DEF Y
    <3>4. ASSUME NEW i \in 1 .. u PROVE Y[i] = S[i]
      BY <2>4, <3>1, <3>3
    <3>5. ASSUME NEW i \in u + 1 .. b PROVE Y[i] = 0
      <4>1. i \in 1 .. b /\ i > u /\ i <= u + n /\ i - u \in 1 .. n
        BY <2>4, <3>1
      <4> QED  BY <2>5, <3>3, <4>1
    <3>6. T = Y
      BY DEF T, Y, S, u
    <3> HIDE DEF T
    <3> QED  BY <3>3, <3>4, <3>5, <3>6 DEF b, u, S
  <2> HIDE DEF X, T, W, G, data
  <2>7. Ready(X, mode) /\ X.D.buffer_used > 0
    BY <1>2, <2>1, <2>2 DEF Ready
  <2>8. V = [X EXCEPT !.S = T, !.D.buffer_used = X.D.period]
    BY <2>2
  <2> HIDE DEF V
  <2>9. /\ Ready(V, mode) /\ V.saved /\ V.S = T /\ V.progress = C.progress
        /\ V.D.buffer_used = b /\ V.D.period = b /\ V.D.period_ptr = p
    <3>0. C.D.buffer_used > 0
      BY <2>2, <2>7
    <3>1. Fills(T, C.S, C.D.buffer_used, C.D.period)
      BY <2>6, <3>0 DEF Fills
    <3>2. /\ Ready(V, mode) /\ V.saved /\ V.S = T /\ V.progress = X.progress
          /\ V.D.buffer_used = X.D.period /\ V.D.period = X.D.period
          /\ V.D.period_ptr = X.D.period_ptr
      <4>1. Padded(X, T)
        BY <2>2, <3>1, Zenon DEF Padded
      <4>2. V = Pads(X, T)
        BY <2>8 DEF Pads
      <4> QED  BY <2>7, <4>1, <4>2, PadsIs
    <3> QED  BY <2>2, <3>2, Zenon
  <2> HIDE DEF p, b
  <2>10. p \in Nat /\ b \in Nat /\ p < b
    BY <2>1 DEF p, b
  <2>11. /\ data \in Seq(Nat) /\ Len(data) = b - p
         /\ \A i \in 1 .. b - p : data[i] = T[p + i]
    <3>1. b <= Len(T) /\ T \in Seq(Nat) /\ p <= b
      BY <2>6, <2>10 DEF b
    <3> QED  BY <2>10, <3>1, Slice DEF data
  <2>12. Len(data) \in 1 .. V.D.period
    BY <2>9, <2>10, <2>11
  <2>13. \/ /\ W.rc \in {"halt", "again"} /\ Sound(W, mode) /\ W.progress = V.progress /\ ~W.D.params
            /\ (W.rc = "halt" => mode = "block")
         \/ \E k \in 1 .. Len(data), e \in Int :
              (k = Len(data) \/ mode = "nonblock") /\ Gives(V, W, mode, e, data, k)
    BY <2>9, <2>11, <2>12, Write2Is DEF W, Modes
  <2>14. CASE W.rc \in {"halt", "again"} /\ Sound(W, mode) /\ W.progress = V.progress /\ ~W.D.params
              /\ (W.rc = "halt" => mode = "block")
    <3>1. G = W /\ W.rc # "ok"
      BY <2>3, <2>14
    <3> QED  BY <2>9, <2>14, <3>1, Zenon DEF Goes, G
  <2>15. CASE \E k \in 1 .. Len(data), e \in Int :
                (k = Len(data) \/ mode = "nonblock") /\ Gives(V, W, mode, e, data, k)
    <3>1. PICK k \in 1 .. Len(data), e \in Int :
            (k = Len(data) \/ mode = "nonblock") /\ Gives(V, W, mode, e, data, k)
      BY <2>15, Zenon
    <3>2. k \in Nat /\ k > 0 /\ p + k <= b /\ k = b - p
      BY <2>10, <2>11, <3>1
    <3>3. \A i \in 1 .. k : data[i] = V.S[p + i]
      BY <2>9, <2>11, <3>2
    <3>4. Gave(V, W, mode, p, b, data, k, e)
      BY <2>9, <2>10, <3>1, <3>2, <3>3, Zenon DEF Gave
    <3> DEFINE A == Advanced(V, W, mode)
    <3>5. /\ Sound(A, mode) /\ A.progress = V.progress /\ ~A.D.params /\ ~A.D.prepare
      BY <3>4, AdvancedIs DEF Modes
    <3>6. A = [W EXCEPT !.D.buffer_used = 0, !.D.period_ptr = 0] /\ A.rc = "ok"
      <4>1. Emptied(A, W)
        BY <3>2, <3>4, AdvancedWhole DEF Modes
      <4> QED  BY <4>1, Zenon DEF Emptied
    <3> HIDE DEF A
    <3>7. W.rc = "ok"
      BY <3>1, Zenon DEF Gives
    <3>8. G = A
      BY <2>3, <3>6, <3>7
    <3>9. Goes(G, mode, C.progress) /\ ~G.D.prepare
      BY <2>9, <3>5, <3>6, <3>8 DEF Goes
    <3> QED  BY <3>9 DEF G
  <2> QED  BY <2>13, <2>14, <2>15, Zenon
<1> QED  BY <1>1, <1>2

\* A pass looks at the ring.
LEMMA UpdatedSound ==
  ASSUME NEW C, NEW mode, Sound(C, mode), C.rc = "ok"
  PROVE  LET U == [C EXCEPT !.D = Updated(@, now)]
         IN /\ Sound(U, mode) /\ U.rc = "ok" /\ U.progress = C.progress
            /\ U.D.params = C.D.params /\ U.D.prepare = C.D.prepare
            /\ U.D.state = "running" => U.D.t0 + U.D.written > now
            /\ U.D = Updated(C.D, now) /\ U.transferred = C.transferred /\ U.dropped = C.dropped
<1> DEFINE D == Updated(C.D, now)
           U == [C EXCEPT !.D = Updated(@, now)]
<1>1. /\ C \in PassRec /\ C.D \in Ring /\ now \in Int /\ now \in Nat /\ sent \in Nat
      /\ RingOK(C.D, now) /\ HostOK(C.D, C.H, now, restarted)
  BY Types DEF Sound
<1>2. /\ RingOK(D, now) /\ EndOf(D, now) = EndOf(C.D, now)
      /\ D.state = "running" => D = C.D /\ C.D.t0 + C.D.written > now
      /\ D = C.D \/ /\ D = [C.D EXCEPT !.state = "xrun"]
                    /\ C.D.state = "running" /\ C.D.t0 + C.D.written <= now
  BY <1>1, UpdatedIs
<1>3. D \in Ring
  BY <1>2 DEF RingOK
<1>4. U = [C EXCEPT !.D = D]
  OBVIOUS
<1> HIDE DEF U, D
<1>5. /\ U \in PassRec /\ U.D = D /\ U.S = C.S /\ U.H = C.H /\ U.progress = C.progress
      /\ U.lost = C.lost /\ U.saved = C.saved /\ U.staged = C.staged
      /\ U.transferred = C.transferred /\ U.dropped = C.dropped /\ U.first = C.first
      /\ U.halt_at = C.halt_at /\ U.need = C.need /\ U.rc = C.rc
  BY <1>1, <1>3, <1>4 DEF PassRec
<1>6. CASE D = C.D
  <2>1. Sound(U, mode)
    BY <1>5, <1>6, Zenon DEF Sound
  <2> QED  BY <1>2, <1>5, <1>6, <2>1 DEF U, D
<1>7. CASE D = [C.D EXCEPT !.state = "xrun"] /\ C.D.state = "running" /\ C.D.t0 + C.D.written <= now
  <2>1. /\ SameFragment(C.D, D) /\ D.bytes = C.D.bytes /\ D.state = "xrun"
        /\ D.segment = C.D.segment /\ D.t0 = C.D.t0 /\ D.written = C.D.written
    BY <1>1, <1>7 DEF Ring, SameFragment
  <2>2. ~C.transferred
    <3>1. C.D.t0 \in Nat /\ C.D.written \in Nat
      BY <1>1, RingIs
    <3> QED  BY <1>1, <1>7, <3>1 DEF Sound, Fresh
  <2>3. /\ Segments(C.D, C.dropped) /\ Fresh(C.D, C.transferred, C.first)
        /\ SavedOK(C.D, C.S, C.rc, C.saved, C.staged) /\ BufferOK(C.D, C.S)
        /\ StreamOK(C.D.period_ptr, C.D.buffer_used, C.D.params, C.S, C.H, sent + C.progress, C.lost)
        /\ Tells(C.H, C.transferred, C.dropped, C.first) /\ Begun
    BY DEF Sound
  <2>4. Segments(D, U.dropped)
    BY <1>5, <1>7, <2>1, <2>3 DEF Segments, Plays
  <2>5. Fresh(D, U.transferred, U.first) /\ Halts(D, U.rc, U.halt_at, U.need) /\ Fits(D, now)
    BY <1>5, <2>1, <2>2, <2>3 DEF Fresh, Halts, Fits
  <2>6. SavedOK(D, U.S, U.rc, U.saved, U.staged)
    BY <1>5, <2>1, <2>3, Zenon DEF SavedOK, Keeps, SameFragment
  <2>7. BufferOK(D, U.S) /\ HostOK(D, U.H, now, restarted)
    BY <1>1, <1>2, <1>5, <2>1, <2>3, ZenonT(60) DEF BufferOK, HostOK, SameFragment
  <2>8. StreamOK(D.period_ptr, D.buffer_used, D.params, U.S, U.H, sent + U.progress, U.lost)
    BY <1>5, <2>1, <2>3, Zenon DEF SameFragment
  <2>9. Sound(U, mode)
    BY <1>2, <1>5, <2>3, <2>4, <2>5, <2>6, <2>7, <2>8, Zenon DEF Sound
  <2> QED  BY <1>5, <2>1, <2>9 DEF U, D, SameFragment
<1> QED  BY <1>2, <1>6, <1>7

\* Silence goes behind what the ring holds.
LEMMA SilenceIs ==
  ASSUME NEW C, NEW mode, Ready(C, mode), C.D.state = "running", C.D.t0 + C.D.written > now,
         NEW rest \in Nat, rest > 0, mode = "force" \/ rest <= Capacity(C.D) - Queued(C.D, now)
  PROVE  LET start == FrameTime(C.D, C.D.written)
             G == [C EXCEPT !.D.written = @ + rest,
                    !.H = @ \cup {[at |-> start + i - 1, byte |-> 0] : i \in 1 .. rest},
                    !.first = IF @ < 0 THEN start ELSE @, !.transferred = TRUE]
         IN /\ Sound(G, mode) /\ G.rc = "ok" /\ G.progress = C.progress
            /\ ~G.D.params /\ ~G.D.prepare
<1> DEFINE e == EndOf(C.D, now)
           data == [i \in 1 .. rest |-> 0]
           w == C.D.written + rest
           D == [C.D EXCEPT !.written = w]
           Z == Played1(e, data, rest)
           H == C.H \cup Z
           f == IF C.transferred THEN C.first ELSE e
           start == FrameTime(C.D, C.D.written)
           G == [C EXCEPT !.D.written = @ + rest,
                    !.H = @ \cup {[at |-> start + i - 1, byte |-> 0] : i \in 1 .. rest},
                    !.first = IF @ < 0 THEN start ELSE @, !.transferred = TRUE]
<1>1. /\ C \in PassRec /\ C.D \in Ring /\ now \in Int /\ now \in Nat /\ RingOK(C.D, now)
      /\ Almost(C, mode) /\ C.H \in SUBSET Notes /\ C.first \in Int /\ C.rc = "ok"
      /\ C.D.params = FALSE /\ C.D.prepare = FALSE /\ C.transferred \in BOOLEAN
      /\ sent \in Nat /\ C.progress \in Nat
  <2>1. /\ C \in PassRec /\ C.D \in Ring /\ now \in Nat /\ RingOK(C.D, now) /\ C.H \in SUBSET Notes
        /\ C.D.params = FALSE /\ sent \in Nat /\ C.progress \in Nat
    BY ReadyIs
  <2>2. Almost(C, mode) /\ C.rc = "ok"
    BY SoundIs DEF Ready
  <2>3. C.D.prepare = FALSE
    BY <2>1, RingIs DEF Ready
  <2> QED  BY <2>1, <2>2, <2>3 DEF PassRec
<1>2. /\ C.D.t0 \in Nat /\ C.D.written \in Nat /\ w \in Nat
      /\ e \in Int /\ e = C.D.t0 + C.D.written /\ start = e
  <2>1. C.D.t0 \in Nat /\ C.D.written \in Nat
    BY <1>1, RingIs
  <2>2. start = C.D.t0 + C.D.written
    BY <2>1, FrameTimes
  <2> QED  BY <1>1, <2>1, <2>2 DEF EndOf
<1>3. f = IF C.first < 0 THEN start ELSE C.first
  <2>1. Fresh(C.D, C.transferred, C.first)
    BY <1>1 DEF Almost
  <2> HIDE DEF e, start
  <2> QED  BY <1>1, <1>2, <2>1 DEF Fresh
<1>4. \A i \in 1 .. rest : data[i] \in Nat /\ data[i] = 0
  OBVIOUS
<1>5. {[at |-> start + i - 1, byte |-> 0] : i \in 1 .. rest} = Z
  <2> HIDE DEF e, start, data
  <2> QED  BY <1>2, <1>4 DEF Played1
<1> HIDE DEF e, start, data
<1>6. Z \in SUBSET Notes /\ \A z \in Z : z.byte = 0
  <2>1. Z \in SUBSET Notes
    BY <1>2, <1>4, NotesIs
  <2>2. \A z \in Z : z.byte = 0
    BY <1>4 DEF Played1
  <2> QED  BY <2>1, <2>2
<1> HIDE DEF Z
<1>7. H \in SUBSET Notes /\ f \in Int
  BY <1>1, <1>2, <1>6
<1>8. /\ D \in Ring /\ D.state = "running" /\ SameFragment(C.D, D) /\ D.segment = C.D.segment
      /\ D.written = w /\ D.bytes = C.D.bytes /\ D.t0 = C.D.t0
  <2> HIDE DEF w
  <2> QED  BY <1>1, <1>2 DEF Ring, SameFragment
<1>9. G = [C EXCEPT !.D = D, !.H = H, !.first = f, !.transferred = TRUE]
  BY <1>1, <1>3, <1>5 DEF PassRec
<1> HIDE DEF G, D, H, f, w
<1>10. /\ G \in PassRec /\ G.D = D /\ G.H = H /\ G.first = f /\ G.transferred = TRUE
      /\ G.S = C.S /\ G.progress = C.progress /\ G.rc = C.rc /\ G.lost = C.lost
      /\ G.saved = C.saved /\ G.staged = C.staged /\ G.dropped = C.dropped
      /\ G.halt_at = C.halt_at /\ G.need = C.need
  BY <1>1, <1>7, <1>8, <1>9 DEF PassRec
<1>11. Grows(C, G, e, data, rest)
  BY <1>8, <1>10 DEF Grows, H, f, w, e, Z
<1>12. Started(C.D)
  BY DEF Started, Startables
<1>13. /\ RingOK(D, now) /\ HostOK(D, G.H, now, restarted) /\ Segments(D, G.dropped)
       /\ Fresh(D, G.transferred, G.first) /\ Tells(G.H, G.transferred, G.dropped, G.first)
       /\ rest <= Capacity(C.D) - Queued(C.D, now) => Fits(D, now)
  BY <1>1, <1>4, <1>10, <1>11, <1>12, Grown
<1>14. SavedOK(D, C.S, C.rc, C.saved, C.staged) /\ BufferOK(D, C.S)
       /\ Halts(D, C.rc, C.halt_at, C.need)
  BY <1>1, <1>8 DEF Almost, SavedOK, Keeps, SameFragment, BufferOK, Halts
<1>15. StreamOK(D.period_ptr, D.buffer_used, D.params, G.S, G.H, sent + G.progress, G.lost)
  <2> DEFINE p == C.D.period_ptr
             b == C.D.buffer_used
             par == C.D.params
             S == C.S
             J == C.H
             N == sent + C.progress
             L == C.lost
  <2>1. p \in Nat /\ b \in Nat /\ J \in SUBSET Notes
    BY <1>1, RingIs
  <2>2. StreamOK(p, b, par, S, J, N, L)
    BY DEF Ready, Sound
  <2> HIDE DEF p, b, par, S, J, N, L
  <2>3. StreamOK(p, b, par, S, J \cup Z, N, L)
    BY <1>6, <2>1, <2>2, StreamSilent
  <2>4. /\ D.period_ptr = p /\ D.buffer_used = b /\ D.params = par /\ G.S = S /\ G.H = J \cup Z
        /\ G.lost = L /\ sent + G.progress = N
    BY <1>8, <1>10 DEF SameFragment, p, b, par, S, J, N, L, H
  <2> QED  BY <2>3, <2>4, Zenon
<1>16. Begun /\ (mode = "force" \/ Fits(D, now))
  BY <1>1, <1>13 DEF Almost
<1>17. Sound(G, mode)
  BY <1>10, <1>13, <1>14, <1>15, <1>16, Zenon DEF Sound
<1> QED  BY <1>1, <1>8, <1>10, <1>17 DEF SameFragment, G, start

\* The card's period is filled, or there is no room yet.
LEMMA SilencedIs ==
  ASSUME NEW C, NEW mode \in {"block", "force"}, Ready(C, mode), C.D.state = "running",
         C.D.t0 + C.D.written > now, NEW rest \in Nat, rest > 0, rest < C.D.period
  PROVE  LET G == Silenced(C, rest, mode)
         IN Goes(G, mode, C.progress) /\ (G.rc = "ok" => ~G.D.prepare)
<1> DEFINE G == Silenced(C, rest, mode)
           start == FrameTime(C.D, C.D.written)
           Y == [C EXCEPT !.D.written = @ + rest,
                    !.H = @ \cup {[at |-> start + i - 1, byte |-> 0] : i \in 1 .. rest},
                    !.first = IF @ < 0 THEN start ELSE @, !.transferred = TRUE]
           until == RoomDeadline(C.D, rest, now)
<1>1. /\ C.D \in Ring /\ now \in Nat /\ RingOK(C.D, now) /\ C.D.period \in Nat
      /\ Capacity(C.D) \in Nat /\ Capacity(C.D) >= C.D.period + C.D.period /\ C.D.params = FALSE
  BY ReadyIs
<1>2. Queued(C.D, now) \in Nat
  BY <1>1, QueuedIs
<1>3. G = IF mode = "block" /\ Capacity(C.D) - Queued(C.D, now) < rest
          THEN Halted(C, until, rest) ELSE Y
  BY Zenon DEF Silenced
<1> HIDE DEF G, until, Y
<1>4. CASE mode = "block" /\ Capacity(C.D) - Queued(C.D, now) < rest
  <2>1. /\ until = C.D.t0 + C.D.written + rest - Capacity(C.D) /\ until >= C.D.t0
    BY <1>1, <1>4, DeadlineIs DEF until
  <2>2. until \in Int /\ rest \in 1 .. Capacity(C.D)
    BY <1>1, <2>1, RingIs
  <2>3. Sound(Halted(C, until, rest), mode) /\ Halted(C, until, rest).rc = "halt"
        /\ Halted(C, until, rest).D = C.D /\ Halted(C, until, rest).progress = C.progress
    BY <2>1, <2>2, HaltedIs
  <2>4. G = Halted(C, until, rest)
    BY <1>3, <1>4, Zenon
  <2>5. Goes(G, mode, C.progress) /\ G.rc # "ok"
    BY <1>1, <1>4, <2>3, <2>4 DEF Goes
  <2> QED  BY <2>5 DEF G
<1>5. CASE ~(mode = "block" /\ Capacity(C.D) - Queued(C.D, now) < rest)
  <2>1. mode = "force" \/ rest <= Capacity(C.D) - Queued(C.D, now)
    BY <1>1, <1>2, <1>5, SMTT(40)
  <2>2. Sound(Y, mode) /\ Y.rc = "ok" /\ Y.progress = C.progress /\ ~Y.D.params /\ ~Y.D.prepare
    BY <2>1, SilenceIs, ZenonT(60) DEF Y
  <2>3. G = Y
    BY <1>3, <1>5, Zenon
  <2>4. Goes(G, mode, C.progress) /\ ~G.D.prepare
    BY <2>2, <2>3 DEF Goes
  <2> QED  BY <2>4 DEF G
<1> QED  BY <1>4, <1>5

\* Sync() fills the card's period with silence.
LEMMA PadPeriodIs ==
  ASSUME NEW C, NEW mode \in {"block", "force"}, Ready(C, mode)
  PROVE  LET G == PadPeriod(C, mode)
         IN Goes(G, mode, C.progress) /\ (G.rc = "ok" => ~G.D.prepare)
<1> DEFINE U == [C EXCEPT !.D = Updated(@, now)]
           rest == U.D.period - (U.D.written % U.D.period)
           G == PadPeriod(C, mode)
<1>1. /\ Sound(U, mode) /\ U.rc = "ok" /\ U.progress = C.progress
      /\ U.D.params = C.D.params /\ U.D.prepare = C.D.prepare
      /\ U.D.state = "running" => U.D.t0 + U.D.written > now
  BY UpdatedSound DEF Ready
<1>2. G = Then(U, LAMBDA u : IF u.D.state # "running" \/ u.D.written % u.D.period = 0 THEN u
                  ELSE Silenced(u, u.D.period - (u.D.written % u.D.period), mode))
  BY Zenon DEF PadPeriod
<1> HIDE DEF U, G
<1>3. G = IF U.D.state # "running" \/ U.D.written % U.D.period = 0 THEN U
          ELSE Silenced(U, rest, mode)
  BY <1>1, <1>2, Zenon DEF Then
<1>4. Ready(U, mode)
  BY <1>1 DEF Ready
<1>5. CASE U.D.state # "running" \/ U.D.written % U.D.period = 0
  <2>1. G = U
    BY <1>3, <1>5, Zenon
  <2>2. Goes(G, mode, C.progress) /\ ~G.D.prepare
    BY <1>1, <1>4, <2>1 DEF Goes, Ready
  <2> QED  BY <2>2 DEF G
<1>6. CASE ~(U.D.state # "running" \/ U.D.written % U.D.period = 0)
  <2>1. U.D.written \in Nat /\ U.D.period \in Nat /\ U.D.period > 0
    <3>1. U.D \in Ring /\ U.D.period \in Nat /\ U.D.period > 0
      BY <1>4, ReadyIs
    <3> QED  BY <3>1, RingIs
  <2>2. PICK r : r = U.D.written % U.D.period
    OBVIOUS
  <2>3. r \in 0 .. U.D.period - 1
    BY <2>1, <2>2, Rest
  <2>4. rest \in Nat /\ rest > 0 /\ rest < U.D.period
    <3>1. rest = U.D.period - r /\ r # 0
      BY <1>6, <2>2
    <3> HIDE DEF rest
    <3> QED  BY <2>1, <2>3, <3>1
  <2> HIDE DEF rest
  <2>5. LET g == Silenced(U, rest, mode)
        IN Goes(g, mode, U.progress) /\ (g.rc = "ok" => ~g.D.prepare)
    BY <1>1, <1>4, <1>6, <2>4, SilencedIs
  <2>6. G = Silenced(U, rest, mode)
    BY <1>3, <1>6, Zenon
  <2>7. Goes(G, mode, C.progress) /\ (G.rc = "ok" => ~G.D.prepare)
    BY <1>1, <2>5, <2>6
  <2> QED  BY <2>7 DEF G
<1> QED  BY <1>5, <1>6

\* What a call's pass ends with.
Ends(G, mode, progress) ==
  Sound(G, mode) /\ G.progress = progress /\ (G.rc = "halt" => mode = "block")

\* Sync() waits until everything has played.
LEMMA DrainIs ==
  ASSUME NEW C, Ready(C, "block")
  PROVE  Ends(Drain(C), "block", C.progress)
<1> DEFINE U == [C EXCEPT !.D = Updated(@, now)]
           X == Stopped(U.D, "setup")
           P == [X EXCEPT !.prepare = TRUE]
           V == [U EXCEPT !.D = P]
           G == Drain(C)
           until == PlayedBy(U.D, U.D.written)
<1>1. /\ Sound(U, "block") /\ U.rc = "ok" /\ U.progress = C.progress
      /\ U.D.params = C.D.params /\ U.D.prepare = C.D.prepare
      /\ U.D.state = "running" => U.D.t0 + U.D.written > now
  BY UpdatedSound DEF Ready
<1>2. G = Then(U, LAMBDA u : IF u.D.state = "running"
                  THEN Halted(u, PlayedBy(u.D, u.D.written), Capacity(u.D))
                  ELSE [u EXCEPT !.D = [(IF @.state = "setup" THEN @ ELSE Stopped(@, "setup"))
                                        EXCEPT !.prepare = TRUE]])
  BY Zenon DEF Drain
<1> HIDE DEF U, G
<1>3. Ready(U, "block")
  BY <1>1 DEF Ready
<1>4. /\ U \in PassRec /\ U.D \in Ring /\ now \in Nat /\ RingOK(U.D, now) /\ U.D.params = FALSE
      /\ U.D.period \in Nat /\ U.D.period > 0 /\ sent \in Nat
      /\ Capacity(U.D) \in Nat /\ Capacity(U.D) >= U.D.period + U.D.period
  BY <1>3, ReadyIs
<1>5. G = IF U.D.state = "running" THEN Halted(U, until, Capacity(U.D))
          ELSE [U EXCEPT !.D = [(IF @.state = "setup" THEN @ ELSE Stopped(@, "setup"))
                                EXCEPT !.prepare = TRUE]]
  BY <1>1, <1>2, Zenon DEF Then
<1>6. CASE U.D.state = "running"
  <2> DEFINE c == Capacity(U.D)
  <2>1. U.D.t0 \in Nat /\ U.D.written \in Nat
    BY <1>4, RingIs
  <2>2. /\ until \in Int /\ until = U.D.t0 + U.D.written + c - c
        /\ until >= U.D.t0 /\ c \in 1 .. Capacity(U.D)
    <3>1. until = U.D.t0 + U.D.written
      BY <2>1, FrameTimes
    <3> HIDE DEF until
    <3> QED  BY <1>4, <2>1, <3>1
  <2> HIDE DEF until, c
  <2>3. Halted(U, until, c).rc = "halt" /\ Sound(Halted(U, until, c), "block")
        /\ Halted(U, until, c).progress = U.progress
    <3>1. until = U.D.t0 + U.D.written + c - Capacity(U.D)
      BY <2>2 DEF c
    <3> QED  BY <1>3, <1>6, <2>2, <3>1, HaltedIs
  <2>4. G = Halted(U, until, c)
    BY <1>5, <1>6, Zenon DEF c
  <2>5. Ends(G, "block", C.progress)
    BY <1>1, <2>3, <2>4 DEF Ends
  <2> QED  BY <2>5 DEF G
<1>7. CASE U.D.state # "running"
  <2>1. U.D.state # "setup" /\ ~U.D.prepare
    BY <1>3, <1>4 DEF RingOK, Ready
  <2>2. G = V
    <3>1. G = [U EXCEPT !.D = [(IF @.state = "setup" THEN @ ELSE Stopped(@, "setup"))
                                EXCEPT !.prepare = TRUE]]
      BY <1>5, <1>7, Zenon
    <3> QED  BY <2>1, <3>1
  <2>3. /\ X \in Ring /\ X.state = "setup" /\ X.written = 0 /\ X.t0 = 0
        /\ X.segment = U.D.segment + 1 /\ X.set = U.D.set /\ X.params = U.D.params
        /\ X.period = U.D.period /\ X.periods = U.D.periods
        /\ X.buffer_used = U.D.buffer_used /\ X.period_ptr = U.D.period_ptr /\ X.bytes = U.D.bytes
    BY <1>4, StoppedIs DEF States
  <2> HIDE DEF X
  <2>4. /\ P \in Ring /\ P.prepare = TRUE /\ P.state = "setup" /\ P.written = 0 /\ P.t0 = 0
        /\ P.segment = U.D.segment + 1 /\ P.set = U.D.set /\ P.params = U.D.params
        /\ P.period = U.D.period /\ P.periods = U.D.periods
        /\ P.buffer_used = U.D.buffer_used /\ P.period_ptr = U.D.period_ptr /\ P.bytes = U.D.bytes
    BY <2>3 DEF Ring
  <2> HIDE DEF P
  <2>5. /\ V \in PassRec /\ V.D = P /\ V.S = U.S /\ V.H = U.H /\ Same(U, V) /\ V.lost = U.lost
        /\ V.dropped = U.dropped
    BY <1>4, <2>4 DEF PassRec, Same
  <2> HIDE DEF V
  <2>6. EndOf(U.D, now) = now
    BY <1>7 DEF EndOf
  <2>7. U.H = {}
    <3>1. HostOK(U.D, U.H, now, restarted)
      BY <1>1 DEF Sound
    <3> QED  BY <1>4, <2>6, <3>1, Silent
  <2>8. ~U.transferred
    BY <1>1, <1>7 DEF Sound, Fresh
  <2>9. Stream(U, V, "setup")
    BY <1>4, <2>4, <2>5, <2>6, <2>7 DEF Stream
  <2>10. Sound(V, "block")
    BY <1>1, <2>8, <2>9, StreamSound
  <2>11. V.progress = C.progress /\ V.rc = "ok"
    BY <1>1, <2>5 DEF Same
  <2> QED  BY <2>2, <2>10, <2>11 DEF Ends, G
<1> QED  BY <1>6, <1>7

\* SyncIoctl(), and the end of a program.
LEMMA SyncIs ==
  ASSUME NEW C, NEW mode \in {"block", "force"}, Sound(C, mode), C.rc = "ok"
  PROVE  Ends(Sync(C, mode), mode, C.progress)
<1> DEFINE R == MakeReady(C)
           A == PadStaged(R, mode)
           B == PadPeriod(A, mode)
           padded(r) == Then(PadStaged(r, mode), LAMBDA P : PadPeriod(P, mode))
           P1 == IF R.rc = "ok" THEN IF A.rc = "ok" THEN B ELSE A ELSE R
           G == Sync(C, mode)
<1>1. /\ Sound(R, mode) /\ R.rc \in {"ok", "failed"}
      /\ R.rc = "ok" => ~R.D.params /\ ~R.D.prepare
      /\ R.progress = C.progress
  BY MakeReadyIs
<1>2. G = IF P1.rc = "ok" THEN IF mode = "block" THEN Drain(P1) ELSE P1 ELSE P1
  <2>1. G = Then(Then(R, padded), LAMBDA P : IF mode = "block" THEN Drain(P) ELSE P)
    BY Zenon DEF Sync
  <2>2. Then(R, padded) = P1
    BY Zenon DEF Then
  <2> HIDE DEF P1
  <2>3. G = Then(P1, LAMBDA P : IF mode = "block" THEN Drain(P) ELSE P)
    BY <2>1, <2>2, Zenon
  <2> QED  BY <2>3, Zenon DEF Then
<1> HIDE DEF R, G, B
<1>3. R.rc = "ok" => Goes(A, mode, C.progress) /\ (A.rc = "ok" => ~A.D.prepare)
  <2>1. SUFFICES ASSUME R.rc = "ok" PROVE Goes(A, mode, C.progress) /\ (A.rc = "ok" => ~A.D.prepare)
    OBVIOUS
  <2>2. Ready(R, mode)
    BY <1>1, <2>1 DEF Ready
  <2> QED  BY <1>1, <2>2, PadStagedIs
<1> HIDE DEF A
<1>4. R.rc = "ok" /\ A.rc = "ok" => Goes(B, mode, C.progress) /\ (B.rc = "ok" => ~B.D.prepare)
  <2>1. SUFFICES ASSUME R.rc = "ok", A.rc = "ok"
                 PROVE Goes(B, mode, C.progress) /\ (B.rc = "ok" => ~B.D.prepare)
    OBVIOUS
  <2>2. Ready(A, mode) /\ A.progress = C.progress
    BY <1>3, <2>1 DEF Ready, Goes
  <2> QED  BY <2>2, PadPeriodIs DEF B
<1>5. Ends(P1, mode, C.progress) /\ (P1.rc = "ok" => Ready(P1, mode))
  <2>1. CASE R.rc # "ok"
    BY <1>1, <2>1 DEF Ends
  <2>2. CASE R.rc = "ok" /\ A.rc # "ok"
    BY <1>3, <2>2 DEF Ends, Goes
  <2>3. CASE R.rc = "ok" /\ A.rc = "ok"
    BY <1>4, <2>3 DEF Ends, Goes, Ready
  <2> QED  BY <2>1, <2>2, <2>3
<1> HIDE DEF P1
<1>6. CASE P1.rc = "ok" /\ mode = "block"
  <2>1. G = Drain(P1)
    BY <1>2, <1>6
  <2>2. Ends(Drain(P1), "block", P1.progress)
    BY <1>5, <1>6, DrainIs
  <2>3. P1.progress = C.progress
    BY <1>5 DEF Ends
  <2> QED  BY <1>6, <2>1, <2>2, <2>3 DEF G
<1>7. CASE ~(P1.rc = "ok" /\ mode = "block")
  BY <1>2, <1>5, <1>7 DEF G
<1> QED  BY <1>6, <1>7

-----------------------------------------------------------------------------
(* The other calls. *)

\* The program sets something.
LEMMA SetToIs ==
  ASSUME NEW C, NEW mode, Sound(C, mode), C.rc = "ok", ~C.transferred, NEW set \in Settings
  PROVE  LET G == SetTo(C, set)
         IN Sound(G, mode) /\ G.rc = "ok" /\ G.progress = C.progress /\ ~G.transferred
<1> DEFINE G == SetTo(C, set)
           D == [C.D EXCEPT !.set = set, !.params = TRUE]
           Y == [C EXCEPT !.D = D]
<1>1. CASE set = C.D.set
  BY <1>1 DEF SetTo
<1>2. CASE set # C.D.set
  <2>1. /\ C \in PassRec /\ C.D \in Ring /\ now \in Int /\ now \in Nat /\ sent \in Nat
        /\ RingOK(C.D, now) /\ HostOK(C.D, C.H, now, restarted)
    BY Types DEF Sound
  <2>2. G = Y
    <3>1. G = [C EXCEPT !.D.set = set, !.D.params = TRUE]
      BY <1>2, Zenon DEF SetTo
    <3> QED  BY <2>1, <3>1 DEF PassRec
  <2>3. /\ D \in Ring /\ D.set = set /\ D.params = TRUE /\ D.prepare = C.D.prepare
        /\ D.period = C.D.period /\ D.periods = C.D.periods /\ D.buffer_used = C.D.buffer_used
        /\ D.period_ptr = C.D.period_ptr /\ D.bytes = C.D.bytes /\ D.state = C.D.state
        /\ D.segment = C.D.segment /\ D.t0 = C.D.t0 /\ D.written = C.D.written
    BY <2>1 DEF Ring
  <2> HIDE DEF D
  <2>4. /\ Y \in PassRec /\ Y.D = D /\ Y.S = C.S /\ Y.H = C.H /\ Y.progress = C.progress
        /\ Y.lost = C.lost /\ Y.saved = C.saved /\ Y.staged = C.staged
        /\ Y.transferred = C.transferred /\ Y.dropped = C.dropped /\ Y.first = C.first
        /\ Y.halt_at = C.halt_at /\ Y.need = C.need /\ Y.rc = C.rc
    BY <2>1, <2>3 DEF PassRec
  <2> HIDE DEF Y
  <2>5. RingOK(D, now) /\ EndOf(D, now) = EndOf(C.D, now) /\ Capacity(D) = Capacity(C.D)
    BY <2>1, <2>3 DEF RingOK, EndOf, Capacity, Plays
  <2>6. /\ Segments(C.D, C.dropped) /\ Fresh(C.D, C.transferred, C.first)
        /\ SavedOK(C.D, C.S, C.rc, C.saved, C.staged) /\ BufferOK(C.D, C.S)
        /\ StreamOK(C.D.period_ptr, C.D.buffer_used, C.D.params, C.S, C.H, sent + C.progress, C.lost)
        /\ Tells(C.H, C.transferred, C.dropped, C.first) /\ Begun
        /\ (mode = "force" \/ Fits(C.D, now))
    BY DEF Sound
  <2>7. BufferOK(D, Y.S) /\ HostOK(D, Y.H, now, restarted)
    BY <2>1, <2>3, <2>4, <2>5, <2>6, ZenonT(60) DEF BufferOK, HostOK
  <2>8. Segments(D, C.dropped)
    BY <2>3, <2>6, Zenon DEF Segments, Plays
  <2>9. Fresh(D, C.transferred, C.first) /\ Halts(D, Y.rc, Y.halt_at, Y.need)
    BY <2>4, <2>6 DEF Fresh, Halts
  <2>10. SavedOK(D, Y.S, Y.rc, Y.saved, Y.staged)
    BY <2>3, <2>4, <2>6, Zenon DEF SavedOK, Keeps
  <2>11. StreamOK(D.period_ptr, D.buffer_used, D.params, Y.S, Y.H, sent + Y.progress, Y.lost)
    <3> DEFINE p == C.D.period_ptr
               b == C.D.buffer_used
               par == C.D.params
               S == C.S
               J == C.H
               N == sent + C.progress
               L == C.lost
    <3>1. StreamOK(p, b, par, S, J, N, L)
      BY <2>6
    <3> HIDE DEF p, b, par, S, J, N, L
    <3>2. StreamOK(p, b, TRUE, S, J, N, L)
      BY <3>1, StreamSet
    <3>3. /\ D.period_ptr = p /\ D.buffer_used = b /\ D.params = TRUE /\ Y.S = S /\ Y.H = J
          /\ Y.lost = L /\ sent + Y.progress = N
      BY <2>3, <2>4 DEF p, b, S, J, N, L
    <3> QED  BY <3>2, <3>3, Zenon
  <2>12. Fits(C.D, now) => Fits(D, now)
    BY <2>3, <2>5, Zenon DEF Fits
  <2>13. Sound(Y, mode)
    BY <2>4, <2>5, <2>6, <2>7, <2>8, <2>9, <2>10, <2>11, <2>12, Zenon DEF Sound
  <2> QED  BY <2>2, <2>4, <2>13 DEF G
<1> QED  BY <1>1, <1>2

\* The stream is dropped with all that is staged.
LEMMA ResetIs ==
  ASSUME NEW mode, NEW p, Sound(BeginPass(p), mode), BeginPass(p).D = dsp
  PROVE  Sound(Reset(p), mode) /\ Reset(p).rc = "ok" /\ Reset(p).progress = p
<1> DEFINE C == BeginPass(p)
           A == DropRing(C)
           X == SaveStaging(A)
           U == Unstaged(X)
           G == Reset(p)
<1>1. /\ C.rc = "ok" /\ ~C.transferred /\ C.progress = p /\ C.S = staging /\ C.saved = FALSE
  BY DEF BeginPass
<1>2. G = [U EXCEPT !.D.prepare = TRUE]
  BY Zenon DEF Reset
<1> HIDE DEF C, G
<1>3. /\ C \in PassRec /\ C.D \in Ring /\ C.H \in SUBSET Notes /\ sent \in Nat /\ C.progress \in Nat
      /\ now \in Nat /\ RingOK(C.D, now) /\ HostOK(C.D, C.H, now, restarted) /\ dsp \in Ring
  BY Types DEF Sound, C
<1> DEFINE D == Stopped(C.D, "setup")
           P == [D EXCEPT !.prepare = TRUE]
           Q == [P EXCEPT !.buffer_used = 0, !.period_ptr = 0]
           Y == [A EXCEPT !.D = P]
           Z == SaveStaging(Y)
<1>4. /\ D \in Ring /\ D.state = "setup" /\ D.written = 0 /\ D.t0 = 0
      /\ D.segment = C.D.segment + 1 /\ D.set = C.D.set /\ D.params = C.D.params
      /\ D.prepare = C.D.prepare /\ D.period = C.D.period /\ D.periods = C.D.periods
      /\ D.buffer_used = C.D.buffer_used /\ D.period_ptr = C.D.period_ptr /\ D.bytes = C.D.bytes
  BY <1>3, StoppedIs DEF States
<1>5. Queued(C.D, now) = EndOf(C.D, now) - now /\ Queued(C.D, now) \in Nat
  BY <1>3, QueuedIs
<1> HIDE DEF D
<1>6. /\ A \in PassRec /\ A.D = D /\ A.H = {} /\ Same(C, A) /\ A.S = C.S
      /\ \/ A.dropped = C.dropped /\ EndOf(C.D, now) = now /\ A.lost = C.lost
         \/ A.dropped = TRUE /\ A.lost = sent + C.progress
  <2>1. CASE Queued(C.D, now) > 0
    <3>1. Cut(C.H, now) = {}
      BY <1>3 DEF Cut, HostOK, Notes
    <3> DEFINE n == sent + C.progress
    <3>2. n \in Nat
      BY <1>3
    <3>3. A = [C EXCEPT !.D = D, !.H = {}, !.dropped = TRUE, !.lost = n]
      BY <1>3, <2>1, <3>1 DEF DropRing, D, PassRec
    <3> HIDE DEF A, n
    <3>4. /\ A \in PassRec /\ A.D = D /\ A.H = {} /\ A.dropped = TRUE /\ A.lost = n
          /\ Same(C, A) /\ A.S = C.S
      BY <1>3, <1>4, <3>2, <3>3 DEF PassRec, Same
    <3> QED  BY <3>4 DEF A, n
  <2>2. CASE ~(Queued(C.D, now) > 0)
    <3>1. EndOf(C.D, now) = now
      BY <1>3, <1>5, <2>2, EndIs
    <3>2. C.H = {}
      BY <1>3, <3>1, Silent
    <3>3. A = [C EXCEPT !.D = D]
      BY <1>3, <2>2 DEF DropRing, D
    <3> HIDE DEF A
    <3>4. /\ A \in PassRec /\ A.D = D /\ A.H = C.H /\ A.dropped = C.dropped /\ A.lost = C.lost
          /\ A.S = C.S /\ Same(C, A)
      BY <1>3, <1>4, <3>2, <3>3 DEF PassRec, Same
    <3> QED  BY <3>1, <3>2, <3>4 DEF A
  <2> QED  BY <2>1, <2>2
<1> HIDE DEF A
<1>7. /\ P \in Ring /\ P.prepare = TRUE /\ P.state = "setup" /\ P.written = 0 /\ P.t0 = 0
      /\ P.segment = C.D.segment + 1 /\ P.set = C.D.set /\ P.params = C.D.params
      /\ P.period = C.D.period /\ P.periods = C.D.periods
      /\ P.buffer_used = C.D.buffer_used /\ P.period_ptr = C.D.period_ptr /\ P.bytes = C.D.bytes
  BY <1>4 DEF Ring
<1>8. Q \in Ring /\ Q = [[D EXCEPT !.buffer_used = 0, !.period_ptr = 0] EXCEPT !.prepare = TRUE]
  BY <1>4 DEF Ring
<1> HIDE DEF P, Q
<1>9. /\ Y \in PassRec /\ Y.D = P /\ Y.S = A.S /\ Y.H = A.H /\ Same(A, Y)
      /\ Y.dropped = A.dropped /\ Y.lost = A.lost
  BY <1>6, <1>7 DEF PassRec, Same
<1> HIDE DEF Y
<1>10. Stream(C, Y, "setup")
  BY <1>3, <1>6, <1>7, <1>9 DEF Stream, Same
<1>11. Sound(Y, mode)
  BY <1>1, <1>10, StreamSound DEF C
<1>12. /\ Sound(Z, mode) /\ Z.saved /\ Z.D = Y.D /\ Z.S = Y.S /\ Z.H = Y.H
       /\ Z.progress = Y.progress /\ Z.rc = Y.rc /\ Z.lost = Y.lost
       /\ Z.transferred = Y.transferred /\ Z.dropped = Y.dropped /\ Z.first = Y.first
  BY <1>11, SavedIs
<1>13. Z.staged = SubSeq(A.S, 1, dsp.buffer_used)
  <2>1. ~Y.saved /\ Y.S = A.S
    BY <1>1, <1>6, <1>9 DEF Same
  <2> QED  BY <1>9, <2>1 DEF SaveStaging, PassRec
<1>14. /\ X \in PassRec /\ X.D = D /\ X.S = A.S /\ X.H = A.H /\ X.progress = A.progress
       /\ X.lost = A.lost /\ X.saved = TRUE /\ X.staged = SubSeq(A.S, 1, dsp.buffer_used)
       /\ X.transferred = A.transferred /\ X.dropped = A.dropped /\ X.first = A.first /\ X.rc = A.rc
  <2>1. ~A.saved
    BY <1>1, <1>6 DEF Same
  <2>2. X = [A EXCEPT !.saved = TRUE, !.staged = SubSeq(A.S, 1, dsp.buffer_used)]
    BY <2>1 DEF SaveStaging
  <2>3. SubSeq(A.S, 1, dsp.buffer_used) \in Seq(Nat)
    BY <1>12, <1>13, Types
  <2> HIDE DEF X
  <2> QED  BY <1>6, <2>2, <2>3 DEF PassRec
<1> HIDE DEF X, Z
<1>15. /\ U \in PassRec /\ U.D = [D EXCEPT !.buffer_used = 0, !.period_ptr = 0] /\ U.S = X.S
       /\ U.H = X.H /\ U.progress = X.progress
       /\ U.lost = (IF X.D.buffer_used > 0 THEN sent + X.progress ELSE X.lost)
       /\ U.saved = X.saved /\ U.staged = X.staged /\ U.transferred = X.transferred
       /\ U.dropped = X.dropped /\ U.first = X.first /\ U.rc = X.rc
  <2>1. /\ U.D = [X.D EXCEPT !.buffer_used = 0, !.period_ptr = 0] /\ U \in PassRec
        /\ U.S = X.S /\ U.H = X.H /\ U.progress = X.progress
        /\ U.lost = (IF X.D.buffer_used > 0 THEN sent + X.progress ELSE X.lost)
        /\ U.saved = X.saved /\ U.staged = X.staged /\ U.transferred = X.transferred
        /\ U.dropped = X.dropped /\ U.first = X.first /\ U.rc = X.rc
    BY <1>3, <1>14, UnstagedIs
  <2> QED  BY <1>14, <2>1
<1> HIDE DEF U
<1>16. G = [U EXCEPT !.D = Q]
  BY <1>2, <1>8, <1>15 DEF PassRec
<1>17. /\ G \in PassRec /\ G.D = Q /\ G.S = U.S /\ G.H = U.H /\ G.progress = U.progress
       /\ G.lost = U.lost /\ G.saved = U.saved /\ G.staged = U.staged
       /\ G.transferred = U.transferred /\ G.dropped = U.dropped /\ G.first = U.first /\ G.rc = U.rc
  BY <1>8, <1>15, <1>16 DEF PassRec
<1>18. Z.D.segment > dsp.segment
  <2>1. C.D.segment \in Nat /\ C.D.segment = dsp.segment
    BY <1>3, RingIs DEF C
  <2> QED  BY <1>7, <1>9, <1>12, <2>1
<1>19. Unstages(Z, G)
  <2>1. Q = [Z.D EXCEPT !.buffer_used = 0, !.period_ptr = 0]
    BY <1>9, <1>12 DEF Q
  <2>2. G.rc = Z.rc /\ Z.rc = "ok"
    BY <1>1, <1>6, <1>9, <1>12, <1>14, <1>15, <1>17 DEF Same
  <2>3. G.lost = IF Z.D.buffer_used > 0 THEN sent + Z.progress ELSE Z.lost
    <3>1. Z.D.buffer_used = X.D.buffer_used /\ Z.progress = X.progress /\ Z.lost = X.lost
      BY <1>4, <1>7, <1>9, <1>12, <1>14 DEF Same
    <3> QED  BY <1>15, <1>17, <3>1, Zenon
  <2>5. Z.saved = TRUE
    <3>1. Z.saved \in BOOLEAN
      BY <1>12, Types
    <3> QED  BY <1>12, <3>1
  <2>4. G.S = Z.S /\ G.H = Z.H /\ G.progress = Z.progress /\ G.saved = Z.saved
        /\ G.staged = Z.staged /\ G.transferred = Z.transferred /\ G.dropped = Z.dropped
        /\ G.first = Z.first
    <3>1. G.S = Z.S /\ G.H = Z.H /\ G.saved = Z.saved
      BY <2>5, <1>9, <1>12, <1>14, <1>15, <1>17, ZenonT(60)
    <3>2. G.staged = Z.staged
      BY <1>13, <1>14, <1>15, <1>17
    <3>3. G.progress = Z.progress /\ G.transferred = Z.transferred /\ G.dropped = Z.dropped
          /\ G.first = Z.first
      BY <1>9, <1>12, <1>14, <1>15, <1>17 DEF Same
    <3> QED  BY <3>1, <3>2, <3>3
  <2> QED  BY <1>17, <1>18, <2>1, <2>2, <2>3, <2>4, Zenon DEF Unstages
<1>20. Sound(G, mode)
  BY <1>6, <1>9, <1>12, <1>19, UnstagesSound
<1>21. G.rc = "ok" /\ G.progress = p
  BY <1>1, <1>6, <1>14, <1>15, <1>17 DEF Same
<1> QED  BY <1>20, <1>21 DEF G

\* A call's pass that does not wait.
Done(C, mode, progress) == Sound(C, mode) /\ C.progress = progress /\ C.rc # "halt"

LEMMA SetRateIs ==
  ASSUME NEW mode, Sound(BeginPass(0), mode), NEW first, NEW set \in Settings
  PROVE  LET passed == IF first THEN ApplyParams(BeginPass(0)) ELSE BeginPass(0)
         IN Done(Then(passed, LAMBDA C : ApplyParams(SetTo(C, set))), mode, 0)
<1> DEFINE B == BeginPass(0)
           passed == IF first THEN ApplyParams(B) ELSE B
           Q == SetTo(passed, set)
           G == Then(passed, LAMBDA C : ApplyParams(SetTo(C, set)))
<1>1. B.rc = "ok" /\ B.progress = 0 /\ B.transferred = FALSE
  BY DEF BeginPass
<1> HIDE DEF B
<1>2. Sound(B, mode)
  BY DEF B
<1>3. /\ Sound(passed, mode) /\ passed.rc \in {"ok", "failed"} /\ passed.progress = 0
      /\ ~passed.transferred
  <2>1. CASE first
    BY <1>1, <1>2, <2>1, ApplyIs
  <2>2. CASE ~first
    BY <1>1, <1>2, <2>2
  <2> QED  BY <2>1, <2>2
<1> HIDE DEF passed
<1>4. CASE passed.rc = "ok"
  <2>1. Sound(Q, mode) /\ Q.rc = "ok" /\ Q.progress = 0
    BY <1>3, <1>4, SetToIs
  <2>2. G = ApplyParams(Q)
    BY <1>4 DEF Then
  <2> HIDE DEF Q, G
  <2>3. Sound(G, mode) /\ G.rc \in {"ok", "failed"} /\ G.progress = 0
    BY <2>1, <2>2, ApplyIs
  <2>4. Done(G, mode, 0)
    BY <2>3 DEF Done
  <2> QED  BY <2>4 DEF G, passed, B
<1>5. CASE passed.rc # "ok"
  <2>1. G = passed
    BY <1>5 DEF Then
  <2> HIDE DEF G
  <2>2. Done(G, mode, 0)
    BY <1>3, <2>1 DEF Done
  <2> QED  BY <2>2 DEF G, passed, B
<1> QED  BY <1>4, <1>5

LEMMA SetFragmentIs ==
  ASSUME NEW mode, Sound(BeginPass(0), mode), NEW set \in Settings
  PROVE  Done(SetTo(BeginPass(0), set), mode, 0)
<1> DEFINE B == BeginPass(0)
           Q == SetTo(B, set)
<1>1. B.rc = "ok" /\ B.progress = 0 /\ B.transferred = FALSE
  BY DEF BeginPass
<1> HIDE DEF B
<1>2. Sound(B, mode)
  BY DEF B
<1>3. Sound(Q, mode) /\ Q.rc = "ok" /\ Q.progress = 0
  BY <1>1, <1>2, SetToIs
<1> HIDE DEF Q
<1>4. Done(Q, mode, 0)
  BY <1>3 DEF Done
<1> QED  BY <1>4 DEF Q, B

LEMMA AskIs ==
  ASSUME NEW mode, Sound(BeginPass(0), mode), NEW ready, NEW looks
  PROVE  Done(Then(IF ready THEN MakeReady(BeginPass(0)) ELSE ApplyParams(BeginPass(0)),
                   LAMBDA C : IF looks THEN [C EXCEPT !.D = Updated(@, now)] ELSE C), mode, 0)
<1> DEFINE B == BeginPass(0)
           R == IF ready THEN MakeReady(B) ELSE ApplyParams(B)
           U == [R EXCEPT !.D = Updated(@, now)]
           G == Then(R, LAMBDA C : IF looks THEN [C EXCEPT !.D = Updated(@, now)] ELSE C)
<1>1. B.rc = "ok" /\ B.progress = 0
  BY DEF BeginPass
<1> HIDE DEF B
<1>2. Sound(B, mode)
  BY DEF B
<1>3. Sound(R, mode) /\ R.rc \in {"ok", "failed"} /\ R.progress = 0
  <2>1. CASE ready
    BY <1>1, <1>2, <2>1, MakeReadyIs
  <2>2. CASE ~ready
    BY <1>1, <1>2, <2>2, ApplyIs
  <2> QED  BY <2>1, <2>2
<1> HIDE DEF R
<1>4. CASE R.rc = "ok" /\ looks
  <2>1. Sound(U, mode) /\ U.rc = "ok" /\ U.progress = R.progress
    BY <1>3, <1>4, UpdatedSound
  <2>2. G = U
    BY <1>4 DEF Then
  <2> HIDE DEF U, G
  <2>3. Done(G, mode, 0)
    BY <1>3, <2>1, <2>2 DEF Done
  <2> QED  BY <2>3 DEF G, R, B
<1>5. CASE ~(R.rc = "ok" /\ looks)
  <2>1. G = R
    BY <1>5 DEF Then
  <2> HIDE DEF G
  <2>2. Done(G, mode, 0)
    BY <1>3, <2>1 DEF Done
  <2> QED  BY <2>2 DEF G, R, B
<1> QED  BY <1>4, <1>5

\* A program that is killed stops what sounds.
LEMMA KilledIs ==
  ASSUME NEW mode, NEW p, Sound(BeginPass(p), mode)
  PROVE  Done(OssProgramKilled(p), mode, p)
<1>1. /\ BeginPass(p).rc = "ok" /\ BeginPass(p).progress = p /\ BeginPass(p).D = dsp
  BY DEF BeginPass
<1>2. CASE dsp.state = "running"
  <2>1. OssProgramKilled(p) = Reset(p)
    BY <1>2 DEF OssProgramKilled
  <2>2. Sound(Reset(p), mode) /\ Reset(p).rc = "ok" /\ Reset(p).progress = p
    BY <1>1, ResetIs
  <2> QED  BY <2>1, <2>2 DEF Done
<1>3. CASE dsp.state # "running"
  <2>1. OssProgramKilled(p) = BeginPass(p)
    BY <1>3 DEF OssProgramKilled
  <2> QED  BY <1>1, <2>1 DEF Done
<1> QED  BY <1>2, <1>3

-----------------------------------------------------------------------------
(* What undo comes back to. *)

Changes == [kind : {"pass"}, before : Ring, staged : Seq(Nat), transferred : BOOLEAN,
            dropped : BOOLEAN, first : Int]
           \cup [kind : {"status"}, status : BOOLEAN]
Founds == [dsp : Ring, staged : Seq(Nat), host : SUBSET Notes, lost : Nat]
Entries == [records : Seq(Changes), found : Founds, exits : BOOLEAN, sent : Nat,
            stopped : BOOLEAN]

\* A found state Z at time t.
FoundOK(Z, t) ==
  Z \in Founds /\ RingOK(Z.dsp, t) /\ Len(Z.staged) = Z.dsp.buffer_used

\* The ring X is one that was Z, or what an undo made of it: the same, of the same stream
\* but with what has played since, or of a later one where the stream was stopped.
PlayedOut(D, t) == D.state = "running" => D.t0 + D.written <= t
Stays(Z, X, t) ==
  /\ X.segment = Z.segment /\ X.t0 = Z.t0 /\ X.written = Z.written
  /\ X.state = Z.state \/ (Z.state = "running" /\ X.state = "xrun")
Replays(Z, X, t) ==
  /\ X.segment = Z.segment /\ Z.state # "setup" /\ Plays(X) /\ X.written > Z.written
  /\ X.t0 + X.written <= t /\ (Plays(Z) => X.t0 = Z.t0)
Restarts(Z, X, t, st) == st /\ X.segment > Z.segment /\ PlayedOut(X, t)
SameClock(Z, X) == SameFragment(Z, X) /\ X.bytes = Z.bytes

Aged(Z, X, t, st) ==
  /\ SameClock(Z.dsp, X.dsp) /\ X.staged = Z.staged
  /\ Left(X.host, t) = Left(Z.host, t) \/ (st /\ Left(X.host, t) = {})
  /\ \/ Stays(Z.dsp, X.dsp, t)
     \/ Replays(Z.dsp, X.dsp, t)
     \/ Restarts(Z.dsp, X.dsp, t, st) /\ Left(X.host, t) = {}

LEMMA FoundIs ==
  ASSUME NEW Z, NEW t, FoundOK(Z, t)
  PROVE  /\ Z.dsp \in Ring /\ RingOK(Z.dsp, t) /\ Z.staged \in Seq(Nat) /\ Z.host \in SUBSET Notes
         /\ Z.dsp.segment \in Nat /\ Z.dsp.t0 \in Nat /\ Z.dsp.written \in Nat
         /\ Z.dsp.state \in States /\ Z.lost \in Nat
         /\ (Z.dsp.state = "xrun" => Z.dsp.t0 + Z.dsp.written <= t)
         /\ Z.dsp.buffer_used \in Nat /\ Z.dsp.period \in Nat
BY DEF FoundOK, Founds, Ring, RingOK

\* Later, a found state is still one.
LEMMA FoundLater ==
  ASSUME NEW Z, NEW t \in Int, NEW u \in Int, t <= u, FoundOK(Z, t)
  PROVE  FoundOK(Z, u)
BY RingLater DEF FoundOK

LEMMA AgedSelf ==
  ASSUME NEW Z, NEW t, NEW st
  PROVE  Aged(Z, Z, t, st)
BY DEF Aged, Stays, SameClock, SameFragment

\* What is taken back from what was taken back.
LEMMA AgedThen ==
  ASSUME NEW t \in Int, NEW st, NEW Z, NEW X, NEW Y, FoundOK(Z, t), FoundOK(X, t), FoundOK(Y, t),
         Aged(Z, X, t, st), Aged(X, Y, t, st)
  PROVE  Aged(Z, Y, t, st)
<1> DEFINE D == Z.dsp
           E == X.dsp
           F == Y.dsp
<1>1. /\ D.segment \in Nat /\ D.t0 \in Nat /\ D.written \in Nat
      /\ E.segment \in Nat /\ E.t0 \in Nat /\ E.written \in Nat
      /\ F.segment \in Nat /\ F.t0 \in Nat /\ F.written \in Nat
  BY FoundIs
<1>2. SameClock(D, F) /\ Y.staged = Z.staged
  BY DEF Aged, SameClock, SameFragment
<1>3. Left(Y.host, t) = Left(Z.host, t) \/ (st /\ Left(Y.host, t) = {})
  <2>1. /\ Left(X.host, t) = Left(Z.host, t) \/ (st /\ Left(X.host, t) = {})
        /\ Left(Y.host, t) = Left(X.host, t) \/ (st /\ Left(Y.host, t) = {})
    BY Zenon DEF Aged
  <2> QED  BY <2>1, Zenon
<1>4. /\ Stays(D, E, t) \/ Replays(D, E, t) \/ (Restarts(D, E, t, st) /\ Left(X.host, t) = {})
      /\ Stays(E, F, t) \/ Replays(E, F, t) \/ (Restarts(E, F, t, st) /\ Left(Y.host, t) = {})
      /\ Left(Y.host, t) = Left(X.host, t) \/ Left(Y.host, t) = {}
  BY Zenon DEF Aged
<1> HIDE DEF D, E, F
<1>5. \/ Stays(D, F, t)
      \/ Replays(D, F, t)
      \/ Restarts(D, F, t, st) /\ Left(Y.host, t) = {}
  <2>1. CASE Stays(D, E, t)
    <3>1. CASE Stays(E, F, t)
      BY <1>1, <2>1, <3>1 DEF Stays
    <3>2. CASE Replays(E, F, t)
      BY <1>1, <2>1, <3>2 DEF Stays, Replays, Plays
    <3>3. CASE Restarts(E, F, t, st) /\ Left(Y.host, t) = {}
      BY <1>1, <2>1, <3>3 DEF Stays, Restarts
    <3> QED  BY <1>4, <3>1, <3>2, <3>3
  <2>2. CASE Replays(D, E, t)
    <3>1. CASE Stays(E, F, t)
      BY <1>1, <2>2, <3>1 DEF Stays, Replays, Plays
    <3>2. CASE Replays(E, F, t)
      BY <1>1, <2>2, <3>2 DEF Replays, Plays
    <3>3. CASE Restarts(E, F, t, st) /\ Left(Y.host, t) = {}
      BY <1>1, <2>2, <3>3 DEF Replays, Restarts
    <3> QED  BY <1>4, <3>1, <3>2, <3>3
  <2>3. CASE Restarts(D, E, t, st) /\ Left(X.host, t) = {}
    <3>0. Left(Y.host, t) = {}
      BY <1>4, <2>3
    <3>1. CASE Stays(E, F, t)
      BY <1>1, <2>3, <3>0, <3>1 DEF Stays, Restarts, PlayedOut
    <3>2. CASE Replays(E, F, t)
      BY <1>1, <2>3, <3>0, <3>2 DEF Replays, Restarts, PlayedOut
    <3>3. CASE Restarts(E, F, t, st) /\ Left(Y.host, t) = {}
      BY <1>1, <2>3, <3>0, <3>3 DEF Restarts
    <3> QED  BY <1>4, <3>1, <3>2, <3>3
  <2> QED  BY <1>4, <2>1, <2>2, <2>3
<1> QED  BY <1>2, <1>3, <1>5 DEF Aged, D, F

LEMMA LeftLater ==
  ASSUME NEW H \in SUBSET Notes, NEW t \in Int, NEW u \in Int, t <= u
  PROVE  Left(H, u) = {h \in Left(H, t) : h.at >= u}
<1>1. \A h \in H : h.at \in Int
  BY DEF Notes
<1> QED  BY <1>1 DEF Left

\* What was taken back stays that as time passes.
LEMMA AgedLater ==
  ASSUME NEW t \in Int, NEW u \in Int, t <= u, NEW st, NEW Z, NEW X, FoundOK(Z, t), FoundOK(X, t),
         Aged(Z, X, t, st)
  PROVE  Aged(Z, X, u, st)
<1>1. Left(X.host, u) = {h \in Left(X.host, t) : h.at >= u} /\ Left(Z.host, u) = {h \in Left(Z.host, t) : h.at >= u}
  BY FoundIs, LeftLater
<1>2. Left(X.host, t) = {} => Left(X.host, u) = {}
  BY <1>1
<1>3. Left(X.host, t) = Left(Z.host, t) => Left(X.host, u) = Left(Z.host, u)
  BY <1>1
<1>4. /\ X.dsp.t0 \in Nat /\ X.dsp.written \in Nat
  BY FoundIs
<1>5. Stays(Z.dsp, X.dsp, t) => Stays(Z.dsp, X.dsp, u)
  BY DEF Stays
<1>6. Replays(Z.dsp, X.dsp, t) => Replays(Z.dsp, X.dsp, u)
  BY <1>4 DEF Replays
<1>7. Restarts(Z.dsp, X.dsp, t, st) => Restarts(Z.dsp, X.dsp, u, st)
  BY <1>4 DEF Restarts, PlayedOut
<1> QED  BY <1>2, <1>3, <1>5, <1>6, <1>7, Zenon DEF Aged

LEMMA AgedStopped ==
  ASSUME NEW t, NEW st, NEW sp, st => sp, NEW Z, NEW X, Aged(Z, X, t, st)
  PROVE  Aged(Z, X, t, sp)
BY Zenon DEF Aged, Restarts

\* The ring X is Z or came later.
Older(Z, X, t, st) ==
  /\ X.segment >= Z.segment
  /\ X.segment = Z.segment /\ Plays(Z) => Plays(X) /\ X.t0 = Z.t0 /\ X.written >= Z.written
  /\ X.segment > Z.segment => st \/ PlayedOut(Z, t)

LEMMA OlderSelf ==
  ASSUME NEW D \in Ring, NEW t, NEW st
  PROVE  Older(D, D, t, st)
BY DEF Older, Ring

LEMMA OlderThen ==
  ASSUME NEW t \in Int, NEW st, NEW sp, sp => st, NEW Z, NEW X, NEW Y,
         RingOK(Z, t), RingOK(X, t), RingOK(Y, t), Older(Z, X, t, st), Older(X, Y, t, sp)
  PROVE  Older(Z, Y, t, st)
<1>1. /\ Z.segment \in Nat /\ Z.t0 \in Nat /\ Z.written \in Nat
      /\ X.segment \in Nat /\ X.t0 \in Nat /\ X.written \in Nat
      /\ Y.segment \in Nat /\ Y.t0 \in Nat /\ Y.written \in Nat
      /\ X.state = "xrun" => X.t0 + X.written <= t
  BY DEF RingOK, Ring
<1> QED  BY <1>1 DEF Older, Plays, PlayedOut

\* What is taken back came later.
LEMMA AgedOlder ==
  ASSUME NEW t \in Int, NEW st, NEW Z, NEW X, FoundOK(Z, t), FoundOK(X, t), Aged(Z, X, t, st)
  PROVE  Older(Z.dsp, X.dsp, t, st)
<1>1. /\ Z.dsp.segment \in Nat /\ Z.dsp.t0 \in Nat /\ Z.dsp.written \in Nat
      /\ X.dsp.segment \in Nat /\ X.dsp.t0 \in Nat /\ X.dsp.written \in Nat
  BY FoundIs
<1>2. CASE Stays(Z.dsp, X.dsp, t)
  BY <1>1, <1>2 DEF Stays, Older, Plays
<1>3. CASE Replays(Z.dsp, X.dsp, t)
  BY <1>1, <1>3 DEF Replays, Older, Plays
<1>4. CASE Restarts(Z.dsp, X.dsp, t, st)
  BY <1>1, <1>4 DEF Restarts, Older
<1> QED  BY <1>2, <1>3, <1>4, Zenon DEF Aged

\* The record r took the state P to Q: what it says of P, and what it leaves to be found.
Backs(r, P, Q) ==
  /\ r.before = P.dsp
  /\ \/ r.staged = P.staged
     \/ /\ r.staged = <<>> /\ Q.dsp.period = P.dsp.period /\ Len(P.staged) <= Len(Q.staged)
        /\ \A i \in 1 .. Len(P.staged) : Q.staged[i] = P.staged[i]
Follows(D, E) ==
  /\ E.segment >= D.segment
  /\ E.segment = D.segment /\ Plays(D) => Plays(E) /\ E.t0 = D.t0
  /\ E.segment = D.segment /\ E.state # "setup" => D.state # "setup"
Unheard(r, H, t) == {h \in Left(H, t) : r.transferred => h.at < r.first}
Back(r, P, Q, t, st) ==
  /\ r \in Changes
  /\ IF r.kind = "status" THEN Aged(P, Q, t, st)
     ELSE /\ Backs(r, P, Q) /\ Follows(P.dsp, Q.dsp)
          /\ \/ ~r.dropped /\ Unheard(r, Q.host, t) = Left(P.host, t)
             \/ st /\ Unheard(r, Q.host, t) = {}

\* A record goes back from what was taken back to what it left.
LEMMA BackAged ==
  ASSUME NEW t \in Int, NEW st, NEW r, NEW P, NEW Q, NEW X, FoundOK(P, t), FoundOK(Q, t),
         FoundOK(X, t), Back(r, P, Q, t, st), Aged(Q, X, t, st)
  PROVE  Back(r, P, X, t, st)
<1>1. CASE r.kind = "status"
  <2>1. Aged(P, Q, t, st)
    BY <1>1 DEF Back
  <2>2. Aged(P, X, t, st)
    BY <2>1, AgedThen
  <2> QED  BY <1>1, <2>2 DEF Back
<1>2. CASE r.kind # "status"
  <2>1. /\ P.dsp.segment \in Nat /\ Q.dsp.segment \in Nat /\ X.dsp.segment \in Nat
    BY FoundIs
  <2>2. Backs(r, P, Q) /\ Follows(P.dsp, Q.dsp)
    BY <1>2, Zenon DEF Back
  <2>3. X.staged = Q.staged /\ X.dsp.period = Q.dsp.period
    BY DEF Aged, SameClock, SameFragment
  <2>4. Backs(r, P, X)
    BY <2>2, <2>3, Zenon DEF Backs
  <2>5. Follows(P.dsp, X.dsp)
    <3>1. CASE Stays(Q.dsp, X.dsp, t)
      BY <2>1, <2>2, <3>1 DEF Stays, Follows, Plays
    <3>2. CASE Replays(Q.dsp, X.dsp, t)
      BY <2>1, <2>2, <3>2 DEF Replays, Follows
    <3>3. CASE Restarts(Q.dsp, X.dsp, t, st)
      BY <2>1, <2>2, <3>3 DEF Restarts, Follows
    <3> QED  BY <3>1, <3>2, <3>3, Zenon DEF Aged
  <2>6. Left(X.host, t) = Left(Q.host, t) \/ (st /\ Left(X.host, t) = {})
    BY Zenon DEF Aged
  <2>7. CASE Left(X.host, t) = Left(Q.host, t)
    <3>1. Unheard(r, X.host, t) = Unheard(r, Q.host, t)
      BY <2>7, Zenon DEF Unheard
    <3> QED  BY <1>2, <2>4, <2>5, <3>1, Zenon DEF Back
  <2>8. CASE st /\ Left(X.host, t) = {}
    <3>1. Unheard(r, X.host, t) = {}
      BY <2>8 DEF Unheard
    <3> QED  BY <1>2, <2>4, <2>5, <2>8, <3>1, Zenon DEF Back
  <2> QED  BY <2>6, <2>7, <2>8
<1> QED  BY <1>1, <1>2

\* A record goes back as far when time has passed.
LEMMA BackLater ==
  ASSUME NEW t \in Int, NEW u \in Int, t <= u, NEW st, NEW sp, st => sp, NEW r, NEW P, NEW Q, FoundOK(P, t),
         FoundOK(Q, t), Back(r, P, Q, t, st)
  PROVE  Back(r, P, Q, u, sp)
<1>1. CASE r.kind = "status"
  <2>1. Aged(P, Q, t, st)
    BY <1>1 DEF Back
  <2>2. Aged(P, Q, u, st)
    BY <2>1, AgedLater
  <2>3. Aged(P, Q, u, sp)
    BY <2>2, AgedStopped
  <2> QED  BY <1>1, <2>3 DEF Back
<1>2. CASE r.kind # "status"
  <2>1. /\ Left(P.host, u) = {h \in Left(P.host, t) : h.at >= u}
        /\ Left(Q.host, u) = {h \in Left(Q.host, t) : h.at >= u}
    BY FoundIs, LeftLater
  <2>2. Unheard(r, Q.host, u) = {h \in Unheard(r, Q.host, t) : h.at >= u}
    BY <2>1 DEF Unheard
  <2>3. Unheard(r, Q.host, t) = {} => Unheard(r, Q.host, u) = {}
    BY <2>2
  <2>4. Unheard(r, Q.host, t) = Left(P.host, t) => Unheard(r, Q.host, u) = Left(P.host, u)
    BY <2>1, <2>2
  <2> QED  BY <1>2, <2>3, <2>4, Zenon DEF Back
<1> QED  BY <1>1, <1>2

\* What a record's undoing makes of the ring.
LEMMA TakenIs ==
  ASSUME NEW t \in Int, t = now, NEW r, r.kind # "status", r \in Changes, NEW D, NEW E, RingOK(D, t), RingOK(E, t),
         r.before = D, Follows(D, E)
  PROVE  LET G == TakenBack(r, Updated(E, t))
         IN /\ RingOK(G, t) /\ SameClock(D, G)
            /\ IF r.dropped THEN G.segment > D.segment /\ PlayedOut(G, t)
               ELSE Stays(D, G, t) \/ Replays(D, G, t)
<1> DEFINE U == Updated(E, t)
           G == TakenBack(r, U)
<1>1. /\ RingOK(U, t)
      /\ U = E \/ /\ U = [E EXCEPT !.state = "xrun"]
                  /\ E.state = "running" /\ E.t0 + E.written <= t
  BY UpdatedIs
<1>2. D \in Ring /\ E \in Ring /\ U \in Ring
  BY <1>1 DEF RingOK
<1>3. /\ U.segment = E.segment /\ U.t0 = E.t0 /\ (Plays(U) <=> Plays(E))
      /\ (U.state # "setup" <=> E.state # "setup") /\ U.written = E.written
  BY <1>1, <1>2 DEF Plays, Ring
<1> HIDE DEF U
<1>4. /\ D.segment \in Nat /\ D.t0 \in Nat /\ D.written \in Nat /\ D.state \in States
      /\ U.segment \in Nat /\ U.t0 \in Nat /\ U.written \in Nat
      /\ E.segment \in Nat /\ U.t0 <= t
  BY <1>2, <1>1 DEF Ring, RingOK
<1>5. CASE r.dropped
  <2> DEFINE s == IF D.params \/ D.prepare THEN "setup" ELSE "prepared"
             m == U.segment + 1
  <2>1. s \in States /\ m \in Nat /\ m > D.segment
    BY <1>3, <1>4 DEF States, Follows
  <2>2. G = [D EXCEPT !.state = s, !.written = 0, !.t0 = 0, !.segment = m]
    BY <1>5 DEF TakenBack
  <2>3. s = "setup" \/ (s = "prepared" /\ ~D.params /\ ~D.prepare)
    OBVIOUS
  <2>4. s = "setup" => D.params \/ D.prepare
    OBVIOUS
  <2> HIDE DEF s, m, G
  <2>5. /\ G \in Ring /\ G.state = s /\ G.written = 0 /\ G.t0 = 0 /\ G.segment = m
        /\ SameClock(D, G)
    BY <1>2, <2>1, <2>2 DEF Ring, SameClock, SameFragment
  <2>6. RingOK(G, t)
    <3>1. now \in Int /\ t >= 0
      BY DEF RingOK, Ring
    <3> QED  BY <3>1, <2>5, <2>3, <2>4 DEF RingOK, Plays, SameClock, SameFragment
  <2>7. G.segment > D.segment /\ PlayedOut(G, t)
    BY <2>5, <2>1, <2>3 DEF PlayedOut
  <2> QED  BY <1>5, <2>5, <2>6, <2>7 DEF G, U
<1>6. CASE ~r.dropped
  <2> DEFINE p == Played(U, t)
             w == Max({D.written, Min({U.written, p})})
  <2>1. p = IF Plays(U) THEN IF U.t0 + U.written <= t THEN U.written ELSE t - U.t0 ELSE 0
    BY <1>1, PlayedIs
  <2>2. p \in Nat /\ (p > 0 => Plays(U)) /\ (Plays(U) => U.t0 + p <= t /\ p <= U.written)
    BY <1>4, <2>1
  <2> HIDE DEF p
  <2>3. Min({U.written, p}) = IF U.written <= p THEN U.written ELSE p
    BY <1>4, <2>2, MinTwo
  <2>4. Min({U.written, p}) \in Nat /\ Min({U.written, p}) <= p
    BY <1>4, <2>2, <2>3
  <2>5. w = IF D.written >= Min({U.written, p}) THEN D.written ELSE Min({U.written, p})
    <3> DEFINE q == Min({U.written, p})
    <3>1. q \in Int /\ D.written \in Int
      BY <1>4, <2>4
    <3> HIDE DEF q
    <3>2. Max({D.written, q}) = IF D.written >= q THEN D.written ELSE q
      BY <3>1, MaxTwo
    <3> QED  BY <3>2 DEF w, q
  <2>6. w \in Nat /\ (w # D.written => w > D.written /\ w <= p)
    BY <1>4, <2>4, <2>5
  <2> HIDE DEF w
  <2> DEFINE replays == D.segment = U.segment /\ U.state \in {"running", "xrun"} /\ w # D.written
  <2>7. G = IF replays THEN [D EXCEPT !.state = "running", !.t0 = U.t0, !.written = w] ELSE D
    BY <1>6 DEF TakenBack, w, p
  <2>8. CASE replays
    <3>1. Plays(U) /\ D.state # "setup" /\ (Plays(D) => U.t0 = D.t0)
      BY <2>8, <1>3 DEF Follows, Plays
    <3>2. G = [D EXCEPT !.state = "running", !.t0 = U.t0, !.written = w]
      BY <2>7, <2>8
    <3>3. /\ w > D.written /\ U.t0 + w <= t
      BY <2>8, <2>6, <2>2, <3>1, <1>4
    <3> HIDE DEF G
    <3>4. /\ G \in Ring /\ G.state = "running" /\ G.t0 = U.t0 /\ G.written = w
          /\ SameClock(D, G) /\ G.segment = D.segment
      BY <1>2, <1>4, <2>6, <3>2 DEF Ring, SameClock, SameFragment, States
    <3>5. RingOK(G, t)
      BY <1>4, <2>6, <3>1, <3>3, <3>4 DEF RingOK, Plays, SameClock, SameFragment
    <3>6. Replays(D, G, t)
      BY <3>1, <3>3, <3>4 DEF Replays, Plays
    <3> QED  BY <1>6, <3>4, <3>5, <3>6 DEF G, U
  <2>9. CASE ~replays
    <3>1. G = D
      BY <2>7, <2>9
    <3> QED  BY <1>6, <3>1 DEF SameClock, SameFragment, Stays, G, U
  <2> QED  BY <2>8, <2>9
<1> QED  BY <1>5, <1>6

\* The staged bytes an undo leaves are those it means to.
LEMMA UndoneBuffer ==
  ASSUME NEW D \in Ring, NEW E \in Ring, D.buffer_used <= D.period, NEW S, BufferOK(E, S),
         NEW Z \in Seq(Nat), Len(Z) = D.buffer_used, NEW staged \in Seq(Nat),
         \/ staged = Z
         \/ /\ staged = <<>> /\ E.period = D.period /\ Len(Z) <= Len(S)
            /\ \A i \in 1 .. Len(Z) : S[i] = Z[i]
  PROVE  LET R == IF D.period # 0 /\ (S = <<>> \/ D.period # E.period)
                  THEN Resized(S, D.period) ELSE S
             T == Overwritten(R, 0, staged)
         IN BufferOK(D, T) /\ SubSeq(T, 1, D.buffer_used) = Z
<1> DEFINE R == IF D.period # 0 /\ (S = <<>> \/ D.period # E.period)
                THEN Resized(S, D.period) ELSE S
           T == Overwritten(R, 0, staged)
           b == D.buffer_used
<1>1. /\ D.period \in Nat /\ b \in Nat /\ E.period \in Nat /\ S \in Seq(Nat)
      /\ (E.period # 0 => Len(S) = E.period) /\ b <= D.period
  BY DEF Ring, BufferOK
<1>2. /\ R \in Seq(Nat) /\ (D.period # 0 => Len(R) = D.period)
      /\ \/ staged = Z
         \/ staged = <<>> /\ Len(Z) <= Len(R) /\ \A i \in 1 .. Len(Z) : R[i] = Z[i]
  <2>1. /\ Resized(S, D.period) \in Seq(Nat) /\ Len(Resized(S, D.period)) = D.period
        /\ \A i \in 1 .. D.period : Resized(S, D.period)[i] = IF i <= Len(S) THEN S[i] ELSE 0
    BY <1>1, ResizedIs
  <2> DEFINE Q == Resized(S, D.period)
  <2>2. /\ Q \in Seq(Nat) /\ Len(Q) = D.period
        /\ \A i \in 1 .. D.period : Q[i] = IF i <= Len(S) THEN S[i] ELSE 0
    BY <2>1
  <2> HIDE DEF Q
  <2>3. CASE D.period # 0 /\ (S = <<>> \/ D.period # E.period)
    <3>1. R = Q
      BY <2>3 DEF Q
    <3> HIDE DEF R
    <3>2. CASE staged = Z
      BY <2>2, <3>1, <3>2
    <3>3. CASE staged # Z
      <4>1. /\ staged = <<>> /\ E.period = D.period /\ Len(Z) <= Len(S)
            /\ \A i \in 1 .. Len(Z) : S[i] = Z[i]
        BY <3>3
      <4>2. \A i \in 1 .. Len(Z) : Q[i] = Z[i]
        BY <4>1, <2>2, <1>1, SMTT(40)
      <4> QED  BY <1>1, <2>2, <3>1, <4>1, <4>2
    <3> QED  BY <3>2, <3>3
  <2>4. CASE ~(D.period # 0 /\ (S = <<>> \/ D.period # E.period))
    <3>1. R = S
      BY <2>4
    <3> HIDE DEF R
    <3>2. D.period # 0 => Len(R) = D.period
      BY <1>1, <2>4, <3>1
    <3> QED  BY <1>1, <3>1, <3>2
  <2> QED  BY <2>3, <2>4
<1> HIDE DEF R
<1>3. /\ T \in Seq(Nat) /\ Len(T) = Len(R)
      /\ \A i \in 1 .. Len(R) :
           T[i] = IF i > 0 /\ i <= 0 + Len(staged) THEN staged[i - 0] ELSE R[i]
  BY <1>2, OverwrittenIs
<1> HIDE DEF T
<1>4. BufferOK(D, T)
  BY <1>1, <1>2, <1>3 DEF BufferOK
<1>5. b <= Len(T)
  BY <1>1, <1>2, <1>3
<1>6. \A i \in 1 .. b : T[i] = Z[i]
  <2>1. CASE staged = Z
    <3>1. b \in Nat /\ Len(staged) = b
      BY <1>1, <2>1
    <3>2. b <= Len(R)
      BY <1>3, <1>5
    <3>3. ASSUME NEW i \in 1 .. b
          PROVE  T[i] = Z[i]
      <4> HIDE DEF b
      <4>1. /\ i \in 1 .. Len(R) /\ Len(R) \in Nat
            /\ i > 0 /\ i <= 0 + Len(staged) /\ i - 0 = i
        BY <3>1, <3>2, <1>2, SMT
      <4>2. T[i] = staged[i - 0]
        BY <1>3, <4>1, Zenon
      <4> QED  BY <4>1, <4>2, <2>1, Zenon
    <3> QED  BY <3>3
  <2>2. CASE staged = <<>> /\ \A i \in 1 .. Len(Z) : R[i] = Z[i]
    <3>1. Len(staged) = 0
      BY <2>2
    <3> QED  BY <1>1, <1>3, <1>5, <2>2, <3>1
  <2> QED  BY <1>2, <2>1, <2>2
<1>7. SubSeq(T, 1, b) = SubSeq(Z, 1, b)
  BY <1>1, <1>3, <1>5, <1>6, SamePrefix
<1>8. SubSeq(Z, 1, b) = Z
  BY SubSeqFull
<1> QED  BY <1>4, <1>7, <1>8 DEF R, T

-----------------------------------------------------------------------------
(* What undo has made of it so far. *)

Undone == [D : Ring, S : Seq(Nat), H : SUBSET Notes, status : BOOLEAN]
Like(u, Q) ==
  /\ u \in Undone /\ u.D = Q.dsp /\ BufferOK(u.D, u.S)
  /\ SubSeq(u.S, 1, u.D.buffer_used) = Q.staged /\ u.H = Q.host
  /\ \A h \in u.H : now <= h.at
Undid(v, n) ==
  [dsp |-> v.D, staged |-> SubSeq(v.S, 1, v.D.buffer_used), host |-> v.H, lost |-> n]

\* What undo made of it is a state it could have found.
LEMMA UndidIs ==
  ASSUME NEW n \in Nat, NEW v \in Undone, RingOK(v.D, now), BufferOK(v.D, v.S),
         \A h \in v.H : now <= h.at
  PROVE  LET X == Undid(v, n)
         IN /\ FoundOK(X, now) /\ Like(v, X)
            /\ X.dsp = v.D /\ X.staged = SubSeq(v.S, 1, v.D.buffer_used) /\ X.host = v.H
            /\ X.lost = n
<1>1. v.D \in Ring /\ v.S \in Seq(Nat) /\ v.H \in SUBSET Notes
  BY DEF Undone
<1>2. v.D.buffer_used \in Nat /\ v.D.buffer_used <= Len(v.S)
  BY Fitting
<1>3. SubSeq(v.S, 1, v.D.buffer_used) \in Seq(Nat) /\ Len(SubSeq(v.S, 1, v.D.buffer_used)) = v.D.buffer_used
  BY <1>1, <1>2, Prefix
<1> DEFINE s == SubSeq(v.S, 1, v.D.buffer_used)
           X == [dsp |-> v.D, staged |-> s, host |-> v.H, lost |-> n]
<1>4. s \in Seq(Nat) /\ Len(s) = v.D.buffer_used
  BY <1>3
<1> HIDE DEF s
<1>5. X \in Founds /\ X.dsp = v.D /\ X.staged = s /\ X.host = v.H /\ X.lost = n
  BY <1>1, <1>4 DEF Founds
<1>6. Undid(v, n) = X
  BY DEF Undid, s
<1> HIDE DEF X
<1>7. FoundOK(X, now)
  BY <1>4, <1>5 DEF FoundOK
<1>8. Like(v, X)
  BY <1>5 DEF Like, s
<1> QED  BY <1>5, <1>6, <1>7, <1>8 DEF s

\* A record undone, from what it left, comes back to what it found.
LEMMA UndoBack ==
  ASSUME now \in Nat, NEW st, NEW r, NEW P, NEW Q, FoundOK(P, now), FoundOK(Q, now),
         Back(r, P, Q, now, st), NEW u, Like(u, Q), NEW n \in Nat
  PROVE  LET v == UndoRecord(r, u)
             X == Undid(v, n)
         IN FoundOK(X, now) /\ Aged(P, X, now, st) /\ Like(v, X)
<1> DEFINE v == UndoRecord(r, u)
           X == Undid(v, n)
<1>0. now \in Int
  OBVIOUS
<1>1. /\ u \in Undone /\ u.D \in Ring /\ u.S \in Seq(Nat) /\ u.H \in SUBSET Notes
      /\ u.status \in BOOLEAN /\ r \in Changes
      /\ u.D = Q.dsp /\ u.H = Q.host /\ BufferOK(u.D, u.S)
      /\ SubSeq(u.S, 1, u.D.buffer_used) = Q.staged /\ \A h \in u.H : now <= h.at
      /\ RingOK(Q.dsp, now) /\ RingOK(P.dsp, now) /\ P.dsp \in Ring /\ P.host \in SUBSET Notes
      /\ P.staged \in Seq(Nat) /\ Len(P.staged) = P.dsp.buffer_used
      /\ Q.staged \in Seq(Nat) /\ Len(Q.staged) = Q.dsp.buffer_used
  <2>1. u \in Undone
    BY DEF Like
  <2>2. u.D \in Ring /\ u.S \in Seq(Nat) /\ u.H \in SUBSET Notes /\ u.status \in BOOLEAN
    BY <2>1 DEF Undone
  <2> QED  BY <2>1, <2>2, FoundIs DEF Like, Back, FoundOK
<1>2. CASE r.kind = "status"
  <2>1. r.status \in BOOLEAN
    BY <1>1, <1>2 DEF Changes
  <2>2. v = [u EXCEPT !.status = r.status]
    BY <1>2, Zenon DEF UndoRecord
  <2> HIDE DEF v
  <2>3. v \in Undone /\ v.D = u.D /\ v.S = u.S /\ v.H = u.H
    BY <1>1, <2>1, <2>2 DEF Undone
  <2>4. RingOK(v.D, now) /\ BufferOK(v.D, v.S) /\ \A h \in v.H : now <= h.at
    BY <1>1, <2>3
  <2>5. /\ FoundOK(X, now) /\ Like(v, X)
        /\ X.dsp = v.D /\ X.staged = SubSeq(v.S, 1, v.D.buffer_used) /\ X.host = v.H
    BY <2>3, <2>4, UndidIs
  <2> HIDE DEF X
  <2>6. Aged(P, Q, now, st)
    BY <1>2 DEF Back
  <2>7. X.dsp = Q.dsp /\ X.staged = Q.staged /\ X.host = Q.host
    BY <1>1, <2>3, <2>5, Zenon
  <2>8. Aged(P, X, now, st)
    BY <2>6, <2>7, Zenon DEF Aged
  <2> QED  BY <2>5, <2>8 DEF X, v
<1>3. CASE r.kind # "status"
  <2>1. /\ r.kind = "pass" /\ r.staged \in Seq(Nat) /\ r.transferred \in BOOLEAN
        /\ r.dropped \in BOOLEAN /\ r.first \in Int
    BY <1>1, <1>3 DEF Changes
  <2>2. /\ Backs(r, P, Q) /\ Follows(P.dsp, Q.dsp)
        /\ \/ ~r.dropped /\ Unheard(r, Q.host, now) = Left(P.host, now)
           \/ st /\ Unheard(r, Q.host, now) = {}
    BY <1>3, Zenon DEF Back
  <2> DEFINE D == TakenBack(r, Updated(u.D, now))
             R == IF D.period # 0 /\ (u.S = <<>> \/ D.period # u.D.period)
                  THEN Resized(u.S, D.period) ELSE u.S
             T == Overwritten(R, 0, r.staged)
             H == IF r.transferred THEN Cut(u.H, Max({now, r.first})) ELSE u.H
  <2>3. /\ RingOK(D, now) /\ SameClock(P.dsp, D)
        /\ IF r.dropped THEN D.segment > P.dsp.segment /\ PlayedOut(D, now)
           ELSE Stays(P.dsp, D, now) \/ Replays(P.dsp, D, now)
    <3>1. r.before = P.dsp
      BY <2>2 DEF Backs
    <3> DEFINE t == now
    <3>2. t \in Int /\ t = now /\ RingOK(P.dsp, t) /\ RingOK(Q.dsp, t)
      BY <1>1
    <3> HIDE DEF t
    <3> DEFINE B == TakenBack(r, Updated(Q.dsp, t))
    <3>3. /\ RingOK(B, t) /\ SameClock(P.dsp, B)
          /\ IF r.dropped THEN B.segment > P.dsp.segment /\ PlayedOut(B, t)
             ELSE Stays(P.dsp, B, t) \/ Replays(P.dsp, B, t)
      BY <1>1, <1>3, <2>2, <3>1, <3>2, TakenIs
    <3>4. D = B
      BY <1>1, <3>2, Zenon
    <3> HIDE DEF D, B
    <3> QED  BY <3>2, <3>3, <3>4, Zenon
  <2>4. D \in Ring /\ D.buffer_used <= D.period /\ D.buffer_used = P.dsp.buffer_used
        /\ D.period = P.dsp.period
    BY <2>3 DEF RingOK, SameClock, SameFragment
  <2>5. H = {h \in u.H : r.transferred => h.at < r.first} /\ H \in SUBSET Notes
    <3>1. Max({now, r.first}) = IF now >= r.first THEN now ELSE r.first
      BY <2>1, <1>0, MaxTwo
    <3>2. \A h \in u.H : h.at \in Int /\ now <= h.at
      BY <1>1 DEF Notes
    <3>3. CASE r.transferred
      <4>1. H = {h \in u.H : h.at < Max({now, r.first})}
        BY <3>3 DEF Cut
      <4>2. \A h \in u.H : h.at < Max({now, r.first}) <=> h.at < r.first
        BY <3>1, <3>2, <2>1, <1>0
      <4> HIDE DEF H
      <4> QED  BY <4>1, <4>2, <1>1, <3>3
    <3>4. CASE ~r.transferred
      BY <3>4, <1>1
    <3> QED  BY <3>3, <3>4
  <2> HIDE DEF D, H
  <2>6. v = [u EXCEPT !.D = D, !.S = T, !.H = H]
    BY <1>3, Zenon DEF UndoRecord, D, H
  <2>7. BufferOK(D, T) /\ SubSeq(T, 1, D.buffer_used) = P.staged
    <3>1. \/ r.staged = P.staged
          \/ /\ r.staged = <<>> /\ u.D.period = D.period /\ Len(P.staged) <= Len(u.S)
             /\ \A i \in 1 .. Len(P.staged) : u.S[i] = P.staged[i]
      <4>1. CASE r.staged = P.staged
        BY <4>1
      <4>2. CASE r.staged # P.staged
        <5>1. /\ r.staged = <<>> /\ Q.dsp.period = P.dsp.period /\ Len(P.staged) <= Len(Q.staged)
              /\ \A i \in 1 .. Len(P.staged) : Q.staged[i] = P.staged[i]
          BY <4>2, <2>2 DEF Backs
        <5>2. u.D.buffer_used \in Nat /\ u.D.buffer_used <= Len(u.S)
          BY <1>1, Fitting
        <5>3. \A i \in 1 .. u.D.buffer_used : Q.staged[i] = u.S[i]
          BY <1>1, <5>2, Prefix
        <5>4. Len(P.staged) \in Nat /\ Len(u.S) \in Nat /\ Len(P.staged) <= u.D.buffer_used
          BY <1>1, <5>1
        <5>5. \A i \in 1 .. Len(P.staged) : u.S[i] = P.staged[i]
          BY <5>1, <5>2, <5>3, <5>4
        <5> QED  BY <5>1, <5>2, <5>4, <5>5, <1>1, <2>4
      <4> QED  BY <4>1, <4>2
    <3>2. Len(P.staged) = D.buffer_used
      BY <1>1, <2>4
    <3>3. /\ D \in Ring /\ u.D \in Ring /\ D.buffer_used <= D.period /\ BufferOK(u.D, u.S)
          /\ P.staged \in Seq(Nat) /\ r.staged \in Seq(Nat)
      BY <1>1, <2>1, <2>4
    <3> HIDE DEF D
    <3> QED  BY ONLY <3>1, <3>2, <3>3, UndoneBuffer, SMTT(60)
  <2>8. T \in Seq(Nat)
    BY <2>7 DEF BufferOK
  <2> HIDE DEF T, v
  <2>9. v \in Undone /\ v.D = D /\ v.S = T /\ v.H = H
    BY <1>1, <2>4, <2>5, <2>6, <2>8 DEF Undone
  <2>10. RingOK(v.D, now) /\ BufferOK(v.D, v.S) /\ \A h \in v.H : now <= h.at
    BY <1>1, <2>3, <2>5, <2>7, <2>9
  <2>11. /\ FoundOK(X, now) /\ Like(v, X)
         /\ X.dsp = v.D /\ X.staged = SubSeq(v.S, 1, v.D.buffer_used) /\ X.host = v.H
    BY <2>9, <2>10, UndidIs
  <2> HIDE DEF X
  <2>12. X.dsp = D /\ X.staged = P.staged /\ X.host = H
    BY <2>7, <2>9, <2>11
  <2>13. Left(H, now) = Unheard(r, Q.host, now)
    BY <1>1, <2>5 DEF Left, Unheard
  <2>14. Left(X.host, now) = Left(P.host, now) \/ (st /\ Left(X.host, now) = {})
    BY <2>2, <2>12, <2>13
  <2>15. r.dropped => st /\ Left(X.host, now) = {}
    BY <2>2, <2>12, <2>13
  <2>16. Aged(P, X, now, st)
    <3>1. SameClock(P.dsp, X.dsp) /\ X.staged = P.staged
      BY <2>3, <2>12
    <3>2. \/ Stays(P.dsp, X.dsp, now)
          \/ Replays(P.dsp, X.dsp, now)
          \/ Restarts(P.dsp, X.dsp, now, st) /\ Left(X.host, now) = {}
      BY <2>3, <2>12, <2>15, Zenon DEF Restarts
    <3> QED  BY <2>14, <3>1, <3>2, Zenon DEF Aged
  <2> QED  BY <2>11, <2>16 DEF X, v
<1> QED  BY <1>2, <1>3

-----------------------------------------------------------------------------
(* An undo goes back through the records of an instruction. *)

LEMMA MinIs ==
  ASSUME NEW s \in SUBSET Int, NEW m \in s, \A x \in s : m <= x
  PROVE  Min(s) = m
<1>1. \A x \in s : (\A y \in s : x =< y) => x = m
  OBVIOUS
<1>2. m \in s /\ \A y \in s : m =< y
  OBVIOUS
<1> QED  BY <1>1, <1>2 DEF Min

Folds(seq, base, m, n, f) ==
  f = [s \in SUBSET (m + 1 .. n) |->
         IF s = {} THEN base ELSE UndoRecord(seq[Min(s)], f[s \ {Min(s)}])]

\* The fold of an undo, as a function.
LEMMA FoldExists ==
  ASSUME NEW seq, NEW base, NEW n \in Nat
  PROVE  \E f : Folds(seq, base, 0, n, f)
<1> DEFINE S == {j \in 0 .. n : \E f : Folds(seq, base, n - j, n, f)}
<1>1. 0 \in S
  <2>1. SUBSET (n - 0 + 1 .. n) = {{}}
    <3>1. n - 0 + 1 .. n = {}
      OBVIOUS
    <3> QED  BY <3>1
  <2> DEFINE f == [s \in SUBSET (n - 0 + 1 .. n) |-> base]
  <2>2. f = [s \in SUBSET (n - 0 + 1 .. n) |->
               IF s = {} THEN base ELSE UndoRecord(seq[Min(s)], f[s \ {Min(s)}])]
    <3>1. \A s \in SUBSET (n - 0 + 1 .. n) : s = {}
      BY <2>1
    <3>2. [s \in SUBSET (n - 0 + 1 .. n) |->
             IF s = {} THEN base ELSE UndoRecord(seq[Min(s)], f[s \ {Min(s)}])] = f
      BY <3>1
    <3> QED  BY <3>2
  <2> HIDE DEF f
  <2>3. Folds(seq, base, n - 0, n, f)
    BY <2>2 DEF Folds
  <2> QED  BY <2>3
<1>2. ASSUME NEW j \in 1 .. n, j - 1 \in S PROVE j \in S
  <2> DEFINE m == n - j + 1
  <2>0. m \in 1 .. n /\ n - (j - 1) = m /\ n - j = m - 1 /\ (m - 1) + 1 = m /\ j \in 0 .. n
    OBVIOUS
  <2> HIDE DEF m
  <2>1. PICK f : Folds(seq, base, m, n, f)
    BY <1>2, <2>0
  <2>2. /\ DOMAIN f = SUBSET (m + 1 .. n)
        /\ \A s \in SUBSET (m + 1 .. n) :
             f[s] = IF s = {} THEN base ELSE UndoRecord(seq[Min(s)], f[s \ {Min(s)}])
    BY <2>1, Zenon DEF Folds
  <2> DEFINE g == [s \in SUBSET (m .. n) |->
                     IF m \in s THEN UndoRecord(seq[m], f[s \ {m}]) ELSE f[s]]
  <2>3. ASSUME NEW s \in SUBSET (m .. n)
        PROVE  g[s] = IF s = {} THEN base ELSE UndoRecord(seq[Min(s)], g[s \ {Min(s)}])
    <3>1. CASE m \in s
      <4>0. s \in SUBSET Int /\ \A x \in s : m <= x
        BY <2>0
      <4>1. Min(s) = m
        BY <3>1, <4>0, MinIs
      <4>2. s \ {m} \in SUBSET (m .. n) /\ m \notin s \ {m} /\ s # {}
        BY <3>1
      <4>3. g[s \ {m}] = f[s \ {m}] /\ g[s] = UndoRecord(seq[m], f[s \ {m}])
        BY <3>1, <4>2
      <4> HIDE DEF g
      <4> QED  BY <4>1, <4>2, <4>3
    <3>2. CASE m \notin s
      <4>1. s \in SUBSET (m + 1 .. n)
        <5>1. \A x \in m .. n : x # m => x \in m + 1 .. n
          BY <2>0
        <5> QED  BY <3>2, <5>1
      <4>2. s \ {Min(s)} \in SUBSET (m .. n) /\ m \notin s \ {Min(s)}
        BY <3>2
      <4>3. g[s \ {Min(s)}] = f[s \ {Min(s)}] /\ g[s] = f[s]
        BY <3>2, <4>2
      <4> HIDE DEF g
      <4> QED  BY <2>2, <4>1, <4>3
    <3> QED  BY <3>1, <3>2
  <2>4. DOMAIN g = SUBSET (m .. n) /\ g = [s \in SUBSET (m .. n) |-> g[s]]
    OBVIOUS
  <2> HIDE DEF g
  <2>5. g = [s \in SUBSET (m .. n) |->
               IF s = {} THEN base ELSE UndoRecord(seq[Min(s)], g[s \ {Min(s)}])]
    BY <2>3, <2>4
  <2>6. Folds(seq, base, m - 1, n, g)
    BY <2>0, <2>5 DEF Folds
  <2> QED  BY <2>0, <2>6
<1>3. \A j \in 0 .. n : j \in S
  <2> HIDE DEF S
  <2> QED  BY <1>1, <1>2, UpTo
<1>4. n \in S /\ n - n = 0
  BY <1>3
<1> QED  BY <1>4

\* A fold goes back from the last to the first.
Through(seq, base, n, G) ==
  /\ G[n + 1] = base
  /\ \A j \in 1 .. n : G[j] = UndoRecord(seq[j], G[j + 1])

LEMMA FoldSteps ==
  ASSUME NEW base, NEW seq, NEW n \in Nat, NEW f, Folds(seq, base, 0, n, f)
  PROVE  \E G : Through(seq, base, n, G) /\ G[1] = f[1 .. n]
<1> DEFINE G == [j \in 1 .. n + 1 |-> f[j .. n]]
<1>2. \A s \in SUBSET (1 .. n) :
        f[s] = IF s = {} THEN base ELSE UndoRecord(seq[Min(s)], f[s \ {Min(s)}])
  <2>1. f = [s \in SUBSET (0 + 1 .. n) |->
               IF s = {} THEN base ELSE UndoRecord(seq[Min(s)], f[s \ {Min(s)}])]
    BY Zenon DEF Folds
  <2>2. 0 + 1 = 1
    OBVIOUS
  <2>3. \A s \in SUBSET (0 + 1 .. n) :
          f[s] = IF s = {} THEN base ELSE UndoRecord(seq[Min(s)], f[s \ {Min(s)}])
    BY <2>1, Zenon
  <2> QED  BY <2>2, <2>3
<1>3. G[n + 1] = base
  <2>1. n + 1 .. n = {} /\ {} \in SUBSET (1 .. n) /\ n + 1 \in 1 .. n + 1
    OBVIOUS
  <2>2. f[{}] = base
    BY <1>2, <2>1
  <2> QED  BY <2>1, <2>2
<1>4. ASSUME NEW j \in 1 .. n PROVE G[j] = UndoRecord(seq[j], G[j + 1])
  <2>1. /\ j .. n \in SUBSET (1 .. n) /\ j .. n # {}
        /\ j \in 1 .. n + 1 /\ j + 1 \in 1 .. n + 1 /\ j \in j .. n
    <3>1. j \in j .. n /\ \A x \in j .. n : x \in 1 .. n
      OBVIOUS
    <3> QED  BY <3>1
  <2>2. (j .. n) \ {j} = j + 1 .. n
    OBVIOUS
  <2>3. j .. n \in SUBSET Int /\ \A x \in j .. n : j <= x
    OBVIOUS
  <2>4. Min(j .. n) = j
    BY <2>1, <2>3, MinIs
  <2>5. f[j .. n] = UndoRecord(seq[j], f[j + 1 .. n])
    BY <1>2, <2>1, <2>2, <2>4
  <2>6. G[j] = f[j .. n] /\ G[j + 1] = f[j + 1 .. n]
    BY <2>1
  <2> QED  BY <2>5, <2>6
<1>5. G[1] = f[1 .. n]
  OBVIOUS
<1> HIDE DEF G
<1> QED  BY <1>3, <1>4, <1>5 DEF Through

\* Undo goes through the records one by one.
LEMMA UndoFolded ==
  ASSUME NEW base, NEW E, NEW seq \in Seq(E)
  PROVE  \E G : Through(seq, base, Len(seq), G) /\ FoldRight(UndoRecord, seq, base) = G[1]
<1> DEFINE D == DOMAIN seq
           It == CHOOSE f : f = [s \in SUBSET D |->
                   IF s = {} THEN base ELSE UndoRecord(seq[Min(s)], f[s \ {Min(s)}])]
<1>1. FoldRight(UndoRecord, seq, base) = It[D]
  BY Zenon DEF FoldRight, MapThenFoldSet
<1>2. D = 1 .. Len(seq) /\ Len(seq) \in Nat
  BY LenProperties
<1> HIDE DEF D
<1>3. PICK f : Folds(seq, base, 0, Len(seq), f)
  BY <1>2, FoldExists
<1>0. 0 + 1 = 1
  OBVIOUS
<1>5. f = [s \in SUBSET D |->
             IF s = {} THEN base ELSE UndoRecord(seq[Min(s)], f[s \ {Min(s)}])]
  BY <1>0, <1>2, <1>3, Zenon DEF Folds
<1>6. It = [s \in SUBSET D |->
             IF s = {} THEN base ELSE UndoRecord(seq[Min(s)], It[s \ {Min(s)}])]
  BY <1>5, Zenon
<1> HIDE DEF It
<1>7. Folds(seq, base, 0, Len(seq), It)
  BY <1>0, <1>2, <1>6, Zenon DEF Folds
<1> QED  BY <1>1, <1>2, <1>7, FoldSteps

\* The records rs of an instruction took what Z found to Y.
Linked(F, rs, Z, Y, t, st) ==
  /\ Aged(Z, F[1], t, st) /\ F[Len(rs) + 1] = Y
  /\ \A i \in 1 .. Len(rs) + 1 : FoundOK(F[i], t)
  /\ \A i \in 1 .. Len(rs) : Back(rs[i], F[i], F[i + 1], t, st)
Chain(rs, Z, Y, t, st) == rs \in Seq(Changes) /\ \E F : Linked(F, rs, Z, Y, t, st)

\* No records yet.
LEMMA ChainStart ==
  ASSUME NEW Z, NEW t, NEW st, FoundOK(Z, t)
  PROVE  Chain(<<>>, Z, Z, t, st)
<1> DEFINE F == [i \in 1 .. 1 |-> Z]
           rs == <<>>
<1>1. F[1] = Z /\ Aged(Z, Z, t, st) /\ rs \in Seq(Changes) /\ Len(rs) = 0
  BY AgedSelf
<1> HIDE DEF F, rs
<1>2. \A i \in 1 .. Len(rs) + 1 : FoundOK(F[i], t)
  BY <1>1
<1>3. \A i \in 1 .. Len(rs) : Back(rs[i], F[i], F[i + 1], t, st)
  BY <1>1
<1>4. Len(rs) + 1 = 1
  BY <1>1
<1>5. Linked(F, rs, Z, Z, t, st)
  BY <1>1, <1>2, <1>3, <1>4, Zenon DEF Linked
<1>6. Chain(rs, Z, Z, t, st)
  BY <1>1, <1>5, Zenon DEF Chain
<1> QED  BY <1>6 DEF rs

\* The records go back as far from what was taken back to where they led.
LEMMA ChainAged ==
  ASSUME NEW t \in Int, NEW st, NEW rs, NEW Z, NEW Y, NEW X, Chain(rs, Z, Y, t, st), FoundOK(Z, t),
         FoundOK(X, t), Aged(Y, X, t, st)
  PROVE  Chain(rs, Z, X, t, st)
<1> DEFINE n == Len(rs)
<1>1. rs \in Seq(Changes) /\ n \in Nat
  BY LenProperties DEF Chain
<1>2. PICK F : Linked(F, rs, Z, Y, t, st)
  BY DEF Chain
<1>3. /\ Aged(Z, F[1], t, st) /\ F[n + 1] = Y
      /\ \A i \in 1 .. n + 1 : FoundOK(F[i], t)
      /\ \A i \in 1 .. n : Back(rs[i], F[i], F[i + 1], t, st)
  BY <1>2 DEF Linked
<1> DEFINE G == [i \in 1 .. n + 1 |-> IF i = n + 1 THEN X ELSE F[i]]
<1>4. G[n + 1] = X /\ \A i \in 1 .. n : G[i] = F[i]
  BY <1>1
<1>5. \A i \in 1 .. n + 1 : FoundOK(G[i], t)
  BY <1>1, <1>3
<1> HIDE DEF n, G
<1>6. Aged(Z, G[1], t, st)
  <2>1. CASE n = 0
    <3>1. F[1] = Y /\ G[1] = X /\ 1 \in 1 .. n + 1
      BY <1>3, <1>4, <2>1
    <3>2. FoundOK(Y, t)
      BY <1>3, <3>1
    <3> QED  BY <1>3, <3>1, <3>2, AgedThen
  <2>2. CASE n # 0
    <3>1. G[1] = F[1]
      BY <1>1, <1>4, <2>2
    <3> QED  BY <1>3, <3>1
  <2> QED  BY <2>1, <2>2
<1>7. ASSUME NEW i \in 1 .. n PROVE Back(rs[i], G[i], G[i + 1], t, st)
  <2>1. G[i] = F[i] /\ Back(rs[i], F[i], F[i + 1], t, st) /\ FoundOK(F[i], t) /\ FoundOK(F[i + 1], t)
    BY <1>1, <1>3, <1>4
  <2>2. CASE i = n
    <3>1. G[i + 1] = X /\ F[i + 1] = Y
      BY <1>3, <1>4, <2>2
    <3> QED  BY <2>1, <3>1, BackAged
  <2>3. CASE i # n
    <3>1. G[i + 1] = F[i + 1]
      BY <1>1, <1>4, <2>3
    <3> QED  BY <2>1, <3>1
  <2> QED  BY <2>2, <2>3
<1>8. Linked(G, rs, Z, X, t, st)
  BY <1>4, <1>5, <1>6, <1>7, Zenon DEF Linked, n
<1> QED  BY <1>1, <1>8, Zenon DEF Chain

\* They go back as far when time has passed.
LEMMA ChainLater ==
  ASSUME NEW t \in Int, NEW u \in Int, t <= u, NEW st, NEW sp, st => sp, NEW rs, NEW Z, NEW Y,
         Chain(rs, Z, Y, t, st), FoundOK(Z, t)
  PROVE  Chain(rs, Z, Y, u, sp)
<1> DEFINE n == Len(rs)
<1>1. rs \in Seq(Changes) /\ n \in Nat
  BY LenProperties DEF Chain
<1>2. PICK F : Linked(F, rs, Z, Y, t, st)
  BY DEF Chain
<1>3. /\ Aged(Z, F[1], t, st) /\ F[n + 1] = Y
      /\ \A i \in 1 .. n + 1 : FoundOK(F[i], t)
      /\ \A i \in 1 .. n : Back(rs[i], F[i], F[i + 1], t, st)
  BY <1>2 DEF Linked
<1> HIDE DEF n
<1>4. \A i \in 1 .. n + 1 : FoundOK(F[i], u)
  BY <1>3, FoundLater
<1>5. Aged(Z, F[1], u, sp)
  <2>1. FoundOK(F[1], t)
    BY <1>1, <1>3
  <2>2. Aged(Z, F[1], u, st)
    BY <1>3, <2>1, AgedLater
  <2> QED  BY <2>2, AgedStopped
<1>6. ASSUME NEW i \in 1 .. n PROVE Back(rs[i], F[i], F[i + 1], u, sp)
  <2>1. Back(rs[i], F[i], F[i + 1], t, st) /\ FoundOK(F[i], t) /\ FoundOK(F[i + 1], t)
    BY <1>1, <1>3
  <2> QED  BY <2>1, BackLater
<1>7. Linked(F, rs, Z, Y, u, sp)
  BY <1>3, <1>4, <1>5, <1>6, Zenon DEF Linked, n
<1> QED  BY <1>1, <1>7, Zenon DEF Chain

\* One record more.
LEMMA ChainMore ==
  ASSUME NEW t \in Int, NEW st, NEW rs, NEW Z, NEW Y, NEW X, Chain(rs, Z, Y, t, st),
         FoundOK(X, t), NEW r, Back(r, Y, X, t, st)
  PROVE  Chain(Append(rs, r), Z, X, t, st)
<1> DEFINE n == Len(rs)
           qs == Append(rs, r)
<1>1. rs \in Seq(Changes) /\ n \in Nat /\ r \in Changes
  BY LenProperties DEF Chain, Back
<1>2. PICK F : Linked(F, rs, Z, Y, t, st)
  BY DEF Chain
<1>3. /\ Aged(Z, F[1], t, st) /\ F[n + 1] = Y
      /\ \A i \in 1 .. n + 1 : FoundOK(F[i], t)
      /\ \A i \in 1 .. n : Back(rs[i], F[i], F[i + 1], t, st)
  BY <1>2 DEF Linked
<1>4. /\ qs \in Seq(Changes) /\ Len(qs) = n + 1 /\ qs[n + 1] = r
      /\ \A i \in 1 .. n : qs[i] = rs[i]
  BY <1>1, AppendProperties
<1> DEFINE G == [i \in 1 .. n + 2 |-> IF i = n + 2 THEN X ELSE F[i]]
<1>5. G[n + 2] = X /\ \A i \in 1 .. n + 1 : G[i] = F[i]
  BY <1>1
<1> HIDE DEF n, G, qs
<1>6. \A i \in 1 .. (n + 1) + 1 : FoundOK(G[i], t)
  BY <1>1, <1>3, <1>5
<1>7. Aged(Z, G[1], t, st)
  BY <1>1, <1>3, <1>5
<1>8. ASSUME NEW i \in 1 .. n + 1 PROVE Back(qs[i], G[i], G[i + 1], t, st)
  <2>1. CASE i = n + 1
    <3>1. G[i] = Y /\ G[i + 1] = X /\ qs[i] = r
      BY <1>1, <1>3, <1>4, <1>5, <2>1
    <3> QED  BY <3>1
  <2>2. CASE i # n + 1
    <3>1. i \in 1 .. n /\ i + 1 \in 1 .. n + 1
      BY <1>1, <2>2
    <3>2. G[i] = F[i] /\ G[i + 1] = F[i + 1] /\ qs[i] = rs[i]
      BY <1>4, <1>5, <3>1
    <3> QED  BY <1>3, <3>1, <3>2
  <2> QED  BY <2>1, <2>2
<1>9. G[Len(qs) + 1] = X
  BY <1>1, <1>4, <1>5
<1>10. Linked(G, qs, Z, X, t, st)
  BY <1>4, <1>6, <1>7, <1>8, <1>9, Zenon DEF Linked
<1> QED  BY <1>4, <1>10, Zenon DEF Chain, qs

\* Undo comes back to what the instruction found.
LEMMA UndoEntry ==
  ASSUME now \in Nat, NEW st, NEW rs, NEW Z, NEW Y, Chain(rs, Z, Y, now, st), FoundOK(Z, now),
         FoundOK(Y, now), NEW u, Like(u, Y), NEW n \in Nat
  PROVE  LET v == FoldRight(UndoRecord, rs, u)
             X == Undid(v, n)
         IN FoundOK(X, now) /\ Aged(Z, X, now, st) /\ Like(v, X)
<1> DEFINE m == Len(rs)
<1>0. now \in Int
  OBVIOUS
<1>1. rs \in Seq(Changes) /\ m \in Nat
  BY LenProperties DEF Chain
<1>2. PICK F : Linked(F, rs, Z, Y, now, st)
  BY DEF Chain
<1>3. /\ Aged(Z, F[1], now, st) /\ F[m + 1] = Y
      /\ \A i \in 1 .. m + 1 : FoundOK(F[i], now)
      /\ \A i \in 1 .. m : Back(rs[i], F[i], F[i + 1], now, st)
  BY <1>2 DEF Linked
<1>4. PICK G : Through(rs, u, m, G) /\ FoldRight(UndoRecord, rs, u) = G[1]
  BY <1>1, UndoFolded
<1>5. G[m + 1] = u /\ \A j \in 1 .. m : G[j] = UndoRecord(rs[j], G[j + 1])
  BY <1>4 DEF Through
<1> HIDE DEF m
<1> DEFINE X(j) == Undid(G[j], n)
           Good(j) == FoundOK(X(j), now) /\ Aged(F[j], X(j), now, st) /\ Like(G[j], X(j))
           S == {k \in 0 .. m : Good(m + 1 - k)}
<1>6. Good(m + 1)
  <2>1. /\ u \in Undone /\ u.D = Y.dsp /\ BufferOK(u.D, u.S)
        /\ SubSeq(u.S, 1, u.D.buffer_used) = Y.staged /\ u.H = Y.host
        /\ \A h \in u.H : now <= h.at
    BY DEF Like
  <2>2. RingOK(u.D, now)
    BY <2>1 DEF FoundOK
  <2> DEFINE W == Undid(u, n)
  <2>3. /\ FoundOK(W, now) /\ Like(u, W)
        /\ W.dsp = u.D /\ W.staged = SubSeq(u.S, 1, u.D.buffer_used) /\ W.host = u.H
    BY <2>1, <2>2, UndidIs
  <2> HIDE DEF W
  <2>4. W.dsp = Y.dsp /\ W.staged = Y.staged /\ W.host = Y.host
    BY <2>1, <2>3
  <2>5. Aged(Y, Y, now, st)
    BY AgedSelf
  <2>6. Aged(Y, W, now, st)
    BY <2>4, <2>5, Zenon DEF Aged
  <2> QED  BY <1>3, <1>5, <2>3, <2>6 DEF W
<1>7. ASSUME NEW k \in 1 .. m, k - 1 \in S PROVE k \in S
  <2> DEFINE j == m + 1 - k
  <2>1. j \in 1 .. m /\ j + 1 = m + 1 - (k - 1) /\ k \in 0 .. m /\ j \in 1 .. m + 1
        /\ j + 1 \in 1 .. m + 1
    BY <1>1
  <2> HIDE DEF j
  <2>2. Good(j + 1)
    BY <1>7, <2>1
  <2> HIDE DEF S
  <2>3. /\ FoundOK(F[j], now) /\ FoundOK(F[j + 1], now) /\ Back(rs[j], F[j], F[j + 1], now, st)
        /\ G[j] = UndoRecord(rs[j], G[j + 1])
    BY <1>3, <1>5, <2>1
  <2> DEFINE Q == X(j + 1)
             w == G[j + 1]
  <2>4. FoundOK(Q, now) /\ Aged(F[j + 1], Q, now, st) /\ Like(w, Q)
    BY <2>2
  <2> HIDE DEF X, Q, w
  <2>5. Back(rs[j], F[j], Q, now, st)
    BY <1>0, <2>3, <2>4, BackAged
  <2> DEFINE P == F[j]
             r == rs[j]
             v == UndoRecord(r, w)
  <2>6. FoundOK(P, now) /\ FoundOK(Q, now) /\ Back(r, P, Q, now, st) /\ Like(w, Q)
    BY <2>3, <2>4, <2>5
  <2> HIDE DEF P, r
  <2>7. LET W == Undid(v, n) IN FoundOK(W, now) /\ Aged(P, W, now, st) /\ Like(v, W)
    BY <2>6, UndoBack
  <2>8. v = G[j]
    BY <2>3 DEF r, w
  <2> HIDE DEF v
  <2>9. Good(j)
    BY <2>7, <2>8 DEF X, P
  <2> QED  BY <2>1, <2>9 DEF S, j
<1>8. 0 \in S
  <2>1. m + 1 - 0 = m + 1 /\ 0 \in 0 .. m
    BY <1>1
  <2> QED  BY <1>6, <2>1
<1>9. \A k \in 0 .. m : k \in S
  <2> HIDE DEF S
  <2> QED  BY <1>1, <1>7, <1>8, UpTo
<1>10. Good(1)
  <2>1. m \in S /\ m + 1 - m = 1
    BY <1>1, <1>9
  <2> QED  BY <2>1
<1>11. Aged(Z, X(1), now, st)
  <2>1. FoundOK(F[1], now)
    BY <1>1, <1>3
  <2>2. FoundOK(X(1), now) /\ Aged(F[1], X(1), now, st)
    BY <1>10
  <2> HIDE DEF X
  <2> QED  BY <1>0, <1>3, <2>1, <2>2, AgedThen
<1> QED  BY <1>4, <1>10, <1>11

-----------------------------------------------------------------------------
(* The log W, at time t, where what is there now is h. *)

EntryOK(e, t, loose) ==
  /\ e \in Entries /\ FoundOK(e.found, t) /\ Fits(e.found.dsp, t)
  /\ StreamOK(e.found.dsp.period_ptr, e.found.dsp.buffer_used, e.found.dsp.params,
              e.found.staged, e.found.host, e.sent, e.found.lost)
  /\ HostOK(e.found.dsp, Left(e.found.host, t), t, TRUE)
  /\ loose \/ e.stopped \/ HostOK(e.found.dsp, Left(e.found.host, t), t, FALSE)
NextOf(W, h, i) == IF i < Len(W) THEN W[i + 1].found ELSE h
Leads(e, g, h, t) ==
  Chain(e.records, e.found, g, t, e.stopped) /\ Older(e.found.dsp, h.dsp, t, e.stopped)
Before(e, f, t) ==
  (f.stopped => e.stopped) /\ Older(e.found.dsp, f.found.dsp, t, e.stopped)
LogOK(W, h, t, loose) ==
  /\ W \in Seq(Entries) /\ FoundOK(h, t)
  /\ \A i \in 1 .. Len(W) : EntryOK(W[i], t, loose)
  /\ \A i \in 1 .. Len(W) : Leads(W[i], NextOf(W, h, i), h, t)
  /\ \A i, j \in 1 .. Len(W) : i < j => Before(W[i], W[j], t)

LEMMA LogEmpty ==
  ASSUME NEW h, NEW t, FoundOK(h, t), NEW loose
  PROVE  LogOK(<<>>, h, t, loose)
<1> DEFINE W == <<>>
<1>1. W \in Seq(Entries) /\ Len(W) = 0
  OBVIOUS
<1> HIDE DEF W
<1>2. 1 .. Len(W) = {}
  BY <1>1
<1>3. LogOK(W, h, t, loose)
  BY <1>1, <1>2, Zenon DEF LogOK
<1> QED  BY <1>3 DEF W

LEMMA EntryIs ==
  ASSUME NEW e, NEW t, NEW loose, EntryOK(e, t, loose)
  PROVE  /\ e \in Entries /\ FoundOK(e.found, t) /\ e.found \in Founds /\ e.found.dsp \in Ring
         /\ RingOK(e.found.dsp, t) /\ e.stopped \in BOOLEAN /\ e.sent \in Nat
         /\ e.found.host \in SUBSET Notes
<1>1. e \in Entries /\ FoundOK(e.found, t)
  BY DEF EntryOK
<1>2. e.stopped \in BOOLEAN /\ e.sent \in Nat
  BY <1>1 DEF Entries
<1>3. e.found \in Founds
  BY <1>1 DEF FoundOK
<1> QED  BY <1>1, <1>2, <1>3, FoundIs

LEMMA LeftTwice ==
  ASSUME NEW H \in SUBSET Notes, NEW t \in Int, NEW u \in Int, t <= u
  PROVE  Left(Left(H, t), u) = Left(H, u)
<1>1. \A h \in H : h.at \in Int
  BY DEF Notes
<1> QED  BY <1>1 DEF Left

LEMMA OlderStill ==
  ASSUME NEW t \in Int, NEW u \in Int, t <= u, NEW st, NEW Z \in Ring, NEW X, Older(Z, X, t, st)
  PROVE  Older(Z, X, u, st)
<1>1. Z.t0 \in Nat /\ Z.written \in Nat
  BY DEF Ring
<1> QED  BY <1>1 DEF Older, PlayedOut

\* Time passes.
LEMMA LogLater ==
  ASSUME NEW W, NEW h, NEW t \in Int, NEW u \in Int, t <= u, NEW loose, LogOK(W, h, t, loose)
  PROVE  LogOK(W, h, u, loose)
<1>1. /\ W \in Seq(Entries) /\ FoundOK(h, t)
      /\ \A i \in 1 .. Len(W) : EntryOK(W[i], t, loose)
      /\ \A i \in 1 .. Len(W) : Leads(W[i], NextOf(W, h, i), h, t)
      /\ \A i, j \in 1 .. Len(W) : i < j => Before(W[i], W[j], t)
  BY DEF LogOK
<1>2. ASSUME NEW e, EntryOK(e, t, loose) PROVE EntryOK(e, u, loose)
  <2>1. /\ FoundOK(e.found, t) /\ RingOK(e.found.dsp, t) /\ e.found.dsp \in Ring
        /\ e.found.host \in SUBSET Notes /\ e \in Entries
    BY <1>2, EntryIs
  <2>2. /\ Fits(e.found.dsp, t)
        /\ HostOK(e.found.dsp, Left(e.found.host, t), t, TRUE)
        /\ loose \/ e.stopped \/ HostOK(e.found.dsp, Left(e.found.host, t), t, FALSE)
        /\ StreamOK(e.found.dsp.period_ptr, e.found.dsp.buffer_used, e.found.dsp.params,
                    e.found.staged, e.found.host, e.sent, e.found.lost)
    BY <1>2 DEF EntryOK
  <2>3. FoundOK(e.found, u)
    BY <2>1, FoundLater
  <2>4. Fits(e.found.dsp, u)
    BY <2>1, <2>2, RingLater
  <2>5. /\ HostOK(e.found.dsp, Left(Left(e.found.host, t), u), u, TRUE)
        /\ loose \/ e.stopped \/ HostOK(e.found.dsp, Left(Left(e.found.host, t), u), u, FALSE)
    <3> DEFINE D == e.found.dsp
               H == Left(e.found.host, t)
    <3>1. D \in Ring /\ HostOK(D, H, t, TRUE)
      BY <2>1, <2>2
    <3> HIDE DEF D, H
    <3>2. HostOK(D, Left(H, u), u, TRUE)
      BY <3>1, HostLater
    <3>3. HostOK(D, H, t, FALSE) => HostOK(D, Left(H, u), u, FALSE)
      BY <3>1, HostLater
    <3>4. loose \/ e.stopped \/ HostOK(D, H, t, FALSE)
      BY <2>2, Zenon DEF D, H
    <3>5. loose \/ e.stopped \/ HostOK(D, Left(H, u), u, FALSE)
      BY <3>3, <3>4, Zenon
    <3> QED  BY <3>2, <3>5, Zenon DEF D, H
  <2>6. Left(Left(e.found.host, t), u) = Left(e.found.host, u)
    BY <2>1, LeftTwice
  <2> QED  BY <2>1, <2>2, <2>3, <2>4, <2>5, <2>6, Zenon DEF EntryOK
<1>3. ASSUME NEW i \in 1 .. Len(W) PROVE Leads(W[i], NextOf(W, h, i), h, u)
  <2>1. /\ Chain(W[i].records, W[i].found, NextOf(W, h, i), t, W[i].stopped)
        /\ Older(W[i].found.dsp, h.dsp, t, W[i].stopped)
    BY <1>1, Zenon DEF Leads
  <2>2. FoundOK(W[i].found, t) /\ W[i].found.dsp \in Ring
    BY <1>1, EntryIs
  <2>3. Chain(W[i].records, W[i].found, NextOf(W, h, i), u, W[i].stopped)
    BY <2>1, <2>2, ChainLater
  <2>4. Older(W[i].found.dsp, h.dsp, u, W[i].stopped)
    BY <2>1, <2>2, OlderStill
  <2> QED  BY <2>3, <2>4 DEF Leads
<1>4. ASSUME NEW i \in 1 .. Len(W), NEW j \in 1 .. Len(W), i < j PROVE Before(W[i], W[j], u)
  <2>1. (W[j].stopped => W[i].stopped) /\ Older(W[i].found.dsp, W[j].found.dsp, t, W[i].stopped)
    BY <1>1, <1>4, Zenon DEF Before
  <2>2. W[i].found.dsp \in Ring
    BY <1>1, EntryIs
  <2>3. Older(W[i].found.dsp, W[j].found.dsp, u, W[i].stopped)
    BY <2>1, <2>2, OlderStill
  <2> QED  BY <2>1, <2>3 DEF Before
<1>5. FoundOK(h, u)
  BY <1>1, FoundLater
<1> QED  BY <1>1, <1>2, <1>3, <1>4, <1>5, Zenon DEF LogOK

\* What is there is taken back to what the log leads to.
LEMMA LogAged ==
  ASSUME NEW W, NEW h, NEW t \in Int, NEW loose, LogOK(W, h, t, loose), NEW g, FoundOK(g, t),
         Aged(h, g, t, FALSE)
  PROVE  LogOK(W, g, t, loose)
<1>1. /\ W \in Seq(Entries) /\ FoundOK(h, t)
      /\ \A i \in 1 .. Len(W) : EntryOK(W[i], t, loose)
      /\ \A i \in 1 .. Len(W) : Leads(W[i], NextOf(W, h, i), h, t)
      /\ \A i, j \in 1 .. Len(W) : i < j => Before(W[i], W[j], t)
  BY DEF LogOK
<1>2. ASSUME NEW i \in 1 .. Len(W) PROVE Leads(W[i], NextOf(W, g, i), g, t)
  <2>1. /\ Chain(W[i].records, W[i].found, NextOf(W, h, i), t, W[i].stopped)
        /\ Older(W[i].found.dsp, h.dsp, t, W[i].stopped)
    BY <1>1, Zenon DEF Leads
  <2>2. FoundOK(W[i].found, t) /\ RingOK(W[i].found.dsp, t)
    BY <1>1, EntryIs
  <2>3. Older(h.dsp, g.dsp, t, FALSE)
    BY <1>1, AgedOlder
  <2>4. RingOK(h.dsp, t) /\ RingOK(g.dsp, t)
    BY <1>1, FoundIs
  <2>5. Older(W[i].found.dsp, g.dsp, t, W[i].stopped)
    BY <2>1, <2>2, <2>3, <2>4, OlderThen
  <2>6. CASE i < Len(W)
    <3>1. NextOf(W, g, i) = NextOf(W, h, i)
      BY <2>6 DEF NextOf
    <3> QED  BY <2>1, <2>5, <3>1 DEF Leads
  <2>7. CASE ~(i < Len(W))
    <3>1. NextOf(W, g, i) = g /\ NextOf(W, h, i) = h
      BY <2>7 DEF NextOf
    <3>2. Aged(h, g, t, W[i].stopped)
      BY AgedStopped
    <3>3. Chain(W[i].records, W[i].found, g, t, W[i].stopped)
      BY <2>1, <2>2, <3>1, <3>2, ChainAged
    <3> QED  BY <2>5, <3>1, <3>3 DEF Leads
  <2> QED  BY <2>6, <2>7
<1> QED  BY <1>1, <1>2, Zenon DEF LogOK

\* A stream that does not run plays nothing that the host could be without.
LEMMA LogTight ==
  ASSUME NEW W, NEW h, NEW t \in Int, NEW loose, LogOK(W, h, t, loose), h.dsp.state # "running"
  PROVE  LogOK(W, h, t, FALSE)
<1>1. /\ W \in Seq(Entries) /\ FoundOK(h, t)
      /\ \A i \in 1 .. Len(W) : EntryOK(W[i], t, loose)
      /\ \A i \in 1 .. Len(W) : Leads(W[i], NextOf(W, h, i), h, t)
      /\ \A i, j \in 1 .. Len(W) : i < j => Before(W[i], W[j], t)
  BY DEF LogOK
<1>2. ASSUME NEW i \in 1 .. Len(W) PROVE EntryOK(W[i], t, FALSE)
  <2> DEFINE e == W[i]
             D == e.found.dsp
             H == Left(e.found.host, t)
  <2>1. EntryOK(e, t, loose) /\ Older(D, h.dsp, t, e.stopped)
    BY <1>1, Zenon DEF Leads
  <2>2. e \in Entries /\ FoundOK(e.found, t) /\ D \in Ring /\ e.stopped \in BOOLEAN
    BY <2>1, EntryIs
  <2> HIDE DEF e
  <2>3. HostOK(D, H, t, TRUE)
    BY <2>1 DEF EntryOK
  <2>4. e.stopped \/ HostOK(D, H, t, FALSE)
    <3>1. CASE ~e.stopped
      <4>1. EndOf(D, t) = t
        <5>1. /\ D.t0 \in Nat /\ D.written \in Nat /\ D.segment \in Nat
              /\ h.dsp.t0 \in Nat /\ h.dsp.written \in Nat /\ h.dsp.segment \in Nat
              /\ (h.dsp.state = "xrun" => h.dsp.t0 + h.dsp.written <= t)
          BY <1>1, <2>2, FoundIs
        <5> HIDE DEF D
        <5> QED  BY <2>1, <3>1, <5>1, SMTT(40) DEF Older, EndOf, PlayedOut, Plays
      <4>2. H = {}
        BY <2>2, <2>3, <4>1, Silent
      <4>3. t .. EndOf(D, t) - 1 = {}
        BY <4>1
      <4> HIDE DEF H, D
      <4> QED  BY <4>2, <4>3 DEF HostOK
    <3> QED  BY <3>1
  <2> HIDE DEF D, H
  <2>5. /\ e \in Entries /\ FoundOK(e.found, t) /\ Fits(e.found.dsp, t)
        /\ StreamOK(e.found.dsp.period_ptr, e.found.dsp.buffer_used, e.found.dsp.params,
                    e.found.staged, e.found.host, e.sent, e.found.lost)
    BY <2>1, Zenon DEF EntryOK
  <2>6. EntryOK(e, t, FALSE)
    BY <2>3, <2>4, <2>5, Zenon DEF EntryOK, D, H
  <2> QED  BY <2>6 DEF e
<1> QED  BY <1>1, <1>2, Zenon DEF LogOK

LEMMA LogIs ==
  ASSUME NEW W, NEW h, NEW t, NEW loose, LogOK(W, h, t, loose)
  PROVE  /\ W \in Seq(Entries) /\ FoundOK(h, t) /\ Len(W) \in Nat /\ RingOK(h.dsp, t)
         /\ \A i \in 1 .. Len(W) : EntryOK(W[i], t, loose)
         /\ \A i \in 1 .. Len(W) : Leads(W[i], NextOf(W, h, i), h, t)
         /\ \A i, j \in 1 .. Len(W) : i < j => Before(W[i], W[j], t)
<1>1. W \in Seq(Entries) /\ FoundOK(h, t)
  BY DEF LogOK
<1>2. Len(W) \in Nat
  BY <1>1, LenProperties
<1> QED  BY <1>1, <1>2, FoundIs, Zenon DEF LogOK

\* An instruction that has done nothing yet.
Fresh0(e, h, t, loose) ==
  EntryOK(e, t, loose) /\ e.found = h /\ e.records = <<>> /\ e.stopped = FALSE

\* An instruction begins.
LEMMA LogBegins ==
  ASSUME NEW W, NEW h, NEW t \in Int, NEW loose, LogOK(W, h, t, loose), NEW e,
         Fresh0(e, h, t, loose)
  PROVE  LogOK(Append(W, e), h, t, loose)
<1> DEFINE n == Len(W)
           V == Append(W, e)
<1>1. /\ W \in Seq(Entries) /\ FoundOK(h, t) /\ n \in Nat /\ RingOK(h.dsp, t)
      /\ \A i \in 1 .. n : EntryOK(W[i], t, loose)
      /\ \A i \in 1 .. n : Leads(W[i], NextOf(W, h, i), h, t)
      /\ \A i, j \in 1 .. n : i < j => Before(W[i], W[j], t)
  BY LogIs
<1>2. EntryOK(e, t, loose) /\ e.found = h /\ e.records = <<>> /\ e.stopped = FALSE /\ e \in Entries
  BY EntryIs DEF Fresh0
<1>3. /\ V \in Seq(Entries) /\ Len(V) = n + 1 /\ V[n + 1] = e
      /\ \A i \in 1 .. n : V[i] = W[i]
  BY <1>1, <1>2, AppendProperties
<1> HIDE DEF V, n
<1>4. \A i \in 1 .. Len(V) : EntryOK(V[i], t, loose)
  BY <1>1, <1>2, <1>3
<1>5. ASSUME NEW i \in 1 .. Len(V) PROVE Leads(V[i], NextOf(V, h, i), h, t)
  <2>1. CASE i = n + 1
    <3>1. NextOf(V, h, i) = h /\ V[i] = e
      BY <1>1, <1>3, <2>1 DEF NextOf
    <3>2. Chain(<<>>, h, h, t, FALSE)
      BY <1>1, ChainStart
    <3>3. Older(h.dsp, h.dsp, t, FALSE)
      BY <1>1, OlderSelf DEF RingOK
    <3> QED  BY <1>2, <3>1, <3>2, <3>3, Zenon DEF Leads
  <2>2. CASE i = n /\ i # n + 1
    <3>1. NextOf(V, h, i) = h /\ NextOf(W, h, i) = h /\ i \in 1 .. n /\ V[i] = W[i]
      BY <1>1, <1>2, <1>3, <2>2 DEF NextOf, n
    <3> QED  BY <1>1, <3>1
  <2>3. CASE i # n /\ i # n + 1
    <3>1. i \in 1 .. n /\ i + 1 \in 1 .. n
      BY <1>1, <1>3, <2>3
    <3>2. NextOf(V, h, i) = NextOf(W, h, i) /\ V[i] = W[i]
      BY <1>1, <1>3, <3>1 DEF NextOf, n
    <3> QED  BY <1>1, <3>1, <3>2
  <2> QED  BY <2>1, <2>2, <2>3
<1>6. ASSUME NEW i \in 1 .. Len(V), NEW j \in 1 .. Len(V), i < j PROVE Before(V[i], V[j], t)
  <2>1. i \in 1 .. n /\ V[i] = W[i]
    BY <1>1, <1>3, <1>6
  <2>2. CASE j = n + 1
    <3>1. V[j] = e
      BY <1>3, <2>2
    <3>2. Older(W[i].found.dsp, h.dsp, t, W[i].stopped)
      BY <1>1, <2>1, Zenon DEF Leads
    <3> QED  BY <1>2, <2>1, <3>1, <3>2 DEF Before
  <2>3. CASE j # n + 1
    <3>1. j \in 1 .. n /\ V[j] = W[j]
      BY <1>1, <1>3, <2>3
    <3> QED  BY <1>1, <1>6, <2>1, <3>1
  <2> QED  BY <2>2, <2>3
<1> QED  BY <1>1, <1>3, <1>4, <1>5, <1>6, Zenon DEF LogOK, V

\* A pass of the last instruction, with the records rs, took h to g; all of the log is
\* marked when it stopped the stream.
Passes(rs, h, g, t, drop) ==
  /\ FoundOK(g, t) /\ Older(h.dsp, g.dsp, t, drop) /\ drop \in BOOLEAN
  /\ \/ rs = <<>> /\ Aged(h, g, t, drop)
     \/ \E r : rs = <<r>> /\ Back(r, h, g, t, drop)
Extends(W, V, rs, drop) ==
  /\ Len(W) > 0 /\ V \in Seq(Entries) /\ Len(V) = Len(W)
  /\ \A i \in 1 .. Len(W) : /\ V[i].found = W[i].found /\ V[i].sent = W[i].sent
                            /\ V[i].stopped = (W[i].stopped \/ drop)
                            /\ i < Len(W) => V[i].records = W[i].records
  /\ V[Len(W)].records = W[Len(W)].records \o rs

LEMMA ChainStopped ==
  ASSUME NEW t \in Int, NEW st, NEW sp, st => sp, NEW rs, NEW Z, NEW Y, Chain(rs, Z, Y, t, st),
         FoundOK(Z, t)
  PROVE  Chain(rs, Z, Y, t, sp)
<1>1. t <= t
  OBVIOUS
<1> QED  BY <1>1, ChainLater, Zenon

LEMMA BackStopped ==
  ASSUME NEW t \in Int, NEW st, NEW sp, st => sp, NEW r, NEW P, NEW Q, FoundOK(P, t), FoundOK(Q, t),
         Back(r, P, Q, t, st)
  PROVE  Back(r, P, Q, t, sp)
<1>1. t <= t
  OBVIOUS
<1> QED  BY <1>1, BackLater, Zenon

LEMMA OlderStopped ==
  ASSUME NEW t, NEW st, NEW sp, st => sp, NEW Z, NEW X, Older(Z, X, t, st)
  PROVE  Older(Z, X, t, sp)
BY Zenon DEF Older

\* A pass ends, and its record goes to the last instruction.
LEMMA LogExtends ==
  ASSUME NEW W, NEW h, NEW t \in Int, NEW loose, LogOK(W, h, t, loose), NEW V, NEW rs, NEW drop,
         Extends(W, V, rs, drop), NEW g, Passes(rs, h, g, t, drop)
  PROVE  LogOK(V, g, t, loose)
<1> DEFINE n == Len(W)
<1>1. /\ W \in Seq(Entries) /\ FoundOK(h, t) /\ n \in Nat /\ RingOK(h.dsp, t)
      /\ \A i \in 1 .. n : EntryOK(W[i], t, loose)
      /\ \A i \in 1 .. n : Leads(W[i], NextOf(W, h, i), h, t)
      /\ \A i, j \in 1 .. n : i < j => Before(W[i], W[j], t)
  BY LogIs
<1>2. /\ n > 0 /\ V \in Seq(Entries) /\ Len(V) = n
      /\ \A i \in 1 .. n : /\ V[i].found = W[i].found /\ V[i].sent = W[i].sent
                           /\ V[i].stopped = (W[i].stopped \/ drop)
                           /\ i < n => V[i].records = W[i].records
      /\ V[n].records = W[n].records \o rs
  BY Zenon DEF Extends
<1>3. FoundOK(g, t) /\ Older(h.dsp, g.dsp, t, drop) /\ drop \in BOOLEAN /\ RingOK(g.dsp, t)
  BY FoundIs DEF Passes
<1>0. \A i \in 1 .. n : V[i] \in Entries /\ V[i].stopped \in BOOLEAN /\ W[i].stopped \in BOOLEAN
  <2>1. \A i \in 1 .. n : V[i] \in Entries /\ W[i] \in Entries
    BY <1>1, <1>2, ElementOfSeq
  <2> QED  BY <2>1 DEF Entries
<1>4. ASSUME NEW i \in 1 .. n PROVE EntryOK(V[i], t, loose)
  <2> DEFINE e == W[i]
             d == V[i]
  <2>1. EntryOK(e, t, loose) /\ d.found = e.found /\ d.sent = e.sent /\ (e.stopped => d.stopped) /\ d \in Entries
    BY <1>0, <1>1, <1>2
  <2> HIDE DEF e, d
  <2>2. EntryOK(d, t, loose)
    BY <2>1, Zenon DEF EntryOK
  <2> QED  BY <2>2 DEF d
<1>5. ASSUME NEW i \in 1 .. n PROVE Leads(V[i], NextOf(V, g, i), g, t)
  <2> DEFINE e == W[i]
             d == V[i]
  <2>1. /\ EntryOK(e, t, loose) /\ d.found = e.found /\ (e.stopped => d.stopped)
        /\ (drop => d.stopped) /\ Leads(e, NextOf(W, h, i), h, t)
    BY <1>0, <1>1, <1>2, <1>3
  <2>2. Chain(e.records, e.found, NextOf(W, h, i), t, e.stopped) /\ Older(e.found.dsp, h.dsp, t, e.stopped)
    BY <2>1, Zenon DEF Leads
  <2>3. FoundOK(e.found, t) /\ RingOK(e.found.dsp, t) /\ e.found.dsp \in Ring
    BY <2>1, EntryIs
  <2>4. Older(d.found.dsp, g.dsp, t, d.stopped)
    <3> DEFINE st == e.stopped
               sp == d.stopped
               Z == e.found.dsp
               X == h.dsp
               Y == g.dsp
    <3>1. /\ (st => sp) /\ RingOK(Z, t) /\ Z \in Ring /\ RingOK(X, t) /\ RingOK(Y, t) /\ Older(Z, X, t, st)
          /\ Older(X, Y, t, drop) /\ (drop => sp)
      BY <1>1, <1>3, <2>1, <2>2, <2>3
    <3> HIDE DEF st, sp, Z, X, Y
    <3>2. Older(Z, X, t, sp)
      BY <2>1, <2>2, OlderStopped, Zenon DEF st, sp, Z, X
    <3>3. Older(Z, Y, t, sp)
      <4>1. /\ RingOK(Z, t) /\ RingOK(X, t) /\ RingOK(Y, t) /\ Older(Z, X, t, sp)
            /\ Older(X, Y, t, drop) /\ (drop => sp)
        BY <3>1, <3>2, Zenon
      <4> QED  BY <4>1, OlderThen
    <3> QED  BY <2>1, <3>3 DEF sp, Z, Y
  <2>5. CASE i < n
    <3>1. NextOf(V, g, i) = NextOf(W, h, i) /\ d.records = e.records
      <4>1. i + 1 \in 1 .. n
        BY <1>1, <2>5
      <4> QED  BY <1>2, <2>5, <4>1 DEF NextOf
    <3>2. Chain(e.records, e.found, NextOf(W, h, i), t, d.stopped)
      BY <2>1, <2>2, <2>3, ChainStopped, Zenon
    <3> QED  BY <2>1, <2>4, <3>1, <3>2 DEF Leads
  <2>6. CASE i = n
    <3>1. NextOf(V, g, i) = g /\ NextOf(W, h, i) = h /\ d.records = e.records \o rs
      BY <1>2, <2>6 DEF NextOf
    <3>5. Chain(e.records, e.found, NextOf(W, h, i), t, d.stopped)
      BY <2>1, <2>2, <2>3, ChainStopped, Zenon
    <3>2. Chain(e.records, e.found, h, t, d.stopped)
      BY <3>1, <3>5, Zenon
    <3>3. e.records \in Seq(Changes)
      BY <3>2 DEF Chain
    <3>4. Chain(d.records, e.found, g, t, d.stopped)
      <4>1. CASE rs = <<>> /\ Aged(h, g, t, drop)
        <5>1. d.records = e.records
          BY <3>1, <3>3, <4>1, ConcatEmptySeq
        <5>2. Aged(h, g, t, d.stopped)
          BY <2>1, <4>1, AgedStopped
        <5> QED  BY <1>3, <2>3, <3>2, <5>1, <5>2, ChainAged
      <4>2. ASSUME NEW r, rs = <<r>>, Back(r, h, g, t, drop) PROVE Chain(d.records, e.found, g, t, d.stopped)
        <5>1. Back(r, h, g, t, d.stopped)
          BY <1>1, <1>3, <2>1, <4>2, BackStopped, Zenon
        <5>2. r \in Changes
          BY <4>2 DEF Back
        <5>3. d.records = Append(e.records, r)
          BY <3>1, <3>3, <4>2, <5>2
        <5> QED  BY <1>3, <3>2, <5>1, <5>3, ChainMore
      <4> QED  BY <4>1, <4>2, Zenon DEF Passes
    <3> QED  BY <2>1, <2>4, <3>1, <3>4 DEF Leads
  <2> QED  BY <1>1, <2>5, <2>6
<1>6. ASSUME NEW i \in 1 .. n, NEW j \in 1 .. n, i < j PROVE Before(V[i], V[j], t)
  <2> DEFINE e == W[i]
             d == V[i]
             f == W[j]
             c == V[j]
  <2>1. /\ Before(e, f, t) /\ d.found = e.found /\ c.found = f.found
        /\ d.stopped = (e.stopped \/ drop) /\ c.stopped = (f.stopped \/ drop)
        /\ d.stopped \in BOOLEAN /\ e.stopped \in BOOLEAN /\ f.stopped \in BOOLEAN /\ c.stopped \in BOOLEAN
    BY <1>0, <1>1, <1>2, <1>6
  <2> HIDE DEF e, d, f, c
  <2>2. Before(d, c, t)
    BY <2>1, <1>3 DEF Before, Older
  <2> QED  BY <2>2 DEF d, c
<1> QED  BY <1>2, <1>3, <1>4, <1>5, <1>6, Zenon DEF LogOK

\* The last instruction is undone.
LEMMA LogUndo ==
  ASSUME NEW W, NEW h, NEW t \in Int, NEW loose, LogOK(W, h, t, loose), Len(W) > 0, NEW g,
         FoundOK(g, t), Aged(W[Len(W)].found, g, t, W[Len(W)].stopped)
  PROVE  LogOK(Front(W), g, t, loose \/ W[Len(W)].stopped)
<1> DEFINE n == Len(W)
           V == Front(W)
           e == W[n]
<1>1. /\ W \in Seq(Entries) /\ FoundOK(h, t) /\ n \in Nat /\ RingOK(h.dsp, t)
      /\ \A i \in 1 .. n : EntryOK(W[i], t, loose)
      /\ \A i \in 1 .. n : Leads(W[i], NextOf(W, h, i), h, t)
      /\ \A i, j \in 1 .. n : i < j => Before(W[i], W[j], t)
  BY LogIs
<1>2. n - 1 \in Nat /\ n \in 1 .. n /\ n > 0
  BY <1>1
<1>3. EntryOK(e, t, loose) /\ FoundOK(e.found, t) /\ RingOK(e.found.dsp, t)
  BY <1>1, <1>2, EntryIs
<1>4. V \in Seq(Entries) /\ Len(V) = n - 1 /\ \A i \in 1 .. n - 1 : V[i] = W[i]
  <2>1. V = SubSeq(W, 1, n - 1)
    BY DEF Front
  <2>2. n - 1 <= Len(W)
    BY <1>2
  <2> HIDE DEF n
  <2> QED  BY <1>1, <1>2, <2>1, <2>2, Prefix
<1> DEFINE st == e.stopped
<1>5. Aged(e.found, g, t, st) /\ RingOK(g.dsp, t) /\ Older(e.found.dsp, g.dsp, t, st)
  BY <1>3, AgedOlder, FoundIs
<1>6. ASSUME NEW i \in 1 .. n - 1
      PROVE  /\ EntryOK(W[i], t, loose) /\ i \in 1 .. n /\ i < n /\ Before(W[i], e, t)
             /\ FoundOK(W[i].found, t) /\ RingOK(W[i].found.dsp, t)
             /\ Leads(W[i], NextOf(W, h, i), h, t)
  <2>1. i \in 1 .. n /\ i < n
    BY <1>2
  <2>2. EntryOK(W[i], t, loose)
    BY <1>1, <2>1
  <2>3. Before(W[i], W[n], t)
    BY <1>1, <1>2, <2>1
  <2> QED  BY <1>1, <2>1, <2>2, <2>3, EntryIs
<1> HIDE DEF V, e, n
<1>7. ASSUME NEW i \in 1 .. n - 1 PROVE EntryOK(W[i], t, loose \/ st)
  <2> DEFINE d == W[i]
  <2>1. EntryOK(d, t, loose)
    BY <1>6
  <2> HIDE DEF d, st
  <2>2. EntryOK(d, t, loose \/ st)
    BY <2>1, Zenon DEF EntryOK
  <2> QED  BY <2>2 DEF d
<1>8. ASSUME NEW i \in 1 .. n - 1 PROVE Leads(W[i], NextOf(V, g, i), g, t)
  <2> DEFINE d == W[i]
             sp == d.stopped
  <2>1. /\ FoundOK(d.found, t) /\ RingOK(d.found.dsp, t) /\ Before(d, e, t)
        /\ Leads(d, NextOf(W, h, i), h, t)
    BY <1>6
  <2>2. (st => sp) /\ Older(d.found.dsp, e.found.dsp, t, sp)
    BY <2>1, Zenon DEF Before
  <2>3. Chain(d.records, d.found, NextOf(W, h, i), t, sp)
    BY <2>1, Zenon DEF Leads
  <2>4. Older(d.found.dsp, g.dsp, t, sp)
    <3> DEFINE Z == d.found.dsp
               X == e.found.dsp
               Y == g.dsp
    <3>1. /\ RingOK(Z, t) /\ RingOK(X, t) /\ RingOK(Y, t) /\ Older(Z, X, t, sp)
          /\ Older(X, Y, t, st) /\ (st => sp)
      BY <1>3, <1>5, <2>1, <2>2
    <3> HIDE DEF st, sp, Z, X, Y
    <3> QED  BY <3>1, OlderThen DEF Z, Y
  <2>5. NextOf(W, h, i) = IF i = n - 1 THEN e.found ELSE W[i + 1].found
    BY <1>2 DEF NextOf, n, e
  <2>6. CASE i = n - 1
    <3>1. NextOf(V, g, i) = g
      BY <1>4, <2>6 DEF NextOf
    <3>2. Chain(d.records, d.found, e.found, t, sp)
      BY <2>3, <2>5, <2>6
    <3>3. Aged(e.found, g, t, sp)
      BY <1>5, <2>2, AgedStopped
    <3>4. Chain(d.records, d.found, g, t, sp)
      BY <2>1, <3>2, <3>3, ChainAged
    <3> QED  BY <2>4, <3>1, <3>4 DEF Leads
  <2>7. CASE i # n - 1
    <3>1. i + 1 \in 1 .. n - 1 /\ i < n - 1
      BY <1>2, <2>7
    <3>2. NextOf(V, g, i) = NextOf(W, h, i)
      BY <1>4, <2>5, <3>1 DEF NextOf
    <3> QED  BY <2>3, <2>4, <3>2 DEF Leads
  <2> QED  BY <2>6, <2>7
<1>9. ASSUME NEW i \in 1 .. n - 1, NEW j \in 1 .. n - 1, i < j PROVE Before(W[i], W[j], t)
  <2>1. i \in 1 .. n /\ j \in 1 .. n
    BY <1>6
  <2> QED  BY <1>1, <1>9, <2>1 DEF n
<1>10. LogOK(V, g, t, loose \/ st)
  BY <1>4, <1>7, <1>8, <1>9, Zenon DEF LogOK
<1> QED  BY <1>10 DEF V, e, n

-----------------------------------------------------------------------------
(* A pass's end. *)

Ended(C) ==
  [dsp |-> C.D, staged |-> SubSeq(C.S, 1, C.D.buffer_used), host |-> C.H, lost |-> C.lost]

LEMMA SnapIs ==
  ASSUME NEW t, NEW D, NEW S, NEW H \in SUBSET Notes, NEW n \in Nat, RingOK(D, t), BufferOK(D, S)
  PROVE  FoundOK([dsp |-> D, staged |-> SubSeq(S, 1, D.buffer_used), host |-> H, lost |-> n], t)
<1>1. D \in Ring /\ S \in Seq(Nat)
  BY DEF RingOK, BufferOK
<1>2. D.buffer_used \in Nat /\ D.buffer_used <= Len(S)
  BY Fitting
<1>3. SubSeq(S, 1, D.buffer_used) \in Seq(Nat) /\ Len(SubSeq(S, 1, D.buffer_used)) = D.buffer_used
  BY <1>1, <1>2, Prefix
<1> DEFINE s == SubSeq(S, 1, D.buffer_used)
<1>4. s \in Seq(Nat) /\ Len(s) = D.buffer_used
  BY <1>3
<1> HIDE DEF s
<1>5. FoundOK([dsp |-> D, staged |-> s, host |-> H, lost |-> n], t)
  BY <1>1, <1>4 DEF FoundOK, Founds
<1> QED  BY <1>5 DEF s

\* What is there is a state to be found.
LEMMA FoundHere ==
  ASSUME Begun, lost \in Nat
  PROVE  /\ FoundOK(Found, now) /\ Found.dsp = dsp /\ Found.host = host /\ Found.lost = lost
         /\ Found.staged = SubSeq(staging, 1, dsp.buffer_used)
<1>1. RingOK(dsp, now) /\ BufferOK(dsp, staging) /\ host \in SUBSET Notes
  BY DEF Begun, HostOK
<1> DEFINE s == SubSeq(staging, 1, dsp.buffer_used)
           Z == [dsp |-> dsp, staged |-> s, host |-> host, lost |-> lost]
<1>2. FoundOK(Z, now)
  BY <1>1, SnapIs
<1>3. Z.dsp = dsp /\ Z.host = host /\ Z.lost = lost /\ Z.staged = s
  OBVIOUS
<1>4. Found = Z
  BY DEF Found
<1> HIDE DEF Z, s
<1> QED  BY <1>2, <1>3, <1>4 DEF s

LEMMA EndedIs ==
  ASSUME NEW C, NEW mode, Sound(C, mode)
  PROVE  /\ FoundOK(Ended(C), now) /\ Ended(C).dsp = C.D /\ Ended(C).host = C.H
         /\ Ended(C).lost = C.lost /\ Ended(C).staged = SubSeq(C.S, 1, C.D.buffer_used)
<1>1. RingOK(C.D, now) /\ BufferOK(C.D, C.S) /\ C.H \in SUBSET Notes /\ C.lost \in Nat
  BY Types DEF Sound
<1> DEFINE s == SubSeq(C.S, 1, C.D.buffer_used)
           Z == [dsp |-> C.D, staged |-> s, host |-> C.H, lost |-> C.lost]
<1>2. FoundOK(Z, now)
  BY <1>1, SnapIs
<1>3. Z.dsp = C.D /\ Z.host = C.H /\ Z.lost = C.lost /\ Z.staged = s
  OBVIOUS
<1>4. Ended(C) = Z
  BY DEF Ended
<1> HIDE DEF Z, s
<1> QED  BY <1>2, <1>3, <1>4 DEF s

\* The staged bytes the pass found are there still.
LEMMA KeptPrefix ==
  ASSUME NEW C, NEW mode, Sound(C, mode), Keeps(C.D, C.S)
  PROVE  LET P == SubSeq(staging, 1, dsp.buffer_used)
             Q == SubSeq(C.S, 1, C.D.buffer_used)
         IN /\ P \in Seq(Nat) /\ Q \in Seq(Nat) /\ Len(P) = dsp.buffer_used
            /\ Len(Q) = C.D.buffer_used /\ Len(P) <= Len(Q)
            /\ \A i \in 1 .. Len(P) : Q[i] = P[i]
<1>1. /\ dsp.buffer_used \in Nat /\ dsp.buffer_used <= Len(staging) /\ staging \in Seq(Nat)
  BY Fitting DEF Sound, Begun
<1>2. /\ C.D.buffer_used \in Nat /\ C.D.buffer_used <= Len(C.S) /\ C.S \in Seq(Nat)
  BY Fitting DEF Sound
<1> DEFINE P == SubSeq(staging, 1, dsp.buffer_used)
           Q == SubSeq(C.S, 1, C.D.buffer_used)
           a == dsp.buffer_used
           b == C.D.buffer_used
<1>3. P \in Seq(Nat) /\ Len(P) = a /\ \A i \in 1 .. a : P[i] = staging[i]
  BY <1>1, Prefix
<1>4. Q \in Seq(Nat) /\ Len(Q) = b /\ \A i \in 1 .. b : Q[i] = C.S[i]
  BY <1>2, Prefix
<1>5. a <= b /\ a \in Nat /\ b \in Nat /\ \A i \in 1 .. a : C.S[i] = staging[i]
  BY <1>1, <1>2 DEF Keeps
<1> HIDE DEF P, Q, a, b
<1>6. ASSUME NEW i \in 1 .. Len(P) PROVE Q[i] = P[i]
  <2>1. i \in 1 .. a /\ i \in 1 .. b
    BY <1>3, <1>5
  <2>2. P[i] = staging[i] /\ Q[i] = C.S[i] /\ C.S[i] = staging[i]
    BY <1>3, <1>4, <1>5, <2>1
  <2> QED  BY <2>2
<1> QED  BY <1>3, <1>4, <1>5, <1>6 DEF P, Q, a, b

\* What a pass ends with is in the log as its record tells it.
LEMMA PassEnds ==
  ASSUME NEW C, NEW mode, Sound(C, mode), lost \in Nat
  PROVE  Passes(Records(C), Found, Ended(C), now, C.dropped)
<1> DEFINE g == Ended(C)
           h == Found
<1>1. /\ C \in PassRec /\ now \in Int /\ now \in Nat /\ dsp \in Ring /\ host \in SUBSET Notes
      /\ C.D \in Ring /\ C.H \in SUBSET Notes /\ C.staged \in Seq(Nat)
      /\ C.transferred \in BOOLEAN /\ C.dropped \in BOOLEAN /\ C.first \in Int /\ C.saved \in BOOLEAN
  BY Types
<1>2. /\ Begun /\ Segments(C.D, C.dropped) /\ SavedOK(C.D, C.S, C.rc, C.saved, C.staged)
      /\ Tells(C.H, C.transferred, C.dropped, C.first) /\ HostOK(dsp, host, now, restarted)
      /\ HostOK(C.D, C.H, now, restarted)
  BY DEF Sound, Begun
<1>3. /\ FoundOK(g, now) /\ g.dsp = C.D /\ g.host = C.H /\ g.staged = SubSeq(C.S, 1, C.D.buffer_used)
      /\ FoundOK(h, now) /\ h.dsp = dsp /\ h.host = host
      /\ h.staged = SubSeq(staging, 1, dsp.buffer_used)
  BY <1>2, EndedIs, FoundHere
<1> HIDE DEF g, h
<1>4. /\ Left(g.host, now) = g.host /\ Left(h.host, now) = h.host
      /\ \A x \in host : now <= x.at /\ x.at \in Int
      /\ \A x \in C.H : now <= x.at /\ x.at \in Int
  <2>1. /\ \A x \in host : now <= x.at /\ x.at \in Int
        /\ \A x \in C.H : now <= x.at /\ x.at \in Int
    BY <1>2 DEF HostOK, Notes
  <2>2. Left(C.H, now) = C.H /\ Left(host, now) = host
    BY <1>1, <2>1 DEF Left
  <2> QED  BY <1>3, <2>1, <2>2
<1>5. Older(h.dsp, g.dsp, now, C.dropped)
  <2>1. EndOf(dsp, now) = now => PlayedOut(dsp, now)
    BY <1>1 DEF EndOf, PlayedOut, Ring
  <2> QED  BY <1>2, <1>3, <2>1 DEF Older, Segments
<1>6. CASE ~(C.D # dsp \/ C.transferred \/ C.dropped)
  <2>1. Records(C) = <<>>
    BY <1>6, Zenon DEF Records
  <2>2. C.H = host
    <3>1. host \subseteq C.H /\ C.H \subseteq host
      BY <1>2, <1>6 DEF Tells
    <3> QED  BY <3>1
  <2>3. g.staged = h.staged
    <3>1. CASE Keeps(C.D, C.S)
      <4> DEFINE P == SubSeq(staging, 1, dsp.buffer_used)
                 Q == SubSeq(C.S, 1, C.D.buffer_used)
      <4>1. /\ P \in Seq(Nat) /\ Q \in Seq(Nat) /\ Len(P) = dsp.buffer_used
            /\ Len(Q) = C.D.buffer_used
            /\ \A i \in 1 .. Len(P) : Q[i] = P[i]
        BY <3>1, KeptPrefix
      <4> HIDE DEF P, Q
      <4>2. P = Q
        BY <4>1, <1>6, SeqEqual
      <4> QED  BY <1>3, <4>2 DEF P, Q
    <3>2. CASE C.D.buffer_used = 0
      <4>1. SubSeq(C.S, 1, 0) = <<>> /\ SubSeq(staging, 1, 0) = <<>>
        BY SubSeqEmpty
      <4> QED  BY <1>3, <1>6, <3>2, <4>1
    <3> QED  BY <1>2, <1>6, <3>1, <3>2 DEF SavedOK
  <2>4. Aged(h, h, now, C.dropped)
    BY AgedSelf
  <2>5. g.dsp = h.dsp /\ g.host = h.host
    BY <1>3, <1>6, <2>2
  <2>6. Aged(h, g, now, C.dropped)
    BY <2>3, <2>4, <2>5, Zenon DEF Aged
  <2> QED  BY <1>1, <1>3, <1>5, <2>1, <2>6 DEF Passes, g, h
<1>7. CASE C.D # dsp \/ C.transferred \/ C.dropped
  <2> DEFINE r == [kind |-> "pass", before |-> dsp, staged |-> C.staged, transferred |-> C.transferred,
                   dropped |-> C.dropped, first |-> C.first]
  <2>1. Records(C) = <<r>>
    BY <1>7, Zenon DEF Records
  <2>2. /\ r \in Changes /\ r.kind = "pass" /\ r.before = dsp /\ r.staged = C.staged
        /\ r.transferred = C.transferred /\ r.dropped = C.dropped /\ r.first = C.first
    BY <1>1 DEF Changes
  <2> HIDE DEF r
  <2>3. Backs(r, h, g)
    <3>1. CASE C.saved
      BY <1>2, <1>3, <2>2, <3>1 DEF SavedOK, Backs
    <3>2. CASE ~C.saved
      <4>1. C.staged = <<>> /\ Keeps(C.D, C.S)
        BY <1>2, <3>2 DEF SavedOK
      <4>2. /\ Len(h.staged) <= Len(g.staged)
            /\ \A i \in 1 .. Len(h.staged) : g.staged[i] = h.staged[i]
        BY <1>3, <4>1, KeptPrefix
      <4>3. C.D.period = dsp.period
        BY <4>1 DEF Keeps
      <4> QED  BY <1>3, <2>2, <4>1, <4>2, <4>3 DEF Backs
    <3> QED  BY <3>1, <3>2
  <2>4. Follows(h.dsp, g.dsp)
    BY <1>2, <1>3, Zenon DEF Follows, Segments
  <2>5. Unheard(r, g.host, now) = IF C.dropped THEN {} ELSE host
    <3>1. Unheard(r, g.host, now) = {x \in C.H : C.transferred => x.at < C.first}
      BY <1>3, <1>4, <2>2 DEF Unheard
    <3>2. CASE C.dropped
      BY <1>1, <1>2, <1>4, <3>1, <3>2 DEF Tells
    <3>3. CASE ~C.dropped
      <4>1. /\ host \subseteq C.H /\ \A x \in C.H : x \in host \/ (C.transferred /\ x.at >= C.first)
            /\ C.transferred => \A x \in host : x.at < C.first
        BY <1>2, <3>3 DEF Tells
      <4>2. \A x \in C.H : (C.transferred => x.at < C.first) <=> x \in host
        BY <1>1, <1>4, <4>1
      <4> QED  BY <3>1, <3>3, <4>1, <4>2
    <3> QED  BY <3>2, <3>3
  <2>6. Back(r, h, g, now, C.dropped)
    <3>1. Left(h.host, now) = host
      BY <1>3, <1>4
    <3>2. \/ ~r.dropped /\ Unheard(r, g.host, now) = Left(h.host, now)
          \/ C.dropped /\ Unheard(r, g.host, now) = {}
      BY <2>2, <2>5, <3>1
    <3> QED  BY <2>2, <2>3, <2>4, <3>2 DEF Back
  <2>7. Passes(Records(C), h, g, now, C.dropped)
    BY <1>1, <1>3, <1>5, <2>1, <2>6, Zenon DEF Passes
  <2> QED  BY <2>7 DEF g, h
<1> QED  BY <1>6, <1>7

-----------------------------------------------------------------------------
(* The invariant. *)

CallOK ==
  /\ call.kind = "none" => call = NoCall
  /\ call.kind # "none" =>
       /\ owned /\ ~exited /\ Len(log) < MaxLog
       /\ call.kind \in {"write", "sync", "close"}
       /\ call.size \in Nat /\ call.progress \in 0 .. call.size
       /\ call.kind # "write" => call.progress = 0
       /\ Halts(dsp, "halt", call.until, call.need)
       /\ call.records \in Seq(Changes) /\ call.found \in Founds
StreamHere ==
  StreamOK(dsp.period_ptr, dsp.buffer_used, dsp.params, staging, host, sent + call.progress, lost)
Unowned == ~owned => host = {} /\ \A i \in 1 .. Len(log) : log[i].found.host = {}
FoundBy == IF call.kind = "none" THEN Found ELSE call.found
Whole == IF call.kind = "none" THEN log ELSE Append(log, Entry(call.records, call.found, FALSE))
IInv ==
  /\ Begun /\ lost \in Nat /\ now \in 0 .. MaxTime
  /\ nonblock \in BOOLEAN /\ restarted \in BOOLEAN
  /\ exited \/ Fits(dsp, now)
  /\ StreamHere /\ CallOK /\ Unowned
  /\ log \in Seq(Entries) /\ Len(log) <= MaxLog
  /\ LogOK(Whole, Found, now, restarted)

LEMMA HostTight ==
  ASSUME NEW D \in Ring, NEW H, NEW t \in Int, NEW loose, HostOK(D, H, t, loose), NEW still,
         loose => still \/ D.state # "running"
  PROVE  HostOK(D, H, t, still)
<1>1. CASE D.state # "running"
  <2>1. t .. EndOf(D, t) - 1 = {}
    BY <1>1 DEF EndOf
  <2> QED  BY <2>1 DEF HostOK
<1>2. CASE loose => still
  BY <1>2, Zenon DEF HostOK
<1> QED  BY <1>1, <1>2

\* What a pass did is kept.
LEMMA KeepIs ==
  ASSUME NEW C, NEW mode, Sound(C, mode), Keep(C), now' = now, sent' \in Nat,
         sent' + call'.progress = sent + C.progress
  PROVE  /\ Begun' /\ lost' \in Nat /\ restarted' \in BOOLEAN /\ StreamHere'
         /\ (mode # "force" => Fits(dsp', now'))
         /\ Found' = Ended(C)
         /\ dsp' = C.D /\ staging' = C.S /\ host' = C.H /\ lost' = C.lost
         /\ (restarted' <=> restarted /\ C.D.state = "running")
<1>1. /\ dsp' = C.D /\ staging' = C.S /\ host' = C.H /\ lost' = C.lost
      /\ restarted' = (restarted /\ C.D.state = "running")
  BY DEF Keep
<1>2. /\ C.D \in Ring /\ now \in Nat /\ now \in Int /\ C.lost \in Nat
  BY Types
<1>3. /\ RingOK(C.D, now) /\ BufferOK(C.D, C.S) /\ HostOK(C.D, C.H, now, restarted)
      /\ StreamOK(C.D.period_ptr, C.D.buffer_used, C.D.params, C.S, C.H, sent + C.progress, C.lost)
      /\ mode = "force" \/ Fits(C.D, now)
  BY DEF Sound
<1>4. HostOK(C.D, C.H, now, restarted')
  <2>1. restarted => restarted' \/ C.D.state # "running"
    BY <1>1
  <2> DEFINE still == restarted'
             loose == restarted
  <2>2. HostOK(C.D, C.H, now, loose) /\ (loose => still \/ C.D.state # "running")
    BY <1>3, <2>1
  <2> HIDE DEF still, loose
  <2>3. HostOK(C.D, C.H, now, still)
    BY <1>2, <2>2, HostTight
  <2> QED  BY <2>3 DEF still
<1>5. Begun'
  <2>1. RingOK(dsp', now') /\ BufferOK(dsp', staging') /\ HostOK(dsp', host', now', restarted') /\ now' \in Nat
    BY <1>1, <1>2, <1>3, <1>4, Zenon
  <2> QED  BY <2>1, Zenon DEF Begun
<1>6. StreamHere'
  <2>1. StreamOK(dsp'.period_ptr, dsp'.buffer_used, dsp'.params, staging', host', sent' + call'.progress, lost')
    BY <1>1, <1>3, Zenon
  <2> QED  BY <2>1 DEF StreamHere
<1>7. Found' = Ended(C)
  BY <1>1, Zenon DEF Found, Ended
<1>8. restarted' \in BOOLEAN /\ (restarted' <=> restarted /\ C.D.state = "running")
  BY <1>1
<1>9. mode # "force" => Fits(dsp', now')
  BY <1>1, <1>3, Zenon
<1>10. lost' \in Nat
  BY <1>1, <1>2
<1> QED  BY <1>1, <1>5, <1>6, <1>7, <1>8, <1>9, <1>10

-----------------------------------------------------------------------------
(* A pass in the log. *)

Start(exits) == Append(log, Entry(call.records, FoundBy, exits))

LEMMA NewEntry ==
  ASSUME IInv, call.kind = "none", ~exited, NEW exits \in BOOLEAN
  PROVE  Fresh0(Entry(<<>>, Found, exits), Found, now, restarted)
<1> DEFINE f == Found
           e == Entry(<<>>, f, exits)
           stopped == \E i \in DOMAIN <<>> : Stops(<<>>[i])
<1>1. /\ Begun /\ lost \in Nat /\ Fits(dsp, now) /\ StreamHere /\ sent \in Nat /\ call.progress = 0
  BY DEF IInv, CallOK, NoCall, Begun
<1>2. /\ FoundOK(f, now) /\ f.dsp = dsp /\ f.host = host /\ f.lost = lost
      /\ f.staged = SubSeq(staging, 1, dsp.buffer_used)
  BY <1>1, FoundHere
<1>3. RingOK(dsp, now) /\ BufferOK(dsp, staging) /\ HostOK(dsp, host, now, restarted) /\ now \in Int /\ dsp \in Ring
  BY <1>1 DEF Begun, RingOK
<1> HIDE DEF f
<1>4. stopped = FALSE
  <2>1. DOMAIN <<>> = {}
    OBVIOUS
  <2> QED  BY <2>1
<1>5. /\ e = [records |-> <<>>, found |-> f, exits |-> exits, sent |-> sent, stopped |-> stopped]
  BY Zenon DEF Entry
<1> HIDE DEF stopped
<1>6. /\ e \in Entries /\ e.found = f /\ e.records = <<>> /\ e.stopped = FALSE /\ e.sent = sent
  <2>1. f \in Founds /\ <<>> \in Seq(Changes)
    BY <1>2 DEF FoundOK
  <2> HIDE DEF e
  <2> QED  BY <1>1, <1>4, <1>5, <2>1 DEF Entries
<1> HIDE DEF e
<1>7. StreamOK(dsp.period_ptr, dsp.buffer_used, dsp.params, f.staged, host, sent, lost)
  <2> DEFINE p == dsp.period_ptr
             b == dsp.buffer_used
             T == f.staged
             S == staging
             par == dsp.params
  <2>1. p \in Nat /\ b \in Nat /\ b <= Len(S) /\ S \in Seq(Nat)
    BY <1>3, Fitting DEF Ring
  <2>2. \A i \in 1 .. b : S[i] = T[i]
    BY <2>1, <1>2, Prefix
  <2>3. StreamOK(p, b, par, S, host, sent, lost)
    <3>1. sent + call.progress = sent
      BY <1>1
    <3> QED  BY <1>1, <3>1, Zenon DEF StreamHere
  <2> HIDE DEF p, b, T, S, par
  <2>4. StreamOK(p, b, par, T, host, sent, lost)
    BY <2>1, <2>2, <2>3, StreamBuffer
  <2> QED  BY <2>4 DEF p, b, T, par
<1>8. Left(host, now) = host
  BY <1>3 DEF Left, HostOK
<1>9. HostOK(dsp, host, now, TRUE) /\ (restarted \/ e.stopped \/ HostOK(dsp, host, now, FALSE))
  BY <1>3, Zenon DEF HostOK
<1>10. EntryOK(e, now, restarted)
  BY <1>1, <1>2, <1>6, <1>7, <1>8, <1>9, Zenon DEF EntryOK
<1>11. Fresh0(e, f, now, restarted)
  BY <1>6, <1>10, Zenon DEF Fresh0
<1> QED  BY <1>11 DEF e, f

LEMMA StartIs ==
  ASSUME IInv, ~exited, NEW exits \in BOOLEAN, call.kind = "none" \/ ~exits
  PROVE  LogOK(Start(exits), Found, now, restarted)
<1>1. LogOK(Whole, Found, now, restarted) /\ now \in Int
  BY DEF IInv, Begun
<1>2. CASE call.kind = "none"
  <2>1. Whole = log /\ FoundBy = Found /\ call.records = <<>>
    BY <1>2 DEF Whole, FoundBy, IInv, CallOK, NoCall
  <2>2. Start(exits) = Append(log, Entry(<<>>, Found, exits))
    BY <2>1, Zenon DEF Start
  <2>3. Fresh0(Entry(<<>>, Found, exits), Found, now, restarted)
    BY <1>2, NewEntry
  <2>4. LogOK(log, Found, now, restarted)
    BY <1>1, <2>1, Zenon
  <2> QED  BY <1>1, <2>2, <2>3, <2>4, LogBegins
<1>3. CASE call.kind # "none"
  <2>1. exits = FALSE
    BY <1>3
  <2>2. Start(exits) = Whole
    BY <1>3, <2>1 DEF Start, Whole, FoundBy
  <2> QED  BY <1>1, <2>2, Zenon
<1> QED  BY <1>2, <1>3

-----------------------------------------------------------------------------
(* What a pass did is in the log. *)

Marks(rs, drop) ==
  \/ rs = <<>> /\ ~drop
  \/ \E r \in Changes : rs = <<r>> /\ (Stops(r) <=> drop)

LEMMA RecordsAre ==
  ASSUME NEW C, NEW mode, Sound(C, mode)
  PROVE  Records(C) \in Seq(Changes) /\ Marks(Records(C), C.dropped) /\ C.dropped \in BOOLEAN
<1>1. /\ dsp \in Ring /\ C.staged \in Seq(Nat) /\ C.transferred \in BOOLEAN
      /\ C.dropped \in BOOLEAN /\ C.first \in Int
  BY Types
<1>2. CASE ~(C.D # dsp \/ C.transferred \/ C.dropped)
  <2>1. Records(C) = <<>> /\ ~C.dropped
    BY <1>2, Zenon DEF Records
  <2> QED  BY <1>1, <2>1 DEF Marks
<1>3. CASE C.D # dsp \/ C.transferred \/ C.dropped
  <2> DEFINE r == [kind |-> "pass", before |-> dsp, staged |-> C.staged, transferred |-> C.transferred,
                   dropped |-> C.dropped, first |-> C.first]
  <2>1. Records(C) = <<r>>
    BY <1>3, Zenon DEF Records
  <2>2. r \in Changes /\ r.kind = "pass" /\ r.dropped = C.dropped
    BY <1>1 DEF Changes
  <2> HIDE DEF r
  <2>3. Stops(r) <=> C.dropped
    BY <2>2 DEF Stops
  <2> QED  BY <1>1, <2>1, <2>2, <2>3 DEF Marks
<1> QED  BY <1>2, <1>3

LEMMA StopsMore ==
  ASSUME NEW rs \in Seq(Changes), NEW more \in Seq(Changes), NEW drop \in BOOLEAN, Marks(more, drop)
  PROVE  /\ rs \o more \in Seq(Changes)
         /\ (\E i \in DOMAIN (rs \o more) : Stops((rs \o more)[i]))
              <=> ((\E i \in DOMAIN rs : Stops(rs[i])) \/ drop)
<1>1. CASE more = <<>> /\ ~drop
  <2>1. rs \o more = rs
    BY <1>1, ConcatEmptySeq
  <2> QED  BY <1>1, <2>1, Zenon
<1>2. CASE \E r \in Changes : more = <<r>> /\ (Stops(r) <=> drop)
  <2>1. PICK r \in Changes : more = <<r>> /\ (Stops(r) <=> drop)
    BY <1>2
  <2> DEFINE V == rs \o more
             n == Len(rs)
  <2>2. /\ V \in Seq(Changes) /\ Len(V) = n + 1 /\ n \in Nat
        /\ \A i \in 1 .. n : V[i] = rs[i]
        /\ V[n + 1] = r
    BY <2>1
  <2>3. DOMAIN V = 1 .. n + 1 /\ DOMAIN rs = 1 .. n
    BY <2>2
  <2> HIDE DEF V, n
  <2>4. (\E i \in DOMAIN V : Stops(V[i])) <=> ((\E i \in DOMAIN rs : Stops(rs[i])) \/ Stops(r))
    <3>1. ASSUME NEW i \in DOMAIN V, Stops(V[i])
          PROVE  (\E j \in DOMAIN rs : Stops(rs[j])) \/ Stops(r)
      <4>1. CASE i = n + 1
        BY <2>2, <3>1, <4>1, Zenon
      <4>2. CASE i # n + 1
        <5>1. i \in 1 .. n
          BY <2>2, <2>3, <4>2
        <5> QED  BY <2>2, <2>3, <3>1, <5>1, Zenon
      <4> QED  BY <4>1, <4>2
    <3>2. ASSUME NEW i \in DOMAIN rs, Stops(rs[i])
          PROVE  \E j \in DOMAIN V : Stops(V[j])
      <4>1. i \in DOMAIN V /\ V[i] = rs[i]
        BY <2>2, <2>3
      <4> QED  BY <3>2, <4>1, Zenon
    <3>3. ASSUME Stops(r)
          PROVE  \E j \in DOMAIN V : Stops(V[j])
      <4>1. n + 1 \in DOMAIN V
        BY <2>2, <2>3
      <4> QED  BY <2>2, <3>3, <4>1, Zenon
    <3> QED  BY <3>1, <3>2, <3>3, Zenon
  <2> QED  BY <2>1, <2>2, <2>4, Zenon DEF V
<1> QED  BY <1>1, <1>2 DEF Marks

\* An instruction that has done more.
Does(e, f, more, drop) ==
  /\ e \in Entries /\ f \in Entries /\ f.found = e.found /\ f.sent = e.sent
  /\ f.records = e.records \o more /\ f.stopped = (e.stopped \/ drop)

LEMMA EntryMore ==
  ASSUME NEW rs \in Seq(Changes), NEW more \in Seq(Changes), NEW drop \in BOOLEAN, Marks(more, drop),
         NEW found \in Founds, NEW exits \in BOOLEAN, sent \in Nat
  PROVE  /\ Does(Entry(rs, found, exits), Entry(rs \o more, found, exits), more, drop)
         /\ Entry(rs \o more, found, exits).found = found
<1> DEFINE V == rs \o more
           p == \E i \in DOMAIN rs : Stops(rs[i])
           q == \E i \in DOMAIN V : Stops(V[i])
           e == Entry(rs, found, exits)
           f == Entry(V, found, exits)
<1>1. V \in Seq(Changes) /\ (q <=> p \/ drop)
  BY StopsMore
<1>2. /\ e = [records |-> rs, found |-> found, exits |-> exits, sent |-> sent, stopped |-> p]
      /\ f = [records |-> V, found |-> found, exits |-> exits, sent |-> sent, stopped |-> q]
  BY Zenon DEF Entry
<1>3. p \in BOOLEAN /\ q \in BOOLEAN
  OBVIOUS
<1>4. V = rs \o more
  OBVIOUS
<1> HIDE DEF V, p, q, e, f
<1>5. e \in Entries /\ f \in Entries
  BY <1>1, <1>2, <1>3 DEF Entries
<1>6. f.found = e.found /\ f.sent = e.sent /\ f.records = V /\ e.records = rs
      /\ f.stopped = q /\ e.stopped = p /\ f.found = found
  BY <1>2
<1>7. q = (p \/ drop)
  BY <1>1, <1>3
<1>8. f.stopped = (e.stopped \/ drop) /\ f.records = e.records \o more
  BY <1>4, <1>6, <1>7, Zenon
<1>9. Does(e, f, more, drop)
  BY <1>5, <1>6, <1>8, Zenon DEF Does
<1> QED  BY <1>6, <1>9 DEF e, f, V

Marked(W, drop) == IF drop THEN [i \in DOMAIN W |-> [W[i] EXCEPT !.stopped = TRUE]] ELSE W

LEMMA MarkedIs ==
  ASSUME NEW W \in Seq(Entries), NEW drop \in BOOLEAN
  PROVE  /\ Marked(W, drop) \in Seq(Entries) /\ Len(Marked(W, drop)) = Len(W)
         /\ \A i \in 1 .. Len(W) :
              /\ Marked(W, drop)[i].found = W[i].found /\ Marked(W, drop)[i].sent = W[i].sent
              /\ Marked(W, drop)[i].records = W[i].records
              /\ Marked(W, drop)[i].stopped = (W[i].stopped \/ drop)
<1> DEFINE n == Len(W)
           M == Marked(W, drop)
<1>1. n \in Nat /\ DOMAIN W = 1 .. n /\ \A i \in 1 .. n : W[i] \in Entries
  BY ElementOfSeq
<1>2. CASE drop = FALSE
  <2>1. M = W
    BY <1>2, Zenon DEF Marked
  <2>2. \A i \in 1 .. n : W[i].stopped = (W[i].stopped \/ drop)
    BY <1>1, <1>2 DEF Entries
  <2> QED  BY <2>1, <2>2, Zenon
<1>3. CASE drop = TRUE
  <2>1. M = [i \in 1 .. n |-> [W[i] EXCEPT !.stopped = TRUE]]
    BY <1>1, <1>3, Zenon DEF Marked
  <2> HIDE DEF n, M
  <2>2. ASSUME NEW i \in 1 .. n
        PROVE  /\ M[i] \in Entries /\ M[i].found = W[i].found /\ M[i].sent = W[i].sent
               /\ M[i].records = W[i].records /\ M[i].stopped = TRUE /\ W[i].stopped \in BOOLEAN
    <3>1. M[i] = [W[i] EXCEPT !.stopped = TRUE]
      BY <2>1
    <3>2. W[i] \in Entries
      BY <1>1
    <3> QED  BY <3>1, <3>2 DEF Entries
  <2>3. M \in Seq(Entries) /\ Len(M) = n
    <3>1. M \in [1 .. n -> Entries]
      BY <2>1, <2>2
    <3> QED  BY <1>1, <3>1
  <2>4. \A i \in 1 .. n : M[i].stopped = (W[i].stopped \/ drop)
    BY <1>3, <2>2
  <2> QED  BY <2>2, <2>3, <2>4, Zenon DEF n, M
<1> QED  BY <1>2, <1>3

MarksOf(V, W, drop) ==
  /\ V \in Seq(Entries) /\ Len(V) = Len(W)
  /\ \A i \in 1 .. Len(W) : /\ V[i].found = W[i].found /\ V[i].sent = W[i].sent
                            /\ V[i].records = W[i].records
                            /\ V[i].stopped = (W[i].stopped \/ drop)
LEMMA MarkedThat ==
  ASSUME NEW W \in Seq(Entries), NEW drop \in BOOLEAN, NEW V, V = Marked(W, drop)
  PROVE  MarksOf(V, W, drop)
BY MarkedIs DEF MarksOf

Longer(W, f, drop) == {Marked(Append(W, f), drop), Append(Marked(W, drop), f)}

LEMMA LongerExtends ==
  ASSUME NEW W \in Seq(Entries), NEW drop \in BOOLEAN, NEW e, NEW f, NEW rs, Does(e, f, rs, drop),
         NEW V \in Longer(W, f, drop)
  PROVE  Extends(Append(W, e), V, rs, drop)
<1> DEFINE n == Len(W)
           A == Append(W, e)
           B == Append(W, f)
           M == Marked(W, drop)
<1>1. /\ e \in Entries /\ f \in Entries /\ f.found = e.found /\ f.sent = e.sent
      /\ f.records = e.records \o rs /\ f.stopped = (e.stopped \/ drop)
      /\ (f.stopped \/ drop) = f.stopped
  <2>1. /\ e \in Entries /\ f \in Entries /\ f.found = e.found /\ f.sent = e.sent
        /\ f.records = e.records \o rs /\ f.stopped = (e.stopped \/ drop)
    BY Zenon DEF Does
  <2>2. e.stopped \in BOOLEAN
    BY <2>1 DEF Entries
  <2>3. (f.stopped \/ drop) = f.stopped
    BY <2>1, <2>2
  <2> QED  BY <2>1, <2>3
<1>2. /\ n \in Nat /\ A \in Seq(Entries) /\ Len(A) = n + 1 /\ A[n + 1] = e
      /\ \A i \in 1 .. n : A[i] = W[i]
  BY <1>1, AppendProperties
<1>3. /\ B \in Seq(Entries) /\ Len(B) = n + 1 /\ B[n + 1] = f
      /\ \A i \in 1 .. n : B[i] = W[i]
  BY <1>1, AppendProperties
<1>4. /\ M \in Seq(Entries) /\ Len(M) = n
      /\ \A i \in 1 .. n : /\ M[i].found = W[i].found /\ M[i].sent = W[i].sent
                           /\ M[i].records = W[i].records /\ M[i].stopped = (W[i].stopped \/ drop)
  BY MarkedIs
<1> DEFINE P(U) == /\ U \in Seq(Entries) /\ Len(U) = n + 1
                   /\ \A i \in 1 .. n :
                        /\ U[i].found = W[i].found /\ U[i].sent = W[i].sent
                        /\ U[i].records = W[i].records /\ U[i].stopped = (W[i].stopped \/ drop)
                   /\ U[n + 1].found = e.found /\ U[n + 1].sent = e.sent
                   /\ U[n + 1].records = e.records \o rs /\ U[n + 1].stopped = (e.stopped \/ drop)
<1>5. P(V)
  <2>1. CASE V = Marked(B, drop)
    <3>1. /\ V \in Seq(Entries) /\ Len(V) = Len(B)
          /\ \A i \in 1 .. Len(B) : /\ V[i].found = B[i].found /\ V[i].sent = B[i].sent
                                    /\ V[i].records = B[i].records /\ V[i].stopped = (B[i].stopped \/ drop)
      <4>1. B \in Seq(Entries)
        BY <1>3
      <4> HIDE DEF A, B, M, n, P
      <4>2. MarksOf(V, B, drop)
        BY <2>1, <4>1, MarkedThat
      <4> QED  BY <4>2, Zenon DEF MarksOf
    <3> HIDE DEF A, B, M, n
    <3>2. ASSUME NEW i \in 1 .. n
          PROVE  /\ V[i].found = W[i].found /\ V[i].sent = W[i].sent
                 /\ V[i].records = W[i].records /\ V[i].stopped = (W[i].stopped \/ drop)
      <4>1. i \in 1 .. Len(B) /\ B[i] = W[i]
        BY <1>2, <1>3
      <4> QED  BY <3>1, <4>1, Zenon
    <3>3. /\ V[n + 1].found = f.found /\ V[n + 1].sent = f.sent
          /\ V[n + 1].records = f.records /\ V[n + 1].stopped = (f.stopped \/ drop)
      <4>1. n + 1 \in 1 .. Len(B) /\ B[n + 1] = f
        BY <1>2, <1>3
      <4> QED  BY <3>1, <4>1, Zenon
    <3>4. V[n + 1].stopped = (e.stopped \/ drop)
      BY <1>1, <3>3, Zenon
    <3> QED  BY <1>1, <1>3, <3>1, <3>2, <3>3, <3>4, Zenon
  <2>2. CASE V = Append(M, f)
    <3> HIDE DEF A, B, M, n
    <3>1. /\ V \in Seq(Entries) /\ Len(V) = n + 1 /\ V[n + 1] = f
          /\ \A i \in 1 .. n : V[i] = M[i]
      BY <1>1, <1>4, <2>2, AppendProperties
    <3>2. ASSUME NEW i \in 1 .. n
          PROVE  /\ V[i].found = W[i].found /\ V[i].sent = W[i].sent
                 /\ V[i].records = W[i].records /\ V[i].stopped = (W[i].stopped \/ drop)
      BY <1>4, <3>1, Zenon
    <3> QED  BY <1>1, <3>1, <3>2, Zenon
  <2> QED  BY <2>1, <2>2 DEF Longer
<1> HIDE DEF A, B, M, n
<1>6. ASSUME NEW i \in 1 .. n + 1
      PROVE  /\ V[i].found = A[i].found /\ V[i].sent = A[i].sent
             /\ V[i].stopped = (A[i].stopped \/ drop)
             /\ (i < n + 1 => V[i].records = A[i].records)
  <2>1. CASE i = n + 1
    <3>1. ~(i < n + 1)
      BY <1>2, <2>1
    <3> QED  BY <1>2, <1>5, <2>1, <3>1, Zenon
  <2>2. CASE i # n + 1
    <3>1. i \in 1 .. n
      BY <1>2, <2>2
    <3> QED  BY <1>2, <1>5, <3>1, Zenon
  <2> QED  BY <2>1, <2>2
<1>7. Len(A) > 0
  BY <1>2
<1>8. V \in Seq(Entries) /\ Len(V) = Len(A) /\ V[Len(A)].records = A[Len(A)].records \o rs
  BY <1>2, <1>5, Zenon
<1>9. Extends(A, V, rs, drop)
  <2>1. \A i \in 1 .. Len(A) : /\ V[i].found = A[i].found /\ V[i].sent = A[i].sent
                               /\ V[i].stopped = (A[i].stopped \/ drop)
                               /\ (i < Len(A) => V[i].records = A[i].records)
    BY <1>2, <1>6, Zenon
  <2> QED  BY <1>7, <1>8, <2>1, Zenon DEF Extends
<1> QED  BY <1>9 DEF A

\* The invariant's parts.
LEMMA Inside ==
  ASSUME IInv
  PROVE  /\ Begun /\ lost \in Nat /\ now \in 0 .. MaxTime /\ now \in Nat /\ now \in Int
         /\ nonblock \in BOOLEAN /\ restarted \in BOOLEAN /\ (exited \/ Fits(dsp, now))
         /\ StreamHere /\ CallOK /\ Unowned
         /\ log \in Seq(Entries) /\ Len(log) <= MaxLog /\ Len(log) \in Nat
         /\ LogOK(Whole, Found, now, restarted) /\ sent \in Nat
         /\ call.progress \in Nat /\ call.records \in Seq(Changes) /\ FoundBy \in Founds
<1>1. /\ Begun /\ lost \in Nat /\ now \in 0 .. MaxTime
      /\ nonblock \in BOOLEAN /\ restarted \in BOOLEAN /\ (exited \/ Fits(dsp, now))
      /\ StreamHere /\ CallOK /\ Unowned
      /\ log \in Seq(Entries) /\ Len(log) <= MaxLog
      /\ LogOK(Whole, Found, now, restarted)
  BY DEF IInv
<1>2. now \in Nat /\ now \in Int /\ sent \in Nat /\ Len(log) \in Nat
  BY <1>1 DEF Begun
<1>3. CASE call.kind = "none"
  <2>1. call.progress = 0 /\ call.records = <<>> /\ FoundBy = Found
    BY <1>1, <1>3 DEF CallOK, NoCall, FoundBy
  <2>2. Found \in Founds
    BY <1>1, FoundHere DEF FoundOK
  <2> QED  BY <1>1, <1>2, <2>1, <2>2
<1>4. CASE call.kind # "none"
  <2>1. call.progress \in 0 .. call.size /\ call.size \in Nat
        /\ call.records \in Seq(Changes) /\ call.found \in Founds
    BY <1>1, <1>4 DEF CallOK
  <2>2. FoundBy = call.found
    BY <1>4 DEF FoundBy
  <2>3. call.progress \in Nat
    BY <2>1
  <2> QED  BY <1>1, <1>2, <2>1, <2>2, <2>3
<1> QED  BY <1>3, <1>4

\* The log of an instruction that has done a pass, and what waits for it to do more.
After(C, exits) == Longer(log, Entry(call.records \o Records(C), FoundBy, exits), C.dropped)

LEMMA PassLogged ==
  ASSUME IInv, ~exited, NEW C, NEW mode, Sound(C, mode), NEW exits \in BOOLEAN,
         call.kind = "none" \/ ~exits, NEW V \in After(C, exits), NEW still,
         still = (restarted /\ C.D.state = "running")
  PROVE  /\ LogOK(V, Ended(C), now, still)
         /\ Len(V) = Len(log) + 1 /\ V \in Seq(Entries)
         /\ \A i \in 1 .. Len(log) : V[i].found = log[i].found
         /\ V[Len(log) + 1].found = FoundBy
<1>1. /\ Begun /\ lost \in Nat /\ now \in Int /\ log \in Seq(Entries) /\ Len(log) \in Nat /\ sent \in Nat
      /\ call.records \in Seq(Changes) /\ FoundBy \in Founds /\ restarted \in BOOLEAN
  BY Inside
<1>2. Records(C) \in Seq(Changes) /\ Marks(Records(C), C.dropped) /\ C.dropped \in BOOLEAN
  BY RecordsAre
<1> DEFINE rs == Records(C)
           drop == C.dropped
           e == Entry(call.records, FoundBy, exits)
           f == Entry(call.records \o rs, FoundBy, exits)
           A == Append(log, e)
           h == Found
           g == Ended(C)
           loose == restarted
<1>3. Does(e, f, rs, drop) /\ f.found = FoundBy
  BY <1>1, <1>2, EntryMore
<1>4. V \in Longer(log, f, drop)
  BY DEF After
<1>5. LogOK(Start(exits), h, now, loose)
  BY StartIs
<1>6. Start(exits) = A
  BY Zenon DEF Start
<1>7. Passes(rs, h, g, now, drop)
  BY <1>1, PassEnds
<1>8. FoundOK(g, now) /\ g.dsp = C.D
  BY EndedIs
<1> HIDE DEF rs, drop, e, f, A, h, g, loose
<1>9. Extends(A, V, rs, drop)
  <2>1. drop \in BOOLEAN
    BY <1>2 DEF drop
  <2> QED  BY <1>1, <1>3, <1>4, <2>1, LongerExtends DEF A
<1>10. LogOK(V, g, now, loose)
  BY <1>1, <1>5, <1>6, <1>7, <1>9, LogExtends, Zenon
<1>11. LogOK(V, g, now, still)
  <2>1. CASE C.D.state = "running"
    <3>1. still = loose
      BY <1>1, <2>1 DEF loose
    <3> QED  BY <1>10, <3>1, Zenon
  <2>2. CASE C.D.state # "running"
    <3>1. still = FALSE
      BY <2>2
    <3>2. LogOK(V, g, now, FALSE)
      BY <1>1, <1>8, <1>10, <2>2, LogTight, Zenon
    <3> QED  BY <3>1, <3>2, Zenon
  <2> QED  BY <2>1, <2>2
<1>12. /\ V \in Seq(Entries) /\ Len(V) = Len(A)
       /\ \A i \in 1 .. Len(A) : V[i].found = A[i].found
  BY <1>9, Zenon DEF Extends
<1>13. Len(A) = Len(log) + 1 /\ A[Len(log) + 1] = e /\ \A i \in 1 .. Len(log) : A[i] = log[i]
  <2>1. e \in Entries
    BY <1>3 DEF Does
  <2> QED  BY <1>1, <2>1, AppendProperties DEF A
<1>14. e.found = FoundBy
  BY <1>3, Zenon DEF Does
<1>15. ASSUME NEW i \in 1 .. Len(log) PROVE V[i].found = log[i].found
  <2>1. i \in 1 .. Len(A)
    BY <1>1, <1>13
  <2> QED  BY <1>12, <1>13, <2>1, Zenon
<1>16. V[Len(log) + 1].found = FoundBy
  <2>1. Len(log) + 1 \in 1 .. Len(A)
    BY <1>1, <1>13
  <2> QED  BY <1>12, <1>13, <1>14, <2>1, Zenon
<1>17. Len(V) = Len(log) + 1
  BY <1>12, <1>13, Zenon
<1> QED  BY <1>11, <1>12, <1>15, <1>16, <1>17, Zenon DEF g

\* A finished call's log, and a waiting one's.
LEMMA LoggedIn ==
  ASSUME NEW C, NEW exits,
         NEW e, e = Entry(call.records \o Records(C), FoundBy, exits)
  PROVE  Logged(e, C) \in After(C, exits) /\ Append(Marked(log, C.dropped), e) \in After(C, exits)
<1>1. Logged(e, C) = Marked(Append(log, e), C.dropped)
  BY Zenon DEF Logged, Marked
<1> QED  BY <1>1, Zenon DEF After, Longer

-----------------------------------------------------------------------------
(* The steps. *)

Held == owned' /\ ~exited' /\ now' = now /\ nonblock' \in BOOLEAN

\* A call ends.
LEMMA FinishIs ==
  ASSUME IInv, ~exited, Len(log) < MaxLog, Held, NEW C, NEW mode, mode # "force", Sound(C, mode),
         Finish(C, C.progress)
  PROVE  IInv'
<1> DEFINE e == Entry(call.records \o Records(C), FoundBy, FALSE)
<1>1. /\ Keep(C) /\ sent' = sent + C.progress /\ call' = NoCall
      /\ log' = Logged(Entry(call.records \o Records(C),
                             IF call.kind = "none" THEN Found ELSE call.found, FALSE), C)
  BY Zenon DEF Finish
<1>2. log' \in After(C, FALSE)
  <2>1. log' = Logged(e, C)
    BY <1>1, Zenon DEF FoundBy
  <2> HIDE DEF e
  <2>2. Logged(e, C) \in After(C, FALSE)
    BY LoggedIn DEF e
  <2> QED  BY <2>1, <2>2
<1>3. /\ sent \in Nat /\ now \in 0 .. MaxTime /\ Len(log) \in Nat /\ MaxLog \in Nat
      /\ restarted \in BOOLEAN
  BY Inside, DspAssumption
<1>4. C.progress \in Nat
  BY Types
<1>5. now' = now /\ sent' \in Nat /\ call'.progress = 0 /\ call'.kind = "none"
      /\ sent' + call'.progress = sent + C.progress
  BY <1>1, <1>3, <1>4 DEF NoCall, Held
<1>6. /\ Begun' /\ lost' \in Nat /\ restarted' \in BOOLEAN /\ StreamHere'
      /\ Fits(dsp', now') /\ Found' = Ended(C)
      /\ (restarted' <=> restarted /\ C.D.state = "running")
  BY <1>1, <1>5, KeepIs
<1>7. /\ LogOK(log', Ended(C), now, restarted')
      /\ Len(log') = Len(log) + 1 /\ log' \in Seq(Entries)
  <2>1. restarted' = (restarted /\ C.D.state = "running")
    BY <1>3, <1>6
  <2> QED  BY <1>2, <2>1, PassLogged
<1>8. Whole' = log'
  BY <1>5 DEF Whole
<1>9. LogOK(Whole', Found', now', restarted')
  BY <1>5, <1>6, <1>7, <1>8, Zenon
<1>10. CallOK'
  BY <1>1, <1>5 DEF CallOK
<1>11. Unowned'
  BY DEF Unowned, Held
<1>12. Len(log') <= MaxLog /\ now' \in 0 .. MaxTime
  BY <1>3, <1>5, <1>7
<1>13. nonblock' \in BOOLEAN
  BY DEF Held
<1> QED  BY <1>6, <1>7, <1>9, <1>10, <1>11, <1>12, <1>13 DEF IInv

Kinds == {"write", "sync", "close"}
\* A call waits.
LEMMA HaltIs ==
  ASSUME IInv, ~exited, Len(log) < MaxLog, Held, NEW C, NEW mode, mode # "force", Sound(C, mode),
         C.rc = "halt", NEW kind \in Kinds, NEW size \in Nat, C.progress \in 0 .. size,
         kind # "write" => C.progress = 0, HaltPass(C, kind, size)
  PROVE  IInv'
<1> DEFINE rs == call.records \o Records(C)
           e == Entry(rs, FoundBy, FALSE)
           V == Append(log', e)
<1>1. /\ Keep(C) /\ sent' = sent
      /\ call' = [kind |-> kind, size |-> size, progress |-> C.progress, until |-> C.halt_at,
                  need |-> C.need, records |-> rs, found |-> FoundBy]
      /\ log' = Marked(log, C.dropped)
  BY Zenon DEF HaltPass, FoundBy, Marked
<1>2. /\ call'.kind = kind /\ call'.size = size /\ call'.progress = C.progress
      /\ call'.until = C.halt_at /\ call'.need = C.need /\ call'.records = rs
      /\ call'.found = FoundBy /\ kind # "none"
  BY <1>1 DEF Kinds
<1>3. /\ sent \in Nat /\ now \in 0 .. MaxTime /\ Len(log) \in Nat /\ MaxLog \in Nat
      /\ restarted \in BOOLEAN /\ log \in Seq(Entries) /\ call.records \in Seq(Changes)
      /\ FoundBy \in Founds
  BY Inside, DspAssumption
<1>4. C.progress \in Nat /\ Halts(C.D, C.rc, C.halt_at, C.need)
  BY Types DEF Sound
<1>5. now' = now /\ sent' \in Nat /\ sent' + call'.progress = sent + C.progress
  <2>1. now' = now
    BY DEF Held
  <2> QED  BY <1>1, <1>2, <1>3, <1>4, <2>1
<1>6. /\ Begun' /\ lost' \in Nat /\ restarted' \in BOOLEAN /\ StreamHere'
      /\ Fits(dsp', now') /\ Found' = Ended(C) /\ dsp' = C.D
      /\ (restarted' <=> restarted /\ C.D.state = "running")
  BY <1>1, <1>5, KeepIs
<1>7. V \in After(C, FALSE)
  <2>1. V = Append(Marked(log, C.dropped), e)
    BY <1>1, Zenon
  <2> HIDE DEF e, V
  <2>2. Append(Marked(log, C.dropped), e) \in After(C, FALSE)
    BY LoggedIn DEF e
  <2> QED  BY <2>1, <2>2
<1>8. LogOK(V, Ended(C), now, restarted')
  <2> HIDE DEF V
  <2>1. restarted' = (restarted /\ C.D.state = "running")
    BY <1>3, <1>6
  <2> QED  BY <1>7, <2>1, PassLogged
<1>9. Whole' = V
  <2>1. Entry(call.records, call.found, FALSE)' = e
    BY <1>1, <1>2, Zenon DEF Entry
  <2>2. Whole' = Append(log', Entry(call.records, call.found, FALSE)')
    BY <1>2, Zenon DEF Whole
  <2> QED  BY <2>1, <2>2, Zenon
<1>10. LogOK(Whole', Found', now', restarted')
  BY <1>5, <1>6, <1>8, <1>9, Zenon
<1>11. rs \in Seq(Changes)
  <2>1. Records(C) \in Seq(Changes)
    BY RecordsAre
  <2> QED  BY <1>3, <2>1
<1>12. log' \in Seq(Entries) /\ Len(log') = Len(log)
  BY <1>1, <1>3, MarkedThat, RecordsAre DEF MarksOf
<1>13. CallOK'
  <2>1. Halts(dsp', "halt", call'.until, call'.need)
    BY <1>2, <1>4, <1>6
  <2>2. owned' /\ ~exited' /\ Len(log') < MaxLog
    BY <1>12 DEF Held
  <2>3. call'.kind # "none" /\ call'.kind \in {"write", "sync", "close"}
        /\ call'.size \in Nat /\ call'.progress \in 0 .. call'.size
        /\ (call'.kind # "write" => call'.progress = 0)
    BY <1>2 DEF Kinds
  <2>4. call'.records \in Seq(Changes) /\ call'.found \in Founds
    BY <1>2, <1>3, <1>11, Zenon
  <2> HIDE DEF rs, e, V
  <2> QED  BY <2>1, <2>2, <2>3, <2>4, Zenon DEF CallOK
<1>14. Unowned'
  BY DEF Unowned, Held
<1>15. Len(log') <= MaxLog /\ now' \in 0 .. MaxTime
  BY <1>3, <1>5, <1>12
<1>16. nonblock' \in BOOLEAN
  BY DEF Held
<1> HIDE DEF rs, e, V
<1> QED  BY <1>6, <1>10, <1>12, <1>13, <1>14, <1>15, <1>16 DEF IInv

\* A pass begins, or goes on where the call is.
LEMMA PassBegins ==
  ASSUME IInv, NEW mode, ~exited \/ mode = "force"
  PROVE  LET C == BeginPass(call.progress)
         IN /\ Sound(C, mode) /\ C.rc = "ok" /\ C.progress = call.progress /\ ~C.transferred
            /\ ~C.dropped /\ C.D = dsp /\ C.S = staging /\ C.H = host /\ C.lost = lost /\ ~C.saved
<1>1. /\ Begun /\ lost \in Nat /\ call.progress \in Nat /\ (exited \/ Fits(dsp, now)) /\ StreamHere
  BY Inside
<1>2. StreamOK(dsp.period_ptr, dsp.buffer_used, dsp.params, staging, host, sent + call.progress, lost)
  BY <1>1, Zenon DEF StreamHere
<1>3. mode = "force" \/ Fits(dsp, now)
  BY <1>1
<1> QED  BY <1>1, <1>2, <1>3, BeginIs

LEMMA EndsOrHaltsIs ==
  ASSUME IInv, ~exited, Len(log) < MaxLog, Held, NEW C, NEW mode, mode # "force", Sound(C, mode),
         NEW kind \in Kinds, NEW size \in Nat, C.progress \in 0 .. size,
         kind # "write" => C.progress = 0, NEW interrupted, EndsOrHalts(C, kind, size, interrupted)
  PROVE  IInv'
<1>1. CASE C.rc = "halt" /\ ~interrupted
  <2>1. HaltPass(C, kind, size)
    BY <1>1, Zenon DEF EndsOrHalts
  <2> QED  BY <1>1, <2>1, HaltIs
<1>2. CASE ~(C.rc = "halt" /\ ~interrupted)
  <2>1. Finish(C, C.progress)
    BY <1>2, Zenon DEF EndsOrHalts
  <2> QED  BY <2>1, FinishIs
<1> QED  BY <1>1, <1>2

\* OssWrite(), each time it starts over.
LEMMA WritingIs ==
  ASSUME IInv, ~exited, Len(log) < MaxLog, Held, NEW size \in Nat, NEW p, p = call.progress,
         p \in 0 .. size, NEW interrupted, Writing(size, p, interrupted)
  PROVE  IInv'
<1> DEFINE B == BeginPass(p)
           mode == IF nonblock THEN "nonblock" ELSE "block"
           C == Write1(B, size, mode, interrupted)
<1>1. mode \in Modes /\ mode # "force"
  BY DEF Modes
<1>2. EndsOrHalts(C, "write", size, interrupted)
  BY Zenon DEF Writing
<1> HIDE DEF mode
<1>3. Sound(B, mode) /\ B.rc = "ok" /\ B.progress = p
  BY PassBegins
<1> HIDE DEF B
<1>4. Rounds(B, mode, size)
  BY <1>3 DEF Rounds
<1>5. Rounds(C, mode, size)
  BY <1>1, <1>4, Write1Is
<1> HIDE DEF C
<1>6. Sound(C, mode) /\ C.progress \in 0 .. size
  BY <1>5 DEF Rounds
<1>7. "write" \in Kinds
  BY DEF Kinds
<1> QED  BY <1>1, <1>2, <1>6, <1>7, EndsOrHaltsIs

LEMMA SyncedIs ==
  ASSUME IInv, NEW mode \in {"block", "force"}, ~exited \/ mode = "force", call.progress = 0
  PROVE  Sound(Sync(BeginPass(0), mode), mode) /\ Sync(BeginPass(0), mode).progress = 0
<1> DEFINE B == BeginPass(0)
<1>1. Sound(B, mode) /\ B.rc = "ok" /\ B.progress = 0
  BY PassBegins
<1> HIDE DEF B
<1>2. Ends(Sync(B, mode), mode, 0)
  BY <1>1, SyncIs
<1> QED  BY <1>2 DEF Ends, B

\* SyncIoctl(), each time it starts over.
LEMMA SyncingIs ==
  ASSUME IInv, ~exited, Len(log) < MaxLog, Held, call.progress = 0, NEW interrupted,
         Syncing(interrupted)
  PROVE  IInv'
<1> DEFINE C == Sync(BeginPass(0), "block")
<1>1. Sound(C, "block") /\ C.progress = 0
  BY SyncedIs
<1>2. EndsOrHalts(C, "sync", 0, interrupted)
  BY Zenon DEF Syncing
<1> HIDE DEF C
<1>3. "sync" \in Kinds /\ C.progress \in 0 .. 0 /\ 0 \in Nat
  BY <1>1 DEF Kinds
<1> QED  BY <1>1, <1>2, <1>3, EndsOrHaltsIs

\* What an instruction that runs finds.
LEMMA ExecutesIs ==
  ASSUME IInv, Executes
  PROVE  /\ owned /\ ~exited /\ call.kind = "none" /\ Len(log) < MaxLog /\ call = NoCall
         /\ call.progress = 0 /\ nonblock \in BOOLEAN
         /\ (UNCHANGED <<now, owned, nonblock, exited>> => Held)
<1>1. owned /\ ~exited /\ call.kind = "none" /\ Len(log) < MaxLog
  BY DEF Executes
<1>2. call = NoCall /\ nonblock \in BOOLEAN
  BY <1>1, Inside DEF CallOK
<1>3. call.progress = 0
  BY <1>2 DEF NoCall
<1>4. ASSUME UNCHANGED <<now, owned, nonblock, exited>>
      PROVE  Held
  <2>1. now' = now /\ owned' = owned /\ nonblock' = nonblock /\ exited' = exited
    BY <1>4
  <2>2. nonblock' \in BOOLEAN
    BY <1>2, <2>1
  <2>3. owned' /\ ~exited'
    BY <1>1, <2>1, Zenon
  <2> QED  BY <2>1, <2>2, <2>3 DEF Held
<1> QED  BY <1>1, <1>2, <1>3, <1>4, Zenon

LEMMA DoneIs ==
  ASSUME IInv, Executes, UNCHANGED <<now, owned, nonblock, exited>>, NEW C,
         Done(C, "block", 0), Finish(C, 0)
  PROVE  IInv'
<1>1. Sound(C, "block") /\ C.progress = 0
  BY DEF Done
<1>2. Finish(C, C.progress)
  BY <1>1, Zenon
<1> QED  BY <1>1, <1>2, ExecutesIs, FinishIs

\* Each step keeps the invariant.
LEMMA KeepsWrite ==
  ASSUME IInv, NEW size \in Sizes, NEW signal, Write(size, signal)
  PROVE  IInv'
<1>1. Executes /\ Writing(size, 0, signal) /\ UNCHANGED <<now, owned, nonblock, exited>>
  BY Zenon DEF Write
<1>2. size \in Nat /\ 0 \in 0 .. size
  BY DspAssumption
<1> QED  BY <1>1, <1>2, ExecutesIs, WritingIs

LEMMA KeepsSync ==
  ASSUME IInv, NEW signal, SyncIoctl(signal)
  PROVE  IInv'
<1>1. Executes /\ Syncing(signal) /\ UNCHANGED <<now, owned, nonblock, exited>>
  BY Zenon DEF SyncIoctl
<1> QED  BY <1>1, ExecutesIs, SyncingIs

LEMMA BeginsAt0 ==
  ASSUME IInv, Executes
  PROVE  Sound(BeginPass(0), "block") /\ BeginPass(0).D = dsp
BY PassBegins, ExecutesIs

LEMMA KeepsSetRate ==
  ASSUME IInv, NEW rate, NEW first, SetRate(rate, first)
  PROVE  IInv'
<1> DEFINE set == [dsp.set EXCEPT !.rate = rate]
           passed == IF first THEN ApplyParams(BeginPass(0)) ELSE BeginPass(0)
           G == Then(passed, LAMBDA C : ApplyParams(SetTo(C, set)))
<1>1. set \in Settings /\ Executes /\ Finish(G, 0) /\ UNCHANGED <<now, owned, nonblock, exited>>
  BY Zenon DEF SetRate
<1>2. Done(G, "block", 0)
  <2> HIDE DEF set
  <2> QED  BY <1>1, BeginsAt0, SetRateIs
<1> HIDE DEF G
<1> QED  BY <1>1, <1>2, DoneIs

LEMMA KeepsSetFragment ==
  ASSUME IInv, NEW fragment, SetFragment(fragment)
  PROVE  IInv'
<1> DEFINE set == [dsp.set EXCEPT !.fragment = fragment]
           G == SetTo(BeginPass(0), set)
<1>1. set \in Settings /\ Executes /\ Finish(G, 0) /\ UNCHANGED <<now, owned, nonblock, exited>>
  BY Zenon DEF SetFragment
<1>2. Done(G, "block", 0)
  <2> HIDE DEF set
  <2> QED  BY <1>1, BeginsAt0, SetFragmentIs
<1> HIDE DEF G
<1> QED  BY <1>1, <1>2, DoneIs

LEMMA KeepsAsk ==
  ASSUME IInv, NEW ready, NEW looks, Ask(ready, looks)
  PROVE  IInv'
<1> DEFINE G == Then(IF ready THEN MakeReady(BeginPass(0)) ELSE ApplyParams(BeginPass(0)),
                     LAMBDA C : IF looks THEN [C EXCEPT !.D = Updated(@, now)] ELSE C)
<1>1. Executes /\ Finish(G, 0) /\ UNCHANGED <<now, owned, nonblock, exited>>
  BY Zenon DEF Ask
<1>2. Done(G, "block", 0)
  <2>1. Sound(BeginPass(0), "block")
    BY <1>1, BeginsAt0
  <2> QED  BY <2>1, AskIs, Zenon DEF Then
<1> HIDE DEF G
<1> QED  BY <1>1, <1>2, DoneIs

LEMMA KeepsReset ==
  ASSUME IInv, ResetIoctl
  PROVE  IInv'
<1> DEFINE G == Reset(0)
<1>1. Executes /\ Finish(G, 0) /\ UNCHANGED <<now, owned, nonblock, exited>>
  BY Zenon DEF ResetIoctl
<1>2. Sound(G, "block") /\ G.rc = "ok" /\ G.progress = 0
  BY <1>1, BeginsAt0, ResetIs
<1>3. Done(G, "block", 0)
  <2> HIDE DEF G
  <2> QED  BY <1>2 DEF Done
<1> HIDE DEF G
<1> QED  BY <1>1, <1>3, DoneIs

LEMMA PlusNone ==
  ASSUME NEW a \in Nat, NEW b, b = 0
  PROVE  a + b = a
OBVIOUS
LEMMA UpToSelf ==
  ASSUME NEW a \in Nat
  PROVE  a \in 0 .. a
OBVIOUS

\* A substream that was just opened.
LEMMA OpenedIs ==
  ASSUME NEW t \in Nat, NEW loose, NEW N \in Nat, NEW L \in 0 .. N
  PROVE  /\ RingOK(InitPlayback, t) /\ BufferOK(InitPlayback, <<>>)
         /\ HostOK(InitPlayback, {}, t, loose) /\ Fits(InitPlayback, t)
         /\ StreamOK(InitPlayback.period_ptr, InitPlayback.buffer_used, InitPlayback.params, <<>>,
                     {}, N, L)
<1> DEFINE D == InitPlayback
<1>1. /\ D.set = [rate |-> 0, fragment |-> 0] /\ D.params = TRUE /\ D.prepare = FALSE /\ D.period = 0
      /\ D.periods = 0 /\ D.buffer_used = 0 /\ D.period_ptr = 0 /\ D.bytes = 0 /\ D.state = "setup"
      /\ D.segment = 0 /\ D.t0 = 0 /\ D.written = 0
  BY DEF InitPlayback
<1>2. D \in Ring
  BY DspAssumption DEF InitPlayback, Ring, States
<1> HIDE DEF D
<1>3. RingOK(D, t)
  BY <1>1, <1>2 DEF RingOK, Plays
<1>4. BufferOK(D, <<>>)
  BY <1>1 DEF BufferOK
<1>5. EndOf(D, t) = t /\ Fits(D, t)
  BY <1>1 DEF EndOf, Fits
<1>6. HostOK(D, {}, t, loose)
  <2>1. t .. EndOf(D, t) - 1 = {}
    BY <1>5
  <2> QED  BY <2>1 DEF HostOK
<1>7. StreamOK(0, 0, TRUE, <<>>, {}, N, L)
  <2>1. \A x : ~Holds(0, 0, <<>>, {}, x)
    BY DEF Holds
  <2>2. \A i \in 0 + 1 .. 0 : FALSE
    OBVIOUS
  <2> QED  BY <2>1, <2>2 DEF StreamOK
<1>8. StreamOK(D.period_ptr, D.buffer_used, D.params, <<>>, {}, N, L)
  BY <1>1, <1>7, Zenon
<1> QED  BY <1>3, <1>4, <1>5, <1>6, <1>8 DEF D

\* The card as it is when nothing of a program's is left.
Blank ==
  /\ dsp = InitPlayback /\ staging = <<>> /\ host = {} /\ log = <<>> /\ call = NoCall
  /\ now \in 0 .. MaxTime /\ sent \in Nat /\ lost \in 0 .. sent
  /\ nonblock \in BOOLEAN /\ restarted \in BOOLEAN

LEMMA BlankBegun ==
  ASSUME Blank
  PROVE  /\ Begun /\ lost \in Nat /\ Fits(dsp, now) /\ StreamHere /\ CallOK /\ Unowned
         /\ log \in Seq(Entries) /\ Len(log) <= MaxLog /\ Whole = <<>>
<1>1. /\ dsp = InitPlayback /\ staging = <<>> /\ host = {} /\ log = <<>> /\ call = NoCall
      /\ sent \in Nat /\ lost \in 0 .. sent /\ now \in Nat /\ lost \in Nat
  BY DspAssumption DEF Blank
<1>2. call.progress = 0 /\ call.kind = "none"
  BY <1>1 DEF NoCall
<1>3. /\ RingOK(dsp, now) /\ BufferOK(dsp, staging) /\ HostOK(dsp, host, now, restarted)
      /\ Fits(dsp, now)
      /\ StreamOK(dsp.period_ptr, dsp.buffer_used, dsp.params, staging, host, sent, lost)
  BY <1>1, OpenedIs
<1>4. Begun
  BY <1>1, <1>3 DEF Begun
<1>5. StreamHere
  <2>1. sent + call.progress = sent
    BY <1>1, <1>2
  <2> QED  BY <1>3, <2>1, Zenon DEF StreamHere
<1>6. CallOK
  BY <1>1, <1>2 DEF CallOK
<1>7. Unowned
  BY <1>1 DEF Unowned
<1>8. log \in Seq(Entries) /\ Len(log) <= MaxLog
  BY <1>1, DspAssumption
<1>9. Whole = <<>>
  BY <1>1, <1>2 DEF Whole
<1> QED  BY <1>1, <1>3, <1>4, <1>5, <1>6, <1>7, <1>8, <1>9

\* A substream that was just opened, and no log.
LEMMA BlankIs ==
  ASSUME Blank
  PROVE  IInv
<1>1. now \in 0 .. MaxTime /\ nonblock \in BOOLEAN /\ restarted \in BOOLEAN
  BY DEF Blank
<1>2. /\ Begun /\ lost \in Nat /\ Fits(dsp, now) /\ StreamHere /\ CallOK /\ Unowned
      /\ log \in Seq(Entries) /\ Len(log) <= MaxLog /\ Whole = <<>>
  BY BlankBegun
<1>3. LogOK(<<>>, Found, now, restarted)
  BY <1>2, FoundHere, LogEmpty
<1>4. LogOK(Whole, Found, now, restarted)
  BY <1>2, <1>3, Zenon
<1> QED  BY <1>1, <1>2, <1>4 DEF IInv

\* The same of the next state.
LEMMA BlankNext ==
  ASSUME Blank'
  PROVE  IInv'
<1>1. /\ dsp' = InitPlayback /\ staging' = <<>> /\ host' = {} /\ log' = <<>> /\ call' = NoCall
      /\ sent' \in Nat /\ lost' \in 0 .. sent' /\ now' \in Nat /\ lost' \in Nat
      /\ now' \in 0 .. MaxTime /\ nonblock' \in BOOLEAN /\ restarted' \in BOOLEAN
  BY DspAssumption DEF Blank
<1>2. call'.progress = 0 /\ call'.kind = "none"
  BY <1>1 DEF NoCall
<1>3. /\ RingOK(dsp', now') /\ BufferOK(dsp', staging') /\ HostOK(dsp', host', now', restarted')
      /\ Fits(dsp', now')
      /\ StreamOK(dsp'.period_ptr, dsp'.buffer_used, dsp'.params, staging', host', sent', lost')
  BY <1>1, OpenedIs
<1>4. Begun'
  BY <1>1, <1>3 DEF Begun
<1>5. StreamHere'
  <2>1. sent' + call'.progress = sent'
    <3>1. sent' \in Nat /\ call'.progress = 0
      BY <1>1, <1>2, Zenon
    <3> QED  BY <3>1, PlusNone, Zenon
  <2> QED  BY <1>3, <2>1, Zenon DEF StreamHere
<1>6. CallOK'
  BY <1>1, <1>2 DEF CallOK
<1>7. Unowned'
  BY <1>1 DEF Unowned
<1>8. log' \in Seq(Entries) /\ Len(log') <= MaxLog
  BY <1>1, DspAssumption
<1>9. Whole' = <<>>
  BY <1>1, <1>2 DEF Whole
<1>10. FoundOK(Found', now')
  <2> DEFINE Z == [dsp |-> dsp', staged |-> SubSeq(staging', 1, dsp'.buffer_used), host |-> host',
                   lost |-> lost']
  <2>1. host' \in SUBSET Notes
    BY <1>1
  <2>2. FoundOK(Z, now')
    BY <1>1, <1>3, <2>1, SnapIs
  <2>3. Found' = Z
    BY DEF Found
  <2> QED  BY <2>2, <2>3, Zenon
<1>11. LogOK(<<>>, Found', now', restarted')
  BY <1>10, LogEmpty
<1>12. LogOK(Whole', Found', now', restarted')
  BY <1>9, <1>11, Zenon
<1> QED  BY <1>1, <1>3, <1>4, <1>5, <1>6, <1>7, <1>8, <1>12 DEF IInv

LEMMA KeepsInit ==
  ASSUME Init
  PROVE  IInv
<1>1. Blank
  <2>1. /\ dsp = InitPlayback /\ staging = <<>> /\ host = {} /\ log = <<>> /\ call = NoCall
        /\ now = 0 /\ sent = 0 /\ lost = 0 /\ nonblock = FALSE /\ restarted = FALSE
    BY Zenon DEF Init
  <2>2. now \in 0 .. MaxTime /\ sent \in Nat /\ lost \in 0 .. sent
    <3>1. now = 0 /\ sent = 0 /\ lost = 0 /\ MaxTime \in Nat
      BY <2>1, DspAssumption
    <3> QED  BY ONLY <3>1
  <2>3. nonblock \in BOOLEAN /\ restarted \in BOOLEAN
    BY <2>1
  <2> QED  BY <2>1, <2>2, <2>3, Zenon DEF Blank
<1> QED  BY <1>1, BlankIs

LEMMA KeepsOpen ==
  ASSUME IInv, Open
  PROVE  IInv'
<1>1. /\ ~owned /\ nonblock' = FALSE /\ dsp' = InitPlayback /\ staging' = <<>> /\ log' = <<>>
      /\ now' = now /\ host' = host /\ call' = call /\ sent' = sent /\ lost' = lost
      /\ restarted' = restarted
  BY DEF Open
<1>2. /\ lost \in Nat /\ now \in 0 .. MaxTime /\ restarted \in BOOLEAN /\ sent \in Nat
      /\ StreamHere /\ CallOK /\ Unowned
  BY Inside
<1>3. host = {} /\ call = NoCall
  BY <1>1, <1>2 DEF Unowned, CallOK
<1>4. lost \in 0 .. sent
  <2>1. sent + call.progress = sent
    BY <1>2, <1>3 DEF NoCall
  <2> QED  BY <1>2, <2>1 DEF StreamHere, StreamOK
<1>5. Blank'
  BY <1>1, <1>2, <1>3, <1>4 DEF Blank
<1> QED  BY <1>5, BlankNext

LEMMA KeepsStartProgram ==
  ASSUME IInv, StartProgram
  PROVE  IInv'
<1>1. /\ exited /\ nonblock' = FALSE /\ dsp' = InitPlayback /\ staging' = <<>> /\ log' = <<>>
      /\ host' = {} /\ now' = now /\ call' = call /\ sent' = sent /\ lost' = sent
      /\ restarted' = FALSE
  BY DEF StartProgram
<1>2. now \in 0 .. MaxTime /\ sent \in Nat /\ CallOK
  BY Inside
<1>3. call = NoCall
  BY <1>1, <1>2 DEF CallOK
<1>4. /\ now' \in 0 .. MaxTime /\ sent' \in Nat /\ lost' \in 0 .. sent'
      /\ nonblock' \in BOOLEAN /\ restarted' \in BOOLEAN
  <2>1. now' = now /\ sent' = sent /\ lost' = sent /\ nonblock' = FALSE /\ restarted' = FALSE
    BY <1>1, Zenon
  <2>2. now \in 0 .. MaxTime /\ sent \in Nat
    BY <1>2
  <2>3. sent \in 0 .. sent /\ FALSE \in BOOLEAN
    BY <2>2, UpToSelf
  <2> QED  BY <2>1, <2>2, <2>3, Zenon
<1>5. Blank'
  BY <1>1, <1>3, <1>4, Zenon DEF Blank
<1> QED  BY <1>5, BlankNext

\* OssRelease().
LEMMA ReleasedIs ==
  ASSUME IInv, ~exited, Len(log) < MaxLog, owned, now' = now, nonblock' = nonblock,
         exited' = exited, call.progress = 0, NEW interrupted, Closing(interrupted)
  PROVE  IInv'
<1> DEFINE C == Sync(BeginPass(0), "block")
<1>1. Sound(C, "block") /\ C.progress = 0
  BY SyncedIs
<1>2. Released(C, interrupted)
  BY Zenon DEF Closing
<1> HIDE DEF C
<1>3. now \in 0 .. MaxTime /\ sent \in Nat /\ nonblock \in BOOLEAN
  BY Inside
<1>4. CASE C.rc = "halt" /\ ~interrupted
  <2>1. HaltPass(C, "close", 0) /\ owned' = owned
    BY <1>2, <1>4 DEF Released
  <2>2. nonblock' \in BOOLEAN /\ owned' /\ ~exited' /\ now' = now
    BY <1>3, <2>1
  <2>3. Held
    BY <2>2, Zenon DEF Held
  <2>4. "close" \in Kinds /\ C.progress \in 0 .. 0 /\ 0 \in Nat
    BY <1>1 DEF Kinds
  <2> QED  BY <1>1, <1>4, <2>1, <2>3, <2>4, HaltIs
<1>5. CASE ~(C.rc = "halt" /\ ~interrupted)
  <2>1. /\ dsp' = InitPlayback /\ staging' = <<>> /\ log' = <<>> /\ call' = NoCall
        /\ host' = IF Queued(C.D, now) > 0 THEN Cut(C.H, now) ELSE C.H
        /\ lost' = sent /\ restarted' = FALSE /\ sent' = sent
    BY <1>2, <1>5 DEF Released
  <2>2. /\ C.D \in Ring /\ C.H \in SUBSET Notes /\ now \in Int /\ RingOK(C.D, now)
        /\ HostOK(C.D, C.H, now, restarted)
    BY <1>1, Types DEF Sound
  <2>3. host' = {}
    <3>1. CASE Queued(C.D, now) > 0
      <4>1. \A h \in C.H : now <= h.at /\ h.at \in Int
        BY <2>2 DEF HostOK, Notes
      <4>2. Cut(C.H, now) = {}
        BY <2>2, <4>1 DEF Cut
      <4> QED  BY <2>1, <3>1, <4>2
    <3>2. CASE ~(Queued(C.D, now) > 0)
      <4>1. Queued(C.D, now) = EndOf(C.D, now) - now /\ Queued(C.D, now) \in Nat
            /\ EndOf(C.D, now) \in Int
        BY <2>2, QueuedIs, EndIs
      <4>2. EndOf(C.D, now) = now
        BY <2>2, <3>2, <4>1
      <4>3. C.H = {}
        BY <2>2, <4>2, Silent
      <4> QED  BY <2>1, <3>2, <4>3
    <3> QED  BY <3>1, <3>2
  <2>4. /\ now' \in 0 .. MaxTime /\ sent' \in Nat /\ lost' \in 0 .. sent'
        /\ nonblock' \in BOOLEAN /\ restarted' \in BOOLEAN
    <3>1. now' = now /\ sent' = sent /\ lost' = sent /\ nonblock' = nonblock /\ restarted' = FALSE
      BY <2>1, Zenon
    <3>2. now \in 0 .. MaxTime /\ sent \in Nat /\ nonblock \in BOOLEAN
      BY <1>3
    <3>3. sent \in 0 .. sent /\ FALSE \in BOOLEAN
      BY <3>2, UpToSelf
    <3> QED  BY <3>1, <3>2, <3>3, Zenon
  <2>5. Blank'
    BY <2>1, <2>3, <2>4, Zenon DEF Blank
  <2> QED  BY <2>5, BlankNext
<1> QED  BY <1>4, <1>5

LEMMA KeepsClose ==
  ASSUME IInv, NEW signal, Close(signal)
  PROVE  IInv'
<1>1. Executes /\ Closing(signal) /\ now' = now /\ nonblock' = nonblock /\ exited' = exited
  BY Zenon DEF Close
<1> QED  BY <1>1, ExecutesIs, ReleasedIs

LEMMA Joined ==
  ASSUME NEW W, NEW h, NEW t \in Int, NEW loose \in BOOLEAN, LogOK(W, h, t, loose),
         NEW runs \in BOOLEAN, h.dsp.state = "running" => runs
  PROVE  LogOK(W, h, t, loose /\ runs)
<1>1. CASE runs
  <2>1. (loose /\ runs) = loose
    BY <1>1
  <2> QED  BY <2>1, Zenon
<1>2. CASE ~runs
  <2>1. (loose /\ runs) = FALSE
    BY <1>2
  <2>2. h.dsp.state # "running"
    BY <1>2
  <2>3. LogOK(W, h, t, FALSE)
    BY <2>2, LogTight
  <2> QED  BY <2>1, <2>3, Zenon
<1> QED  BY <1>1, <1>2

\* poll() looks at the ring.
LEMMA PolledIs ==
  ASSUME IInv, NEW U, U = Updated(dsp, now)
  PROVE  /\ RingOK(U, now) /\ BufferOK(U, staging) /\ HostOK(U, host, now, restarted)
         /\ (Fits(dsp, now) => Fits(U, now)) /\ SameClock(dsp, U) /\ Stays(dsp, U, now)
         /\ U \in Ring
<1>1. /\ RingOK(dsp, now) /\ BufferOK(dsp, staging) /\ HostOK(dsp, host, now, restarted)
      /\ now \in Int /\ dsp \in Ring
  BY Inside DEF Begun, RingOK
<1>2. /\ RingOK(U, now) /\ EndOf(U, now) = EndOf(dsp, now)
      /\ (U = dsp \/ (U = [dsp EXCEPT !.state = "xrun"] /\ dsp.state = "running"))
  BY <1>1, UpdatedIs
<1>3. U \in Ring
  BY <1>2 DEF RingOK
<1>4. /\ U.set = dsp.set /\ U.params = dsp.params /\ U.prepare = dsp.prepare /\ U.period = dsp.period
      /\ U.periods = dsp.periods /\ U.buffer_used = dsp.buffer_used
      /\ U.period_ptr = dsp.period_ptr /\ U.bytes = dsp.bytes /\ U.segment = dsp.segment
      /\ U.t0 = dsp.t0 /\ U.written = dsp.written
      /\ (U.state = dsp.state \/ (dsp.state = "running" /\ U.state = "xrun"))
  BY <1>1, <1>2 DEF Ring
<1>5. BufferOK(U, staging)
  BY <1>1, <1>4 DEF BufferOK
<1>6. HostOK(U, host, now, restarted)
  BY <1>1, <1>2, Zenon DEF HostOK
<1>7. SameClock(dsp, U) /\ Stays(dsp, U, now)
  BY <1>4 DEF SameClock, SameFragment, Stays
<1>8. ASSUME Fits(dsp, now) PROVE Fits(U, now)
  <2>1. CASE U = dsp
    BY <1>8, <2>1, Zenon
  <2>2. CASE U.state = "xrun"
    BY <2>2 DEF Fits
  <2> QED  BY <1>1, <1>2, <2>1, <2>2 DEF Ring
<1> QED  BY <1>2, <1>3, <1>5, <1>6, <1>7, <1>8

LEMMA KeepsPoll ==
  ASSUME IInv, Poll
  PROVE  IInv'
<1> DEFINE U == Updated(dsp, now)
           still == restarted /\ U.state = "running"
<1>1. /\ owned /\ ~exited /\ call.kind = "none" /\ dsp' = U
      /\ restarted' = still /\ now' = now /\ owned' = owned
      /\ nonblock' = nonblock /\ staging' = staging /\ host' = host /\ call' = call
      /\ exited' = exited /\ log' = log /\ sent' = sent /\ lost' = lost
  BY DEF Poll
<1>2. /\ Begun /\ lost \in Nat /\ now \in 0 .. MaxTime /\ now \in Nat /\ now \in Int
      /\ nonblock \in BOOLEAN /\ restarted \in BOOLEAN /\ (exited \/ Fits(dsp, now))
      /\ StreamHere /\ CallOK /\ log \in Seq(Entries) /\ Len(log) <= MaxLog
      /\ LogOK(Whole, Found, now, restarted) /\ sent \in Nat
  BY Inside
<1>3. /\ RingOK(U, now) /\ BufferOK(U, staging) /\ HostOK(U, host, now, restarted)
      /\ Fits(U, now) /\ SameClock(dsp, U) /\ Stays(dsp, U, now) /\ U \in Ring
  <2> HIDE DEF U
  <2>1. Fits(dsp, now)
    BY <1>1, <1>2
  <2> QED  BY <2>1, PolledIs DEF U
<1> HIDE DEF U
<1>4. HostOK(U, host, now, still)
  <2>1. restarted => still \/ U.state # "running"
    OBVIOUS
  <2> DEFINE loose == restarted
  <2>2. HostOK(U, host, now, loose) /\ (loose => still \/ U.state # "running")
    BY <1>3, <2>1
  <2> HIDE DEF still, loose
  <2> QED  BY <1>2, <1>3, <2>2, HostTight
<1>5. Begun'
  <2>1. RingOK(dsp', now') /\ BufferOK(dsp', staging') /\ HostOK(dsp', host', now', restarted')
        /\ now' \in Nat /\ sent' \in Nat
    BY <1>1, <1>2, <1>3, <1>4, Zenon
  <2> QED  BY <2>1, Zenon DEF Begun
<1>6. StreamHere'
  <2>1. U.period_ptr = dsp.period_ptr /\ U.buffer_used = dsp.buffer_used /\ U.params = dsp.params
    BY <1>3 DEF SameClock, SameFragment
  <2>2. StreamOK(dsp'.period_ptr, dsp'.buffer_used, dsp'.params, staging', host',
                 sent' + call'.progress, lost')
    BY <1>1, <1>2, <2>1, Zenon DEF StreamHere
  <2> QED  BY <2>2, Zenon DEF StreamHere
<1>7. Whole = log /\ Whole' = log
  BY <1>1 DEF Whole
<1> DEFINE h == Found
           g == [dsp |-> U, staged |-> SubSeq(staging, 1, U.buffer_used), host |-> host, lost |-> lost]
<1>8. /\ FoundOK(h, now) /\ h.dsp = dsp /\ h.host = host
      /\ h.staged = SubSeq(staging, 1, dsp.buffer_used)
  BY <1>2, FoundHere
<1>9. FoundOK(g, now) /\ g.dsp = U /\ g.host = host /\ g.staged = SubSeq(staging, 1, U.buffer_used)
  <2>1. host \in SUBSET Notes
    BY <1>3 DEF HostOK
  <2> QED  BY <1>2, <1>3, <2>1, SnapIs
<1>10. Found' = g
  BY <1>1, Zenon DEF Found
<1> HIDE DEF g, h
<1>11. Aged(h, g, now, FALSE)
  <2>1. g.staged = h.staged
    BY <1>3, <1>8, <1>9, Zenon DEF SameClock, SameFragment
  <2>2. SameClock(h.dsp, g.dsp) /\ Stays(h.dsp, g.dsp, now) /\ g.host = h.host
    BY <1>3, <1>8, <1>9, Zenon
  <2> QED  BY <2>1, <2>2, Zenon DEF Aged
<1>12. LogOK(log, g, now, restarted)
  <2>1. LogOK(log, h, now, restarted)
    BY <1>2, <1>7, Zenon DEF h
  <2> QED  BY <1>2, <1>9, <1>11, <2>1, LogAged
<1>13. LogOK(log, g, now, still)
  <2> DEFINE runs == U.state = "running"
  <2>1. runs \in BOOLEAN /\ (g.dsp.state = "running" => runs)
    BY <1>9
  <2> HIDE DEF runs
  <2>2. LogOK(log, g, now, restarted /\ runs)
    BY <1>2, <1>12, <2>1, Joined
  <2> QED  BY <2>2, Zenon DEF runs
<1>14. LogOK(Whole', Found', now', restarted')
  BY <1>1, <1>7, <1>10, <1>13, Zenon
<1>15. CallOK' /\ Unowned'
  <2>1. call = NoCall
    BY <1>1, <1>2 DEF CallOK
  <2> QED  BY <1>1, <2>1 DEF CallOK, Unowned, NoCall
<1>16. /\ lost' \in Nat /\ now' \in 0 .. MaxTime /\ nonblock' \in BOOLEAN
       /\ log' \in Seq(Entries) /\ Len(log') <= MaxLog
  BY <1>1, <1>2, Zenon
<1>17. restarted' \in BOOLEAN
  BY <1>1
<1>18. Fits(dsp', now')
  BY <1>1, <1>3, Zenon
<1> QED  BY <1>5, <1>6, <1>14, <1>15, <1>16, <1>17, <1>18, Zenon DEF IInv

LEMMA KeepsKilled ==
  ASSUME IInv, Killed
  PROVE  IInv'
<1> DEFINE C == IF owned THEN OssProgramKilled(call.progress) ELSE BeginPass(0)
<1>1. /\ ~exited /\ Keep(C) /\ sent' = sent + call.progress /\ call' = NoCall /\ log' = <<>>
      /\ exited' = TRUE /\ now' = now /\ owned' = owned /\ nonblock' = nonblock
  BY Zenon DEF Killed
<1>2. /\ now \in 0 .. MaxTime /\ now \in Int /\ nonblock \in BOOLEAN /\ sent \in Nat
      /\ call.progress \in Nat /\ CallOK /\ Unowned
  BY Inside
<1>3. ~owned => call.progress = 0 /\ host = {}
  BY <1>2 DEF CallOK, NoCall, Unowned
<1>4. Sound(C, "block") /\ C.progress = call.progress /\ (~owned => C.H = {})
  <2>1. Sound(BeginPass(call.progress), "block") /\ BeginPass(call.progress).progress = call.progress
        /\ BeginPass(call.progress).H = host
    BY <1>1, PassBegins
  <2>2. Done(OssProgramKilled(call.progress), "block", call.progress)
    BY <2>1, KilledIs
  <2>3. CASE owned
    BY <2>2, <2>3 DEF Done
  <2>4. CASE ~owned
    <3>1. C = BeginPass(call.progress)
      BY <1>3, <2>4, Zenon
    <3> HIDE DEF C
    <3> QED  BY <1>3, <2>1, <2>4, <3>1, Zenon
  <2> QED  BY <2>3, <2>4
<1> HIDE DEF C
<1>5. sent' \in Nat /\ call'.progress = 0 /\ call'.kind = "none" /\ sent' + call'.progress = sent + C.progress
  <2>1. sent' \in Nat /\ call'.progress = 0 /\ call'.kind = "none"
    BY <1>1, <1>2 DEF NoCall
  <2>2. sent' + call'.progress = sent'
    BY <2>1, PlusNone, Zenon
  <2> QED  BY <1>1, <1>4, <2>1, <2>2, Zenon
<1>6. /\ Begun' /\ lost' \in Nat /\ restarted' \in BOOLEAN /\ StreamHere'
      /\ Found' = Ended(C) /\ host' = C.H
  BY <1>1, <1>4, <1>5, KeepIs
<1>7. LogOK(Whole', Found', now', restarted')
  <2>1. FoundOK(Ended(C), now)
    BY <1>4, EndedIs
  <2>2. Whole' = <<>>
    BY <1>1, <1>5 DEF Whole
  <2>3. LogOK(<<>>, Ended(C), now, restarted')
    BY <2>1, LogEmpty
  <2> QED  BY <1>1, <1>6, <2>2, <2>3, Zenon
<1>8. CallOK'
  BY <1>1, <1>5 DEF CallOK
<1>9. Unowned'
  BY <1>1, <1>4, <1>6 DEF Unowned
<1>10. now' \in 0 .. MaxTime /\ nonblock' \in BOOLEAN /\ log' \in Seq(Entries)
  BY <1>1, <1>2
<1>11. Len(log') <= MaxLog
  BY <1>1, DspAssumption
<1> QED  BY <1>1, <1>6, <1>7, <1>8, <1>9, <1>10, <1>11, Zenon DEF IInv

LEMMA KeepsExit ==
  ASSUME IInv, NEW faults, Exit(faults)
  PROVE  IInv'
<1> DEFINE C == IF ~owned THEN BeginPass(0) ELSE IF faults THEN OssProgramKilled(0)
                ELSE Sync(BeginPass(0), "force")
           e == Entry(call.records \o Records(C), FoundBy, TRUE)
<1>1. /\ ~exited /\ call.kind = "none" /\ Len(log) < MaxLog /\ Exits(C)
      /\ now' = now /\ owned' = owned /\ nonblock' = nonblock /\ call' = call /\ sent' = sent
  BY Zenon DEF Exit
<1>2. Keep(C) /\ log' = Logged(Entry(Records(C), Found, TRUE), C) /\ exited' = TRUE
  BY <1>1, Zenon DEF Exits
<1>3. /\ now \in 0 .. MaxTime /\ now \in Int /\ nonblock \in BOOLEAN /\ sent \in Nat
      /\ CallOK /\ Unowned /\ restarted \in BOOLEAN /\ Len(log) \in Nat /\ log \in Seq(Entries)
      /\ Begun /\ lost \in Nat
  BY Inside
<1>4. call = NoCall /\ call.progress = 0 /\ call.records = <<>> /\ FoundBy = Found
  BY <1>1, <1>3 DEF CallOK, NoCall, FoundBy
<1>5. Sound(C, "force") /\ C.progress = 0 /\ (~owned => C.H = {})
  <2>1. Sound(BeginPass(0), "force") /\ BeginPass(0).progress = 0 /\ BeginPass(0).H = host
    BY <1>4, PassBegins
  <2>2. CASE ~owned
    <3>1. C = BeginPass(0) /\ host = {}
      BY <1>3, <2>2 DEF Unowned
    <3> HIDE DEF C
    <3> QED  BY <2>1, <3>1, Zenon
  <2>3. CASE owned /\ faults
    <3>1. Done(OssProgramKilled(0), "force", 0)
      BY <2>1, KilledIs
    <3>2. C = OssProgramKilled(0)
      BY <2>3
    <3> HIDE DEF C
    <3>3. Done(C, "force", 0)
      BY <3>1, <3>2, Zenon
    <3> QED  BY <2>3, <3>3 DEF Done
  <2>4. CASE owned /\ ~faults
    <3>1. Sound(Sync(BeginPass(0), "force"), "force") /\ Sync(BeginPass(0), "force").progress = 0
      BY <1>4, SyncedIs
    <3>2. C = Sync(BeginPass(0), "force")
      BY <2>4
    <3> HIDE DEF C
    <3> QED  BY <2>4, <3>1, <3>2, Zenon
  <2> QED  BY <2>2, <2>3, <2>4
<1>6. log' \in After(C, TRUE)
  <2>1. Records(C) \in Seq(Changes)
    BY <1>5, RecordsAre
  <2> HIDE DEF C
  <2>2. <<>> \o Records(C) = Records(C)
    BY <2>1, ConcatEmptySeq
  <2>3. e = Entry(Records(C), Found, TRUE)
    BY <1>4, <2>2, Zenon
  <2>4. log' = Logged(e, C)
    BY <1>2, <2>3, Zenon
  <2> HIDE DEF e
  <2>5. Logged(e, C) \in After(C, TRUE)
    BY LoggedIn DEF e
  <2> QED  BY <2>4, <2>5
<1> HIDE DEF C, e
<1>7. sent' \in Nat /\ sent' + call'.progress = sent + C.progress
  BY <1>1, <1>3, <1>4, <1>5
<1>8. /\ Begun' /\ lost' \in Nat /\ restarted' \in BOOLEAN /\ StreamHere'
      /\ Found' = Ended(C) /\ host' = C.H
      /\ (restarted' <=> restarted /\ C.D.state = "running")
  BY <1>1, <1>2, <1>5, <1>7, KeepIs
<1>9. /\ LogOK(log', Ended(C), now, restarted')
      /\ Len(log') = Len(log) + 1 /\ log' \in Seq(Entries)
      /\ \A i \in 1 .. Len(log) : log'[i].found = log[i].found
      /\ log'[Len(log) + 1].found = FoundBy
  <2>1. restarted' = (restarted /\ C.D.state = "running")
    BY <1>3, <1>8
  <2> QED  BY <1>1, <1>5, <1>6, <2>1, PassLogged
<1>10. LogOK(Whole', Found', now', restarted')
  <2>1. Whole' = log'
    BY <1>1 DEF Whole
  <2> QED  BY <1>1, <1>8, <1>9, <2>1, Zenon
<1>11. CallOK'
  BY <1>1, <1>4 DEF CallOK, NoCall
<1>12. Unowned'
  <2>1. ASSUME ~owned'
        PROVE  host' = {} /\ \A i \in 1 .. Len(log') : log'[i].found.host = {}
    <3>1. ~owned
      BY <1>1, <2>1, Zenon
    <3>2. host = {} /\ host' = {} /\ \A i \in 1 .. Len(log) : log[i].found.host = {}
      BY <1>3, <1>5, <1>8, <3>1, Zenon DEF Unowned
    <3>3. FoundBy.host = {}
      BY <1>3, <1>4, <3>2, FoundHere
    <3>4. ASSUME NEW i \in 1 .. Len(log') PROVE log'[i].found.host = {}
      <4>1. CASE i = Len(log) + 1
        BY <1>9, <3>3, <4>1, Zenon
      <4>2. CASE i # Len(log) + 1
        <5>1. i \in 1 .. Len(log)
          BY <1>3, <1>9, <4>2
        <5> QED  BY <1>9, <3>2, <5>1, Zenon
      <4> QED  BY <4>1, <4>2
    <3> QED  BY <3>2, <3>4
  <2> QED  BY <2>1, Zenon DEF Unowned
<1>13. now' \in 0 .. MaxTime /\ nonblock' \in BOOLEAN
  BY <1>1, <1>3
<1>14. Len(log') <= MaxLog
  BY <1>1, <1>3, <1>9, DspAssumption
<1> QED  BY <1>2, <1>8, <1>9, <1>10, <1>11, <1>12, <1>13, <1>14, Zenon DEF IInv

LEMMA KeepsNonblock ==
  ASSUME IInv, Nonblock
  PROVE  IInv'
<1> DEFINE r == [kind |-> "status", status |-> nonblock]
           rs == <<r>>
           h == Found
           f == Entry(rs, h, FALSE)
           e == Entry(<<>>, h, FALSE)
           A == Append(log, e)
<1>1. /\ Executes /\ nonblock' = TRUE /\ log' = Append(log, f)
      /\ now' = now /\ owned' = owned /\ dsp' = dsp /\ staging' = staging /\ host' = host
      /\ call' = call /\ exited' = exited /\ sent' = sent /\ lost' = lost /\ restarted' = restarted
  BY DEF Nonblock
<1>2. /\ Begun /\ lost \in Nat /\ now \in 0 .. MaxTime /\ now \in Int /\ restarted \in BOOLEAN
      /\ (exited \/ Fits(dsp, now)) /\ StreamHere /\ CallOK /\ sent \in Nat
      /\ log \in Seq(Entries) /\ Len(log) \in Nat /\ nonblock \in BOOLEAN
  BY Inside
<1>3. owned /\ ~exited /\ call.kind = "none" /\ Len(log) < MaxLog /\ call = NoCall
  BY <1>1, ExecutesIs
<1>4. call.records = <<>> /\ FoundBy = Found
  BY <1>3 DEF NoCall, FoundBy
<1>5. r \in Changes /\ r.kind = "status"
  BY <1>2 DEF Changes
<1>6. FoundOK(h, now) /\ h \in Founds /\ h.dsp \in Ring
  BY <1>2, FoundHere DEF FoundOK, Founds
<1> HIDE DEF r, h
<1>7. rs \in Seq(Changes) /\ Marks(rs, FALSE) /\ <<>> \o rs = rs /\ <<>> \in Seq(Changes)
  <2>1. ~Stops(r)
    BY <1>5 DEF Stops
  <2>2. rs \in Seq(Changes)
    BY <1>5
  <2>3. Marks(rs, FALSE)
    BY <1>5, <2>1, Zenon DEF Marks
  <2>4. <<>> \o rs = rs
    BY <2>2, ConcatEmptySeq
  <2>5. <<>> \in Seq(Changes)
    OBVIOUS
  <2> QED  BY <2>2, <2>3, <2>4, <2>5, Zenon
<1>8. Passes(rs, h, h, now, FALSE)
  <2>1. Older(h.dsp, h.dsp, now, FALSE)
    BY <1>6, OlderSelf
  <2>2. Back(r, h, h, now, FALSE)
    BY <1>5, AgedSelf, Zenon DEF Back
  <2> QED  BY <1>6, <2>1, <2>2, Zenon DEF Passes
<1>9. LogOK(A, h, now, restarted)
  <2>1. LogOK(Start(FALSE), Found, now, restarted)
    BY <1>3, StartIs
  <2>2. Start(FALSE) = A
    BY <1>4, Zenon DEF Start, h
  <2> QED  BY <2>1, <2>2, Zenon DEF h
<1> HIDE DEF rs
<1>10. Does(e, f, rs, FALSE)
  <2>1. Does(Entry(<<>>, h, FALSE), Entry(<<>> \o rs, h, FALSE), rs, FALSE)
    BY <1>2, <1>6, <1>7, EntryMore
  <2> QED  BY <1>7, <2>1, Zenon
<1> HIDE DEF e, f
<1>11. log' \in Longer(log, f, FALSE)
  BY <1>1, Zenon DEF Longer, Marked
<1> HIDE DEF A
<1>12. Extends(A, log', rs, FALSE)
  BY <1>2, <1>10, <1>11, LongerExtends DEF A
<1>13. LogOK(log', h, now, restarted)
  BY <1>2, <1>8, <1>9, <1>12, LogExtends
<1>14. f \in Entries
  BY <1>10 DEF Does
<1>15. log' \in Seq(Entries) /\ Len(log') = Len(log) + 1
  BY <1>1, <1>2, <1>14, AppendProperties
<1>16. LogOK(Whole', Found', now', restarted')
  <2>1. Whole' = log'
    BY <1>1, <1>3 DEF Whole
  <2>2. Found' = h
    BY <1>1, Zenon DEF Found, h
  <2> QED  BY <1>1, <1>13, <2>1, <2>2, Zenon
<1>17. Begun'
  BY <1>1, <1>2, Zenon DEF Begun
<1>18. StreamHere'
  BY <1>1, <1>2, Zenon DEF StreamHere
<1>19. CallOK' /\ Unowned'
  BY <1>1, <1>3 DEF CallOK, Unowned, NoCall
<1>20. Fits(dsp', now') /\ lost' \in Nat /\ now' \in 0 .. MaxTime /\ restarted' \in BOOLEAN
  BY <1>1, <1>2, <1>3, Zenon
<1>21. nonblock' \in BOOLEAN
  BY <1>1
<1>22. Len(log') <= MaxLog
  BY <1>2, <1>3, <1>15, DspAssumption
<1> QED  BY <1>15, <1>16, <1>17, <1>18, <1>19, <1>20, <1>21, <1>22, Zenon DEF IInv

LEMMA KeepsResume ==
  ASSUME IInv, NEW interrupted, Resume(interrupted)
  PROVE  IInv'
<1>1. /\ call.kind # "none" /\ now' = now /\ nonblock' = nonblock /\ exited' = exited
      /\ CASE call.kind = "write" -> Writing(call.size, call.progress, interrupted) /\ UNCHANGED owned
           [] call.kind = "sync" -> Syncing(interrupted) /\ UNCHANGED owned
           [] call.kind = "close" -> Closing(interrupted)
  BY Zenon DEF Resume
<1>2. /\ owned /\ ~exited /\ Len(log) < MaxLog /\ call.kind \in {"write", "sync", "close"}
      /\ call.size \in Nat /\ call.progress \in 0 .. call.size
      /\ (call.kind # "write" => call.progress = 0) /\ nonblock \in BOOLEAN
  BY <1>1, Inside DEF CallOK
<1>3. ASSUME owned' = owned PROVE Held
  <2>1. nonblock' \in BOOLEAN /\ ~exited'
    BY <1>1, <1>2
  <2>2. owned'
    BY <1>2, <1>3, Zenon
  <2> QED  BY <1>1, <2>1, <2>2, Zenon DEF Held
<1>4. CASE call.kind = "write"
  <2>1. Writing(call.size, call.progress, interrupted) /\ owned' = owned
    BY <1>1, <1>4
  <2> QED  BY <1>2, <1>3, <2>1, WritingIs
<1>5. CASE call.kind = "sync"
  <2>1. Syncing(interrupted) /\ owned' = owned
    BY <1>1, <1>5
  <2> QED  BY <1>2, <1>3, <1>5, <2>1, SyncingIs
<1>6. CASE call.kind = "close"
  <2>1. Closing(interrupted)
    BY <1>1, <1>6
  <2> QED  BY <1>1, <1>2, <1>6, <2>1, ReleasedIs
<1> QED  BY <1>2, <1>4, <1>5, <1>6

LEMMA KeepsTick ==
  ASSUME IInv, Tick
  PROVE  IInv'
<1> DEFINE u == now'
           h == Found
           K == Left(host, u)
           s == SubSeq(staging, 1, dsp.buffer_used)
           g == [dsp |-> dsp, staged |-> s, host |-> K, lost |-> lost]
<1>1. /\ now < MaxTime /\ u = now + 1 /\ host' = {x \in host : x.at > now}
      /\ owned' = owned /\ nonblock' = nonblock /\ dsp' = dsp /\ staging' = staging /\ call' = call
      /\ exited' = exited /\ log' = log /\ sent' = sent /\ lost' = lost /\ restarted' = restarted
  BY DEF Tick
<1>2. /\ Begun /\ lost \in Nat /\ now \in 0 .. MaxTime /\ now \in Nat /\ now \in Int
      /\ nonblock \in BOOLEAN /\ restarted \in BOOLEAN /\ (exited \/ Fits(dsp, now))
      /\ StreamHere /\ CallOK /\ Unowned /\ log \in Seq(Entries) /\ Len(log) <= MaxLog
      /\ LogOK(Whole, Found, now, restarted) /\ sent \in Nat
  BY Inside
<1>3. u \in Nat /\ u \in Int /\ now <= u /\ u \in 0 .. MaxTime
  <2>1. MaxTime \in Nat
    BY DspAssumption
  <2> HIDE DEF u
  <2> QED  BY <1>1, <1>2, <2>1
<1>4. /\ RingOK(dsp, now) /\ BufferOK(dsp, staging) /\ HostOK(dsp, host, now, restarted)
      /\ dsp \in Ring /\ host \in SUBSET Notes
  BY <1>2 DEF Begun, RingOK, HostOK
<1> HIDE DEF u
<1>5. host' = K
  <2>1. \A x \in host : x.at > now <=> x.at >= u
    BY <1>1, <1>2, <1>4 DEF Notes
  <2> QED  BY <1>1, <2>1, Zenon DEF Left
<1>6. RingOK(dsp, u) /\ (Fits(dsp, now) => Fits(dsp, u))
  BY <1>2, <1>3, <1>4, RingLater
<1>7. HostOK(dsp, K, u, restarted)
  BY <1>2, <1>3, <1>4, HostLater
<1>8. Begun'
  <2>1. RingOK(dsp', now') /\ BufferOK(dsp', staging') /\ HostOK(dsp', host', now', restarted')
        /\ now' \in Nat /\ sent' \in Nat
    BY <1>1, <1>2, <1>3, <1>4, <1>5, <1>6, <1>7, Zenon DEF u
  <2> QED  BY <2>1, Zenon DEF Begun
<1>9. StreamHere'
  <2>1. dsp.period_ptr \in Nat /\ dsp.buffer_used \in Nat
    BY <1>4, RingIs
  <2>2. StreamOK(dsp.period_ptr, dsp.buffer_used, dsp.params, staging, host, sent + call.progress, lost)
    BY <1>2, Zenon DEF StreamHere
  <2>3. StreamOK(dsp.period_ptr, dsp.buffer_used, dsp.params, staging, K, sent + call.progress, lost)
    BY <1>3, <1>4, <2>1, <2>2, StreamLater
  <2> HIDE DEF K
  <2> QED  BY <1>1, <1>5, <2>3, Zenon DEF StreamHere
<1>10. /\ FoundOK(h, now) /\ h.dsp = dsp /\ h.host = host /\ h.staged = s
  BY <1>2, FoundHere
<1>11. FoundOK(g, u) /\ g.dsp = dsp /\ g.host = K /\ g.staged = s
  <2>1. K \in SUBSET Notes
    BY <1>4 DEF Left
  <2> HIDE DEF K
  <2> QED  BY <1>2, <1>4, <1>6, <2>1, SnapIs
<1>12. Left(K, u) = Left(host, u)
  BY <1>3, <1>4, LeftTwice
<1>13. Found' = g
  <2> HIDE DEF K
  <2> QED  BY <1>1, <1>5, Zenon DEF Found
<1> HIDE DEF g, h
<1>14. Aged(h, g, u, FALSE)
  <2>1. Left(g.host, u) = Left(h.host, u) /\ g.staged = h.staged
    BY <1>10, <1>11, <1>12, Zenon
  <2>2. SameClock(h.dsp, g.dsp) /\ Stays(h.dsp, g.dsp, u)
    BY <1>10, <1>11 DEF SameClock, SameFragment, Stays
  <2> QED  BY <2>1, <2>2, Zenon DEF Aged
<1>15. LogOK(Whole, g, u, restarted)
  <2>1. LogOK(Whole, h, now, restarted)
    BY <1>2, Zenon DEF h
  <2>2. LogOK(Whole, h, u, restarted)
    BY <1>2, <1>3, <2>1, LogLater
  <2> QED  BY <1>3, <1>11, <1>14, <2>2, LogAged
<1>16. Whole' = Whole
  BY <1>1, Zenon DEF Whole, Entry
<1>17. LogOK(Whole', Found', now', restarted')
  BY <1>1, <1>13, <1>15, <1>16, Zenon DEF u
<1>18. CallOK'
  BY <1>1, <1>2, Zenon DEF CallOK, NoCall
<1>19. Unowned'
  <2>1. host = {} => K = {}
    BY DEF Left
  <2> HIDE DEF K
  <2> QED  BY <1>1, <1>2, <1>5, <2>1, Zenon DEF Unowned
<1>20. /\ lost' \in Nat /\ now' \in 0 .. MaxTime /\ nonblock' \in BOOLEAN /\ restarted' \in BOOLEAN
       /\ log' \in Seq(Entries) /\ Len(log') <= MaxLog /\ (exited' \/ Fits(dsp', now'))
  BY <1>1, <1>2, <1>3, <1>6, Zenon DEF u
<1> QED  BY <1>8, <1>9, <1>17, <1>18, <1>19, <1>20, Zenon DEF IInv

LEMMA AgedEnds ==
  ASSUME NEW t \in Int, NEW Z, NEW X, NEW st, FoundOK(Z, t), FoundOK(X, t), Aged(Z, X, t, st)
  PROVE  /\ \/ EndOf(X.dsp, t) = EndOf(Z.dsp, t)
            \/ st /\ EndOf(X.dsp, t) = t /\ Left(X.host, t) = {}
         /\ (Fits(Z.dsp, t) => Fits(X.dsp, t))
<1> DEFINE D == Z.dsp
           E == X.dsp
<1>1. /\ D \in Ring /\ E \in Ring /\ D.segment \in Nat /\ D.t0 \in Nat /\ D.written \in Nat
      /\ E.t0 \in Nat /\ E.written \in Nat /\ D.state \in States /\ E.state \in States
      /\ (E.state = "xrun" => E.t0 + E.written <= t)
      /\ (D.state = "xrun" => D.t0 + D.written <= t)
  BY FoundIs
<1>2. E.period = D.period /\ E.periods = D.periods
  BY Zenon DEF Aged, SameClock, SameFragment
<1>3. Capacity(E) = Capacity(D) /\ Capacity(E) \in Nat
  <2>1. Capacity(E) = Capacity(D)
    BY <1>2, Zenon DEF Capacity
  <2> QED  BY <1>1, <2>1, CapacityIs
<1>4. \/ Stays(D, E, t) \/ Replays(D, E, t)
      \/ Restarts(D, E, t, st) /\ Left(X.host, t) = {}
  BY Zenon DEF Aged
<1> HIDE DEF D, E
<1>5. CASE Stays(D, E, t)
  <2>1. E.t0 = D.t0 /\ E.written = D.written
        /\ (E.state = D.state \/ (D.state = "running" /\ E.state = "xrun"))
    BY <1>5 DEF Stays
  <2>2. EndOf(E, t) = EndOf(D, t)
    BY <1>1, <2>1 DEF EndOf
  <2>3. Fits(D, t) => Fits(E, t)
    BY <1>1, <1>3, <2>1 DEF Fits
  <2> QED  BY <2>2, <2>3 DEF D, E
<1>6. CASE Replays(D, E, t)
  <2>1. E.written > D.written /\ E.t0 + E.written <= t /\ (Plays(D) => E.t0 = D.t0)
    BY <1>6 DEF Replays
  <2>2. EndOf(E, t) = t /\ EndOf(D, t) = t
    BY <1>1, <2>1 DEF EndOf, Plays
  <2>3. Fits(E, t)
    BY <1>1, <1>3, <2>1 DEF Fits
  <2> QED  BY <2>2, <2>3 DEF D, E
<1>7. CASE Restarts(D, E, t, st) /\ Left(X.host, t) = {}
  <2>1. st /\ (E.state = "running" => E.t0 + E.written <= t)
    BY <1>7 DEF Restarts, PlayedOut
  <2>2. EndOf(E, t) = t
    BY <1>1, <2>1 DEF EndOf
  <2>3. Fits(E, t)
    BY <1>1, <1>3, <2>1 DEF Fits
  <2> QED  BY <1>7, <2>1, <2>2, <2>3 DEF D, E
<1> QED  BY <1>4, <1>5, <1>6, <1>7

AsFull(D, K, E, H, t, st) == st \/ (HostOK(D, K, t, FALSE) => HostOK(E, H, t, FALSE))

\* What the host has of a ring that was taken back.
LEMMA AgedHost ==
  ASSUME NEW t \in Int, NEW Z, NEW X, NEW st, FoundOK(Z, t), FoundOK(X, t), Aged(Z, X, t, st),
         NEW H, Left(X.host, t) = H, NEW K, Left(Z.host, t) = K,
         HostOK(Z.dsp, K, t, TRUE)
  PROVE  /\ HostOK(X.dsp, H, t, TRUE)
         /\ AsFull(Z.dsp, K, X.dsp, H, t, st)
<1> DEFINE D == Z.dsp
           E == X.dsp
<1>1. \/ EndOf(E, t) = EndOf(D, t)
      \/ st /\ EndOf(E, t) = t /\ Left(X.host, t) = {}
  BY AgedEnds
<1>2. \/ Left(X.host, t) = Left(Z.host, t)
      \/ st /\ Left(X.host, t) = {}
  BY Zenon DEF Aged
<1> HIDE DEF D, E
<1>3. HostOK(D, K, t, TRUE)
  BY DEF D
<1>4. CASE st /\ H = {}
  <2>1. HostOK(E, {}, t, TRUE)
    BY DEF HostOK
  <2> QED  BY <1>4, <2>1, Zenon DEF E, AsFull
<1>5. CASE ~(st /\ H = {})
  <2>1. H = K /\ EndOf(E, t) = EndOf(D, t)
    BY <1>1, <1>2, <1>5, Zenon
  <2>2. HostOK(E, H, t, TRUE)
    BY <1>3, <2>1, Zenon DEF HostOK
  <2>3. HostOK(D, K, t, FALSE) => HostOK(E, H, t, FALSE)
    BY <2>1, Zenon DEF HostOK
  <2> QED  BY <2>2, <2>3, Zenon DEF D, E, AsFull
<1> QED  BY <1>4, <1>5

\* What is still to be heard of the stream that was found.
LEMMA AgedStream ==
  ASSUME NEW t \in Int, NEW Z, NEW X, NEW st, FoundOK(Z, t), FoundOK(X, t), Aged(Z, X, t, st),
         NEW S, SubSeq(S, 1, X.dsp.buffer_used) = X.staged, BufferOK(X.dsp, S),
         NEW H, Left(X.host, t) = H, NEW N,
         StreamOK(Z.dsp.period_ptr, Z.dsp.buffer_used, Z.dsp.params, Z.staged, Z.host, N, Z.lost)
  PROVE  StreamOK(X.dsp.period_ptr, X.dsp.buffer_used, X.dsp.params, S, H, N, Z.lost)
<1> DEFINE p == Z.dsp.period_ptr
           b == Z.dsp.buffer_used
           par == Z.dsp.params
           L == Z.lost
           T == Z.staged
           K == Left(Z.host, t)
<1>1. /\ X.dsp.period_ptr = p /\ X.dsp.buffer_used = b /\ X.dsp.params = par /\ X.staged = T
      /\ (H = K \/ H = {})
  BY Zenon DEF Aged, SameClock, SameFragment
<1>2. /\ Z.dsp \in Ring /\ Z.host \in SUBSET Notes /\ RingOK(X.dsp, t) /\ X.staged \in Seq(Nat)
  BY FoundIs
<1>3. p \in Nat /\ b \in Nat
  BY <1>2, RingIs
<1>4. b <= Len(S) /\ S \in Seq(Nat)
  <2>1. X.dsp.buffer_used <= Len(S) /\ S \in Seq(Nat)
    BY <1>2, Fitting
  <2> QED  BY <1>1, <2>1
<1>5. \A i \in 1 .. b : T[i] = S[i]
  <2>1. \A i \in 1 .. b : SubSeq(S, 1, b)[i] = S[i]
    BY <1>3, <1>4, Prefix
  <2>2. SubSeq(S, 1, b) = T
    BY <1>1, Zenon
  <2> QED  BY <2>1, <2>2, Zenon
<1>6. StreamOK(p, b, par, T, Z.host, N, L)
  OBVIOUS
<1>7. L \in 0 .. N
  BY <1>6, Zenon DEF StreamOK
<1>8. K \in SUBSET Notes
  BY <1>2 DEF Left
<1>9. StreamOK(p, b, par, T, K, N, L)
  BY <1>2, <1>3, <1>6, StreamLater
<1> HIDE DEF p, b, par, L, T, K
<1>10. StreamOK(p, b, par, T, H, N, L)
  <2>1. CASE H = K
    BY <1>9, <2>1, Zenon
  <2>2. CASE H = {}
    <3>1. StreamOK(p, b, par, T, {}, N, L)
      BY <1>3, <1>7, <1>8, <1>9, StreamCut
    <3> QED  BY <2>2, <3>1, Zenon
  <2> QED  BY <1>1, <2>1, <2>2
<1>11. StreamOK(p, b, par, S, H, N, L)
  BY <1>3, <1>5, <1>10, StreamBuffer
<1> QED  BY <1>1, <1>11, Zenon DEF L

\* What an undo comes to.
UndoneTo(e, v) ==
  v = FoldRight(UndoRecord, e.records, [D |-> dsp, S |-> staging, H |-> host, status |-> nonblock])

\* What the last instruction found is what undo comes back to.
LEMMA UndoIs ==
  ASSUME IInv, call.kind = "none", log # <<>>, NEW e, e = log[Len(log)], NEW v, UndoneTo(e, v),
         NEW X, X = Undid(v, e.found.lost)
  PROVE  /\ Len(log) > 0 /\ EntryOK(e, now, restarted)
         /\ FoundOK(X, now) /\ Aged(e.found, X, now, e.stopped) /\ Like(v, X)
         /\ LogOK(log, Found, now, restarted) /\ X.lost = e.found.lost
<1> DEFINE n == Len(log)
           u == [D |-> dsp, S |-> staging, H |-> host, status |-> nonblock]
           h == Found
           m == e.found.lost
<1>1. /\ Begun /\ lost \in Nat /\ now \in Nat /\ now \in Int /\ nonblock \in BOOLEAN
      /\ log \in Seq(Entries) /\ n \in Nat /\ LogOK(Whole, Found, now, restarted)
  BY Inside
<1>2. n > 0
  BY <1>1
<1>3. LogOK(log, h, now, restarted)
  BY <1>1, Zenon DEF Whole
<1>4. /\ FoundOK(h, now) /\ h.dsp = dsp /\ h.host = host
      /\ h.staged = SubSeq(staging, 1, dsp.buffer_used)
  BY <1>1, FoundHere
<1> HIDE DEF h, n
<1>5. EntryOK(e, now, restarted) /\ Leads(e, h, h, now)
  <2>1. n \in 1 .. Len(log) /\ ~(n < Len(log))
    BY <1>1, <1>2 DEF n
  <2>2. EntryOK(log[n], now, restarted) /\ Leads(log[n], NextOf(log, h, n), h, now)
    BY <1>3, <2>1, LogIs, Zenon
  <2>3. NextOf(log, h, n) = h
    BY <2>1, Zenon DEF NextOf
  <2> QED  BY <2>2, <2>3, Zenon DEF n
<1>6. FoundOK(e.found, now) /\ m \in Nat
  <2>1. FoundOK(e.found, now)
    BY <1>5, EntryIs
  <2> QED  BY <2>1, FoundIs
<1>7. Chain(e.records, e.found, h, now, e.stopped)
  BY <1>5, Zenon DEF Leads
<1>8. Like(u, h)
  <2>1. /\ dsp \in Ring /\ staging \in Seq(Nat) /\ host \in SUBSET Notes /\ BufferOK(dsp, staging)
        /\ \A x \in host : now <= x.at
    BY <1>1 DEF Begun, RingOK, BufferOK, HostOK
  <2>2. u \in Undone
    BY <1>1, <2>1 DEF Undone
  <2>3. u.D = dsp /\ u.S = staging /\ u.H = host
    OBVIOUS
  <2> HIDE DEF u
  <2> QED  BY <1>4, <2>1, <2>2, <2>3, Zenon DEF Like
<1>9. v = FoldRight(UndoRecord, e.records, u)
  BY Zenon DEF UndoneTo
<1> HIDE DEF u, m
<1>10. FoundOK(X, now) /\ Aged(e.found, X, now, e.stopped) /\ Like(v, X)
  <2>1. X = Undid(v, m)
    BY DEF m
  <2>2. /\ FoundOK(Undid(FoldRight(UndoRecord, e.records, u), m), now)
        /\ Aged(e.found, Undid(FoldRight(UndoRecord, e.records, u), m), now, e.stopped)
        /\ Like(FoldRight(UndoRecord, e.records, u), Undid(FoldRight(UndoRecord, e.records, u), m))
    BY <1>1, <1>4, <1>6, <1>7, <1>8, UndoEntry
  <2> QED  BY <1>9, <2>1, <2>2, Zenon
<1>11. X.lost = e.found.lost
  BY DEF Undid
<1> QED  BY <1>2, <1>3, <1>5, <1>10, <1>11, Zenon DEF h, n

LEMMA UndidParts ==
  ASSUME NEW v, NEW n, NEW X, X = Undid(v, n)
  PROVE  /\ X.dsp = v.D /\ X.staged = SubSeq(v.S, 1, v.D.buffer_used) /\ X.host = v.H /\ X.lost = n
BY DEF Undid

LEMMA FrontIs ==
  ASSUME NEW T, NEW W \in Seq(T), Len(W) > 0
  PROVE  /\ Front(W) \in Seq(T) /\ Len(Front(W)) = Len(W) - 1
         /\ \A i \in 1 .. Len(W) - 1 : Front(W)[i] = W[i]
<1>1. Len(W) - 1 \in Nat /\ Len(W) - 1 <= Len(W)
  OBVIOUS
<1>2. Front(W) = SubSeq(W, 1, Len(W) - 1)
  BY DEF Front
<1> QED  BY <1>1, <1>2, Prefix, ZenonT(60)

LEMMA KeepsUndo ==
  ASSUME IInv, Undo
  PROVE  IInv'
<1> DEFINE e == Last(log)
           v == FoldRight(UndoRecord, e.records,
                          [D |-> dsp, S |-> staging, H |-> host, status |-> nonblock])
           X == Undid(v, e.found.lost)
           loose == restarted \/ e.stopped
           runs == v.D.state = "running"
           H == v.H
           K == Left(e.found.host, now)
<1>1. /\ call.kind = "none" /\ log # <<>> /\ dsp' = v.D /\ staging' = v.S /\ host' = v.H
      /\ nonblock' = v.status /\ exited' = (exited /\ ~e.exits) /\ log' = Front(log)
      /\ sent' = e.sent /\ lost' = e.found.lost /\ restarted' = (loose /\ runs)
      /\ now' = now /\ owned' = owned /\ call' = call
  BY Zenon DEF Undo
<1>2. e = log[Len(log)]
  BY DEF Last
<1>3. UndoneTo(e, v)
  BY Zenon DEF UndoneTo
<1>4. X = Undid(v, e.found.lost)
  OBVIOUS
<1> HIDE DEF e, v, X
<1>5. /\ Len(log) > 0 /\ EntryOK(e, now, restarted)
      /\ FoundOK(X, now) /\ Aged(e.found, X, now, e.stopped) /\ Like(v, X)
      /\ LogOK(log, Found, now, restarted)
  BY <1>1, <1>2, <1>3, <1>4, UndoIs
<1>6. X.dsp = v.D /\ X.staged = SubSeq(v.S, 1, v.D.buffer_used) /\ X.host = v.H /\ X.lost = e.found.lost
  BY <1>4, UndidParts
<1>7. /\ now \in 0 .. MaxTime /\ now \in Nat /\ now \in Int /\ restarted \in BOOLEAN
      /\ CallOK /\ Unowned /\ log \in Seq(Entries) /\ Len(log) <= MaxLog /\ Len(log) \in Nat
  BY Inside
<1>8. /\ FoundOK(e.found, now) /\ e.stopped \in BOOLEAN /\ e.sent \in Nat
  BY <1>5, EntryIs
<1>9. /\ Fits(e.found.dsp, now) /\ HostOK(e.found.dsp, K, now, TRUE)
      /\ (restarted \/ e.stopped \/ HostOK(e.found.dsp, K, now, FALSE))
      /\ StreamOK(e.found.dsp.period_ptr, e.found.dsp.buffer_used, e.found.dsp.params,
                  e.found.staged, e.found.host, e.sent, e.found.lost)
  BY <1>5, Zenon DEF EntryOK
<1>10. /\ v \in Undone /\ BufferOK(v.D, v.S) /\ \A x \in v.H : now <= x.at
       /\ v.H \in SUBSET Notes /\ v.status \in BOOLEAN /\ v.D \in Ring
  BY <1>5 DEF Like, Undone
<1>11. RingOK(v.D, now) /\ e.found.lost \in Nat
  <2>1. RingOK(X.dsp, now)
    BY <1>5, FoundIs
  <2>2. e.found.lost \in Nat
    BY <1>8, FoundIs
  <2> QED  BY <1>6, <2>1, <2>2, Zenon
<1>12. Left(X.host, now) = H
  <2>1. Left(v.H, now) = v.H
    BY <1>7, <1>10 DEF Left, Notes
  <2> QED  BY <1>6, <2>1, Zenon
<1>13. Fits(v.D, now)
  <2>1. Fits(X.dsp, now)
    BY <1>5, <1>7, <1>8, <1>9, AgedEnds
  <2> QED  BY <1>6, <2>1, Zenon
<1>14. HostOK(v.D, H, now, loose /\ runs)
  <2>1. /\ HostOK(X.dsp, H, now, TRUE)
        /\ (e.stopped \/ (HostOK(e.found.dsp, K, now, FALSE) => HostOK(X.dsp, H, now, FALSE)))
    <3> HIDE DEF H, K
    <3>1. Left(e.found.host, now) = K
      BY DEF K
    <3>2. /\ now \in Int /\ FoundOK(e.found, now) /\ FoundOK(X, now)
          /\ Aged(e.found, X, now, e.stopped) /\ HostOK(e.found.dsp, K, now, TRUE)
      BY <1>5, <1>7, <1>8, <1>9, Zenon
    <3>3. HostOK(X.dsp, H, now, TRUE)
      BY <1>12, <3>1, <3>2, AgedHost, Zenon
    <3>4. AsFull(e.found.dsp, K, X.dsp, H, now, e.stopped)
      BY <1>12, <3>1, <3>2, AgedHost, Zenon
    <3>5. e.stopped \/ (HostOK(e.found.dsp, K, now, FALSE) => HostOK(X.dsp, H, now, FALSE))
      BY <3>4, Zenon DEF AsFull
    <3> QED  BY <3>3, <3>5, Zenon
  <2>2. HostOK(v.D, H, now, TRUE) /\ (loose \/ HostOK(v.D, H, now, FALSE))
    BY <1>6, <1>9, <2>1, Zenon
  <2> HIDE DEF loose, H
  <2>3. CASE ~runs
    <3>1. HostOK(v.D, H, now, FALSE)
      <4>1. TRUE => FALSE \/ v.D.state # "running"
        BY <2>3
      <4> QED  BY <1>7, <1>10, <2>2, <4>1, HostTight
    <3>2. (loose /\ runs) = FALSE
      BY <2>3
    <3> QED  BY <3>1, <3>2, Zenon
  <2>4. CASE runs /\ loose
    <3>1. (loose /\ runs) = TRUE
      BY <2>4
    <3> QED  BY <2>2, <3>1, Zenon
  <2>5. CASE runs /\ ~loose
    <3>1. (loose /\ runs) = FALSE
      BY <2>5
    <3> QED  BY <2>2, <2>5, <3>1, Zenon
  <2> QED  BY <2>3, <2>4, <2>5
<1>15. Begun'
  <2>1. RingOK(dsp', now') /\ BufferOK(dsp', staging') /\ HostOK(dsp', host', now', restarted')
        /\ now' \in Nat /\ sent' \in Nat
    <3> HIDE DEF loose, runs
    <3> QED  BY <1>1, <1>7, <1>8, <1>10, <1>11, <1>14, Zenon
  <2> QED  BY <2>1, Zenon DEF Begun
<1>16. call = NoCall /\ call.progress = 0
  BY <1>1, <1>7 DEF CallOK, NoCall
<1>17. StreamHere'
  <2>1. StreamOK(X.dsp.period_ptr, X.dsp.buffer_used, X.dsp.params, v.S, H, e.sent, e.found.lost)
    <3>1. SubSeq(v.S, 1, X.dsp.buffer_used) = X.staged /\ BufferOK(X.dsp, v.S)
      BY <1>6, <1>10, Zenon
    <3> HIDE DEF H
    <3> QED  BY <1>5, <1>7, <1>8, <1>9, <1>12, <3>1, AgedStream
  <2>2. sent' + call'.progress = sent'
    <3>1. sent' \in Nat /\ call'.progress = 0
      BY <1>1, <1>8, <1>16, Zenon
    <3> QED  BY <3>1, PlusNone, Zenon
  <2>3. StreamOK(dsp'.period_ptr, dsp'.buffer_used, dsp'.params, staging', host',
                 sent' + call'.progress, lost')
    BY <1>1, <1>6, <2>1, <2>2, Zenon
  <2> QED  BY <2>3, Zenon DEF StreamHere
<1>18. Found' = X
  BY <1>1, <1>4, Zenon DEF Found, Undid
<1>19. LogOK(log', X, now, loose /\ runs)
  <2>1. LogOK(Front(log), X, now, restarted \/ log[Len(log)].stopped)
    BY <1>2, <1>5, <1>7, LogUndo
  <2>2. LogOK(log', X, now, loose)
    BY <1>1, <1>2, <2>1, Zenon
  <2>3. loose \in BOOLEAN /\ runs \in BOOLEAN /\ (X.dsp.state = "running" => runs)
    BY <1>6, <1>7, <1>8
  <2> HIDE DEF loose, runs
  <2> QED  BY <1>7, <2>2, <2>3, Joined
<1>20. LogOK(Whole', Found', now', restarted')
  <2>1. Whole' = log'
    BY <1>1, Zenon DEF Whole
  <2> HIDE DEF loose, runs
  <2> QED  BY <1>1, <1>18, <1>19, <2>1, Zenon
<1>21. CallOK'
  BY <1>1, <1>16 DEF CallOK, NoCall
<1>22. log' \in Seq(Entries) /\ Len(log') = Len(log) - 1 /\ \A i \in 1 .. Len(log) - 1 : log'[i] = log[i]
  BY <1>1, <1>5, <1>7, FrontIs
<1>23. Unowned'
  <2>1. ASSUME ~owned'
        PROVE  host' = {} /\ \A i \in 1 .. Len(log') : log'[i].found.host = {}
    <3>1. ~owned
      BY <1>1, <2>1, Zenon
    <3>2. \A i \in 1 .. Len(log) : log[i].found.host = {}
      BY <1>7, <3>1, Zenon DEF Unowned
    <3>3. e.found.host = {}
      <4>1. Len(log) \in 1 .. Len(log)
        BY <1>5, <1>7
      <4> QED  BY <1>2, <3>2, <4>1, Zenon
    <3>4. host' = {}
      <4>1. K = {}
        BY <3>3 DEF Left
      <4>2. H = K \/ H = {}
        BY <1>5, <1>12, Zenon DEF Aged
      <4> QED  BY <1>1, <4>1, <4>2, Zenon
    <3>5. ASSUME NEW i \in 1 .. Len(log') PROVE log'[i].found.host = {}
      <4>1. i \in 1 .. Len(log) - 1 /\ i \in 1 .. Len(log)
        BY <1>7, <1>22
      <4> QED  BY <1>22, <3>2, <4>1, Zenon
    <3> QED  BY <3>4, <3>5
  <2> QED  BY <2>1, Zenon DEF Unowned
<1>24. /\ lost' \in Nat /\ now' \in 0 .. MaxTime /\ nonblock' \in BOOLEAN /\ Fits(dsp', now')
  BY <1>1, <1>7, <1>10, <1>11, <1>13, Zenon
<1>25. restarted' \in BOOLEAN
  BY <1>1
<1>26. Len(log') <= MaxLog
  BY <1>7, <1>22, DspAssumption
<1> QED  BY <1>15, <1>17, <1>20, <1>21, <1>22, <1>23, <1>24, <1>25, <1>26, Zenon DEF IInv

LEMMA KeepsStutter ==
  ASSUME IInv, UNCHANGED vars
  PROVE  IInv'
<1>1. /\ now' = now /\ owned' = owned /\ nonblock' = nonblock /\ dsp' = dsp /\ staging' = staging
      /\ host' = host /\ call' = call /\ exited' = exited /\ log' = log /\ calls' = calls
      /\ sent' = sent /\ lost' = lost /\ restarted' = restarted
  BY DEF vars
<1>2. Found' = Found /\ Whole' = Whole
  BY <1>1, Zenon DEF Found, Whole, Entry
<1>3. Begun = Begun' /\ StreamHere = StreamHere' /\ CallOK = CallOK' /\ Unowned = Unowned'
  BY <1>1, Zenon DEF Begun, StreamHere, CallOK, NoCall, Unowned
<1> QED  BY <1>1, <1>2, <1>3, Zenon DEF IInv

\* The invariant is inductive.
LEMMA KeepsNext ==
  ASSUME IInv, [Next]_vars
  PROVE  IInv'
<1>1. CASE Open
  BY <1>1, KeepsOpen
<1>2. ASSUME NEW size \in Sizes, NEW signal \in BOOLEAN, Write(size, signal)
      PROVE  IInv'
  BY <1>2, KeepsWrite
<1>3. ASSUME NEW signal \in BOOLEAN, SyncIoctl(signal)
      PROVE  IInv'
  BY <1>3, KeepsSync
<1>4. ASSUME NEW signal \in BOOLEAN, Close(signal)
      PROVE  IInv'
  BY <1>4, KeepsClose
<1>5. ASSUME NEW s \in Settings, NEW first \in BOOLEAN, SetRate(s.rate, first)
      PROVE  IInv'
  BY <1>5, KeepsSetRate
<1>6. ASSUME NEW s \in Settings, SetFragment(s.fragment)
      PROVE  IInv'
  BY <1>6, KeepsSetFragment
<1>7. ASSUME NEW ready \in BOOLEAN, NEW looks \in BOOLEAN, Ask(ready, looks)
      PROVE  IInv'
  BY <1>7, KeepsAsk
<1>8. CASE Poll
  BY <1>8, KeepsPoll
<1>9. CASE ResetIoctl
  BY <1>9, KeepsReset
<1>10. CASE Nonblock
  BY <1>10, KeepsNonblock
<1>11. ASSUME NEW faults \in BOOLEAN, Exit(faults)
       PROVE  IInv'
  BY <1>11, KeepsExit
<1>12. CASE Killed
  BY <1>12, KeepsKilled
<1>13. CASE StartProgram
  BY <1>13, KeepsStartProgram
<1>14. CASE Tick
  BY <1>14, KeepsTick
<1>15. ASSUME NEW interrupted \in BOOLEAN, Resume(interrupted)
       PROVE  IInv'
  BY <1>15, KeepsResume
<1>16. CASE Undo
  BY <1>16, KeepsUndo
<1>17. CASE UNCHANGED vars
  BY <1>17, KeepsStutter
<1> QED  BY <1>1, <1>2, <1>3, <1>4, <1>5, <1>6, <1>7, <1>8, <1>9, <1>10, <1>11, <1>12, <1>13,
            <1>14, <1>15, <1>16, <1>17, Zenon DEF Next

\* In every reachable state the ring, the staging buffer, the host's schedule and
\* the bytes of the program fit together, the call that waits has room to come, and each
\* entry of the log leads from what its instruction found to what came after it, whatever has
\* played since (Dsp's actions: oss.c, sound.c).
THEOREM Invariant == Spec => []IInv
<1>1. Init => IInv
  BY KeepsInit
<1>2. IInv /\ [Next]_vars => IInv'
  BY KeepsNext
<1> QED  BY <1>1, <1>2, PTL DEF Spec

-----------------------------------------------------------------------------
\* In every state of the invariant the ring and the host agree.
LEMMA AgreesHere ==
  ASSUME IInv
  PROVE  HostAgrees
<1>1. /\ RingOK(dsp, now) /\ dsp \in Ring /\ HostOK(dsp, host, now, restarted) /\ now \in Int
  BY Inside DEF Begun, RingOK
<1>2. dsp.t0 \in Nat /\ dsp.written \in Nat
  BY <1>1, RingIs
<1> SUFFICES ASSUME ~restarted
             PROVE  {h.at : h \in host} = QueuedTimes
  BY Zenon DEF HostAgrees
<1>3. {h.at : h \in host} = now .. EndOf(dsp, now) - 1
  <2>1. EndOf(dsp, now) \in Int
    BY <1>1, EndIs
  <2>2. /\ \A h \in host : h.at \in Int /\ now <= h.at /\ h.at < EndOf(dsp, now)
        /\ \A k \in now .. EndOf(dsp, now) - 1 : \E h \in host : h.at = k
    BY <1>1 DEF HostOK, Notes
  <2> QED  BY <1>1, <2>1, <2>2
<1>4. CASE dsp.state # "running"
  <2>1. QueuedTimes = {} /\ EndOf(dsp, now) = now
    BY <1>4 DEF QueuedTimes, EndOf
  <2>2. now .. now - 1 = {}
    BY <1>1
  <2> QED  BY <1>3, <2>1, <2>2
<1>5. CASE dsp.state = "running"
  <2> DEFINE p == Played(dsp, now)
             t0 == dsp.t0
             w == dsp.written
  <2>1. p = IF t0 + w <= now THEN w ELSE now - t0
    BY <1>1, <1>5, PlayedIs DEF Plays
  <2>2. QueuedTimes = {t0 + k : k \in p .. w - 1}
    BY <1>5 DEF QueuedTimes
  <2>3. EndOf(dsp, now) = IF t0 + w > now THEN t0 + w ELSE now
    BY <1>5 DEF EndOf
  <2> DEFINE z == EndOf(dsp, now)
  <2> HIDE DEF p, t0, w, z
  <2>4. t0 \in Nat /\ w \in Nat
    BY <1>2 DEF t0, w
  <2>5. {t0 + k : k \in p .. w - 1} = now .. z - 1
    <3>1. z = IF t0 + w > now THEN t0 + w ELSE now
      BY <2>3 DEF z
    <3>2. ASSUME NEW k \in p .. w - 1
          PROVE  t0 + k \in now .. z - 1
      BY <1>1, <2>1, <2>4, <3>1
    <3>3. ASSUME NEW x \in now .. z - 1
          PROVE  \E k \in p .. w - 1 : x = t0 + k
      <4>1. x - t0 \in p .. w - 1 /\ x = t0 + (x - t0)
        BY <1>1, <2>1, <2>4, <3>1
      <4> QED  BY <4>1
    <3> QED  BY <3>2, <3>3
  <2> QED  BY <1>3, <2>2, <2>5 DEF z
<1> QED  BY <1>4, <1>5

\* What the card counts as queued is what the host will play, frame by frame, but
\* where undo went back past a stop to a running stream (Write2, DropRing, UndoOssJournal).
THEOREM HostAlwaysAgrees == Spec => []HostAgrees
<1>1. IInv => HostAgrees
  BY AgreesHere
<1> QED  BY <1>1, Invariant, PTL

-----------------------------------------------------------------------------
\* In every state of the invariant the bytes are there once and in order.
LEMMA OnceHere ==
  ASSUME IInv
  PROVE  BytesOnce
<1> DEFINE p == dsp.period_ptr
           b == dsp.buffer_used
           N == sent + call.progress
           L == lost
           bytes == Pending \ {0}
<1>1. StreamOK(p, b, dsp.params, staging, host, N, L) /\ dsp \in Ring /\ host \in SUBSET Notes
  BY Inside, Zenon DEF StreamHere, Begun, RingOK, HostOK
<1>2. p \in Nat /\ b \in Nat
  BY <1>1, RingIs
<1> HIDE DEF p, b, N, L
<1>3. /\ N \in Nat /\ L \in 0 .. N
      /\ \A h \in host : h.byte \in 0 .. N
      /\ \A i \in 1 .. b : staging[i] \in 0 .. N
      /\ \A g, h \in host : g.byte # 0 /\ h.byte # 0 /\ g.at < h.at => g.byte < h.byte
      /\ \A i \in p + 1 .. b : staging[i] # 0 => \A h \in host : h.byte < staging[i]
      /\ \A i, j \in p + 1 .. b : i < j /\ staging[i] # 0 /\ staging[j] # 0 => staging[i] < staging[j]
      /\ \A x \in 1 .. N - 1 : Holds(p, b, staging, host, x) =>
           Holds(p, b, staging, host, x + 1)
             \/ (L = N /\ b = 0 /\ dsp.params /\ \A h \in host : h.byte <= x)
  BY <1>1, Zenon DEF StreamOK
<1>4. Staged = {i \in p + 1 .. b : staging[i] # 0}
  BY Zenon DEF Staged, p, b
<1>5. \A x : x \in bytes <=> x # 0 /\ Holds(p, b, staging, host, x)
  BY <1>4 DEF Pending, Holds
<1> HIDE DEF bytes
<1>6. \A g, h \in {x \in host : x.byte # 0} : g.at < h.at => g.byte < h.byte
  BY <1>3
<1>7. \A i \in Staged : /\ \A h \in host : h.byte < staging[i]
                        /\ \A j \in Staged : i < j => staging[i] < staging[j]
  BY <1>3, <1>4
<1>8. \A x \in bytes : x \in 1 .. N
  <2>1. ASSUME NEW x \in bytes PROVE x \in 1 .. N
    <3>1. x # 0 /\ Holds(p, b, staging, host, x)
      BY <1>5
    <3>2. CASE \E h \in host : h.byte = x
      BY <1>3, <3>1, <3>2
    <3>3. CASE \E i \in p + 1 .. b : staging[i] = x
      <4>1. PICK i \in p + 1 .. b : staging[i] = x
        BY <3>3
      <4>2. i \in 1 .. b
        BY <1>2
      <4> QED  BY <1>3, <3>1, <4>1, <4>2
    <3> QED  BY <3>1, <3>2, <3>3 DEF Holds
  <2> QED  BY <2>1
<1>9. ASSUME NEW x \in bytes
      PROVE  \/ x + 1 \in bytes \/ x = N
             \/ x <= L /\ (L = N \/ \E c \in bytes : c > L) /\ x + 1 .. L \cap bytes = {}
  <2>1. x \in 1 .. N /\ Holds(p, b, staging, host, x)
    BY <1>5, <1>8
  <2>2. CASE x = N
    BY <2>2
  <2>3. CASE x # N /\ Holds(p, b, staging, host, x + 1)
    <3>1. x + 1 # 0
      BY <1>3, <2>1
    <3> QED  BY <1>5, <2>3, <3>1
  <2>4. CASE x # N /\ ~Holds(p, b, staging, host, x + 1)
    <3>1. x \in 1 .. N - 1
      BY <1>3, <2>1, <2>4
    <3>2. L = N /\ b = 0 /\ \A h \in host : h.byte <= x
      BY <1>3, <2>1, <2>4, <3>1
    <3>3. x <= L
      BY <1>3, <3>1, <3>2
    <3>4. ASSUME NEW y \in x + 1 .. L, y \in bytes PROVE FALSE
      <4>1. Holds(p, b, staging, host, y)
        BY <1>5, <3>4
      <4>2. ~\E i \in p + 1 .. b : staging[i] = y
        BY <1>2, <3>2
      <4>3. PICK h \in host : h.byte = y
        BY <4>1, <4>2, Zenon DEF Holds
      <4>4. y <= x
        BY <3>2, <4>3, Zenon
      <4> QED  BY <1>3, <2>1, <4>4
    <3> QED  BY <3>2, <3>3, <3>4
  <2> QED  BY <2>2, <2>3, <2>4
<1> QED  BY <1>6, <1>7, <1>9, Zenon DEF BytesOnce, bytes, N, L

\* Every byte of a write goes to the card once and in order, through waits and
\* undos, with gaps only where staged bytes were thrown away (Write1, OssWrite).
THEOREM BytesPlayOnce == Spec => []BytesOnce
<1>1. IInv => BytesOnce
  BY OnceHere
<1> QED  BY <1>1, Invariant, PTL

-----------------------------------------------------------------------------
ClockOf(D) == [D EXCEPT !.state = "", !.segment = 0, !.t0 = 0, !.written = 0]

LEMMA ClockIs ==
  ASSUME NEW D \in Ring, NEW E \in Ring, SameClock(D, E)
  PROVE  ClockOf(E) = ClockOf(D)
<1>1. /\ E.set = D.set /\ E.params = D.params /\ E.prepare = D.prepare /\ E.period = D.period
      /\ E.periods = D.periods /\ E.buffer_used = D.buffer_used /\ E.period_ptr = D.period_ptr
      /\ E.bytes = D.bytes
  BY DEF SameClock, SameFragment
<1> QED  BY <1>1 DEF ClockOf, Ring

\* From every state of the invariant undo takes back what the call did.
LEMMA TakesBackHere ==
  ASSUME IInv, Undo
  PROVE  LET e == Last(log)
             clock(D) == [D EXCEPT !.state = "", !.segment = 0, !.t0 = 0, !.written = 0]
             still == {h \in e.found.host : h.at >= now}
         IN /\ clock(dsp') = clock(e.found.dsp)
            /\ SubSeq(staging', 1, dsp'.buffer_used) = e.found.staged
            /\ IF e.stopped THEN host' \subseteq still ELSE host' = still
<1> DEFINE e == Last(log)
           v == FoldRight(UndoRecord, e.records,
                          [D |-> dsp, S |-> staging, H |-> host, status |-> nonblock])
           X == Undid(v, e.found.lost)
           still == {h \in e.found.host : h.at >= now}
<1>1. call.kind = "none" /\ log # <<>> /\ dsp' = v.D /\ staging' = v.S /\ host' = v.H
  BY Zenon DEF Undo
<1>2. e = log[Len(log)]
  BY DEF Last
<1>3. UndoneTo(e, v) /\ X = Undid(v, e.found.lost)
  BY Zenon DEF UndoneTo
<1>4. still = Left(e.found.host, now)
  BY Zenon DEF Left
<1> HIDE DEF e, v, X, still
<1>5. /\ EntryOK(e, now, restarted)
      /\ FoundOK(X, now) /\ Aged(e.found, X, now, e.stopped) /\ Like(v, X)
  BY <1>1, <1>2, <1>3, UndoIs
<1>6. X.dsp = v.D /\ X.staged = SubSeq(v.S, 1, v.D.buffer_used) /\ X.host = v.H
  BY <1>3, UndidParts
<1>7. e.found.dsp \in Ring /\ X.dsp \in Ring
  BY <1>5, EntryIs, FoundIs
<1>8. Left(X.host, now) = host'
  <2>1. \A x \in v.H : now <= x.at
    BY <1>5 DEF Like
  <2>2. v.H \in SUBSET Notes /\ now \in Int
    BY <1>5, Inside DEF Like, Undone
  <2>3. Left(v.H, now) = v.H
    BY <2>1, <2>2 DEF Left, Notes
  <2> QED  BY <1>1, <1>6, <2>3, Zenon
<1>9. SameClock(e.found.dsp, X.dsp) /\ X.staged = e.found.staged
      /\ (host' = still \/ (e.stopped /\ host' = {}))
  BY <1>4, <1>5, <1>8, Zenon DEF Aged
<1>10. ClockOf(dsp') = ClockOf(e.found.dsp)
  <2>1. ClockOf(X.dsp) = ClockOf(e.found.dsp)
    BY <1>7, <1>9, ClockIs
  <2> QED  BY <1>1, <1>6, <2>1, Zenon
<1>11. SubSeq(staging', 1, dsp'.buffer_used) = e.found.staged
  BY <1>1, <1>6, <1>9, Zenon
<1>12. IF e.stopped THEN host' \subseteq still ELSE host' = still
  BY <1>9
<1> QED  BY <1>10, <1>11, <1>12, Zenon DEF ClockOf, e, still

\* An undo leaves the settings, the staged bytes and the counts its call found, and of
\* what was to be heard then the rest, or nothing of it after a stop (UndoOssJournal).
THEOREM UndoAlwaysTakesBack == Spec => UndoTakesBack
<1>1. IInv /\ [Next]_vars =>
        [log' = Front(log) /\ Undo =>
           LET e == Last(log)
               clock(D) == [D EXCEPT !.state = "", !.segment = 0, !.t0 = 0, !.written = 0]
               still == {h \in e.found.host : h.at >= now}
           IN /\ clock(dsp') = clock(e.found.dsp)
              /\ SubSeq(staging', 1, dsp'.buffer_used) = e.found.staged
              /\ IF e.stopped THEN host' \subseteq still ELSE host' = still]_vars
  BY TakesBackHere
<1> QED  BY <1>1, Invariant, PTL DEF Spec, UndoTakesBack

-----------------------------------------------------------------------------
(* The room the card tells of. *)

\* The invariant has the types in it.
LEMMA TypeHere ==
  ASSUME IInv
  PROVE  TypeOK
<1>1. /\ now \in 0 .. MaxTime /\ now \in Int /\ RingOK(dsp, now) /\ BufferOK(dsp, staging)
      /\ HostOK(dsp, host, now, restarted) /\ CallOK /\ Len(log) <= MaxLog /\ StreamHere /\ dsp \in Ring
  BY Inside DEF Begun, RingOK
<1>2. /\ dsp.set \in Settings /\ dsp.state \in States /\ dsp.period_ptr \in Nat /\ dsp.buffer_used \in Nat
      /\ dsp.period \in Nat /\ dsp.buffer_used <= dsp.period /\ dsp.period_ptr <= dsp.buffer_used
  BY <1>1, RingIs DEF RingOK
<1>3. dsp.period_ptr \in 0 .. dsp.buffer_used /\ dsp.buffer_used \in 0 .. dsp.period
  BY <1>2
<1>4. Len(staging) = dsp.period \/ dsp.buffer_used = 0
  <2>1. CASE dsp.period = 0
    BY <1>2, <2>1
  <2>2. CASE dsp.period # 0
    BY <1>1, <2>2 DEF BufferOK
  <2> QED  BY <2>1, <2>2
<1> DEFINE N == sent + call.progress
<1>5. lost \in 0 .. N /\ \A h \in host : h.byte \in 0 .. N
  BY <1>1, Zenon DEF StreamHere, StreamOK
<1>6. \A h \in host : h.at >= now
  BY <1>1 DEF HostOK, Notes
<1> HIDE DEF N
<1>7. \A h \in host : h.at >= now /\ h.byte \in 0 .. N
  BY <1>5, <1>6, Zenon
<1>8. call.kind # "none" => owned /\ ~exited /\ call.progress \in 0 .. call.size
  BY <1>1, Zenon DEF CallOK
<1>9. dsp.state \in {"setup", "prepared", "running", "xrun"}
  BY <1>2 DEF States
<1> QED  BY <1>1, <1>2, <1>3, <1>4, <1>5, <1>7, <1>8, <1>9, Zenon DEF TypeOK, N

\* What is free of the ring D at time t, looked at then.
FreeOf(D, t) == Capacity(D) - Queued(Updated(D, t), t)

\* What is free is what is not to be played.
LEMMA FreeIs ==
  ASSUME NEW t \in Int, NEW D, RingOK(D, t)
  PROVE  FreeOf(D, t) = Capacity(D) - (EndOf(D, t) - t) /\ FreeOf(D, t) \in Int
<1>1. RingOK(Updated(D, t), t) /\ EndOf(Updated(D, t), t) = EndOf(D, t)
  BY UpdatedIs
<1>2. Queued(Updated(D, t), t) = EndOf(Updated(D, t), t) - t
  BY <1>1, QueuedIs
<1>3. D \in Ring
  BY DEF RingOK
<1>4. Capacity(D) \in Nat /\ EndOf(D, t) \in Int
  BY <1>3, CapacityIs, EndIs
<1> QED  BY <1>1, <1>2, <1>4 DEF FreeOf

\* A call that waits is woken when there is the room it needs, and not before.
LEMMA WokenHere ==
  ASSUME IInv, call.kind # "none"
  PROVE  /\ FreeOf(dsp, call.until) >= call.need
         /\ (call.until > now => FreeOf(dsp, call.until - 1) < call.need)
<1> DEFINE c == Capacity(dsp)
           e == dsp.t0 + dsp.written
           u == call.until
           n == call.need
<1>1. /\ now \in Int /\ RingOK(dsp, now) /\ dsp \in Ring /\ Halts(dsp, "halt", u, n)
  BY Inside DEF Begun, RingOK, CallOK
<1>2. c \in Nat /\ dsp.t0 \in Nat /\ dsp.written \in Nat
  BY <1>1, RingIs, CapacityIs
<1>3. dsp.state = "running" /\ n \in 1 .. c /\ u = e + n - c /\ u >= dsp.t0
  BY <1>1 DEF Halts
<1> HIDE DEF c, e, u, n
<1>4. u \in Int /\ n \in Int /\ e \in Int
  BY <1>2, <1>3 DEF e
<1>5. ASSUME NEW t \in Int, t >= dsp.t0 PROVE RingOK(dsp, t)
  <2>1. dsp.t0 <= t
    BY <1>2, <1>5
  <2>2. dsp.state # "xrun"
    BY <1>3
  <2> QED  BY <1>1, <2>1, <2>2, Zenon DEF RingOK
<1>6. ASSUME NEW t \in Int, t >= dsp.t0, t <= e PROVE FreeOf(dsp, t) = c - (e - t)
  <2>1. RingOK(dsp, t)
    BY <1>5, <1>6
  <2>2. FreeOf(dsp, t) = c - (EndOf(dsp, t) - t)
    BY <2>1, FreeIs DEF c
  <2>3. EndOf(dsp, t) = e
    BY <1>2, <1>3, <1>4, <1>6 DEF EndOf, e
  <2> QED  BY <2>2, <2>3
<1>7. FreeOf(dsp, u) >= n
  <2>1. u <= e
    BY <1>2, <1>3, <1>4
  <2>2. FreeOf(dsp, u) = c - (e - u)
    BY <1>3, <1>4, <1>6, <2>1
  <2> QED  BY <1>2, <1>3, <1>4, <2>2
<1>8. ASSUME u > now PROVE FreeOf(dsp, u - 1) < n
  <2>1. u - 1 \in Int /\ u - 1 >= dsp.t0 /\ u - 1 <= e
    <3>1. dsp.t0 <= now
      BY <1>1 DEF RingOK
    <3> QED  BY <1>1, <1>2, <1>3, <1>4, <1>8, <3>1
  <2>2. FreeOf(dsp, u - 1) = c - (e - (u - 1))
    BY <1>6, <2>1
  <2> QED  BY <1>2, <1>3, <1>4, <2>2
<1> QED  BY <1>7, <1>8 DEF u, n

\* poll() finds the card writable from the time its wait was given on.
LEMMA PollHere ==
  ASSUME IInv, NEW t \in now .. now + Capacity(dsp)
  PROVE  OssPoll(t) <=> t >= OssReadyDeadline(now)
<1> DEFINE c == Capacity(dsp)
           p == dsp.period
           e == dsp.t0 + dsp.written
           U == Updated(dsp, now)
           V == Updated(dsp, t)
<1>1. now \in Int /\ now \in Nat /\ RingOK(dsp, now) /\ dsp \in Ring
  BY Inside DEF Begun, RingOK
<1>2. c \in Nat /\ dsp.t0 \in Nat /\ dsp.written \in Nat /\ p \in Nat /\ dsp.periods \in Nat
  BY <1>1, RingIs, CapacityIs
<1>3. t \in Int /\ t >= now /\ RingOK(dsp, t)
  <2>1. t \in Int /\ t >= now
    BY <1>1, <1>2
  <2> QED  BY <1>1, <2>1, RingLater
<1>4. p = 0 => dsp.state = "setup"
  BY <1>1, RingIs DEF RingOK
<1>5. p > 0 => c >= p + p
  BY <1>1, CapacityIs DEF RingOK
<1>6. OssPoll(t) <=> V.state # "running" \/ c - Queued(V, t) >= p
  <2>1. V = dsp \/ V = [dsp EXCEPT !.state = "xrun"]
    BY <1>3, UpdatedIs
  <2>2. Capacity(V) = c /\ V.period = p
    <3>1. V.period = dsp.period /\ V.periods = dsp.periods
      BY <1>1, <2>1 DEF Ring
    <3> QED  BY <3>1, Zenon DEF Capacity
  <2> HIDE DEF c, p
  <2> QED  BY <2>2, Zenon DEF OssPoll
<1>7. OssReadyDeadline(now) = RoomDeadline(U, p, now)
  BY Zenon DEF OssReadyDeadline
<1>8. V.state = "running" <=> dsp.state = "running" /\ e > t
  BY <1>1, <1>2, <1>3, PlayedIs DEF Updated, Plays, Ring
<1>9. U.state = "running" <=> dsp.state = "running" /\ e > now
  BY <1>1, <1>2, PlayedIs DEF Updated, Plays, Ring
<1>10. CASE U.state # "running"
  <2>1. RoomDeadline(U, p, now) = now
    BY <1>10, FrameDeadline
  <2>2. V.state # "running"
    BY <1>1, <1>2, <1>3, <1>8, <1>9, <1>10
  <2> QED  BY <1>3, <1>6, <1>7, <2>1, <2>2
<1>11. CASE U.state = "running"
  <2>1. U = dsp /\ dsp.state = "running" /\ e > now
    BY <1>1, <1>9, <1>11, UpdatedIs
  <2>2. p > 0 /\ p <= c
    BY <1>2, <1>4, <1>5, <2>1
  <2>3. Queued(dsp, now) = e - now
    BY <1>1, <1>2, <2>1, QueuedIs DEF EndOf
  <2>4. Queued(V, t) = EndOf(dsp, t) - t
    <3>1. RingOK(V, t) /\ EndOf(V, t) = EndOf(dsp, t)
      BY <1>3, UpdatedIs
    <3> HIDE DEF V
    <3> QED  BY <1>3, <3>1, QueuedIs
  <2>5. EndOf(dsp, t) = IF e > t THEN e ELSE t
    BY <2>1 DEF EndOf
  <2> HIDE DEF U, V, e
  <2>6. e \in Int
    BY <1>2 DEF e
  <2>7. CASE c - Queued(dsp, now) < p
    <3>1. RoomDeadline(dsp, p, now) = e + p - c
      <4>1. c = Capacity(dsp)
        OBVIOUS
      <4> QED  BY <1>1, <1>2, <2>2, <2>7, DeadlineIs DEF e
    <3>2. OssReadyDeadline(now) = e + p - c
      BY <1>7, <2>1, <3>1, Zenon
    <3> HIDE DEF c, p
    <3>3. OssPoll(t) <=> e <= t \/ c - (e - t) >= p
      BY <1>2, <1>3, <1>6, <1>8, <2>1, <2>4, <2>5, <2>6
    <3> QED  BY <1>2, <1>3, <2>2, <2>6, <3>2, <3>3
  <2>8. CASE ~(c - Queued(dsp, now) < p)
    <3>1. Min({p, c}) = p
      BY <1>2, <2>2, MinTwo
    <3>2. RoomDeadline(dsp, p, now) = now
      <4>1. Queued(dsp, now) + p <= c
        BY <1>1, <1>2, <2>3, <2>6, <2>8
      <4> QED  BY <2>1, <3>1, <4>1, FrameDeadline
    <3>3. OssReadyDeadline(now) = now
      BY <1>7, <2>1, <3>2, Zenon
    <3> HIDE DEF c, p
    <3>4. OssPoll(t)
      BY <1>1, <1>2, <1>3, <1>6, <1>8, <2>1, <2>3, <2>4, <2>5, <2>6, <2>8
    <3> QED  BY <1>3, <3>3, <3>4
  <2> QED  BY <2>7, <2>8
<1> QED  BY <1>10, <1>11

-----------------------------------------------------------------------------
(* Whether a write of a fragment waits. *)

\* A fragment does not go into the ring D.
Short(D) == LET U == Updated(D, now) IN U.state = "running" /\ Capacity(U) - Queued(U, now) < U.period

\* A stream that data is written to has the fragments it had.
LEMMA StartableIs ==
  ASSUME now \in Int, NEW D, RingOK(D, now)
  PROVE  LET S == Startable(D)
         IN /\ S \in Ring /\ S.period = D.period /\ S.periods = D.periods /\ S.bytes = D.bytes
            /\ S.params = D.params /\ S.prepare = D.prepare /\ S.buffer_used = D.buffer_used
            /\ S.period_ptr = D.period_ptr
            /\ Short(D) <=> S.state = "running" /\ Capacity(S) - Queued(S, now) < S.period
<1> DEFINE U == Updated(D, now)
           S == Startable(D)
           P == [U EXCEPT !.state = "prepared", !.written = 0, !.segment = @ + 1]
<1>1. D \in Ring /\ RingOK(U, now) /\ (U = D \/ U = [D EXCEPT !.state = "xrun"])
  BY UpdatedIs DEF RingOK
<1>2. U \in Ring
  BY <1>1 DEF RingOK
<1>3. /\ U.period = D.period /\ U.periods = D.periods /\ U.bytes = D.bytes
      /\ U.params = D.params /\ U.prepare = D.prepare /\ U.buffer_used = D.buffer_used
      /\ U.period_ptr = D.period_ptr
  BY <1>1 DEF Ring
<1>4. S = IF U.state = "xrun" THEN P ELSE U
  BY Zenon DEF Startable
<1>5. Short(D) <=> U.state = "running" /\ Capacity(U) - Queued(U, now) < U.period
  BY Zenon DEF Short
<1> HIDE DEF U, S
<1>6. CASE U.state = "xrun"
  <2>1. /\ P \in Ring /\ P.state = "prepared" /\ P.period = U.period /\ P.periods = U.periods
        /\ P.bytes = U.bytes /\ P.params = U.params /\ P.prepare = U.prepare
        /\ P.buffer_used = U.buffer_used /\ P.period_ptr = U.period_ptr
    <3> DEFINE n == U.segment + 1
    <3>1. n \in Nat
      BY <1>2, RingIs
    <3>2. P = [U EXCEPT !.state = "prepared", !.written = 0, !.segment = n]
      OBVIOUS
    <3> HIDE DEF n, P
    <3> QED  BY <1>2, <3>1, <3>2 DEF Ring, States
  <2>2. S = P
    BY <1>4, <1>6
  <2> HIDE DEF P
  <2> QED  BY <1>3, <1>5, <1>6, <2>1, <2>2 DEF S
<1>7. CASE U.state # "xrun"
  <2>1. S = U
    BY <1>4, <1>7
  <2> QED  BY <1>2, <1>3, <1>5, <2>1, Zenon DEF S
<1> QED  BY <1>6, <1>7

\* What a fragment that is given leads to: all of it goes in, or it waits.
Fed(C, G) ==
  IF Short(C.D) THEN G.rc = "halt"
  ELSE /\ G.rc = "ok" /\ G.D.bytes = C.D.bytes + C.D.period /\ G.progress = C.progress
       /\ G.D.period = C.D.period /\ G.D.params = C.D.params /\ G.D.prepare = C.D.prepare
       /\ G.D.buffer_used = C.D.buffer_used /\ G.D.period_ptr = C.D.period_ptr

\* Of a pass a transfer changes the counts alone.
LEMMA TransferFields ==
  ASSUME NEW C, C.D \in Ring, NEW data, C = [C EXCEPT !.D = C.D], NEW n \in Nat, n = Len(data),
         now \in Nat, C \in PassRec
  PROVE  LET G == Transfer(C, data)
         IN /\ G.rc = C.rc /\ G.progress = C.progress /\ G.D.bytes = C.D.bytes + n
            /\ G.D.period = C.D.period /\ G.D.params = C.D.params /\ G.D.prepare = C.D.prepare
            /\ G.D.buffer_used = C.D.buffer_used /\ G.D.period_ptr = C.D.period_ptr
<1> DEFINE R == IF C.D.state = "running" THEN C.D ELSE [C.D EXCEPT !.state = "running", !.t0 = now]
           start == FrameTime(R, R.written)
           H == C.H \cup {[at |-> start + i - 1, byte |-> data[i]] : i \in DOMAIN data}
           f == IF C.transferred THEN C.first ELSE start
           D == [R EXCEPT !.written = @ + n, !.bytes = @ + n]
           G == [C EXCEPT !.D = D, !.H = H, !.first = f, !.transferred = TRUE]
<1>1. Transfer(C, data) = G
  BY DEF Transfer
<1>2. /\ R \in Ring /\ R.bytes = C.D.bytes /\ R.period = C.D.period /\ R.params = C.D.params
      /\ R.prepare = C.D.prepare /\ R.buffer_used = C.D.buffer_used /\ R.period_ptr = C.D.period_ptr
  BY DEF Ring, States
<1> HIDE DEF R, H, f
<1>3. /\ D.bytes = C.D.bytes + n /\ D.period = C.D.period /\ D.params = C.D.params
      /\ D.prepare = C.D.prepare /\ D.buffer_used = C.D.buffer_used /\ D.period_ptr = C.D.period_ptr
  BY <1>2 DEF Ring
<1> HIDE DEF D
<1>4. G.D = D /\ G.rc = C.rc /\ G.progress = C.progress
  BY DEF PassRec
<1> HIDE DEF G
<1> QED  BY <1>1, <1>3, <1>4

\* Write2() gives a whole fragment or waits.
LEMMA FedIs ==
  ASSUME now \in Nat, NEW C \in PassRec, C.rc = "ok", RingOK(C.D, now), ~C.D.params, NEW data \in Seq(Nat),
         Len(data) = C.D.period
  PROVE  Fed(C, Write2(C, data, "block"))
<1> DEFINE S == Startable(C.D)
           B == [C EXCEPT !.D = S]
           p == C.D.period
           G == Write2(C, data, "block")
           room == Room(S, data, "block")
<1>1. now \in Int /\ C.D \in Ring /\ p \in Nat /\ p > 0 /\ C.D.periods \in Nat /\ C.D.periods >= 2
  BY RingIs DEF RingOK
<1>2. /\ S \in Ring /\ S.period = C.D.period /\ S.periods = C.D.periods /\ S.bytes = C.D.bytes
      /\ S.params = C.D.params /\ S.prepare = C.D.prepare /\ S.buffer_used = C.D.buffer_used
      /\ S.period_ptr = C.D.period_ptr
      /\ Short(C.D) <=> S.state = "running" /\ Capacity(S) - Queued(S, now) < S.period
  BY <1>1, StartableIs
<1> HIDE DEF S
<1>3. Capacity(S) \in Nat /\ Capacity(S) >= p + p
  BY <1>1, <1>2, CapacityIs
<1>4. B \in PassRec /\ B.D = S /\ B.rc = "ok" /\ B.progress = C.progress
  BY <1>2 DEF PassRec
<1>5. G = Given(B, data, "block")
  BY Zenon DEF Write2, S
<1> HIDE DEF B, G
<1>6. Queued(S, now) \in Int /\ (S.state # "running" => Queued(S, now) = 0)
  <2>1. CASE S.state # "running"
    BY <2>1, FrameQueue
  <2>2. CASE S.state = "running"
    <3>1. S = Updated(C.D, now)
      BY <2>2 DEF S, Startable
    <3>2. RingOK(S, now)
      BY <1>1, <3>1, UpdatedIs
    <3> QED  BY <1>1, <2>2, <3>2, QueuedIs
  <2> QED  BY <2>1, <2>2
<1>7. room = IF p <= Capacity(S) - Queued(S, now) THEN p ELSE Capacity(S) - Queued(S, now)
  <2>1. room = Min({p, Capacity(S) - Queued(S, now)})
    BY DEF Room
  <2> HIDE DEF room, p
  <2> QED  BY <1>1, <1>3, <1>6, <2>1, MinTwo, SMTT(40)
<1>8. G = IF room < Len(data) THEN Halted(B, RoomDeadline(B.D, Len(data), now), Len(data))
          ELSE IF room = 0 THEN [B EXCEPT !.rc = "again"]
          ELSE Transfer(B, SubSeq(data, 1, room))
  BY <1>4, <1>5 DEF Given
<1> HIDE DEF room
<1>9. CASE Short(C.D)
  <2>1. room < Len(data)
    BY <1>1, <1>2, <1>3, <1>6, <1>7, <1>9
  <2>2. G = Halted(B, RoomDeadline(B.D, Len(data), now), Len(data))
    BY <1>8, <2>1
  <2>3. G.rc = "halt"
    BY <1>4, <2>2 DEF Halted, PassRec
  <2> QED  BY <1>9, <2>3 DEF Fed, G
<1>10. CASE ~Short(C.D)
  <2>1. room = p /\ ~(room < Len(data)) /\ room # 0
    BY <1>1, <1>2, <1>3, <1>6, <1>7, <1>10
  <2>2. G = Transfer(B, SubSeq(data, 1, Len(data)))
    BY <1>8, <2>1
  <2>3. SubSeq(data, 1, Len(data)) = data
    BY SubSeqFull
  <2>4. G = Transfer(B, data)
    BY <2>2, <2>3, Zenon
  <2>5. B = [B EXCEPT !.D = B.D]
    BY <1>4 DEF PassRec
  <2>6. /\ G.rc = B.rc /\ G.progress = B.progress /\ G.D.bytes = B.D.bytes + p
        /\ G.D.period = B.D.period /\ G.D.params = B.D.params /\ G.D.prepare = B.D.prepare
        /\ G.D.buffer_used = B.D.buffer_used /\ G.D.period_ptr = B.D.period_ptr
    <3> HIDE DEF p
    <3>1. p = Len(data) /\ p \in Nat /\ B.D \in Ring
      BY <1>1, <1>2, <1>4 DEF p
    <3> QED  BY <1>4, <2>4, <2>5, <3>1, TransferFields
  <2> QED  BY <1>2, <1>4, <1>10, <2>6 DEF Fed, G
<1> QED  BY <1>9, <1>10

\* A fragment has no room: what that says of the ring.
LEMMA ShortIs ==
  ASSUME now \in Int, NEW D, RingOK(D, now)
  PROVE  Short(D) <=> /\ D.state = "running" /\ D.t0 + D.written > now
                      /\ Capacity(D) - (D.t0 + D.written - now) < D.period
<1> DEFINE U == Updated(D, now)
<1>1. D \in Ring /\ D.t0 \in Nat /\ D.written \in Nat /\ Capacity(D) \in Nat
  BY RingIs, CapacityIs DEF RingOK
<1>2. /\ U.state = "running" => U = D /\ D.t0 + D.written > now
      /\ U = D \/ (U = [D EXCEPT !.state = "xrun"] /\ D.t0 + D.written <= now)
  BY UpdatedIs
<1>3. Queued(D, now) = EndOf(D, now) - now
  BY QueuedIs
<1>4. Short(D) <=> U.state = "running" /\ Capacity(U) - Queued(U, now) < U.period
  BY Zenon DEF Short
<1> HIDE DEF U
<1>5. CASE U.state = "running"
  <2>1. U = D /\ D.state = "running" /\ D.t0 + D.written > now
    BY <1>2, <1>5
  <2>2. Queued(D, now) = D.t0 + D.written - now
    <3>1. D.state = "running" /\ D.t0 + D.written > now
      BY <2>1
    <3>2. EndOf(D, now) = D.t0 + D.written
      BY <3>1, Zenon DEF EndOf
    <3> QED  BY <1>1, <1>3, <3>2
  <2>3. Short(D) <=> Capacity(D) - Queued(D, now) < D.period
    BY <1>4, <1>5, <2>1, Zenon
  <2>5. D.state = "running" /\ D.t0 + D.written > now
    BY <2>1
  <2>6. Short(D) <=> Capacity(D) - (D.t0 + D.written - now) < D.period
    BY <2>2, <2>3, Zenon
  <2> QED  BY <2>5, <2>6, Zenon
<1>6. CASE U.state # "running"
  <2>1. D.state # "running" \/ D.t0 + D.written <= now
    BY <1>1, <1>2, <1>6 DEF Ring
  <2>2. ~(D.state = "running" /\ D.t0 + D.written > now)
    BY <1>1, <2>1
  <2> QED  BY <1>4, <1>6, <2>2
<1> QED  BY <1>5, <1>6

\* A ring with room for a fragment has no more than it holds.
LEMMA ReadyAlso ==
  ASSUME NEW C, Ready(C, "force"), ~Short(C.D)
  PROVE  Ready(C, "block")
<1>1. now \in Int /\ RingOK(C.D, now) /\ C.D.period \in Nat /\ Capacity(C.D) \in Nat /\ C.D \in Ring
  <2>1. now \in Nat /\ RingOK(C.D, now) /\ C.D.period \in Nat /\ Capacity(C.D) \in Nat /\ C.D \in Ring
    BY ReadyIs
  <2> QED  BY <2>1
<1>2. C.D.t0 \in Nat /\ C.D.written \in Nat
  BY <1>1, RingIs
<1>3. ~(/\ C.D.state = "running" /\ C.D.t0 + C.D.written > now
        /\ Capacity(C.D) - (C.D.t0 + C.D.written - now) < C.D.period)
  BY <1>1, ShortIs
<1>4. Fits(C.D, now)
  <2> DEFINE c == Capacity(C.D)
  <2> HIDE DEF c
  <2> QED  BY <1>1, <1>2, <1>3 DEF Fits, c
<1> QED  BY <1>4, Zenon DEF Ready, Sound

\* A pass that has begun on set parameters is ready, with the fragments it found.
LEMMA ReadyHere ==
  ASSUME IInv, call.kind = "none", ~dsp.params, dsp.buffer_used < dsp.period, NEW R,
         R = MakeReady(BeginPass(0))
  PROVE  /\ Ready(R, "force") /\ R.progress = 0 /\ R.D.period = dsp.period
         /\ R.D.buffer_used < R.D.period /\ (Short(R.D) <=> Short(dsp))
<1> DEFINE C == BeginPass(0)
<1>1. /\ Begun /\ CallOK /\ now \in Int /\ RingOK(dsp, now) /\ dsp \in Ring
  BY Inside DEF Begun, RingOK
<1>2. call.progress = 0
  BY <1>1 DEF CallOK, NoCall
<1>3. Sound(C, "force") /\ C.rc = "ok" /\ C.progress = 0 /\ C.D = dsp
  <2> DEFINE B == BeginPass(call.progress)
  <2>1. Sound(B, "force") /\ B.rc = "ok" /\ B.progress = call.progress /\ B.D = dsp
    BY PassBegins
  <2> HIDE DEF B
  <2>2. C = B
    BY <1>2, Zenon DEF B
  <2> QED  BY <1>2, <2>1, <2>2
<1> HIDE DEF C
<1>4. ApplyParams(C) = C
  BY <1>3, Zenon DEF ApplyParams
<1>5. R = IF C.D.prepare THEN Prepare(C) ELSE C
  <2>1. R = Then(ApplyParams(C), LAMBDA A : IF A.D.prepare THEN Prepare(A) ELSE A)
    BY Zenon DEF MakeReady, C
  <2>2. R = Then(C, LAMBDA A : IF A.D.prepare THEN Prepare(A) ELSE A)
    BY <1>4, <2>1
  <2> QED  BY <1>3, <2>2, Zenon DEF Then
<1>6. CASE dsp.prepare
  <2>1. R = Prepare(C)
    BY <1>3, <1>5, <1>6
  <2>2. /\ Sound(R, "force") /\ R.rc = "ok" /\ ~R.D.params /\ ~R.D.prepare
        /\ R.D.state = "prepared" /\ R.D.period = dsp.period /\ R.D.buffer_used = 0
        /\ R.progress = 0
    <3> DEFINE P == Prepare(C)
    <3>1. /\ Sound(P, "force") /\ P.rc = "ok" /\ ~P.D.params /\ ~P.D.prepare
          /\ P.D.state = "prepared" /\ P.D.period = C.D.period /\ P.D.buffer_used = 0
          /\ P.progress = C.progress
      BY <1>3, <1>6, PrepareIs
    <3> HIDE DEF P
    <3> QED  BY <1>3, <2>1, <3>1 DEF P
  <2>3. Ready(R, "force")
    BY <2>2 DEF Ready
  <2>4. RingOK(R.D, now)
    BY <2>3, ReadyIs
  <2>5. ~Short(R.D)
    BY <1>1, <2>2, <2>4, ShortIs
  <2>6. dsp.state = "setup"
    BY <1>1, <1>6 DEF RingOK
  <2>7. ~Short(dsp)
    BY <1>1, <2>6, ShortIs
  <2>8. dsp.buffer_used \in Nat /\ dsp.period \in Nat
    BY <1>1, RingIs
  <2> QED  BY <2>2, <2>3, <2>5, <2>7, <2>8
<1>7. CASE ~dsp.prepare
  <2>1. R = C
    BY <1>3, <1>5, <1>7
  <2>2. Ready(R, "force")
    BY <1>3, <1>7, <2>1 DEF Ready
  <2> QED  BY <1>3, <2>1, <2>2
<1> QED  BY <1>6, <1>7

\* A fragment that is staged whole: it waits, or all of it is given.
Handed(F, G) ==
  IF Short(F.D) THEN G.rc = "halt"
  ELSE /\ Ready(G, "block") /\ G.progress = F.progress
       /\ G.D.buffer_used = 0 /\ G.D.period = F.D.period

\* GiveStaged() gives a whole fragment or waits.
LEMMA HandedIs ==
  ASSUME NEW F, Ready(F, "force"), F.D.buffer_used = F.D.period, F.D.period_ptr = 0
  PROVE  Handed(F, GiveStaged(F, "block"))
<1> DEFINE X == SaveStaging(F)
           b == F.D.period
           data == SubSeq(F.S, 0 + 1, b)
           W == Write2(X, data, "block")
           G == GiveStaged(F, "block")
<1>1. /\ F \in PassRec /\ F.D \in Ring /\ F.S \in Seq(Nat) /\ now \in Nat /\ RingOK(F.D, now)
      /\ b \in Nat /\ b > 0 /\ Len(F.S) = b
  BY ReadyIs
<1>2. /\ Sound(X, "force") /\ X.D = F.D /\ X.S = F.S /\ X.progress = F.progress /\ X.rc = F.rc
  BY SavedIs DEF Ready
<1>3. G = IF W.rc = "ok" THEN Advanced(F, W, "block") ELSE W
  <2>1. G = Then(W, LAMBDA g : Advanced(F, g, "block"))
    BY Zenon DEF GiveStaged
  <2> HIDE DEF W
  <2> QED  BY <2>1, Zenon DEF Then
<1>4. data \in Seq(Nat) /\ Len(data) = b
  <2>1. 0 \in Nat /\ b \in Nat /\ 0 <= b /\ b <= Len(F.S) /\ F.S \in Seq(Nat)
    BY <1>1
  <2> HIDE DEF b
  <2>2. LET d == SubSeq(F.S, 0 + 1, b) IN d \in Seq(Nat) /\ Len(d) = b - 0
    BY <2>1, Slice
  <2> QED  BY <2>1, <2>2
<1> HIDE DEF X, data, W, G
<1>5. Ready(X, "force") /\ X \in PassRec
  BY <1>2, Types DEF Ready
<1>6. Fed(X, W)
  <2>1. X.rc = "ok" /\ RingOK(X.D, now) /\ ~X.D.params
    BY <1>5, ReadyIs DEF Ready
  <2>2. Len(data) = X.D.period
    BY <1>2, <1>4
  <2> QED  BY <1>1, <1>4, <1>5, <2>1, <2>2, FedIs DEF W
<1>7. CASE Short(F.D)
  <2>1. W.rc = "halt"
    BY <1>2, <1>6, <1>7 DEF Fed
  <2>2. G.rc = "halt"
    BY <1>3, <2>1
  <2> QED  BY <1>7, <2>2 DEF Handed, G
<1>8. CASE ~Short(F.D)
  <2>1. W.rc = "ok" /\ W.D.period = b
    BY <1>2, <1>6, <1>8 DEF Fed
  <2>2. Ready(F, "block") /\ Ready(X, "block")
    BY <1>2, <1>5, <1>8, ReadyAlso
  <2>3. Goes(G, "block", F.progress) /\ (G.rc = "ok" => ~G.D.prepare /\ G.D.buffer_used = 0)
    <3>1. "block" \in Modes
      BY DEF Modes
    <3> QED  BY <2>2, <3>1, GiveStagedIs DEF G
  <2>4. W \in PassRec
    <3>1. "block" \in Modes /\ Len(data) \in 1 .. X.D.period
      BY <1>1, <1>2, <1>4 DEF Modes
    <3>2. \/ W.rc \in {"halt", "again"}
          \/ \E k \in 1 .. Len(data), e \in Int : Gives(X, W, "block", e, data, k)
      BY <1>4, <2>2, <3>1, Write2Is DEF W
    <3>3. PICK k \in 1 .. Len(data), e \in Int : Gives(X, W, "block", e, data, k)
      BY <2>1, <3>2
    <3> QED  BY <3>3, Zenon DEF Gives, Almost
  <2>5. G = Advanced(F, W, "block")
    BY <1>3, <2>1
  <2>6. G.rc = "ok" /\ G.D.period = b
    <3> DEFINE q == (F.D.period_ptr + Took(F, W)) % W.D.period
    <3>1. \/ G = [W EXCEPT !.D.period_ptr = 0, !.D.buffer_used = 0]
          \/ G = [W EXCEPT !.D.period_ptr = q, !.rc = IF "block" = "nonblock" THEN "again" ELSE @]
      BY <2>5, Zenon DEF Advanced
    <3> HIDE DEF q
    <3>2. W.D \in Ring
      BY <2>4 DEF PassRec
    <3>3. CASE G = [W EXCEPT !.D.period_ptr = 0, !.D.buffer_used = 0]
      BY <2>1, <2>4, <3>2, <3>3 DEF PassRec, Ring
    <3>4. CASE G = [W EXCEPT !.D.period_ptr = q, !.rc = IF "block" = "nonblock" THEN "again" ELSE @]
      BY <2>1, <2>4, <3>2, <3>4 DEF PassRec, Ring
    <3> QED  BY <3>1, <3>3, <3>4
  <2>7. Ready(G, "block") /\ G.progress = F.progress /\ G.D.buffer_used = 0
    BY <2>3, <2>6 DEF Goes, Ready
  <2> QED  BY <1>8, <2>6, <2>7 DEF Handed, G
<1> QED  BY <1>7, <1>8

\* n bytes of the program's are staged in C.
StagesTo(C, n) ==
  [C EXCEPT !.S = Overwritten(@, C.D.buffer_used, FromProgram(C, n)),
            !.D.buffer_used = @ + n, !.progress = @ + n]

StagesPart(C, n, size, mode, F) ==
  /\ Ready(C, mode) /\ n \in Nat /\ C.D.buffer_used + n <= C.D.period
  /\ n = Min({size - C.progress, C.D.period - C.D.buffer_used}) /\ F = StagesTo(C, n)
StagedPart(C, n, size, mode, F) ==
  /\ Ready(F, mode) /\ F.progress = C.progress + n
  /\ F.D.buffer_used = C.D.buffer_used + n /\ F.D.period = C.D.period
  /\ F.D.period_ptr = C.D.period_ptr /\ (Short(F.D) <=> Short(C.D))
  /\ Stage(C, size, "block") = IF F.D.buffer_used = F.D.period THEN GiveStaged(F, "block") ELSE F

\* Staging() a part of a fragment.
LEMMA StagedTo ==
  ASSUME NEW C, NEW mode, NEW size, NEW n, NEW F, StagesPart(C, n, size, mode, F)
  PROVE  StagedPart(C, n, size, mode, F)
<1> DEFINE X == [C EXCEPT !.S = Overwritten(@, C.D.buffer_used, FromProgram(C, n)),
                          !.D.buffer_used = @ + n, !.progress = @ + n]
           G == Stage(C, size, "block")
<1>0. /\ Ready(C, mode) /\ n \in Nat /\ C.D.buffer_used + n <= C.D.period
      /\ n = Min({size - C.progress, C.D.period - C.D.buffer_used}) /\ F = StagesTo(C, n)
  BY DEF StagesPart
<1>1. F = X
  BY <1>0, Zenon DEF StagesTo
<1>2. G = Then(X, LAMBDA f : IF f.D.buffer_used = f.D.period THEN GiveStaged(f, "block") ELSE f)
  BY <1>0, ZenonT(60) DEF Stage, Staging
<1>3. /\ Ready(X, mode) /\ X.progress = C.progress + n
      /\ X.D.buffer_used = C.D.buffer_used + n /\ X.D.period = C.D.period
      /\ X.D.state = C.D.state /\ X.D.t0 = C.D.t0 /\ X.D.written = C.D.written
      /\ X.D.periods = C.D.periods /\ X.D.period_ptr = C.D.period_ptr
  BY <1>0, StagesIs
<1> HIDE DEF X, G
<1>4. G = Then(F, LAMBDA f : IF f.D.buffer_used = f.D.period THEN GiveStaged(f, "block") ELSE f)
  BY <1>1, <1>2
<1>5. F.rc = "ok"
  BY <1>1, <1>3 DEF Ready
<1>6. G = IF F.D.buffer_used = F.D.period THEN GiveStaged(F, "block") ELSE F
  BY <1>4, <1>5, Zenon DEF Then
<1>7. Short(F.D) <=> Short(C.D)
  <2>1. RingOK(X.D, now) /\ RingOK(C.D, now) /\ now \in Nat
    BY <1>0, <1>3, ReadyIs
  <2>2. now \in Int
    BY <2>1
  <2>3. Capacity(X.D) = Capacity(C.D)
    BY <1>3, Zenon DEF Capacity
  <2>4. Short(X.D) <=> /\ X.D.state = "running" /\ X.D.t0 + X.D.written > now
                       /\ Capacity(X.D) - (X.D.t0 + X.D.written - now) < X.D.period
    BY <2>1, <2>2, ShortIs
  <2>5. Short(C.D) <=> /\ C.D.state = "running" /\ C.D.t0 + C.D.written > now
                       /\ Capacity(C.D) - (C.D.t0 + C.D.written - now) < C.D.period
    BY <2>1, <2>2, ShortIs
  <2> QED  BY <1>1, <1>3, <2>3, <2>4, <2>5, Zenon
<1> QED  BY <1>1, <1>3, <1>6, <1>7, Zenon DEF G, StagedPart

\* Once around, when no signal comes: a part is staged, or a fragment passes through.
LEMMA AroundSo ==
  ASSUME NEW C, NEW R, R = MakeReady(C), R.rc = "ok", NEW size
  PROVE  Around(C, size, "block", FALSE)
           = IF size - R.progress < R.D.period \/ R.D.buffer_used > 0
             THEN Stage(R, size, "block") ELSE Pass(R, "block")
<1> DEFINE M == IF size - R.progress < R.D.period \/ R.D.buffer_used > 0
                THEN Stage(R, size, "block") ELSE Pass(R, "block")
           G == Around(C, size, "block", FALSE)
<1>1. G = Then(Then(R, LAMBDA r : IF size - r.progress < r.D.period \/ r.D.buffer_used > 0
                                  THEN Stage(r, size, "block") ELSE Pass(r, "block")),
               LAMBDA m : IF m.progress < size /\ FALSE THEN [m EXCEPT !.rc = "signal"] ELSE m)
  BY Zenon DEF Around
<1> HIDE DEF G
<1>2. G = Then(M, LAMBDA m : IF m.progress < size /\ FALSE THEN [m EXCEPT !.rc = "signal"] ELSE m)
  BY <1>1, Zenon DEF Then
<1> HIDE DEF M
<1>3. G = IF M.rc = "ok" THEN IF M.progress < size /\ FALSE THEN [M EXCEPT !.rc = "signal"] ELSE M
          ELSE M
  BY <1>2, Zenon DEF Then
<1>4. G = M
  BY <1>3, Zenon
<1> QED  BY <1>4 DEF G, M

\* What is ready is not made ready again.
LEMMA ReadyStays ==
  ASSUME NEW C, NEW mode, Ready(C, mode)
  PROVE  MakeReady(C) = C
<1>1. ~C.D.params /\ ~C.D.prepare /\ C.rc = "ok"
  BY DEF Ready
<1>2. ApplyParams(C) = C
  BY <1>1, Zenon DEF ApplyParams
<1>3. MakeReady(C) = Then(ApplyParams(C), LAMBDA A : IF A.D.prepare THEN Prepare(A) ELSE A)
  BY Zenon DEF MakeReady
<1>4. MakeReady(C) = Then(C, LAMBDA A : IF A.D.prepare THEN Prepare(A) ELSE A)
  BY <1>2, <1>3
<1> QED  BY <1>1, <1>4, Zenon DEF Then

\* A fragment is written where part of one is staged: the staged one waits, or it is given
\* and the rest is staged.
LEMMA StagesOne ==
  ASSUME NEW C, NEW R, R = MakeReady(C), Ready(R, "force"), R.progress = 0,
         R.D.buffer_used > 0, R.D.buffer_used < R.D.period
  PROVE  LET p == R.D.period
             G == Around(C, p, "block", FALSE)
         IN IF Short(R.D) THEN G.rc = "halt"
            ELSE /\ G.rc = "ok" /\ G.progress # p
                 /\ Around(G, p, "block", FALSE).rc = "ok" /\ Around(G, p, "block", FALSE).progress = p
<1> DEFINE p == R.D.period
           b == R.D.buffer_used
           n == p - b
           F == StagesTo(R, n)
           G == Around(C, p, "block", FALSE)
           A == Around(G, p, "block", FALSE)
<1>1. p \in Nat /\ b \in Nat /\ R.D.period_ptr \in 0 .. b /\ RingOK(R.D, now) /\ R.D \in Ring /\ R.rc = "ok"
  BY ReadyIs, RingIs DEF Ready
<1>2. n \in Nat /\ n < p /\ b + n = p /\ b < p /\ b > 0 /\ R.D.period_ptr = 0
  <2>1. R.D.period_ptr = 0
    BY <1>1, RingIs DEF RingOK
  <2> HIDE DEF p, b
  <2>2. b < p /\ b > 0
    BY DEF p, b
  <2> QED  BY <1>1, <2>1, <2>2
<1>3. G = Stage(R, p, "block")
  BY <1>1, <1>2, AroundSo
<1>4. n = Min({p - R.progress, R.D.period - R.D.buffer_used})
  <2>1. p - R.progress = p /\ p \in Int /\ n \in Int /\ ~(p <= n)
    BY <1>1, <1>2
  <2>2. Min({p, n}) = n
    <3> HIDE DEF p, n
    <3> QED  BY <2>1, MinTwo
  <2> QED  BY <2>1, <2>2
<1> HIDE DEF F, G, A
<1>5. /\ Ready(F, "force") /\ F.progress = n /\ F.D.buffer_used = p /\ F.D.period = p
      /\ F.D.period_ptr = 0 /\ (Short(F.D) <=> Short(R.D))
      /\ G = IF F.D.buffer_used = F.D.period THEN GiveStaged(F, "block") ELSE F
  <2>1. R.D.buffer_used + n <= R.D.period
    BY <1>1, <1>2
  <2>2. /\ Ready(F, "force") /\ F.progress = R.progress + n
        /\ F.D.buffer_used = R.D.buffer_used + n /\ F.D.period = R.D.period
        /\ F.D.period_ptr = R.D.period_ptr /\ (Short(F.D) <=> Short(R.D))
        /\ Stage(R, p, "block")
             = IF F.D.buffer_used = F.D.period THEN GiveStaged(F, "block") ELSE F
    <3>1. StagesPart(R, n, p, "force", F)
      BY <1>2, <1>4, <2>1, Zenon DEF F, StagesPart
    <3>2. StagedPart(R, n, p, "force", F)
      BY <3>1, StagedTo
    <3> QED  BY <3>2, Zenon DEF StagedPart
  <2>3. R.progress + n = n
    BY <1>2
  <2>4. F.progress = n
    BY <2>2, <2>3
  <2>5. F.D.buffer_used = p
    BY <1>2, <2>2
  <2> QED  BY <1>2, <1>3, <2>2, <2>4, <2>5, Zenon
<1>6. G = GiveStaged(F, "block") /\ Handed(F, G)
  BY <1>5, HandedIs
<1>7. CASE Short(R.D)
  BY <1>5, <1>6, <1>7 DEF Handed, G
<1>8. CASE ~Short(R.D)
  <2>1. Ready(G, "block") /\ G.progress = n /\ G.D.buffer_used = 0 /\ G.D.period = p
    BY <1>5, <1>6, <1>8 DEF Handed
  <2>2. G.rc = "ok" /\ MakeReady(G) = G /\ G.D.period \in Nat
    BY <1>1, <2>1, ReadyStays DEF Ready
  <2>3. A = Stage(G, p, "block")
    <3>1. p - G.progress < G.D.period
      BY <1>1, <1>2, <2>1
    <3> QED  BY <2>2, <3>1, AroundSo DEF A
  <2> DEFINE Y == StagesTo(G, b)
  <2>4. b = Min({p - G.progress, G.D.period - G.D.buffer_used})
    <3>1. p - G.progress = b /\ G.D.period - G.D.buffer_used = p /\ p \in Int /\ b \in Int /\ b <= p
      BY <1>1, <1>2, <2>1
    <3>2. Min({b, p}) = b
      <4> HIDE DEF p, b
      <4> QED  BY <3>1, MinTwo
    <3> QED  BY <3>1, <3>2
  <2> HIDE DEF Y
  <2>5. /\ Ready(Y, "block") /\ Y.progress = G.progress + b
        /\ Y.D.buffer_used = G.D.buffer_used + b /\ Y.D.period = G.D.period
        /\ Stage(G, p, "block")
             = IF Y.D.buffer_used = Y.D.period THEN GiveStaged(Y, "block") ELSE Y
    <3>1. b \in Nat /\ G.D.buffer_used + b <= G.D.period
      BY <1>1, <1>2, <2>1
    <3>2. StagesPart(G, b, p, "block", Y)
      BY <2>1, <2>4, <3>1, Zenon DEF Y, StagesPart
    <3>3. StagedPart(G, b, p, "block", Y)
      BY <3>2, StagedTo
    <3> QED  BY <3>3, Zenon DEF StagedPart
  <2>6. Y.progress = p /\ Y.D.buffer_used = b /\ Y.D.period = p
    BY <1>1, <1>2, <2>1, <2>5
  <2>7. A = Y
    <3>1. Y.D.buffer_used # Y.D.period
      BY <1>1, <1>2, <2>6
    <3> QED  BY <2>3, <2>5, <3>1, Zenon
  <2>8. A.rc = "ok" /\ A.progress = p
    BY <2>5, <2>6, <2>7 DEF Ready
  <2>9. G.progress # p
    BY <1>2, <2>1
  <2> QED  BY <1>8, <2>2, <2>8, <2>9 DEF A, G
<1> QED  BY <1>7, <1>8

\* A fragment is written where none is staged: it waits, or all of it is given.
LEMMA PassesOne ==
  ASSUME NEW C, NEW R, R = MakeReady(C), Ready(R, "force"), R.progress = 0, R.D.buffer_used = 0
  PROVE  LET p == R.D.period
             G == Around(C, p, "block", FALSE)
         IN IF Short(R.D) THEN G.rc = "halt" ELSE G.rc = "ok" /\ G.progress = p
<1> DEFINE p == R.D.period
           X == SaveStaging(R)
           data == FromProgram(R, p)
           T == Overwritten(R.S, 0, data)
           V == [X EXCEPT !.S = T]
           W == Write2(V, data, "block")
           G == Around(C, p, "block", FALSE)
<1>1. /\ R \in PassRec /\ R.D \in Ring /\ R.S \in Seq(Nat) /\ R.progress \in Nat /\ sent \in Nat
      /\ p \in Nat /\ p > 0 /\ Len(R.S) = p /\ now \in Nat
  BY ReadyIs
<1>2. /\ Sound(X, "force") /\ X.saved /\ X.D = R.D /\ X.S = R.S
      /\ X.progress = R.progress /\ X.rc = R.rc
  BY SavedIs DEF Ready
<1>3. X.D.bytes \in Nat
  BY <1>1, <1>2, RingIs
<1>4. data \in Seq(Nat) /\ Len(data) = p
  BY <1>1, FromIs
<1>5. T \in Seq(Nat) /\ Len(T) = p
  <2> DEFINE S == R.S
  <2>1. S \in Seq(Nat) /\ 0 \in Nat /\ data \in Seq(Nat) /\ Len(S) = p
    BY <1>1, <1>4
  <2> HIDE DEF S, data
  <2>2. Overwritten(S, 0, data) \in Seq(Nat) /\ Len(Overwritten(S, 0, data)) = Len(S)
    BY <2>1, OverwrittenIs
  <2> QED  BY <2>1, <2>2, Zenon DEF S
<1>6. G = Pass(R, "block")
  <2>1. R.rc = "ok" /\ ~(p - R.progress < R.D.period \/ R.D.buffer_used > 0)
    BY <1>1 DEF Ready
  <2>2. R.rc = "ok"
    BY <2>1
  <2>3. G = IF p - R.progress < R.D.period \/ R.D.buffer_used > 0
            THEN Stage(R, p, "block") ELSE Pass(R, "block")
    BY <2>2, AroundSo
  <2> QED  BY <2>1, <2>3, Zenon
<1> HIDE DEF G
<1>7. G = IF W.rc = "ok"
          THEN [W EXCEPT !.progress = @ + Took(R, W),
                         !.rc = IF "block" = "nonblock" /\ Took(R, W) # R.D.period THEN "again" ELSE @]
          ELSE W
  <2>1. V = [SaveStaging(R) EXCEPT !.S = Overwritten(@, 0, data)]
    BY <1>2
  <2> HIDE DEF V
  <2>2. Pass(R, "block") = Then(Write2(V, data, "block"),
                 LAMBDA g : [g EXCEPT !.progress = @ + Took(R, g),
                               !.rc = IF "block" = "nonblock" /\ Took(R, g) # R.D.period
                                      THEN "again" ELSE @])
    BY <2>1, Zenon DEF Pass, Passed
  <2> QED  BY <1>6, <2>2, Zenon DEF Then
<1> HIDE DEF X, data, T, W
<1>8. Ready(X, "force")
  BY <1>2 DEF Ready
<1>9. Ready(V, "force") /\ V.D = R.D /\ V.progress = R.progress
  <2>1. X.D.buffer_used = 0 /\ Len(T) = X.D.period
    BY <1>2, <1>5
  <2>2. Ready(V, "force") /\ V.D = X.D /\ V.progress = X.progress
    BY <1>2, <1>5, <1>8, <2>1, BufferedIs
  <2> HIDE DEF V
  <2> QED  BY <1>2, <2>2
<1> HIDE DEF V
<1>10. V \in PassRec
  BY <1>9, ReadyIs
<1>11. Fed(V, W)
  <2>1. V.rc = "ok" /\ RingOK(V.D, now) /\ ~V.D.params
    BY <1>9, ReadyIs DEF Ready
  <2>2. Len(data) = V.D.period
    BY <1>4, <1>9
  <2> QED  BY <1>1, <1>4, <1>10, <2>1, <2>2, FedIs DEF W
<1>12. CASE Short(R.D)
  <2>1. W.rc = "halt"
    BY <1>9, <1>11, <1>12 DEF Fed
  <2>2. G.rc = "halt"
    BY <1>7, <2>1
  <2> QED  BY <1>12, <2>2 DEF G
<1>13. CASE ~Short(R.D)
  <2>1. W.rc = "ok" /\ W.D.bytes = R.D.bytes + p /\ W.progress = 0
    BY <1>9, <1>11, <1>13 DEF Fed
  <2>2. Took(R, W) = p
    BY <1>1, <1>2, <1>3, <2>1 DEF Took
  <2>3. W \in PassRec
    <3>1. "block" \in Modes /\ Len(data) \in 1 .. V.D.period
      BY <1>1, <1>4, <1>9 DEF Modes
    <3>2. Ready(V, "block")
      BY <1>9, <1>13, ReadyAlso
    <3>3. \/ W.rc \in {"halt", "again"}
          \/ \E k \in 1 .. Len(data), e \in Int : Gives(V, W, "block", e, data, k)
      BY <1>4, <3>1, <3>2, Write2Is DEF W
    <3>4. PICK k \in 1 .. Len(data), e \in Int : Gives(V, W, "block", e, data, k)
      BY <2>1, <3>3
    <3> QED  BY <3>4, Zenon DEF Gives, Almost
  <2>4. G = [W EXCEPT !.progress = @ + p, !.rc = IF "block" = "nonblock" /\ p # R.D.period THEN "again" ELSE @]
    BY <1>7, <2>1, <2>2
  <2>5. G.rc = "ok" /\ G.progress = p
    <3> HIDE DEF p
    <3>1. G.rc = W.rc /\ G.progress = W.progress + p
      BY <2>3, <2>4 DEF PassRec
    <3> QED  BY <1>1, <2>1, <3>1
  <2> QED  BY <1>13, <2>5 DEF G
<1> QED  BY <1>12, <1>13

\* A write that has ended goes no further.
LEMMA Rests ==
  ASSUME NEW n \in Nat, NEW k \in 0 .. n, NEW G, NEW size, NEW mode, NEW signal,
         \A j \in 1 .. n : G[j] = Round(G[j - 1], size, mode, signal),
         G[k].rc # "ok" \/ G[k].progress = size
  PROVE  G[n] = G[k]
<1> DEFINE S == {j \in 0 .. n : j >= k => G[j] = G[k]}
<1>1. 0 \in S
  OBVIOUS
<1>2. ASSUME NEW j \in 1 .. n, j - 1 \in S PROVE j \in S
  <2>1. j \in 0 .. n
    OBVIOUS
  <2>2. CASE j - 1 >= k
    <3>1. G[j - 1] = G[k]
      BY <1>2, <2>2
    <3>2. G[j] = Round(G[k], size, mode, signal)
      BY <3>1
    <3>3. G[j] = G[k]
      BY <3>2, Zenon DEF Round
    <3> QED  BY <2>1, <3>3
  <2>3. CASE ~(j - 1 >= k)
    <3>1. j < k \/ j = k
      BY <2>3
    <3> QED  BY <2>1, <3>1
  <2> QED  BY <2>2, <2>3
<1> HIDE DEF S
<1>3. n \in S
  BY <1>1, <1>2, UpTo
<1> QED  BY <1>3 DEF S

\* Where poll() finds the card writable a write of a fragment does not wait, where it does
\* not, one waits.
LEMMA WaitsHere ==
  ASSUME IInv, call.kind = "none", ~dsp.params, dsp.buffer_used < dsp.period
  PROVE  Short(dsp) <=> Write1(BeginPass(0), dsp.period, "block", FALSE).rc = "halt"
<1> DEFINE no == FALSE
           C == BeginPass(0)
           R == MakeReady(C)
           p == dsp.period
           A == Around(C, p, "block", no)
           B == Around(A, p, "block", no)
           W == Write1(C, p, "block", no)
<1>1. now \in Nat /\ dsp \in Ring
  BY Inside DEF Begun, RingOK
<1>2. p \in Nat /\ p > 0
  <2>1. dsp.period \in Nat /\ dsp.buffer_used \in Nat
    BY <1>1, RingIs
  <2> QED  BY <2>1
<1> HIDE DEF R, no
<1>3. /\ Ready(R, "force") /\ R.progress = 0 /\ R.D.period = p
      /\ R.D.buffer_used < R.D.period /\ (Short(R.D) <=> Short(dsp))
  BY ReadyHere DEF R
<1>4. C.rc = "ok" /\ C.progress = 0
  BY DEF BeginPass
<1>5. PICK G : /\ G[0] = C /\ W = G[p + 2]
               /\ \A j \in 1 .. p + 2 : G[j] = Round(G[j - 1], p, "block", no)
  <2> HIDE DEF C, p
  <2> QED  BY <1>2, WriteLoops
<1> HIDE DEF C, p, W
<1>6. 1 \in 0 .. p + 2 /\ 2 \in 0 .. p + 2 /\ 1 \in 1 .. p + 2 /\ 2 \in 1 .. p + 2 /\ p + 2 \in Nat
      /\ 1 - 1 = 0 /\ 2 - 1 = 1
  BY <1>2
<1>7. G[1] = A
  <2>1. G[1] = Round(C, p, "block", no)
    BY <1>5, <1>6
  <2>2. C.progress # p
    BY <1>2, <1>4
  <2> QED  BY <1>4, <2>1, <2>2, Zenon DEF Round
<1> HIDE DEF A, B
<1>8. ASSUME A.rc # "ok" \/ A.progress = p PROVE W = A
  <2> DEFINE n == p + 2
  <2>1. n \in Nat /\ 1 \in 0 .. n /\ W = G[n]
        /\ \A j \in 1 .. n : G[j] = Round(G[j - 1], p, "block", no)
    BY <1>5, <1>6
  <2> HIDE DEF n
  <2>2. G[n] = G[1]
    BY <1>7, <1>8, <2>1, Rests
  <2> QED  BY <1>7, <2>1, <2>2
<1>9. ASSUME A.rc = "ok", A.progress # p, B.rc = "ok", B.progress = p PROVE W = B
  <2> DEFINE n == p + 2
  <2>1. n \in Nat /\ 2 \in 0 .. n /\ W = G[n]
        /\ \A j \in 1 .. n : G[j] = Round(G[j - 1], p, "block", no)
    BY <1>5, <1>6
  <2>2. G[2] = Round(A, p, "block", no)
    BY <1>5, <1>6, <1>7
  <2>3. G[2] = B
    BY <1>9, <2>2, Zenon DEF Round, B
  <2> HIDE DEF n
  <2>4. G[n] = G[2]
    BY <1>9, <2>1, <2>3, Rests
  <2> QED  BY <2>1, <2>3, <2>4
<1>10. R.D.buffer_used \in 0 .. R.D.period /\ R.D.period \in Nat
  BY <1>3, ReadyIs
<1>11. CASE R.D.buffer_used = 0
  <2>1. IF Short(R.D) THEN A.rc = "halt" ELSE A.rc = "ok" /\ A.progress = p
    <3>1. LET q == R.D.period
              Y == Around(C, q, "block", FALSE)
          IN IF Short(R.D) THEN Y.rc = "halt" ELSE Y.rc = "ok" /\ Y.progress = q
      BY <1>3, <1>11, PassesOne DEF R
    <3> QED  BY <1>3, <3>1, Zenon DEF A, no
  <2>2. CASE Short(R.D)
    <3>1. A.rc = "halt" /\ W = A
      BY <1>8, <2>1, <2>2
    <3> QED  BY <1>3, <2>2, <3>1, Zenon DEF W, C, p, no
  <2>3. CASE ~Short(R.D)
    <3>1. A.rc = "ok" /\ W = A
      BY <1>8, <2>1, <2>3
    <3>2. W.rc # "halt"
      BY <3>1
    <3> QED  BY <1>3, <2>3, <3>2, Zenon DEF W, C, p, no
  <2> QED  BY <2>2, <2>3
<1>12. CASE R.D.buffer_used # 0
  <2>1. IF Short(R.D) THEN A.rc = "halt"
        ELSE A.rc = "ok" /\ A.progress # p /\ B.rc = "ok" /\ B.progress = p
    <3>1. R.D.buffer_used > 0
      BY <1>10, <1>12
    <3>2. LET q == R.D.period
              Y == Around(C, q, "block", FALSE)
          IN IF Short(R.D) THEN Y.rc = "halt"
             ELSE /\ Y.rc = "ok" /\ Y.progress # q
                  /\ Around(Y, q, "block", FALSE).rc = "ok" /\ Around(Y, q, "block", FALSE).progress = q
      BY <1>3, <3>1, StagesOne DEF R
    <3> QED  BY <1>3, <3>2, Zenon DEF A, B, no
  <2>2. CASE Short(R.D)
    <3>1. A.rc = "halt" /\ W = A
      BY <1>8, <2>1, <2>2
    <3> QED  BY <1>3, <2>2, <3>1, Zenon DEF W, C, p, no
  <2>3. CASE ~Short(R.D)
    <3>1. B.rc = "ok" /\ W = B
      BY <1>9, <2>1, <2>3
    <3>2. W.rc # "halt"
      BY <3>1
    <3> QED  BY <1>3, <2>3, <3>2, Zenon DEF W, C, p, no
  <2> QED  BY <2>2, <2>3
<1> QED  BY <1>11, <1>12

-----------------------------------------------------------------------------
(* Frames between units of time, and rates between rates. *)

\* Division as a comparison of products.
LEMMA DivAtLeast ==
  ASSUME NEW a \in Int, NEW b \in Nat, b > 0, NEW q \in Int
  PROVE  a \div b >= q <=> a >= q * b
<1> DEFINE d == a \div b
           m == a % b
<1>1. d \in Int /\ m \in Int /\ a = b * d + m /\ 0 <= m /\ m < b
  OBVIOUS
<1> HIDE DEF d, m
<1>2. ASSUME d >= q PROVE a >= q * b
  <2>1. PICK n \in Nat : d = q + n
    <3>1. d - q \in Nat /\ d = q + (d - q)
      BY <1>1, <1>2
    <3> QED  BY <3>1
  <2>2. b * d = q * b + n * b /\ n * b \in Nat /\ q * b \in Int
    BY <2>1
  <2> QED  BY <1>1, <2>2
<1>3. ASSUME ~(d >= q) PROVE ~(a >= q * b)
  <2>1. PICK n \in Nat : q = d + 1 + n
    <3>1. q - d - 1 \in Nat /\ q = d + 1 + (q - d - 1)
      BY <1>1, <1>3
    <3> QED  BY <3>1
  <2>2. q * b = b * d + b + n * b /\ n * b \in Nat /\ b * d \in Int
    BY <1>1, <2>1
  <2> QED  BY <1>1, <2>2
<1>4. a \div b = d
  BY DEF d
<1> QED  BY <1>2, <1>3, <1>4

\* A frame is played when it is due, rounded up, and not before: what Played() rounds down
\* and PlayedBy() rounds up meet.
LEMMA RoundingMeets ==
  ASSUME NEW r \in Nat, r > 0, NEW s \in Nat, s > 0, NEW e \in Int, NEW f \in Int
  PROVE  (e * r) \div s >= f <=> e >= (f * s + r - 1) \div r
<1> DEFINE u == (f * s + r - 1) \div r
           x == e * r
           y == f * s
<1>1. x \in Int /\ y \in Int
  OBVIOUS
<1>2. (e * r) \div s >= f <=> x >= y
  BY <1>1, DivAtLeast
<1>3. u \in Int
  <2> HIDE DEF y
  <2>1. y + r - 1 \in Int
    BY <1>1
  <2> DEFINE z == y + r - 1
  <2>2. z \div r \in Int
    <3> HIDE DEF z
    <3>1. z \in Int
      BY <2>1 DEF z
    <3> QED  BY <3>1
  <2> QED  BY <2>2 DEF y
<1>4. u >= e + 1 <=> y + r - 1 >= (e + 1) * r
  <2>1. y + r - 1 \in Int /\ e + 1 \in Int
    BY <1>1
  <2> HIDE DEF y
  <2>2. (y + r - 1) \div r >= e + 1 <=> y + r - 1 >= (e + 1) * r
    BY <2>1, DivAtLeast
  <2> QED  BY <2>2 DEF y, u
<1>5. (e + 1) * r = x + r
  OBVIOUS
<1> HIDE DEF u, x, y
<1>6. u >= e + 1 <=> y >= x + 1
  BY <1>1, <1>4, <1>5
<1>7. e >= u <=> x >= y
  BY <1>1, <1>3, <1>6
<1> QED  BY <1>2, <1>7 DEF u

\* On any clock, frame f has played from PlayedBy(f) on.
LEMMA ClockPlayed ==
  ASSUME NEW k, k.rate \in Nat \ {0}, k.second \in Nat \ {0},
         NEW D, D.state = "running", D.t0 \in Int, D.written \in Nat, NEW u \in Int
  PROVE  /\ PlayedOn(k, D, u) \in Nat
         /\ \A f \in 1 .. D.written :
              /\ PlayedByOn(k, D, f) \in Int
              /\ PlayedOn(k, D, u) >= f <=> u >= PlayedByOn(k, D, f)
<1> DEFINE e == Max({u - D.t0, 0})
           p == (e * k.rate) \div k.second
<1>1. e \in Nat /\ e = IF u - D.t0 >= 0 THEN u - D.t0 ELSE 0
  <2>1. u - D.t0 \in Int
    OBVIOUS
  <2>2. e = IF u - D.t0 >= 0 THEN u - D.t0 ELSE 0
    BY <2>1, MaxTwo
  <2> HIDE DEF e
  <2> QED  BY <2>1, <2>2
<1> HIDE DEF e
<1>2. e * k.rate \in Nat
  BY <1>1
<1>3. p \in Int /\ p >= 0
  <2> DEFINE x == e * k.rate
  <2>1. x \in Nat
    BY <1>2
  <2> HIDE DEF x
  <2>2. x \div k.second \in Int
    BY <2>1
  <2>3. 0 * k.second = 0
    OBVIOUS
  <2>4. x \div k.second >= 0 <=> x >= 0 * k.second
    BY <2>1, DivAtLeast
  <2> QED  BY <2>1, <2>2, <2>3, <2>4 DEF x
<1>4. PlayedOn(k, D, u) = Min({p, D.written})
  BY DEF PlayedOn, e
<1> HIDE DEF p
<1>5. PlayedOn(k, D, u) = IF p <= D.written THEN p ELSE D.written
  BY <1>3, <1>4, MinTwo
<1>6. ASSUME NEW f \in 1 .. D.written
      PROVE  /\ PlayedByOn(k, D, f) \in Int
             /\ PlayedOn(k, D, u) >= f <=> u >= PlayedByOn(k, D, f)
  <2> DEFINE c == (f * k.second + k.rate - 1) \div k.rate
  <2>1. p >= f <=> e >= c
    <3> DEFINE r == k.rate
               s == k.second
    <3>1. r \in Nat /\ r > 0 /\ s \in Nat /\ s > 0 /\ e \in Int /\ f \in Int
      BY <1>1
    <3> HIDE DEF r, s
    <3>2. (e * r) \div s >= f <=> e >= (f * s + r - 1) \div r
      BY <3>1, RoundingMeets
    <3> QED  BY <3>2, Zenon DEF p, r, s
  <2>2. c \in Int /\ c >= 1
    <3> DEFINE y == f * k.second
               z == y + k.rate - 1
    <3>1. y \in Nat /\ y >= 1
      <4>1. PICK g \in Nat : f = g + 1
        <5>1. f - 1 \in Nat /\ f = (f - 1) + 1
          OBVIOUS
        <5> QED  BY <5>1
      <4>2. y = g * k.second + k.second /\ g * k.second \in Nat
        BY <4>1
      <4> HIDE DEF y
      <4> QED  BY <4>2
    <3> HIDE DEF y
    <3>2. z \in Int /\ z >= 1 * k.rate
      BY <3>1
    <3> HIDE DEF z
    <3>3. z \div k.rate \in Int /\ (z \div k.rate >= 1 <=> z >= 1 * k.rate)
      BY <3>2, DivAtLeast
    <3> QED  BY <3>2, <3>3 DEF z, y
  <2>3. PlayedByOn(k, D, f) = D.t0 + c
    BY DEF PlayedByOn
  <2> HIDE DEF c
  <2> QED  BY <1>1, <1>3, <1>5, <2>1, <2>2, <2>3
<1>7. PlayedOn(k, D, u) \in Nat
  BY <1>3, <1>5
<1> QED  BY <1>6, <1>7

\* So when there is to be room there is, and there was none a moment before.
LEMMA ClockRoom ==
  ASSUME NEW k, k.rate \in Nat \ {0}, k.second \in Nat \ {0},
         NEW D, D.state = "running", D.t0 \in Int, D.written \in Nat, Capacity(D) \in Nat,
         NEW t \in Int, NEW n \in 1 .. Capacity(D), NEW until, until = RoomDeadlineOn(k, D, n, t)
  PROVE  /\ Capacity(D) - QueuedOn(k, D, until) >= n
         /\ until > t => Capacity(D) - QueuedOn(k, D, until - 1) < n
<1> DEFINE c == Capacity(D)
           f == D.written + n - c
           P(u) == PlayedOn(k, D, u)
<1>1. c \in Nat /\ n \in 1 .. c
  OBVIOUS
<1>2. \A u \in Int : QueuedOn(k, D, u) = D.written - P(u)
  BY Zenon DEF QueuedOn
<1>3. \A u \in Int : P(u) \in Nat
  BY ClockPlayed
<1>4. until = IF QueuedOn(k, D, t) + n <= c THEN t ELSE PlayedByOn(k, D, f)
  <2>1. Min({n, c}) = n
    BY <1>1, MinTwo
  <2>2. until = LET frames == Min({n, c})
                IN IF D.state # "running" \/ QueuedOn(k, D, t) + frames <= c THEN t
                   ELSE PlayedByOn(k, D, D.written + frames - c)
    BY Zenon DEF RoomDeadlineOn
  <2> HIDE DEF c
  <2> QED  BY <2>1, <2>2
<1>5. f \in 1 .. D.written => /\ PlayedByOn(k, D, f) \in Int
                              /\ \A u \in Int : P(u) >= f <=> u >= PlayedByOn(k, D, f)
  BY ClockPlayed
<1> HIDE DEF c, P
<1>6. CASE QueuedOn(k, D, t) + n <= c
  <2>1. until = t
    BY <1>4, <1>6
  <2> QED  BY <1>1, <1>2, <1>3, <1>6, <2>1 DEF c
<1>7. CASE ~(QueuedOn(k, D, t) + n <= c)
  <2>1. QueuedOn(k, D, t) = D.written - P(t) /\ P(t) \in Nat
    BY <1>2, <1>3
  <2>2. f \in 1 .. D.written /\ f = D.written + n - c
    BY <1>1, <1>7, <2>1
  <2> HIDE DEF f
  <2>3. until = PlayedByOn(k, D, f) /\ until \in Int
    BY <1>4, <1>5, <1>7, <2>2
  <2>4. P(until) >= f /\ ~(P(until - 1) >= f) /\ P(until) \in Nat /\ P(until - 1) \in Nat
    <3>1. until - 1 \in Int /\ until >= until /\ ~(until - 1 >= until)
      BY <2>3
    <3> QED  BY <1>3, <1>5, <2>2, <2>3, <3>1
  <2>5. QueuedOn(k, D, until) = D.written - P(until) /\ QueuedOn(k, D, until - 1) = D.written - P(until - 1)
    <3>1. until - 1 \in Int
      BY <2>3
    <3> QED  BY <1>2, <2>3, <3>1
  <2> QED  BY <1>1, <2>2, <2>4, <2>5 DEF c
<1> QED  BY <1>6, <1>7

\* The ring is what it is on every clock.
LEMMA ClocksHere ==
  ASSUME NEW k, k.rate \in Nat \ {0}, k.second \in Nat \ {0},
         dsp.t0 \in Nat, dsp.written \in Nat, Capacity(dsp) \in Nat, Played(dsp, now) \in Int
  PROVE  RoomOn(k)
<1> DEFINE T(late) == FrameTimeOn(k, dsp, Played(dsp, now)) + late
<1>1. ASSUME dsp.state = "running", NEW late \in {0, 1}, NEW n \in 1 .. Capacity(dsp)
      PROVE  LET until == RoomDeadlineOn(k, dsp, n, T(late))
             IN /\ Capacity(dsp) - QueuedOn(k, dsp, until) >= n
                /\ until > T(late) => Capacity(dsp) - QueuedOn(k, dsp, until - 1) < n
  <2> DEFINE x == Played(dsp, now) * k.second
  <2>1. x \in Int
    OBVIOUS
  <2>2. T(late) = dsp.t0 + x \div k.rate + late
    BY DEF FrameTimeOn
  <2> HIDE DEF x
  <2>3. x \div k.rate \in Int
    BY <2>1
  <2>4. T(late) \in Int
    BY <2>2, <2>3
  <2> HIDE DEF T
  <2> QED  BY <1>1, <2>4, ClockRoom
<1> QED  BY <1>1, Zenon DEF RoomOn

-----------------------------------------------------------------------------
(* The plugin remembers the fragment. *)

\* What it remembers of a count it has is the other of the pair.
LEMMA RememberedIs ==
  ASSUME NEW n, n > 0, NEW other
  PROVE  Remembered(n, n, other) = {other}
  BY DEF Remembered

LEMMA FragmentsHere ==
  ASSUME NEW k, k.client \in Nat \ {0}, k.slave \in Nat \ {0}, k.period \in Nat \ {0}
  PROVE  FragmentOn(k)
<1> DEFINE r == NewRatePlugin(k.client, k.slave)
           fragment == ClientSize(r, k.period)
           q == fragment.plug
           c == fragment.frames
           slave == SlaveSize(q, c)
<1>1. SUFFICES ASSUME c > 0
               PROVE  slave.frames = k.period /\ ClientSize(slave.plug, slave.frames) = fragment
  BY Zenon DEF FragmentOn
<1>2. CASE ~r.present
  <2>1. fragment = [frames |-> k.period, plug |-> r]
    BY <1>2, Zenon DEF ClientSize
  <2>2. q = r /\ c = k.period
    BY <2>1
  <2> HIDE DEF r, fragment, q, c
  <2>3. slave = [frames |-> k.period, plug |-> r]
    BY <1>2, <2>2, Zenon DEF SlaveSize
  <2> HIDE DEF slave
  <2>4. slave.frames = k.period /\ slave.plug = r
    BY <2>3
  <2> QED  BY <2>4, Zenon DEF fragment
<1>3. CASE r.present
  <2> DEFINE res == IF r.src_rate < r.dst_rate THEN Multiplied(r, k.period) ELSE Divided(r, k.period)
             s == [r EXCEPT !.old_src_frames = k.period, !.old_dst_frames = res]
  <2>1. r.old_src_frames = 0 /\ r = [r EXCEPT !.present = r.present]
    BY DEF NewRatePlugin
  <2>2. s.old_src_frames = k.period /\ s.old_dst_frames = res /\ s.present = r.present
    BY DEF NewRatePlugin
  <2>3. Remembered(k.period, r.old_src_frames, r.old_dst_frames) = {}
    BY <2>1 DEF Remembered
  <2> HIDE DEF r
  <2>4. fragment = Counted(r, {}, res, k.period, res)
    BY <1>3, <2>3 DEF ClientSize, RateSrcFrames
  <2> HIDE DEF res
  <2>5. fragment = [frames |-> res, plug |-> s]
    BY <2>4, Zenon DEF Counted
  <2> HIDE DEF s, fragment
  <2>6. q = s /\ c = res
    BY <2>5
  <2>7. RateDstFrames(s, res) = [frames |-> k.period, plug |-> s]
    <3>1. Remembered(res, s.old_dst_frames, s.old_src_frames) = {k.period}
      BY <1>1, <2>2, <2>6, RememberedIs
    <3> DEFINE other == IF s.src_rate < s.dst_rate THEN Divided(s, res) ELSE Multiplied(s, res)
    <3>2. RateDstFrames(s, res) = Counted(s, {k.period}, other, other, res)
      BY <3>1 DEF RateDstFrames
    <3> HIDE DEF other
    <3> QED  BY <3>2 DEF Counted
  <2>8. RateSrcFrames(s, k.period) = [frames |-> res, plug |-> s]
    <3>1. Remembered(k.period, s.old_src_frames, s.old_dst_frames) = {res}
      <4>1. k.period > 0
        OBVIOUS
      <4> QED  BY <2>2, <4>1, RememberedIs
    <3> DEFINE other == IF s.src_rate < s.dst_rate THEN Multiplied(s, k.period) ELSE Divided(s, k.period)
    <3>2. RateSrcFrames(s, k.period) = Counted(s, {res}, other, k.period, other)
      BY <3>1 DEF RateSrcFrames
    <3> HIDE DEF other
    <3> QED  BY <3>2 DEF Counted
  <2>9. slave = [frames |-> k.period, plug |-> s]
    BY <1>1, <1>3, <2>2, <2>6, <2>7, Zenon DEF SlaveSize
  <2> HIDE DEF slave
  <2>10. slave.frames = k.period /\ slave.plug = s
    BY <2>9
  <2>11. ClientSize(s, k.period) = fragment
    <3>1. k.period > 0
      OBVIOUS
    <3> QED  BY <1>3, <2>2, <2>5, <2>8, <3>1, Zenon DEF ClientSize
  <2> QED  BY <2>10, <2>11, Zenon
<1> QED  BY <1>2, <1>3

-----------------------------------------------------------------------------
(* The room the card tells of. *)

\* In every state of the invariant what the card tells of its room is so.
LEMMA RoomHere ==
  ASSUME IInv
  PROVE  RoomExact
<1> DEFINE free(t) == Capacity(dsp) - Queued(Updated(dsp, t), t)
           waits == Write1(BeginPass(0), dsp.period, "block", FALSE).rc = "halt"
<1>1. TypeOK
  BY TypeHere
<1>2. call.kind # "none" =>
        free(call.until) >= call.need /\ (call.until > now => free(call.until - 1) < call.need)
  BY WokenHere DEF FreeOf
<1>3. \A t \in now .. now + Capacity(dsp) : OssPoll(t) <=> t >= OssReadyDeadline(now)
  BY PollHere
<1>4. owned /\ call.kind = "none" /\ ~dsp.params /\ dsp.buffer_used < dsp.period =>
        (OssPoll(now) <=> ~waits)
  <2>1. SUFFICES ASSUME call.kind = "none", ~dsp.params, dsp.buffer_used < dsp.period
                 PROVE  OssPoll(now) <=> ~waits
    OBVIOUS
  <2>2. Short(dsp) <=> waits
    BY <2>1, WaitsHere
  <2> HIDE DEF waits
  <2> DEFINE U == Updated(dsp, now)
  <2>3. now \in Int /\ RingOK(dsp, now) /\ dsp \in Ring
    BY Inside DEF Begun, RingOK
  <2>4. U.state = "running" => Queued(U, now) \in Int /\ Capacity(U) \in Int /\ U.period \in Int
    <3>1. RingOK(U, now)
      BY <2>3, UpdatedIs
    <3>2. U \in Ring
      BY <3>1 DEF RingOK
    <3> HIDE DEF U
    <3>3. Queued(U, now) \in Nat /\ Capacity(U) \in Nat /\ U.period \in Nat
      BY <2>3, <3>1, <3>2, QueuedIs, CapacityIs, RingIs
    <3> QED  BY <3>3
  <2>5. Capacity(U) = Capacity(dsp) /\ U.period = dsp.period
    <3>1. U.period = dsp.period /\ U.periods = dsp.periods
      BY <2>3, UpdatedIs DEF Ring
    <3> HIDE DEF U
    <3> QED  BY <3>1, Zenon DEF Capacity
  <2>6. OssPoll(now) <=> U.state # "running" \/ Capacity(U) - Queued(U, now) >= U.period
    BY Zenon DEF OssPoll
  <2>7. Short(dsp) <=> U.state = "running" /\ Capacity(U) - Queued(U, now) < U.period
    BY Zenon DEF Short
  <2> HIDE DEF U
  <2>8. OssPoll(now) <=> ~Short(dsp)
    BY <2>4, <2>5, <2>6, <2>7
  <2> QED  BY <2>2, <2>8, Zenon
<1>5. ASSUME NEW k \in Cards PROVE RoomOn(k) /\ FragmentOn(k)
  <2>1. /\ k.rate \in Nat \ {0} /\ k.second \in Nat \ {0} /\ k.client \in Nat \ {0}
        /\ k.slave \in Nat \ {0} /\ k.period \in Nat \ {0}
    BY DspAssumption
  <2>2. now \in Int /\ dsp \in Ring /\ RingOK(dsp, now)
    BY Inside DEF Begun, RingOK
  <2>3. /\ dsp.t0 \in Nat /\ dsp.written \in Nat /\ Capacity(dsp) \in Nat
        /\ Played(dsp, now) \in Int
    BY <2>2, RingIs, CapacityIs, PlayedIs
  <2>4. RoomOn(k)
    BY <2>1, <2>3, ClocksHere
  <2>5. FragmentOn(k)
    BY <2>1, FragmentsHere
  <2> QED  BY <2>4, <2>5
<1> QED  BY <1>1, <1>2, <1>3, <1>4, <1>5, Zenon DEF RoomExact, FragmentsFit

\* A wait ends when there is the room it needs and not before, poll() finds the card
\* writable from the time its own wait was given on, and where it does, and only there, a
\* write of a fragment does not wait; on every clock the rounding of frames to time and back
\* makes it neither early nor late, and between any rates a fragment's write waits for a
\* period and gives the fragment (RoomDeadline, PlayedBy, Played, OssPoll, OssReadyDeadline,
\* Write2, RateSrcFrames, RateDstFrames).
THEOREM RoomAlwaysExact == Spec => []RoomExact
<1>1. IInv => RoomExact
  BY RoomHere
<1> QED  BY <1>1, Invariant, PTL
=============================================================================
