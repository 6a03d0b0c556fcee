--------------------------- MODULE GuestWaitProofs ---------------------------
(***************************************************************************)
(* What GuestWait keeps for signals, masks, durations and periods of any   *)
(* kind: a call that waits keeps its deadline and its mask, the host's     *)
(* timer for it is due in time, no program sleeps with a signal it could   *)
(* take, a cancellation ends one call, and a periodic timer its phase.     *)
(*                                                                         *)
(* First what each operator does to the state it is given, then the        *)
(* inductive invariant WInv, one action after another.                     *)
(***************************************************************************)
EXTENDS GuestWait, TLAPS, WellFoundedInduction, SequenceTheorems

-----------------------------------------------------------------------------
(* The invariant. *)

\* The program's own mask, while a call has put one of its own over it.
OwnMask(m, w) == IF w.masked THEN w.saved ELSE m.mask

OnPhase(t, start) == t.armed /\ t.every > 0 => t.at % t.every = start

\* A call's deadline is worked out when it begins and kept from its first halt on; one
\* without a deadline never gets one.
DeadlineSound ==
  /\ Waits => /\ doing.call \in Calls /\ due \in 0 .. Never
              /\ wait.pending => wait.until = due
              /\ ~wait.pending => doing.state = "call" /\ due = Proposed(doing.call)
              /\ doing.call.n = Never <=> due = Never
  /\ ~Waits => wait = NoWait

WInv ==
  /\ TypeOK /\ DeadlineSound
  /\ ready = 0 \/ ready > now
  /\ Waits => OwnMask(mach, wait) = before
  /\ NoSignalSleeps /\ NothingDueUnseen /\ TimerKeepsPhase /\ CancelEndsOne
-----------------------------------------------------------------------------
(* Arithmetic. *)

\* A quotient and a remainder.
LEMMA DivMod ==
  ASSUME NEW a \in Nat, NEW e \in Nat \ {0}
  PROVE  \E q \in Nat, r \in 0 .. e - 1 : r = a % e /\ a = (e * q) + r
<1>1. PICK q \in Int, r \in Int : q = a \div e /\ r = a % e
  OBVIOUS
<1>2. r \in 0 .. e - 1
  BY <1>1
<1>3. a = (e * q) + r
  BY <1>1
<1>4. q >= 0
  <2>1. CASE q <= -1
    <3>1. e * q <= e * (-1)
      BY <2>1
    <3> QED  BY <1>2, <1>3, <3>1
  <2> QED  BY <1>1, <2>1
<1>5. r = a % e
  BY <1>1
<1>6. q \in Nat
  BY <1>1, <1>4
<1> QED  BY <1>2, <1>3, <1>5, <1>6

\* There is one remainder.
LEMMA OneRemainder ==
  ASSUME NEW e \in Nat \ {0}, NEW q \in Int, NEW r \in 0 .. e - 1,
         NEW p \in Int, NEW s \in 0 .. e - 1, (e * q) + r = (e * p) + s
  PROVE  r = s
<1>1. e * (q - p) = s - r
  OBVIOUS
<1>2. q - p \in Int
  OBVIOUS
<1>3. CASE q - p >= 1
  <2>1. e * (q - p) >= e * 1
    BY <1>3
  <2> QED  BY <1>1, <2>1
<1>4. CASE q - p <= -1
  <2>1. e * (q - p) <= e * (-1)
    BY <1>4
  <2> QED  BY <1>1, <2>1
<1>5. CASE q - p = 0
  BY <1>1, <1>5
<1> QED  BY <1>2, <1>3, <1>4, <1>5

\* The next of the times a periodic timer was set for is ahead, and on its phase.
NextTime(at, every, time) == time + (every - ((time - at) % every))
LEMMA SamePhase ==
  ASSUME NEW at \in Nat, NEW time \in Nat, NEW every \in Nat \ {0}, at <= time
  PROVE  /\ NextTime(at, every, time) \in Nat /\ NextTime(at, every, time) > time
         /\ NextTime(at, every, time) % every = at % every
<1> DEFINE next == NextTime(at, every, time)
<1> SUFFICES next \in Nat /\ next > time /\ next % every = at % every
  OBVIOUS
<1>1. time - at \in Nat
  OBVIOUS
<1>2. PICK k \in Nat, m \in 0 .. every - 1 :
        m = (time - at) % every /\ time - at = (every * k) + m
  BY <1>1, DivMod
<1>3. next = time + (every - m)
  BY <1>2 DEF NextTime
<1> HIDE DEF next
<1>4. next \in Nat /\ next > time
  BY <1>3
<1>5. PICK q \in Nat, r \in 0 .. every - 1 : r = at % every /\ at = (every * q) + r
  BY DivMod
<1>6. PICK p \in Nat, s \in 0 .. every - 1 : s = next % every /\ next = (every * p) + s
  BY <1>4, DivMod
<1>7. PICK ek \in Int, eq \in Int : ek = every * k /\ eq = every * q
  OBVIOUS
<1>8. next = ek + eq + every + r
  <2>1. time - at = ek + m /\ at = eq + r
    BY <1>2, <1>5, <1>7
  <2> QED  BY <1>3, <1>7, <2>1
<1>9. every * (q + k + 1) = ek + eq + every
  BY <1>7
<1>10. (every * (q + k + 1)) + r = (every * p) + s
  BY <1>6, <1>8, <1>9
<1>11. q + k + 1 \in Int
  OBVIOUS
<1>12. r = s
  BY <1>10, <1>11, OneRemainder
<1> QED  BY <1>4, <1>5, <1>6, <1>12

\* A set of numbers that is not empty has a least one.
LEMMA Least ==
  ASSUME NEW S \in SUBSET Nat, S # {}
  PROVE  \E n \in S : \A m \in S : n <= m
<1>1. \E n \in S : \A m \in S : ~(<<m, n>> \in OpToRel(<, Nat))
  BY NatLessThanWellFounded, WFMin, Zenon
<1>2. PICK n \in S : \A m \in S : ~(<<m, n>> \in OpToRel(<, Nat))
  BY <1>1, Zenon
<1>3. \A m \in Nat : m < n => <<m, n>> \in OpToRel(<, Nat)
  BY DEF OpToRel
<1>4. \A m \in S : m \in Nat /\ n \in Nat
  OBVIOUS
<1>5. \A m \in S : ~(m < n)
  BY <1>2, <1>3, <1>4, Zenon
<1> QED  BY <1>4, <1>5

-----------------------------------------------------------------------------
(* What the operators do to the state of a call. *)

Machs == [mask : SUBSET Signals, signals : SUBSET Signals, attention : BOOLEAN]
Frames == [mask : SUBSET Signals, back : Calls \cup {NoCall}]
Timers == [armed : BOOLEAN, at : Nat, every : Periods \cup {0}]
Waitings == [pending : BOOLEAN, masked : BOOLEAN, cancelled : BOOLEAN, saved : SUBSET Signals,
             real : BOOLEAN, until : 0 .. Never, at : 0 .. Never]
States == [mach : Machs, frames : Seq(Frames), timer : Timers, wait : Waitings, dead : BOOLEAN]

LEMMA Times ==
  /\ MaxTime \in Nat /\ Ahead \in Nat /\ Never \in Nat /\ Never > MaxTime
  /\ TypeOK => /\ now \in Nat /\ ahead \in Nat
               /\ now <= MaxTime /\ ahead <= MaxTime + Ahead
<1>1. MaxTime \in Nat /\ Ahead \in Nat /\ Never \in Nat /\ Never > MaxTime
  BY WaitAssumption DEF Never
<1>2. TypeOK => now \in 0 .. MaxTime /\ (ahead = Ahead \/ \E j \in Jumps : ahead = Ahead + j)
  BY DEF TypeOK
<1>3. \A j \in Jumps : j \in Int /\ j <= MaxTime /\ Ahead + j \in Nat
  BY WaitAssumption
<1> QED  BY <1>1, <1>2, <1>3

LEMMA NoWaitTyped == NoWait \in Waitings /\ ~NoWait.masked /\ ~NoWait.pending /\ ~NoWait.cancelled
<1>1. Never \in 0 .. Never
  BY Times
<1> QED  BY <1>1 DEF NoWait, Waitings

LEMMA NowTyped ==
  ASSUME TypeOK
  PROVE  /\ Now \in States /\ ~Now.dead /\ Now.mach = mach /\ Now.frames = frames
         /\ Now.timer = timer /\ Now.wait = wait
BY DEF TypeOK, Now, States, Machs, Frames, Timers, Waitings

LEMMA EnqueuedIs ==
  ASSUME NEW m \in Machs, NEW sig \in Signals
  PROVE  Enqueued(m, sig) \in Machs /\ Enqueued(m, sig).mask = m.mask
<1> DEFINE q == [m EXCEPT !.signals = @ \cup {sig}]
<1>1. q \in Machs /\ q.mask = m.mask
  BY DEF Machs
<1> HIDE DEF q
<1>2. PICK a \in BOOLEAN : a = (q.attention \/ Deliverable(q) # {})
  OBVIOUS
<1>3. Enqueued(m, sig) = [q EXCEPT !.attention = a]
  BY <1>2 DEF Enqueued, q
<1> QED  BY <1>1, <1>3 DEF Machs

\* Looking at the timer leaves one that is armed for later.
LEMMA CheckedIs ==
  ASSUME now \in Nat, NEW s \in States, NEW c, c = TimerChecked(s)
  PROVE  /\ c \in States /\ c.frames = s.frames /\ c.wait = s.wait /\ c.dead = s.dead
         /\ c.mach.mask = s.mach.mask
         /\ c.timer.armed => c.timer.at > now
         /\ \A start : OnPhase(s.timer, start) => OnPhase(c.timer, start)
<1>1. PICK t \in Timers : t = s.timer
  BY DEF States
<1>2. t.at \in Nat /\ t.every \in Nat /\ Alarm \in Signals /\ t.armed \in BOOLEAN
  <2>1. Periods \cup {0} \subseteq Nat /\ Alarm \in Signals
    BY WaitAssumption
  <2> QED  BY <2>1 DEF Timers
<1>3. CASE ~t.armed \/ now < t.at
  <2>1. c = s
    BY <1>1, <1>3 DEF TimerChecked
  <2> QED  BY <1>1, <1>2, <1>3, <2>1
<1>4. CASE t.armed /\ ~(now < t.at)
  <2> DEFINE m == Enqueued(s.mach, Alarm)
             next == NextTime(t.at, t.every, now)
             u == IF t.every = 0 THEN NoTimer ELSE [t EXCEPT !.at = next]
  <2>1. m \in Machs /\ m.mask = s.mach.mask
    BY <1>2, EnqueuedIs DEF States
  <2>2. c = [s EXCEPT !.mach = m, !.timer = u]
    BY <1>1, <1>4 DEF TimerChecked, NextTime
  <2>3. /\ u \in Timers /\ (u.armed => u.at > now)
        /\ \A start : OnPhase(t, start) => OnPhase(u, start)
    <3>1. CASE t.every = 0
      BY <3>1 DEF NoTimer, Timers, OnPhase
    <3>2. CASE t.every # 0
      <4>1. next \in Nat /\ next > now /\ next % t.every = t.at % t.every
        <5>1. t.every \in Nat \ {0} /\ t.at <= now
          BY <1>2, <1>4, <3>2
        <5> QED  BY <1>2, <5>1, SamePhase
      <4> HIDE DEF next
      <4>2. u \in Timers /\ u.at = next /\ u.every = t.every /\ u.armed
        BY <1>4, <3>2, <4>1 DEF Timers
      <4> QED  BY <1>4, <4>1, <4>2 DEF OnPhase
    <3> QED  BY <3>1, <3>2
  <2> HIDE DEF m, u
  <2>4. /\ c \in States /\ c.frames = s.frames /\ c.wait = s.wait /\ c.dead = s.dead
        /\ c.mach = m /\ c.timer = u
    BY <2>1, <2>2, <2>3 DEF States
  <2> QED  BY <1>1, <2>1, <2>3, <2>4
<1> QED  BY <1>2, <1>3, <1>4

\* A mask for the call goes over the program's own.
LEMMA MaskedIs ==
  ASSUME NEW s \in States, NEW mask, mask = NoMask \/ mask \in SUBSET Signals,
         NEW c, c = Masked(s, mask)
  PROVE  /\ c \in States /\ c.frames = s.frames /\ c.timer = s.timer /\ c.dead = s.dead
         /\ OwnMask(c.mach, c.wait) = OwnMask(s.mach, s.wait)
         /\ c.wait.pending = s.wait.pending /\ c.wait.cancelled = s.wait.cancelled
         /\ c.wait.until = s.wait.until
<1>1. CASE mask = NoMask
  BY <1>1 DEF Masked
<1>2. CASE mask # NoMask
  <2> DEFINE m == [s.mach EXCEPT !.mask = mask]
             w == IF s.wait.masked THEN s.wait
                  ELSE [s.wait EXCEPT !.masked = TRUE, !.saved = s.mach.mask]
  <2>1. c = [s EXCEPT !.mach = m, !.wait = w]
    BY <1>2 DEF Masked
  <2>2. m \in Machs /\ m.mask = mask
    BY <1>2 DEF States, Machs
  <2>3. w \in Waitings /\ OwnMask(m, w) = OwnMask(s.mach, s.wait)
        /\ w.pending = s.wait.pending /\ w.cancelled = s.wait.cancelled /\ w.until = s.wait.until
    BY DEF States, Machs, Waitings, OwnMask
  <2> HIDE DEF m, w
  <2> QED  BY <2>1, <2>2, <2>3 DEF States
<1> QED  BY <1>1, <1>2

\* GuestWaitRestoreMask() and GuestWaitFinish() leave the program's own mask.
LEMMA UnmaskedIs ==
  ASSUME NEW s \in States, NEW c, c = Unmasked(s)
  PROVE  /\ c \in States /\ c.frames = s.frames /\ c.timer = s.timer /\ c.dead = s.dead
         /\ ~c.wait.masked /\ c.mach.mask = OwnMask(s.mach, s.wait)
         /\ c.mach.signals = s.mach.signals
         /\ ~s.wait.masked => c = s
<1>1. CASE ~s.wait.masked
  BY <1>1 DEF Unmasked, OwnMask
<1>2. CASE s.wait.masked
  <2> DEFINE m == [s.mach EXCEPT !.mask = s.wait.saved]
             w == [s.wait EXCEPT !.masked = FALSE]
  <2>1. c = [s EXCEPT !.mach = m, !.wait = w]
    BY <1>2 DEF Unmasked
  <2>2. m \in Machs /\ m.mask = s.wait.saved /\ m.signals = s.mach.signals
        /\ w \in Waitings /\ ~w.masked
    BY DEF States, Machs, Waitings
  <2> HIDE DEF m, w
  <2> QED  BY <1>2, <2>1, <2>2 DEF States, OwnMask
<1> QED  BY <1>1, <1>2

LEMMA FinishedIs ==
  ASSUME NEW s \in States, NEW c, c = Finished(s)
  PROVE  /\ c \in States /\ c.frames = s.frames /\ c.timer = s.timer /\ c.dead = s.dead
         /\ c.wait = NoWait /\ c.mach.mask = OwnMask(s.mach, s.wait)
<1>1. PICK u : u = Unmasked(s)
  OBVIOUS
<1>2. /\ u \in States /\ u.frames = s.frames /\ u.timer = s.timer /\ u.dead = s.dead
      /\ u.mach.mask = OwnMask(s.mach, s.wait)
  BY <1>1, UnmaskedIs
<1>3. c = [u EXCEPT !.wait = NoWait]
  BY <1>1 DEF Finished
<1> QED  BY <1>2, <1>3, NoWaitTyped DEF States

\* The signal ConsumeSignal() comes to something with is one it lets through.
LEMMA TakenIs ==
  ASSUME NEW s \in States, Acting(s) # {}
  PROVE  Taken(s) \in Acting(s) /\ Taken(s) \in Signals
<1>1. Acting(s) \subseteq Signals /\ Signals \subseteq 1 .. 64
  BY WaitAssumption DEF Acting, Deliverable, States, Machs
<1> DEFINE Under == {64 - g : g \in Acting(s)}
<1>2. PICK n \in Under : \A m \in Under : n <= m
  <2>1. ASSUME NEW g \in Acting(s) PROVE 64 - g \in Nat
    <3>1. g \in 1 .. 64
      BY <1>1
    <3> QED  BY <3>1
  <2>2. Under \in SUBSET Nat /\ Under # {}
    BY <2>1
  <2> QED  BY <2>2, Least
<1>3. PICK g \in Acting(s) : n = 64 - g
  OBVIOUS
<1>4. \A h \in Acting(s) : g >= h
  <2>1. ASSUME NEW h \in Acting(s) PROVE g >= h
    <3>1. n <= 64 - h /\ g \in 1 .. 64 /\ h \in 1 .. 64
      BY <1>1, <1>2
    <3> QED  BY <1>3, <3>1
  <2> QED  BY <2>1
<1>5. Max(Acting(s)) \in Acting(s)
  BY <1>3, <1>4, Zenon DEF Max
<1> QED  BY <1>1, <1>5 DEF Taken

\* ConsumeSignal() leaves nothing it could take, or starts one handler, whose frame has the
\* program's own mask, or ends the program.
LEMMA ConsumedIs ==
  ASSUME NEW s \in States, ~s.dead, NEW back \in [Signals -> Calls \cup {NoCall}],
         NEW c, c = Consumed(s, back)
  PROVE  /\ c \in States /\ c.timer = s.timer
         /\ ~s.wait.masked => c.wait = s.wait
         /\ Acting(s) = {} => /\ c.frames = s.frames /\ c.wait = s.wait /\ ~c.dead
                              /\ c.mach.mask = s.mach.mask /\ Deliverable(c.mach) = {}
         /\ \/ c.dead
            \/ c.frames = s.frames /\ c.wait = s.wait /\ c.mach.mask = s.mach.mask
            \/ /\ Len(c.frames) > Len(s.frames) /\ ~c.wait.masked
               /\ Last(c.frames).mask = OwnMask(s.mach, s.wait)
<1> DEFINE left == {g \in s.mach.signals : g \in s.mach.mask \/ (~(Acting(s) = {}) /\ g < Taken(s))}
           m == [s.mach EXCEPT !.signals = left]
           d == [s EXCEPT !.mach = m]
           p == Unmasked(d)
           g0 == Taken(s)
           f == [mask |-> p.mach.mask, back |-> back[g0]]
           k == p.mach.mask \cup HandlerMask[g0] \cup {g0}
           n == [p.mach EXCEPT !.mask = k]
           fs == Append(p.frames, f)
\* The state it comes to, in each case.
<1>1. /\ Acting(s) = {} => c = d
      /\ Acting(s) # {} /\ hands[g0] = "die" => c = [d EXCEPT !.dead = TRUE]
      /\ Acting(s) # {} /\ hands[g0] # "die" => c = [p EXCEPT !.frames = fs, !.mach = n]
  <2>1. c = CASE Acting(s) = {} -> [s EXCEPT !.mach.signals = left]
              [] ~(Acting(s) = {}) /\ hands[g0] = "die" ->
                   [[s EXCEPT !.mach.signals = left] EXCEPT !.dead = TRUE]
              [] OTHER -> [Unmasked([s EXCEPT !.mach.signals = left]) EXCEPT
                             !.frames = Append(@, [mask |-> Unmasked([s EXCEPT !.mach.signals = left]).mach.mask,
                                                   back |-> back[g0]]),
                             !.mach.mask = @ \cup HandlerMask[g0] \cup {g0}]
    BY Zenon DEF Consumed
  <2>2. [s EXCEPT !.mach.signals = left] = d
    <3> HIDE DEF left
    <3> QED  OBVIOUS
  <2> HIDE DEF left, m, d, g0
  <2>3. c = CASE Acting(s) = {} -> d
              [] ~(Acting(s) = {}) /\ hands[g0] = "die" -> [d EXCEPT !.dead = TRUE]
              [] OTHER -> [p EXCEPT !.frames = Append(@, f),
                                    !.mach.mask = @ \cup HandlerMask[g0] \cup {g0}]
    BY <2>1, <2>2
  <2> HIDE DEF p, f
  <2>4. [p EXCEPT !.frames = Append(@, f), !.mach.mask = @ \cup HandlerMask[g0] \cup {g0}] =
          [p EXCEPT !.frames = fs, !.mach = n]
    OBVIOUS
  <2> QED  BY <2>3, <2>4
<1>2. m \in Machs /\ m.mask = s.mach.mask /\ m.signals = left
  <2>1. left \in SUBSET s.mach.signals /\ s.mach \in Machs /\ s.mach.signals \in SUBSET Signals
    BY DEF States, Machs
  <2> HIDE DEF left
  <2> QED  BY <2>1 DEF Machs
<1> HIDE DEF m
<1>3. /\ d \in States /\ d.mach = m /\ d.frames = s.frames /\ d.timer = s.timer
      /\ d.wait = s.wait /\ d.dead = s.dead
  BY <1>2 DEF States
<1> HIDE DEF d
<1>4. CASE Acting(s) = {}
  <2>1. c = d
    BY <1>1, <1>4
  <2>2. Deliverable(m) = {}
    BY <1>2, <1>4 DEF Deliverable
  <2> QED  BY <1>2, <1>3, <2>1, <2>2
<1> HIDE DEF left
<1>5. CASE Acting(s) # {} /\ hands[g0] = "die"
  <2>1. c = [d EXCEPT !.dead = TRUE]
    BY <1>1, <1>5
  <2>2. c \in States /\ c.dead /\ c.timer = d.timer /\ c.wait = d.wait
    BY <1>3, <2>1 DEF States
  <2> QED  BY <1>3, <1>5, <2>2
<1>6. CASE Acting(s) # {} /\ hands[g0] # "die"
  <2>1. g0 \in Signals
    BY <1>6, TakenIs
  <2>2. c = [p EXCEPT !.frames = fs, !.mach = n]
    BY <1>1, <1>6
  <2> HIDE DEF g0
  <2>3. OwnMask(d.mach, d.wait) = OwnMask(s.mach, s.wait)
    BY <1>2, <1>3 DEF OwnMask
  <2>4. /\ p \in States /\ p.frames = s.frames /\ p.timer = s.timer
        /\ ~p.wait.masked /\ p.mach.mask = OwnMask(s.mach, s.wait)
        /\ ~s.wait.masked => p = d
    BY <1>3, <2>3, UnmaskedIs
  <2> HIDE DEF p
  <2>5. p.mach \in Machs /\ p.mach.mask \in SUBSET Signals /\ p.frames \in Seq(Frames)
    BY <2>4 DEF States, Machs
  <2>6. HandlerMask[g0] \in SUBSET Signals /\ back[g0] \in Calls \cup {NoCall}
    BY <2>1, WaitAssumption
  <2>7. f \in Frames /\ f.mask = p.mach.mask
    BY <2>5, <2>6 DEF Frames
  <2>8. k \in SUBSET Signals
    BY <2>1, <2>5, <2>6
  <2> HIDE DEF f, k
  <2>9. n \in Machs
    BY <2>5, <2>8 DEF Machs
  <2>10. fs \in Seq(Frames) /\ Len(fs) = Len(p.frames) + 1 /\ fs[Len(p.frames) + 1] = f
    BY <2>5, <2>7, AppendProperties
  <2>11. Len(p.frames) \in Nat /\ Last(fs) = f
    BY <2>5, <2>10, LenProperties DEF Last
  <2> HIDE DEF n, fs
  <2>12. c \in States /\ c.frames = fs /\ c.timer = p.timer /\ c.wait = p.wait
    BY <2>2, <2>4, <2>9, <2>10 DEF States
  <2>13. Len(c.frames) > Len(s.frames)
    BY <2>4, <2>10, <2>11, <2>12
  <2> QED  BY <1>3, <1>6, <2>4, <2>7, <2>11, <2>12, <2>13
<1> QED  BY <1>4, <1>5, <1>6

LEMMA BackTyped ==
  /\ \A c \in Calls \cup {NoCall} : Always(c) \in [Signals -> Calls \cup {NoCall}]
  /\ \A c \in Calls : Restarts(c) \in [Signals -> Calls \cup {NoCall}]
BY DEF Always, Restarts

\* What the calls are made with.
LEMMA CallIs ==
  ASSUME NEW c \in Calls
  PROVE  /\ c.mask = NoMask \/ c.mask \in SUBSET Signals
         /\ c.n \in Nat /\ (Sleeps(c) => c.n < Never)
         /\ ~Sleeps(c) /\ c.op \notin {"poll", "ppoll"} => c.n = Never
         /\ c.op = "clock_nanosleep" => Sleeps(c)
<1>1. /\ Durations \subseteq 1 .. MaxTime /\ Masks \subseteq SUBSET Signals
      /\ MaxTime \in Nat /\ Never \in Nat /\ Never > MaxTime
  BY WaitAssumption, Times
<1>2. CASE c \in [op : {"nanosleep", "clock_nanosleep"}, n : Durations, mask : {NoMask}]
  <2>1. c.n \in 1 .. MaxTime /\ c.mask = NoMask /\ c.op \in {"nanosleep", "clock_nanosleep"}
    BY <1>1, <1>2
  <2> QED  BY <1>1, <2>1 DEF Sleeps
<1>3. CASE c \in [op : {"ppoll"}, n : Durations \cup {Never}, mask : Masks \cup {NoMask}]
  <2>1. /\ c.n \in 1 .. MaxTime \/ c.n = Never
        /\ c.mask = NoMask \/ c.mask \in SUBSET Signals
        /\ c.op = "ppoll"
    BY <1>1, <1>3
  <2> QED  BY <1>1, <2>1 DEF Sleeps
<1>4. CASE c \in [op : {"rt_sigsuspend"}, n : {Never}, mask : Masks]
  BY <1>1, <1>4 DEF Sleeps
<1>5. CASE c \in [op : {"pause", "read"}, n : {Never}, mask : {NoMask}]
  BY <1>1, <1>5 DEF Sleeps
<1>6. CASE c \in [op : {"poll"}, n : Durations \cup {Never}, mask : {NoMask}]
  <2>1. (c.n \in 1 .. MaxTime \/ c.n = Never) /\ c.mask = NoMask /\ c.op = "poll"
    BY <1>1, <1>6
  <2> QED  BY <1>1, <2>1 DEF Sleeps
<1> QED  BY <1>2, <1>3, <1>4, <1>5, <1>6 DEF Calls

\* Before it looks for signals, an attempt has looked at the timer under the call's mask,
\* unless it looks at neither.
LEMMA LookedIs ==
  ASSUME TypeOK, NEW c \in Calls, NEW s, s = Looked(c)
  PROVE  /\ s \in States /\ s.frames = frames /\ ~s.dead
         /\ OwnMask(s.mach, s.wait) = OwnMask(mach, wait)
         /\ s.timer.armed => s.timer.at > now \/ Blind(c)
         /\ \A start : OnPhase(timer, start) => OnPhase(s.timer, start)
         /\ s.wait.pending = wait.pending /\ s.wait.cancelled = wait.cancelled
         /\ s.wait.until = wait.until
<1>1. now \in Nat
  BY Times
<1>2. PICK m : m = Masked(Now, c.mask)
  OBVIOUS
<1>3. /\ m \in States /\ m.frames = frames /\ m.timer = timer /\ ~m.dead
      /\ OwnMask(m.mach, m.wait) = OwnMask(mach, wait)
      /\ m.wait.pending = wait.pending /\ m.wait.cancelled = wait.cancelled
      /\ m.wait.until = wait.until
  BY <1>2, CallIs, NowTyped, MaskedIs
<1>4. CASE ~Blind(c)
  <2>1. s = TimerChecked(m)
    BY <1>2, <1>4 DEF Looked
  <2>2. /\ s \in States /\ s.frames = m.frames /\ s.wait = m.wait /\ s.dead = m.dead
        /\ s.mach.mask = m.mach.mask
        /\ s.timer.armed => s.timer.at > now
        /\ \A start : OnPhase(m.timer, start) => OnPhase(s.timer, start)
    BY <1>1, <1>3, <2>1, CheckedIs
  <2> QED  BY <1>3, <2>2 DEF OwnMask
<1>5. CASE Blind(c)
  <2>1. s = Now
    BY <1>5 DEF Looked
  <2> QED  BY <1>5, <2>1, NowTyped DEF OwnMask
<1> QED  BY <1>4, <1>5

\* A call that ends leaves the program's own mask, to the handler's frame if one starts.
LEMMA EndedIs ==
  ASSUME NEW s \in States, ~s.dead, NEW back \in [Signals -> Calls \cup {NoCall}],
         NEW t, t = s \/ t = Consumed(s, back), NEW f, f = Finished(t)
  PROVE  /\ f \in States /\ f.wait = NoWait /\ f.timer = s.timer
         /\ ~f.dead => (IF Len(f.frames) > Len(s.frames) THEN Last(f.frames).mask
                        ELSE f.mach.mask) = OwnMask(s.mach, s.wait)
<1>1. Len(s.frames) \in Nat /\ ~(Len(s.frames) > Len(s.frames))
  BY LenProperties DEF States
<1>2. /\ t \in States /\ t.timer = s.timer
      /\ \/ t.dead
         \/ t.frames = s.frames /\ OwnMask(t.mach, t.wait) = OwnMask(s.mach, s.wait)
         \/ /\ Len(t.frames) > Len(s.frames)
            /\ Last(t.frames).mask = OwnMask(s.mach, s.wait)
  <2>1. CASE t = s
    BY <2>1
  <2>2. CASE t = Consumed(s, back)
    BY <2>2, ConsumedIs DEF OwnMask
  <2> QED  BY <2>1, <2>2
<1>3. /\ f \in States /\ f.frames = t.frames /\ f.timer = t.timer /\ f.dead = t.dead
      /\ f.wait = NoWait /\ f.mach.mask = OwnMask(t.mach, t.wait)
  BY <1>2, FinishedIs
<1> QED  BY <1>1, <1>2, <1>3

-----------------------------------------------------------------------------
(* The invariant is inductive. *)

\* What every variable but those of a wait is.
Typed ==
  /\ now \in 0 .. MaxTime /\ ahead \in {Ahead} \cup {Ahead + j : j \in Jumps}
  /\ mach \in Machs /\ hands \in HandsChoices /\ frames \in Seq(Frames) /\ timer \in Timers
  /\ doing.call \in Calls \cup {NoCall} /\ doing = At(doing.state, doing.call)
  /\ countdown \in 0 .. CheckEvery /\ ready \in 0 .. Never /\ hostTimer \in 0 .. Never

LEMMA TypeIs ==
  TypeOK <=> Typed /\ wait \in Waitings /\ doing.state \in {"run", "call", "halted", "dead"}
BY DEF TypeOK, Typed, Machs, Frames, Timers, Waitings, At

\* When the program goes on, or is over, there is nothing left of a call.
LEMMA ProgramGoesOn ==
  ASSUME Typed', wait' = NoWait, doing'.state \in {"run", "dead"},
         ready' = 0 \/ ready' > now', OnPhase(timer', phase')
  PROVE  WInv'
<1>1. TypeOK'
  <2>1. Typed' /\ wait' \in Waitings /\ doing'.state \in {"run", "call", "halted", "dead"}
    BY NoWaitTyped
  <2> QED  BY <2>1 DEF TypeOK, Typed, Machs, Frames, Timers, Waitings, At
<1>2. ~Waits' /\ doing'.state # "halted"
  BY DEF Waits
<1>3. DeadlineSound' /\ NoSignalSleeps' /\ NothingDueUnseen'
  BY <1>2 DEF DeadlineSound, NoSignalSleeps, NothingDueUnseen
<1>4. TimerKeepsPhase'
  BY DEF TimerKeepsPhase, OnPhase
<1>5. CancelEndsOne'
  BY NoWaitTyped DEF CancelEndsOne
<1> QED  BY <1>1, <1>2, <1>3, <1>4, <1>5 DEF WInv

\* A call begins with nothing of another's.
LEMMA CallBegins ==
  ASSUME TypeOK, Typed', wait' = NoWait, doing'.state = "call", doing'.call \in Calls,
         now' = now, ahead' = ahead, due' = Proposed(doing'.call), before' = mach'.mask,
         doing'.call.n # Never => now + doing'.call.n < MaxTime,
         ready' = 0 \/ ready' > now', OnPhase(timer', phase')
  PROVE  WInv'
<1>1. TypeOK'
  <2>1. Typed' /\ wait' \in Waitings /\ doing'.state \in {"run", "call", "halted", "dead"}
    BY NoWaitTyped
  <2> QED  BY <2>1 DEF TypeOK, Typed, Machs, Frames, Timers, Waitings, At
<1>2. Waits' /\ doing'.state # "halted" /\ ~wait'.pending /\ ~wait'.masked
  BY NoWaitTyped DEF Waits
<1>3. /\ now \in Nat /\ ahead \in Nat /\ now <= MaxTime /\ ahead <= MaxTime + Ahead
      /\ MaxTime \in Nat /\ Ahead \in Nat /\ Never \in Nat
      /\ Never = 4 * (MaxTime + Ahead + 1)
  BY Times DEF Never
<1>4. Proposed(doing.call)' = due'
  BY DEF Proposed, ClockNow
<1>5. due' \in 0 .. Never /\ (doing'.call.n = Never <=> due' = Never)
  <2>1. CASE doing'.call.n = Never
    BY <1>3, <2>1 DEF Proposed
  <2>2. CASE doing'.call.n # Never
    <3>1. PICK n \in Nat : n = doing'.call.n /\ now + n < MaxTime
      BY <2>2, CallIs
    <3>2. due' = now + n \/ due' = now + ahead + n
      BY <2>2, <3>1 DEF Proposed, ClockNow
    <3> QED  BY <1>3, <2>2, <3>1, <3>2
  <2> QED  BY <2>1, <2>2
<1>6. DeadlineSound'
  BY <1>2, <1>4, <1>5 DEF DeadlineSound
<1>7. NoSignalSleeps' /\ NothingDueUnseen'
  BY <1>2 DEF NoSignalSleeps, NothingDueUnseen
<1>8. TimerKeepsPhase'
  BY DEF TimerKeepsPhase, OnPhase
<1>9. CancelEndsOne'
  BY NoWaitTyped DEF CancelEndsOne
<1>10. OwnMask(mach, wait)' = before'
  BY <1>2 DEF OwnMask
<1> QED  BY <1>1, <1>6, <1>7, <1>8, <1>9, <1>10 DEF WInv

\* A call starts over with what it left.
LEMMA CallResumes ==
  ASSUME WInv, doing.state = "halted", Resumed, NEW cancel \in BOOLEAN,
         wait' = [wait EXCEPT !.cancelled = cancel],
         UNCHANGED <<now, ahead, frames, timer, hands, history>>,
         mach' \in Machs, mach'.mask = mach.mask, ready' \in 0 .. Never, ready' = 0 \/ ready' > now
  PROVE  WInv'
<1>1. TypeOK /\ Typed /\ wait \in Waitings
  BY TypeIs DEF WInv
<1>2. /\ doing'.state = "call" /\ doing'.call = doing.call /\ doing' = At("call", doing.call)
      /\ hostTimer' = Never /\ countdown' = 0
  BY DEF Resumed, At
<1>3. /\ wait' \in Waitings /\ wait'.pending = wait.pending /\ wait'.until = wait.until
      /\ wait'.masked = wait.masked /\ wait'.saved = wait.saved
  BY <1>1 DEF Waitings
<1>4. /\ now' = now /\ ahead' = ahead /\ frames' = frames /\ timer' = timer /\ hands' = hands
      /\ due' = due /\ before' = before /\ phase' = phase
  BY DEF history
<1>5. Never \in 0 .. Never /\ 0 \in 0 .. CheckEvery
  BY Times, WaitAssumption
<1>6. Typed'
  BY <1>1, <1>2, <1>4, <1>5 DEF Typed
<1>7. TypeOK'
  BY <1>2, <1>3, <1>6 DEF TypeOK, Typed, Machs, Frames, Timers, Waitings, At
<1>8. Waits /\ Waits' /\ doing'.state # "halted"
  BY <1>2 DEF Waits
<1>9. DeadlineSound'
  BY <1>2, <1>3, <1>4, <1>8 DEF WInv, DeadlineSound
<1>10. OwnMask(mach', wait') = before'
  BY <1>3, <1>4, <1>8 DEF WInv, OwnMask
<1>11. NoSignalSleeps' /\ NothingDueUnseen' /\ CancelEndsOne'
  BY <1>2, <1>8 DEF NoSignalSleeps, NothingDueUnseen, CancelEndsOne
<1>12. TimerKeepsPhase'
  BY <1>4 DEF WInv, TimerKeepsPhase
<1> QED  BY <1>4, <1>7, <1>9, <1>10, <1>11, <1>12 DEF WInv

\* While the program or its wait stays as it is, time and the wall clock may move.
LEMMA ClockMoves ==
  ASSUME WInv, doing.state \in {"run", "halted", "dead"}, Typed',
         UNCHANGED <<mach, frames, timer, wait, hands, doing, hostTimer, history>>,
         ready' = 0 \/ ready' > now', ahead = Ahead \/ ahead' = ahead, now \in Nat, now' >= now
  PROVE  WInv'
<1>1. /\ mach' = mach /\ timer' = timer /\ wait' = wait /\ doing' = doing
      /\ hostTimer' = hostTimer /\ due' = due /\ before' = before /\ phase' = phase
  BY DEF history
<1>2. wait' \in Waitings /\ doing'.state \in {"run", "call", "halted", "dead"}
  BY <1>1, TypeIs DEF WInv
<1>3. TypeOK'
  BY <1>2 DEF TypeOK, Typed, Machs, Frames, Timers, Waitings, At
<1>4. Waits' = Waits /\ doing.state # "call"
  BY <1>1 DEF Waits
<1>5. DeadlineSound'
  BY <1>1, <1>4 DEF WInv, DeadlineSound
<1>6. NoSignalSleeps'
  BY <1>1 DEF WInv, NoSignalSleeps, Deliverable
<1>7. NothingDueUnseen'
  <2>1. hostTimer \in Nat /\ now' \in Nat
    BY Times DEF WInv, TypeOK, Typed
  <2>2. hostTimer <= now => hostTimer <= now'
    BY <2>1
  <2> QED  BY <1>1, <2>2 DEF WInv, NothingDueUnseen
<1>8. TimerKeepsPhase' /\ CancelEndsOne'
  BY <1>1 DEF WInv, TimerKeepsPhase, CancelEndsOne
<1>9. Waits' => OwnMask(mach', wait') = before'
  BY <1>1, <1>4 DEF WInv
<1> QED  BY <1>3, <1>5, <1>6, <1>7, <1>8, <1>9 DEF WInv

LEMMA ClocksKeep == ASSUME WInv, Tick \/ SetWallClock \/ Slice PROVE WInv'
<1>1. /\ TypeOK /\ Typed /\ now \in Nat /\ MaxTime \in Nat /\ Never \in Nat /\ Never > MaxTime
      /\ ready \in 0 .. Never
      /\ ready = 0 \/ ready > now
  BY TypeIs, Times DEF WInv, Typed
<1>2. CASE Tick
  <2>1. /\ doing.state \in {"run", "halted"} /\ now < MaxTime /\ now' = now + 1
        /\ ready' = IF ready <= now + 1 THEN 0 ELSE ready
        /\ UNCHANGED <<ahead, mach, frames, timer, wait, hands, doing, countdown, hostTimer, history>>
    BY <1>2 DEF Tick, program
  <2>2. now' \in 0 .. MaxTime /\ ready' \in 0 .. Never /\ (ready' = 0 \/ ready' > now')
    BY <1>1, <2>1
  <2>3. Typed'
    BY <1>1, <2>1, <2>2 DEF Typed
  <2> QED  BY <1>1, <2>1, <2>2, <2>3, ClockMoves
<1>3. CASE SetWallClock
  <2>1. /\ doing.state \in {"run", "halted"} /\ ahead = Ahead
        /\ UNCHANGED <<now, mach, frames, timer, wait, hands, doing, countdown, ready, hostTimer, history>>
    BY <1>3 DEF SetWallClock, program
  <2>2. ahead' \in {Ahead} \cup {Ahead + j : j \in Jumps}
    BY <1>3 DEF SetWallClock
  <2>3. Typed'
    BY <1>1, <2>1, <2>2 DEF Typed
  <2> QED  BY <1>1, <2>1, <2>3, ClockMoves
<1>4. CASE Slice
  <2>1. /\ doing.state = "run" /\ countdown' = 0
        /\ UNCHANGED <<now, ahead, mach, frames, timer, wait, hands, doing, ready, hostTimer, history>>
    BY <1>4 DEF Slice, program
  <2>2. 0 \in 0 .. CheckEvery
    BY WaitAssumption
  <2>3. Typed'
    BY <1>1, <2>1, <2>2 DEF Typed
  <2> QED  BY <1>1, <2>1, <2>3, ClockMoves
<1> QED  BY <1>2, <1>3, <1>4

\* The host resumes, cancels, sends a signal or has the device ready.
LEMMA HostKeeps == ASSUME WInv, Host PROVE WInv'
<1>1. /\ TypeOK /\ Typed /\ now \in Nat /\ Never \in Nat /\ wait \in Waitings
      /\ ready \in 0 .. Never /\ (ready = 0 \/ ready > now) /\ mach \in Machs
  BY TypeIs, Times DEF WInv, Typed
<1>2. doing.state = "halted" => ~wait.cancelled
  BY DEF WInv, CancelEndsOne
<1>3. ASSUME NEW cancel \in BOOLEAN, Resume(cancel) PROVE WInv'
  <2>1. /\ doing.state = "halted" /\ Resumed
        /\ wait' = [wait EXCEPT !.cancelled = cancel]
        /\ UNCHANGED <<now, ahead, frames, timer, hands, history>>
        /\ mach' = mach /\ ready' = ready
    BY <1>3 DEF Resume
  <2> QED  BY <1>1, <2>1, CallResumes
<1>4. CASE doing.state = "halted"
  <2>1. wait = [wait EXCEPT !.cancelled = FALSE]
    BY <1>1, <1>2, <1>4 DEF Waitings
  <2>2. ASSUME NEW sig \in Signals, SendSignal(sig) PROVE WInv'
    <3>1. /\ Resumed /\ wait' = wait /\ mach' = Enqueued(mach, sig) /\ ready' = ready
          /\ UNCHANGED <<now, ahead, frames, timer, hands, history>>
      BY <1>4, <2>2 DEF SendSignal
    <3>2. mach' \in Machs /\ mach'.mask = mach.mask
      BY <1>1, <3>1, EnqueuedIs
    <3> QED  BY <1>1, <1>4, <2>1, <3>1, <3>2, CallResumes
  <2>3. ASSUME InputComes PROVE WInv'
    <3>1. /\ ready' = 0 /\ UNCHANGED <<now, ahead, mach, frames, timer, wait, hands, history>>
      BY <2>3 DEF InputComes, program
    <3>2. CASE doing.call.op \in {"read", "ppoll"}
      <4>1. Resumed
        BY <1>4, <2>3, <3>2 DEF InputComes
      <4>2. /\ wait' = [wait EXCEPT !.cancelled = FALSE] /\ mach' \in Machs
            /\ mach'.mask = mach.mask /\ ready' \in 0 .. Never /\ ready' = 0
            /\ UNCHANGED <<now, ahead, frames, timer, hands, history>>
        BY <1>1, <2>1, <3>1
      <4> QED  BY <1>4, <4>1, <4>2, CallResumes
    <3>3. CASE doing.call.op \notin {"read", "ppoll"}
      <4>1. UNCHANGED <<doing, hostTimer, countdown>>
        BY <1>4, <2>3, <3>3 DEF InputComes
      <4>2. Typed'
        BY <1>1, <3>1, <4>1 DEF Typed
      <4> QED  BY <1>1, <1>4, <3>1, <4>1, <4>2, ClockMoves
    <3> QED  BY <3>2, <3>3
  <2> QED  BY <1>3, <2>2, <2>3 DEF Host
<1>5. CASE doing.state # "halted"
  <2>1. wait = NoWait \/ doing.state = "call"
    BY <1>5 DEF WInv, DeadlineSound, Waits
  <2>2. ASSUME NEW sig \in Signals, SendSignal(sig) PROVE WInv'
    <3>1. /\ doing.state = "run" /\ wait' = wait /\ mach' = Enqueued(mach, sig) /\ ready' = ready
          /\ UNCHANGED <<now, ahead, frames, timer, hands, history>>
          /\ UNCHANGED <<doing, hostTimer, countdown>>
      BY <1>5, <2>2 DEF SendSignal
    <3>2. mach' \in Machs /\ phase' = phase
      BY <1>1, <3>1, EnqueuedIs DEF history
    <3>3. Typed'
      BY <1>1, <3>1, <3>2 DEF Typed
    <3>4. OnPhase(timer', phase') /\ wait' = NoWait
      BY <2>1, <3>1, <3>2 DEF WInv, TimerKeepsPhase, OnPhase
    <3> QED  BY <1>1, <3>1, <3>3, <3>4, ProgramGoesOn
  <2>3. ASSUME InputComes PROVE WInv'
    <3>1. /\ doing.state = "run" /\ ready' = 0
          /\ UNCHANGED <<now, ahead, mach, frames, timer, wait, hands, history>>
          /\ UNCHANGED <<doing, hostTimer, countdown>>
      BY <1>5, <2>3 DEF InputComes, program
    <3>2. Typed'
      BY <1>1, <3>1 DEF Typed
    <3> QED  BY <1>1, <3>1, <3>2, ClockMoves
  <2> QED  BY <1>3, <2>2, <2>3 DEF Host
<1> QED  BY <1>4, <1>5

-----------------------------------------------------------------------------
(* The calls. *)

\* What an attempt that ends leaves, whichever way it ends.
LEMMA CallEnds ==
  ASSUME WInv, NEW c \in Calls, Calling(c), NEW s \in States, ~s.dead,
         s = Now \/ s = Looked(c), NEW t, t = s \/ t = Consumed(s, Restarts(c)), Set(Finished(t)),
         doing'.state \in {"run", "dead"}, doing'.call = NoCall, doing' = At(doing'.state, NoCall),
         UNCHANGED <<now, ahead, hands, countdown, hostTimer, phase>>,
         ready' = ready \/ ready' = Never
  PROVE  WInv'
<1>1. TypeOK /\ Typed
  BY TypeIs DEF WInv
<1>2. Restarts(c) \in [Signals -> Calls \cup {NoCall}]
  BY BackTyped
<1>3. PICK f : f = Finished(t)
  OBVIOUS
<1>4. f \in States /\ f.wait = NoWait /\ f.timer = s.timer
  BY <1>2, <1>3, EndedIs
<1>5. /\ mach' = f.mach /\ frames' = f.frames /\ timer' = f.timer /\ wait' = NoWait
      /\ mach' \in Machs /\ frames' \in Seq(Frames) /\ timer' \in Timers
  BY <1>3, <1>4 DEF Set, States
<1>6. OnPhase(s.timer, phase)
  <2>1. OnPhase(timer, phase)
    BY DEF WInv, TimerKeepsPhase, OnPhase
  <2> QED  BY <1>1, <2>1, NowTyped, LookedIs
<1>7. ready' \in 0 .. Never /\ (ready' = 0 \/ ready' > now')
  <2>1. ready \in 0 .. Never /\ (ready = 0 \/ ready > now) /\ Never > now /\ Never \in Nat /\ now \in Nat
    BY <1>1, Times DEF WInv, Typed
  <2> QED  BY <2>1
<1>8. Typed'
  BY <1>1, <1>5, <1>7 DEF Typed
<1> QED  BY <1>4, <1>5, <1>6, <1>7, <1>8, ProgramGoesOn

LEMMA AnswerKeeps == ASSUME WInv, NEW c \in Calls, Answer(c) PROVE WInv'
<1>1. TypeOK
  BY DEF WInv
<1>2. /\ Calling(c) /\ UNCHANGED <<now, ahead, hands, countdown, hostTimer, phase>>
      /\ doing' = At("run", NoCall) /\ (ready' = ready \/ ready' = Never)
  BY DEF Answer
<1>3. doing'.state = "run" /\ doing'.call = NoCall
  BY <1>2 DEF At
<1>4. CASE Set(Finished(Now))
  BY <1>1, <1>2, <1>3, <1>4, NowTyped, CallEnds
<1>5. CASE Set(Finished(Consumed(Looked(c), Restarts(c))))
  <2>1. PICK s : s = Looked(c)
    OBVIOUS
  <2>2. s \in States /\ ~s.dead
    BY <1>1, <2>1, LookedIs
  <2>3. PICK t : t = Consumed(s, Restarts(c))
    OBVIOUS
  <2>4. Set(Finished(t))
    BY <1>5, <2>1, <2>3
  <2> QED  BY <1>2, <1>3, <2>1, <2>2, <2>3, <2>4, CallEnds
<1> QED  BY <1>4, <1>5 DEF Answer

LEMMA InterruptKeeps == ASSUME WInv, NEW c \in Calls, Interrupt(c) PROVE WInv'
<1>1. TypeOK
  BY DEF WInv
<1>2. PICK s : s = Looked(c)
  OBVIOUS
<1>3. s \in States /\ ~s.dead
  BY <1>1, <1>2, LookedIs
<1>4. PICK t : /\ t = s \/ t = Consumed(s, Restarts(c))
               /\ Set(Finished(t)) /\ Goes(t, "run", NoCall)
  BY <1>2 DEF Interrupt
<1>5. Calling(c) /\ UNCHANGED <<now, ahead, hands, countdown, ready, hostTimer, phase>>
  BY DEF Interrupt
<1>6. /\ doing' = At(doing'.state, NoCall) /\ doing'.call = NoCall
      /\ doing'.state \in {"run", "dead"}
  BY <1>4 DEF Goes, At
<1> QED  BY <1>2, <1>3, <1>4, <1>5, <1>6, CallEnds

\* The earliest of two times, by whatever clock the other is on, is a time to wake up at.
LEMMA HostTimerIs ==
  ASSUME TypeOK, NEW w \in Waitings, NEW t \in Timers, w.at > now,
         w.real => w.until > now + ahead /\ w.until < Never, ~w.real => w.until > now,
         NEW h, h = TimerFor(Reported(w, t))
  PROVE  /\ h \in 0 .. Never /\ h <= w.at /\ (t.armed => h <= t.at \/ h <= now)
         /\ (~w.real => h <= w.until) /\ (w.real => h + ahead <= w.until)
<1>1. /\ now \in Nat /\ ahead \in Nat /\ Never \in Nat /\ now < Never
  BY Times
<1>2. w.until \in Nat /\ w.until <= Never /\ w.at \in Nat /\ w.at <= Never /\ t.at \in Nat
      /\ w.real \in BOOLEAN /\ t.armed \in BOOLEAN
  BY <1>1 DEF Waitings, Timers
<1>3. PICK first \in Nat : /\ first = Min({w.at, IF t.armed THEN t.at ELSE Never})
                           /\ first <= w.at /\ first <= Never
                           /\ t.armed => first <= t.at
  <2>1. PICK b \in Nat : b = (IF t.armed THEN t.at ELSE Never) /\ (t.armed => b = t.at)
    BY <1>1, <1>2
  <2>2. PICK first \in {w.at, b} : first <= w.at /\ first <= b
    <3>1. CASE w.at <= b
      BY <1>2, <2>1, <3>1
    <3>2. CASE b <= w.at
      BY <1>2, <2>1, <3>2
    <3> QED  BY <1>2, <2>1, <3>1, <3>2
  <2>3. Min({w.at, b}) = first
    <3>1. \A x \in {w.at, b} : (\A y \in {w.at, b} : x <= y) => x = first
      BY <1>2, <2>1, <2>2
    <3>2. \A y \in {w.at, b} : first <= y
      BY <2>2
    <3> QED  BY <3>1, <3>2, Zenon DEF Min
  <2>4. first \in Nat /\ first <= Never /\ (t.armed => first <= t.at)
    BY <1>1, <1>2, <2>1, <2>2
  <2>5. Min({w.at, IF t.armed THEN t.at ELSE Never}) = first
    BY <2>1, <2>3
  <2> QED  BY <2>2, <2>4, <2>5
<1>4. ASSUME NEW x \in Int PROVE Max({0, x}) = IF x > 0 THEN x ELSE 0
  <2>1. PICK m \in {0, x} : m = (IF x > 0 THEN x ELSE 0)
    OBVIOUS
  <2>2. \A y \in {0, x} : m >= y
    BY <2>1
  <2>3. \A z \in {0, x} : (\A y \in {0, x} : z >= y) => z = m
    BY <2>1
  <2>4. Max({0, x}) = m
    BY <2>2, <2>3, Zenon DEF Max
  <2> QED  BY <2>1, <2>4
<1> HIDE DEF Max, Min
\* The device or the guest's timer comes first, or the call has no deadline.
<1>5. CASE Reported(w, t) = [real |-> FALSE, at |-> first]
           /\ (w.until = Never \/ (first # Never /\ first - now < w.until - WaitNow(w)))
  <2>1. h = IF first > now THEN first ELSE now
    <3>1. CASE first = Never
      BY <1>1, <1>5, <3>1 DEF TimerFor
    <3>2. CASE first # Never
      <4>1. Remaining(Reported(w, t)) = first - now
        BY <1>5, <3>2 DEF Remaining
      <4>2. Reported(w, t).at = first
        BY <1>5
      <4>3. h = now + Max({0, first - now})
        BY <3>2, <4>1, <4>2 DEF TimerFor
      <4>4. first - now \in Int
        BY <1>1, <1>3
      <4> QED  BY <1>1, <1>3, <1>4, <4>3, <4>4
    <3> QED  BY <3>1, <3>2
  <2>2. ~w.real => h <= w.until
    BY <1>1, <1>2, <1>3, <1>5, <2>1 DEF WaitNow
  <2>3. w.real => h + ahead <= w.until
    BY <1>1, <1>2, <1>3, <1>5, <2>1 DEF WaitNow
  <2>4. first \in Nat /\ first <= Never /\ first <= w.at
    BY <1>3
  <2>5. h \in 0 .. Never /\ h <= w.at
    BY <1>1, <1>2, <2>1, <2>4
  <2>6. t.armed => h <= t.at \/ h <= now
    BY <1>1, <1>2, <1>3, <2>1
  <2> QED  BY <2>2, <2>3, <2>5, <2>6
\* The call's own deadline does.
<1>6. CASE Reported(w, t) = [real |-> w.real, at |-> w.until]
           /\ w.until # Never /\ ~(first # Never /\ first - now < w.until - WaitNow(w))
  <2>1. PICK left \in Int : left = w.until - WaitNow(w) /\ left > 0 /\ (w.real => left = w.until - (now + ahead))
                          /\ (~w.real => left = w.until - now)
    BY <1>1, <1>2 DEF WaitNow
  <2>2. Remaining(Reported(w, t)) = left
    BY <1>6, <2>1 DEF Remaining
  <2>3. Reported(w, t).at = w.until
    BY <1>6
  <2>4. h = now + Max({0, left})
    BY <1>6, <2>2, <2>3 DEF TimerFor
  <2>5. h = now + left
    BY <1>4, <2>1, <2>4
  <2>6. h <= first
    <3>1. CASE first = Never
      BY <1>1, <1>2, <2>1, <2>5, <3>1
    <3>2. CASE first # Never
      BY <1>1, <1>3, <1>6, <2>1, <2>5, <3>2
    <3> QED  BY <3>1, <3>2
  <2> QED  BY <1>1, <1>2, <1>3, <2>1, <2>5, <2>6
<1>7. \/ /\ Reported(w, t) = [real |-> FALSE, at |-> first]
         /\ w.until = Never \/ (first # Never /\ first - now < w.until - WaitNow(w))
      \/ /\ Reported(w, t) = [real |-> w.real, at |-> w.until]
         /\ w.until # Never /\ ~(first # Never /\ first - now < w.until - WaitNow(w))
  BY <1>3, Zenon DEF Reported
<1> QED  BY <1>5, <1>6, <1>7

\* A call halts with what it told the host, and with no signal it could take.
LEMMA HaltKeeps == ASSUME WInv, NEW c \in Calls, Halt(c) PROVE WInv'
<1>1. /\ TypeOK /\ Typed /\ wait \in Waitings /\ now \in Nat /\ ahead \in Nat
      /\ Never \in Nat /\ now < Never
      /\ ready \in 0 .. Never /\ (ready = 0 \/ ready > now)
  BY TypeIs, Times DEF WInv, Typed
<1>2. PICK s : s = Looked(c)
  OBVIOUS
<1>3. /\ s \in States /\ s.frames = frames /\ ~s.dead
      /\ OwnMask(s.mach, s.wait) = OwnMask(mach, wait)
      /\ s.timer.armed => s.timer.at > now \/ Blind(c)
      /\ \A start : OnPhase(timer, start) => OnPhase(s.timer, start)
      /\ s.wait.cancelled = wait.cancelled
  BY <1>1, <1>2, LookedIs
<1> DEFINE w == [s.wait EXCEPT !.pending = TRUE, !.until = Until(c),
                               !.real = c.op = "clock_nanosleep",
                               !.at = IF c.op \in {"read", "ppoll"} THEN ready ELSE Never]
           k == IF Blind(c) THEN s ELSE Consumed(s, Restarts(c))
           h == TimerFor(Reported(w, s.timer))
<1>4. /\ Set([k EXCEPT !.wait = w]) /\ hostTimer' = h /\ doing' = At("halted", c)
      /\ UNCHANGED <<now, ahead, hands, countdown, ready, history>>
  BY <1>2 DEF Halt
<1>5. /\ Calling(c) /\ ~AtOnce(c) /\ ~wait.cancelled /\ (~Blind(c) => Acting(s) = {})
      /\ c.op = "ppoll" => ~Ready(c) /\ ~Over(c)
  BY <1>2 DEF Halt, Interrupted
<1>6. doing.state = "call" /\ doing.call = c /\ Waits
  BY <1>5 DEF Calling, At, Waits
<1>7. /\ due \in 0 .. Never /\ (wait.pending => wait.until = due)
      /\ (~wait.pending => due = Proposed(c)) /\ (c.n = Never <=> due = Never)
  BY <1>6 DEF WInv, DeadlineSound
<1>8. Until(c) = due
  BY <1>7 DEF Until
<1>9. /\ c.op = "clock_nanosleep" => due > now + ahead /\ due < Never
      /\ c.op # "clock_nanosleep" => due > now
  <2>1. /\ Sleeps(c) => c.n # Never
        /\ ~Sleeps(c) /\ c.op \notin {"poll", "ppoll"} => c.n = Never
        /\ c.op = "clock_nanosleep" => Sleeps(c)
    <3>1. c.n \in Nat
      BY CallIs
    <3> QED  BY <1>1, <3>1, CallIs
  <2>2. Sleeps(c) \/ c.op \in {"poll", "ppoll"} => ~(ClockNow(c) >= due)
    BY <1>5, <1>8 DEF AtOnce, Over, Blind
  <2>3. ClockNow(c) = IF c.op = "clock_nanosleep" THEN now + ahead ELSE now
    BY DEF ClockNow
  <2>4. CASE Sleeps(c) \/ c.op \in {"poll", "ppoll"}
    BY <1>1, <1>7, <2>1, <2>2, <2>3, <2>4
  <2>5. CASE ~(Sleeps(c) \/ c.op \in {"poll", "ppoll"})
    BY <1>1, <1>7, <2>1, <2>5
  <2> QED  BY <2>4, <2>5
<1>10. PICK at \in 0 .. Never : at = (IF c.op \in {"read", "ppoll"} THEN ready ELSE Never) /\ at > now
  <2>1. c.op \in {"read", "ppoll"} => ready # 0
    BY <1>5 DEF AtOnce, Ready
  <2> QED  BY <1>1, <2>1
<1>11. PICK real \in BOOLEAN : real = (c.op = "clock_nanosleep")
  OBVIOUS
<1>12. w = [s.wait EXCEPT !.pending = TRUE, !.until = due, !.real = real, !.at = at]
  BY <1>8, <1>10, <1>11
<1> HIDE DEF w
<1>13. /\ w \in Waitings /\ w.pending /\ w.until = due /\ w.real = real /\ w.at = at
       /\ w.masked = s.wait.masked /\ w.saved = s.wait.saved /\ w.cancelled = s.wait.cancelled
  BY <1>3, <1>7, <1>12 DEF States, Waitings
<1>14. /\ h \in 0 .. Never /\ h <= w.at /\ (s.timer.armed => h <= s.timer.at \/ h <= now)
       /\ (~w.real => h <= w.until) /\ (w.real => h + ahead <= w.until)
  <2>1. s.timer \in Timers
    BY <1>3 DEF States
  <2>2. w.real => w.until > now + ahead /\ w.until < Never
    BY <1>9, <1>11, <1>13
  <2>3. ~w.real => w.until > now
    BY <1>9, <1>11, <1>13
  <2>4. w.at > now
    BY <1>10, <1>13
  <2> HIDE DEF h
  <2>5. PICK hh : hh = TimerFor(Reported(w, s.timer))
    OBVIOUS
  <2> QED  BY <1>1, <1>3, <1>13, <2>1, <2>2, <2>3, <2>4, <2>5, HostTimerIs DEF h
<1> HIDE DEF h
<1>15. /\ k \in States /\ k.timer = s.timer /\ k.frames = s.frames /\ k.wait = s.wait
       /\ k.mach.mask = s.mach.mask /\ (Blind(c) \/ Deliverable(k.mach) = {})
  <2>1. CASE Blind(c)
    BY <1>3, <2>1
  <2>2. CASE ~Blind(c)
    BY <1>3, <1>5, <2>2, BackTyped, ConsumedIs
  <2> QED  BY <2>1, <2>2
<1> HIDE DEF k
<1>16. mach' = k.mach /\ frames' = frames /\ timer' = s.timer /\ wait' = w
  BY <1>3, <1>4, <1>15 DEF Set, States
<1>17. mach' \in Machs /\ timer' \in Timers
  BY <1>3, <1>15, <1>16 DEF States
<1>18. doing'.state = "halted" /\ doing'.call = c /\ doing' = At("halted", c)
  BY <1>4 DEF At
<1>19. Typed'
  BY <1>1, <1>4, <1>14, <1>16, <1>17, <1>18 DEF Typed
<1>20. TypeOK'
  BY <1>13, <1>16, <1>18, <1>19 DEF TypeOK, Typed, Machs, Frames, Timers, Waitings, At
<1>21. now' = now /\ ahead' = ahead /\ ready' = ready /\ due' = due /\ before' = before /\ phase' = phase
  BY <1>4 DEF history
<1>22. DeadlineSound' /\ Waits'
  BY <1>7, <1>13, <1>16, <1>18, <1>21 DEF DeadlineSound, Waits
<1>23. OwnMask(mach', wait') = before'
  <2>1. OwnMask(mach, wait) = before
    BY <1>6 DEF WInv
  <2> QED  BY <1>3, <1>13, <1>15, <1>16, <1>21, <2>1 DEF OwnMask
<1>24. NoSignalSleeps'
  BY <1>15, <1>16, <1>18 DEF NoSignalSleeps, Deliverable
<1>25. NothingDueUnseen'
  <2>1. hostTimer' = h
    BY <1>4 DEF h
  <2>2. s.timer.armed => h <= s.timer.at \/ (Blind(c) /\ h <= now)
    <3>1. h \in Nat /\ s.timer.at \in Nat
      BY <1>1, <1>3, <1>14 DEF States, Timers
    <3> QED  BY <1>1, <1>3, <1>14, <3>1
  <2> QED  BY <1>14, <1>16, <1>18, <1>21, <2>1, <2>2 DEF NothingDueUnseen
<1>26. TimerKeepsPhase'
  <2>1. OnPhase(timer, phase)
    BY DEF WInv, TimerKeepsPhase, OnPhase
  <2> QED  BY <1>3, <1>16, <1>21, <2>1 DEF TimerKeepsPhase, OnPhase
<1>27. CancelEndsOne'
  BY <1>3, <1>5, <1>13, <1>16 DEF CancelEndsOne
<1> QED  BY <1>1, <1>20, <1>21, <1>22, <1>23, <1>24, <1>25, <1>26, <1>27 DEF WInv

-----------------------------------------------------------------------------
(* The program's instructions. *)

\* What the look at the timer and the signals before an instruction leaves.
LEMMA LookLeaves ==
  ASSUME WInv, doing.state = "run",
         NEW s, s = (IF LooksNow THEN TimerChecked(Now) ELSE Now), NEW t, t = CheckedForSignals(s)
  PROVE  t \in States /\ t.wait = NoWait /\ OnPhase(t.timer, phase)
<1>1. TypeOK /\ Typed /\ now \in Nat /\ doing.call \in Calls \cup {NoCall}
  BY TypeIs, Times DEF WInv, Typed
<1>2. wait = NoWait /\ OnPhase(timer, phase)
  BY DEF WInv, DeadlineSound, Waits, TimerKeepsPhase, OnPhase
<1>3. s \in States /\ s.wait = NoWait /\ ~s.dead /\ OnPhase(s.timer, phase)
  <2>1. /\ Now \in States /\ ~Now.dead /\ Now.wait = NoWait /\ OnPhase(Now.timer, phase)
    BY <1>1, <1>2, NowTyped
  <2>2. CASE s = Now
    BY <2>1, <2>2
  <2>3. CASE s = TimerChecked(Now)
    BY <1>1, <2>1, <2>3, CheckedIs
  <2> QED  BY <2>2, <2>3
<1>4. CASE t = s
  BY <1>3, <1>4
<1>5. CASE t = [s EXCEPT !.mach.attention = FALSE]
  <2>1. PICK m \in Machs : m = [s.mach EXCEPT !.attention = FALSE]
    BY <1>3 DEF States, Machs
  <2>2. t = [s EXCEPT !.mach = m]
    BY <1>5, <2>1
  <2> QED  BY <1>3, <2>2 DEF States
<1>6. CASE t = Consumed(s, Always(doing.call))
  <2>1. Always(doing.call) \in [Signals -> Calls \cup {NoCall}]
    BY <1>1, BackTyped
  <2> QED  BY <1>3, <1>6, <2>1, NoWaitTyped, ConsumedIs
<1> QED  BY <1>4, <1>5, <1>6, Zenon DEF CheckedForSignals

\* An instruction that does not wait leaves the program running, or over.
LEMMA Runs ==
  ASSUME Typed, NEW u \in States, u.wait = NoWait, Set(u),
         NEW next \in {"run", "dead"}, NEW call \in Calls \cup {NoCall}, doing' = At(next, call),
         OnPhase(u.timer, phase'), countdown' \in 0 .. CheckEvery,
         ready' \in 0 .. Never, ready' = 0 \/ ready' > now,
         UNCHANGED <<now, ahead, hands, hostTimer>>
  PROVE  WInv'
<1>1. /\ mach' = u.mach /\ frames' = u.frames /\ timer' = u.timer /\ wait' = NoWait
      /\ mach' \in Machs /\ frames' \in Seq(Frames) /\ timer' \in Timers
  BY DEF Set, States
<1>2. doing'.state = next /\ doing'.call = call
  BY DEF At
<1>3. Typed'
  BY <1>1, <1>2 DEF Typed
<1> QED  BY <1>1, <1>2, <1>3, ProgramGoesOn

LEMMA ExecutedRuns ==
  ASSUME Typed, NEW u \in States, u.wait = NoWait, Executed(u),
         OnPhase(u.timer, phase'), countdown' \in 0 .. CheckEvery,
         ready' \in 0 .. Never, ready' = 0 \/ ready' > now,
         UNCHANGED <<now, ahead, hands, hostTimer>>
  PROVE  WInv'
<1>1. Set(u) /\ (doing' = At("run", NoCall) \/ doing' = At("dead", NoCall))
  BY DEF Executed, Goes
<1> QED  BY <1>1, Runs

\* A call that may wait begins.
LEMMA EnterKeeps ==
  ASSUME TypeOK, ready = 0 \/ ready > now, NEW t \in States, t.wait = NoWait,
         OnPhase(t.timer, phase), NEW c \in Calls, Enter(t, c),
         countdown' \in 0 .. CheckEvery, UNCHANGED <<now, ahead, hands, hostTimer>>
  PROVE  WInv'
<1>1. Typed
  BY TypeIs
<1>2. /\ mach' = t.mach /\ frames' = t.frames /\ timer' = t.timer /\ wait' = NoWait
      /\ mach' \in Machs /\ frames' \in Seq(Frames) /\ timer' \in Timers
      /\ ready' = ready /\ phase' = phase /\ due' = Proposed(c) /\ before' = mach'.mask
      /\ c.n # Never => now + c.n < MaxTime
  BY DEF Enter, Set, States
<1>3. doing' = At("call", c) /\ doing'.state = "call" /\ doing'.call = c
  BY DEF Enter, At
<1>4. Typed'
  BY <1>1, <1>2, <1>3 DEF Typed
<1> QED  BY <1>2, <1>3, <1>4, CallBegins

\* What the program is free to choose.
LEMMA ChosenKeeps ==
  ASSUME WInv, NEW t \in States, ~t.dead, t.wait = NoWait, OnPhase(t.timer, phase), Chosen(t),
         countdown' \in 0 .. CheckEvery, UNCHANGED <<now, ahead, hands, hostTimer>>
  PROVE  WInv'
<1>1. /\ TypeOK /\ Typed /\ now \in Nat /\ Never \in Nat /\ MaxTime \in Nat /\ Never > MaxTime
      /\ now <= MaxTime /\ ready \in 0 .. Never /\ (ready = 0 \/ ready > now)
  BY TypeIs, Times DEF WInv, Typed
<1>2. t.mach \in Machs /\ t.frames \in Seq(Frames) /\ t.timer \in Timers
  BY DEF States
<1>3. UNCHANGED <<ready, history>> => ready' = ready /\ phase' = phase
  BY DEF history
<1>4. CASE Plain(t)
  BY <1>1, <1>3, <1>4, ExecutedRuns DEF Plain
<1>5. CASE SigReturn(t)
  <2>1. /\ t.frames # <<>> /\ doing' = At("run", Last(t.frames).back)
        /\ UNCHANGED <<ready, history>>
    BY <1>5 DEF SigReturn
  <2>2. Last(t.frames) \in Frames /\ Front(t.frames) \in Seq(Frames)
    <3>1. Len(t.frames) \in Nat \ {0} /\ DOMAIN t.frames = 1 .. Len(t.frames)
      BY <1>2, <2>1, LenProperties, EmptySeq
    <3>2. t.frames[Len(t.frames)] \in Frames
      BY <1>2, <3>1, ElementOfSeq
    <3>3. SubSeq(t.frames, 1, Len(t.frames) - 1) \in Seq(Frames)
      BY <1>2, <3>1, SubSeqProperties
    <3> QED  BY <3>2, <3>3 DEF Last, Front
  <2>3. PICK f \in Frames : f = Last(t.frames)
    BY <2>2
  <2>4. f.mask \in SUBSET Signals /\ f.back \in Calls \cup {NoCall}
    BY DEF Frames
  <2> DEFINE m == [t.mach EXCEPT !.mask = f.mask, !.attention = TRUE]
             u == [t EXCEPT !.mach = m, !.frames = Front(t.frames)]
  <2>5. Set(u)
    BY <1>5, <2>3 DEF SigReturn, Set, States
  <2>6. m \in Machs
    BY <1>2, <2>4 DEF Machs
  <2> HIDE DEF m
  <2>7. u \in States /\ u.wait = NoWait /\ u.timer = t.timer
    BY <2>2, <2>6 DEF States
  <2> HIDE DEF u
  <2> QED  BY <1>1, <1>3, <2>1, <2>3, <2>4, <2>5, <2>7, Runs
<1>6. ASSUME NEW g \in Signals, Kill(t, g) PROVE WInv'
  <2> DEFINE u == [t EXCEPT !.mach = Enqueued(t.mach, g)]
  <2>1. Executed(u) /\ UNCHANGED <<ready, history>>
    BY <1>6 DEF Kill
  <2>2. Enqueued(t.mach, g) \in Machs
    BY <1>2, EnqueuedIs
  <2>3. u \in States /\ u.wait = NoWait /\ u.timer = t.timer
    BY <2>2 DEF States
  <2> HIDE DEF u
  <2> QED  BY <1>1, <1>3, <2>1, <2>3, ExecutedRuns
<1>7. ASSUME NEW v \in Durations \cup {0}, NEW e \in Periods, SetTimer(t, v, e) PROVE WInv'
  <2>1. v \in Nat /\ e \in Nat
    BY WaitAssumption
  <2>2. PICK armed \in BOOLEAN : armed = (v # 0)
    OBVIOUS
  <2>3. PICK at \in Nat : at = (IF v = 0 THEN 0 ELSE now + v)
    BY <1>1, <2>1
  <2> DEFINE c == TimerChecked(t)
             k == [armed |-> armed, every |-> e, at |-> at]
             u == [c EXCEPT !.timer = k]
  <2>4. Executed(u) /\ ready' = ready
    BY <1>7, <2>2, <2>3 DEF SetTimer
  <2>5. phase' = IF e = 0 \/ v = 0 THEN 0 ELSE (now + v) % e
    BY <1>7 DEF SetTimer
  <2>6. k \in Timers /\ OnPhase(k, phase')
    BY <2>1, <2>2, <2>3, <2>5 DEF Timers, OnPhase
  <2>7. c \in States /\ c.wait = NoWait
    BY <1>1, CheckedIs
  <2> HIDE DEF c, k
  <2>8. u \in States /\ u.wait = NoWait /\ u.timer = k
    BY <2>6, <2>7 DEF States
  <2> HIDE DEF u
  <2> QED  BY <1>1, <2>4, <2>6, <2>8, ExecutedRuns
<1>8. ASSUME NEW mask \in Masks, SetMask(t, mask) PROVE WInv'
  <2> DEFINE m == [t.mach EXCEPT !.mask = mask]
             s == [t EXCEPT !.mach = m]
             u == Consumed(s, Always(NoCall))
  <2>1. Executed(u) /\ UNCHANGED <<ready, history>>
    <3>1. [t EXCEPT !.mach.mask = mask] = s
      OBVIOUS
    <3> QED  BY <1>8, <3>1 DEF SetMask
  <2> HIDE DEF u
  <2>2. mask \in SUBSET Signals /\ m \in Machs
    BY <1>2, WaitAssumption DEF Machs
  <2> HIDE DEF m
  <2>3. s \in States /\ s.wait = NoWait /\ s.timer = t.timer /\ s.dead = t.dead
    BY <2>2 DEF States
  <2> HIDE DEF s
  <2>4. u \in States /\ u.wait = NoWait /\ u.timer = t.timer
    BY <2>3, NoWaitTyped, BackTyped, ConsumedIs DEF u
  <2> QED  BY <1>1, <1>3, <2>1, <2>4, ExecutedRuns
<1>9. ASSUME NEW n \in Durations, UseDevice(t, n) PROVE WInv'
  <2>1. /\ now + n <= MaxTime /\ ready' = now + n /\ Executed(t) /\ UNCHANGED history
    BY <1>9 DEF UseDevice
  <2>2. n \in 1 .. MaxTime
    BY WaitAssumption
  <2>3. ready' \in 0 .. Never /\ ready' > now
    BY <1>1, <2>1, <2>2
  <2>4. phase' = phase
    BY <2>1 DEF history
  <2> QED  BY <1>1, <2>1, <2>3, <2>4, ExecutedRuns
<1>10. ASSUME NEW c \in Calls, Enter(t, c) PROVE WInv'
  BY <1>1, <1>10, EnterKeeps
<1> QED  BY <1>4, <1>5, <1>6, <1>7, <1>8, <1>9, <1>10 DEF Chosen

LEMMA InstructionKeeps == ASSUME WInv, Instruction PROVE WInv'
<1>1. /\ TypeOK /\ Typed /\ (ready = 0 \/ ready > now) /\ ready \in 0 .. Never
      /\ countdown \in 0 .. CheckEvery /\ doing.call \in Calls \cup {NoCall}
      /\ timer.armed \in BOOLEAN /\ CheckEvery \in Nat
  BY TypeIs, WaitAssumption DEF WInv, Typed, Timers
<1>2. doing.state = "run" /\ UNCHANGED <<now, ahead, hands, hostTimer>>
  BY DEF Instruction
<1>3. countdown' \in 0 .. CheckEvery
  <2>1. countdown' = CASE LooksNow -> CheckEvery
                       [] timer.armed /\ ~LooksNow -> countdown - 1
                       [] OTHER -> countdown
    BY DEF Instruction
  <2> QED  BY <1>1, <2>1 DEF LooksNow
<1>4. PICK s \in {IF LooksNow THEN TimerChecked(Now) ELSE Now} : \E t \in {CheckedForSignals(s)} :
        \/ t.dead /\ Executed(t) /\ UNCHANGED <<ready, history>>
        \/ ~t.dead /\ t.frames = frames /\ doing.call # NoCall /\ Enter(t, doing.call)
        \/ ~t.dead /\ (t.frames # frames \/ doing.call = NoCall) /\ Chosen(t)
  BY Zenon DEF Instruction
<1>5. PICK t \in {CheckedForSignals(s)} :
        \/ t.dead /\ Executed(t) /\ UNCHANGED <<ready, history>>
        \/ ~t.dead /\ t.frames = frames /\ doing.call # NoCall /\ Enter(t, doing.call)
        \/ ~t.dead /\ (t.frames # frames \/ doing.call = NoCall) /\ Chosen(t)
  BY <1>4, Zenon
<1>6. t \in States /\ t.wait = NoWait /\ OnPhase(t.timer, phase)
  BY <1>2, <1>4, <1>5, LookLeaves
<1>7. CASE t.dead /\ Executed(t) /\ UNCHANGED <<ready, history>>
  <2>1. ready' = ready /\ phase' = phase
    BY <1>7 DEF history
  <2> QED  BY <1>1, <1>2, <1>3, <1>6, <1>7, <2>1, ExecutedRuns
<1>8. CASE doing.call # NoCall /\ Enter(t, doing.call)
  BY <1>1, <1>2, <1>3, <1>6, <1>8, EnterKeeps
<1>9. CASE ~t.dead /\ Chosen(t)
  BY <1>2, <1>3, <1>6, <1>9, ChosenKeeps
<1> QED  BY <1>5, <1>7, <1>8, <1>9

-----------------------------------------------------------------------------
(* The invariant holds. *)

LEMMA InitKeeps == ASSUME Init PROVE WInv
<1>1. /\ MaxTime \in Nat /\ Ahead \in Nat /\ Never \in Nat /\ Never > MaxTime
      /\ CheckEvery \in Nat /\ Never \in 0 .. Never
  BY Times, WaitAssumption
<1>2. /\ now = 0 /\ ahead = Ahead /\ mach = [mask |-> {}, signals |-> {}, attention |-> FALSE]
      /\ hands \in HandsChoices /\ frames = <<>> /\ timer = NoTimer /\ wait = NoWait
      /\ doing = At("run", NoCall) /\ countdown = 0 /\ ready = Never /\ hostTimer = Never
      /\ phase = 0
  BY DEF Init, At
<1>3. doing.state = "run" /\ doing.call = NoCall
  BY <1>2 DEF At
<1>4. mach \in Machs /\ timer \in Timers /\ ~timer.armed /\ frames \in Seq(Frames)
  BY <1>2 DEF Machs, Timers, NoTimer
<1>5. Typed
  BY <1>1, <1>2, <1>3, <1>4 DEF Typed
<1>6. TypeOK
  BY <1>2, <1>3, <1>5, NoWaitTyped, TypeIs
<1>7. ~Waits
  BY <1>3 DEF Waits
<1> QED  BY <1>1, <1>2, <1>3, <1>4, <1>6, <1>7, NoWaitTyped
         DEF WInv, DeadlineSound, NoSignalSleeps, NothingDueUnseen, TimerKeepsPhase, CancelEndsOne

LEMMA AttemptIs ==
  ASSUME WInv, Attempt
  PROVE  /\ doing.state = "call" /\ doing.call \in Calls
         /\ Answer(doing.call) \/ Interrupt(doing.call) \/ Halt(doing.call)
BY DEF Attempt, WInv, DeadlineSound, Waits

LEMMA StepKeeps == ASSUME WInv, [Next]_vars PROVE WInv'
<1>1. CASE Tick \/ SetWallClock \/ Slice
  BY <1>1, ClocksKeep
<1>2. CASE Instruction
  BY <1>2, InstructionKeeps
<1>3. CASE Attempt
  BY <1>3, AttemptIs, AnswerKeeps, InterruptKeeps, HaltKeeps
<1>4. CASE Host
  BY <1>4, HostKeeps
<1>5. CASE UNCHANGED vars
  BY <1>5 DEF vars, program, history, WInv, TypeOK, DeadlineSound, Waits, NoSignalSleeps,
              NothingDueUnseen, TimerKeepsPhase, CancelEndsOne, OwnMask, Deliverable,
              Proposed, ClockNow
<1> QED  BY <1>1, <1>2, <1>3, <1>4, <1>5 DEF Next, Guest

\* A call that ends leaves the mask the program had when it began.
LEMMA EndPutsBack ==
  ASSUME WInv, [Next]_vars, doing.state = "call", doing'.state = "run"
  PROVE  /\ ~wait'.masked
         /\ (IF Len(frames') > Len(frames) THEN Last(frames').mask ELSE mach'.mask) = before
<1>1. TypeOK /\ Waits
  BY DEF WInv, Waits
<1>2. OwnMask(mach, wait) = before
  BY <1>1 DEF WInv
<1>3. Attempt
  <2>1. ~Tick /\ ~SetWallClock /\ ~Slice /\ ~Instruction
    BY DEF Tick, SetWallClock, Slice, Instruction
  <2>2. ~Host
    BY DEF Host, Resume, SendSignal, InputComes
  <2>3. ~UNCHANGED vars
    BY DEF vars
  <2> QED  BY <2>1, <2>2, <2>3 DEF Next, Guest
<1>4. PICK c \in Calls : c = doing.call /\ (Answer(c) \/ Interrupt(c))
  <2>1. doing.call \in Calls /\ (Answer(doing.call) \/ Interrupt(doing.call) \/ Halt(doing.call))
    BY <1>3, AttemptIs
  <2>2. ~Halt(doing.call)
    BY DEF Halt, At
  <2> QED  BY <2>1, <2>2
<1>5. Restarts(c) \in [Signals -> Calls \cup {NoCall}]
  BY BackTyped
\* However the call ends: s is what it looked at, t what the signals left.
<1>6. ASSUME NEW s \in States, ~s.dead, s.frames = frames,
             OwnMask(s.mach, s.wait) = OwnMask(mach, wait),
             NEW t, t = s \/ t = Consumed(s, Restarts(c)), Set(Finished(t)), ~Finished(t).dead
      PROVE  /\ ~wait'.masked
             /\ (IF Len(frames') > Len(frames) THEN Last(frames').mask ELSE mach'.mask) = before
  <2>1. PICK f : f = Finished(t)
    OBVIOUS
  <2>2. /\ f.wait = NoWait /\ ~f.dead
        /\ (IF Len(f.frames) > Len(s.frames) THEN Last(f.frames).mask
            ELSE f.mach.mask) = OwnMask(s.mach, s.wait)
    BY <1>5, <1>6, <2>1, EndedIs
  <2>3. mach' = f.mach /\ frames' = f.frames /\ wait' = NoWait
    BY <1>6, <2>1, <2>2 DEF Set
  <2> QED  BY <1>2, <1>6, <2>2, <2>3, NoWaitTyped
<1>7. CASE Answer(c)
  <2>1. CASE Set(Finished(Now))
    <3>1. Now \in States /\ ~Now.dead /\ Now.frames = frames /\ Now.mach = mach /\ Now.wait = wait
      BY <1>1, NowTyped
    <3>2. ~Finished(Now).dead
      BY <3>1, FinishedIs
    <3> QED  BY <1>6, <2>1, <3>1, <3>2
  <2>2. CASE ~AtOnce(c) /\ ~Interrupted(c) /\ Set(Finished(Consumed(Looked(c), Restarts(c))))
    <3>1. PICK s : s = Looked(c)
      OBVIOUS
    <3>2. s \in States /\ ~s.dead /\ s.frames = frames /\ OwnMask(s.mach, s.wait) = OwnMask(mach, wait)
      BY <1>1, <3>1, LookedIs
    <3>3. PICK t : t = Consumed(s, Restarts(c))
      OBVIOUS
    <3>4. Acting(s) = {}
      BY <1>7, <2>2, <3>1 DEF Interrupted, Answer, Blind
    <3>5. t \in States /\ ~t.dead
      BY <1>5, <3>2, <3>3, <3>4, ConsumedIs
    <3>6. ~Finished(t).dead
      BY <3>5, FinishedIs
    <3> QED  BY <1>6, <2>2, <3>1, <3>2, <3>3, <3>6
  <2> QED  BY <1>7, <2>1, <2>2 DEF Answer
<1>8. CASE Interrupt(c)
  <2>1. PICK s : s = Looked(c)
    OBVIOUS
  <2>2. s \in States /\ ~s.dead /\ s.frames = frames /\ OwnMask(s.mach, s.wait) = OwnMask(mach, wait)
    BY <1>1, <2>1, LookedIs
  <2>3. PICK t : /\ t = s \/ t = Consumed(s, Restarts(c))
                 /\ Set(Finished(t)) /\ Goes(t, "run", NoCall)
    BY <1>8, <2>1 DEF Interrupt
  <2>4. t \in States
    BY <1>5, <2>2, <2>3, ConsumedIs
  <2>5. ~t.dead
    BY <2>3 DEF Goes, At
  <2>6. ~Finished(t).dead
    BY <2>4, <2>5, FinishedIs
  <2> QED  BY <1>6, <2>2, <2>3, <2>6
<1> QED  BY <1>4, <1>7, <1>8

\* WInv holds of every state a program, its calls and the host come to.
THEOREM WaitInvariantHolds == Spec => []WInv
<1>1. Init => WInv
  BY InitKeeps
<1>2. WInv /\ [Next]_vars => WInv'
  BY StepKeeps
<1> QED  BY <1>1, <1>2, PTL DEF Spec

\* A call that was resumed early, however often, waits until the time it first set itself
\* (GuestWaitDeadline).
THEOREM DeadlineKeptHolds == Spec => []DeadlineKept
<1>1. WInv => DeadlineKept
  BY DEF WInv, DeadlineSound, DeadlineKept, Waits
<1> QED  BY <1>1, WaitInvariantHolds, PTL

\* A program halts, and stays halted, with no signal it could take (GuestWaitInterrupted,
\* sendSignal).
THEOREM NoSignalSleepsHolds == Spec => []NoSignalSleeps
<1>1. WInv => NoSignalSleeps
  BY DEF WInv
<1> QED  BY <1>1, WaitInvariantHolds, PTL

\* The host's timer for a wait is due by whichever comes first of the call's own deadline,
\* the device's and the guest's timer (blinkenlib_wait_deadline, handleSignal).
THEOREM NothingDueUnseenHolds == Spec => []NothingDueUnseen
<1>1. WInv => NothingDueUnseen
  BY DEF WInv
<1> QED  BY <1>1, WaitInvariantHolds, PTL

\* A periodic timer keeps to the times it was set for, however late it is looked at
\* (GuestTimerCheck).
THEOREM TimerKeepsPhaseHolds == Spec => []TimerKeepsPhase
<1>1. WInv => TimerKeepsPhase
  BY DEF WInv
<1> QED  BY <1>1, WaitInvariantHolds, PTL

\* A call that the host cancels does not wait again, and no other call sees it cancelled
\* (cancelWait, GuestWaitFinish).
THEOREM CancelEndsOneHolds == Spec => []CancelEndsOne
<1>1. WInv => CancelEndsOne
  BY DEF WInv
<1> QED  BY <1>1, WaitInvariantHolds, PTL

\* However a call with a mask of its own ends, and however often it started over, the
\* program goes on with its own mask, and so does the frame of the handler that ended it
\* (GuestWaitRestoreMask, ConsumeSignal).
THEOREM MaskPutBackHolds == Spec => MaskPutBack
<1>1. WInv /\ [Next]_vars =>
        [doing.state = "call" /\ doing'.state = "run" =>
           /\ ~wait'.masked
           /\ (IF Len(frames') > Len(frames) THEN Last(frames').mask ELSE mach'.mask) = before]_vars
  BY EndPutsBack
<1> QED  BY <1>1, WaitInvariantHolds, PTL DEF Spec, MaskPutBack
=============================================================================
