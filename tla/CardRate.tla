------------------------------ MODULE CardRate ------------------------------
(***************************************************************************)
(* The arithmetic of the sound card (blink/oss.c): its clock, on which     *)
(* frames fall between whole units of time, and its rate plugin, which     *)
(* turns the program's frames into the card's and back in fixed point.     *)
(*                                                                         *)
(* A clock k plays k.rate frames in k.second units of time.  A ring D has  *)
(* D.written frames since D.t0 and room for D.period * D.periods.          *)
(***************************************************************************)
EXTENDS Integers, FiniteSetsExt

Capacity(D) == D.period * D.periods

\* Whole frames only.
PlayedOn(k, D, t) ==
  CASE D.state = "xrun" -> D.written
    [] D.state = "running" -> Min({(Max({t - D.t0, 0}) * k.rate) \div k.second, D.written})
    [] OTHER -> 0

QueuedOn(k, D, t) == IF D.state = "running" THEN D.written - PlayedOn(k, D, t) ELSE 0

\* When a frame starts to play.
FrameTimeOn(k, D, frame) == D.t0 + (frame * k.second) \div k.rate

\* The first moment so many frames have played.
PlayedByOn(k, D, frame) == D.t0 + (frame * k.second + k.rate - 1) \div k.rate

\* When n frames of the ring are free.
RoomDeadlineOn(k, D, n, t) ==
  LET frames == Min({n, Capacity(D)})
  IN IF D.state # "running" \/ QueuedOn(k, D, t) + frames <= Capacity(D) THEN t
     ELSE PlayedByOn(k, D, D.written + frames - Capacity(D))

-----------------------------------------------------------------------------
(* The rate plugin: what a conversion returns is a number of frames and the  *)
(* plugin, which remembers the last pair of counts it worked out.            *)

RATE_BITS == 2048

NewRatePlugin(client, slave) ==
  [present |-> client # slave, src_rate |-> client, dst_rate |-> slave,
   pitch |-> IF client < slave THEN (client * RATE_BITS + slave \div 2) \div slave
             ELSE (slave * RATE_BITS + client \div 2) \div client,
   old_src_frames |-> 0, old_dst_frames |-> 0]

Multiplied(r, frames) == (frames * r.pitch + RATE_BITS \div 2) \div RATE_BITS
Divided(r, frames) == (frames * RATE_BITS + r.pitch \div 2) \div r.pitch

\* How often n is halved until it is no more than old, and doubled until it is no less.
Halvings(n, old) ==
  CHOOSE h \in 0 .. 30 : n \div 2^h <= old /\ \A i \in 0 .. h - 1 : n \div 2^i > old
Doublings(n, old) ==
  CHOOSE d \in 0 .. 30 : n * 2^d >= old /\ \A i \in 0 .. d - 1 : n * 2^i < old

\* What the pair (old, other) says of `frames`, a power of two apart: a count or nothing.
Remembered(frames, old, other) ==
  LET h == Halvings(frames, old)
      d == Doublings(frames \div 2^h, old)
  IN IF ~(old > 0) THEN {}
     ELSE IF frames = old THEN {other}
     ELSE IF (frames \div 2^h) * 2^d = old THEN {(other * 2^h) \div 2^d} ELSE {}

Counted(r, known, frames, src, dst) ==
  IF known # {} THEN [frames |-> CHOOSE n \in known : TRUE, plug |-> r]
  ELSE [frames |-> frames, plug |-> [r EXCEPT !.old_src_frames = src, !.old_dst_frames = dst]]

\* The program's frames for the card's, and the card's for the program's.
RateSrcFrames(r, frames) ==
  LET res == IF r.src_rate < r.dst_rate THEN Multiplied(r, frames) ELSE Divided(r, frames)
  IN Counted(r, Remembered(frames, r.old_src_frames, r.old_dst_frames), res, frames, res)
RateDstFrames(r, frames) ==
  LET res == IF r.src_rate < r.dst_rate THEN Divided(r, frames) ELSE Multiplied(r, frames)
  IN Counted(r, Remembered(frames, r.old_dst_frames, r.old_src_frames), res, res, frames)

ClientSize(r, frames) ==
  IF r.present /\ frames > 0 THEN RateSrcFrames(r, frames) ELSE [frames |-> frames, plug |-> r]
SlaveSize(r, frames) ==
  IF r.present /\ frames > 0 THEN RateDstFrames(r, frames) ELSE [frames |-> frames, plug |-> r]
=============================================================================
