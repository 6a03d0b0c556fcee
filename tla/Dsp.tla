-------------------------------- MODULE Dsp --------------------------------
(***************************************************************************)
(* The sound card's playback, /dev/dsp (blink/oss.c), with what the core   *)
(* tells the host to play (blink/sound.c).                                 *)
(*                                                                         *)
(* A program's writes stage bytes until a fragment is full, and whole      *)
(* fragments go into the card's ring, which drains as Program time passes; *)
(* a write that finds no room halts and starts over.  Nothing ticks in the *)
(* code: how much has played is worked out from the time a call asks at.   *)
(* What a pass of a call does is one record of the journal, and undo takes *)
(* back what has not been heard.                                           *)
(*                                                                         *)
(* The program's rate is the card's, a frame is one byte, and time is      *)
(* counted in frames that have played; the clock frames fall between, and  *)
(* rates in between, are CardRate's, which RoomExact asks about the rings  *)
(* this one reaches.  A call takes no time.  A byte is its number in what the   *)
(* program has written, 0 for silence; a program that goes back to before  *)
(* a write writes the same bytes again.  The fragments the settings lead   *)
(* to are a constant.  Of the history the log holds what can still be      *)
(* undone, and only the instructions that use the card.                    *)
(***************************************************************************)
EXTENDS CardRate, SequencesExt

CONSTANTS
  Geometry,  \* of settings, a rate and a fragment: the fragments they lead to
  Sizes,     \* the bytes a write gives
  Cards,     \* clocks, with a program's rate, the card's, and the card's period
  MaxTime,   \* bound: Program time
  MaxCalls,  \* bound: calls made, undone ones too
  MaxLog     \* bound: instructions in the log

Settings == DOMAIN Geometry

ASSUME DspAssumption ==
  /\ \A s \in Settings : s = [rate |-> s.rate, fragment |-> s.fragment]
  /\ [rate |-> 0, fragment |-> 0] \in Settings
  /\ \A s \in Settings : /\ Geometry[s].fails \in {"no", "early", "late"}
                         /\ Geometry[s].period \in Nat \ {0} /\ Geometry[s].periods \in Nat \ {0, 1}
  /\ \A k \in Cards : {k.rate, k.second, k.client, k.slave, k.period} \subseteq Nat \ {0}
  /\ Sizes \subseteq Nat \ {0} /\ MaxTime \in Nat /\ MaxCalls \in Nat /\ MaxLog \in Nat

VARIABLES
  now,      \* Program time
  owned,    \* a description holds playback
  nonblock, \* its O_NONBLOCK
  dsp,      \* everything about the substream but the staged bytes
  staging,  \* the fragment being staged
  host,     \* what the host has yet to play: bytes, each at its time
  call,     \* the call that waits, and how far it is
  exited,   \* the program has ended
  log,      \* what can be undone, oldest first
  calls,    \* how many calls were made
  sent,     \* history variable: the bytes the program has written
  lost,     \* history variable: up to which byte staged bytes were thrown away
  restarted \* history variable: undo went back past a stop, to a running stream

vars == <<now, owned, nonblock, dsp, staging, host, call, exited, log, calls, sent, lost, restarted>>

NoCall == [kind |-> "none", size |-> 0, progress |-> 0, until |-> 0, need |-> 0, records |-> <<>>,
           found |-> <<>>]
InitPlayback ==
  [set |-> [rate |-> 0, fragment |-> 0], params |-> TRUE, prepare |-> FALSE,
   period |-> 0, periods |-> 0, buffer_used |-> 0, period_ptr |-> 0, bytes |-> 0,
   state |-> "setup", segment |-> 0, t0 |-> 0, written |-> 0]

-----------------------------------------------------------------------------
(* The ring D, at time t. *)

FrameClock == [rate |-> 1, second |-> 1]

Played(D, t) == PlayedOn(FrameClock, D, t)

\* UpdateRing(): a stream that played all it was given stops.
Updated(D, t) ==
  IF D.state = "running" /\ Played(D, t) >= D.written THEN [D EXCEPT !.state = "xrun"] ELSE D

Queued(D, t) == QueuedOn(FrameClock, D, t)
FrameTime(D, frame) == FrameTimeOn(FrameClock, D, frame)
PlayedBy(D, frame) == PlayedByOn(FrameClock, D, frame)
RoomDeadline(D, n, t) == RoomDeadlineOn(FrameClock, D, n, t)

Cut(H, at) == {h \in H : h.at < at}

\* OssPoll(), and when it will say so if nothing else happens.
OssPoll(t) ==
  LET D == Updated(dsp, t) IN D.state # "running" \/ Capacity(D) - Queued(D, t) >= D.period
OssReadyDeadline(t) == RoomDeadline(Updated(dsp, t), dsp.period, t)

-----------------------------------------------------------------------------
(* What a pass C of a call does: the substream D, the staging buffer S, the  *)
(* host's schedule H, and what the pass's record will say.                    *)

BeginPass(progress) ==
  [D |-> dsp, S |-> staging, H |-> host, progress |-> progress, rc |-> "ok", lost |-> lost,
   saved |-> FALSE, staged |-> <<>>, transferred |-> FALSE, dropped |-> FALSE,
   first |-> -1, halt_at |-> 0, need |-> 0]

\* A pass goes on with F unless it failed or has to wait.
Then(C, F(_)) == IF C.rc = "ok" THEN F(C) ELSE C

\* Mutant of SaveStaging: the staged bytes are not kept.
SaveNothing(C) == [C EXCEPT !.saved = TRUE]

SaveStaging(C) ==
  IF C.saved THEN C
  ELSE [C EXCEPT !.saved = TRUE, !.staged = SubSeq(C.S, 1, dsp.buffer_used)]

\* The bytes staged and not given to the card are thrown away.
Unstaged(C) ==
  [C EXCEPT !.D.buffer_used = 0, !.D.period_ptr = 0,
            !.lost = IF C.D.buffer_used > 0 THEN sent + C.progress ELSE @]

Stopped(D, state) ==
  [D EXCEPT !.state = state, !.written = 0, !.t0 = 0, !.segment = @ + 1]

\* Mutant of DropRing: the host is not told.
DropRingUncut(C) ==
  [C EXCEPT !.D = Stopped(@, "setup"), !.dropped = @ \/ Queued(C.D, now) > 0]

DropRing(C) ==
  IF Queued(C.D, now) > 0
  THEN [C EXCEPT !.D = Stopped(@, "setup"), !.H = Cut(@, now), !.dropped = TRUE,
                 !.lost = sent + C.progress]
  ELSE [C EXCEPT !.D = Stopped(@, "setup")]

Prepare(C) ==
  [Unstaged(SaveStaging(C)) EXCEPT !.D = [Stopped(@, "prepared") EXCEPT !.prepare = FALSE]]

\* Reallocated to n bytes.
Resized(S, n) == [i \in 1 .. n |-> IF i <= Len(S) THEN S[i] ELSE 0]

\* ApplyParams(): what the program set leads to new fragments, or cannot be had.
Configured(C, g) ==
  IF g.fails # "no" THEN [C EXCEPT !.rc = "failed"]
  ELSE [C EXCEPT !.D.period = g.period, !.D.periods = g.periods, !.D.params = FALSE,
                 !.D.prepare = TRUE, !.S = Resized(@, g.period)]
ApplyParams(C) ==
  LET g == Geometry[C.D.set]
  IN IF ~C.D.params THEN C
     ELSE Configured(Unstaged(SaveStaging(IF g.fails = "early" THEN C ELSE DropRing(C))), g)

MakeReady(C) == Then(ApplyParams(C), LAMBDA A : IF A.D.prepare THEN Prepare(A) ELSE A)

\* A stream that ran dry is prepared when more is written.
Startable(D) ==
  LET U == Updated(D, now)
  IN IF U.state = "xrun" THEN [U EXCEPT !.state = "prepared", !.written = 0, !.segment = @ + 1] ELSE U

\* Frames from `data` go behind what the ring holds.
Transfer(C, data) ==
  LET D == IF C.D.state = "running" THEN C.D ELSE [C.D EXCEPT !.state = "running", !.t0 = now]
      start == FrameTime(D, D.written)
  IN [C EXCEPT !.D = [D EXCEPT !.written = @ + Len(data), !.bytes = @ + Len(data)],
               !.H = @ \cup {[at |-> start + i - 1, byte |-> data[i]] : i \in DOMAIN data},
               !.first = IF C.transferred THEN @ ELSE start,
               !.transferred = TRUE]

\* Write2(): how many of `data` the ring takes, all when mode is "force".
Room(D, data, mode) ==
  IF mode = "force" THEN Len(data) ELSE Min({Len(data), Capacity(D) - Queued(D, now)})
Halted(C, until, need) == [C EXCEPT !.rc = "halt", !.halt_at = until, !.need = need]
Given(C, data, mode) ==
  LET room == Room(C.D, data, mode)
  IN IF room < Len(data) /\ mode = "block"
     THEN Halted(C, RoomDeadline(C.D, Len(data), now), Len(data))
     ELSE IF room = 0 THEN [C EXCEPT !.rc = "again"]
     ELSE Transfer(C, SubSeq(data, 1, room))
Write2(C, data, mode) == Given([C EXCEPT !.D = Startable(@)], data, mode)
Took(before, C) == C.D.bytes - before.D.bytes

Overwritten(S, from, data) ==
  [i \in DOMAIN S |-> IF i > from /\ i <= from + Len(data) THEN data[i - from] ELSE S[i]]
\* The n bytes of the program's buffer the write is at.
FromProgram(C, n) == [i \in 1 .. n |-> sent + C.progress + i]

\* A full staging buffer goes to the card, which took it from C up to G.
Advanced(C, G, mode) ==
  LET ptr == (C.D.period_ptr + Took(C, G)) % G.D.period
  IN IF ptr = 0 THEN [G EXCEPT !.D.period_ptr = 0, !.D.buffer_used = 0]
     ELSE [G EXCEPT !.D.period_ptr = ptr, !.rc = IF mode = "nonblock" THEN "again" ELSE @]
GiveStaged(C, mode) ==
  Then(Write2(SaveStaging(C), SubSeq(C.S, C.D.period_ptr + 1, C.D.buffer_used), mode),
       LAMBDA G : Advanced(C, G, mode))

\* Part of a fragment is staged.
Staging(C, n, mode) ==
  Then([C EXCEPT !.S = Overwritten(@, C.D.buffer_used, FromProgram(C, n)),
                 !.D.buffer_used = @ + n, !.progress = @ + n],
       LAMBDA F : IF F.D.buffer_used = F.D.period THEN GiveStaged(F, mode) ELSE F)
Stage(C, size, mode) ==
  Staging(C, Min({size - C.progress, C.D.period - C.D.buffer_used}), mode)

\* A whole fragment passes through the empty staging buffer.
Passed(C, data, mode) ==
  Then(Write2([SaveStaging(C) EXCEPT !.S = Overwritten(@, 0, data)], data, mode),
       LAMBDA G : [G EXCEPT !.progress = @ + Took(C, G),
                            !.rc = IF mode = "nonblock" /\ Took(C, G) # C.D.period THEN "again" ELSE @])
Pass(C, mode) == Passed(C, FromProgram(C, C.D.period), mode)

\* Once around Write1()'s loop; a signal ends the write at a fragment's end.
Around(C, size, mode, signal) ==
  Then(Then(MakeReady(C),
            LAMBDA R : IF size - R.progress < R.D.period \/ R.D.buffer_used > 0
                       THEN Stage(R, size, mode) ELSE Pass(R, mode)),
       LAMBDA M : IF M.progress < size /\ signal THEN [M EXCEPT !.rc = "signal"] ELSE M)

Write1(C, size, mode, signal) ==
  LET loop[n \in 0 .. size + 2] ==
        LET D == loop[n - 1]
        IN IF n = 0 THEN C
           ELSE IF D.rc # "ok" \/ D.progress = size THEN D
           ELSE Around(D, size, mode, signal)
  IN loop[size + 2]

\* Sync(): the staged fragment is padded with silence and given to the card.
PadStaged(C, mode) ==
  LET silence == [i \in 1 .. C.D.period - C.D.buffer_used |-> 0]
      padded == Overwritten(C.S, C.D.buffer_used, silence)
  IN IF C.D.buffer_used = 0 THEN C
     ELSE Then(Write2([SaveStaging(C) EXCEPT !.S = padded, !.D.buffer_used = C.D.period],
                      SubSeq(padded, C.D.period_ptr + 1, C.D.period), mode),
               LAMBDA G : [G EXCEPT !.D.buffer_used = 0, !.D.period_ptr = 0])

\* The rest of the card's period is silence: the host is handed nothing, and plays nothing.
Silenced(C, rest, mode) ==
  LET start == FrameTime(C.D, C.D.written)
  IN IF mode = "block" /\ Capacity(C.D) - Queued(C.D, now) < rest
     THEN Halted(C, RoomDeadline(C.D, rest, now), rest)
     ELSE [C EXCEPT !.D.written = @ + rest,
                    !.H = @ \cup {[at |-> start + i - 1, byte |-> 0] : i \in 1 .. rest},
                    !.first = IF @ < 0 THEN start ELSE @, !.transferred = TRUE]
PadPeriod(C, mode) ==
  Then([C EXCEPT !.D = Updated(@, now)],
       LAMBDA U : IF U.D.state # "running" \/ U.D.written % U.D.period = 0 THEN U
                  ELSE Silenced(U, U.D.period - (U.D.written % U.D.period), mode))

\* Everything plays out, then the next write prepares the stream.
Drain(C) ==
  Then([C EXCEPT !.D = Updated(@, now)],
       LAMBDA U : IF U.D.state = "running"
                  THEN Halted(U, PlayedBy(U.D, U.D.written), Capacity(U.D))
                  ELSE [U EXCEPT !.D = [(IF @.state = "setup" THEN @ ELSE Stopped(@, "setup"))
                                        EXCEPT !.prepare = TRUE]])

\* At the program's end ("force") the fragment is played out without waiting.
Sync(C, mode) ==
  LET padded(R) == Then(PadStaged(R, mode), LAMBDA P : PadPeriod(P, mode))
  IN Then(Then(MakeReady(C), padded), LAMBDA P : IF mode = "block" THEN Drain(P) ELSE P)

-----------------------------------------------------------------------------
(* The journal. *)

\* EndPass(): one record of what the pass changed.
Records(C) ==
  IF C.D # dsp \/ C.transferred \/ C.dropped
  THEN <<[kind |-> "pass", before |-> dsp, staged |-> C.staged, transferred |-> C.transferred,
          dropped |-> C.dropped, first |-> C.first]>>
  ELSE <<>>

\* What the properties compare an undo with.
Found == [dsp |-> dsp, staged |-> SubSeq(staging, 1, dsp.buffer_used), host |-> host, lost |-> lost]

\* A stop is marked on all that can be undone past it.
Stops(r) == r.kind = "pass" /\ r.dropped
Entry(records, found, exits) ==
  [records |-> records, found |-> found, exits |-> exits, sent |-> sent,
   stopped |-> \E i \in DOMAIN records : Stops(records[i])]
Logged(entry, C) ==
  LET longer == Append(log, entry)
  IN IF C.dropped THEN [i \in DOMAIN longer |-> [longer[i] EXCEPT !.stopped = TRUE]] ELSE longer

Keep(C) ==
  /\ dsp' = C.D /\ staging' = C.S /\ host' = C.H /\ lost' = C.lost
  /\ restarted' = (restarted /\ C.D.state = "running")

\* The call ends, with what its passes did in one entry of the history.
Finish(C, progress) ==
  /\ Keep(C)
  /\ sent' = sent + progress
  /\ call' = NoCall
  /\ log' = Logged(Entry(call.records \o Records(C),
                         IF call.kind = "none" THEN Found ELSE call.found, FALSE), C)

\* HaltPass(): it waits, and starts over when it is resumed.
HaltPass(C, kind, size) ==
  /\ Keep(C)
  /\ call' = [kind |-> kind, size |-> size, progress |-> C.progress, until |-> C.halt_at,
              need |-> C.need, records |-> call.records \o Records(C),
              found |-> IF call.kind = "none" THEN Found ELSE call.found]
  /\ log' = IF C.dropped THEN [i \in DOMAIN log |-> [log[i] EXCEPT !.stopped = TRUE]] ELSE log
  /\ UNCHANGED sent

-----------------------------------------------------------------------------
(* What the program does. *)

Init ==
  /\ now = 0 /\ owned = FALSE /\ nonblock = FALSE
  /\ dsp = InitPlayback /\ staging = <<>> /\ host = {}
  /\ call = NoCall /\ exited = FALSE /\ log = <<>> /\ calls = 0
  /\ sent = 0 /\ lost = 0 /\ restarted = FALSE

Executes ==
  /\ owned /\ ~exited /\ call.kind = "none"
  /\ Len(log) < MaxLog /\ calls < MaxCalls
  /\ calls' = calls + 1

\* open() for writing takes the substream; opening and closing are barriers.
Open ==
  /\ ~owned /\ ~exited /\ calls < MaxCalls /\ calls' = calls + 1
  /\ owned' = TRUE /\ nonblock' = FALSE
  /\ dsp' = InitPlayback /\ staging' = <<>> /\ log' = <<>>
  /\ UNCHANGED <<now, host, call, exited, sent, lost, restarted>>

\* OssWrite(), when it starts and when it starts over.
EndsOrHalts(C, kind, size, interrupted) ==
  IF C.rc = "halt" /\ ~interrupted THEN HaltPass(C, kind, size) ELSE Finish(C, C.progress)
Writing(size, progress, interrupted) ==
  EndsOrHalts(Write1(BeginPass(progress), size, IF nonblock THEN "nonblock" ELSE "block",
                     interrupted),
              "write", size, interrupted)

Write(size, signal) ==
  /\ Executes
  /\ Writing(size, 0, signal)
  /\ UNCHANGED <<now, owned, nonblock, exited>>

\* SyncIoctl().
Syncing(interrupted) == EndsOrHalts(Sync(BeginPass(0), "block"), "sync", 0, interrupted)

SyncIoctl(signal) ==
  /\ Executes
  /\ Syncing(signal)
  /\ UNCHANGED <<now, owned, nonblock, exited>>

\* OssCloseWait(), then OssRelease(), which drops what a signal left.
Released(C, interrupted) ==
  IF C.rc = "halt" /\ ~interrupted
  THEN HaltPass(C, "close", 0) /\ UNCHANGED owned
  ELSE /\ owned' = FALSE
       /\ dsp' = InitPlayback /\ staging' = <<>> /\ log' = <<>> /\ call' = NoCall
       /\ host' = IF Queued(C.D, now) > 0 THEN Cut(C.H, now) ELSE C.H
       /\ lost' = sent /\ restarted' = FALSE
       /\ UNCHANGED sent
Closing(interrupted) == Released(Sync(BeginPass(0), "block"), interrupted)

Close(signal) ==
  /\ Executes
  /\ Closing(signal)
  /\ UNCHANGED <<now, nonblock, exited>>

\* The calls of DspRequest() that change the substream: what they do to it.
SetTo(C, set) == IF set = C.D.set THEN C ELSE [C EXCEPT !.D.set = set, !.D.params = TRUE]
Reset(progress) ==
  LET stopped == Unstaged(SaveStaging(DropRing(BeginPass(progress)))) IN [stopped EXCEPT !.D.prepare = TRUE]

\* SPEED, CHANNELS and STEREO apply what they set, SETFMT also what was set before.
SetRate(rate, first) ==
  LET set == [dsp.set EXCEPT !.rate = rate]
      passed == IF first THEN ApplyParams(BeginPass(0)) ELSE BeginPass(0)
  IN /\ set \in Settings
     /\ Executes
     /\ Finish(Then(passed, LAMBDA C : ApplyParams(SetTo(C, set))), 0)
     /\ UNCHANGED <<now, owned, nonblock, exited>>

\* SETFRAGMENT and SUBDIVIDE, once, which leave it to the next call.
SetFragment(fragment) ==
  /\ dsp.set.fragment = 0 /\ [dsp.set EXCEPT !.fragment = fragment] \in Settings
  /\ Executes
  /\ Finish(SetTo(BeginPass(0), [dsp.set EXCEPT !.fragment = fragment]), 0)
  /\ UNCHANGED <<now, owned, nonblock, exited>>

\* POST, GETODELAY, GETOPTR and SETTRIGGER make the stream ready, the other questions
\* only apply the settings; GETOSPACE, GETODELAY and GETOPTR look at the ring.
Ask(ready, looks) ==
  /\ Executes
  /\ Finish(Then(IF ready THEN MakeReady(BeginPass(0)) ELSE ApplyParams(BeginPass(0)),
                 LAMBDA C : IF looks THEN [C EXCEPT !.D = Updated(@, now)] ELSE C), 0)
  /\ UNCHANGED <<now, owned, nonblock, exited>>

\* poll() looks at it in no pass.
Poll ==
  /\ owned /\ ~exited /\ call.kind = "none"
  /\ dsp' = Updated(dsp, now)
  /\ restarted' = (restarted /\ dsp'.state = "running")
  /\ UNCHANGED <<now, owned, nonblock, staging, host, call, exited, log, calls, sent, lost>>

ResetIoctl ==
  /\ Executes
  /\ Finish(Reset(0), 0)
  /\ UNCHANGED <<now, owned, nonblock, exited>>

Nonblock ==
  /\ ~nonblock /\ Executes
  /\ nonblock' = TRUE
  /\ log' = Append(log, Entry(<<[kind |-> "status", status |-> nonblock]>>, Found, FALSE))
  /\ UNCHANGED <<now, owned, dsp, staging, host, call, exited, sent, lost, restarted>>

\* The program ends: by itself, playing its last fragment out; by a fault, which stops
\* the sound; or killed by a signal, also in a wait, which no undo goes back past.
OssProgramKilled(progress) ==
  IF dsp.state = "running" THEN Reset(progress) ELSE BeginPass(progress)
Exits(C) ==
  /\ Keep(C)
  /\ log' = Logged(Entry(Records(C), Found, TRUE), C)
  /\ exited' = TRUE
Exit(faults) ==
  /\ ~exited /\ call.kind = "none" /\ Len(log) < MaxLog /\ calls < MaxCalls
  /\ calls' = calls + 1
  /\ Exits(IF ~owned THEN BeginPass(0) ELSE IF faults THEN OssProgramKilled(0)
           ELSE Sync(BeginPass(0), "force"))
  /\ UNCHANGED <<now, owned, nonblock, call, sent>>

Killed ==
  /\ ~exited
  /\ Keep(IF owned THEN OssProgramKilled(call.progress) ELSE BeginPass(0))
  /\ sent' = sent + call.progress
  /\ call' = NoCall /\ log' = <<>> /\ exited' = TRUE
  /\ UNCHANGED <<now, owned, nonblock, calls>>

\* Another program starts: the descriptors are closed, and nothing scheduled plays.
StartProgram ==
  /\ exited /\ calls < MaxCalls /\ calls' = calls + 1
  /\ owned' = FALSE /\ nonblock' = FALSE /\ exited' = FALSE
  /\ dsp' = InitPlayback /\ staging' = <<>> /\ host' = {} /\ log' = <<>>
  /\ lost' = sent /\ restarted' = FALSE
  /\ UNCHANGED <<now, call, sent>>

-----------------------------------------------------------------------------
(* Time, and the host. *)

Tick ==
  /\ now < MaxTime
  /\ now' = now + 1
  /\ host' = {h \in host : h.at > now}
  /\ UNCHANGED <<owned, nonblock, dsp, staging, call, exited, log, calls, sent, lost, restarted>>

\* Mutant of Resume: a write that starts over starts from its first byte.
ResumeAfresh(interrupted) ==
  /\ call.kind # "none"
  /\ now >= call.until \/ interrupted
  /\ CASE call.kind = "write" -> Writing(call.size, 0, interrupted) /\ UNCHANGED owned
       [] call.kind = "sync" -> Syncing(interrupted) /\ UNCHANGED owned
       [] call.kind = "close" -> Closing(interrupted)
  /\ UNCHANGED <<now, nonblock, exited, calls>>

\* The wait ends: its time has come, or earlier, for a signal or the guest's timer.
Resume(interrupted) ==
  /\ call.kind # "none"
  /\ now >= call.until \/ interrupted
  /\ CASE call.kind = "write" -> Writing(call.size, call.progress, interrupted) /\ UNCHANGED owned
       [] call.kind = "sync" -> Syncing(interrupted) /\ UNCHANGED owned
       [] call.kind = "close" -> Closing(interrupted)
  /\ UNCHANGED <<now, nonblock, exited, calls>>

\* Of the frames undone, those that have played since stay in the ring; a stop is not
\* undone.
TakenBack(r, current) ==
  LET before == r.before
      written == Max({before.written, Min({current.written, Played(current, now)})})
  IN IF r.dropped
     THEN [before EXCEPT !.state = IF before.params \/ before.prepare THEN "setup" ELSE "prepared",
                         !.written = 0, !.t0 = 0, !.segment = current.segment + 1]
     ELSE IF before.segment = current.segment /\ current.state \in {"running", "xrun"}
             /\ written # before.written
     THEN [before EXCEPT !.state = "running", !.t0 = current.t0, !.written = written]
     ELSE before

\* UndoOssJournal().
UndoRecord(r, u) ==
  LET D == TakenBack(r, Updated(u.D, now))
      resized == IF D.period # 0 /\ (u.S = <<>> \/ D.period # u.D.period)
                 THEN Resized(u.S, D.period) ELSE u.S
  IN IF r.kind = "status" THEN [u EXCEPT !.status = r.status]
     ELSE [u EXCEPT !.D = D, !.S = Overwritten(resized, 0, r.staged),
                    !.H = IF r.transferred THEN Cut(@, Max({now, r.first})) ELSE @]

Undo ==
  LET e == Last(log)
      u == FoldRight(UndoRecord, e.records, [D |-> dsp, S |-> staging, H |-> host, status |-> nonblock])
  IN /\ call.kind = "none" /\ log # <<>>
     /\ dsp' = u.D /\ staging' = u.S /\ host' = u.H /\ nonblock' = u.status
     /\ exited' = (exited /\ ~e.exits)
     /\ log' = Front(log)
     /\ sent' = e.sent /\ lost' = e.found.lost
     /\ restarted' = ((restarted \/ e.stopped) /\ u.D.state = "running")
     /\ UNCHANGED <<now, owned, call, calls>>

Next ==
  \/ Open
  \/ \E size \in Sizes, signal \in BOOLEAN : Write(size, signal)
  \/ \E signal \in BOOLEAN : SyncIoctl(signal) \/ Close(signal)
  \/ \E s \in Settings, first \in BOOLEAN : SetRate(s.rate, first)
  \/ \E s \in Settings : SetFragment(s.fragment)
  \/ \E ready, looks \in BOOLEAN : Ask(ready, looks)
  \/ Poll \/ ResetIoctl \/ Nonblock
  \/ \E faults \in BOOLEAN : Exit(faults)
  \/ Killed \/ StartProgram
  \/ Tick
  \/ \E interrupted \in BOOLEAN : Resume(interrupted)
  \/ Undo

Spec == Init /\ [][Next]_vars

-----------------------------------------------------------------------------
(* Properties *)

\* The counts stay within the fragment, the ring and what was written; a call waits only
\* for a description that holds playback.
TypeOK ==
  /\ now \in 0 .. MaxTime /\ dsp.set \in Settings
  /\ dsp.state \in {"setup", "prepared", "running", "xrun"}
  /\ dsp.period_ptr \in 0 .. dsp.buffer_used /\ dsp.buffer_used \in 0 .. dsp.period
  /\ Len(staging) = dsp.period \/ dsp.buffer_used = 0
  /\ \A h \in host : h.at >= now /\ h.byte \in 0 .. sent + call.progress
  /\ call.kind # "none" => owned /\ ~exited /\ call.progress \in 0 .. call.size
  /\ lost \in 0 .. sent + call.progress /\ Len(log) <= MaxLog

\* When the frames play that the ring counts as queued.
QueuedTimes ==
  LET D == dsp IN IF D.state = "running" THEN {D.t0 + k : k \in Played(D, now) .. D.written - 1} ELSE {}

\* The ring and the host agree: what the card counts as queued is what the host will
\* play, frame by frame, through underruns, stops, waits and undos (Write2, DropRing,
\* UndoOssJournal), except where an undo went back past a stop and to a stream that ran
\* before it (README.md, known divergences).
HostAgrees == ~restarted => {h.at : h \in host} = QueuedTimes

\* Where the bytes of the program's writes are staged, and all that will be heard.
Staged == {i \in dsp.period_ptr + 1 .. dsp.buffer_used : staging[i] # 0}
Pending == {h.byte : h \in host} \cup {staging[i] : i \in Staged}

\* Every byte of a write goes to the card once and in order, however often the write halts
\* and starts over, and whatever is undone in between: a gap is where staged bytes were
\* thrown away (Write1, OssWrite, UndoOssJournal).
BytesOnce ==
  LET written == sent + call.progress
      bytes == Pending \ {0}
  IN /\ \A g, h \in {h \in host : h.byte # 0} : g.at < h.at => g.byte < h.byte
     /\ \A i \in Staged : /\ \A h \in host : h.byte < staging[i]
                         /\ \A j \in Staged : i < j => staging[i] < staging[j]
     /\ \A b \in bytes :
          \/ b + 1 \in bytes \/ b = written
          \/ b <= lost /\ (lost = written \/ \E c \in bytes : c > lost) /\ b + 1 .. lost \cap bytes = {}

\* Undo takes back what a call did, whatever has played meanwhile and however many passes
\* it took: the settings, the staged bytes and the counts are those the call found, and of
\* what was to be heard then the rest still is, nothing more; where a stop came in between,
\* nothing it dropped plays (UndoOssJournal, SaveStaging, and src/blink-js/README.md:363).
UndoTakesBack ==
  [][log' = Front(log) /\ Undo =>
       LET e == Last(log)
           clock(D) == [D EXCEPT !.state = "", !.segment = 0, !.t0 = 0, !.written = 0]
           still == {h \in e.found.host : h.at >= now}
       IN /\ clock(dsp') = clock(e.found.dsp)
          /\ SubSeq(staging', 1, dsp'.buffer_used) = e.found.staged
          /\ IF e.stopped THEN host' \subseteq still ELSE host' = still]_vars

\* On clock k too, where frames fall between units of time: when n frames are said to be
\* free they are, and not a moment before.
RoomOn(k) ==
  LET free(t) == Capacity(dsp) - QueuedOn(k, dsp, t)
  IN dsp.state = "running" =>
     \A late \in {0, 1}, n \in 1 .. Capacity(dsp) :
       LET t == FrameTimeOn(k, dsp, Played(dsp, now)) + late
           until == RoomDeadlineOn(k, dsp, n, t)
       IN free(until) >= n /\ (until > t => free(until - 1) < n)

\* Between rates the program's fragment is as many of its frames as the card's period
\* holds.  A write of one waits for a period, what poll() looks at, and gives all of it, and
\* so does the next, until one cut short has the plugin remember another pair.
FragmentOn(k) ==
  LET fragment == ClientSize(NewRatePlugin(k.client, k.slave), k.period)
      slave == SlaveSize(fragment.plug, fragment.frames)
  IN fragment.frames > 0 =>
       slave.frames = k.period /\ ClientSize(slave.plug, slave.frames) = fragment
FragmentsFit == \A k \in Cards : FragmentOn(k)

\* Room is told as it comes, to the frame and to the nanosecond: a call that waits is woken
\* when it can go on and not before; poll() finds the card writable from the time its own
\* wait was given on; where it does, a write of a fragment does not wait, where it does not,
\* one waits, but for a whole fragment that a write ended early left staged; and what is
\* rounded down (Played, FrameTime), up (PlayedBy) and to the nearest (RateSrcFrames,
\* RateDstFrames) on the way makes it neither early nor short of a frame (RoomDeadline,
\* OssPoll, OssReadyDeadline, Write2).
RoomExact ==
  LET free(t) == Capacity(dsp) - Queued(Updated(dsp, t), t)
      waits == Write1(BeginPass(0), dsp.period, "block", FALSE).rc = "halt"
  IN /\ TypeOK
     /\ call.kind # "none" =>
          free(call.until) >= call.need /\ (call.until > now => free(call.until - 1) < call.need)
     /\ \A t \in now .. now + Capacity(dsp) : OssPoll(t) <=> t >= OssReadyDeadline(now)
     /\ owned /\ call.kind = "none" /\ ~dsp.params /\ dsp.buffer_used < dsp.period =>
          (OssPoll(now) <=> ~waits)
     /\ \A k \in Cards : RoomOn(k)
     /\ FragmentsFit
============================================================================
