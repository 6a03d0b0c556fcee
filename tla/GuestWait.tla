----------------------------- MODULE GuestWait -----------------------------
(***************************************************************************)
(* Signals, the interval timer, and the calls that wait (environment.c,    *)
(* signal.c, and the calls of syscall.c and devices.c that use them).      *)
(*                                                                         *)
(* A call that has to wait halts the machine: nothing of it is left but    *)
(* the statics of environment.c.  The host learns until when, resumes it   *)
(* then or earlier, and the instruction starts over.  A signal handler     *)
(* that interrupts it runs as instructions of the program.                 *)
(*                                                                         *)
(* An instruction takes no time: the clocks move between instructions and  *)
(* while one is halted.  The wall clock may be set once.                   *)
(***************************************************************************)
EXTENDS Integers, FiniteSetsExt, SequencesExt

CONSTANTS
  Signals,      \* numbers of signals
  Alarm,        \* SIGALRM
  HandsChoices, \* what a program may have installed: "restart" and "eintr" are
                \* handlers with and without SA_RESTART, "ignore" and "die" none
  HandlerMask,  \* the sa_mask of each handler
  Masks,        \* masks a program sets, for good or for one call
  Durations,    \* how long timers and waits last
  Periods,      \* the intervals of timers; 0 is a timer that goes off once
  CheckEvery,   \* TIMER_CHECK_INSTRUCTIONS
  Ahead,        \* how far the wall clock is ahead of the monotonic one
  Jumps,        \* how far it may be set, once
  MaxTime,      \* bound: the clocks stop here
  Depth         \* bound: handlers this deep leave masks alone

Acts == {"restart", "eintr", "ignore", "die"}

ASSUME WaitAssumption ==
  /\ Signals \subseteq 1 .. 64 /\ Alarm \in Signals
  /\ HandsChoices \subseteq [Signals -> Acts]
  /\ HandlerMask \in [Signals -> SUBSET Signals]
  /\ Masks \subseteq SUBSET Signals
  /\ Durations \subseteq 1 .. MaxTime /\ Periods \subseteq Nat
  /\ CheckEvery \in Nat \ {0} /\ Ahead \in Nat
  /\ Jumps \subseteq Int /\ \A j \in Jumps : j <= MaxTime /\ Ahead + j \in Nat
  /\ MaxTime \in Nat /\ Depth \in Nat

VARIABLES
  now,        \* CLOCK_MONOTONIC
  ahead,      \* CLOCK_REALTIME is this much more
  mach,       \* struct Machine: the signal mask, the pending signals, attention
  hands,      \* what each signal does
  frames,     \* the signal frames on the stack: the mask, and what goes on
  timer,      \* ITIMER_REAL
  wait,       \* the other statics of environment.c
  doing,      \* where the run loop is, and the call that starts next or is under way
  countdown,  \* timer_check_countdown
  ready,      \* when the device that calls read and poll has something; 0: it has
  hostTimer,  \* when the host's timer for the wait fires
  due, before, phase  \* history: what the call's deadline and mask were when it
                      \* began, and the phase a periodic timer was given

program == <<mach, frames, timer, wait>>
history == <<due, before, phase>>
vars == <<now, ahead, program, hands, doing, countdown, ready, hostTimer, history>>

Never == 4 * (MaxTime + Ahead + 1)   \* GetMaxTime()
NoTimer == [armed |-> FALSE, at |-> 0, every |-> 0]
NoMask == {0}
NoCall == [op |-> "none", n |-> Never, mask |-> NoMask]
NoWait == [pending |-> FALSE, masked |-> FALSE, cancelled |-> FALSE, saved |-> {},
           real |-> FALSE, until |-> Never, at |-> Never]

Calls ==
  [op : {"nanosleep", "clock_nanosleep"}, n : Durations, mask : {NoMask}]
    \cup [op : {"ppoll"}, n : Durations \cup {Never}, mask : Masks \cup {NoMask}]
    \cup [op : {"poll"}, n : Durations \cup {Never}, mask : {NoMask}]
    \cup [op : {"rt_sigsuspend"}, n : {Never}, mask : Masks]
    \cup [op : {"pause", "read"}, n : {Never}, mask : {NoMask}]

Sleeps(c) == c.op \in {"nanosleep", "clock_nanosleep"}

\* "poll" is poll() of no descriptors: Poll() looks at the timer and the signals
\* once for each descriptor, so such a call sees neither.
Blind(c) == c.op = "poll"
----------------------------------------------------------------------------
(* The state that a system call changes in several steps, as one record. *)

Now == [mach |-> mach, frames |-> frames, timer |-> timer, wait |-> wait, dead |-> FALSE]

Set(s) ==
  /\ mach' = s.mach /\ frames' = s.frames /\ timer' = s.timer /\ wait' = s.wait

Deliverable(m) == m.signals \ m.mask

\* EnqueueSignal(): attention only when the mask lets the signal through now.
Enqueued(m, sig) ==
  LET queued == [m EXCEPT !.signals = @ \cup {sig}]
  IN [queued EXCEPT !.attention = @ \/ Deliverable(queued) # {}]

\* Mutant: a periodic timer goes on from when it was looked at.
TimerCheckedLate(s) ==
  LET t == s.timer
  IN IF ~t.armed \/ now < t.at
     THEN s
     ELSE [s EXCEPT !.mach = Enqueued(@, Alarm),
                    !.timer = IF t.every = 0 THEN NoTimer
                              ELSE [t EXCEPT !.at = now + t.every]]

\* GuestTimerCheck(): a timer that is due goes off once, however late, and a
\* periodic one again at the next of the times it was set for.
TimerChecked(s) ==
  LET t == s.timer
  IN IF ~t.armed \/ now < t.at
     THEN s
     ELSE [s EXCEPT !.mach = Enqueued(@, Alarm),
                    !.timer = IF t.every = 0 THEN NoTimer
                              ELSE [t EXCEPT !.at = now + (t.every - ((now - t.at) % t.every))]]

\* GuestWaitMask(): the ordinary mask is saved once, however often the call
\* starts over.
Masked(s, mask) ==
  IF mask = NoMask
  THEN s
  ELSE [s EXCEPT !.mach.mask = mask,
                 !.wait = IF @.masked THEN @ ELSE [@ EXCEPT !.masked = TRUE, !.saved = s.mach.mask]]

\* Mutant: the frame of a handler takes the temporary mask.
NotUnmasked(s) == s

\* GuestWaitRestoreMask()
Unmasked(s) ==
  IF s.wait.masked
  THEN [s EXCEPT !.mach.mask = s.wait.saved, !.wait.masked = FALSE]
  ELSE s

\* Mutant: a cancellation stays for the next call that waits.
FinishedUncleared(s) ==
  [Unmasked(s) EXCEPT !.wait = [NoWait EXCEPT !.cancelled = s.wait.cancelled]]

\* GuestWaitFinish()
Finished(s) == [Unmasked(s) EXCEPT !.wait = NoWait]

\* The signals ConsumeSignal() comes to something with, and the one it takes.
Acting(s) == {g \in Deliverable(s.mach) : hands[g] # "ignore"}
Taken(s) == Max(Acting(s))

\* ConsumeSignal(): drops ignored signals until it finds one that a handler
\* takes, or that ends the program.  back[g] is what goes on after the handler.
Consumed(s, back) ==
  LET none == Acting(s) = {}
      dropped == [s EXCEPT !.mach.signals =
                    {g \in @ : g \in s.mach.mask \/ (~none /\ g < Taken(s))}]
      plain == Unmasked(dropped)
  IN CASE none -> dropped
       [] ~none /\ hands[Taken(s)] = "die" -> [dropped EXCEPT !.dead = TRUE]
       [] OTHER -> [plain EXCEPT !.frames = Append(@, [mask |-> plain.mach.mask,
                                                        back |-> back[Taken(s)]]),
                                 !.mach.mask = @ \cup HandlerMask[Taken(s)] \cup {Taken(s)}]

Always(c) == [g \in Signals |-> c]
----------------------------------------------------------------------------
(* What the host is told of a wait. *)

WaitNow(w) == IF w.real THEN now + ahead ELSE now
Remaining(d) == IF d.at = Never THEN Never ELSE d.at - (IF d.real THEN now + ahead ELSE now)

\* Mutant: a wait with a deadline of its own hides the timer's.
ReportedOwn(w, t) ==
  LET first == Min({w.at, IF t.armed THEN t.at ELSE Never})
  IN IF w.until = Never THEN [real |-> FALSE, at |-> first] ELSE [real |-> w.real, at |-> w.until]

\* Mutant: the device's readiness is left out.
ReportedNoDevice(w, t) ==
  IF w.until = Never \/ (t.armed /\ t.at - now < w.until - WaitNow(w))
  THEN [real |-> FALSE, at |-> IF t.armed THEN t.at ELSE Never]
  ELSE [real |-> w.real, at |-> w.until]

\* blinkenlib_wait_deadline(): the earliest of the call's own deadline, the
\* device's and the timer's, with the clock it is on.
Reported(w, t) ==
  LET first == Min({w.at, IF t.armed THEN t.at ELSE Never})
  IN IF w.until = Never \/ (first # Never /\ first - now < w.until - WaitNow(w))
     THEN [real |-> FALSE, at |-> first]
     ELSE [real |-> w.real, at |-> w.until]

\* handleSignal(): the host sets its timer for what remains.
TimerFor(d) == IF d.at = Never THEN Never ELSE now + Max({0, Remaining(d)})
\* The deadline a call sets itself when it begins, on its clock.
ClockNow(c) == IF c.op = "clock_nanosleep" THEN now + ahead ELSE now

Proposed(c) == IF c.n = Never THEN Never ELSE ClockNow(c) + c.n
----------------------------------------------------------------------------
Init ==
  /\ now = 0 /\ ahead = Ahead
  /\ mach = [mask |-> {}, signals |-> {}, attention |-> FALSE]
  /\ hands \in HandsChoices
  /\ frames = <<>>
  /\ timer = NoTimer
  /\ wait = NoWait
  /\ doing = [state |-> "run", call |-> NoCall]
  /\ countdown = 0
  /\ ready = Never
  /\ hostTimer = Never
  /\ due = Never /\ before = {} /\ phase = 0

\* The clocks.
Tick ==
  /\ doing.state \in {"run", "halted"} /\ now < MaxTime
  /\ now' = now + 1
  /\ ready' = IF ready <= now + 1 THEN 0 ELSE ready
  /\ UNCHANGED <<ahead, program, hands, doing, countdown, hostTimer, history>>

SetWallClock ==
  /\ ahead = Ahead /\ doing.state \in {"run", "halted"}
  /\ \E j \in Jumps : ahead' = Ahead + j
  /\ UNCHANGED <<now, program, hands, doing, countdown, ready, hostTimer, history>>
----------------------------------------------------------------------------
(* runLoop().  The program's instructions take the state t that the look at *)
(* the timer and the signals before them left.                              *)

At(state, call) == [state |-> state, call |-> call]
Goes(s, state, call) == doing' = IF s.dead THEN At("dead", NoCall) ELSE At(state, call)

LooksNow == timer.armed /\ countdown - 1 <= 0

\* CheckForSignals()
CheckedForSignals(s) ==
  CASE ~s.mach.attention -> s
    [] s.mach.attention /\ Deliverable(s.mach) = {} -> [s EXCEPT !.mach.attention = FALSE]
    [] OTHER -> Consumed(s, Always(doing.call))

Executed(t) == Set(t) /\ Goes(t, "run", NoCall)

Plain(t) == Executed(t) /\ UNCHANGED <<ready, history>>

\* SysKill(), SysTkill()
Kill(t, sig) == Executed([t EXCEPT !.mach = Enqueued(@, sig)]) /\ UNCHANGED <<ready, history>>

\* SysSetitimer() and SysAlarm(): the old timer is looked at before it goes.
SetTimer(t, value, every) ==
  /\ now + value <= MaxTime
  /\ Executed([TimerChecked(t) EXCEPT !.timer = [armed |-> value # 0, every |-> every,
                                                 at |-> IF value = 0 THEN 0 ELSE now + value]])
  /\ phase' = IF every = 0 \/ value = 0 THEN 0 ELSE (now + value) % every
  /\ UNCHANGED <<ready, due, before>>

\* SysSigprocmask(): one signal that it lets through comes at once.
SetMask(t, mask) ==
  /\ Len(t.frames) <= Depth
  /\ \E s \in {[t EXCEPT !.mach.mask = mask]} : Executed(Consumed(s, Always(NoCall)))
  /\ UNCHANGED <<ready, history>>

\* SigRestore()
SigReturn(t) ==
  /\ t.frames # <<>>
  /\ Set([t EXCEPT !.mach.mask = Last(t.frames).mask, !.mach.attention = TRUE,
                   !.frames = Front(@)])
  /\ doing' = At("run", Last(t.frames).back)
  /\ UNCHANGED <<ready, history>>

\* The program has the device do something that takes n.
UseDevice(t, n) ==
  /\ now + n <= MaxTime
  /\ ready' = now + n
  /\ Executed(t) /\ UNCHANGED history

\* A call that may wait begins.
Enter(t, c) ==
  /\ c.n # Never => now + c.n < MaxTime
  /\ c.mask # NoMask => Len(t.frames) <= Depth
  /\ Set(t) /\ doing' = At("call", c)
  /\ due' = Proposed(c) /\ before' = t.mach.mask
  /\ UNCHANGED <<ready, phase>>

\* An instruction the program is free to choose.
Chosen(t) ==
  \/ Plain(t) \/ SigReturn(t)
  \/ \E g \in Signals : Kill(t, g)
  \/ \E v \in Durations \cup {0}, e \in Periods : SetTimer(t, v, e)
  \/ \E k \in Masks : SetMask(t, k)
  \/ \E n \in Durations : UseDevice(t, n)
  \/ \E c \in Calls : Enter(t, c)

\* Before an instruction comes a look at the timer, now and then, and one
\* pending signal: then the instruction is the first of its handler.  A call
\* that a handler's return restarts is not free to choose.
Instruction ==
  /\ doing.state = "run"
  /\ countdown' = CASE LooksNow -> CheckEvery
                    [] timer.armed /\ ~LooksNow -> countdown - 1
                    [] OTHER -> countdown
  /\ \E s \in {IF LooksNow THEN TimerChecked(Now) ELSE Now} :
     \E t \in {CheckedForSignals(s)} :
       \/ t.dead /\ Executed(t) /\ UNCHANGED <<ready, history>>
       \/ ~t.dead /\ t.frames = frames /\ doing.call # NoCall /\ Enter(t, doing.call)
       \/ ~t.dead /\ (t.frames # frames \/ doing.call = NoCall) /\ Chosen(t)
  /\ UNCHANGED <<now, ahead, hands, hostTimer>>

\* The slice ends and the host runs; the next one starts by the timer.
Slice ==
  /\ doing.state = "run"
  /\ countdown' = 0
  /\ UNCHANGED <<now, ahead, program, hands, doing, ready, hostTimer, history>>
----------------------------------------------------------------------------
(* The calls that wait. *)

\* Mutant: the deadline is worked out anew each time the call starts over.
UntilAnew(c) == Proposed(c)

\* GuestWaitDeadline()
Until(c) == IF wait.pending THEN wait.until ELSE Proposed(c)

Forgotten == due' = Never /\ before' = {}

Calling(c) == doing = At("call", c)
Over(c) == ClockNow(c) >= Until(c)
Ready(c) == c.op \in {"read", "ppoll"} /\ ready = 0

\* A sleep and a read look first whether they have to wait.
AtOnce(c) == ((Sleeps(c) \/ Blind(c)) /\ Over(c)) \/ (c.op = "read" /\ Ready(c))

\* GuestWaitInterrupted() before it looks for signals.
Looked(c) == IF Blind(c) THEN Now ELSE TimerChecked(Masked(Now, c.mask))
Interrupted(c) == wait.cancelled \/ (~Blind(c) /\ Acting(Looked(c)) # {})

\* RestartSignalSyscall(): reads restart after a handler with SA_RESTART.
Restarts(c) ==
  [g \in Signals |-> IF c.op = "read" /\ hands[g] = "restart" THEN c ELSE NoCall]

\* The call answers what it waited for, or that its time is over.
Answer(c) ==
  /\ Calling(c)
  /\ \/ AtOnce(c) /\ Set(Finished(Now))
     \/ /\ ~AtOnce(c) /\ ~Interrupted(c)
        /\ c.op = "ppoll" /\ (Ready(c) \/ Over(c))
        /\ \E s \in {Looked(c)} : Set(Finished(Consumed(s, Restarts(c))))
  /\ ready' = IF c.op = "read" THEN Never ELSE ready
  /\ doing' = At("run", NoCall) /\ Forgotten
  /\ UNCHANGED <<now, ahead, hands, countdown, hostTimer, phase>>

\* EINTR: cancelled by the host, or a handler runs, or a signal ends it all.
Interrupt(c) ==
  /\ Calling(c) /\ ~AtOnce(c) /\ Interrupted(c)
  /\ \E s \in {Looked(c)} :
     \E t \in {IF s.wait.cancelled THEN s ELSE Consumed(s, Restarts(c))} :
       Set(Finished(t)) /\ Goes(t, "run", NoCall)
  /\ Forgotten
  /\ UNCHANGED <<now, ahead, hands, countdown, ready, hostTimer, phase>>

\* GuestWaitHalt(), GuestWaitHaltWake(); the host sets its timer.
Halt(c) ==
  /\ Calling(c) /\ ~AtOnce(c) /\ ~Interrupted(c)
  /\ ~(c.op = "ppoll" /\ (Ready(c) \/ Over(c)))
  /\ \E s \in {Looked(c)} :
     LET w == [s.wait EXCEPT !.pending = TRUE, !.until = Until(c),
                             !.real = c.op = "clock_nanosleep",
                             !.at = IF c.op \in {"read", "ppoll"} THEN ready ELSE Never]
     IN /\ Set([(IF Blind(c) THEN s ELSE Consumed(s, Restarts(c))) EXCEPT !.wait = w])
        /\ hostTimer' = TimerFor(Reported(w, s.timer))
  /\ doing' = At("halted", c)
  /\ UNCHANGED <<now, ahead, hands, countdown, ready, history>>
----------------------------------------------------------------------------
(* The host. *)

\* resumeWait(), cancelWait(): the call starts over.
Resumed == doing' = At("call", doing.call) /\ hostTimer' = Never /\ countdown' = 0

Resume(cancel) ==
  /\ doing.state = "halted"
  /\ Resumed
  /\ wait' = [wait EXCEPT !.cancelled = cancel]
  /\ UNCHANGED <<now, ahead, mach, frames, timer, hands, ready, history>>

HostTimerFires == hostTimer <= now /\ Resume(FALSE)

\* Mutant: a signal does not resume a program that waits.
SendSignalOnly(sig) ==
  /\ doing.state \in {"run", "halted"}
  /\ mach' = Enqueued(mach, sig)
  /\ UNCHANGED <<now, ahead, frames, timer, wait, hands, doing, countdown, ready, hostTimer, history>>

\* sendSignal()
SendSignal(sig) ==
  /\ doing.state \in {"run", "halted"}
  /\ mach' = Enqueued(mach, sig)
  /\ IF doing.state = "halted" THEN Resumed ELSE UNCHANGED <<doing, hostTimer, countdown>>
  /\ UNCHANGED <<now, ahead, frames, timer, wait, hands, ready, history>>

\* sendInputReport(), provideInput(): a wait the device can end resumes.
InputComes ==
  /\ doing.state \in {"run", "halted"} /\ ready # 0
  /\ ready' = 0
  /\ IF doing.state = "halted" /\ doing.call.op \in {"read", "ppoll"}
     THEN Resumed ELSE UNCHANGED <<doing, hostTimer, countdown>>
  /\ UNCHANGED <<now, ahead, program, hands, history>>
----------------------------------------------------------------------------
Attempt ==
  doing.state = "call" /\ LET c == doing.call IN Answer(c) \/ Interrupt(c) \/ Halt(c)

Guest == Instruction \/ Attempt

Host ==
  \/ \E b \in BOOLEAN : Resume(b)
  \/ \E g \in Signals : SendSignal(g)
  \/ InputComes

Next == Tick \/ SetWallClock \/ Slice \/ Guest \/ Host

Spec == Init /\ [][Next]_vars

\* Time passes whatever the program and the host do; the event loop runs a
\* timer that is due, and wasm the instructions of a program that runs.
FairSpec == Spec /\ SF_vars(Tick) /\ WF_vars(Guest) /\ WF_vars(HostTimerFires)
----------------------------------------------------------------------------
(* Type correctness. *)
TypeOK ==
  /\ now \in 0..MaxTime /\ ahead \in {Ahead} \cup {Ahead + j : j \in Jumps}
  /\ mach \in [mask : SUBSET Signals, signals : SUBSET Signals, attention : BOOLEAN]
  /\ hands \in HandsChoices
  /\ frames \in Seq([mask : SUBSET Signals, back : Calls \cup {NoCall}])
  /\ timer \in [armed : BOOLEAN, at : Nat, every : Periods \cup {0}]
  /\ wait \in [pending : BOOLEAN, masked : BOOLEAN, cancelled : BOOLEAN, saved : SUBSET Signals,
               real : BOOLEAN, until : 0..Never, at : 0..Never]
  /\ doing \in [state : {"run", "call", "halted", "dead"}, call : Calls \cup {NoCall}]
  /\ countdown \in 0..CheckEvery
  /\ ready \in 0..Never /\ hostTimer \in 0..Never

Waits == doing.state \in {"call", "halted"}

\* The mask of pselect, ppoll and sigsuspend lasts as long as the call, however
\* it ends and however often it started over: the program goes on with its own
\* mask, and so does the handler's frame (signal.c: "the saved ucontext must
\* contain the ordinary mask").
MaskPutBack ==
  [][doing.state = "call" /\ doing'.state = "run" =>
       /\ ~wait'.masked
       /\ (IF Len(frames') > Len(frames) THEN Last(frames').mask ELSE mach'.mask) = before]_vars

\* A call that was resumed early, for a signal to ignore, a device or nothing,
\* waits until the time it first set itself; and one that a handler makes while
\* another is to be restarted has a time of its own.
DeadlineKept == TypeOK /\ (doing.state = "halted" => wait.until = due)

\* A program halts, and stays halted, with no signal it could take: one sent
\* before the call, between two of its attempts or while it is halted.  poll()
\* of no descriptors is left out: it sleeps over any signal until its time is over,
\* though blinkenlib.c says of one the host sends that it "ends the wait an instruction
\* is in, once the host resumes it".
NoSignalSleeps ==
  doing.state = "halted" /\ ~Blind(doing.call) => Deliverable(mach) = {}

\* Whichever comes first of the call's own deadline, the device's and the
\* guest's timer, the host's timer for the wait is due by then; the wall clock,
\* set while the call waits, can only make it late for a deadline on it.  In
\* poll() of no descriptors the guest's timer may be overdue: the host resumes
\* the call at once, which does not look at it.
NothingDueUnseen ==
  doing.state = "halted" =>
    /\ timer.armed => hostTimer <= timer.at \/ (Blind(doing.call) /\ hostTimer <= now)
    /\ hostTimer <= wait.at
    /\ ~wait.real => hostTimer <= wait.until
    /\ wait.real /\ ahead = Ahead => hostTimer + ahead <= wait.until

\* However late a periodic timer is looked at, and whatever periods it missed,
\* it keeps to the times it was set for.
TimerKeepsPhase == timer.armed /\ timer.every > 0 => timer.at % timer.every = phase

\* A cancelled call does not wait again, and no other call sees it cancelled.
CancelEndsOne == wait.cancelled => doing.state = "call"

WaitEnds ==
  (Waits /\ (due # Never \/ (doing.call.op \in {"read", "ppoll"} /\ ready # Never))) ~> ~Waits

TimerFires ==
  (timer.armed /\ timer.every = 0)
    ~> (~timer.armed \/ timer.every # 0 \/ doing.state = "dead"
          \/ (Waits /\ Blind(doing.call) /\ due = Never))

\* Whatever the program and the host do meanwhile, a call that has a deadline, or polls or
\* reads a device that will be ready, comes to its end, and a timer that was set goes off,
\* whether the program runs or waits (GuestWaitHaltWake, GuestTimerCheck).  Left out is a
\* timer over a poll() of no descriptors and no time, which only the host's cancelling ends.
DueComes == WaitEnds /\ TimerFires
=============================================================================
