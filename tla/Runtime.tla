------------------------------- MODULE Runtime -------------------------------
(***************************************************************************)
(* The JavaScript runtime around the wasm (blink-runtime.ts): its states,  *)
(* the builds and loads that replace its program, the tools they run in    *)
(* the same machine, the native loop that a scheduler resumes, and the     *)
(* host's timers and promises that end a wait.                             *)
(*                                                                         *)
(* JavaScript runs one callback at a time: an action is all that runs up   *)
(* to the next await or return to the event loop, the native loop it calls *)
(* included.  What an await waits for may come in any order.               *)
(*                                                                         *)
(* Halts, machines, builds and loads are numbered from 1; 0 is none.       *)
(***************************************************************************)
EXTENDS Integers, FiniteSets

CONSTANTS
  Modes,           \* of the assemblers below, those the host may select
  LongRunning,     \* whose loops may be preempted
  Switches,        \* MAX_SWITCHES
  Failing,         \* which awaits may fail
  Wakes,           \* what besides the host's calls may end a wait, see Waited()
  StepsMoving,     \* whether the host steps a program whose loop is scheduled
  MaxReplacements, \* bound: programReplacements
  MaxMachines,     \* bound: machines set up
  MaxHalts         \* bound: waits and reads that halt

Assemblers == {"module", "gas", "fasm"}  \* in a wasm of its own; in Blink with a
                                         \* linker; in Blink without
Owners == {"none", "program", "assembler", "linker"}
Awaits == {"download", "assemble", "linker", "libraries"}
Building == {"Assembling", "Linking"}
Waiting == {"ProgramReadlinePause", "ProgramWaitPause"}
Blocked == Waiting \cup {"ProgramStopped", "ProgramPaused"}
States == Building \cup Blocked
            \cup {"NotReady", "Ready", "ProgramLoaded", "ProgramRunning"}

ASSUME RuntimeAssumption ==
  /\ Modes \subseteq Assemblers /\ Modes # {}
  /\ LongRunning \subseteq Owners /\ Failing \subseteq Awaits
  /\ Wakes \subseteq {"host", "timer", "promise", "both"} /\ StepsMoving \in BOOLEAN
  /\ {Switches, MaxReplacements, MaxMachines, MaxHalts} \subseteq Nat

VARIABLES
  runtime,  \* the fields of BlinkRuntime
  machine,  \* the machine in the wasm, and whose it is
  files,    \* of which build what lies in the file system is
  tasks,    \* the builds and loads under way, and what each awaits
  pending   \* what the event loop will call back, the numbers given out, and
            \* of these (history) the ones that loads took

vars == <<runtime, machine, files, tasks, pending>>

NoFiles == [project |-> 0, object |-> 0, image |-> 0]
NoMachine == [owner |-> "none", serial |-> 0, live |-> FALSE, halt |-> 0,
              wakes |-> "host", switches |-> 0]
----------------------------------------------------------------------------
(* What a callback changes, one call after the other. *)

Now == [rt |-> runtime, m |-> machine, files |-> files, tasks |-> tasks,
        due |-> pending, threw |-> FALSE]

Set(s) ==
  /\ runtime' = s.rt /\ machine' = s.m /\ files' = s.files
  /\ tasks' = s.tasks /\ pending' = s.due

\* The state a build's waitForState() waits for.
Built(t, state) ==
  IF t.kind = "module" THEN state # "Linking" ELSE state \notin Building

\* setState(), with resolveStateWaiters().
SetState(s, state) ==
  IF s.rt.state = state
  THEN s
  ELSE [s EXCEPT !.rt.state = state,
                 !.rt.running = @ /\ state \notin Blocked,
                 !.tasks = {IF t.at = "tool" /\ Built(t, state)
                            THEN [t EXCEPT !.at = "built"] ELSE t : t \in @}]

\* Mutant: the request is forgotten, its controller and timer are not.
ClearedRequest(s) == [s EXCEPT !.rt.request = 0]

\* clearWaitTransport()
Cleared(s) ==
  [s EXCEPT !.rt.request = 0, !.rt.controller = 0, !.rt.waitTimer = 0,
            !.due.live = @ \ {s.rt.controller},
            !.due.timers = {t \in @ : t.halt # s.rt.waitTimer}]

Timer(s, kind) ==
  [kind |-> kind, halt |-> s.m.halt, generation |-> s.rt.generation]

Armed(s, kind) ==
  [s EXCEPT !.due.timers = @ \cup {Timer(s, kind)}, !.rt.waitTimer = s.m.halt]

\* takeProgram(): without an executable to read it throws.
TakeProgram(s) ==
  IF s.files.image = 0
  THEN [s EXCEPT !.threw = TRUE]
  ELSE SetState([s EXCEPT !.rt.program = s.files.image], "ProgramLoaded")

HandleAssemblerExit(s, ok) ==
  CASE ~ok \/ s.rt.assembleOnly -> SetState(s, "Ready")
    [] ok /\ ~s.rt.assembleOnly /\ s.rt.mode = "fasm" -> TakeProgram(s)
    [] OTHER -> SetState([s EXCEPT !.due.links = @ \cup {s.rt.replacements}], "Linking")

HandleLinkerExit(s, ok) == IF ok THEN TakeProgram(s) ELSE SetState(s, "Ready")

\* handleExit() goes by the state alone: whose machine ended it cannot tell.
HandleExit(s, ok) ==
  CASE s.rt.state = "Assembling" -> HandleAssemblerExit(s, ok)
    [] s.rt.state = "Linking" -> HandleLinkerExit(s, ok)
    [] OTHER -> SetState(s, "ProgramStopped")
----------------------------------------------------------------------------
(* The native loop, until it gives the thread back. *)

\* What a tool that succeeded leaves in the file system.
Written(s) ==
  CASE s.m.owner = "assembler" /\ s.rt.mode = "fasm" ->
         [s.files EXCEPT !.image = s.files.project]
    [] s.m.owner = "assembler" /\ s.rt.mode # "fasm" ->
         [s.files EXCEPT !.object = s.files.project]
    [] s.m.owner = "linker" -> [s.files EXCEPT !.image = s.files.object]
    [] OTHER -> s.files

Exited(s, ok) ==
  HandleExit([s EXCEPT !.m.live = FALSE, !.files = IF ok THEN Written(s) ELSE @], ok)

\* A linker without an object fails.
Codes(s) == IF s.m.owner = "linker" /\ s.files.object = 0 THEN {FALSE} ELSE BOOLEAN

\* handleSignal(): a signal that ends the program.
Killed(s) == SetState([s EXCEPT !.m.live = FALSE], "ProgramStopped")

\* handleSignal(BLINK_PREEMPT), or SIGXCPU after too many of them.
Preempted(s) ==
  IF s.m.switches >= Switches
  THEN Killed(s)
  ELSE [s EXCEPT !.m.switches = @ + 1, !.rt.resumeScheduled = TRUE,
                 !.due.scheduled =
                   @ \cup {[generation |-> s.rt.generation, serial |-> s.m.serial]}]

Halted(s, wakes) ==
  [s EXCEPT !.due.halts = @ + 1, !.m.halt = s.due.halts + 1, !.m.wakes = wakes]

\* handleSignal(BLINK_WAIT): what ends the wait is the host's call alone, the
\* timer of its deadline, or environment.wait() with ITIMER_REAL or without.
Waited(s, wakes) ==
  LET c == Cleared(Halted(s, wakes))
      h == c.m.halt
      r == SetState([c EXCEPT !.rt.request = h], "ProgramWaitPause")
      w == [r EXCEPT !.rt.controller = h, !.due.live = @ \cup {h},
                     !.due.promises = IF wakes \in {"promise", "both"} THEN @ \cup {h} ELSE @]
  IN IF wakes \in {"timer", "both"} THEN Armed(w, "wait") ELSE w

\* handleSignal(BLINK_FAKE_TTY), with scheduleInputTimer().
ReadHalted(s, wakes) ==
  LET r == SetState(Halted(s, wakes), "ProgramReadlinePause")
  IN IF wakes = "timer" THEN Armed(r, "input") ELSE r

\* All a call of the native loop may come to.  The tools modelled make no call that waits
\* and do not read the terminal: resumeWait() could resume one that did, and that is left
\* out.  A step that retires leaves all as it is.
Loop(before) ==
  LET s == [before EXCEPT !.m.halt = 0]
      mayHalt == s.m.owner = "program" /\ s.due.halts < MaxHalts
  IN IF ~s.m.live
     THEN {HandleExit(s, ok) : ok \in BOOLEAN}
     ELSE {Exited(s, ok) : ok \in Codes(s)}
            \cup {Killed(s)}
            \cup {Waited(s, w) : w \in IF mayHalt THEN Wakes ELSE {}}
            \cup {ReadHalted(s, w) : w \in IF mayHalt THEN Wakes \cap {"host", "timer"} ELSE {}}
            \cup {s : x \in {1} \cap IF s.rt.stepping THEN {1} ELSE {}}
            \cup {Preempted(s) : x \in IF ~s.rt.stepping /\ s.m.owner \in LongRunning
                                       THEN {1} ELSE {}}

NewMachine(s, owner) ==
  [s EXCEPT !.m = [NoMachine EXCEPT !.owner = owner, !.serial = s.due.machines + 1, !.live = TRUE],
            !.due.machines = @ + 1]

\* runTool()
RunTool(s, tool) ==
  Loop(NewMachine([Cleared(s) EXCEPT !.rt.generation = @ + 1, !.rt.sources = FALSE,
                                     !.rt.stepping = FALSE], tool))

\* startProgram('_blinkenlib_starti'), which may fail to load the program.
Starti(s) ==
  LET r == SetState([Cleared(s) EXCEPT !.rt.generation = @ + 1, !.rt.sources = TRUE,
                                       !.files = NoFiles], "ProgramRunning")
      m == NewMachine(r, "program")
  IN {SetState([m EXCEPT !.m.live = FALSE], "ProgramStopped")}
       \cup {m : x \in {s.rt.program} \ {0}}

\* continue()
Continue(s) ==
  LET r == IF s.rt.state = "ProgramPaused" THEN SetState(s, "ProgramRunning") ELSE s
  IN Loop([r EXCEPT !.rt.stepping = FALSE])

\* Mutant: the wait's transport is cleared after the program went on.
ResumeWaitFirst(s) ==
  IF s.rt.state # "ProgramWaitPause" THEN {s}
  ELSE {Cleared(r) : r \in Loop(SetState(s, "ProgramRunning"))}

\* resumeWait()
ResumeWait(s) ==
  IF s.rt.state # "ProgramWaitPause" THEN {s}
  ELSE Loop(SetState(Cleared(s), "ProgramRunning"))

\* resumeRead()
ResumeRead(s) ==
  IF s.rt.state # "ProgramReadlinePause" THEN {s}
  ELSE Loop(SetState([s EXCEPT !.due.timers = {t \in @ : t.halt # s.rt.waitTimer},
                               !.rt.waitTimer = 0], "ProgramRunning"))
----------------------------------------------------------------------------
(* Builds and loads *)

Replaces(s) == s.rt.replacements < MaxReplacements
MachineLeft(s) == s.due.machines < MaxMachines

\* Mutant: what goes on never asks whether it was superseded.
SupersededNever(s, t) == FALSE

\* throwIfSuperseded(), and loadExecutable()'s own test.
Superseded(s, t) == t.id # s.rt.replacements

Without(s, t) == {u \in s.tasks : u.id # t.id}

Ended(s, t) ==
  [s EXCEPT !.tasks = Without(s, t),
            !.rt.assembleOnly = IF t.id = s.rt.replacements THEN FALSE ELSE @]

\* Mutant: a build that failed leaves the state as it is.
FailedQuietly(s, t) == Ended(s, t)

\* buildProject()'s catch and finally
Failed(s, t) ==
  IF t.id = s.rt.replacements /\ s.rt.state \in Building
  THEN SetState(Ended(s, t), "Ready")
  ELSE Ended(s, t)

Awaiting(s, t, at) == [s EXCEPT !.tasks = Without(s, t) \cup {[t EXCEPT !.at = at]}]

\* stageX86Project(), and the wait for the host to paint
Staged(s, t) == [Awaiting(s, t, "defer") EXCEPT !.files.project = t.id]

\* The link's inputs written, and beginLinking()
LinkBegun(s, t) == SetState([Awaiting(s, t, "link") EXCEPT !.files.object = t.id], "Linking")

\* A tool run, and waitForState(): a throw out of it ends the build.
ToolRun(s, t, tool) ==
  {IF r.threw THEN Failed(r, t)
   ELSE Awaiting(r, t, IF Built(t, r.rt.state) THEN "built" ELSE "tool") : r \in RunTool(s, tool)}

\* reuseLink(): the last link's executable, without running the linker.
Reused(s, t) ==
  LET c == [Cleared(s) EXCEPT !.rt.generation = @ + 1, !.rt.sources = FALSE,
                              !.m.halt = 0, !.files.image = t.id]
  IN Ended(TakeProgram(c), t)

\* loadElf()
Loaded(s) ==
  LET c == Cleared(s)
  IN SetState([c EXCEPT !.rt.generation = @ + 1, !.rt.replacements = @ + 1,
                        !.rt.program = s.rt.replacements + 1, !.rt.resumedByInput = FALSE,
                        !.m.halt = 0], "ProgramLoaded")

\* buildProject() up to its first await; a check only assembles, and one in a
\* wasm of its own never gets here.
Compile(link) ==
  /\ Replaces(Now) /\ runtime.state \notin Building \cup {"NotReady"}
  /\ link \/ runtime.mode # "module"
  /\ \E cached \in BOOLEAN :
       LET id == runtime.replacements + 1
           t == [id |-> id, kind |-> runtime.mode,
                 at |-> IF runtime.mode = "module" THEN "assemble" ELSE "download"]
           s == SetState([Now EXCEPT !.rt.replacements = id, !.rt.program = 0,
                                     !.rt.assembleOnly = ~link, !.rt.resumedByInput = FALSE,
                                     !.files = NoFiles,
                                     !.tasks = @ \cup {t}], "Assembling")
       IN Set(IF cached /\ t.at = "download" THEN Staged(s, t) ELSE s)

\* Each of the awaits of a build, and what follows it.
Goes(t) ==
  IF Superseded(Now, t)
  THEN {Failed(Now, t)}
  ELSE CASE t.at = "download" -> {Staged(Now, t)}
         [] t.at = "assemble" ->
              {Ended(SetState(Now, "Ready"), t), Awaiting(Now, t, "linker"), LinkBegun(Now, t)}
         [] t.at = "linker" -> {LinkBegun(Now, t)}
         [] t.at = "defer" -> ToolRun(Now, t, "assembler")
         [] t.at = "link" ->
              {Reused(Now, t) : x \in {TRUE} \cap {runtime.lastLink}} \cup ToolRun(Now, t, "linker")
         [] t.at = "built" ->
              {[Ended(Now, t) EXCEPT !.rt.lastLink =
                  @ \/ (t.kind = "module" /\ runtime.state = "ProgramLoaded")]}
         [] OTHER -> {}

BuildGoesOn(t) ==
  /\ t.kind # "load"
  /\ t.at \in {"defer", "link"} => MachineLeft(Now)
  /\ \E s \in Goes(t) : Set(s)

BuildFails(t) ==
  /\ t.kind # "load" /\ t.at \in Failing
  /\ Set(Failed(Now, t))

LoadElf == Replaces(Now) /\ Set(Loaded(Now))

\* loadExecutable() up to its libraries: checks passed, and a number taken.
LoadExecutable ==
  /\ Replaces(Now)
  /\ Set([Now EXCEPT !.rt.replacements = @ + 1,
                     !.due.loads = @ \cup {runtime.replacements + 1},
                     !.tasks = @ \cup {[id |-> runtime.replacements + 1, kind |-> "load",
                                        at |-> "libraries"]}])

\* The libraries are there; waiting for onProgress after them is the same again.
LoadGoesOn(t) ==
  /\ t.kind = "load"
  /\ Superseded(Now, t) \/ Replaces(Now)
  /\ LET s == [Now EXCEPT !.tasks = Without(Now, t)]
     IN Set(IF Superseded(Now, t) THEN s ELSE Loaded(s))

LoadFails(t) ==
  /\ t.kind = "load" /\ "libraries" \in Failing
  /\ Set([Now EXCEPT !.tasks = Without(Now, t)])
----------------------------------------------------------------------------
(* The host's calls (x86-emulator.ts).  It awaits a run before it starts     *)
(* another or steps.                                                         *)

Moving == \E c \in pending.scheduled : c.generation = runtime.generation

\* endedAfterInput(): a step or a run begins when the loop that input resumed
\* has settled, and only reports an end it came to.
Settled ==
  /\ ~runtime.running
  /\ ~(runtime.resumedByInput /\ runtime.state = "ProgramRunning" /\ runtime.resumeScheduled)
EndedAfterInput == runtime.resumedByInput /\ runtime.state = "ProgramStopped"
Reported == Set([Now EXCEPT !.rt.resumedByInput = FALSE])

\* pauseAtEntry(), as a look at the first instruction does it
Inspect ==
  /\ runtime.state = "ProgramLoaded" /\ MachineLeft(Now)
  /\ \E s \in Starti(Now) :
       Set(IF s.rt.state = "ProgramRunning" THEN SetState(s, "ProgramPaused") ELSE s)

Fresh == runtime.state \in {"ProgramLoaded", "ProgramStopped"}

\* Where step() and runUntilBlocked() begin: afresh, or where the program is.
Begun(s) ==
  LET r == [s EXCEPT !.rt.resumedByInput = FALSE]
  IN IF Fresh THEN Starti(r) ELSE {r}

\* step(), after prepareOneInstructionRun()
Step ==
  /\ Settled /\ (StepsMoving \/ ~Moving)
  /\ runtime.state \in {"ProgramLoaded", "ProgramStopped", "ProgramPaused", "ProgramRunning"}
  /\ \/ EndedAfterInput /\ Reported
     \/ /\ ~EndedAfterInput /\ (Fresh => MachineLeft(Now))
        /\ \E s \in Begun(Now) :
             LET r == IF s.rt.state = "ProgramPaused" THEN SetState(s, "ProgramRunning") ELSE s
             IN IF r.rt.state = "ProgramRunning"
                THEN \E l \in Loop([r EXCEPT !.rt.stepping = TRUE]) : Set(l)
                ELSE Set(r)

\* runUntilBlocked() up to the promise it returns, settled or not
RunUntilBlocked ==
  /\ Settled
  /\ \/ EndedAfterInput /\ Reported
     \/ /\ ~EndedAfterInput /\ (Fresh => MachineLeft(Now))
        /\ \E s \in Begun(Now) :
           \E r \in IF Fresh /\ s.rt.state = "ProgramRunning" THEN Continue(s) ELSE {s} :
           \E c \in IF \/ r.rt.state = "ProgramPaused"
                       \/ r.rt.state = "ProgramRunning" /\ ~r.rt.resumeScheduled
                    THEN Continue(r) ELSE {r} :
             Set([c EXCEPT !.rt.running = c.rt.state = "ProgramRunning"])

\* resumeWait(), cancelWait(), and provideInput(), sendSignal() and
\* sendInputReport() when they end the wait.
Wake ==
  /\ runtime.state \in Waiting
  /\ \E s \in IF runtime.state = "ProgramWaitPause" THEN ResumeWait(Now) ELSE ResumeRead(Now) :
       Set([s EXCEPT !.rt.resumedByInput = TRUE])

\* setMode()
SetMode(mode) ==
  /\ runtime.state \notin Building
  /\ Set(SetState(SetState([Now EXCEPT !.rt.mode = mode, !.rt.resumedByInput = FALSE],
                        "NotReady"), "Ready"))

\* clearExecution(), and dispose()
ClearExecution(disposed) ==
  /\ Replaces(Now)
  /\ runtime.state \notin Building
  /\ machine.halt = 0 \/ runtime.state \in Waiting
  /\ LET s == [Cleared(Now) EXCEPT !.rt.generation = @ + 1, !.rt.replacements = @ + 1,
                                   !.rt.resumeScheduled = FALSE, !.rt.sources = FALSE,
                                   !.rt.resumedByInput = FALSE, !.rt.program = 0, !.m = NoMachine, !.files = NoFiles]
         r == SetState(s, "Ready")
     IN Set(IF disposed THEN SetState(r, "ProgramStopped") ELSE r)
----------------------------------------------------------------------------
(* What the event loop calls. *)

\* The scheduler resumes a preempted loop.
Scheduled(c) ==
  LET s == [Now EXCEPT !.due.scheduled = @ \ {c}]
  IN \E r \in IF c.generation # runtime.generation THEN {s}
              ELSE Loop([s EXCEPT !.rt.resumeScheduled = FALSE]) : Set(r)

\* The link that follows an assembler in Blink
LinkStarts(id) ==
  /\ MachineLeft(Now)
  /\ LET s == [Now EXCEPT !.due.links = @ \ {id}]
     IN \E r \in IF id = runtime.replacements THEN RunTool(s, "linker") ELSE {s} : Set(r)

TimerFires(t) ==
  LET s == [Now EXCEPT !.due.timers = @ \ {t}]
      input == [s EXCEPT !.rt.waitTimer = 0]
  IN \E r \in CASE t.kind = "wait" ->
                     IF t.halt \in pending.live THEN ResumeWait(s) ELSE {s}
                [] t.kind = "input" ->
                     IF \/ t.generation # runtime.generation
                        \/ runtime.state # "ProgramReadlinePause"
                     THEN {input}
                     ELSE Loop(SetState(input, "ProgramRunning")) : Set(r)

\* environment.wait() settles: well, or as a cancellation.
PromiseSettles(h) ==
  LET s == [Now EXCEPT !.due.promises = @ \ {h}]
  IN \E r \in IF h \in pending.live THEN ResumeWait(s) ELSE {s} : Set(r)
----------------------------------------------------------------------------
Init ==
  /\ \E mode \in Modes :
       runtime = [state |-> "Ready", mode |-> mode, program |-> 0, generation |-> 0,
                  replacements |-> 0, sources |-> FALSE, resumeScheduled |-> FALSE,
                  stepping |-> FALSE, assembleOnly |-> FALSE, lastLink |-> FALSE,
                  running |-> FALSE, resumedByInput |-> FALSE, request |-> 0,
                  controller |-> 0, waitTimer |-> 0]
  /\ machine = NoMachine /\ files = NoFiles /\ tasks = {}
  /\ pending = [scheduled |-> {}, links |-> {}, timers |-> {}, promises |-> {}, live |-> {},
                halts |-> 0, machines |-> 0, loads |-> {}]

Awaited ==
  \/ \E t \in tasks : BuildGoesOn(t) \/ LoadGoesOn(t) \/ BuildFails(t) \/ LoadFails(t)
  \/ \E c \in pending.scheduled : Scheduled(c)
  \/ \E id \in pending.links : LinkStarts(id)
  \/ \E t \in pending.timers : TimerFires(t)
  \/ \E h \in pending.promises : PromiseSettles(h)

Called ==
  \/ \E link \in BOOLEAN : Compile(link)
  \/ LoadElf \/ LoadExecutable
  \/ Inspect \/ Step \/ RunUntilBlocked \/ Wake
  \/ \E mode \in Modes : SetMode(mode)
  \/ \E disposed \in BOOLEAN : ClearExecution(disposed)

Next == Awaited \/ Called

Spec == Init /\ [][Next]_vars

\* What is awaited comes.  The host need call nothing.
FairSpec == Spec /\ WF_vars(Awaited)
----------------------------------------------------------------------------
\* The fields have their types; what is numbered is at most what was begun.
TypeOK ==
  /\ runtime.state \in States \ {"NotReady"} /\ runtime.mode \in Modes
  /\ runtime.program \in 0..runtime.replacements /\ runtime.replacements \in 0..MaxReplacements
  /\ {runtime.request, runtime.controller, runtime.waitTimer, machine.halt} \subseteq 0..pending.halts
  /\ machine.owner \in Owners /\ machine.serial \in 0..pending.machines
  /\ files \in [project : 0..runtime.replacements, object : 0..runtime.replacements,
                image : 0..runtime.replacements]
  /\ \A t \in tasks : t.id \in 1..runtime.replacements
  /\ \A c \in pending.scheduled : c.generation <= runtime.generation

\* The program the runtime holds changes only to none or to what the newest
\* build or load made: nothing an earlier one finishes takes its place, a load
\* apart that has come no further than its libraries; and all a superseded one
\* still does is end: the state, the machine and the files the newer one works
\* with stay as they are (throwIfSuperseded(), takeProgram(), loadExecutable()).
LatestOnly ==
  [][runtime'.program # runtime.program =>
       \/ runtime'.program = 0
       \/ runtime'.program + 1..runtime'.replacements \subseteq pending'.loads]_vars

SupersededQuiet ==
  [][\A t \in tasks :
       \/ t.id = runtime.replacements
       \/ \E u \in tasks' : u.id = t.id /\ u.at \in {t.at, "built"}
       \/ UNCHANGED <<runtime, machine, files>>]_vars
NewestWins == LatestOnly /\ SupersededQuiet

\* A timer or promise that may still resume a halt was made for it.
OwnWake ==
  /\ \A h \in pending.live : h = machine.halt
  /\ \A t \in pending.timers :
       t.kind = "input" /\ t.generation = runtime.generation => t.halt = machine.halt

\* A callback that may still resume a loop was scheduled for it.
OwnLoop ==
  \A c \in pending.scheduled :
    c.generation = runtime.generation => c.serial = machine.serial

\* What is still to call back resumes what it was made for: a timer or a promise the
\* halt it belongs to, a scheduled callback the loop that was preempted, and neither
\* the tool or program started since (the abort signals and generations they compare).
OwnCallbacks == TypeOK /\ OwnWake /\ OwnLoop

\* While the program waits for something the host's timer or promise ends, that
\* timer or promise is there.
NoLostWake ==
  runtime.state \in Waiting /\ machine.halt # 0 =>
    /\ machine.wakes \in {"timer", "both"} => \E t \in pending.timers : t.halt = machine.halt
    /\ machine.wakes \in {"promise", "both"} =>
         machine.halt \in pending.promises \cap pending.live

\* While the runtime says that it builds, which refuses every other build, the
\* newest build is under way, unless a load has taken the newest number.
SomeoneFinishes ==
  runtime.state \in Building =>
    \/ \E t \in tasks : t.id = runtime.replacements
    \/ runtime.replacements \in pending.loads

\* Two loops never drive a machine at once: one that halted, which the host may
\* look at and resume, has none scheduled besides (endedAfterInput()).
OneDriver == Moving => machine.halt = 0

\* The runtime does not stay in a build for ever: the next one can start.
NextBuildCanStart == runtime.state \in Building ~> runtime.state \notin Building
=============================================================================
