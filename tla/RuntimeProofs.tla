---------------------------- MODULE RuntimeProofs ----------------------------
(***************************************************************************)
(* What Runtime keeps for assemblers, failures, wake-ups and bounds of any *)
(* kind: nothing a superseded build or load does reaches what replaced it, *)
(* a runtime that builds has a build to wait for, every callback is for    *)
(* what it was made for, and no wake-up is lost.                           *)
(*                                                                         *)
(* An operator of Runtime takes the whole state as one record to another.  *)
(* The invariant has two parts, and so has each lemma: what the builds are *)
(* (BuildsSound), and what is still to call back (CallsSound).             *)
(***************************************************************************)
EXTENDS Runtime, TLAPS

-----------------------------------------------------------------------------
(* Types. *)

Fields == [state : States, mode : Modes, program : Nat, generation : Nat, replacements : Nat,
           sources : BOOLEAN, resumeScheduled : BOOLEAN, stepping : BOOLEAN,
           assembleOnly : BOOLEAN, lastLink : BOOLEAN, running : BOOLEAN,
           resumedByInput : BOOLEAN, request : Nat, controller : Nat, waitTimer : Nat]
Machines == [owner : Owners, serial : Nat, live : BOOLEAN, halt : Nat,
             wakes : {"host", "timer", "promise", "both"}, switches : Nat]
Numbered == [project : Nat, object : Nat, image : Nat]
Places == Awaits \cup {"defer", "link", "tool", "built"}
Tasks == [id : Nat, kind : Assemblers \cup {"load"}, at : Places]
Callbacks == [generation : Nat, serial : Nat]
Timers == [kind : {"wait", "input"}, halt : Nat, generation : Nat]
Dues == [scheduled : SUBSET Callbacks, links : SUBSET Nat, timers : SUBSET Timers,
         promises : SUBSET Nat, live : SUBSET Nat, halts : Nat, machines : Nat,
         loads : SUBSET Nat]
All == [rt : Fields, m : Machines, files : Numbered, tasks : SUBSET Tasks, due : Dues,
        threw : BOOLEAN]

-----------------------------------------------------------------------------
(* The builds and loads. *)

\* What has this number is of the newest build, with only loads begun after it.
Latest(s, n) == n = 0 \/ n + 1 .. s.rt.replacements \subseteq s.due.loads
FilesLatest(s) ==
  Latest(s, s.files.project) /\ Latest(s, s.files.object) /\ Latest(s, s.files.image)

NewestBuild(s, t) == t \in s.tasks /\ t.id = s.rt.replacements /\ t.kind # "load"
Someone(s) == (\E t \in s.tasks : t.id = s.rt.replacements) \/ s.rt.replacements \in s.due.loads

\* Each has a number of its own, and the files are of the newest build while it is under way.
TasksSound(s) ==
  /\ s.rt.program <= s.rt.replacements /\ s.rt.replacements <= MaxReplacements
  /\ s.files.project <= s.rt.replacements /\ s.files.object <= s.rt.replacements
  /\ s.files.image <= s.rt.replacements
  /\ \A t \in s.tasks : /\ t.id >= 1 /\ t.id <= s.rt.replacements
                        /\ t.kind = "load" => t.id \in s.due.loads
                        /\ t.kind = "module" => t.at \notin {"download", "defer"}
                        /\ NewestBuild(s, t) => FilesLatest(s)
  /\ \A t, u \in s.tasks : t.id = u.id => t = u

\* A state that says that it builds has someone to end it, and the newest build's files.
StateFits(s, state) ==
  /\ state # "NotReady"
  /\ state \in Building => Someone(s) /\ FilesLatest(s)
  /\ \A t \in s.tasks : NewestBuild(s, t) =>
       /\ t.at = "built" => state \notin Building
       /\ t.kind = "module" /\ t.at \in {"link", "tool", "built"} => state # "Assembling"

BuildsSound(s) == TasksSound(s) /\ StateFits(s, s.rt.state)

\* What a step does to the builds that it does not end, and to the program.
Kept(c, t) == \E u \in c.tasks : u.id = t.id /\ u.kind = t.kind /\ u.at \in {t.at, "built"}
NewestOnly(s, c) ==
  /\ c.rt.replacements = s.rt.replacements /\ c.due.loads = s.due.loads
  /\ c.rt.program = s.rt.program \/ c.rt.program = 0 \/ Latest(s, c.rt.program)
Keeps(s, c) ==
  /\ NewestOnly(s, c) /\ \A t \in s.tasks : Kept(c, t)
  /\ c.rt.state = "Assembling" => s.rt.state = "Assembling"
KeepsBut(s, c, id) == NewestOnly(s, c) /\ \A t \in s.tasks : t.id = id \/ Kept(c, t)

-----------------------------------------------------------------------------
(* What is still to call back. *)

Counted(s) ==
  /\ s.rt.request <= s.due.halts /\ s.rt.controller <= s.due.halts
  /\ s.rt.waitTimer <= s.due.halts /\ s.m.halt <= s.due.halts
  /\ s.m.serial <= s.due.machines
  /\ \A c \in s.due.scheduled : c.generation <= s.rt.generation

OwnLoops(s) == \A c \in s.due.scheduled : c.generation = s.rt.generation => c.serial = s.m.serial
MovingIn(s) == \E c \in s.due.scheduled : c.generation = s.rt.generation

\* A loop that is scheduled has not halted.
MovesSound(s) ==
  MovingIn(s) => /\ s.rt.resumeScheduled /\ s.m.halt = 0
                 /\ s.m.owner = "program" => s.rt.state \notin Waiting \cup {"ProgramPaused"}

\* What can end the halt: a controller that is not aborted, and a timer.
LiveSound(s) ==
  s.due.live # {} =>
    /\ s.due.live = {s.m.halt} /\ s.m.halt # 0 /\ s.rt.controller = s.m.halt
    /\ s.rt.state \notin {"ProgramRunning", "ProgramPaused", "ProgramReadlinePause"}
TimerSound(s, t) ==
  /\ t = [kind |-> IF s.due.live = {} THEN "input" ELSE "wait", halt |-> s.m.halt,
          generation |-> s.rt.generation]
  /\ s.m.halt # 0 /\ s.rt.waitTimer = s.m.halt
  /\ s.rt.state \notin {"ProgramRunning", "ProgramPaused"}

\* What the program waits for is there.
WaitSound(s) ==
  /\ s.rt.state = "ProgramWaitPause" =>
       /\ s.due.live = {s.m.halt}
       /\ s.m.wakes \in {"timer", "both"} => s.due.timers # {}
       /\ s.m.wakes \in {"promise", "both"} => s.m.halt \in s.due.promises
  /\ s.rt.state = "ProgramReadlinePause" =>
       /\ s.m.wakes \in {"host", "timer"}
       /\ s.m.wakes = "timer" => s.due.timers # {}

CallsSound(s) ==
  /\ OwnLoops(s) /\ MovesSound(s) /\ LiveSound(s)
  /\ \A t \in s.due.timers : TimerSound(s, t)
  /\ s.m.halt # 0 => WaitSound(s)

Sound(s) == s \in All /\ BuildsSound(s) /\ Counted(s)
BInv == Sound(Now)
CInv == CallsSound(Now)

-----------------------------------------------------------------------------
(* Frames. *)

SameBuilds(s, c) ==
  /\ c.rt.state = s.rt.state /\ c.rt.replacements = s.rt.replacements
  /\ c.rt.program = s.rt.program /\ c.files = s.files /\ c.tasks = s.tasks
  /\ c.due.loads = s.due.loads
SameMachine(s, c) ==
  c.m.owner = s.m.owner /\ c.m.serial = s.m.serial /\ c.m.halt = s.m.halt /\ c.m.wakes = s.m.wakes
SameDue(s, c) ==
  /\ c.due.scheduled = s.due.scheduled /\ c.due.timers = s.due.timers
  /\ c.due.promises = s.due.promises /\ c.due.live = s.due.live
  /\ c.due.halts = s.due.halts /\ c.due.machines = s.due.machines
SameCalls(s, c) ==
  /\ SameMachine(s, c) /\ SameDue(s, c)
  /\ c.rt.generation = s.rt.generation /\ c.rt.resumeScheduled = s.rt.resumeScheduled
  /\ c.rt.request = s.rt.request /\ c.rt.controller = s.rt.controller
  /\ c.rt.waitTimer = s.rt.waitTimer

LEMMA SameBuildsKeep ==
  ASSUME NEW s, NEW c, SameBuilds(s, c)
  PROVE  /\ BuildsSound(s) => BuildsSound(c) /\ Keeps(s, c)
         /\ TasksSound(s) => TasksSound(c)
         /\ FilesLatest(s) => FilesLatest(c)
<1>1. \A n : Latest(c, n) = Latest(s, n)
  BY DEF SameBuilds, Latest
<1>2. FilesLatest(c) = FilesLatest(s) /\ Someone(c) = Someone(s)
  BY <1>1 DEF SameBuilds, FilesLatest, Someone
<1>3. \A t : NewestBuild(c, t) = NewestBuild(s, t)
  BY DEF SameBuilds, NewestBuild
<1>4. TasksSound(s) => TasksSound(c)
  BY <1>2, <1>3 DEF SameBuilds, TasksSound
<1>5. StateFits(s, s.rt.state) => StateFits(c, c.rt.state)
  BY <1>2, <1>3 DEF SameBuilds, StateFits
<1>6. Keeps(s, c)
  BY DEF SameBuilds, Keeps, NewestOnly, Kept
<1> QED  BY <1>2, <1>4, <1>5, <1>6 DEF BuildsSound

LEMMA KeptOn ==
  ASSUME NEW c, NEW d, NEW t, Kept(c, t), \A u \in c.tasks : u.id = t.id => Kept(d, u)
  PROVE  Kept(d, t)
<1>1. PICK v \in c.tasks : v.id = t.id /\ v.kind = t.kind /\ v.at \in {t.at, "built"}
  BY DEF Kept
<1>2. PICK u \in d.tasks : u.id = v.id /\ u.kind = v.kind /\ u.at \in {v.at, "built"}
  BY <1>1 DEF Kept
<1> QED  BY <1>1, <1>2 DEF Kept

LEMMA KeepsOn ==
  ASSUME NEW s, NEW c, NEW d, Keeps(s, c), Keeps(c, d)
  PROVE  Keeps(s, d)
<1>1. \A n : Latest(c, n) = Latest(s, n)
  BY DEF Keeps, NewestOnly, Latest
<1>2. \A t \in s.tasks : Kept(d, t)
  BY KeptOn DEF Keeps
<1> QED  BY <1>1, <1>2 DEF Keeps, NewestOnly

LEMMA KeepsButOn ==
  ASSUME NEW s, NEW c, NEW d, NEW id, KeepsBut(s, c, id), KeepsBut(c, d, id)
  PROVE  KeepsBut(s, d, id)
<1>1. \A n : Latest(c, n) = Latest(s, n)
  BY DEF KeepsBut, NewestOnly, Latest
<1>2. ASSUME NEW t \in s.tasks, t.id # id PROVE Kept(d, t)
  BY <1>2, KeptOn DEF KeepsBut
<1> QED  BY <1>1, <1>2 DEF KeepsBut, NewestOnly

LEMMA KeepsAllBut ==
  ASSUME NEW s, NEW c, NEW id, Keeps(s, c)
  PROVE  KeepsBut(s, c, id)
BY DEF Keeps, KeepsBut

LEMMA SameCallsCount ==
  ASSUME NEW s, NEW c, SameCalls(s, c), Counted(s)
  PROVE  Counted(c)
BY DEF SameCalls, SameMachine, SameDue, Counted

\* The state may come to rest while the rest stays.
Rests(state) == state \notin Waiting \cup {"ProgramRunning", "ProgramPaused"}
LEMMA SameCallsRest ==
  ASSUME NEW s, NEW c, SameCalls(s, c), CallsSound(s), c.rt.state = s.rt.state \/ Rests(c.rt.state)
  PROVE  CallsSound(c)
<1>1. /\ c.m.owner = s.m.owner /\ c.m.serial = s.m.serial /\ c.m.halt = s.m.halt /\ c.m.wakes = s.m.wakes
      /\ c.due.scheduled = s.due.scheduled /\ c.due.timers = s.due.timers
      /\ c.due.promises = s.due.promises /\ c.due.live = s.due.live
      /\ c.rt.generation = s.rt.generation /\ c.rt.resumeScheduled = s.rt.resumeScheduled
      /\ c.rt.controller = s.rt.controller /\ c.rt.waitTimer = s.rt.waitTimer
  BY DEF SameCalls, SameMachine, SameDue
<1>2. OwnLoops(c) /\ MovesSound(c)
  BY <1>1 DEF CallsSound, OwnLoops, MovesSound, MovingIn, Rests
<1>3. LiveSound(c)
  BY <1>1 DEF CallsSound, LiveSound, Rests, Waiting
<1>4. \A t \in c.due.timers : TimerSound(c, t)
  BY <1>1 DEF CallsSound, TimerSound, Rests, Waiting
<1>5. c.m.halt # 0 => WaitSound(c)
  BY <1>1 DEF CallsSound, WaitSound, Rests, Waiting
<1> QED  BY <1>2, <1>3, <1>4, <1>5 DEF CallsSound

\* setState(): tools' builds that it ends are built.
LEMMA SetStateIs ==
  ASSUME NEW s \in All, NEW state \in States, NEW c, c = SetState(s, state)
  PROVE  /\ c \in All /\ c.rt.state = state /\ SameCalls(s, c) /\ c.due = s.due /\ c.m = s.m
         /\ c.files = s.files /\ c.threw = s.threw
         /\ c.rt.replacements = s.rt.replacements /\ c.rt.program = s.rt.program
         /\ c.rt.mode = s.rt.mode /\ c.rt.stepping = s.rt.stepping
         /\ c.rt.resumedByInput = s.rt.resumedByInput
         /\ \A t \in s.tasks : Kept(c, t)
         /\ TasksSound(s) => TasksSound(c)
         /\ TasksSound(s) /\ StateFits(s, state) => BuildsSound(c)
         /\ state # "Assembling" \/ s.rt.state = "Assembling" => Keeps(s, c)
<1> DEFINE Become(t) == IF t.at = "tool" /\ Built(t, state) THEN [t EXCEPT !.at = "built"] ELSE t
           running == s.rt.running /\ state \notin Blocked
           rt == [s.rt EXCEPT !.state = state, !.running = running]
           ts == {Become(t) : t \in s.tasks}
<1>1. CASE s.rt.state = state
  <2>1. c = s
    BY <1>1 DEF SetState
  <2> QED  BY <1>1, <2>1 DEF SameCalls, SameMachine, SameDue, Keeps, NewestOnly, Kept, BuildsSound
<1>2. CASE s.rt.state # state
  <2>1. c = [s EXCEPT !.rt = rt, !.tasks = ts]
    <3>1. c = [s EXCEPT !.rt.state = state, !.rt.running = @ /\ state \notin Blocked,
                        !.tasks = {IF t.at = "tool" /\ Built(t, state)
                                   THEN [t EXCEPT !.at = "built"] ELSE t : t \in @}]
      BY <1>2 DEF SetState
    <3> QED  BY <3>1
  <2>2. /\ rt \in Fields /\ rt.state = state /\ rt.replacements = s.rt.replacements
        /\ rt.program = s.rt.program /\ rt.mode = s.rt.mode /\ rt.stepping = s.rt.stepping
        /\ rt.resumedByInput = s.rt.resumedByInput /\ rt.generation = s.rt.generation
        /\ rt.resumeScheduled = s.rt.resumeScheduled /\ rt.request = s.rt.request
        /\ rt.controller = s.rt.controller /\ rt.waitTimer = s.rt.waitTimer
    <3>1. running \in BOOLEAN
      OBVIOUS
    <3> HIDE DEF running
    <3> QED  BY <3>1 DEF All, Fields
  <2>3. \A t \in s.tasks : /\ t \in Tasks /\ Become(t) \in Tasks
                           /\ Become(t).id = t.id /\ Become(t).kind = t.kind
                           /\ Become(t).at = IF t.at = "tool" /\ Built(t, state) THEN "built" ELSE t.at
    BY DEF All, Tasks, Places
  <2> HIDE DEF rt
  <2>4. ts \in SUBSET Tasks
    BY <2>3
  <2>5. \A u \in ts : \E t \in s.tasks : u = Become(t)
    OBVIOUS
  <2>6. \A t \in s.tasks : Become(t) \in ts
    OBVIOUS
  <2> HIDE DEF ts
  <2>7. /\ c \in All /\ c.rt = rt /\ c.tasks = ts /\ c.due = s.due /\ c.m = s.m
        /\ c.files = s.files /\ c.threw = s.threw
    BY <2>1, <2>2, <2>4 DEF All
  <2>8. SameCalls(s, c)
    BY <2>2, <2>7 DEF SameCalls, SameMachine, SameDue
  <2>9. /\ \A n : Latest(c, n) = Latest(s, n)
        /\ FilesLatest(c) = FilesLatest(s)
    BY <2>2, <2>7 DEF Latest, FilesLatest
  <2>10. ASSUME NEW t \in s.tasks
         PROVE  \E u \in c.tasks : /\ u = Become(t) /\ u.id = t.id
                                    /\ NewestBuild(c, u) = NewestBuild(s, t)
    <3>1. PICK u \in c.tasks : u = Become(t) /\ u.id = t.id /\ u.kind = t.kind
      BY <2>3, <2>6, <2>7
    <3> QED  BY <2>2, <2>7, <3>1 DEF NewestBuild
  <2>11. TasksSound(s) => TasksSound(c)
    <3> SUFFICES ASSUME TasksSound(s) PROVE TasksSound(c)
      OBVIOUS
    <3>1. ASSUME NEW u \in c.tasks
          PROVE  /\ u.id >= 1 /\ u.id <= c.rt.replacements
                 /\ u.kind = "load" => u.id \in c.due.loads
                 /\ u.kind = "module" => u.at \notin {"download", "defer"}
                 /\ NewestBuild(c, u) => FilesLatest(c)
      <4>1. PICK t \in s.tasks : u = Become(t)
        BY <2>5, <2>7
      <4>2. u.id = t.id /\ u.kind = t.kind /\ u.at \in {t.at, "built"}
        BY <2>3, <4>1
      <4> HIDE DEF Become
      <4> QED  BY <2>2, <2>7, <2>9, <2>10, <4>1, <4>2 DEF TasksSound
    <3>2. ASSUME NEW u \in c.tasks, NEW v \in c.tasks, u.id = v.id PROVE u = v
      <4>1. PICK t \in s.tasks : u = Become(t)
        BY <2>5, <2>7
      <4>2. PICK r \in s.tasks : v = Become(r)
        BY <2>5, <2>7
      <4>3. t.id = r.id
        BY <2>3, <3>2, <4>1, <4>2
      <4> HIDE DEF Become
      <4> QED  BY <4>1, <4>2, <4>3 DEF TasksSound
    <3> QED  BY <2>2, <2>7, <3>1, <3>2 DEF TasksSound
  <2>12. TasksSound(s) /\ StateFits(s, state) => BuildsSound(c)
    <3> SUFFICES ASSUME TasksSound(s), StateFits(s, state) PROVE StateFits(c, state)
      BY <2>2, <2>7, <2>11 DEF BuildsSound
    <3>1. Someone(s) => Someone(c)
      <4>1. ASSUME NEW t \in s.tasks, t.id = s.rt.replacements PROVE Someone(c)
        BY <2>2, <2>7, <2>10, <4>1 DEF Someone
      <4> QED  BY <2>2, <2>7, <4>1 DEF Someone
    <3>2. ASSUME NEW u \in c.tasks, NewestBuild(c, u)
          PROVE  /\ u.at = "built" => state \notin Building
                 /\ u.kind = "module" /\ u.at \in {"link", "tool", "built"} => state # "Assembling"
      <4>1. PICK t \in s.tasks : u = Become(t)
        BY <2>5, <2>7
      <4>2. NewestBuild(s, t)
        BY <2>10, <3>2, <4>1
      <4>3. /\ u.kind = t.kind
            /\ u.at = IF t.at = "tool" /\ Built(t, state) THEN "built" ELSE t.at
        BY <2>3, <4>1
      <4>4. /\ t.at = "built" => state \notin Building
            /\ t.kind = "module" /\ t.at \in {"link", "tool", "built"} => state # "Assembling"
        BY <4>2 DEF StateFits
      <4> QED  BY <4>3, <4>4 DEF Built, Building
    <3> QED  BY <2>9, <3>1, <3>2 DEF StateFits
  <2>13. \A t \in s.tasks : Kept(c, t)
    BY <2>3, <2>6, <2>7 DEF Kept
  <2>14. state # "Assembling" => Keeps(s, c)
    BY <2>2, <2>7, <2>13 DEF Keeps, NewestOnly
  <2> QED  BY <1>2, <2>2, <2>7, <2>8, <2>11, <2>12, <2>13, <2>14
<1> QED  BY <1>1, <1>2

\* clearWaitTransport(): nothing is left that could end the wait.
Quiet(s) == s.due.live = {} /\ s.due.timers = {}
Endable(s) == LiveSound(s) /\ \A t \in s.due.timers : TimerSound(s, t)
LEMMA ClearedIs ==
  ASSUME NEW s \in All, NEW c, c = Cleared(s)
  PROVE  /\ c \in All /\ SameBuilds(s, c) /\ SameMachine(s, c) /\ c.m = s.m
         /\ c.rt.generation = s.rt.generation /\ c.rt.resumeScheduled = s.rt.resumeScheduled
         /\ c.rt.mode = s.rt.mode /\ c.threw = s.threw
         /\ c.due.scheduled = s.due.scheduled /\ c.due.promises = s.due.promises
         /\ c.due.halts = s.due.halts /\ c.due.machines = s.due.machines
         /\ c.rt.request = 0 /\ c.rt.controller = 0 /\ c.rt.waitTimer = 0
         /\ Counted(s) => Counted(c)
         /\ CallsSound(s) \/ Quiet(s) \/ Endable(s) => Quiet(c)
<1> DEFINE rt == [s.rt EXCEPT !.request = 0, !.controller = 0, !.waitTimer = 0]
           live == s.due.live \ {s.rt.controller}
           timers == {t \in s.due.timers : t.halt # s.rt.waitTimer}
           due == [s.due EXCEPT !.live = live, !.timers = timers]
<1>1. c = [s EXCEPT !.rt = rt, !.due = due]
  BY DEF Cleared
<1>2. /\ rt \in Fields /\ rt.state = s.rt.state /\ rt.replacements = s.rt.replacements
      /\ rt.program = s.rt.program /\ rt.mode = s.rt.mode /\ rt.generation = s.rt.generation
      /\ rt.resumeScheduled = s.rt.resumeScheduled
      /\ rt.request = 0 /\ rt.controller = 0 /\ rt.waitTimer = 0
  BY DEF All, Fields
<1>3. live \in SUBSET Nat /\ timers \in SUBSET Timers
  BY DEF All, Dues
<1>4. CallsSound(s) \/ Quiet(s) \/ Endable(s) => live = {} /\ timers = {}
  BY DEF CallsSound, Endable, LiveSound, TimerSound, Quiet
<1> HIDE DEF rt, live, timers
<1>5. /\ due \in Dues /\ due.live = live /\ due.timers = timers /\ due.loads = s.due.loads
      /\ due.scheduled = s.due.scheduled /\ due.promises = s.due.promises
      /\ due.halts = s.due.halts /\ due.machines = s.due.machines
  BY <1>3 DEF All, Dues
<1> HIDE DEF due
<1>6. /\ c \in All /\ c.rt = rt /\ c.due = due /\ c.m = s.m /\ c.files = s.files
      /\ c.tasks = s.tasks /\ c.threw = s.threw
  BY <1>1, <1>2, <1>5 DEF All
<1>7. Counted(s) => Counted(c)
  BY <1>2, <1>5, <1>6 DEF Counted, All, Dues
<1> QED  BY <1>2, <1>4, <1>5, <1>6, <1>7 DEF SameBuilds, SameMachine, Quiet

\* takeProgram(): the newest build's, when the runtime says that it builds.
LEMMA TakeProgramIs ==
  ASSUME NEW s \in All, NEW c, c = TakeProgram(s)
  PROVE  /\ c \in All /\ SameCalls(s, c) /\ c.due = s.due /\ c.m = s.m
         /\ c.rt.state = s.rt.state \/ c.rt.state = "ProgramLoaded"
         /\ s.files.image # 0 => c.rt.state = "ProgramLoaded" /\ c.threw = s.threw
         /\ BuildsSound(s) => BuildsSound(c)
         /\ TasksSound(s) /\ s.files.image # 0 => BuildsSound(c)
         /\ FilesLatest(s) => Keeps(s, c)
         /\ c.rt.replacements = s.rt.replacements
<1>1. CASE s.files.image = 0
  <2>1. c = [s EXCEPT !.threw = TRUE]
    BY <1>1 DEF TakeProgram
  <2>2. c \in All /\ c.rt = s.rt /\ c.m = s.m /\ c.files = s.files /\ c.tasks = s.tasks /\ c.due = s.due
    BY <2>1 DEF All
  <2>3. SameBuilds(s, c) /\ SameCalls(s, c)
    BY <2>2 DEF SameBuilds, SameCalls, SameMachine, SameDue
  <2>4. Keeps(s, c)
    BY <2>3 DEF SameBuilds, Keeps, NewestOnly, Kept
  <2> QED  BY <1>1, <2>2, <2>3, <2>4, SameBuildsKeep
<1>2. CASE s.files.image # 0
  <2> DEFINE rt == [s.rt EXCEPT !.program = s.files.image]
             d == [s EXCEPT !.rt = rt]
  <2>1. c = SetState(d, "ProgramLoaded")
    BY <1>2 DEF TakeProgram
  <2>2. /\ rt \in Fields /\ rt.state = s.rt.state /\ rt.replacements = s.rt.replacements
        /\ rt.program = s.files.image /\ rt.generation = s.rt.generation
        /\ rt.resumeScheduled = s.rt.resumeScheduled /\ rt.request = s.rt.request
        /\ rt.controller = s.rt.controller /\ rt.waitTimer = s.rt.waitTimer
    BY DEF All, Fields, Numbered
  <2> HIDE DEF rt
  <2>3. /\ d \in All /\ d.rt = rt /\ d.m = s.m /\ d.files = s.files /\ d.tasks = s.tasks
        /\ d.due = s.due /\ d.threw = s.threw
    BY <2>2 DEF All
  <2> HIDE DEF d
  <2>4. /\ \A n : Latest(d, n) = Latest(s, n)
        /\ FilesLatest(d) = FilesLatest(s)
    BY <2>2, <2>3 DEF Latest, FilesLatest
  <2>5. \A t : NewestBuild(d, t) = NewestBuild(s, t)
    BY <2>2, <2>3 DEF NewestBuild
  <2>6. TasksSound(s) => TasksSound(d)
    BY <2>2, <2>3, <2>4, <2>5 DEF TasksSound
  <2>7. StateFits(d, "ProgramLoaded") /\ "ProgramLoaded" \in States
    BY DEF StateFits, Building, States
  <2>8. SameCalls(s, d)
    BY <2>2, <2>3 DEF SameCalls, SameMachine, SameDue
  <2>9. FilesLatest(s) => Keeps(s, d)
    BY <2>2, <2>3, <2>4 DEF Keeps, NewestOnly, Kept, FilesLatest
  <2>10. /\ c \in All /\ c.rt.state = "ProgramLoaded" /\ SameCalls(d, c) /\ c.due = d.due /\ c.m = d.m
         /\ c.threw = d.threw /\ (TasksSound(d) => BuildsSound(c)) /\ Keeps(d, c)
         /\ c.rt.replacements = d.rt.replacements
    BY <2>1, <2>3, <2>7, SetStateIs
  <2>11. SameCalls(s, c)
    BY <2>8, <2>10 DEF SameCalls, SameMachine, SameDue
  <2> QED  BY <2>2, <2>3, <2>6, <2>9, <2>10, <2>11, KeepsOn DEF BuildsSound
<1> QED  BY <1>1, <1>2

\* An exit ends a tool of the newest build, or rests.
LEMMA HandleExitIs ==
  ASSUME NEW s \in All, NEW ok \in BOOLEAN, NEW c, c = HandleExit(s, ok)
  PROVE  /\ c \in All /\ SameCalls(s, c)
         /\ Rests(c.rt.state)
         /\ c.rt.replacements = s.rt.replacements
         /\ BuildsSound(s) => BuildsSound(c) /\ Keeps(s, c)
<1>1. CASE s.rt.state = "Assembling"
  <2>1. BuildsSound(s) => FilesLatest(s) /\ StateFits(s, "Ready") /\ StateFits(s, "Linking")
    BY <1>1 DEF BuildsSound, StateFits, Building
  <2>2. "Ready" \in States /\ "Linking" \in States
    BY DEF States, Building
  <2>3. CASE c = SetState(s, "Ready")
    BY <2>1, <2>2, <2>3, SetStateIs DEF BuildsSound, Rests, Waiting
  <2>4. CASE c = TakeProgram(s)
    BY <1>1, <2>1, <2>4, TakeProgramIs DEF BuildsSound, Rests, Waiting
  <2>5. CASE c = SetState([s EXCEPT !.due.links = @ \cup {s.rt.replacements}], "Linking")
    <3> DEFINE links == s.due.links \cup {s.rt.replacements}
               due == [s.due EXCEPT !.links = links]
               d == [s EXCEPT !.due = due]
    <3>1. c = SetState(d, "Linking")
      BY <2>5
    <3>2. links \in SUBSET Nat
      BY DEF All, Fields, Dues
    <3> HIDE DEF links
    <3>3. /\ due \in Dues /\ due.live = s.due.live /\ due.timers = s.due.timers
          /\ due.loads = s.due.loads /\ due.scheduled = s.due.scheduled
          /\ due.promises = s.due.promises /\ due.halts = s.due.halts
          /\ due.machines = s.due.machines
      BY <3>2 DEF All, Dues
    <3> HIDE DEF due
    <3>4. /\ d \in All /\ d.rt = s.rt /\ d.m = s.m /\ d.files = s.files /\ d.tasks = s.tasks
          /\ d.due = due
      BY <3>3 DEF All
    <3> HIDE DEF d
    <3>5. SameBuilds(s, d) /\ SameCalls(s, d)
      BY <3>3, <3>4 DEF SameBuilds, SameCalls, SameMachine, SameDue
    <3>6. BuildsSound(s) => TasksSound(d) /\ BuildsSound(d) /\ Keeps(s, d) /\ d.rt.state = "Assembling"
      BY <1>1, <3>4, <3>5, SameBuildsKeep DEF BuildsSound
    <3>7. BuildsSound(d) /\ d.rt.state = "Assembling" => StateFits(d, "Linking")
      BY DEF BuildsSound, StateFits, Building
    <3>8. /\ c \in All /\ c.rt.state = "Linking" /\ SameCalls(d, c)
          /\ (TasksSound(d) /\ StateFits(d, "Linking") => BuildsSound(c)) /\ Keeps(d, c)
          /\ c.rt.replacements = d.rt.replacements
      BY <2>2, <3>1, <3>4, SetStateIs
    <3>9. SameCalls(s, c)
      BY <3>5, <3>8 DEF SameCalls, SameMachine, SameDue
    <3> QED  BY <3>4, <3>6, <3>7, <3>8, <3>9, KeepsOn DEF Rests, Waiting
  <2>6. c = HandleAssemblerExit(s, ok)
    BY <1>1 DEF HandleExit
  <2> QED  BY <2>3, <2>4, <2>5, <2>6, Zenon DEF HandleAssemblerExit
<1>2. CASE s.rt.state = "Linking"
  <2>1. BuildsSound(s) => FilesLatest(s) /\ StateFits(s, "Ready")
    BY <1>2 DEF BuildsSound, StateFits, Building
  <2>2. "Ready" \in States
    BY DEF States, Building
  <2>3. c = SetState(s, "Ready") \/ c = TakeProgram(s)
    BY <1>2 DEF HandleExit, HandleLinkerExit
  <2>4. CASE c = SetState(s, "Ready")
    BY <2>1, <2>2, <2>4, SetStateIs DEF BuildsSound, Rests, Waiting
  <2>5. CASE c = TakeProgram(s)
    BY <1>2, <2>1, <2>5, TakeProgramIs DEF BuildsSound, Rests, Waiting
  <2> QED  BY <2>3, <2>4, <2>5
<1>3. CASE s.rt.state \notin Building
  <2>1. c = SetState(s, "ProgramStopped")
    BY <1>3 DEF HandleExit, Building
  <2>2. "ProgramStopped" \in States /\ StateFits(s, "ProgramStopped")
    BY DEF States, Building, Blocked, StateFits
  <2> QED  BY <2>1, <2>2, SetStateIs DEF BuildsSound, Rests, Waiting
<1> QED  BY <1>1, <1>2, <1>3 DEF Building

-----------------------------------------------------------------------------
(* The native loop. *)

LEMMA RestFits ==
  ASSUME NEW s, NEW state, state \notin Building \cup {"NotReady"}
  PROVE  StateFits(s, state)
BY DEF StateFits, Building

\* With nothing to end a halt and none, there is nothing to go wrong.
LEMMA IdleSound ==
  ASSUME NEW s, Quiet(s), OwnLoops(s), MovesSound(s), s.m.halt = 0
  PROVE  CallsSound(s)
BY DEF Quiet, CallsSound, LiveSound

\* What the loop is entered with: no halt can end any more, and no other loop of a program moves.
Free(s) ==
  /\ Quiet(s) /\ OwnLoops(s)
  /\ MovingIn(s) => s.rt.resumeScheduled /\ s.m.owner # "program"
  /\ s.m.owner = "program" => s.rt.state \notin Waiting \cup {"ProgramPaused"}

\* An exit, with what a tool that succeeded leaves.
LEMMA ExitedIs ==
  ASSUME NEW s \in All, NEW ok \in BOOLEAN, NEW c, c = Exited(s, ok)
  PROVE  /\ c \in All /\ SameCalls(s, c) /\ Rests(c.rt.state)
         /\ c.rt.replacements = s.rt.replacements
         /\ BuildsSound(s) => BuildsSound(c) /\ Keeps(s, c)
<1> DEFINE m == [s.m EXCEPT !.live = FALSE]
           left == IF ok THEN Written(s) ELSE s.files
           d == [s EXCEPT !.m = m, !.files = left]
<1>1. c = HandleExit(d, ok)
  BY DEF Exited
<1>2. /\ m \in Machines /\ m.owner = s.m.owner /\ m.serial = s.m.serial /\ m.halt = s.m.halt
      /\ m.wakes = s.m.wakes
  BY DEF All, Machines
<1>3. /\ left \in Numbered
      /\ left.project = s.files.project
      /\ left.object \in {s.files.object, s.files.project}
      /\ left.image \in {s.files.image, s.files.object, s.files.project}
  BY DEF All, Numbered, Written
<1> HIDE DEF m, left
<1>4. /\ d \in All /\ d.rt = s.rt /\ d.m = m /\ d.files = left /\ d.tasks = s.tasks /\ d.due = s.due
  BY <1>2, <1>3 DEF All
<1> HIDE DEF d
<1>5. SameCalls(s, d)
  BY <1>2, <1>4 DEF SameCalls, SameMachine, SameDue
<1>6. \A n : Latest(d, n) = Latest(s, n)
  BY <1>4 DEF Latest
<1>7. FilesLatest(s) => FilesLatest(d)
  BY <1>3, <1>4, <1>6 DEF FilesLatest
<1>8. \A t : NewestBuild(d, t) = NewestBuild(s, t)
  BY <1>4 DEF NewestBuild
<1>9. BuildsSound(s) => BuildsSound(d)
  <2>1. TasksSound(s) => TasksSound(d)
    BY <1>3, <1>4, <1>7, <1>8 DEF TasksSound
  <2>2. StateFits(s, s.rt.state) => StateFits(d, d.rt.state)
    BY <1>4, <1>7, <1>8 DEF StateFits, Someone
  <2> QED  BY <2>1, <2>2 DEF BuildsSound
<1>10. Keeps(s, d)
  BY <1>4 DEF Keeps, NewestOnly, Kept
<1>11. /\ c \in All /\ SameCalls(d, c) /\ Rests(c.rt.state) /\ c.rt.replacements = d.rt.replacements
       /\ BuildsSound(d) => BuildsSound(c) /\ Keeps(d, c)
  BY <1>1, <1>4, HandleExitIs
<1>12. SameCalls(s, c)
  BY <1>5, <1>11 DEF SameCalls, SameMachine, SameDue
<1> QED  BY <1>4, <1>9, <1>10, <1>11, <1>12, KeepsOn

\* A signal that ends the program.
LEMMA KilledIs ==
  ASSUME NEW s \in All, NEW c, c = Killed(s)
  PROVE  /\ c \in All /\ SameCalls(s, c) /\ Rests(c.rt.state)
         /\ c.rt.replacements = s.rt.replacements
         /\ BuildsSound(s) => BuildsSound(c) /\ Keeps(s, c)
<1> DEFINE m == [s.m EXCEPT !.live = FALSE]
           d == [s EXCEPT !.m = m]
<1>1. c = SetState(d, "ProgramStopped")
  BY DEF Killed
<1>2. /\ m \in Machines /\ m.owner = s.m.owner /\ m.serial = s.m.serial /\ m.halt = s.m.halt
      /\ m.wakes = s.m.wakes
  BY DEF All, Machines
<1> HIDE DEF m
<1>3. /\ d \in All /\ d.rt = s.rt /\ d.m = m /\ d.files = s.files /\ d.tasks = s.tasks /\ d.due = s.due
  BY <1>2 DEF All
<1> HIDE DEF d
<1>4. SameCalls(s, d) /\ SameBuilds(s, d)
  BY <1>2, <1>3 DEF SameCalls, SameMachine, SameDue, SameBuilds
<1>5. "ProgramStopped" \in States /\ StateFits(d, "ProgramStopped")
  BY RestFits DEF States, Blocked, Building
<1>6. /\ c \in All /\ SameCalls(d, c) /\ c.rt.state = "ProgramStopped"
      /\ c.rt.replacements = d.rt.replacements
      /\ (TasksSound(d) => BuildsSound(c)) /\ Keeps(d, c)
  BY <1>1, <1>3, <1>5, SetStateIs
<1>7. SameCalls(s, c)
  BY <1>4, <1>6 DEF SameCalls, SameMachine, SameDue
<1>8. BuildsSound(s) => BuildsSound(d) /\ Keeps(s, d) /\ TasksSound(d)
  BY <1>4, SameBuildsKeep DEF BuildsSound
<1> QED  BY <1>3, <1>6, <1>7, <1>8, KeepsOn DEF Rests, Waiting

\* A loop that is preempted is scheduled, or killed after too many times.
LEMMA PreemptedIs ==
  ASSUME NEW s \in All, NEW c, c = Preempted(s)
  PROVE  /\ c \in All /\ c.rt.replacements = s.rt.replacements
         /\ Counted(s) => Counted(c)
         /\ BuildsSound(s) => BuildsSound(c) /\ Keeps(s, c)
         /\ Free(s) /\ CallsSound(s) /\ s.m.halt = 0 => CallsSound(c)
<1>1. CASE s.m.switches >= Switches
  <2>1. c = Killed(s)
    BY <1>1 DEF Preempted
  <2> QED  BY <2>1, KilledIs, SameCallsCount, SameCallsRest
<1>2. CASE ~(s.m.switches >= Switches)
  <2> DEFINE m == [s.m EXCEPT !.switches = @ + 1]
             rt == [s.rt EXCEPT !.resumeScheduled = TRUE]
             callback == [generation |-> s.rt.generation, serial |-> s.m.serial]
             scheduled == s.due.scheduled \cup {callback}
             due == [s.due EXCEPT !.scheduled = scheduled]
  <2>1. c = [s EXCEPT !.m = m, !.rt = rt, !.due = due]
    BY <1>2 DEF Preempted
  <2>2. /\ m \in Machines /\ m.owner = s.m.owner /\ m.serial = s.m.serial /\ m.halt = s.m.halt
        /\ m.wakes = s.m.wakes
    BY DEF All, Machines
  <2>3. /\ rt \in Fields /\ rt.resumeScheduled /\ rt.state = s.rt.state
        /\ rt.replacements = s.rt.replacements /\ rt.program = s.rt.program
        /\ rt.generation = s.rt.generation /\ rt.request = s.rt.request
        /\ rt.controller = s.rt.controller /\ rt.waitTimer = s.rt.waitTimer
    BY DEF All, Fields
  <2>4. callback \in Callbacks /\ callback.generation = s.rt.generation /\ callback.serial = s.m.serial
    BY DEF Callbacks, All, Fields, Machines
  <2> HIDE DEF m, rt, callback
  <2>5. scheduled \in SUBSET Callbacks
    BY <2>4 DEF All, Dues
  <2>6. \A x \in scheduled : x \in s.due.scheduled \/ x = callback
    OBVIOUS
  <2> HIDE DEF scheduled
  <2>7. /\ due \in Dues /\ due.scheduled = scheduled /\ due.live = s.due.live
        /\ due.timers = s.due.timers /\ due.loads = s.due.loads
        /\ due.promises = s.due.promises /\ due.halts = s.due.halts
        /\ due.machines = s.due.machines
    BY <2>5 DEF All, Dues
  <2> HIDE DEF due
  <2>8. /\ c \in All /\ c.rt = rt /\ c.m = m /\ c.files = s.files /\ c.tasks = s.tasks /\ c.due = due
    BY <2>1, <2>2, <2>3, <2>7 DEF All
  <2>9. SameBuilds(s, c)
    BY <2>3, <2>7, <2>8 DEF SameBuilds
  <2>10. Counted(s) => Counted(c)
    <3> SUFFICES ASSUME Counted(s) PROVE Counted(c)
      OBVIOUS
    <3>1. \A x \in scheduled : x.generation <= s.rt.generation
      BY <2>4, <2>6 DEF Counted, All, Fields
    <3> QED  BY <2>2, <2>3, <2>7, <2>8, <3>1 DEF Counted
  <2>11. Free(s) /\ CallsSound(s) /\ s.m.halt = 0 => CallsSound(c)
    <3> SUFFICES ASSUME Free(s), CallsSound(s), s.m.halt = 0 PROVE CallsSound(c)
      OBVIOUS
    <3>1. OwnLoops(c)
      BY <2>2, <2>3, <2>4, <2>6, <2>7, <2>8 DEF CallsSound, OwnLoops
    <3>2. MovesSound(c)
      BY <2>2, <2>3, <2>8 DEF Free, MovesSound
    <3> QED  BY <2>2, <2>7, <2>8, <3>1, <3>2, IdleSound DEF Free, Quiet
  <2> QED  BY <2>3, <2>8, <2>9, <2>10, <2>11, SameBuildsKeep
<1> QED  BY <1>1, <1>2

\* A halt gets the next number.
LEMMA HaltedIs ==
  ASSUME NEW s \in All, NEW wakes \in {"host", "timer", "promise", "both"}, NEW c, c = Halted(s, wakes)
  PROVE  /\ c \in All /\ SameBuilds(s, c) /\ c.rt = s.rt /\ c.threw = s.threw
         /\ c.m.owner = s.m.owner /\ c.m.serial = s.m.serial
         /\ c.m.halt = s.due.halts + 1 /\ c.m.wakes = wakes
         /\ c.due.halts = s.due.halts + 1 /\ c.due.scheduled = s.due.scheduled
         /\ c.due.timers = s.due.timers /\ c.due.promises = s.due.promises
         /\ c.due.live = s.due.live /\ c.due.machines = s.due.machines
         /\ Counted(s) => Counted(c)
<1> DEFINE h == s.due.halts + 1
           due == [s.due EXCEPT !.halts = h]
           m == [s.m EXCEPT !.halt = h, !.wakes = wakes]
<1>1. c = [s EXCEPT !.due = due, !.m = m]
  BY DEF Halted
<1>8. h \in Nat /\ h >= s.due.halts /\ s.due.halts \in Nat
  BY DEF All, Dues
<1>9. h = s.due.halts + 1
  OBVIOUS
<1> HIDE DEF h
<1>2. /\ m \in Machines /\ m.owner = s.m.owner /\ m.serial = s.m.serial
      /\ m.halt = h /\ m.wakes = wakes
  BY <1>8 DEF All, Machines
<1>3. /\ due \in Dues /\ due.halts = h /\ due.scheduled = s.due.scheduled
      /\ due.live = s.due.live /\ due.timers = s.due.timers /\ due.loads = s.due.loads
      /\ due.promises = s.due.promises /\ due.machines = s.due.machines
  BY <1>8 DEF All, Dues
<1> HIDE DEF m, due
<1>4. /\ c \in All /\ c.rt = s.rt /\ c.m = m /\ c.files = s.files /\ c.tasks = s.tasks /\ c.due = due
      /\ c.threw = s.threw
  BY <1>1, <1>2, <1>3 DEF All
<1>5. SameBuilds(s, c)
  BY <1>3, <1>4 DEF SameBuilds
<1>6. Counted(s) => Counted(c)
  BY <1>8, <1>2, <1>3, <1>4 DEF Counted, All, Fields
<1> QED  BY <1>9, <1>2, <1>3, <1>4, <1>5, <1>6

\* A timer is for the halt there is.
LEMMA ArmedIs ==
  ASSUME NEW s \in All, NEW kind \in {"wait", "input"}, NEW c, c = Armed(s, kind)
  PROVE  /\ c \in All /\ SameBuilds(s, c) /\ c.m = s.m /\ c.rt.generation = s.rt.generation
         /\ c.rt.resumeScheduled = s.rt.resumeScheduled /\ c.rt.controller = s.rt.controller
         /\ c.rt.waitTimer = s.m.halt
         /\ c.due.scheduled = s.due.scheduled /\ c.due.live = s.due.live
         /\ c.due.promises = s.due.promises
         /\ c.due.timers = s.due.timers \cup
              {[kind |-> kind, halt |-> s.m.halt, generation |-> s.rt.generation]}
         /\ Counted(s) => Counted(c)
<1> DEFINE timer == [kind |-> kind, halt |-> s.m.halt, generation |-> s.rt.generation]
           timers == s.due.timers \cup {timer}
           due == [s.due EXCEPT !.timers = timers]
           rt == [s.rt EXCEPT !.waitTimer = s.m.halt]
<1>1. c = [s EXCEPT !.due = due, !.rt = rt]
  BY DEF Armed, Timer
<1>2. timer \in Timers
  BY DEF All, Fields, Machines, Timers
<1> HIDE DEF timer
<1>3. timers \in SUBSET Timers
  BY <1>2 DEF All, Dues
<1>4. timers = s.due.timers \cup {[kind |-> kind, halt |-> s.m.halt, generation |-> s.rt.generation]}
  BY DEF timer
<1> HIDE DEF timers
<1>5. /\ rt \in Fields /\ rt.waitTimer = s.m.halt /\ rt.state = s.rt.state
      /\ rt.replacements = s.rt.replacements /\ rt.program = s.rt.program
      /\ rt.generation = s.rt.generation /\ rt.resumeScheduled = s.rt.resumeScheduled
      /\ rt.request = s.rt.request /\ rt.controller = s.rt.controller
  BY DEF All, Fields, Machines
<1>6. /\ due \in Dues /\ due.timers = timers /\ due.halts = s.due.halts
      /\ due.scheduled = s.due.scheduled /\ due.live = s.due.live /\ due.loads = s.due.loads
      /\ due.promises = s.due.promises /\ due.machines = s.due.machines
  BY <1>3 DEF All, Dues
<1> HIDE DEF rt, due
<1>7. /\ c \in All /\ c.rt = rt /\ c.m = s.m /\ c.files = s.files /\ c.tasks = s.tasks /\ c.due = due
  BY <1>1, <1>5, <1>6 DEF All
<1>8. SameBuilds(s, c)
  BY <1>5, <1>6, <1>7 DEF SameBuilds
<1>9. Counted(s) => Counted(c)
  BY <1>5, <1>6, <1>7 DEF Counted
<1> QED  BY <1>4, <1>5, <1>6, <1>7, <1>8, <1>9

\* The program waits, for what is there.
LEMMA WaitedIs ==
  ASSUME NEW s \in All, NEW wakes \in {"host", "timer", "promise", "both"}, NEW c, c = Waited(s, wakes)
  PROVE  /\ c \in All /\ c.rt.replacements = s.rt.replacements
         /\ Counted(s) => Counted(c)
         /\ BuildsSound(s) => BuildsSound(c) /\ Keeps(s, c)
         /\ Quiet(s) /\ OwnLoops(s) /\ ~MovingIn(s) => CallsSound(c)
<1> DEFINE h == s.due.halts + 1
           a == Halted(s, wakes)
           b == Cleared(a)
           rt == [b.rt EXCEPT !.request = h]
           d == [b EXCEPT !.rt = rt]
           e == SetState(d, "ProgramWaitPause")
           rt2 == [e.rt EXCEPT !.controller = h]
           live == e.due.live \cup {h}
           promises == IF wakes \in {"promise", "both"} THEN e.due.promises \cup {h} ELSE e.due.promises
           due == [e.due EXCEPT !.live = live, !.promises = promises]
           w == [e EXCEPT !.rt = rt2, !.due = due]
<1>1. /\ a \in All /\ SameBuilds(s, a) /\ a.rt = s.rt
      /\ a.m.owner = s.m.owner /\ a.m.serial = s.m.serial /\ a.m.halt = h /\ a.m.wakes = wakes
      /\ a.due.halts = h /\ a.due.scheduled = s.due.scheduled
      /\ a.due.timers = s.due.timers /\ a.due.live = s.due.live
      /\ Counted(s) => Counted(a)
  BY HaltedIs
<1>2. h \in Nat /\ h # 0
  BY DEF All, Dues
<1> HIDE DEF a
<1>3. /\ b \in All /\ SameBuilds(a, b) /\ b.m = a.m
      /\ b.rt.generation = a.rt.generation /\ b.due.scheduled = a.due.scheduled
      /\ b.due.halts = a.due.halts
      /\ Counted(a) => Counted(b)
      /\ Quiet(a) => Quiet(b)
  BY <1>1, ClearedIs
<1>4. c = IF wakes \in {"timer", "both"} THEN Armed(w, "wait") ELSE w
  <2>1. b.m.halt = h
    BY <1>1, <1>3
  <2> DEFINE g == Cleared(Halted(s, wakes)).m.halt
             x == SetState([b EXCEPT !.rt.request = g], "ProgramWaitPause")
             y == [x EXCEPT !.rt.controller = g, !.due.live = @ \cup {g},
                      !.due.promises = IF wakes \in {"promise", "both"} THEN @ \cup {g} ELSE @]
  <2>2. c = IF wakes \in {"timer", "both"} THEN Armed(y, "wait") ELSE y
    BY DEF Waited, a
  <2>3. g = h
    BY <2>1 DEF a
  <2> HIDE DEF b, g, h
  <2>4. [b EXCEPT !.rt.request = g] = d
    BY <2>3
  <2>5. x = e
    BY <2>4
  <2> HIDE DEF d, e, x
  <2>6. y = w
    BY <2>3, <2>5
  <2> QED  BY <2>2, <2>6
<1> HIDE DEF b, h
<1>5. /\ rt \in Fields /\ rt.request = h /\ rt.state = b.rt.state
      /\ rt.replacements = b.rt.replacements /\ rt.program = b.rt.program
      /\ rt.generation = b.rt.generation /\ rt.waitTimer = b.rt.waitTimer
      /\ rt.controller = b.rt.controller
  BY <1>2, <1>3 DEF All, Fields
<1> HIDE DEF rt
<1>6. /\ d \in All /\ d.rt = rt /\ d.m = b.m /\ d.files = b.files /\ d.tasks = b.tasks /\ d.due = b.due
  BY <1>3, <1>5 DEF All
<1> HIDE DEF d
<1>7. SameBuilds(b, d) /\ (Counted(b) => Counted(d))
  BY <1>1, <1>2, <1>3, <1>5, <1>6 DEF SameBuilds, Counted
<1>8. "ProgramWaitPause" \in States /\ StateFits(d, "ProgramWaitPause")
  BY RestFits DEF States, Blocked, Waiting, Building
<1>9. /\ e \in All /\ e.rt.state = "ProgramWaitPause" /\ SameCalls(d, e) /\ e.due = d.due /\ e.m = d.m
      /\ e.rt.replacements = d.rt.replacements
      /\ (TasksSound(d) => BuildsSound(e)) /\ Keeps(d, e)
  BY <1>6, <1>8, SetStateIs
<1> HIDE DEF e
<1>10. /\ rt2 \in Fields /\ rt2.controller = h /\ rt2.state = e.rt.state
       /\ rt2.replacements = e.rt.replacements /\ rt2.program = e.rt.program
       /\ rt2.generation = e.rt.generation /\ rt2.waitTimer = e.rt.waitTimer
       /\ rt2.request = e.rt.request
  BY <1>2, <1>9 DEF All, Fields
<1> HIDE DEF rt2
<1>11. /\ live \in SUBSET Nat /\ promises \in SUBSET Nat
       /\ wakes \in {"promise", "both"} => h \in promises
  BY <1>2, <1>9 DEF All, Dues
<1>12. live = e.due.live \cup {h}
  OBVIOUS
<1> HIDE DEF live, promises
<1>13. /\ due \in Dues /\ due.live = live /\ due.promises = promises /\ due.loads = e.due.loads
       /\ due.scheduled = e.due.scheduled /\ due.timers = e.due.timers
       /\ due.halts = e.due.halts /\ due.machines = e.due.machines
  BY <1>9, <1>11 DEF All, Dues
<1> HIDE DEF due
<1>14. /\ w \in All /\ w.rt = rt2 /\ w.m = e.m /\ w.files = e.files /\ w.tasks = e.tasks /\ w.due = due
  BY <1>9, <1>10, <1>13 DEF All
<1> HIDE DEF w
<1>15. SameBuilds(e, w)
  BY <1>10, <1>13, <1>14 DEF SameBuilds
<1>16. Counted(s) => Counted(w) /\ w.m.halt = w.due.halts
  <2>1. Counted(s) => Counted(e)
    BY <1>1, <1>3, <1>7, <1>9, SameCallsCount
  <2>2. w.m.halt = h /\ w.due.halts = h
    BY <1>1, <1>3, <1>6, <1>9, <1>13, <1>14
  <2> QED  BY <1>2, <1>10, <1>13, <1>14, <2>1, <2>2 DEF Counted
<1>17. BuildsSound(s) => BuildsSound(w) /\ Keeps(s, w)
  <2> SUFFICES ASSUME BuildsSound(s) PROVE BuildsSound(w) /\ Keeps(s, w)
    OBVIOUS
  <2>1. BuildsSound(a) /\ Keeps(s, a)
    BY <1>1, SameBuildsKeep
  <2>2. BuildsSound(b) /\ Keeps(s, b)
    BY <1>3, <2>1, SameBuildsKeep, KeepsOn
  <2>3. BuildsSound(d) /\ Keeps(s, d)
    BY <1>7, <2>2, SameBuildsKeep, KeepsOn
  <2>4. BuildsSound(e) /\ Keeps(s, e)
    BY <1>9, <2>3, KeepsOn DEF BuildsSound
  <2> QED  BY <1>15, <2>4, SameBuildsKeep, KeepsOn
<1>18. /\ w.m.owner = s.m.owner /\ w.m.serial = s.m.serial /\ w.m.halt = h /\ w.m.wakes = wakes
       /\ w.rt.state = "ProgramWaitPause" /\ w.rt.generation = s.rt.generation /\ w.rt.controller = h
       /\ w.due.scheduled = s.due.scheduled
       /\ w.rt.replacements = s.rt.replacements
       /\ wakes \in {"promise", "both"} => h \in w.due.promises
  BY <1>1, <1>3, <1>5, <1>6, <1>9, <1>10, <1>11, <1>13, <1>14 DEF SameBuilds, SameCalls
<1>19. Quiet(s) => w.due.live = {h} /\ w.due.timers = {}
  <2>1. Quiet(s) => Quiet(b)
    BY <1>1, <1>3 DEF Quiet
  <2> QED  BY <1>6, <1>9, <1>12, <1>13, <1>14, <2>1 DEF Quiet
\* Armed or not, it has what the program waits for.
<1>20. ASSUME Quiet(s), OwnLoops(s), ~MovingIn(s), NEW x,
              x.m = w.m, x.rt.state = w.rt.state, x.rt.generation = w.rt.generation,
              x.rt.controller = w.rt.controller, x.due.scheduled = w.due.scheduled,
              x.due.live = w.due.live, x.due.promises = w.due.promises,
              wakes \in {"timer", "both"} => x.due.timers # {},
              \A t \in x.due.timers :
                 t = [kind |-> "wait", halt |-> h, generation |-> x.rt.generation] /\ x.rt.waitTimer = h
       PROVE  CallsSound(x)
  <2>1. OwnLoops(x) /\ MovesSound(x)
    BY <1>18, <1>20 DEF OwnLoops, MovesSound, MovingIn
  <2>2. LiveSound(x)
    BY <1>2, <1>18, <1>19, <1>20 DEF LiveSound
  <2>3. \A t \in x.due.timers : TimerSound(x, t)
    BY <1>2, <1>18, <1>19, <1>20 DEF TimerSound
  <2>4. WaitSound(x)
    BY <1>18, <1>19, <1>20 DEF WaitSound
  <2> QED  BY <2>1, <2>2, <2>3, <2>4 DEF CallsSound
<1>21. CASE wakes \notin {"timer", "both"}
  <2>1. c = w
    BY <1>4, <1>21
  <2> QED  BY <1>14, <1>16, <1>17, <1>18, <1>19, <1>20, <1>21, <2>1
<1>22. CASE wakes \in {"timer", "both"}
  <2>1. c = Armed(w, "wait")
    BY <1>4, <1>22
  <2>2. /\ c \in All /\ SameBuilds(w, c) /\ c.m = w.m /\ c.rt.generation = w.rt.generation
        /\ c.rt.controller = w.rt.controller /\ c.rt.waitTimer = w.m.halt
        /\ c.due.scheduled = w.due.scheduled /\ c.due.live = w.due.live
        /\ c.due.promises = w.due.promises
        /\ c.due.timers = w.due.timers \cup
             {[kind |-> "wait", halt |-> w.m.halt, generation |-> w.rt.generation]}
        /\ Counted(w) => Counted(c)
    BY <1>14, <2>1, ArmedIs
  <2>3. BuildsSound(s) => BuildsSound(c) /\ Keeps(s, c)
    BY <1>17, <2>2, SameBuildsKeep, KeepsOn
  <2>4. c.rt.state = w.rt.state /\ c.rt.replacements = w.rt.replacements
    BY <2>2 DEF SameBuilds
  <2>5. Quiet(s) /\ OwnLoops(s) /\ ~MovingIn(s) => CallsSound(c)
    BY <1>18, <1>19, <1>20, <2>2, <2>4
  <2> QED  BY <1>16, <1>18, <2>2, <2>3, <2>4, <2>5
<1> QED  BY <1>21, <1>22

\* The program reads the terminal and has to wait.
LEMMA ReadHaltedIs ==
  ASSUME NEW s \in All, NEW wakes \in {"host", "timer"}, NEW c, c = ReadHalted(s, wakes)
  PROVE  /\ c \in All /\ c.rt.replacements = s.rt.replacements
         /\ Counted(s) => Counted(c)
         /\ BuildsSound(s) => BuildsSound(c) /\ Keeps(s, c)
         /\ Quiet(s) /\ OwnLoops(s) /\ ~MovingIn(s) => CallsSound(c)
<1> DEFINE h == s.due.halts + 1
           a == Halted(s, wakes)
           e == SetState(a, "ProgramReadlinePause")
<1>1. /\ a \in All /\ SameBuilds(s, a) /\ a.rt = s.rt
      /\ a.m.owner = s.m.owner /\ a.m.serial = s.m.serial /\ a.m.halt = h /\ a.m.wakes = wakes
      /\ a.due.halts = h /\ a.due.scheduled = s.due.scheduled
      /\ a.due.timers = s.due.timers /\ a.due.live = s.due.live
      /\ Counted(s) => Counted(a)
  BY HaltedIs
<1>2. h \in Nat /\ h # 0
  BY DEF All, Dues
<1> HIDE DEF a
<1>3. c = IF wakes = "timer" THEN Armed(e, "input") ELSE e
  BY DEF ReadHalted, a
<1> HIDE DEF h
<1>4. "ProgramReadlinePause" \in States /\ StateFits(a, "ProgramReadlinePause")
  BY RestFits DEF States, Blocked, Waiting, Building
<1>5. /\ e \in All /\ e.rt.state = "ProgramReadlinePause" /\ SameCalls(a, e) /\ e.due = a.due /\ e.m = a.m
      /\ e.rt.replacements = a.rt.replacements
      /\ (TasksSound(a) => BuildsSound(e)) /\ Keeps(a, e)
  BY <1>1, <1>4, SetStateIs
<1> HIDE DEF e
<1>6. Counted(s) => Counted(e)
  BY <1>1, <1>5, SameCallsCount
<1>7. BuildsSound(s) => BuildsSound(e) /\ Keeps(s, e)
  BY <1>1, <1>5, SameBuildsKeep, KeepsOn DEF BuildsSound
<1>8. /\ e.m.owner = s.m.owner /\ e.m.serial = s.m.serial /\ e.m.halt = h /\ e.m.wakes = wakes
      /\ e.rt.state = "ProgramReadlinePause" /\ e.rt.generation = s.rt.generation
      /\ e.due.scheduled = s.due.scheduled /\ e.rt.replacements = s.rt.replacements
      /\ e.due.live = s.due.live /\ e.due.timers = s.due.timers
  BY <1>1, <1>5 DEF SameCalls
<1>9. ASSUME Quiet(s), OwnLoops(s), ~MovingIn(s), NEW x,
             x.m = e.m, x.rt.state = e.rt.state, x.rt.generation = e.rt.generation,
             x.due.scheduled = e.due.scheduled, x.due.live = e.due.live,
             wakes = "timer" => x.due.timers # {},
             \A t \in x.due.timers :
                t = [kind |-> "input", halt |-> h, generation |-> x.rt.generation] /\ x.rt.waitTimer = h
      PROVE  CallsSound(x)
  <2>1. OwnLoops(x) /\ MovesSound(x)
    BY <1>8, <1>9 DEF OwnLoops, MovesSound, MovingIn
  <2>2. LiveSound(x)
    BY <1>8, <1>9 DEF LiveSound, Quiet
  <2>3. \A t \in x.due.timers : TimerSound(x, t)
    BY <1>2, <1>8, <1>9 DEF TimerSound, Quiet
  <2>4. WaitSound(x)
    BY <1>8, <1>9 DEF WaitSound
  <2> QED  BY <2>1, <2>2, <2>3, <2>4 DEF CallsSound
<1>10. CASE wakes # "timer"
  <2>1. c = e
    BY <1>3, <1>10
  <2> QED  BY <1>5, <1>6, <1>7, <1>8, <1>9, <1>10, <2>1 DEF Quiet
<1>11. CASE wakes = "timer"
  <2>1. c = Armed(e, "input")
    BY <1>3, <1>11
  <2>2. /\ c \in All /\ SameBuilds(e, c) /\ c.m = e.m /\ c.rt.generation = e.rt.generation
        /\ c.rt.controller = e.rt.controller /\ c.rt.waitTimer = e.m.halt
        /\ c.due.scheduled = e.due.scheduled /\ c.due.live = e.due.live
        /\ c.due.promises = e.due.promises
        /\ c.due.timers = e.due.timers \cup
             {[kind |-> "input", halt |-> e.m.halt, generation |-> e.rt.generation]}
        /\ Counted(e) => Counted(c)
    BY <1>5, <2>1, ArmedIs
  <2>3. BuildsSound(s) => BuildsSound(c) /\ Keeps(s, c)
    BY <1>7, <2>2, SameBuildsKeep, KeepsOn
  <2>4. c.rt.state = e.rt.state /\ c.rt.replacements = e.rt.replacements
    BY <2>2 DEF SameBuilds
  <2>5. Quiet(s) /\ OwnLoops(s) /\ ~MovingIn(s) => CallsSound(c)
    BY <1>8, <1>9, <2>2, <2>4 DEF Quiet
  <2> QED  BY <1>6, <1>8, <2>2, <2>3, <2>4, <2>5
<1> QED  BY <1>10, <1>11

\* What a step of one program or tool, or nothing of the builds, leads to.
Follows(s, c) ==
  /\ c \in All /\ c.rt.replacements = s.rt.replacements
  /\ Counted(s) => Counted(c)
  /\ BuildsSound(s) => BuildsSound(c) /\ Keeps(s, c)

LEMMA FollowsOn ==
  ASSUME NEW s, NEW c, NEW d, Follows(s, c), Follows(c, d)
  PROVE  Follows(s, d)
<1>1. BuildsSound(s) => BuildsSound(d) /\ Keeps(s, d)
  BY KeepsOn DEF Follows
<1> QED  BY <1>1 DEF Follows

LEMMA SameFollows ==
  ASSUME NEW s, NEW c \in All, SameBuilds(s, c), Counted(s) => Counted(c)
  PROVE  Follows(s, c)
BY SameBuildsKeep DEF SameBuilds, Follows

\* The fields that neither the builds nor the callbacks depend on.
SameFields(f, g) ==
  /\ g.state = f.state /\ g.replacements = f.replacements /\ g.program = f.program
  /\ g.generation = f.generation /\ g.resumeScheduled = f.resumeScheduled
  /\ g.request = f.request /\ g.controller = f.controller /\ g.waitTimer = f.waitTimer
LEMMA FlagsFollow ==
  ASSUME NEW s \in All, NEW rt \in Fields, SameFields(s.rt, rt), NEW c, c = [s EXCEPT !.rt = rt]
  PROVE  /\ Follows(s, c) /\ SameBuilds(s, c) /\ SameCalls(s, c)
         /\ c.m = s.m /\ c.due = s.due /\ c.rt = rt /\ c.tasks = s.tasks
         /\ CallsSound(s) => CallsSound(c)
<1>1. c \in All /\ c.rt = rt /\ c.m = s.m /\ c.files = s.files /\ c.tasks = s.tasks /\ c.due = s.due
  BY DEF All
<1>2. SameBuilds(s, c) /\ SameCalls(s, c)
  BY <1>1 DEF SameBuilds, SameCalls, SameMachine, SameDue, SameFields
<1>3. Counted(s) => Counted(c)
  BY <1>2, SameCallsCount
<1>4. c.rt.state = s.rt.state
  BY <1>2 DEF SameBuilds
<1> QED  BY <1>1, <1>2, <1>3, <1>4, SameFollows, SameCallsRest

LEMMA SetStateFollows ==
  ASSUME NEW s \in All, NEW state \in States, state \notin Building \cup {"NotReady"},
         NEW c, c = SetState(s, state)
  PROVE  Follows(s, c)
<1>1. StateFits(s, state)
  BY RestFits
<1>2. /\ c \in All /\ c.rt.replacements = s.rt.replacements /\ SameCalls(s, c)
      /\ TasksSound(s) => BuildsSound(c)
      /\ Keeps(s, c)
  BY <1>1, SetStateIs DEF Building
<1> QED  BY <1>2, SameCallsCount DEF Follows, BuildsSound

\* A call of the native loop.
LEMMA LoopFollows ==
  ASSUME NEW before \in All, NEW c \in Loop(before)
  PROVE  Follows(before, c) /\ (Free(before) => CallsSound(c))
<1> DEFINE m == [before.m EXCEPT !.halt = 0]
           s == [before EXCEPT !.m = m]
           mayHalt == s.m.owner = "program" /\ s.due.halts < MaxHalts
<1>1. m \in Machines /\ m.owner = before.m.owner /\ m.serial = before.m.serial /\ m.halt = 0
  BY DEF All, Machines
<1>2. [before EXCEPT !.m.halt = 0] = s
  OBVIOUS
<1>3. c \in IF ~s.m.live
            THEN {HandleExit(s, ok) : ok \in BOOLEAN}
            ELSE {Exited(s, ok) : ok \in Codes(s)}
                   \cup {Killed(s)}
                   \cup {Waited(s, w) : w \in IF mayHalt THEN Wakes ELSE {}}
                   \cup {ReadHalted(s, w) : w \in IF mayHalt THEN Wakes \cap {"host", "timer"} ELSE {}}
                   \cup {s : x \in {1} \cap IF s.rt.stepping THEN {1} ELSE {}}
                   \cup {Preempted(s) : x \in IF ~s.rt.stepping /\ s.m.owner \in LongRunning
                                              THEN {1} ELSE {}}
  <2> HIDE DEF m
  <2> QED  BY <1>2 DEF Loop
<1> HIDE DEF m
<1>4. /\ s \in All /\ s.rt = before.rt /\ s.m = m /\ s.files = before.files
      /\ s.tasks = before.tasks /\ s.due = before.due
  BY <1>1 DEF All
<1> HIDE DEF s
<1>5. Follows(before, s)
  <2>1. SameBuilds(before, s)
    BY <1>4 DEF SameBuilds
  <2>2. Counted(before) => Counted(s)
    BY <1>1, <1>4 DEF Counted, All, Dues
  <2> QED  BY <1>4, <2>1, <2>2, SameFollows
<1>6. Free(before) => Free(s)
  BY <1>1, <1>4 DEF Free, Quiet, OwnLoops, MovingIn
<1>7. Free(s) => CallsSound(s) /\ s.m.halt = 0
  BY <1>1, <1>4, IdleSound DEF Free, MovesSound
<1>8. ASSUME NEW ok \in BOOLEAN, c = HandleExit(s, ok) \/ c = Exited(s, ok)
      PROVE  Follows(s, c) /\ (Free(s) => CallsSound(c))
  <2>1. /\ c \in All /\ SameCalls(s, c) /\ Rests(c.rt.state)
        /\ c.rt.replacements = s.rt.replacements
        /\ BuildsSound(s) => BuildsSound(c) /\ Keeps(s, c)
    BY <1>4, <1>8, HandleExitIs, ExitedIs
  <2> QED  BY <1>7, <2>1, SameCallsCount, SameCallsRest DEF Follows
<1>9. CASE c = Killed(s)
  <2>1. /\ c \in All /\ SameCalls(s, c) /\ Rests(c.rt.state)
        /\ c.rt.replacements = s.rt.replacements
        /\ BuildsSound(s) => BuildsSound(c) /\ Keeps(s, c)
    BY <1>4, <1>9, KilledIs
  <2>2. Follows(s, c) /\ (Free(s) => CallsSound(c))
    BY <1>7, <2>1, SameCallsCount, SameCallsRest DEF Follows
  <2> QED  BY <1>5, <1>6, <2>2, FollowsOn
<1>10. ASSUME mayHalt, NEW w \in {"host", "timer", "promise", "both"},
              c = Waited(s, w) \/ (w \in {"host", "timer"} /\ c = ReadHalted(s, w))
       PROVE  Follows(s, c) /\ (Free(s) => CallsSound(c))
  <2>1. Free(s) => Quiet(s) /\ OwnLoops(s) /\ ~MovingIn(s)
    BY <1>10 DEF Free
  <2>2. CASE c = Waited(s, w)
    BY <1>4, <2>1, <2>2, WaitedIs DEF Follows
  <2>3. CASE w \in {"host", "timer"} /\ c = ReadHalted(s, w)
    BY <1>4, <2>1, <2>3, ReadHaltedIs DEF Follows
  <2> QED  BY <1>10, <2>2, <2>3
<1>11. CASE c = s
  BY <1>5, <1>6, <1>7, <1>11
<1>12. CASE c = Preempted(s)
  <2>1. Follows(s, c) /\ (Free(s) => CallsSound(c))
    BY <1>4, <1>7, <1>12, PreemptedIs DEF Follows
  <2> QED  BY <1>5, <1>6, <2>1, FollowsOn
<1>13. \/ \E ok \in BOOLEAN : c = HandleExit(s, ok) \/ c = Exited(s, ok)
       \/ c = Killed(s) \/ c = s \/ c = Preempted(s)
       \/ mayHalt /\ \E w \in {"host", "timer", "promise", "both"} :
            c = Waited(s, w) \/ (w \in {"host", "timer"} /\ c = ReadHalted(s, w))
  <2>1. Codes(s) \subseteq BOOLEAN
    BY DEF Codes
  <2> HIDE DEF mayHalt
  <2> QED  BY <1>3, <2>1, RuntimeAssumption
<1>14. CASE \E ok \in BOOLEAN : c = HandleExit(s, ok) \/ c = Exited(s, ok)
  <2>1. Follows(s, c) /\ (Free(s) => CallsSound(c))
    BY <1>8, <1>14
  <2> QED  BY <1>5, <1>6, <2>1, FollowsOn
<1>15. CASE mayHalt /\ \E w \in {"host", "timer", "promise", "both"} :
              c = Waited(s, w) \/ (w \in {"host", "timer"} /\ c = ReadHalted(s, w))
  <2>1. Follows(s, c) /\ (Free(s) => CallsSound(c))
    BY <1>10, <1>15
  <2> QED  BY <1>5, <1>6, <2>1, FollowsOn
<1> QED  BY <1>9, <1>11, <1>12, <1>13, <1>14, <1>15

-----------------------------------------------------------------------------
(* What enters the native loop. *)

\* Nothing is to call back any more.
Begins(s) == Quiet(s) /\ ~MovingIn(s) /\ s.m.halt = 0

LEMMA BeginsSound ==
  ASSUME NEW s, Begins(s)
  PROVE  /\ CallsSound(s)
         /\ s.rt.state \notin Waiting \cup {"ProgramPaused"} => Free(s)
BY IdleSound DEF Begins, OwnLoops, MovesSound, MovingIn, Free

LEMMA SameBegins ==
  ASSUME NEW s, NEW c, SameCalls(s, c), Begins(s)
  PROVE  Begins(c)
BY DEF Begins, Quiet, MovingIn, SameCalls, SameMachine, SameDue

\* A new generation: what was scheduled before it finds that it is not for it.
LEMMA NextGeneration ==
  ASSUME NEW s \in All, NEW rt \in Fields, rt.state = s.rt.state,
         rt.replacements = s.rt.replacements, rt.program = s.rt.program,
         rt.generation = s.rt.generation + 1,
         rt.request = 0, rt.controller = 0, rt.waitTimer = 0,
         NEW c, c = [Cleared(s) EXCEPT !.rt = rt]
  PROVE  /\ c \in All /\ c.rt = rt /\ SameBuilds(s, c) /\ c.m = s.m /\ c.threw = s.threw
         /\ c.due.machines = s.due.machines /\ c.due.halts = s.due.halts
         /\ Counted(s) => Counted(c) /\ ~MovingIn(c)
         /\ CallsSound(s) => Quiet(c)
<1> DEFINE b == Cleared(s)
<1>1. /\ b \in All /\ SameBuilds(s, b) /\ b.m = s.m /\ b.threw = s.threw
      /\ b.due.scheduled = s.due.scheduled /\ b.due.halts = s.due.halts
      /\ b.due.machines = s.due.machines
      /\ Counted(s) => Counted(b)
      /\ CallsSound(s) => Quiet(b)
  BY ClearedIs
<1> HIDE DEF b
<1>2. /\ c \in All /\ c.rt = rt /\ c.m = b.m /\ c.files = b.files /\ c.tasks = b.tasks
      /\ c.due = b.due /\ c.threw = b.threw
  BY <1>1 DEF All, b
<1>3. SameBuilds(s, c)
  BY <1>1, <1>2 DEF SameBuilds
<1>4. ASSUME Counted(s) PROVE Counted(c) /\ ~MovingIn(c)
  <2>1. \A x \in c.due.scheduled :
          x.generation \in Nat /\ s.rt.generation \in Nat /\ x.generation <= s.rt.generation
    BY <1>1, <1>2, <1>4 DEF Counted, All, Fields, Dues, Callbacks
  <2>2. \A x \in c.due.scheduled : x.generation <= rt.generation /\ x.generation # rt.generation
    BY <2>1
  <2>3. Counted(c)
    BY <1>1, <1>2, <1>4, <2>2 DEF Counted, All, Dues
  <2> QED  BY <1>2, <2>2, <2>3 DEF MovingIn
<1> QED  BY <1>1, <1>2, <1>3, <1>4 DEF Quiet

LEMMA NewMachineIs ==
  ASSUME NEW s \in All, NEW owner \in Owners, NEW c, c = NewMachine(s, owner)
  PROVE  /\ Follows(s, c) /\ SameBuilds(s, c) /\ c.rt = s.rt /\ c.m.halt = 0 /\ c.m.owner = owner
         /\ Quiet(s) => Quiet(c)
         /\ MovingIn(c) = MovingIn(s)
<1> DEFINE m == [NoMachine EXCEPT !.owner = owner, !.serial = s.due.machines + 1, !.live = TRUE]
           n == s.due.machines + 1
           due == [s.due EXCEPT !.machines = n]
<1>1. n \in Nat /\ n >= s.due.machines
  BY DEF All, Dues
<1>2. m \in Machines /\ m.owner = owner /\ m.serial = n /\ m.halt = 0
  BY <1>1 DEF NoMachine, Machines, Owners
<1>3. c = [s EXCEPT !.m = m, !.due = due]
  BY DEF NewMachine
<1> HIDE DEF m, n
<1>4. /\ due \in Dues /\ due.machines = n /\ due.halts = s.due.halts /\ due.loads = s.due.loads
      /\ due.scheduled = s.due.scheduled /\ due.live = s.due.live /\ due.timers = s.due.timers
  BY <1>1 DEF All, Dues
<1> HIDE DEF due
<1>5. c \in All /\ c.rt = s.rt /\ c.m = m /\ c.files = s.files /\ c.tasks = s.tasks /\ c.due = due
  BY <1>2, <1>3, <1>4 DEF All
<1>6. SameBuilds(s, c)
  BY <1>4, <1>5 DEF SameBuilds
<1>7. Counted(s) => Counted(c)
  BY <1>2, <1>4, <1>5 DEF Counted, All, Dues
<1>8. (Quiet(s) => Quiet(c)) /\ MovingIn(c) = MovingIn(s)
  BY <1>4, <1>5 DEF Quiet, MovingIn
<1> QED  BY <1>2, <1>5, <1>6, <1>7, <1>8, SameFollows

\* runTool()
LEMMA RunToolFollows ==
  ASSUME NEW s \in All, NEW tool \in {"assembler", "linker"}, NEW c \in RunTool(s, tool)
  PROVE  Follows(s, c) /\ (Counted(s) /\ CallsSound(s) => CallsSound(c))
<1> DEFINE b == Cleared(s)
           n == s.rt.generation + 1
           rt == [b.rt EXCEPT !.generation = n, !.sources = FALSE, !.stepping = FALSE]
           d == [b EXCEPT !.rt = rt]
           e == NewMachine(d, tool)
<1>1. /\ b \in All /\ SameBuilds(s, b) /\ b.rt.generation = s.rt.generation
      /\ b.rt.request = 0 /\ b.rt.controller = 0 /\ b.rt.waitTimer = 0
  BY ClearedIs
<1>2. c \in Loop(e)
  <2>1. [b EXCEPT !.rt.generation = @ + 1, !.rt.sources = FALSE, !.rt.stepping = FALSE] = d
    BY <1>1
  <2> HIDE DEF d
  <2> QED  BY <2>1 DEF RunTool
<1>3. n \in Nat
  BY DEF All, Fields
<1>4. n = s.rt.generation + 1
  OBVIOUS
<1> HIDE DEF n
<1>5. /\ rt \in Fields /\ rt.state = s.rt.state /\ rt.replacements = s.rt.replacements
      /\ rt.program = s.rt.program /\ rt.generation = n
      /\ rt.request = 0 /\ rt.controller = 0 /\ rt.waitTimer = 0
  <2> HIDE DEF b
  <2> QED  BY <1>1, <1>3 DEF SameBuilds, All, Fields
<1> HIDE DEF rt
<1>6. /\ d \in All /\ d.rt = rt /\ SameBuilds(s, d)
      /\ Counted(s) => Counted(d) /\ ~MovingIn(d)
      /\ CallsSound(s) => Quiet(d)
  BY <1>4, <1>5, NextGeneration
<1> HIDE DEF d
<1>7. Follows(s, d)
  BY <1>6, SameFollows
<1>8. /\ Follows(d, e) /\ e.m.halt = 0 /\ e.m.owner = tool
      /\ Quiet(d) => Quiet(e)
      /\ MovingIn(e) = MovingIn(d)
  BY <1>6, NewMachineIs DEF Owners
<1>9. e \in All
  BY <1>8 DEF Follows
<1> HIDE DEF e
<1>10. Follows(e, c) /\ (Free(e) => CallsSound(c))
  BY <1>2, <1>9, LoopFollows
<1>11. Counted(s) /\ CallsSound(s) => Free(e)
  BY <1>6, <1>8 DEF Free, OwnLoops, MovingIn
<1>12. Follows(s, c)
  BY <1>7, <1>8, <1>10, FollowsOn
<1> QED  BY <1>10, <1>11, <1>12

\* startProgram()
LEMMA StartiFollows ==
  ASSUME NEW s \in All, NEW c \in Starti(s)
  PROVE  /\ Follows(s, c) /\ c.rt.state \in {"ProgramStopped", "ProgramRunning"}
         /\ Counted(s) /\ CallsSound(s) => Begins(c)
<1> DEFINE b == Cleared(s)
           n == s.rt.generation + 1
           rt == [b.rt EXCEPT !.generation = n, !.sources = TRUE]
           g == [b EXCEPT !.rt = rt]
           d == [g EXCEPT !.files = NoFiles]
           r == SetState(d, "ProgramRunning")
           e == NewMachine(r, "program")
           dead == [e.m EXCEPT !.live = FALSE]
           f == [e EXCEPT !.m = dead]
<1>1. /\ b \in All /\ SameBuilds(s, b) /\ b.rt.generation = s.rt.generation
      /\ b.rt.request = 0 /\ b.rt.controller = 0 /\ b.rt.waitTimer = 0
  BY ClearedIs
<1>2. c = SetState(f, "ProgramStopped") \/ c = e
  <2>1. [b EXCEPT !.rt.generation = @ + 1, !.rt.sources = TRUE, !.files = NoFiles] = d
    BY <1>1
  <2> HIDE DEF d
  <2>2. c \in {SetState([e EXCEPT !.m.live = FALSE], "ProgramStopped")}
                 \cup {e : x \in {s.rt.program} \ {0}}
    BY <2>1 DEF Starti
  <2> HIDE DEF e
  <2>3. [e EXCEPT !.m.live = FALSE] = f
    OBVIOUS
  <2> QED  BY <2>2, <2>3
<1>3. n \in Nat
  BY DEF All, Fields
<1>4. n = s.rt.generation + 1
  OBVIOUS
<1> HIDE DEF n
<1>5. /\ rt \in Fields /\ rt.state = s.rt.state /\ rt.replacements = s.rt.replacements
      /\ rt.program = s.rt.program /\ rt.generation = n
      /\ rt.request = 0 /\ rt.controller = 0 /\ rt.waitTimer = 0
  <2> HIDE DEF b
  <2> QED  BY <1>1, <1>3 DEF SameBuilds, All, Fields
<1> HIDE DEF rt
<1>6. /\ g \in All /\ g.rt = rt /\ SameBuilds(s, g)
      /\ Counted(s) => Counted(g) /\ ~MovingIn(g)
      /\ CallsSound(s) => Quiet(g)
  BY <1>4, <1>5, NextGeneration
<1> HIDE DEF g
<1>7. /\ d \in All /\ d.rt = g.rt /\ d.m = g.m /\ d.files = NoFiles /\ d.tasks = g.tasks /\ d.due = g.due
  BY <1>6 DEF All, NoFiles, Numbered
<1> HIDE DEF d
<1>8. SameCalls(g, d)
  BY <1>7 DEF SameCalls, SameMachine, SameDue
<1>9. FilesLatest(d)
  BY <1>7 DEF FilesLatest, Latest, NoFiles
<1>10. TasksSound(g) => TasksSound(d)
  BY <1>6, <1>7, <1>9 DEF TasksSound, NewestBuild, NoFiles, All, Fields
<1>11. /\ d.rt.replacements = s.rt.replacements /\ d.due.loads = s.due.loads
       /\ d.rt.program = s.rt.program /\ d.tasks = s.tasks /\ d.rt.state = s.rt.state
  BY <1>6, <1>7 DEF SameBuilds
<1>12. "ProgramRunning" \in States /\ StateFits(d, "ProgramRunning")
  BY RestFits DEF States, Building
<1>13. /\ r \in All /\ r.rt.state = "ProgramRunning" /\ SameCalls(d, r)
       /\ r.rt.replacements = d.rt.replacements /\ r.rt.program = d.rt.program
       /\ (TasksSound(d) => BuildsSound(r)) /\ Keeps(d, r)
  BY <1>7, <1>12, SetStateIs
<1> HIDE DEF r
<1>14. Keeps(s, d)
  BY <1>11 DEF Keeps, NewestOnly, Kept
<1>15. Follows(s, r)
  <2>1. Counted(s) => Counted(r)
    BY <1>6, <1>8, <1>13, SameCallsCount
  <2>2. BuildsSound(s) => BuildsSound(r)
    BY <1>6, <1>10, <1>13, SameBuildsKeep DEF BuildsSound
  <2> QED  BY <1>11, <1>13, <1>14, <2>1, <2>2, KeepsOn DEF Follows
<1>16. (Quiet(g) => Quiet(r)) /\ MovingIn(r) = MovingIn(g)
  BY <1>8, <1>13 DEF Quiet, MovingIn, SameCalls, SameDue
<1>17. /\ Follows(r, e) /\ e.rt = r.rt /\ e.m.halt = 0
       /\ (Quiet(r) => Quiet(e)) /\ MovingIn(e) = MovingIn(r)
  BY <1>13, NewMachineIs DEF Owners
<1>18. Counted(s) /\ CallsSound(s) => Begins(e)
  BY <1>6, <1>16, <1>17 DEF Begins
<1>19. Follows(s, e) /\ e \in All
  BY <1>15, <1>17, FollowsOn DEF Follows
<1> HIDE DEF e
<1>20. CASE c = e
  BY <1>13, <1>17, <1>18, <1>19, <1>20
<1>21. CASE c = SetState(f, "ProgramStopped")
  <2>1. /\ dead \in Machines /\ dead.owner = e.m.owner /\ dead.serial = e.m.serial
        /\ dead.halt = e.m.halt /\ dead.wakes = e.m.wakes
    BY <1>19 DEF All, Machines
  <2> HIDE DEF dead
  <2>2. f \in All /\ f.rt = e.rt /\ f.m = dead /\ f.files = e.files /\ f.tasks = e.tasks /\ f.due = e.due
    BY <1>19, <2>1 DEF All
  <2> HIDE DEF f
  <2>3. SameBuilds(e, f) /\ SameCalls(e, f)
    BY <2>1, <2>2 DEF SameBuilds, SameCalls, SameMachine, SameDue
  <2>4. Follows(e, f)
    BY <2>2, <2>3, SameCallsCount, SameFollows
  <2>5. "ProgramStopped" \in States /\ "ProgramStopped" \notin Building \cup {"NotReady"}
    BY DEF States, Blocked, Building
  <2>6. Follows(f, c)
    BY <1>21, <2>2, <2>5, SetStateFollows
  <2>7. c.rt.state = "ProgramStopped" /\ SameCalls(f, c)
    BY <1>21, <2>2, <2>5, SetStateIs
  <2>8. Counted(s) /\ CallsSound(s) => Begins(c)
    BY <1>18, <2>3, <2>7, SameBegins
  <2> QED  BY <1>19, <2>4, <2>6, <2>7, <2>8, FollowsOn
<1> QED  BY <1>2, <1>20, <1>21

LEMMA LoopStepping ==
  ASSUME NEW s \in All, NEW flag \in BOOLEAN, NEW c \in Loop([s EXCEPT !.rt.stepping = flag])
  PROVE  Follows(s, c) /\ (Free(s) => CallsSound(c))
<1> DEFINE rt == [s.rt EXCEPT !.stepping = flag]
           d == [s EXCEPT !.rt = rt]
<1>1. rt \in Fields /\ SameFields(s.rt, rt)
  BY DEF All, Fields, SameFields
<1>2. c \in Loop(d)
  OBVIOUS
<1> HIDE DEF rt
<1>3. Follows(s, d) /\ SameBuilds(s, d) /\ SameCalls(s, d) /\ d \in All
  BY <1>1, FlagsFollow DEF Follows
<1> HIDE DEF d
<1>4. Follows(d, c) /\ (Free(d) => CallsSound(c))
  BY <1>2, <1>3, LoopFollows
<1>5. Free(s) => Free(d)
  BY <1>3 DEF Free, Quiet, OwnLoops, MovingIn, SameBuilds, SameCalls, SameMachine, SameDue
<1> QED  BY <1>3, <1>4, <1>5, FollowsOn

\* What waits or is paused goes on.
LEMMA RunsOn ==
  ASSUME NEW s \in All, NEW c, c = SetState(s, "ProgramRunning")
  PROVE  /\ Follows(s, c) /\ c \in All /\ c.rt.state = "ProgramRunning"
         /\ Quiet(s) /\ OwnLoops(s) /\ MovesSound(s) /\ s.rt.state \in Waiting \cup {"ProgramPaused"}
              => Free(c)
         /\ Begins(s) => Begins(c)
<1>1. "ProgramRunning" \in States /\ "ProgramRunning" \notin Building \cup {"NotReady"}
  BY DEF States, Building
<1>2. Follows(s, c) /\ c \in All
  BY <1>1, SetStateFollows DEF Follows
<1>3. c.rt.state = "ProgramRunning" /\ SameCalls(s, c)
  BY <1>1, SetStateIs
<1>4. ASSUME Quiet(s), OwnLoops(s), MovesSound(s), s.rt.state \in Waiting \cup {"ProgramPaused"}
      PROVE  Free(c)
  <2>1. Quiet(c) /\ OwnLoops(c) /\ MovingIn(c) = MovingIn(s)
    BY <1>3, <1>4 DEF Quiet, OwnLoops, MovingIn, SameCalls, SameMachine, SameDue
  <2>2. c.rt.resumeScheduled = s.rt.resumeScheduled /\ c.m.owner = s.m.owner
    BY <1>3 DEF SameCalls, SameMachine
  <2> QED  BY <1>3, <1>4, <2>1, <2>2 DEF Free, MovesSound, Waiting
<1> QED  BY <1>2, <1>3, <1>4, SameBegins

\* A program that is paused runs again.
LEMMA RunsAgain ==
  ASSUME NEW s \in All, NEW r,
         r = IF s.rt.state = "ProgramPaused" THEN SetState(s, "ProgramRunning") ELSE s
  PROVE  /\ r \in All /\ Follows(s, r)
         /\ s.rt.state = "ProgramPaused" => r.rt.state = "ProgramRunning"
         /\ Begins(s) /\ s.rt.state = "ProgramRunning" => Free(r)
         /\ CallsSound(s) /\ s.rt.state = "ProgramPaused" => Free(r)
         /\ CallsSound(s) /\ s.rt.state = "ProgramRunning" /\ ~MovingIn(s) => Free(r)
<1>1. r \in All /\ Follows(s, r) /\ (s.rt.state = "ProgramPaused" => r.rt.state = "ProgramRunning")
  <2>1. Follows(s, s)
    BY SameFollows DEF SameBuilds
  <2>2. CASE s.rt.state = "ProgramPaused"
    BY <2>2, RunsOn
  <2> QED  BY <2>1, <2>2
<1>2. CallsSound(s) /\ s.rt.state = "ProgramPaused" => Free(r)
  <2>1. CallsSound(s) /\ s.rt.state = "ProgramPaused" => Quiet(s) /\ OwnLoops(s) /\ MovesSound(s)
    BY DEF CallsSound, LiveSound, TimerSound, Quiet
  <2> QED  BY <2>1, RunsOn
<1>3. CallsSound(s) /\ s.rt.state = "ProgramRunning" /\ ~MovingIn(s) => Free(r)
  BY DEF CallsSound, LiveSound, TimerSound, Quiet, Free, Waiting
<1>4. Begins(s) /\ s.rt.state = "ProgramRunning" => Free(r)
  BY BeginsSound DEF Waiting
<1> QED  BY <1>1, <1>2, <1>3, <1>4

\* continue()
LEMMA ContinueFollows ==
  ASSUME NEW s \in All, NEW c \in Continue(s)
  PROVE  /\ Follows(s, c)
         /\ Begins(s) /\ s.rt.state = "ProgramRunning" => CallsSound(c)
         /\ CallsSound(s) /\ s.rt.state = "ProgramPaused" => CallsSound(c)
         /\ CallsSound(s) /\ s.rt.state = "ProgramRunning" /\ ~MovingIn(s) => CallsSound(c)
<1> DEFINE r == IF s.rt.state = "ProgramPaused" THEN SetState(s, "ProgramRunning") ELSE s
<1>1. c \in Loop([r EXCEPT !.rt.stepping = FALSE]) /\ FALSE \in BOOLEAN
  BY DEF Continue
<1>2. /\ r \in All /\ Follows(s, r)
      /\ Begins(s) /\ s.rt.state = "ProgramRunning" => Free(r)
      /\ CallsSound(s) /\ s.rt.state = "ProgramPaused" => Free(r)
      /\ CallsSound(s) /\ s.rt.state = "ProgramRunning" /\ ~MovingIn(s) => Free(r)
  BY RunsAgain
<1> HIDE DEF r
<1>3. Follows(r, c) /\ (Free(r) => CallsSound(c))
  BY <1>1, <1>2, LoopStepping
<1> QED  BY <1>2, <1>3, FollowsOn

\* resumeWait(): whoever calls it, the other that could have ended the wait is gone.
LEMMA ResumeWaitFollows ==
  ASSUME NEW s \in All, NEW c \in ResumeWait(s)
  PROVE  /\ Follows(s, c)
         /\ OwnLoops(s) /\ MovesSound(s) /\ Endable(s)
              /\ (s.rt.state # "ProgramWaitPause" => CallsSound(s)) => CallsSound(c)
<1>1. CASE s.rt.state # "ProgramWaitPause"
  <2>1. c = s
    BY <1>1 DEF ResumeWait
  <2> QED  BY <1>1, <2>1, SameFollows DEF SameBuilds
<1>2. CASE s.rt.state = "ProgramWaitPause"
  <2> DEFINE b == Cleared(s)
             r == SetState(b, "ProgramRunning")
  <2>1. c \in Loop(r)
    BY <1>2 DEF ResumeWait
  <2>2. /\ b \in All /\ SameBuilds(s, b) /\ b.m = s.m
        /\ b.rt.generation = s.rt.generation /\ b.rt.resumeScheduled = s.rt.resumeScheduled
        /\ b.due.scheduled = s.due.scheduled
        /\ Counted(s) => Counted(b)
        /\ Endable(s) => Quiet(b)
    BY ClearedIs
  <2> HIDE DEF b
  <2>3. Follows(s, b) /\ b.rt.state = s.rt.state
    BY <2>2, SameFollows DEF SameBuilds
  <2>4. OwnLoops(s) /\ MovesSound(s) => OwnLoops(b) /\ MovesSound(b)
    BY <2>2, <2>3 DEF OwnLoops, MovesSound, MovingIn
  <2>5. /\ Follows(b, r) /\ r \in All
        /\ Quiet(b) /\ OwnLoops(b) /\ MovesSound(b) => Free(r)
    BY <1>2, <2>2, <2>3, RunsOn DEF Waiting
  <2> HIDE DEF r
  <2>6. Follows(r, c) /\ (Free(r) => CallsSound(c))
    BY <2>1, <2>5, LoopFollows
  <2>7. Follows(s, c)
    BY <2>3, <2>5, <2>6, FollowsOn
  <2> QED  BY <2>2, <2>4, <2>5, <2>6, <2>7
<1> QED  BY <1>1, <1>2

\* resumeRead()
LEMMA ResumeReadFollows ==
  ASSUME NEW s \in All, NEW c \in ResumeRead(s)
  PROVE  Follows(s, c) /\ (CallsSound(s) => CallsSound(c))
<1>1. CASE s.rt.state # "ProgramReadlinePause"
  <2>1. c = s
    BY <1>1 DEF ResumeRead
  <2> QED  BY <2>1, SameFollows DEF SameBuilds
<1>2. CASE s.rt.state = "ProgramReadlinePause"
  <2> DEFINE timers == {t \in s.due.timers : t.halt # s.rt.waitTimer}
             due == [s.due EXCEPT !.timers = timers]
             rt == [s.rt EXCEPT !.waitTimer = 0]
             d == [s EXCEPT !.due = due, !.rt = rt]
             r == SetState(d, "ProgramRunning")
  <2>1. c \in Loop(r)
    <3>1. c \in Loop(SetState([s EXCEPT !.due.timers = {t \in @ : t.halt # s.rt.waitTimer},
                                        !.rt.waitTimer = 0], "ProgramRunning"))
      BY <1>2 DEF ResumeRead
    <3>2. [s EXCEPT !.due.timers = {t \in @ : t.halt # s.rt.waitTimer}, !.rt.waitTimer = 0] = d
      OBVIOUS
    <3> HIDE DEF d
    <3> QED  BY <3>1, <3>2
  <2>2. timers \in SUBSET Timers
    BY DEF All, Dues
  <2>3. CallsSound(s) => s.due.live = {} /\ timers = {}
    BY <1>2 DEF CallsSound, LiveSound, TimerSound
  <2> HIDE DEF timers
  <2>4. /\ due \in Dues /\ due.timers = timers /\ due.live = s.due.live /\ due.loads = s.due.loads
        /\ due.scheduled = s.due.scheduled /\ due.halts = s.due.halts
        /\ due.machines = s.due.machines
    BY <2>2 DEF All, Dues
  <2>5. /\ rt \in Fields /\ rt.state = s.rt.state /\ rt.replacements = s.rt.replacements
        /\ rt.program = s.rt.program /\ rt.generation = s.rt.generation
        /\ rt.resumeScheduled = s.rt.resumeScheduled
        /\ rt.request = s.rt.request /\ rt.controller = s.rt.controller /\ rt.waitTimer = 0
    BY DEF All, Fields
  <2> HIDE DEF due, rt
  <2>6. /\ d \in All /\ d.rt = rt /\ d.m = s.m /\ d.files = s.files /\ d.tasks = s.tasks /\ d.due = due
    BY <2>4, <2>5 DEF All
  <2> HIDE DEF d
  <2>7. SameBuilds(s, d)
    BY <2>4, <2>5, <2>6 DEF SameBuilds
  <2>8. Counted(s) => Counted(d)
    BY <2>4, <2>5, <2>6 DEF Counted, All, Dues
  <2>9. Follows(s, d)
    BY <2>6, <2>7, <2>8, SameFollows
  <2>10. CallsSound(s) => Quiet(d) /\ OwnLoops(d) /\ MovesSound(d)
    <3>1. OwnLoops(s) /\ MovesSound(s) => OwnLoops(d) /\ MovesSound(d)
      BY <2>4, <2>5, <2>6 DEF OwnLoops, MovesSound, MovingIn
    <3> QED  BY <2>3, <2>4, <2>6, <3>1 DEF CallsSound, Quiet
  <2>11. d.rt.state \in Waiting
    BY <1>2, <2>5, <2>6 DEF Waiting
  <2>12. Follows(d, r) /\ r \in All /\ (Quiet(d) /\ OwnLoops(d) /\ MovesSound(d) => Free(r))
    BY <2>6, <2>11, RunsOn
  <2> HIDE DEF r
  <2>13. Follows(r, c) /\ (Free(r) => CallsSound(c))
    BY <2>1, <2>12, LoopFollows
  <2>14. Follows(s, c)
    BY <2>9, <2>12, <2>13, FollowsOn
  <2> QED  BY <2>10, <2>12, <2>13, <2>14
<1> QED  BY <1>1, <1>2

-----------------------------------------------------------------------------
(* Builds and loads: a task ends, or awaits something else. *)

LEMMA TasksAre ==
  ASSUME NEW s \in All, NEW ts \in SUBSET Tasks, NEW c, c = [s EXCEPT !.tasks = ts]
  PROVE  /\ c \in All /\ c.rt = s.rt /\ c.m = s.m /\ c.files = s.files /\ c.due = s.due
         /\ c.tasks = ts /\ c.threw = s.threw /\ SameCalls(s, c)
         /\ \A n : Latest(c, n) = Latest(s, n)
         /\ FilesLatest(c) = FilesLatest(s)
<1>1. /\ c \in All /\ c.rt = s.rt /\ c.m = s.m /\ c.files = s.files /\ c.due = s.due
      /\ c.tasks = ts /\ c.threw = s.threw
  BY DEF All
<1>2. SameCalls(s, c)
  BY <1>1 DEF SameCalls, SameMachine, SameDue
<1> QED  BY <1>1, <1>2 DEF Latest, FilesLatest

\* In a state in which it need not be under way, it may go.
FitsWithout(s, c, t) ==
  \A state : StateFits(s, state) /\ (t.id # s.rt.replacements \/ state \notin Building)
                => StateFits(c, state)
LEMMA WithoutIs ==
  ASSUME NEW s \in All, NEW t \in Tasks, NEW c, c = [s EXCEPT !.tasks = Without(s, t)]
  PROVE  /\ c \in All /\ c.rt = s.rt /\ c.m = s.m /\ c.files = s.files /\ c.due = s.due
         /\ c.tasks = Without(s, t) /\ SameCalls(s, c)
         /\ TasksSound(s) => TasksSound(c)
         /\ FitsWithout(s, c, t)
         /\ KeepsBut(s, c, t.id)
<1> DEFINE ts == Without(s, t)
<1>1. ts \in SUBSET Tasks /\ \A u : u \in ts <=> u \in s.tasks /\ u.id # t.id
  BY DEF All, Without
<1>7. c = [s EXCEPT !.tasks = ts] /\ ts = Without(s, t)
  OBVIOUS
<1> HIDE DEF ts
<1>2. /\ c \in All /\ c.rt = s.rt /\ c.m = s.m /\ c.files = s.files /\ c.due = s.due
      /\ c.tasks = ts /\ SameCalls(s, c)
      /\ \A n : Latest(c, n) = Latest(s, n)
      /\ FilesLatest(c) = FilesLatest(s)
  BY <1>1, <1>7, TasksAre
<1>3. \A u \in ts : u \in s.tasks /\ NewestBuild(c, u) = NewestBuild(s, u)
  BY <1>1, <1>2 DEF NewestBuild
<1>4. TasksSound(s) => TasksSound(c)
  BY <1>2, <1>3 DEF TasksSound
<1>5. ASSUME NEW state, StateFits(s, state),
             t.id # s.rt.replacements \/ state \notin Building
      PROVE  StateFits(c, state)
  <2>1. ASSUME t.id # s.rt.replacements, Someone(s) PROVE Someone(c)
    BY <1>1, <1>2, <2>1 DEF Someone
  <2>2. \A u : NewestBuild(c, u) => NewestBuild(s, u) /\ u \in c.tasks /\ u \in s.tasks
    BY <1>2, <1>3 DEF NewestBuild
  <2> QED  BY <1>2, <1>5, <2>1, <2>2 DEF StateFits
<1>6. KeepsBut(s, c, t.id)
  BY <1>1, <1>2 DEF KeepsBut, NewestOnly, Kept
<1>8. FitsWithout(s, c, t)
  BY <1>5 DEF FitsWithout
<1> QED  BY <1>2, <1>4, <1>6, <1>7, <1>8

\* The end of a build: the one that asked for a check or a link is the newest.
LEMMA EndedIs ==
  ASSUME NEW s \in All, NEW t \in Tasks, NEW c, c = Ended(s, t)
  PROVE  /\ c \in All /\ c.m = s.m /\ c.files = s.files /\ c.due = s.due
         /\ c.tasks = Without(s, t) /\ SameCalls(s, c)
         /\ c.rt.state = s.rt.state /\ c.rt.replacements = s.rt.replacements
         /\ c.rt.program = s.rt.program
         /\ t.id # s.rt.replacements => c.rt = s.rt
         /\ TasksSound(s) => TasksSound(c)
         /\ FitsWithout(s, c, t)
         /\ KeepsBut(s, c, t.id)
<1> DEFINE d == [s EXCEPT !.tasks = Without(s, t)]
           flag == IF t.id = s.rt.replacements THEN FALSE ELSE s.rt.assembleOnly
           rt == [s.rt EXCEPT !.assembleOnly = flag]
<1>1. /\ d \in All /\ d.rt = s.rt /\ d.m = s.m /\ d.files = s.files /\ d.due = s.due
      /\ d.tasks = Without(s, t) /\ SameCalls(s, d)
      /\ TasksSound(s) => TasksSound(d)
      /\ FitsWithout(s, d, t)
      /\ KeepsBut(s, d, t.id)
  BY WithoutIs
<1>2. c = [d EXCEPT !.rt = rt]
  BY DEF Ended
<1>3. flag \in BOOLEAN
  BY DEF All, Fields
<1>4. t.id # s.rt.replacements => flag = s.rt.assembleOnly
  OBVIOUS
<1> HIDE DEF flag, d
<1>5. rt \in Fields /\ SameFields(s.rt, rt) /\ (t.id # s.rt.replacements => rt = s.rt)
  BY <1>3, <1>4 DEF All, Fields, SameFields
<1> HIDE DEF rt
<1>6. /\ SameBuilds(d, c) /\ SameCalls(d, c) /\ c.m = d.m /\ c.due = d.due /\ c.rt = rt
      /\ c.tasks = d.tasks /\ c \in All
  BY <1>1, <1>2, <1>5, FlagsFollow DEF Follows
<1>7. /\ \A n : Latest(c, n) = Latest(d, n)
      /\ FilesLatest(c) = FilesLatest(d) /\ Someone(c) = Someone(d)
      /\ \A u : NewestBuild(c, u) = NewestBuild(d, u)
  BY <1>6 DEF SameBuilds, Latest, FilesLatest, Someone, NewestBuild
<1>8. TasksSound(s) => TasksSound(c)
  BY <1>1, <1>6, SameBuildsKeep
<1>9. \A state : StateFits(d, state) => StateFits(c, state)
  BY <1>6, <1>7 DEF StateFits
<1>10. FitsWithout(s, c, t)
  BY <1>1, <1>9 DEF FitsWithout
<1>12. KeepsBut(s, c, t.id)
  <2>1. KeepsBut(d, c, t.id)
    BY <1>6, SameBuildsKeep, KeepsAllBut DEF SameBuilds, KeepsBut, NewestOnly, Kept
  <2> QED  BY <1>1, <2>1, KeepsButOn
<1>11. SameCalls(s, c)
  BY <1>1, <1>6 DEF SameCalls, SameMachine, SameDue
<1> QED  BY <1>1, <1>5, <1>6, <1>8, <1>10, <1>11, <1>12 DEF SameBuilds, SameFields

\* buildProject()'s catch and finally: a runtime that says that it builds stops saying so.
LEMMA FailedIs ==
  ASSUME NEW s \in All, BuildsSound(s), NEW t \in Tasks, NEW c, c = Failed(s, t)
  PROVE  /\ c \in All /\ BuildsSound(c) /\ KeepsBut(s, c, t.id)
         /\ Counted(s) => Counted(c)
         /\ CallsSound(s) => CallsSound(c)
         /\ t.id # s.rt.replacements => c.rt = s.rt /\ c.m = s.m /\ c.files = s.files
<1> DEFINE d == Ended(s, t)
<1>5. d = Ended(s, t) /\ TasksSound(s) /\ StateFits(s, s.rt.state)
  BY DEF BuildsSound
<1>1. /\ d \in All /\ d.m = s.m /\ d.files = s.files /\ d.due = s.due
      /\ SameCalls(s, d)
      /\ d.rt.state = s.rt.state
      /\ t.id # s.rt.replacements => d.rt = s.rt
      /\ TasksSound(d) /\ FitsWithout(s, d, t)
      /\ KeepsBut(s, d, t.id)
  BY <1>5, EndedIs
<1> HIDE DEF d
<1>6. t.id # s.rt.replacements \/ s.rt.state \notin Building => StateFits(d, s.rt.state)
  BY <1>1, <1>5 DEF FitsWithout
<1>2. (Counted(s) => Counted(d)) /\ (CallsSound(s) => CallsSound(d))
  BY <1>1, SameCallsCount, SameCallsRest
<1>3. CASE t.id = s.rt.replacements /\ s.rt.state \in Building
  <2>1. c = SetState(d, "Ready")
    BY <1>3 DEF Failed, d
  <2>2. "Ready" \in States /\ StateFits(d, "Ready") /\ Rests("Ready")
    BY RestFits DEF States, Building, Rests, Waiting
  <2>3. /\ c \in All /\ BuildsSound(c) /\ SameCalls(d, c) /\ Keeps(d, c) /\ c.rt.state = "Ready"
    BY <1>1, <2>1, <2>2, SetStateIs
  <2>4. KeepsBut(d, c, t.id)
    BY <2>3, KeepsAllBut
  <2>5. (Counted(d) => Counted(c)) /\ (CallsSound(d) => CallsSound(c))
    BY <2>2, <2>3, SameCallsCount, SameCallsRest
  <2> QED  BY <1>1, <1>2, <1>3, <2>3, <2>4, <2>5, KeepsButOn
<1>4. CASE ~(t.id = s.rt.replacements /\ s.rt.state \in Building)
  <2>1. c = d
    BY <1>4 DEF Failed, d
  <2> QED  BY <1>1, <1>2, <1>4, <1>6, <2>1 DEF BuildsSound
<1> QED  BY <1>3, <1>4

\* A build goes on to its next await.
FitsAwaiting(s, c, t, at) ==
  \A state :
    StateFits(s, state) /\ (at = "built" => state \notin Building)
      /\ (t.kind = "module" /\ at \in {"link", "tool", "built"} => state # "Assembling")
      => StateFits(c, state)
LEMMA AwaitingIs ==
  ASSUME NEW s \in All, NEW t \in Tasks, t.kind # "load", NEW at \in Places,
         t.kind = "module" => at \notin {"download", "defer"},
         NEW v \in s.tasks, v.id = t.id, v.kind = t.kind,
         NEW c, c = Awaiting(s, t, at)
  PROVE  /\ c \in All /\ c.rt = s.rt /\ c.m = s.m /\ c.files = s.files /\ c.due = s.due
         /\ SameCalls(s, c)
         /\ TasksSound(s) => TasksSound(c)
         /\ FitsAwaiting(s, c, t, at)
         /\ \E w \in c.tasks : w.id = t.id /\ w.kind = t.kind /\ w.at = at
         /\ KeepsBut(s, c, t.id)
<1> DEFINE w == [t EXCEPT !.at = at]
           ts == Without(s, t) \cup {w}
<1>1. w \in Tasks /\ w.id = t.id /\ w.kind = t.kind /\ w.at = at
  BY DEF Tasks
<1>2. c = [s EXCEPT !.tasks = ts]
  BY DEF Awaiting
<1> HIDE DEF w
<1>3. ts \in SUBSET Tasks /\ \A u : u \in ts <=> (u \in s.tasks /\ u.id # t.id) \/ u = w
  BY <1>1 DEF All, Without
<1> HIDE DEF ts
<1>4. /\ c \in All /\ c.rt = s.rt /\ c.m = s.m /\ c.files = s.files /\ c.due = s.due
      /\ c.tasks = ts /\ SameCalls(s, c)
      /\ \A n : Latest(c, n) = Latest(s, n)
      /\ FilesLatest(c) = FilesLatest(s)
  BY <1>2, <1>3, TasksAre
<1>5. \A u \in s.tasks : u.id # t.id => NewestBuild(c, u) = NewestBuild(s, u)
  BY <1>3, <1>4 DEF NewestBuild
<1>6. NewestBuild(c, w) = NewestBuild(s, v)
  BY <1>1, <1>3, <1>4 DEF NewestBuild
<1>7. TasksSound(s) => TasksSound(c)
  <2> SUFFICES ASSUME TasksSound(s) PROVE TasksSound(c)
    OBVIOUS
  <2>1. ASSUME NEW u \in ts
        PROVE  /\ u.id >= 1 /\ u.id <= s.rt.replacements
               /\ u.kind = "load" => u.id \in s.due.loads
               /\ u.kind = "module" => u.at \notin {"download", "defer"}
               /\ NewestBuild(c, u) => FilesLatest(s)
    <3>1. CASE u = w
      BY <1>1, <1>6, <3>1 DEF TasksSound
    <3>2. CASE u # w
      BY <1>3, <1>5, <3>2 DEF TasksSound
    <3> QED  BY <3>1, <3>2
  <2>2. \A u, x \in ts : u.id = x.id => u = x
    BY <1>1, <1>3 DEF TasksSound
  <2> QED  BY <1>4, <2>1, <2>2 DEF TasksSound
<1>8. ASSUME NEW state, StateFits(s, state), at = "built" => state \notin Building,
             t.kind = "module" /\ at \in {"link", "tool", "built"} => state # "Assembling"
      PROVE  StateFits(c, state)
  <2>1. ASSUME Someone(s) PROVE Someone(c)
    <3>1. CASE \E u \in s.tasks : u.id = s.rt.replacements
      BY <1>1, <1>3, <1>4, <3>1 DEF Someone
    <3> QED  BY <1>4, <2>1, <3>1 DEF Someone
  <2>2. ASSUME NEW u \in c.tasks, NewestBuild(c, u)
        PROVE  /\ u.at = "built" => state \notin Building
               /\ u.kind = "module" /\ u.at \in {"link", "tool", "built"} => state # "Assembling"
    <3>1. CASE u = w
      BY <1>1, <1>8, <3>1
    <3>2. CASE u # w
      BY <1>3, <1>4, <1>5, <1>8, <2>2, <3>2 DEF StateFits
    <3> QED  BY <3>1, <3>2
  <2> QED  BY <1>4, <1>8, <2>1, <2>2 DEF StateFits
<1>9. KeepsBut(s, c, t.id)
  BY <1>3, <1>4 DEF KeepsBut, NewestOnly, Kept
<1>10. \E x \in c.tasks : x.id = t.id /\ x.kind = t.kind /\ x.at = at
  BY <1>1, <1>3, <1>4
<1>11. FitsAwaiting(s, c, t, at)
  BY <1>8 DEF FitsAwaiting
<1> QED  BY <1>4, <1>7, <1>9, <1>10, <1>11

\* What a build's step leads to: the others are as they were.
GoesAhead(s, c, id) ==
  /\ c \in All /\ BuildsSound(c) /\ KeepsBut(s, c, id)
  /\ Counted(s) => Counted(c)

LEMMA SameGoes ==
  ASSUME NEW s, NEW c, NEW d, NEW id, GoesAhead(s, c, id), Follows(c, d)
  PROVE  GoesAhead(s, d, id)
BY KeepsAllBut, KeepsButOn DEF GoesAhead, Follows

\* The newest build writes files of its own.
LEMMA NewFileIs ==
  ASSUME NEW s \in All, NEW t, NewestBuild(s, t), NEW new \in Numbered,
         new.project \in {s.files.project, t.id}, new.object \in {s.files.object, t.id},
         new.image \in {s.files.image, t.id}, NEW c, c = [s EXCEPT !.files = new]
  PROVE  /\ c \in All /\ c.rt = s.rt /\ c.m = s.m /\ c.tasks = s.tasks /\ c.due = s.due
         /\ c.files = new /\ SameCalls(s, c) /\ Keeps(s, c)
         /\ TasksSound(s) => TasksSound(c) /\ FilesLatest(c)
         /\ BuildsSound(s) => BuildsSound(c)
<1>1. /\ c \in All /\ c.rt = s.rt /\ c.m = s.m /\ c.tasks = s.tasks /\ c.due = s.due /\ c.files = new
  BY DEF All
<1>2. SameCalls(s, c)
  BY <1>1 DEF SameCalls, SameMachine, SameDue
<1>3. Keeps(s, c)
  BY <1>1 DEF Keeps, NewestOnly, Kept
<1>4. \A n : Latest(c, n) = Latest(s, n)
  BY <1>1 DEF Latest
<1>5. t.id = s.rt.replacements /\ s.rt.replacements \in Nat
  BY DEF NewestBuild, All, Fields
<1>6. Latest(c, t.id)
  <2>1. t.id + 1 .. c.rt.replacements = {}
    BY <1>1, <1>5
  <2> QED  BY <2>1 DEF Latest
<1>7. ASSUME TasksSound(s) PROVE FilesLatest(c)
  <2>1. FilesLatest(s)
    BY <1>7 DEF TasksSound, NewestBuild
  <2> QED  BY <1>1, <1>4, <1>6, <2>1 DEF FilesLatest
<1>8. ASSUME TasksSound(s) PROVE TasksSound(c)
  <2>1. \A u : NewestBuild(c, u) = NewestBuild(s, u)
    BY <1>1 DEF NewestBuild
  <2>2. /\ new.project <= c.rt.replacements /\ new.object <= c.rt.replacements
        /\ new.image <= c.rt.replacements
    BY <1>1, <1>5, <1>8 DEF TasksSound
  <2> QED  BY <1>1, <1>7, <1>8, <2>1, <2>2 DEF TasksSound
<1>9. ASSUME BuildsSound(s) PROVE BuildsSound(c)
  <2>1. \A u : NewestBuild(c, u) = NewestBuild(s, u)
    BY <1>1 DEF NewestBuild
  <2>2. FilesLatest(c) /\ TasksSound(c)
    BY <1>7, <1>8, <1>9 DEF BuildsSound
  <2>3. StateFits(c, c.rt.state)
    BY <1>1, <1>9, <2>1, <2>2 DEF BuildsSound, StateFits, Someone
  <2> QED  BY <2>2, <2>3 DEF BuildsSound
<1> QED  BY <1>1, <1>2, <1>3, <1>7, <1>8, <1>9

\* The project's files, staged.
LEMMA StagedIs ==
  ASSUME NEW s \in All, BuildsSound(s), NEW t \in Tasks, t.kind \notin {"load", "module"},
         t.id = s.rt.replacements, NEW v \in s.tasks, v.id = t.id, v.kind = t.kind,
         NEW c, c = Staged(s, t)
  PROVE  GoesAhead(s, c, t.id) /\ (CallsSound(s) => CallsSound(c))
<1> DEFINE d == Awaiting(s, t, "defer")
           new == [d.files EXCEPT !.project = t.id]
<1>1. c = [d EXCEPT !.files = new]
  BY DEF Staged
<1>2. "defer" \in Places
  BY DEF Places
<1>3. /\ d \in All /\ d.rt = s.rt /\ SameCalls(s, d) /\ (TasksSound(s) => TasksSound(d))
      /\ FitsAwaiting(s, d, t, "defer")
      /\ \E w \in d.tasks : w.id = t.id /\ w.kind = t.kind /\ w.at = "defer"
      /\ KeepsBut(s, d, t.id)
  BY <1>2, AwaitingIs
<1>4. BuildsSound(d)
  <2>1. \A state : StateFits(s, state) => StateFits(d, state)
    BY <1>3 DEF FitsAwaiting
  <2>2. TasksSound(s) /\ StateFits(s, s.rt.state)
    BY DEF BuildsSound
  <2> HIDE DEF d
  <2>3. TasksSound(d) /\ StateFits(d, s.rt.state) /\ d.rt = s.rt
    BY <1>3, <2>1, <2>2
  <2> QED  BY <2>3 DEF BuildsSound
<1>5. PICK w \in d.tasks : NewestBuild(d, w) /\ w.id = t.id
  BY <1>3 DEF NewestBuild
<1> HIDE DEF d
<1>6. /\ new \in Numbered /\ new.project = t.id /\ new.object = d.files.object
      /\ new.image = d.files.image
  BY <1>3 DEF All, Numbered, Tasks
<1> HIDE DEF new
<1>7. /\ c \in All /\ c.rt = d.rt /\ SameCalls(d, c) /\ Keeps(d, c)
      /\ (BuildsSound(d) => BuildsSound(c))
  BY <1>1, <1>3, <1>5, <1>6, NewFileIs
<1>8. KeepsBut(d, c, t.id)
  BY <1>7, KeepsAllBut
<1>9. KeepsBut(s, c, t.id)
  BY <1>3, <1>8, KeepsButOn
<1>10. SameCalls(s, c) /\ c.rt.state = s.rt.state
  BY <1>3, <1>7 DEF SameCalls, SameMachine, SameDue
<1> QED  BY <1>4, <1>7, <1>9, <1>10, SameCallsCount, SameCallsRest DEF GoesAhead

\* The link's inputs, and the state of a link.
LEMMA LinkBegunIs ==
  ASSUME NEW s \in All, BuildsSound(s), NEW t \in Tasks, t \in s.tasks, NewestBuild(s, t),
         NEW c, c = LinkBegun(s, t)
  PROVE  GoesAhead(s, c, t.id) /\ (CallsSound(s) => CallsSound(c))
<1> DEFINE d == Awaiting(s, t, "link")
           new == [d.files EXCEPT !.object = t.id]
           e == [d EXCEPT !.files = new]
<1>1. c = SetState(e, "Linking")
  BY DEF LinkBegun
<1>2. "link" \in Places /\ t.kind # "load" /\ TasksSound(s)
  BY DEF Places, NewestBuild, BuildsSound
<1>3. /\ d \in All /\ d.rt = s.rt /\ SameCalls(s, d) /\ (TasksSound(s) => TasksSound(d))
      /\ \E w \in d.tasks : w.id = t.id /\ w.kind = t.kind /\ w.at = "link"
      /\ KeepsBut(s, d, t.id)
  BY <1>2, AwaitingIs
<1>4. PICK w \in d.tasks : NewestBuild(d, w) /\ w.id = t.id /\ w.at = "link"
  BY <1>3 DEF NewestBuild
<1> HIDE DEF d
<1>5. /\ new \in Numbered /\ new.project = d.files.project /\ new.object = t.id
      /\ new.image = d.files.image
  BY <1>3 DEF All, Numbered, Tasks
<1> HIDE DEF new
<1>6. /\ e \in All /\ e.rt = d.rt /\ e.tasks = d.tasks /\ SameCalls(d, e) /\ Keeps(d, e)
      /\ TasksSound(e) /\ FilesLatest(e)
  BY <1>2, <1>3, <1>4, <1>5, NewFileIs
<1> HIDE DEF e
<1>7. StateFits(e, "Linking")
  <2>1. Someone(e)
    BY <1>4, <1>6 DEF Someone, NewestBuild
  <2>2. \A u \in e.tasks : NewestBuild(e, u) => u = w
    BY <1>4, <1>6 DEF NewestBuild, TasksSound
  <2> QED  BY <1>4, <1>6, <2>1, <2>2 DEF StateFits
<1>8. "Linking" \in States /\ Rests("Linking")
  BY DEF States, Building, Rests, Waiting
<1>9. c \in All /\ BuildsSound(c) /\ SameCalls(e, c) /\ Keeps(e, c) /\ c.rt.state = "Linking"
  BY <1>1, <1>6, <1>7, <1>8, SetStateIs
<1>10. KeepsBut(d, e, t.id) /\ KeepsBut(e, c, t.id)
  BY <1>6, <1>9, KeepsAllBut
<1>11. KeepsBut(s, c, t.id)
  BY <1>3, <1>10, KeepsButOn
<1>12. SameCalls(s, c)
  BY <1>3, <1>6, <1>9 DEF SameCalls, SameMachine, SameDue
<1> QED  BY <1>8, <1>9, <1>11, <1>12, SameCallsCount, SameCallsRest DEF GoesAhead

\* A tool's run: it ends at once, or is waited for.
LEMMA ToolRunIs ==
  ASSUME NEW s \in All, BuildsSound(s), Counted(s), NEW t \in Tasks, t \in s.tasks,
         NewestBuild(s, t), NEW tool \in {"assembler", "linker"}, t.at \in {"defer", "link"},
         NEW c \in ToolRun(s, t, tool)
  PROVE  GoesAhead(s, c, t.id) /\ (CallsSound(s) => CallsSound(c))
<1>1. PICK r \in RunTool(s, tool) :
        c = IF r.threw THEN Failed(r, t)
            ELSE Awaiting(r, t, IF Built(t, r.rt.state) THEN "built" ELSE "tool")
  BY DEF ToolRun
<1>2. Follows(s, r) /\ (CallsSound(s) => CallsSound(r))
  BY RunToolFollows
<1>3. r \in All /\ BuildsSound(r) /\ Keeps(s, r) /\ KeepsBut(s, r, t.id)
  BY <1>2, KeepsAllBut DEF Follows
<1>4. CASE r.threw
  <2>1. c = Failed(r, t)
    BY <1>1, <1>4
  <2>2. /\ c \in All /\ BuildsSound(c) /\ KeepsBut(r, c, t.id) /\ (Counted(r) => Counted(c))
        /\ CallsSound(r) => CallsSound(c)
    BY <1>3, <2>1, FailedIs
  <2>3. KeepsBut(s, c, t.id)
    BY <1>3, <2>2, KeepsButOn
  <2> QED  BY <1>2, <2>2, <2>3 DEF GoesAhead, Follows
<1>5. CASE ~r.threw
  <2> DEFINE at == IF Built(t, r.rt.state) THEN "built" ELSE "tool"
  <2>1. c = Awaiting(r, t, at)
    BY <1>1, <1>5
  <2>2. at \in Places /\ at \notin {"download", "defer"}
    BY DEF Places
  <2>3. t.kind # "load"
    BY DEF NewestBuild
  <2>4. PICK v \in r.tasks : v.id = t.id /\ v.kind = t.kind
    BY <1>3 DEF Keeps, Kept
  <2>5. t.kind = "module" => t.at = "link" /\ s.rt.state # "Assembling"
    BY DEF BuildsSound, TasksSound, StateFits
  <2>6. t.kind = "module" => r.rt.state # "Assembling"
    BY <1>3, <2>5 DEF Keeps
  <2>7. at = "built" => r.rt.state \notin Building
    BY <2>6 DEF Built, Building
  <2> HIDE DEF at
  <2>8. /\ c \in All /\ c.rt = r.rt /\ SameCalls(r, c)
        /\ TasksSound(r) => TasksSound(c)
        /\ FitsAwaiting(r, c, t, at)
        /\ KeepsBut(r, c, t.id)
    BY <1>3, <2>1, <2>2, <2>3, <2>4, AwaitingIs
  <2>9. BuildsSound(c)
    <3>1. TasksSound(r) /\ StateFits(r, r.rt.state)
      BY <1>3 DEF BuildsSound
    <3>2. StateFits(c, r.rt.state)
      BY <2>6, <2>7, <2>8, <3>1, Zenon DEF FitsAwaiting
    <3> QED  BY <2>8, <3>1, <3>2 DEF BuildsSound
  <2>10. KeepsBut(s, c, t.id)
    BY <1>3, <2>8, KeepsButOn
  <2> QED  BY <1>2, <2>8, <2>9, <2>10, SameCallsCount, SameCallsRest DEF GoesAhead, Follows
<1> QED  BY <1>4, <1>5

\* A machine that is taken away: its halt is none any more.
LEMMA UnhaltedIs ==
  ASSUME NEW s \in All, NEW m \in Machines, m.halt = 0, m.serial <= s.m.serial,
         NEW c, c = [s EXCEPT !.m = m]
  PROVE  /\ c \in All /\ SameBuilds(s, c) /\ c.rt = s.rt /\ c.due = s.due /\ c.m = m
         /\ c.files = s.files /\ c.tasks = s.tasks
         /\ Counted(s) => Counted(c)
         /\ Quiet(s) /\ ~MovingIn(s) => Begins(c)
<1>1. /\ c \in All /\ c.rt = s.rt /\ c.due = s.due /\ c.m = m /\ c.files = s.files /\ c.tasks = s.tasks
  BY DEF All
<1>2. Counted(s) => Counted(c)
  <2> SUFFICES ASSUME Counted(s) PROVE Counted(c)
    OBVIOUS
  <2>1. m.serial <= s.due.machines /\ 0 <= s.due.halts
    BY DEF Counted, All, Dues, Machines
  <2> QED  BY <1>1, <2>1 DEF Counted
<1> QED  BY <1>1, <1>2 DEF SameBuilds, Quiet, MovingIn, Begins

\* reuseLink(): the executable that was kept is the newest build's.
LEMMA ReusedIs ==
  ASSUME NEW s \in All, BuildsSound(s), Counted(s), NEW t \in Tasks, t \in s.tasks,
         NewestBuild(s, t), NEW c, c = Reused(s, t)
  PROVE  GoesAhead(s, c, t.id) /\ (CallsSound(s) => CallsSound(c))
<1> DEFINE b == Cleared(s)
           n == s.rt.generation + 1
           rt == [b.rt EXCEPT !.generation = n, !.sources = FALSE]
           g == [b EXCEPT !.rt = rt]
           m == [g.m EXCEPT !.halt = 0]
           h == [g EXCEPT !.m = m]
           new == [h.files EXCEPT !.image = t.id]
           k == [h EXCEPT !.files = new]
           p == TakeProgram(k)
<1>1. /\ b \in All /\ SameBuilds(s, b) /\ b.rt.generation = s.rt.generation
      /\ b.rt.request = 0 /\ b.rt.controller = 0 /\ b.rt.waitTimer = 0
  BY ClearedIs
<1>2. c = Ended(p, t)
  <2>1. [b EXCEPT !.rt.generation = @ + 1, !.rt.sources = FALSE, !.m.halt = 0, !.files.image = t.id] = k
    BY <1>1 DEF All
  <2> HIDE DEF k
  <2> QED  BY <2>1 DEF Reused
<1>3. n \in Nat
  BY DEF All, Fields
<1>4. n = s.rt.generation + 1
  OBVIOUS
<1> HIDE DEF n
<1>5. /\ rt \in Fields /\ rt.state = s.rt.state /\ rt.replacements = s.rt.replacements
      /\ rt.program = s.rt.program /\ rt.generation = n
      /\ rt.request = 0 /\ rt.controller = 0 /\ rt.waitTimer = 0
  <2> HIDE DEF b
  <2> QED  BY <1>1, <1>3 DEF SameBuilds, All, Fields
<1> HIDE DEF rt
<1>6. /\ g \in All /\ SameBuilds(s, g) /\ Counted(g) /\ ~MovingIn(g)
      /\ CallsSound(s) => Quiet(g)
  BY <1>4, <1>5, NextGeneration
<1> HIDE DEF g
<1>7. m \in Machines /\ m.halt = 0 /\ m.serial = g.m.serial /\ m.serial <= g.m.serial
  BY <1>6 DEF All, Machines
<1> HIDE DEF m
<1>8. /\ h \in All /\ SameBuilds(g, h) /\ Counted(h) /\ h.tasks = g.tasks
      /\ Quiet(g) => Begins(h)
  BY <1>6, <1>7, UnhaltedIs
<1> HIDE DEF h
<1>9. NewestBuild(h, t) /\ BuildsSound(h) /\ Keeps(g, h) /\ Keeps(s, g)
  <2>1. NewestBuild(h, t)
    BY <1>6, <1>8 DEF NewestBuild, SameBuilds
  <2>2. BuildsSound(g) /\ Keeps(s, g)
    BY <1>6, SameBuildsKeep
  <2> QED  BY <1>8, <2>1, <2>2, SameBuildsKeep
<1>10. /\ new \in Numbered /\ new.project = h.files.project /\ new.object = h.files.object
       /\ new.image = t.id
  BY <1>8 DEF All, Numbered, Tasks
<1> HIDE DEF new
<1>11. /\ k \in All /\ k.rt = h.rt /\ k.files = new /\ SameCalls(h, k) /\ Keeps(h, k)
       /\ FilesLatest(k) /\ BuildsSound(k)
  BY <1>8, <1>9, <1>10, NewFileIs DEF BuildsSound
<1> HIDE DEF k
<1>12. t.id # 0
  BY DEF BuildsSound, TasksSound
<1>13. /\ p \in All /\ SameCalls(k, p) /\ p.rt.state = "ProgramLoaded" /\ BuildsSound(p)
       /\ Keeps(k, p)
  BY <1>10, <1>11, <1>12, TakeProgramIs
<1> HIDE DEF p
<1>14. /\ c \in All /\ SameCalls(p, c) /\ c.rt.state = p.rt.state /\ TasksSound(c)
       /\ FitsWithout(p, c, t) /\ KeepsBut(p, c, t.id)
  BY <1>2, <1>13, EndedIs DEF BuildsSound
<1>15. BuildsSound(c)
  <2>1. StateFits(p, p.rt.state) /\ p.rt.state \notin Building
    BY <1>13 DEF BuildsSound, Building
  <2>2. StateFits(c, p.rt.state)
    BY <1>14, <2>1, Zenon DEF FitsWithout
  <2> QED  BY <1>14, <2>2 DEF BuildsSound
<1>16. Counted(c)
  BY <1>8, <1>11, <1>13, <1>14, SameCallsCount
<1>17. KeepsBut(s, c, t.id)
  BY <1>9, <1>11, <1>13, <1>14, KeepsOn, KeepsAllBut, KeepsButOn
<1>18. CallsSound(s) => CallsSound(c)
  BY <1>6, <1>8, <1>11, <1>13, <1>14, SameBegins, BeginsSound
<1> QED  BY <1>14, <1>15, <1>16, <1>17, <1>18 DEF GoesAhead

\* With a new number every build is superseded.
Renumbers(s, f) ==
  /\ f.replacements = s.rt.replacements + 1 /\ f.replacements <= MaxReplacements
  /\ f.program <= f.replacements /\ f.generation = s.rt.generation
  /\ f.request = s.rt.request /\ f.controller = s.rt.controller /\ f.waitTimer = s.rt.waitTimer
Renumbered(s, f, new) == [s EXCEPT !.rt = f, !.files = new]
FilesStay(s, new) == new = s.files \/ new = NoFiles
LEMMA RenumberedIs ==
  ASSUME NEW s \in All, TasksSound(s), NEW f \in Fields, Renumbers(s, f),
         NEW new, FilesStay(s, new),
         NEW d, d = Renumbered(s, f, new)
  PROVE  /\ d \in All /\ d.rt = f /\ d.tasks = s.tasks /\ TasksSound(d)
         /\ Counted(s) => Counted(d)
         /\ Begins(s) => Begins(d)
<1>1. d \in All /\ d.rt = f /\ d.m = s.m /\ d.files = new /\ d.tasks = s.tasks /\ d.due = s.due
  <2>1. new \in Numbered
    BY DEF FilesStay, All, NoFiles, Numbered
  <2> QED  BY <2>1 DEF Renumbered, All
<1> DEFINE r == f.replacements
<1>2. /\ s.rt.replacements \in Nat /\ r \in Nat /\ s.rt.replacements < r /\ r <= MaxReplacements
      /\ f.program <= r /\ f.generation = s.rt.generation /\ f.request = s.rt.request
      /\ f.controller = s.rt.controller /\ f.waitTimer = s.rt.waitTimer
  BY DEF All, Fields, Renumbers
<1> HIDE DEF r
<1>11. d.rt.replacements = r
  BY <1>1 DEF r
<1>3. \A t \in d.tasks : t.id \in Nat /\ t.id <= s.rt.replacements /\ t.id < r
  BY <1>1, <1>2 DEF TasksSound, All, Tasks
<1>4. \A t : ~NewestBuild(d, t)
  BY <1>1, <1>2, <1>3, <1>11 DEF NewestBuild
<1>5. new.project <= r /\ new.object <= r /\ new.image <= r
  BY <1>2 DEF FilesStay, All, Numbered, NoFiles, TasksSound
<1>6. \A t \in d.tasks : /\ t.id >= 1 /\ t.id <= r
                         /\ t.kind = "load" => t.id \in d.due.loads
                         /\ t.kind = "module" => t.at \notin {"download", "defer"}
  BY <1>1, <1>2, <1>3 DEF TasksSound
<1>7. \A t, u \in d.tasks : t.id = u.id => t = u
  BY <1>1 DEF TasksSound
<1>8. TasksSound(d)
  BY <1>1, <1>2, <1>4, <1>5, <1>6, <1>7, <1>11 DEF TasksSound
<1>9. Counted(s) => Counted(d)
  BY <1>1, <1>2 DEF Counted
<1>10. Begins(s) => Begins(d)
  BY <1>1, <1>2 DEF Begins, Quiet, MovingIn
<1> QED  BY <1>1, <1>8, <1>9, <1>10

\* loadElf(): the program is of the new number.
LEMMA LoadedIs ==
  ASSUME NEW s \in All, TasksSound(s), Counted(s), Replaces(s), NEW c, c = Loaded(s)
  PROVE  /\ c \in All /\ BuildsSound(c) /\ Counted(c)
         /\ c.rt.program = c.rt.replacements
         /\ \A t \in s.tasks : Kept(c, t)
         /\ Endable(s) => CallsSound(c)
<1> DEFINE b == Cleared(s)
           n == s.rt.generation + 1
           r == s.rt.replacements + 1
           rt == [b.rt EXCEPT !.generation = n]
           g == [b EXCEPT !.rt = rt]
           m == [g.m EXCEPT !.halt = 0]
           h == [g EXCEPT !.m = m]
           f == [h.rt EXCEPT !.replacements = r, !.program = r, !.resumedByInput = FALSE]
           d == [h EXCEPT !.rt = f]
<1>1. /\ b \in All /\ SameBuilds(s, b) /\ b.rt.generation = s.rt.generation
      /\ b.rt.replacements = s.rt.replacements
      /\ b.rt.request = 0 /\ b.rt.controller = 0 /\ b.rt.waitTimer = 0
      /\ Counted(b) /\ (Endable(s) => Quiet(b))
  BY ClearedIs DEF SameBuilds
<1>2. c = SetState(d, "ProgramLoaded")
  <2>1. [b EXCEPT !.rt.generation = @ + 1, !.rt.replacements = @ + 1,
                  !.rt.program = s.rt.replacements + 1, !.rt.resumedByInput = FALSE,
                  !.m.halt = 0] = d
    BY <1>1 DEF All
  <2> HIDE DEF d
  <2> QED  BY <2>1 DEF Loaded
<1>3. n \in Nat /\ r \in Nat /\ s.rt.replacements < r /\ r <= MaxReplacements
  BY RuntimeAssumption DEF All, Fields, Replaces
<1>4. n = s.rt.generation + 1 /\ r = s.rt.replacements + 1
  OBVIOUS
<1> HIDE DEF n, r
<1>5. /\ rt \in Fields /\ rt.state = s.rt.state /\ rt.replacements = s.rt.replacements
      /\ rt.program = s.rt.program /\ rt.generation = n
      /\ rt.request = 0 /\ rt.controller = 0 /\ rt.waitTimer = 0
  <2> HIDE DEF b
  <2> QED  BY <1>1, <1>3 DEF SameBuilds, All, Fields
<1>6. g.due = b.due /\ g \in All /\ SameBuilds(s, g) /\ Counted(g) /\ ~MovingIn(g)
  <2>1. g.due = b.due
    BY <1>1 DEF All
  <2> HIDE DEF rt, g
  <2>2. g = [Cleared(s) EXCEPT !.rt = rt]
    BY DEF g
  <2> QED  BY <1>4, <1>5, <2>1, <2>2, NextGeneration
<1> HIDE DEF rt, b, g
<1>7. m \in Machines /\ m.halt = 0 /\ m.serial = g.m.serial /\ m.serial <= g.m.serial
  BY <1>6 DEF All, Machines
<1> HIDE DEF m
<1>8. /\ h \in All /\ SameBuilds(g, h) /\ Counted(h) /\ h.tasks = g.tasks
      /\ Quiet(g) => Begins(h)
  BY <1>6, <1>7, UnhaltedIs
<1>9. Endable(s) => Begins(h)
  BY <1>1, <1>6, <1>8 DEF Quiet
<1> HIDE DEF h
<1>10. TasksSound(h) /\ h.tasks = s.tasks /\ h.rt.replacements = s.rt.replacements
  <2>1. TasksSound(g)
    BY <1>6, SameBuildsKeep
  <2> QED  BY <1>6, <1>8, <2>1, SameBuildsKeep DEF SameBuilds
<1>11. /\ f \in Fields /\ f.replacements = r /\ f.program = r /\ f.generation = h.rt.generation
       /\ f.request = h.rt.request /\ f.controller = h.rt.controller
       /\ f.waitTimer = h.rt.waitTimer
  BY <1>3, <1>8 DEF All, Fields
<1> HIDE DEF f
<1>12. d = Renumbered(h, f, h.files)
  BY <1>8 DEF Renumbered, All
<1> HIDE DEF d
<1>17. FilesStay(h, h.files)
  BY DEF FilesStay
<1>13. Renumbers(h, f)
  BY <1>3, <1>4, <1>10, <1>11 DEF Renumbers
<1>14. /\ d \in All /\ d.rt = f /\ d.tasks = h.tasks /\ TasksSound(d)
       /\ Counted(d) /\ (Begins(h) => Begins(d))
  BY <1>8, <1>10, <1>11, <1>12, <1>13, <1>17, RenumberedIs
<1>15. "ProgramLoaded" \in States /\ StateFits(d, "ProgramLoaded")
  BY RestFits DEF States, Building
<1>16. /\ c \in All /\ BuildsSound(c) /\ SameCalls(d, c) /\ c.rt.program = d.rt.program
       /\ c.rt.replacements = d.rt.replacements
       /\ \A t \in d.tasks : Kept(c, t)
  BY <1>2, <1>14, <1>15, SetStateIs
<1>19. Counted(c)
  BY <1>14, <1>16, SameCallsCount
<1>18. Endable(s) => CallsSound(c)
  BY <1>9, <1>14, <1>16, SameBegins, BeginsSound
<1> QED  BY <1>10, <1>11, <1>14, <1>16, <1>18, <1>19

-----------------------------------------------------------------------------
(* The actions. *)

\* What a step may do to the program and to the builds that are superseded.
Wins(s, c) ==
  /\ c.rt.program = s.rt.program \/ c.rt.program = 0 \/ Latest(c, c.rt.program)
  /\ \A t \in s.tasks : \/ t.id = s.rt.replacements \/ Kept(c, t)
                        \/ c.rt = s.rt /\ c.m = s.m /\ c.files = s.files
Arrives(s, c) == c \in All /\ BuildsSound(c) /\ Counted(c) /\ Wins(s, c)

\* What the runtime keeps; a host that steps what is scheduled breaks the second part.
Advance == BInv' /\ Wins(Now, Now') /\ (~StepsMoving /\ CInv => CInv')

LEMMA SetAdvances ==
  ASSUME NEW c, Arrives(Now, c), Set(c), ~StepsMoving /\ CInv => CallsSound(c)
  PROVE  Advance
<1> DEFINE d == Now'
<1>1. c \in All
  BY DEF Arrives
<1>2. /\ d.rt = c.rt /\ d.m = c.m /\ d.files = c.files /\ d.tasks = c.tasks /\ d.due = c.due
      /\ d = [rt |-> c.rt, m |-> c.m, files |-> c.files, tasks |-> c.tasks, due |-> c.due,
              threw |-> FALSE]
  BY DEF Set, Now
<1> HIDE DEF d
<1>3. d \in All
  BY <1>1, <1>2 DEF All
<1>4. SameBuilds(c, d) /\ SameCalls(c, d) /\ d.rt.state = c.rt.state
  BY <1>2 DEF SameBuilds, SameCalls, SameMachine, SameDue
<1>5. BuildsSound(d) /\ Counted(d)
  BY <1>4, SameBuildsKeep, SameCallsCount DEF Arrives
<1>6. \A n : Latest(d, n) = Latest(c, n)
  BY <1>2 DEF Latest
<1>7. \A t : Kept(d, t) = Kept(c, t)
  BY <1>2 DEF Kept
<1>8. Wins(Now, d)
  BY <1>2, <1>6, <1>7 DEF Arrives, Wins
<1>9. CallsSound(c) => CallsSound(d)
  BY <1>4, SameCallsRest
<1>10. Sound(d)
  BY <1>3, <1>5 DEF Sound
<1>11. d = Now'
  BY DEF d
<1> QED  BY <1>8, <1>9, <1>10, <1>11 DEF Advance, BInv, CInv

LEMMA NowIs ==
  ASSUME BInv
  PROVE  /\ Now \in All /\ BuildsSound(Now) /\ TasksSound(Now) /\ Counted(Now)
         /\ Now.rt = runtime /\ Now.m = machine /\ Now.files = files /\ Now.tasks = tasks
         /\ Now.due = pending /\ tasks \subseteq Tasks
<1>1. Now \in All /\ BuildsSound(Now) /\ TasksSound(Now) /\ Counted(Now)
  BY DEF BInv, Sound, BuildsSound
<1>2. /\ Now.rt = runtime /\ Now.m = machine /\ Now.files = files /\ Now.tasks = tasks
      /\ Now.due = pending
  BY DEF Now
<1> QED  BY <1>1, <1>2 DEF All

LEMMA FollowsArrive ==
  ASSUME NEW s, BuildsSound(s), Counted(s), NEW c, Follows(s, c)
  PROVE  Arrives(s, c)
<1>1. \A n : Latest(c, n) = Latest(s, n)
  BY DEF Follows, Keeps, NewestOnly, Latest
<1> QED  BY <1>1 DEF Follows, Keeps, NewestOnly, Arrives, Wins

LEMMA GoesArrive ==
  ASSUME NEW s, Counted(s), NEW c, NEW id, GoesAhead(s, c, id),
         id = s.rt.replacements \/ (c.rt = s.rt /\ c.m = s.m /\ c.files = s.files)
  PROVE  Arrives(s, c)
<1>1. \A n : Latest(c, n) = Latest(s, n)
  BY DEF GoesAhead, KeepsBut, NewestOnly, Latest
<1> QED  BY <1>1 DEF GoesAhead, KeepsBut, NewestOnly, Arrives, Wins

LEMMA FailedAdvances ==
  ASSUME BInv, NEW t \in tasks, Set(Failed(Now, t))
  PROVE  Advance
<1> DEFINE c == Failed(Now, t)
<1>1. /\ Now \in All /\ BuildsSound(Now) /\ Counted(Now) /\ t \in Tasks
  BY NowIs
<1>2. /\ c \in All /\ BuildsSound(c) /\ KeepsBut(Now, c, t.id)
      /\ Counted(Now) => Counted(c)
      /\ CallsSound(Now) => CallsSound(c)
      /\ t.id # Now.rt.replacements => c.rt = Now.rt /\ c.m = Now.m /\ c.files = Now.files
  BY <1>1, FailedIs
<1>3. Set(c)
  OBVIOUS
<1> HIDE DEF c
<1>4. Arrives(Now, c)
  BY <1>1, <1>2, GoesArrive DEF GoesAhead
<1> QED  BY <1>2, <1>3, <1>4, SetAdvances DEF CInv

\* What follows each of a build's awaits.
LEMMA NewestGoes ==
  ASSUME BInv, NEW t \in tasks, t.kind # "load", ~Superseded(Now, t), NEW c \in Goes(t)
  PROVE  GoesAhead(Now, c, t.id) /\ (CallsSound(Now) => CallsSound(c))
<1> DEFINE s == Now
<1>1. /\ s \in All /\ BuildsSound(s) /\ TasksSound(s) /\ Counted(s)
      /\ t \in Tasks /\ t \in s.tasks /\ NewestBuild(s, t)
  BY NowIs DEF NewestBuild, Superseded
<1>2. "Ready" \in States /\ StateFits(s, "Ready") /\ Rests("Ready") /\ "Ready" \notin Building
  BY RestFits DEF States, Building, Rests, Waiting
<1>3. \/ t.at = "download" /\ c = Staged(s, t)
      \/ t.at = "assemble" /\ c = Ended(SetState(s, "Ready"), t)
      \/ t.at = "assemble" /\ c = Awaiting(s, t, "linker")
      \/ t.at \in {"assemble", "linker"} /\ c = LinkBegun(s, t)
      \/ t.at = "defer" /\ c \in ToolRun(s, t, "assembler")
      \/ t.at = "link" /\ c = Reused(s, t)
      \/ t.at = "link" /\ c \in ToolRun(s, t, "linker")
      \/ t.at = "built" /\ c = [Ended(s, t) EXCEPT !.rt.lastLink =
             @ \/ (t.kind = "module" /\ runtime.state = "ProgramLoaded")]
  BY DEF Goes
<1> HIDE DEF s
<1>4. CASE t.at = "download" /\ c = Staged(s, t)
  <2>1. t.kind \notin {"load", "module"} /\ t.id = s.rt.replacements
    BY <1>1, <1>4 DEF TasksSound, NewestBuild
  <2> QED  BY <1>1, <1>4, <2>1, StagedIs DEF s
<1>5. CASE t.at = "assemble" /\ c = Ended(SetState(s, "Ready"), t)
  <2> DEFINE d == SetState(s, "Ready")
  <2>1. /\ d \in All /\ BuildsSound(d) /\ SameCalls(s, d) /\ Keeps(s, d) /\ d.rt.state = "Ready"
    BY <1>1, <1>2, SetStateIs
  <2>2. c = Ended(d, t)
    BY <1>5
  <2> HIDE DEF d
  <2>3. /\ c \in All /\ SameCalls(d, c) /\ c.rt.state = "Ready" /\ TasksSound(c)
        /\ FitsWithout(d, c, t) /\ KeepsBut(d, c, t.id)
    BY <1>1, <2>1, <2>2, EndedIs DEF BuildsSound
  <2>4. StateFits(d, "Ready")
    BY <2>1 DEF BuildsSound
  <2>5. StateFits(c, "Ready")
    BY <1>2, <2>3, <2>4, Zenon DEF FitsWithout
  <2>6. KeepsBut(s, c, t.id)
    BY <2>1, <2>3, KeepsAllBut, KeepsButOn
  <2>7. (Counted(s) => Counted(c)) /\ (CallsSound(s) => CallsSound(c))
    BY <1>2, <2>1, <2>3, SameCallsCount, SameCallsRest
  <2> QED  BY <2>3, <2>5, <2>6, <2>7 DEF GoesAhead, BuildsSound, s
<1>6. CASE t.at = "assemble" /\ c = Awaiting(s, t, "linker")
  <2>1. "linker" \in Places
    BY DEF Places, Awaits
  <2>2. /\ c \in All /\ c.rt = s.rt /\ SameCalls(s, c) /\ TasksSound(c)
        /\ FitsAwaiting(s, c, t, "linker") /\ KeepsBut(s, c, t.id)
    BY <1>1, <1>6, <2>1, AwaitingIs
  <2>3. StateFits(s, s.rt.state)
    BY <1>1 DEF BuildsSound
  <2>4. StateFits(c, s.rt.state)
    BY <2>2, <2>3, Zenon DEF FitsAwaiting
  <2>5. (Counted(s) => Counted(c)) /\ (CallsSound(s) => CallsSound(c))
    BY <2>2, SameCallsCount, SameCallsRest
  <2> QED  BY <2>2, <2>4, <2>5 DEF GoesAhead, BuildsSound, s
<1>7. CASE c = LinkBegun(s, t)
  BY <1>1, <1>7, LinkBegunIs DEF s
<1>8. CASE t.at = "defer" /\ c \in ToolRun(s, t, "assembler")
  BY <1>1, <1>8, ToolRunIs DEF s
<1>9. CASE c = Reused(s, t)
  BY <1>1, <1>9, ReusedIs DEF s
<1>10. CASE t.at = "link" /\ c \in ToolRun(s, t, "linker")
  BY <1>1, <1>10, ToolRunIs DEF s
<1>11. CASE t.at = "built" /\ c = [Ended(s, t) EXCEPT !.rt.lastLink =
              @ \/ (t.kind = "module" /\ runtime.state = "ProgramLoaded")]
  <2> DEFINE d == Ended(s, t)
             flag == d.rt.lastLink \/ (t.kind = "module" /\ runtime.state = "ProgramLoaded")
             rt == [d.rt EXCEPT !.lastLink = flag]
  <2>1. /\ d \in All /\ SameCalls(s, d) /\ d.rt.state = s.rt.state /\ TasksSound(d)
        /\ FitsWithout(s, d, t) /\ KeepsBut(s, d, t.id)
    BY <1>1, EndedIs
  <2>2. c = [d EXCEPT !.rt = rt]
    BY <1>11
  <2> HIDE DEF d
  <2>3. flag \in BOOLEAN
    BY <2>1
  <2> HIDE DEF flag
  <2>4. rt \in Fields /\ SameFields(d.rt, rt)
    BY <2>1, <2>3 DEF All, Fields, SameFields
  <2> HIDE DEF rt
  <2>5. StateFits(s, s.rt.state) /\ s.rt.state \notin Building
    BY <1>1, <1>11 DEF BuildsSound, StateFits
  <2>6. StateFits(d, s.rt.state)
    BY <2>1, <2>5, Zenon DEF FitsWithout
  <2>7. /\ Follows(d, c) /\ SameCalls(d, c) /\ (CallsSound(d) => CallsSound(c))
    BY <2>1, <2>2, <2>4, FlagsFollow
  <2>8. BuildsSound(d)
    BY <2>1, <2>6 DEF BuildsSound
  <2>9. (Counted(s) => Counted(d)) /\ (CallsSound(s) => CallsSound(d))
    BY <2>1, SameCallsCount, SameCallsRest
  <2>10. GoesAhead(s, c, t.id)
    BY <2>1, <2>7, <2>8, <2>9, SameGoes DEF GoesAhead
  <2> QED  BY <2>7, <2>9, <2>10 DEF s
<1> QED  BY <1>3, <1>4, <1>5, <1>6, <1>7, <1>8, <1>9, <1>10, <1>11

LEMMA BuildGoesOnAdvances ==
  ASSUME BInv, NEW t \in tasks, BuildGoesOn(t)
  PROVE  Advance
<1>1. PICK c \in Goes(t) : Set(c) /\ t.kind # "load"
  BY DEF BuildGoesOn
<1>2. CASE Superseded(Now, t)
  <2>1. Set(Failed(Now, t))
    BY <1>1, <1>2 DEF Goes
  <2> QED  BY <2>1, FailedAdvances
<1>3. CASE ~Superseded(Now, t)
  <2>1. GoesAhead(Now, c, t.id) /\ (CallsSound(Now) => CallsSound(c))
    BY <1>1, <1>3, NewestGoes
  <2>2. Arrives(Now, c)
    BY <1>3, <2>1, NowIs, GoesArrive DEF Superseded
  <2> QED  BY <1>1, <2>1, <2>2, SetAdvances DEF CInv
<1> QED  BY <1>2, <1>3

LEMMA BuildFailsAdvances ==
  ASSUME BInv, NEW t \in tasks, BuildFails(t)
  PROVE  Advance
BY FailedAdvances DEF BuildFails

\* A load's task that goes leaves the builds sound: a load is not waited for.
LEMMA LoadGone ==
  ASSUME NEW s \in All, BuildsSound(s), NEW t \in Tasks, t \in s.tasks, t.kind = "load",
         NEW c, c = [s EXCEPT !.tasks = Without(s, t)]
  PROVE  /\ c \in All /\ BuildsSound(c) /\ KeepsBut(s, c, t.id)
         /\ c.rt = s.rt /\ c.m = s.m /\ c.files = s.files /\ c.due = s.due
         /\ Counted(s) => Counted(c)
         /\ CallsSound(s) => CallsSound(c)
<1>1. /\ c \in All /\ c.rt = s.rt /\ c.m = s.m /\ c.files = s.files /\ c.due = s.due
      /\ c.tasks = Without(s, t) /\ SameCalls(s, c)
      /\ TasksSound(c) /\ KeepsBut(s, c, t.id)
  BY WithoutIs DEF BuildsSound
<1>2. FilesLatest(c) = FilesLatest(s)
  BY <1>1 DEF FilesLatest, Latest
<1>3. \A u : NewestBuild(c, u) => NewestBuild(s, u) /\ u \in s.tasks /\ u \in c.tasks
  BY <1>1 DEF NewestBuild, Without
<1>4. Someone(s) => Someone(c)
  BY <1>1 DEF BuildsSound, TasksSound, Someone, Without
<1>5. StateFits(c, c.rt.state)
  BY <1>1, <1>2, <1>3, <1>4 DEF BuildsSound, StateFits
<1> QED  BY <1>1, <1>5, SameCallsCount, SameCallsRest DEF BuildsSound

LEMMA LoadedArrives ==
  ASSUME NEW s \in All, NEW c, c \in All, BuildsSound(c), Counted(c), c.rt.program = c.rt.replacements,
         \A t \in s.tasks : t.id = s.rt.replacements \/ Kept(c, t)
  PROVE  Arrives(s, c)
<1>1. c.rt.replacements + 1 .. c.rt.replacements = {}
  BY DEF All, Fields
<1> QED  BY <1>1 DEF Arrives, Wins, Latest

LEMMA LoadElfAdvances ==
  ASSUME BInv, LoadElf
  PROVE  Advance
<1> DEFINE c == Loaded(Now)
<1>1. /\ c \in All /\ BuildsSound(c) /\ Counted(c) /\ c.rt.program = c.rt.replacements
      /\ \A t \in Now.tasks : Kept(c, t)
      /\ Endable(Now) => CallsSound(c)
  BY NowIs, LoadedIs DEF LoadElf
<1>2. Set(c)
  BY DEF LoadElf
<1> HIDE DEF c
<1>3. Arrives(Now, c)
  BY <1>1, NowIs, LoadedArrives
<1>4. CInv => CallsSound(c)
  BY <1>1 DEF CInv, CallsSound, Endable
<1> QED  BY <1>2, <1>3, <1>4, SetAdvances

LEMMA LoadGoesOnAdvances ==
  ASSUME BInv, NEW t \in tasks, LoadGoesOn(t)
  PROVE  Advance
<1> DEFINE d == [Now EXCEPT !.tasks = Without(Now, t)]
<1>1. /\ Now \in All /\ BuildsSound(Now) /\ Counted(Now) /\ t \in Tasks /\ t \in Now.tasks
      /\ t.kind = "load"
  BY NowIs DEF LoadGoesOn
<1>2. /\ d \in All /\ BuildsSound(d) /\ KeepsBut(Now, d, t.id)
      /\ d.rt = Now.rt /\ d.m = Now.m /\ d.files = Now.files /\ d.due = Now.due
      /\ Counted(Now) => Counted(d)
      /\ CallsSound(Now) => CallsSound(d)
  BY <1>1, LoadGone
<1>3. /\ Superseded(Now, t) \/ Replaces(Now)
      /\ Set(IF Superseded(Now, t) THEN d ELSE Loaded(d))
  BY DEF LoadGoesOn
<1> HIDE DEF d
<1>4. CASE Superseded(Now, t)
  <2>1. Set(d)
    BY <1>3, <1>4
  <2>2. Arrives(Now, d)
    BY <1>1, <1>2, GoesArrive DEF GoesAhead
  <2> QED  BY <1>2, <2>1, <2>2, SetAdvances DEF CInv
<1>5. CASE ~Superseded(Now, t)
  <2> DEFINE c == Loaded(d)
  <2>1. Set(c)
    BY <1>3, <1>5
  <2>2. Replaces(d) /\ TasksSound(d) /\ Counted(d)
    BY <1>1, <1>2, <1>3, <1>5 DEF Replaces, BuildsSound
  <2>3. /\ c \in All /\ BuildsSound(c) /\ Counted(c) /\ c.rt.program = c.rt.replacements
        /\ \A u \in d.tasks : Kept(c, u)
        /\ Endable(d) => CallsSound(c)
    BY <1>2, <2>2, LoadedIs
  <2> HIDE DEF c
  <2>4. ASSUME NEW u \in Now.tasks, u.id # Now.rt.replacements PROVE Kept(c, u)
    <3>1. Kept(d, u)
      BY <1>2, <1>5, <2>4 DEF KeepsBut, Superseded
    <3> QED  BY <2>3, <3>1, KeptOn
  <2>5. Arrives(Now, c)
    BY <1>1, <2>3, <2>4, LoadedArrives
  <2>6. CInv => CallsSound(c)
    BY <1>2, <2>3 DEF CInv, CallsSound, Endable
  <2> QED  BY <2>1, <2>5, <2>6, SetAdvances
<1> QED  BY <1>4, <1>5

LEMMA LoadFailsAdvances ==
  ASSUME BInv, NEW t \in tasks, LoadFails(t)
  PROVE  Advance
<1> DEFINE c == [Now EXCEPT !.tasks = Without(Now, t)]
<1>1. /\ Now \in All /\ BuildsSound(Now) /\ Counted(Now) /\ t \in Tasks /\ t \in Now.tasks
      /\ t.kind = "load"
  BY NowIs DEF LoadFails
<1>2. /\ c \in All /\ BuildsSound(c) /\ KeepsBut(Now, c, t.id)
      /\ c.rt = Now.rt /\ c.m = Now.m /\ c.files = Now.files
      /\ Counted(Now) => Counted(c)
      /\ CallsSound(Now) => CallsSound(c)
  BY <1>1, LoadGone
<1>3. Set(c)
  BY DEF LoadFails
<1> HIDE DEF c
<1>4. Arrives(Now, c)
  BY <1>1, <1>2, GoesArrive DEF GoesAhead
<1> QED  BY <1>2, <1>3, <1>4, SetAdvances DEF CInv

\* A load takes the newest number: the build there was is superseded, and its files still the newest.
LEMMA LoadExecutableAdvances ==
  ASSUME BInv, LoadExecutable
  PROVE  Advance
<1> DEFINE s == Now
           r == s.rt.replacements + 1
           t == [id |-> r, kind |-> "load", at |-> "libraries"]
           rt == [s.rt EXCEPT !.replacements = r]
           loads == s.due.loads \cup {r}
           due == [s.due EXCEPT !.loads = loads]
           ts == s.tasks \cup {t}
           c == [s EXCEPT !.rt = rt, !.due = due, !.tasks = ts]
<1>1. Set(c)
  BY DEF LoadExecutable, Now
<1>2. /\ s \in All /\ BuildsSound(s) /\ TasksSound(s) /\ Counted(s)
  BY NowIs
<1>3. Replaces(s)
  BY DEF LoadExecutable
<1>4. s = Now
  OBVIOUS
<1> HIDE DEF s
<1>5. r \in Nat /\ s.rt.replacements < r /\ r <= MaxReplacements /\ s.rt.replacements \in Nat /\ r >= 1
  BY <1>2, <1>3, RuntimeAssumption DEF All, Fields, Replaces
<1>6. r = s.rt.replacements + 1
  OBVIOUS
<1> HIDE DEF r
<1>7. t \in Tasks /\ t.id = r /\ t.kind = "load" /\ t.at = "libraries"
  BY <1>5 DEF Tasks, Places, Awaits
<1> HIDE DEF t
<1>8. /\ rt \in Fields /\ rt.replacements = r /\ rt.state = s.rt.state /\ rt.program = s.rt.program
      /\ rt.generation = s.rt.generation /\ rt.resumeScheduled = s.rt.resumeScheduled
      /\ rt.request = s.rt.request /\ rt.controller = s.rt.controller
      /\ rt.waitTimer = s.rt.waitTimer
  BY <1>2, <1>5 DEF All, Fields
<1>9. loads \in SUBSET Nat /\ \A n : n \in loads <=> n \in s.due.loads \/ n = r
  BY <1>2, <1>5 DEF All, Dues
<1> HIDE DEF rt, loads
<1>10. /\ due \in Dues /\ due.loads = loads /\ due.scheduled = s.due.scheduled
       /\ due.timers = s.due.timers /\ due.promises = s.due.promises /\ due.live = s.due.live
       /\ due.halts = s.due.halts /\ due.machines = s.due.machines
  BY <1>2, <1>9 DEF All, Dues
<1>11. ts \in SUBSET Tasks /\ \A u : u \in ts <=> u \in s.tasks \/ u = t
  BY <1>2, <1>7 DEF All
<1> HIDE DEF due, ts
<1>12. /\ c \in All /\ c.rt = rt /\ c.m = s.m /\ c.files = s.files /\ c.tasks = ts /\ c.due = due
  BY <1>2, <1>8, <1>10, <1>11 DEF All
<1> HIDE DEF c
<1>13. SameCalls(s, c) /\ c.rt.state = s.rt.state
  BY <1>8, <1>10, <1>12 DEF SameCalls, SameMachine, SameDue
<1>14. ASSUME NEW n \in Nat, Latest(s, n) PROVE Latest(c, n)
  <2>1. \A i \in n + 1 .. r : i \in n + 1 .. s.rt.replacements \/ i = r
    BY <1>5, <1>6
  <2>2. CASE n = 0
    BY <2>2 DEF Latest
  <2>3. CASE n + 1 .. s.rt.replacements \subseteq s.due.loads
    BY <1>8, <1>9, <1>10, <1>12, <2>1, <2>3 DEF Latest
  <2> QED  BY <1>14, <2>2, <2>3 DEF Latest
<1>15. FilesLatest(s) => FilesLatest(c)
  BY <1>2, <1>12, <1>14 DEF FilesLatest, All, Numbered
<1>16. \A u : ~NewestBuild(c, u)
  <2>1. \A u \in s.tasks : u.id < r
    BY <1>2, <1>5 DEF TasksSound, All, Tasks
  <2> QED  BY <1>5, <1>7, <1>8, <1>11, <1>12, <2>1 DEF NewestBuild, All, Tasks
<1>17. TasksSound(c)
  <2>1. /\ s.rt.program <= r /\ s.files.project <= r /\ s.files.object <= r /\ s.files.image <= r
    BY <1>2, <1>5 DEF TasksSound, All, Fields, Numbered
  <2>2. \A u \in ts : /\ u.id >= 1 /\ u.id <= r
                      /\ u.kind = "load" => u.id \in loads
                      /\ u.kind = "module" => u.at \notin {"download", "defer"}
    BY <1>2, <1>5, <1>7, <1>9, <1>11 DEF TasksSound, All, Tasks
  <2>3. \A u, v \in ts : u.id = v.id => u = v
    <3>1. \A u \in s.tasks : u.id # r
      BY <1>2, <1>5 DEF TasksSound, All, Tasks
    <3> QED  BY <1>2, <1>7, <1>11, <3>1 DEF TasksSound
  <2> QED  BY <1>5, <1>8, <1>10, <1>12, <1>16, <2>1, <2>2, <2>3 DEF TasksSound
<1>18. StateFits(c, c.rt.state)
  <2>1. Someone(c)
    BY <1>7, <1>8, <1>11, <1>12 DEF Someone
  <2> QED  BY <1>2, <1>13, <1>15, <1>16, <2>1 DEF BuildsSound, StateFits
<1>19. Wins(s, c)
  <2>1. \A u \in s.tasks : Kept(c, u)
    BY <1>11, <1>12 DEF Kept
  <2> QED  BY <1>8, <1>12, <2>1 DEF Wins
<1>20. Arrives(Now, c)
  BY <1>2, <1>4, <1>12, <1>13, <1>17, <1>18, <1>19, SameCallsCount DEF Arrives, BuildsSound
<1>21. CInv => CallsSound(c)
  BY <1>4, <1>13, SameCallsRest DEF CInv
<1> QED  BY <1>1, <1>20, <1>21, SetAdvances

\* A build takes the newest number and starts with no files of its own.
LEMMA CompileAdvances ==
  ASSUME BInv, NEW link \in BOOLEAN, Compile(link)
  PROVE  Advance
<1> DEFINE b == Now
           r == b.rt.replacements + 1
           kind == b.rt.mode
           at == IF kind = "module" THEN "assemble" ELSE "download"
           t == [id |-> r, kind |-> kind, at |-> at]
           rt == [b.rt EXCEPT !.replacements = r, !.program = 0, !.assembleOnly = ~link,
                              !.resumedByInput = FALSE]
           ts == b.tasks \cup {t}
           d == [b EXCEPT !.rt = rt, !.files = NoFiles, !.tasks = ts]
           s == SetState(d, "Assembling")
<1>1. \E cached \in BOOLEAN : Set(IF cached /\ t.at = "download" THEN Staged(s, t) ELSE s)
  <2> DEFINE id == runtime.replacements + 1
             u == [id |-> id, kind |-> runtime.mode,
                   at |-> IF runtime.mode = "module" THEN "assemble" ELSE "download"]
             w == [Now EXCEPT !.rt.replacements = id, !.rt.program = 0, !.rt.assembleOnly = ~link,
                              !.rt.resumedByInput = FALSE, !.files = NoFiles, !.tasks = @ \cup {u}]
             v == SetState(w, "Assembling")
  <2>1. \E cached \in BOOLEAN : Set(IF cached /\ u.at = "download" THEN Staged(v, u) ELSE v)
    BY DEF Compile
  <2>2. runtime = b.rt
    BY DEF Now
  <2>3. u = t /\ id = r
    BY <2>2
  <2> HIDE DEF u, t, id, r
  <2>4. w = d
    <3>1. w = [b EXCEPT !.rt.replacements = r, !.rt.program = 0, !.rt.assembleOnly = ~link,
                        !.rt.resumedByInput = FALSE, !.files = NoFiles, !.tasks = @ \cup {t}]
      BY <2>3
    <3> HIDE DEF b
    <3> QED  BY <3>1
  <2>5. v = s
    BY <2>4
  <2> HIDE DEF v, s
  <2> QED  BY <2>1, <2>3, <2>5
<1>2. b \in All /\ BuildsSound(b) /\ TasksSound(b) /\ Counted(b)
  BY NowIs
<1>3. Replaces(b)
  BY DEF Compile
<1>4. b = Now
  OBVIOUS
<1> HIDE DEF b
<1>5. r \in Nat /\ b.rt.replacements < r /\ r <= MaxReplacements /\ b.rt.replacements \in Nat /\ r >= 1
  BY <1>2, <1>3, RuntimeAssumption DEF All, Fields, Replaces
<1> HIDE DEF r
<1>6. kind \in Assemblers
  BY <1>2, RuntimeAssumption DEF All, Fields
<1> HIDE DEF kind
<1>7. at \in Places /\ at \in {"assemble", "download"} /\ (kind = "module" <=> at = "assemble")
  BY DEF Places, Awaits
<1> HIDE DEF at
<1>8. t \in Tasks /\ t.id = r /\ t.kind = kind /\ t.at = at /\ kind # "load"
  BY <1>5, <1>6, <1>7 DEF Tasks, Assemblers
<1> HIDE DEF t
<1>9. /\ rt \in Fields /\ rt.replacements = r /\ rt.state = b.rt.state /\ rt.program = 0
      /\ rt.generation = b.rt.generation /\ rt.resumeScheduled = b.rt.resumeScheduled
      /\ rt.request = b.rt.request /\ rt.controller = b.rt.controller
      /\ rt.waitTimer = b.rt.waitTimer
  BY <1>2, <1>5 DEF All, Fields
<1>10. ts \in SUBSET Tasks /\ \A u : u \in ts <=> u \in b.tasks \/ u = t
  BY <1>2, <1>8 DEF All
<1>11. NoFiles \in Numbered /\ NoFiles.project = 0 /\ NoFiles.object = 0 /\ NoFiles.image = 0
  BY DEF NoFiles, Numbered
<1> HIDE DEF rt, ts
<1>12. /\ d \in All /\ d.rt = rt /\ d.m = b.m /\ d.files = NoFiles /\ d.tasks = ts /\ d.due = b.due
  BY <1>2, <1>9, <1>10, <1>11 DEF All
<1> HIDE DEF d
<1>13. SameCalls(b, d)
  BY <1>9, <1>12 DEF SameCalls, SameMachine, SameDue
<1>14. FilesLatest(d)
  BY <1>11, <1>12 DEF FilesLatest, Latest
<1>15. \A u \in b.tasks : u.id < r /\ u.id # r
  BY <1>2, <1>5 DEF TasksSound, All, Tasks
<1>16. TasksSound(d)
  <2>1. \A u \in ts : /\ u.id >= 1 /\ u.id <= r
                      /\ u.kind = "load" => u.id \in b.due.loads
                      /\ u.kind = "module" => u.at \notin {"download", "defer"}
    BY <1>2, <1>5, <1>7, <1>8, <1>10 DEF TasksSound, All, Tasks
  <2>2. \A u, v \in ts : u.id = v.id => u = v
    BY <1>2, <1>8, <1>10, <1>15 DEF TasksSound
  <2> QED  BY <1>5, <1>9, <1>11, <1>12, <1>14, <2>1, <2>2 DEF TasksSound
<1>17. StateFits(d, "Assembling")
  <2>1. Someone(d)
    BY <1>8, <1>9, <1>10, <1>12 DEF Someone
  <2>2. \A u : NewestBuild(d, u) => u = t
    BY <1>9, <1>10, <1>12, <1>15 DEF NewestBuild
  <2> QED  BY <1>7, <1>8, <1>14, <2>1, <2>2 DEF StateFits
<1>18. "Assembling" \in States /\ Rests("Assembling")
  BY DEF States, Building, Rests, Waiting
<1>19. /\ s \in All /\ s.rt.state = "Assembling" /\ SameCalls(d, s) /\ BuildsSound(s)
       /\ s.rt.replacements = r /\ s.rt.program = 0
       /\ \A u \in d.tasks : Kept(s, u)
  BY <1>9, <1>12, <1>16, <1>17, <1>18, SetStateIs
<1> HIDE DEF s
<1>20. /\ Counted(s) /\ (CallsSound(b) => CallsSound(s))
  <2>1. SameCalls(b, s)
    BY <1>13, <1>19 DEF SameCalls, SameMachine, SameDue
  <2> QED  BY <1>2, <1>18, <1>19, <2>1, SameCallsCount, SameCallsRest
<1>21. \A u \in b.tasks : Kept(s, u)
  BY <1>10, <1>12, <1>19
<1>22. CASE Set(s)
  <2>1. Arrives(b, s)
    BY <1>19, <1>20, <1>21 DEF Arrives, Wins
  <2> QED  BY <1>4, <1>20, <1>22, <2>1, SetAdvances DEF CInv
<1>23. CASE t.at = "download" /\ Set(Staged(s, t))
  <2> DEFINE c == Staged(s, t)
  <2>1. PICK v \in s.tasks : v.id = t.id /\ v.kind = t.kind
    BY <1>10, <1>12, <1>19 DEF Kept
  <2>2. t.kind \notin {"load", "module"}
    BY <1>7, <1>8, <1>23
  <2>3. GoesAhead(s, c, t.id) /\ (CallsSound(s) => CallsSound(c))
    BY <1>8, <1>19, <2>1, <2>2, StagedIs
  <2> HIDE DEF c
  <2>4. ASSUME NEW u \in b.tasks PROVE Kept(c, u)
    <3>1. Kept(s, u) /\ u.id # t.id
      BY <1>8, <1>15, <1>21
    <3>2. \A x \in s.tasks : x.id = u.id => Kept(c, x)
      BY <2>3, <3>1 DEF GoesAhead, KeepsBut
    <3> QED  BY <3>1, <3>2, KeptOn
  <2>5. c.rt.program = 0 \/ Latest(c, c.rt.program)
    BY <1>19, <2>3 DEF GoesAhead, KeepsBut, NewestOnly, Latest
  <2>6. Arrives(b, c)
    BY <1>20, <2>3, <2>4, <2>5 DEF Arrives, Wins, GoesAhead
  <2> QED  BY <1>4, <1>20, <1>23, <2>3, <2>6, SetAdvances DEF CInv, c
<1> QED  BY <1>1, <1>22, <1>23

\* setMode(): through NotReady to Ready.
LEMMA SetModeAdvances ==
  ASSUME BInv, NEW mode \in Modes, SetMode(mode)
  PROVE  Advance
<1> DEFINE s == Now
           rt == [s.rt EXCEPT !.mode = mode, !.resumedByInput = FALSE]
           d == [s EXCEPT !.rt = rt]
           e == SetState(d, "NotReady")
           c == SetState(e, "Ready")
<1>1. Set(c)
  BY DEF SetMode
<1>2. s \in All /\ BuildsSound(s) /\ Counted(s)
  BY NowIs
<1>3. s = Now
  OBVIOUS
<1> HIDE DEF s
<1>4. rt \in Fields /\ SameFields(s.rt, rt)
  BY <1>2 DEF All, Fields, SameFields
<1> HIDE DEF rt
<1>5. Follows(s, d) /\ (CallsSound(s) => CallsSound(d)) /\ d \in All
  BY <1>2, <1>4, FlagsFollow DEF Follows
<1> HIDE DEF d
<1>6. "NotReady" \in States /\ Rests("NotReady") /\ "Ready" \in States /\ Rests("Ready")
  BY DEF States, Building, Rests, Waiting
<1>7. /\ e \in All /\ e.rt.state = "NotReady" /\ SameCalls(d, e) /\ Keeps(d, e)
      /\ TasksSound(d) => TasksSound(e)
  BY <1>5, <1>6, SetStateIs
<1> HIDE DEF e
<1>8. StateFits(e, "Ready")
  BY RestFits DEF Building
<1>9. /\ c \in All /\ c.rt.state = "Ready" /\ SameCalls(e, c) /\ Keeps(e, c)
      /\ TasksSound(e) => BuildsSound(c)
      /\ c.rt.replacements = e.rt.replacements
  BY <1>6, <1>7, <1>8, SetStateIs
<1> HIDE DEF c
<1>10. Follows(d, c) /\ (CallsSound(d) => CallsSound(c))
  <2>1. Keeps(d, c) /\ c.rt.replacements = d.rt.replacements
    BY <1>7, <1>9, KeepsOn DEF Keeps, NewestOnly
  <2>2. BuildsSound(d) => BuildsSound(c)
    BY <1>7, <1>9 DEF BuildsSound
  <2>3. Counted(d) => Counted(c)
    BY <1>7, <1>9, SameCallsCount
  <2>4. CallsSound(d) => CallsSound(c)
    BY <1>6, <1>7, <1>9, SameCallsRest
  <2> QED  BY <1>9, <2>1, <2>2, <2>3, <2>4 DEF Follows
<1>11. Arrives(Now, c)
  BY <1>2, <1>3, <1>5, <1>10, FollowsOn, FollowsArrive
<1> QED  BY <1>1, <1>3, <1>5, <1>10, <1>11, SetAdvances DEF CInv

\* clearExecution(), and dispose()
LEMMA ClearExecutionAdvances ==
  ASSUME BInv, NEW disposed \in BOOLEAN, ClearExecution(disposed)
  PROVE  Advance
<1> DEFINE s == Now
           b == Cleared(s)
           n == s.rt.generation + 1
           r == s.rt.replacements + 1
           rt == [b.rt EXCEPT !.generation = n]
           g == [b EXCEPT !.rt = rt]
           h == [g EXCEPT !.m = NoMachine]
           f == [h.rt EXCEPT !.replacements = r, !.resumeScheduled = FALSE, !.sources = FALSE,
                             !.resumedByInput = FALSE, !.program = 0]
           d == Renumbered(h, f, NoFiles)
           e == SetState(d, "Ready")
           c == IF disposed THEN SetState(e, "ProgramStopped") ELSE e
<1>1. s \in All /\ BuildsSound(s) /\ TasksSound(s) /\ Counted(s) /\ s = Now
  BY NowIs
<1>2. Replaces(s)
  BY DEF ClearExecution
<1>3. Set(c)
  <2>1. [b EXCEPT !.rt.generation = @ + 1, !.rt.replacements = @ + 1,
                  !.rt.resumeScheduled = FALSE, !.rt.sources = FALSE,
                  !.rt.resumedByInput = FALSE, !.rt.program = 0, !.m = NoMachine, !.files = NoFiles] = d
    <3>1. b \in All /\ b.rt.generation = s.rt.generation /\ b.rt.replacements = s.rt.replacements
      BY <1>1, ClearedIs DEF SameBuilds
    <3> HIDE DEF b
    <3> QED  BY <3>1 DEF All, Renumbered
  <2>2. ClearExecution(disposed)
    OBVIOUS
  <2> HIDE DEF d
  <2> QED  BY <2>1, <2>2 DEF ClearExecution
<1> HIDE DEF s
<1>4. /\ b \in All /\ SameBuilds(s, b) /\ b.rt.generation = s.rt.generation
      /\ b.rt.request = 0 /\ b.rt.controller = 0 /\ b.rt.waitTimer = 0
  BY <1>1, ClearedIs
<1>5. n \in Nat /\ r \in Nat /\ r <= MaxReplacements
  BY <1>1, <1>2, RuntimeAssumption DEF All, Fields, Replaces
<1>6. n = s.rt.generation + 1 /\ r = s.rt.replacements + 1
  OBVIOUS
<1> HIDE DEF n, r
<1>7. /\ rt \in Fields /\ rt.state = s.rt.state /\ rt.replacements = s.rt.replacements
      /\ rt.program = s.rt.program /\ rt.generation = n
      /\ rt.request = 0 /\ rt.controller = 0 /\ rt.waitTimer = 0
  <2> HIDE DEF b
  <2> QED  BY <1>4, <1>5 DEF SameBuilds, All, Fields
<1> HIDE DEF rt
<1>8. /\ g \in All /\ SameBuilds(s, g) /\ Counted(g) /\ ~MovingIn(g)
      /\ CallsSound(s) => Quiet(g)
  BY <1>1, <1>6, <1>7, NextGeneration
<1> HIDE DEF g
<1>9. NoMachine \in Machines /\ NoMachine.halt = 0 /\ NoMachine.serial <= g.m.serial
  BY <1>8 DEF NoMachine, Machines, Owners, All
<1>10. /\ h \in All /\ SameBuilds(g, h) /\ Counted(h) /\ h.tasks = g.tasks
       /\ Quiet(g) => Begins(h)
  BY <1>8, <1>9, UnhaltedIs
<1> HIDE DEF h
<1>11. TasksSound(h) /\ h.tasks = s.tasks /\ h.rt.replacements = s.rt.replacements
  <2>1. TasksSound(g)
    BY <1>1, <1>8, SameBuildsKeep
  <2> QED  BY <1>8, <1>10, <2>1, SameBuildsKeep DEF SameBuilds
<1>12. /\ f \in Fields /\ f.replacements = r /\ f.program = 0 /\ f.generation = h.rt.generation
       /\ f.request = h.rt.request /\ f.controller = h.rt.controller
       /\ f.waitTimer = h.rt.waitTimer
  BY <1>5, <1>10 DEF All, Fields
<1> HIDE DEF f
<1>13. Renumbers(h, f) /\ FilesStay(h, NoFiles)
  BY <1>5, <1>6, <1>11, <1>12 DEF Renumbers, FilesStay
<1>14. /\ d \in All /\ d.rt = f /\ d.tasks = h.tasks /\ TasksSound(d) /\ Counted(d)
       /\ Begins(h) => Begins(d)
  BY <1>10, <1>11, <1>12, <1>13, RenumberedIs
<1> HIDE DEF d
<1>15. "Ready" \in States /\ StateFits(d, "Ready")
  BY RestFits DEF States, Building
<1>16. /\ e \in All /\ BuildsSound(e) /\ SameCalls(d, e) /\ e.rt.program = 0
       /\ \A t \in d.tasks : Kept(e, t)
  BY <1>12, <1>14, <1>15, SetStateIs
<1> HIDE DEF e
<1>17. Counted(e) /\ (CallsSound(s) => Begins(e))
  BY <1>8, <1>10, <1>14, <1>16, SameCallsCount, SameBegins
<1>18. /\ c \in All /\ BuildsSound(c) /\ Counted(c) /\ (CallsSound(s) => CallsSound(c))
       /\ c.rt.program = 0 /\ \A t \in s.tasks : Kept(c, t)
  <2>1. "ProgramStopped" \in States /\ StateFits(e, "ProgramStopped")
    BY RestFits DEF States, Building, Blocked
  <2>2. CASE disposed
    <3>1. c = SetState(e, "ProgramStopped")
      BY <2>2
    <3> HIDE DEF c
    <3>2. /\ c \in All /\ BuildsSound(c) /\ SameCalls(e, c) /\ c.rt.program = e.rt.program
          /\ \A t \in e.tasks : Kept(c, t)
      BY <1>16, <2>1, <3>1, SetStateIs DEF BuildsSound
    <3>3. Counted(c) /\ (CallsSound(s) => CallsSound(c))
      BY <1>17, <3>2, SameCallsCount, SameBegins, BeginsSound
    <3> QED  BY <1>11, <1>14, <1>16, <3>2, <3>3, KeptOn
  <2>3. CASE ~disposed
    <3>1. c = e
      BY <2>3
    <3> QED  BY <1>11, <1>14, <1>16, <1>17, <3>1, BeginsSound
  <2> QED  BY <2>2, <2>3
<1> HIDE DEF c
<1>19. Arrives(s, c)
  BY <1>18 DEF Arrives, Wins
<1> QED  BY <1>1, <1>3, <1>18, <1>19, SetAdvances DEF CInv

\* The link that follows an assembler, unless another build came.
LEMMA LinkStartsAdvances ==
  ASSUME BInv, NEW id \in pending.links, LinkStarts(id)
  PROVE  Advance
<1> DEFINE s == Now
           links == s.due.links \ {id}
           due == [s.due EXCEPT !.links = links]
           d == [s EXCEPT !.due = due]
<1>1. s \in All /\ BuildsSound(s) /\ Counted(s) /\ s = Now
  BY NowIs
<1>2. \E c \in IF id = runtime.replacements THEN RunTool(d, "linker") ELSE {d} : Set(c)
  BY DEF LinkStarts
<1> HIDE DEF s
<1>3. links \in SUBSET Nat
  BY <1>1 DEF All, Dues
<1> HIDE DEF links
<1>4. /\ due \in Dues /\ due.live = s.due.live /\ due.timers = s.due.timers
      /\ due.loads = s.due.loads /\ due.scheduled = s.due.scheduled
      /\ due.promises = s.due.promises /\ due.halts = s.due.halts
      /\ due.machines = s.due.machines
  BY <1>1, <1>3 DEF All, Dues
<1> HIDE DEF due
<1>5. /\ d \in All /\ d.rt = s.rt /\ d.m = s.m /\ d.files = s.files /\ d.tasks = s.tasks /\ d.due = due
  BY <1>1, <1>4 DEF All
<1> HIDE DEF d
<1>6. SameBuilds(s, d) /\ SameCalls(s, d) /\ d.rt.state = s.rt.state
  BY <1>4, <1>5 DEF SameBuilds, SameCalls, SameMachine, SameDue
<1>7. Follows(s, d) /\ Counted(d) /\ (CallsSound(s) => CallsSound(d))
  BY <1>1, <1>5, <1>6, SameFollows, SameCallsCount, SameCallsRest
<1>8. PICK c : (c \in RunTool(d, "linker") \/ c = d) /\ Set(c)
  BY <1>2
<1>9. Follows(s, c) /\ (CallsSound(s) => CallsSound(c))
  <2>1. CASE c \in RunTool(d, "linker")
    <3>1. Follows(d, c) /\ (Counted(d) /\ CallsSound(d) => CallsSound(c))
      BY <1>5, <2>1, RunToolFollows
    <3> QED  BY <1>7, <3>1, FollowsOn
  <2> QED  BY <1>7, <1>8, <2>1
<1>10. Arrives(s, c)
  BY <1>1, <1>9, FollowsArrive
<1> QED  BY <1>1, <1>8, <1>9, <1>10, SetAdvances DEF CInv

\* A run or a step begins afresh, or where the program is.
LEMMA BegunFollows ==
  ASSUME BInv, NEW s \in Begun(Now)
  PROVE  /\ Follows(Now, s) /\ s \in All
         /\ Fresh => s.rt.state \in {"ProgramStopped", "ProgramRunning"} /\ (CInv => Begins(s))
         /\ ~Fresh => s.rt.state = runtime.state /\ MovingIn(s) = Moving
         /\ CInv => CallsSound(s)
<1> DEFINE rt == [Now.rt EXCEPT !.resumedByInput = FALSE]
           r == [Now EXCEPT !.rt = rt]
<1>1. Now \in All /\ Counted(Now) /\ Now.rt = runtime
  BY NowIs
<1>2. s \in IF Fresh THEN Starti(r) ELSE {r}
  BY DEF Begun
<1>3. rt \in Fields /\ SameFields(Now.rt, rt)
  BY <1>1 DEF All, Fields, SameFields
<1> HIDE DEF rt
<1>4. /\ Follows(Now, r) /\ SameCalls(Now, r) /\ SameBuilds(Now, r) /\ r \in All
      /\ CallsSound(Now) => CallsSound(r)
  BY <1>1, <1>3, FlagsFollow DEF Follows
<1> HIDE DEF r
<1>5. Counted(r)
  BY <1>1, <1>4 DEF Follows
<1>6. CASE Fresh
  <2>1. /\ Follows(r, s) /\ s.rt.state \in {"ProgramStopped", "ProgramRunning"}
        /\ Counted(r) /\ CallsSound(r) => Begins(s)
    BY <1>2, <1>4, <1>6, StartiFollows
  <2>2. Follows(Now, s) /\ s \in All
    BY <1>4, <2>1, FollowsOn DEF Follows
  <2> QED  BY <1>4, <1>5, <1>6, <2>1, <2>2, BeginsSound DEF CInv
<1>7. CASE ~Fresh
  <2>1. s = r
    BY <1>2, <1>7
  <2>2. s.rt.state = runtime.state
    BY <1>1, <1>4, <2>1 DEF SameBuilds
  <2>3. MovingIn(s) = Moving
    BY <1>1, <1>4, <2>1, NowIs DEF MovingIn, Moving, SameCalls, SameDue
  <2> QED  BY <1>4, <1>7, <2>1, <2>2, <2>3 DEF CInv
<1> QED  BY <1>6, <1>7

LEMMA FollowsAdvances ==
  ASSUME BInv, NEW c, Follows(Now, c), Set(c), ~StepsMoving /\ CInv => CallsSound(c)
  PROVE  Advance
<1>1. Arrives(Now, c)
  BY NowIs, FollowsArrive
<1> QED  BY <1>1, SetAdvances

LEMMA ReportedAdvances ==
  ASSUME BInv, Reported
  PROVE  Advance
<1> DEFINE rt == [Now.rt EXCEPT !.resumedByInput = FALSE]
           c == [Now EXCEPT !.rt = rt]
<1>1. Now \in All
  BY NowIs
<1>2. Set(c)
  BY DEF Reported
<1>3. rt \in Fields /\ SameFields(Now.rt, rt)
  BY <1>1 DEF All, Fields, SameFields
<1> HIDE DEF rt
<1>4. Follows(Now, c) /\ (CallsSound(Now) => CallsSound(c))
  BY <1>1, <1>3, FlagsFollow
<1> HIDE DEF c
<1> QED  BY <1>2, <1>4, FollowsAdvances DEF CInv

LEMMA InspectAdvances ==
  ASSUME BInv, Inspect
  PROVE  Advance
<1>1. PICK s \in Starti(Now) :
        Set(IF s.rt.state = "ProgramRunning" THEN SetState(s, "ProgramPaused") ELSE s)
  BY DEF Inspect
<1>2. /\ Follows(Now, s) /\ s \in All
      /\ CInv => Begins(s)
  BY <1>1, NowIs, StartiFollows DEF Follows, CInv
<1>3. CASE s.rt.state = "ProgramRunning"
  <2> DEFINE c == SetState(s, "ProgramPaused")
  <2>1. "ProgramPaused" \in States /\ "ProgramPaused" \notin Building \cup {"NotReady"}
    BY DEF States, Blocked, Building
  <2>2. Follows(s, c) /\ SameCalls(s, c)
    BY <1>2, <2>1, SetStateFollows, SetStateIs
  <2>3. Set(c)
    BY <1>1, <1>3
  <2> HIDE DEF c
  <2>4. Follows(Now, c) /\ (CInv => CallsSound(c))
    BY <1>2, <2>2, FollowsOn, SameBegins, BeginsSound
  <2> QED  BY <2>3, <2>4, FollowsAdvances
<1>4. CASE s.rt.state # "ProgramRunning"
  BY <1>1, <1>2, <1>4, BeginsSound, FollowsAdvances
<1> QED  BY <1>3, <1>4

\* step(): of a program whose loop is not scheduled, as the host makes sure.
LEMMA StepAdvances ==
  ASSUME BInv, Step
  PROVE  Advance
<1>1. CASE Reported
  BY <1>1, ReportedAdvances
<1>2. ASSUME NEW s \in Begun(Now), NEW r,
             r = IF s.rt.state = "ProgramPaused" THEN SetState(s, "ProgramRunning") ELSE s,
             IF r.rt.state = "ProgramRunning"
               THEN \E l \in Loop([r EXCEPT !.rt.stepping = TRUE]) : Set(l)
               ELSE Set(r)
      PROVE  Advance
  <2>1. /\ Follows(Now, s) /\ s \in All
        /\ Fresh => s.rt.state \in {"ProgramStopped", "ProgramRunning"} /\ (CInv => Begins(s))
        /\ ~Fresh => s.rt.state = runtime.state /\ MovingIn(s) = Moving
        /\ CInv => CallsSound(s)
    BY <1>2, BegunFollows
  <2>2. /\ r \in All /\ Follows(s, r)
        /\ s.rt.state = "ProgramPaused" => r.rt.state = "ProgramRunning"
        /\ Begins(s) /\ s.rt.state = "ProgramRunning" => Free(r)
        /\ CallsSound(s) /\ s.rt.state = "ProgramPaused" => Free(r)
        /\ CallsSound(s) /\ s.rt.state = "ProgramRunning" /\ ~MovingIn(s) => Free(r)
    BY <1>2, <2>1, RunsAgain
  <2>3. Follows(Now, r)
    BY <2>1, <2>2, FollowsOn
  <2>4. CASE r.rt.state = "ProgramRunning"
    <3>1. PICK l \in Loop([r EXCEPT !.rt.stepping = TRUE]) : Set(l)
      BY <1>2, <2>4
    <3>2. Follows(r, l) /\ (Free(r) => CallsSound(l))
      BY <2>2, <3>1, LoopStepping
    <3>3. Follows(Now, l)
      BY <2>3, <3>2, FollowsOn
    <3>4. s.rt.state # "ProgramPaused" => s.rt.state = "ProgramRunning"
      BY <1>2, <2>4
    <3>5. ASSUME ~StepsMoving, CInv PROVE Free(r)
      <4>1. ~Moving
        BY <3>5 DEF Step
      <4> QED  BY <2>1, <2>2, <3>4, <3>5, <4>1
    <3> QED  BY <3>1, <3>2, <3>3, <3>5, FollowsAdvances
  <2>5. CASE r.rt.state # "ProgramRunning"
    <3>1. Set(r)
      BY <1>2, <2>5
    <3>2. r = s
      BY <1>2, <2>2, <2>5
    <3> QED  BY <2>1, <2>3, <3>1, <3>2, FollowsAdvances
  <2> QED  BY <2>4, <2>5
<1>3. \/ Reported
      \/ \E s \in Begun(Now) :
           LET r == IF s.rt.state = "ProgramPaused" THEN SetState(s, "ProgramRunning") ELSE s
           IN IF r.rt.state = "ProgramRunning"
              THEN \E l \in Loop([r EXCEPT !.rt.stepping = TRUE]) : Set(l)
              ELSE Set(r)
  BY DEF Step
<1> QED  BY <1>1, <1>2, <1>3

\* runUntilBlocked(): a loop that is scheduled goes on by itself.
LEMMA RunUntilBlockedAdvances ==
  ASSUME BInv, RunUntilBlocked
  PROVE  Advance
<1>1. CASE Reported
  BY <1>1, ReportedAdvances
<1>2. ASSUME NEW s \in Begun(Now),
             NEW r \in IF Fresh /\ s.rt.state = "ProgramRunning" THEN Continue(s) ELSE {s},
             NEW c \in IF \/ r.rt.state = "ProgramPaused"
                          \/ r.rt.state = "ProgramRunning" /\ ~r.rt.resumeScheduled
                       THEN Continue(r) ELSE {r},
             Set([c EXCEPT !.rt.running = c.rt.state = "ProgramRunning"])
      PROVE  Advance
  <2>1. /\ Follows(Now, s) /\ s \in All
        /\ Fresh => (CInv => Begins(s))
        /\ CInv => CallsSound(s)
    BY <1>2, BegunFollows
  <2>2. Follows(s, r) /\ (CInv => CallsSound(r))
    <3>1. CASE Fresh /\ s.rt.state = "ProgramRunning"
      <4>1. r \in Continue(s)
        BY <1>2, <3>1
      <4>2. Follows(s, r) /\ (Begins(s) => CallsSound(r))
        BY <2>1, <3>1, <4>1, ContinueFollows
      <4> QED  BY <2>1, <3>1, <4>2
    <3>2. CASE ~(Fresh /\ s.rt.state = "ProgramRunning")
      <4>1. r = s
        BY <1>2, <3>2
      <4> QED  BY <2>1, <4>1, SameFollows DEF SameBuilds
    <3> QED  BY <3>1, <3>2
  <2>3. r \in All
    BY <2>2 DEF Follows
  <2>4. Follows(r, c) /\ (CInv => CallsSound(c))
    <3>1. CallsSound(r) /\ ~r.rt.resumeScheduled => ~MovingIn(r)
      BY DEF CallsSound, MovesSound
    <3>2. CASE \/ r.rt.state = "ProgramPaused"
               \/ r.rt.state = "ProgramRunning" /\ ~r.rt.resumeScheduled
      <4>1. c \in Continue(r)
        BY <1>2, <3>2
      <4>2. /\ Follows(r, c)
            /\ CallsSound(r) /\ r.rt.state = "ProgramPaused" => CallsSound(c)
            /\ CallsSound(r) /\ r.rt.state = "ProgramRunning" /\ ~MovingIn(r) => CallsSound(c)
        BY <2>3, <4>1, ContinueFollows
      <4> QED  BY <2>2, <3>1, <3>2, <4>2
    <3>3. CASE ~(\/ r.rt.state = "ProgramPaused"
                 \/ r.rt.state = "ProgramRunning" /\ ~r.rt.resumeScheduled)
      <4>1. c = r
        BY <1>2, <3>3
      <4> QED  BY <2>2, <2>3, <4>1, SameFollows DEF SameBuilds
    <3> QED  BY <3>2, <3>3
  <2> DEFINE flag == c.rt.state = "ProgramRunning"
             rt == [c.rt EXCEPT !.running = flag]
             d == [c EXCEPT !.rt = rt]
  <2>5. Set(d)
    BY <1>2
  <2>6. flag \in BOOLEAN /\ c \in All
    BY <2>4 DEF Follows
  <2> HIDE DEF flag
  <2>7. rt \in Fields /\ SameFields(c.rt, rt)
    BY <2>6 DEF All, Fields, SameFields
  <2> HIDE DEF rt
  <2>8. Follows(c, d) /\ (CallsSound(c) => CallsSound(d))
    BY <2>6, <2>7, FlagsFollow
  <2> HIDE DEF d
  <2>9. Follows(Now, d)
    BY <2>1, <2>2, <2>4, <2>8, FollowsOn
  <2> QED  BY <2>4, <2>5, <2>8, <2>9, FollowsAdvances
<1>3. \/ Reported
      \/ \E s \in Begun(Now) :
         \E r \in IF Fresh /\ s.rt.state = "ProgramRunning" THEN Continue(s) ELSE {s} :
         \E c \in IF \/ r.rt.state = "ProgramPaused"
                     \/ r.rt.state = "ProgramRunning" /\ ~r.rt.resumeScheduled
                  THEN Continue(r) ELSE {r} :
           Set([c EXCEPT !.rt.running = c.rt.state = "ProgramRunning"])
  BY DEF RunUntilBlocked
<1> QED  BY <1>1, <1>2, <1>3

\* What ends a wait.
LEMMA ResumedWait ==
  ASSUME CInv
  PROVE  OwnLoops(Now) /\ MovesSound(Now) /\ Endable(Now)
BY DEF CInv, CallsSound, Endable

LEMMA WakeAdvances ==
  ASSUME BInv, Wake
  PROVE  Advance
<1>1. PICK s \in IF runtime.state = "ProgramWaitPause" THEN ResumeWait(Now) ELSE ResumeRead(Now) :
        Set([s EXCEPT !.rt.resumedByInput = TRUE])
  BY DEF Wake
<1>2. Follows(Now, s) /\ s \in All /\ (CInv => CallsSound(s))
  <2>1. CASE s \in ResumeWait(Now)
    BY <2>1, NowIs, ResumedWait, ResumeWaitFollows DEF Follows, CInv
  <2>2. CASE s \in ResumeRead(Now)
    BY <2>2, NowIs, ResumeReadFollows DEF Follows, CInv
  <2> QED  BY <1>1, <2>1, <2>2
<1> DEFINE rt == [s.rt EXCEPT !.resumedByInput = TRUE]
           c == [s EXCEPT !.rt = rt]
<1>3. Set(c)
  BY <1>1
<1>4. rt \in Fields /\ SameFields(s.rt, rt)
  BY <1>2 DEF All, Fields, SameFields
<1> HIDE DEF rt
<1>5. Follows(s, c) /\ (CallsSound(s) => CallsSound(c))
  BY <1>2, <1>4, FlagsFollow
<1> HIDE DEF c
<1>6. Follows(Now, c)
  BY <1>2, <1>5, FollowsOn
<1> QED  BY <1>2, <1>3, <1>5, <1>6, FollowsAdvances

\* The event loop takes what it calls.
LEMMA TakenIs ==
  ASSUME NEW s \in All, NEW due \in Dues, due.loads = s.due.loads, due.halts = s.due.halts,
         due.machines = s.due.machines, due.scheduled \subseteq s.due.scheduled,
         NEW c, c = [s EXCEPT !.due = due]
  PROVE  /\ Follows(s, c) /\ c \in All /\ c.rt = s.rt /\ c.m = s.m /\ c.due = due
         /\ OwnLoops(s) => OwnLoops(c)
         /\ MovesSound(s) => MovesSound(c)
<1>1. /\ c \in All /\ c.rt = s.rt /\ c.m = s.m /\ c.files = s.files /\ c.tasks = s.tasks /\ c.due = due
  BY DEF All
<1>2. SameBuilds(s, c)
  BY <1>1 DEF SameBuilds
<1>3. Counted(s) => Counted(c)
  BY <1>1 DEF Counted
<1>4. (OwnLoops(s) => OwnLoops(c)) /\ (MovesSound(s) => MovesSound(c))
  BY <1>1 DEF OwnLoops, MovesSound, MovingIn
<1> QED  BY <1>1, <1>2, <1>3, <1>4, SameFollows

LEMMA ScheduledAdvances ==
  ASSUME BInv, NEW k \in pending.scheduled, Scheduled(k)
  PROVE  Advance
<1> DEFINE s == Now
           left == s.due.scheduled \ {k}
           due == [s.due EXCEPT !.scheduled = left]
           d == [s EXCEPT !.due = due]
           rt == [d.rt EXCEPT !.resumeScheduled = FALSE]
           e == [d EXCEPT !.rt = rt]
<1>1. /\ s \in All /\ s = Now /\ s.rt = runtime /\ s.due = pending
  BY NowIs
<1>2. \E r \in IF k.generation # s.rt.generation THEN {d} ELSE Loop(e) : Set(r)
  <2>1. \E r \in IF k.generation # runtime.generation THEN {d}
                 ELSE Loop([d EXCEPT !.rt.resumeScheduled = FALSE]) : Set(r)
    BY DEF Scheduled
  <2>2. [d EXCEPT !.rt.resumeScheduled = FALSE] = e
    OBVIOUS
  <2> HIDE DEF s, d, e
  <2> QED  BY <1>1, <2>1, <2>2
<1> HIDE DEF s
<1>3. left \in SUBSET Callbacks /\ left \subseteq s.due.scheduled
      /\ \A x : x \in left <=> x \in s.due.scheduled /\ x # k
  BY <1>1 DEF All, Dues
<1> HIDE DEF left
<1>4. /\ due \in Dues /\ due.scheduled = left /\ due.live = s.due.live /\ due.timers = s.due.timers
      /\ due.loads = s.due.loads /\ due.promises = s.due.promises
      /\ due.halts = s.due.halts /\ due.machines = s.due.machines
  BY <1>1, <1>3 DEF All, Dues
<1> HIDE DEF due
<1>5. /\ Follows(s, d) /\ d \in All /\ d.rt = s.rt /\ d.m = s.m /\ d.due = due
      /\ OwnLoops(s) => OwnLoops(d)
      /\ MovesSound(s) => MovesSound(d)
  BY <1>1, <1>3, <1>4, TakenIs
<1> HIDE DEF d
<1>6. CASE k.generation # s.rt.generation
  <2>1. Set(d)
    BY <1>2, <1>6
  <2>2. LiveSound(s) => LiveSound(d)
    BY <1>4, <1>5 DEF LiveSound
  <2>3. (\A t \in s.due.timers : TimerSound(s, t)) => \A t \in d.due.timers : TimerSound(d, t)
    BY <1>4, <1>5 DEF TimerSound
  <2>4. WaitSound(s) => WaitSound(d)
    BY <1>4, <1>5 DEF WaitSound
  <2>5. CallsSound(s) => CallsSound(d)
    BY <1>5, <2>2, <2>3, <2>4 DEF CallsSound
  <2> QED  BY <1>1, <1>5, <2>1, <2>5, FollowsAdvances DEF CInv
<1>7. CASE k.generation = s.rt.generation
  <2>1. PICK c \in Loop(e) : Set(c)
    BY <1>2, <1>7
  <2>2. /\ rt \in Fields /\ rt.state = s.rt.state /\ rt.replacements = s.rt.replacements
        /\ rt.program = s.rt.program /\ rt.generation = s.rt.generation
        /\ rt.request = s.rt.request /\ rt.controller = s.rt.controller
        /\ rt.waitTimer = s.rt.waitTimer
    BY <1>5 DEF All, Fields
  <2> HIDE DEF rt
  <2>3. /\ e \in All /\ e.rt = rt /\ e.m = s.m /\ e.files = d.files /\ e.tasks = d.tasks /\ e.due = due
    BY <1>5, <2>2 DEF All
  <2> HIDE DEF e
  <2>4. SameBuilds(d, e)
    BY <1>5, <2>2, <2>3 DEF SameBuilds
  <2>5. Counted(d) => Counted(e)
    BY <1>5, <2>2, <2>3 DEF Counted
  <2>6. Follows(d, e)
    BY <2>3, <2>4, <2>5, SameFollows
  <2>7. Follows(e, c) /\ (Free(e) => CallsSound(c))
    BY <2>1, <2>3, LoopFollows
  <2>8. Follows(s, c)
    BY <1>5, <2>6, <2>7, FollowsOn
  <2>9. ASSUME CallsSound(s) PROVE Free(e)
    <3>1. k \in s.due.scheduled /\ k \in Callbacks /\ MovingIn(s)
      BY <1>1, <1>7 DEF MovingIn, All, Dues
    <3>2. s.m.halt = 0 /\ (s.m.owner = "program" => s.rt.state \notin Waiting \cup {"ProgramPaused"})
      BY <2>9, <3>1 DEF CallsSound, MovesSound
    <3>3. s.due.live = {} /\ s.due.timers = {}
      BY <2>9, <3>2 DEF CallsSound, LiveSound, TimerSound
    <3>4. ASSUME NEW x \in left, x.generation = s.rt.generation PROVE FALSE
      <4>1. x \in s.due.scheduled /\ x \in Callbacks /\ x # k
        BY <1>1, <1>3 DEF All, Dues
      <4>2. x.serial = k.serial
        BY <1>7, <2>9, <3>1, <3>4, <4>1 DEF CallsSound, OwnLoops
      <4> QED  BY <1>7, <3>1, <3>4, <4>1, <4>2 DEF Callbacks
    <3>5. ~MovingIn(e)
      BY <1>4, <2>2, <2>3, <3>4 DEF MovingIn
    <3> QED  BY <1>4, <2>2, <2>3, <3>2, <3>3, <3>5 DEF Free, Quiet, OwnLoops, MovingIn
  <2> QED  BY <1>1, <2>1, <2>7, <2>8, <2>9, FollowsAdvances DEF CInv
<1> QED  BY <1>6, <1>7

LEMMA PromiseSettlesAdvances ==
  ASSUME BInv, NEW h \in pending.promises, PromiseSettles(h)
  PROVE  Advance
<1> DEFINE s == Now
           left == s.due.promises \ {h}
           due == [s.due EXCEPT !.promises = left]
           d == [s EXCEPT !.due = due]
<1>1. /\ s \in All /\ s = Now /\ s.due = pending
  BY NowIs
<1>2. \E c \in IF h \in s.due.live THEN ResumeWait(d) ELSE {d} : Set(c)
  BY <1>1 DEF PromiseSettles
<1> HIDE DEF s
<1>3. left \in SUBSET Nat /\ \A x : x \in left <=> x \in s.due.promises /\ x # h
  BY <1>1 DEF All, Dues
<1> HIDE DEF left
<1>4. /\ due \in Dues /\ due.scheduled = s.due.scheduled /\ due.live = s.due.live
      /\ due.timers = s.due.timers
      /\ due.loads = s.due.loads /\ due.promises = left
      /\ due.halts = s.due.halts /\ due.machines = s.due.machines
  BY <1>1, <1>3 DEF All, Dues
<1> HIDE DEF due
<1>5. /\ Follows(s, d) /\ d \in All /\ d.rt = s.rt /\ d.m = s.m /\ d.due = due
      /\ OwnLoops(s) => OwnLoops(d)
      /\ MovesSound(s) => MovesSound(d)
  BY <1>1, <1>4, TakenIs
<1> HIDE DEF d
<1>6. CallsSound(s) => OwnLoops(d) /\ MovesSound(d) /\ Endable(d)
  BY <1>4, <1>5 DEF CallsSound, Endable, LiveSound, TimerSound
<1>7. CallsSound(s) /\ (h \notin s.due.live \/ s.rt.state # "ProgramWaitPause") => CallsSound(d)
  <2>1. CallsSound(s) /\ s.m.halt # 0 /\ (h \notin s.due.live \/ s.rt.state # "ProgramWaitPause")
          => WaitSound(d)
    BY <1>3, <1>4, <1>5 DEF CallsSound, WaitSound
  <2> QED  BY <1>5, <1>6, <2>1 DEF CallsSound, Endable
<1>8. CASE h \in s.due.live
  <2>1. PICK c \in ResumeWait(d) : Set(c)
    BY <1>2, <1>8
  <2>2. Follows(d, c) /\ (CallsSound(s) => CallsSound(c))
    BY <1>5, <1>6, <1>7, <2>1, ResumeWaitFollows
  <2>3. Follows(s, c)
    BY <1>5, <2>2, FollowsOn
  <2> QED  BY <1>1, <2>1, <2>2, <2>3, FollowsAdvances DEF CInv
<1>9. CASE h \notin s.due.live
  BY <1>1, <1>2, <1>5, <1>7, <1>9, FollowsAdvances DEF CInv
<1> QED  BY <1>8, <1>9

\* A timer ends the wait it was made for.
LEMMA TimerFiresAdvances ==
  ASSUME BInv, NEW t \in pending.timers, TimerFires(t)
  PROVE  Advance
<1> DEFINE s == Now
           left == s.due.timers \ {t}
           due == [s.due EXCEPT !.timers = left]
           d == [s EXCEPT !.due = due]
           rt == [d.rt EXCEPT !.waitTimer = 0]
           e == [d EXCEPT !.rt = rt]
           r == SetState(e, "ProgramRunning")
<1>1. /\ s \in All /\ s = Now /\ s.rt = runtime /\ s.due = pending
  BY NowIs
<1>2. \E c \in CASE t.kind = "wait" -> IF t.halt \in s.due.live THEN ResumeWait(d) ELSE {d}
                 [] t.kind = "input" ->
                      IF t.generation # s.rt.generation \/ s.rt.state # "ProgramReadlinePause"
                      THEN {e} ELSE Loop(r) : Set(c)
  <2>1. \E c \in CASE t.kind = "wait" -> IF t.halt \in pending.live THEN ResumeWait(d) ELSE {d}
                   [] t.kind = "input" ->
                        IF t.generation # runtime.generation \/ runtime.state # "ProgramReadlinePause"
                        THEN {[d EXCEPT !.rt.waitTimer = 0]}
                        ELSE Loop(SetState([d EXCEPT !.rt.waitTimer = 0], "ProgramRunning")) : Set(c)
    BY DEF TimerFires
  <2>2. [d EXCEPT !.rt.waitTimer = 0] = e
    OBVIOUS
  <2> HIDE DEF s, d, e
  <2> QED  BY <1>1, <2>1, <2>2
<1> HIDE DEF s
<1>3. /\ left \in SUBSET Timers /\ \A x : x \in left <=> x \in s.due.timers /\ x # t
      /\ t \in s.due.timers /\ t.kind \in {"wait", "input"}
  BY <1>1 DEF All, Dues, Timers
<1> HIDE DEF left
<1>4. /\ due \in Dues /\ due.scheduled = s.due.scheduled /\ due.live = s.due.live
      /\ due.timers = left /\ due.loads = s.due.loads /\ due.promises = s.due.promises
      /\ due.halts = s.due.halts /\ due.machines = s.due.machines
  BY <1>1, <1>3 DEF All, Dues
<1> HIDE DEF due
<1>5. /\ Follows(s, d) /\ d \in All /\ d.rt = s.rt /\ d.m = s.m /\ d.due = due
      /\ OwnLoops(s) => OwnLoops(d)
      /\ MovesSound(s) => MovesSound(d)
  BY <1>1, <1>4, TakenIs
<1> HIDE DEF d
\* It was the only one, and of the halt there is.
<1>6. ASSUME CallsSound(s)
      PROVE  /\ left = {} /\ s.m.halt # 0 /\ t.halt = s.m.halt /\ t.generation = s.rt.generation
             /\ t.kind = (IF s.due.live = {} THEN "input" ELSE "wait")
             /\ s.due.live # {} => s.due.live = {s.m.halt} /\ s.rt.state # "ProgramReadlinePause"
             /\ s.rt.state = "ProgramWaitPause" => s.due.live # {}
             /\ s.rt.state \notin {"ProgramRunning", "ProgramPaused"}
  <2>1. \A x \in s.due.timers : TimerSound(s, x)
    BY <1>6 DEF CallsSound
  <2>2. /\ s.m.halt # 0 /\ s.rt.state \notin {"ProgramRunning", "ProgramPaused"}
        /\ t = [kind |-> IF s.due.live = {} THEN "input" ELSE "wait", halt |-> s.m.halt,
                generation |-> s.rt.generation]
        /\ \A x \in s.due.timers : x = t
    BY <1>3, <2>1, Zenon DEF TimerSound
  <2>3. left = {}
    BY <1>3, <2>2
  <2>4. LiveSound(s) /\ WaitSound(s)
    BY <1>6, <2>2 DEF CallsSound
  <2>5. /\ t.halt = s.m.halt /\ t.generation = s.rt.generation
        /\ t.kind = (IF s.due.live = {} THEN "input" ELSE "wait")
    BY <2>2
  <2> QED  BY <2>2, <2>3, <2>4, <2>5 DEF LiveSound, WaitSound
<1>7. CallsSound(s) => OwnLoops(d) /\ MovesSound(d) /\ Endable(d) /\ d.due.timers = {}
  BY <1>4, <1>5, <1>6 DEF CallsSound, Endable, LiveSound
<1>8. CASE t.kind = "wait"
  <2>1. CallsSound(s) => t.halt \in s.due.live
    BY <1>6, <1>8
  <2>2. CallsSound(s) /\ s.rt.state # "ProgramWaitPause" => CallsSound(d)
    <3>1. CallsSound(s) /\ s.rt.state # "ProgramWaitPause" => WaitSound(d)
      BY <1>5, <1>6, <1>8 DEF WaitSound
    <3> QED  BY <1>7, <3>1 DEF CallsSound, Endable
  <2>3. CASE t.halt \in s.due.live
    <3>1. PICK c \in ResumeWait(d) : Set(c)
      BY <1>2, <1>8, <2>3
    <3>2. Follows(d, c) /\ (CallsSound(s) => CallsSound(c))
      BY <1>5, <1>7, <2>2, <3>1, ResumeWaitFollows
    <3>3. Follows(s, c)
      BY <1>5, <3>2, FollowsOn
    <3> QED  BY <1>1, <3>1, <3>2, <3>3, FollowsAdvances DEF CInv
  <2>4. CASE t.halt \notin s.due.live
    <3>1. Set(d)
      BY <1>2, <1>8, <2>4
    <3> QED  BY <1>1, <1>5, <2>1, <2>4, <3>1, FollowsAdvances DEF CInv
  <2> QED  BY <2>3, <2>4
<1>9. CASE t.kind = "input"
  <2>1. /\ rt \in Fields /\ rt.state = s.rt.state /\ rt.replacements = s.rt.replacements
        /\ rt.program = s.rt.program /\ rt.generation = s.rt.generation
        /\ rt.resumeScheduled = s.rt.resumeScheduled
        /\ rt.request = s.rt.request /\ rt.controller = s.rt.controller /\ rt.waitTimer = 0
    BY <1>5 DEF All, Fields
  <2> HIDE DEF rt
  <2>2. /\ e \in All /\ e.rt = rt /\ e.m = s.m /\ e.files = d.files /\ e.tasks = d.tasks /\ e.due = due
    BY <1>5, <2>1 DEF All
  <2> HIDE DEF e
  <2>3. SameBuilds(d, e)
    BY <1>5, <2>1, <2>2 DEF SameBuilds
  <2>4. Counted(d) => Counted(e)
    BY <1>5, <2>1, <2>2 DEF Counted, All, Dues
  <2>5. Follows(s, e)
    BY <1>5, <2>2, <2>3, <2>4, SameFollows, FollowsOn
  <2>6. CallsSound(s) => OwnLoops(e) /\ MovesSound(e) /\ Quiet(e)
    <3>1. OwnLoops(d) => OwnLoops(e)
      BY <1>5, <2>1, <2>2 DEF OwnLoops
    <3>2. MovesSound(d) => MovesSound(e)
      BY <1>5, <2>1, <2>2 DEF MovesSound, MovingIn
    <3>3. CallsSound(s) => Quiet(e)
      BY <1>4, <1>6, <1>9, <2>2 DEF Quiet
    <3> QED  BY <1>7, <3>1, <3>2, <3>3
  <2>7. CASE t.generation # s.rt.generation \/ s.rt.state # "ProgramReadlinePause"
    <3>1. Set(e)
      BY <1>2, <1>9, <2>7
    <3>2. ASSUME CallsSound(s) PROVE CallsSound(e)
      <4>1. s.rt.state \notin Waiting
        BY <1>6, <1>9, <2>7, <3>2 DEF Waiting
      <4>2. WaitSound(e)
        BY <2>1, <2>2, <4>1 DEF WaitSound, Waiting
      <4> QED  BY <2>6, <3>2, <4>2 DEF CallsSound, Quiet, LiveSound
    <3> QED  BY <1>1, <2>5, <3>1, <3>2, FollowsAdvances DEF CInv
  <2>8. CASE t.generation = s.rt.generation /\ s.rt.state = "ProgramReadlinePause"
    <3>1. PICK c \in Loop(r) : Set(c)
      BY <1>2, <1>9, <2>8
    <3>2. e.rt.state \in Waiting
      BY <2>1, <2>2, <2>8 DEF Waiting
    <3>3. /\ Follows(e, r) /\ r \in All
          /\ Quiet(e) /\ OwnLoops(e) /\ MovesSound(e) => Free(r)
      BY <2>2, <3>2, RunsOn
    <3> HIDE DEF r
    <3>4. Follows(r, c) /\ (Free(r) => CallsSound(c))
      BY <3>1, <3>3, LoopFollows
    <3>5. Follows(s, c)
      BY <2>5, <3>3, <3>4, FollowsOn
    <3> QED  BY <1>1, <2>6, <3>1, <3>3, <3>4, <3>5, FollowsAdvances DEF CInv
  <2> QED  BY <2>7, <2>8
<1> QED  BY <1>3, <1>8, <1>9

-----------------------------------------------------------------------------
(* Every step, and where it starts. *)

LEMMA InitSound ==
  ASSUME Init
  PROVE  BInv /\ CInv
<1> DEFINE s == Now
<1>1. PICK mode \in Modes :
        runtime = [state |-> "Ready", mode |-> mode, program |-> 0, generation |-> 0,
                   replacements |-> 0, sources |-> FALSE, resumeScheduled |-> FALSE,
                   stepping |-> FALSE, assembleOnly |-> FALSE, lastLink |-> FALSE,
                   running |-> FALSE, resumedByInput |-> FALSE, request |-> 0,
                   controller |-> 0, waitTimer |-> 0]
  BY DEF Init
<1>2. runtime \in Fields /\ runtime.state = "Ready"
      /\ runtime.program = 0 /\ runtime.generation = 0 /\ runtime.replacements = 0
      /\ runtime.request = 0 /\ runtime.controller = 0 /\ runtime.waitTimer = 0
  BY <1>1 DEF Fields, States
<1>3. machine \in Machines /\ machine.halt = 0 /\ machine.serial = 0
  BY DEF Init, NoMachine, Machines, Owners
<1>4. files \in Numbered /\ files.project = 0 /\ files.object = 0 /\ files.image = 0
  BY DEF Init, NoFiles, Numbered
<1>5. /\ pending \in Dues /\ pending.scheduled = {} /\ pending.timers = {} /\ pending.live = {}
      /\ pending.halts = 0 /\ pending.machines = 0
  BY DEF Init, Dues
<1>6. s = [rt |-> runtime, m |-> machine, files |-> files, tasks |-> {}, due |-> pending,
           threw |-> FALSE]
  BY DEF Now, Init
<1>7. s = Now
  OBVIOUS
<1> HIDE DEF s
<1>8. /\ s \in All /\ s.rt = runtime /\ s.m = machine /\ s.files = files /\ s.tasks = {}
      /\ s.due = pending
  BY <1>2, <1>3, <1>4, <1>5, <1>6 DEF All
<1>9. TasksSound(s)
  BY <1>2, <1>4, <1>8, RuntimeAssumption DEF TasksSound
<1>10. StateFits(s, s.rt.state)
  BY <1>2, <1>8 DEF StateFits, Building
<1>11. Counted(s)
  BY <1>2, <1>3, <1>5, <1>8 DEF Counted
<1>12. CallsSound(s)
  BY <1>2, <1>3, <1>5, <1>8 DEF CallsSound, OwnLoops, MovesSound, MovingIn, LiveSound
<1> QED  BY <1>7, <1>8, <1>9, <1>10, <1>11, <1>12 DEF BInv, CInv, Sound, BuildsSound

LEMMA StuttersAdvance ==
  ASSUME BInv, UNCHANGED vars
  PROVE  Advance
<1>1. Now' = Now
  BY DEF Now, vars
<1>2. BInv' /\ (CInv => CInv')
  BY <1>1 DEF BInv, CInv
<1>3. Wins(Now, Now)
  BY NowIs DEF Wins
<1> QED  BY <1>1, <1>2, <1>3 DEF Advance

LEMMA NextAdvances ==
  ASSUME BInv, [Next]_vars
  PROVE  Advance
<1>1. ASSUME NEW t \in tasks, BuildGoesOn(t) PROVE Advance
  BY <1>1, BuildGoesOnAdvances
<1>2. ASSUME NEW t \in tasks, LoadGoesOn(t) PROVE Advance
  BY <1>2, LoadGoesOnAdvances
<1>3. ASSUME NEW t \in tasks, BuildFails(t) PROVE Advance
  BY <1>3, BuildFailsAdvances
<1>4. ASSUME NEW t \in tasks, LoadFails(t) PROVE Advance
  BY <1>4, LoadFailsAdvances
<1>5. ASSUME NEW c \in pending.scheduled, Scheduled(c) PROVE Advance
  BY <1>5, ScheduledAdvances
<1>6. ASSUME NEW id \in pending.links, LinkStarts(id) PROVE Advance
  BY <1>6, LinkStartsAdvances
<1>7. ASSUME NEW t \in pending.timers, TimerFires(t) PROVE Advance
  BY <1>7, TimerFiresAdvances
<1>8. ASSUME NEW h \in pending.promises, PromiseSettles(h) PROVE Advance
  BY <1>8, PromiseSettlesAdvances
<1>9. ASSUME NEW link \in BOOLEAN, Compile(link) PROVE Advance
  BY <1>9, CompileAdvances
<1>10. ASSUME LoadElf PROVE Advance
  BY <1>10, LoadElfAdvances
<1>11. ASSUME LoadExecutable PROVE Advance
  BY <1>11, LoadExecutableAdvances
<1>12. ASSUME Inspect PROVE Advance
  BY <1>12, InspectAdvances
<1>13. ASSUME Step PROVE Advance
  BY <1>13, StepAdvances
<1>14. ASSUME RunUntilBlocked PROVE Advance
  BY <1>14, RunUntilBlockedAdvances
<1>15. ASSUME Wake PROVE Advance
  BY <1>15, WakeAdvances
<1>16. ASSUME NEW mode \in Modes, SetMode(mode) PROVE Advance
  BY <1>16, SetModeAdvances
<1>17. ASSUME NEW disposed \in BOOLEAN, ClearExecution(disposed) PROVE Advance
  BY <1>17, ClearExecutionAdvances
<1>18. ASSUME Awaited PROVE Advance
  BY <1>1, <1>2, <1>3, <1>4, <1>5, <1>6, <1>7, <1>8, <1>18 DEF Awaited
<1>19. ASSUME Called PROVE Advance
  BY <1>9, <1>10, <1>11, <1>12, <1>13, <1>14, <1>15, <1>16, <1>17, <1>19 DEF Called
<1>20. ASSUME UNCHANGED vars PROVE Advance
  BY <1>20, StuttersAdvance
<1> QED  BY <1>18, <1>19, <1>20 DEF Next

-----------------------------------------------------------------------------
(* The theorems. *)

\* Whatever the host calls and in whatever order what is awaited comes, each build
\* and load has a number of its own, the files are the newest build's while it is
\* under way, and a state that says that it builds has a build to end it.
THEOREM BuildsInvariantHolds == Spec => []BInv
<1>1. Init => BInv
  BY InitSound
<1>2. BInv /\ [Next]_vars => BInv'
  BY NextAdvances DEF Advance
<1> QED  BY <1>1, <1>2, PTL DEF Spec

\* The fields keep their types; what is numbered is at most what was begun.
LEMMA TypesFit ==
  ASSUME BInv
  PROVE  TypeOK
<1>1. /\ Now \in All /\ TasksSound(Now) /\ StateFits(Now, runtime.state) /\ Counted(Now)
      /\ Now.rt = runtime /\ Now.m = machine /\ Now.files = files /\ Now.tasks = tasks
      /\ Now.due = pending
  BY NowIs DEF BInv, Sound, BuildsSound
<1> DEFINE s == Now
<1>2. s = Now
  OBVIOUS
<1> HIDE DEF s
<1>3. /\ runtime \in Fields /\ machine \in Machines /\ files \in Numbered
      /\ tasks \in SUBSET Tasks /\ pending \in Dues
  BY <1>1 DEF All
<1>4. /\ runtime.state \in States \ {"NotReady"} /\ runtime.mode \in Modes
      /\ runtime.program \in 0..runtime.replacements
      /\ runtime.replacements \in 0..MaxReplacements
  BY <1>1, <1>3, RuntimeAssumption DEF Fields, TasksSound, StateFits
<1>5. {runtime.request, runtime.controller, runtime.waitTimer, machine.halt}
        \subseteq 0..pending.halts
  BY <1>1, <1>3 DEF Fields, Machines, Dues, Counted
<1>6. machine.owner \in Owners /\ machine.serial \in 0..pending.machines
  BY <1>1, <1>3 DEF Machines, Dues, Counted
<1>7. files \in [project : 0..runtime.replacements, object : 0..runtime.replacements,
                 image : 0..runtime.replacements]
  <2>1. /\ files.project \in 0..runtime.replacements /\ files.object \in 0..runtime.replacements
        /\ files.image \in 0..runtime.replacements
    BY <1>1, <1>3 DEF Numbered, Fields, TasksSound
  <2>2. files = [project |-> files.project, object |-> files.object, image |-> files.image]
    BY <1>3 DEF Numbered
  <2> QED  BY <2>1, <2>2
<1>8. \A t \in tasks : t.id \in 1..runtime.replacements
  BY <1>1, <1>3 DEF TasksSound, Tasks, Fields
<1>9. \A c \in pending.scheduled : c.generation <= runtime.generation
  BY <1>1 DEF Counted
<1> QED  BY <1>4, <1>5, <1>6, <1>7, <1>8, <1>9 DEF TypeOK

THEOREM TypesHold == Spec => []TypeOK
<1>1. BInv => TypeOK
  BY TypesFit
<1> QED  BY <1>1, BuildsInvariantHolds, PTL

\* While the runtime says that it builds (which refuses every other build), the
\* newest build is under way or a load has taken its number, for any assembler,
\* failures and bounds.
THEOREM SomeoneFinishesHolds == Spec => []SomeoneFinishes
<1>1. ASSUME BInv PROVE SomeoneFinishes
  <2>1. /\ StateFits(Now, runtime.state) /\ Now.rt = runtime /\ Now.tasks = tasks
        /\ Now.due = pending
    BY <1>1, NowIs DEF BuildsSound
  <2> QED  BY <2>1 DEF StateFits, Someone, SomeoneFinishes
<1> QED  BY <1>1, BuildsInvariantHolds, PTL

\* Nothing an older build or load finishes takes the newest one's place, and what is
\* superseded only ends: throwIfSuperseded() is asked after every await that matters.
THEOREM NewestWinsHolds == Spec => NewestWins
<1> DEFINE Latests == runtime'.program # runtime.program =>
                        \/ runtime'.program = 0
                        \/ runtime'.program + 1..runtime'.replacements \subseteq pending'.loads
           Quiets == \A t \in tasks :
                       \/ t.id = runtime.replacements
                       \/ \E u \in tasks' : u.id = t.id /\ u.at \in {t.at, "built"}
                       \/ UNCHANGED <<runtime, machine, files>>
<1>1. ASSUME BInv, [Next]_vars PROVE Latests /\ Quiets
  <2> DEFINE c == Now'
  <2>1. Wins(Now, c)
    BY <1>1, NextAdvances DEF Advance
  <2>2. /\ c.rt = runtime' /\ c.m = machine' /\ c.files = files' /\ c.tasks = tasks'
        /\ c.due = pending'
    BY DEF Now
  <2>3. /\ Now.rt = runtime /\ Now.m = machine /\ Now.files = files /\ Now.tasks = tasks
        /\ Now.due = pending
    BY DEF Now
  <2> HIDE DEF c
  <2>4. Latests
    BY <2>1, <2>2, <2>3 DEF Wins, Latest
  <2>5. Quiets
    BY <2>1, <2>2, <2>3 DEF Wins, Kept
  <2> QED  BY <2>4, <2>5
<1>2. BInv /\ [Next]_vars => [Latests]_vars /\ [Quiets]_vars
  BY <1>1
<1> HIDE DEF Latests, Quiets
<1>3. Spec => [][Latests]_vars /\ [][Quiets]_vars
  BY <1>2, BuildsInvariantHolds, PTL DEF Spec
<1> QED  BY <1>3 DEF NewestWins, LatestOnly, SupersededQuiet, Latests, Quiets

\* For a host that steps no program whose loop is scheduled: what is still to call
\* back is for the halt and the loop there are, and what a wait needs is there.
THEOREM CallsInvariantHolds ==
  ASSUME ~StepsMoving
  PROVE  Spec => []CInv
<1>1. Init => CInv
  BY InitSound
<1>2. BInv /\ CInv /\ [Next]_vars => CInv'
  BY NextAdvances DEF Advance
<1> QED  BY <1>1, <1>2, BuildsInvariantHolds, PTL DEF Spec

\* What CInv says of the variables
LEMMA CallsAre ==
  ASSUME BInv, CInv
  PROVE  /\ \A c \in pending.scheduled :
              c.generation = runtime.generation => c.serial = machine.serial
         /\ Moving => machine.halt = 0
         /\ pending.live # {} => pending.live = {machine.halt} /\ machine.halt # 0
         /\ \A t \in pending.timers : t.halt = machine.halt
         /\ machine.halt # 0 => WaitSound(Now)
         /\ Now.rt = runtime /\ Now.m = machine /\ Now.due = pending
<1>1. Now.rt = runtime /\ Now.m = machine /\ Now.due = pending
  BY NowIs
<1>2. OwnLoops(Now) /\ MovesSound(Now) /\ LiveSound(Now)
      /\ (\A t \in pending.timers : TimerSound(Now, t)) /\ (machine.halt # 0 => WaitSound(Now))
  BY <1>1 DEF CInv, CallsSound
<1>3. \A c \in pending.scheduled : c.generation = runtime.generation => c.serial = machine.serial
  BY <1>1, <1>2 DEF OwnLoops
<1>4. Moving => machine.halt = 0
  BY <1>1, <1>2 DEF MovesSound, MovingIn, Moving
<1>5. pending.live # {} => pending.live = {machine.halt} /\ machine.halt # 0
  BY <1>1, <1>2 DEF LiveSound
<1>6. \A t \in pending.timers : t.halt = machine.halt
  BY <1>1, <1>2 DEF TimerSound
<1> QED  BY <1>1, <1>2, <1>3, <1>4, <1>5, <1>6

\* A timer or promise that may still end a halt was made for it, and a callback that
\* may still resume a loop was scheduled for it: never for what was started since.
THEOREM OwnCallbacksHolds ==
  ASSUME ~StepsMoving
  PROVE  Spec => []OwnCallbacks
<1>1. ASSUME BInv, CInv PROVE OwnCallbacks
  <2>1. TypeOK
    BY <1>1, TypesFit
  <2>2. OwnWake
    BY <1>1, CallsAre DEF OwnWake
  <2>3. OwnLoop
    BY <1>1, CallsAre DEF OwnLoop
  <2> QED  BY <2>1, <2>2, <2>3 DEF OwnCallbacks
<1> QED  BY <1>1, BuildsInvariantHolds, CallsInvariantHolds, PTL

\* While the program waits for something the host's timer or promise ends, that
\* timer or promise is there.
THEOREM NoLostWakeHolds ==
  ASSUME ~StepsMoving
  PROVE  Spec => []NoLostWake
<1>1. ASSUME BInv, CInv PROVE NoLostWake
  <2>1. /\ \A t \in pending.timers : t.halt = machine.halt
        /\ machine.halt # 0 => WaitSound(Now)
        /\ Now.rt = runtime /\ Now.m = machine /\ Now.due = pending
    BY <1>1, CallsAre
  <2>2. ASSUME runtime.state \in Waiting, machine.halt # 0
        PROVE  /\ machine.wakes \in {"timer", "both"} => pending.timers # {}
               /\ machine.wakes \in {"promise", "both"} =>
                    machine.halt \in pending.promises \cap pending.live
    <3>1. CASE runtime.state = "ProgramWaitPause"
      BY <2>1, <2>2, <3>1 DEF WaitSound
    <3>2. CASE runtime.state = "ProgramReadlinePause"
      BY <2>1, <2>2, <3>2 DEF WaitSound
    <3> QED  BY <2>2, <3>1, <3>2 DEF Waiting
  <2> QED  BY <2>1, <2>2 DEF NoLostWake
<1> QED  BY <1>1, BuildsInvariantHolds, CallsInvariantHolds, PTL
=============================================================================
