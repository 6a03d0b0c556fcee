# A TLA+ model of x86-js

x86-js runs Linux x86-64 programs in the browser: a fork of the Blink emulator
compiled to wasm (`src/libblink`) under a TypeScript package (`src/blink-js`)
that assembles, links, runs, steps, inspects and undoes them. This directory
holds TLA+ modules of the parts where the order of events matters, the TLC
configurations that check small instances of them, and proofs for TLAPS.

- [The system](#the-system): its parts, what each keeps, what is hard
- [The modules](#the-modules): what models what
- [The runs](#the-runs): what TLC checks, with which bounds
- [The proofs](#the-proofs): what TLAPS proves, from what, and how
- [Findings](#findings), and [known divergences](#known-divergences) no run shows
- [Not modelled](#not-modelled)
- [The plan](#the-plan)

To check a run or a proof:

    tlc -config session_reach.cfg MCUndoSession
    tlapm DebugHistoryProofs.tla

## The system

### Parts that run the guest (C, inside the wasm)

**Undo history** (`blink/debughistory.c`). *State:* a ring of entries (`entries`,
`slots`, `start`, `count`, `hollow`, `held`, `base`), the step being recorded
(`pending`, `pending_irreversible`, `before`, `journal`, `split_*`), an open Poke
(`poke`, `poke_bytes`) and the call stack (`stack`). *Operations:* begin and finish
a step, journal a device's change, gather the writes of a split, mark an effect
irreversible, begin, extend and end a Poke, undo, set the capacity, clear.
*Correct when:* an undo restores everything its entry recorded, never crosses an
effect it cannot take back, and the ring stays inside its capacity and budget.
*Hard because:* an entry keeps only where it ended. What it started from is
derived from its neighbour, which a drop, an undo, a signal or a host edit may
have changed in between.

**Run loop** (`blink/blinkenlib.c`). *State:* the machine, the active instruction's
identity, the counts of instructions, the breakpoints and the slice's limit.
*Operations:* run a slice, step, resume a wait or an input read, set up and tear
down a program, abandon an instruction, recover from a native exit. *Correct
when:* every instruction begun is finished, given up or waiting, exactly once;
a limit or a breakpoint stops before an instruction and not inside one. *Hard
because:* an instruction leaves through `longjmp` for six reasons, and a rep
string instruction leaves and comes back as the same one.

**Waits and the interval timer** (`blink/environment.c`), **signals**
(`blink/signal.c`). *State:* the pending wait with its deadline, clock, wake sources
and saved mask; ITIMER_REAL; the pending signals, mask and handlers. *Operations:*
halt, restart, cancel, finish; arm, check, read the timer; enqueue, deliver,
return from a handler. *Correct when:* a wait ends by the earliest of its deadline,
the device's and the timer's, keeps its deadline across restarts, and its
temporary mask is always put back. *Hard because:* a blocked call runs again from
its start, on clocks that may disagree.

**Terminal** (`blink/terminal.c`). *State:* the input queue with its end-of-input
tokens, termios, a read's VTIME progress. *Operations:* provide input or its end,
read in canonical or raw mode, flush, change modes, undo a journal record.
*Correct when:* bytes reach the guest once and in order, and an undone read puts
back exactly what it took, before what came since.

**Pipes** (`blink/browserpipe.c`). *State:* a byte ring with counts of readers and
writers per pipe, the descriptors of the ends. *Correct when:* bytes are delivered
in order, writes up to PIPE_BUF are atomic, end of file and EPIPE follow the
ends' lifetimes. *Hard because:* one process holds both ends and can wait on itself.

**Input devices** (`blink/evdev.c`). *State:* for each device the keys held, the LEDs,
the packet being built and who grabbed it; for each reader its queue, how much of it
is whole packets, its masks and clock; atkbd's last key and the console's locks.
*Operations:* the host's reports; read, write, poll, ioctls, open, close; undo of a
record. *Correct when:* packets are read whole, a reader knows the device's state or
is told that it lost it, and undo takes back what the program did and leaves what the
host did. *Hard because:* the host's reports are in no journal and come between the
instructions that are undone.

**Sound** (`blink/oss.c`, `rawmidi.c`, `speaker.c`, `sound.c`). *State:* of /dev/dsp the
settings, the fragment being staged, the ring with its clock and how far a blocked
write is; of the MIDI port a buffer, of the speaker a tone. *Operations:* write, sync,
reset, set and ask, poll, close; the program's end; undo of a record. *Correct when:*
a blocked write that restarts queues no byte twice, the ring counts as queued what the
host will play, and undo takes back what was not heard. *Hard because:* nothing ticks:
how much has played is worked out when a call asks, and the ring drains between a call
and its undo.

**Other devices** (`blink/devices.c`, `fbdev.c`). *State:* open descriptions,
framebuffer modes. *Correct when:* what the journal says is what undo takes back.

### Parts around it (TypeScript)

**Undo session** (`x86-emulator.ts`, `native-history.ts`). *State:* `undoEnabled`,
`floor`, `pokeOpen`, `executing`, the cached rows. *Operations:* initialize, step, run,
undo, preflight a group of undos, turn undo off and on, begin and end a Poke,
list rows. *Correct when:* undo reaches exactly what ran since it was turned on, a
preflight is a promise, rows are never stale, and a Poke open on one side is
open on the other.

**Runtime** (`blink-runtime.ts`). *State:* the machine's state as JavaScript sees it,
the replacement generation of builds, wait requests and their host timers, the
cache of links and downloads. *Operations:* build, load, run, provide input, resume
or cancel a wait, send a signal, clear, dispose; callbacks from the wasm. *Correct
when:* nothing an abandoned build, wait or timer does later reaches the program
that replaced it.

**Linking** (`link-selection.ts`): which members of a library a link takes.
**Project file system** (`project-file-system.ts`): a mounted capability behind the
guest's file calls. **Downloads** (`resources.ts`, `linux-runtime.ts`), **assemblers**
(`wasm-assembler.ts`), **source maps, symbols, disassembly, compiler output**: see
PROJECT.json for each with what is left out and why.

### How they interact

JavaScript calls exports of the wasm between instructions; the wasm calls back
for output, signals, waits and host errors while an instruction runs. Everything
is one thread: an instruction is a run of calls that only a callback can enter,
and interleaving happens at the places where it halts (a wait, an empty read, the
end of a slice) and where a build awaits.

## The modules

| module | models | extends |
|---|---|---|
| `DebugHistory` | `debughistory.c`, and of the run loop where a step begins, waits and ends | |
| `UndoLog` | what an undo history promises, whatever it stores | |
| `UndoSession` | the guards and state JavaScript puts over it | `DebugHistory` |
| `TerminalInput` | `terminal.c` where a program reads, and `provideInput()` around it | |
| `BrowserPipe` | `browserpipe.c` and the system calls that reach it | |
| `GuestWait` | `environment.c`, `signal.c` and the calls that wait | |
| `Runtime` | `blink-runtime.ts` over a run loop that halts, ends or is preempted | |
| `Evdev` | the keyboard of `evdev.c` with its readers | |
| `CardRate` | the arithmetic of `oss.c`: the card's clock and its rate plugin | |
| `Dsp` | the playback of /dev/dsp, `oss.c`, with the host's schedule | `CardRate` |
| `MC...` | instances of them for TLC | one each |
| `DebugHistoryProofs` | proofs: the ring, its budget, undo and its barriers, `UndoLog` implemented | `DebugHistory` |
| `UndoSessionProofs` | proofs: reach, preflights, rows and Pokes | `UndoSession` |
| `TerminalInputProofs` | proofs: order of the input, reads that wait | `TerminalInput` |
| `BrowserPipeProofs` | proofs: all five invariants of the pipes | `BrowserPipe` |
| `GuestWaitProofs` | proofs: all but liveness of the waits | `GuestWait` |
| `RuntimeProofs` | proofs: builds, and whose callbacks are whose | `Runtime` |
| `EvdevProofs` | proofs: whole packets, waits, the console's LEDs, undo | `Evdev` |
| `DspProofs` | proofs: ring and host, bytes, room, undo | `Dsp` |

`UndoSession` composes with `DebugHistory`: each of its actions is one of the
history's under the guard of the public call that leads to it. The others are models
of their own, and each keeps of its neighbours what it can see of them. An instruction
that waits is a halt with a wake-up in `Runtime`, a call with its deadline in
`GuestWait`, a read in `TerminalInput` and `Evdev`, a write or a sync in `Dsp`, a step that goes on
in `DebugHistory`; the journals of `TerminalInput`, `Evdev` and `Dsp` are a device's one
record in `DebugHistory`. One module of all of them would be out of TLC's reach.

### DebugHistory

`machine` is everything an undo puts back: registers, memory, the devices that
journal, `exited`, the count of executed instructions and the call stack. The code puts
the count back, and so does the model; no property asks for it, because the documents say
that it keeps increasing. `ring`
holds the C statics of the ring under their names, and `step`, `poke` and
`poke_bytes` those of the step and the Poke under way. `phase` is where the run
loop stands: between instructions, inside one, or waiting inside one.

| action | code |
|---|---|
| `Begin` | the run loop takes an identity and `DebugHistoryBegin()` the snapshot |
| `Write`, `Journal`, `Effect`, `Split` | what an instruction does before it ends |
| `Wait`, `Resume` | a blocked call halts, and starts over; a device write may have queued bytes and journaled them |
| `Retire` | `FinishRecordedStep()` and `FinishExecution()`, for each way to end |
| `NativeExit` | `blinkenlib_recover_native_exit()` |
| `DeliverSignal` | a signal taken between two instructions |
| `EditRegister`, `EditByte` | the host's setters, in a Poke and out of one |
| `BeginPoke`, `EndPoke`, `Undo`, `SetCapacity` | the exports of the same meaning |
| `Load` | `setupProgram()` with the teardown before it, or `blinkenlib_clear_execution()` |

An instruction is a sequence of these actions, so a Poke or an undo can only fall
where the code lets it. The data is small: a register is one of a few values, an
address one byte, a device one state, an entry's cost `Charge` plus the length of
its tail. The FPU block and the flags word are kept and restored by the code as
registers are, and are not told apart from them. Adjacent writes of a Poke, which
the code joins to ranges, are taken as separate ones.

`past` and `open` are history variables. `past[i]` is the whole machine as it was
when the i-th entry of the ring began, with the places no entry covers any more
(`loose`: a host edit outside a Poke, an instruction a native exit broke off) and
whether something happened since that nothing can take back (`lost`). Nothing in
the modelled code reads them. A native exit in an instruction that had such an effect
leaves the place `"world"` loose in every entry: `DebugHistoryCancel()` forgets the
barrier that was pending, and the older entries can be undone past the effect
([known divergences](#known-divergences)). `NoUndoPastEffect` and `UndoLog` leave out
exactly those effects, and no others.

What the parts of a split instruction gather has a budget of its own, `SplitBudget` for
the code's `SPLIT_BUDGET`: `TooMuch` is looked at when a part is gathered and again when
the last one is joined to them, and past it the step is a barrier.

### UndoLog

The promise: a log whose entries say where the machine was, weaken but never
strengthen, are forgotten oldest first, and of which an undo takes the newest,
undoable one, back to where it began. `DebugHistory` implements it under the
mapping `Log` at its end: `past` joined with each entry's `reversible` flag. The ring,
the derived starting registers, drops, hollowing and budgets are all below this
level.

### UndoSession

Every action of `DebugHistory` happens under the guard of the public call that
leads to it; `floor`, `undoEnabled`, `pokeOpen` and `rows` are the fields of the
TypeScript classes. `Depth` is the bisection of `NativeHistory.depth()` as a recursive
function of its two bounds. `out`, a history variable, names the entries that began before undo was
last turned back on.

### TerminalInput

`terminal` holds the bytes queued, `position` and the End of input tokens as the C
statics do; `mode` is the termios as far as a read looks at it; `read` is what a read
knows across the times it starts over (`read_waited`, `read_wait_tail`, `read_seen`,
and VTIME's time as the tenths that have passed). A byte is the number the host
gave it under and whether it is a line feed, so that order and identity can be
told without its text.

| action | code |
|---|---|
| `Read` | `SysRead()`: `WaitForTerminalInput()`, then `ReadTerminal()` unless it halts |
| `ProvideInput`, `ProvideEndOfInput` | `provideInput()`: the queue grows, and a read that waits starts over |
| `Tick`, `Resume`, `Cancel` | Program time; the host's timer or the guest's; `cancelWait()` |
| `Ioctl` | TCFLSH, TCSETS and TCSETSF |
| `SendSignal` | `SendTerminalSignal()` |
| `Undo` | `UndoTerminalJournal()` for each record of the newest entry, newest first |
| `Exit`, `StartProgram` | `handleExit()` or `handleSignal()`; `startProgram()`, after a build or not |

The log keeps of the history the instructions that use the terminal, and that a
signal empties it; `DebugHistory` has the rest. Beside each journal `Entry` keeps,
for the properties, what the instruction found and what had been given when it
ended. `Attempt` is one try of a read, so whatever resumes a read goes through the
whole of it. Whether an empty read fails with EAGAIN or returns 0 is not told apart.

### BrowserPipe

`fds` is the process's table of descriptors, `ends` the list of the same name, `pipes`
the allocated `struct BytePipe`. There is one process, so it has both ends; what it
does (`doing`) is to run, to be in a call, or to wait in one, and `frames` are the
handlers running over a call that waits. An interrupted call starts over from its
arguments, and finds behind its descriptor whatever the handler left there.

| action | code |
|---|---|
| `Pipe2`, `Dup`, `Dup2`, `Close`, `SetFlags` | the system calls, with `BrowserPipeAdd()`, `BrowserPipeDuplicate()`, `BrowserPipeForget()` |
| `Enter`, `Halt`, `Answer` | a call begins, waits, or is answered without the ring |
| `Read`, `Write` | `BrowserPipeRead()`, `BrowserPipeWrite()`, and `sendfile()` into a pipe |
| `Handler`, `Return`, `Cancel` | a signal's handler starts and returns, with SA_RESTART or not; `cancelWait()` |

A byte is numbered modulo `Serials`, in the order it was written; `answered` is a
history of the ends of file and broken pipes a program was told of.

### GuestWait

An attempt of a call is one action, from its first look at the signals to its answer
or its halt, by one reading of the clocks. A halt leaves nothing but the statics of
`environment.c`, which are `wait` and `timer`; `mach` is what `struct Machine` keeps of
signals, and a frame has the mask its return goes back to. Time passes between
instructions and while one is halted.

| action | code |
|---|---|
| `Tick`, `SetWallClock`, `Slice` | the clocks move, the wall clock is set, a slice of instructions ends |
| `Instruction` | a call begins, a mask, a timer or a handler's return; signals are looked at before it |
| `Attempt`: `Answer`, `Interrupt`, `Halt` | the call's end, EINTR or a restart through a handler's frame, and `GuestWaitHaltWake()` |
| `Resume`, `SendSignal`, `InputComes`, `HostTimerFires` | what the host does to a wait |

`"poll"` is poll() of no descriptors. `Poll()` looks at the timer and at the signals once
for each descriptor, so without one it looks at neither, and the loop does not either
while the call waits: `Blind`. It ends at its time or by a cancellation, and what is then
pending is taken before the next instruction. poll() of a device is `ppoll` without a mask.

The instances' handlers mask nothing besides; the fields of a timer that is not armed
are normalised; a sleep on CLOCK_REALTIME follows the wall clock when it is set. A
host that waits through `environment.wait()` is in `Runtime`.

### Runtime

An action is all that JavaScript runs up to the next `await` or return to the event
loop, the native loop it calls included. `runtime` has the fields of `BlinkRuntime`
under their names, `machine` what is in the wasm and whose it is (a program's, an
assembler's, a linker's), `files` of which build the project, the object and the
image are, `tasks` the builds and loads with what each awaits, and `pending` what the
event loop will call back: scheduled loops, links, timers, promises.

| action | code |
|---|---|
| `Compile`, `BuildGoesOn`, `BuildFails` | `buildProject()`, cut at its awaits |
| `LoadElf`, `LoadExecutable`, `LoadGoesOn`, `LoadFails` | the loads |
| `Inspect`, `Step`, `RunUntilBlocked` | `pauseAtEntry()`, `step()`, `runUntilBlocked()` |
| `Wake` | `provideInput()`, `resumeWait()`, `cancelWait()`, `sendSignal()` as far as they resume |
| `Scheduled`, `LinkStarts`, `TimerFires`, `PromiseSettles` | callbacks |
| `SetMode`, `ClearExecution` | the calls of that name, and `dispose()` |

Awaits end in any order. Some that always follow each other are one: a download
already cached, the two of gas, a build's report of progress, a load's. Tools that wait
are left out: `runTool()` leaves one in its wait (`blink-runtime.ts:1233`), whence
`resumeWait()` could resume it. The host awaits a run before it starts another.

### Evdev

`dev` is the keyboard: keys, LEDs, the packet being built (`vals`), the grab, atkbd's
last key, the console's locks and the LEDs it set. A reader has its queue, how much of
it is `readable`, how often it overflowed (`epoch`), its masks and clock. `log` has the
journal's records of each instruction since the last barrier, with, for the
properties, what the instruction found and what the host's reports added to each
queue since. `view` is a history: what each reader's program takes the keys and LEDs
to be from what it read and asked, or that it cannot know.

| action | code |
|---|---|
| `InputReport` | `blinkenlib_input_report()`, `HostKey()`, `AtkbdByte()`, `ConsoleBottomHalf()`, and `sendInputReport()` resuming a wait |
| `Read`, `Poll`, `Interrupt` | `WaitForDeviceRead()`, `ReadEvdev()`, `PollEvdev()` |
| `Write` | `WriteEvdev()`, `BeginInject()`, `EndInject()` |
| `GetValues`, `SetClock`, `Grab`, `SetMask`, `Revoke` | the ioctls |
| `OpenEvdev`, `ReleaseEvdev` | open, and the last close |
| `Undo` | `UndoEvdevJournal()` for each record of the newest entry, newest first |

`HandleEvent`, `PassValues`, `PassToClient` and `PassEvent` are functions of the whole
state, folded over events as the code loops over them, since the console injects
events while a packet is passed on.

### Dsp

`dsp` is `struct DspState` under its names, `staging` the buffer beside it, `host` what
the host was handed and has not played, and `call` a call that waits, with its progress
and the records its passes left. One operator per function takes a pass (`struct
DspPass`, the state it works on and what its record will say) to the pass after it, so
that a call is a composition of them as in the code: `MakeReady`, `ApplyParams`,
`DropRing`, `Prepare`, `Write2`, `Write1`, `Sync`.

| action | code |
|---|---|
| `Open`, `Close` | `OssOpen()`, `OssCloseWait()` with `OssRelease()` |
| `Write`, `SyncIoctl` | `OssWrite()`, `SyncIoctl()`, to their end or their halt |
| `Resume` | the instruction of a call that waits starts over, at its time or before |
| `SetRate`, `SetFragment`, `Ask`, `ResetIoctl`, `Nonblock` | `DspRequest()`, by what a request does to the substream |
| `Poll` | `OssPoll()` |
| `Exit`, `Killed`, `StartProgram` | `OssProgramExit()`, `OssProgramKilled()`, the teardown and reset of the next start |
| `Tick` | Program time passes, and the host plays what is due |
| `Undo` | `UndoOssJournal()` for each record of the newest entry, newest first |

The clock is one frame to a unit of time: `Played`, `Queued`, `FrameTime`, `PlayedBy` and
`RoomDeadline` are those of `CardRate` on `FrameClock`, so that few units of time are enough
for TLC. `CardRate` has them for any rate and any second, with
the code's divisions, and the rate plugin with its fixed point and the pair of counts it
remembers; `RoomExact` asks of each card in `Cards` what becomes of the ring at hand on its
clock, and of its fragment between the rates.

A byte is its number in what the program has written (`sent`), which undo sets back, so
that order, loss and repetition can be told without samples. `lost` and `restarted` are
histories: up to where staged or queued bytes were thrown away, and whether an undo went
back past a stop to a stream that ran. An entry of `log` keeps, for the properties, what
its call found.

## The runs

`CHECK_DEADLOCK FALSE` stands in every configuration because the bounds
(identities, outside events, input, halts, time) run out; the program itself can
stop by exiting, or wait for ever for what the host need not give.

| run | distinct states | what it shows |
|---|---|---|
| `history_registers` | 893,404 | starting registers are found, identities grow, undo restores, with calls, exits, faults, signals, edits and Pokes |
| `history_memory` | 597,751 | the history implements `UndoLog`: undo restores memory and devices and crosses no effect but a broken-off instruction's, with splits and their budget, truncated journals, waits and native exits |
| `session_reach` | 352,460 | undo's reach is exact, preflights hold, Pokes are known, no stale row is shown; the ring's shape, growth and hollowing, and the exact budget |
| `terminal` | 807,264 | input reaches the program once and in order, no read waits for what is there, undo gives back what was found, a read with VTIME ends |
| `pipes` | 2,201,932 | ends are counted, bytes keep their order, ends of file are final, no call waits for what a handler brought, poll() and the calls agree |
| `waits` | 1,851,823 | deadlines, masks, cancellations and the timer's phase survive restarts and handlers; nothing due is slept over, and no signal but by poll() of no descriptors |
| `waits_end` | 395,396 | a wait that something ends does end, and a timer goes off |
| `runtime` | 1,915,104 | nothing superseded acts on what replaced it, every callback is for what it was made for, no wake-up is lost |
| `evdev` | 610,725 | packets whole, a reader that knows the state or that it lost it, no packet missed, undo beside the host's reports |
| `dsp` | 508,059 | ring and host agree, bytes play once and in order, room comes when it was told, to the frame and the nanosecond, undo takes back what was not heard |
| `runtime_stuck`, `runtime_loops` | | the findings |

*Fairness.* `terminal`: Program time passes (`WF(Tick)`), and a read whose wait has a
deadline is resumed (`WF(Resume)`), which the code arranges by a host timer
(`blink-runtime.ts:1996`), or by the environment the embedder gave
(`blink-runtime.ts:1980`), which is trusted to. `waits_end`: instructions are executed
(`WF(Guest)`), a host timer that is due fires (`WF(HostTimerFires)`), both of which are
the event loop's, and time passes; that is strong fairness, since time cannot pass in
the middle of a call, and a program that makes one call after the other would
otherwise stop the clock. `runtime_stuck`: what is awaited comes (`WF(Awaited)`), as the
event loop runs every callback. The host need call nothing and give no input in any
of them, and a read that waits for a first byte may wait for ever.

### Bounds

*History.* `MaxIdentity` bounds the steps and Pokes begun, `MaxEffects` the writes and
records of one, `MaxOutside` the events no entry records. They are named in the
guards, and a run chooses which of them to spend its states on: three identities
over a ring of two are enough for a drop with an undo before or after it. `SplitBudget = 2` bytes
let an instruction split within its budget and past it, at a part or at its end; a split in
`session_reach`, where it is 0, is a barrier or writes nothing. The ring
starts with one slot (`FirstSlots = 1` for the code's 64): one of three slots grows
twice, one of two wraps. `Charge = 1` and `Budget = 3` make the second or third entry
hollow the first, which is then dropped, undone to or kept. Two registers
are needed where a signal, a call and an edit move different ones; one address
suffices since a write's old value depends on no other address. Bytes and device
states are only compared, so `history_memory` treats them as symmetric. For the
session three identities over a ring of two leave an identity that an undo took out
and a dropped entry behind; one event no entry records (an edit, a build, another
capacity, a signal) comes before or after undo is turned off and on again, which has no
bound of its own.

*Terminal.* `MaxGiven` bounds what the host gives and `MaxLog` what can be undone: three
bytes or tokens in chunks of a key or a line, and two instructions, are enough for
a read that finds some, waits for more and is undone over another. `Indices = 64`
stands for 2^64; it only has to exceed what is given on either side of 0, and
positions do go below 0 there.

*Pipes.* One pipe at a time, as its address comes back after it is freed, and four
descriptors, one of them above the limit: two ends, a duplicate, and a `dup2` over
any. `Capacity = 3` and `Atomic = 2` stand for 65,536 and 4,096: writes of 2 and 3 are
one at the atomic size and one past it, the ring wraps at every offset, and is full,
empty and in between. One handler at a time runs calls of its own.

*Waits.* Clocks of five instants, durations and a period of two and a wall clock one
ahead that may fall back by one let deadlines, the timer and a device's readiness
come before, at and after each other, and the timer miss a period. Two signals, one of
them the alarm, in three tables of handlers, and two masks. A slice looks at the timer
every two instructions for the code's count. `Depth = 0`: a handler changes no masks of
its own; it makes calls that wait.

*Runtime.* Three replacements and machines, two halts, one preemption for the code's
many. A third build supersedes one that superseded another; an assembler, a linker and
a program each may be preempted. `StepsMoving = FALSE`: the host does not step a
program whose loop is scheduled, which the finding `runtime_loops` is about and which
breaks `NoLostWake` too. fasm is modelled and not in the instance.

*Evdev.* Two readers, treated as symmetric, a letter and a lock, two reports of the
host's and three calls of the program with any undos between them; two packets of
three events overflow a queue of `Limit = 6` for the code's 4,096, and a third finds
vals nearly full at `MaxVals = 6`. Reads are for two events: whole packets of two, and
the first two of three. The writes leave a key in an unfinished packet, or finish one
with an LED.

*Sound.* A frame is a byte and plays for one unit of time; what rounding does is asked of
three cards beside it: 44,000 Hz on one of 44,100 Hz, whose frames take 22,675 and a
fraction nanoseconds, 64,000 Hz on 48,000 Hz, whose program is the faster, and 9,007 Hz on
16,000 Hz, where the fixed point divides least evenly. TLC asks of every ring it reaches, at
the moment the last frame played and one nanosecond on; the theorem of every clock and time.
Fragments of two bytes and of one, two of them in a ring, and settings
that cannot be had, refused before or after the ring is dropped. A write of five bytes
exceeds ring and fragment together, so it halts twice or leaves a part staged; a write of
one stages or completes a fragment. Five calls with three in the log are a write, a stop
or new settings, a second write, and undos of any of them while five units of time pass.

Each property of a passing run has a mutant of the code that breaks it: a
definition such as `DropOldestKeepsBase` beside `DropOldest`.

## The proofs

Each theorem holds for every value of the constants that satisfies the assumption
its module names (`HistoryAssumption`, `TerminalAssumption`, `PipeAssumption`,
`WaitAssumption`, `RuntimeAssumption`, `EvdevAssumption`, `DspAssumption`). These say that
capacities and bounds are natural numbers in the order the code has them, that sets of
bytes or times are what they are named for, that a value that stands for "none" is no
member of the set it is compared with, and that any settings lead to at least two fragments
of at least one frame. Cards have any rates and periods but zero. Registers, addresses,
descriptors, programs, periods, fragments and capacities may be as many and as large as one
likes.

| theorem | statement |
|---|---|
| `DebugHistoryProofs!InvariantHolds` | `Spec => []IInv` |
| `TypesHold`, `RingShapeHolds`, `BeforeChainHolds`, `IdentitiesGrowHolds` | `TypeOK`, `RingShape`, `BeforeChain`, `IdentitiesGrow` |
| `BudgetExactHolds` | `BudgetExact` |
| `UndoInvariantHolds` | `Spec => []UndoSound` |
| `NoUndoPastEffectHolds`, `UndoRestoresHolds` | `NoUndoPastEffect`; the action property `UndoRestores` |
| `KeepsPromiseHolds` | the refinement `KeepsPromise`: every step is one of `UndoLog` or a stutter |
| `UndoSessionProofs!SessionKeepsHistory` | the session's behaviours are the history's |
| `SessionInvariantHolds` | `SessionSpec => []SessionInv` |
| `ReachExactHolds`, `PokeKnownHolds`, `RowsFreshHolds`, `PreflightKeptHolds` | the properties of the same names |
| `TerminalInputProofs!TerminalInvariantHolds` | `Spec => []TInv` |
| `InOrderHolds`, `NoneMissedHolds` | `InOrder`, `NoneMissed` |
| `BrowserPipeProofs!InvariantHolds` | `Spec => []IInv` |
| `EndsCountedHolds`, `StreamKeptHolds`, `FarEndFinalHolds`, `NoMissedWakeHolds`, `PollHonestHolds` | the properties of the same names |
| `GuestWaitProofs!WaitInvariantHolds` | `Spec => []WInv` |
| `DeadlineKeptHolds`, `NoSignalSleepsHolds`, `NothingDueUnseenHolds`, `TimerKeepsPhaseHolds`, `CancelEndsOneHolds`, `MaskPutBackHolds` | the properties of the same names |
| `RuntimeProofs!BuildsInvariantHolds` | `Spec => []BInv` |
| `TypesHold`, `SomeoneFinishesHolds`, `NewestWinsHolds` | `TypeOK`, `SomeoneFinishes`; the action property `NewestWins` |
| `CallsInvariantHolds` | `Spec => []CInv`, if `~StepsMoving` |
| `OwnCallbacksHolds`, `NoLostWakeHolds` | `OwnCallbacks`, `NoLostWake`, if `~StepsMoving` |
| `EvdevProofs!Invariant` | `Spec => []IInv` |
| `PacketsStayWhole`, `NoPacketMissed`, `ConsoleStaysSettled` | `PacketsWhole`, `NoMissedPacket`, `ConsoleSettled` |
| `UndoGives` | the action property `UndoGivesBack` |
| `DspProofs!Invariant` | `Spec => []IInv` |
| `HostAlwaysAgrees`, `BytesPlayOnce`, `RoomAlwaysExact` | `HostAgrees`, `BytesOnce`, `RoomExact` |
| `UndoAlwaysTakesBack` | the action property `UndoTakesBack` |

`StepsMoving` is a constant and not a fact about the code: it says whether the host
steps a program whose loop is scheduled. If it does, `OneDriver` is false, which
`runtime_loops` shows, and `NoLostWake` with it; so these theorems are about a host that
waits for its run first, and carry the assumption in their statements. `OneDriver` is no
theorem: for such a host it would only say what the assumption does.

Almost no property is inductive alone. Each strengthening was checked by TLC as an
invariant before it was proved, on the instance of a run, but for those of `Evdev`, which
speaks of every queue a reader may come to have, and of `Dsp`, which says of states between
two records that there are such:

| invariant | on the instance of | distinct states |
|---|---|---|
| `IInv`, `UndoSound` of the history | `history_registers`, `history_memory` | 893,404 and 597,751 |
| `SessionInv` | `session_reach` | 352,460 |
| `TInv` | `terminal` | 807,264 |
| `IInv` of the pipes | `pipes` | 2,201,932 |
| `WInv` | `waits` | 1,851,823 |
| `BInv`, `CInv` | `runtime` | 1,915,104 |

`BInv` and `CInv` were checked with fasm as well, alone and beside gas.

*History.* `IInv` joins types, the ring's shape, the chain and identities, and adds
what the step under way keeps (`StepSound`): it has an open record exactly when an
instruction or a Poke is under way, its snapshot says truly whether the registers
had moved and which they were, and its identity is above every entry's. The ring's
part, `Sound`, is a predicate of a ring, its ghost log, a capacity and an identity, so
that each lemma follows one operator: `Grow` renumbers entries without changing
what the i-th is, `DropOldest` moves the chain's anchor to `base`, `HollowTo` changes
nothing the chain reads, `WithNewest` appends, `StartedFrom` repairs the newest link,
`WithoutNewest` drops it. `NewEntry` composes them, `Finish` follows, and the proof
that `Next` preserves `IInv` has one step per action. `RingShape` says that the hollow
entries are exactly the oldest, which `Shaped` and `HollowFirst` give.

*Undo.* `UndoSound` says what an entry is worth: its tail, undone, with the registers
of its chain gives the machine of `past` but for the loose places, for the entries of
the ring and for the record under way; and an effect that nothing can take back has
an irreversible entry at or after it, or the step is barred, or it was of an instruction
that a native exit broke off. An undo looks at one entry
only, but the invariant has to speak of all, because each is the newest one day. The
refinement takes the same lemmas: what an action does to the ring is one of `UndoLog`'s
appends, weakenings, droppings and undos of the mapped log.

*Budget.* `BudgetExact` is inductive with `IInv`. `held` is a sum over the places of the
ring that are not hollow. That such a sum does not depend on the order its elements are
chosen in is proved for any finite set of places, and from it how the sum over an
interval changes when an end of it moves or all of it shifts. The lemmas then follow
`NewEntry` in the code's order: growth and a drop keep the sum or take off the oldest
cost, `HollowOldest` ends within the budget or with one entry left, and the buffers a
slot passes on belong to the slot taken next, the only free one that may keep anything
while an entry is made. `BudgetExact` is an invariant of `session_reach`, so TLC checks
the strengthening as it stands.

*Session.* `SessionInv` puts `floor` among the identities of the ring, so that those
above it are the entries since undo was last turned on. The bisection is then proved for
every ring: what it keeps, that one side is out of reach and the other within it, is
carried along the recursion.

*Terminal.* `TInv` says that what was taken out of the queue is held by the log: each
entry covers an interval of indices, the intervals follow each other in the order of
the entries and end where the queue begins, so that bytes given back are in front of
everything left, and the tokens in what an undo puts back are those that stood there.
Indices are unsigned, and comparisons of the code that wrap are proved to agree with
distances from `position`.

*Pipes.* The invariant ties the list of ends, the counts and the descriptor table to
each other (a cardinality that changes by one descriptor at a time), and to a ring the
interval of serials between what was read and written, wherever it wraps. That who
waits still has to is inductive with it, for a handler's calls over the frames as well.
`PollHonest` then follows for every end and every call by comparing `Revents`, `Waits` and
what the call would move, three conditions the code decides apart, with the counts and
the sizes the invariant bounds.

*Waits.* `WInv` says of a call that waits what its deadline was first, whose the mask
is, and what the host's timer is due by; of frames, the mask each return puts back; of
the guest's timer, that the next expiry is a multiple of its interval from where it
was set.

*Runtime.* `BInv` is about builds alone: numbers are distinct and below the newest,
files belong to the newest build while it is under way. `CInv` adds the event loop: a
timer, a promise, a controller or a scheduled loop is of the halt and the generation
there are, or is told that it is not.

*Input devices.* What happens to a reader while packets are passed on is one relation,
`Grown`: it has whole packets more behind what it had (`Fed`), or it lost what it had and
was told so. Every packet, event, report and write is then a number of such steps, and
`Whole`, the property of one queue that `PacketsWhole` asks of all, is kept by each of
them, by a read and by a flush. Undo looks at an entry when anything may have come since;
so the invariant says of an entry what its undo makes of *every* queue it may find:
`LinkOf`, that of the queue the instruction left with any packets P behind it undo makes
the queue it found with P behind, and that of a queue that overflowed since it puts back
only what goes in front of the loss. What the host reported since (`since`) is then in
the entry's own terms, and `LogOK` ties each entry to the one after it, because undoing that
leaves the readers as that one found them, with what came since. `Looks` says the same of
the device: where neither the host nor the entry's own write touched it, it is as the
instruction left it. `ConsoleSettled` needs of a packet that its locks have a report behind
them (`LocksReported`), and of each entry that its devices, before and after, were settled.

*Sound.* A call is a composition of operators, each from a pass to a pass, with loops that
are folds. `Sound` is what each of them keeps of the pass it is given: the ring's counts are
in bounds (`RingOK`), the buffer has the size of a fragment (`BufferOK`), the host has a note
for every frame from now until the ring has played out (none need be there once `restarted`)
and none behind it (`HostOK`), what was
written is on its way once and in order (`StreamOK`), and the record under way takes what the
pass did back to what it found. Where a wait halts it, `Halts` says that its time is the first at which
there is the room it needs. Each operator then has one lemma, from `BeginPass` through
`DropRing`, `Prepare`, `Write2`, `Write1` and `Drain` to `Finish`, and the proof that a step
keeps `IInv` cites them in the order of the calls.

Undo depends on time, for what has played stays played. `Aged` says of a state that it is
what an instruction found, or what undo makes of it later: the same settings, staged bytes
and counts, of what was to be heard what has not played since, and a stream that is the
same, has played out, or was stopped in between. `Back` says of one record that it takes what
came after it back to such a state, at any later time and from anything that is itself
`Aged`. An entry's records are linked by states between them (`Chain`), and `LogOK` ties each
entry to what the next one found, so that the fold of an undo goes from link to link and
ends where the entry began. It is needed of the whole log, because undoing the newest entry
makes the one before it the newest; and of the call that waits as well (`Whole`), whose
records are an entry when a signal ends it.

`HostAgrees`, `BytesOnce` and `UndoTakesBack` follow from `IInv`. For `RoomExact` what is free
is followed through a write of one fragment: it goes round `Write1`'s loop twice at most, once to
fill what is staged and once for the rest, and waits in one of them exactly when poll() finds too
little room. The clocks of the cards are arithmetic: `RoundingMeets` says that the ceiling of
`PlayedBy` is the first moment at which the floor of `Played` has reached a frame, for any
rate and second, whence `ClockRoom`; and `FragmentsHere` that a fragment sized through a new
plugin comes back as the period it came from, which is the remembered pair's doing
(`RememberedIs`): the fixed point alone loses a frame at some rates.

Two techniques stand in for what the provers lack. Induction is done by taking the least
counterexample, which the naturals have by a theorem of the library without an
operator parameter. A fold or a recursive function is opened by exhibiting the
function that satisfies its definition, whence `CHOOSE` has one to choose; two lemmas
then say what its values are.

*Only model-checked:* `UndoGivesBack` of the terminal, which relates each entry to the
queue it found across what was given later; and `ReaderKnows`, which needs of an undo that
what a program saw and what is put back in its queue agree, across the entries.

*Out of the prover's reach:* liveness under fairness (`TimedReadEnds`, `DueComes`,
`NextBuildCanStart`) and `ENABLED`.


## Findings

- `runtime_stuck`: a build that throws part way is documented to leave the next one
  able to start (`blink-runtime.ts:527`). `loadExecutable()` takes the newest number
  before it awaits its libraries, also during a build. The build then ends as a
  superseded one, which sets no state, and so does the load when its libraries cannot
  be downloaded: the state stays Assembling or Linking, in which every build,
  `clearExecution()`, `dispose()` and `setMode()` are refused.
- `runtime_loops`: two loops never drive the machine at once, because a loop the input
  resumed is waited for first (`x86-emulator.ts:975`). The timer of a wait's deadline
  resumes the loop too, without saying so; when that loop is preempted, `step()` waits
  for nothing and drives the machine beside it.

## Known divergences

Met while modelling, and shown by a model or by reading, but checked by no run. The
properties leave these cases out where they are named.

*Undo session.*

- `getInstructionsExecuted()` is documented to keep increasing through Undo and
  program replacement (`src/blink-js/README.md:459`); `blinkenlib_history_undo()` sets
  it back (`debughistory.c:831`), and `setupProgram()` to 0 (`blinkenlib.c:761`).
- `beginPoke()` documents that everything set until `endPoke()` becomes one entry
  (`x86-emulator.ts:659`); `undo()` is not refused while a Poke is open (588), and cancels
  it in the history only.

- An effect that cannot be taken back is a boundary that "Undo cannot silently cross"
  (`src/blink-js/README.md:461`). When the instruction that had it ends in a native exit,
  `DebugHistoryCancel()` forgets that a barrier was to come (`blinkenlib.c:210`), and the
  entries before it are undone as though there had been no effect. `NoUndoPastEffect`,
  `UndoLog` and `UndoRestores` leave out what that instruction did.

*Waits and signals.*

- poll() of no descriptors sees no signal and no timer: `GuestWaitInterrupted()` is in
  `Poll()`'s loop over the descriptors (`syscall.c:5526`), what follows looks at a
  cancellation only (5594, 5615), and the run loop does not look at them while a call waits
  (`blinkenlib.c:520`). A signal "ends the wait an instruction is in, once the host resumes
  it" (`blinkenlib.c:1005`): this one sleeps to its end, and with no time for ever, and
  ITIMER_REAL does not go off in it. `NoSignalSleeps` and `DueComes` leave it out.
- A SIGALRM "comes at most that many instructions late" (`src/blink-js/README.md:461`).
  `EnqueueSignal()` asks for attention by the mask of the moment (`signal.c:317`), and the
  end of a temporary mask (`environment.c:149`, 158) asks for none: a signal that
  ppoll, pselect or rt_sigsuspend kept out stays pending, unblocked, until something
  else has the signals looked at.

*Terminal.*

- Undoing a read that waited asks again, and nothing that arrived while it waited is
  left (`terminal.c:29`); an End of input that ended a raw read waiting for more bytes
  stays (`terminal.c:562`).
- Input given after a program ended is for the next run (`x86-emulator.ts:396`); undoing
  the exit and a read before it takes away as many bytes of it as the read had left
  (`terminal.c:557`).
- Type-ahead goes back at the front of the queue (`terminal.c:31`); when `position` is
  below zero the unsigned comparison at `terminal.c:174` journals nothing to put back.

*Pipes.*

- `sendfile()` to a full pipe without readers answers EAGAIN and not EPIPE
  (`syscall.c:3164`; `src/blink-js/README.md:426` describes the pipes).
- POLLOUT is reported with less space than an atomic write needs, as old Linux did.

*Runtime.*

- `resumeScheduled` says that a loop is scheduled (`blink-runtime.ts:238`) and is not
  reset by `loadElf()`, a reused link or a tool, whose new generation has the callback
  do nothing: a run that then begins waits for a loop that never comes.
- `buildProject()` sets the state before `runTool()` takes a new generation: a program
  preempted before goes on during Assembling, and its exit is taken for the tool's.
- A wait's callback that starts another program from inside leaves a controller and a
  timer nothing aborts.
- The `finally` of a superseded build changes the directory back (`blink-runtime.ts:540`)
  after the newer one has staged its files (486, 725).

*Input devices.*

- Host reports are live, and undo restores only what nothing has changed since
  (`evdev.c:39`). Change is told by value (`RestoreBits()`, `evdev.c:2150`): undoing a
  write of a key the host pressed meanwhile, or pressed and let go, restores it against
  what the host holds.
- An event a write left in the packet being built, which a report of the host's then
  passed on, stays in the queues when the write is undone; and one that a write passed
  on for the host is put back into the packet and passed on again.
- What a write left in the packet being built is put back by value too: when a second
  write passed it on, the host let the key go and the second write is undone, the packet
  tells of the key going down once more, and nothing tells that it came up
  (`RestoreState()`, `evdev.c:2173`). A program that asks EVIOCGKEY in between reads that the
  key is up, and then that it goes down. `Told` takes what such a program knows as unknown.
- An LED that `kbd_bh()` sets has no report of its own (`evdev.c:966`) and may fill the
  packet being built, which is passed on in the middle of `ConsoleBottomHalf()`. If that
  packet presses another lock, the lock is toggled and its LED left for the next report or
  write; and undo of a write restores the locks and the LEDs but not `console_pending`
  (`TakeState()`, `evdev.c:1430`). `ConsoleSettled` leaves out programs that write a lock
  with no report behind it.
- The console's locks are restored as one number (`RestoreInt()`, `evdev.c:2160`): when
  the host toggled another lock since, one a write toggled stays on.

*Sound.*

- What a RESET, a DROP or a reconfiguration dropped is not brought back
  (`src/blink-js/README.md:363`). Undoing one leaves the stream stopped
  (`oss.c:1509`); undoing the write before it as well finds another segment
  (`oss.c:1515`) and puts back the state that write found, which when the stream ran
  then says that it runs, with frames queued that the host was told to drop. The ring
  counts them until their time is over, and a write waits behind them.
- A card that poll() finds writable can have a write of a fragment wait, when a write
  that a signal ended or that would not wait left a whole fragment staged
  (`oss.c:1457`, 806).
- The rate plugin remembers one pair of counts (`oss.c:314`). A write that is cut short has
  it remember another, and at rates that the fixed point does not divide (9,007 Hz on a card
  of 16,000 Hz) the program's fragment may then come to a frame more or less than the period
  that poll() looks at (`oss.c:732`, 742, 1457). `FragmentOn` is of the writes before that.

## Not modelled

Most of the 84,000 lines of C and TypeScript have no order of events in them: what
instructions compute (`alu.c`, `sse.c`, `avx.c`, `fpu.c`, `uop.c`), page tables, the
translation of hundreds of system calls to the host's, the formats of ELF, DWARF and
history packets, assemblers, disassembly and compiler listings. Others are not reached
from the browser build (the JIT, the terminal debugger `blinkenlights.c`, the BIOS).
The models keep to control, so they cover a small share of the lines, and most of
those where events of two sides meet. Of the parts that are modelled:

- The terminal's output, polling it, its size, and the conversions of ICRNL, INLCR
  and IGNCR, which the model takes as applied to the bytes it is given.
- An undo refused because the guest's memory is no longer mapped
  (`debughistory.c:785`): memory is always mapped here.
- Callbacks that call back into the emulator while an instruction runs; runs in native
  slices with breakpoints and limits; native exits out of a tool; project mounts and
  the current directory; a link refused inside the wasm.
- `setMode()` and a build that replaces the program while an instruction waits are
  one action with a load (`Load`, `Replace`) in the history's modules.
- sigaltstack, SA_RESETHAND, siginfo, and a frame that does not fit the stack.
- Pipes' inode numbers and FIONREAD.
- Of the input devices the tablet, the PC Speaker and the console's sound, repeat
  settings, keymaps, axes, the times of events and masks of single codes.
- Of the sound devices the mixer, the raw MIDI port and the speaker; of /dev/dsp the
  samples, formats and channels, how settings lead to a fragment, the stream itself through
  the rate plugin (`CardRate` has what it makes of numbers of frames), a fault in the
  program's buffer, and recording.
- The framebuffer: pixels, and ioctls that describe them.

PROJECT.json lists every component with its status, and every hazard with the
properties that cover it or the reason none does.

## The plan

1. Proofs left: the terminal's `UndoGivesBack` over `TInv`, `ReaderKnows` over the
   `IInv` of `Evdev`.
2. Modules still to write: the raw MIDI port (a buffer that drains in Program time, with
   the state an undo restores in the synthesizer), `RunLoop` (limits, breakpoints, slices
   and host errors), `CallFrames` (the reference-counted frames as a heap that implements
   the stack values of `DebugHistory`), member selection, the project file system.
