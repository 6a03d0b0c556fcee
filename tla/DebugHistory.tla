---------------------------- MODULE DebugHistory ----------------------------
(***************************************************************************)
(* The undo history blink keeps inside the wasm (blink/debughistory.c),    *)
(* with the part of the run loop that opens and closes a recorded step     *)
(* (blink/blinkenlib.c).                                                   *)
(*                                                                         *)
(* A recorded step, or a Poke (a transaction of host edits), becomes one   *)
(* entry of a ring.  An entry keeps only where the step ENDED: the         *)
(* registers it started from are the ones the entry before it left, unless *)
(* something moved them in between.  Old entries are dropped when the ring *)
(* is full, or cut down to their header (hollowed) when the entries        *)
(* together hold more bytes than the budget.                               *)
(*                                                                         *)
(* The host's calls are taken between instructions, as the guards of       *)
(* x86-emulator.ts make them.  One instruction runs at a time, in the      *)
(* actions Begin, Write, Journal, Effect, Split, Wait, Resume and Retire   *)
(* or NativeExit.                                                          *)
(*                                                                         *)
(* past and open are history variables: what the whole machine was when    *)
(* each entry, and the step or Poke under way, began.                      *)
(***************************************************************************)
EXTENDS Integers, FiniteSetsExt, SequencesExt

CONSTANTS
  RegNames,     \* the registers; "sp" is the one the call stack follows
  RegValues,    \* the values a register takes
  Addrs,        \* the guest addresses that are written, no two of them adjacent
  Bytes,        \* the values a byte takes
  Devices,      \* the states of the devices that journal what they do
  Flows,        \* of "call", "other": the control flow of the instructions
  Ends,         \* of "next", "exit", "killed", "handled": how they end
  Capacities,   \* the sizes the host gives blinkenlib_history_capacity()
  FirstSlots,   \* the slots the first growth of the ring allocates (64)
  Charge,       \* REGISTERS_CHARGE: what an entry costs beside its tail
  Budget,       \* the history's budget for the tails and registers
  Slack,        \* what a kept buffer may exceed 4 times its tail by (4096)
  SplitBudget,  \* the old bytes the parts of one instruction may keep
  MaxEffects,   \* bound: writes and journal records of one step or Poke
  MaxIdentity,  \* bound: identities handed out
  MaxOutside    \* bound: events no entry records (signals, edits, loads ...)

ASSUME HistoryAssumption ==
  /\ "sp" \in RegNames /\ IsFiniteSet(RegNames) /\ RegNames \cap Addrs = {}
  /\ {"dev", "exited", "stack", "world"} \cap (RegNames \cup Addrs) = {}
  /\ RegValues \subseteq Nat /\ RegValues # {}
  /\ Bytes # {} /\ Devices # {}
  /\ Capacities \subseteq Nat /\ Capacities # {}
  /\ FirstSlots \in Nat \ {0}
  /\ Charge \in Nat \ {0} /\ Budget \in Nat /\ Slack \in Nat
  /\ SplitBudget \in Nat /\ MaxEffects \in Nat
  /\ MaxIdentity \in Nat /\ MaxOutside \in Nat

VARIABLES
  machine,     \* registers, memory, devices, exited, instructions executed, call stack
  phase,       \* "idle" between instructions, "running" one, "waiting" inside one
  allocator,   \* the last identity handed out
  identity,    \* the instruction under way's, 0 with none
  capacity,    \* the entries the history keeps at most
  ring,        \* the entries, oldest first from slot `start`
  held,        \* the bytes the entries that are not hollow keep
  step,        \* the step being recorded
  poke,        \* whether a Poke is open
  poke_bytes,  \* the bytes it overwrote, in order
  past, open,  \* history variables
  outside      \* bound: the events no entry records, so far

instruction == <<phase, allocator, identity>>
ghosts == <<past, open, outside>>
history == <<ring, held>>
vars == <<machine, instruction, capacity, history, step, poke, poke_bytes, ghosts>>

Registers == [RegNames -> RegValues]
Machines == [regs : Registers, mem : [Addrs -> Bytes], dev : Devices, exited : BOOLEAN,
             executed : Nat, stack : Seq(RegValues)]
Writes == Seq([addr : Addrs, old : Bytes])

\* A machine with a program loaded and nothing run yet.
Fresh == [regs : Registers, mem : [Addrs -> Bytes], dev : Devices, exited : {FALSE},
          executed : {0}, stack : {<<>>}]

NoRegisters == [r \in {} |-> 0]
NoStep == [pending |-> FALSE, pending_irreversible |-> FALSE, moved |-> FALSE,
           registers |-> NoRegisters, instructions |-> 0, writes |-> <<>>, parts |-> <<>>,
           truncated |-> FALSE, journal |-> <<>>]
Vacant ==
  [after |-> NoRegisters, before |-> NoRegisters, allocated |-> 0, writes |-> <<>>,
   journal |-> <<>>, stack_before |-> <<>>, identity |-> 0, instructions_before |-> 0,
   reversible |-> FALSE, exited |-> FALSE, hollow |-> FALSE]
NoEntries(base) ==
  [entries |-> [i \in {} |-> Vacant], slots |-> 0, start |-> 0, count |-> 0, hollow |-> 0,
   base |-> base]

-----------------------------------------------------------------------------
(* History variables.  loose: the places something changed that no entry   *)
(* records (a host edit outside a Poke, an instruction a native exit broke *)
(* off), "world" among them when such an instruction had an effect.        *)
(* lost: an effect followed that no journal can take back.                 *)

Places == RegNames \cup Addrs \cup {"dev", "exited"}
Spots == Places \cup {"world"}
At(state, p) ==
  CASE p \in RegNames -> state.regs[p] [] p \in Addrs -> state.mem[p]
    [] p = "dev" -> state.dev [] p = "exited" -> state.exited
Differing(s, t) == {p \in Places : At(s, p) # At(t, p)}
Opened(state) == [state |-> state, loose |-> {}, lost |-> FALSE]
Loosen(log, places) == [i \in DOMAIN log |-> [log[i] EXCEPT !.loose = @ \cup places]]
Lose(log) == [i \in DOMAIN log |-> [log[i] EXCEPT !.lost = TRUE]]

-----------------------------------------------------------------------------
(* The ring R, with at most cap entries. *)

\* The slot of the entry i places after the oldest, as % and the wrap in
\* NewEntry() give it.
Slot(R, i) == IF R.start + i < R.slots THEN R.start + i ELSE R.start + i - R.slots

Oldest(R, i) == R.entries[Slot(R, i)]
EntryAt(R, offset) == Oldest(R, R.count - 1 - offset)

\* The registers the entry i places after the oldest started from.
Before(R, i) ==
  IF Oldest(R, i).before # NoRegisters THEN Oldest(R, i).before
  ELSE IF i > 0 THEN Oldest(R, i - 1).after
  ELSE R.base

\* Where the newest entry left the registers.
LastLeft(R) == IF R.count > 0 THEN EntryAt(R, 0).after ELSE R.base

\* Twice the slots, or all of them; the entries move into oldest-first order.
Grow(R, cap) ==
  IF R.count = R.slots /\ R.slots < cap
  THEN LET size == IF R.slots = 0 THEN (IF cap < FirstSlots THEN cap ELSE FirstSlots)
                   ELSE IF R.slots > cap \div 2 THEN cap ELSE R.slots * 2
       IN [R EXCEPT !.slots = size, !.start = 0,
             !.entries = [i \in 0 .. size - 1 |-> IF i < R.count THEN Oldest(R, i) ELSE Vacant]]
  ELSE R

\* Mutants of DropOldest: the next entry's start is lost; the count of hollow
\* entries stays.
DropOldestKeepsBase(R, cap) ==
  IF R.count = cap
  THEN [R EXCEPT !.start = Slot(R, 1), !.count = @ - 1, !.hollow = IF @ > 0 THEN @ - 1 ELSE 0]
  ELSE R
DropOldestKeepsHollow(R, cap) ==
  IF R.count = cap
  THEN [R EXCEPT !.start = Slot(R, 1), !.count = @ - 1, !.base = Oldest(R, 0).after]
  ELSE R

\* A full ring gives up its oldest entry; the next one started from where it
\* left the registers.  Its slot keeps its buffer for the entry to come.
DropOldest(R, cap) ==
  IF R.count = cap
  THEN [R EXCEPT !.start = Slot(R, 1), !.count = @ - 1, !.base = Oldest(R, 0).after,
          !.hollow = IF @ > 0 THEN @ - 1 ELSE 0]
  ELSE R

\* Mutant of DroppedHeld: a hollow entry is taken off a second time.
DroppedHeldTwice(R, cap, h) ==
  IF R.count = cap THEN h - (Charge + Oldest(R, 0).allocated) ELSE h

DroppedHeld(R, cap, h) ==
  IF R.count = cap /\ R.hollow = 0 THEN h - (Charge + Oldest(R, 0).allocated) ELSE h

Hollow(e) == [e EXCEPT !.allocated = 0, !.writes = <<>>, !.journal = <<>>,
                       !.stack_before = <<>>, !.hollow = TRUE, !.reversible = FALSE]

\* What the entries from the oldest that is not hollow to the n-th keep.
Freed(R, n) == MapThenSumSet(LAMBDA i : Charge + Oldest(R, i).allocated, R.hollow .. n - 1)

\* HollowOldest() until an entry that costs `cost` fits the budget, or none is
\* left: how many are hollow then, and the ring.
HollowUntilFits(R, h, cost) ==
  LET Fits(n) == n = R.count \/ h - Freed(R, n) + cost <= Budget
  IN CHOOSE n \in R.hollow .. R.count : Fits(n) /\ \A k \in R.hollow .. n - 1 : ~Fits(k)
HollowTo(R, n) ==
  LET Cut(s) == \E i \in R.hollow .. n - 1 : s = Slot(R, i)
  IN [R EXCEPT !.hollow = n,
        !.entries = [s \in 0 .. R.slots - 1 |->
                       IF Cut(s) THEN Hollow(R.entries[s]) ELSE R.entries[s]]]

\* The buffer a tail gets: the one at hand unless most of it would sit idle,
\* else one with half as much room again.
Room(tail, allocated) ==
  IF tail <= allocated /\ allocated <= 4 * tail + Slack THEN allocated ELSE tail + tail \div 2

\* NewEntry(): the ring with e as the newest entry, and what is held then.
WithNewest(R, e) == [R EXCEPT !.count = @ + 1, !.entries[Slot(R, R.count)] = e]
NewEntry(cap, e, tail) ==
  LET R == DropOldest(Grow(ring, cap), cap)
      h == DroppedHeld(Grow(ring, cap), cap, held)
      room == Room(tail, R.entries[Slot(R, R.count)].allocated)
      n == HollowUntilFits(R, h, Charge + room)
  IN [ring |-> WithNewest(HollowTo(R, n), [e EXCEPT !.allocated = room]),
      held |-> h - Freed(R, n) + Charge + room]

\* The newest entry goes, and what it kept with it.
WithoutNewest(R) == [R EXCEPT !.count = @ - 1, !.entries[Slot(R, R.count - 1)] = Vacant]

\* The newest entry started from other registers than the one before it left.
StartedFrom(R, registers) ==
  IF R.count > 1 THEN [R EXCEPT !.entries[Slot(R, R.count - 1)].before = registers]
  ELSE [R EXCEPT !.base = registers]

-----------------------------------------------------------------------------
(* What the step under way records. *)

\* DebugHistoryMarkIrreversible(): with no step recording, the newest entry
\* becomes the barrier.
MarkStep(S) == IF S.pending THEN [S EXCEPT !.pending_irreversible = TRUE] ELSE S

\* Mutant of MarkRing: an effect between steps leaves the newest entry undoable.
MarkRingNever(R, S) == R

MarkRing(R, S) ==
  IF ~S.pending /\ R.count > 0
  THEN [R EXCEPT !.entries[Slot(R, R.count - 1)].reversible = FALSE]
  ELSE R

\* The call stack after an instruction left the stack pointer at sp: a call
\* pushes a frame, anything else takes off those sp has risen above.
Frames(stack, flow, sp) ==
  IF flow = "call" THEN <<sp>> \o stack
  ELSE LET kept == {i \in 1 .. Len(stack) + 1 : i > Len(stack) \/ stack[i] >= sp}
           first == CHOOSE i \in kept : \A j \in kept : i <= j
       IN SubSeq(stack, first, Len(stack))

\* Finish(): the step or Poke that left registers `after` becomes an entry.
Finish(after, writes, journal, irreversible, exits, id) ==
  LET e == [Vacant EXCEPT
              !.after = after, !.writes = writes, !.journal = journal, !.identity = id,
              !.stack_before = machine.stack, !.instructions_before = step.instructions,
              !.reversible = ~irreversible, !.exited = exits]
      new == NewEntry(capacity, e, Len(writes) + Len(journal))
  IN IF capacity = 0 THEN UNCHANGED <<history, past>>
     ELSE /\ held' = new.held
          /\ ring' = IF step.moved THEN StartedFrom(new.ring, step.registers) ELSE new.ring
          /\ past' = (IF ring.count = capacity THEN Tail(past) ELSE past) \o open

-----------------------------------------------------------------------------
Init ==
  /\ machine \in Fresh
  /\ phase = "idle" /\ allocator = 0 /\ identity = 0
  /\ capacity \in Capacities
  /\ ring = NoEntries(machine.regs) /\ held = 0
  /\ step = NoStep /\ poke = FALSE /\ poke_bytes = <<>>
  /\ past = <<>> /\ open = <<>> /\ outside = 0

\* Mutant of Snapshot: only a Poke notices that something moved the registers.
SnapshotUnmoved(pending, always) ==
  LET moved == always /\ machine.regs # LastLeft(ring)
  IN [NoStep EXCEPT !.pending = pending, !.moved = moved, !.instructions = machine.executed,
                    !.registers = IF always THEN machine.regs ELSE NoRegisters]

\* TakeBefore(): a Poke keeps the registers whether or not they moved.
Snapshot(pending, always) ==
  LET moved == machine.regs # LastLeft(ring)
  IN [NoStep EXCEPT !.pending = pending, !.moved = moved, !.instructions = machine.executed,
                    !.registers = IF moved \/ always THEN machine.regs ELSE NoRegisters]

\* An event no entry records, of those the bound leaves.
Outside == outside < MaxOutside /\ outside' = outside + 1

Effects == Len(step.writes) + Len(step.parts) + Len(step.journal)

(* Instructions. *)

\* Mutant of Begin: the identity is the last one handed out.
BeginWithLast ==
  /\ phase = "idle" /\ ~poke /\ ~machine.exited /\ allocator < MaxIdentity
  /\ phase' = "running" /\ allocator' = allocator + 1 /\ identity' = allocator
  /\ step' = IF capacity = 0 THEN step ELSE Snapshot(TRUE, FALSE)
  /\ open' = <<Opened(machine)>>
  /\ UNCHANGED <<machine, capacity, history, poke, poke_bytes, past, outside>>

Begin ==
  /\ phase = "idle" /\ ~poke /\ ~machine.exited /\ allocator < MaxIdentity
  /\ phase' = "running" /\ allocator' = allocator + 1 /\ identity' = allocator + 1
  /\ step' = IF capacity = 0 THEN step ELSE Snapshot(TRUE, FALSE)
  /\ open' = <<Opened(machine)>>
  /\ UNCHANGED <<machine, capacity, history, poke, poke_bytes, past, outside>>

\* A write whose old byte the machine's journal has no room for truncates it.
Write(a, b, kept) ==
  /\ phase = "running" /\ Effects < MaxEffects
  /\ machine' = [machine EXCEPT !.mem[a] = b]
  /\ step' = IF ~step.pending THEN step
             ELSE IF kept THEN [step EXCEPT !.writes = Append(@, [addr |-> a, old |-> machine.mem[a]])]
             ELSE [step EXCEPT !.truncated = TRUE]
  /\ UNCHANGED <<instruction, capacity, history, poke, poke_bytes, ghosts>>

\* DebugHistoryJournal(): a device changes and the step keeps what it was.
Journal(d) ==
  /\ phase = "running" /\ Effects < MaxEffects
  /\ machine' = [machine EXCEPT !.dev = d]
  /\ IF step.pending
     THEN /\ step' = [step EXCEPT !.journal = Append(@, machine.dev)]
          /\ UNCHANGED ring
     ELSE /\ ring' = MarkRing(ring, step)
          /\ UNCHANGED step
  /\ UNCHANGED <<instruction, capacity, held, poke, poke_bytes, ghosts>>

\* Something outside the machine that cannot be taken back: a file written by
\* the instruction, or (between instructions, or while one waits) a signal or
\* an input report from the host.
Effect ==
  /\ Outside
  /\ step' = MarkStep(step)
  /\ ring' = MarkRing(ring, step)
  /\ past' = Lose(past)
  /\ open' = IF poke THEN open ELSE Lose(open)
  /\ UNCHANGED <<machine, instruction, capacity, held, poke, poke_bytes>>

\* What the parts of one instruction keep together is more than AppendSplitWrite() takes.
TooMuch(S) == Len(S.parts \o S.writes) > SplitBudget

\* A rep string instruction stops between iterations for the history and goes on.
Split(r) ==
  /\ phase = "running" /\ step.pending /\ step.writes # <<>>
  /\ machine' = [machine EXCEPT !.regs = r]
  /\ step' = [step EXCEPT !.parts = @ \o step.writes, !.writes = <<>>,
                 !.truncated = @ \/ TooMuch(step)]
  /\ UNCHANGED <<instruction, capacity, history, poke, poke_bytes, ghosts>>

\* A blocked call starts over when it resumes.  It has changed no register and no
\* memory yet; of a device, what it queued there so far, which the step journals.
Wait ==
  /\ phase = "running" /\ step.writes = <<>> /\ step.parts = <<>> /\ ~step.truncated
  /\ Differing(machine, open[1].state) \subseteq open[1].loose \cup {"dev"}
  /\ phase' = "waiting"
  /\ UNCHANGED <<machine, allocator, identity, capacity, history, step, poke, poke_bytes, ghosts>>

Resume ==
  /\ phase = "waiting"
  /\ phase' = "running"
  /\ UNCHANGED <<machine, allocator, identity, capacity, history, step, poke, poke_bytes, ghosts>>

\* The instruction ends: it goes to the next one, exits, is killed by a fault,
\* or faults into a handler the guest set.  Faults do not retire.
Retire(r, flow, end) ==
  /\ phase = "running"
  /\ machine' = [machine EXCEPT
       !.regs = r,
       !.exited = end \in {"exit", "killed"},
       !.executed = IF end \in {"next", "exit"} THEN @ + 1 ELSE @,
       !.stack = IF step.pending THEN Frames(@, flow, r["sp"]) ELSE @]
  /\ IF step.pending
     THEN Finish(r, step.parts \o step.writes, step.journal,
                 \/ step.truncated \/ (step.parts # <<>> /\ TooMuch(step))
                 \/ step.pending_irreversible \/ end = "handled",
                 end \in {"exit", "killed"}, identity)
     ELSE UNCHANGED <<history, past>>
  /\ step' = NoStep
  /\ phase' = "idle" /\ identity' = 0 /\ open' = <<>>
  /\ UNCHANGED <<allocator, capacity, poke, poke_bytes, outside>>

\* Blink gives the program up mid-instruction; the step is never recorded, and what
\* DebugHistoryMarkIrreversible() noted of it is forgotten: no entry becomes the barrier.
NativeExit ==
  /\ phase = "running"
  /\ machine' = [machine EXCEPT !.exited = TRUE]
  /\ step' = NoStep
  /\ phase' = "idle" /\ identity' = 0
  /\ past' = Loosen(past, Differing(machine', open[1].state)
                             \cup (IF open[1].lost THEN {"world"} ELSE {}))
  /\ open' = <<>>
  /\ UNCHANGED <<allocator, capacity, history, poke, poke_bytes, outside>>

\* A signal taken between two instructions enters its handler, whose frame no
\* entry records, or ends the program.
DeliverSignal(r, a, b, kills) ==
  /\ Outside
  /\ phase = "idle" /\ ~poke /\ ~machine.exited
  /\ machine' = IF kills THEN [machine EXCEPT !.exited = TRUE]
                ELSE [machine EXCEPT !.regs = r, !.mem[a] = b]
  /\ ring' = MarkRing(ring, step)
  /\ past' = Lose(past)
  /\ UNCHANGED <<instruction, capacity, held, step, poke, poke_bytes, open>>

(* The host. *)

EditRegister(r, v) ==
  /\ phase # "running"
  /\ IF poke THEN UNCHANGED outside ELSE Outside
  /\ machine' = [machine EXCEPT !.regs[r] = v]
  /\ past' = IF poke THEN past ELSE Loosen(past, {r})
  /\ open' = IF poke THEN open ELSE Loosen(open, {r})
  /\ UNCHANGED <<instruction, capacity, history, step, poke, poke_bytes>>

\* DebugHistoryPokeByte() keeps the byte a Poke overwrites.
EditByte(a, b) ==
  /\ phase # "running" /\ Len(poke_bytes) < MaxEffects
  /\ IF poke THEN UNCHANGED outside ELSE Outside
  /\ machine' = [machine EXCEPT !.mem[a] = b]
  /\ poke_bytes' = IF poke THEN Append(poke_bytes, [addr |-> a, old |-> machine.mem[a]])
                   ELSE poke_bytes
  /\ past' = IF poke THEN past ELSE Loosen(past, {a})
  /\ open' = IF poke THEN open ELSE Loosen(open, {a})
  /\ UNCHANGED <<instruction, capacity, history, step, poke>>

BeginPoke ==
  /\ phase = "idle" /\ ~poke /\ allocator < MaxIdentity
  /\ step' = [Snapshot(FALSE, TRUE) EXCEPT !.pending_irreversible = step.pending_irreversible]
  /\ poke' = TRUE /\ poke_bytes' = <<>>
  /\ open' = <<Opened(machine)>>
  /\ UNCHANGED <<machine, instruction, capacity, history, past, outside>>

\* Mutant of FirstOld: the old value of the last of them.
LastOld(ws, a) ==
  ws[CHOOSE i \in DOMAIN ws : ws[i].addr = a /\ \A j \in i + 1 .. Len(ws) : ws[j].addr # a].old

\* The old value of the first of the writes ws to address a.
FirstOld(ws, a) ==
  ws[CHOOSE i \in DOMAIN ws : ws[i].addr = a /\ \A j \in 1 .. i - 1 : ws[j].addr # a].old
Touched(ws) == {ws[i].addr : i \in DOMAIN ws}

\* What a Poke overwrote with something else, each byte once with its first old value.
Overwritten == {a \in Touched(poke_bytes) : FirstOld(poke_bytes, a) # machine.mem[a]}
PokeWrites == SetToSeq({[addr |-> a, old |-> FirstOld(poke_bytes, a)] : a \in Overwritten})

\* A Poke that changed nothing records nothing.
EndPoke ==
  LET changed == Overwritten # {} \/ machine.regs # step.registers
  IN /\ poke
     /\ IF changed
        THEN /\ Finish(machine.regs, PokeWrites, <<>>, step.pending_irreversible, FALSE, allocator + 1)
             /\ allocator' = IF capacity = 0 THEN allocator ELSE allocator + 1
        ELSE UNCHANGED <<history, past, allocator>>
     /\ step' = NoStep
     /\ poke' = FALSE /\ poke_bytes' = <<>> /\ open' = <<>>
     /\ UNCHANGED <<machine, phase, identity, capacity, outside>>

CanUndo == ring.count > 0 /\ EntryAt(ring, 0).reversible /\ ~EntryAt(ring, 0).hollow

\* The memory before the writes ws, taken back newest first.
TakenBack(ws, mem) ==
  [a \in Addrs |-> IF a \in Touched(ws) THEN FirstOld(ws, a) ELSE mem[a]]

\* Only the registers the entry changed are put back.
Undo ==
  LET e == EntryAt(ring, 0)
      b == Before(ring, ring.count - 1)
  IN /\ phase = "idle" /\ CanUndo
     /\ machine' =
          [regs |-> [r \in RegNames |-> IF b[r] # e.after[r] THEN b[r] ELSE machine.regs[r]],
           mem |-> TakenBack(e.writes, machine.mem),
           dev |-> IF e.journal = <<>> THEN machine.dev ELSE Head(e.journal),
           exited |-> machine.exited /\ ~e.exited,
           executed |-> e.instructions_before,
           stack |-> e.stack_before]
     /\ held' = held - (Charge + e.allocated)
     /\ ring' = WithoutNewest(ring)
     /\ step' = NoStep /\ poke' = FALSE /\ poke_bytes' = <<>>
     /\ past' = Loosen(SubSeq(past, 1, Len(past) - 1),
                       IF poke THEN Differing(machine, open[1].state) ELSE {})
     /\ open' = <<>>
     /\ UNCHANGED <<instruction, capacity, outside>>

\* blinkenlib_history_capacity(): the host sets the size and starts over.
SetCapacity(size) ==
  /\ phase = "idle" /\ Outside
  /\ capacity' = size
  /\ ring' = NoEntries(ring.base) /\ held' = 0
  /\ machine' = [machine EXCEPT !.stack = <<>>]
  /\ step' = NoStep /\ poke' = FALSE /\ poke_bytes' = <<>>
  /\ past' = <<>> /\ open' = <<>>
  /\ UNCHANGED instruction

\* Another program replaces this one, whether or not an instruction waits.
Load(new) ==
  /\ phase # "running" /\ Outside
  /\ machine' = new
  /\ ring' = NoEntries(ring.base) /\ held' = 0
  /\ step' = NoStep /\ poke' = FALSE /\ poke_bytes' = <<>>
  /\ phase' = "idle" /\ identity' = 0
  /\ past' = <<>> /\ open' = <<>>
  /\ UNCHANGED <<allocator, capacity>>

Next ==
  \/ Begin \/ Effect \/ Wait \/ Resume \/ NativeExit
  \/ \E a \in Addrs, b \in Bytes : \/ \E kept \in BOOLEAN : Write(a, b, kept)
                                 \/ EditByte(a, b)
  \/ \E d \in Devices : Journal(d)
  \/ \E r \in Registers :
       \/ Split(r)
       \/ \E flow \in Flows, end \in Ends : Retire(r, flow, end)
       \/ \E a \in Addrs, b \in Bytes, kills \in BOOLEAN : DeliverSignal(r, a, b, kills)
  \/ \E r \in RegNames, v \in RegValues : EditRegister(r, v)
  \/ BeginPoke \/ EndPoke \/ Undo
  \/ \E size \in Capacities : SetCapacity(size)
  \/ \E new \in Fresh : Load(new)

Spec == Init /\ [][Next]_vars

-----------------------------------------------------------------------------
(* Properties *)

Entries ==
  [after : Registers \cup {NoRegisters}, before : Registers \cup {NoRegisters},
   allocated : Nat, writes : Writes, journal : Seq(Devices), stack_before : Seq(RegValues),
   identity : Nat, instructions_before : Nat, reversible : BOOLEAN, exited : BOOLEAN,
   hollow : BOOLEAN]
IsRing(R) ==
  /\ R = [entries |-> R.entries, slots |-> R.slots, start |-> R.start, count |-> R.count,
          hollow |-> R.hollow, base |-> R.base]
  /\ R.slots \in Nat /\ R.start \in Nat /\ R.count \in Nat /\ R.hollow \in Nat
  /\ R.entries \in [0 .. R.slots - 1 -> Entries]
  /\ R.base \in Registers
Steps ==
  [pending : BOOLEAN, pending_irreversible : BOOLEAN, moved : BOOLEAN,
   registers : Registers \cup {NoRegisters}, instructions : Nat, writes : Writes, parts : Writes,
   truncated : BOOLEAN, journal : Seq(Devices)]
LogEntries == [state : Machines, loose : SUBSET Spots, lost : BOOLEAN]

\* Every variable has its type; `held` is said exactly by HeldExact.
TypeOK ==
  /\ machine \in Machines
  /\ phase \in {"idle", "running", "waiting"}
  /\ allocator \in Nat /\ identity \in Nat
  /\ capacity \in Capacities
  /\ IsRing(ring)
  /\ step \in Steps
  /\ poke \in BOOLEAN /\ poke_bytes \in Writes
  /\ past \in Seq(LogEntries) /\ open \in Seq(LogEntries) /\ outside \in Nat

\* No more hollow entries than entries, entries than slots, or slots than the capacity,
\* and the ring only turns once it has all its slots.
Shaped(R, cap) ==
  /\ R.hollow <= R.count /\ R.count <= R.slots /\ R.slots <= cap
  /\ R.start # 0 => R.start < R.slots /\ R.slots = cap

\* The entries cut to their header are exactly the oldest `hollow`, none of them
\* offers itself to undo, and what they kept is freed (HollowOldest).
HollowFirst(R) ==
  \A i \in 0 .. R.count - 1 :
    /\ Oldest(R, i).hollow <=> i < R.hollow
    /\ Oldest(R, i).hollow => ~Oldest(R, i).reversible /\ Oldest(R, i).allocated = 0

\* The ring through every order of growth (which starts over at slot 0), drop, hollowing,
\* undo and change of capacity: no entry is lost or kept twice, its indices stay in bounds,
\* and what the budget cut is its oldest end (Grow, NewEntry, HollowOldest).
RingShape == TypeOK /\ Shaped(ring, capacity) /\ Len(past) = ring.count /\ HollowFirst(ring)

\* held is what the entries that are not hollow keep, through drops, reuse of a dropped
\* entry's buffer, hollowing and undo: it neither leaks nor wraps.
HeldExact ==
  held = MapThenSumSet(LAMBDA i : Charge + Oldest(ring, i).allocated,
                            ring.hollow .. ring.count - 1)

\* The entries stay within the budget, but for a newest one that exceeds it alone.
BudgetKept == held <= Budget \/ ring.hollow + 1 >= ring.count

\* A slot no entry occupies holds nothing: NewEntry() takes it as empty.
FreeSlotsVacant ==
  \A s \in 0 .. ring.slots - 1 :
    (\A i \in 0 .. ring.count - 1 : s # Slot(ring, i)) => ring.entries[s] = Vacant

\* The budget is kept and its count exact: held is what the entries that are not hollow
\* keep, no more than the budget allows, and nothing is kept in a slot no entry has.
BudgetExact == HeldExact /\ BudgetKept /\ FreeSlotsVacant

\* The registers an entry started from, though it seldom keeps them, are found: after
\* drops, growths, undos, Pokes, signals and edits alike (Before, Finish).
BeforeChain ==
  \A i \in 0 .. ring.count - 1 : Before(ring, i) = past[i + 1].state.regs

\* Undo never crosses an effect it cannot take back (DebugHistoryMarkIrreversible), but
\* for the effects of an instruction that a native exit broke off: those it does cross,
\* though the README says of such boundaries that "Undo cannot silently cross them".
NoUndoPastEffect ==
  phase = "idle" /\ CanUndo /\ past[ring.count].lost => "world" \in past[ring.count].loose

\* Identities grow along the ring, which NativeHistory.depth() bisects by.
IdentitiesGrow ==
  /\ \A i \in 1 .. ring.count - 1 : Oldest(ring, i - 1).identity < Oldest(ring, i).identity
  /\ ring.count > 0 => EntryAt(ring, 0).identity <= allocator

\* An undo takes the whole machine back to where its newest entry began, but for the
\* places something changed since that no entry records.  The count of executed
\* instructions is left out: Undo puts it back, and the README says that it "keeps
\* increasing through Undo".
Undone == ring'.count < ring.count /\ ring'.slots = ring.slots
UndoRestores ==
  [][Undone =>
       LET was == past[ring.count].state
           loose == past[ring.count].loose \cup
                    (IF poke THEN Differing(machine, open[1].state) ELSE {})
       IN /\ Differing(machine', was) \subseteq loose
          /\ machine'.stack = was.stack]_vars

\* The whole history keeps what an undo log promises: its entries are the ones past
\* tells of, undoable while their flags say so.
Flat(state) == [p \in Places \cup {"stack"} |-> IF p = "stack" THEN state.stack ELSE At(state, p)]
FlatLog(log, R) ==
  [i \in DOMAIN log |->
     [state |-> Flat(log[i].state), loose |-> log[i].loose, lost |-> log[i].lost,
      undoable |-> Oldest(R, i - 1).reversible]]
FlatOpen(log) == [i \in DOMAIN log |-> [log[i] EXCEPT !.state = Flat(log[i].state)]]
Log == INSTANCE UndoLog WITH
         Fixed <- {"stack"}, World <- "world", Starts <- {Flat(m) : m \in Fresh},
         now <- Flat(machine),
         log <- FlatLog(past, ring), open <- FlatOpen(open)
KeepsPromise == Log!Promise
=============================================================================
