-------------------------- MODULE UndoSessionProofs --------------------------
(***************************************************************************)
(* What the undo session guarantees over every history: its steps are the  *)
(* history's, so everything proved of that holds under the session; undo   *)
(* reaches exactly the entries that began since it was last turned on; a   *)
(* preflight is kept; and no decoded row is shown for another.             *)
(*                                                                         *)
(* First what one step does to the ring (RingStep), then the bisection of  *)
(* Depth, then the session's invariant, one action after another.          *)
(***************************************************************************)
EXTENDS UndoSession, DebugHistoryProofs

-----------------------------------------------------------------------------
(* The session's steps are the history's. *)

\* What the session does to the history, the history can do; and only undo() undoes.
LEMMA SessionSteps ==
  /\ [SessionNext]_allvars => HostUndo \/ ButUndo \/ UNCHANGED vars
  /\ [SessionNext]_allvars => [Next]_vars
<1>1. Guest => ButUndo
  <2>1. CASE Begin \/ Effect \/ Wait \/ Resume \/ NativeExit
    BY <2>1, Zenon DEF ButUndo
  <2>2. ASSUME NEW a \in Addrs, NEW b \in Bytes, NEW kept \in BOOLEAN, Write(a, b, kept)
        PROVE  ButUndo
    BY <2>2, Zenon DEF ButUndo
  <2>3. ASSUME NEW d \in Devices, Journal(d) PROVE ButUndo
    BY <2>3, Zenon DEF ButUndo
  <2>4. ASSUME NEW r \in Registers, Split(r) PROVE ButUndo
    BY <2>4, Zenon DEF ButUndo
  <2>5. ASSUME NEW r \in Registers, NEW flow \in Flows, NEW end \in Ends, Retire(r, flow, end)
        PROVE  ButUndo
    BY <2>5, Zenon DEF ButUndo
  <2>6. ASSUME NEW r \in Registers, NEW a \in Addrs, NEW b \in Bytes, NEW kills \in BOOLEAN,
               DeliverSignal(r, a, b, kills)
        PROVE  ButUndo
    BY <2>6, Zenon DEF ButUndo
  <2> QED  BY <2>1, <2>2, <2>3, <2>4, <2>5, <2>6 DEF Guest
<1>2. Edit => ButUndo
  <2>1. ASSUME NEW r \in RegNames, NEW v \in RegValues, EditRegister(r, v) PROVE ButUndo
    BY <2>1, Zenon DEF ButUndo
  <2>2. ASSUME NEW a \in Addrs, NEW b \in Bytes, EditByte(a, b) PROVE ButUndo
    BY <2>2, Zenon DEF ButUndo
  <2> QED  BY <2>1, <2>2 DEF Edit
<1>3. OpenPoke => ButUndo
  BY Zenon DEF OpenPoke, ButUndo
<1>4. ClosePoke => ButUndo \/ UNCHANGED vars
  BY Zenon DEF ClosePoke, ButUndo
<1>5. ASSUME NEW enabled \in BOOLEAN, SetUndoEnabled(enabled) PROVE UNCHANGED vars
  BY <1>5 DEF SetUndoEnabled
<1>6. ASSUME NEW size \in Capacities, Initialize(size) PROVE ButUndo
  BY <1>6, Zenon DEF Initialize, ButUndo
<1>7. ASSUME NEW new \in Fresh, NEW restarts \in BOOLEAN, Replace(new, restarts) PROVE ButUndo
  BY <1>7, Zenon DEF Replace, ButUndo
<1>8. ASSUME NEW skip, NEW max, GetUndoHistoryRange(skip, max) PROVE UNCHANGED vars
  BY <1>8 DEF GetUndoHistoryRange
<1>9. UNCHANGED allvars => UNCHANGED vars
  BY DEF allvars
<1>10. [SessionNext]_allvars => HostUndo \/ ButUndo \/ UNCHANGED vars
  BY <1>1, <1>2, <1>3, <1>4, <1>5, <1>6, <1>7, <1>8, <1>9 DEF SessionNext
<1>11. HostUndo => Undo
  BY DEF HostUndo
<1>12. Undo \/ ButUndo => Next
  BY Zenon DEF Next, ButUndo
<1> QED  BY <1>10, <1>11, <1>12
-----------------------------------------------------------------------------
(* What one step of the history does to its ring. *)

\* n of the ring's entries stay, from the d-th on: each keeps what is shown of it, and
\* started from the same registers.
Carries(n, d) ==
  /\ n + d <= ring.count
  /\ \A i \in 0 .. n - 1 :
       /\ Keeps(Oldest(ring', i), Oldest(ring, i + d))
       /\ Before(ring', i) = Before(ring, i + d)

\* The identity of the entry a step or Poke becomes.
Identified(id) ==
  \/ phase # "idle" /\ id = identity
  \/ id = allocator + 1 /\ allocator' = allocator + 1
RingStep ==
  \E n \in Nat, d \in 0 .. 1 :
    /\ Carries(n, d)
    /\ \/ ring'.count = n
       \/ /\ ring'.count = n + 1 /\ phase' = "idle"
          /\ Identified(Oldest(ring', n).identity)

\* The ring in every state that is sound: where its entries started is in the log.
LEMMA StartedAt ==
  ASSUME IInv
  PROVE  /\ ring.count \in Nat /\ Len(past) = ring.count
         /\ \A i \in 0 .. ring.count - 1 : Before(ring, i) = past[i + 1].state.regs
BY DEF IInv, Sound, Chain, IsRing

\* When no entry comes or goes, all of them stay.
LEMMA AllStay ==
  ASSUME IInv, IInv', ring' = ring \/ ring' = MarkRing(ring, step), SameStates(past', past)
  PROVE  RingStep
<1>1. /\ TypeOK /\ Sound(ring, past, capacity, allocator) /\ capacity \in Nat
      /\ IsRing(ring) /\ Shaped(ring, capacity)
  BY HistoryAssumption DEF IInv, TypeOK, Sound
<1>2. /\ ring.count \in Nat /\ Len(past) = ring.count
      /\ ring'.count \in Nat /\ Len(past') = ring'.count
  BY StartedAt DEF IInv, Sound, IsRing
<1>3. ring'.count = ring.count /\ \A i \in 1 .. Len(past) : past'[i].state = past[i].state
  BY <1>2 DEF SameStates
<1>4. ASSUME NEW i \in 0 .. ring.count - 1
      PROVE  /\ Keeps(Oldest(ring', i), Oldest(ring, i + 0))
             /\ Before(ring', i) = Before(ring, i + 0)
  <2>1. i + 1 \in 1 .. Len(past) /\ i + 1 - 1 = i /\ i + 0 = i
    BY <1>2
  <2>2. Keeps(Oldest(ring', i + 1 - 1), Oldest(ring, i + 1 - 1))
    BY <1>1, <2>1, MarkedKeeps
  <2>3. Before(ring', i) = past'[i + 1].state.regs /\ Before(ring, i) = past[i + 1].state.regs
    BY <1>3, StartedAt DEF IInv, Sound, Chain
  <2> QED  BY <1>3, <2>1, <2>2, <2>3
<1>5. ring.count + 0 <= ring.count /\ 0 \in 0 .. 1
  BY <1>2
<1>6. Carries(ring.count, 0)
  BY <1>4, <1>5 DEF Carries
<1> QED  BY <1>2, <1>3, <1>5, <1>6 DEF RingStep

\* An entry recorded goes after the others, of which the oldest may go.
LEMMA OneMore ==
  ASSUME IInv, IInv', NEW e, Recorded(e), Identified(e.identity), phase' = "idle",
         capacity # 0
  PROVE  RingStep
<1>1. /\ ring.count \in Nat /\ Len(past) = ring.count
      /\ ring'.count \in Nat /\ Len(past') = ring'.count
      /\ \A i \in 0 .. ring'.count - 1 : Before(ring', i) = past'[i + 1].state.regs
      /\ \A i \in 0 .. ring.count - 1 : Before(ring, i) = past[i + 1].state.regs
  BY DEF IInv, Sound, Chain, IsRing
<1>2. Dropped \in 0 .. 1 /\ (Dropped = 1 => ring.count = capacity)
  BY DEF Dropped
<1>3. ring'.count = ring.count + 1 - Dropped
  BY DEF Recorded
<1>4. PICK n \in Int : n = ring'.count - 1
  BY <1>1
<1>5. n + Dropped = ring.count /\ ring'.count = n + 1
  BY <1>1, <1>2, <1>3, <1>4
<1>6. n \in Nat
  <2>1. ring.count = 0 => Dropped = 0
    BY <1>1, <1>2, <1>3, <1>5
  <2> QED  BY <1>1, <1>2, <1>5, <2>1
<1>7. ASSUME NEW i \in 0 .. n - 1
      PROVE  /\ Keeps(Oldest(ring', i), Oldest(ring, i + Dropped))
             /\ Before(ring', i) = Before(ring, i + Dropped)
  <2>1. /\ i + 1 \in 1 .. ring'.count - 1 /\ i + 1 - 1 = i
        /\ i + Dropped \in 0 .. ring.count - 1 /\ i \in 0 .. ring'.count - 1
        /\ i + 1 + Dropped = i + Dropped + 1
    BY <1>2, <1>5, <1>6
  <2>2. /\ past'[i + 1] = past[i + 1 + Dropped]
        /\ Keeps(Oldest(ring', i + 1 - 1), Oldest(ring, i + 1 - 1 + Dropped))
    BY <2>1 DEF Recorded
  <2> QED  BY <1>1, <2>1, <2>2
<1>8. Oldest(ring', n).identity = e.identity
  BY <1>4, <1>5 DEF Recorded, Keeps
<1>9. n + Dropped <= ring.count
  BY <1>1, <1>5
<1>10. Carries(n, Dropped)
  BY <1>7, <1>9 DEF Carries
<1> QED  BY <1>2, <1>5, <1>6, <1>8, <1>10 DEF RingStep
\* Whatever happens, the ring keeps its entries from some place on, and at most one comes.
LEMMA EveryRingStep ==
  ASSUME IInv, IInv', [Next]_vars
  PROVE  RingStep
<1>1. /\ TypeOK /\ Sound(ring, past, capacity, allocator) /\ StepSound
      /\ IsRing(ring) /\ Shaped(ring, capacity)
      /\ ring.count \in Nat /\ capacity \in Nat /\ past \in Seq(LogEntries) /\ Len(past) \in Nat
  BY HistoryAssumption, LenProperties DEF IInv, Sound, TypeOK, IsRing
<1>2. SameStates(past, past)
  BY SameItself
<1>3. ASSUME ring'.count = 0 PROVE RingStep
  <2>1. 0 + 0 <= ring.count /\ 0 \in 0 .. 1 /\ 0 \in Nat
    BY <1>1
  <2>2. Carries(0, 0)
    BY <2>1 DEF Carries
  <2> QED  BY <1>3, <2>1, <2>2 DEF RingStep
<1>4. ASSUME NEW r \in Registers, NEW flow, NEW end, Retire(r, flow, end) PROVE RingStep
  <2>1. CASE ~step.pending \/ capacity = 0
    BY <1>2, <1>4, <2>1, AllStay DEF Retire, Finish, history
  <2>2. CASE step.pending /\ capacity # 0
    <3> DEFINE irreversible == \/ step.truncated \/ (step.parts # <<>> /\ TooMuch(step))
                               \/ step.pending_irreversible \/ end = "handled"
               exits == end \in {"exit", "killed"}
               e == EntryOf(r, step.parts \o step.writes, step.journal, irreversible, exits,
                            identity)
    <3>1. irreversible \in BOOLEAN
      BY Zenon
    <3>2. exits \in BOOLEAN
      OBVIOUS
    <3>3. Recorded(e)
      BY <1>4, <2>2, <3>1, <3>2, RetireRecords
    <3>4. e.identity = identity
      BY DEF EntryOf, Vacant
    <3>5. phase # "idle" /\ phase' = "idle"
      BY <1>4 DEF Retire
    <3> HIDE DEF e
    <3> QED  BY <2>2, <3>3, <3>4, <3>5, OneMore DEF Identified
  <2> QED  BY <2>1, <2>2
<1>5. CASE EndPoke
  <2>1. CASE capacity # 0 /\ (Overwritten # {} \/ machine.regs # step.registers)
    <3> DEFINE e == EntryOf(machine.regs, PokeWrites, <<>>, step.pending_irreversible, FALSE,
                            allocator + 1)
    <3>1. Recorded(e)
      BY <1>5, <2>1, EndPokeRecords
    <3>2. e.identity = allocator + 1
      BY DEF EntryOf, Vacant
    <3>3. poke /\ phase' = phase /\ allocator' = allocator + 1
      BY <1>5, <2>1 DEF EndPoke
    <3>4. phase = "idle"
      BY <1>1, <3>3 DEF StepSound
    <3> HIDE DEF e
    <3> QED  BY <2>1, <3>1, <3>2, <3>3, <3>4, OneMore DEF Identified
  <2>2. CASE ~(capacity # 0 /\ (Overwritten # {} \/ machine.regs # step.registers))
    BY <1>2, <1>5, <2>2, AllStay DEF EndPoke, Finish, history
  <2> QED  BY <2>1, <2>2
<1>6. CASE Undo
  <2>1. CanUndo /\ ring' = WithoutNewest(ring)
    BY <1>6 DEF Undo
  <2>2. ring.count > 0 /\ ring.hollow < ring.count
    BY <1>1, <2>1, UndoTyped
  <2>3. ring'.count = ring.count - 1 /\ \A i \in 0 .. ring.count - 2 : Oldest(ring', i) = Oldest(ring, i)
    BY <1>1, <2>1, <2>2, WithoutNewestProperties
  <2>4. PICK n \in Nat : n = ring.count - 1
    BY <1>1, <2>2
  <2>5. n + 0 <= ring.count /\ 0 \in 0 .. 1 /\ ring'.count = n /\ ring'.base = ring.base
    BY <1>1, <2>1, <2>2, <2>3, <2>4, WithoutNewestProperties
  <2>6. ring.count - 2 = n - 1
    BY <1>1, <2>4
  <2>7. ASSUME NEW i \in 0 .. n - 1
        PROVE  /\ Oldest(ring', i) = Oldest(ring, i + 0)
               /\ Before(ring', i) = Before(ring, i + 0)
    <3>1. i \in 0 .. ring.count - 2 /\ i + 0 = i /\ (i > 0 => i - 1 \in 0 .. ring.count - 2)
      BY <2>6
    <3> QED  BY <2>3, <2>5, <3>1 DEF Before
  <2>8. Carries(n, 0)
    BY <2>5, <2>7, KeepsItself DEF Carries
  <2> QED  BY <2>5, <2>8 DEF RingStep
<1>7. CASE Begin \/ Wait \/ Resume \/ BeginPoke \/ UNCHANGED vars
  <2>1. ring' = ring /\ past' = past
    BY <1>7 DEF Begin, Wait, Resume, BeginPoke, vars, history, ghosts
  <2> QED  BY <1>2, <2>1, AllStay
<1>8. CASE Effect
  <2>1. ring' = MarkRing(ring, step) /\ past' = Lose(past)
    BY <1>8 DEF Effect
  <2> QED  BY <1>1, <2>1, LoseProperties, AllStay
<1>9. CASE NativeExit
  <2>1. ring' = ring /\ \E places \in SUBSET Spots : past' = Loosen(past, places)
    BY <1>9, DifferingTyped DEF NativeExit, history, Spots
  <2> QED  BY <1>1, <2>1, LoosenProperties, AllStay
<1>10. ASSUME NEW a \in Addrs, NEW b \in Bytes PROVE EditByte(a, b) => RingStep
  <2> SUFFICES ASSUME EditByte(a, b) PROVE RingStep
    OBVIOUS
  <2>1. ring' = ring /\ (past' = past \/ past' = Loosen(past, {a}))
    BY DEF EditByte, history
  <2>2. {a} \in SUBSET Spots
    BY DEF Places, Spots
  <2> QED  BY <1>1, <1>2, <2>1, <2>2, LoosenProperties, AllStay
<1>11. ASSUME NEW a \in Addrs, NEW b \in Bytes, NEW kept \in BOOLEAN, Write(a, b, kept)
       PROVE  RingStep
  <2>1. ring' = ring /\ past' = past
    BY <1>11 DEF Write, history, ghosts
  <2> QED  BY <1>2, <2>1, AllStay
<1>12. ASSUME NEW d \in Devices, Journal(d) PROVE RingStep
  <2>1. (ring' = ring \/ ring' = MarkRing(ring, step)) /\ past' = past
    BY <1>12 DEF Journal, ghosts
  <2> QED  BY <1>2, <2>1, AllStay
<1>13. ASSUME NEW r \in Registers, Split(r) PROVE RingStep
  <2>1. ring' = ring /\ past' = past
    BY <1>13 DEF Split, history, ghosts
  <2> QED  BY <1>2, <2>1, AllStay
<1>14. ASSUME NEW r \in Registers, NEW a \in Addrs, NEW b \in Bytes, NEW kills \in BOOLEAN,
              DeliverSignal(r, a, b, kills)
       PROVE  RingStep
  <2>1. ring' = MarkRing(ring, step) /\ past' = Lose(past)
    BY <1>14 DEF DeliverSignal
  <2> QED  BY <1>1, <2>1, LoseProperties, AllStay
<1>15. ASSUME NEW r \in RegNames, NEW v \in RegValues, EditRegister(r, v) PROVE RingStep
  <2>1. ring' = ring /\ (past' = past \/ past' = Loosen(past, {r}))
    BY <1>15 DEF EditRegister, history
  <2>2. {r} \in SUBSET Spots
    BY DEF Places, Spots
  <2> QED  BY <1>1, <1>2, <2>1, <2>2, LoosenProperties, AllStay
<1>16. (\E size \in Capacities : SetCapacity(size)) \/ (\E new \in Fresh : Load(new)) => RingStep
  <2>1. (\E size \in Capacities : SetCapacity(size)) \/ (\E new \in Fresh : Load(new)) =>
          ring'.count = 0
    BY DEF SetCapacity, Load, NoEntries
  <2> QED  BY <1>3, <2>1
<1> QED
  BY <1>4, <1>5, <1>6, <1>7, <1>8, <1>9, <1>10, <1>11, <1>12, <1>13, <1>14, <1>15, <1>16 DEF Next
-----------------------------------------------------------------------------
(* What undo can reach. *)

\* Identities grow along the ring however far apart two entries are.
LEMMA GrowingFar ==
  ASSUME NEW R, NEW log, NEW cap, NEW last, Sound(R, log, cap, last),
         NEW i \in 0 .. R.count - 1, NEW j \in 0 .. R.count - 1, i < j
  PROVE  Oldest(R, i).identity < Oldest(R, j).identity
<1> DEFINE id(k) == Oldest(R, k).identity
           Not == {k \in 0 .. R.count - 1 : i < k /\ ~(id(i) < id(k))}
<1>1. R.count \in Nat
  BY DEF Sound, IsRing
<1>2. \A k \in 0 .. R.count - 1 : id(k) \in Nat
  BY EntryTyped DEF Sound, Entries
<1>3. \A k \in 1 .. R.count - 1 : id(k - 1) < id(k)
  BY DEF Sound, Growing
<1> HIDE DEF id
<1>4. Not = {}
  <2> SUFFICES ASSUME Not # {} PROVE FALSE
    OBVIOUS
  <2>1. Not \in SUBSET Nat
    BY <1>1
  <2>2. PICK k \in Not : \A m \in Not : k <= m
    BY <2>1, Least
  <2>3. k \in 1 .. R.count - 1 /\ k - 1 \in 0 .. R.count - 1 /\ i < k
    BY <1>1
  <2>4. k - 1 \notin Not
    BY <2>1, <2>2
  <2>5. i = k - 1 \/ id(i) < id(k - 1)
    BY <2>3, <2>4
  <2>6. id(i) < id(k)
    BY <1>2, <1>3, <2>3, <2>5
  <2> QED  BY <2>6
<1> QED  BY <1>4 DEF id

\* The bisection of depth() ends where the entries above the floor do.
LEMMA DepthIs ==
  ASSUME ring.count \in Nat, undoEnabled, NEW d \in 0 .. ring.count,
         \A o \in 0 .. ring.count - 1 : EntryAt(ring, o).identity > floor <=> o < d
  PROVE  Depth = d
<1> DEFINE n == ring.count
           Above(o) == EntryAt(ring, o).identity > floor
           Mid(low, high) == (low + high) \div 2
           Ranges == (0 .. n) \X (0 .. n)
           Half(f, low, high) == IF Above(Mid(low, high)) THEN f[<<Mid(low, high) + 1, high>>]
                                 ELSE f[<<low, Mid(low, high)>>]
           Bisects(f) == f = [range \in Ranges |->
                                IF range[1] >= range[2] THEN range[1]
                                ELSE Half(f, range[1], range[2])]
           Clamp(low, high) == IF low >= high \/ d < low THEN low ELSE IF d > high THEN high ELSE d
           clamped == [range \in Ranges |-> Clamp(range[1], range[2])]
           Not(f) == {k \in Nat : \E low \in 0 .. n, high \in 0 .. n :
                                     low < high /\ high - low = k /\ f[<<low, high>>] # Clamp(low, high)}
<1>1. Depth = (CHOOSE f : Bisects(f))[<<0, n>>]
  BY DEF Depth
<1>2. n \in Nat /\ d \in 0 .. n /\ \A o \in 0 .. n - 1 : Above(o) <=> o < d
  OBVIOUS
<1> HIDE DEF n, Above
<1>3. ASSUME NEW low \in 0 .. n, NEW high \in 0 .. n, low < high
      PROVE  /\ Mid(low, high) \in 0 .. n /\ Mid(low, high) + 1 \in 0 .. n
             /\ high - (Mid(low, high) + 1) \in Nat /\ Mid(low, high) - low \in Nat
             /\ high - (Mid(low, high) + 1) < high - low /\ Mid(low, high) - low < high - low
             /\ Above(Mid(low, high)) => Clamp(Mid(low, high) + 1, high) = Clamp(low, high)
             /\ ~Above(Mid(low, high)) => Clamp(low, Mid(low, high)) = Clamp(low, high)
  <2>1. PICK m \in Int : m = Mid(low, high) /\ low <= m /\ m < high
    BY <1>2, <1>3
  <2>2. Above(m) <=> m < d
    BY <1>2, <2>1
  <2> HIDE DEF Mid
  <2> QED  BY <1>2, <2>1, <2>2
<1>4. \A low \in 0 .. n, high \in 0 .. n : (low >= high <=> ~(low < high))
                                         /\ (low >= high => Clamp(low, high) = low)
                                         /\ <<low, high>> \in Ranges
  BY <1>2
<1>5. Clamp(0, n) = d /\ 0 \in 0 .. n /\ n \in 0 .. n
  BY <1>2
<1> HIDE DEF Clamp, Mid
\* The function it defines is one: what it comes to satisfies its definition,
<1>6. Bisects(clamped)
  <2>1. ASSUME NEW low \in 0 .. n, NEW high \in 0 .. n
        PROVE  Clamp(low, high) = IF low >= high THEN low ELSE Half(clamped, low, high)
    <3>1. CASE low >= high
      BY <1>4, <3>1
    <3>2. CASE low < high
      <4>1. /\ Mid(low, high) \in 0 .. n /\ Mid(low, high) + 1 \in 0 .. n
            /\ Above(Mid(low, high)) => Clamp(Mid(low, high) + 1, high) = Clamp(low, high)
            /\ ~Above(Mid(low, high)) => Clamp(low, Mid(low, high)) = Clamp(low, high)
        BY <1>3, <3>2
      <4>2. /\ clamped[<<Mid(low, high) + 1, high>>] = Clamp(Mid(low, high) + 1, high)
            /\ clamped[<<low, Mid(low, high)>>] = Clamp(low, Mid(low, high))
        BY <4>1
      <4> HIDE DEF clamped
      <4>3. Half(clamped, low, high) = Clamp(low, high)
        BY <4>1, <4>2
      <4> QED  BY <1>4, <3>2, <4>3
    <3> QED  BY <1>4, <3>1, <3>2
  <2>2. ASSUME NEW range \in Ranges
        PROVE  Clamp(range[1], range[2]) =
                 IF range[1] >= range[2] THEN range[1] ELSE Half(clamped, range[1], range[2])
    BY <2>1
  <2> HIDE DEF Half
  <2> QED  BY <2>2
<1>7. PICK f : f = (CHOOSE g : Bisects(g)) /\ Bisects(f)
  BY <1>6
<1>8. ASSUME NEW low \in 0 .. n, NEW high \in 0 .. n
      PROVE  f[<<low, high>>] = IF low >= high THEN low ELSE Half(f, low, high)
  <2> HIDE DEF Half
  <2>1. <<low, high>> \in Ranges /\ <<low, high>>[1] = low /\ <<low, high>>[2] = high
    OBVIOUS
  <2>2. f = [range \in Ranges |-> IF range[1] >= range[2] THEN range[1]
                                  ELSE Half(f, range[1], range[2])]
    BY <1>7
  <2> QED  BY <2>1, <2>2
\* and nothing else does.
<1>9. ASSUME NEW low \in 0 .. n, NEW high \in 0 .. n, f[<<low, high>>] # Clamp(low, high)
      PROVE  low < high /\ high - low \in Not(f)
  <2>1. low < high
    BY <1>4, <1>8, <1>9
  <2> QED  BY <1>9, <2>1
<1>10. Not(f) = {}
  <2> SUFFICES ASSUME Not(f) # {} PROVE FALSE
    OBVIOUS
  <2>1. PICK k \in Not(f) : \A m \in Not(f) : k <= m
    BY Least
  <2>2. PICK low \in 0 .. n, high \in 0 .. n :
          low < high /\ high - low = k /\ f[<<low, high>>] # Clamp(low, high)
    OBVIOUS
  <2> HIDE DEF Not
  <2>3. low < high
    BY <2>2
  <2>4. /\ Mid(low, high) \in 0 .. n /\ Mid(low, high) + 1 \in 0 .. n
        /\ high - (Mid(low, high) + 1) < high - low /\ Mid(low, high) - low < high - low
        /\ high - (Mid(low, high) + 1) \in Nat /\ Mid(low, high) - low \in Nat
        /\ Above(Mid(low, high)) => Clamp(Mid(low, high) + 1, high) = Clamp(low, high)
        /\ ~Above(Mid(low, high)) => Clamp(low, Mid(low, high)) = Clamp(low, high)
    BY <1>3, <2>3
  <2>5. /\ high - (Mid(low, high) + 1) \notin Not(f)
        /\ Mid(low, high) - low \notin Not(f)
    <3>1. k = high - low /\ high - low \in Int
      BY <1>2, <2>2
    <3> QED  BY <2>1, <2>4, <3>1
  <2>6. /\ f[<<Mid(low, high) + 1, high>>] = Clamp(Mid(low, high) + 1, high)
        /\ f[<<low, Mid(low, high)>>] = Clamp(low, Mid(low, high))
    BY <1>9, <2>4, <2>5
  <2>7. f[<<low, high>>] = Half(f, low, high)
    BY <1>4, <1>8, <2>3
  <2> QED  BY <2>2, <2>4, <2>6, <2>7
<1> QED  BY <1>1, <1>5, <1>7, <1>9, <1>10
-----------------------------------------------------------------------------
(* The session's invariant. *)

\* The identity of the entry i places after the oldest.
Id(i) == Oldest(ring, i).identity

\* What a row decoded of the entry e, which started from the registers b, lists as changed.
Changed(e, b) == {<<r, b[r], e.after[r]>> : r \in {r \in RegNames : b[r] # e.after[r]}}

\* A row kept was decoded of the entry e before it was hollowed, or lists nothing.
RowOf(kept, e, b) ==
  /\ kept.row = [registers |-> kept.row.registers, writes |-> kept.row.writes,
                 undoable |-> kept.row.undoable]
  /\ kept.length = 0 => kept.row.registers = {} /\ kept.row.writes = <<>>
  /\ ~e.hollow => kept.row.registers = Changed(e, b) /\ kept.row.writes = e.writes

\* Out of reach are the entries up to the floor, and the instruction under way is beyond
\* everything the ring holds, the floor and the rows.
FloorSound ==
  /\ identity \in 0 .. allocator /\ (phase = "idle" => identity = 0)
  /\ phase # "idle" => floor < identity /\ \A i \in 0 .. ring.count - 1 : Id(i) < identity
  /\ \A i \in 0 .. ring.count - 1 : Id(i) > 0 /\ (Id(i) <= floor => Id(i) \in out)
  /\ \A id \in out : id <= floor
RowsSound ==
  /\ phase # "idle" => identity \notin DOMAIN rows
  /\ \A i \in 0 .. ring.count - 1 :
       Id(i) \in DOMAIN rows => RowOf(rows[Id(i)], Oldest(ring, i), Before(ring, i))
SessionInv == SessionTypeOK /\ PokeKnown /\ FloorSound /\ RowsSound

\* The identities the ring holds have been handed out.
LEMMA IdBound ==
  ASSUME IInv
  PROVE  /\ allocator \in Nat /\ ring.count \in Nat
         /\ \A i \in 0 .. ring.count - 1 : Id(i) \in Nat /\ Id(i) <= allocator
         /\ \A i, j \in 0 .. ring.count - 1 : i < j => Id(i) < Id(j)
<1>1. Sound(ring, past, capacity, allocator) /\ allocator \in Nat /\ ring.count \in Nat
  BY DEF IInv, TypeOK, IsRing
<1>2. \A i \in 0 .. ring.count - 1 : Id(i) \in Nat
  BY <1>1, EntryTyped DEF Sound, Entries, Id
<1>3. \A i, j \in 0 .. ring.count - 1 : i < j => Id(i) < Id(j)
  BY <1>1, GrowingFar DEF Id
<1>4. ASSUME NEW i \in 0 .. ring.count - 1 PROVE Id(i) <= allocator
  <2>1. ring.count - 1 \in 0 .. ring.count - 1
    BY <1>1
  <2>2. Id(ring.count - 1) <= allocator
    BY <1>1, <2>1 DEF Sound, Growing, Id
  <2>3. i = ring.count - 1 \/ i < ring.count - 1
    BY <1>1
  <2> QED  BY <1>1, <1>2, <1>3, <2>1, <2>2, <2>3
<1> QED  BY <1>1, <1>2, <1>3, <1>4

\* Identities are handed out in order, one to each instruction while it is under way.
LEMMA Clocks ==
  ASSUME IInv, [Next]_vars, FloorSound
  PROVE  /\ allocator \in Nat /\ allocator' \in Nat /\ allocator <= allocator'
         /\ identity' \in 0 .. allocator' /\ (phase' = "idle" => identity' = 0)
         /\ phase' # "idle" => \/ phase # "idle" /\ identity' = identity
                               \/ identity' = allocator + 1
<1>1. /\ TypeOK /\ allocator \in Nat /\ capacity \in Nat
      /\ identity \in 0 .. allocator /\ (phase = "idle" => identity = 0)
      /\ poke => phase = "idle"
  BY HistoryAssumption DEF IInv, TypeOK, FloorSound, StepSound
<1> DEFINE Steady == /\ allocator' = allocator
                    /\ \/ /\ identity' = identity
                          /\ phase' = phase \/ (phase # "idle" /\ phase' # "idle")
                       \/ identity' = 0 /\ phase' = "idle"
<1>2. CASE Steady
  BY <1>1, <1>2
<1>3. CASE Begin
  BY <1>1, <1>3 DEF Begin
<1>4. CASE EndPoke
  <2>1. allocator' = allocator \/ allocator' = allocator + 1
    BY <1>4 DEF EndPoke
  <2>2. identity' = identity /\ phase' = phase /\ phase = "idle"
    BY <1>1, <1>4 DEF EndPoke
  <2> QED  BY <1>1, <2>1, <2>2
<1>5. CASE UNCHANGED instruction
  BY <1>2, <1>5 DEF instruction
<1>6. CASE Wait
  BY <1>2, <1>6 DEF Wait
<1>7. CASE Resume
  BY <1>2, <1>7 DEF Resume
<1>8. CASE NativeExit
  BY <1>2, <1>8 DEF NativeExit
<1>9. ASSUME NEW r, NEW flow, NEW end, Retire(r, flow, end) PROVE Steady
  BY <1>9 DEF Retire
<1>10. ASSUME NEW new, Load(new) PROVE Steady
  BY <1>10 DEF Load
<1> HIDE DEF Steady
<1>11. \/ Effect \/ BeginPoke \/ Undo \/ UNCHANGED vars
       \/ \E a \in Addrs, b \in Bytes : EditByte(a, b) \/ \E kept \in BOOLEAN : Write(a, b, kept)
       \/ \E d \in Devices : Journal(d)
       \/ \E r \in Registers : \/ Split(r)
                              \/ \E a \in Addrs, b \in Bytes, kills \in BOOLEAN :
                                   DeliverSignal(r, a, b, kills)
       \/ \E r \in RegNames, v \in RegValues : EditRegister(r, v)
       \/ \E size \in Capacities : SetCapacity(size)
       => UNCHANGED instruction
  <2>1. Effect \/ BeginPoke \/ Undo \/ UNCHANGED vars => UNCHANGED instruction
    BY Zenon DEF Effect, BeginPoke, Undo, vars
  <2>2. ASSUME NEW a, NEW b PROVE EditByte(a, b) \/ (\E kept \in BOOLEAN : Write(a, b, kept)) =>
                                  UNCHANGED instruction
    BY Zenon DEF EditByte, Write
  <2>3. ASSUME NEW d, Journal(d) PROVE UNCHANGED instruction
    BY <2>3, Zenon DEF Journal
  <2>4. ASSUME NEW r, Split(r) PROVE UNCHANGED instruction
    BY <2>4, Zenon DEF Split
  <2>5. ASSUME NEW r, NEW a, NEW b, NEW kills, DeliverSignal(r, a, b, kills)
        PROVE  UNCHANGED instruction
    BY <2>5, Zenon DEF DeliverSignal
  <2>6. ASSUME NEW r, NEW v, EditRegister(r, v) PROVE UNCHANGED instruction
    BY <2>6, Zenon DEF EditRegister
  <2>7. ASSUME NEW size, SetCapacity(size) PROVE UNCHANGED instruction
    BY <2>7, Zenon DEF SetCapacity
  <2> HIDE DEF instruction
  <2> QED  BY <2>1, <2>2, <2>3, <2>4, <2>5, <2>6, <2>7
<1> QED
  BY <1>2, <1>3, <1>4, <1>5, <1>6, <1>7, <1>8, <1>9, <1>10, <1>11 DEF Next

\* Nothing the history does brings an entry into reach or out of it, or makes a row another's.
LEMMA HistoryStep ==
  ASSUME IInv, IInv', [Next]_vars, SessionTypeOK, FloorSound, RowsSound,
         UNCHANGED <<undoEnabled, floor, rows, out>>, pokeOpen' \in BOOLEAN
  PROVE  SessionTypeOK' /\ FloorSound' /\ RowsSound'
<1>1. /\ allocator \in Nat /\ allocator' \in Nat /\ allocator <= allocator'
      /\ identity' \in 0 .. allocator' /\ (phase' = "idle" => identity' = 0)
      /\ phase' # "idle" => \/ phase # "idle" /\ identity' = identity
                            \/ identity' = allocator + 1
  BY Clocks
<1>2. undoEnabled' = undoEnabled /\ floor' = floor /\ rows' = rows /\ out' = out
  OBVIOUS
<1>3. /\ floor \in 0 .. allocator /\ out \subseteq 0 .. allocator
      /\ \A id \in DOMAIN rows : id \in 1 .. allocator
  BY DEF SessionTypeOK
<1>4. SessionTypeOK'
  BY <1>1, <1>2, <1>3 DEF SessionTypeOK
<1>5. PICK n \in Nat, d \in 0 .. 1 :
        /\ Carries(n, d)
        /\ \/ ring'.count = n
           \/ /\ ring'.count = n + 1 /\ phase' = "idle"
              /\ Identified(Oldest(ring', n).identity)
  BY EveryRingStep DEF RingStep
<1>6. /\ identity \in 0 .. allocator
      /\ phase # "idle" => floor < identity /\ \A i \in 0 .. ring.count - 1 : Id(i) < identity
      /\ \A i \in 0 .. ring.count - 1 : Id(i) > 0 /\ (Id(i) <= floor => Id(i) \in out)
      /\ \A id \in out : id <= floor
  BY DEF FloorSound
<1>7. /\ ring.count \in Nat
      /\ \A i \in 0 .. ring.count - 1 : Id(i) \in Nat /\ Id(i) <= allocator
  BY IdBound
<1>8. \A i \in 0 .. n - 1 :
        /\ i + d \in 0 .. ring.count - 1
        /\ Id(i)' = Id(i + d) /\ Keeps(Oldest(ring', i), Oldest(ring, i + d))
        /\ Before(ring', i) = Before(ring, i + d)
  BY <1>5, <1>7 DEF Carries, Keeps, Id
\* The entry that comes, if one does.
<1>9. ASSUME ring'.count # n
      PROVE  Id(n)' \in Nat /\ Id(n)' > floor /\ Id(n)' \notin DOMAIN rows
  <2>1. Identified(Id(n)')
    BY <1>5, <1>9 DEF Id
  <2>2. CASE phase # "idle" /\ Id(n)' = identity
    BY <1>6, <2>2 DEF RowsSound
  <2>3. CASE Id(n)' = allocator + 1
    BY <1>1, <1>3, <2>3
  <2> QED  BY <2>1, <2>2, <2>3 DEF Identified
<1>10. \A i \in 0 .. ring'.count - 1 : i \in 0 .. n - 1 \/ (ring'.count # n /\ i = n)
  BY <1>5
<1>11. FloorSound'
  <2>1. phase' # "idle" => floor < identity'
    BY <1>1, <1>3, <1>6
  <2>2. ASSUME phase' # "idle", NEW i \in 0 .. ring'.count - 1 PROVE Id(i)' < identity'
    <3>1. ring'.count = n
      BY <1>5, <2>2
    <3>2. Id(i)' = Id(i + d) /\ i + d \in 0 .. ring.count - 1
      BY <1>8, <3>1
    <3> QED  BY <1>1, <1>6, <1>7, <2>2, <3>2
  <2>3. ASSUME NEW i \in 0 .. ring'.count - 1
        PROVE  Id(i)' > 0 /\ (Id(i)' <= floor => Id(i)' \in out)
    <3>1. CASE i \in 0 .. n - 1
      BY <1>6, <1>8, <3>1
    <3>2. CASE ring'.count # n /\ i = n
      BY <1>3, <1>9, <3>2
    <3> QED  BY <1>10, <3>1, <3>2
  <2> QED  BY <1>1, <1>2, <1>6, <2>1, <2>2, <2>3 DEF FloorSound
<1>12. RowsSound'
  <2>1. phase' # "idle" => identity' \notin DOMAIN rows
    BY <1>1, <1>3 DEF RowsSound
  <2>2. ASSUME NEW i \in 0 .. ring'.count - 1, Id(i)' \in DOMAIN rows
        PROVE  RowOf(rows[Id(i)'], Oldest(ring', i), Before(ring', i))
    <3>1. i \in 0 .. n - 1
      BY <1>9, <1>10, <2>2
    <3>2. RowOf(rows[Id(i + d)], Oldest(ring, i + d), Before(ring, i + d))
      BY <1>8, <2>2, <3>1 DEF RowsSound
    <3> QED  BY <1>8, <3>1, <3>2 DEF RowOf, Keeps, Changed
  <2> QED  BY <1>2, <2>1, <2>2 DEF RowsSound
<1> QED  BY <1>4, <1>11, <1>12
-----------------------------------------------------------------------------
(* The rows shown. *)

\* What an entry changed is finite, and empty when it counts nothing.
LEMMA ChangedFinite ==
  ASSUME NEW e, NEW b
  PROVE  /\ IsFiniteSet(Changed(e, b)) /\ Cardinality(Changed(e, b)) \in Nat
         /\ Cardinality(Changed(e, b)) = 0 => Changed(e, b) = {}
<1> DEFINE S == {r \in RegNames : b[r] # e.after[r]}
           f == [r \in S |-> <<r, b[r], e.after[r]>>]
<1>1. IsFiniteSet(S)
  <2>1. S \in SUBSET RegNames
    OBVIOUS
  <2> QED  BY <2>1, HistoryAssumption, FS_Subset
<1>2. f \in Surjection(S, Changed(e, b))
  BY DEF Surjection, Changed
<1>3. IsFiniteSet(Changed(e, b))
  BY <1>1, <1>2, FS_Surjection
<1> QED  BY <1>3, FS_CardinalityType, FS_EmptySet

\* A row kept from an earlier look is the one decoded now, wherever the entry has moved.
LEMMA RowsKept ==
  ASSUME IInv, RowsSound, NEW o \in 0 .. ring.count - 1
  PROVE  /\ RowShown(o) = Row(o)
         /\ RowOf([length |-> PacketBytes(o), row |-> Row(o)],
                  EntryAt(ring, o), Before(ring, ring.count - 1 - o))
<1>1. ring.count \in Nat /\ Sound(ring, past, capacity, allocator)
  BY DEF IInv, TypeOK, IsRing
<1>2. PICK i \in 0 .. ring.count - 1 : i = ring.count - 1 - o
  BY <1>1
<1>3. PICK e : e = EntryAt(ring, o) /\ e = Oldest(ring, i) /\ e.identity = Id(i)
  BY <1>2 DEF EntryAt, Id
<1>4. PICK b : b = Before(ring, i)
  OBVIOUS
<1>5. /\ e.writes \in Writes /\ e.journal \in Seq(Devices) /\ e.reversible \in BOOLEAN
      /\ e.hollow \in BOOLEAN
  BY <1>1, <1>3, EntryTyped DEF Sound, Entries
<1>6. PICK u \in BOOLEAN : u = (e.reversible /\ ~e.hollow)
  OBVIOUS
<1>7. PICK n \in Nat : n = Cardinality(Changed(e, b)) /\ (n = 0 => Changed(e, b) = {})
  BY ChangedFinite
<1>8. PICK w \in Nat : w = Len(e.writes) /\ (w = 0 => e.writes = <<>>)
  BY <1>5, LenProperties, EmptySeq DEF Writes
<1>9. PICK j \in Nat : j = Len(e.journal)
  BY <1>5, LenProperties
<1>10. Mutated(o) = IF e.hollow THEN {} ELSE Changed(e, b)
  BY <1>2, <1>3, <1>4 DEF Mutated, Changed
\* What is decoded now: nothing of a hollow entry.
<1>11. PICK changed : changed = IF e.hollow THEN {} ELSE Changed(e, b)
  OBVIOUS
<1>12. PICK writes : writes = IF e.hollow THEN <<>> ELSE e.writes
  OBVIOUS
<1>13. Row(o) = [registers |-> changed, writes |-> writes, undoable |-> u]
  BY <1>3, <1>6, <1>10, <1>11, <1>12 DEF Row
<1>14. PICK length \in Nat :
         /\ PacketBytes(o) = length /\ (length = 0 => changed = {} /\ writes = <<>>)
         /\ e.hollow => length = 0
  <2>1. CASE e.hollow
    <3>1. Mutated(o) = {} /\ Cardinality({}) = 0
      BY <1>10, <2>1, FS_EmptySet
    <3>2. PacketBytes(o) = 0
      BY <1>3, <2>1, <3>1 DEF PacketBytes
    <3>3. changed = {} /\ writes = <<>>
      BY <1>11, <1>12, <2>1
    <3> QED  BY <2>1, <3>2, <3>3
  <2>2. CASE ~e.hollow
    <3>1. Cardinality(Mutated(o)) = n
      BY <1>7, <1>10, <2>2
    <3>2. PacketBytes(o) = n + (w + j)
      BY <1>3, <1>8, <1>9, <2>2, <3>1 DEF PacketBytes
    <3>3. n + (w + j) = 0 => changed = {} /\ writes = <<>>
      BY <1>7, <1>8, <1>11, <1>12, <2>2
    <3> QED  BY <2>2, <3>2, <3>3
  <2> QED  BY <2>1, <2>2
<1>15. RowShown(o) = Row(o)
  <2> SUFFICES ASSUME Kept(o) PROVE rows[Id(i)].row = Row(o)
    BY <1>3 DEF RowShown
  <2>1. /\ Id(i) \in DOMAIN rows /\ rows[Id(i)].length = PacketBytes(o)
        /\ rows[Id(i)].row.undoable = Row(o).undoable
    BY <1>3 DEF Kept
  <2>2. RowOf(rows[Id(i)], e, b)
    BY <1>3, <1>4, <2>1 DEF RowsSound
  <2>3. PICK row : row = rows[Id(i)].row
    OBVIOUS
  <2>4. /\ row = [registers |-> row.registers, writes |-> row.writes, undoable |-> row.undoable]
        /\ length = 0 => row.registers = {} /\ row.writes = <<>>
        /\ ~e.hollow => row.registers = changed /\ row.writes = writes
    BY <1>11, <1>12, <1>14, <2>1, <2>2, <2>3 DEF RowOf
  <2>5. row.undoable = u
    BY <1>13, <2>1, <2>3
  <2>6. row.registers = changed /\ row.writes = writes
    BY <1>14, <2>4
  <2> QED  BY <1>13, <2>3, <2>4, <2>5, <2>6
<1>16. PICK kept : kept = [length |-> PacketBytes(o), row |-> Row(o)]
  OBVIOUS
<1>17. RowOf(kept, e, b)
  <2>1. kept.length = length /\ kept.row = [registers |-> changed, writes |-> writes, undoable |-> u]
    BY <1>13, <1>14, <1>16
  <2>2. ~e.hollow => changed = Changed(e, b) /\ writes = e.writes
    BY <1>11, <1>12
  <2> QED  BY <1>14, <2>1, <2>2 DEF RowOf
<1> QED  BY <1>2, <1>3, <1>4, <1>15, <1>16, <1>17

\* The entries above the floor are the newest ones, and Depth counts them.
LEMMA DepthExact ==
  ASSUME IInv, undoEnabled, floor \in Nat
  PROVE  \E d \in 0 .. ring.count :
           /\ Depth = d
           /\ \A o \in 0 .. ring.count - 1 : EntryAt(ring, o).identity > floor <=> o < d
           /\ \A i \in 0 .. ring.count - 1 : Id(i) > floor <=> i >= ring.count - d
<1> DEFINE n == ring.count
           Below == {o \in 0 .. n : o = n \/ ~(Id(n - 1 - o) > floor)}
<1>1. n \in Nat
  BY IdBound
<1>2. PICK d \in Below : \A m \in Below : d <= m
  <2>1. Below \in SUBSET Nat /\ n \in Below
    BY <1>1
  <2> QED  BY <2>1, Least
<1>3. ASSUME NEW o \in 0 .. n - 1
      PROVE  Id(n - 1 - o) > floor <=> o < d
  <2>1. n - 1 - o \in 0 .. n - 1 /\ o \in 0 .. n /\ d \in 0 .. n /\ o # n
    BY <1>1
  <2>2. CASE o < d
    <3>1. o \notin Below
      BY <1>1, <1>2, <2>1, <2>2
    <3> QED  BY <2>1, <2>2, <3>1
  <2>3. CASE o = d
    BY <2>1, <2>3
  <2>4. CASE d < o
    <3>1. /\ d # n /\ n - 1 - d \in 0 .. n - 1 /\ n - 1 - o < n - 1 - d
          /\ ~(Id(n - 1 - d) > floor)
      BY <1>1, <2>1, <2>4
    <3>2. Id(n - 1 - o) \in Nat /\ Id(n - 1 - d) \in Nat /\ Id(n - 1 - o) < Id(n - 1 - d)
      BY <2>1, <3>1, IdBound
    <3>3. ~(Id(n - 1 - o) > floor)
      BY <3>1, <3>2
    <3> QED  BY <1>1, <2>1, <2>4, <3>3
  <2> QED  BY <1>1, <2>1, <2>2, <2>3, <2>4
<1>4. \A o \in 0 .. n - 1 : EntryAt(ring, o).identity > floor <=> o < d
  BY <1>3 DEF EntryAt, Id
<1>5. \A i \in 0 .. n - 1 : Id(i) > floor <=> i >= n - d
  <2>1. ASSUME NEW i \in 0 .. n - 1 PROVE Id(i) > floor <=> i >= n - d
    <3>1. PICK o \in 0 .. n - 1 : o = n - 1 - i
      BY <1>1
    <3>2. n - 1 - o = i /\ (o < d <=> i >= n - d)
      BY <1>1, <3>1
    <3>3. Id(n - 1 - o) > floor <=> o < d
      BY <1>3
    <3> QED  BY <3>2, <3>3
  <2> QED  BY <2>1
<1>6. d \in 0 .. n
  OBVIOUS
<1>7. Depth = d
  BY <1>1, <1>4, <1>6, DepthIs
<1> QED  BY <1>4, <1>5, <1>6, <1>7

\* Where undo is on, it reaches what began since it was last turned on.
LEMMA ReachIs ==
  ASSUME IInv, SessionTypeOK, FloorSound
  PROVE  ReachExact
<1>1. CASE ~undoEnabled
  <2>1. Depth = 0
    BY <1>1 DEF Depth
  <2> QED  BY <1>1, <2>1 DEF ReachExact
<1>2. CASE undoEnabled
  <2>1. floor \in Nat /\ ring.count \in Nat
    BY IdBound DEF SessionTypeOK
  <2>2. PICK d \in 0 .. ring.count :
          /\ Depth = d
          /\ \A i \in 0 .. ring.count - 1 : Id(i) > floor <=> i >= ring.count - d
    BY <1>2, <2>1, DepthExact
  <2>3. ASSUME NEW i \in 0 .. ring.count - 1
        PROVE  Oldest(ring, i).identity \notin out <=> i >= ring.count - d
    <3>1. /\ Id(i) <= floor => Id(i) \in out
          /\ Id(i) \in out => Id(i) <= floor
          /\ Id(i) \in Nat
      BY IdBound DEF FloorSound
    <3>2. Id(i) > floor <=> i >= ring.count - d
      BY <2>2
    <3> QED  BY <2>1, <3>1, <3>2 DEF Id
  <2>4. {i \in 0 .. ring.count - 1 : Oldest(ring, i).identity \notin out} =
          ring.count - d .. ring.count - 1
    BY <2>1, <2>3
  <2>5. Cardinality(ring.count - d .. ring.count - 1) = d
    <3>1. ring.count - d \in Int /\ ring.count - 1 \in Int
      BY <2>1
    <3>2. Cardinality(ring.count - d .. ring.count - 1) =
            IF ring.count - d > ring.count - 1 THEN 0 ELSE ring.count - 1 - (ring.count - d) + 1
      BY <3>1, FS_Interval
    <3> QED  BY <2>1, <3>2
  <2> QED  BY <1>2, <2>2, <2>4, <2>5 DEF ReachExact
<1> QED  BY <1>1, <1>2 DEF SessionTypeOK
-----------------------------------------------------------------------------
(* The session's steps. *)

\* Looking at the history keeps the rows of what it shows.
LEMMA RangeLooked ==
  ASSUME IInv, SessionInv, NEW skip \in Nat, NEW max, GetUndoHistoryRange(skip, max)
  PROVE  SessionInv'
<1> DEFINE shown == {offset \in skip .. ring.count - 1 : offset < skip + max /\ offset < Depth}
           ids == {EntryAt(ring, offset).identity : offset \in shown}
           chosen(id) == CHOOSE o \in shown : EntryAt(ring, o).identity = id
           kept(o) == [length |-> PacketBytes(o), row |-> RowShown(o)]
<1>1. /\ ring.count \in Nat /\ allocator \in Nat
      /\ \A i \in 0 .. ring.count - 1 : Id(i) \in Nat /\ Id(i) <= allocator
      /\ \A i, j \in 0 .. ring.count - 1 : i < j => Id(i) < Id(j)
  BY IdBound
<1>2. rows' = [id \in ids |-> kept(chosen(id))]
  BY DEF GetUndoHistoryRange
<1>3. /\ undoEnabled' = undoEnabled /\ floor' = floor /\ pokeOpen' = pokeOpen /\ out' = out
      /\ UNCHANGED vars
  BY DEF GetUndoHistoryRange
<1>4. ring' = ring /\ identity' = identity /\ phase' = phase /\ poke' = poke /\ allocator' = allocator
  BY <1>3 DEF vars, history, instruction
<1>5. \A o \in shown : /\ o \in 0 .. ring.count - 1 /\ ring.count - 1 - o \in 0 .. ring.count - 1
                       /\ EntryAt(ring, o).identity = Id(ring.count - 1 - o)
  BY <1>1 DEF EntryAt, Id
<1> HIDE DEF shown
<1>6. ASSUME NEW id \in ids
      PROVE  /\ chosen(id) \in shown /\ Id(ring.count - 1 - chosen(id)) = id
             /\ id \in 1 .. allocator /\ (phase # "idle" => id < identity)
  <2>1. chosen(id) \in shown /\ EntryAt(ring, chosen(id)).identity = id
    <3>1. \E o \in shown : EntryAt(ring, o).identity = id
      OBVIOUS
    <3> QED  BY <3>1, Zenon
  <2>2. PICK i \in 0 .. ring.count - 1 : Id(i) = id
    BY <1>5, <2>1
  <2>3. Id(i) > 0 /\ Id(i) <= allocator /\ Id(i) \in Nat /\ (phase # "idle" => Id(i) < identity)
    BY <1>1 DEF SessionInv, FloorSound
  <2> QED  BY <1>1, <1>5, <2>1, <2>2, <2>3
<1>7. DOMAIN rows' = ids
  BY <1>2
<1>8. SessionTypeOK'
  BY <1>3, <1>4, <1>6, <1>7 DEF SessionInv, SessionTypeOK
<1>9. PokeKnown'
  BY <1>3, <1>4 DEF SessionInv, PokeKnown
<1>10. FloorSound'
  BY <1>3, <1>4 DEF SessionInv, FloorSound, Id
<1>11. phase # "idle" => identity \notin ids
  <2>1. identity \in Nat
    BY <1>1 DEF SessionInv, FloorSound
  <2> QED  BY <1>6, <2>1
<1>12. ASSUME NEW i \in 0 .. ring.count - 1, Id(i) \in ids
       PROVE  RowOf(rows'[Id(i)], Oldest(ring, i), Before(ring, i))
  <2>1. PICK o : o = chosen(Id(i))
    OBVIOUS
  <2>2. o \in shown /\ Id(ring.count - 1 - o) = Id(i)
    BY <1>6, <1>12, <2>1
  <2>3. ring.count - 1 - o = i
    <3>1. PICK j \in 0 .. ring.count - 1 : j = ring.count - 1 - o
      BY <1>5, <2>2
    <3>2. ~(i < j) /\ ~(j < i)
      BY <1>1, <2>2, <3>1
    <3> QED  BY <1>1, <3>1, <3>2
  <2>4. EntryAt(ring, o) = Oldest(ring, i) /\ o \in 0 .. ring.count - 1
    BY <1>5, <2>2, <2>3 DEF EntryAt
  <2>5. RowShown(o) = Row(o)
        /\ RowOf([length |-> PacketBytes(o), row |-> Row(o)], EntryAt(ring, o), Before(ring, i))
    BY <2>3, <2>4, RowsKept DEF SessionInv
  <2>6. rows'[Id(i)] = kept(o)
    BY <1>2, <1>12, <2>1
  <2> QED  BY <2>4, <2>5, <2>6
<1>13. RowsSound'
  BY <1>4, <1>7, <1>11, <1>12 DEF RowsSound, Id
<1> QED  BY <1>8, <1>9, <1>10, <1>13 DEF SessionInv
\* Turning undo off and on again puts all there is out of reach.
LEMMA UndoTurned ==
  ASSUME IInv, SessionInv, NEW enabled \in BOOLEAN, SetUndoEnabled(enabled)
  PROVE  SessionInv'
<1>1. /\ ring.count \in Nat /\ allocator \in Nat
      /\ \A i \in 0 .. ring.count - 1 : Id(i) \in Nat /\ Id(i) <= allocator
      /\ \A i, j \in 0 .. ring.count - 1 : i < j => Id(i) < Id(j)
  BY IdBound
<1>2. /\ undoEnabled' = enabled /\ pokeOpen' = pokeOpen /\ rows' = rows /\ phase = "idle"
      /\ floor' = IF enabled /\ ring.count > 0 THEN EntryAt(ring, 0).identity ELSE floor
      /\ ~pokeOpen /\ UNCHANGED vars
  BY DEF SetUndoEnabled
<1>3. ring' = ring /\ identity' = identity /\ phase' = phase /\ poke' = poke /\ allocator' = allocator
  BY <1>2 DEF vars, history, instruction
<1>4. identity = 0 /\ ~poke
  BY <1>2 DEF SessionInv, FloorSound, PokeKnown
<1>5. out' = IF enabled THEN {Id(i) : i \in 0 .. ring.count - 1} ELSE out
  BY <1>4 DEF SetUndoEnabled, Id
<1>6. ring.count > 0 => ring.count - 1 \in 0 .. ring.count - 1
                        /\ EntryAt(ring, 0).identity = Id(ring.count - 1)
  <2>1. ring.count - 1 - 0 = ring.count - 1
    BY <1>1
  <2> QED  BY <1>1, <2>1 DEF EntryAt, Id
<1>7. \A i \in 0 .. ring.count - 1 : ring.count > 0 /\ Id(i) <= Id(ring.count - 1)
  <2>1. ASSUME NEW i \in 0 .. ring.count - 1 PROVE ring.count > 0 /\ Id(i) <= Id(ring.count - 1)
    <3>1. ring.count > 0 /\ (i = ring.count - 1 \/ i < ring.count - 1)
      BY <1>1
    <3> QED  BY <1>1, <1>6, <3>1
  <2> QED  BY <2>1
<1>8. SessionTypeOK'
  <2>1. floor' \in 0 .. allocator
    BY <1>1, <1>2, <1>6 DEF SessionInv, SessionTypeOK
  <2>2. out' \subseteq 0 .. allocator
    <3>1. out \subseteq 0 .. allocator
      BY DEF SessionInv, SessionTypeOK
    <3>2. \A i \in 0 .. ring.count - 1 : Id(i) \in 0 .. allocator
      BY <1>1
    <3> HIDE DEF Id
    <3> QED  BY <1>5, <3>1, <3>2
  <2> QED  BY <1>2, <1>3, <2>1, <2>2 DEF SessionInv, SessionTypeOK
<1>9. PokeKnown'
  BY <1>3, <1>4 DEF PokeKnown
<1>10. FloorSound'
  <2>1. ASSUME NEW i \in 0 .. ring.count - 1 PROVE Id(i) > 0 /\ (Id(i) <= floor' => Id(i) \in out')
    BY <1>2, <1>5, <1>7 DEF SessionInv, FloorSound
  <2>2. ASSUME NEW id \in out' PROVE id <= floor'
    <3>1. CASE enabled
      <4>1. PICK i \in 0 .. ring.count - 1 : id = Id(i)
        BY <1>5, <3>1
      <4> QED  BY <1>2, <1>6, <1>7, <3>1, <4>1
    <3>2. CASE ~enabled
      BY <1>2, <1>5, <3>2 DEF SessionInv, FloorSound
    <3> QED  BY <3>1, <3>2
  <2>3. identity \in 0 .. allocator /\ identity = 0 /\ phase' = "idle"
    BY <1>2, <1>3, <1>4 DEF SessionInv, FloorSound
  <2> QED  BY <1>3, <2>1, <2>2, <2>3 DEF FloorSound, Id
<1>11. RowsSound'
  BY <1>2, <1>3 DEF SessionInv, RowsSound, Id
<1> QED  BY <1>8, <1>9, <1>10, <1>11 DEF SessionInv

\* An empty history with nothing under way, whatever the floor is.
LEMMA EmptySession ==
  ASSUME SessionTypeOK', ring'.count = 0, phase' = "idle", identity' = 0, allocator' \in Nat,
         poke' = FALSE, \A id \in out' : id <= floor'
  PROVE  SessionInv'
<1>1. \A i \in 0 .. ring'.count - 1 : FALSE
  OBVIOUS
<1>2. FloorSound'
  BY <1>1 DEF FloorSound
<1>3. RowsSound'
  BY <1>1 DEF RowsSound
<1> QED  BY <1>2, <1>3 DEF SessionInv, PokeKnown

LEMMA InitSession == SessionInit => Init /\ SessionInv
<1> SUFFICES ASSUME SessionInit PROVE SessionInv
  BY DEF SessionInit
<1>1. ring.count = 0 /\ phase = "idle" /\ identity = 0 /\ allocator = 0 /\ poke = FALSE
  BY DEF SessionInit, Init, NoEntries
<1>2. undoEnabled = TRUE /\ floor = 0 /\ pokeOpen = FALSE /\ rows = NoRows /\ out = {}
  BY DEF SessionInit
<1>3. DOMAIN rows = {} /\ \A i \in 0 .. ring.count - 1 : FALSE
  BY <1>1, <1>2 DEF NoRows
<1>4. SessionTypeOK
  <2>1. undoEnabled \in BOOLEAN /\ pokeOpen \in BOOLEAN
    BY <1>2
  <2>2. floor \in 0 .. allocator /\ out \subseteq 0 .. allocator
    BY <1>1, <1>2
  <2> QED  BY <1>3, <2>1, <2>2 DEF SessionTypeOK
<1> QED  BY <1>1, <1>2, <1>3, <1>4 DEF SessionInv, PokeKnown, FloorSound, RowsSound

\* Every step of the session keeps its invariant.
LEMMA NextSession == IInv /\ IInv' /\ SessionInv /\ [SessionNext]_allvars => SessionInv'
<1> SUFFICES ASSUME IInv, IInv', SessionInv, [SessionNext]_allvars PROVE SessionInv'
  OBVIOUS
<1>1. SessionTypeOK /\ PokeKnown /\ FloorSound /\ RowsSound /\ [Next]_vars
  BY SessionSteps DEF SessionInv
<1>2. allocator \in Nat /\ allocator' \in Nat /\ allocator <= allocator'
  BY <1>1, Clocks
<1>3. pokeOpen \in BOOLEAN /\ undoEnabled \in BOOLEAN
  BY <1>1 DEF SessionTypeOK
<1>4. ASSUME UNCHANGED <<undoEnabled, floor, rows, out>>, pokeOpen' \in BOOLEAN, poke' => pokeOpen'
      PROVE  SessionInv'
  BY <1>1, <1>4, HistoryStep DEF SessionInv, PokeKnown
<1>5. CASE Guest
  <2>1. UNCHANGED session
    BY <1>5 DEF Guest
  <2>2. UNCHANGED <<undoEnabled, floor, rows, out>> /\ pokeOpen' = pokeOpen
    BY <2>1 DEF session
  <2>3. UNCHANGED <<poke>> \/ poke' = FALSE
    <3>1. CASE Begin \/ Effect \/ Wait \/ Resume \/ NativeExit
      BY <3>1 DEF Begin, Effect, Wait, Resume, NativeExit
    <3>2. ASSUME NEW a, NEW b, NEW kept, Write(a, b, kept) PROVE UNCHANGED <<poke>>
      BY <3>2 DEF Write
    <3>3. ASSUME NEW d, Journal(d) PROVE UNCHANGED <<poke>>
      BY <3>3 DEF Journal
    <3>4. ASSUME NEW r, Split(r) PROVE UNCHANGED <<poke>>
      BY <3>4 DEF Split
    <3>5. ASSUME NEW r, NEW flow, NEW end, Retire(r, flow, end) PROVE UNCHANGED <<poke>>
      BY <3>5 DEF Retire
    <3>6. ASSUME NEW r, NEW a, NEW b, NEW kills, DeliverSignal(r, a, b, kills)
          PROVE  UNCHANGED <<poke>>
      BY <3>6 DEF DeliverSignal
    <3> QED  BY <1>5, <3>1, <3>2, <3>3, <3>4, <3>5, <3>6 DEF Guest
  <2> QED  BY <1>1, <1>3, <1>4, <2>2, <2>3 DEF PokeKnown
<1>6. CASE Edit
  <2>1. UNCHANGED session
    BY <1>6 DEF Edit
  <2>2. UNCHANGED <<undoEnabled, floor, rows, out>> /\ pokeOpen' = pokeOpen
    BY <2>1 DEF session
  <2>3. UNCHANGED <<poke>>
    <3>1. ASSUME NEW r, NEW v, EditRegister(r, v) PROVE UNCHANGED <<poke>>
      BY <3>1 DEF EditRegister
    <3>2. ASSUME NEW a, NEW b, EditByte(a, b) PROVE UNCHANGED <<poke>>
      BY <3>2 DEF EditByte
    <3> QED  BY <1>6, <3>1, <3>2 DEF Edit
  <2> QED  BY <1>1, <1>3, <1>4, <2>2, <2>3 DEF PokeKnown
<1>7. CASE OpenPoke
  <2>1. UNCHANGED <<undoEnabled, floor, rows, out>> /\ pokeOpen' = TRUE
    BY <1>7 DEF OpenPoke
  <2> QED  BY <1>4, <2>1
<1>8. CASE ClosePoke
  <2>1. UNCHANGED <<undoEnabled, floor, rows, out>> /\ pokeOpen' = FALSE
    BY <1>8 DEF ClosePoke
  <2>2. ~poke'
    <3>1. CASE poke
      BY <1>8, <3>1 DEF ClosePoke, EndPoke
    <3>2. CASE ~poke
      <4>1. UNCHANGED vars
        BY <1>8, <3>2 DEF ClosePoke
      <4> QED  BY <3>2, <4>1 DEF vars
    <3> QED  BY <3>1, <3>2
  <2> QED  BY <1>4, <2>1, <2>2
<1>9. CASE HostUndo
  <2>1. UNCHANGED session /\ poke' = FALSE
    BY <1>9 DEF HostUndo, Undo
  <2>2. UNCHANGED <<undoEnabled, floor, rows, out>> /\ pokeOpen' = pokeOpen
    BY <2>1 DEF session
  <2> QED  BY <1>3, <1>4, <2>1, <2>2
<1>10. ASSUME NEW enabled \in BOOLEAN, SetUndoEnabled(enabled) PROVE SessionInv'
  BY <1>10, UndoTurned
<1>11. ASSUME NEW size \in Capacities, Initialize(size) PROVE SessionInv'
  <2>1. /\ ring' = NoEntries(ring.base) /\ poke' = FALSE /\ phase = "idle"
        /\ UNCHANGED instruction /\ undoEnabled' = TRUE /\ floor' = 0 /\ out' = {}
        /\ pokeOpen' = FALSE /\ rows' = NoRows
    BY <1>11 DEF Initialize, SetCapacity
  <2>2. phase' = "idle" /\ identity' = 0
    BY <1>1, <2>1 DEF instruction, FloorSound
  <2>3. ring'.count = 0 /\ DOMAIN rows' = {}
    BY <2>1 DEF NoEntries, NoRows
  <2>4. SessionTypeOK'
    <3>1. undoEnabled' \in BOOLEAN /\ pokeOpen' \in BOOLEAN
      BY <2>1
    <3>2. floor' \in 0 .. allocator' /\ out' \subseteq 0 .. allocator'
      BY <1>2, <2>1
    <3> QED  BY <2>3, <3>1, <3>2 DEF SessionTypeOK
  <2> QED  BY <1>2, <2>1, <2>2, <2>3, <2>4, EmptySession
<1>12. ASSUME NEW new \in Fresh, NEW restarts \in BOOLEAN, Replace(new, restarts) PROVE SessionInv'
  <2>1. /\ ring' = NoEntries(ring.base) /\ poke' = FALSE /\ phase' = "idle" /\ identity' = 0
        /\ undoEnabled' = undoEnabled /\ floor' = floor /\ out' = out
        /\ pokeOpen' = FALSE /\ (rows' = rows \/ rows' = NoRows) /\ allocator' = allocator
    BY <1>12 DEF Replace, Load
  <2>2. ring'.count = 0 /\ DOMAIN NoRows = {}
    BY <2>1 DEF NoEntries, NoRows
  <2>3. SessionTypeOK'
    BY <1>1, <2>1, <2>2 DEF SessionTypeOK
  <2>4. \A id \in out' : id <= floor'
    BY <1>1, <2>1 DEF FloorSound
  <2> QED  BY <1>2, <2>1, <2>2, <2>3, <2>4, EmptySession
<1>13. ASSUME NEW skip \in 0 .. 1, NEW max, GetUndoHistoryRange(skip, max) PROVE SessionInv'
  BY <1>13, RangeLooked
<1>14. CASE UNCHANGED allvars
  <2>1. UNCHANGED vars /\ UNCHANGED session
    BY <1>14 DEF allvars
  <2>2. UNCHANGED <<undoEnabled, floor, rows, out, pokeOpen, poke>>
    BY <2>1, Zenon DEF vars, session
  <2> QED  BY <1>1, <1>3, <1>4, <2>2 DEF PokeKnown
<1> QED
  BY <1>5, <1>6, <1>7, <1>8, <1>9, <1>10, <1>11, <1>12, <1>13, <1>14 DEF SessionNext
-----------------------------------------------------------------------------
(* The theorems. *)

\* The session does nothing to the history that the history could not do alone, so every
\* theorem about the history holds of it (X86Emulator's and NativeHistory's calls).
THEOREM SessionKeepsHistory == SessionSpec => Spec
<1>1. SessionInit => Init
  BY DEF SessionInit
<1> QED  BY <1>1, SessionSteps, PTL DEF SessionSpec, Spec

\* The session's invariant holds throughout.
THEOREM SessionInvariantHolds == SessionSpec => [](IInv /\ SessionInv)
<1>1. SessionInit => IInv /\ SessionInv
  BY InitSession, InitSound
<1>2. IInv /\ SessionInv /\ [SessionNext]_allvars => (IInv /\ SessionInv)'
  BY SessionSteps, NextSound, NextSession
<1> QED  BY <1>1, <1>2, PTL DEF SessionSpec

\* For rings of any size, and whatever the gaps in the identities they hold, undo reaches
\* exactly the entries that began since it was last turned on (depth, setUndoEnabled).
THEOREM ReachExactHolds == SessionSpec => []ReachExact
<1>1. IInv /\ SessionInv => ReachExact
  BY ReachIs DEF SessionInv
<1> QED  BY <1>1, SessionInvariantHolds, PTL

\* The history never records a Poke that X86Emulator takes to be closed (beginPoke, endPoke).
THEOREM PokeKnownHolds == SessionSpec => []PokeKnown
<1>1. IInv /\ SessionInv => PokeKnown
  BY DEF SessionInv
<1> QED  BY <1>1, SessionInvariantHolds, PTL

\* No decoded row is shown for an entry it no longer tells of, though the test for showing
\* it again is only its packet's length and its undoable flag (range, NativeHistory.cache).
THEOREM RowsFreshHolds == SessionSpec => []RowsFresh
<1>1. IInv /\ SessionInv => RowsFresh
  <2> SUFFICES ASSUME IInv, SessionInv, NEW offset \in 0 .. Depth - 1
               PROVE  RowShown(offset) = Row(offset)
    BY DEF RowsFresh
  <2>1. ring.count \in Nat /\ (undoEnabled => floor \in Nat) /\ IInv /\ RowsSound
    BY IdBound DEF SessionInv, SessionTypeOK
  <2>2. undoEnabled
    <3>1. ~undoEnabled => Depth = 0
      BY DEF Depth
    <3>2. Depth # 0
      OBVIOUS
    <3> QED  BY <3>1, <3>2
  <2>3. Depth \in 0 .. ring.count
    BY <2>1, <2>2, DepthExact
  <2>4. offset \in 0 .. ring.count - 1
    BY <2>1, <2>3
  <2> QED  BY <2>1, <2>4, RowsKept
<1> QED  BY <1>1, SessionInvariantHolds, PTL

\* The d newest entries are the ones above the floor, now and after the next step.
Reaches(d) ==
  /\ ring.count \in Nat /\ undoEnabled /\ d \in 0 .. ring.count
  /\ \A o \in 0 .. ring.count - 1 : EntryAt(ring, o).identity > floor <=> o < d
LEMMA DepthNow == \A d : Reaches(d) => Depth = d
BY DepthIs DEF Reaches
LEMMA DepthNext == \A d : Reaches(d)' => Depth' = d
<1>1. (\A d : Reaches(d) => Depth = d)'
  BY DepthNow, PTL
<1> QED  BY <1>1

\* A step that undoes is undo(), of an entry in reach; and every entry but it keeps its place.
LEMMA SessionUndone ==
  ASSUME IInv, SessionInv, [SessionNext]_allvars, Undone
  PROVE  /\ CanReachNewest /\ CanUndo /\ phase = "idle" /\ phase' = "idle"
         /\ undoEnabled' = undoEnabled /\ floor' = floor
         /\ ring'.count = ring.count - 1
         /\ \A o \in 0 .. ring.count - 2 : EntryAt(ring', o) = EntryAt(ring, o + 1)
<1>1. HostUndo
  BY SessionSteps, NothingElseUndoes
<1>2. /\ CanReachNewest /\ CanUndo /\ phase = "idle" /\ ring' = WithoutNewest(ring)
      /\ UNCHANGED instruction /\ UNCHANGED session
  BY <1>1 DEF HostUndo, Undo
<1>3. phase' = phase /\ undoEnabled' = undoEnabled /\ floor' = floor
  BY <1>2 DEF instruction, session
<1>4. /\ TypeOK /\ Sound(ring, past, capacity, allocator) /\ capacity \in Nat
      /\ IsRing(ring) /\ Shaped(ring, capacity)
  BY HistoryAssumption DEF IInv, TypeOK, Sound
<1>5. ring.count \in Nat /\ ring.count > 0 /\ ring.hollow < ring.count
  BY <1>2, <1>4, UndoTyped
<1>6. /\ ring'.count = ring.count - 1
      /\ \A i \in 0 .. ring.count - 2 : Oldest(ring', i) = Oldest(ring, i)
  BY <1>2, <1>4, <1>5, WithoutNewestProperties
<1>7. ASSUME NEW o \in 0 .. ring.count - 2 PROVE EntryAt(ring', o) = EntryAt(ring, o + 1)
  <2>1. PICK i \in 0 .. ring.count - 2 : i = ring.count - 2 - o
    BY <1>5
  <2>2. ring'.count - 1 - o = i /\ ring.count - 1 - (o + 1) = i
    BY <1>5, <1>6, <2>1
  <2> QED  BY <1>6, <2>1, <2>2 DEF EntryAt
<1> QED  BY <1>2, <1>3, <1>6, <1>7

\* A preflight is a promise: the undo it allows is there to take, and leaves one fewer; and
\* nothing that was put out of reach is ever undone (canUndoRange, undo).
THEOREM PreflightKeptHolds == SessionSpec => PreflightKept
<1> DEFINE Kept2(n) == phase = "idle" /\ CanUndoSteps(n) =>
                         /\ CanReachNewest /\ CanUndo
                         /\ Undone => CanUndoSteps(n - 1)'
           Promise == /\ Undone => undoEnabled /\ EntryAt(ring, 0).identity \notin out
                      /\ \A n \in 1 .. ring.count : Kept2(n)
<1>1. IInv /\ IInv' /\ SessionInv /\ SessionInv' /\ [SessionNext]_allvars => Promise
  <2> SUFFICES ASSUME IInv, IInv', SessionInv, SessionInv', [SessionNext]_allvars PROVE Promise
    OBVIOUS
  <2>1. /\ ring.count \in Nat /\ ring'.count \in Nat /\ floor \in Nat /\ floor' \in Nat
        /\ SessionTypeOK /\ FloorSound
    <3>1. ring.count \in Nat /\ ring'.count \in Nat /\ allocator \in Nat /\ allocator' \in Nat
      BY DEF IInv, TypeOK, IsRing
    <3>2. floor \in 0 .. allocator /\ floor' \in 0 .. allocator' /\ SessionTypeOK /\ FloorSound
      BY DEF SessionInv, SessionTypeOK
    <3> QED  BY <3>1, <3>2
  <2>2. Undone => undoEnabled /\ EntryAt(ring, 0).identity \notin out
    <3> SUFFICES ASSUME Undone PROVE undoEnabled /\ EntryAt(ring, 0).identity \notin out
      OBVIOUS
    <3>1. undoEnabled /\ EntryAt(ring, 0).identity > floor
      BY SessionUndone DEF CanReachNewest
    <3>2. EntryAt(ring, 0).identity \in Nat
      <4>1. ring.count > 0 /\ ring.count - 1 - 0 \in 0 .. ring.count - 1
        BY <2>1, SessionUndone DEF CanReachNewest
      <4> QED  BY <4>1, IdBound DEF EntryAt, Id
    <3>3. \A id \in out : id <= floor /\ id \in Nat
      BY <2>1 DEF FloorSound, SessionTypeOK
    <3> QED  BY <2>1, <3>1, <3>2, <3>3
  <2>3. ASSUME NEW n \in 1 .. ring.count, phase = "idle", CanUndoSteps(n)
        PROVE  /\ CanReachNewest /\ CanUndo
               /\ Undone => CanUndoSteps(n - 1)'
    <3>1. /\ n <= Depth - 0
          /\ \A o \in 0 .. 0 + n - 1 : EntryAt(ring, o).reversible /\ ~EntryAt(ring, o).hollow
      BY <2>3 DEF CanUndoSteps, CanUndoRange
    <3>2. undoEnabled
      <4>1. ~undoEnabled => Depth = 0
        BY DEF Depth
      <4> QED  BY <3>1, <4>1
    <3>3. PICK d \in 0 .. ring.count :
            /\ Depth = d
            /\ \A o \in 0 .. ring.count - 1 : EntryAt(ring, o).identity > floor <=> o < d
      BY <2>1, <3>2, DepthExact
    <3>4. n <= d /\ 0 \in 0 .. ring.count - 1 /\ 0 < d /\ 0 \in 0 .. 0 + n - 1 /\ ring.count > 0
      BY <2>1, <3>1, <3>3
    <3>5. CanReachNewest
      BY <3>2, <3>3, <3>4 DEF CanReachNewest
    <3>6. CanUndo
      BY <3>1, <3>4 DEF CanUndo
    <3>7. ASSUME Undone PROVE CanUndoSteps(n - 1)'
      <4>1. /\ phase' = "idle" /\ undoEnabled' = undoEnabled /\ floor' = floor
            /\ ring'.count = ring.count - 1
            /\ \A o \in 0 .. ring.count - 2 : EntryAt(ring', o) = EntryAt(ring, o + 1)
        BY <3>7, SessionUndone
      <4>2. \A o \in 0 .. ring.count - 2 : o + 1 \in 0 .. ring.count - 1 /\ (o < d - 1 <=> o + 1 < d)
        BY <2>1
      <4>3. \A o \in 0 .. ring'.count - 1 : EntryAt(ring', o).identity > floor' <=> o < d - 1
        <5>1. ring'.count - 1 = ring.count - 2
          BY <2>1, <4>1
        <5> QED  BY <3>3, <4>1, <4>2, <5>1
      <4>4. d - 1 \in 0 .. ring'.count
        BY <2>1, <3>3, <3>4, <4>1
      <4>5. Depth' = d - 1
        <5>1. Reaches(d - 1)' => Depth' = d - 1
          BY DepthNext
        <5> QED  BY <2>1, <3>2, <4>1, <4>3, <4>4, <5>1 DEF Reaches
      <4>6. n - 1 <= Depth' - 0
        BY <3>3, <3>4, <4>5
      <4>7. \A o \in 0 .. 0 + (n - 1) - 1 : o \in 0 .. ring.count - 2 /\ o + 1 \in 0 .. 0 + n - 1
        BY <2>1, <2>3, <3>3, <3>4
      <4>8. \A o \in 0 .. 0 + (n - 1) - 1 :
              EntryAt(ring', o).reversible /\ ~EntryAt(ring', o).hollow
        BY <3>1, <4>1, <4>7
      <4> QED  BY <4>1, <4>6, <4>8 DEF CanUndoSteps, CanUndoRange
    <3> QED  BY <3>5, <3>6, <3>7
  <2> QED  BY <2>2, <2>3
<1>2. PreflightKept <=> [][Promise]_allvars
  BY DEF PreflightKept
<1> QED  BY <1>1, <1>2, SessionInvariantHolds, PTL DEF SessionSpec
=============================================================================
