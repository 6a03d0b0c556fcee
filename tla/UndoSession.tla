----------------------------- MODULE UndoSession -----------------------------
(***************************************************************************)
(* The undo session JavaScript puts over the history in the wasm: which    *)
(* calls X86Emulator refuses and when (x86-emulator.ts), and what          *)
(* NativeHistory adds (native-history.ts): undo turned off and on, the     *)
(* floor below which nothing is undone, the depth found by bisection, and  *)
(* the decoded rows it keeps between two looks at the history.             *)
(*                                                                         *)
(* Every action of DebugHistory happens here under the guards of the call  *)
(* that leads to it.  `out` is a history variable: the identities of the   *)
(* entries, and of the one under way, that began before undo was last      *)
(* turned back on.                                                         *)
(***************************************************************************)
EXTENDS DebugHistory

VARIABLES
  undoEnabled,  \* whether what the ring holds can be undone
  floor,        \* the newest identity when undo was last turned back on
  pokeOpen,     \* whether X86Emulator takes a Poke to be open
  rows,         \* the decoded rows kept, by identity
  out           \* history variable

session == <<undoEnabled, floor, pokeOpen, rows, out>>
allvars == <<vars, session>>

NoRows == [i \in {} |-> 0]

-----------------------------------------------------------------------------
(* What the host can ask. *)

\* Mutant of Depth: the entry at the floor is reached.
DepthWithFloor ==
  LET reach[range \in (0 .. ring.count) \X (0 .. ring.count)] ==
        LET low == range[1]
            high == range[2]
            middle == (low + high) \div 2
        IN IF low >= high THEN low
           ELSE IF EntryAt(ring, middle).identity >= floor THEN reach[<<middle + 1, high>>]
           ELSE reach[<<low, middle>>]
  IN IF undoEnabled THEN reach[<<0, ring.count>>] ELSE 0

\* How many entries undo can reach: where the ones above the floor end, by
\* bisection from the newest on.
Depth ==
  LET reach[range \in (0 .. ring.count) \X (0 .. ring.count)] ==
        LET low == range[1]
            high == range[2]
            middle == (low + high) \div 2
        IN IF low >= high THEN low
           ELSE IF EntryAt(ring, middle).identity > floor THEN reach[<<middle + 1, high>>]
           ELSE reach[<<low, middle>>]
  IN IF undoEnabled THEN reach[<<0, ring.count>>] ELSE 0

CanReachNewest == undoEnabled /\ ring.count > 0 /\ EntryAt(ring, 0).identity > floor

\* Mutant of CanUndoRange: the oldest entry of the range is not looked at.
CanUndoRangeButOldest(skip, count) ==
  \/ count = 0
  \/ /\ count <= Depth - skip
     /\ \A offset \in skip .. skip + count - 2 :
          EntryAt(ring, offset).reversible /\ ~EntryAt(ring, offset).hollow

CanUndoRange(skip, count) ==
  \/ count = 0
  \/ /\ count <= Depth - skip
     /\ \A offset \in skip .. skip + count - 1 :
          EntryAt(ring, offset).reversible /\ ~EntryAt(ring, offset).hollow

CanUndoSteps(count) == phase # "waiting" /\ CanUndoRange(0, count)

\* The row decoded from the entry `offset` back from the newest, and the length
\* of its packet: a hollow entry lists no change.
Mutated(offset) ==
  LET e == EntryAt(ring, offset)
      b == Before(ring, ring.count - 1 - offset)
  IN IF e.hollow THEN {} ELSE {<<r, b[r], e.after[r]>> : r \in {r \in RegNames : b[r] # e.after[r]}}
Row(offset) ==
  LET e == EntryAt(ring, offset)
  IN [registers |-> Mutated(offset), writes |-> IF e.hollow THEN <<>> ELSE e.writes,
      undoable |-> e.reversible /\ ~e.hollow]
PacketBytes(offset) ==
  LET e == EntryAt(ring, offset)
  IN Cardinality(Mutated(offset)) + (IF e.hollow THEN 0 ELSE Len(e.writes) + Len(e.journal))

\* Mutant of Kept: a hollowed entry's row is taken for the one it had.
KeptWhateverLength(offset) ==
  LET id == EntryAt(ring, offset).identity
  IN id \in DOMAIN rows /\ rows[id].row.undoable = Row(offset).undoable

\* A row decoded before is shown again while its packet's length and its
\* undoable flag are what they were.
Kept(offset) ==
  LET id == EntryAt(ring, offset).identity
  IN id \in DOMAIN rows /\ rows[id].length = PacketBytes(offset)
     /\ rows[id].row.undoable = Row(offset).undoable
RowShown(offset) == IF Kept(offset) THEN rows[EntryAt(ring, offset).identity].row ELSE Row(offset)

-----------------------------------------------------------------------------
SessionInit ==
  /\ Init
  /\ undoEnabled = TRUE /\ floor = 0
  /\ pokeOpen = FALSE /\ rows = NoRows /\ out = {}

\* An instruction, or something the world does, of which JavaScript keeps nothing.
Guest ==
  /\ \/ ~pokeOpen /\ Begin
     \/ Effect \/ Wait \/ Resume \/ NativeExit
     \/ \E a \in Addrs, b \in Bytes, kept \in BOOLEAN : Write(a, b, kept)
     \/ \E d \in Devices : Journal(d)
     \/ \E r \in Registers :
          \/ Split(r)
          \/ \E flow \in Flows, end \in Ends : Retire(r, flow, end)
          \/ \E a \in Addrs, b \in Bytes, kills \in BOOLEAN : DeliverSignal(r, a, b, kills)
  /\ UNCHANGED session

Edit ==
  /\ \/ \E r \in RegNames, v \in RegValues : EditRegister(r, v)
     \/ \E a \in Addrs, b \in Bytes : EditByte(a, b)
  /\ UNCHANGED session

OpenPoke ==
  /\ ~pokeOpen /\ BeginPoke
  /\ pokeOpen' = TRUE
  /\ UNCHANGED <<undoEnabled, floor, rows, out>>

\* Mutant of ClosePoke: one that wrote no byte is not closed in the history.
ClosePokeUnwritten ==
  /\ pokeOpen /\ pokeOpen' = FALSE
  /\ IF poke /\ poke_bytes # <<>> THEN EndPoke ELSE UNCHANGED vars
  /\ UNCHANGED <<undoEnabled, floor, rows, out>>

\* Ending a Poke the history no longer has throws, and closes it here.
ClosePoke ==
  /\ pokeOpen /\ pokeOpen' = FALSE
  /\ IF poke THEN EndPoke ELSE UNCHANGED vars
  /\ UNCHANGED <<undoEnabled, floor, rows, out>>

\* undo() looks at the wait alone, not at an open Poke.
HostUndo ==
  /\ CanReachNewest /\ Undo
  /\ UNCHANGED session

SetUndoEnabled(enabled) ==
  /\ enabled # undoEnabled /\ ~pokeOpen /\ phase = "idle"
  /\ undoEnabled' = enabled
  /\ floor' = IF enabled /\ ring.count > 0 THEN EntryAt(ring, 0).identity ELSE floor
  /\ out' = IF enabled
            THEN {Oldest(ring, i).identity : i \in 0 .. ring.count - 1} \cup
                 (IF identity # 0 THEN {identity} ELSE {}) \cup
                 (IF poke THEN {allocator + 1} ELSE {})
            ELSE out
  /\ UNCHANGED <<vars, pokeOpen, rows>>

Initialize(size) ==
  /\ SetCapacity(size)
  /\ undoEnabled' = TRUE /\ floor' = 0 /\ out' = {}
  /\ pokeOpen' = FALSE /\ rows' = NoRows

\* A build or a load throws the rows and an open Poke away; a run that starts
\* an ended program over keeps the rows.
Replace(new, restarts) ==
  /\ restarts => machine.exited /\ phase = "idle" /\ ~pokeOpen
  /\ Load(new)
  /\ pokeOpen' = FALSE
  /\ rows' = IF restarts THEN rows ELSE NoRows
  /\ UNCHANGED <<undoEnabled, floor, out>>

\* Only the rows shown are kept.
GetUndoHistoryRange(skip, max) ==
  LET shown == {offset \in skip .. ring.count - 1 : offset < skip + max /\ offset < Depth}
  IN /\ rows' = [id \in {EntryAt(ring, offset).identity : offset \in shown} |->
                   LET offset == CHOOSE o \in shown : EntryAt(ring, o).identity = id
                   IN [length |-> PacketBytes(offset), row |-> RowShown(offset)]]
     /\ UNCHANGED <<vars, undoEnabled, floor, pokeOpen, out>>

SessionNext ==
  \/ Guest \/ Edit \/ OpenPoke \/ ClosePoke \/ HostUndo
  \/ \E enabled \in BOOLEAN : SetUndoEnabled(enabled)
  \/ \E size \in Capacities : Initialize(size)
  \/ \E new \in Fresh, restarts \in BOOLEAN : Replace(new, restarts)
  \/ \E skip \in 0 .. 1, max \in 1 .. 2 : GetUndoHistoryRange(skip, max)

SessionSpec == SessionInit /\ [][SessionNext]_allvars

-----------------------------------------------------------------------------
(* Properties *)

\* The floor, the rows and what is out of reach name identities that were handed out.
SessionTypeOK ==
  /\ undoEnabled \in BOOLEAN /\ pokeOpen \in BOOLEAN
  /\ floor \in 0 .. allocator /\ out \subseteq 0 .. allocator
  /\ \A id \in DOMAIN rows : id \in 1 .. allocator

\* Undo reaches exactly the entries that began since it was last turned on, although the
\* identities the ring holds have gaps and the floor may be of an entry long gone (depth,
\* setUndoEnabled).
ReachExact ==
  /\ SessionTypeOK
  /\ Depth = IF ~undoEnabled THEN 0
             ELSE Cardinality({i \in 0 .. ring.count - 1 : Oldest(ring, i).identity \notin out})

\* canUndoSteps(n) is a promise: the undo is there to take, and after it n - 1 are left
\* (canUndoRange, undo); and what ran while undo was off, or began before it was turned
\* back on, is never undone.
PreflightKept ==
  [][/\ Undone => undoEnabled /\ EntryAt(ring, 0).identity \notin out
     /\ \A n \in 1 .. ring.count :
          phase = "idle" /\ CanUndoSteps(n) =>
            /\ CanReachNewest /\ CanUndo
            /\ Undone => CanUndoSteps(n - 1)']_allvars

\* A row kept from an earlier look shows what decoding its entry anew would: hollowing and
\* barriers change an entry under the same serial (range, NativeHistory.cache).
RowsFresh == \A offset \in 0 .. Depth - 1 : RowShown(offset) = Row(offset)

\* The history never records a Poke that X86Emulator does not take to be open: steps refuse
\* by pokeOpen alone, and one that ran inside a Poke would record nothing (beginPoke, endPoke).
PokeKnown == poke => pokeOpen
=============================================================================
