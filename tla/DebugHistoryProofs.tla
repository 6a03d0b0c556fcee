------------------------- MODULE DebugHistoryProofs -------------------------
(***************************************************************************)
(* What DebugHistory guarantees for every size of the ring, budget, set of *)
(* registers, addresses and program: the ring's shape, which entries are   *)
(* hollow, that each entry's start is found though only its end is kept,   *)
(* the bytes kept, and what an undo takes back.                            *)
(*                                                                         *)
(* First the parts of NewEntry() in their order, then the history          *)
(* variables, then the ring with its log (Sound) through a clear, an undo  *)
(* and Finish(), then the inductive invariant IInv, one action after       *)
(* another; then what the ring keeps of its budget of bytes, and undo.     *)
(***************************************************************************)
EXTENDS DebugHistory, TLAPS, WellFoundedInduction, SequenceTheorems, FiniteSetTheorems

\* A set of numbers has a least one: what the CHOOSEs of the model take.
LEMMA Least ==
  ASSUME NEW S \in SUBSET Nat, S # {}
  PROVE  \E n \in S : \A m \in S : n <= m
<1>1. \E n \in S : \A m \in S : ~(<<m, n>> \in OpToRel(<, Nat))
  BY NatLessThanWellFounded, WFMin, Zenon
<1>2. PICK n \in S : \A m \in S : ~(<<m, n>> \in OpToRel(<, Nat))
  BY <1>1
<1>3. \A m \in Nat : m < n => <<m, n>> \in OpToRel(<, Nat)
  BY DEF OpToRel
<1>4. \A m \in S : ~(m < n)
  BY <1>2, <1>3
<1> QED  BY <1>4

\* Distinct places of the ring are distinct slots of its array, wherever it starts.
LEMMA SlotProperties ==
  ASSUME NEW R, NEW cap, IsRing(R), Shaped(R, cap)
  PROVE  /\ \A i \in 0 .. R.slots - 1 : Slot(R, i) \in 0 .. R.slots - 1
         /\ \A i, j \in 0 .. R.slots - 1 : Slot(R, i) = Slot(R, j) => i = j
<1>1. R.slots \in Nat /\ R.start \in Nat
  BY DEF IsRing
<1>2. R.start = 0 \/ R.start < R.slots
  BY DEF Shaped
<1> QED  BY <1>1, <1>2 DEF Slot

\* Every entry of the ring is an entry.
LEMMA EntryTyped ==
  ASSUME NEW R, NEW cap, IsRing(R), Shaped(R, cap), NEW i \in 0 .. R.count - 1
  PROVE  Oldest(R, i) \in Entries
<1>1. i \in 0 .. R.slots - 1  BY DEF IsRing, Shaped
<1>2. Slot(R, i) \in 0 .. R.slots - 1  BY <1>1, SlotProperties
<1> QED  BY <1>2 DEF IsRing, Oldest

\* The order in which NewEntry() goes: the ring grows, drops, hollows, and takes the entry.
LEMMA GrowProperties ==
  ASSUME NEW R, NEW cap \in Nat, IsRing(R), Shaped(R, cap), NEW G, G = Grow(R, cap)
  PROVE  /\ IsRing(G) /\ Shaped(G, cap)
         /\ G.count = R.count /\ G.hollow = R.hollow /\ G.base = R.base
         /\ \A i \in 0 .. R.count - 1 : Oldest(G, i) = Oldest(R, i)
         /\ G.count < cap => G.count < G.slots
         /\ HollowFirst(R) => HollowFirst(G)
<1> USE DEF IsRing, Shaped
<1>1. CASE ~(R.count = R.slots /\ R.slots < cap)
  <2>1. G = R
    BY <1>1 DEF Grow
  <2>2. R.count # R.slots \/ R.slots = cap
    BY <1>1
  <2> QED  BY <2>1, <2>2
<1>2. CASE R.count = R.slots /\ R.slots < cap
  <2> DEFINE size == IF R.slots = 0 THEN (IF cap < FirstSlots THEN cap ELSE FirstSlots)
                     ELSE IF R.slots > cap \div 2 THEN cap ELSE R.slots * 2
             moved == [i \in 0 .. size - 1 |-> IF i < R.count THEN Oldest(R, i) ELSE Vacant]
  <2>1. G = [R EXCEPT !.slots = size, !.start = 0, !.entries = moved]
    BY <1>2 DEF Grow
  <2>2. size \in Nat /\ size <= cap /\ R.slots < size
    <3>1. FirstSlots \in Nat \ {0}
      BY HistoryAssumption
    <3>2. cap \div 2 \in Nat /\ 2 * (cap \div 2) <= cap
      OBVIOUS
    <3>3. CASE R.slots = 0
      BY <3>1, <3>3, <1>2
    <3>4. CASE R.slots # 0 /\ R.slots > cap \div 2
      BY <3>4, <1>2
    <3>5. CASE R.slots # 0 /\ ~(R.slots > cap \div 2)
      BY <3>5, <3>2, <1>2
    <3> QED  BY <3>3, <3>4, <3>5
  <2>3. R.start = 0
    BY <1>2
  <2>4. \A i \in 0 .. R.count - 1 : Oldest(R, i) = R.entries[i]
    BY <2>3, <1>2 DEF Oldest, Slot
  <2>5. Vacant \in Entries
    BY DEF Vacant, Entries, Writes
  <2>6. moved \in [0 .. size - 1 -> Entries]
    BY <2>2, <2>4, <2>5, <1>2
  <2> HIDE DEF size, moved
  <2>7. /\ G.slots = size /\ G.start = 0 /\ G.entries = moved
        /\ G.count = R.count /\ G.hollow = R.hollow /\ G.base = R.base
        /\ G = [entries |-> G.entries, slots |-> G.slots, start |-> G.start, count |-> G.count,
                hollow |-> G.hollow, base |-> G.base]
    BY <2>1
  <2>8. IsRing(G) /\ Shaped(G, cap)
    BY <2>7, <2>2, <2>6, <1>2
  <2>9. \A i \in 0 .. R.count - 1 : Oldest(G, i) = moved[i]
    BY <2>7, <2>2, <1>2 DEF Oldest, Slot
  <2>10. \A i \in 0 .. R.count - 1 : moved[i] = Oldest(R, i)
    BY <2>2, <1>2 DEF moved
  <2>11. HollowFirst(R) => HollowFirst(G)
    BY <2>7, <2>9, <2>10 DEF HollowFirst
  <2> QED  BY <2>7, <2>8, <2>9, <2>10, <2>11, <2>2, <1>2
<1> QED  BY <1>1, <1>2

\* What no entry loses while it is in the ring, hollow or not.
Same(e, f) == e.after = f.after /\ e.before = f.before /\ e.identity = f.identity

\* What an entry f keeps of the entry e it was: what is shown of it, unless it was hollowed,
\* and all an undo needs, or its place as a barrier.
Keeps(f, e) ==
  /\ f.identity = e.identity /\ f.after = e.after
  /\ ~f.hollow => ~e.hollow /\ f.writes = e.writes /\ f.journal = e.journal
  /\ f.reversible =>
       /\ e.reversible /\ f.writes = e.writes /\ f.journal = e.journal
       /\ f.stack_before = e.stack_before /\ f.instructions_before = e.instructions_before
       /\ f.exited = e.exited

\* The registers every entry ended with are kept, hollow or not.
Owned(R) == \A i \in 0 .. R.count - 1 : Oldest(R, i).after \in Registers

\* A full ring gives up its oldest entry; the others move one place, and the base is where
\* the dropped one left the registers.
LEMMA DropProperties ==
  ASSUME NEW R, NEW cap \in Nat, IsRing(R), Shaped(R, cap), Owned(R), R.count = cap, cap > 0,
         NEW D, D = DropOldest(R, cap)
  PROVE  /\ IsRing(D) /\ Shaped(D, cap)
         /\ D.count = R.count - 1 /\ D.base = Oldest(R, 0).after
         /\ \A i \in 0 .. D.count - 1 : Oldest(D, i) = Oldest(R, i + 1)
         /\ D.count < D.slots
         /\ HollowFirst(R) => HollowFirst(D)
<1> DEFINE first == Slot(R, 1)
           hollow == IF R.hollow > 0 THEN R.hollow - 1 ELSE 0
<1>1. D = [R EXCEPT !.start = first, !.count = @ - 1, !.base = Oldest(R, 0).after,
             !.hollow = hollow]
  BY DEF DropOldest
<1>2. R.slots = cap /\ R.start < R.slots
  BY DEF IsRing, Shaped
<1>3. first = (IF R.start + 1 < R.slots THEN R.start + 1 ELSE 0)
  BY <1>2 DEF IsRing, Shaped, Slot
<1>4. hollow \in Nat /\ hollow <= R.count - 1
  BY DEF IsRing, Shaped
<1>5. Oldest(R, 0).after \in Registers
  BY DEF Owned, IsRing
<1> HIDE DEF first, hollow
<1>6. /\ D.slots = R.slots /\ D.start = first /\ D.entries = R.entries
      /\ D.count = R.count - 1 /\ D.hollow = hollow /\ D.base = Oldest(R, 0).after
      /\ D = [entries |-> D.entries, slots |-> D.slots, start |-> D.start, count |-> D.count,
              hollow |-> D.hollow, base |-> D.base]
  BY <1>1 DEF IsRing
<1>7. IsRing(D) /\ Shaped(D, cap)
  BY <1>2, <1>3, <1>4, <1>5, <1>6 DEF IsRing, Shaped
<1>8. ASSUME NEW i \in 0 .. D.count - 1 PROVE Slot(D, i) = Slot(R, i + 1)
  <2>1. /\ R.start \in Nat /\ R.slots \in Nat /\ R.start < R.slots
        /\ D.start = first /\ D.slots = R.slots
    BY <1>2, <1>6 DEF IsRing
  <2>2. i \in Nat /\ i + 1 < R.slots
    BY <1>2, <1>6 DEF IsRing
  <2>3. CASE R.start + 1 < R.slots
    BY <1>3, <2>1, <2>2, <2>3 DEF Slot
  <2>4. CASE ~(R.start + 1 < R.slots)
    BY <1>3, <2>1, <2>2, <2>4 DEF Slot
  <2> QED  BY <2>3, <2>4
<1>9. \A i \in 0 .. D.count - 1 : Oldest(D, i) = Oldest(R, i + 1)
  BY <1>6, <1>8 DEF Oldest
<1>10. HollowFirst(R) => HollowFirst(D)
  BY <1>4, <1>6, <1>9 DEF HollowFirst, IsRing, hollow
<1> QED  BY <1>2, <1>6, <1>7, <1>9, <1>10 DEF IsRing

\* A hollowed entry keeps its registers and identity, holds nothing, and cannot be undone.
LEMMA HollowTyped ==
  ASSUME NEW e \in Entries
  PROVE  /\ Hollow(e) \in Entries /\ Same(Hollow(e), e) /\ Keeps(Hollow(e), e)
         /\ Hollow(e).hollow /\ ~Hollow(e).reversible /\ Hollow(e).allocated = 0
<1>1. <<>> \in Writes /\ <<>> \in Seq(Devices) /\ <<>> \in Seq(RegValues)
  BY DEF Writes
<1> HIDE DEF Writes
<1> QED  BY <1>1 DEF Hollow, Entries, Same, Keeps

\* HollowOldest() moves no entry, and keeps the hollow ones the oldest.
LEMMA HollowProperties ==
  ASSUME NEW R, NEW cap \in Nat, IsRing(R), Shaped(R, cap), NEW n \in R.hollow .. R.count,
         NEW H, H = HollowTo(R, n)
  PROVE  /\ IsRing(H) /\ Shaped(H, cap)
         /\ H.count = R.count /\ H.base = R.base /\ H.slots = R.slots /\ H.start = R.start
         /\ \A i \in 0 .. R.count - 1 :
              Same(Oldest(H, i), Oldest(R, i)) /\ Keeps(Oldest(H, i), Oldest(R, i))
         /\ HollowFirst(R) => HollowFirst(H)
<1> DEFINE Cut(s) == \E i \in R.hollow .. n - 1 : s = Slot(R, i)
           cut == [s \in 0 .. R.slots - 1 |-> IF Cut(s) THEN Hollow(R.entries[s]) ELSE R.entries[s]]
<1>1. H = [R EXCEPT !.hollow = n, !.entries = cut]
  BY DEF HollowTo
<1>2. n \in Nat /\ n <= R.count
  BY DEF IsRing
<1> HIDE DEF Cut
<1>3. \A s \in 0 .. R.slots - 1 :
        /\ cut[s] \in Entries /\ Same(cut[s], R.entries[s]) /\ Keeps(cut[s], R.entries[s])
        /\ cut[s] = IF Cut(s) THEN Hollow(R.entries[s]) ELSE R.entries[s]
  BY HollowTyped DEF IsRing, Same, Keeps
<1>4. cut \in [0 .. R.slots - 1 -> Entries]
  BY <1>3
<1> HIDE DEF cut
<1>5. /\ H.slots = R.slots /\ H.start = R.start /\ H.entries = cut
      /\ H.count = R.count /\ H.hollow = n /\ H.base = R.base
      /\ H = [entries |-> H.entries, slots |-> H.slots, start |-> H.start, count |-> H.count,
              hollow |-> H.hollow, base |-> H.base]
  BY <1>1 DEF IsRing
<1>6. IsRing(H) /\ Shaped(H, cap)
  BY <1>2, <1>4, <1>5 DEF IsRing, Shaped
<1>7. \A i \in 0 .. R.count - 1 : Slot(H, i) = Slot(R, i) /\ Slot(R, i) \in 0 .. R.slots - 1
  BY <1>5, SlotProperties DEF Slot, IsRing, Shaped
<1>8. \A i \in 0 .. R.count - 1 : Oldest(H, i) = cut[Slot(R, i)]
  BY <1>5, <1>7 DEF Oldest
<1>9. \A i \in 0 .. R.count - 1 :
        Same(Oldest(H, i), Oldest(R, i)) /\ Keeps(Oldest(H, i), Oldest(R, i))
  BY <1>3, <1>7, <1>8 DEF Oldest
<1>10. \A i \in 0 .. R.count - 1 : Cut(Slot(R, i)) <=> R.hollow <= i /\ i < n
  <2> SUFFICES ASSUME NEW i \in 0 .. R.count - 1
               PROVE  Cut(Slot(R, i)) <=> R.hollow <= i /\ i < n
    OBVIOUS
  <2>1. /\ R.count \in Nat /\ R.slots \in Nat /\ R.hollow \in Nat /\ R.count <= R.slots
        /\ i \in 0 .. R.slots - 1
    BY DEF IsRing, Shaped
  <2>2. R.hollow <= i /\ i < n => i \in R.hollow .. n - 1
    BY <1>2, <2>1
  <2>3. ASSUME NEW j \in R.hollow .. n - 1, Slot(R, i) = Slot(R, j) PROVE R.hollow <= i /\ i < n
    <3>1. j \in 0 .. R.slots - 1
      BY <1>2, <2>1
    <3>2. i = j
      BY <2>1, <2>3, <3>1, SlotProperties
    <3> QED  BY <1>2, <2>1, <3>2
  <2> QED  BY <2>2, <2>3 DEF Cut
<1>11. \A i \in 0 .. R.count - 1 :
         Oldest(H, i) = IF R.hollow <= i /\ i < n THEN Hollow(Oldest(R, i)) ELSE Oldest(R, i)
  BY <1>3, <1>7, <1>8, <1>10 DEF Oldest
<1>12. ASSUME HollowFirst(R), NEW i \in 0 .. R.count - 1
       PROVE  /\ Oldest(H, i).hollow <=> i < n
              /\ Oldest(H, i).hollow => ~Oldest(H, i).reversible /\ Oldest(H, i).allocated = 0
  <2>1. Oldest(R, i) \in Entries
    BY EntryTyped
  <2>2. CASE R.hollow <= i /\ i < n
    BY <2>1, <2>2, <1>11, HollowTyped
  <2>3. CASE ~(R.hollow <= i /\ i < n)
    BY <2>3, <1>2, <1>11, <1>12 DEF HollowFirst, IsRing
  <2> QED  BY <2>2, <2>3
<1>13. HollowFirst(R) => HollowFirst(H)
  BY <1>5, <1>12 DEF HollowFirst
<1> QED  BY <1>5, <1>6, <1>9, <1>13

\* The hollowing stops somewhere between where it stood and the newest entry.
LEMMA HollowUntilFitsProperties ==
  ASSUME NEW R, NEW cap \in Nat, IsRing(R), Shaped(R, cap), NEW h, NEW cost
  PROVE  HollowUntilFits(R, h, cost) \in R.hollow .. R.count
<1> DEFINE Fits(n) == n = R.count \/ h - Freed(R, n) + cost <= Budget
           S == {n \in R.hollow .. R.count : Fits(n)}
<1>1. R.count \in S /\ S \subseteq Nat
  BY DEF IsRing, Shaped
<1> HIDE DEF Fits
<1>2. PICK n \in S : \A m \in S : n <= m
  BY <1>1, Least
<1>3. n \in R.hollow .. R.count /\ Fits(n) /\ \A k \in R.hollow .. n - 1 : ~Fits(k)
  BY <1>1, <1>2 DEF IsRing, Shaped
<1>4. HollowUntilFits(R, h, cost) =
        CHOOSE m \in R.hollow .. R.count : Fits(m) /\ \A k \in R.hollow .. m - 1 : ~Fits(k)
  BY DEF HollowUntilFits, Fits
<1> QED  BY <1>3, <1>4

\* The new entry goes after the newest, into a slot no entry has.
LEMMA NewestProperties ==
  ASSUME NEW R, NEW cap \in Nat, IsRing(R), Shaped(R, cap), R.count < R.slots,
         NEW e \in Entries, NEW W, W = WithNewest(R, e)
  PROVE  /\ IsRing(W) /\ Shaped(W, cap)
         /\ W.count = R.count + 1 /\ W.base = R.base
         /\ Oldest(W, R.count) = e
         /\ \A i \in 0 .. R.count - 1 : Oldest(W, i) = Oldest(R, i)
         /\ HollowFirst(R) /\ ~e.hollow => HollowFirst(W)
<1> DEFINE top == Slot(R, R.count)
           entries == [R.entries EXCEPT ![top] = e]
<1>1. W = [R EXCEPT !.count = @ + 1, !.entries = entries]
  BY DEF WithNewest, IsRing
<1>2. top \in 0 .. R.slots - 1 /\ \A i \in 0 .. R.count - 1 : Slot(R, i) # top
  BY SlotProperties DEF IsRing
<1>3. entries \in [0 .. R.slots - 1 -> Entries] /\ entries[top] = e
  BY <1>2 DEF IsRing
<1>4. \A i \in 0 .. R.count - 1 : Slot(R, i) \in 0 .. R.slots - 1
  BY SlotProperties DEF IsRing, Shaped
<1>5. \A i \in 0 .. R.count - 1 : entries[Slot(R, i)] = R.entries[Slot(R, i)]
  BY <1>2, <1>4 DEF IsRing
<1> HIDE DEF entries, top
<1>6. /\ W.slots = R.slots /\ W.start = R.start /\ W.entries = entries
      /\ W.count = R.count + 1 /\ W.hollow = R.hollow /\ W.base = R.base
      /\ W = [entries |-> W.entries, slots |-> W.slots, start |-> W.start, count |-> W.count,
              hollow |-> W.hollow, base |-> W.base]
  BY <1>1 DEF IsRing
<1>7. IsRing(W) /\ Shaped(W, cap)
  BY <1>3, <1>6 DEF IsRing, Shaped
<1>8. \A i : Slot(W, i) = Slot(R, i)
  BY <1>6 DEF Slot
<1>9. Oldest(W, R.count) = e /\ \A i \in 0 .. R.count - 1 : Oldest(W, i) = Oldest(R, i)
  BY <1>3, <1>5, <1>6, <1>8 DEF Oldest, top
<1>10. HollowFirst(R) /\ ~e.hollow => HollowFirst(W)
  BY <1>6, <1>9 DEF HollowFirst, IsRing, Shaped
<1> QED  BY <1>6, <1>7, <1>9, <1>10

\* Where NewEntry() leaves every entry, and the base, seen from the oldest on.
LEMMA NewEntryProperties ==
  ASSUME NEW cap \in Nat \ {0}, IsRing(ring), Shaped(ring, cap), Owned(ring),
         NEW e \in Entries, NEW tail \in Nat,
         NEW W, W = NewEntry(cap, e, tail).ring,
         NEW drop, drop = IF ring.count = cap THEN 1 ELSE 0
  PROVE  /\ IsRing(W) /\ Shaped(W, cap)
         /\ W.count = ring.count + 1 - drop
         /\ W.base = IF drop = 1 THEN Oldest(ring, 0).after ELSE ring.base
         /\ Same(Oldest(W, W.count - 1), e) /\ Keeps(Oldest(W, W.count - 1), e)
         /\ \A i \in 0 .. W.count - 2 :
              /\ Same(Oldest(W, i), Oldest(ring, i + drop))
              /\ Keeps(Oldest(W, i), Oldest(ring, i + drop))
         /\ HollowFirst(ring) /\ ~e.hollow => HollowFirst(W)
<1> DEFINE G == Grow(ring, cap)
           D == DropOldest(G, cap)
           h == DroppedHeld(G, cap, held)
           room == Room(tail, D.entries[Slot(D, D.count)].allocated)
           n == HollowUntilFits(D, h, Charge + room)
           H == HollowTo(D, n)
           f == [e EXCEPT !.allocated = room]
<1>1. W = WithNewest(H, f)
  BY DEF NewEntry
<1> HIDE DEF G
<1>2. /\ IsRing(G) /\ Shaped(G, cap)
      /\ G.count = ring.count /\ G.base = ring.base
      /\ \A i \in 0 .. ring.count - 1 : Oldest(G, i) = Oldest(ring, i)
      /\ G.count < cap => G.count < G.slots
      /\ HollowFirst(ring) => HollowFirst(G)
  BY GrowProperties DEF G
<1>3. Owned(G)
  BY <1>2 DEF Owned
<1>4. ring.count \in Nat /\ ring.count <= cap /\ drop \in 0 .. 1
  BY DEF IsRing, Shaped
<1> HIDE DEF D
<1>5. /\ IsRing(D) /\ Shaped(D, cap) /\ D.count = ring.count - drop /\ D.count < D.slots
      /\ D.base = IF drop = 1 THEN Oldest(ring, 0).after ELSE ring.base
      /\ \A i \in 0 .. D.count - 1 : Oldest(D, i) = Oldest(ring, i + drop)
      /\ HollowFirst(ring) => HollowFirst(D)
  <2>1. CASE ring.count = cap
    <3>1. /\ IsRing(D) /\ Shaped(D, cap)
          /\ D.count = G.count - 1 /\ D.base = Oldest(G, 0).after
          /\ \A i \in 0 .. D.count - 1 : Oldest(D, i) = Oldest(G, i + 1)
          /\ D.count < D.slots
          /\ HollowFirst(G) => HollowFirst(D)
      BY <2>1, <1>2, <1>3, DropProperties DEF D
    <3> QED  BY <3>1, <2>1, <1>2, <1>4
  <2>2. CASE ring.count # cap
    <3>1. D = G /\ drop = 0
      BY <2>2, <1>2 DEF D, DropOldest
    <3> QED  BY <3>1, <2>2, <1>2, <1>4
  <2> QED  BY <2>1, <2>2
<1>6. room \in Nat
  <2>1. Slot(D, D.count) \in 0 .. D.slots - 1
    <3>1. D.count \in 0 .. D.slots - 1
      BY <1>5 DEF IsRing
    <3> QED  BY <3>1, <1>5, SlotProperties
  <2>2. D.entries[Slot(D, D.count)].allocated \in Nat
    BY <2>1, <1>5 DEF IsRing, Entries
  <2> QED  BY <2>2 DEF Room
<1> HIDE DEF room
<1>7. f \in Entries /\ Same(f, e) /\ Keeps(f, e) /\ f.hollow = e.hollow
  BY <1>6 DEF Entries, Same, Keeps
<1> HIDE DEF f, n, h
<1>8. n \in D.hollow .. D.count
  BY <1>5, HollowUntilFitsProperties DEF n
<1> HIDE DEF H
<1>9. /\ IsRing(H) /\ Shaped(H, cap)
      /\ H.count = D.count /\ H.base = D.base /\ H.slots = D.slots
      /\ \A i \in 0 .. D.count - 1 :
           Same(Oldest(H, i), Oldest(D, i)) /\ Keeps(Oldest(H, i), Oldest(D, i))
      /\ HollowFirst(D) => HollowFirst(H)
  BY <1>5, <1>8, HollowProperties DEF H
<1>10. /\ IsRing(W) /\ Shaped(W, cap)
       /\ W.count = H.count + 1 /\ W.base = H.base
       /\ Oldest(W, H.count) = f
       /\ \A i \in 0 .. H.count - 1 : Oldest(W, i) = Oldest(H, i)
       /\ HollowFirst(H) /\ ~f.hollow => HollowFirst(W)
  BY <1>1, <1>5, <1>7, <1>9, NewestProperties
<1>11. W.count = ring.count + 1 - drop /\ W.count - 1 = H.count
  BY <1>4, <1>5, <1>9, <1>10
<1>12. \A i \in 0 .. W.count - 2 :
         /\ Same(Oldest(W, i), Oldest(ring, i + drop))
         /\ Keeps(Oldest(W, i), Oldest(ring, i + drop))
  BY <1>4, <1>5, <1>9, <1>10, <1>11
<1> QED  BY <1>5, <1>7, <1>9, <1>10, <1>11, <1>12

\* Finish() gives a moved step's registers to the new entry, or to the base when it is alone.
LEMMA StartedFromProperties ==
  ASSUME NEW R, NEW cap \in Nat, IsRing(R), Shaped(R, cap), R.count > 0,
         NEW registers \in Registers, NEW S, S = StartedFrom(R, registers)
  PROVE  /\ IsRing(S) /\ Shaped(S, cap) /\ S.count = R.count
         /\ S.base = (IF R.count > 1 THEN R.base ELSE registers)
         /\ HollowFirst(R) => HollowFirst(S)
         /\ \A i \in 0 .. R.count - 1 :
              /\ Oldest(S, i).after = Oldest(R, i).after
              /\ Oldest(S, i).identity = Oldest(R, i).identity
              /\ Oldest(S, i).before = IF R.count > 1 /\ i = R.count - 1 THEN registers
                                      ELSE Oldest(R, i).before
              /\ Keeps(Oldest(S, i), Oldest(R, i))
<1>1. CASE R.count > 1
  <2> DEFINE top == Slot(R, R.count - 1)
             entries == [R.entries EXCEPT ![top].before = registers]
  <2>1. S = [R EXCEPT !.entries = entries]
    BY <1>1 DEF StartedFrom, IsRing
  <2>2. \A i \in 0 .. R.count - 1 :
          Slot(R, i) \in 0 .. R.slots - 1 /\ (Slot(R, i) = top <=> i = R.count - 1)
    BY SlotProperties DEF IsRing, Shaped
  <2>3. top \in 0 .. R.slots - 1
    BY <2>2, <1>1 DEF IsRing
  <2> HIDE DEF top
  <2>4. R.entries[top] \in Entries
    BY <2>3 DEF IsRing
  <2>5. [R.entries[top] EXCEPT !.before = registers] \in Entries
    BY <2>4 DEF Entries
  <2>6. entries \in [0 .. R.slots - 1 -> Entries]
    BY <2>3, <2>5 DEF IsRing
  <2>7. \A s \in 0 .. R.slots - 1 :
          /\ entries[s].after = R.entries[s].after
          /\ entries[s].identity = R.entries[s].identity
          /\ entries[s].hollow = R.entries[s].hollow
          /\ entries[s].reversible = R.entries[s].reversible
          /\ entries[s].allocated = R.entries[s].allocated
          /\ entries[s].before = IF s = top THEN registers ELSE R.entries[s].before
          /\ Keeps(entries[s], R.entries[s])
    BY <2>3, <2>4 DEF IsRing, Entries, Keeps
  <2> HIDE DEF entries
  <2>8. /\ S.slots = R.slots /\ S.start = R.start /\ S.entries = entries
        /\ S.count = R.count /\ S.hollow = R.hollow /\ S.base = R.base
        /\ S = [entries |-> S.entries, slots |-> S.slots, start |-> S.start, count |-> S.count,
                hollow |-> S.hollow, base |-> S.base]
    BY <2>1 DEF IsRing
  <2>9. IsRing(S) /\ Shaped(S, cap)
    BY <2>6, <2>8 DEF IsRing, Shaped
  <2>10. \A i : Slot(S, i) = Slot(R, i)
    BY <2>8 DEF Slot
  <2>11. \A i \in 0 .. R.count - 1 :
           Oldest(S, i) = entries[Slot(R, i)] /\ Oldest(R, i) = R.entries[Slot(R, i)]
    BY <2>8, <2>10 DEF Oldest
  <2>12. HollowFirst(R) => HollowFirst(S)
    BY <2>2, <2>7, <2>8, <2>11 DEF HollowFirst
  <2> QED  BY <1>1, <2>2, <2>7, <2>8, <2>9, <2>11, <2>12
<1>2. CASE ~(R.count > 1)
  <2>1. S = [R EXCEPT !.base = registers]
    BY <1>2 DEF StartedFrom
  <2>2. /\ S.slots = R.slots /\ S.start = R.start /\ S.entries = R.entries
        /\ S.count = R.count /\ S.hollow = R.hollow /\ S.base = registers
        /\ S = [entries |-> S.entries, slots |-> S.slots, start |-> S.start, count |-> S.count,
                hollow |-> S.hollow, base |-> S.base]
    BY <2>1 DEF IsRing
  <2>3. IsRing(S) /\ Shaped(S, cap)
    BY <2>2 DEF IsRing, Shaped
  <2>4. \A i : Slot(S, i) = Slot(R, i)
    BY <2>2 DEF Slot
  <2>5. \A i : Oldest(S, i) = Oldest(R, i)
    BY <2>2, <2>4 DEF Oldest
  <2> QED  BY <1>2, <2>2, <2>3, <2>5 DEF HollowFirst, Keeps
<1> QED  BY <1>1, <1>2

\* An undo takes the newest entry off and leaves the others where they are.
LEMMA WithoutNewestProperties ==
  ASSUME NEW R, NEW cap \in Nat, IsRing(R), Shaped(R, cap), R.count > 0, R.hollow < R.count,
         NEW S, S = WithoutNewest(R)
  PROVE  /\ IsRing(S) /\ Shaped(S, cap) /\ S.count = R.count - 1 /\ S.base = R.base
         /\ \A i \in 0 .. R.count - 2 : Oldest(S, i) = Oldest(R, i)
         /\ HollowFirst(R) => HollowFirst(S)
<1> DEFINE top == Slot(R, R.count - 1)
           entries == [R.entries EXCEPT ![top] = Vacant]
<1>1. S = [R EXCEPT !.count = @ - 1, !.entries = entries]
  BY DEF WithoutNewest, IsRing
<1>2. \A i \in 0 .. R.count - 2 : Slot(R, i) \in 0 .. R.slots - 1 /\ Slot(R, i) # top
  <2>1. R.count \in Nat /\ R.slots \in Nat /\ R.count <= R.slots
    BY DEF IsRing, Shaped
  <2>2. \A i \in 0 .. R.count - 2 : i \in 0 .. R.slots - 1 /\ i # R.count - 1
    BY <2>1
  <2>3. R.count - 1 \in 0 .. R.slots - 1
    BY <2>1
  <2> QED  BY <2>2, <2>3, SlotProperties
<1>3. Vacant \in Entries
  BY DEF Vacant, Entries, Writes
<1> HIDE DEF top
<1>4. entries \in [0 .. R.slots - 1 -> Entries]
  BY <1>3 DEF IsRing
<1>5. \A i \in 0 .. R.count - 2 : entries[Slot(R, i)] = R.entries[Slot(R, i)]
  BY <1>2 DEF IsRing
<1> HIDE DEF entries
<1>6. /\ S.slots = R.slots /\ S.start = R.start /\ S.entries = entries
      /\ S.count = R.count - 1 /\ S.hollow = R.hollow /\ S.base = R.base
      /\ S = [entries |-> S.entries, slots |-> S.slots, start |-> S.start, count |-> S.count,
              hollow |-> S.hollow, base |-> S.base]
  BY <1>1 DEF IsRing
<1>7. IsRing(S) /\ Shaped(S, cap)
  BY <1>4, <1>6 DEF IsRing, Shaped
<1>8. \A i : Slot(S, i) = Slot(R, i)
  BY <1>6 DEF Slot
<1>9. \A i \in 0 .. R.count - 2 : Oldest(S, i) = Oldest(R, i)
  BY <1>5, <1>6, <1>8 DEF Oldest
<1>10. HollowFirst(R) => HollowFirst(S)
  BY <1>6, <1>9 DEF HollowFirst, IsRing
<1> QED  BY <1>6, <1>7, <1>9, <1>10

\* An effect marks the newest entry, and moves nothing.
LEMMA MarkRingProperties ==
  ASSUME NEW R, NEW cap \in Nat, IsRing(R), Shaped(R, cap), NEW T, NEW S, S = MarkRing(R, T)
  PROVE  /\ IsRing(S) /\ Shaped(S, cap) /\ S.count = R.count /\ S.base = R.base
         /\ HollowFirst(R) => HollowFirst(S)
         /\ \A i \in 0 .. R.count - 1 :
              Same(Oldest(S, i), Oldest(R, i)) /\ Keeps(Oldest(S, i), Oldest(R, i))
         /\ ~T.pending /\ R.count > 0 => ~Oldest(S, R.count - 1).reversible
<1>1. CASE ~T.pending /\ R.count > 0
  <2> DEFINE top == Slot(R, R.count - 1)
             entries == [R.entries EXCEPT ![top].reversible = FALSE]
  <2>1. S = [R EXCEPT !.entries = entries]
    BY <1>1 DEF MarkRing, IsRing
  <2>2. \A i \in 0 .. R.count - 1 : Slot(R, i) \in 0 .. R.slots - 1
    BY SlotProperties DEF IsRing, Shaped
  <2>3. top \in 0 .. R.slots - 1
    BY <2>2, <1>1 DEF IsRing
  <2> HIDE DEF top
  <2>4. R.entries[top] \in Entries
    BY <2>3 DEF IsRing
  <2>5. [R.entries[top] EXCEPT !.reversible = FALSE] \in Entries
    BY <2>4 DEF Entries
  <2>6. entries \in [0 .. R.slots - 1 -> Entries]
    BY <2>3, <2>5 DEF IsRing
  <2>7. \A s \in 0 .. R.slots - 1 :
          /\ Same(entries[s], R.entries[s]) /\ Keeps(entries[s], R.entries[s])
          /\ entries[s].hollow = R.entries[s].hollow
          /\ entries[s].allocated = R.entries[s].allocated
          /\ entries[s].reversible => R.entries[s].reversible
          /\ s = top => ~entries[s].reversible
    BY <2>3, <2>4 DEF IsRing, Entries, Same, Keeps
  <2> HIDE DEF entries
  <2>8. /\ S.slots = R.slots /\ S.start = R.start /\ S.entries = entries
        /\ S.count = R.count /\ S.hollow = R.hollow /\ S.base = R.base
        /\ S = [entries |-> S.entries, slots |-> S.slots, start |-> S.start, count |-> S.count,
                hollow |-> S.hollow, base |-> S.base]
    BY <2>1 DEF IsRing
  <2>9. IsRing(S) /\ Shaped(S, cap)
    BY <2>6, <2>8 DEF IsRing, Shaped
  <2>10. \A i : Slot(S, i) = Slot(R, i)
    BY <2>8 DEF Slot
  <2>11. \A i \in 0 .. R.count - 1 :
           Oldest(S, i) = entries[Slot(R, i)] /\ Oldest(R, i) = R.entries[Slot(R, i)]
    BY <2>8, <2>10 DEF Oldest
  <2>12. HollowFirst(R) => HollowFirst(S)
    BY <2>2, <2>7, <2>8, <2>11 DEF HollowFirst
  <2>13. ~Oldest(S, R.count - 1).reversible
    <3>1. R.count - 1 \in 0 .. R.count - 1
      BY <1>1 DEF IsRing
    <3> QED  BY <3>1, <2>2, <2>7, <2>11 DEF top
  <2> QED  BY <2>2, <2>7, <2>8, <2>9, <2>11, <2>12, <2>13
<1>2. CASE ~(~T.pending /\ R.count > 0)
  <2>1. S = R
    BY <1>2 DEF MarkRing
  <2> QED  BY <1>2, <2>1 DEF Same, Keeps
<1> QED  BY <1>1, <1>2

-----------------------------------------------------------------------------
(* The history variables. *)

SameStates(log, other) ==
  Len(log) = Len(other) /\ \A i \in 1 .. Len(log) : log[i].state = other[i].state

\* Loosening a log changes none of the states it tells of.
LEMMA LoosenProperties ==
  ASSUME NEW log \in Seq(LogEntries), NEW places \in SUBSET Spots
  PROVE  Loosen(log, places) \in Seq(LogEntries) /\ SameStates(Loosen(log, places), log)
<1> DEFINE new == Loosen(log, places)
<1>1. DOMAIN log = 1 .. Len(log) /\ Len(log) \in Nat
  OBVIOUS
<1>2. new = [i \in 1 .. Len(log) |-> [log[i] EXCEPT !.loose = @ \cup places]]
  BY <1>1 DEF Loosen
<1>3. \A i \in 1 .. Len(log) : new[i] \in LogEntries /\ new[i].state = log[i].state
  <2>1. ASSUME NEW i \in 1 .. Len(log)
        PROVE  new[i] \in LogEntries /\ new[i].state = log[i].state
    <3>1. log[i] \in LogEntries
      OBVIOUS
    <3> QED  BY <3>1, <1>2 DEF LogEntries
  <2> QED  BY <2>1
<1>4. new \in [1 .. Len(log) -> LogEntries]
  BY <1>2, <1>3
<1>5. new \in Seq(LogEntries)
  BY <1>1, <1>4, SeqDef
<1>6. Len(new) = Len(log)
  BY <1>1, <1>4, <1>5
<1> QED  BY <1>3, <1>5, <1>6 DEF SameStates

\* Nor does losing it.
LEMMA LoseProperties ==
  ASSUME NEW log \in Seq(LogEntries)
  PROVE  Lose(log) \in Seq(LogEntries) /\ SameStates(Lose(log), log)
<1> DEFINE new == Lose(log)
<1>1. DOMAIN log = 1 .. Len(log) /\ Len(log) \in Nat
  OBVIOUS
<1>2. new = [i \in 1 .. Len(log) |-> [log[i] EXCEPT !.lost = TRUE]]
  BY <1>1 DEF Lose
<1>3. \A i \in 1 .. Len(log) : new[i] \in LogEntries /\ new[i].state = log[i].state
  <2>1. ASSUME NEW i \in 1 .. Len(log)
        PROVE  new[i] \in LogEntries /\ new[i].state = log[i].state
    <3>1. log[i] \in LogEntries
      OBVIOUS
    <3> QED  BY <3>1, <1>2 DEF LogEntries
  <2> QED  BY <2>1
<1>4. new \in [1 .. Len(log) -> LogEntries]
  BY <1>2, <1>3
<1>5. new \in Seq(LogEntries)
  BY <1>1, <1>4, SeqDef
<1>6. Len(new) = Len(log)
  BY <1>1, <1>4, <1>5
<1> QED  BY <1>3, <1>5, <1>6 DEF SameStates

\* A step or Poke that begins is told of as a log entry of the machine.
LEMMA OpenedTyped ==
  ASSUME NEW state \in Machines
  PROVE  <<Opened(state)>> \in Seq(LogEntries) /\ Opened(state).state = state
BY DEF Opened, LogEntries

\* Two machines differ at places, and places are spots.
LEMMA DifferingTyped ==
  /\ \A s, t : Differing(s, t) \in SUBSET Places /\ Differing(s, t) \in SUBSET Spots
  /\ \A places \in SUBSET Places : places \in SUBSET Spots
BY DEF Differing, Spots

-----------------------------------------------------------------------------
(* The ring R and what its entries' steps began from, log. *)

Chain(R, log) == \A i \in 0 .. R.count - 1 : Before(R, i) = log[i + 1].state.regs
Growing(R, last) ==
  /\ \A i \in 1 .. R.count - 1 : Oldest(R, i - 1).identity < Oldest(R, i).identity
  /\ R.count > 0 => Oldest(R, R.count - 1).identity <= last
Sound(R, log, cap, last) ==
  /\ IsRing(R) /\ Shaped(R, cap) /\ HollowFirst(R) /\ Owned(R)
  /\ Len(log) = R.count /\ Chain(R, log) /\ Growing(R, last)

\* The mark for no registers kept is none of the registers.
LEMMA NoRegistersDiffer == NoRegisters \notin Registers
<1>1. "sp" \in RegNames
  BY HistoryAssumption
<1>2. DOMAIN NoRegisters = {}
  BY DEF NoRegisters
<1> QED  BY <1>1, <1>2 DEF Registers

\* A ring stays sound when its entries keep what none loses and the log tells of the same.
LEMMA SoundSame ==
  ASSUME NEW R, NEW log, NEW cap \in Nat, NEW last \in Nat, Sound(R, log, cap, last),
         NEW S, IsRing(S), Shaped(S, cap), HollowFirst(S), S.count = R.count, S.base = R.base,
         \A i \in 0 .. R.count - 1 : Same(Oldest(S, i), Oldest(R, i)),
         NEW other, SameStates(other, log), NEW later \in Nat, last <= later
  PROVE  Sound(S, other, cap, later)
<1>1. R.count \in Nat
  BY DEF Sound, IsRing
<1>2. Owned(S)
  BY DEF Owned, Sound, Same
<1>3. \A i \in 0 .. R.count - 1 : Before(S, i) = Before(R, i)
  BY <1>1 DEF Before, Same
<1>4. Len(other) = S.count /\ Chain(S, other)
  <2>1. Len(other) = R.count /\ Len(log) = R.count
    BY DEF Sound, SameStates
  <2>2. ASSUME NEW i \in 0 .. S.count - 1 PROVE Before(S, i) = other[i + 1].state.regs
    <3>1. i + 1 \in 1 .. Len(other)
      BY <1>1, <2>1
    <3>2. other[i + 1].state = log[i + 1].state
      BY <3>1 DEF SameStates
    <3>3. Before(R, i) = log[i + 1].state.regs
      BY DEF Sound, Chain
    <3> QED  BY <1>3, <3>2, <3>3
  <2> QED  BY <2>1, <2>2 DEF Chain
<1>5. \A i \in 0 .. R.count - 1 : Oldest(R, i).identity \in Nat
  BY EntryTyped DEF Sound, Entries
<1>6. Growing(S, later)
  BY <1>1, <1>5 DEF Sound, Growing, Same
<1> QED  BY <1>2, <1>4, <1>6 DEF Sound

\* And the newest entry left the registers where it did.
LEMMA LastLeftSame ==
  ASSUME NEW R, NEW S, R.count \in Nat, S.count = R.count, S.base = R.base,
         \A i \in 0 .. R.count - 1 : Same(Oldest(S, i), Oldest(R, i))
  PROVE  LastLeft(S) = LastLeft(R)
BY DEF LastLeft, EntryAt, Same

\* A cleared ring is sound.
LEMMA SoundEmpty ==
  ASSUME NEW base \in Registers, NEW cap \in Nat, NEW last \in Nat
  PROVE  Sound(NoEntries(base), <<>>, cap, last)
<1>1. \A i : i \notin 0 .. -1
  OBVIOUS
<1>2. [i \in {} |-> Vacant] \in [0 .. -1 -> Entries]
  BY <1>1
<1> DEFINE N == NoEntries(base)
<1>3. /\ N.slots = 0 /\ N.start = 0 /\ N.count = 0 /\ N.hollow = 0 /\ N.base = base
      /\ N.entries \in [0 .. -1 -> Entries]
      /\ N = [entries |-> N.entries, slots |-> N.slots, start |-> N.start, count |-> N.count,
              hollow |-> N.hollow, base |-> N.base]
  BY <1>2 DEF NoEntries
<1> HIDE DEF N
<1> QED  BY <1>3 DEF Sound, IsRing, Shaped, HollowFirst, Owned, Chain, Growing, N

\* Where the older entries were, when one more is added and the oldest may be dropped.
LEMMA OlderPlaces ==
  ASSUME NEW count \in Nat, NEW drop \in 0 .. 1, NEW new \in Nat, new = count + 1 - drop,
         NEW i \in 0 .. new - 1, i # new - 1
  PROVE  /\ i \in 0 .. new - 2 /\ i + drop \in 0 .. count - 1
         /\ (i + drop > 0 <=> i > 0 \/ drop = 1)
         /\ i + 1 \in 1 .. new - 1 /\ new > 1
OBVIOUS

\* A ring is sound without its newest entry.
LEMMA SoundUndo ==
  ASSUME NEW R, NEW log, NEW cap \in Nat, NEW last \in Nat, Sound(R, log, cap, last),
         R.count > 0, R.hollow < R.count,
         NEW other, Len(other) = Len(log) - 1,
         \A i \in 1 .. Len(log) - 1 : other[i].state = log[i].state
  PROVE  Sound(WithoutNewest(R), other, cap, last)
<1> DEFINE S == WithoutNewest(R)
<1>1. /\ IsRing(S) /\ Shaped(S, cap) /\ S.count = R.count - 1 /\ S.base = R.base
      /\ \A i \in 0 .. R.count - 2 : Oldest(S, i) = Oldest(R, i)
      /\ HollowFirst(S)
  BY WithoutNewestProperties DEF Sound
<1> HIDE DEF S
<1>2. R.count \in Nat
  BY DEF Sound, IsRing
<1>3. Owned(S)
  BY <1>1, <1>2 DEF Owned, Sound
<1>4. \A i \in 0 .. R.count - 2 : Before(S, i) = Before(R, i)
  <2> SUFFICES ASSUME NEW i \in 0 .. R.count - 2 PROVE Before(S, i) = Before(R, i)
    OBVIOUS
  <2>1. Oldest(S, i) = Oldest(R, i) /\ S.base = R.base
    BY <1>1
  <2>2. i > 0 => Oldest(S, i - 1) = Oldest(R, i - 1)
    <3>1. i > 0 => i - 1 \in 0 .. R.count - 2
      BY <1>2
    <3> QED  BY <1>1, <3>1
  <2> QED  BY <2>1, <2>2 DEF Before
<1>5. Len(other) = S.count /\ Chain(S, other)
  <2>1. Len(log) = R.count /\ Chain(R, log)
    BY DEF Sound
  <2>2. Len(other) = S.count
    BY <2>1, <1>1
  <2>3. \A i \in 0 .. R.count - 2 : Before(S, i) = other[i + 1].state.regs
    <3> SUFFICES ASSUME NEW i \in 0 .. R.count - 2
                 PROVE  Before(S, i) = other[i + 1].state.regs
      OBVIOUS
    <3>1. i \in 0 .. R.count - 1 /\ i + 1 \in 1 .. Len(log) - 1
      BY <2>1, <1>2
    <3>2. Before(R, i) = log[i + 1].state.regs
      BY <2>1, <3>1 DEF Chain
    <3>3. other[i + 1].state = log[i + 1].state
      BY <3>1
    <3> QED  BY <1>4, <3>2, <3>3
  <2>4. S.count - 1 = R.count - 2
    BY <1>1, <1>2
  <2> QED  BY <2>2, <2>3, <2>4 DEF Chain
<1>6. \A i \in 0 .. R.count - 1 : Oldest(R, i).identity \in Nat
  BY EntryTyped DEF Sound, Entries
<1>7. Growing(S, last)
  <2>1. \A i \in 1 .. S.count - 1 : Oldest(S, i - 1).identity < Oldest(S, i).identity
    <3> SUFFICES ASSUME NEW i \in 1 .. R.count - 2
                 PROVE  Oldest(S, i - 1).identity < Oldest(S, i).identity
      BY <1>1, <1>2
    <3>1. Oldest(R, i - 1).identity < Oldest(R, i).identity
      BY <1>2 DEF Sound, Growing
    <3> QED  BY <3>1, <1>1, <1>2
  <2>2. S.count > 0 => Oldest(S, S.count - 1).identity <= last
    <3> SUFFICES ASSUME S.count > 0 PROVE Oldest(S, S.count - 1).identity <= last
      OBVIOUS
    <3>1. Oldest(R, R.count - 2).identity < Oldest(R, R.count - 1).identity
      BY <1>1, <1>2 DEF Sound, Growing
    <3>2. Oldest(R, R.count - 1).identity <= last
      BY DEF Sound, Growing
    <3> QED  BY <3>1, <3>2, <1>1, <1>2, <1>6
  <2> QED  BY <2>1, <2>2 DEF Growing
<1> QED  BY <1>1, <1>3, <1>5, <1>7 DEF Sound, S

\* The step or Poke under way began at open[1].
Underway ==
  /\ Len(open) = 1
  /\ IF step.moved THEN step.registers = open[1].state.regs
     ELSE LastLeft(ring) = open[1].state.regs

\* The entry Finish() makes, and what it does to the ring and the log: the entry goes after
\* the newest, and the others move one place when the oldest is dropped.
EntryOf(after, writes, journal, irreversible, exits, id) ==
  [Vacant EXCEPT
     !.after = after, !.writes = writes, !.journal = journal, !.identity = id,
     !.stack_before = machine.stack, !.instructions_before = step.instructions,
     !.reversible = ~irreversible, !.exited = exits]
Dropped == IF ring.count = capacity THEN 1 ELSE 0
Recorded(e) ==
  /\ Len(past') = ring'.count /\ ring'.count = ring.count + 1 - Dropped
  /\ past'[ring'.count] = open[1]
  /\ Keeps(Oldest(ring', ring'.count - 1), e)
  /\ \A i \in 1 .. ring'.count - 1 :
       past'[i] = past[i + Dropped] /\ Keeps(Oldest(ring', i - 1), Oldest(ring, i - 1 + Dropped))

\* Finish() keeps the ring sound: the step or Poke that began where open says becomes its
\* newest entry, with the oldest dropped or not, and moved or not.
LEMMA FinishSound ==
  ASSUME TypeOK, NEW last \in Nat, Sound(ring, past, capacity, last), Underway, capacity # 0,
         NEW after \in Registers, NEW writes \in Writes, NEW journal \in Seq(Devices),
         NEW irreversible \in BOOLEAN, NEW exits \in BOOLEAN,
         NEW id \in Nat, ring.count > 0 => EntryAt(ring, 0).identity < id,
         NEW later \in Nat, id <= later,
         Finish(after, writes, journal, irreversible, exits, id)
  PROVE  /\ past' \in Seq(LogEntries) /\ Sound(ring', past', capacity, later)
         /\ Recorded(EntryOf(after, writes, journal, irreversible, exits, id))
<1> DEFINE e == EntryOf(after, writes, journal, irreversible, exits, id)
           tail == Len(writes) + Len(journal)
           W == NewEntry(capacity, e, tail).ring
           drop == IF ring.count = capacity THEN 1 ELSE 0
           began == open[1].state.regs
<1>1. /\ ring' = IF step.moved THEN StartedFrom(W, step.registers) ELSE W
      /\ past' = (IF ring.count = capacity THEN Tail(past) ELSE past) \o open
  BY DEF Finish, EntryOf
<1>2. capacity \in Nat \ {0}
  BY HistoryAssumption DEF TypeOK
<1>3. machine.stack \in Seq(RegValues) /\ step.instructions \in Nat
  BY DEF TypeOK, Machines, Steps
<1>4. /\ e \in Entries /\ e.after = after /\ e.before = NoRegisters /\ e.identity = id
      /\ ~e.hollow
  BY <1>3 DEF EntryOf, Vacant, Entries
<1>5. tail \in Nat
  BY DEF Writes
<1> HIDE DEF e, tail, W, drop
<1>6. /\ IsRing(W) /\ Shaped(W, capacity)
      /\ W.count = ring.count + 1 - drop
      /\ W.base = IF drop = 1 THEN Oldest(ring, 0).after ELSE ring.base
      /\ Same(Oldest(W, W.count - 1), e) /\ Keeps(Oldest(W, W.count - 1), e)
      /\ \A i \in 0 .. W.count - 2 :
           /\ Same(Oldest(W, i), Oldest(ring, i + drop))
           /\ Keeps(Oldest(W, i), Oldest(ring, i + drop))
      /\ HollowFirst(W)
  BY <1>2, <1>4, <1>5, NewEntryProperties DEF Sound, W, drop
<1>7. /\ ring.count \in Nat /\ drop \in 0 .. 1 /\ drop <= ring.count
      /\ drop = 1 <=> ring.count = capacity
  BY <1>2 DEF Sound, IsRing, drop
<1>8. W.count \in Nat \ {0}
  BY <1>6, <1>7
<1>8a. /\ drop \in Nat /\ W.count \in Nat /\ ring.count \in Nat
       /\ W.count = ring.count + 1 - drop
  BY <1>6, <1>7, <1>8
<1>9. /\ past \in Seq(LogEntries) /\ open \in Seq(LogEntries)
      /\ Len(past) = ring.count /\ Len(open) = 1
  BY DEF TypeOK, Sound, Underway
<1>10. /\ past' \in Seq(LogEntries) /\ Len(past') = W.count
       /\ past'[W.count] = open[1]
       /\ \A i \in 1 .. W.count - 1 : past'[i] = past[i + drop]
  <2>1. CASE ring.count = capacity
    <3>1. past' = Tail(past) \o open /\ drop = 1 /\ past # <<>>
      BY <2>1, <1>1, <1>2, <1>7, <1>9
    <3>2. Tail(past) \in Seq(LogEntries) /\ Len(Tail(past)) = ring.count - 1
          /\ \A i \in 1 .. ring.count - 1 : Tail(past)[i] = past[i + 1]
      BY <3>1, <1>9, HeadTailProperties
    <3>3. /\ past' \in Seq(LogEntries) /\ Len(past') = ring.count
          /\ \A i \in 1 .. ring.count :
               past'[i] = IF i <= ring.count - 1 THEN Tail(past)[i] ELSE open[i - (ring.count - 1)]
      <4>1. /\ Tail(past) \o open \in Seq(LogEntries)
            /\ Len(Tail(past) \o open) = Len(Tail(past)) + Len(open)
            /\ \A i \in 1 .. Len(Tail(past)) + Len(open) :
                 (Tail(past) \o open)[i] = IF i <= Len(Tail(past)) THEN Tail(past)[i]
                                          ELSE open[i - Len(Tail(past))]
        BY <3>2, <1>9, ConcatProperties
      <4>2. Len(Tail(past)) + Len(open) = ring.count
        BY <3>2, <1>7, <1>9
      <4> QED  BY <3>1, <3>2, <4>1, <4>2
    <3>4. W.count = ring.count
      BY <3>1, <1>6, <1>7
    <3>5. past'[W.count] = open[1]
      BY <3>3, <3>4, <1>7, <1>8
    <3>6. \A i \in 1 .. W.count - 1 : past'[i] = past[i + drop]
      BY <3>1, <3>2, <3>3, <3>4, <1>7
    <3> QED  BY <3>3, <3>4, <3>5, <3>6
  <2>2. CASE ring.count # capacity
    <3>1. past' = past \o open /\ drop = 0
      BY <2>2, <1>1, <1>7
    <3>2. /\ past' \in Seq(LogEntries) /\ Len(past') = ring.count + 1
          /\ \A i \in 1 .. ring.count + 1 :
               past'[i] = IF i <= ring.count THEN past[i] ELSE open[i - ring.count]
      <4>1. /\ past \o open \in Seq(LogEntries)
            /\ Len(past \o open) = Len(past) + Len(open)
            /\ \A i \in 1 .. Len(past) + Len(open) :
                 (past \o open)[i] = IF i <= Len(past) THEN past[i] ELSE open[i - Len(past)]
        BY <1>9, ConcatProperties
      <4> QED  BY <3>1, <4>1, <1>9
    <3>3. W.count = ring.count + 1
      BY <3>1, <1>6, <1>7
    <3>4. past'[W.count] = open[1]
      <4>1. W.count \in 1 .. ring.count + 1 /\ ~(W.count <= ring.count)
            /\ W.count - ring.count = 1
        BY <3>3, <1>7
      <4> QED  BY <3>2, <4>1
    <3>5. \A i \in 1 .. W.count - 1 : past'[i] = past[i + drop]
      BY <3>1, <3>2, <3>3, <1>7
    <3> QED  BY <3>2, <3>3, <3>4, <3>5
  <2> QED  BY <2>1, <2>2
<1>11. began \in Registers
  <2>1. open[1] \in LogEntries
    <3>1. open \in Seq(LogEntries) /\ 1 \in 1 .. Len(open)
      BY <1>9
    <3> QED  BY <3>1, ElementOfSeq
  <2> QED  BY <2>1 DEF LogEntries, Machines
\* Where StartedFrom() leaves the entries, moved or not.
<1>12. /\ IsRing(ring') /\ Shaped(ring', capacity) /\ HollowFirst(ring')
       /\ ring'.count = W.count
       /\ ring'.base = (IF step.moved /\ W.count = 1 THEN began ELSE W.base)
       /\ \A i \in 0 .. W.count - 1 :
            /\ Oldest(ring', i).after = Oldest(W, i).after
            /\ Oldest(ring', i).identity = Oldest(W, i).identity
            /\ Oldest(ring', i).before =
                 IF step.moved /\ W.count > 1 /\ i = W.count - 1 THEN began
                 ELSE Oldest(W, i).before
            /\ Keeps(Oldest(ring', i), Oldest(W, i))
  <2>1. CASE step.moved
    <3>1. step.registers = began /\ ring' = StartedFrom(W, began)
      BY <2>1, <1>1 DEF Underway
    <3>2. /\ IsRing(ring') /\ Shaped(ring', capacity) /\ ring'.count = W.count
          /\ ring'.base = (IF W.count > 1 THEN W.base ELSE began)
          /\ HollowFirst(W) => HollowFirst(ring')
          /\ \A i \in 0 .. W.count - 1 :
               /\ Oldest(ring', i).after = Oldest(W, i).after
               /\ Oldest(ring', i).identity = Oldest(W, i).identity
               /\ Oldest(ring', i).before = IF W.count > 1 /\ i = W.count - 1 THEN began
                                           ELSE Oldest(W, i).before
               /\ Keeps(Oldest(ring', i), Oldest(W, i))
      BY <3>1, <1>2, <1>6, <1>8, <1>11, StartedFromProperties
    <3> QED  BY <2>1, <3>2, <1>6, <1>8
  <2>2. CASE ~step.moved
    <3>1. ring' = W
      BY <2>2, <1>1
    <3> QED  BY <2>2, <3>1, <1>6 DEF Keeps
  <2> QED  BY <2>1, <2>2
<1>13. Owned(ring')
  <2> SUFFICES ASSUME NEW i \in 0 .. W.count - 1 PROVE Oldest(W, i).after \in Registers
    BY <1>12 DEF Owned
  <2>1. CASE i = W.count - 1
    BY <2>1, <1>4, <1>6 DEF Same
  <2>2. CASE i # W.count - 1
    <3>1. i \in 0 .. W.count - 2 /\ i + drop \in 0 .. ring.count - 1
      BY <2>2, <1>6, <1>7
    <3> QED  BY <3>1, <1>6 DEF Same, Sound, Owned
  <2> QED  BY <2>1, <2>2
<1>14. Chain(ring', past')
  <2> SUFFICES ASSUME NEW i \in 0 .. W.count - 1
               PROVE  Before(ring', i) = past'[i + 1].state.regs
    BY <1>12 DEF Chain
  <2>1. CASE i = W.count - 1
    <3>1. past'[i + 1].state.regs = began
      BY <2>1, <1>8, <1>10
    <3>2. CASE step.moved /\ W.count > 1
      BY <3>1, <3>2, <2>1, <1>11, <1>12, NoRegistersDiffer DEF Before
    <3>3. Oldest(W, i).before = NoRegisters
      BY <2>1, <1>4, <1>6 DEF Same
    <3>4. CASE step.moved /\ ~(W.count > 1)
      <4>1. W.count = 1 /\ i = 0
        BY <3>4, <2>1, <1>8a, <1>8
      <4>2. Oldest(ring', 0).before = NoRegisters /\ ring'.base = began
        BY <3>3, <3>4, <4>1, <1>12
      <4> QED  BY <3>1, <4>1, <4>2 DEF Before
    <3>5. CASE ~step.moved /\ W.count > 1
      <4>1. /\ i - 1 \in 0 .. W.count - 2 /\ i - 1 \in 0 .. W.count - 1
            /\ (i - 1) + drop = ring.count - 1 /\ ring.count > 0 /\ i > 0
        <5>1. W.count > 1 /\ i = W.count - 1
          BY <3>5, <2>1
        <5>2. i > 0 /\ i - 1 \in 0 .. W.count - 2 /\ i - 1 \in 0 .. W.count - 1
          BY <5>1, <1>8a
        <5>3. (i - 1) + drop = ring.count - 1 /\ ring.count > 0
          BY <5>1, <1>8a
        <5> QED  BY <5>2, <5>3
      <4>2. Oldest(ring', i - 1).after = Oldest(ring, ring.count - 1).after
        <5>1. Oldest(ring', i - 1).after = Oldest(W, i - 1).after
          BY <4>1, <1>12
        <5>2. Same(Oldest(W, i - 1), Oldest(ring, (i - 1) + drop))
          BY <4>1, <1>6
        <5> QED  BY <4>1, <5>1, <5>2 DEF Same
      <4>3. LastLeft(ring) = Oldest(ring, ring.count - 1).after
        <5>1. ring.count - 1 - 0 = ring.count - 1
          BY <1>8a
        <5> QED  BY <4>1, <5>1 DEF LastLeft, EntryAt
      <4>4. Before(ring', i) = Oldest(ring', i - 1).after
        <5>1. Oldest(ring', i).before = NoRegisters
          BY <3>3, <3>5, <1>12
        <5> QED  BY <4>1, <5>1 DEF Before
      <4> QED  BY <3>1, <3>5, <4>2, <4>3, <4>4 DEF Underway
    <3>6. CASE ~step.moved /\ ~(W.count > 1)
      <4>1. Before(ring', i) = W.base
        BY <3>3, <3>6, <2>1, <1>8, <1>12 DEF Before
      <4>2. W.base = LastLeft(ring)
        <5>1. ring.count = drop
          BY <3>6, <1>6, <1>7, <1>8
        <5> QED  BY <5>1, <1>6, <1>7 DEF LastLeft, EntryAt
      <4> QED  BY <3>1, <3>6, <4>1, <4>2 DEF Underway
    <3> QED  BY <3>2, <3>4, <3>5, <3>6
  <2>2. CASE i # W.count - 1
    <3> DEFINE k == i + drop
    <3>1. /\ i \in 0 .. W.count - 2 /\ k \in 0 .. ring.count - 1 /\ (k > 0 <=> i > 0 \/ drop = 1)
          /\ i + 1 \in 1 .. W.count - 1 /\ W.count > 1
      BY <2>2, <1>7, <1>8a, OlderPlaces
    <3>2. past'[i + 1].state.regs = Before(ring, k)
      <4>1. past'[i + 1] = past[i + 1 + drop]
        BY <3>1, <1>10
      <4>2. i + 1 + drop = k + 1
        BY <3>1, <1>7
      <4> QED  BY <4>1, <4>2, <3>1 DEF Sound, Chain
    <3>3. Oldest(ring', i).before = Oldest(ring, k).before
      BY <3>1, <2>2, <1>6, <1>12 DEF Same
    <3>4. CASE i > 0
      <4>1. /\ i - 1 \in 0 .. W.count - 2 /\ i - 1 \in 0 .. W.count - 1
            /\ (i - 1) + drop = k - 1 /\ k > 0
        BY <3>4, <2>2, <1>8a
      <4> HIDE DEF k
      <4>2. Oldest(ring', i - 1).after = Oldest(ring, k - 1).after
        <5>1. Oldest(ring', i - 1).after = Oldest(W, i - 1).after
          BY <4>1, <1>12
        <5>2. Same(Oldest(W, i - 1), Oldest(ring, (i - 1) + drop))
          BY <4>1, <1>6
        <5> QED  BY <4>1, <5>1, <5>2 DEF Same
      <4>3. Before(ring', i) = IF Oldest(ring', i).before # NoRegisters THEN Oldest(ring', i).before
                              ELSE Oldest(ring', i - 1).after
        BY <3>4 DEF Before
      <4>4. Before(ring, k) = IF Oldest(ring, k).before # NoRegisters THEN Oldest(ring, k).before
                              ELSE Oldest(ring, k - 1).after
        BY <4>1 DEF Before
      <4> QED  BY <3>2, <3>3, <4>2, <4>3, <4>4
    <3>5. CASE i = 0
      <4>1. ring'.base = W.base
        BY <3>1, <1>12
      <4>2. CASE drop = 1
        <5>1. k = 1
          BY <3>5, <4>2
        <5> HIDE DEF k
        <5> QED  BY <5>1, <3>2, <3>3, <3>5, <4>1, <4>2, <1>6 DEF Before
      <4>3. CASE drop = 0
        <5>1. k = 0
          BY <3>5, <4>3
        <5> HIDE DEF k
        <5> QED  BY <5>1, <3>2, <3>3, <3>5, <4>1, <4>3, <1>6 DEF Before
      <4> QED  BY <4>2, <4>3, <1>7
    <3> QED  BY <3>1, <3>4, <3>5
  <2> QED  BY <2>1, <2>2
<1>15. Growing(ring', later)
  <2>1. Oldest(ring', W.count - 1).identity = id
    BY <1>4, <1>6, <1>8, <1>12 DEF Same
  <2>2. \A i \in 0 .. W.count - 2 : Oldest(ring', i).identity = Oldest(ring, i + drop).identity
    BY <1>6, <1>8, <1>12 DEF Same
  <2>3. ASSUME NEW i \in 1 .. W.count - 1
        PROVE  Oldest(ring', i - 1).identity < Oldest(ring', i).identity
    <3>1. i - 1 \in 0 .. W.count - 2 /\ (i - 1) + drop = (i + drop) - 1
      BY <1>8a
    <3>2. CASE i = W.count - 1
      <4>1. (i - 1) + drop = ring.count - 1 - 0 /\ ring.count > 0
        BY <3>2, <1>8a
      <4>2. Oldest(ring', i - 1).identity = EntryAt(ring, 0).identity
        BY <3>1, <4>1, <2>2 DEF EntryAt
      <4> QED  BY <3>2, <4>1, <4>2, <2>1
    <3>3. CASE i # W.count - 1
      <4>1. i \in 0 .. W.count - 2 /\ i + drop \in 1 .. ring.count - 1
        <5>1. i >= 1 /\ i <= W.count - 2 /\ i \in Nat
          BY <3>3, <1>8a
        <5> QED  BY <5>1, <1>8a
      <4>2. Oldest(ring, (i + drop) - 1).identity < Oldest(ring, i + drop).identity
        BY <4>1 DEF Sound, Growing
      <4> QED  BY <3>1, <4>1, <4>2, <2>2
    <3> QED  BY <3>2, <3>3
  <2> QED  BY <2>1, <2>3, <1>12 DEF Growing
<1>16. Recorded(e)
  <2>1. drop = Dropped
    BY DEF drop, Dropped
  <2>2. Keeps(Oldest(ring', W.count - 1), e)
    BY <1>6, <1>8, <1>12 DEF Keeps
  <2>3. ASSUME NEW i \in 1 .. W.count - 1
        PROVE  Keeps(Oldest(ring', i - 1), Oldest(ring, i - 1 + drop))
    <3>1. i - 1 \in 0 .. W.count - 2 /\ i - 1 \in 0 .. W.count - 1
      BY <1>8
    <3> QED  BY <3>1, <1>6, <1>12 DEF Keeps
  <2> QED  BY <2>1, <2>2, <2>3, <1>6, <1>10, <1>12 DEF Recorded
<1> QED  BY <1>6, <1>10, <1>12, <1>13, <1>14, <1>15, <1>16 DEF Sound, e

-----------------------------------------------------------------------------
(* The inductive invariant. *)

\* What the ring's invariant needs of the step or Poke under way: it began where open
\* says, and the identity it will record is larger than any recorded yet.
StepSound ==
  /\ phase # "idle" => Len(open) = 1
  /\ poke => phase = "idle" /\ step.registers \in Registers
  /\ step.pending => phase # "idle"
  /\ step.pending \/ poke => Underway
  /\ step.pending =>
       /\ identity = allocator
       /\ ring.count > 0 => EntryAt(ring, 0).identity < allocator
IInv == TypeOK /\ Sound(ring, past, capacity, allocator) /\ StepSound

\* The newest entry's identity has been handed out.
LEMMA NewestIdentity ==
  ASSUME TypeOK, Sound(ring, past, capacity, allocator)
  PROVE  ring.count > 0 => EntryAt(ring, 0).identity < allocator + 1
<1>1. ring.count \in Nat /\ allocator \in Nat
  BY DEF TypeOK, IsRing
<1>2. ASSUME ring.count > 0
      PROVE  /\ EntryAt(ring, 0) = Oldest(ring, ring.count - 1)
             /\ Oldest(ring, ring.count - 1) \in Entries
  <2>1. ring.count - 1 \in 0 .. ring.count - 1 /\ ring.count - 1 - 0 = ring.count - 1
    BY <1>1, <1>2
  <2> QED  BY <2>1, EntryTyped DEF EntryAt, Sound
<1>3. ring.count > 0 =>
        EntryAt(ring, 0).identity <= allocator /\ EntryAt(ring, 0).identity \in Nat
  BY <1>2 DEF Sound, Growing, Entries
<1> QED  BY <1>1, <1>3

\* With no step under way, none is pending.
LEMMA NoStepTyped == NoStep \in Steps /\ ~NoStep.pending
<1>1. <<>> \in Writes /\ <<>> \in Seq(Devices)
  BY DEF Writes
<1> QED  BY <1>1 DEF NoStep, Steps

\* Finish() is handed where its step began, whether TakeBefore() kept the registers or not.
LEMMA SnapshotProperties ==
  ASSUME TypeOK, NEW pending \in BOOLEAN, NEW always \in BOOLEAN,
         NEW S, S = Snapshot(pending, always)
  PROVE  /\ S \in Steps /\ S.pending = pending
         /\ always => S.registers = machine.regs
         /\ IF S.moved THEN S.registers = machine.regs ELSE LastLeft(ring) = machine.regs
<1>1. <<>> \in Writes /\ <<>> \in Seq(Devices)
  BY DEF Writes
<1>2. machine.regs \in Registers /\ machine.executed \in Nat
  BY DEF TypeOK, Machines
<1> HIDE DEF Writes
<1> QED  BY <1>1, <1>2 DEF Snapshot, NoStep, Steps

\* The call stack stays a stack of register values.
LEMMA FramesTyped ==
  ASSUME NEW stack \in Seq(RegValues), NEW flow, NEW sp \in RegValues
  PROVE  Frames(stack, flow, sp) \in Seq(RegValues)
<1>1. CASE flow = "call"
  <2>1. <<sp>> \o stack \in Seq(RegValues)
    OBVIOUS
  <2> QED  BY <1>1, <2>1 DEF Frames
<1>2. CASE flow # "call"
  <2> DEFINE kept == {i \in 1 .. Len(stack) + 1 : i > Len(stack) \/ stack[i] >= sp}
             first == CHOOSE i \in kept : \A j \in kept : i <= j
  <2>1. Len(stack) \in Nat
    OBVIOUS
  <2>2. kept \in SUBSET Nat /\ Len(stack) + 1 \in kept
    BY <2>1
  <2>3. \E i \in kept : \A j \in kept : i <= j
    <3> HIDE DEF kept
    <3> QED  BY <2>2, Least
  <2>4. first \in kept
    <3> HIDE DEF kept
    <3> QED  BY <2>3
  <2>5. first \in 1 .. Len(stack) + 1
    BY <2>4
  <2> HIDE DEF first
  <2>6. \A i \in first .. Len(stack) : stack[i] \in RegValues
    BY <2>1, <2>5
  <2>7. SubSeq(stack, first, Len(stack)) \in Seq(RegValues)
    <3>1. first \in Int /\ Len(stack) \in Int
      BY <2>1, <2>5
    <3> QED  BY <3>1, <2>6, SubSeqProperties
  <2> QED  BY <1>2, <2>7 DEF Frames, first
<1> QED  BY <1>1, <1>2

\* An address written has a first write, and it kept a byte.
LEMMA FirstOldTyped ==
  ASSUME NEW ws \in Writes, NEW a \in Touched(ws)
  PROVE  a \in Addrs /\ FirstOld(ws, a) \in Bytes
<1> DEFINE to == {i \in DOMAIN ws : ws[i].addr = a}
           First(i) == ws[i].addr = a /\ \A j \in 1 .. i - 1 : ws[j].addr # a
<1>1. /\ Len(ws) \in Nat /\ DOMAIN ws = 1 .. Len(ws)
      /\ \A i \in DOMAIN ws : ws[i].addr \in Addrs /\ ws[i].old \in Bytes
  <2>1. Len(ws) \in Nat /\ DOMAIN ws = 1 .. Len(ws)
    BY DEF Writes
  <2>2. ASSUME NEW i \in DOMAIN ws PROVE ws[i].addr \in Addrs /\ ws[i].old \in Bytes
    <3>1. ws[i] \in [addr : Addrs, old : Bytes]
      BY <2>1, ElementOfSeq DEF Writes
    <3> QED  BY <3>1
  <2> QED  BY <2>1, <2>2
<1>2. to \in SUBSET Nat /\ to # {}
  BY <1>1 DEF Touched
<1> HIDE DEF to
<1>3. PICK i \in to : \A j \in to : i <= j
  BY <1>2, Least
<1>4. i \in DOMAIN ws /\ First(i)
  BY <1>1, <1>3 DEF to
<1>5. FirstOld(ws, a) = ws[CHOOSE k \in DOMAIN ws : First(k)].old
  BY DEF FirstOld
<1> HIDE DEF First
<1>6. (CHOOSE k \in DOMAIN ws : First(k)) \in DOMAIN ws
  BY <1>4
<1>7. a \in Addrs
  BY <1>1, <1>3 DEF to
<1> QED  BY <1>1, <1>5, <1>6, <1>7

\* An undo writes back bytes.
LEMMA TakenBackTyped ==
  ASSUME NEW ws \in Writes, NEW mem \in [Addrs -> Bytes]
  PROVE  TakenBack(ws, mem) \in [Addrs -> Bytes]
BY FirstOldTyped DEF TakenBack

\* A finite set of writes is laid out as a sequence of all of them, and no others.
LEMMA SetToSeqProperties ==
  ASSUME NEW T, NEW S \in SUBSET T, IsFiniteSet(S)
  PROVE  /\ SetToSeq(S) \in Seq(T)
         /\ \A i \in 1 .. Len(SetToSeq(S)) : SetToSeq(S)[i] \in S
         /\ \A x \in S : \E i \in 1 .. Len(SetToSeq(S)) : SetToSeq(S)[i] = x
<1> DEFINE n == Cardinality(S)
<1>1. n \in Nat /\ \E f \in [1 .. n -> S] : \A i, j \in 1 .. n : f[i] = f[j] => i = j
  BY FS_CardinalityType DEF ExistsBijection, Bijection, Injection, IsInjective
<1>2. SetToSeq(S) = CHOOSE f \in [1 .. n -> S] : IsInjective(f)
  BY DEF SetToSeq
<1> HIDE DEF n
<1>3. \E f \in [1 .. n -> S] : IsInjective(f)
  BY <1>1 DEF IsInjective
<1>4. SetToSeq(S) \in [1 .. n -> S] /\ IsInjective(SetToSeq(S))
  BY <1>2, <1>3
<1>5. SetToSeq(S) \in [1 .. n -> T]
  BY <1>4
<1>6. SetToSeq(S) \in Seq(T) /\ Len(SetToSeq(S)) = n
  BY <1>1, <1>5, SeqDef
<1>7. SetToSeq(S) \in Surjection(1 .. n, S)
  <2>1. SetToSeq(S) \in Injection(1 .. n, S)
    BY <1>4 DEF Injection
  <2>2. Cardinality(1 .. n) = n
    BY <1>1, FS_Interval
  <2>3. n = Cardinality(S)
    BY DEF n
  <2> QED  BY <2>1, <2>2, <2>3, FS_Injection
<1> QED  BY <1>4, <1>6, <1>7 DEF Surjection

\* What a Poke records of the bytes it changed: each of them.
LEMMA PokeWritesProperties ==
  ASSUME poke_bytes \in Writes
  PROVE  /\ PokeWrites \in Writes
         /\ \A i \in 1 .. Len(PokeWrites) :
              \E a \in Overwritten : PokeWrites[i] = [addr |-> a, old |-> FirstOld(poke_bytes, a)]
         /\ \A a \in Overwritten :
              \E i \in 1 .. Len(PokeWrites) :
                PokeWrites[i] = [addr |-> a, old |-> FirstOld(poke_bytes, a)]
<1> DEFINE n == Len(poke_bytes)
           W(a) == [addr |-> a, old |-> FirstOld(poke_bytes, a)]
           S == {W(a) : a \in Overwritten}
<1>1. n \in Nat /\ Touched(poke_bytes) = {poke_bytes[i].addr : i \in 1 .. n}
  BY DEF Touched, Writes
<1>2. IsFiniteSet(Touched(poke_bytes))
  <2> DEFINE f == [i \in 1 .. n |-> poke_bytes[i].addr]
  <2>1. f \in Surjection(1 .. n, Touched(poke_bytes))
    BY <1>1 DEF Surjection
  <2>2. IsFiniteSet(1 .. n)
    BY <1>1, FS_Interval
  <2> QED  BY <2>1, <2>2, FS_Surjection
<1>3. Overwritten \in SUBSET Touched(poke_bytes)
  BY DEF Overwritten
<1>4. IsFiniteSet(Overwritten)
  BY <1>2, <1>3, FS_Subset
<1>5. IsFiniteSet(S)
  <2> DEFINE g == [a \in Overwritten |-> W(a)]
  <2>1. g \in Surjection(Overwritten, S)
    BY DEF Surjection
  <2> QED  BY <1>4, <2>1, FS_Surjection
<1>6. S \in SUBSET [addr : Addrs, old : Bytes]
  BY <1>3, FirstOldTyped
<1>7. /\ SetToSeq(S) \in Seq([addr : Addrs, old : Bytes])
      /\ \A i \in 1 .. Len(SetToSeq(S)) : SetToSeq(S)[i] \in S
      /\ \A x \in S : \E i \in 1 .. Len(SetToSeq(S)) : SetToSeq(S)[i] = x
  <2> HIDE DEF S
  <2> QED  BY <1>5, <1>6, SetToSeqProperties
<1>8. PokeWrites = SetToSeq(S)
  BY DEF PokeWrites
<1> QED  BY <1>7, <1>8 DEF Writes

\* What no entry is made of leaves the ring sound: an entry marked, a log told of more.
LEMMA MarkedSound ==
  ASSUME TypeOK, Sound(ring, past, capacity, allocator),
         ring' = ring \/ ring' = MarkRing(ring, step),
         SameStates(past', past), NEW later \in Nat, allocator <= later
  PROVE  /\ Sound(ring', past', capacity, later)
         /\ LastLeft(ring') = LastLeft(ring) /\ ring'.count = ring.count
         /\ ring.count > 0 => EntryAt(ring', 0).identity = EntryAt(ring, 0).identity
<1>1. capacity \in Nat /\ allocator \in Nat
  BY HistoryAssumption DEF TypeOK
<1>2. /\ IsRing(ring') /\ Shaped(ring', capacity) /\ HollowFirst(ring')
      /\ ring'.count = ring.count /\ ring'.base = ring.base
      /\ \A i \in 0 .. ring.count - 1 : Same(Oldest(ring', i), Oldest(ring, i))
  <2>1. CASE ring' = ring
    BY <2>1 DEF Sound, Same
  <2>2. CASE ring' = MarkRing(ring, step)
    BY <2>2, <1>1, MarkRingProperties DEF Sound
  <2> QED  BY <2>1, <2>2
<1>3. Sound(ring', past', capacity, later) /\ LastLeft(ring') = LastLeft(ring)
  <2>1. Sound(ring', past', capacity, later)
    BY <1>1, <1>2, SoundSame
  <2>2. ring.count \in Nat
    BY DEF TypeOK, IsRing
  <2> QED  BY <1>2, <2>1, <2>2, LastLeftSame
<1>4. ring.count > 0 => EntryAt(ring', 0).identity = EntryAt(ring, 0).identity
  <2>1. ring.count \in Nat
    BY DEF TypeOK, IsRing
  <2>2. ring.count > 0 => ring.count - 1 - 0 \in 0 .. ring.count - 1
    BY <2>1
  <2> QED  BY <2>2, <1>2 DEF EntryAt, Same
<1> QED  BY <1>2, <1>3, <1>4

\* The step under way stays sound when neither its start nor the newest entry moves.
LEMMA StepStays ==
  ASSUME StepSound,
         LastLeft(ring') = LastLeft(ring), ring'.count = ring.count,
         ring.count > 0 => EntryAt(ring', 0).identity = EntryAt(ring, 0).identity,
         step'.pending = step.pending, step'.moved = step.moved,
         step'.registers = step.registers, poke' = poke,
         phase' = phase \/ (phase # "idle" /\ phase' # "idle" /\ ~poke),
         identity' = identity, allocator' = allocator,
         SameStates(open', open)
  PROVE  StepSound'
<1>1. Len(open') = Len(open) /\ (Len(open) = 1 => open'[1].state = open[1].state)
  BY DEF SameStates
<1>2. Underway => Underway'
  BY <1>1 DEF Underway
<1> QED  BY <1>1, <1>2 DEF StepSound

\* A log tells of the same states as itself.
LEMMA SameItself == \A log : SameStates(log, log)
BY DEF SameStates

\* An action that records nothing and ends nothing keeps the invariant.
LEMMA NothingRecorded ==
  ASSUME IInv,
         machine' \in Machines, allocator' = allocator, identity' = identity, capacity' = capacity,
         phase' = phase \/ (phase # "idle" /\ phase' \in {"running", "waiting"}),
         ring' = ring \/ ring' = MarkRing(ring, step),
         step' \in Steps, step'.pending = step.pending, step'.moved = step.moved,
         step'.registers = step.registers,
         poke' = poke, poke_bytes' \in Writes,
         past' \in Seq(LogEntries), SameStates(past', past),
         open' \in Seq(LogEntries), SameStates(open', open), outside' \in Nat
  PROVE  IInv'
<1>1. TypeOK /\ Sound(ring, past, capacity, allocator) /\ StepSound
  BY DEF IInv
<1>2. capacity \in Nat /\ allocator \in Nat
  BY <1>1, HistoryAssumption DEF TypeOK
<1>3. allocator <= allocator
  BY <1>2
<1>4. /\ Sound(ring', past', capacity, allocator)
      /\ LastLeft(ring') = LastLeft(ring) /\ ring'.count = ring.count
      /\ ring.count > 0 => EntryAt(ring', 0).identity = EntryAt(ring, 0).identity
  BY <1>1, <1>2, <1>3, MarkedSound
<1>5. IsRing(ring')
  BY <1>4 DEF Sound
<1>6. TypeOK'
  BY <1>1, <1>5 DEF TypeOK
<1>7. poke => phase = "idle"
  BY <1>1 DEF StepSound
<1>8. StepSound'
  BY <1>1, <1>4, <1>7, StepStays
<1> QED  BY <1>4, <1>6, <1>8 DEF IInv

\* An action that ends the step or Poke under way, or finds none, has only the ring to keep.
LEMMA StepOver ==
  ASSUME machine' \in Machines, allocator' \in Nat, identity' \in Nat, capacity' \in Capacities,
         Sound(ring', past', capacity', allocator'), past' \in Seq(LogEntries), outside' \in Nat,
         phase' = "idle", step' = NoStep, poke' = FALSE, poke_bytes' \in Writes, open' = <<>>
  PROVE  IInv'
<1>1. <<>> \in Seq(LogEntries)
  OBVIOUS
<1>2. IsRing(ring')
  BY DEF Sound
<1>3. TypeOK'
  BY <1>1, <1>2, NoStepTyped DEF TypeOK
<1>4. StepSound'
  BY NoStepTyped DEF StepSound
<1> QED  BY <1>3, <1>4 DEF IInv

\* The ring stays sound when the newest identity is at most a later one.
LEMMA SoundLater ==
  ASSUME TypeOK, Sound(ring, past, capacity, allocator), NEW later \in Nat, allocator <= later
  PROVE  Sound(ring, past, capacity, later)
<1>1. capacity \in Nat /\ allocator \in Nat
  BY HistoryAssumption DEF TypeOK
<1>2. /\ IsRing(ring) /\ Shaped(ring, capacity) /\ HollowFirst(ring) /\ SameStates(past, past)
      /\ \A i \in 0 .. ring.count - 1 : Same(Oldest(ring, i), Oldest(ring, i))
  BY SameItself DEF Sound, Same
<1> QED  BY <1>1, <1>2, SoundSame

\* The newest entry, when it can be undone, and what it is undone with.
LEMMA UndoTyped ==
  ASSUME TypeOK, Sound(ring, past, capacity, allocator), CanUndo
  PROVE  /\ ring.count \in Nat /\ ring.count > 0 /\ ring.hollow < ring.count
         /\ EntryAt(ring, 0) \in Entries /\ EntryAt(ring, 0).after \in Registers
         /\ Before(ring, ring.count - 1) \in Registers
<1>1. /\ ring.count \in Nat /\ ring.hollow \in Nat /\ ring.count > 0
      /\ ring.count - 1 \in 0 .. ring.count - 1 /\ ring.count - 1 - 0 = ring.count - 1
  BY DEF TypeOK, IsRing, CanUndo
<1>2. EntryAt(ring, 0) = Oldest(ring, ring.count - 1)
  BY <1>1 DEF EntryAt
<1>3. ring.hollow < ring.count
  <2>1. ~Oldest(ring, ring.count - 1).hollow
    BY <1>2 DEF CanUndo
  <2>2. Oldest(ring, ring.count - 1).hollow <=> ring.count - 1 < ring.hollow
    BY <1>1 DEF Sound, HollowFirst
  <2> QED  BY <1>1, <2>1, <2>2
<1>4. Oldest(ring, ring.count - 1) \in Entries
  BY <1>1, EntryTyped DEF Sound
<1>5. Oldest(ring, ring.count - 1).after \in Registers
  BY <1>1 DEF Sound, Owned
<1>6. Before(ring, ring.count - 1) \in Registers
  <2>1. past \in Seq(LogEntries) /\ ring.count \in 1 .. Len(past)
    BY <1>1 DEF TypeOK, Sound
  <2>2. past[ring.count] \in LogEntries
    BY <2>1, ElementOfSeq
  <2>3. past[ring.count].state.regs \in Registers
    BY <2>2 DEF LogEntries, Machines
  <2>4. Before(ring, ring.count - 1) = past[ring.count - 1 + 1].state.regs
    BY <1>1 DEF Sound, Chain
  <2>5. ring.count - 1 + 1 = ring.count
    BY <1>1
  <2> QED  BY <2>3, <2>4, <2>5
<1> QED  BY <1>1, <1>2, <1>3, <1>4, <1>5, <1>6

\* A program just loaded is a machine.
LEMMA FreshTyped ==
  ASSUME NEW new \in Fresh
  PROVE  new \in Machines /\ new.regs \in Registers
<1> DEFINE none == {FALSE}
<1> HIDE DEF Registers, none
<1>1. new \in [regs : Registers, mem : [Addrs -> Bytes], dev : Devices,
               exited : none, executed : {0}, stack : {<<>>}]
  BY DEF Fresh, none
<1>2. /\ new = [regs |-> new.regs, mem |-> new.mem, dev |-> new.dev, exited |-> new.exited,
                executed |-> new.executed, stack |-> new.stack]
      /\ new.regs \in Registers /\ new.mem \in [Addrs -> Bytes] /\ new.dev \in Devices
      /\ new.exited \in none /\ new.executed \in {0} /\ new.stack \in {<<>>}
  BY <1>1
<1>3. new.exited \in BOOLEAN
  <2>1. new.exited \in none
    BY <1>2
  <2> QED  BY <2>1, Zenon DEF none
<1>4. new.executed \in Nat /\ new.stack \in Seq(RegValues)
  <2>1. new.executed = 0 /\ new.stack = <<>>
    BY <1>2
  <2>2. <<>> \in Seq(RegValues)
    OBVIOUS
  <2> QED  BY <2>1, <2>2
<1>5. /\ new = [regs |-> new.regs, mem |-> new.mem, dev |-> new.dev, exited |-> new.exited,
                executed |-> new.executed, stack |-> new.stack]
      /\ new.regs \in Registers /\ new.mem \in [Addrs -> Bytes] /\ new.dev \in Devices
      /\ new.exited \in BOOLEAN /\ new.executed \in Nat /\ new.stack \in Seq(RegValues)
  BY <1>2, <1>3, <1>4, Zenon
<1> QED  BY <1>5 DEF Machines

\* The invariant holds at first.
LEMMA InitSound == Init => IInv
<1> SUFFICES ASSUME Init PROVE IInv
  OBVIOUS
<1>1. <<>> \in Seq(RegValues) /\ <<>> \in Writes /\ <<>> \in Seq(LogEntries)
  BY DEF Writes
<1>2. machine \in Machines /\ machine.regs \in Registers
  BY FreshTyped DEF Init
<1>3. capacity \in Nat /\ capacity \in Capacities
  BY HistoryAssumption DEF Init
<1>4. Sound(ring, past, capacity, allocator)
  BY <1>2, <1>3, SoundEmpty DEF Init
<1>5. TypeOK
  BY <1>1, <1>2, <1>3, <1>4, NoStepTyped DEF Init, TypeOK, Sound
<1>6. StepSound
  BY NoStepTyped DEF Init, StepSound
<1> QED  BY <1>4, <1>5, <1>6 DEF IInv

\* Every action keeps the invariant.
LEMMA NextSound == IInv /\ [Next]_vars => IInv'
<1> SUFFICES ASSUME IInv, [Next]_vars PROVE IInv'
  OBVIOUS
<1>1. TypeOK /\ Sound(ring, past, capacity, allocator) /\ StepSound
  BY DEF IInv
<1>2. capacity \in Nat /\ capacity \in Capacities /\ allocator \in Nat /\ identity \in Nat
  BY <1>1, HistoryAssumption DEF TypeOK
<1>3. SameStates(past, past) /\ SameStates(open, open)
  BY SameItself
<1>4. /\ machine \in Machines /\ step \in Steps /\ poke_bytes \in Writes /\ poke \in BOOLEAN
      /\ past \in Seq(LogEntries) /\ open \in Seq(LogEntries) /\ outside \in Nat
  BY <1>1 DEF TypeOK
<1>5. machine.regs \in Registers /\ machine.mem \in [Addrs -> Bytes] /\ machine.stack \in Seq(RegValues)
  BY <1>4 DEF Machines
<1>6. <<>> \in Writes
  BY DEF Writes
<1>7. Outside => outside' \in Nat
  BY <1>4 DEF Outside
\* The instructions.
<1>8. CASE Begin
  <2>1. Snapshot(TRUE, FALSE) \in Steps /\ Snapshot(TRUE, FALSE).pending
        /\ IF Snapshot(TRUE, FALSE).moved THEN Snapshot(TRUE, FALSE).registers = machine.regs
           ELSE LastLeft(ring) = machine.regs
    BY <1>1, SnapshotProperties
  <2>2. /\ allocator' = allocator + 1 /\ identity' = allocator' /\ phase' = "running"
        /\ open' = <<Opened(machine)>> /\ ring' = ring /\ past' = past /\ capacity' = capacity
        /\ machine' = machine /\ poke' = FALSE /\ ~poke /\ poke_bytes' = poke_bytes
        /\ outside' = outside /\ phase = "idle"
        /\ step' = IF capacity = 0 THEN step ELSE Snapshot(TRUE, FALSE)
    BY <1>8, <1>4 DEF Begin, history
  <2>3. open' \in Seq(LogEntries) /\ Len(open') = 1 /\ open'[1].state = machine
    BY <2>2, <1>4, OpenedTyped
  <2>4. Sound(ring', past', capacity', allocator')
    BY <2>2, <1>1, <1>2, SoundLater
  <2>5. TypeOK'
    <3>1. step' \in Steps
      BY <1>4, <2>1, <2>2
    <3>2. allocator' \in Nat /\ identity' \in Nat
      BY <1>2, <2>2
    <3>3. IsRing(ring') /\ capacity' \in Capacities
      BY <1>2, <2>2, <2>4 DEF Sound
    <3> QED  BY <1>4, <2>2, <2>3, <3>1, <3>2, <3>3 DEF TypeOK
  <2>6. ~step.pending
    BY <2>2, <1>1 DEF StepSound
  <2>7. step'.pending => Underway'
    <3>1. LastLeft(ring') = LastLeft(ring)
      BY <2>2
    <3> QED  BY <2>1, <2>2, <2>3, <2>6, <3>1 DEF Underway
  <2>8. ring'.count > 0 => EntryAt(ring', 0).identity < allocator'
    BY <2>2, <1>1, NewestIdentity
  <2>9. StepSound'
    BY <2>2, <2>3, <2>7, <2>8 DEF StepSound
  <2> QED  BY <2>4, <2>5, <2>9 DEF IInv
<1>9. ASSUME NEW a \in Addrs, NEW b \in Bytes, NEW kept \in BOOLEAN, Write(a, b, kept) PROVE IInv'
  <2>1. machine' \in Machines
    BY <1>4, <1>9 DEF Write, Machines
  <2>2. Append(step.writes, [addr |-> a, old |-> machine.mem[a]]) \in Writes
    BY <1>4, <1>5 DEF Steps, Writes
  <2>3. step' \in Steps /\ step'.pending = step.pending /\ step'.moved = step.moved
        /\ step'.registers = step.registers
    BY <1>4, <1>9, <2>2 DEF Write, Steps
  <2> QED  BY <1>3, <1>4, <1>9, <2>1, <2>3, NothingRecorded DEF Write, instruction, history, ghosts
<1>10. ASSUME NEW d \in Devices, Journal(d) PROVE IInv'
  <2>1. machine' \in Machines
    BY <1>4, <1>10 DEF Journal, Machines
  <2>2. Append(step.journal, machine.dev) \in Seq(Devices)
    BY <1>4 DEF Steps, Machines
  <2>3. step' \in Steps /\ step'.pending = step.pending /\ step'.moved = step.moved
        /\ step'.registers = step.registers
    BY <1>4, <1>10, <2>2 DEF Journal, Steps
  <2>4. ring' = ring \/ ring' = MarkRing(ring, step)
    BY <1>10 DEF Journal
  <2> QED  BY <1>3, <1>4, <1>10, <2>1, <2>3, <2>4, NothingRecorded DEF Journal, instruction, ghosts
<1>11. CASE Effect
  <2>1. step' \in Steps /\ step'.pending = step.pending /\ step'.moved = step.moved
        /\ step'.registers = step.registers
    BY <1>4, <1>11 DEF Effect, MarkStep, Steps
  <2>2. past' \in Seq(LogEntries) /\ SameStates(past', past)
    BY <1>4, <1>11, LoseProperties DEF Effect
  <2>3. open' \in Seq(LogEntries) /\ SameStates(open', open)
    BY <1>3, <1>4, <1>11, LoseProperties DEF Effect
  <2>4. /\ machine' = machine /\ phase' = phase /\ allocator' = allocator /\ identity' = identity
        /\ capacity' = capacity /\ ring' = MarkRing(ring, step) /\ poke' = poke
        /\ poke_bytes' = poke_bytes /\ outside' \in Nat
    BY <1>7, <1>11 DEF Effect, instruction
  <2> QED  BY <1>4, <2>1, <2>2, <2>3, <2>4, NothingRecorded
<1>12. ASSUME NEW r \in Registers, Split(r) PROVE IInv'
  <2>1. machine' \in Machines
    BY <1>4, <1>12 DEF Split, Machines
  <2>2. step.parts \o step.writes \in Writes
    BY <1>4 DEF Steps, Writes
  <2>3. step' \in Steps /\ step'.pending = step.pending /\ step'.moved = step.moved
        /\ step'.registers = step.registers
    BY <1>4, <1>6, <1>12, <2>2 DEF Split, Steps
  <2> QED  BY <1>3, <1>4, <1>12, <2>1, <2>3, NothingRecorded DEF Split, instruction, history, ghosts
<1>13. CASE Wait
  BY <1>3, <1>4, <1>13, NothingRecorded DEF Wait, history, ghosts
<1>14. CASE Resume
  BY <1>3, <1>4, <1>14, NothingRecorded DEF Resume, history, ghosts
<1>15. ASSUME NEW r \in Registers, NEW flow, NEW end, Retire(r, flow, end) PROVE IInv'
  <2>1. machine' \in Machines
    <3>1. r["sp"] \in RegValues
      BY HistoryAssumption DEF Registers
    <3>2. Frames(machine.stack, flow, r["sp"]) \in Seq(RegValues)
      BY <3>1, <1>5, FramesTyped
    <3>3. PICK exits \in BOOLEAN, executed \in Nat, stack \in Seq(RegValues) :
            machine' = [machine EXCEPT !.regs = r, !.exited = exits, !.executed = executed,
                                       !.stack = stack]
      <4> DEFINE exits == end \in {"exit", "killed"}
                 executed == IF end \in {"next", "exit"} THEN machine.executed + 1
                             ELSE machine.executed
                 stack == IF step.pending THEN Frames(machine.stack, flow, r["sp"])
                          ELSE machine.stack
      <4>1. exits \in BOOLEAN
        OBVIOUS
      <4>2. executed \in Nat
        BY <1>4 DEF Machines
      <4>3. stack \in Seq(RegValues)
        BY <1>5, <3>2
      <4>4. machine' = [machine EXCEPT !.regs = r, !.exited = exits, !.executed = executed,
                                       !.stack = stack]
        BY <1>4, <1>15 DEF Retire, Machines
      <4> HIDE DEF exits, executed, stack
      <4> QED  BY <4>1, <4>2, <4>3, <4>4
    <3> QED  BY <1>4, <3>3 DEF Machines
  <2>2. /\ phase = "running" /\ allocator' = allocator /\ capacity' = capacity /\ outside' = outside
        /\ poke' = poke /\ poke_bytes' = poke_bytes /\ step' = NoStep /\ phase' = "idle"
        /\ identity' = 0 /\ open' = <<>>
    BY <1>15 DEF Retire
  <2>3. ~poke
    BY <2>2, <1>1 DEF StepSound
  <2>4. past' \in Seq(LogEntries) /\ Sound(ring', past', capacity, allocator)
    <3>1. CASE ~step.pending \/ capacity = 0
      <4>1. ring' = ring /\ past' = past
        BY <3>1, <1>15 DEF Retire, Finish, history
      <4> QED  BY <4>1, <1>1, <1>4
    <3>2. CASE step.pending /\ capacity # 0
      <4>1. /\ Underway /\ identity = allocator
            /\ ring.count > 0 => EntryAt(ring, 0).identity < allocator
        BY <3>2, <1>1 DEF StepSound
      <4>2. step.parts \o step.writes \in Writes /\ step.journal \in Seq(Devices)
        BY <1>4 DEF Steps, Writes
      <4> DEFINE irreversible == \/ step.truncated \/ (step.parts # <<>> /\ TooMuch(step))
                                 \/ step.pending_irreversible \/ end = "handled"
                 exits == end \in {"exit", "killed"}
      <4>3. irreversible \in BOOLEAN /\ exits \in BOOLEAN
        <5>1. irreversible \in BOOLEAN
          BY Zenon
        <5>2. exits \in BOOLEAN
          OBVIOUS
        <5> QED  BY <5>1, <5>2
      <4>4. Finish(r, step.parts \o step.writes, step.journal, irreversible, exits, identity)
        BY <3>2, <1>15 DEF Retire
      <4> HIDE DEF irreversible, exits
      <4>5. allocator <= allocator
        BY <1>2
      <4> QED  BY <1>1, <1>2, <3>2, <4>1, <4>2, <4>3, <4>4, <4>5, FinishSound
    <3> QED  BY <3>1, <3>2
  <2> QED  BY <1>2, <1>4, <2>1, <2>2, <2>3, <2>4, StepOver
<1>16. CASE NativeExit
  <2>1. machine' \in Machines
    BY <1>4, <1>16 DEF NativeExit, Machines
  <2>2. past' \in Seq(LogEntries) /\ SameStates(past', past)
    <3>1. PICK places \in SUBSET Spots : past' = Loosen(past, places)
      BY <1>16, DifferingTyped DEF NativeExit, Spots
    <3> QED  BY <1>4, <3>1, LoosenProperties
  <2>3. /\ phase = "running" /\ allocator' = allocator /\ capacity' = capacity /\ ring' = ring
        /\ poke' = poke /\ poke_bytes' = poke_bytes /\ step' = NoStep /\ phase' = "idle"
        /\ identity' = 0 /\ open' = <<>>
    BY <1>16 DEF NativeExit, history
  <2>4. Sound(ring', past', capacity', allocator')
    BY <1>1, <1>2, <2>2, <2>3, MarkedSound
  <2>5. poke' = FALSE
    BY <1>1, <1>4, <2>3 DEF StepSound
  <2>6. outside' \in Nat
    BY <1>1, <1>16 DEF NativeExit, TypeOK
  <2> QED  BY <1>2, <1>4, <2>1, <2>2, <2>3, <2>4, <2>5, <2>6, StepOver
<1>17. ASSUME NEW r \in Registers, NEW a \in Addrs, NEW b \in Bytes, NEW kills \in BOOLEAN,
              DeliverSignal(r, a, b, kills)
       PROVE  IInv'
  <2>1. machine' \in Machines
    BY <1>4, <1>17 DEF DeliverSignal, Machines
  <2>2. past' \in Seq(LogEntries) /\ SameStates(past', past)
    BY <1>4, <1>17, LoseProperties DEF DeliverSignal
  <2>3. /\ phase' = phase /\ allocator' = allocator /\ identity' = identity
        /\ capacity' = capacity /\ ring' = MarkRing(ring, step) /\ step' = step /\ poke' = poke
        /\ poke_bytes' = poke_bytes /\ open' = open /\ outside' \in Nat
    BY <1>7, <1>17 DEF DeliverSignal, instruction
  <2> QED  BY <1>3, <1>4, <2>1, <2>2, <2>3, NothingRecorded
\* The host.
<1>18. ASSUME NEW r \in RegNames, NEW v \in RegValues, EditRegister(r, v) PROVE IInv'
  <2>1. machine' \in Machines
    BY <1>4, <1>18 DEF EditRegister, Machines, Registers
  <2>2. {r} \in SUBSET Spots
    BY DEF Places, Spots
  <2>3. past' \in Seq(LogEntries) /\ SameStates(past', past)
    BY <1>3, <1>4, <1>18, <2>2, LoosenProperties DEF EditRegister
  <2>4. open' \in Seq(LogEntries) /\ SameStates(open', open)
    BY <1>3, <1>4, <1>18, <2>2, LoosenProperties DEF EditRegister
  <2>5. outside' \in Nat
    BY <1>4, <1>7, <1>18 DEF EditRegister
  <2>6. /\ phase' = phase /\ allocator' = allocator /\ identity' = identity
        /\ capacity' = capacity /\ ring' = ring /\ step' = step /\ poke' = poke
        /\ poke_bytes' = poke_bytes
    BY <1>18 DEF EditRegister, instruction, history
  <2> QED  BY <1>4, <2>1, <2>3, <2>4, <2>5, <2>6, NothingRecorded
<1>19. ASSUME NEW a \in Addrs, NEW b \in Bytes, EditByte(a, b) PROVE IInv'
  <2>1. machine' \in Machines
    BY <1>4, <1>19 DEF EditByte, Machines
  <2>2. {a} \in SUBSET Spots
    BY DEF Places, Spots
  <2>3. past' \in Seq(LogEntries) /\ SameStates(past', past)
    BY <1>3, <1>4, <1>19, <2>2, LoosenProperties DEF EditByte
  <2>4. open' \in Seq(LogEntries) /\ SameStates(open', open)
    BY <1>3, <1>4, <1>19, <2>2, LoosenProperties DEF EditByte
  <2>5. outside' \in Nat
    BY <1>4, <1>7, <1>19 DEF EditByte
  <2>6. poke_bytes' \in Writes
    <3>1. Append(poke_bytes, [addr |-> a, old |-> machine.mem[a]]) \in Writes
      BY <1>4, <1>5 DEF Writes
    <3>2. poke_bytes' = IF poke THEN Append(poke_bytes, [addr |-> a, old |-> machine.mem[a]])
                        ELSE poke_bytes
      BY <1>19 DEF EditByte
    <3> QED  BY <1>4, <3>1, <3>2
  <2>7. /\ phase' = phase /\ allocator' = allocator /\ identity' = identity
        /\ capacity' = capacity /\ ring' = ring /\ step' = step /\ poke' = poke
    BY <1>19 DEF EditByte, instruction, history
  <2> QED  BY <1>4, <2>1, <2>3, <2>4, <2>5, <2>6, <2>7, NothingRecorded
<1>20. CASE BeginPoke
  <2> DEFINE S == Snapshot(FALSE, TRUE)
  <2>1. S \in Steps /\ ~S.pending /\ S.registers = machine.regs
        /\ IF S.moved THEN S.registers = machine.regs ELSE LastLeft(ring) = machine.regs
    BY <1>1, SnapshotProperties
  <2>2. /\ phase = "idle" /\ phase' = phase /\ allocator' = allocator /\ identity' = identity
        /\ open' = <<Opened(machine)>> /\ ring' = ring /\ past' = past /\ capacity' = capacity
        /\ machine' = machine /\ poke' = TRUE /\ poke_bytes' = <<>> /\ outside' = outside
        /\ step' = [S EXCEPT !.pending_irreversible = step.pending_irreversible]
    BY <1>20 DEF BeginPoke, history, instruction
  <2> HIDE DEF S
  <2>3. open' \in Seq(LogEntries) /\ Len(open') = 1 /\ open'[1].state = machine
    BY <2>2, <1>4, OpenedTyped
  <2>4. step' \in Steps /\ ~step'.pending /\ step'.moved = S.moved /\ step'.registers = S.registers
    BY <1>4, <2>1, <2>2 DEF Steps
  <2>5. Sound(ring', past', capacity', allocator')
    BY <2>2, <1>1
  <2>6. TypeOK'
    BY <1>1, <1>4, <1>6, <2>2, <2>3, <2>4 DEF TypeOK
  <2>7. Underway'
    <3>1. LastLeft(ring') = LastLeft(ring)
      BY <2>2
    <3> QED  BY <2>1, <2>2, <2>3, <2>4, <3>1 DEF Underway
  <2>8. StepSound'
    BY <1>5, <2>1, <2>2, <2>3, <2>4, <2>7 DEF StepSound
  <2> QED  BY <2>5, <2>6, <2>8 DEF IInv
<1>21. CASE EndPoke
  <2> DEFINE changed == Overwritten # {} \/ machine.regs # step.registers
  <2>1. /\ poke /\ machine' = machine /\ phase' = phase /\ identity' = identity
        /\ capacity' = capacity /\ outside' = outside /\ step' = NoStep /\ poke' = FALSE
        /\ poke_bytes' = <<>> /\ open' = <<>>
        /\ IF changed
           THEN /\ Finish(machine.regs, PokeWrites, <<>>, step.pending_irreversible, FALSE,
                          allocator + 1)
                /\ allocator' = IF capacity = 0 THEN allocator ELSE allocator + 1
           ELSE ring' = ring /\ past' = past /\ allocator' = allocator
    BY <1>21 DEF EndPoke, history
  <2>2. PokeWrites \in Writes
    BY <1>4, PokeWritesProperties
  <2>3. phase = "idle" /\ Underway
    BY <1>1, <2>1 DEF StepSound
  <2>4. allocator' \in Nat /\ past' \in Seq(LogEntries) /\ Sound(ring', past', capacity, allocator')
    <3>1. CASE ~changed \/ capacity = 0
      <4>1. ring' = ring /\ past' = past /\ allocator' = allocator
        BY <3>1, <2>1 DEF Finish, history
      <4> QED  BY <4>1, <1>1, <1>2, <1>4
    <3>2. CASE changed /\ capacity # 0
      <4>1. /\ Finish(machine.regs, PokeWrites, <<>>, step.pending_irreversible, FALSE,
                       allocator + 1)
            /\ allocator' = allocator + 1
        BY <3>2, <2>1
      <4>2. ring.count > 0 => EntryAt(ring, 0).identity < allocator + 1
        BY <1>1, NewestIdentity
      <4>3. /\ step.pending_irreversible \in BOOLEAN /\ <<>> \in Seq(Devices)
            /\ allocator + 1 \in Nat /\ allocator + 1 <= allocator + 1
        BY <1>2, <1>4 DEF Steps
      <4>4. past' \in Seq(LogEntries) /\ Sound(ring', past', capacity, allocator + 1)
        BY <1>1, <1>2, <1>5, <2>2, <2>3, <3>2, <4>1, <4>2, <4>3, FinishSound
      <4> QED  BY <4>1, <4>3, <4>4
    <3> QED  BY <3>1, <3>2
  <2> QED  BY <1>2, <1>4, <1>6, <2>1, <2>3, <2>4, StepOver
<1>22. CASE Undo
  <2> DEFINE e == EntryAt(ring, 0)
             b == Before(ring, ring.count - 1)
             places == IF poke THEN Differing(machine, open[1].state) ELSE {}
             kept == SubSeq(past, 1, Len(past) - 1)
  <2>1. /\ ring.count \in Nat /\ ring.count > 0 /\ ring.hollow < ring.count
        /\ e \in Entries /\ e.after \in Registers /\ b \in Registers
    BY <1>1, <1>22, UndoTyped DEF Undo
  <2>2. machine' =
          [regs |-> [r \in RegNames |-> IF b[r] # e.after[r] THEN b[r] ELSE machine.regs[r]],
           mem |-> TakenBack(e.writes, machine.mem),
           dev |-> IF e.journal = <<>> THEN machine.dev ELSE Head(e.journal),
           exited |-> machine.exited /\ ~e.exited,
           executed |-> e.instructions_before,
           stack |-> e.stack_before]
    BY <1>22 DEF Undo
  <2>3. /\ ring' = WithoutNewest(ring) /\ step' = NoStep /\ poke' = FALSE /\ poke_bytes' = <<>>
        /\ past' = Loosen(kept, places) /\ open' = <<>> /\ phase = "idle" /\ phase' = phase
        /\ allocator' = allocator /\ identity' = identity /\ capacity' = capacity
        /\ outside' = outside
    BY <1>22 DEF Undo, instruction
  <2> HIDE DEF e, b
  <2>4. machine' \in Machines
    <3>1. [r \in RegNames |-> IF b[r] # e.after[r] THEN b[r] ELSE machine.regs[r]] \in Registers
      BY <2>1, <1>5 DEF Registers
    <3>2. /\ e.writes \in Writes /\ e.journal \in Seq(Devices)
          /\ e.instructions_before \in Nat /\ e.stack_before \in Seq(RegValues)
      BY <2>1 DEF Entries
    <3>3. TakenBack(e.writes, machine.mem) \in [Addrs -> Bytes]
      BY <3>2, <1>5, TakenBackTyped
    <3>4. (IF e.journal = <<>> THEN machine.dev ELSE Head(e.journal)) \in Devices
      BY <1>4, <3>2, HeadTailProperties DEF Machines
    <3>5. (machine.exited /\ ~e.exited) \in BOOLEAN
      BY Zenon
    <3> QED  BY <2>2, <3>1, <3>2, <3>3, <3>4, <3>5 DEF Machines
  <2>5. /\ kept \in Seq(LogEntries) /\ Len(kept) = Len(past) - 1
        /\ \A i \in 1 .. Len(past) - 1 : kept[i] = past[i]
    <3>1. Len(past) = ring.count
      BY <1>1 DEF Sound
    <3>2. \A i \in 1 .. Len(past) - 1 : past[i] \in LogEntries
      BY <1>4, <2>1, <3>1
    <3>3. 1 \in Int /\ Len(past) - 1 \in Int
      BY <2>1, <3>1
    <3>4. /\ kept \in Seq(LogEntries)
          /\ Len(kept) = IF 1 <= Len(past) - 1 THEN Len(past) - 1 - 1 + 1 ELSE 0
          /\ \A i \in 1 .. Len(past) - 1 - 1 + 1 : kept[i] = past[1 + i - 1]
      BY <3>2, <3>3, SubSeqProperties
    <3> QED  BY <2>1, <3>1, <3>4
  <2>6. places \in SUBSET Spots
    BY DifferingTyped
  <2> HIDE DEF kept, places
  <2>7. past' \in Seq(LogEntries) /\ SameStates(past', kept)
    BY <2>3, <2>5, <2>6, LoosenProperties
  <2>8. Len(past') = Len(past) - 1 /\ \A i \in 1 .. Len(past) - 1 : past'[i].state = past[i].state
    BY <2>5, <2>7 DEF SameStates
  <2>9. Sound(ring', past', capacity', allocator')
    BY <1>1, <1>2, <2>1, <2>3, <2>8, SoundUndo
  <2> QED  BY <1>2, <1>4, <1>6, <2>3, <2>4, <2>7, <2>9, StepOver
<1>23. ASSUME NEW size \in Capacities, SetCapacity(size) PROVE IInv'
  <2>1. machine' \in Machines
    <3>1. machine' = [machine EXCEPT !.stack = <<>>] /\ <<>> \in Seq(RegValues)
      BY <1>23 DEF SetCapacity
    <3> QED  BY <1>4, <3>1 DEF Machines
  <2>2. ring.base \in Registers /\ size \in Nat
    BY <1>1, HistoryAssumption DEF TypeOK, IsRing
  <2>3. Sound(ring', past', capacity', allocator')
    BY <1>2, <1>23, <2>2, SoundEmpty DEF SetCapacity, instruction
  <2>4. /\ phase' = "idle" /\ allocator' = allocator /\ identity' = identity
        /\ capacity' = size /\ step' = NoStep /\ poke' = FALSE /\ poke_bytes' = <<>>
        /\ past' = <<>> /\ open' = <<>> /\ outside' \in Nat
    BY <1>7, <1>23 DEF SetCapacity, instruction
  <2>5. past' \in Seq(LogEntries)
    BY <2>4
  <2> QED  BY <1>2, <1>6, <2>1, <2>3, <2>4, <2>5, StepOver
<1>24. ASSUME NEW new \in Fresh, Load(new) PROVE IInv'
  <2>1. machine' \in Machines
    BY <1>24, FreshTyped DEF Load
  <2>2. ring.base \in Registers
    BY <1>1 DEF TypeOK, IsRing
  <2>3. Sound(ring', past', capacity', allocator')
    BY <1>2, <1>24, <2>2, SoundEmpty DEF Load
  <2>4. /\ phase' = "idle" /\ allocator' = allocator /\ identity' = 0
        /\ capacity' = capacity /\ step' = NoStep /\ poke' = FALSE /\ poke_bytes' = <<>>
        /\ past' = <<>> /\ open' = <<>> /\ outside' \in Nat
    BY <1>7, <1>24 DEF Load
  <2>5. past' \in Seq(LogEntries)
    BY <2>4
  <2> QED  BY <1>2, <1>6, <2>1, <2>3, <2>4, <2>5, StepOver
<1>25. CASE UNCHANGED vars
  <2>1. /\ machine' = machine /\ phase' = phase /\ allocator' = allocator /\ identity' = identity
        /\ capacity' = capacity /\ ring' = ring /\ step' = step /\ poke' = poke
        /\ poke_bytes' = poke_bytes /\ past' = past /\ open' = open /\ outside' = outside
    BY <1>25 DEF vars, instruction, history, ghosts
  <2> QED  BY <1>3, <1>4, <2>1, NothingRecorded
<1> QED
  BY <1>8, <1>9, <1>10, <1>11, <1>12, <1>13, <1>14, <1>15, <1>16, <1>17, <1>18, <1>19, <1>20, <1>21,
     <1>22, <1>23, <1>24, <1>25 DEF Next

-----------------------------------------------------------------------------
(* The theorems. *)

\* The inductive invariant holds throughout.
THEOREM InvariantHolds == Spec => []IInv
BY InitSound, NextSound, PTL DEF Spec

\* Every variable keeps its type, for rings of any capacity and budgets of any size.
THEOREM TypesHold == Spec => []TypeOK
<1>1. IInv => TypeOK
  BY DEF IInv
<1> QED  BY <1>1, InvariantHolds, PTL

\* The ring's indices stay in bounds through every growth, drop, undo and clear, a growth
\* never loses an entry, and only the oldest entries are cut to their header, none of
\* which can be undone (Grow, NewEntry, HollowOldest).
THEOREM RingShapeHolds == Spec => []RingShape
<1>1. IInv => RingShape
  BY DEF IInv, Sound, RingShape
<1> QED  BY <1>1, InvariantHolds, PTL

\* The registers each entry started from are found, though an entry keeps only where it
\* ended (Before, TakeBefore, Finish).
THEOREM BeforeChainHolds == Spec => []BeforeChain
<1>1. IInv => BeforeChain
  BY DEF IInv, Sound, Chain, BeforeChain
<1> QED  BY <1>1, InvariantHolds, PTL

\* Identities grow along the ring, so a bisection by identity finds an entry's depth
\* (native-history.ts, depth).
THEOREM IdentitiesGrowHolds == Spec => []IdentitiesGrow
<1>1. IInv => IdentitiesGrow
  <2> SUFFICES ASSUME IInv PROVE IdentitiesGrow
    OBVIOUS
  <2>1. ring.count \in Nat /\ Growing(ring, allocator)
    BY DEF IInv, Sound, TypeOK, IsRing
  <2>2. ring.count - 1 - 0 = ring.count - 1
    BY <2>1
  <2> QED  BY <2>1, <2>2 DEF Growing, IdentitiesGrow, EntryAt
<1> QED  BY <1>1, InvariantHolds, PTL

-----------------------------------------------------------------------------
(***************************************************************************)
(* What the entries keep is counted exactly, whatever the ring's size, the *)
(* cost of an entry and the budget: through growths, drops, reused slots   *)
(* and buffers, hollowing, undo and changes of capacity, `held` is the sum *)
(* of what is kept, and within the budget but for one entry that exceeds   *)
(* it alone.                                                               *)
(*                                                                         *)
(* First the sum over any finite set of places, then over an interval of   *)
(* them, then the parts of NewEntry() in their order, then the actions.    *)
(***************************************************************************)

Cost(R, i) == Charge + Oldest(R, i).allocated

\* What the entries at the places S keep, and at those from m up to and without n.
Spent(R, S) == MapThenSumSet(LAMBDA i : Charge + Oldest(R, i).allocated, S)
KeptBytes(R, m, n) == Spent(R, m .. n - 1)

-----------------------------------------------------------------------------
(* A sum does not depend on the order its elements are chosen in. *)

Pick(s) == CHOOSE x \in s : TRUE
Summed(R, g, S) ==
  g = [s \in SUBSET S |-> IF s = {} THEN 0 ELSE Cost(R, Pick(s)) + g[s \ {Pick(s)}]]
Costs(R, S) == \A i \in S : Cost(R, i) \in Nat

LEMMA SpentIs ==
  ASSUME NEW R, NEW S
  PROVE  Spent(R, S) = (CHOOSE g : Summed(R, g, S))[S]
BY DEF Spent, MapThenSumSet, MapThenFoldSet, Summed, Cost, Pick

LEMMA Picked ==
  ASSUME NEW s, s # {}
  PROVE  Pick(s) \in s
BY DEF Pick

\* One element fewer.
LEMMA Fewer ==
  ASSUME NEW s, IsFiniteSet(s), NEW x \in s
  PROVE  /\ IsFiniteSet(s \ {x}) /\ Cardinality(s \ {x}) \in Nat /\ Cardinality(s) \in Nat
         /\ Cardinality(s \ {x}) < Cardinality(s)
<1>1. IsFiniteSet(s \ {x}) /\ Cardinality(s \ {x}) = Cardinality(s) - 1
  BY FS_RemoveElement
<1>2. Cardinality(s) \in Nat /\ Cardinality(s \ {x}) \in Nat
  BY <1>1, FS_CardinalityType
<1> QED  BY <1>1, <1>2

\* Of the subsets of S that P picks out there is a smallest, here those on which g and h
\* differ or are no number.
LEMMA SumsAgree ==
  ASSUME NEW R, NEW S, NEW T, NEW g, NEW h, Summed(R, g, S), Summed(R, h, T),
         NEW s \in SUBSET S, s \in SUBSET T, IsFiniteSet(s), Costs(R, s)
  PROVE  g[s] = h[s] /\ g[s] \in Nat
<1> DEFINE Bad(t) == t \in SUBSET s /\ ~(g[t] = h[t] /\ g[t] \in Nat)
           B == {Cardinality(t) : t \in {u \in SUBSET s : Bad(u)}}
<1>1. SUFFICES ASSUME Bad(s) PROVE FALSE
  OBVIOUS
<1>2. \A t \in SUBSET s : IsFiniteSet(t) /\ Cardinality(t) \in Nat
  BY FS_Subset, FS_CardinalityType
<1>3. B \in SUBSET Nat /\ B # {}
  BY <1>1, <1>2
<1>4. PICK n \in B : \A m \in B : n <= m
  BY <1>3, Least
<1>5. PICK t \in SUBSET s : Bad(t) /\ Cardinality(t) = n
  OBVIOUS
<1> HIDE DEF B
<1>6. /\ g[t] = IF t = {} THEN 0 ELSE Cost(R, Pick(t)) + g[t \ {Pick(t)}]
      /\ h[t] = IF t = {} THEN 0 ELSE Cost(R, Pick(t)) + h[t \ {Pick(t)}]
  <2>1. t \in SUBSET S /\ t \in SUBSET T
    OBVIOUS
  <2> QED  BY <2>1 DEF Summed
<1>7. t # {}
  BY <1>5, <1>6
<1>8. Pick(t) \in t /\ t \ {Pick(t)} \in SUBSET s /\ Cost(R, Pick(t)) \in Nat
  BY <1>7, Picked DEF Costs
<1>9. Cardinality(t \ {Pick(t)}) < n /\ Cardinality(t \ {Pick(t)}) \in Nat /\ n \in Nat
  BY <1>2, <1>5, <1>8, Fewer
<1>10. ~Bad(t \ {Pick(t)})
  <2>1. ASSUME Bad(t \ {Pick(t)}) PROVE FALSE
    <3>1. Cardinality(t \ {Pick(t)}) \in B
      BY <1>8, <2>1 DEF B
    <3> QED  BY <1>4, <1>9, <3>1
  <2> QED  BY <2>1
<1> QED  BY <1>5, <1>6, <1>7, <1>8, <1>10

\* There is such a sum over every finite set.
LEMMA SumExists ==
  ASSUME NEW R, NEW S, IsFiniteSet(S), Costs(R, S)
  PROVE  \E g : Summed(R, g, S)
<1> DEFINE Good(t) == \E g : Summed(R, g, t)
           B == {Cardinality(t) : t \in {u \in SUBSET S : ~Good(u)}}
<1> HIDE DEF Good
<1>1. SUFFICES ASSUME ~Good(S) PROVE FALSE
  BY DEF Good
<1>2. \A t \in SUBSET S : IsFiniteSet(t) /\ Cardinality(t) \in Nat
  BY FS_Subset, FS_CardinalityType
<1>3. B \in SUBSET Nat /\ B # {}
  BY <1>1, <1>2
<1>4. PICK n \in B : \A m \in B : n <= m
  BY <1>3, Least
<1>5. PICK t \in SUBSET S : ~Good(t) /\ Cardinality(t) = n
  OBVIOUS
<1>6. ASSUME NEW u \in SUBSET t, u # t PROVE Good(u)
  <2>1. PICK x \in t : x \notin u
    BY <1>6
  <2>2. Cardinality(t \ {x}) < n /\ Cardinality(t \ {x}) \in Nat /\ n \in Nat
    BY <1>2, <1>5, <2>1, Fewer
  <2>3. u \in SUBSET (t \ {x}) /\ IsFiniteSet(t \ {x})
    BY <1>2, <2>1
  <2>4. Cardinality(u) <= Cardinality(t \ {x}) /\ Cardinality(u) \in Nat
    BY <1>2, <2>3, FS_Subset
  <2>5. ~(Cardinality(u) \in B)
    BY <1>4, <2>2, <2>4
  <2> QED  BY <2>5
<1> DEFINE Sum(u) == (CHOOSE g : Summed(R, g, u))[u]
           g == [u \in SUBSET t |-> IF u = {} THEN 0 ELSE Cost(R, Pick(u)) + Sum(u \ {Pick(u)})]
<1>7. ASSUME NEW u \in SUBSET t, u # t PROVE Summed(R, CHOOSE h : Summed(R, h, u), u)
  BY <1>6, <1>7 DEF Good
<1>8. ASSUME NEW u \in SUBSET t, u # t PROVE g[u] = Sum(u)
  <2> DEFINE h == CHOOSE k : Summed(R, k, u)
  <2>1. Summed(R, h, u) /\ Sum(u) = h[u]
    BY <1>7, <1>8
  <2> HIDE DEF h
  <2>2. h[u] = IF u = {} THEN 0 ELSE Cost(R, Pick(u)) + h[u \ {Pick(u)}]
    BY <2>1 DEF Summed
  <2>3. CASE u = {}
    BY <2>1, <2>2, <2>3
  <2>4. CASE u # {}
    <3> DEFINE v == u \ {Pick(u)}
               k == CHOOSE f : Summed(R, f, v)
    <3>1. Pick(u) \in u /\ v \in SUBSET u /\ v \in SUBSET t /\ v # t
      BY <2>4, Picked
    <3>2. Summed(R, k, v) /\ Sum(v) = k[v]
      BY <1>7, <3>1
    <3>3. IsFiniteSet(v) /\ Costs(R, v)
      BY <1>2, <3>1 DEF Costs
    <3> HIDE DEF k, v
    <3>4. h[v] = k[v]
      BY <2>1, <3>1, <3>2, <3>3, SumsAgree
    <3> HIDE DEF Sum
    <3>5. g[u] = Cost(R, Pick(u)) + Sum(v)
      BY <2>4 DEF v
    <3>6. h[u] = Cost(R, Pick(u)) + h[v]
      BY <2>2, <2>4 DEF v
    <3> QED  BY <2>1, <3>2, <3>4, <3>5, <3>6
  <2> QED  BY <2>3, <2>4
<1> HIDE DEF Sum
<1>9. ASSUME NEW u \in SUBSET t, u # {}
      PROVE  u \ {Pick(u)} \in SUBSET t /\ u \ {Pick(u)} # t
  BY <1>9, Picked
<1>10. ASSUME NEW u \in SUBSET t, u # {} PROVE g[u \ {Pick(u)}] = Sum(u \ {Pick(u)})
  BY <1>8, <1>9, <1>10
<1>11. g = [u \in SUBSET t |-> IF u = {} THEN 0 ELSE Cost(R, Pick(u)) + g[u \ {Pick(u)}]]
  BY <1>10
<1>12. Good(t)
  BY <1>11 DEF Good, Summed
<1> QED  BY <1>5, <1>12

\* What a set of places keeps: nothing, or what any of them does and the others.
LEMMA SpentProperties ==
  ASSUME NEW R, NEW S, IsFiniteSet(S), Costs(R, S)
  PROVE  /\ Spent(R, S) \in Nat
         /\ S = {} => Spent(R, S) = 0
         /\ \A x \in S : Spent(R, S) = Cost(R, x) + Spent(R, S \ {x})
<1> DEFINE Bad(t) == ~(\A x \in t : Spent(R, t) = Cost(R, x) + Spent(R, t \ {x}))
           B == {Cardinality(t) : t \in {u \in SUBSET S : Bad(u)}}
<1>1. \A t \in SUBSET S : IsFiniteSet(t) /\ Cardinality(t) \in Nat /\ Costs(R, t)
  BY FS_Subset, FS_CardinalityType DEF Costs
<1>2. ASSUME NEW t \in SUBSET S
      PROVE  /\ Spent(R, t) \in Nat
             /\ Spent(R, t) = IF t = {} THEN 0 ELSE Cost(R, Pick(t)) + Spent(R, t \ {Pick(t)})
  <2> DEFINE g == CHOOSE h : Summed(R, h, t)
             v == t \ {Pick(t)}
             k == CHOOSE h : Summed(R, h, v)
  <2>1. Summed(R, g, t) /\ Spent(R, t) = g[t]
    BY <1>1, SumExists, SpentIs
  <2>2. v \in SUBSET t /\ v \in SUBSET S
    OBVIOUS
  <2>3. Summed(R, k, v) /\ Spent(R, v) = k[v]
    BY <1>1, <2>2, SumExists, SpentIs
  <2> HIDE DEF g, k
  <2>4. IsFiniteSet(v) /\ Costs(R, v)
    BY <1>1, <2>2
  <2>5. g[v] = k[v]
    BY <2>1, <2>2, <2>3, <2>4, SumsAgree
  <2>6. g[t] \in Nat
    BY <1>1, <2>1, SumsAgree
  <2>7. g[t] = IF t = {} THEN 0 ELSE Cost(R, Pick(t)) + g[v]
    BY <2>1 DEF Summed
  <2> QED  BY <2>1, <2>3, <2>5, <2>6, <2>7
<1>3. \A t \in SUBSET S : ~Bad(t)
  <2>1. SUFFICES ASSUME NEW w \in SUBSET S, Bad(w) PROVE FALSE
    OBVIOUS
  <2> HIDE DEF Bad
  <2>2. B \in SUBSET Nat /\ B # {}
    BY <1>1, <2>1
  <2>3. PICK n \in B : \A m \in B : n <= m
    BY <2>2, Least
  <2>4. PICK t \in SUBSET S : Bad(t) /\ Cardinality(t) = n
    OBVIOUS
  <2>5. PICK x \in t : Spent(R, t) # Cost(R, x) + Spent(R, t \ {x})
    BY <2>4 DEF Bad
  <2> DEFINE y == Pick(t)
  <2>6. y \in t
    BY <2>5, Picked
  <2> HIDE DEF y
  <2>7. Spent(R, t) = Cost(R, y) + Spent(R, t \ {y})
    BY <1>2, <2>5 DEF y
  <2>8. x # y
    BY <2>5, <2>7
  <2>9. \A z \in t : Cardinality(t \ {z}) < n /\ Cardinality(t \ {z}) \in Nat /\ n \in Nat
    BY <1>1, <2>4, Fewer
  <2>10. \A z \in t : ~Bad(t \ {z})
    <3>1. ASSUME NEW z \in t, Bad(t \ {z}) PROVE FALSE
      <4>1. Cardinality(t \ {z}) \in B
        BY <3>1
      <4> QED  BY <2>3, <2>9, <4>1
    <3> QED  BY <3>1
  <2>11. Spent(R, t \ {y}) = Cost(R, x) + Spent(R, (t \ {y}) \ {x})
    BY <2>6, <2>8, <2>10 DEF Bad
  <2>12. Spent(R, t \ {x}) = Cost(R, y) + Spent(R, (t \ {x}) \ {y})
    BY <2>6, <2>8, <2>10 DEF Bad
  <2>13. (t \ {x}) \ {y} = (t \ {y}) \ {x} /\ (t \ {x}) \ {y} \in SUBSET S
    OBVIOUS
  <2>14. Cost(R, x) \in Nat /\ Cost(R, y) \in Nat /\ Spent(R, (t \ {x}) \ {y}) \in Nat
    BY <1>2, <2>6, <2>13 DEF Costs
  <2> HIDE DEF B
  <2> QED  BY <2>5, <2>7, <2>11, <2>12, <2>13, <2>14
<1> QED  BY <1>2, <1>3

\* Of an interval: the empty one, one more place at its end, one more at its beginning.
LEMMA KeptProperties ==
  ASSUME NEW R, NEW m \in Int, NEW n \in Int, Costs(R, m .. n - 1)
  PROVE  /\ KeptBytes(R, m, n) \in Nat
         /\ n <= m => KeptBytes(R, m, n) = 0
         /\ m < n => /\ KeptBytes(R, m, n) = KeptBytes(R, m, n - 1) + Cost(R, n - 1)
                     /\ KeptBytes(R, m, n) = Cost(R, m) + KeptBytes(R, m + 1, n)
<1> DEFINE S == m .. n - 1
<1>1. IsFiniteSet(S)
  BY FS_Interval
<1>2. /\ Spent(R, S) \in Nat
      /\ S = {} => Spent(R, S) = 0
      /\ \A x \in S : Spent(R, S) = Cost(R, x) + Spent(R, S \ {x})
  BY <1>1, SpentProperties
<1>3. n <= m => S = {}
  OBVIOUS
<1>4. ASSUME m < n
      PROVE  /\ m \in S /\ n - 1 \in S
             /\ S \ {n - 1} = m .. (n - 1) - 1
             /\ S \ {m} = (m + 1) .. n - 1
  BY <1>4
<1>5. ASSUME m < n
      PROVE  /\ Cost(R, n - 1) \in Nat
             /\ Spent(R, S \ {n - 1}) \in Nat
  <2>1. IsFiniteSet(S \ {n - 1}) /\ Costs(R, S \ {n - 1})
    BY <1>1, FS_Subset DEF Costs
  <2> QED  BY <1>4, <1>5, <2>1, SpentProperties DEF Costs
<1>6. KeptBytes(R, m, n) = Spent(R, S) /\ KeptBytes(R, m, n - 1) = Spent(R, m .. (n - 1) - 1)
      /\ KeptBytes(R, m + 1, n) = Spent(R, (m + 1) .. n - 1)
  BY DEF KeptBytes
<1> HIDE DEF S
<1>7. ASSUME m < n
      PROVE  /\ KeptBytes(R, m, n) = KeptBytes(R, m, n - 1) + Cost(R, n - 1)
             /\ KeptBytes(R, m, n) = Cost(R, m) + KeptBytes(R, m + 1, n)
  <2>1. /\ Spent(R, S) = Cost(R, n - 1) + Spent(R, S \ {n - 1})
        /\ Spent(R, S) = Cost(R, m) + Spent(R, S \ {m})
    BY <1>2, <1>4, <1>7
  <2>2. KeptBytes(R, m, n - 1) = Spent(R, S \ {n - 1}) /\ KeptBytes(R, m + 1, n) = Spent(R, S \ {m})
    BY <1>4, <1>6, <1>7
  <2>3. Cost(R, n - 1) \in Nat /\ Spent(R, S \ {n - 1}) \in Nat
    BY <1>5, <1>7
  <2> QED  BY <1>6, <2>1, <2>2, <2>3
<1> QED  BY <1>2, <1>3, <1>6, <1>7

\* Two rings keep as much where their entries do, d places on.
Alike(R, Q, m, n, d) == \A i \in m .. n - 1 : Cost(Q, i) = Cost(R, i + d)
LEMMA KeptSame ==
  ASSUME NEW R, NEW Q, NEW m \in Int, NEW n \in Int, NEW d \in Int, NEW a \in Int, NEW b \in Int,
         a = m + d, b = n + d, Costs(R, a .. b - 1), Alike(R, Q, m, n, d)
  PROVE  KeptBytes(Q, m, n) = KeptBytes(R, a, b)
<1> SUFFICES KeptBytes(Q, m, n) = KeptBytes(R, m + d, n + d)
  OBVIOUS
<1>0. /\ Costs(R, m + d .. (n + d) - 1)
      /\ \A i \in m .. n - 1 : Cost(Q, i) = Cost(R, i + d)
  BY DEF Alike
<1> DEFINE Bad(k) == KeptBytes(Q, m, m + k) # KeptBytes(R, m + d, (m + k) + d)
           B == {k \in Nat : m + k <= n /\ Bad(k)}
<1>1. ASSUME NEW k \in Int, k <= n
      PROVE  /\ Costs(R, m + d .. (k + d) - 1) /\ Costs(Q, m .. k - 1)
             /\ k + d \in Int /\ m + d \in Int
  <2>1. \A i \in m + d .. (k + d) - 1 : i \in m + d .. (n + d) - 1
    BY <1>1
  <2>2. \A i \in m .. k - 1 : i \in m .. n - 1 /\ i + d \in m + d .. (n + d) - 1
    BY <1>1
  <2> QED  BY <1>0, <2>1, <2>2 DEF Costs
<1>2. CASE n <= m
  <2>1. n + d <= m + d
    BY <1>2
  <2>2. KeptBytes(Q, m, n) = 0
    BY <1>1, <1>2, KeptProperties
  <2>3. KeptBytes(R, m + d, n + d) = 0
    BY <1>1, <1>2, <2>1, KeptProperties
  <2> QED  BY <2>2, <2>3
<1>3. CASE m < n
  <2>0. ASSUME B = {} PROVE KeptBytes(Q, m, n) = KeptBytes(R, m + d, n + d)
    <3>1. PICK p \in Nat : m + p = n
      <4>1. n - m \in Nat /\ m + (n - m) = n
        BY <1>3
      <4> QED  BY <4>1
    <3> HIDE DEF Bad
    <3>2. m + p <= n
      BY <3>1
    <3>3. p \notin B
      BY <2>0
    <3>4. ~Bad(p)
      BY <3>2, <3>3
    <3> USE DEF Bad
    <3> QED  BY <3>1, <3>4
  <2>1. SUFFICES ASSUME B # {} PROVE FALSE
    BY <2>0
  <2>2. PICK k \in B : \A j \in B : k <= j
    BY <2>1, Least
  <2>3. k \in Nat /\ m + k <= n /\ Bad(k)
    OBVIOUS
  <2>4. k # 0
    <3>1. m + 0 = m /\ (m + 0) + d = m + d
      OBVIOUS
    <3>2. KeptBytes(Q, m, m) = 0
      BY <1>1, <1>3, KeptProperties
    <3>3. KeptBytes(R, m + d, m + d) = 0
      BY <1>1, <1>3, KeptProperties
    <3> QED  BY <2>3, <3>1, <3>2, <3>3
  <2>5. ~Bad(k - 1)
    <3>1. k - 1 \in Nat /\ m + (k - 1) <= n /\ ~(k <= k - 1)
      BY <2>3, <2>4
    <3>2. k - 1 \notin B
      BY <2>2, <3>1
    <3> QED  BY <3>1, <3>2
  <2>6. PICK e \in Int : e = m + k
    OBVIOUS
  <2>7. /\ m < e /\ e <= n /\ m + (k - 1) = e - 1 /\ (m + (k - 1)) + d = (e + d) - 1
        /\ m + d < e + d
        /\ e - 1 \in m .. n - 1 /\ (e - 1) + d = (e + d) - 1
    BY <2>3, <2>4, <2>6
  <2> HIDE DEF B
  <2>8. KeptBytes(Q, m, e) = KeptBytes(Q, m, e - 1) + Cost(Q, e - 1)
    BY <1>1, <2>7, KeptProperties
  <2>9. KeptBytes(R, m + d, e + d) = KeptBytes(R, m + d, (e + d) - 1) + Cost(R, (e + d) - 1)
    BY <1>1, <2>7, KeptProperties
  <2>10. Cost(Q, e - 1) = Cost(R, (e + d) - 1)
    BY <1>0, <2>7
  <2>11. KeptBytes(Q, m, e - 1) = KeptBytes(R, m + d, (e + d) - 1)
    BY <2>5, <2>7
  <2> QED  BY <2>3, <2>6, <2>8, <2>9, <2>10, <2>11
<1> QED  BY <1>2, <1>3

\* An interval is cut in two.
LEMMA KeptCut ==
  ASSUME NEW R, NEW m \in Int, NEW k \in Int, NEW n \in Int, m <= k, k <= n, Costs(R, m .. n - 1)
  PROVE  KeptBytes(R, m, n) = KeptBytes(R, m, k) + KeptBytes(R, k, n)
<1> DEFINE Bad(j) == KeptBytes(R, m, k + j) # KeptBytes(R, m, k) + KeptBytes(R, k, k + j)
           B == {j \in Nat : k + j <= n /\ Bad(j)}
<1>1. ASSUME NEW e \in Int, e <= n
      PROVE  Costs(R, m .. e - 1) /\ Costs(R, k .. e - 1)
  <2>1. \A i \in m .. e - 1 : i \in m .. n - 1
    BY <1>1
  <2>2. \A i \in k .. e - 1 : i \in m .. n - 1
    BY <1>1
  <2> QED  BY <2>1, <2>2 DEF Costs
<1>0. ASSUME B = {} PROVE KeptBytes(R, m, n) = KeptBytes(R, m, k) + KeptBytes(R, k, n)
  <2>1. PICK p \in Nat : k + p = n
    <3>1. n - k \in Nat /\ k + (n - k) = n
      OBVIOUS
    <3> QED  BY <3>1
  <2> HIDE DEF Bad
  <2>2. k + p <= n
    BY <2>1
  <2>3. p \notin B
    BY <1>0
  <2>4. ~Bad(p)
    BY <2>2, <2>3
  <2> USE DEF Bad
  <2> QED  BY <2>1, <2>4
<1>2. SUFFICES ASSUME B # {} PROVE FALSE
  BY <1>0
<1>3. PICK j \in B : \A i \in B : j <= i
  BY <1>2, Least
<1>4. j \in Nat /\ k + j <= n /\ Bad(j)
  OBVIOUS
<1>5. j # 0
  <2>1. k + 0 = k
    OBVIOUS
  <2>2. KeptBytes(R, k, k) = 0
    BY <1>1, KeptProperties
  <2>3. KeptBytes(R, m, k) \in Nat
    BY <1>1, KeptProperties
  <2> QED  BY <1>4, <2>1, <2>2, <2>3
<1>6. ~Bad(j - 1)
  <2>1. j - 1 \in Nat /\ k + (j - 1) <= n /\ ~(j <= j - 1)
    BY <1>4, <1>5
  <2>2. j - 1 \notin B
    BY <1>3, <2>1
  <2> QED  BY <2>1, <2>2
<1>7. PICK e \in Int : e = k + j
  OBVIOUS
<1>8. m < e /\ k < e /\ e <= n /\ k + (j - 1) = e - 1 /\ e - 1 <= n
  BY <1>4, <1>5, <1>7
<1> HIDE DEF B
<1>9. KeptBytes(R, m, e) = KeptBytes(R, m, e - 1) + Cost(R, e - 1)
  BY <1>1, <1>8, KeptProperties
<1>10. KeptBytes(R, k, e) = KeptBytes(R, k, e - 1) + Cost(R, e - 1)
  BY <1>1, <1>8, KeptProperties
<1>11. KeptBytes(R, m, e - 1) = KeptBytes(R, m, k) + KeptBytes(R, k, e - 1)
  BY <1>6, <1>8
<1>12. KeptBytes(R, m, k) \in Nat /\ KeptBytes(R, k, e - 1) \in Nat /\ Cost(R, e - 1) \in Nat
  <2>1. e - 1 \in Int /\ e - 1 \in m .. n - 1
    BY <1>8
  <2> QED  BY <1>1, <1>8, <2>1, KeptProperties DEF Costs
<1> QED  BY <1>4, <1>7, <1>9, <1>10, <1>11, <1>12

LEMMA KeptEqual ==
  ASSUME NEW R, NEW Q, NEW m \in Int, NEW n \in Int, Costs(R, m .. n - 1),
         \A i \in m .. n - 1 : Cost(Q, i) = Cost(R, i)
  PROVE  KeptBytes(Q, m, n) = KeptBytes(R, m, n)
<1>1. /\ \A i \in m .. n - 1 : i + 0 = i
      /\ 0 \in Int /\ m = m + 0 /\ n = n + 0
  OBVIOUS
<1>2. Alike(R, Q, m, n, 0)
  BY <1>1 DEF Alike
<1> QED  BY <1>1, <1>2, KeptSame

-----------------------------------------------------------------------------
(* The budget of a ring, through the parts of NewEntry() in their order. *)

\* No entry is in the slot s.
Free(R, s) == \A i \in 0 .. R.count - 1 : s # Slot(R, i)

\* The free slots hold nothing; but for the next to be taken, which is NewEntry()'s after a drop.
FreeVacant(R) == \A s \in 0 .. R.slots - 1 : Free(R, s) => R.entries[s] = Vacant
OthersVacant(R) ==
  \A s \in 0 .. R.slots - 1 : Free(R, s) /\ s # Slot(R, R.count) => R.entries[s] = Vacant

Exact(R, h) == h = KeptBytes(R, R.hollow, R.count)
Within(R, h) == h <= Budget \/ R.hollow + 1 >= R.count
Budgeted(R, h) == Exact(R, h) /\ Within(R, h) /\ FreeVacant(R)

LEMMA BudgetExactIs == Budgeted(ring, held) <=> BudgetExact
BY DEF Budgeted, BudgetExact, Exact, HeldExact, Within, BudgetKept, FreeVacant, Free,
       FreeSlotsVacant, KeptBytes, Spent

\* What an entry costs is a number.
LEMMA RingCosts ==
  ASSUME NEW R, NEW cap, IsRing(R), Shaped(R, cap), NEW m \in Nat, NEW n \in Int, n <= R.count
  PROVE  Costs(R, m .. n - 1)
<1>1. ASSUME NEW i \in m .. n - 1 PROVE Cost(R, i) \in Nat
  <2>1. i \in 0 .. R.count - 1
    BY DEF IsRing
  <2>2. Oldest(R, i) \in Entries
    BY <2>1, EntryTyped
  <2>3. Oldest(R, i).allocated \in Nat /\ Charge \in Nat
    BY <2>2, HistoryAssumption DEF Entries
  <2> QED  BY <2>3 DEF Cost
<1> QED  BY <1>1 DEF Costs

\* A ring whose entries keep their buffers keeps as much.
LEMMA SameRoomExact ==
  ASSUME NEW R, NEW cap, IsRing(R), Shaped(R, cap), NEW Q, NEW h, Exact(R, h),
         Q.count = R.count, Q.hollow = R.hollow,
         \A i \in 0 .. R.count - 1 : Oldest(Q, i).allocated = Oldest(R, i).allocated
  PROVE  Exact(Q, h)
<1>1. /\ R.count \in Int /\ R.hollow \in Int /\ R.hollow \in Nat /\ R.count <= R.count
  BY DEF IsRing
<1>2. Costs(R, R.hollow .. R.count - 1)
  BY <1>1, RingCosts
<1>3. \A i \in R.hollow .. R.count - 1 : Cost(Q, i) = Cost(R, i)
  <2>1. \A i \in R.hollow .. R.count - 1 : i \in 0 .. R.count - 1
    BY <1>1
  <2> QED  BY <2>1 DEF Cost
<1>4. KeptBytes(Q, R.hollow, R.count) = KeptBytes(R, R.hollow, R.count)
  BY <1>1, <1>2, <1>3, KeptEqual
<1> QED  BY <1>4 DEF Exact

\* Every slot is some place's.
LEMMA SlotOnto ==
  ASSUME NEW R, NEW cap, IsRing(R), Shaped(R, cap), NEW s \in 0 .. R.slots - 1
  PROVE  \E i \in 0 .. R.slots - 1 : Slot(R, i) = s
<1>1. /\ R.slots \in Nat /\ R.start \in Nat /\ R.start < R.slots
  BY DEF IsRing, Shaped
<1>2. CASE s >= R.start
  <2>1. s - R.start \in 0 .. R.slots - 1 /\ Slot(R, s - R.start) = s
    BY <1>1, <1>2 DEF Slot
  <2> QED  BY <2>1
<1>3. CASE s < R.start
  <2> DEFINE i == s - R.start + R.slots
  <2>1. i \in 0 .. R.slots - 1 /\ R.start + i = s + R.slots
    BY <1>1, <1>3
  <2>2. Slot(R, i) = s
    BY <1>1, <2>1 DEF Slot
  <2> QED  BY <2>1, <2>2
<1> QED  BY <1>1, <1>2, <1>3

\* A ring that grows keeps its entries and has new slots free.
LEMMA GrowBudgeted ==
  ASSUME NEW R, NEW cap \in Nat, IsRing(R), Shaped(R, cap), NEW h, Budgeted(R, h),
         NEW G, G = Grow(R, cap)
  PROVE  Budgeted(G, h)
<1>1. /\ IsRing(G) /\ Shaped(G, cap) /\ G.count = R.count /\ G.hollow = R.hollow
      /\ \A i \in 0 .. R.count - 1 : Oldest(G, i) = Oldest(R, i)
  BY GrowProperties
<1>2. Exact(G, h) /\ Within(G, h)
  BY <1>1, SameRoomExact DEF Budgeted, Within
<1>3. FreeVacant(G)
  <2>1. CASE ~(R.count = R.slots /\ R.slots < cap)
    BY <2>1 DEF Grow, Budgeted
  <2>2. CASE R.count = R.slots /\ R.slots < cap
    <3> DEFINE size == IF R.slots = 0 THEN (IF cap < FirstSlots THEN cap ELSE FirstSlots)
                       ELSE IF R.slots > cap \div 2 THEN cap ELSE R.slots * 2
               moved == [i \in 0 .. size - 1 |-> IF i < R.count THEN Oldest(R, i) ELSE Vacant]
    <3>1. G = [R EXCEPT !.slots = size, !.start = 0, !.entries = moved]
      BY <2>2 DEF Grow
    <3> HIDE DEF size
    <3>2. G.slots = size /\ G.start = 0 /\ G.entries = moved
      BY <3>1 DEF IsRing
    <3> HIDE DEF moved
    <3>3. ASSUME NEW s \in 0 .. G.slots - 1, Free(G, s) PROVE G.entries[s] = Vacant
      <4>1. G.slots \in Nat /\ R.count \in Nat
        BY <1>1 DEF IsRing
      <4>2. Slot(G, s) = s
        BY <3>2, <4>1 DEF Slot
      <4>3. ~(s < R.count)
        BY <1>1, <3>3, <4>1, <4>2 DEF Free
      <4> QED  BY <3>2, <4>1, <4>3 DEF moved
    <3> QED  BY <3>3 DEF FreeVacant
  <2> QED  BY <2>1, <2>2
<1> QED  BY <1>2, <1>3 DEF Budgeted

\* A full ring that gives up its oldest entry gives up what that kept, which a hollow one's
\* header no longer counts for.
LEMMA DropExact ==
  ASSUME NEW R, NEW cap \in Nat, IsRing(R), Shaped(R, cap), Owned(R), R.count = cap, cap > 0,
         NEW h, Exact(R, h), NEW D, D = DropOldest(R, cap)
  PROVE  Exact(D, DroppedHeld(R, cap, h)) /\ OthersVacant(D)
<1>1. /\ IsRing(D) /\ Shaped(D, cap) /\ D.count = R.count - 1
      /\ \A i \in 0 .. D.count - 1 : Oldest(D, i) = Oldest(R, i + 1)
      /\ D.count < D.slots
  BY DropProperties
<1>2. D.hollow = IF R.hollow > 0 THEN R.hollow - 1 ELSE 0
  BY DEF DropOldest, IsRing
<1>3. /\ R.count \in Nat /\ R.hollow \in Nat /\ R.hollow <= R.count /\ R.count > 0
      /\ D.hollow \in Nat /\ D.hollow <= D.count /\ D.count \in Nat
      /\ 1 \in Int
  BY <1>1 DEF IsRing, Shaped
<1> DEFINE a == D.hollow + 1
<1>4. a = D.hollow + 1 /\ KeptBytes(D, D.hollow, D.count) = KeptBytes(R, a, R.count)
  <2>1. /\ a \in Nat /\ a \in Int /\ a = D.hollow + 1 /\ R.count = D.count + 1
        /\ R.count \in Int /\ R.count <= R.count /\ D.hollow \in Int /\ D.count \in Int
    BY <1>1, <1>3
  <2> HIDE DEF a
  <2>2. Costs(R, a .. R.count - 1)
    BY <2>1, RingCosts
  <2>3. Alike(R, D, D.hollow, D.count, 1)
    <3>1. \A i \in D.hollow .. D.count - 1 : i \in 0 .. D.count - 1
      BY <1>3
    <3> QED  BY <1>1, <3>1 DEF Cost, Alike
  <2> QED  BY <1>3, <2>1, <2>2, <2>3, KeptSame
<1> HIDE DEF a
<1>5. Exact(D, DroppedHeld(R, cap, h))
  <2>1. D.count + 1 = R.count
    BY <1>1, <1>3
  <2>2. CASE R.hollow > 0
    <3>1. D.hollow + 1 = R.hollow /\ DroppedHeld(R, cap, h) = h
      BY <1>2, <1>3, <2>2 DEF DroppedHeld
    <3> QED  BY <1>4, <3>1 DEF Exact
  <2>3. CASE R.hollow = 0
    <3>1. D.hollow = 0 /\ DroppedHeld(R, cap, h) = h - Cost(R, 0)
      BY <1>2, <2>3 DEF DroppedHeld, Cost
    <3>2. 0 \in Nat /\ R.count \in Int /\ R.count <= R.count /\ 0 < R.count /\ 0 + 1 = 1
      BY <1>3
    <3>3. Costs(R, 0 .. R.count - 1)
      BY <3>2, RingCosts
    <3>4. KeptBytes(R, 0, R.count) = Cost(R, 0) + KeptBytes(R, 0 + 1, R.count)
      BY <3>2, <3>3, KeptProperties
    <3>5. Cost(R, 0) \in Nat
      BY <3>2, <3>3 DEF Costs
    <3>6. Costs(R, 1 .. R.count - 1)
      BY <3>2, RingCosts
    <3>7. KeptBytes(R, 1, R.count) \in Nat
      BY <1>3, <3>2, <3>6, KeptProperties
    <3> QED  BY <1>4, <2>1, <2>3, <3>1, <3>2, <3>4, <3>5, <3>7 DEF Exact
  <2> QED  BY <1>3, <2>2, <2>3
<1>6. OthersVacant(D)
  <2>1. D.count + 1 = D.slots
    BY <1>1, <1>3 DEF IsRing, Shaped
  <2>2. ASSUME NEW s \in 0 .. D.slots - 1, Free(D, s), s # Slot(D, D.count) PROVE FALSE
    <3>1. PICK i \in 0 .. D.slots - 1 : Slot(D, i) = s
      BY <1>1, SlotOnto
    <3>2. i \in 0 .. D.count - 1 \/ i = D.count
      BY <1>3, <2>1
    <3> QED  BY <2>2, <3>1, <3>2 DEF Free
  <2> QED  BY <2>2 DEF OthersVacant
<1> QED  BY <1>5, <1>6

\* Hollowing cuts the entries from the oldest that is not hollow, and no other slot.
LEMMA HollowExact ==
  ASSUME NEW R, NEW cap \in Nat, IsRing(R), Shaped(R, cap), NEW n \in R.hollow .. R.count,
         NEW h, Exact(R, h), OthersVacant(R), NEW H, H = HollowTo(R, n)
  PROVE  Exact(H, h - Freed(R, n)) /\ OthersVacant(H) /\ KeptBytes(R, n, R.count) \in Nat
<1> DEFINE Cut(s) == \E i \in R.hollow .. n - 1 : s = Slot(R, i)
           cut == [s \in 0 .. R.slots - 1 |-> IF Cut(s) THEN Hollow(R.entries[s]) ELSE R.entries[s]]
<1>1. H = [R EXCEPT !.hollow = n, !.entries = cut]
  BY DEF HollowTo
<1>2. /\ n \in Nat /\ n <= R.count /\ R.hollow <= n /\ R.hollow \in Nat /\ R.count \in Nat
      /\ R.slots \in Nat /\ R.count <= R.slots
  BY DEF IsRing, Shaped
<1> HIDE DEF Cut
<1>3. \A s \in 0 .. R.slots - 1 : ~Cut(s) => cut[s] = R.entries[s]
  OBVIOUS
<1> HIDE DEF cut
<1>4. /\ H.slots = R.slots /\ H.start = R.start /\ H.entries = cut
      /\ H.count = R.count /\ H.hollow = n
  BY <1>1 DEF IsRing
<1>5. \A i : Slot(H, i) = Slot(R, i)
  BY <1>4 DEF Slot
<1>6. \A i \in 0 .. R.slots - 1 : Slot(R, i) \in 0 .. R.slots - 1
  BY SlotProperties
<1>7. ASSUME NEW i \in n .. R.count - 1 PROVE Oldest(H, i) = Oldest(R, i)
  <2>1. i \in 0 .. R.slots - 1 /\ \A j \in R.hollow .. n - 1 : j \in 0 .. R.slots - 1 /\ j # i
    BY <1>2
  <2>2. ~Cut(Slot(R, i))
    BY <2>1, SlotProperties DEF Cut
  <2> QED  BY <1>3, <1>4, <1>5, <1>6, <2>1, <2>2 DEF Oldest
<1>8. Costs(R, R.hollow .. R.count - 1) /\ Costs(R, n .. R.count - 1) /\ Costs(R, R.hollow .. n - 1)
  <2>1. R.count \in Int /\ n \in Int /\ R.count <= R.count
    BY <1>2
  <2> QED  BY <1>2, <2>1, RingCosts
<1>9. KeptBytes(R, R.hollow, R.count) = KeptBytes(R, R.hollow, n) + KeptBytes(R, n, R.count)
  <2>1. R.hollow \in Int /\ n \in Int /\ R.count \in Int
    BY <1>2
  <2> QED  BY <1>2, <1>8, <2>1, KeptCut
<1>10. KeptBytes(R, R.hollow, n) \in Nat /\ KeptBytes(R, n, R.count) \in Nat
  <2>1. R.hollow \in Int /\ n \in Int /\ R.count \in Int
    BY <1>2
  <2> QED  BY <1>8, <2>1, KeptProperties
<1>11. KeptBytes(H, n, R.count) = KeptBytes(R, n, R.count)
  <2>1. n \in Int /\ R.count \in Int
    BY <1>2
  <2>2. \A i \in n .. R.count - 1 : Cost(H, i) = Cost(R, i)
    BY <1>7 DEF Cost
  <2> QED  BY <1>8, <2>1, <2>2, KeptEqual
<1>12. Freed(R, n) = KeptBytes(R, R.hollow, n)
  BY DEF Freed, KeptBytes, Spent
<1>13. Exact(H, h - Freed(R, n))
  BY <1>4, <1>9, <1>10, <1>11, <1>12 DEF Exact
<1>14. OthersVacant(H)
  <2>1. ASSUME NEW s \in 0 .. R.slots - 1, Free(R, s) PROVE ~Cut(s)
    <3>1. \A i \in R.hollow .. n - 1 : i \in 0 .. R.count - 1
      BY <1>2
    <3> QED  BY <2>1, <3>1 DEF Free, Cut
  <2>2. \A s : Free(H, s) <=> Free(R, s)
    BY <1>4, <1>5 DEF Free
  <2>3. \A s \in 0 .. R.slots - 1 : Free(R, s) => cut[s] = R.entries[s]
    BY <1>3, <2>1
  <2> QED  BY <1>4, <1>5, <2>2, <2>3 DEF OthersVacant
<1> QED  BY <1>10, <1>13, <1>14

\* The new entry goes into the one free slot that may hold something, and counts.
LEMMA NewestBudgeted ==
  ASSUME NEW R, NEW cap \in Nat, IsRing(R), Shaped(R, cap), R.count < R.slots,
         NEW e \in Entries, NEW h, Exact(R, h), OthersVacant(R),
         NEW W, W = WithNewest(R, e)
  PROVE  Exact(W, h + Charge + e.allocated) /\ FreeVacant(W)
<1>1. /\ IsRing(W) /\ Shaped(W, cap) /\ W.count = R.count + 1
      /\ Oldest(W, R.count) = e
      /\ \A i \in 0 .. R.count - 1 : Oldest(W, i) = Oldest(R, i)
  BY NewestProperties
<1>2. /\ W.slots = R.slots /\ W.start = R.start /\ W.hollow = R.hollow
      /\ W.entries = [R.entries EXCEPT ![Slot(R, R.count)] = e]
  BY DEF WithNewest, IsRing
<1>3. /\ R.hollow \in Nat /\ R.count \in Nat /\ R.hollow <= R.count
      /\ R.hollow \in Int /\ R.count \in Int /\ W.count \in Int /\ W.count - 1 = R.count
      /\ R.hollow < W.count /\ W.count <= W.count /\ R.count <= R.count
  BY <1>1 DEF IsRing, Shaped
<1>4. Costs(R, R.hollow .. R.count - 1) /\ Costs(W, R.hollow .. W.count - 1)
  BY <1>1, <1>3, RingCosts
<1>5. KeptBytes(W, R.hollow, W.count) = KeptBytes(W, R.hollow, W.count - 1) + Cost(W, W.count - 1)
  BY <1>3, <1>4, KeptProperties
<1>6. KeptBytes(W, R.hollow, R.count) = KeptBytes(R, R.hollow, R.count)
  <2>1. \A i \in R.hollow .. R.count - 1 : i \in 0 .. R.count - 1
    BY <1>3
  <2>2. \A i \in R.hollow .. R.count - 1 : Cost(W, i) = Cost(R, i)
    BY <1>1, <2>1 DEF Cost
  <2> QED  BY <1>3, <1>4, <2>2, KeptEqual
<1>7. Cost(W, R.count) = Charge + e.allocated
  BY <1>1 DEF Cost
<1>8. KeptBytes(R, R.hollow, R.count) \in Nat /\ Charge \in Nat /\ e.allocated \in Nat
  BY <1>3, <1>4, KeptProperties, HistoryAssumption DEF Entries
<1>9. Exact(W, h + Charge + e.allocated)
  BY <1>2, <1>3, <1>5, <1>6, <1>7, <1>8 DEF Exact
<1>10. FreeVacant(W)
  <2>1. ASSUME NEW s \in 0 .. R.slots - 1, Free(W, s)
        PROVE  Free(R, s) /\ s # Slot(R, R.count)
    <3>1. \A i : Slot(W, i) = Slot(R, i)
      BY <1>2 DEF Slot
    <3>2. /\ R.count \in 0 .. W.count - 1
          /\ \A i \in 0 .. R.count - 1 : i \in 0 .. W.count - 1
      BY <1>3
    <3> QED  BY <2>1, <3>1, <3>2 DEF Free
  <2>2. \A s \in 0 .. R.slots - 1 : s # Slot(R, R.count) => W.entries[s] = R.entries[s]
    BY <1>2 DEF IsRing
  <2> QED  BY <1>2, <2>1, <2>2 DEF FreeVacant, OthersVacant
<1> QED  BY <1>9, <1>10

\* A count of hollow entries that lets an entry of that cost in, or leaves none to hollow.
LEMMA HollowUntilFitsFits ==
  ASSUME NEW R, NEW cap \in Nat, IsRing(R), Shaped(R, cap), NEW h, NEW cost,
         NEW n, n = HollowUntilFits(R, h, cost)
  PROVE  n = R.count \/ h - Freed(R, n) + cost <= Budget
<1> DEFINE Fits(k) == k = R.count \/ h - Freed(R, k) + cost <= Budget
           S == {k \in R.hollow .. R.count : Fits(k)}
<1>1. R.count \in S /\ S \subseteq Nat
  BY DEF IsRing, Shaped
<1> HIDE DEF Fits
<1>2. PICK m \in S : \A k \in S : m <= k
  BY <1>1, Least
<1>3. m \in R.hollow .. R.count /\ Fits(m) /\ \A k \in R.hollow .. m - 1 : ~Fits(k)
  BY <1>1, <1>2 DEF IsRing, Shaped
<1>4. n = CHOOSE k \in R.hollow .. R.count : Fits(k) /\ \A j \in R.hollow .. k - 1 : ~Fits(j)
  BY DEF HollowUntilFits, Fits
<1>5. Fits(n)
  BY <1>3, <1>4
<1> QED  BY <1>5 DEF Fits

\* NewEntry() keeps the count exact and the budget, unless the entry alone exceeds it.
LEMMA NewEntryBudgeted ==
  ASSUME NEW cap \in Nat \ {0}, IsRing(ring), Shaped(ring, cap), Owned(ring),
         Budgeted(ring, held), NEW e \in Entries, NEW tail \in Nat,
         NEW new, new = NewEntry(cap, e, tail)
  PROVE  Budgeted(new.ring, new.held)
<1> DEFINE G == Grow(ring, cap)
           D == DropOldest(G, cap)
           h == DroppedHeld(G, cap, held)
           room == Room(tail, D.entries[Slot(D, D.count)].allocated)
           n == HollowUntilFits(D, h, Charge + room)
           H == HollowTo(D, n)
           f == [e EXCEPT !.allocated = room]
           left == h - Freed(D, n)
<1>1. new.ring = WithNewest(H, f) /\ new.held = left + Charge + room
  BY DEF NewEntry
<1> HIDE DEF G
<1>2. /\ IsRing(G) /\ Shaped(G, cap) /\ G.count = ring.count
      /\ \A i \in 0 .. ring.count - 1 : Oldest(G, i) = Oldest(ring, i)
      /\ G.count < cap => G.count < G.slots
  BY GrowProperties DEF G
<1>3. Budgeted(G, held) /\ Owned(G)
  BY <1>2, GrowBudgeted DEF G, Owned
<1>4. ring.count \in Nat /\ ring.count <= cap
  BY DEF IsRing, Shaped
<1> HIDE DEF D, h
<1>5. IsRing(D) /\ Shaped(D, cap) /\ D.count < D.slots /\ Exact(D, h) /\ OthersVacant(D)
  <2>1. CASE G.count = cap
    BY <2>1, <1>2, <1>3, DropProperties, DropExact DEF D, h, Budgeted
  <2>2. CASE G.count # cap
    <3>1. D = G /\ h = held
      BY <2>2 DEF D, h, DropOldest, DroppedHeld
    <3>2. G.count < cap
      BY <2>2, <1>2, <1>4
    <3> QED  BY <3>1, <3>2, <1>2, <1>3 DEF Budgeted, FreeVacant, OthersVacant
  <2> QED  BY <2>1, <2>2
<1>6. room \in Nat
  <2>1. tail \div 2 \in Nat
    OBVIOUS
  <2>2. D.entries[Slot(D, D.count)] \in Entries
    <3>1. D.count \in 0 .. D.slots - 1
      BY <1>5 DEF IsRing
    <3> QED  BY <3>1, <1>5, SlotProperties DEF IsRing
  <2>3. D.entries[Slot(D, D.count)].allocated \in Nat
    BY <2>2 DEF Entries
  <2> QED  BY <2>1, <2>3 DEF Room
<1> HIDE DEF room
<1>7. n \in D.hollow .. D.count
  BY <1>5, HollowUntilFitsProperties
<1>8. n = D.count \/ left + (Charge + room) <= Budget
  BY <1>5, HollowUntilFitsFits
<1> HIDE DEF n
<1>9. IsRing(H) /\ Shaped(H, cap) /\ H.count = D.count /\ H.slots = D.slots
  BY <1>5, <1>7, HollowProperties
<1>10. Exact(H, left) /\ OthersVacant(H) /\ KeptBytes(D, n, D.count) \in Nat
  BY <1>5, <1>7, HollowExact
<1>11. H.hollow = n
  BY <1>5 DEF HollowTo, IsRing
<1> HIDE DEF H
<1>12. f \in Entries /\ f.allocated = room
  BY <1>6 DEF Entries
<1> HIDE DEF f, left
<1>13. H.count < H.slots
  BY <1>5, <1>9
<1>14. Exact(new.ring, left + Charge + room) /\ FreeVacant(new.ring)
  BY <1>1, <1>9, <1>10, <1>12, <1>13, NewestBudgeted
<1>15. new.ring.count = D.count + 1 /\ new.ring.hollow = n
  BY <1>1, <1>9, <1>11 DEF WithNewest, IsRing
<1>16. left \in Nat
  <2>1. H.hollow \in Nat /\ H.count \in Int /\ H.count <= H.count
    BY <1>9 DEF IsRing
  <2>2. Costs(H, H.hollow .. H.count - 1)
    BY <1>9, <2>1, RingCosts
  <2>3. KeptBytes(H, H.hollow, H.count) \in Nat
    BY <2>1, <2>2, KeptProperties
  <2> QED  BY <2>3, <1>10 DEF Exact
<1>17. left + Charge + room = left + (Charge + room)
  BY <1>6, <1>16, HistoryAssumption
<1>18. Within(new.ring, left + Charge + room)
  <2>1. n \in Nat /\ D.count \in Nat
    BY <1>5, <1>7 DEF IsRing
  <2> QED  BY <1>8, <1>15, <1>17, <2>1 DEF Within
<1> QED  BY <1>1, <1>14, <1>18 DEF Budgeted

\* What becomes of one entry but its buffer leaves the budget as it was.
LEMMA EntryChangedBudgeted ==
  ASSUME NEW R, NEW cap \in Nat, IsRing(R), Shaped(R, cap), NEW h, Budgeted(R, h), R.count > 0,
         NEW e, e.allocated = Oldest(R, R.count - 1).allocated,
         NEW S, S.count = R.count, S.slots = R.slots, S.start = R.start, S.hollow = R.hollow,
         S.entries = [R.entries EXCEPT ![Slot(R, R.count - 1)] = e]
  PROVE  Budgeted(S, h)
<1>1. R.count - 1 \in 0 .. R.count - 1 /\ R.count - 1 \in 0 .. R.slots - 1 /\ R.count \in Nat
  BY DEF IsRing, Shaped
<1>2. \A i \in 0 .. R.count - 1 : Slot(R, i) \in 0 .. R.slots - 1
  BY SlotProperties DEF IsRing, Shaped
<1>3. \A i : Slot(S, i) = Slot(R, i)
  BY DEF Slot
<1>4. \A i \in 0 .. R.count - 1 : Oldest(S, i).allocated = Oldest(R, i).allocated
  <2> SUFFICES ASSUME NEW i \in 0 .. R.count - 1
               PROVE  Oldest(S, i).allocated = Oldest(R, i).allocated
    OBVIOUS
  <2>1. CASE Slot(R, i) = Slot(R, R.count - 1)
    BY <1>2, <1>3, <2>1 DEF Oldest, IsRing
  <2>2. CASE Slot(R, i) # Slot(R, R.count - 1)
    BY <1>2, <1>3, <2>2 DEF Oldest, IsRing
  <2> QED  BY <2>1, <2>2
<1>5. Exact(S, h)
  BY <1>4, SameRoomExact DEF Budgeted
<1>6. Within(S, h)
  BY DEF Budgeted, Within
<1>7. FreeVacant(S)
  <2>1. \A s : Free(S, s) <=> Free(R, s)
    BY <1>3 DEF Free
  <2>2. \A s \in 0 .. R.slots - 1 : Free(R, s) => S.entries[s] = R.entries[s]
    BY <1>1 DEF Free, IsRing
  <2> QED  BY <2>1, <2>2 DEF Budgeted, FreeVacant
<1> QED  BY <1>5, <1>6, <1>7 DEF Budgeted

LEMMA StartedFromBudgeted ==
  ASSUME NEW R, NEW cap \in Nat, IsRing(R), Shaped(R, cap), NEW h, Budgeted(R, h),
         NEW registers
  PROVE  Budgeted(StartedFrom(R, registers), h)
<1>1. CASE R.count > 1
  <2> DEFINE top == Slot(R, R.count - 1)
             e == [R.entries[top] EXCEPT !.before = registers]
             S == [R EXCEPT !.entries = [R.entries EXCEPT ![top] = e]]
  <2>1. R.count > 0 /\ R.count - 1 \in 0 .. R.slots - 1
    BY <1>1 DEF IsRing, Shaped
  <2>2. top \in 0 .. R.slots - 1
    BY <2>1, SlotProperties
  <2>3. StartedFrom(R, registers) = S
    BY <1>1, <2>2 DEF StartedFrom, IsRing
  <2>4. e.allocated = Oldest(R, R.count - 1).allocated
    BY <2>2 DEF Oldest, IsRing, Entries
  <2> HIDE DEF e
  <2>5. /\ S.count = R.count /\ S.slots = R.slots /\ S.start = R.start /\ S.hollow = R.hollow
        /\ S.entries = [R.entries EXCEPT ![Slot(R, R.count - 1)] = e]
    BY DEF IsRing
  <2> HIDE DEF S
  <2> QED  BY <2>1, <2>3, <2>4, <2>5, EntryChangedBudgeted
<1>2. CASE ~(R.count > 1)
  <2> DEFINE S == StartedFrom(R, registers)
  <2>1. /\ S.count = R.count /\ S.slots = R.slots /\ S.start = R.start /\ S.hollow = R.hollow
        /\ S.entries = R.entries
    BY <1>2 DEF StartedFrom, IsRing
  <2> HIDE DEF S
  <2>2. \A i : Slot(S, i) = Slot(R, i) /\ Oldest(S, i) = Oldest(R, i)
    BY <2>1 DEF Slot, Oldest
  <2>3. Exact(S, h)
    BY <2>1, <2>2, SameRoomExact DEF Budgeted
  <2>4. Within(S, h) /\ FreeVacant(S)
    BY <2>1, <2>2 DEF Budgeted, Within, FreeVacant, Free
  <2> QED  BY <2>3, <2>4 DEF Budgeted, S
<1> QED  BY <1>1, <1>2

LEMMA MarkRingBudgeted ==
  ASSUME NEW R, NEW cap \in Nat, IsRing(R), Shaped(R, cap), NEW h, Budgeted(R, h), NEW T
  PROVE  Budgeted(MarkRing(R, T), h)
<1>1. CASE ~T.pending /\ R.count > 0
  <2> DEFINE top == Slot(R, R.count - 1)
             e == [R.entries[top] EXCEPT !.reversible = FALSE]
             S == [R EXCEPT !.entries = [R.entries EXCEPT ![top] = e]]
  <2>1. R.count > 0 /\ R.count - 1 \in 0 .. R.slots - 1
    BY <1>1 DEF IsRing, Shaped
  <2>2. top \in 0 .. R.slots - 1
    BY <2>1, SlotProperties
  <2>3. MarkRing(R, T) = S
    BY <1>1, <2>2 DEF MarkRing, IsRing
  <2>4. e.allocated = Oldest(R, R.count - 1).allocated
    BY <2>2 DEF Oldest, IsRing, Entries
  <2> HIDE DEF e
  <2>5. /\ S.count = R.count /\ S.slots = R.slots /\ S.start = R.start /\ S.hollow = R.hollow
        /\ S.entries = [R.entries EXCEPT ![Slot(R, R.count - 1)] = e]
    BY DEF IsRing
  <2> HIDE DEF S
  <2> QED  BY <2>1, <2>3, <2>4, <2>5, EntryChangedBudgeted
<1>2. CASE ~(~T.pending /\ R.count > 0)
  BY <1>2 DEF MarkRing
<1> QED  BY <1>1, <1>2

\* An undo takes the newest entry's cost off, and leaves its slot empty.
LEMMA WithoutNewestBudgeted ==
  ASSUME NEW R, NEW cap \in Nat, IsRing(R), Shaped(R, cap), NEW h, Budgeted(R, h),
         R.count > 0, R.hollow < R.count
  PROVE  Budgeted(WithoutNewest(R), h - Cost(R, R.count - 1))
<1> DEFINE S == WithoutNewest(R)
           top == Slot(R, R.count - 1)
<1>1. /\ S.count = R.count - 1 /\ S.slots = R.slots /\ S.start = R.start /\ S.hollow = R.hollow
      /\ S.entries = [R.entries EXCEPT ![top] = Vacant]
  BY DEF WithoutNewest, IsRing
<1>2. /\ R.hollow \in Nat /\ R.count \in Nat /\ R.hollow \in Int /\ R.count \in Int
      /\ R.count - 1 \in Int /\ R.count <= R.count /\ R.count - 1 <= R.count
      /\ R.count - 1 \in R.hollow .. R.count - 1
  BY DEF IsRing
<1> HIDE DEF S
<1>3. /\ Costs(R, R.hollow .. R.count - 1) /\ Costs(R, R.hollow .. (R.count - 1) - 1)
  BY <1>2, RingCosts
<1>4. KeptBytes(R, R.hollow, R.count) = KeptBytes(R, R.hollow, R.count - 1) + Cost(R, R.count - 1)
  BY <1>2, <1>3, KeptProperties
<1>5. KeptBytes(R, R.hollow, R.count - 1) \in Nat /\ Cost(R, R.count - 1) \in Nat
  BY <1>2, <1>3, KeptProperties DEF Costs
<1>6. \A i \in 0 .. R.slots - 1 : i # R.count - 1 => Slot(R, i) # top /\ Slot(R, i) \in 0 .. R.slots - 1
  <2>1. R.count - 1 \in 0 .. R.slots - 1
    <3>1. R.count \in Nat /\ R.slots \in Nat /\ R.count > 0 /\ R.count <= R.slots
      BY DEF IsRing, Shaped
    <3> QED  BY <3>1
  <2> QED  BY <2>1, SlotProperties
<1>7. \A i : Slot(S, i) = Slot(R, i)
  BY <1>1 DEF Slot
<1>8. \A i \in R.hollow .. (R.count - 1) - 1 : Cost(S, i) = Cost(R, i)
  <2> SUFFICES ASSUME NEW i \in R.hollow .. (R.count - 1) - 1 PROVE Oldest(S, i) = Oldest(R, i)
    BY DEF Cost
  <2>1. i \in 0 .. R.slots - 1 /\ i # R.count - 1
    BY <1>2 DEF IsRing, Shaped
  <2>2. Slot(R, i) # top /\ Slot(R, i) \in 0 .. R.slots - 1
    BY <1>6, <2>1
  <2> HIDE DEF top
  <2> QED  BY <1>1, <1>7, <2>2 DEF Oldest, IsRing
<1>9. KeptBytes(S, R.hollow, R.count - 1) = KeptBytes(R, R.hollow, R.count - 1)
  BY <1>2, <1>3, <1>8, KeptEqual
<1>10. Exact(S, h - Cost(R, R.count - 1))
  BY <1>1, <1>4, <1>5, <1>9 DEF Exact, Budgeted
<1>11. Within(S, h - Cost(R, R.count - 1))
  <2>1. h \in Nat
    BY <1>4, <1>5 DEF Exact, Budgeted
  <2>2. Budget \in Nat
    BY HistoryAssumption
  <2> QED  BY <1>1, <1>2, <1>5, <2>1, <2>2 DEF Within, Budgeted
<1>12. FreeVacant(S)
  <2> SUFFICES ASSUME NEW s \in 0 .. R.slots - 1, Free(S, s) PROVE S.entries[s] = Vacant
    BY <1>1 DEF FreeVacant
  <2>1. CASE s = top
    BY <1>1, <2>1 DEF IsRing
  <2>2. CASE s # top
    <3>1. ASSUME NEW i \in 0 .. R.count - 1 PROVE s # Slot(R, i)
      <4>1. i \in 0 .. S.count - 1 \/ i = R.count - 1
        BY <1>1, <1>2
      <4> QED  BY <1>7, <2>2, <4>1 DEF Free
    <3>2. R.entries[s] = Vacant
      BY <3>1 DEF Free, FreeVacant, Budgeted
    <3> HIDE DEF top
    <3> QED  BY <1>1, <2>2, <3>2 DEF IsRing
  <2> QED  BY <2>1, <2>2
<1> QED  BY <1>10, <1>11, <1>12 DEF Budgeted, S

LEMMA EmptyBudgeted ==
  ASSUME NEW base
  PROVE  Budgeted(NoEntries(base), 0)
<1> DEFINE N == NoEntries(base)
<1>1. N.count = 0 /\ N.hollow = 0 /\ N.slots = 0
  BY DEF NoEntries
<1> HIDE DEF N
<1>2. KeptBytes(N, 0, 0) = 0
  <2>1. 0 .. 0 - 1 = {} /\ IsFiniteSet({}) /\ Costs(N, {})
    BY FS_EmptySet DEF Costs
  <2>2. Spent(N, {}) = 0
    BY <2>1, SpentProperties
  <2> QED  BY <2>1, <2>2 DEF KeptBytes
<1> QED  BY <1>1, <1>2 DEF Budgeted, Exact, Within, FreeVacant, N

-----------------------------------------------------------------------------
(* The actions. *)

\* Finish() keeps the budget.
LEMMA FinishBudgeted ==
  ASSUME IInv, Budgeted(ring, held), capacity # 0,
         NEW after \in Registers, NEW writes \in Writes, NEW journal \in Seq(Devices),
         NEW irreversible \in BOOLEAN, NEW exits \in BOOLEAN, NEW id \in Nat,
         Finish(after, writes, journal, irreversible, exits, id)
  PROVE  Budgeted(ring', held')
<1> DEFINE e == EntryOf(after, writes, journal, irreversible, exits, id)
           tail == Len(writes) + Len(journal)
           new == NewEntry(capacity, e, tail)
<1>1. held' = new.held /\ ring' = IF step.moved THEN StartedFrom(new.ring, step.registers) ELSE new.ring
  BY DEF Finish, EntryOf
<1>2. /\ capacity \in Nat \ {0} /\ IsRing(ring) /\ Shaped(ring, capacity) /\ Owned(ring)
      /\ HollowFirst(ring)
  BY HistoryAssumption DEF IInv, TypeOK, Sound
<1>3. machine.stack \in Seq(RegValues) /\ step.instructions \in Nat
  BY DEF IInv, TypeOK, Machines, Steps
<1>4. e \in Entries
  BY <1>3 DEF EntryOf, Vacant, Entries
<1>5. tail \in Nat
  BY DEF Writes
<1> HIDE DEF e, tail
<1>6. Budgeted(new.ring, new.held)
  BY <1>2, <1>4, <1>5, NewEntryBudgeted
<1>7. IsRing(new.ring) /\ Shaped(new.ring, capacity)
  BY <1>2, <1>4, <1>5, NewEntryProperties
<1> HIDE DEF new
<1>8. Budgeted(StartedFrom(new.ring, step.registers), new.held)
  BY <1>2, <1>6, <1>7, StartedFromBudgeted
<1> QED  BY <1>1, <1>6, <1>8

\* Every action keeps the budget.
LEMMA NextBudgeted ==
  ASSUME IInv, Budgeted(ring, held), [Next]_vars
  PROVE  Budgeted(ring', held')
<1>1. /\ IsRing(ring) /\ Shaped(ring, capacity) /\ capacity \in Nat /\ allocator \in Nat
      /\ identity \in Nat /\ step \in Steps /\ poke_bytes \in Writes /\ machine.regs \in Registers
  BY HistoryAssumption DEF IInv, TypeOK, Sound, Machines
<1>2. ASSUME held' = held, ring' = ring \/ ring' = MarkRing(ring, step)
      PROVE  Budgeted(ring', held')
  BY <1>1, <1>2, MarkRingBudgeted
<1>3. ASSUME held' = 0, ring' = NoEntries(ring.base)
      PROVE  Budgeted(ring', held')
  BY <1>3, EmptyBudgeted
<1>4. ASSUME NEW r \in Registers, NEW flow, NEW end, Retire(r, flow, end)
      PROVE  Budgeted(ring', held')
  <2>1. CASE ~step.pending \/ capacity = 0
    BY <1>2, <1>4, <2>1 DEF Retire, Finish, history
  <2>2. CASE step.pending /\ capacity # 0
    <3> DEFINE irreversible == \/ step.truncated \/ (step.parts # <<>> /\ TooMuch(step))
                                 \/ step.pending_irreversible \/ end = "handled"
               exits == end \in {"exit", "killed"}
    <3>1. step.parts \o step.writes \in Writes /\ step.journal \in Seq(Devices)
      BY <1>1 DEF Steps, Writes
    <3>2. irreversible \in BOOLEAN
      BY Zenon
    <3>3. exits \in BOOLEAN
      OBVIOUS
    <3>4. Finish(r, step.parts \o step.writes, step.journal, irreversible, exits, identity)
      BY <1>4, <2>2 DEF Retire
    <3> HIDE DEF irreversible, exits
    <3> QED  BY <1>1, <2>2, <3>1, <3>2, <3>3, <3>4, FinishBudgeted
  <2> QED  BY <2>1, <2>2
<1>5. CASE EndPoke
  <2> DEFINE changed == Overwritten # {} \/ machine.regs # step.registers
  <2>1. CASE ~changed \/ capacity = 0
    BY <1>2, <1>5, <2>1 DEF EndPoke, Finish, history
  <2>2. CASE changed /\ capacity # 0
    <3>1. Finish(machine.regs, PokeWrites, <<>>, step.pending_irreversible, FALSE, allocator + 1)
      BY <1>5, <2>2 DEF EndPoke
    <3>2. /\ PokeWrites \in Writes /\ <<>> \in Seq(Devices) /\ allocator + 1 \in Nat
          /\ step.pending_irreversible \in BOOLEAN
      BY <1>1, PokeWritesProperties DEF Steps
    <3> QED  BY <1>1, <2>2, <3>1, <3>2, FinishBudgeted
  <2> QED  BY <2>1, <2>2
<1>6. CASE Undo
  <2>1. /\ held' = held - (Charge + EntryAt(ring, 0).allocated) /\ ring' = WithoutNewest(ring)
        /\ ring.count > 0 /\ CanUndo
    BY <1>6 DEF Undo, CanUndo
  <2>2. ring.hollow < ring.count
    BY <2>1, UndoTyped DEF IInv
  <2>3. EntryAt(ring, 0) = Oldest(ring, ring.count - 1)
    <3>1. ring.count - 1 - 0 = ring.count - 1
      BY <1>1 DEF IsRing
    <3> QED  BY <3>1 DEF EntryAt
  <2>4. held' = held - Cost(ring, ring.count - 1)
    BY <2>1, <2>3 DEF Cost
  <2> QED  BY <1>1, <2>1, <2>2, <2>4, WithoutNewestBudgeted
<1>7. CASE Begin \/ Effect \/ Wait \/ Resume \/ NativeExit \/ BeginPoke
  BY <1>2, <1>7 DEF Begin, Effect, Wait, Resume, NativeExit, BeginPoke, history
<1>8. ASSUME NEW a \in Addrs, NEW b \in Bytes, NEW kept \in BOOLEAN, Write(a, b, kept)
      PROVE  Budgeted(ring', held')
  BY <1>2, <1>8 DEF Write, history
<1>9. ASSUME NEW a \in Addrs, NEW b \in Bytes, EditByte(a, b) PROVE Budgeted(ring', held')
  BY <1>2, <1>9 DEF EditByte, history
<1>10. ASSUME NEW d \in Devices, Journal(d) PROVE Budgeted(ring', held')
  BY <1>2, <1>10 DEF Journal
<1>11. ASSUME NEW r \in Registers, Split(r) PROVE Budgeted(ring', held')
  BY <1>2, <1>11 DEF Split, history
<1>12. ASSUME NEW r \in Registers, NEW a \in Addrs, NEW b \in Bytes, NEW kills \in BOOLEAN,
              DeliverSignal(r, a, b, kills)
       PROVE  Budgeted(ring', held')
  BY <1>2, <1>12 DEF DeliverSignal
<1>13. ASSUME NEW r \in RegNames, NEW v \in RegValues, EditRegister(r, v)
       PROVE  Budgeted(ring', held')
  BY <1>2, <1>13 DEF EditRegister, history
<1>14. ASSUME NEW size \in Capacities, SetCapacity(size) PROVE Budgeted(ring', held')
  BY <1>3, <1>14 DEF SetCapacity
<1>15. ASSUME NEW new \in Fresh, Load(new) PROVE Budgeted(ring', held')
  BY <1>3, <1>15 DEF Load
<1>16. CASE UNCHANGED vars
  BY <1>2, <1>16 DEF vars, history
<1> QED
  BY <1>4, <1>5, <1>6, <1>7, <1>8, <1>9, <1>10, <1>11, <1>12, <1>13, <1>14, <1>15, <1>16 DEF Next

-----------------------------------------------------------------------------
\* What the entries keep is counted exactly and stays within the budget, and the slots no entry
\* has are empty (NewEntry, DropOldest, HollowOldest, blinkenlib_history_undo).
THEOREM BudgetExactHolds == Spec => []BudgetExact
<1>1. Init => Budgeted(ring, held)
  BY EmptyBudgeted DEF Init
<1>2. IInv /\ Budgeted(ring, held) /\ [Next]_vars => Budgeted(ring, held)'
  BY NextBudgeted
<1>3. Budgeted(ring, held) => BudgetExact
  BY BudgetExactIs
<1> QED  BY <1>1, <1>2, <1>3, InvariantHolds, PTL DEF Spec

-----------------------------------------------------------------------------
(***************************************************************************)
(* That an undo takes the whole machine back, never past an effect it      *)
(* cannot take back; and that the history keeps the promise of UndoLog     *)
(* step by step.                                                           *)
(*                                                                         *)
(* First what an undo does to one place of the machine, then what a step   *)
(* or a Poke keeps for it, then the inductive invariant UndoSound, one     *)
(* action after another, and last the theorems.                            *)
(***************************************************************************)
(* One place of the machine. *)

\* The places of a machine are apart: registers, bytes, devices and the exit.
LEMMA AtProperties ==
  /\ Places = RegNames \cup Addrs \cup {"dev", "exited"}
  /\ \A s :
       /\ \A r \in RegNames : At(s, r) = s.regs[r]
       /\ \A a \in Addrs : At(s, a) = s.mem[a]
       /\ At(s, "dev") = s.dev /\ At(s, "exited") = s.exited
<1>1. /\ RegNames \cap Addrs = {} /\ {"dev", "exited"} \cap (RegNames \cup Addrs) = {}
      /\ "dev" # "exited"
  BY HistoryAssumption
<1>2. /\ \A r \in RegNames : r \notin Addrs /\ r # "dev" /\ r # "exited"
      /\ \A a \in Addrs : a \notin RegNames /\ a # "dev" /\ a # "exited"
      /\ "dev" \notin RegNames /\ "dev" \notin Addrs
      /\ "exited" \notin RegNames /\ "exited" \notin Addrs
  BY <1>1
<1> QED  BY <1>2 DEF At, Places

\* The machine an undo leaves: the entry e, begun with the registers b, taken back from t.
Back(e, b, t) ==
  [regs |-> [r \in RegNames |-> IF b[r] # e.after[r] THEN b[r] ELSE t.regs[r]],
   mem |-> TakenBack(e.writes, t.mem),
   dev |-> IF e.journal = <<>> THEN t.dev ELSE Head(e.journal),
   exited |-> t.exited /\ ~e.exited,
   executed |-> e.instructions_before,
   stack |-> e.stack_before]

\* The entry e takes the machine t back to where the log says it began, but for the places
\* something changed outside any entry.
Takes(e, was, t) ==
  LET back == Back(e, was.state.regs, t)
  IN /\ \A p \in Places : p \notin was.loose => At(back, p) = At(was.state, p)
     /\ back.executed = was.state.executed /\ back.stack = was.state.stack

\* What an undo does to a place depends on that place alone.
LEMMA BackPlace ==
  ASSUME NEW e, NEW f, NEW b, NEW t, NEW u, NEW p \in Places, At(t, p) = At(u, p),
         f.after = e.after, f.writes = e.writes, f.journal = e.journal, f.exited = e.exited
  PROVE  At(Back(f, b, u), p) = At(Back(e, b, t), p)
<1>1. CASE p \in RegNames
  <2>1. At(t, p) = t.regs[p] /\ At(u, p) = u.regs[p]
    BY <1>1, AtProperties
  <2>2. Back(f, b, u).regs[p] = Back(e, b, t).regs[p]
    BY <1>1, <2>1 DEF Back
  <2> QED  BY <1>1, <2>2, AtProperties
<1>2. CASE p \in Addrs
  <2>1. At(t, p) = t.mem[p] /\ At(u, p) = u.mem[p]
    BY <1>2, AtProperties
  <2>2. Back(f, b, u).mem[p] = Back(e, b, t).mem[p]
    BY <1>2, <2>1 DEF Back, TakenBack
  <2> QED  BY <1>2, <2>2, AtProperties
<1>3. CASE p = "dev"
  <2>1. t.dev = u.dev
    BY <1>3, AtProperties
  <2>2. Back(f, b, u).dev = Back(e, b, t).dev
    BY <2>1 DEF Back
  <2> QED  BY <1>3, <2>2, AtProperties
<1>4. CASE p = "exited"
  <2>1. t.exited = u.exited
    BY <1>4, AtProperties
  <2>2. Back(f, b, u).exited = Back(e, b, t).exited
    <3>1. Back(f, b, u).exited = (u.exited /\ ~f.exited)
      BY DEF Back
    <3>2. Back(e, b, t).exited = (t.exited /\ ~e.exited)
      BY DEF Back
    <3> QED  BY <2>1, <3>1, <3>2
  <2> QED  BY <1>4, <2>2, AtProperties
<1> QED  BY <1>1, <1>2, <1>3, <1>4, AtProperties

\* An entry still takes the machine back when it keeps what it holds and the machine it
\* ended with moves at loose places only.
LEMMA TakesLater ==
  ASSUME NEW e, NEW was, NEW t, Takes(e, was, t),
         NEW f, f.reversible, Keeps(f, e),
         NEW was2, was2.state = was.state, was.loose \subseteq was2.loose,
         NEW u, \A p \in Places : p \notin was2.loose => At(u, p) = At(t, p)
  PROVE  Takes(f, was2, u)
<1>1. /\ f.after = e.after /\ f.writes = e.writes /\ f.journal = e.journal
      /\ f.stack_before = e.stack_before /\ f.instructions_before = e.instructions_before
      /\ f.exited = e.exited
  BY DEF Keeps
<1>2. ASSUME NEW p \in Places, p \notin was2.loose
      PROVE  At(Back(f, was2.state.regs, u), p) = At(was2.state, p)
  <2>1. At(Back(f, was2.state.regs, u), p) = At(Back(e, was.state.regs, t), p)
    BY <1>1, <1>2, BackPlace
  <2> QED  BY <1>2, <2>1 DEF Takes
<1>3. /\ Back(f, was2.state.regs, u).executed = was2.state.executed
      /\ Back(f, was2.state.regs, u).stack = was2.state.stack
  BY <1>1 DEF Takes, Back
<1> QED  BY <1>2, <1>3 DEF Takes

-----------------------------------------------------------------------------
(* The bytes a step or a Poke keeps. *)

\* The first of the writes to an address is the one undone last.
LEMMA FirstOldIs ==
  ASSUME NEW ws \in Writes, NEW i \in 1 .. Len(ws), NEW a, ws[i].addr = a,
         \A j \in 1 .. i - 1 : ws[j].addr # a
  PROVE  a \in Touched(ws) /\ FirstOld(ws, a) = ws[i].old
<1>1. Len(ws) \in Nat /\ DOMAIN ws = 1 .. Len(ws)
  BY DEF Writes
<1> DEFINE First(k) == ws[k].addr = a /\ \A j \in 1 .. k - 1 : ws[j].addr # a
<1>2. \A k \in 1 .. Len(ws) : First(k) => k = i
  <2> SUFFICES ASSUME NEW k \in 1 .. Len(ws), First(k) PROVE k = i
    OBVIOUS
  <2>1. CASE k < i
    BY <1>1, <2>1
  <2>2. CASE i < k
    BY <1>1, <2>2
  <2> QED  BY <1>1, <2>1, <2>2
<1>3. FirstOld(ws, a) = ws[CHOOSE k \in DOMAIN ws : First(k)].old
  BY DEF FirstOld
<1>4. First(i)
  OBVIOUS
<1> HIDE DEF First
<1>5. (CHOOSE k \in DOMAIN ws : First(k)) = i
  BY <1>1, <1>2, <1>4
<1> QED  BY <1>1, <1>3, <1>5 DEF Touched

\* An address written has a first write.
LEMMA FirstWrite ==
  ASSUME NEW ws \in Writes, NEW a \in Touched(ws)
  PROVE  \E i \in 1 .. Len(ws) : ws[i].addr = a /\ \A j \in 1 .. i - 1 : ws[j].addr # a
<1> DEFINE to == {i \in 1 .. Len(ws) : ws[i].addr = a}
<1>1. Len(ws) \in Nat /\ DOMAIN ws = 1 .. Len(ws)
  BY DEF Writes
<1>2. to \in SUBSET Nat /\ to # {}
  BY <1>1 DEF Touched
<1>3. PICK i \in to : \A j \in to : i <= j
  <2> HIDE DEF to
  <2> QED  BY <1>2, Least
<1>4. \A j \in 1 .. i - 1 : ws[j].addr # a
  <2> SUFFICES ASSUME NEW j \in 1 .. i - 1, ws[j].addr = a PROVE FALSE
    OBVIOUS
  <2>1. i \in 1 .. Len(ws) /\ j \in 1 .. Len(ws)
    BY <1>1
  <2>2. j \in to
    BY <2>1
  <2> QED  BY <1>1, <1>3, <2>1, <2>2
<1> QED  BY <1>3, <1>4

\* With nothing written, taking back changes nothing.
LEMMA TakenBackNothing == \A mem : \A a \in Addrs : TakenBack(<<>>, mem)[a] = mem[a]
BY DEF TakenBack, Touched

\* One more write is taken back with those before it.
LEMMA TakenBackOneMore ==
  ASSUME NEW ws \in Writes, NEW mem \in [Addrs -> Bytes], NEW a \in Addrs,
         NEW more \in Writes, Len(more) = Len(ws) + 1,
         \A i \in 1 .. Len(ws) : more[i] = ws[i],
         more[Len(ws) + 1].addr = a, more[Len(ws) + 1].old = mem[a],
         NEW now, \A c \in Addrs : c # a => now[c] = mem[c]
  PROVE  TakenBack(more, now) = TakenBack(ws, mem)
<1>1. /\ Len(ws) \in Nat /\ DOMAIN ws = 1 .. Len(ws)
      /\ DOMAIN more = 1 .. Len(ws) + 1
  BY DEF Writes
<1>2. ASSUME NEW c \in Addrs
      PROVE  TakenBack(more, now)[c] = TakenBack(ws, mem)[c]
  <2>1. CASE c \in Touched(ws)
    <3>1. PICK i \in 1 .. Len(ws) : ws[i].addr = c /\ \A j \in 1 .. i - 1 : ws[j].addr # c
      BY <2>1, FirstWrite
    <3>2. FirstOld(ws, c) = ws[i].old
      BY <3>1, FirstOldIs
    <3>3. /\ i \in 1 .. Len(more) /\ more[i].addr = c /\ more[i].old = ws[i].old
          /\ \A j \in 1 .. i - 1 : more[j].addr # c
      BY <1>1, <3>1
    <3>4. c \in Touched(more) /\ FirstOld(more, c) = ws[i].old
      BY <1>1, <3>3, FirstOldIs
    <3> QED  BY <2>1, <3>2, <3>4 DEF TakenBack
  <2>2. CASE c \notin Touched(ws) /\ c = a
    <3>1. \A j \in 1 .. Len(ws) : ws[j].addr # a
      BY <1>1, <2>2 DEF Touched
    <3>2. /\ Len(ws) + 1 \in 1 .. Len(more) /\ more[Len(ws) + 1].addr = a
          /\ \A j \in 1 .. (Len(ws) + 1) - 1 : more[j].addr # a
      BY <1>1, <3>1
    <3>3. a \in Touched(more) /\ FirstOld(more, a) = more[Len(ws) + 1].old
      BY <1>1, <3>2, FirstOldIs
    <3> QED  BY <1>1, <2>2, <3>3 DEF TakenBack
  <2>3. CASE c \notin Touched(ws) /\ c # a
    <3>1. c \notin Touched(more)
      BY <1>1, <2>3 DEF Touched
    <3>2. now[c] = mem[c]
      BY <2>3
    <3> QED  BY <2>3, <3>1, <3>2 DEF TakenBack
  <2> QED  BY <2>1, <2>2, <2>3
<1> QED  BY <1>2 DEF TakenBack

\* The writes of a Poke's entry take back what its bytes do: each once, and only those that
\* changed.
LEMMA PokeTakenBack ==
  ASSUME poke_bytes \in Writes, machine.mem \in [Addrs -> Bytes]
  PROVE  TakenBack(PokeWrites, machine.mem) = TakenBack(poke_bytes, machine.mem)
<1> DEFINE W(a) == [addr |-> a, old |-> FirstOld(poke_bytes, a)]
<1>1. PokeWrites \in Writes
  BY PokeWritesProperties
<1>2. \A i \in 1 .. Len(PokeWrites) : \E a \in Overwritten : PokeWrites[i] = W(a)
  BY PokeWritesProperties
<1>3. \A a \in Overwritten : \E i \in 1 .. Len(PokeWrites) : PokeWrites[i] = W(a)
  BY PokeWritesProperties
<1>4. DOMAIN PokeWrites = 1 .. Len(PokeWrites)
  BY <1>1 DEF Writes
<1>5. \A i \in 1 .. Len(PokeWrites) :
        /\ PokeWrites[i].addr \in Overwritten
        /\ PokeWrites[i].old = FirstOld(poke_bytes, PokeWrites[i].addr)
  <2> SUFFICES ASSUME NEW i \in 1 .. Len(PokeWrites)
               PROVE  /\ PokeWrites[i].addr \in Overwritten
                      /\ PokeWrites[i].old = FirstOld(poke_bytes, PokeWrites[i].addr)
    OBVIOUS
  <2>1. PICK a \in Overwritten : PokeWrites[i] = W(a)
    BY <1>2
  <2>2. W(a).addr = a /\ W(a).old = FirstOld(poke_bytes, a)
    OBVIOUS
  <2> HIDE DEF W
  <2> QED  BY <2>1, <2>2
<1>6. \A a \in Overwritten : a \in Touched(PokeWrites)
  <2> SUFFICES ASSUME NEW a \in Overwritten PROVE a \in Touched(PokeWrites)
    OBVIOUS
  <2>1. PICK i \in 1 .. Len(PokeWrites) : PokeWrites[i] = W(a)
    BY <1>3
  <2>2. PokeWrites[i].addr = a
    BY <2>1
  <2> QED  BY <1>4, <2>2 DEF Touched
<1>7. ASSUME NEW a \in Addrs
      PROVE  TakenBack(PokeWrites, machine.mem)[a] = TakenBack(poke_bytes, machine.mem)[a]
  <2>1. CASE a \in Overwritten
    <3>1. PICK i \in 1 .. Len(PokeWrites) :
            PokeWrites[i].addr = a /\ \A j \in 1 .. i - 1 : PokeWrites[j].addr # a
      BY <1>1, <1>6, <2>1, FirstWrite
    <3>2. FirstOld(PokeWrites, a) = FirstOld(poke_bytes, a)
      BY <1>1, <1>5, <3>1, FirstOldIs
    <3> QED  BY <1>6, <2>1, <3>2 DEF TakenBack, Overwritten
  <2>2. CASE a \notin Overwritten
    <3>1. a \notin Touched(PokeWrites)
      BY <1>4, <1>5, <2>2 DEF Touched
    <3> QED  BY <2>2, <3>1 DEF TakenBack, Overwritten
  <2> QED  BY <2>1, <2>2
<1> QED  BY <1>7 DEF TakenBack

-----------------------------------------------------------------------------
(* The inductive invariant. *)

\* Where the newest entry ended: at the machine, or where the step or Poke under way began.
Now == IF open = <<>> THEN machine ELSE open[1].state
Left(i) == IF i < Len(past) THEN past[i + 1].state ELSE Now

\* Every entry that may be undone takes the machine it ended with back to where it began.
Recoverable ==
  \A i \in 1 .. Len(past) :
    Oldest(ring, i - 1).reversible => Takes(Oldest(ring, i - 1), past[i], Left(i))

\* What is loose for an entry is loose for the older ones, which undo goes to after it.
Looser ==
  /\ \A i \in 1 .. Len(past) - 1 : past[i + 1].loose \subseteq past[i].loose
  /\ open # <<>> /\ Len(past) > 0 => open[1].loose \subseteq past[Len(past)].loose

\* After an effect that followed an entry comes a barrier, or will when the step ends,
\* unless a native exit broke the step off.
Barred ==
  \A i \in 1 .. Len(past) :
    past[i].lost => \/ step.pending /\ open[1].lost
                    \/ "world" \in past[i].loose
                    \/ \E j \in i .. Len(past) : ~Oldest(ring, j - 1).reversible

\* The step under way keeps what its entry will need.
StepKeeps ==
  LET began == open[1].state
  IN /\ open[1].lost => step.pending_irreversible
     /\ ~machine.exited /\ ~began.exited
     /\ step.instructions = began.executed /\ machine.stack = began.stack
     /\ (IF step.journal = <<>> THEN machine.dev ELSE Head(step.journal)) = began.dev
     /\ ~step.truncated =>
          \A a \in Addrs : a \notin open[1].loose =>
            TakenBack(step.parts \o step.writes, machine.mem)[a] = began.mem[a]

\* So does a Poke, which nothing happens beside.
PokeKeeps ==
  LET began == open[1].state
  IN /\ ~open[1].lost
     /\ step.registers = began.regs /\ step.instructions = began.executed
     /\ \A a \in Addrs : TakenBack(poke_bytes, machine.mem)[a] = began.mem[a]
     /\ machine.dev = began.dev /\ machine.exited = began.exited
     /\ machine.executed = began.executed /\ machine.stack = began.stack

UndoSound ==
  /\ Recoverable /\ Looser /\ Barred
  /\ open = <<>> <=> phase = "idle" /\ ~poke
  /\ phase # "idle" => step.pending \/ capacity = 0
  /\ step.pending => StepKeeps /\ capacity # 0
  /\ poke => PokeKeeps

-----------------------------------------------------------------------------
(* The entries and the log, when no entry is recorded or taken back. *)

\* An entry keeps what it holds when it stays.
LEMMA KeepsItself == \A e : Keeps(e, e)
BY DEF Keeps

\* The log tells of the same steps, each of them looser at the same places.
LooserBy(log, other, places) ==
  /\ Len(log) = Len(other)
  /\ \A i \in 1 .. Len(other) :
       log[i].state = other[i].state /\ log[i].loose = other[i].loose \cup places

\* Loosening a log does that and no more.
LEMMA LoosenLooser ==
  ASSUME NEW log \in Seq(LogEntries), NEW places \in SUBSET Spots
  PROVE  /\ LooserBy(Loosen(log, places), log, places)
         /\ \A i \in 1 .. Len(log) : Loosen(log, places)[i].lost <=> log[i].lost
<1> DEFINE new == Loosen(log, places)
<1>1. DOMAIN log = 1 .. Len(log) /\ Len(log) \in Nat
  OBVIOUS
<1>2. new = [i \in 1 .. Len(log) |-> [log[i] EXCEPT !.loose = @ \cup places]]
  BY <1>1 DEF Loosen
<1>3. ASSUME NEW i \in 1 .. Len(log)
      PROVE  /\ new[i].state = log[i].state /\ new[i].loose = log[i].loose \cup places
             /\ new[i].lost <=> log[i].lost
  <2>1. log[i] \in LogEntries
    OBVIOUS
  <2> QED  BY <2>1, <1>2 DEF LogEntries
<1>4. Len(new) = Len(log)
  BY LoosenProperties DEF SameStates
<1> QED  BY <1>3, <1>4 DEF LooserBy

\* A log is no looser than itself.
LEMMA LooserItself == \A log : LooserBy(log, log, {})
BY DEF LooserBy

\* Losing a log loosens none of it.
LEMMA LoseEach ==
  ASSUME NEW log \in Seq(LogEntries)
  PROVE  /\ LooserBy(Lose(log), log, {})
         /\ \A i \in 1 .. Len(log) : Lose(log)[i].lost
<1> DEFINE new == Lose(log)
<1>1. DOMAIN log = 1 .. Len(log) /\ Len(log) \in Nat
  OBVIOUS
<1>2. new = [i \in 1 .. Len(log) |-> [log[i] EXCEPT !.lost = TRUE]]
  BY <1>1 DEF Lose
<1>3. ASSUME NEW i \in 1 .. Len(log)
      PROVE  new[i].state = log[i].state /\ new[i].loose = log[i].loose /\ new[i].lost
  <2>1. log[i] \in LogEntries
    OBVIOUS
  <2> QED  BY <2>1, <1>2 DEF LogEntries
<1>4. Len(new) = Len(log)
  BY LoseProperties DEF SameStates
<1> QED  BY <1>3, <1>4 DEF LooserBy

\* The entries stay recoverable when they keep what they hold, and where the newest ended
\* moves at loose places only, or it becomes a barrier.
LEMMA RecoverableLater ==
  ASSUME Recoverable, Len(past) \in Nat, Len(past') = Len(past),
         \A i \in 1 .. Len(past) :
           /\ past'[i].state = past[i].state /\ past[i].loose \subseteq past'[i].loose
           /\ Keeps(Oldest(ring', i - 1), Oldest(ring, i - 1)),
         Len(past) > 0 /\ Oldest(ring', Len(past) - 1).reversible =>
           \A p \in Places : p \notin past'[Len(past)].loose => At(Now', p) = At(Now, p)
  PROVE  Recoverable'
<1> SUFFICES ASSUME NEW i \in 1 .. Len(past), Oldest(ring', i - 1).reversible
             PROVE  Takes(Oldest(ring', i - 1), past'[i], Left(i)')
  BY DEF Recoverable
<1>1. Oldest(ring, i - 1).reversible
  BY DEF Keeps
<1>2. Takes(Oldest(ring, i - 1), past[i], Left(i))
  BY <1>1 DEF Recoverable
<1>3. \A p \in Places : p \notin past'[i].loose => At(Left(i)', p) = At(Left(i), p)
  <2>1. CASE i < Len(past)
    <3>1. i + 1 \in 1 .. Len(past)
      BY <2>1
    <3>2. Left(i)' = Left(i)
      BY <2>1, <3>1 DEF Left
    <3> QED  BY <3>2
  <2>2. CASE i = Len(past)
    <3>1. Left(i)' = Now' /\ Left(i) = Now
      BY <2>2 DEF Left
    <3>2. Len(past) > 0
      BY <2>2
    <3> QED  BY <2>2, <3>1, <3>2
  <2> QED  BY <2>1, <2>2
<1>4. /\ past'[i].state = past[i].state /\ past[i].loose \subseteq past'[i].loose
      /\ Keeps(Oldest(ring', i - 1), Oldest(ring, i - 1))
  OBVIOUS
<1> HIDE DEF Left
<1> QED  BY <1>2, <1>3, <1>4, TakesLater

\* A barrier stays one.
LEMMA BarredLater ==
  ASSUME Barred, Len(past) \in Nat, Len(past') = Len(past),
         \A i \in 1 .. Len(past) :
           /\ past'[i].lost => past[i].lost
           /\ past[i].loose \subseteq past'[i].loose
           /\ Keeps(Oldest(ring', i - 1), Oldest(ring, i - 1)),
         step.pending /\ open[1].lost =>
           \/ step'.pending /\ open'[1].lost
           \/ \A i \in 1 .. Len(past) : "world" \in past'[i].loose
  PROVE  Barred'
<1> SUFFICES ASSUME NEW i \in 1 .. Len(past), past'[i].lost
             PROVE  \/ step'.pending /\ open'[1].lost
                    \/ "world" \in past'[i].loose
                    \/ \E j \in i .. Len(past) : ~Oldest(ring', j - 1).reversible
  BY DEF Barred
<1>1. \/ step.pending /\ open[1].lost
      \/ "world" \in past[i].loose
      \/ \E j \in i .. Len(past) : ~Oldest(ring, j - 1).reversible
  BY DEF Barred
<1>2. ASSUME NEW j \in i .. Len(past), ~Oldest(ring, j - 1).reversible
      PROVE  ~Oldest(ring', j - 1).reversible
  <2>1. j \in 1 .. Len(past)
    OBVIOUS
  <2> QED  BY <1>2, <2>1 DEF Keeps
<1> QED  BY <1>1, <1>2

\* Loosening the log, and the step under way with it or not at all, keeps it in order.
LEMMA LooserLater ==
  ASSUME Looser, past \in Seq(LogEntries), open \in Seq(LogEntries), open' \in Seq(LogEntries),
         NEW places, LooserBy(past', past, places),
         NEW others \in SUBSET places, LooserBy(open', open, others) \/ open' = <<>>
  PROVE  Looser'
<1>1. /\ Len(past') = Len(past)
      /\ \A i \in 1 .. Len(past) : past'[i].loose = past[i].loose \cup places
  BY DEF LooserBy
<1>2. ASSUME NEW i \in 1 .. Len(past) - 1 PROVE past'[i + 1].loose \subseteq past'[i].loose
  <2>1. i \in 1 .. Len(past) /\ i + 1 \in 1 .. Len(past)
    OBVIOUS
  <2>2. past[i + 1].loose \subseteq past[i].loose
    BY DEF Looser
  <2> QED  BY <1>1, <2>1, <2>2
<1>3. ASSUME open' # <<>>, Len(past) > 0 PROVE open'[1].loose \subseteq past'[Len(past)].loose
  <2>1. Len(open) = Len(open') /\ Len(open') > 0 /\ open # <<>>
    BY <1>3, EmptySeq DEF LooserBy
  <2>2. open'[1].loose = open[1].loose \cup others
    BY <1>3, <2>1 DEF LooserBy
  <2>3. open[1].loose \subseteq past[Len(past)].loose
    BY <1>3, <2>1 DEF Looser
  <2>4. Len(past) \in 1 .. Len(past)
    BY <1>3, LenProperties
  <2> QED  BY <1>1, <2>2, <2>3, <2>4
<1> QED  BY <1>1, <1>2, <1>3 DEF Looser

\* With no entry left there is nothing to undo.
LEMMA EmptyLog ==
  ASSUME Len(past') = 0
  PROVE  Recoverable' /\ Looser' /\ Barred'
BY DEF Recoverable, Looser, Barred

\* The ring's entries keep what they hold through an effect, which makes a barrier of the
\* newest one unless a step is recording.
LEMMA MarkedKeeps ==
  ASSUME TypeOK, Sound(ring, past, capacity, allocator),
         ring' = ring \/ ring' = MarkRing(ring, step)
  PROVE  /\ \A i \in 1 .. Len(past) : Keeps(Oldest(ring', i - 1), Oldest(ring, i - 1))
         /\ ring' = MarkRing(ring, step) /\ ~step.pending /\ Len(past) > 0 =>
              ~Oldest(ring', Len(past) - 1).reversible
<1>1. Len(past) = ring.count /\ ring.count \in Nat /\ IsRing(ring) /\ Shaped(ring, capacity)
  BY DEF Sound, IsRing
<1>2. capacity \in Nat
  BY HistoryAssumption DEF TypeOK
<1>3. \A i \in 0 .. ring.count - 1 : Keeps(Oldest(ring', i), Oldest(ring, i))
  BY <1>1, <1>2, KeepsItself, MarkRingProperties
<1>4. ring' = MarkRing(ring, step) /\ ~step.pending /\ ring.count > 0 =>
        ~Oldest(ring', ring.count - 1).reversible
  BY <1>1, <1>2, MarkRingProperties
<1>5. \A i \in 1 .. Len(past) : i - 1 \in 0 .. ring.count - 1
  BY <1>1
<1> QED  BY <1>1, <1>3, <1>4, <1>5

\* The log loosened, the entries as they were or the newest a barrier: undo stays sound.
LEMMA Unrecorded ==
  ASSUME TypeOK, TypeOK', Sound(ring, past, capacity, allocator), Recoverable, Looser,
         ring' = ring \/ ring' = MarkRing(ring, step),
         NEW places, LooserBy(past', past, places),
         NEW others \in SUBSET places, LooserBy(open', open, others) \/ open' = <<>>,
         Len(past) > 0 /\ Oldest(ring', Len(past) - 1).reversible =>
           \A p \in Places : p \notin past'[Len(past)].loose => At(Now', p) = At(Now, p)
  PROVE  Recoverable' /\ Looser'
<1>1. /\ past \in Seq(LogEntries) /\ open \in Seq(LogEntries) /\ open' \in Seq(LogEntries)
      /\ Len(past) \in Nat
  BY LenProperties DEF TypeOK
<1>2. Len(past') = Len(past)
  BY DEF LooserBy
<1>3. \A i \in 1 .. Len(past) :
        past'[i].state = past[i].state /\ past[i].loose \subseteq past'[i].loose
  BY DEF LooserBy
<1>4. \A i \in 1 .. Len(past) : Keeps(Oldest(ring', i - 1), Oldest(ring, i - 1))
  BY MarkedKeeps
<1>5. Recoverable'
  BY <1>1, <1>2, <1>3, <1>4, RecoverableLater
<1>6. Looser'
  BY <1>1, LooserLater
<1> QED  BY <1>5, <1>6

\* A step or Poke that becomes an entry can be undone like the others, when it takes the
\* machine back and is a barrier after an effect.
LEMMA RecordedRecoverable ==
  ASSUME TypeOK, Sound(ring, past, capacity, allocator), Recoverable, Looser, Barred,
         NEW e, Recorded(e), capacity # 0, Len(open) = 1, open' = <<>>,
         e.reversible => Takes(e, open[1], machine') /\ ~open[1].lost
  PROVE  Recoverable' /\ Looser' /\ Barred'
<1> DEFINE n == ring.count
           m == ring'.count
<1>1. /\ n \in Nat /\ Len(past) = n /\ Dropped \in 0 .. 1 /\ capacity \in Nat
      /\ m = n + 1 - Dropped /\ m \in Nat /\ m > 0 /\ Len(past') = m /\ m - 1 + Dropped = n
  <2>1. n \in Nat /\ Len(past) = n /\ capacity \in Nat
    BY HistoryAssumption DEF Sound, IsRing, TypeOK
  <2>2. Dropped \in 0 .. 1 /\ (Dropped = 1 => n = capacity)
    BY DEF Dropped
  <2>3. m = n + 1 - Dropped /\ Len(past') = m
    BY DEF Recorded
  <2> QED  BY <2>1, <2>2, <2>3
<1>2. /\ past'[m] = open[1] /\ Keeps(Oldest(ring', m - 1), e)
      /\ \A i \in 1 .. m - 1 :
           past'[i] = past[i + Dropped] /\ Keeps(Oldest(ring', i - 1), Oldest(ring, i - 1 + Dropped))
  BY DEF Recorded
<1>3. Now' = machine' /\ Now = open[1].state
  BY DEF Now
<1> HIDE DEF n, m
<1>4. ASSUME NEW i \in 1 .. m, Oldest(ring', i - 1).reversible
      PROVE  Takes(Oldest(ring', i - 1), past'[i], Left(i)')
  <2>1. CASE i = m
    <3>1. Left(i)' = machine'
      BY <2>1, <1>1, <1>3 DEF Left
    <3>2. e.reversible /\ Takes(e, open[1], machine')
      BY <2>1, <1>2, <1>4 DEF Keeps
    <3> QED  BY <2>1, <3>1, <3>2, <1>2, <1>4, TakesLater
  <2>2. CASE i # m
    <3>1. i \in 1 .. m - 1 /\ i + Dropped \in 1 .. n /\ i + Dropped - 1 = i - 1 + Dropped
      BY <2>2, <1>1
    <3>2. /\ past'[i] = past[i + Dropped]
          /\ Keeps(Oldest(ring', i - 1), Oldest(ring, i - 1 + Dropped))
      BY <3>1, <1>2
    <3>3. Takes(Oldest(ring, i - 1 + Dropped), past[i + Dropped], Left(i + Dropped))
      <4>1. Oldest(ring, i - 1 + Dropped).reversible
        BY <1>4, <3>2 DEF Keeps
      <4> QED  BY <4>1, <3>1, <1>1 DEF Recoverable
    <3>4. Left(i)' = Left(i + Dropped)
      <4>1. CASE i < m - 1
        <5>1. i + 1 \in 1 .. m - 1 /\ i < m /\ i + Dropped < n /\ i + 1 + Dropped = i + Dropped + 1
          BY <4>1, <3>1, <1>1
        <5>2. past'[i + 1] = past[i + 1 + Dropped]
          BY <5>1, <1>2
        <5> QED  BY <5>1, <5>2, <1>1 DEF Left
      <4>2. CASE i = m - 1
        <5>1. i + 1 = m /\ i < m /\ ~(i + Dropped < n)
          BY <4>2, <3>1, <1>1
        <5> QED  BY <5>1, <1>1, <1>2, <1>3 DEF Left
      <4> QED  BY <4>1, <4>2, <3>1, <1>1
    <3> QED  BY <1>4, <3>2, <3>3, <3>4, TakesLater
  <2> QED  BY <2>1, <2>2
<1>5. Recoverable'
  BY <1>1, <1>4 DEF Recoverable
<1>6. Looser'
  <2>1. ASSUME NEW i \in 1 .. m - 1 PROVE past'[i + 1].loose \subseteq past'[i].loose
    <3>1. past'[i] = past[i + Dropped]
      BY <1>2
    <3>2. CASE i < m - 1
      <4>1. i + 1 \in 1 .. m - 1 /\ i + Dropped \in 1 .. n - 1 /\ i + 1 + Dropped = i + Dropped + 1
        BY <3>2, <1>1
      <4>2. past'[i + 1] = past[i + Dropped + 1]
        BY <4>1, <1>2
      <4>3. past[i + Dropped + 1].loose \subseteq past[i + Dropped].loose
        BY <4>1, <1>1 DEF Looser
      <4> QED  BY <3>1, <4>2, <4>3
    <3>3. CASE i = m - 1
      <4>1. i + 1 = m /\ i + Dropped = n /\ n > 0
        BY <3>3, <1>1
      <4>2. open # <<>>
        OBVIOUS
      <4>3. open[1].loose \subseteq past[n].loose
        BY <4>1, <4>2, <1>1 DEF Looser
      <4> QED  BY <3>1, <4>1, <4>3, <1>2
    <3> QED  BY <3>2, <3>3, <1>1
  <2> QED  BY <2>1, <1>1 DEF Looser
<1>7. Barred'
  <2> SUFFICES ASSUME NEW i \in 1 .. m, past'[i].lost, "world" \notin past'[i].loose
               PROVE  \E j \in i .. m : ~Oldest(ring', j - 1).reversible
    BY <1>1 DEF Barred
  <2>1. CASE ~Oldest(ring', m - 1).reversible
    <3>1. m \in i .. m
      BY <1>1
    <3> QED  BY <2>1, <3>1
  <2>2. CASE Oldest(ring', m - 1).reversible
    <3>1. ~open[1].lost
      BY <2>2, <1>2 DEF Keeps
    <3>2. i # m
      BY <3>1, <1>2
    <3>3. i \in 1 .. m - 1 /\ i + Dropped \in 1 .. n
      BY <3>2, <1>1
    <3>4. past[i + Dropped].lost /\ "world" \notin past[i + Dropped].loose
      BY <3>3, <1>2
    <3>5. PICK j \in i + Dropped .. n : ~Oldest(ring, j - 1).reversible
      BY <3>1, <3>3, <3>4, <1>1 DEF Barred
    <3>6. /\ j - Dropped \in i .. m - 1 /\ j - Dropped \in 1 .. m - 1 /\ j - Dropped \in i .. m
          /\ j - Dropped - 1 + Dropped = j - 1
      BY <3>3, <3>5, <1>1
    <3>7. ~Oldest(ring', j - Dropped - 1).reversible
      BY <3>5, <3>6, <1>2 DEF Keeps
    <3> QED  BY <3>6, <3>7
  <2> QED  BY <2>1, <2>2
<1> QED  BY <1>5, <1>6, <1>7

\* What an undo leaves is where its entry began, but for what was loose or a Poke had edited.
LEMMA UndoneRestores ==
  ASSUME IInv, UndoSound, Undo,
         NEW edited, edited = IF poke THEN Differing(machine, open[1].state) ELSE {}
  PROVE  /\ \A p \in Places : p \notin past[ring.count].loose \cup edited =>
              At(machine', p) = At(past[ring.count].state, p)
         /\ machine'.executed = past[ring.count].state.executed
         /\ machine'.stack = past[ring.count].state.stack
<1> DEFINE n == ring.count
           e == EntryAt(ring, 0)
           was == past[n]
<1>1. /\ TypeOK /\ Sound(ring, past, capacity, allocator) /\ StepSound
      /\ phase = "idle" /\ CanUndo
  BY DEF IInv, Undo
<1>2. n \in Nat /\ n > 0 /\ Len(past) = n /\ n \in 1 .. n /\ n - 1 \in 0 .. n - 1 /\ n - 1 + 1 = n
  BY <1>1, UndoTyped DEF Sound
<1>3. e = Oldest(ring, n - 1) /\ e.reversible
  <2>1. n - 1 - 0 = n - 1
    BY <1>2
  <2> QED  BY <1>1, <2>1 DEF EntryAt, CanUndo
<1>4. Before(ring, n - 1) = was.state.regs
  BY <1>1, <1>2 DEF Sound, Chain
<1>5. machine' = Back(e, was.state.regs, machine)
  BY <1>4 DEF Undo, Back
<1>6. Left(n) = Now
  BY <1>2 DEF Left
<1> HIDE DEF n, e, was
<1>7. Takes(e, was, Now)
  <2>1. Recoverable
    BY DEF UndoSound
  <2> QED  BY <2>1, <1>2, <1>3, <1>6 DEF Recoverable, was
<1>8. ASSUME NEW p \in Places, p \notin edited PROVE At(machine, p) = At(Now, p)
  <2>1. CASE poke
    <3>1. open # <<>>
      BY <2>1 DEF UndoSound
    <3> QED  BY <1>8, <2>1, <3>1 DEF Differing, Now
  <2>2. CASE ~poke
    <3>1. open = <<>>
      BY <2>2, <1>1 DEF UndoSound
    <3> QED  BY <3>1 DEF Now
  <2> QED  BY <2>1, <2>2
<1>9. ASSUME NEW p \in Places, p \notin was.loose \cup edited
      PROVE  At(machine', p) = At(was.state, p)
  <2>1. At(machine', p) = At(Back(e, was.state.regs, Now), p)
    BY <1>5, <1>8, <1>9, BackPlace
  <2> QED  BY <1>7, <1>9, <2>1 DEF Takes
<1>10. machine'.executed = was.state.executed /\ machine'.stack = was.state.stack
  BY <1>5, <1>7 DEF Takes, Back
<1> QED  BY <1>9, <1>10 DEF was, n

\* And the entry before it can then be undone from there.
LEMMA UndoneRecoverable ==
  ASSUME IInv, UndoSound, Undo
  PROVE  Recoverable' /\ Looser' /\ Barred'
<1> DEFINE n == ring.count
           edited == IF poke THEN Differing(machine, open[1].state) ELSE {}
           kept == SubSeq(past, 1, Len(past) - 1)
<1>1. /\ TypeOK /\ Sound(ring, past, capacity, allocator) /\ StepSound
      /\ phase = "idle" /\ CanUndo
      /\ ring' = WithoutNewest(ring) /\ past' = Loosen(kept, edited) /\ open' = <<>>
  BY DEF IInv, Undo
<1>2. /\ n \in Nat /\ n > 0 /\ Len(past) = n /\ past \in Seq(LogEntries) /\ ring.hollow < n
      /\ capacity \in Nat
  BY <1>1, UndoTyped, HistoryAssumption DEF Sound, TypeOK
<1>3. \A i \in 0 .. n - 2 : Oldest(ring', i) = Oldest(ring, i)
  BY <1>1, <1>2, WithoutNewestProperties DEF Sound
<1>4. kept \in Seq(LogEntries) /\ Len(kept) = n - 1 /\ \A i \in 1 .. n - 1 : kept[i] = past[i]
  <2>1. \A i \in 1 .. n - 1 : past[i] \in LogEntries
    BY <1>2
  <2>2. 1 \in Int /\ n - 1 \in Int
    BY <1>2
  <2>3. /\ kept \in Seq(LogEntries)
        /\ Len(kept) = IF 1 <= n - 1 THEN n - 1 - 1 + 1 ELSE 0
        /\ \A i \in 1 .. n - 1 - 1 + 1 : kept[i] = past[1 + i - 1]
    BY <1>2, <2>1, <2>2, SubSeqProperties
  <2> QED  BY <1>2, <2>3
<1>5. edited \in SUBSET Spots
  BY DifferingTyped
<1>6. /\ \A p \in Places : p \notin past[n].loose \cup edited =>
           At(machine', p) = At(past[n].state, p)
  BY UndoneRestores
<1> HIDE DEF edited, kept
<1>7. /\ Len(past') = n - 1
      /\ \A i \in 1 .. n - 1 :
           /\ past'[i].state = past[i].state /\ past'[i].loose = past[i].loose \cup edited
           /\ past'[i].lost <=> past[i].lost
  BY <1>1, <1>4, <1>5, LoosenLooser DEF LooserBy
<1>8. Recoverable /\ Looser /\ Barred
  BY DEF UndoSound
<1>9. Now' = machine'
  BY <1>1 DEF Now
<1> HIDE DEF n
<1>10. ASSUME NEW i \in 1 .. n - 1, Oldest(ring', i - 1).reversible
       PROVE  Takes(Oldest(ring', i - 1), past'[i], Left(i)')
  <2>1. i \in 1 .. n /\ i - 1 \in 0 .. n - 2 /\ i + 1 \in 1 .. n /\ i < n
    BY <1>2
  <2>2. Oldest(ring', i - 1) = Oldest(ring, i - 1)
    BY <1>3, <2>1
  <2>3. Takes(Oldest(ring, i - 1), past[i], Left(i))
    BY <1>2, <1>8, <1>10, <2>1, <2>2 DEF Recoverable
  <2>4. Left(i) = past[i + 1].state
    BY <1>2, <2>1 DEF Left
  <2>5. ASSUME NEW p \in Places, p \notin past'[i].loose PROVE At(Left(i)', p) = At(Left(i), p)
    <3>1. CASE i < n - 1
      <4>1. i + 1 \in 1 .. n - 1
        BY <3>1, <1>2
      <4>2. Left(i)' = past'[i + 1].state
        BY <3>1, <1>7 DEF Left
      <4> QED  BY <4>1, <4>2, <2>4, <1>7
    <3>2. CASE i = n - 1
      <4>1. Left(i)' = machine' /\ i + 1 = n
        BY <3>2, <1>2, <1>7, <1>9 DEF Left
      <4>2. past[n].loose \subseteq past[i].loose
        BY <4>1, <1>2, <1>8 DEF Looser
      <4>3. p \notin past[n].loose \cup edited
        BY <4>2, <2>5, <1>7
      <4> QED  BY <4>1, <4>3, <2>4, <1>6
    <3> QED  BY <3>1, <3>2, <1>2
  <2>6. /\ Oldest(ring', i - 1).reversible /\ Keeps(Oldest(ring', i - 1), Oldest(ring, i - 1))
        /\ past'[i].state = past[i].state /\ past[i].loose \subseteq past'[i].loose
    BY <1>7, <1>10, <2>2, KeepsItself
  <2> HIDE DEF Left
  <2> QED  BY <2>3, <2>5, <2>6, TakesLater
<1>11. Recoverable'
  BY <1>7, <1>10 DEF Recoverable
<1>12. Looser'
  <2>1. ASSUME NEW i \in 1 .. n - 2 PROVE past'[i + 1].loose \subseteq past'[i].loose
    <3>1. i \in 1 .. n - 1 /\ i + 1 \in 1 .. n - 1
      BY <1>2
    <3>2. past[i + 1].loose \subseteq past[i].loose
      BY <3>1, <1>2, <1>8 DEF Looser
    <3> QED  BY <3>1, <3>2, <1>7
  <2>2. n - 1 - 1 = n - 2
    BY <1>2
  <2> QED  BY <2>1, <2>2, <1>1, <1>7 DEF Looser
<1>13. Barred'
  <2> SUFFICES ASSUME NEW i \in 1 .. n - 1, past'[i].lost, "world" \notin past'[i].loose
               PROVE  \E j \in i .. n - 1 : ~Oldest(ring', j - 1).reversible
    BY <1>7 DEF Barred
  <2>1. past[i].lost /\ "world" \notin past[i].loose /\ i \in 1 .. n
    BY <1>2, <1>7
  <2>2. ~step.pending
    BY <1>1 DEF StepSound
  <2>3. PICK j \in i .. n : ~Oldest(ring, j - 1).reversible
    BY <1>2, <1>8, <2>1, <2>2 DEF Barred
  <2>4. j # n
    <3>1. n - 1 - 0 = n - 1
      BY <1>2
    <3> QED  BY <1>1, <2>3, <3>1 DEF CanUndo, EntryAt, n
  <2>5. j \in i .. n - 1 /\ j - 1 \in 0 .. n - 2
    BY <2>3, <2>4, <1>2
  <2> QED  BY <2>3, <2>5, <1>3
<1> QED  BY <1>11, <1>12, <1>13

-----------------------------------------------------------------------------
(* The step or Poke under way. *)

\* The log entry of the step under way is one.
LEMMA OpenTyped ==
  ASSUME TypeOK, Len(open) = 1
  PROVE  open[1] \in LogEntries
<1>1. open \in Seq(LogEntries) /\ 1 \in 1 .. Len(open)
  BY DEF TypeOK
<1> QED  BY <1>1, ElementOfSeq

\* A write kept joins the ones its instruction's parts and it kept before.
LEMMA OneMoreWrite ==
  ASSUME NEW parts \in Writes, NEW writes \in Writes, NEW w \in [addr : Addrs, old : Bytes]
  PROVE  parts \o Append(writes, w) = Append(parts \o writes, w)
<1> DEFINE W == [addr : Addrs, old : Bytes]
<1>1. parts \in Seq(W) /\ writes \in Seq(W) /\ w \in W
  BY DEF Writes
<1> HIDE DEF W
<1>2. <<w>> \in Seq(W) /\ parts \o writes \in Seq(W)
  BY <1>1
<1>3. Append(writes, w) = writes \o <<w>> /\ Append(parts \o writes, w) = (parts \o writes) \o <<w>>
  BY <1>1, <1>2, AppendIsConcat
<1> QED  BY <1>1, <1>2, <1>3, ConcatAssociative

\* No write more leaves them as they are.
LEMMA NoMoreWrites ==
  ASSUME NEW ws \in Writes
  PROVE  ws \o <<>> = ws
<1> DEFINE W == [addr : Addrs, old : Bytes]
<1>1. ws \in Seq(W)
  BY DEF Writes
<1> HIDE DEF W
<1> QED  BY <1>1, ConcatEmptySeq

\* What a device was before the first of the records is what it was before them all.
LEMMA AppendedHead ==
  ASSUME NEW journal \in Seq(Devices), NEW d \in Devices,
         NEW more, more = Append(journal, d)
  PROVE  more # <<>> /\ Head(more) = IF journal = <<>> THEN d ELSE Head(journal)
<1>1. more # <<>> /\ more \in Seq(Devices) /\ Len(journal) \in Nat
  BY AppendProperties
<1>2. CASE journal = <<>>
  <2>1. more[1] = d
    BY <1>2, AppendProperties
  <2> QED  BY <1>1, <1>2, <2>1, HeadTailProperties
<1>3. CASE journal # <<>>
  BY <1>1, <1>3, HeadTailAppend
<1> QED  BY <1>2, <1>3

\* A register edited is the only place that changes.
LEMMA RegisterEdited ==
  ASSUME NEW s \in Machines, NEW t, NEW r \in RegNames, NEW v \in RegValues,
         t.regs = [s.regs EXCEPT ![r] = v], t.mem = s.mem, t.dev = s.dev, t.exited = s.exited
  PROVE  \A p \in Places : p \notin {r} => At(t, p) = At(s, p)
<1>1. s.regs \in [RegNames -> RegValues]
  BY DEF Machines, Registers
<1>2. \A p \in RegNames : p # r => t.regs[p] = s.regs[p]
  BY <1>1
<1>3. ASSUME NEW p \in Places, p # r PROVE At(t, p) = At(s, p)
  <2>1. CASE p \in RegNames
    <3>1. t.regs[p] = s.regs[p]
      BY <1>2, <1>3, <2>1, Zenon
    <3>2. At(t, p) = t.regs[p] /\ At(s, p) = s.regs[p]
      BY <2>1, AtProperties, Zenon
    <3> QED  BY <3>1, <3>2, Zenon
  <2>2. CASE p \notin RegNames
    <3>1. p \in Addrs \/ p = "dev" \/ p = "exited"
      BY <2>2 DEF Places
    <3> QED  BY <3>1, AtProperties
  <2> QED  BY <2>1, <2>2
<1> QED  BY <1>3

\* So is a byte.
LEMMA ByteEdited ==
  ASSUME NEW s \in Machines, NEW t, NEW a \in Addrs, NEW b \in Bytes,
         t.mem = [s.mem EXCEPT ![a] = b], t.regs = s.regs, t.dev = s.dev, t.exited = s.exited
  PROVE  \A p \in Places : p \notin {a} => At(t, p) = At(s, p)
<1>1. s.mem \in [Addrs -> Bytes]
  BY DEF Machines
<1>2. \A p \in Addrs : p # a => t.mem[p] = s.mem[p]
  BY <1>1
<1>3. ASSUME NEW p \in Places, p # a PROVE At(t, p) = At(s, p)
  <2>1. CASE p \in Addrs
    <3>1. t.mem[p] = s.mem[p]
      BY <1>2, <1>3, <2>1, Zenon
    <3>2. At(t, p) = t.mem[p] /\ At(s, p) = s.mem[p]
      BY <2>1, AtProperties, Zenon
    <3> QED  BY <3>1, <3>2, Zenon
  <2>2. CASE p \notin Addrs
    <3>1. p \in RegNames \/ p = "dev" \/ p = "exited"
      BY <2>2 DEF Places
    <3> QED  BY <3>1, AtProperties
  <2> QED  BY <2>1, <2>2
<1> QED  BY <1>3

\* A host edit of a byte is taken back like any other change of it.
LEMMA OtherByte ==
  ASSUME NEW ws, NEW mem, NEW now, NEW c \in Addrs, now[c] = mem[c]
  PROVE  TakenBack(ws, now)[c] = TakenBack(ws, mem)[c]
BY DEF TakenBack

\* What a step keeps it goes on keeping when it records what it was told, and everything it
\* began from is as it was.
LEMMA StepKeepsLater ==
  ASSUME StepKeeps, open'[1].state = open[1].state, open'[1].lost <=> open[1].lost,
         open[1].loose \subseteq open'[1].loose,
         machine'.exited = machine.exited, machine'.stack = machine.stack,
         machine'.dev = machine.dev,
         step'.pending_irreversible <=> step.pending_irreversible,
         step'.instructions = step.instructions, step'.journal = step.journal,
         ~step'.truncated =>
           /\ ~step.truncated
           /\ \A a \in Addrs : a \notin open'[1].loose =>
                TakenBack(step'.parts \o step'.writes, machine'.mem)[a] =
                TakenBack(step.parts \o step.writes, machine.mem)[a]
  PROVE  StepKeeps'
BY DEF StepKeeps

\* The entry a retired instruction leaves takes the machine back to where it began, unless
\* it is a barrier.
LEMMA RetiredTakes ==
  ASSUME TypeOK, StepKeeps, Len(open) = 1, NEW r \in Registers, NEW end, NEW id,
         NEW irreversible,
         irreversible <=> \/ step.truncated \/ (step.parts # <<>> /\ TooMuch(step))
                          \/ step.pending_irreversible \/ end = "handled",
         NEW exits, exits <=> end \in {"exit", "killed"},
         machine'.regs = r, machine'.exited <=> end \in {"exit", "killed"},
         machine'.mem = machine.mem, machine'.dev = machine.dev,
         NEW e,
         e = EntryOf(r, step.parts \o step.writes, step.journal, irreversible, exits, id)
  PROVE  e.reversible => Takes(e, open[1], machine') /\ ~open[1].lost
<1> SUFFICES ASSUME e.reversible PROVE Takes(e, open[1], machine') /\ ~open[1].lost
  OBVIOUS
<1> DEFINE began == open[1].state
           back == Back(e, began.regs, machine')
<1>1. /\ e.after = r /\ e.writes = step.parts \o step.writes /\ e.journal = step.journal
      /\ e.exited = exits /\ e.instructions_before = step.instructions
      /\ e.stack_before = machine.stack /\ (e.reversible <=> ~irreversible)
  BY DEF EntryOf, Vacant
<1>2. ~step.truncated /\ ~step.pending_irreversible /\ ~open[1].lost
  BY <1>1 DEF StepKeeps
<1>3. open[1] \in LogEntries
  BY OpenTyped
<1>4. began.regs \in Registers /\ began.exited \in BOOLEAN
  BY <1>3 DEF LogEntries, Machines
<1>5. \A p \in RegNames : back.regs[p] = began.regs[p]
  BY <1>1, <1>4 DEF Back
<1>6. \A a \in Addrs : a \notin open[1].loose => back.mem[a] = began.mem[a]
  BY <1>1, <1>2 DEF Back, StepKeeps
<1>7. back.dev = began.dev
  BY <1>1 DEF Back, StepKeeps
<1>8. back.exited = began.exited
  <2>1. back.exited = (machine'.exited /\ ~exits)
    BY <1>1 DEF Back
  <2>2. ~(machine'.exited /\ ~exits)
    OBVIOUS
  <2>3. ~began.exited
    BY DEF StepKeeps
  <2> HIDE DEF back, began
  <2> QED  BY <2>1, <2>2, <2>3, <1>4
<1>9. back.executed = began.executed /\ back.stack = began.stack
  BY <1>1 DEF Back, StepKeeps
<1> HIDE DEF back, began
<1>10. \A p \in Places : p \notin open[1].loose => At(back, p) = At(began, p)
  BY <1>5, <1>6, <1>7, <1>8, AtProperties
<1> QED  BY <1>2, <1>9, <1>10 DEF Takes, back, began

\* So does the entry of a Poke.
LEMMA PokeTakes ==
  ASSUME TypeOK, PokeKeeps, Len(open) = 1, NEW id, NEW irreversible,
         NEW e, e = EntryOf(machine.regs, PokeWrites, <<>>, irreversible, FALSE, id)
  PROVE  Takes(e, open[1], machine) /\ ~open[1].lost
<1> DEFINE began == open[1].state
           back == Back(e, began.regs, machine)
<1>1. /\ e.after = machine.regs /\ e.writes = PokeWrites /\ e.journal = <<>>
      /\ e.exited = FALSE /\ e.instructions_before = step.instructions
      /\ e.stack_before = machine.stack
  BY DEF EntryOf, Vacant
<1>2. open[1] \in LogEntries
  BY OpenTyped
<1>3. machine.mem \in [Addrs -> Bytes] /\ machine.exited \in BOOLEAN /\ poke_bytes \in Writes
  BY DEF TypeOK, Machines
<1>4. \A p \in RegNames : back.regs[p] = began.regs[p]
  BY <1>1 DEF Back
<1>5. \A a \in Addrs : back.mem[a] = began.mem[a]
  BY <1>1, <1>3, PokeTakenBack DEF Back, PokeKeeps
<1>6. back.dev = began.dev
  BY <1>1 DEF Back, PokeKeeps
<1>7. back.exited = began.exited
  <2>1. back.exited = (machine.exited /\ ~FALSE)
    BY <1>1 DEF Back
  <2>2. machine.exited = began.exited
    BY DEF PokeKeeps
  <2> HIDE DEF back, began
  <2> QED  BY <2>1, <2>2, <1>3
<1>8. back.executed = began.executed /\ back.stack = began.stack
  BY <1>1 DEF Back, PokeKeeps
<1> HIDE DEF back, began
<1>9. \A p \in Places : At(back, p) = At(began, p)
  BY <1>4, <1>5, <1>6, <1>7, AtProperties
<1> QED  BY <1>8, <1>9 DEF Takes, back, began, PokeKeeps

\* A Poke that changed nothing leaves the machine where it began.
LEMMA NothingPoked ==
  ASSUME TypeOK, PokeKeeps, Overwritten = {}, machine.regs = step.registers
  PROVE  \A p \in Places : At(machine, p) = At(open[1].state, p)
<1> DEFINE began == open[1].state
<1>1. \A p \in RegNames : machine.regs[p] = began.regs[p]
  BY DEF PokeKeeps
<1>2. \A a \in Addrs : machine.mem[a] = began.mem[a]
  <2> SUFFICES ASSUME NEW a \in Addrs PROVE TakenBack(poke_bytes, machine.mem)[a] = machine.mem[a]
    BY DEF PokeKeeps
  <2> QED  BY DEF Overwritten, TakenBack
<1>3. machine.dev = began.dev /\ machine.exited = began.exited
  BY DEF PokeKeeps
<1> QED  BY <1>1, <1>2, <1>3, AtProperties

-----------------------------------------------------------------------------
(* The steps and Pokes that become entries. *)

\* An instruction that retires while the history records becomes an entry.
LEMMA RetireRecords ==
  ASSUME IInv, NEW r \in Registers, NEW flow, NEW end, Retire(r, flow, end), step.pending,
         capacity # 0,
         NEW irreversible \in BOOLEAN,
         irreversible = (\/ step.truncated \/ (step.parts # <<>> /\ TooMuch(step))
                         \/ step.pending_irreversible \/ end = "handled"),
         NEW exits \in BOOLEAN, exits = (end \in {"exit", "killed"})
  PROVE  Recorded(EntryOf(r, step.parts \o step.writes, step.journal, irreversible, exits,
                          identity))
<1>1. TypeOK /\ Sound(ring, past, capacity, allocator) /\ StepSound
  BY DEF IInv
<1>2. /\ Underway /\ identity = allocator /\ identity \in Nat /\ allocator \in Nat
      /\ ring.count > 0 => EntryAt(ring, 0).identity < allocator
  BY <1>1 DEF StepSound, TypeOK
<1>3. step.parts \o step.writes \in Writes /\ step.journal \in Seq(Devices)
  BY <1>1 DEF TypeOK, Steps, Writes
<1>4. Finish(r, step.parts \o step.writes, step.journal, irreversible, exits, identity)
  BY DEF Retire
<1>5. allocator <= allocator
  BY <1>2
<1> QED  BY <1>1, <1>2, <1>3, <1>4, <1>5, FinishSound

\* So does a Poke that changed something.
LEMMA EndPokeRecords ==
  ASSUME IInv, EndPoke, capacity # 0, Overwritten # {} \/ machine.regs # step.registers
  PROVE  Recorded(EntryOf(machine.regs, PokeWrites, <<>>, step.pending_irreversible, FALSE,
                          allocator + 1))
<1>1. TypeOK /\ Sound(ring, past, capacity, allocator) /\ StepSound /\ poke
  BY DEF IInv, EndPoke
<1>2. Finish(machine.regs, PokeWrites, <<>>, step.pending_irreversible, FALSE, allocator + 1)
  BY DEF EndPoke
<1>3. Underway /\ ring.count > 0 => EntryAt(ring, 0).identity < allocator + 1
  BY <1>1, NewestIdentity DEF StepSound
<1>4. /\ step.pending_irreversible \in BOOLEAN /\ <<>> \in Seq(Devices) /\ FALSE \in BOOLEAN
      /\ allocator \in Nat /\ allocator + 1 \in Nat /\ allocator + 1 <= allocator + 1
      /\ PokeWrites \in Writes /\ machine.regs \in Registers
  BY <1>1, PokeWritesProperties DEF Steps, Machines, TypeOK
<1>5. Underway
  BY <1>1 DEF StepSound
<1> QED  BY <1>1, <1>2, <1>3, <1>4, <1>5, FinishSound

-----------------------------------------------------------------------------
(* Every action keeps it. *)

\* Every entry stays recoverable, and every barrier where it is, whatever happens next.
LEMMA NextUndoSound == IInv /\ UndoSound /\ [Next]_vars => UndoSound'
<1> SUFFICES ASSUME IInv, UndoSound, [Next]_vars PROVE UndoSound'
  OBVIOUS
<1>1. TypeOK /\ Sound(ring, past, capacity, allocator) /\ StepSound
  BY DEF IInv
<1>2. TypeOK' /\ Sound(ring', past', capacity', allocator') /\ StepSound'
  BY NextSound DEF IInv
<1>3. /\ Recoverable /\ Looser /\ Barred
      /\ open = <<>> <=> phase = "idle" /\ ~poke
      /\ phase # "idle" => step.pending \/ capacity = 0
      /\ step.pending => StepKeeps /\ capacity # 0
      /\ poke => PokeKeeps
  BY DEF UndoSound
<1>4. /\ machine \in Machines /\ step \in Steps /\ poke_bytes \in Writes /\ poke \in BOOLEAN
      /\ past \in Seq(LogEntries) /\ open \in Seq(LogEntries) /\ open' \in Seq(LogEntries)
      /\ phase \in {"idle", "running", "waiting"} /\ Len(past) \in Nat
  BY <1>1, <1>2, LenProperties DEF TypeOK
<1>5. machine.mem \in [Addrs -> Bytes] /\ step.parts \in Writes /\ step.writes \in Writes
      /\ step.journal \in Seq(Devices)
  BY <1>4 DEF Machines, Steps
<1>6. /\ phase # "idle" => Len(open) = 1 /\ ~poke
      /\ poke => phase = "idle" /\ Len(open) = 1
      /\ step.pending => phase # "idle"
  BY <1>1 DEF StepSound, Underway
<1>7. capacity = 0 => Len(past) = 0
  BY <1>1 DEF Sound, IsRing, Shaped
<1>8. LooserBy(past, past, {}) /\ LooserBy(open, open, {}) /\ {} \in SUBSET {}
  BY LooserItself
<1>9. \A i \in 1 .. Len(past) : Keeps(Oldest(ring, i - 1), Oldest(ring, i - 1))
  BY KeepsItself
\* What a step that leaves the ring, the log and the machine's past alone keeps.
<1>10. ASSUME ring' = ring, past' = past, open' = open, open # <<>>,
              step'.pending <=> step.pending
       PROVE  Recoverable' /\ Looser' /\ Barred'
  <2>1. Now' = Now
    BY <1>10 DEF Now
  <2>2. Recoverable' /\ Looser'
    BY <1>1, <1>2, <1>3, <1>8, <1>10, <2>1, Unrecorded
  <2>3. Barred'
    BY <1>3, <1>4, <1>9, <1>10, BarredLater
  <2> QED  BY <2>2, <2>3
\* The instructions.
<1>11. CASE Begin
  <2> DEFINE S == Snapshot(TRUE, FALSE)
  <2>1. /\ phase = "idle" /\ ~poke /\ ~machine.exited /\ machine' = machine /\ ring' = ring
        /\ past' = past /\ capacity' = capacity /\ phase' = "running" /\ poke' = poke
        /\ open' = <<Opened(machine)>> /\ step' = IF capacity = 0 THEN step ELSE S
    BY <1>11 DEF Begin, history
  <2>2. /\ S.pending /\ S.instructions = machine.executed /\ S.journal = <<>>
        /\ S.writes = <<>> /\ S.parts = <<>> /\ ~S.truncated
    BY DEF Snapshot, NoStep
  <2> HIDE DEF S
  <2>3. /\ open' # <<>> /\ open'[1].state = machine /\ open'[1].loose = {} /\ ~open'[1].lost
    BY <2>1 DEF Opened
  <2>4. open = <<>> /\ ~step.pending
    BY <1>3, <1>6, <2>1
  <2>5. Now' = Now
    BY <2>1, <2>3, <2>4 DEF Now
  <2>6. Recoverable'
    BY <1>3, <1>4, <1>9, <2>1, <2>5, RecoverableLater
  <2>7. Looser'
    BY <1>3, <2>1, <2>3 DEF Looser
  <2>8. Barred'
    BY <1>3, <1>4, <1>9, <2>1, <2>4, BarredLater
  <2>9. ASSUME step'.pending PROVE StepKeeps' /\ capacity' # 0
    <3>1. capacity # 0 /\ step' = S
      BY <2>1, <2>4, <2>9
    <3>2. step'.parts \o step'.writes = <<>>
      BY <2>2, <3>1, ConcatEmptySeq
    <3>3. \A a \in Addrs : TakenBack(step'.parts \o step'.writes, machine'.mem)[a] = machine.mem[a]
      BY <2>1, <3>2, TakenBackNothing
    <3>4. capacity' # 0 /\ ~machine'.exited /\ ~open'[1].state.exited
      BY <2>1, <2>3, <3>1
    <3>5. /\ step'.instructions = open'[1].state.executed /\ machine'.stack = open'[1].state.stack
          /\ step'.journal = <<>> /\ machine'.dev = open'[1].state.dev
      BY <2>1, <2>2, <2>3, <3>1
    <3> QED  BY <2>3, <3>3, <3>4, <3>5 DEF StepKeeps
  <2>10. step'.pending \/ capacity' = 0
    BY <2>1, <2>2
  <2> QED  BY <2>1, <2>3, <2>6, <2>7, <2>8, <2>9, <2>10 DEF UndoSound
<1>12. ASSUME NEW a \in Addrs, NEW b \in Bytes, NEW kept \in BOOLEAN, Write(a, b, kept)
       PROVE  UndoSound'
  <2> DEFINE w == [addr |-> a, old |-> machine.mem[a]]
  <2>1. /\ phase = "running" /\ machine' = [machine EXCEPT !.mem[a] = b]
        /\ step' = IF ~step.pending THEN step
                   ELSE IF kept THEN [step EXCEPT !.writes = Append(@, w)]
                   ELSE [step EXCEPT !.truncated = TRUE]
        /\ phase' = phase /\ capacity' = capacity /\ ring' = ring /\ poke' = poke
        /\ past' = past /\ open' = open
    BY <1>12 DEF Write, instruction, history, ghosts
  <2>2. /\ machine'.mem = [machine.mem EXCEPT ![a] = b] /\ machine'.dev = machine.dev
        /\ machine'.exited = machine.exited /\ machine'.stack = machine.stack
    BY <1>4, <2>1 DEF Machines
  <2>3. w \in [addr : Addrs, old : Bytes]
    BY <1>5
  <2> HIDE DEF w
  <2>4. /\ step'.pending = step.pending /\ step'.pending_irreversible = step.pending_irreversible
        /\ step'.instructions = step.instructions /\ step'.journal = step.journal
        /\ step'.parts = step.parts
        /\ step.pending /\ ~kept => step'.truncated
        /\ step.pending /\ kept =>
             step'.writes = Append(step.writes, w) /\ step'.truncated = step.truncated
    BY <1>4, <2>1 DEF Steps
  <2>5. ~poke /\ open # <<>>
    BY <1>3, <1>6, <2>1
  <2>6. Recoverable' /\ Looser' /\ Barred'
    BY <1>10, <2>1, <2>4, <2>5
  <2>7. ASSUME step.pending PROVE StepKeeps'
    <3>1. ASSUME ~step'.truncated
          PROVE  /\ ~step.truncated
                 /\ TakenBack(step'.parts \o step'.writes, machine'.mem) =
                    TakenBack(step.parts \o step.writes, machine.mem)
      <4>1. kept /\ ~step.truncated
        BY <2>4, <2>7, <3>1
      <4> DEFINE before == step.parts \o step.writes
                 after == step'.parts \o step'.writes
                 mem == machine.mem
                 now == machine'.mem
      <4>2. after = Append(before, w)
        BY <1>5, <2>3, <2>4, <2>7, <4>1, OneMoreWrite
      <4>3. before \in Writes /\ mem \in [Addrs -> Bytes]
        BY <1>5 DEF Writes
      <4>4. /\ after \in Writes /\ Len(after) = Len(before) + 1
            /\ \A i \in 1 .. Len(before) : after[i] = before[i]
            /\ after[Len(before) + 1] = w
        <5> HIDE DEF before
        <5> QED  BY <2>3, <4>2, <4>3, AppendProperties DEF Writes
      <4>5. \A c \in Addrs : c # a => now[c] = mem[c]
        BY <1>5, <2>2
      <4> HIDE DEF before, after, mem, now
      <4>6. TakenBack(after, now) = TakenBack(before, mem)
        <5>1. before \in Writes /\ mem \in [Addrs -> Bytes] /\ a \in Addrs /\ after \in Writes
          BY <4>3, <4>4
        <5>2. Len(after) = Len(before) + 1 /\ \A i \in 1 .. Len(before) : after[i] = before[i]
          BY <4>4
        <5>3. after[Len(before) + 1].addr = a /\ after[Len(before) + 1].old = mem[a]
          BY <4>4 DEF w, mem
        <5> QED  BY <5>1, <5>2, <5>3, <4>5, TakenBackOneMore
      <4> QED  BY <4>1, <4>6 DEF before, after, mem, now
    <3>2. StepKeeps
      BY <1>3, <2>7
    <3> QED  BY <2>1, <2>2, <2>4, <3>1, <3>2, StepKeepsLater
  <2> QED  BY <1>3, <2>1, <2>4, <2>5, <2>6, <2>7 DEF UndoSound
<1>13. ASSUME NEW d \in Devices, Journal(d) PROVE UndoSound'
  <2>1. /\ phase = "running" /\ machine' = [machine EXCEPT !.dev = d]
        /\ phase' = phase /\ capacity' = capacity /\ poke' = poke
        /\ past' = past /\ open' = open
        /\ step.pending => step' = [step EXCEPT !.journal = Append(@, machine.dev)] /\ ring' = ring
        /\ ~step.pending => step' = step
    BY <1>13 DEF Journal, instruction, ghosts
  <2>2. ~poke /\ open # <<>> /\ Len(open) = 1
    BY <1>3, <1>6, <2>1
  <2>3. CASE ~step.pending
    <3>1. capacity' = 0 /\ Len(past') = 0 /\ ~step'.pending
      BY <1>3, <1>7, <2>1, <2>3
    <3> QED  BY <1>3, <2>1, <2>2, <3>1, EmptyLog DEF UndoSound
  <2>4. CASE step.pending
    <3>1. /\ step'.pending /\ step'.pending_irreversible = step.pending_irreversible
          /\ step'.instructions = step.instructions /\ step'.writes = step.writes
          /\ step'.parts = step.parts /\ (step'.truncated <=> step.truncated)
          /\ step'.journal = Append(step.journal, machine.dev)
      BY <1>4, <2>1, <2>4 DEF Steps
    <3>2. /\ machine'.dev = d /\ machine'.mem = machine.mem /\ machine'.exited = machine.exited
          /\ machine'.stack = machine.stack
      BY <1>4, <2>1 DEF Machines
    <3>3. Recoverable' /\ Looser' /\ Barred'
      BY <1>10, <2>1, <2>2, <2>4, <3>1
    <3>4. step'.journal # <<>> /\
          Head(step'.journal) = IF step.journal = <<>> THEN machine.dev ELSE Head(step.journal)
      BY <1>4, <1>5, <3>1, AppendedHead DEF Machines
    <3>5. StepKeeps /\ capacity # 0
      BY <1>3, <2>4
    <3>6. StepKeeps'
      BY <2>1, <3>1, <3>2, <3>4, <3>5 DEF StepKeeps
    <3> QED  BY <1>3, <2>1, <2>2, <3>1, <3>3, <3>5, <3>6 DEF UndoSound
  <2> QED  BY <2>3, <2>4
<1>14. CASE Effect
  <2>1. /\ machine' = machine /\ phase' = phase /\ capacity' = capacity /\ poke' = poke
        /\ poke_bytes' = poke_bytes
        /\ step' = MarkStep(step) /\ ring' = MarkRing(ring, step) /\ past' = Lose(past)
        /\ open' = IF poke THEN open ELSE Lose(open)
    BY <1>14 DEF Effect, instruction
  <2>2. /\ step'.pending = step.pending /\ step'.registers = step.registers
        /\ step'.instructions = step.instructions /\ step'.journal = step.journal
        /\ step'.parts = step.parts /\ step'.writes = step.writes
        /\ step'.truncated = step.truncated
        /\ step.pending => step'.pending_irreversible
        /\ ~step.pending => step' = step
    BY <1>4, <2>1 DEF MarkStep, Steps
  <2>3. LooserBy(past', past, {}) /\ LooserBy(open', open, {})
    BY <1>4, <1>8, <2>1, LoseEach
  <2>4. Len(open') = Len(open) /\ (open' = <<>> <=> open = <<>>)
    BY <1>4, <2>3, EmptySeq DEF LooserBy
  <2>5. Now' = Now
    <3>1. CASE open = <<>>
      BY <2>1, <2>4, <3>1 DEF Now
    <3>2. CASE open # <<>>
      <4>1. 1 \in 1 .. Len(open)
        BY <1>4, <3>2, EmptySeq, LenProperties
      <4>2. open'[1].state = open[1].state
        BY <2>3, <4>1 DEF LooserBy
      <4> QED  BY <2>4, <3>2, <4>2 DEF Now
    <3> QED  BY <3>1, <3>2
  <2>6. Recoverable' /\ Looser'
    BY <1>1, <1>2, <1>3, <1>8, <2>1, <2>3, <2>5, Unrecorded
  <2>7. ASSUME step.pending
        PROVE  /\ ~poke /\ open'[1].lost /\ open'[1].state = open[1].state
               /\ open'[1].loose = open[1].loose
    <3>1. ~poke /\ open' = Lose(open) /\ 1 \in 1 .. Len(open)
      BY <1>6, <2>1, <2>7
    <3> QED  BY <1>4, <2>3, <3>1, LoseEach DEF LooserBy
  <2>8. Barred'
    <3>1. CASE step.pending
      BY <2>2, <2>7, <3>1 DEF Barred
    <3>2. CASE ~step.pending
      <4>1. Len(past) > 0 => ~Oldest(ring', Len(past) - 1).reversible
        BY <1>1, <2>1, <3>2, MarkedKeeps
      <4>2. Len(past') = Len(past)
        BY <2>3 DEF LooserBy
      <4>3. \A i \in 1 .. Len(past) : Len(past) \in i .. Len(past) /\ Len(past) > 0
        BY <1>4
      <4> QED  BY <4>1, <4>2, <4>3 DEF Barred
    <3> QED  BY <3>1, <3>2
  <2>9. step'.pending => StepKeeps' /\ capacity' # 0
    <3>1. step.pending => StepKeeps /\ capacity # 0
      BY <1>3
    <3> QED  BY <2>1, <2>2, <2>7, <3>1 DEF StepKeeps
  <2>10. poke' => PokeKeeps'
    <3>1. poke => PokeKeeps /\ ~step.pending
      BY <1>3, <1>6
    <3> QED  BY <2>1, <2>2, <3>1 DEF PokeKeeps
  <2> QED  BY <1>3, <2>1, <2>2, <2>4, <2>6, <2>8, <2>9, <2>10 DEF UndoSound
<1>15. ASSUME NEW r \in Registers, Split(r) PROVE UndoSound'
  <2>1. /\ phase = "running" /\ step.pending /\ machine' = [machine EXCEPT !.regs = r]
        /\ phase' = phase /\ capacity' = capacity /\ poke' = poke /\ ring' = ring
        /\ past' = past /\ open' = open
        /\ step' = [step EXCEPT !.parts = @ \o step.writes, !.writes = <<>>,
                       !.truncated = @ \/ TooMuch(step)]
    BY <1>15 DEF Split, instruction, history, ghosts
  <2>2. /\ step'.pending /\ step'.pending_irreversible = step.pending_irreversible
        /\ step'.instructions = step.instructions /\ step'.journal = step.journal
        /\ step'.parts = step.parts \o step.writes /\ step'.writes = <<>>
        /\ ~step'.truncated => ~step.truncated
    BY <1>4, <2>1 DEF Steps
  <2>3. /\ machine'.dev = machine.dev /\ machine'.mem = machine.mem
        /\ machine'.exited = machine.exited /\ machine'.stack = machine.stack
    BY <1>4, <2>1 DEF Machines
  <2>4. ~poke /\ open # <<>>
    BY <1>3, <1>6, <2>1
  <2>5. Recoverable' /\ Looser' /\ Barred'
    BY <1>10, <2>1, <2>2, <2>4
  <2>6. step'.parts \o step'.writes = step.parts \o step.writes
    <3>1. step.parts \o step.writes \in Writes
      BY <1>5 DEF Writes
    <3>2. (step.parts \o step.writes) \o <<>> = step.parts \o step.writes
      BY <3>1, NoMoreWrites
    <3>3. step'.parts = step.parts \o step.writes /\ step'.writes = <<>>
      BY <2>2
    <3> QED  BY <3>2, <3>3
  <2>7. StepKeeps /\ capacity # 0
    BY <1>3, <2>1
  <2>8. StepKeeps'
    BY <2>1, <2>2, <2>3, <2>6, <2>7, StepKeepsLater
  <2> QED  BY <1>3, <2>1, <2>2, <2>4, <2>5, <2>7, <2>8 DEF UndoSound
<1>16. CASE Wait \/ Resume
  <2>1. /\ phase # "idle" /\ phase' # "idle" /\ machine' = machine /\ capacity' = capacity
        /\ step' = step /\ poke' = poke /\ ring' = ring /\ past' = past /\ open' = open
    BY <1>16 DEF Wait, Resume, history, ghosts
  <2>2. ~poke /\ open # <<>>
    BY <1>3, <1>6, <2>1
  <2>3. Recoverable' /\ Looser' /\ Barred'
    BY <1>10, <2>1, <2>2
  <2>4. StepKeeps => StepKeeps'
    BY <2>1 DEF StepKeeps
  <2> QED  BY <1>3, <2>1, <2>2, <2>3, <2>4 DEF UndoSound
<1>17. ASSUME NEW r \in Registers, NEW flow, NEW end, Retire(r, flow, end) PROVE UndoSound'
  <2>1. /\ phase = "running" /\ capacity' = capacity /\ poke' = poke /\ step' = NoStep
        /\ phase' = "idle" /\ open' = <<>>
    BY <1>17 DEF Retire
  <2>2. /\ machine'.regs = r /\ (machine'.exited <=> end \in {"exit", "killed"})
        /\ machine'.mem = machine.mem /\ machine'.dev = machine.dev
    BY <1>4, <1>17 DEF Retire, Machines
  <2>3. ~poke /\ Len(open) = 1 /\ (step.pending \/ capacity = 0) /\ ~NoStep.pending
    BY <1>3, <1>6, <2>1, NoStepTyped
  <2>4. Recoverable' /\ Looser' /\ Barred'
    <3>1. CASE ~step.pending
      <4>1. past' = past /\ Len(past) = 0
        BY <1>7, <1>17, <2>3, <3>1 DEF Retire
      <4> QED  BY <4>1, EmptyLog
    <3>2. CASE step.pending
      <4> DEFINE irreversible == \/ step.truncated \/ (step.parts # <<>> /\ TooMuch(step))
                                 \/ step.pending_irreversible \/ end = "handled"
                 exits == end \in {"exit", "killed"}
                 e == EntryOf(r, step.parts \o step.writes, step.journal, irreversible, exits,
                              identity)
      <4>1. irreversible \in BOOLEAN /\ exits \in BOOLEAN
        <5>1. irreversible \in BOOLEAN
          BY Zenon
        <5> QED  BY <5>1
      <4>2. StepKeeps /\ capacity # 0
        BY <1>3, <3>2
      <4>3. e.reversible => Takes(e, open[1], machine') /\ ~open[1].lost
        <5> HIDE DEF e
        <5>1. irreversible <=> \/ step.truncated \/ (step.parts # <<>> /\ TooMuch(step))
                               \/ step.pending_irreversible \/ end = "handled"
          OBVIOUS
        <5>2. exits <=> end \in {"exit", "killed"}
          OBVIOUS
        <5>3. e = EntryOf(r, step.parts \o step.writes, step.journal, irreversible, exits, identity)
          BY DEF e
        <5> HIDE DEF irreversible, exits
        <5> QED  BY <1>1, <2>2, <2>3, <4>2, <5>1, <5>2, <5>3, RetiredTakes
      <4>4. Recorded(e)
        <5>1. /\ irreversible = (\/ step.truncated \/ (step.parts # <<>> /\ TooMuch(step))
                                 \/ step.pending_irreversible \/ end = "handled")
              /\ exits = (end \in {"exit", "killed"})
          OBVIOUS
        <5> HIDE DEF irreversible, exits
        <5> QED  BY <1>17, <3>2, <4>1, <4>2, <5>1, RetireRecords
      <4> HIDE DEF e
      <4> QED  BY <1>1, <1>3, <2>1, <2>3, <4>2, <4>3, <4>4, RecordedRecoverable
    <3> QED  BY <3>1, <3>2
  <2> QED  BY <2>1, <2>3, <2>4 DEF UndoSound
<1>18. CASE NativeExit
  <2> DEFINE changed == Differing(machine', open[1].state)
             places == changed \cup (IF open[1].lost THEN {"world"} ELSE {})
  <2>1. /\ phase = "running" /\ step' = NoStep /\ phase' = "idle"
        /\ past' = Loosen(past, places) /\ open' = <<>> /\ ring' = ring /\ poke' = poke
    BY <1>18 DEF NativeExit, history
  <2>2. ~poke /\ open # <<>> /\ ~NoStep.pending
    BY <1>3, <1>6, <2>1, NoStepTyped
  <2>3. places \in SUBSET Spots /\ (open[1].lost => "world" \in places)
    BY DifferingTyped DEF Spots
  <2>4. \A p \in Places : p \notin places => At(Now', p) = At(Now, p)
    BY <2>1, <2>2 DEF Now, Differing
  <2> HIDE DEF places
  <2>5. /\ LooserBy(past', past, places)
        /\ \A i \in 1 .. Len(past) : past'[i].lost <=> past[i].lost
    BY <1>4, <2>1, <2>3, LoosenLooser
  <2>6. Len(past') = Len(past) /\ \A i \in 1 .. Len(past) : past'[i].loose = past[i].loose \cup places
    BY <1>4, <2>5 DEF LooserBy
  <2>7. Recoverable' /\ Looser'
    <3>1. Len(past) > 0 => past'[Len(past)].loose = past[Len(past)].loose \cup places
      BY <1>4, <2>6
    <3>2. Len(past) > 0 => \A p \in Places : p \notin past'[Len(past)].loose => At(Now', p) = At(Now, p)
      BY <2>4, <3>1
    <3> QED  BY <1>1, <1>2, <1>3, <2>1, <2>5, <3>2, Unrecorded
  <2>8. Barred'
    <3>1. \A i \in 1 .. Len(past) :
            /\ past'[i].lost => past[i].lost
            /\ past[i].loose \subseteq past'[i].loose
            /\ open[1].lost => "world" \in past'[i].loose
      BY <2>3, <2>5, <2>6
    <3>2. step.pending /\ open[1].lost => \A i \in 1 .. Len(past) : "world" \in past'[i].loose
      BY <3>1
    <3> QED  BY <1>3, <1>4, <1>9, <2>1, <2>6, <3>1, <3>2, BarredLater
  <2> QED  BY <2>1, <2>2, <2>7, <2>8 DEF UndoSound
<1>19. ASSUME NEW r \in Registers, NEW a \in Addrs, NEW b \in Bytes, NEW kills \in BOOLEAN,
              DeliverSignal(r, a, b, kills)
       PROVE  UndoSound'
  <2>1. /\ phase = "idle" /\ ~poke /\ phase' = phase /\ poke' = poke /\ step' = step
        /\ open' = open /\ ring' = MarkRing(ring, step) /\ past' = Lose(past)
    BY <1>19 DEF DeliverSignal, instruction
  <2>2. ~step.pending /\ open = <<>>
    BY <1>3, <1>6, <2>1
  <2>3. LooserBy(past', past, {})
    BY <1>4, <2>1, LoseEach
  <2>4. Len(past) > 0 => ~Oldest(ring', Len(past) - 1).reversible
    BY <1>1, <2>1, <2>2, MarkedKeeps
  <2>5. Recoverable' /\ Looser'
    BY <1>1, <1>2, <1>3, <1>8, <2>1, <2>3, <2>4, Unrecorded
  <2>6. Barred'
    <3>1. Len(past') = Len(past)
      BY <2>3 DEF LooserBy
    <3>2. \A i \in 1 .. Len(past) : Len(past) \in i .. Len(past) /\ Len(past) > 0
      BY <1>4
    <3> QED  BY <2>4, <3>1, <3>2 DEF Barred
  <2> QED  BY <1>3, <2>1, <2>2, <2>5, <2>6 DEF UndoSound
\* The host.
\* What an edit outside a Poke keeps.
<1>20. ASSUME ~poke, NEW places \in SUBSET Spots, ring' = ring, step' = step,
              past' = Loosen(past, places), open' = Loosen(open, places),
              \A p \in Places : p \notin places => At(machine', p) = At(machine, p)
       PROVE  /\ Recoverable' /\ Looser' /\ Barred' /\ (open' = <<>> <=> open = <<>>)
              /\ step.pending => /\ open'[1].state = open[1].state
                                 /\ open'[1].loose = open[1].loose \cup places
                                 /\ open'[1].lost <=> open[1].lost
  <2>1. /\ LooserBy(past', past, places) /\ LooserBy(open', open, places)
        /\ \A i \in 1 .. Len(past) : past'[i].lost <=> past[i].lost
        /\ \A i \in 1 .. Len(open) : open'[i].lost <=> open[i].lost
    BY <1>4, <1>20, LoosenLooser
  <2>2. Len(open') = Len(open) /\ (open' = <<>> <=> open = <<>>) /\ Len(past') = Len(past)
    BY <1>4, <2>1, EmptySeq DEF LooserBy
  <2>3. open # <<>> => 1 \in 1 .. Len(open)
    BY <1>4, EmptySeq, LenProperties
  <2>4. \A p \in Places : p \notin places => At(Now', p) = At(Now, p)
    <3>1. CASE open = <<>>
      BY <1>20, <2>2, <3>1 DEF Now
    <3>2. CASE open # <<>>
      <4>1. open'[1].state = open[1].state
        BY <2>1, <2>3, <3>2 DEF LooserBy
      <4> QED  BY <2>2, <3>2, <4>1 DEF Now
    <3> QED  BY <3>1, <3>2
  <2>5. Len(past) > 0 => \A p \in Places : p \notin past'[Len(past)].loose => At(Now', p) = At(Now, p)
    <3>1. Len(past) > 0 => past'[Len(past)].loose = past[Len(past)].loose \cup places
      BY <1>4, <2>1 DEF LooserBy
    <3> QED  BY <2>4, <3>1
  <2>6. Recoverable' /\ Looser'
    BY <1>1, <1>2, <1>3, <1>20, <2>1, <2>5, Unrecorded
  <2>7. step.pending => 1 \in 1 .. Len(open)
    BY <1>6
  <2>8. Barred'
    <3>1. \A i \in 1 .. Len(past) : past[i].loose \subseteq past'[i].loose
      BY <2>1 DEF LooserBy
    <3> QED  BY <1>3, <1>4, <1>9, <1>20, <2>1, <2>2, <2>7, <3>1, BarredLater
  <2> QED  BY <2>1, <2>2, <2>6, <2>7, <2>8 DEF LooserBy
<1>21. ASSUME NEW r \in RegNames, NEW v \in RegValues, EditRegister(r, v) PROVE UndoSound'
  <2>1. /\ machine' = [machine EXCEPT !.regs[r] = v] /\ phase' = phase /\ capacity' = capacity
        /\ ring' = ring /\ step' = step /\ poke' = poke /\ poke_bytes' = poke_bytes
        /\ past' = IF poke THEN past ELSE Loosen(past, {r})
        /\ open' = IF poke THEN open ELSE Loosen(open, {r})
    BY <1>21 DEF EditRegister, instruction, history
  <2>2. /\ machine'.regs = [machine.regs EXCEPT ![r] = v] /\ machine'.mem = machine.mem
        /\ machine'.dev = machine.dev /\ machine'.exited = machine.exited
        /\ machine'.stack = machine.stack /\ machine'.executed = machine.executed
    BY <1>4, <2>1 DEF Machines
  <2>3. CASE poke
    <3>1. open # <<>> /\ ~step.pending /\ PokeKeeps
      BY <1>3, <1>6, <2>3
    <3>2. Recoverable' /\ Looser' /\ Barred'
      BY <1>10, <2>1, <2>3, <3>1
    <3>3. PokeKeeps'
      BY <2>1, <2>2, <2>3, <3>1 DEF PokeKeeps
    <3> QED  BY <1>3, <2>1, <2>3, <3>1, <3>2, <3>3 DEF UndoSound
  <2>4. CASE ~poke
    <3>1. {r} \in SUBSET Spots
      BY DEF Places, Spots
    <3>2. \A p \in Places : p \notin {r} => At(machine', p) = At(machine, p)
      BY <1>4, <2>2, RegisterEdited
    <3>3. /\ Recoverable' /\ Looser' /\ Barred' /\ (open' = <<>> <=> open = <<>>)
          /\ step.pending => /\ open'[1].state = open[1].state
                             /\ open'[1].loose = open[1].loose \cup {r}
                             /\ open'[1].lost <=> open[1].lost
      BY <1>20, <2>1, <2>4, <3>1, <3>2
    <3>4. StepKeeps /\ step.pending => StepKeeps'
      BY <2>1, <2>2, <3>3, StepKeepsLater
    <3> QED  BY <1>3, <2>1, <2>4, <3>3, <3>4 DEF UndoSound
  <2> QED  BY <2>3, <2>4
<1>22. ASSUME NEW a \in Addrs, NEW b \in Bytes, EditByte(a, b) PROVE UndoSound'
  <2> DEFINE w == [addr |-> a, old |-> machine.mem[a]]
             mem == machine.mem
             now == machine'.mem
  <2>1. /\ machine' = [machine EXCEPT !.mem[a] = b] /\ phase' = phase /\ capacity' = capacity
        /\ ring' = ring /\ step' = step /\ poke' = poke
        /\ poke_bytes' = IF poke THEN Append(poke_bytes, w) ELSE poke_bytes
        /\ past' = IF poke THEN past ELSE Loosen(past, {a})
        /\ open' = IF poke THEN open ELSE Loosen(open, {a})
    BY <1>22 DEF EditByte, instruction, history
  <2>2. /\ machine'.mem = [machine.mem EXCEPT ![a] = b] /\ machine'.regs = machine.regs
        /\ machine'.dev = machine.dev /\ machine'.exited = machine.exited
        /\ machine'.stack = machine.stack /\ machine'.executed = machine.executed
    BY <1>4, <2>1 DEF Machines
  <2>3. mem \in [Addrs -> Bytes] /\ \A c \in Addrs : c # a => now[c] = mem[c]
    BY <1>5, <2>2
  <2>4. CASE poke
    <3>1. open # <<>> /\ ~step.pending /\ PokeKeeps
      BY <1>3, <1>6, <2>4
    <3>2. Recoverable' /\ Looser' /\ Barred'
      BY <1>10, <2>1, <2>4, <3>1
    <3>3. w \in [addr : Addrs, old : Bytes] /\ w.addr = a /\ w.old = mem[a]
      BY <1>5
    <3> HIDE DEF w
    <3>4. poke_bytes' = Append(poke_bytes, w)
      BY <2>1, <2>4
    <3>5. /\ poke_bytes' \in Writes /\ Len(poke_bytes') = Len(poke_bytes) + 1
          /\ \A i \in 1 .. Len(poke_bytes) : poke_bytes'[i] = poke_bytes[i]
          /\ poke_bytes'[Len(poke_bytes) + 1] = w
      BY <1>4, <3>3, <3>4, AppendProperties DEF Writes
    <3>6. /\ poke_bytes'[Len(poke_bytes) + 1].addr = a
          /\ poke_bytes'[Len(poke_bytes) + 1].old = mem[a]
      BY <3>3, <3>5
    <3> HIDE DEF mem, now
    <3>7. TakenBack(poke_bytes', now) = TakenBack(poke_bytes, mem)
      BY <1>4, <2>3, <3>5, <3>6, TakenBackOneMore
    <3>8. PokeKeeps'
      BY <2>1, <2>2, <2>4, <3>1, <3>7 DEF PokeKeeps, mem, now
    <3> QED  BY <1>3, <2>1, <2>4, <3>1, <3>2, <3>8 DEF UndoSound
  <2>5. CASE ~poke
    <3>1. {a} \in SUBSET Spots
      BY DEF Places, Spots
    <3>2. \A p \in Places : p \notin {a} => At(machine', p) = At(machine, p)
      BY <1>4, <2>2, ByteEdited
    <3>3. /\ Recoverable' /\ Looser' /\ Barred' /\ (open' = <<>> <=> open = <<>>)
          /\ step.pending => /\ open'[1].state = open[1].state
                             /\ open'[1].loose = open[1].loose \cup {a}
                             /\ open'[1].lost <=> open[1].lost
      BY <1>20, <2>1, <2>5, <3>1, <3>2
    <3>4. \A ws, c : c \in Addrs /\ c # a => TakenBack(ws, now)[c] = TakenBack(ws, mem)[c]
      BY <2>3, OtherByte
    <3>5. StepKeeps /\ step.pending => StepKeeps'
      <4> SUFFICES ASSUME StepKeeps, step.pending PROVE StepKeeps'
        OBVIOUS
      <4>1. \A c \in Addrs : c \notin open'[1].loose =>
              TakenBack(step'.parts \o step'.writes, machine'.mem)[c] =
              TakenBack(step.parts \o step.writes, machine.mem)[c]
        BY <2>1, <3>3, <3>4
      <4> QED  BY <2>1, <2>2, <3>3, <4>1, StepKeepsLater
    <3> QED  BY <1>3, <2>1, <2>5, <3>3, <3>5 DEF UndoSound
  <2> QED  BY <2>4, <2>5
<1>23. CASE BeginPoke
  <2> DEFINE S == Snapshot(FALSE, TRUE)
  <2>1. /\ phase = "idle" /\ ~poke /\ machine' = machine /\ ring' = ring /\ past' = past
        /\ phase' = phase /\ poke' = TRUE /\ poke_bytes' = <<>>
        /\ open' = <<Opened(machine)>>
        /\ step' = [S EXCEPT !.pending_irreversible = step.pending_irreversible]
    BY <1>23 DEF BeginPoke, instruction, history
  <2>2. /\ S \in Steps /\ ~S.pending /\ S.registers = machine.regs
        /\ S.instructions = machine.executed
    BY <1>1, SnapshotProperties DEF Snapshot, NoStep
  <2> HIDE DEF S
  <2>3. /\ ~step'.pending /\ step'.registers = machine.regs
        /\ step'.instructions = machine.executed
    BY <2>1, <2>2 DEF Steps
  <2>4. /\ open' # <<>> /\ open'[1].state = machine /\ open'[1].loose = {} /\ ~open'[1].lost
    BY <2>1 DEF Opened
  <2>5. open = <<>> /\ ~step.pending
    BY <1>3, <1>6, <2>1
  <2>6. Now' = Now
    BY <2>1, <2>4, <2>5 DEF Now
  <2>7. Recoverable'
    BY <1>3, <1>4, <1>9, <2>1, <2>6, RecoverableLater
  <2>8. Looser'
    BY <1>3, <2>1, <2>4 DEF Looser
  <2>9. Barred'
    BY <1>3, <1>4, <1>9, <2>1, <2>5, BarredLater
  <2>10. PokeKeeps'
    BY <2>1, <2>3, <2>4, TakenBackNothing DEF PokeKeeps
  <2> QED  BY <2>1, <2>3, <2>4, <2>7, <2>8, <2>9, <2>10 DEF UndoSound
<1>24. CASE EndPoke
  <2> DEFINE changed == Overwritten # {} \/ machine.regs # step.registers
             e == EntryOf(machine.regs, PokeWrites, <<>>, step.pending_irreversible, FALSE,
                          allocator + 1)
  <2>1. /\ poke /\ machine' = machine /\ phase' = phase /\ step' = NoStep /\ poke' = FALSE
        /\ open' = <<>>
        /\ IF changed
           THEN Finish(machine.regs, PokeWrites, <<>>, step.pending_irreversible, FALSE,
                       allocator + 1)
           ELSE ring' = ring /\ past' = past
    BY <1>24 DEF EndPoke, history
  <2>2. /\ phase = "idle" /\ Len(open) = 1 /\ open # <<>> /\ PokeKeeps
        /\ ~step.pending /\ ~NoStep.pending
    BY <1>3, <1>6, <2>1, NoStepTyped
  <2>3. Recoverable' /\ Looser' /\ Barred'
    <3>1. CASE capacity = 0
      <4>1. past' = past /\ Len(past) = 0
        BY <1>7, <2>1, <3>1 DEF Finish
      <4> QED  BY <4>1, EmptyLog
    <3>2. CASE ~changed
      <4>1. /\ ring' = ring /\ past' = past /\ Overwritten = {}
            /\ machine.regs = step.registers
        BY <2>1, <3>2
      <4>2. \A p \in Places : At(Now', p) = At(Now, p)
        BY <1>1, <2>1, <2>2, <4>1, NothingPoked DEF Now
      <4>3. LooserBy(past', past, {})
        BY <1>8, <4>1
      <4>4. Recoverable' /\ Looser'
        BY <1>1, <1>2, <1>3, <1>8, <2>1, <4>1, <4>2, <4>3, Unrecorded
      <4>5. Barred'
        BY <1>3, <1>4, <1>9, <2>2, <4>1, BarredLater
      <4> QED  BY <4>4, <4>5
    <3>3. CASE changed /\ capacity # 0
      <4> HIDE DEF e
      <4>1. Recorded(e)
        BY <1>24, <3>3, EndPokeRecords DEF e
      <4>2. Takes(e, open[1], machine) /\ ~open[1].lost
        BY <1>1, <2>2, PokeTakes DEF e
      <4> QED  BY <1>1, <1>3, <2>1, <2>2, <3>3, <4>1, <4>2, RecordedRecoverable
    <3> QED  BY <3>1, <3>2, <3>3
  <2> QED  BY <2>1, <2>2, <2>3 DEF UndoSound
<1>25. CASE Undo
  <2>1. /\ phase = "idle" /\ phase' = phase /\ step' = NoStep /\ poke' = FALSE /\ open' = <<>>
        /\ ~NoStep.pending
    BY <1>25, NoStepTyped DEF Undo, instruction
  <2>2. Recoverable' /\ Looser' /\ Barred'
    BY <1>25, UndoneRecoverable
  <2> QED  BY <2>1, <2>2 DEF UndoSound
<1>26. CASE (\E size \in Capacities : SetCapacity(size)) \/ (\E new \in Fresh : Load(new))
  <2>1. /\ phase' = "idle" /\ step' = NoStep /\ poke' = FALSE /\ open' = <<>> /\ past' = <<>>
        /\ ~NoStep.pending
    BY <1>26, NoStepTyped DEF SetCapacity, Load, instruction
  <2>2. Recoverable' /\ Looser' /\ Barred'
    BY <2>1, EmptyLog
  <2> QED  BY <2>1, <2>2 DEF UndoSound
<1>27. CASE UNCHANGED vars
  <2>1. /\ machine' = machine /\ phase' = phase /\ capacity' = capacity /\ ring' = ring
        /\ step' = step /\ poke' = poke /\ poke_bytes' = poke_bytes /\ past' = past
        /\ open' = open
    BY <1>27 DEF vars, instruction, history, ghosts
  <2>2. Now' = Now
    BY <2>1 DEF Now
  <2>3. Recoverable' /\ Looser'
    BY <1>1, <1>2, <1>3, <1>8, <2>1, <2>2, Unrecorded
  <2>4. Barred'
    BY <1>3, <1>4, <1>9, <2>1, BarredLater
  <2>5. (StepKeeps => StepKeeps') /\ (PokeKeeps => PokeKeeps')
    BY <2>1 DEF StepKeeps, PokeKeeps
  <2> QED  BY <1>3, <2>1, <2>3, <2>4, <2>5 DEF UndoSound
<1> QED
  BY <1>11, <1>12, <1>13, <1>14, <1>15, <1>16, <1>17, <1>18, <1>19, <1>21, <1>22, <1>23, <1>24,
     <1>25, <1>26, <1>27 DEF Next
\* At first there is nothing to undo.
LEMMA InitUndoSound == Init => UndoSound
<1> SUFFICES ASSUME Init PROVE UndoSound
  OBVIOUS
<1>1. /\ past = <<>> /\ open = <<>> /\ phase = "idle" /\ ~poke /\ step = NoStep
      /\ ~NoStep.pending
  BY NoStepTyped DEF Init
<1>2. Len(past) = 0
  BY <1>1
<1>3. Recoverable /\ Looser /\ Barred
  BY <1>1, <1>2 DEF Recoverable, Looser, Barred
<1> QED  BY <1>1, <1>3 DEF UndoSound

\* Everything the history does but undo.
ButUndo ==
  \/ Begin \/ Effect \/ Wait \/ Resume \/ NativeExit
  \/ \E a \in Addrs, b \in Bytes : \/ \E kept \in BOOLEAN : Write(a, b, kept)
                                 \/ EditByte(a, b)
  \/ \E d \in Devices : Journal(d)
  \/ \E r \in Registers :
       \/ Split(r)
       \/ \E flow \in Flows, end \in Ends : Retire(r, flow, end)
       \/ \E a \in Addrs, b \in Bytes, kills \in BOOLEAN : DeliverSignal(r, a, b, kills)
  \/ \E r \in RegNames, v \in RegValues : EditRegister(r, v)
  \/ BeginPoke \/ EndPoke
  \/ \E size \in Capacities : SetCapacity(size)
  \/ \E new \in Fresh : Load(new)

\* Nothing else takes the newest entry away.
LEMMA NothingElseUndoes ==
  ASSUME IInv, ButUndo \/ UNCHANGED vars
  PROVE  ~Undone
<1> SUFFICES ASSUME Undone PROVE FALSE
  OBVIOUS
<1>1. TypeOK /\ Sound(ring, past, capacity, allocator) /\ IsRing(ring) /\ Shaped(ring, capacity)
  BY DEF IInv, Sound
<1>2. ring.count \in Nat /\ ring.slots \in Nat /\ ring.count <= ring.slots /\ capacity \in Nat
  BY <1>1, HistoryAssumption DEF IsRing, Shaped, TypeOK
<1>3. ring'.count < ring.count /\ ring'.slots = ring.slots
  BY DEF Undone
<1>4. ring' # ring
  BY <1>2, <1>3
<1>5. ring' # MarkRing(ring, step)
  <2>1. MarkRing(ring, step).count = ring.count
    BY <1>1, <1>2, MarkRingProperties
  <2> QED  BY <1>2, <1>3, <2>1
<1>6. \A base : ring' # NoEntries(base)
  BY <1>2, <1>3 DEF NoEntries
<1>7. \A e : ~Recorded(e)
  <2>1. Dropped \in 0 .. 1
    BY DEF Dropped
  <2> QED  BY <1>2, <1>3, <2>1 DEF Recorded
<1>8. ASSUME NEW r \in Registers, NEW flow, NEW end, Retire(r, flow, end) PROVE FALSE
  <2>1. CASE ~step.pending \/ capacity = 0
    BY <1>4, <1>8, <2>1 DEF Retire, Finish, history
  <2>2. CASE step.pending /\ capacity # 0
    <3> DEFINE irreversible == \/ step.truncated \/ (step.parts # <<>> /\ TooMuch(step))
                                 \/ step.pending_irreversible \/ end = "handled"
               exits == end \in {"exit", "killed"}
    <3>1. irreversible \in BOOLEAN
      BY Zenon
    <3>2. exits \in BOOLEAN
      OBVIOUS
    <3> QED  BY <1>7, <1>8, <2>2, <3>1, <3>2, RetireRecords
  <2> QED  BY <2>1, <2>2
<1>9. ~EndPoke
  <2> SUFFICES ASSUME EndPoke PROVE FALSE
    OBVIOUS
  <2>1. CASE capacity # 0 /\ (Overwritten # {} \/ machine.regs # step.registers)
    BY <1>7, <2>1, EndPokeRecords
  <2>2. CASE ~(capacity # 0 /\ (Overwritten # {} \/ machine.regs # step.registers))
    BY <1>4, <2>2 DEF EndPoke, Finish, history
  <2> QED  BY <2>1, <2>2
<1>10. ~Begin /\ ~Wait /\ ~Resume /\ ~NativeExit /\ ~BeginPoke
  BY <1>4 DEF Begin, Wait, Resume, NativeExit, BeginPoke, history
<1>11. ~Effect
  BY <1>5 DEF Effect
<1>12. \A a \in Addrs, b \in Bytes : ~EditByte(a, b) /\ \A kept \in BOOLEAN : ~Write(a, b, kept)
  BY <1>4 DEF EditByte, Write, history
<1>13. \A d \in Devices : ~Journal(d)
  BY <1>4, <1>5 DEF Journal
<1>14. \A r \in Registers : /\ ~Split(r)
                            /\ \A a \in Addrs, b \in Bytes, kills \in BOOLEAN :
                                 ~DeliverSignal(r, a, b, kills)
  <2>1. ASSUME NEW r, Split(r) PROVE FALSE
    BY <1>4, <2>1 DEF Split, history
  <2>2. ASSUME NEW r, NEW a, NEW b, NEW kills, DeliverSignal(r, a, b, kills) PROVE FALSE
    BY <1>5, <2>2 DEF DeliverSignal
  <2> QED  BY <2>1, <2>2
<1>15. \A r \in RegNames, v \in RegValues : ~EditRegister(r, v)
  BY <1>4 DEF EditRegister, history
<1>16. (\A size \in Capacities : ~SetCapacity(size)) /\ (\A new \in Fresh : ~Load(new))
  BY <1>6 DEF SetCapacity, Load
<1>17. ~UNCHANGED vars
  BY <1>4 DEF vars, history
<1> QED
  BY <1>8, <1>9, <1>10, <1>11, <1>12, <1>13, <1>14, <1>15, <1>16, <1>17 DEF ButUndo

\* Nothing but an undo takes an entry off a ring that stays.
LEMMA OnlyUndo ==
  ASSUME IInv, [Next]_vars, Undone
  PROVE  Undo
<1>1. Next => Undo \/ ButUndo
  BY Zenon DEF Next, ButUndo
<1> QED  BY <1>1, NothingElseUndoes

-----------------------------------------------------------------------------
(* The theorems. *)

\* What undo rests on holds throughout: every entry still on offer takes the machine back to
\* where its step or Poke began, and after every effect there is a barrier.
THEOREM UndoInvariantHolds == Spec => [](IInv /\ UndoSound)
<1>1. Init => IInv /\ UndoSound
  BY InitSound, InitUndoSound
<1>2. (IInv /\ UndoSound) /\ [Next]_vars => (IInv /\ UndoSound)'
  BY NextSound, NextUndoSound
<1> QED  BY <1>1, <1>2, PTL DEF Spec

\* With no step recording, no entry on offer was followed by an effect, but for those of an
\* instruction a native exit broke off.
LEMMA NoneLost ==
  ASSUME IInv, UndoSound, phase = "idle", CanUndo
  PROVE  past[ring.count].lost => "world" \in past[ring.count].loose
<1>1. ring.count \in Nat /\ Len(past) = ring.count /\ ~step.pending
  BY DEF IInv, Sound, IsRing, StepSound
<1>2. ring.count > 0 /\ ring.count - 1 - 0 = ring.count - 1 /\ ring.count \in 1 .. ring.count
  BY <1>1 DEF CanUndo
<1> SUFFICES ASSUME past[ring.count].lost, "world" \notin past[ring.count].loose PROVE FALSE
  OBVIOUS
<1>3. PICK j \in ring.count .. ring.count : ~Oldest(ring, j - 1).reversible
  BY <1>1, <1>2 DEF UndoSound, Barred
<1>4. j = ring.count
  BY <1>1, <1>3
<1> QED  BY <1>2, <1>3, <1>4 DEF CanUndo, EntryAt

\* No undo is offered past an effect it cannot take back, whatever was recorded, dropped,
\* cut or undone since (DebugHistoryMarkIrreversible).
THEOREM NoUndoPastEffectHolds == Spec => []NoUndoPastEffect
<1>1. IInv /\ UndoSound => NoUndoPastEffect
  BY NoneLost DEF NoUndoPastEffect
<1> QED  BY <1>1, UndoInvariantHolds, PTL

\* An undo takes the whole machine, its registers, memory, devices, exit and call stack, back to where its newest entry began, but for what something changed
\* outside any entry (blinkenlib_undo).
THEOREM UndoRestoresHolds == Spec => UndoRestores
<1> DEFINE was == past[ring.count].state
           loose == past[ring.count].loose \cup
                    (IF poke THEN Differing(machine, open[1].state) ELSE {})
           Restored == Differing(machine', was) \subseteq loose
                       /\ machine'.stack = was.stack
<1>1. IInv /\ UndoSound /\ [Next]_vars => (Undone => Restored)
  <2> SUFFICES ASSUME IInv, UndoSound, [Next]_vars, Undone PROVE Restored
    OBVIOUS
  <2>1. Undo
    BY OnlyUndo
  <2>2. /\ \A p \in Places : p \notin loose => At(machine', p) = At(was, p)
        /\ machine'.stack = was.stack
    BY <2>1, UndoneRestores
  <2> QED  BY <2>2 DEF Differing
<1>2. IInv /\ UndoSound /\ [Next]_vars => [Undone => Restored]_vars
  BY <1>1
<1> QED  BY <1>2, UndoInvariantHolds, PTL DEF Spec, UndoRestores
-----------------------------------------------------------------------------
(* The history keeps the promise of UndoLog, step by step. *)

\* The abstract log's state says of each place what the machine does, and the call
\* stack beside.
LEMMA FlatProperties ==
  \A s : /\ \A p \in Places : Flat(s)[p] = At(s, p)
         /\ Flat(s)["stack"] = s.stack
<1>1. "stack" \notin Places
  BY HistoryAssumption DEF Places
<1> QED  BY <1>1 DEF Flat

\* Two of them differ where the machines do.
LEMMA FlatDiffer == \A s, t : Log!Differ(Flat(s), Flat(t)) = Differing(s, t)
BY FlatProperties DEF Log!Differ, Differing

\* A function on the places of a log is a log.
LEMMA LogOf ==
  ASSUME NEW n \in Nat, NEW f, f = [i \in 1 .. n |-> f[i]]
  PROVE  (\E X : f \in Seq(X)) /\ Len(f) = n /\ DOMAIN f = 1 .. n
<1> DEFINE X == {f[i] : i \in 1 .. n}
<1>1. f \in [1 .. n -> X]
  OBVIOUS
<1> HIDE DEF X
<1>2. f \in Seq(X)
  BY <1>1, SeqDef
<1>3. Len(f) = n
  BY <1>1, <1>2
<1> QED  BY <1>2, <1>3

\* The abstract log tells of the same entries.
LEMMA FlatLogEach ==
  ASSUME NEW log \in Seq(LogEntries), NEW R, NEW flat, flat = FlatLog(log, R)
  PROVE  /\ \E X : flat \in Seq(X)
         /\ Len(flat) = Len(log) /\ DOMAIN flat = 1 .. Len(log)
         /\ \A i \in 1 .. Len(log) :
              flat[i] = [state |-> Flat(log[i].state), loose |-> log[i].loose,
                         lost |-> log[i].lost, undoable |-> Oldest(R, i - 1).reversible]
<1>1. Len(log) \in Nat /\ DOMAIN log = 1 .. Len(log)
  OBVIOUS
<1>2. flat = [i \in 1 .. Len(log) |->
                [state |-> Flat(log[i].state), loose |-> log[i].loose, lost |-> log[i].lost,
                 undoable |-> Oldest(R, i - 1).reversible]]
  BY <1>1 DEF FlatLog
<1>3. flat = [i \in 1 .. Len(log) |-> flat[i]]
  BY <1>2
<1>4. (\E X : flat \in Seq(X)) /\ Len(flat) = Len(log) /\ DOMAIN flat = 1 .. Len(log)
  BY <1>1, <1>3, LogOf
<1>5. \A i \in 1 .. Len(log) :
        flat[i] = [state |-> Flat(log[i].state), loose |-> log[i].loose, lost |-> log[i].lost,
                   undoable |-> Oldest(R, i - 1).reversible]
  BY <1>2
<1> QED  BY <1>4, <1>5

\* And of the same step or Poke under way.
LEMMA FlatOpenEach ==
  ASSUME NEW log \in Seq(LogEntries), NEW flat, flat = FlatOpen(log)
  PROVE  /\ \E X : flat \in Seq(X)
         /\ Len(flat) = Len(log) /\ DOMAIN flat = 1 .. Len(log)
         /\ \A i \in 1 .. Len(log) :
              flat[i] = [state |-> Flat(log[i].state), loose |-> log[i].loose,
                         lost |-> log[i].lost]
<1>1. Len(log) \in Nat /\ DOMAIN log = 1 .. Len(log)
  OBVIOUS
<1>2. flat = [i \in 1 .. Len(log) |-> [log[i] EXCEPT !.state = Flat(log[i].state)]]
  BY <1>1 DEF FlatOpen
<1>3. flat = [i \in 1 .. Len(log) |-> flat[i]]
  BY <1>2
<1>4. (\E X : flat \in Seq(X)) /\ Len(flat) = Len(log) /\ DOMAIN flat = 1 .. Len(log)
  BY <1>1, <1>3, LogOf
<1>5. ASSUME NEW i \in 1 .. Len(log)
      PROVE  flat[i] = [state |-> Flat(log[i].state), loose |-> log[i].loose,
                        lost |-> log[i].lost]
  <2>1. log[i] \in LogEntries
    OBVIOUS
  <2>2. flat[i] = [log[i] EXCEPT !.state = Flat(log[i].state)]
    BY <1>2
  <2> QED  BY <2>1, <2>2 DEF LogEntries
<1> QED  BY <1>4, <1>5

\* With nothing under way, nothing is.
LEMMA FlatNone ==
  ASSUME NEW log \in Seq(LogEntries)
  PROVE  FlatOpen(log) = <<>> <=> log = <<>>
<1> DEFINE flat == FlatOpen(log)
<1>1. flat = FlatOpen(log)
  OBVIOUS
<1> HIDE DEF flat
<1>2. Len(flat) = Len(log) /\ \E X : flat \in Seq(X)
  BY <1>1, FlatOpenEach
<1>3. PICK X : flat \in Seq(X)
  BY <1>2
<1>4. flat = <<>> <=> Len(flat) = 0
  BY <1>3, EmptySeq
<1>5. log = <<>> <=> Len(log) = 0
  BY EmptySeq
<1> QED  BY <1>1, <1>2, <1>4, <1>5

\* A step or a Poke that begins is told of as one.
LEMMA FlatOpened ==
  ASSUME NEW s \in Machines
  PROVE  FlatOpen(<<Opened(s)>>) = <<[state |-> Flat(s), loose |-> {}, lost |-> FALSE]>>
<1> DEFINE log == <<Opened(s)>>
           flat == FlatOpen(log)
<1>1. log \in Seq(LogEntries) /\ Len(log) = 1 /\ log[1] = Opened(s) /\ 1 \in 1 .. 1
  BY OpenedTyped
<1>2. flat = FlatOpen(log)
  OBVIOUS
<1> HIDE DEF log, flat
<1>3. /\ \E X : flat \in Seq(X)
      /\ Len(flat) = 1
      /\ flat[1] = [state |-> Flat(log[1].state), loose |-> log[1].loose, lost |-> log[1].lost]
  BY <1>1, <1>2, FlatOpenEach
<1>4. /\ flat[1] = [state |-> Flat(s), loose |-> {}, lost |-> FALSE]
  BY <1>1, <1>3 DEF Opened
<1>5. flat = <<flat[1]>>
  BY <1>3
<1> QED  BY <1>4, <1>5 DEF flat, log

\* A step or a Poke begins.
LEMMA Opens ==
  ASSUME machine \in Machines, open = <<>>, open' = <<Opened(machine)>>, machine' = machine,
         past' = past, ring' = ring
  PROVE  Log!Step
<1>1. FlatOpen(open) = <<>>
  BY DEF FlatOpen
<1>2. FlatOpen(open') = <<[state |-> Flat(machine), loose |-> {}, lost |-> FALSE]>>
  BY FlatOpened
<1> QED  BY <1>1, <1>2 DEF Log!Step, Log!Open

\* It changes the machine.
LEMMA Works ==
  ASSUME open \in Seq(LogEntries), open # <<>>, open' = open, past' = past, ring' = ring
  PROVE  Log!Step
<1>1. FlatOpen(open) # <<>>
  BY FlatNone
<1> QED  BY <1>1 DEF Log!Step, Log!Work

\* All is forgotten, the machine where it was or with a program loaded.
LEMMA Forgets ==
  ASSUME past' = <<>>, open' = <<>>,
         (\A p \in Places : At(machine', p) = At(machine, p)) \/ machine' \in Fresh
  PROVE  Log!Step
<1>1. FlatOpen(open') = <<>> /\ FlatLog(past', ring') = <<>>
  BY DEF FlatOpen, FlatLog
<1>2. Log!Differ(Flat(machine'), Flat(machine)) = {} \/ Flat(machine') \in {Flat(m) : m \in Fresh}
  BY FlatDiffer DEF Differing
<1> QED  BY <1>1, <1>2 DEF Log!Step, Log!Forget

\* Functions on the same places are the same when each place is.
LEMMA SamePlaces ==
  ASSUME NEW n \in Nat, NEW f, NEW g, f = [i \in 1 .. n |-> f[i]], g = [i \in 1 .. n |-> g[i]],
         \A i \in 1 .. n : f[i] = g[i]
  PROVE  f = g
OBVIOUS

\* The log loosened is the abstract log loosened.
LEMMA FlatLoosened ==
  ASSUME NEW log \in Seq(LogEntries), NEW R, NEW places \in SUBSET Spots
  PROVE  FlatLog(Loosen(log, places), R) = Log!Loosened(FlatLog(log, R), places)
<1> DEFINE n == Len(log)
           new == Loosen(log, places)
           flat == FlatLog(log, R)
           f == FlatLog(new, R)
           g == Log!Loosened(flat, places)
<1>1. n \in Nat /\ new \in Seq(LogEntries) /\ LooserBy(new, log, places)
      /\ \A i \in 1 .. n : new[i].lost <=> log[i].lost
  BY LoosenProperties, LoosenLooser
<1>2. f = FlatLog(new, R) /\ flat = FlatLog(log, R) /\ g = Log!Loosened(flat, places)
  OBVIOUS
<1>2a. \A i \in 1 .. n : new[i].lost = log[i].lost
  <2> SUFFICES ASSUME NEW i \in 1 .. n PROVE new[i].lost = log[i].lost
    OBVIOUS
  <2>1. new[i] \in LogEntries /\ log[i] \in LogEntries
    BY <1>1 DEF LooserBy
  <2> QED  BY <1>1, <2>1 DEF LogEntries
<1> HIDE DEF n, new, flat, f, g
<1>3. /\ DOMAIN flat = 1 .. n
      /\ \A i \in 1 .. n :
           flat[i] = [state |-> Flat(log[i].state), loose |-> log[i].loose,
                      lost |-> log[i].lost, undoable |-> Oldest(R, i - 1).reversible]
  BY <1>2, FlatLogEach DEF n
<1>4. /\ DOMAIN f = 1 .. n
      /\ \A i \in 1 .. n :
           f[i] = [state |-> Flat(new[i].state), loose |-> new[i].loose,
                   lost |-> new[i].lost, undoable |-> Oldest(R, i - 1).reversible]
  <2>1. Len(new) = n
    BY <1>1 DEF LooserBy, n
  <2> QED  BY <1>1, <1>2, <2>1, FlatLogEach
<1>5. f = [i \in 1 .. n |-> f[i]]
  BY <1>2, <1>4 DEF FlatLog
<1>6. /\ g = [i \in 1 .. n |-> g[i]]
      /\ \A i \in 1 .. n : g[i] = [flat[i] EXCEPT !.loose = flat[i].loose \cup places]
  BY <1>2, <1>3 DEF Log!Loosened
<1>7. ASSUME NEW i \in 1 .. n PROVE f[i] = g[i]
  <2>1. new[i].state = log[i].state /\ new[i].loose = log[i].loose \cup places
        /\ new[i].lost = log[i].lost
    BY <1>1, <1>2a DEF LooserBy, n
  <2>2. flat[i].loose = log[i].loose
    BY <1>3
  <2>3. g[i] = [flat[i] EXCEPT !.loose = log[i].loose \cup places]
    BY <1>6, <2>2
  <2>4. g[i] = [state |-> Flat(log[i].state), loose |-> log[i].loose \cup places,
                lost |-> log[i].lost, undoable |-> Oldest(R, i - 1).reversible]
    <3> DEFINE l == log[i].loose
               m == log[i].loose \cup places
               s == Flat(log[i].state)
               o == log[i].lost
               u == Oldest(R, i - 1).reversible
    <3>1. flat[i] = [state |-> s, loose |-> l, lost |-> o, undoable |-> u]
      BY <1>3
    <3>2. g[i] = [flat[i] EXCEPT !.loose = m]
      BY <2>3
    <3> HIDE DEF l, m, s, o, u
    <3>3. flat[i] \in [state : {s}, loose : {l}, lost : {o}, undoable : {u}]
      BY <3>1
    <3>4. g[i] \in [state : {s}, loose : {m}, lost : {o}, undoable : {u}]
      BY <3>2, <3>3
    <3> QED  BY <3>4 DEF l, m, s, o, u
  <2> QED  BY <1>4, <2>1, <2>4
<1> QED  BY <1>1, <1>2, <1>5, <1>6, <1>7, SamePlaces DEF f, g, new, flat

\* So is the step or Poke under way, and lost likewise.
LEMMA FlatOpenLoosened ==
  ASSUME NEW log \in Seq(LogEntries), NEW places \in SUBSET Spots
  PROVE  /\ FlatOpen(Loosen(log, places)) = Log!Loosened(FlatOpen(log), places)
         /\ FlatOpen(Lose(log)) =
              [i \in DOMAIN FlatOpen(log) |-> [FlatOpen(log)[i] EXCEPT !.lost = TRUE]]
<1> DEFINE n == Len(log)
           looser == Loosen(log, places)
           lost == Lose(log)
           flat == FlatOpen(log)
<1>1. /\ n \in Nat /\ looser \in Seq(LogEntries) /\ LooserBy(looser, log, places)
      /\ \A i \in 1 .. n : looser[i].lost <=> log[i].lost
  BY LoosenProperties, LoosenLooser
<1>2. /\ lost \in Seq(LogEntries) /\ LooserBy(lost, log, {}) /\ \A i \in 1 .. n : lost[i].lost
  BY LoseProperties, LoseEach
<1>3. flat = FlatOpen(log)
  OBVIOUS
<1> HIDE DEF n, looser, lost, flat
<1>4. /\ DOMAIN flat = 1 .. n
      /\ \A i \in 1 .. n :
           flat[i] = [state |-> Flat(log[i].state), loose |-> log[i].loose, lost |-> log[i].lost]
  BY <1>3, FlatOpenEach DEF n
<1>5. /\ Len(looser) = n /\ Len(lost) = n
      /\ \A i \in 1 .. n :
           /\ looser[i].state = log[i].state /\ looser[i].loose = log[i].loose \cup places
           /\ lost[i].state = log[i].state /\ lost[i].loose = log[i].loose
           /\ looser[i].lost = log[i].lost /\ lost[i].lost = TRUE
  <2>1. /\ Len(looser) = n /\ Len(lost) = n
        /\ \A i \in 1 .. n :
             /\ looser[i].state = log[i].state /\ looser[i].loose = log[i].loose \cup places
             /\ lost[i].state = log[i].state /\ lost[i].loose = log[i].loose
    BY <1>1, <1>2 DEF LooserBy, n
  <2>2. ASSUME NEW i \in 1 .. n PROVE looser[i].lost = log[i].lost /\ lost[i].lost = TRUE
    <3>1. looser[i] \in LogEntries /\ lost[i] \in LogEntries /\ log[i] \in LogEntries
      BY <1>1, <1>2, <2>1, ElementOfSeq DEF n
    <3> QED  BY <1>1, <1>2, <3>1 DEF LogEntries
  <2> QED  BY <2>1, <2>2
<1>6. FlatOpen(looser) = Log!Loosened(flat, places)
  <2> DEFINE f == FlatOpen(looser)
             g == Log!Loosened(flat, places)
  <2>1. f = FlatOpen(looser)
    OBVIOUS
  <2>2. g = [i \in 1 .. n |-> g[i]]
        /\ \A i \in 1 .. n : g[i] = [flat[i] EXCEPT !.loose = flat[i].loose \cup places]
    BY <1>4 DEF Log!Loosened
  <2> HIDE DEF f, g
  <2>3. /\ DOMAIN f = 1 .. n
        /\ \A i \in 1 .. n :
             f[i] = [state |-> Flat(looser[i].state), loose |-> looser[i].loose,
                     lost |-> looser[i].lost]
    BY <1>1, <1>5, <2>1, FlatOpenEach
  <2>4. f = [i \in 1 .. n |-> f[i]]
    BY <2>1, <2>3 DEF FlatOpen
  <2>5. ASSUME NEW i \in 1 .. n PROVE f[i] = g[i]
    <3>1. flat[i].loose = log[i].loose
      BY <1>4
    <3>2. g[i] = [flat[i] EXCEPT !.loose = log[i].loose \cup places]
      BY <2>2, <3>1
    <3>3. g[i] = [state |-> Flat(log[i].state), loose |-> log[i].loose \cup places,
                  lost |-> log[i].lost]
      <4> DEFINE l == log[i].loose
                 m == log[i].loose \cup places
                 s == Flat(log[i].state)
                 o == log[i].lost
      <4>1. flat[i] = [state |-> s, loose |-> l, lost |-> o]
        BY <1>4
      <4>2. g[i] = [flat[i] EXCEPT !.loose = m]
        BY <3>2
      <4> HIDE DEF l, m, s, o
      <4>3. flat[i] \in [state : {s}, loose : {l}, lost : {o}]
        BY <4>1
      <4>4. g[i] \in [state : {s}, loose : {m}, lost : {o}]
        BY <4>2, <4>3
      <4> QED  BY <4>4 DEF l, m, s, o
    <3> QED  BY <1>5, <2>3, <3>3
  <2> QED  BY <1>1, <2>2, <2>4, <2>5, SamePlaces DEF f, g
<1>7. FlatOpen(lost) = [i \in DOMAIN flat |-> [flat[i] EXCEPT !.lost = TRUE]]
  <2> DEFINE f == FlatOpen(lost)
             g == [i \in DOMAIN flat |-> [flat[i] EXCEPT !.lost = TRUE]]
  <2>1. f = FlatOpen(lost)
    OBVIOUS
  <2>2. g = [i \in 1 .. n |-> g[i]] /\ \A i \in 1 .. n : g[i] = [flat[i] EXCEPT !.lost = TRUE]
    BY <1>4
  <2> HIDE DEF f, g
  <2>3. /\ DOMAIN f = 1 .. n
        /\ \A i \in 1 .. n :
             f[i] = [state |-> Flat(lost[i].state), loose |-> lost[i].loose, lost |-> lost[i].lost]
    BY <1>2, <1>5, <2>1, FlatOpenEach
  <2>4. f = [i \in 1 .. n |-> f[i]]
    BY <2>1, <2>3 DEF FlatOpen
  <2>5. ASSUME NEW i \in 1 .. n PROVE f[i] = g[i]
    <3>1. g[i] = [state |-> Flat(log[i].state), loose |-> log[i].loose, lost |-> TRUE]
      <4> DEFINE l == log[i].loose
                 s == Flat(log[i].state)
                 o == log[i].lost
      <4>1. flat[i] = [state |-> s, loose |-> l, lost |-> o]
        BY <1>4
      <4>2. g[i] = [flat[i] EXCEPT !.lost = TRUE]
        BY <2>2
      <4> HIDE DEF l, s, o
      <4>3. flat[i] \in [state : {s}, loose : {l}, lost : {o}]
        BY <4>1
      <4>4. g[i] \in [state : {s}, loose : {l}, lost : {TRUE}]
        BY <4>2, <4>3
      <4> QED  BY <4>4 DEF l, s, o
    <3> QED  BY <1>5, <2>3, <3>1
  <2> QED  BY <1>1, <2>2, <2>4, <2>5, SamePlaces DEF f, g
<1> QED  BY <1>6, <1>7 DEF looser, lost, flat

\* The entries of another ring that offers the same ones make the same abstract log.
LEMMA FlatLogSame ==
  ASSUME NEW log \in Seq(LogEntries), NEW R, NEW S,
         \A i \in 1 .. Len(log) : Oldest(S, i - 1).reversible = Oldest(R, i - 1).reversible
  PROVE  FlatLog(log, S) = FlatLog(log, R)
BY DEF FlatLog

\* The first entries of the log are those of the abstract log.
LEMMA FlatSub ==
  ASSUME NEW log \in Seq(LogEntries), NEW R, NEW k \in 0 .. Len(log)
  PROVE  FlatLog(SubSeq(log, 1, k), R) = SubSeq(FlatLog(log, R), 1, k)
<1> DEFINE sub == SubSeq(log, 1, k)
           flat == FlatLog(log, R)
           f == FlatLog(sub, R)
           g == SubSeq(flat, 1, k)
<1>1. /\ Len(log) \in Nat /\ k \in Nat /\ k <= Len(log)
      /\ sub \in Seq(LogEntries) /\ Len(sub) = k /\ \A i \in 1 .. k : sub[i] = log[i]
  <2>1. /\ Len(log) \in Nat /\ k \in Nat /\ k <= Len(log) /\ 1 \in Int /\ k \in Int
        /\ \A i \in 1 .. k : log[i] \in LogEntries
    OBVIOUS
  <2>2. /\ sub \in Seq(LogEntries) /\ Len(sub) = IF 1 <= k THEN k - 1 + 1 ELSE 0
        /\ \A i \in 1 .. k - 1 + 1 : sub[i] = log[1 + i - 1]
    BY <2>1, SubSeqProperties
  <2> QED  BY <2>1, <2>2
<1>2. flat = FlatLog(log, R) /\ f = FlatLog(sub, R) /\ g = SubSeq(flat, 1, k)
  OBVIOUS
<1> HIDE DEF sub, flat, f, g
<1>3. PICK X : flat \in Seq(X)
  BY <1>2, FlatLogEach
<1>4. /\ Len(flat) = Len(log)
      /\ \A i \in 1 .. Len(log) :
           flat[i] = [state |-> Flat(log[i].state), loose |-> log[i].loose,
                      lost |-> log[i].lost, undoable |-> Oldest(R, i - 1).reversible]
  BY <1>2, FlatLogEach
<1>5. /\ g \in Seq(X) /\ Len(g) = k /\ \A i \in 1 .. k : g[i] = flat[i]
  <2>1. \A i \in 1 .. k : flat[i] \in X
    BY <1>1, <1>3, <1>4
  <2>2. 1 \in Int /\ k \in Int
    BY <1>1
  <2>3. /\ g \in Seq(X) /\ Len(g) = IF 1 <= k THEN k - 1 + 1 ELSE 0
        /\ \A i \in 1 .. k - 1 + 1 : g[i] = flat[1 + i - 1]
    BY <1>2, <2>1, <2>2, SubSeqProperties
  <2> QED  BY <1>1, <2>3
<1>6. /\ DOMAIN f = 1 .. k
      /\ \A i \in 1 .. k :
           f[i] = [state |-> Flat(sub[i].state), loose |-> sub[i].loose,
                   lost |-> sub[i].lost, undoable |-> Oldest(R, i - 1).reversible]
  <2>1. /\ DOMAIN f = 1 .. Len(sub)
        /\ \A i \in 1 .. Len(sub) :
             f[i] = [state |-> Flat(sub[i].state), loose |-> sub[i].loose,
                     lost |-> sub[i].lost, undoable |-> Oldest(R, i - 1).reversible]
    BY <1>1, <1>2, FlatLogEach
  <2> QED  BY <1>1, <2>1
<1>7. f = [i \in 1 .. k |-> f[i]]
  BY <1>2, <1>6 DEF FlatLog
<1>8. g = [i \in 1 .. k |-> g[i]]
  BY <1>5
<1>9. ASSUME NEW i \in 1 .. k PROVE f[i] = g[i]
  <2>1. i \in 1 .. Len(log) /\ sub[i] = log[i]
    BY <1>1
  <2>2. /\ f[i] = [state |-> Flat(log[i].state), loose |-> log[i].loose,
                   lost |-> log[i].lost, undoable |-> Oldest(R, i - 1).reversible]
    BY <1>6, <2>1
  <2>3. g[i] = flat[i]
    BY <1>5
  <2> QED  BY <1>4, <2>1, <2>2, <2>3
<1> QED  BY <1>1, <1>2, <1>7, <1>8, <1>9, SamePlaces DEF sub, flat

\* The same entries, of which some may no longer be undoable.
LEMMA FlatWeaker ==
  ASSUME NEW log \in Seq(LogEntries), NEW other \in Seq(LogEntries), NEW R, NEW S,
         LooserBy(other, log, {}), \A i \in 1 .. Len(log) : log[i].lost => other[i].lost,
         \A i \in 1 .. Len(log) : Oldest(S, i - 1).reversible => Oldest(R, i - 1).reversible
  PROVE  Log!Weaker(FlatLog(other, S), FlatLog(log, R))
<1> DEFINE f == FlatLog(other, S)
           g == FlatLog(log, R)
<1>1. f = FlatLog(other, S) /\ g = FlatLog(log, R)
  OBVIOUS
<1> HIDE DEF f, g
<1>2. /\ DOMAIN g = 1 .. Len(log)
      /\ \A i \in 1 .. Len(log) :
           /\ g[i].state = Flat(log[i].state) /\ g[i].loose = log[i].loose
           /\ g[i].lost = log[i].lost /\ g[i].undoable = Oldest(R, i - 1).reversible
  <2>1. /\ DOMAIN g = 1 .. Len(log)
        /\ \A i \in 1 .. Len(log) :
             g[i] = [state |-> Flat(log[i].state), loose |-> log[i].loose,
                     lost |-> log[i].lost, undoable |-> Oldest(R, i - 1).reversible]
    BY <1>1, FlatLogEach
  <2> QED  BY <2>1
<1>3. Len(other) = Len(log)
  BY DEF LooserBy
<1>4. /\ DOMAIN f = 1 .. Len(log)
      /\ \A i \in 1 .. Len(log) :
           /\ f[i].state = Flat(other[i].state) /\ f[i].loose = other[i].loose
           /\ f[i].lost = other[i].lost /\ f[i].undoable = Oldest(S, i - 1).reversible
  <2>1. /\ DOMAIN f = 1 .. Len(other)
        /\ \A i \in 1 .. Len(other) :
             f[i] = [state |-> Flat(other[i].state), loose |-> other[i].loose,
                     lost |-> other[i].lost, undoable |-> Oldest(S, i - 1).reversible]
    BY <1>1, FlatLogEach
  <2> QED  BY <1>3, <2>1
<1>5. \A i \in 1 .. Len(log) : other[i].state = log[i].state /\ other[i].loose = log[i].loose
  BY DEF LooserBy
<1>6. Log!Weaker(f, g)
  BY <1>2, <1>4, <1>5 DEF Log!Weaker
<1> QED  BY <1>6 DEF f, g

\* An effect no journal takes back follows every entry, and makes a barrier of the newest
\* unless a step is recording.
LEMMA Loses ==
  ASSUME TypeOK, TypeOK', Sound(ring, past, capacity, allocator),
         ring' = MarkRing(ring, step), past' = Lose(past), open' = open \/ open' = Lose(open),
         open = <<>> => ~step.pending
  PROVE  Log!Step
<1>1. past \in Seq(LogEntries) /\ open \in Seq(LogEntries) /\ past' \in Seq(LogEntries)
  BY DEF TypeOK
<1>2. LooserBy(past', past, {}) /\ \A i \in 1 .. Len(past) : past'[i].lost
  BY <1>1, LoseEach
<1>3. /\ \A i \in 1 .. Len(past) : Oldest(ring', i - 1).reversible => Oldest(ring, i - 1).reversible
      /\ ~step.pending /\ Len(past) > 0 => ~Oldest(ring', Len(past) - 1).reversible
  BY MarkedKeeps DEF Keeps
<1>4. Log!Weaker(FlatLog(past', ring'), FlatLog(past, ring))
  BY <1>1, <1>2, <1>3, FlatWeaker
<1> DEFINE f == FlatLog(past', ring')
           g == FlatLog(past, ring)
<1>5. f = FlatLog(past', ring') /\ g = FlatLog(past, ring)
  OBVIOUS
<1> HIDE DEF f, g
<1>6. /\ Len(f) = Len(past) /\ DOMAIN f = 1 .. Len(past)
      /\ \A i \in 1 .. Len(past) :
           f[i].lost = past'[i].lost /\ f[i].undoable = Oldest(ring', i - 1).reversible
  <2>1. Len(past') = Len(past)
    BY <1>2 DEF LooserBy
  <2>2. /\ Len(f) = Len(past') /\ DOMAIN f = 1 .. Len(past')
        /\ \A i \in 1 .. Len(past') :
             f[i] = [state |-> Flat(past'[i].state), loose |-> past'[i].loose,
                     lost |-> past'[i].lost, undoable |-> Oldest(ring', i - 1).reversible]
    BY <1>1, <1>5, FlatLogEach
  <2> QED  BY <2>1, <2>2
<1>7. \A i \in DOMAIN f : f[i].lost
  BY <1>2, <1>6
<1>8. ASSUME g # <<>>, FlatOpen(open) = <<>> PROVE ~f[Len(f)].undoable
  <2>1. ~step.pending
    BY <1>1, <1>8, FlatNone
  <2>2. Len(past) # 0
    <3>1. DOMAIN g = 1 .. Len(past) /\ (\E X : g \in Seq(X)) /\ Len(g) = Len(past)
      BY <1>1, <1>5, FlatLogEach
    <3> QED  BY <1>8, <3>1, EmptySeq
  <2>3. Len(past) > 0 /\ Len(past) \in 1 .. Len(past)
    BY <1>1, <2>2, LenProperties
  <2> QED  BY <1>3, <1>6, <2>1, <2>3
<1>9. FlatOpen(open') \in
        {FlatOpen(open), [i \in DOMAIN FlatOpen(open) |-> [FlatOpen(open)[i] EXCEPT !.lost = TRUE]]}
  <2>1. CASE open' = open
    BY <2>1
  <2>2. CASE open' = Lose(open)
    BY <1>1, <2>2, FlatOpenLoosened
  <2> QED  BY <2>1, <2>2
<1> QED  BY <1>4, <1>5, <1>7, <1>8, <1>9 DEF Log!Step, Log!Lose
\* It joins the log as its newest entry, a barrier if an effect followed.
LEMMA Records ==
  ASSUME TypeOK, TypeOK', Sound(ring, past, capacity, allocator), capacity # 0,
         NEW e, Recorded(e), Len(open) = 1, open' = <<>>, e.reversible => ~open[1].lost
  PROVE  Log!Step
<1> DEFINE n == ring.count
           m == ring'.count
           f == FlatLog(past', ring')
           g == FlatLog(past, ring)
           o == FlatOpen(open)
<1>1. /\ n \in Nat /\ Len(past) = n /\ Dropped \in 0 .. 1 /\ capacity \in Nat
      /\ m = n + 1 - Dropped /\ m \in Nat /\ m > 0 /\ Len(past') = m /\ m - 1 + Dropped = n
      /\ n + 1 - m = Dropped /\ m <= n + 1
  <2>1. n \in Nat /\ Len(past) = n /\ capacity \in Nat
    BY HistoryAssumption DEF Sound, IsRing, TypeOK
  <2>2. Dropped \in 0 .. 1 /\ (Dropped = 1 => n = capacity)
    BY DEF Dropped
  <2>3. m = n + 1 - Dropped /\ Len(past') = m
    BY DEF Recorded
  <2> QED  BY <2>1, <2>2, <2>3
<1>2. /\ past'[m] = open[1] /\ Keeps(Oldest(ring', m - 1), e)
      /\ \A i \in 1 .. m - 1 :
           past'[i] = past[i + Dropped] /\ Keeps(Oldest(ring', i - 1), Oldest(ring, i - 1 + Dropped))
  BY DEF Recorded
<1>3. past \in Seq(LogEntries) /\ past' \in Seq(LogEntries) /\ open \in Seq(LogEntries)
  BY DEF TypeOK
<1>4. f = FlatLog(past', ring') /\ g = FlatLog(past, ring) /\ o = FlatOpen(open)
  OBVIOUS
<1> HIDE DEF n, m, f, g, o
<1>5. PICK X : f \in Seq(X)
  BY <1>3, <1>4, FlatLogEach
<1>6. PICK Y : g \in Seq(Y)
  BY <1>3, <1>4, FlatLogEach
<1>7. /\ Len(f) = m
      /\ \A i \in 1 .. m :
           f[i] = [state |-> Flat(past'[i].state), loose |-> past'[i].loose,
                   lost |-> past'[i].lost, undoable |-> Oldest(ring', i - 1).reversible]
  <2>1. /\ Len(f) = Len(past')
        /\ \A i \in 1 .. Len(past') :
             f[i] = [state |-> Flat(past'[i].state), loose |-> past'[i].loose,
                     lost |-> past'[i].lost, undoable |-> Oldest(ring', i - 1).reversible]
    BY <1>3, <1>4, FlatLogEach
  <2> QED  BY <1>1, <2>1
<1>8. /\ Len(g) = n
      /\ \A i \in 1 .. n :
           g[i] = [state |-> Flat(past[i].state), loose |-> past[i].loose,
                   lost |-> past[i].lost, undoable |-> Oldest(ring, i - 1).reversible]
  <2>1. /\ Len(g) = Len(past)
        /\ \A i \in 1 .. Len(past) :
             g[i] = [state |-> Flat(past[i].state), loose |-> past[i].loose,
                     lost |-> past[i].lost, undoable |-> Oldest(ring, i - 1).reversible]
    BY <1>3, <1>4, FlatLogEach
  <2> QED  BY <1>1, <2>1
<1>9. /\ o # <<>>
      /\ o[1] = [state |-> Flat(open[1].state), loose |-> open[1].loose, lost |-> open[1].lost]
  <2>1. open # <<>> /\ 1 \in 1 .. Len(open)
    OBVIOUS
  <2> QED  BY <1>3, <1>4, <2>1, FlatNone, FlatOpenEach
<1>10. FlatOpen(open') = <<>>
  BY DEF FlatOpen
<1>11. f # <<>> /\ m \in 1 .. m
  BY <1>1, <1>7
<1>12. f[Len(f)] = Log!Entry(o[1], f[Len(f)].undoable)
  <2>1. f[m] = [state |-> Flat(open[1].state), loose |-> open[1].loose, lost |-> open[1].lost,
                undoable |-> Oldest(ring', m - 1).reversible]
    BY <1>2, <1>7, <1>11
  <2> QED  BY <1>7, <1>9, <2>1 DEF Log!Entry
<1>13. f[Len(f)].undoable => ~o[1].lost
  <2>1. f[m].undoable = Oldest(ring', m - 1).reversible
    BY <1>7, <1>11
  <2>2. o[1].lost = open[1].lost
    BY <1>9
  <2> QED  BY <1>2, <1>7, <2>1, <2>2 DEF Keeps
<1>14. Log!Weaker(SubSeq(f, 1, Len(f) - 1), Log!Without(g, Len(g) + 1 - Len(f)))
  <2> DEFINE a == SubSeq(f, 1, m - 1)
             b == SubSeq(g, Dropped + 1, n)
  <2>1. DOMAIN a = 1 .. m - 1 /\ \A i \in 1 .. m - 1 : a[i] = f[i]
    <3>1. \A i \in 1 .. m - 1 : f[i] \in X
      BY <1>1, <1>5, <1>7
    <3>2. 1 \in Int /\ m - 1 \in Int
      BY <1>1
    <3>3. /\ a \in Seq(X) /\ Len(a) = IF 1 <= m - 1 THEN m - 1 - 1 + 1 ELSE 0
          /\ \A i \in 1 .. m - 1 - 1 + 1 : a[i] = f[1 + i - 1]
      BY <3>1, <3>2, SubSeqProperties
    <3> HIDE DEF a
    <3> QED  BY <1>1, <3>3
  <2>2. DOMAIN b = 1 .. m - 1 /\ \A i \in 1 .. m - 1 : b[i] = g[i + Dropped]
    <3>1. \A i \in Dropped + 1 .. n : g[i] \in Y
      BY <1>1, <1>6, <1>8
    <3>2. Dropped + 1 \in Int /\ n \in Int
      BY <1>1
    <3>3. /\ b \in Seq(Y) /\ Len(b) = IF Dropped + 1 <= n THEN n - (Dropped + 1) + 1 ELSE 0
          /\ \A i \in 1 .. n - (Dropped + 1) + 1 : b[i] = g[Dropped + 1 + i - 1]
      BY <3>1, <3>2, SubSeqProperties
    <3> HIDE DEF b
    <3>4. n - (Dropped + 1) + 1 = m - 1 /\ Len(b) = m - 1
      BY <1>1, <3>3
    <3>5. \A i \in 1 .. m - 1 : Dropped + 1 + i - 1 = i + Dropped
      BY <1>1
    <3> QED  BY <3>3, <3>4, <3>5
  <2> HIDE DEF a, b
  <2>3. ASSUME NEW i \in 1 .. m - 1
        PROVE  /\ a[i].state = b[i].state /\ a[i].loose = b[i].loose
               /\ b[i].lost => a[i].lost
               /\ a[i].undoable => b[i].undoable
    <3>1. i \in 1 .. m /\ i + Dropped \in 1 .. n /\ i + Dropped - 1 = i - 1 + Dropped
      BY <1>1
    <3>2. /\ past'[i] = past[i + Dropped]
          /\ Keeps(Oldest(ring', i - 1), Oldest(ring, i - 1 + Dropped))
      BY <1>2
    <3>3. a[i] = [state |-> Flat(past[i + Dropped].state), loose |-> past[i + Dropped].loose,
                  lost |-> past[i + Dropped].lost, undoable |-> Oldest(ring', i - 1).reversible]
      BY <1>7, <2>1, <3>1, <3>2
    <3>4. b[i] = [state |-> Flat(past[i + Dropped].state), loose |-> past[i + Dropped].loose,
                  lost |-> past[i + Dropped].lost,
                  undoable |-> Oldest(ring, i - 1 + Dropped).reversible]
      <4> DEFINE j == i + Dropped
      <4>1. j \in 1 .. n /\ j - 1 = i - 1 + Dropped
        BY <1>1, <3>1
      <4>2. b[i] = g[j]
        BY <2>2
      <4> HIDE DEF j
      <4>3. g[j] = [state |-> Flat(past[j].state), loose |-> past[j].loose, lost |-> past[j].lost,
                    undoable |-> Oldest(ring, j - 1).reversible]
        BY <1>8, <4>1
      <4> QED  BY <4>1, <4>2, <4>3 DEF j
    <3> QED  BY <3>2, <3>3, <3>4 DEF Keeps
  <2>4. Log!Weaker(a, b)
    BY <2>1, <2>2, <2>3 DEF Log!Weaker
  <2> QED  BY <1>1, <1>7, <1>8, <2>4 DEF a, b, Log!Without
<1>15. Len(f) <= Len(g) + 1
  BY <1>1, <1>7, <1>8
<1> QED  BY <1>4, <1>9, <1>10, <1>11, <1>12, <1>13, <1>14, <1>15 DEF Log!Step, Log!Record
\* It is given up: the log is loose at what it changed.
BrokenOff ==
  Differing(machine', open[1].state) \cup (IF open[1].lost THEN {"world"} ELSE {})
LEMMA GivesUp ==
  ASSUME TypeOK, TypeOK', Len(open) = 1, open' = <<>>,
         LooserBy(past', past, BrokenOff),
         \A i \in 1 .. Len(past) : past[i].lost => past'[i].lost,
         \A i \in 1 .. Len(past) : Oldest(ring', i - 1).reversible => Oldest(ring, i - 1).reversible
  PROVE  Log!Step
<1> DEFINE places == BrokenOff
           old == Loosen(past, places)
           o == FlatOpen(open)
<1>1. /\ past \in Seq(LogEntries) /\ past' \in Seq(LogEntries) /\ open \in Seq(LogEntries)
      /\ places \in SUBSET Spots
  BY DifferingTyped DEF TypeOK, Spots, BrokenOff
<1>2. o # <<>> /\ o[1].state = Flat(open[1].state) /\ o[1].lost = open[1].lost
  <2>1. open # <<>> /\ 1 \in 1 .. Len(open)
    OBVIOUS
  <2>2. o = FlatOpen(open)
    OBVIOUS
  <2> HIDE DEF o
  <2>3. o[1] = [state |-> Flat(open[1].state), loose |-> open[1].loose, lost |-> open[1].lost]
    BY <1>1, <2>1, <2>2, FlatOpenEach
  <2> QED  BY <1>1, <2>1, <2>2, <2>3, FlatNone
<1>3. Log!Differ(Flat(machine'), o[1].state) \cup (IF o[1].lost THEN {"world"} ELSE {}) = places
  <2>1. Log!Differ(Flat(machine'), o[1].state) = Differing(machine', open[1].state)
    BY <1>2, FlatDiffer
  <2> HIDE DEF o
  <2> QED  BY <1>2, <2>1, Zenon DEF BrokenOff
<1>4. LooserBy(past', past, places)
  OBVIOUS
<1> HIDE DEF places
<1>5. /\ old \in Seq(LogEntries) /\ LooserBy(old, past, places) /\ Len(old) = Len(past)
      /\ \A i \in 1 .. Len(past) : old[i].lost <=> past[i].lost
  BY <1>1, LoosenProperties, LoosenLooser DEF LooserBy
<1>6. FlatLog(old, ring) = Log!Loosened(FlatLog(past, ring), places)
  BY <1>1, FlatLoosened
<1> HIDE DEF old
<1>7. LooserBy(past', old, {}) /\ \A i \in 1 .. Len(old) : old[i].lost => past'[i].lost
  BY <1>4, <1>5 DEF LooserBy
<1>8. Log!Weaker(FlatLog(past', ring'), FlatLog(old, ring))
  BY <1>1, <1>5, <1>7, FlatWeaker
<1>9. FlatOpen(open') = <<>>
  BY DEF FlatOpen
<1> QED  BY <1>2, <1>3, <1>6, <1>8, <1>9 DEF Log!Step, Log!GiveUp

\* Something outside any entry changes these places.
LEMMA Changes ==
  ASSUME TypeOK, NEW places \in SUBSET Places, ring' = ring,
         \A p \in Places : p \notin places => At(machine', p) = At(machine, p),
         machine'.stack = machine.stack,
         past' = Loosen(past, places), open' = Loosen(open, places)
  PROVE  Log!Step
<1>1. past \in Seq(LogEntries) /\ open \in Seq(LogEntries)
  BY DEF TypeOK
<1>1a. places \in SUBSET Spots
  BY DifferingTyped
<1>2. Log!Differ(Flat(machine'), Flat(machine)) \subseteq places
  BY FlatDiffer DEF Differing
<1>3. \A f \in {"stack"} : Flat(machine')[f] = Flat(machine)[f]
  BY FlatProperties
<1>4. FlatLog(past', ring') = Log!Loosened(FlatLog(past, ring), places)
  BY <1>1, <1>1a, FlatLoosened
<1>5. FlatOpen(open') = Log!Loosened(FlatOpen(open), places)
  BY <1>1, <1>1a, FlatOpenLoosened
<1> QED  BY <1>2, <1>3, <1>4, <1>5 DEF Log!Step, Log!Outside

\* An undo takes back the newest entry, one still undoable and followed by no effect.
LEMMA Undoes ==
  ASSUME IInv, UndoSound, Undo
  PROVE  Log!Step
<1> DEFINE n == ring.count
           edited == IF poke THEN Differing(machine, open[1].state) ELSE {}
           kept == SubSeq(past, 1, Len(past) - 1)
           f == FlatLog(past', ring')
           g == FlatLog(past, ring)
           o == FlatOpen(open)
<1>1. /\ TypeOK /\ Sound(ring, past, capacity, allocator)
      /\ phase = "idle" /\ CanUndo
      /\ ring' = WithoutNewest(ring) /\ past' = Loosen(kept, edited) /\ open' = <<>>
  BY DEF IInv, Undo
<1>2. /\ n \in Nat /\ n > 0 /\ Len(past) = n /\ n \in 1 .. n /\ past \in Seq(LogEntries)
      /\ ring.hollow < n /\ capacity \in Nat /\ open \in Seq(LogEntries)
  BY <1>1, UndoTyped, HistoryAssumption DEF Sound, TypeOK
<1>3. \A i \in 0 .. n - 2 : Oldest(ring', i) = Oldest(ring, i)
  BY <1>1, <1>2, WithoutNewestProperties DEF Sound
<1>4. kept \in Seq(LogEntries) /\ Len(kept) = n - 1 /\ n - 1 \in 0 .. n
  <2>1. \A i \in 1 .. n - 1 : past[i] \in LogEntries
    BY <1>2
  <2>2. 1 \in Int /\ n - 1 \in Int
    BY <1>2
  <2>3. kept \in Seq(LogEntries) /\ Len(kept) = IF 1 <= n - 1 THEN n - 1 - 1 + 1 ELSE 0
    BY <1>2, <2>1, <2>2, SubSeqProperties
  <2> QED  BY <1>2, <2>3
<1>5. edited \in SUBSET Spots
  BY DifferingTyped
<1>6. /\ \A p \in Places : p \notin past[n].loose \cup edited =>
           At(machine', p) = At(past[n].state, p)
      /\ machine'.stack = past[n].state.stack
  BY UndoneRestores
<1>7. past[n].lost => "world" \in past[n].loose
  BY <1>1, NoneLost
<1>8. Oldest(ring, n - 1).reversible
  <2>1. n - 1 - 0 = n - 1
    BY <1>2
  <2> QED  BY <1>1, <2>1 DEF CanUndo, EntryAt
<1>9. edited = IF o = <<>> THEN {} ELSE Log!Differ(Flat(machine), o[1].state)
  <2>1. open = <<>> <=> ~poke
    BY <1>1 DEF UndoSound
  <2>2. o = <<>> <=> open = <<>>
    BY <1>2, FlatNone
  <2>3. ASSUME poke PROVE o[1].state = Flat(open[1].state)
    <3>1. 1 \in 1 .. Len(open)
      BY <1>2, <2>1, <2>3, EmptySeq, LenProperties
    <3>2. o = FlatOpen(open)
      OBVIOUS
    <3> HIDE DEF o
    <3>3. o[1] = [state |-> Flat(open[1].state), loose |-> open[1].loose, lost |-> open[1].lost]
      BY <1>2, <3>1, <3>2, FlatOpenEach
    <3> QED  BY <3>3
  <2> HIDE DEF o
  <2>4. CASE poke
    BY <2>1, <2>2, <2>3, <2>4, FlatDiffer
  <2>5. CASE ~poke
    BY <2>1, <2>2, <2>5
  <2> QED  BY <2>4, <2>5
<1>10. f = FlatLog(past', ring') /\ g = FlatLog(past, ring)
  OBVIOUS
<1> HIDE DEF edited, kept, f, g, n
<1>11. f = Log!Loosened(SubSeq(g, 1, n - 1), edited)
  <2>1. f = Log!Loosened(FlatLog(kept, ring'), edited)
    BY <1>1, <1>4, <1>5, <1>10, FlatLoosened
  <2>2. \A i \in 1 .. Len(kept) : Oldest(ring', i - 1).reversible = Oldest(ring, i - 1).reversible
    <3>1. \A i \in 1 .. Len(kept) : i - 1 \in 0 .. n - 2
      BY <1>2, <1>4
    <3> QED  BY <1>3, <3>1
  <2>3. FlatLog(kept, ring') = FlatLog(kept, ring)
    BY <1>4, <2>2, FlatLogSame
  <2>4. FlatLog(kept, ring) = SubSeq(g, 1, n - 1)
    BY <1>2, <1>4, <1>10, FlatSub DEF kept
  <2> QED  BY <2>1, <2>3, <2>4
<1>12. /\ Len(g) = n
       /\ g[n] = [state |-> Flat(past[n].state), loose |-> past[n].loose,
                  lost |-> past[n].lost, undoable |-> Oldest(ring, n - 1).reversible]
  <2>1. /\ Len(g) = Len(past)
        /\ \A i \in 1 .. Len(past) :
             g[i] = [state |-> Flat(past[i].state), loose |-> past[i].loose,
                     lost |-> past[i].lost, undoable |-> Oldest(ring, i - 1).reversible]
    BY <1>2, <1>10, FlatLogEach
  <2> QED  BY <1>2, <2>1
<1>13. /\ g[n].state = Flat(past[n].state) /\ g[n].loose = past[n].loose
       /\ g[n].undoable /\ (g[n].lost => "world" \in g[n].loose)
  BY <1>7, <1>8, <1>12
<1>14. g # <<>>
  BY <1>2, <1>12
<1>15. Log!Differ(Flat(machine'), g[n].state) \subseteq g[n].loose \cup edited
  BY <1>6, <1>13, FlatDiffer DEF Differing
<1>16. \A p \in {"stack"} : Flat(machine')[p] = g[n].state[p]
  BY <1>6, <1>13, FlatProperties
<1>17. FlatOpen(open') = <<>>
  BY <1>1 DEF FlatOpen
<1>18. Log!Undo
  BY <1>9, <1>10, <1>11, <1>12, <1>13, <1>14, <1>15, <1>16, <1>17 DEF Log!Undo
<1> QED  BY <1>18 DEF Log!Step
\* Every step of the history is one the promise allows, or changes nothing it speaks of.
LEMMA NextPromise ==
  ASSUME IInv, UndoSound, IInv', [Next]_vars
  PROVE  [Log!Step]_(Log!undolog)
<1>1. TypeOK /\ Sound(ring, past, capacity, allocator) /\ StepSound /\ TypeOK'
  BY DEF IInv
<1>2. /\ open = <<>> <=> phase = "idle" /\ ~poke
      /\ phase # "idle" => step.pending \/ capacity = 0
      /\ step.pending => StepKeeps /\ capacity # 0
      /\ poke => PokeKeeps
  BY DEF UndoSound
<1>3. /\ machine \in Machines /\ past \in Seq(LogEntries) /\ open \in Seq(LogEntries)
      /\ Len(past) \in Nat /\ Len(open) \in Nat /\ step \in Steps
  BY <1>1, LenProperties DEF TypeOK
<1>4. open # <<>> => Len(open) = 1
  BY <1>1, <1>2 DEF StepSound, Underway
<1>5. capacity = 0 => Len(past) = 0 /\ ring.count = 0
  <2>1. ring.count \in Nat /\ ring.slots \in Nat /\ capacity \in Nat
    BY <1>1, HistoryAssumption DEF TypeOK, IsRing
  <2>2. ring.count <= ring.slots /\ ring.slots <= capacity /\ Len(past) = ring.count
    BY <1>1 DEF Sound, Shaped
  <2> QED  BY <2>1, <2>2
<1>6. step.pending => phase # "idle"
  BY <1>1 DEF StepSound
<1> SUFFICES ASSUME ~UNCHANGED Log!undolog PROVE Log!Step
  OBVIOUS
\* A step or a Poke of which nothing is left: the history was off, or it changed nothing.
<1>7. ASSUME Len(open) = 1, open' = <<>>, past' = past,
             \/ Len(past) = 0
             \/ ring' = ring /\ Differing(machine', open[1].state) = {} /\ ~open[1].lost
      PROVE  Log!Step
  <2>1. LooserBy(past', past, BrokenOff)
    BY <1>3, <1>7 DEF LooserBy, BrokenOff
  <2>2. \A i \in 1 .. Len(past) :
          Oldest(ring', i - 1).reversible => Oldest(ring, i - 1).reversible
    BY <1>3, <1>7
  <2> QED  BY <1>1, <1>7, <2>1, <2>2, GivesUp
<1>8. CASE Begin \/ BeginPoke
  <2>1. /\ phase = "idle" /\ ~poke /\ open' = <<Opened(machine)>> /\ machine' = machine
        /\ past' = past /\ ring' = ring
    BY <1>8 DEF Begin, BeginPoke, history
  <2> QED  BY <1>2, <1>3, <2>1, Opens
<1>9. ASSUME NEW a \in Addrs, NEW b \in Bytes, NEW kept \in BOOLEAN, Write(a, b, kept)
      PROVE  Log!Step
  <2>1. phase = "running" /\ open' = open /\ past' = past /\ ring' = ring
    BY <1>9 DEF Write, history, ghosts
  <2> QED  BY <1>2, <1>3, <2>1, Works
<1>10. ASSUME NEW d \in Devices, Journal(d) PROVE Log!Step
  <2>1. /\ phase = "running" /\ open' = open /\ past' = past
        /\ step.pending => ring' = ring
        /\ ~step.pending => ring' = MarkRing(ring, step)
    BY <1>10 DEF Journal, ghosts
  <2>2. ring' = ring
    <3>1. CASE step.pending
      BY <2>1, <3>1
    <3>2. CASE ~step.pending
      <4>1. ring.count = 0
        BY <1>2, <1>5, <2>1, <3>2
      <4> QED  BY <2>1, <3>2, <4>1 DEF MarkRing
    <3> QED  BY <3>1, <3>2
  <2> QED  BY <1>2, <1>3, <2>1, <2>2, Works
<1>11. CASE Effect
  <2>1. /\ ring' = MarkRing(ring, step) /\ past' = Lose(past)
        /\ open' = IF poke THEN open ELSE Lose(open)
    BY <1>11 DEF Effect
  <2> QED  BY <1>1, <1>2, <1>6, <2>1, Loses
<1>12. ASSUME NEW r \in Registers, Split(r) PROVE Log!Step
  <2>1. phase = "running" /\ open' = open /\ past' = past /\ ring' = ring
    BY <1>12 DEF Split, history, ghosts
  <2> QED  BY <1>2, <1>3, <2>1, Works
<1>13. CASE Wait \/ Resume
  <2>1. machine' = machine /\ ring' = ring /\ past' = past /\ open' = open
    BY <1>13 DEF Wait, Resume, history, ghosts
  <2> QED  BY <2>1 DEF Log!undolog
<1>14. ASSUME NEW r \in Registers, NEW flow, NEW end, Retire(r, flow, end) PROVE Log!Step
  <2>1. phase = "running" /\ open' = <<>>
    BY <1>14 DEF Retire
  <2>2. Len(open) = 1 /\ (step.pending \/ capacity = 0)
    BY <1>2, <1>4, <2>1
  <2>3. CASE ~step.pending
    <3>1. past' = past /\ Len(past) = 0
      BY <1>5, <1>14, <2>2, <2>3 DEF Retire
    <3> QED  BY <1>7, <2>1, <2>2, <3>1
  <2>4. CASE step.pending
    <3> DEFINE irreversible == \/ step.truncated \/ (step.parts # <<>> /\ TooMuch(step))
                                 \/ step.pending_irreversible \/ end = "handled"
               exits == end \in {"exit", "killed"}
               e == EntryOf(r, step.parts \o step.writes, step.journal, irreversible, exits,
                            identity)
    <3>1. irreversible \in BOOLEAN /\ exits \in BOOLEAN
      <4>1. irreversible \in BOOLEAN
        BY Zenon
      <4> QED  BY <4>1
    <3>2. StepKeeps /\ capacity # 0
      BY <1>2, <2>4
    <3>3. e.reversible => ~open[1].lost
      <4>1. e.reversible <=> ~irreversible
        <5> HIDE DEF irreversible, exits
        <5> QED  BY <3>1 DEF EntryOf, Vacant
      <4>2. open[1].lost => irreversible
        BY <3>2 DEF StepKeeps
      <4> HIDE DEF e, irreversible
      <4> QED  BY <4>1, <4>2
    <3>4. Recorded(e)
      <4>1. /\ irreversible = (\/ step.truncated \/ (step.parts # <<>> /\ TooMuch(step))
                                 \/ step.pending_irreversible \/ end = "handled")
            /\ exits = (end \in {"exit", "killed"})
        OBVIOUS
      <4> HIDE DEF irreversible, exits
      <4> QED  BY <1>14, <2>4, <3>1, <3>2, <4>1, RetireRecords
    <3> HIDE DEF e
    <3> QED  BY <1>1, <2>1, <2>2, <3>2, <3>3, <3>4, Records
  <2> QED  BY <2>3, <2>4
<1>15. CASE NativeExit
  <2>1. /\ phase = "running" /\ past' = Loosen(past, BrokenOff) /\ open' = <<>> /\ ring' = ring
    BY <1>15 DEF NativeExit, history, BrokenOff
  <2>2. Len(open) = 1
    BY <1>2, <1>4, <2>1
  <2>3. BrokenOff \in SUBSET Spots
    BY DifferingTyped DEF Spots, BrokenOff
  <2>5. /\ LooserBy(past', past, BrokenOff)
        /\ \A i \in 1 .. Len(past) : past[i].lost => past'[i].lost
    BY <1>3, <2>1, <2>3, LoosenLooser
  <2>6. \A i \in 1 .. Len(past) :
          Oldest(ring', i - 1).reversible => Oldest(ring, i - 1).reversible
    BY <2>1
  <2> QED  BY <1>1, <2>1, <2>2, <2>5, <2>6, GivesUp
<1>16. ASSUME NEW r \in Registers, NEW a \in Addrs, NEW b \in Bytes, NEW kills \in BOOLEAN,
              DeliverSignal(r, a, b, kills)
       PROVE  Log!Step
  <2>1. phase = "idle" /\ open' = open /\ ring' = MarkRing(ring, step) /\ past' = Lose(past)
    BY <1>16 DEF DeliverSignal
  <2> QED  BY <1>1, <1>6, <2>1, Loses
<1>17. ASSUME NEW r \in RegNames, NEW v \in RegValues, EditRegister(r, v) PROVE Log!Step
  <2>1. /\ machine' = [machine EXCEPT !.regs[r] = v] /\ ring' = ring
        /\ past' = IF poke THEN past ELSE Loosen(past, {r})
        /\ open' = IF poke THEN open ELSE Loosen(open, {r})
    BY <1>17 DEF EditRegister, history
  <2>2. CASE poke
    BY <1>2, <1>3, <2>1, <2>2, Works
  <2>3. CASE ~poke
    <3>1. {r} \in SUBSET Places
      BY DEF Places
    <3>2. \A p \in Places : p \notin {r} => At(machine', p) = At(machine, p)
      <4>1. /\ machine'.regs = [machine.regs EXCEPT ![r] = v] /\ machine'.mem = machine.mem
            /\ machine'.dev = machine.dev /\ machine'.exited = machine.exited
        BY <1>3, <2>1 DEF Machines
      <4> QED  BY <1>3, <4>1, RegisterEdited
    <3>3. machine'.stack = machine.stack
      BY <1>3, <2>1 DEF Machines
    <3> QED  BY <1>1, <2>1, <2>3, <3>1, <3>2, <3>3, Changes
  <2> QED  BY <2>2, <2>3
<1>18. ASSUME NEW a \in Addrs, NEW b \in Bytes, EditByte(a, b) PROVE Log!Step
  <2>1. /\ machine' = [machine EXCEPT !.mem[a] = b] /\ ring' = ring
        /\ past' = IF poke THEN past ELSE Loosen(past, {a})
        /\ open' = IF poke THEN open ELSE Loosen(open, {a})
    BY <1>18 DEF EditByte, history
  <2>2. CASE poke
    BY <1>2, <1>3, <2>1, <2>2, Works
  <2>3. CASE ~poke
    <3>1. {a} \in SUBSET Places
      BY DEF Places
    <3>2. \A p \in Places : p \notin {a} => At(machine', p) = At(machine, p)
      <4>1. /\ machine'.mem = [machine.mem EXCEPT ![a] = b] /\ machine'.regs = machine.regs
            /\ machine'.dev = machine.dev /\ machine'.exited = machine.exited
        BY <1>3, <2>1 DEF Machines
      <4> QED  BY <1>3, <4>1, ByteEdited
    <3>3. machine'.stack = machine.stack
      BY <1>3, <2>1 DEF Machines
    <3> QED  BY <1>1, <2>1, <2>3, <3>1, <3>2, <3>3, Changes
  <2> QED  BY <2>2, <2>3
<1>19. CASE EndPoke
  <2> DEFINE changed == Overwritten # {} \/ machine.regs # step.registers
             e == EntryOf(machine.regs, PokeWrites, <<>>, step.pending_irreversible, FALSE,
                          allocator + 1)
  <2>1. /\ poke /\ machine' = machine /\ open' = <<>>
        /\ IF changed
           THEN Finish(machine.regs, PokeWrites, <<>>, step.pending_irreversible, FALSE,
                       allocator + 1)
           ELSE ring' = ring /\ past' = past
    BY <1>19 DEF EndPoke, history
  <2>2. Len(open) = 1 /\ PokeKeeps
    BY <1>2, <1>4, <2>1
  <2>3. CASE capacity = 0
    <3>1. past' = past /\ Len(past) = 0
      BY <1>5, <2>1, <2>3 DEF Finish
    <3> QED  BY <1>7, <2>1, <2>2, <3>1
  <2>4. CASE ~changed
    <3>1. ring' = ring /\ past' = past /\ Overwritten = {} /\ machine.regs = step.registers
      BY <2>1, <2>4
    <3>2. \A p \in Places : At(machine, p) = At(open[1].state, p)
      BY <1>1, <2>2, <3>1, NothingPoked
    <3>3. Differing(machine', open[1].state) = {}
      BY <2>1, <3>2 DEF Differing
    <3>4. ~open[1].lost
      BY <2>2 DEF PokeKeeps
    <3> QED  BY <1>7, <2>1, <2>2, <3>1, <3>3, <3>4
  <2>5. CASE changed /\ capacity # 0
    <3>1. Recorded(e)
      BY <1>19, <2>5, EndPokeRecords
    <3>2. ~open[1].lost
      BY <2>2 DEF PokeKeeps
    <3> HIDE DEF e
    <3> QED  BY <1>1, <2>1, <2>2, <2>5, <3>1, <3>2, Records
  <2> QED  BY <2>3, <2>4, <2>5
<1>20. CASE Undo
  BY <1>20, Undoes
<1>21. CASE (\E size \in Capacities : SetCapacity(size)) \/ (\E new \in Fresh : Load(new))
  <2>1. past' = <<>> /\ open' = <<>>
    BY <1>21 DEF SetCapacity, Load
  <2>2. ASSUME NEW size \in Capacities, SetCapacity(size)
        PROVE  \A p \in Places : At(machine', p) = At(machine, p)
    <3>1. /\ machine'.regs = machine.regs /\ machine'.mem = machine.mem
          /\ machine'.dev = machine.dev /\ machine'.exited = machine.exited
      BY <1>3, <2>2 DEF SetCapacity, Machines
    <3> QED  BY <3>1, AtProperties
  <2>3. ASSUME NEW new \in Fresh, Load(new) PROVE machine' \in Fresh
    BY <2>3 DEF Load
  <2> QED  BY <1>21, <2>1, <2>2, <2>3, Forgets
<1>22. CASE UNCHANGED vars
  <2>1. machine' = machine /\ ring' = ring /\ past' = past /\ open' = open
    BY <1>22 DEF vars, history, ghosts
  <2> QED  BY <2>1 DEF Log!undolog
<1> QED
  BY <1>8, <1>9, <1>10, <1>11, <1>12, <1>13, <1>14, <1>15, <1>16, <1>17, <1>18, <1>19, <1>20,
     <1>21, <1>22 DEF Next

\* The history keeps the promise of an undo log: what it stores, drops, cuts, bars and takes
\* back is, step by step, what UndoLog allows (blink/debughistory.c).
THEOREM KeepsPromiseHolds == Spec => KeepsPromise
<1>1. Init => Log!Start
  <2> SUFFICES ASSUME past = <<>>, open = <<>> PROVE Log!Start
    BY DEF Init
  <2> QED  BY DEF Log!Start, FlatLog, FlatOpen
<1>2. (IInv /\ UndoSound) /\ (IInv /\ UndoSound)' /\ [Next]_vars => [Log!Step]_(Log!undolog)
  BY NextPromise
<1> QED  BY <1>1, <1>2, UndoInvariantHolds, PTL DEF Spec, KeepsPromise, Log!Promise
=============================================================================
