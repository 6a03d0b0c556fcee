------------------------ MODULE BrowserPipeProofs ------------------------
(***************************************************************************)
(* Theorems about BrowserPipe, for any number of pipes and descriptors and *)
(* any capacity.                                                           *)
(***************************************************************************)
EXTENDS BrowserPipe, FiniteSetTheorems, TLAPS

-----------------------------------------------------------------------------
(* The list of ends. *)

Ends == [write : BOOLEAN, pipe : Pipes \cup {"none"}]
Rings == [0..Capacity - 1 -> 0..Serials - 1]
PipeStates == [head : 0..Capacity - 1, size : 0..Capacity, readers : Nat, writers : Nat,
               readflags : BOOLEAN, writeflags : BOOLEAN, bytes : Rings,
               written : 0..Serials - 1]

\* The descriptors that hold the one or the other end of p.
Readers(es, p) == {f \in Fds : es[f] = [write |-> FALSE, pipe |-> p]}
Writers(es, p) == {f \in Fds : es[f] = [write |-> TRUE, pipe |-> p]}

\* A list whose counts are the descriptors.
Counted(s) ==
  /\ s.ends \in [Fds -> Ends] /\ s.pipes \in [Pipes -> PipeStates]
  /\ \A f \in Fds : HasEnd(s.ends, f) => s.ends[f].pipe \in Pipes
  /\ \A p \in Pipes : /\ s.pipes[p].readers = Cardinality(Readers(s.ends, p))
                      /\ s.pipes[p].writers = Cardinality(Writers(s.ends, p))

\* What a pipe keeps when only its counts change.
SameRing(q, r) ==
  /\ q.head = r.head /\ q.size = r.size /\ q.bytes = r.bytes /\ q.written = r.written
  /\ q.readflags = r.readflags /\ q.writeflags = r.writeflags

\* Which end a descriptor holds.
LEMMA EndIs ==
  ASSUME NEW e \in Ends, NEW p \in Pipes
  PROVE  /\ e = [write |-> FALSE, pipe |-> p] <=> ~e.write /\ e.pipe = p
         /\ e = [write |-> TRUE, pipe |-> p] <=> e.write /\ e.pipe = p
BY DEF Ends

\* The holders of an end are finitely many.
LEMMA HoldersFinite ==
  ASSUME NEW es, NEW p
  PROVE  /\ IsFiniteSet(Readers(es, p)) /\ Cardinality(Readers(es, p)) \in 0 .. Cardinality(Fds)
         /\ IsFiniteSet(Writers(es, p)) /\ Cardinality(Writers(es, p)) \in 0 .. Cardinality(Fds)
<1>1. Readers(es, p) \in SUBSET Fds /\ Writers(es, p) \in SUBSET Fds /\ IsFiniteSet(Fds)
  BY PipeAssumption DEF Readers, Writers
<1>2. /\ IsFiniteSet(Readers(es, p)) /\ Cardinality(Readers(es, p)) <= Cardinality(Fds)
      /\ IsFiniteSet(Writers(es, p)) /\ Cardinality(Writers(es, p)) <= Cardinality(Fds)
  BY <1>1, FS_Subset
<1> QED  BY <1>1, <1>2, FS_CardinalityType

\* Which descriptors they are.
LEMMA Holders ==
  ASSUME NEW es, es \in [Fds -> Ends], NEW p \in Pipes
  PROVE  /\ \A f : f \in Readers(es, p) <=> f \in Fds /\ ~es[f].write /\ es[f].pipe = p
         /\ \A f : f \in Writers(es, p) <=> f \in Fds /\ es[f].write /\ es[f].pipe = p
<1>1. ASSUME NEW f \in Fds
      PROVE  /\ es[f] = [write |-> FALSE, pipe |-> p] <=> ~es[f].write /\ es[f].pipe = p
             /\ es[f] = [write |-> TRUE, pipe |-> p] <=> es[f].write /\ es[f].pipe = p
  <2>1. es[f] \in Ends
    OBVIOUS
  <2> QED  BY <2>1, EndIs
<1> QED  BY <1>1, Zenon DEF Readers, Writers

\* When one descriptor changes what it holds, so do the counts of its end before and after.
LEMMA HoldersChange ==
  ASSUME NEW es, es \in [Fds -> Ends], NEW ft, ft \in [Fds -> Ends], NEW fd \in Fds,
         \A f \in Fds : f # fd => ft[f] = es[f], NEW p \in Pipes
  PROVE  /\ fd \in Readers(es, p) /\ fd \notin Readers(ft, p) =>
              Cardinality(Readers(ft, p)) = Cardinality(Readers(es, p)) - 1
         /\ fd \notin Readers(es, p) /\ fd \in Readers(ft, p) =>
              Cardinality(Readers(ft, p)) = Cardinality(Readers(es, p)) + 1
         /\ (fd \in Readers(es, p) <=> fd \in Readers(ft, p)) => Readers(ft, p) = Readers(es, p)
         /\ fd \in Writers(es, p) /\ fd \notin Writers(ft, p) =>
              Cardinality(Writers(ft, p)) = Cardinality(Writers(es, p)) - 1
         /\ fd \notin Writers(es, p) /\ fd \in Writers(ft, p) =>
              Cardinality(Writers(ft, p)) = Cardinality(Writers(es, p)) + 1
         /\ (fd \in Writers(es, p) <=> fd \in Writers(ft, p)) => Writers(ft, p) = Writers(es, p)
<1> DEFINE R == Readers(es, p)
           S == Readers(ft, p)
           W == Writers(es, p)
           X == Writers(ft, p)
<1>1. \A f : f # fd => (f \in S <=> f \in R) /\ (f \in X <=> f \in W)
  BY Holders
<1>2. IsFiniteSet(R) /\ IsFiniteSet(W)
  BY HoldersFinite
<1> HIDE DEF R, S, W, X
<1>3. ASSUME fd \in R, fd \notin S PROVE Cardinality(S) = Cardinality(R) - 1
  <2>1. S = R \ {fd}
    BY <1>1, <1>3
  <2> QED  BY <1>2, <1>3, <2>1, FS_RemoveElement
<1>4. ASSUME fd \notin R, fd \in S PROVE Cardinality(S) = Cardinality(R) + 1
  <2>1. S = R \cup {fd}
    BY <1>1, <1>4
  <2> QED  BY <1>2, <1>4, <2>1, FS_AddElement
<1>5. ASSUME fd \in W, fd \notin X PROVE Cardinality(X) = Cardinality(W) - 1
  <2>1. X = W \ {fd}
    BY <1>1, <1>5
  <2> QED  BY <1>2, <1>5, <2>1, FS_RemoveElement
<1>6. ASSUME fd \notin W, fd \in X PROVE Cardinality(X) = Cardinality(W) + 1
  <2>1. X = W \cup {fd}
    BY <1>1, <1>6
  <2> QED  BY <1>2, <1>6, <2>1, FS_AddElement
<1>7. (fd \in R <=> fd \in S) => S = R
  BY <1>1
<1>8. (fd \in W <=> fd \in X) => X = W
  BY <1>1
<1> QED  BY <1>3, <1>4, <1>5, <1>6, <1>7, <1>8 DEF R, S, W, X

\* An unused pipe is one.
LEMMA FreeTyped == Free \in PipeStates /\ Free.readers = 0 /\ Free.writers = 0 /\ Free.size = 0
<1>1. [i \in 0..Capacity - 1 |-> 0] \in Rings /\ 0 \in 0..Capacity - 1 /\ 0 \in 0..Capacity
      /\ 0 \in 0..Serials - 1
  BY PipeAssumption DEF Rings
<1> QED  BY <1>1 DEF Free, PipeStates

\* A descriptor more: its end's count goes up by one, and nothing else changes.
LEMMA AddedProperties ==
  ASSUME NEW s, s.ends \in [Fds -> Ends], s.pipes \in [Pipes -> PipeStates],
         NEW fd \in Fds, NEW w \in BOOLEAN, NEW p \in Pipes,
         NEW t, t = Added(s, fd, w, p)
  PROVE  /\ t.ends \in [Fds -> Ends] /\ t.pipes \in [Pipes -> PipeStates]
         /\ t.ends[fd].write = w /\ t.ends[fd].pipe = p
         /\ \A f \in Fds : f # fd => t.ends[f] = s.ends[f]
         /\ \A q \in Pipes : q # p => t.pipes[q] = s.pipes[q]
         /\ SameRing(t.pipes[p], s.pipes[p])
         /\ w => /\ t.pipes[p].writers = s.pipes[p].writers + 1
                 /\ t.pipes[p].readers = s.pipes[p].readers
         /\ ~w => /\ t.pipes[p].readers = s.pipes[p].readers + 1
                  /\ t.pipes[p].writers = s.pipes[p].writers
<1> DEFINE e == [write |-> w, pipe |-> p]
           old == s.pipes[p]
<1>1. e \in Ends /\ e.write = w /\ e.pipe = p
  BY DEF Ends
<1>2. t.ends = [s.ends EXCEPT ![fd] = e]
  BY DEF Added
<1>3. old \in PipeStates
  OBVIOUS
<1>4. /\ w => t.pipes = [s.pipes EXCEPT ![p] = [old EXCEPT !.writers = old.writers + 1]]
      /\ ~w => t.pipes = [s.pipes EXCEPT ![p] = [old EXCEPT !.readers = old.readers + 1]]
  BY DEF Added
<1> HIDE DEF e, old
<1>5. /\ [old EXCEPT !.writers = old.writers + 1] \in PipeStates
      /\ [old EXCEPT !.readers = old.readers + 1] \in PipeStates
  BY <1>3 DEF PipeStates
<1>6. t.pipes[p] = IF w THEN [old EXCEPT !.writers = old.writers + 1]
                   ELSE [old EXCEPT !.readers = old.readers + 1]
  BY <1>4
<1>7. /\ SameRing(t.pipes[p], old)
      /\ w => t.pipes[p].writers = old.writers + 1 /\ t.pipes[p].readers = old.readers
      /\ ~w => t.pipes[p].readers = old.readers + 1 /\ t.pipes[p].writers = old.writers
  BY <1>3, <1>6 DEF PipeStates, SameRing
<1>8. t.pipes \in [Pipes -> PipeStates] /\ \A q \in Pipes : q # p => t.pipes[q] = s.pipes[q]
  BY <1>4, <1>5
<1>9. t.ends \in [Fds -> Ends] /\ t.ends[fd] = e /\ \A f \in Fds : f # fd => t.ends[f] = s.ends[f]
  BY <1>1, <1>2
<1> QED  BY <1>1, <1>7, <1>8, <1>9 DEF old
\* A list stays counted when a descriptor that holds no end gets one.
LEMMA AddedCounted ==
  ASSUME NEW s, Counted(s), NEW fd \in Fds, ~HasEnd(s.ends, fd), NEW w \in BOOLEAN,
         NEW p \in Pipes, NEW t, t = Added(s, fd, w, p)
  PROVE  Counted(t) /\ \A f \in Fds : HasEnd(t.ends, f) <=> f = fd \/ HasEnd(s.ends, f)
<1>1. /\ s.ends \in [Fds -> Ends] /\ s.pipes \in [Pipes -> PipeStates]
      /\ t.ends \in [Fds -> Ends] /\ t.pipes \in [Pipes -> PipeStates]
      /\ t.ends[fd].write = w /\ t.ends[fd].pipe = p
      /\ \A f \in Fds : f # fd => t.ends[f] = s.ends[f]
      /\ \A q \in Pipes : q # p => t.pipes[q] = s.pipes[q]
      /\ w => /\ t.pipes[p].writers = s.pipes[p].writers + 1
              /\ t.pipes[p].readers = s.pipes[p].readers
      /\ ~w => /\ t.pipes[p].readers = s.pipes[p].readers + 1
               /\ t.pipes[p].writers = s.pipes[p].writers
  BY AddedProperties DEF Counted
<1>2. NoEnd.pipe = "none" /\ "none" \notin Pipes
  BY PipeAssumption DEF NoEnd
<1>3. s.ends[fd] = NoEnd /\ s.ends[fd].pipe \notin Pipes /\ HasEnd(t.ends, fd)
  BY <1>1, <1>2 DEF HasEnd
<1>4. \A f \in Fds : HasEnd(t.ends, f) <=> f = fd \/ HasEnd(s.ends, f)
  BY <1>1, <1>3 DEF HasEnd
<1>5. \A f \in Fds : HasEnd(t.ends, f) => t.ends[f].pipe \in Pipes
  BY <1>1, <1>4 DEF Counted
<1>6. ASSUME NEW q \in Pipes
      PROVE  /\ t.pipes[q].readers = Cardinality(Readers(t.ends, q))
             /\ t.pipes[q].writers = Cardinality(Writers(t.ends, q))
  <2>1. /\ s.pipes[q].readers = Cardinality(Readers(s.ends, q))
        /\ s.pipes[q].writers = Cardinality(Writers(s.ends, q))
    BY DEF Counted
  <2>2. /\ fd \notin Readers(s.ends, q) /\ fd \notin Writers(s.ends, q)
        /\ fd \in Readers(t.ends, q) <=> ~w /\ q = p
        /\ fd \in Writers(t.ends, q) <=> w /\ q = p
    BY <1>1, <1>3, Holders
  <2>3. CASE q = p /\ w
    <3>1. /\ fd \notin Writers(s.ends, q) /\ fd \in Writers(t.ends, q)
          /\ fd \in Readers(s.ends, q) <=> fd \in Readers(t.ends, q)
      BY <2>2, <2>3
    <3>2. /\ s.ends \in [Fds -> Ends] /\ t.ends \in [Fds -> Ends]
          /\ \A f \in Fds : f # fd => t.ends[f] = s.ends[f]
      BY <1>1
    <3>3. /\ Cardinality(Writers(t.ends, q)) = Cardinality(Writers(s.ends, q)) + 1
          /\ Readers(t.ends, q) = Readers(s.ends, q)
      BY <3>1, <3>2, HoldersChange
    <3> QED  BY <1>1, <2>1, <2>3, <3>3
  <2>4. CASE q = p /\ ~w
    <3>1. /\ Cardinality(Readers(t.ends, q)) = Cardinality(Readers(s.ends, q)) + 1
          /\ Writers(t.ends, q) = Writers(s.ends, q)
      BY <1>1, <2>2, <2>4, HoldersChange
    <3> QED  BY <1>1, <2>1, <2>4, <3>1
  <2>5. CASE q # p
    BY <1>1, <2>1, <2>2, <2>5, HoldersChange
  <2> QED  BY <2>3, <2>4, <2>5
<1> QED  BY <1>1, <1>4, <1>5, <1>6 DEF Counted

\* A pipe some descriptor holds an end of is not free.
LEMMA HolderCounted ==
  ASSUME NEW s, Counted(s), NEW fd \in Fds, HasEnd(s.ends, fd), NEW p, p = s.ends[fd].pipe
  PROVE  /\ p \in Pipes
         /\ s.ends[fd].write => s.pipes[p].writers > 0
         /\ ~s.ends[fd].write => s.pipes[p].readers > 0
<1>1. p \in Pipes /\ s.ends[fd] \in Ends
  BY DEF Counted
<1>2. /\ s.ends[fd].write => fd \in Writers(s.ends, p)
      /\ ~s.ends[fd].write => fd \in Readers(s.ends, p)
  BY <1>1, EndIs DEF Readers, Writers
<1>3. /\ IsFiniteSet(Readers(s.ends, p)) /\ Cardinality(Readers(s.ends, p)) \in Nat
      /\ IsFiniteSet(Writers(s.ends, p)) /\ Cardinality(Writers(s.ends, p)) \in Nat
  BY HoldersFinite, FS_CardinalityType
<1>4. /\ s.ends[fd].write => Cardinality(Writers(s.ends, p)) # 0
      /\ ~s.ends[fd].write => Cardinality(Readers(s.ends, p)) # 0
  BY <1>2, <1>3, FS_EmptySet
<1> QED  BY <1>1, <1>3, <1>4 DEF Counted

\* What dropping a descriptor does to the list: its end's count goes down by one, and the
\* pipe is freed when nothing is left of either.
LEMMA ForgottenProperties ==
  ASSUME NEW s, Counted(s), NEW fd \in Fds, HasEnd(s.ends, fd),
         NEW p, p = s.ends[fd].pipe, NEW t, t = Forgotten(s, fd)
  PROVE  /\ p \in Pipes
         /\ t.ends \in [Fds -> Ends] /\ t.pipes \in [Pipes -> PipeStates]
         /\ t.ends[fd] = NoEnd /\ \A f \in Fds : f # fd => t.ends[f] = s.ends[f]
         /\ \A q \in Pipes : q # p => t.pipes[q] = s.pipes[q]
         /\ t.pipes[p] = Free \/ SameRing(t.pipes[p], s.pipes[p])
         /\ s.ends[fd].write => /\ t.pipes[p].writers = s.pipes[p].writers - 1
                                /\ t.pipes[p].readers = s.pipes[p].readers
         /\ ~s.ends[fd].write => /\ t.pipes[p].readers = s.pipes[p].readers - 1
                                 /\ t.pipes[p].writers = s.pipes[p].writers
         /\ t.pipes[p].readers = 0 /\ t.pipes[p].writers = 0 => t.pipes[p] = Free
<1> DEFINE e == s.ends[fd]
           old == s.pipes[p]
           left == IF e.write THEN [old EXCEPT !.writers = old.writers - 1]
                   ELSE [old EXCEPT !.readers = old.readers - 1]
           new == IF left.readers = 0 /\ left.writers = 0 THEN Free ELSE left
<1>1. /\ p \in Pipes /\ old \in PipeStates /\ e \in Ends
      /\ e.write => old.writers > 0
      /\ ~e.write => old.readers > 0
  BY HolderCounted DEF Counted
<1>2. t.ends = [s.ends EXCEPT ![fd] = NoEnd] /\ t.pipes = [s.pipes EXCEPT ![p] = new]
  BY DEF Forgotten
<1>3. s.ends \in [Fds -> Ends] /\ s.pipes \in [Pipes -> PipeStates] /\ NoEnd \in Ends
  BY DEF Counted, NoEnd, Ends
<1> HIDE DEF e, old
<1>4. /\ left \in PipeStates /\ SameRing(left, old)
      /\ e.write => left.writers = old.writers - 1 /\ left.readers = old.readers
      /\ ~e.write => left.readers = old.readers - 1 /\ left.writers = old.writers
  <2>1. CASE e.write
    <3>1. left = [old EXCEPT !.writers = old.writers - 1] /\ old.writers - 1 \in Nat
      BY <1>1, <2>1 DEF PipeStates
    <3> QED  BY <1>1, <2>1, <3>1 DEF PipeStates, SameRing
  <2>2. CASE ~e.write
    <3>1. left = [old EXCEPT !.readers = old.readers - 1] /\ old.readers - 1 \in Nat
      BY <1>1, <2>2 DEF PipeStates
    <3> QED  BY <1>1, <2>2, <3>1 DEF PipeStates, SameRing
  <2> QED  BY <2>1, <2>2
<1> HIDE DEF left
<1>5. /\ new \in PipeStates /\ (new = Free \/ SameRing(new, old))
      /\ e.write => new.writers = old.writers - 1 /\ new.readers = old.readers
      /\ ~e.write => new.readers = old.readers - 1 /\ new.writers = old.writers
      /\ new.readers = 0 /\ new.writers = 0 => new = Free
  BY <1>4, FreeTyped
<1> HIDE DEF new
<1>6. /\ t.pipes \in [Pipes -> PipeStates] /\ t.pipes[p] = new
      /\ \A q \in Pipes : q # p => t.pipes[q] = s.pipes[q]
  BY <1>1, <1>2, <1>3, <1>5
<1>7. /\ t.ends \in [Fds -> Ends] /\ t.ends[fd] = NoEnd
      /\ \A f \in Fds : f # fd => t.ends[f] = s.ends[f]
  BY <1>2, <1>3
<1> QED  BY <1>1, <1>5, <1>6, <1>7 DEF e, old

\* A list stays counted when a descriptor is dropped.
LEMMA ForgottenCounted ==
  ASSUME NEW s, Counted(s), NEW fd \in Fds, NEW t, t = Forgotten(s, fd)
  PROVE  /\ Counted(t) /\ \A f \in Fds : HasEnd(t.ends, f) <=> f # fd /\ HasEnd(s.ends, f)
         /\ \A f \in Fds : HasEnd(t.ends, f) => t.ends[f] = s.ends[f]
<1>1. CASE ~HasEnd(s.ends, fd)
  <2>1. t = s
    BY <1>1 DEF Forgotten
  <2> QED  BY <1>1, <2>1
<1>2. CASE HasEnd(s.ends, fd)
  <2> DEFINE p == s.ends[fd].pipe
  <2>1. p = s.ends[fd].pipe
    OBVIOUS
  <2> HIDE DEF p
  <2>2. /\ p \in Pipes
        /\ t.ends \in [Fds -> Ends] /\ t.pipes \in [Pipes -> PipeStates]
        /\ t.ends[fd] = NoEnd /\ \A f \in Fds : f # fd => t.ends[f] = s.ends[f]
        /\ \A q \in Pipes : q # p => t.pipes[q] = s.pipes[q]
        /\ s.ends[fd].write => /\ t.pipes[p].writers = s.pipes[p].writers - 1
                               /\ t.pipes[p].readers = s.pipes[p].readers
        /\ ~s.ends[fd].write => /\ t.pipes[p].readers = s.pipes[p].readers - 1
                                /\ t.pipes[p].writers = s.pipes[p].writers
    BY <1>2, <2>1, ForgottenProperties
  <2>3. /\ s.ends \in [Fds -> Ends] /\ s.pipes \in [Pipes -> PipeStates]
        /\ \A f \in Fds : HasEnd(s.ends, f) => s.ends[f].pipe \in Pipes
    BY DEF Counted
  <2>4. NoEnd.pipe = "none" /\ "none" \notin Pipes
    BY PipeAssumption DEF NoEnd
  <2>5. \A f \in Fds : HasEnd(t.ends, f) <=> f # fd /\ HasEnd(s.ends, f)
    BY <2>2 DEF HasEnd
  <2>6. ASSUME NEW q \in Pipes
        PROVE  /\ t.pipes[q].readers = Cardinality(Readers(t.ends, q))
               /\ t.pipes[q].writers = Cardinality(Writers(t.ends, q))
    <3>1. /\ s.pipes[q].readers = Cardinality(Readers(s.ends, q))
          /\ s.pipes[q].writers = Cardinality(Writers(s.ends, q))
      BY DEF Counted
    <3>2. /\ fd \notin Readers(t.ends, q) /\ fd \notin Writers(t.ends, q)
          /\ fd \in Readers(s.ends, q) <=> ~s.ends[fd].write /\ q = p
          /\ fd \in Writers(s.ends, q) <=> s.ends[fd].write /\ q = p
      BY <2>1, <2>2, <2>3, <2>4, Holders
    <3>3. CASE q = p /\ s.ends[fd].write
      BY <2>2, <2>3, <3>1, <3>2, <3>3, HoldersChange
    <3>4. CASE q = p /\ ~s.ends[fd].write
      BY <2>2, <2>3, <3>1, <3>2, <3>4, HoldersChange
    <3>5. CASE q # p
      BY <2>2, <2>3, <3>1, <3>2, <3>5, HoldersChange
    <3> QED  BY <3>3, <3>4, <3>5
  <2>7. \A f \in Fds : HasEnd(t.ends, f) => t.ends[f].pipe \in Pipes
    BY <2>2, <2>3, <2>5
  <2> QED  BY <2>2, <2>5, <2>6, <2>7 DEF Counted
<1> QED  BY <1>1, <1>2
-----------------------------------------------------------------------------
(* The bytes of a pipe. *)

\* A ring b of m slots holds, from h on, the last s of w bytes, which are numbered modulo S.
Holds(b, h, s, w, m, S) == \A j \in 0..s - 1 : b[(h + j) % m] = (w - s + j) % S
\* All but the n slots from h on are what they were.
KeptBut(new, old, h, n, m) == \A k \in 0..m - 1 : ~((k - h) % m < n) => new[k] = old[k]
\* The n slots from t on hold the bytes after the first w, and the others are what they were.
PutAt(new, old, t, n, w, m, S) ==
  \A k \in 0..m - 1 :
    new[k] = IF (k - t) % m < n THEN (w + ((k - t) % m)) % S ELSE old[k]

\* The ring of q holds what was written and not yet read, in order.
InOrder(q) == Holds(q.bytes, q.head, q.size, q.written, Capacity, Serials)

\* A remainder is less than what it is of.
LEMMA ModRange ==
  ASSUME NEW m \in Nat, m > 0, NEW x \in Int
  PROVE  x % m \in 0 .. m - 1
OBVIOUS

\* A place less than one turn ahead is where it is, or a turn back.
LEMMA Turn ==
  ASSUME NEW m \in Nat, m > 0, NEW a \in 0 .. m - 1, NEW b \in 0 .. m
  PROVE  (a + b) % m = IF a + b < m THEN a + b ELSE a + b - m
<1> DEFINE x == a + b
<1>1. x \in Nat /\ x < 2 * m
  OBVIOUS
<1> HIDE DEF x
<1>2. x % m = IF x < m THEN x ELSE x - m
  BY <1>1
<1> QED  BY <1>2 DEF x

\* A place at most one turn behind is where it is, or a turn on.
LEMMA Behind ==
  ASSUME NEW m \in Nat, m > 0, NEW x \in Int, -m <= x, x < m
  PROVE  x % m = IF x < 0 THEN x + m ELSE x
OBVIOUS

\* And one at most two turns behind is two turns on.
LEMMA FarBehind ==
  ASSUME NEW m \in Nat, m > 0, NEW x \in Int, -(2*m) <= x, x < -m
  PROVE  x % m = x + 2 * m
OBVIOUS

\* A turn more or less leaves a place where it is.
LEMMA SameTurn ==
  ASSUME NEW m \in Nat, m > 0, NEW x \in Int, NEW y \in Int, x = y \/ x = y - m
  PROVE  x % m = y % m
OBVIOUS

\* Where byte i of a ring at h is when n bytes have been taken: as far behind the old head as
\* it was.
LEMMA TakenPlace ==
  ASSUME NEW m \in Nat, m > 0, NEW h \in 0 .. m - 1, NEW n \in Nat, NEW i \in Nat,
         n + i < m, NEW g, g = (h + n) % m, NEW x, x = (g + i) % m
  PROVE  /\ g \in 0 .. m - 1 /\ x \in 0 .. m - 1
         /\ x = (h + (n + i)) % m
         /\ (x - h) % m = n + i
<1>1. g = IF h + n < m THEN h + n ELSE h + n - m
  BY Turn
<1>2. x = IF g + i < m THEN g + i ELSE g + i - m
  <2>1. g \in 0 .. m - 1 /\ i \in 0 .. m
    BY <1>1
  <2> QED  BY <2>1, Turn
<1>3. (h + (n + i)) % m = IF h + (n + i) < m THEN h + (n + i) ELSE h + (n + i) - m
  <2>1. n + i \in 0 .. m
    OBVIOUS
  <2> QED  BY <2>1, Turn
<1>4. (x - h) % m = IF x - h < 0 THEN x - h + m ELSE x - h
  <2> DEFINE d == x - h
  <2>1. d \in Int /\ -m <= d /\ d < m
    BY <1>1, <1>2
  <2> HIDE DEF d
  <2>2. d % m = IF d < 0 THEN d + m ELSE d
    BY <2>1, Behind
  <2> QED  BY <2>2 DEF d
<1> QED  BY <1>1, <1>2, <1>3, <1>4

\* Where byte i of a ring at h is, and how far it is behind the end of s bytes.
LEMMA PutPlace ==
  ASSUME NEW m \in Nat, m > 0, NEW h \in 0 .. m - 1, NEW s \in 0 .. m, NEW i \in 0 .. m - 1,
         NEW x, x = (h + i) % m
  PROVE  /\ x \in 0 .. m - 1
         /\ (x - (h + s)) % m = IF i < s THEN m - s + i ELSE i - s
<1>1. x = IF h + i < m THEN h + i ELSE h + i - m
  BY Turn
<1> DEFINE d == x - (h + s)
<1>2. d \in Int /\ d = IF h + i < m THEN i - s ELSE i - s - m
  BY <1>1
<1>3. x \in 0 .. m - 1
  BY <1>1
<1> HIDE DEF d
<1>4. d % m = IF i < s THEN m - s + i ELSE i - s
  <2>1. CASE d < -m
    BY <1>2, <2>1, FarBehind
  <2>2. CASE -m <= d
    BY <1>2, <2>2, Behind
  <2> QED  BY <1>2, <2>1, <2>2
<1> QED  BY <1>3, <1>4 DEF d

\* The number of a byte does not change when n more than w are written.
Follows(v, w, n, m) ==
  \A s, i \in Int : /\ (v - (s + n) + i) % m = (w - s + i) % m
                    /\ (v - (s + n) + i) % m = (w + (i - s)) % m
LEMMA PutSerial ==
  ASSUME NEW m \in Nat, m > 0, NEW w \in 0 .. m - 1, NEW n \in 0 .. m, NEW v, v = (w + n) % m
  PROVE  Follows(v, w, n, m)
<1>1. v = IF w + n < m THEN w + n ELSE w + n - m
  BY Turn
<1>2. ASSUME NEW s \in Int, NEW i \in Int
      PROVE  /\ (v - (s + n) + i) % m = (w - s + i) % m
             /\ (v - (s + n) + i) % m = (w + (i - s)) % m
  <2> DEFINE y == w - s + i
             x == v - (s + n) + i
  <2>1. x \in Int /\ y \in Int /\ (x = y \/ x = y - m) /\ w + (i - s) = y
    BY <1>1
  <2> HIDE DEF x, y
  <2>2. x % m = y % m
    BY <2>1, SameTurn
  <2> QED  BY <2>1, <2>2 DEF x, y
<1> QED  BY <1>2 DEF Follows

\* An empty ring is in order, and one with the same bytes is when it is.
LEMMA RingSame ==
  /\ InOrder(Free)
  /\ \A q, r : SameRing(q, r) /\ InOrder(r) => InOrder(q)
<1>1. InOrder(Free)
  BY FreeTyped DEF InOrder, Holds
<1> QED  BY <1>1 DEF SameRing, InOrder

\* The bytes behind the n that were taken are in order.
LEMMA TakenInOrder ==
  ASSUME NEW m \in Nat, m > 0, NEW h \in 0 .. m - 1, NEW s \in 0 .. m, NEW n \in 0 .. s,
         NEW g, g = (h + n) % m
  PROVE  \A w \in Int : \A old, new, S :
           Holds(old, h, s, w, m, S) /\ KeptBut(new, old, h, n, m) => Holds(new, g, s - n, w, m, S)
<1>1. ASSUME NEW i \in 0 .. s - n - 1
      PROVE  /\ (g + i) % m \in 0 .. m - 1 /\ (g + i) % m = (h + (n + i)) % m
             /\ (((g + i) % m) - h) % m = n + i
             /\ n + i \in 0 .. s - 1 /\ ~(n + i < n)
  <2>1. i \in Nat /\ n \in Nat /\ n + i < m
    OBVIOUS
  <2>2. PICK x : x = (g + i) % m
    OBVIOUS
  <2>3. x \in 0 .. m - 1 /\ x = (h + (n + i)) % m /\ (x - h) % m = n + i
    BY <2>1, <2>2, TakenPlace
  <2> QED  BY <2>1, <2>2, <2>3
<1> SUFFICES ASSUME NEW w \in Int, NEW old, NEW new, NEW S, Holds(old, h, s, w, m, S),
                    KeptBut(new, old, h, n, m)
             PROVE  Holds(new, g, s - n, w, m, S)
  OBVIOUS
<1>2. ASSUME NEW i \in 0 .. s - n - 1
      PROVE  new[(g + i) % m] = (w - (s - n) + i) % S
  <2>1. PICK x, j : x = (g + i) % m /\ j = n + i
    OBVIOUS
  <2>2. x \in 0 .. m - 1 /\ x = (h + j) % m /\ (x - h) % m = j /\ j \in 0 .. s - 1 /\ ~(j < n)
    BY <1>1, <2>1
  <2>3. w - (s - n) + i = w - s + j
    BY <2>1
  <2>4. new[x] = old[x]
    BY <2>2 DEF KeptBut
  <2>5. old[(h + j) % m] = (w - s + j) % S
    BY <2>2 DEF Holds
  <2> QED  BY <2>1, <2>2, <2>3, <2>4, <2>5
<1> QED  BY <1>2, Zenon DEF Holds

\* The bytes there were and the n that were put behind them are in order.
LEMMA PutInOrder ==
  ASSUME NEW m \in Nat, m > 0, NEW h \in 0 .. m - 1, NEW s \in 0 .. m, NEW n \in 0 .. m, s + n <= m,
         NEW S, NEW w, NEW v, Follows(v, w, n, S)
  PROVE  \A old, new :
           Holds(old, h, s, w, m, S) /\ PutAt(new, old, h + s, n, w, m, S)
             => Holds(new, h, s + n, v, m, S)
<1>1. ASSUME NEW i \in 0 .. s + n - 1
      PROVE  /\ (h + i) % m \in 0 .. m - 1
             /\ (((h + i) % m) - (h + s)) % m = IF i < s THEN m - s + i ELSE i - s
  <2>1. i \in 0 .. m - 1
    OBVIOUS
  <2>2. PICK x : x = (h + i) % m
    OBVIOUS
  <2>3. x \in 0 .. m - 1 /\ (x - (h + s)) % m = IF i < s THEN m - s + i ELSE i - s
    BY <2>1, <2>2, PutPlace
  <2> QED  BY <2>2, <2>3
<1>2. ASSUME NEW i \in Int
      PROVE  /\ (v - (s + n) + i) % S = (w - s + i) % S
             /\ (v - (s + n) + i) % S = (w + (i - s)) % S
  <2>1. s \in Int
    OBVIOUS
  <2> QED  BY <2>1, Zenon DEF Follows
<1> SUFFICES ASSUME NEW old, NEW new, Holds(old, h, s, w, m, S),
                    PutAt(new, old, h + s, n, w, m, S)
             PROVE  Holds(new, h, s + n, v, m, S)
  OBVIOUS
<1>3. ASSUME NEW i \in 0 .. s + n - 1
      PROVE  new[(h + i) % m] = (v - (s + n) + i) % S
  <2>1. PICK x, d : x = (h + i) % m /\ d = (x - (h + s)) % m
    OBVIOUS
  <2>2. x \in 0 .. m - 1 /\ d = IF i < s THEN m - s + i ELSE i - s
    BY <1>1, <2>1
  <2>3. /\ (v - (s + n) + i) % S = (w - s + i) % S
        /\ (v - (s + n) + i) % S = (w + (i - s)) % S
    <3>1. i \in Int
      OBVIOUS
    <3> QED  BY <1>2, <3>1, Zenon
  <2>4. new[x] = IF d < n THEN (w + d) % S ELSE old[x]
    BY <2>1, <2>2 DEF PutAt
  <2>5. CASE i < s
    <3>1. ~(d < n) /\ i \in 0 .. s - 1
      BY <2>2, <2>5
    <3>2. old[(h + i) % m] = (w - s + i) % S
      BY <3>1 DEF Holds
    <3> QED  BY <2>1, <2>3, <2>4, <3>1, <3>2
  <2>6. CASE ~(i < s)
    <3>1. d < n /\ d = i - s
      BY <2>2, <2>6
    <3> QED  BY <2>1, <2>3, <2>4, <3>1
  <2> QED  BY <2>5, <2>6
<1>4. 0 .. (s + n) - 1 = 0 .. s + n - 1
  OBVIOUS
<1> QED  BY <1>3, <1>4, Zenon DEF Holds

\* Taking n bytes leaves the ones behind them in order.
LEMMA TakenProperties ==
  ASSUME NEW q \in PipeStates, InOrder(q), NEW n \in 0 .. q.size, NEW r, r = Taken(q, n)
  PROVE  /\ r \in PipeStates /\ InOrder(r) /\ r.size = q.size - n
         /\ r.readers = q.readers /\ r.writers = q.writers
<1> DEFINE C == Capacity
           h == q.head
           s == q.size
           head == (h + n) % C
           bytes == [i \in DOMAIN q.bytes |-> IF Past(h, i) < n THEN 0 ELSE q.bytes[i]]
<1>1. /\ C \in Nat /\ C > 0 /\ Serials \in Nat /\ Serials > C
      /\ h \in 0 .. C - 1 /\ s \in 0 .. C /\ q.written \in 0 .. Serials - 1
      /\ q.bytes \in [0 .. C - 1 -> 0 .. Serials - 1] /\ n \in Nat /\ n <= s
  BY PipeAssumption DEF PipeStates, Rings
<1>2. r = [q EXCEPT !.head = head, !.size = s - n, !.bytes = bytes]
  BY DEF Taken
<1>3. Holds(q.bytes, h, s, q.written, C, Serials)
  BY DEF InOrder
<1>4. \A i : Past(h, i) = (i - h) % C
  BY DEF Past
<1> HIDE DEF C, h, s
<1>5. head \in 0 .. C - 1 /\ bytes \in [0 .. C - 1 -> 0 .. Serials - 1] /\ s - n \in 0 .. C
  <2>1. head \in 0 .. C - 1
    BY <1>1, ModRange
  <2> QED  BY <1>1, <2>1
<1>6. \A i \in 0 .. C - 1 : ~(Past(h, i) < n) => bytes[i] = q.bytes[i]
  BY <1>1
<1>7. head = (h + n) % C
  OBVIOUS
<1> HIDE DEF head, bytes
<1>8. /\ r \in PipeStates /\ r.head = head /\ r.size = s - n /\ r.bytes = bytes
      /\ r.written = q.written /\ r.readers = q.readers /\ r.writers = q.writers
  BY <1>1, <1>2, <1>5 DEF PipeStates, Rings, C
<1>9. Holds(bytes, head, s - n, q.written, C, Serials)
  <2>1. KeptBut(bytes, q.bytes, h, n, C)
    BY <1>4, <1>6 DEF KeptBut
  <2>2. n \in 0 .. s /\ q.written \in Int
    BY <1>1
  <2> QED  BY <1>1, <1>3, <1>7, <2>1, <2>2, TakenInOrder
<1>10. InOrder(r)
  BY <1>8, <1>9 DEF InOrder, C
<1> QED  BY <1>8, <1>10 DEF s

\* Putting n bytes behind them keeps them and the new ones in order.
LEMMA PutProperties ==
  ASSUME NEW q \in PipeStates, InOrder(q), NEW n \in 0 .. Capacity - q.size,
         NEW r, r = Put(q, n)
  PROVE  /\ r \in PipeStates /\ InOrder(r) /\ r.size = q.size + n
         /\ r.readers = q.readers /\ r.writers = q.writers
<1> DEFINE C == Capacity
           S == Serials
           h == q.head
           s == q.size
           w == q.written
           tail == h + s
           written == (w + n) % S
           bytes == [i \in DOMAIN q.bytes |-> IF Past(tail, i) < n
                                              THEN (w + Past(tail, i)) % S
                                              ELSE q.bytes[i]]
<1>1. /\ C \in Nat /\ C > 0 /\ S \in Nat /\ S > C
      /\ h \in 0 .. C - 1 /\ s \in 0 .. C /\ w \in 0 .. S - 1
      /\ q.bytes \in [0 .. C - 1 -> 0 .. S - 1] /\ n \in Nat /\ s + n <= C
  BY PipeAssumption DEF PipeStates, Rings
<1>2. r = [q EXCEPT !.size = s + n, !.written = written, !.bytes = bytes]
  BY DEF Put
<1>3. Holds(q.bytes, h, s, w, C, S)
  BY DEF InOrder
<1>4. \A i : Past(tail, i) = (i - tail) % C
  BY DEF Past
<1> HIDE DEF C, S, h, s, w
<1>5. \A i \in 0 .. C - 1 : (w + Past(tail, i)) % S \in 0 .. S - 1
  <2>1. ASSUME NEW i \in 0 .. C - 1 PROVE (w + Past(tail, i)) % S \in 0 .. S - 1
    <3>1. Past(tail, i) \in Int
      <4>1. i - tail \in Int
        BY <1>1
      <4> HIDE DEF tail
      <4> QED  BY <1>1, <1>4, <4>1, ModRange
    <3>2. w + Past(tail, i) \in Int
      BY <1>1, <3>1
    <3> QED  BY <1>1, <3>2, ModRange
  <2> QED  BY <2>1
<1>6. /\ written \in 0 .. S - 1 /\ s + n \in 0 .. C
      /\ bytes \in [0 .. C - 1 -> 0 .. S - 1]
  <2>1. written \in 0 .. S - 1
    BY <1>1, ModRange
  <2>2. s + n \in 0 .. C
    BY <1>1
  <2>3. bytes \in [0 .. C - 1 -> 0 .. S - 1]
    <3> HIDE DEF tail
    <3> QED  BY <1>1, <1>5
  <2> QED  BY <2>1, <2>2, <2>3
<1>7. \A i \in 0 .. C - 1 : bytes[i] = IF Past(tail, i) < n THEN (w + Past(tail, i)) % S
                                       ELSE q.bytes[i]
  BY <1>1
<1>8. written = (w + n) % S /\ tail = h + s
  OBVIOUS
<1> HIDE DEF written, bytes
<1>9. /\ r \in PipeStates /\ r.size = s + n /\ r.bytes = bytes /\ r.head = h
      /\ r.written = written /\ r.readers = q.readers /\ r.writers = q.writers
  BY <1>1, <1>2, <1>6 DEF PipeStates, Rings, C, S, h
<1>10. Holds(bytes, h, s + n, written, C, S)
  <2>1. PutAt(bytes, q.bytes, tail, n, w, C, S)
    <3> HIDE DEF tail
    <3> QED  BY <1>4, <1>7 DEF PutAt
  <2>2. n \in 0 .. C
    BY <1>1
  <2>3. Follows(written, w, n, S)
    <3>1. w \in 0 .. S - 1 /\ n \in 0 .. S /\ written = (w + n) % S /\ S \in Nat /\ S > 0
      BY <1>1, <1>8
    <3> QED  BY <3>1, PutSerial
  <2> QED  BY <1>1, <1>3, <2>1, <2>2, <2>3, PutInOrder
<1>11. InOrder(r)
  BY <1>9, <1>10 DEF InOrder, C, S
<1> QED  BY <1>9, <1>11 DEF s
-----------------------------------------------------------------------------
(* The list and the bytes together. *)

\* What the operations on the list keep: it is counted, a pipe nobody holds is free, and
\* every ring is in order.
Good(s) ==
  /\ Counted(s)
  /\ \A p \in Pipes : s.pipes[p].readers = 0 /\ s.pipes[p].writers = 0 => s.pipes[p] = Free
  /\ \A p \in Pipes : InOrder(s.pipes[p])

\* A pipe that outlives an operation on the list has its ring, and an end nobody held is still
\* nobody's.
Outlives(r, q) ==
  /\ SameRing(r, q)
  /\ q.readers = 0 => r.readers = 0
  /\ q.writers = 0 => r.writers = 0
Evolves(s, t) == \A p \in Pipes : t.pipes[p] = Free \/ Outlives(t.pipes[p], s.pipes[p])

\* An empty ring is in order.
LEMMA EmptyInOrder ==
  ASSUME NEW q, q.size = 0
  PROVE  InOrder(q)
BY DEF InOrder, Holds

\* A list that has not changed has evolved.
LEMMA EvolvesSame == \A s : Evolves(s, s)
BY DEF Evolves, Outlives, SameRing

\* Another descriptor of an end somebody holds.
LEMMA AddedGood ==
  ASSUME NEW s, Good(s), NEW fd \in Fds, ~HasEnd(s.ends, fd), NEW w \in BOOLEAN, NEW p \in Pipes,
         w => s.pipes[p].writers > 0, ~w => s.pipes[p].readers > 0, NEW t, t = Added(s, fd, w, p)
  PROVE  /\ Good(t) /\ Evolves(s, t)
         /\ \A f \in Fds : HasEnd(t.ends, f) <=> f = fd \/ HasEnd(s.ends, f)
         /\ \A q \in Pipes : t.pipes[q] = Free => s.pipes[q] = Free
<1>1. /\ Counted(s) /\ s.ends \in [Fds -> Ends] /\ s.pipes \in [Pipes -> PipeStates]
      /\ \A q \in Pipes : InOrder(s.pipes[q])
      /\ \A q \in Pipes : s.pipes[q].readers = 0 /\ s.pipes[q].writers = 0 => s.pipes[q] = Free
  BY DEF Good, Counted
<1>2. Counted(t) /\ \A f \in Fds : HasEnd(t.ends, f) <=> f = fd \/ HasEnd(s.ends, f)
  BY <1>1, AddedCounted
<1>3. /\ \A q \in Pipes : q # p => t.pipes[q] = s.pipes[q]
      /\ SameRing(t.pipes[p], s.pipes[p])
      /\ w => /\ t.pipes[p].writers = s.pipes[p].writers + 1
              /\ t.pipes[p].readers = s.pipes[p].readers
      /\ ~w => /\ t.pipes[p].readers = s.pipes[p].readers + 1
               /\ t.pipes[p].writers = s.pipes[p].writers
  BY <1>1, AddedProperties
<1>4. s.pipes[p].readers \in Nat /\ s.pipes[p].writers \in Nat
  BY <1>1 DEF PipeStates
<1>5. /\ Outlives(t.pipes[p], s.pipes[p])
      /\ ~(t.pipes[p].readers = 0 /\ t.pipes[p].writers = 0)
  BY <1>3, <1>4 DEF Outlives
<1>6. Evolves(s, t)
  BY <1>3, <1>5 DEF Evolves, Outlives, SameRing
<1>7. \A q \in Pipes : t.pipes[q].readers = 0 /\ t.pipes[q].writers = 0 => t.pipes[q] = Free
  BY <1>1, <1>3, <1>5
<1>8. \A q \in Pipes : InOrder(t.pipes[q])
  BY <1>1, <1>3, RingSame
<1>9. \A q \in Pipes : t.pipes[q] = Free => s.pipes[q] = Free
  BY <1>3, <1>5, FreeTyped
<1> QED  BY <1>2, <1>6, <1>7, <1>8, <1>9 DEF Good

\* new holds what old held, the others hold what they held, and no pipe is freed.
Copied(s, t, old, new) ==
  /\ \A f \in Fds : HasEnd(t.ends, f) <=> HasEnd(s.ends, f) \/ (f = new /\ HasEnd(s.ends, old))
  /\ \A q \in Pipes : t.pipes[q] = Free => s.pipes[q] = Free

\* A copy of a descriptor.
LEMMA DuplicatedGood ==
  ASSUME NEW s, Good(s), NEW old \in Fds, NEW new \in Fds, ~HasEnd(s.ends, new),
         NEW t, t = Duplicated(s, old, new)
  PROVE  Good(t) /\ Evolves(s, t) /\ Copied(s, t, old, new)
<1>1. CASE ~HasEnd(s.ends, old)
  <2>1. t = s
    BY <1>1 DEF Duplicated
  <2> QED  BY <1>1, <2>1, EvolvesSame DEF Copied
<1>2. CASE HasEnd(s.ends, old)
  <2>1. PICK w, p : w = s.ends[old].write /\ p = s.ends[old].pipe
    OBVIOUS
  <2>2. /\ p \in Pipes /\ w => s.pipes[p].writers > 0
    BY <1>2, <2>1, HolderCounted DEF Good
  <2>3. p \in Pipes /\ ~w => s.pipes[p].readers > 0
    BY <1>2, <2>1, HolderCounted DEF Good
  <2>4. p \in Pipes /\ w \in BOOLEAN
    BY <1>2, <2>1 DEF Good, Counted, Ends
  <2>5. t = Added(s, new, w, p)
    BY <1>2, <2>1 DEF Duplicated
  <2>6. /\ Good(t) /\ Evolves(s, t)
        /\ \A f \in Fds : HasEnd(t.ends, f) <=> f = new \/ HasEnd(s.ends, f)
        /\ \A q \in Pipes : t.pipes[q] = Free => s.pipes[q] = Free
    BY <2>2, <2>3, <2>4, <2>5, AddedGood
  <2> QED  BY <1>2, <2>6 DEF Copied
<1> QED  BY <1>1, <1>2

\* A descriptor less.
LEMMA ForgottenGood ==
  ASSUME NEW s, Good(s), NEW fd \in Fds, NEW t, t = Forgotten(s, fd)
  PROVE  /\ Good(t) /\ Evolves(s, t)
         /\ \A f \in Fds : HasEnd(t.ends, f) <=> f # fd /\ HasEnd(s.ends, f)
         /\ \A f \in Fds : HasEnd(t.ends, f) => t.ends[f] = s.ends[f]
<1>1. /\ Counted(t) /\ \A f \in Fds : HasEnd(t.ends, f) <=> f # fd /\ HasEnd(s.ends, f)
      /\ \A f \in Fds : HasEnd(t.ends, f) => t.ends[f] = s.ends[f]
  BY ForgottenCounted DEF Good
<1>2. CASE ~HasEnd(s.ends, fd)
  <2>1. t = s
    BY <1>2 DEF Forgotten
  <2> QED  BY <1>1, <2>1, EvolvesSame
<1>3. CASE HasEnd(s.ends, fd)
  <2>1. PICK p : p = s.ends[fd].pipe
    OBVIOUS
  <2>2. /\ p \in Pipes
        /\ \A q \in Pipes : q # p => t.pipes[q] = s.pipes[q]
        /\ t.pipes[p] = Free \/ SameRing(t.pipes[p], s.pipes[p])
        /\ s.ends[fd].write => /\ t.pipes[p].writers = s.pipes[p].writers - 1
                               /\ t.pipes[p].readers = s.pipes[p].readers
        /\ ~s.ends[fd].write => /\ t.pipes[p].readers = s.pipes[p].readers - 1
                                /\ t.pipes[p].writers = s.pipes[p].writers
        /\ t.pipes[p].readers = 0 /\ t.pipes[p].writers = 0 => t.pipes[p] = Free
    BY <1>3, <2>1, ForgottenProperties DEF Good
  <2>3. /\ s.ends[fd].write => s.pipes[p].writers > 0
        /\ ~s.ends[fd].write => s.pipes[p].readers > 0
    BY <1>3, <2>1, HolderCounted DEF Good
  <2>4. s.pipes[p] \in PipeStates
    BY <2>2 DEF Good, Counted
  <2>5. t.pipes[p] = Free \/ Outlives(t.pipes[p], s.pipes[p])
    BY <2>2, <2>3, <2>4 DEF Outlives, PipeStates
  <2>6. Evolves(s, t)
    BY <2>2, <2>5 DEF Evolves, Outlives, SameRing
  <2>7. \A q \in Pipes : t.pipes[q].readers = 0 /\ t.pipes[q].writers = 0 => t.pipes[q] = Free
    BY <2>2 DEF Good
  <2>8. \A q \in Pipes : InOrder(t.pipes[q])
    BY <2>2, RingSame DEF Good
  <2> QED  BY <1>1, <2>6, <2>7, <2>8 DEF Good
<1> QED  BY <1>2, <1>3
\* An end of a new pipe.
LEMMA EndAdded ==
  ASSUME NEW s, Counted(s), NEW fd \in Fds, ~HasEnd(s.ends, fd), NEW w \in BOOLEAN,
         NEW p \in Pipes, s.pipes[p].size = 0, NEW t, t = Added(s, fd, w, p)
  PROVE  /\ Counted(t) /\ \A f \in Fds : HasEnd(t.ends, f) <=> f = fd \/ HasEnd(s.ends, f)
         /\ \A q \in Pipes : q # p => t.pipes[q] = s.pipes[q]
         /\ t.pipes[p].size = 0
         /\ t.pipes[p].readers + t.pipes[p].writers = s.pipes[p].readers + s.pipes[p].writers + 1
<1>2. Counted(t) /\ \A f \in Fds : HasEnd(t.ends, f) <=> f = fd \/ HasEnd(s.ends, f)
  BY AddedCounted
<1>3. s.ends \in [Fds -> Ends] /\ s.pipes \in [Pipes -> PipeStates]
  BY DEF Counted
<1>4. /\ \A q \in Pipes : q # p => t.pipes[q] = s.pipes[q]
      /\ SameRing(t.pipes[p], s.pipes[p])
      /\ w => /\ t.pipes[p].writers = s.pipes[p].writers + 1
              /\ t.pipes[p].readers = s.pipes[p].readers
      /\ ~w => /\ t.pipes[p].readers = s.pipes[p].readers + 1
               /\ t.pipes[p].writers = s.pipes[p].writers
  BY <1>3, AddedProperties
<1>5. s.pipes[p].readers \in Nat /\ s.pipes[p].writers \in Nat
  BY <1>3 DEF PipeStates
<1> QED  BY <1>2, <1>4, <1>5 DEF SameRing

\* A pipe with its two descriptors.
LEMMA MadeGood ==
  ASSUME NEW s, Good(s), NEW p \in Pipes, s.pipes[p].readers = 0, s.pipes[p].writers = 0,
         NEW r \in Fds, NEW w \in Fds, r # w, ~HasEnd(s.ends, r), ~HasEnd(s.ends, w),
         NEW fresh, fresh.ends = s.ends, fresh.pipes \in [Pipes -> PipeStates],
         fresh.pipes[p].readers = 0, fresh.pipes[p].writers = 0, fresh.pipes[p].size = 0,
         \A o \in Pipes : o # p => fresh.pipes[o] = s.pipes[o],
         NEW a \in BOOLEAN, NEW b \in BOOLEAN,
         NEW half, half = Added(fresh, r, a, p), NEW made, made = Added(half, w, b, p)
  PROVE  /\ Good(made)
         /\ \A f \in Fds : HasEnd(made.ends, f) <=> f = r \/ f = w \/ HasEnd(s.ends, f)
         /\ \A o \in Pipes : o # p => made.pipes[o] = s.pipes[o]
<1>1. /\ s.ends \in [Fds -> Ends] /\ s.pipes \in [Pipes -> PipeStates]
      /\ \A o \in Pipes : InOrder(s.pipes[o])
      /\ \A o \in Pipes : s.pipes[o].readers = 0 /\ s.pipes[o].writers = 0 => s.pipes[o] = Free
  BY DEF Good, Counted
<1>2. Counted(fresh)
  <2>1. \A o \in Pipes : /\ fresh.pipes[o].readers = s.pipes[o].readers
                         /\ fresh.pipes[o].writers = s.pipes[o].writers
    OBVIOUS
  <2> QED  BY <1>1, <2>1 DEF Good, Counted
<1>3. /\ Counted(half) /\ \A f \in Fds : HasEnd(half.ends, f) <=> f = r \/ HasEnd(fresh.ends, f)
      /\ \A o \in Pipes : o # p => half.pipes[o] = fresh.pipes[o]
      /\ half.pipes[p].size = 0
      /\ half.pipes[p].readers + half.pipes[p].writers
           = fresh.pipes[p].readers + fresh.pipes[p].writers + 1
  BY <1>2, EndAdded
<1>4. ~HasEnd(half.ends, w)
  BY <1>3
<1>5. /\ Counted(made) /\ \A f \in Fds : HasEnd(made.ends, f) <=> f = w \/ HasEnd(half.ends, f)
      /\ \A o \in Pipes : o # p => made.pipes[o] = half.pipes[o]
      /\ made.pipes[p].size = 0
      /\ made.pipes[p].readers + made.pipes[p].writers
           = half.pipes[p].readers + half.pipes[p].writers + 1
  BY <1>3, <1>4, EndAdded
<1>6. InOrder(made.pipes[p]) /\ ~(made.pipes[p].readers = 0 /\ made.pipes[p].writers = 0)
  <2>1. InOrder(made.pipes[p])
    BY <1>5, EmptyInOrder
  <2>2. /\ half.pipes[p].readers \in Nat /\ half.pipes[p].writers \in Nat
        /\ made.pipes[p].readers \in Nat /\ made.pipes[p].writers \in Nat
    BY <1>3, <1>5 DEF Counted, PipeStates
  <2>3. half.pipes[p].readers + half.pipes[p].writers = 1
    BY <1>3
  <2>4. made.pipes[p].readers + made.pipes[p].writers = 2
    BY <1>5, <2>3
  <2> QED  BY <2>1, <2>2, <2>4
<1>7. \A o \in Pipes : o # p => made.pipes[o] = s.pipes[o]
  BY <1>3, <1>5
<1>8. /\ \A o \in Pipes : InOrder(made.pipes[o])
      /\ \A o \in Pipes : made.pipes[o].readers = 0 /\ made.pipes[o].writers = 0
                            => made.pipes[o] = Free
  BY <1>1, <1>6, <1>7, Zenon
<1> QED  BY <1>3, <1>5, <1>7, <1>8 DEF Good
-----------------------------------------------------------------------------
(* The invariant. *)

States == [state : {"run", "call", "wait"}, call : Call]
Frames == [state : {"run", "call"}, call : Call]

\* The table agrees with the list of ends.
Agrees(es) == \A f \in Fds : fds[f] = "pipe" <=> HasEnd(es, f)

\* The list is counted, nobody's pipes are free, every ring is in order, what was learnt of a far
\* end is so and nothing is of a free pipe, and a call only waits for what is not there.
IInv ==
  /\ Good(Lists)
  /\ fds \in [Fds -> {"none", "file", "pipe"}] /\ Agrees(ends)
  /\ doing \in States /\ frames \in Seq(Frames) /\ Len(frames) <= MaxFrames
  /\ answered \in [Pipes -> SUBSET {"EOF", "EPIPE"}]
  /\ \A p \in Pipes : pipes[p] = Free => answered[p] = {}
  /\ FarEndFinal
  /\ NoMissedWake

\* An operation on the list by a program that runs keeps the invariant, when the table follows.
LEMMA ListKeeps ==
  ASSUME IInv, Runs, NEW t, Good(t), SetLists(t),
         \A p \in Pipes : answered[p] = {} \/ t.pipes[p] = Free \/ Outlives(t.pipes[p], pipes[p]),
         answered' = Remembered(answered), UNCHANGED <<doing, frames>>,
         fds' \in [Fds -> {"none", "file", "pipe"}],
         \A f \in Fds : fds'[f] = "pipe" <=> HasEnd(t.ends, f)
  PROVE  IInv'
<1>1. ends' = t.ends /\ pipes' = t.pipes /\ Lists' = [ends |-> t.ends, pipes |-> t.pipes]
  BY DEF SetLists, Lists
<1>2. Good(Lists)' /\ Agrees(ends)'
  <2>1. Lists'.ends = t.ends /\ Lists'.pipes = t.pipes
    BY <1>1
  <2> QED  BY <1>1, <2>1 DEF Good, Counted, Agrees
<1>3. /\ answered' \in [Pipes -> SUBSET {"EOF", "EPIPE"}]
      /\ \A p \in Pipes : answered'[p] = IF pipes'[p] = Free THEN {} ELSE answered[p]
  BY DEF IInv, Remembered
<1>4. FarEndFinal'
  <2>1. ASSUME NEW p \in Pipes
        PROVE  /\ "EOF" \in answered'[p] => pipes'[p].writers = 0 /\ pipes'[p].size = 0
               /\ "EPIPE" \in answered'[p] => pipes'[p].readers = 0
    <3>1. CASE answered[p] = {} \/ pipes'[p] = Free
      BY <1>3, <3>1
    <3>2. CASE answered[p] # {} /\ pipes'[p] # Free
      <4>1. Outlives(pipes'[p], pipes[p]) /\ answered'[p] = answered[p]
        BY <1>1, <1>3, <3>2
      <4> QED  BY <4>1 DEF IInv, FarEndFinal, Outlives, SameRing
    <3> QED  BY <3>1, <3>2
  <2> QED  BY <2>1 DEF FarEndFinal
<1>5. NoMissedWake' /\ doing' = doing /\ frames' = frames
  BY DEF NoMissedWake, Runs
<1> QED  BY <1>2, <1>3, <1>4, <1>5 DEF IInv

LEMMA Pipe2Keeps == ASSUME IInv, NEW nonblock \in BOOLEAN, Pipe2(nonblock) PROVE IInv'
<1> DEFINE q == [Free EXCEPT !.readflags = nonblock, !.writeflags = nonblock]
<1>1. PICK p \in Pipes, r, w \in Fds :
        /\ Runs /\ ~Live(p) /\ fds[r] = "none" /\ fds[w] = "none" /\ w # r
        /\ LET made == Added(Added([ends |-> ends, pipes |-> [pipes EXCEPT ![p] = q]],
                                   r, FALSE, p), w, TRUE, p)
           IN IF r >= Limit \/ w >= Limit
              THEN SetLists(Forgotten(Forgotten(made, r), w)) /\ UNCHANGED fds
              ELSE SetLists(made) /\ fds' = [fds EXCEPT ![r] = "pipe", ![w] = "pipe"]
  BY DEF Pipe2, LowestFree
<1> DEFINE fresh == [ends |-> ends, pipes |-> [pipes EXCEPT ![p] = q]]
           made == Added(Added(fresh, r, FALSE, p), w, TRUE, p)
           t == IF r >= Limit \/ w >= Limit THEN Forgotten(Forgotten(made, r), w) ELSE made
<1>2. /\ answered' = Remembered(answered) /\ UNCHANGED <<doing, frames>>
      /\ SetLists(t)
      /\ IF r >= Limit \/ w >= Limit THEN UNCHANGED fds
         ELSE fds' = [fds EXCEPT ![r] = "pipe", ![w] = "pipe"]
  BY <1>1 DEF Pipe2
<1>3. /\ Good(Lists) /\ Lists.ends = ends /\ Lists.pipes = pipes
      /\ fds \in [Fds -> {"none", "file", "pipe"}]
      /\ \A f \in Fds : fds[f] = "pipe" <=> HasEnd(ends, f)
  BY DEF IInv, Lists, Agrees
<1>4. pipes[p].readers = 0 /\ pipes[p].writers = 0 /\ pipes[p] = Free
  <2>1. pipes[p].readers \in Nat /\ pipes[p].writers \in Nat
    BY <1>3 DEF Good, Counted, PipeStates
  <2> QED  BY <1>1, <1>3, <2>1 DEF Live, Good
<1>5. ~HasEnd(ends, r) /\ ~HasEnd(ends, w)
  BY <1>1, <1>3
<1>6. /\ Good(made)
      /\ \A f \in Fds : HasEnd(made.ends, f) <=> f = r \/ f = w \/ HasEnd(ends, f)
      /\ \A o \in Pipes : o # p => made.pipes[o] = pipes[o]
  <2>1. q \in PipeStates /\ q.readers = 0 /\ q.writers = 0 /\ q.size = 0
    BY FreeTyped DEF PipeStates
  <2> HIDE DEF q
  <2>2. pipes \in [Pipes -> PipeStates]
    BY <1>3 DEF Good, Counted
  <2>3. /\ fresh.ends = ends /\ fresh.pipes \in [Pipes -> PipeStates] /\ fresh.pipes[p] = q
        /\ \A o \in Pipes : o # p => fresh.pipes[o] = pipes[o]
    BY <2>1, <2>2
  <2> HIDE DEF fresh
  <2>4. PICK a, b \in BOOLEAN : a = FALSE /\ b = TRUE
    OBVIOUS
  <2>6. PICK half : half = Added(fresh, r, a, p) /\ made = Added(half, w, b, p)
    BY <2>4, Zenon
  <2> HIDE DEF made
  <2>5. PICK s : s = Lists
    OBVIOUS
  <2>7. /\ fresh.ends = s.ends /\ fresh.pipes \in [Pipes -> PipeStates]
        /\ \A o \in Pipes : o # p => fresh.pipes[o] = s.pipes[o]
        /\ fresh.pipes[p].readers = 0 /\ fresh.pipes[p].writers = 0 /\ fresh.pipes[p].size = 0
        /\ s.pipes[p].readers = 0 /\ s.pipes[p].writers = 0 /\ Good(s) /\ r # w
        /\ ~HasEnd(s.ends, r) /\ ~HasEnd(s.ends, w)
    BY <1>1, <1>3, <1>4, <1>5, <2>1, <2>3, <2>5
  <2>8. /\ Good(made)
        /\ \A f \in Fds : HasEnd(made.ends, f) <=> f = r \/ f = w \/ HasEnd(s.ends, f)
        /\ \A o \in Pipes : o # p => made.pipes[o] = s.pipes[o]
    BY <2>6, <2>7, MadeGood
  <2> QED  BY <1>3, <2>5, <2>8
<1> HIDE DEF made
<1>7. answered[p] = {}
  BY <1>4 DEF IInv
<1>8. CASE ~(r >= Limit \/ w >= Limit)
  <2>1. t = made /\ fds' = [fds EXCEPT ![r] = "pipe", ![w] = "pipe"]
    BY <1>2, <1>8
  <2>2. /\ fds' \in [Fds -> {"none", "file", "pipe"}]
        /\ \A f \in Fds : fds'[f] = "pipe" <=> HasEnd(t.ends, f)
    BY <1>1, <1>3, <1>6, <2>1
  <2>3. \A o \in Pipes : answered[o] = {} \/ t.pipes[o] = Free \/ Outlives(t.pipes[o], pipes[o])
    BY <1>6, <1>7, <2>1 DEF Outlives, SameRing
  <2> HIDE DEF t
  <2> QED  BY <1>1, <1>2, <1>6, <2>1, <2>2, <2>3, ListKeeps
<1>9. CASE r >= Limit \/ w >= Limit
  <2>1. PICK half : half = Forgotten(made, r)
    OBVIOUS
  <2>2. t = Forgotten(half, w) /\ fds' = fds
    BY <1>2, <1>9, <2>1
  <2> HIDE DEF t
  <2>3. /\ Good(half) /\ Evolves(made, half)
        /\ \A f \in Fds : HasEnd(half.ends, f) <=> f # r /\ HasEnd(made.ends, f)
    BY <1>1, <1>6, <2>1, ForgottenGood
  <2>4. /\ Good(t) /\ Evolves(half, t)
        /\ \A f \in Fds : HasEnd(t.ends, f) <=> f # w /\ HasEnd(half.ends, f)
    BY <1>1, <2>2, <2>3, ForgottenGood
  <2>5. \A f \in Fds : fds'[f] = "pipe" <=> HasEnd(t.ends, f)
    BY <1>3, <1>5, <1>6, <2>2, <2>3, <2>4
  <2>6. \A o \in Pipes : answered[o] = {} \/ t.pipes[o] = Free \/ Outlives(t.pipes[o], pipes[o])
    <3>1. ASSUME NEW o \in Pipes, o # p, t.pipes[o] # Free
          PROVE  Outlives(t.pipes[o], pipes[o])
      <4>1. Outlives(t.pipes[o], half.pipes[o]) /\ made.pipes[o] = pipes[o]
        BY <1>6, <2>4, <3>1 DEF Evolves
      <4>2. CASE half.pipes[o] = Free
        <5>1. t.pipes[o].readers = 0 /\ t.pipes[o].writers = 0
          BY <4>1, <4>2, FreeTyped DEF Outlives
        <5> QED  BY <2>4, <3>1, <5>1 DEF Good
      <4>3. CASE half.pipes[o] # Free
        BY <2>3, <4>1, <4>3 DEF Evolves, Outlives, SameRing
      <4> QED  BY <4>2, <4>3
    <3> QED  BY <1>7, <3>1
  <2> QED  BY <1>1, <1>2, <1>3, <2>2, <2>4, <2>5, <2>6, ListKeeps
<1> QED  BY <1>8, <1>9
LEMMA DupKeeps == ASSUME IInv, NEW old \in Fds, Dup(old) PROVE IInv'
<1>1. PICK new \in Fds :
        /\ Runs /\ fds[old] # "none" /\ fds[new] = "none"
        /\ SetLists(Duplicated(Lists, old, new))
        /\ fds' = [fds EXCEPT ![new] = fds[old]]
        /\ UNCHANGED <<doing, frames, answered>>
  BY DEF Dup, LowestFree
<1>2. PICK t, s : t = Duplicated(Lists, old, new) /\ s = Lists
  OBVIOUS
<1>3. /\ Good(s) /\ s.ends = ends /\ s.pipes = pipes
      /\ fds \in [Fds -> {"none", "file", "pipe"}]
      /\ \A f \in Fds : fds[f] = "pipe" <=> HasEnd(ends, f)
  BY <1>2 DEF IInv, Lists, Agrees
<1>4. ~HasEnd(s.ends, new) /\ t = Duplicated(s, old, new)
  BY <1>1, <1>2, <1>3
<1>5. Good(t) /\ Evolves(s, t) /\ Copied(s, t, old, new)
  BY <1>3, <1>4, DuplicatedGood
<1>6. /\ fds' \in [Fds -> {"none", "file", "pipe"}]
      /\ \A f \in Fds : fds'[f] = "pipe" <=> HasEnd(t.ends, f)
  BY <1>1, <1>3, <1>5 DEF Copied
<1>7. \A p \in Pipes : answered[p] = {} \/ t.pipes[p] = Free \/ Outlives(t.pipes[p], pipes[p])
  BY <1>3, <1>5 DEF Evolves
<1>8. SetLists(t)
  BY <1>1, <1>2
<1>9. answered' = Remembered(answered)
  <2>1. \A p \in Pipes : pipes'[p] = Free => answered[p] = {}
    BY <1>3, <1>5, <1>8 DEF SetLists, IInv, Copied
  <2>2. answered \in [Pipes -> SUBSET {"EOF", "EPIPE"}] /\ answered' = answered
    BY <1>1 DEF IInv
  <2> QED  BY <2>1, <2>2 DEF Remembered
<1>10. Runs /\ UNCHANGED <<doing, frames>>
  BY <1>1
<1> QED  BY <1>5, <1>6, <1>7, <1>8, <1>9, <1>10, ListKeeps

LEMMA CloseKeeps == ASSUME IInv, NEW fd \in Fds, Close(fd) PROVE IInv'
<1>1. /\ Runs /\ fds[fd] # "none" /\ fds' = [fds EXCEPT ![fd] = "none"]
      /\ SetLists(IF fds[fd] = "pipe" THEN Forgotten(Lists, fd) ELSE Lists)
      /\ answered' = Remembered(answered) /\ UNCHANGED <<doing, frames>>
  BY DEF Close
<1>2. PICK t, s : t = Forgotten(Lists, fd) /\ s = Lists
  OBVIOUS
<1>3. /\ Good(s) /\ s.ends = ends /\ s.pipes = pipes
      /\ fds \in [Fds -> {"none", "file", "pipe"}]
      /\ \A f \in Fds : fds[f] = "pipe" <=> HasEnd(ends, f)
  BY <1>2 DEF IInv, Lists, Agrees
<1>4. SetLists(t)
  BY <1>1, <1>2, <1>3 DEF Forgotten
<1>5. /\ Good(t) /\ Evolves(s, t)
      /\ \A f \in Fds : HasEnd(t.ends, f) <=> f # fd /\ HasEnd(s.ends, f)
  BY <1>2, <1>3, ForgottenGood
<1>6. /\ fds' \in [Fds -> {"none", "file", "pipe"}]
      /\ \A f \in Fds : fds'[f] = "pipe" <=> HasEnd(t.ends, f)
  BY <1>1, <1>3, <1>5
<1>7. \A p \in Pipes : answered[p] = {} \/ t.pipes[p] = Free \/ Outlives(t.pipes[p], pipes[p])
  BY <1>3, <1>5 DEF Evolves
<1> QED  BY <1>1, <1>4, <1>5, <1>6, <1>7, ListKeeps

LEMMA Dup2Keeps == ASSUME IInv, NEW old \in Fds, NEW new \in Fds, Dup2(old, new) PROVE IInv'
<1> DEFINE dropped == IF fds[new] = "none" THEN Lists ELSE Forgotten(Lists, new)
<1>1. /\ Runs /\ old # new /\ fds[old] # "none" /\ fds' = [fds EXCEPT ![new] = fds[old]]
      /\ SetLists(IF fds[old] = "pipe" THEN Duplicated(dropped, old, new) ELSE dropped)
      /\ answered' = Remembered(answered) /\ UNCHANGED <<doing, frames>>
  BY DEF Dup2
<1>2. PICK t, s, u : t = Forgotten(Lists, new) /\ s = Lists /\ u = Duplicated(t, old, new)
  OBVIOUS
<1>3. /\ Good(s) /\ s.ends = ends /\ s.pipes = pipes
      /\ fds \in [Fds -> {"none", "file", "pipe"}]
      /\ \A f \in Fds : fds[f] = "pipe" <=> HasEnd(ends, f)
  BY <1>2 DEF IInv, Lists, Agrees
<1>4. dropped = t
  BY <1>2, <1>3 DEF Forgotten
<1>5. /\ Good(t) /\ Evolves(s, t)
      /\ \A f \in Fds : HasEnd(t.ends, f) <=> f # new /\ HasEnd(s.ends, f)
  BY <1>2, <1>3, ForgottenGood
<1> HIDE DEF dropped
<1>6. ~HasEnd(t.ends, new) /\ (HasEnd(t.ends, old) <=> fds[old] = "pipe")
  BY <1>1, <1>3, <1>5
<1>7. SetLists(u)
  BY <1>1, <1>2, <1>4, <1>6 DEF Duplicated
<1>8. Good(u) /\ Evolves(t, u) /\ Copied(t, u, old, new)
  BY <1>2, <1>5, <1>6, DuplicatedGood
<1>9. /\ fds' \in [Fds -> {"none", "file", "pipe"}]
      /\ \A f \in Fds : fds'[f] = "pipe" <=> HasEnd(u.ends, f)
  BY <1>1, <1>3, <1>5, <1>6, <1>8 DEF Copied
<1>10. ASSUME NEW p \in Pipes, u.pipes[p] # Free PROVE Outlives(u.pipes[p], pipes[p])
  <2>1. Outlives(u.pipes[p], t.pipes[p])
    BY <1>8, <1>10 DEF Evolves
  <2>2. CASE t.pipes[p] = Free
    <3>1. u.pipes[p].readers = 0 /\ u.pipes[p].writers = 0
      BY <2>1, <2>2, FreeTyped DEF Outlives
    <3> QED  BY <1>8, <1>10, <3>1 DEF Good
  <2>3. CASE t.pipes[p] # Free
    BY <1>3, <1>5, <2>1, <2>3 DEF Evolves, Outlives, SameRing
  <2> QED  BY <2>2, <2>3
<1> QED  BY <1>1, <1>7, <1>8, <1>9, <1>10, ListKeeps

\* What the end of a descriptor is.
LEMMA EndTyped ==
  ASSUME IInv, NEW f \in Fds, HasEnd(ends, f)
  PROVE  /\ ends[f] \in Ends /\ ends[f].pipe \in Pipes /\ pipes[ends[f].pipe] \in PipeStates
         /\ pipes \in [Pipes -> PipeStates]
         /\ ends[f].write => pipes[ends[f].pipe].writers > 0
         /\ ~ends[f].write => pipes[ends[f].pipe].readers > 0
<1>1. PICK s : s = Lists
  OBVIOUS
<1>2. Counted(s) /\ s.ends = ends /\ s.pipes = pipes
  BY <1>1 DEF IInv, Good, Lists
<1>3. /\ ends[f].pipe \in Pipes
      /\ ends[f].write => pipes[ends[f].pipe].writers > 0
      /\ ~ends[f].write => pipes[ends[f].pipe].readers > 0
  <2>1. PICK p : p = s.ends[f].pipe
    OBVIOUS
  <2> QED  BY <1>2, <2>1, HolderCounted
<1> QED  BY <1>2, <1>3 DEF Counted

\* One pipe that is in use changes, with the same holders and a ring in order.
LEMMA PipeChanges ==
  ASSUME IInv, NEW p \in Pipes, NEW q \in PipeStates, pipes[p].readers > 0 \/ pipes[p].writers > 0,
         q.readers = pipes[p].readers, q.writers = pipes[p].writers, InOrder(q),
         pipes' = [pipes EXCEPT ![p] = q], UNCHANGED <<fds, ends>>
  PROVE  /\ Good(Lists)' /\ Agrees(ends)'
         /\ fds' \in [Fds -> {"none", "file", "pipe"}] /\ pipes'[p] = q
         /\ \A o \in Pipes : o # p => pipes'[o] = pipes[o]
         /\ q # Free /\ pipes[p] # Free
<1>1. /\ Good(Lists) /\ Lists.ends = ends /\ Lists.pipes = pipes
      /\ Lists'.ends = ends' /\ Lists'.pipes = pipes'
  BY DEF IInv, Lists
<1>2. pipes \in [Pipes -> PipeStates]
  BY <1>1 DEF Good, Counted
<1>3. /\ pipes' \in [Pipes -> PipeStates] /\ pipes'[p] = q
      /\ \A o \in Pipes : o # p => pipes'[o] = pipes[o]
  BY <1>2
<1>4. /\ \A o \in Pipes : /\ pipes'[o].readers = pipes[o].readers
                          /\ pipes'[o].writers = pipes[o].writers
      /\ \A o \in Pipes : InOrder(pipes'[o])
      /\ ~(q.readers = 0 /\ q.writers = 0)
  BY <1>1, <1>3 DEF Good
<1>5. \A o \in Pipes : pipes'[o].readers = 0 /\ pipes'[o].writers = 0 => pipes'[o] = Free
  BY <1>1, <1>3, <1>4 DEF Good
<1>6. Good(Lists)'
  BY <1>1, <1>3, <1>4, <1>5 DEF Good, Counted
<1>7. q # Free /\ pipes[p] # Free
  BY <1>4, FreeTyped
<1> QED  BY <1>3, <1>6, <1>7 DEF IInv, Agrees
LEMMA SetFlagsKeeps == ASSUME IInv, NEW f \in Fds, NEW b \in BOOLEAN, SetFlags(f, b) PROVE IInv'
<1>1. PICK p, q : /\ p = ends[f].pipe
                  /\ q = IF ends[f].write THEN [pipes[p] EXCEPT !.writeflags = b]
                         ELSE [pipes[p] EXCEPT !.readflags = b]
  OBVIOUS
<1>2. /\ HasEnd(ends, f) /\ Runs /\ pipes' = [pipes EXCEPT ![p] = q]
      /\ UNCHANGED <<fds, ends, doing, frames, answered>>
  BY <1>1 DEF SetFlags, EndOf
<1>3. /\ ends[f] \in Ends /\ p \in Pipes /\ pipes[p] \in PipeStates
      /\ ends[f].write => pipes[p].writers > 0
      /\ ~ends[f].write => pipes[p].readers > 0
  BY <1>1, <1>2, EndTyped
<1>4. /\ q \in PipeStates /\ q.readers = pipes[p].readers /\ q.writers = pipes[p].writers
      /\ q.size = pipes[p].size /\ q.head = pipes[p].head /\ q.bytes = pipes[p].bytes
      /\ q.written = pipes[p].written
  <2>1. CASE ends[f].write
    BY <1>1, <1>3, <2>1 DEF PipeStates
  <2>2. CASE ~ends[f].write
    BY <1>1, <1>3, <2>2 DEF PipeStates
  <2> QED  BY <2>1, <2>2
<1>5. InOrder(q)
  <2>1. InOrder(pipes[p])
    BY <1>3 DEF IInv, Good, Lists
  <2> QED  BY <1>4, <2>1 DEF InOrder
<1>6. /\ Good(Lists)' /\ Agrees(ends)'
      /\ fds' \in [Fds -> {"none", "file", "pipe"}] /\ pipes'[p] = q
      /\ \A o \in Pipes : o # p => pipes'[o] = pipes[o]
      /\ q # Free /\ pipes[p] # Free
  BY <1>2, <1>3, <1>4, <1>5, PipeChanges
<1>7. /\ \A o \in Pipes : pipes'[o] = Free => answered'[o] = {}
      /\ \A o \in Pipes : /\ pipes'[o].readers = pipes[o].readers
                          /\ pipes'[o].writers = pipes[o].writers
                          /\ pipes'[o].size = pipes[o].size
      /\ answered' = answered /\ doing' = doing /\ frames' = frames
  BY <1>2, <1>4, <1>6 DEF IInv
<1>8. FarEndFinal' /\ NoMissedWake'
  BY <1>2, <1>7 DEF IInv, FarEndFinal, NoMissedWake, Runs
<1> QED  BY <1>6, <1>7, <1>8 DEF IInv

\* A running process is in no call.
LEMMA RunningTyped == Running \in States /\ Running.state = "run" /\ Running \in Frames
<1>1. [op |-> "poll", fd |-> 0, n |-> 0] \in Call
  BY PipeAssumption DEF Call
<1> QED  BY <1>1 DEF Running, States, Frames

\* A call ends that moved the bytes of the pipe p of descriptor f, whose ring is then q's, and
\* learnt `what` of p's far end, as it is.
Moved(f, p, q, what) ==
  /\ f \in Fds /\ HasEnd(ends, f) /\ p = ends[f].pipe
  /\ q \in PipeStates /\ InOrder(q)
  /\ q.readers = pipes[p].readers /\ q.writers = pipes[p].writers
  /\ pipes' = [pipes EXCEPT ![p] = q] /\ doing' = Running /\ UNCHANGED <<fds, ends, frames>>
  /\ what \subseteq {"EOF", "EPIPE"}
  /\ answered' = [answered EXCEPT ![p] = answered[p] \cup what]
  /\ "EOF" \in answered[p] \cup what => q.writers = 0 /\ q.size = 0
  /\ "EPIPE" \in answered[p] \cup what => q.readers = 0

LEMMA MoveKeeps ==
  ASSUME IInv, NEW f, NEW p, NEW q, NEW what, Moved(f, p, q, what)
  PROVE  IInv'
<1> USE DEF Moved
<1>1. /\ p \in Pipes /\ ends[f] \in Ends
      /\ ends[f].write => pipes[p].writers > 0
      /\ ~ends[f].write => pipes[p].readers > 0
  BY EndTyped
<1>2. /\ Good(Lists)' /\ Agrees(ends)'
      /\ fds' \in [Fds -> {"none", "file", "pipe"}] /\ pipes'[p] = q
      /\ \A o \in Pipes : o # p => pipes'[o] = pipes[o]
      /\ q # Free /\ pipes[p] # Free
  BY <1>1, PipeChanges
<1>3. /\ answered' \in [Pipes -> SUBSET {"EOF", "EPIPE"}]
      /\ answered'[p] = answered[p] \cup what
      /\ \A o \in Pipes : o # p => answered'[o] = answered[o]
  BY <1>1 DEF IInv
<1>4. \A o \in Pipes : pipes'[o] = Free => answered'[o] = {}
  BY <1>2, <1>3 DEF IInv
<1>5. FarEndFinal'
  <2>1. ASSUME NEW o \in Pipes
        PROVE  /\ "EOF" \in answered'[o] => pipes'[o].writers = 0 /\ pipes'[o].size = 0
               /\ "EPIPE" \in answered'[o] => pipes'[o].readers = 0
    <3>1. CASE o = p
      BY <1>2, <1>3, <3>1
    <3>2. CASE o # p
      BY <1>2, <1>3, <3>2 DEF IInv, FarEndFinal
    <3> QED  BY <3>1, <3>2
  <2> QED  BY <2>1 DEF FarEndFinal
<1>6. doing' \in States /\ frames' = frames /\ NoMissedWake'
  BY RunningTyped DEF NoMissedWake
<1> QED  BY <1>2, <1>3, <1>4, <1>5, <1>6 DEF IInv

LEMMA ReadKeeps == ASSUME IInv, Read PROVE IInv'
<1> DEFINE f == doing.call.fd
           p == ends[f].pipe
           m == Smaller(doing.call.n, pipes[p].size)
<1>1. f = doing.call.fd /\ p = ends[f].pipe /\ m = Smaller(doing.call.n, pipes[p].size)
  OBVIOUS
<1>2. /\ doing.call.op = "read" /\ HasEnd(ends, f) /\ doing.call.n > 0
      /\ pipes' = [pipes EXCEPT ![p] = Taken(pipes[p], m)]
      /\ IF m = 0 /\ pipes[p].writers = 0
         THEN answered' = [answered EXCEPT ![p] = answered[p] \cup {"EOF"}]
         ELSE UNCHANGED answered
      /\ doing' = Running /\ UNCHANGED <<fds, ends, frames>>
  BY DEF Read, EndOf, Fits, Learn
<1> HIDE DEF f, p, m
<1>3. f \in Fds /\ doing.call.n \in Nat
  BY <1>1, PipeAssumption DEF IInv, States, Call
<1>4. p \in Pipes /\ pipes[p] \in PipeStates
  <2>1. HasEnd(ends, f) /\ f \in Fds
    BY <1>2, <1>3
  <2> QED  BY <1>1, <2>1, EndTyped
<1>5. /\ m \in 0 .. pipes[p].size /\ (m = 0 => pipes[p].size = 0)
  BY <1>1, <1>2, <1>3, <1>4 DEF Smaller, PipeStates
<1>6. PICK q, old : q = Taken(old, m) /\ old = pipes[p]
  OBVIOUS
<1>7. InOrder(old)
  BY <1>4, <1>6 DEF IInv, Good, Lists
<1>8. /\ q \in PipeStates /\ InOrder(q) /\ q.size = old.size - m
      /\ q.readers = old.readers /\ q.writers = old.writers
  BY <1>4, <1>5, <1>6, <1>7, TakenProperties
<1>9. PICK what : /\ what \subseteq {"EOF", "EPIPE"}
                  /\ answered' = [answered EXCEPT ![p] = answered[p] \cup what]
                  /\ "EOF" \in what => old.writers = 0 /\ m = 0
                  /\ "EPIPE" \notin what
  <2>1. CASE m = 0 /\ pipes[p].writers = 0
    BY <1>2, <1>6, <2>1
  <2>2. CASE ~(m = 0 /\ pipes[p].writers = 0)
    <3>1. PICK none \in SUBSET {"EOF"} : none = {}
      OBVIOUS
    <3>2. answered' = [answered EXCEPT ![p] = answered[p] \cup none]
      BY <1>2, <1>4, <2>2, <3>1 DEF IInv
    <3>3. /\ none \subseteq {"EOF", "EPIPE"} /\ "EOF" \notin none /\ "EPIPE" \notin none
      BY <3>1
    <3> QED  BY <3>2, <3>3, Zenon
  <2> QED  BY <2>1, <2>2
<1>10. /\ "EOF" \in answered[p] => old.writers = 0 /\ old.size = 0
       /\ "EPIPE" \in answered[p] => old.readers = 0
  BY <1>4, <1>6 DEF IInv, FarEndFinal
<1>11. old.size \in Nat
  BY <1>4, <1>6 DEF PipeStates
<1>12. /\ "EOF" \in answered[p] \cup what => q.writers = 0 /\ q.size = 0
       /\ "EPIPE" \in answered[p] \cup what => q.readers = 0
  BY <1>5, <1>6, <1>8, <1>9, <1>10, <1>11
<1>13. pipes' = [pipes EXCEPT ![p] = q] /\ q.readers = pipes[p].readers /\ q.writers = pipes[p].writers
  BY <1>2, <1>6, <1>8
<1>14. UNCHANGED <<fds, ends, frames>> /\ doing' = Running /\ HasEnd(ends, f) /\ p = ends[f].pipe
  BY <1>1, <1>2
<1>15. Moved(f, p, q, what)
  BY <1>3, <1>8, <1>9, <1>12, <1>13, <1>14 DEF Moved
<1> QED  BY <1>15, MoveKeeps

LEMMA WriteKeeps == ASSUME IInv, Write PROVE IInv'
<1>1. PICK f, p, m : /\ f = doing.call.fd /\ p = ends[f].pipe
                     /\ m = Accepted(p, doing.call.op, doing.call.n)
  OBVIOUS
<1>2. /\ doing.call.op \in {"write", "sendfile"} /\ HasEnd(ends, f) /\ ends[f].write
      /\ pipes' = [pipes EXCEPT ![p] = Put(pipes[p], m)]
      /\ IF pipes[p].readers = 0 /\ doing.call.n > 0 /\ (doing.call.op = "write" \/ Space(p) > 0)
         THEN answered' = [answered EXCEPT ![p] = answered[p] \cup {"EPIPE"}]
         ELSE UNCHANGED answered
      /\ doing' = Running /\ UNCHANGED <<fds, ends, frames>>
  BY <1>1 DEF Write, EndOf, Fits, Learn
<1>3. f \in Fds /\ doing.call.n \in Nat
  BY <1>1, PipeAssumption DEF IInv, States, Call
<1>4. p \in Pipes /\ pipes[p] \in PipeStates /\ pipes[p].writers > 0
  BY <1>1, <1>2, <1>3, EndTyped
<1>5. m \in 0 .. Capacity - pipes[p].size
  <2>1. /\ pipes[p].size \in 0 .. Capacity /\ Capacity \in Nat
        /\ Space(p) = Capacity - pipes[p].size
    BY <1>4, PipeAssumption DEF PipeStates, Space
  <2>2. m = 0 \/ m = Smaller(doing.call.n, Space(p))
    BY <1>1 DEF Accepted
  <2> QED  BY <1>3, <2>1, <2>2 DEF Smaller
<1>6. PICK q, old : q = Put(old, m) /\ old = pipes[p]
  OBVIOUS
<1>7. InOrder(old)
  BY <1>4, <1>6 DEF IInv, Good, Lists
<1>8. /\ q \in PipeStates /\ InOrder(q)
      /\ q.readers = old.readers /\ q.writers = old.writers
  BY <1>4, <1>5, <1>6, <1>7, PutProperties
<1>9. PICK what : /\ what \subseteq {"EOF", "EPIPE"}
                  /\ answered' = [answered EXCEPT ![p] = answered[p] \cup what]
                  /\ "EPIPE" \in what => old.readers = 0
                  /\ "EOF" \notin what
  <2>1. CASE pipes[p].readers = 0 /\ doing.call.n > 0 /\ (doing.call.op = "write" \/ Space(p) > 0)
    BY <1>2, <1>6, <2>1
  <2>2. CASE ~(pipes[p].readers = 0 /\ doing.call.n > 0 /\ (doing.call.op = "write" \/ Space(p) > 0))
    <3>1. PICK none \in SUBSET {"EOF"} : none = {}
      OBVIOUS
    <3>2. answered' = [answered EXCEPT ![p] = answered[p] \cup none]
      BY <1>2, <1>4, <2>2, <3>1 DEF IInv
    <3>3. /\ none \subseteq {"EOF", "EPIPE"} /\ "EOF" \notin none /\ "EPIPE" \notin none
      BY <3>1
    <3> QED  BY <3>2, <3>3, Zenon
  <2> QED  BY <2>1, <2>2
<1>10. /\ "EOF" \in answered[p] => old.writers = 0
       /\ "EPIPE" \in answered[p] => old.readers = 0
  BY <1>4, <1>6 DEF IInv, FarEndFinal
<1>11. /\ "EOF" \in answered[p] \cup what => q.writers = 0 /\ q.size = 0
       /\ "EPIPE" \in answered[p] \cup what => q.readers = 0
  BY <1>4, <1>6, <1>8, <1>9, <1>10
<1>12. pipes' = [pipes EXCEPT ![p] = q] /\ q.readers = pipes[p].readers /\ q.writers = pipes[p].writers
  BY <1>2, <1>6, <1>8
<1>13. UNCHANGED <<fds, ends, frames>> /\ doing' = Running /\ HasEnd(ends, f) /\ p = ends[f].pipe
  BY <1>1, <1>2
<1>14. Moved(f, p, q, what)
  BY <1>3, <1>8, <1>9, <1>11, <1>12, <1>13 DEF Moved
<1> QED  BY <1>14, MoveKeeps
\* A step that only changes what the process does, and its frames, keeps the rest.
LEMMA DoingKeeps ==
  ASSUME IInv, UNCHANGED <<fds, ends, pipes, answered>>, doing' \in States,
         frames' \in Seq(Frames), Len(frames') <= MaxFrames, NoMissedWake'
  PROVE  IInv'
<1>1. Lists' = Lists /\ fds' = fds /\ ends' = ends /\ pipes' = pipes /\ answered' = answered
  BY DEF Lists
<1> QED  BY <1>1 DEF IInv, Good, Agrees, FarEndFinal

\* What a call waits for does not depend on whether it waits.
LEMMA WaitsKept ==
  ASSUME UNCHANGED <<ends, pipes>>, NEW c
  PROVE  Waits(c)' <=> Waits(c)
BY DEF Waits, Fits, Blocks, Nonblocking, Revents, PipeOf, EndOf

LEMMA CallKeeps ==
  ASSUME IInv, (\E c \in Call : Enter(c)) \/ Halt \/ Answer \/ Cancel
  PROVE  IInv'
<1>1. /\ UNCHANGED <<fds, ends, pipes, answered, frames>>
      /\ doing \in States /\ frames \in Seq(Frames) /\ Len(frames) <= MaxFrames
  BY DEF Enter, Halt, Answer, Cancel, IInv
<1>2. CASE \E c \in Call : Enter(c)
  <2>1. doing' \in States /\ doing'.state = "call"
    BY <1>2 DEF Enter, In, States
  <2> QED  BY <1>1, <2>1, DoingKeeps DEF NoMissedWake
<1>3. CASE Halt
  <2>1. doing' = Waiting(doing.call) /\ Waits(doing.call) /\ doing.call \in Call
    BY <1>1, <1>3 DEF Halt, States
  <2>2. doing' \in States /\ doing'.call = doing.call
    BY <2>1 DEF Waiting, States
  <2>3. PICK c : c = doing.call
    OBVIOUS
  <2>4. Waits(c)'
    BY <1>1, <2>1, <2>3, WaitsKept
  <2>5. NoMissedWake'
    BY <2>2, <2>3, <2>4 DEF NoMissedWake
  <2> QED  BY <1>1, <2>2, <2>5, DoingKeeps
<1>4. CASE Answer \/ Cancel
  <2>1. doing' \in States /\ NoMissedWake'
    BY <1>4, RunningTyped DEF Answer, Cancel, NoMissedWake
  <2> QED  BY <1>1, <2>1, DoingKeeps
<1> QED  BY <1>2, <1>3, <1>4

LEMMA SignalKeeps == ASSUME IInv, (\E b \in BOOLEAN : Handler(b)) \/ Return PROVE IInv'
<1>1. /\ UNCHANGED <<fds, ends, pipes, answered>>
      /\ doing \in States /\ frames \in Seq(Frames) /\ Len(frames) <= MaxFrames /\ MaxFrames \in Nat
  BY PipeAssumption DEF Handler, Return, IInv
<1>2. ASSUME NEW b \in BOOLEAN, Handler(b) PROVE IInv'
  <2> DEFINE frame == IF Restarts(b) THEN In(doing.call) ELSE Running
  <2>1. frames' = Append(frames, frame) /\ doing' = Running /\ Len(frames) < MaxFrames
    BY <1>2 DEF Handler
  <2>2. frame \in Frames
    <3>1. doing.call \in Call
      BY <1>1 DEF States
    <3>2. In(doing.call) \in Frames
      BY <3>1 DEF In, Frames
    <3> QED  BY <3>2, RunningTyped
  <2> HIDE DEF frame
  <2>3. frames' \in Seq(Frames) /\ Len(frames') <= MaxFrames
    BY <1>1, <2>1, <2>2
  <2>4. doing' \in States /\ NoMissedWake'
    BY <2>1, RunningTyped DEF NoMissedWake
  <2> QED  BY <1>1, <2>3, <2>4, DoingKeeps
<1>3. CASE Return
  <2>1. /\ frames # <<>> /\ doing' = frames[Len(frames)]
        /\ frames' = SubSeq(frames, 1, Len(frames) - 1)
    BY <1>3 DEF Return
  <2>2. Len(frames) \in Nat /\ Len(frames) > 0
    BY <1>1, <2>1
  <2>3. doing' \in Frames
    BY <1>1, <2>1, <2>2
  <2>4. frames' \in Seq(Frames) /\ Len(frames') <= MaxFrames
    BY <1>1, <2>1, <2>2
  <2>5. doing' \in States /\ NoMissedWake'
    BY <2>3 DEF Frames, States, NoMissedWake
  <2> QED  BY <1>1, <2>4, <2>5, DoingKeeps
<1> QED  BY <1>2, <1>3
-----------------------------------------------------------------------------
(* The theorems. *)

LEMMA InitInvariant == Init => IInv
<1> SUFFICES ASSUME Init PROVE IInv
  OBVIOUS
<1>1. NoEnd \in Ends /\ NoEnd.pipe = "none"
  BY DEF NoEnd, Ends
<1>2. PICK s : s = Lists
  OBVIOUS
<1>3. /\ s.ends \in [Fds -> Ends] /\ s.pipes \in [Pipes -> PipeStates]
      /\ \A f \in Fds : s.ends[f] = NoEnd /\ ~HasEnd(s.ends, f)
      /\ \A p \in Pipes : s.pipes[p] = Free
  BY <1>1, <1>2, FreeTyped DEF Init, Lists, HasEnd
<1>4. ASSUME NEW p \in Pipes
      PROVE  /\ s.pipes[p].readers = Cardinality(Readers(s.ends, p))
             /\ s.pipes[p].writers = Cardinality(Writers(s.ends, p))
  <2>1. NoEnd.pipe # p
    BY <1>1, PipeAssumption
  <2>2. Readers(s.ends, p) = {} /\ Writers(s.ends, p) = {}
    BY <1>3, <2>1, Holders
  <2> QED  BY <1>3, <2>2, FreeTyped, FS_EmptySet
<1>5. Good(s)
  BY <1>3, <1>4, RingSame DEF Good, Counted
<1>6. fds \in [Fds -> {"none", "file", "pipe"}] /\ Agrees(ends)
  BY <1>2, <1>3 DEF Init, Agrees, Lists
<1>7. frames \in Seq(Frames) /\ Len(frames) <= MaxFrames /\ doing \in States
  BY RunningTyped, PipeAssumption DEF Init
<1>8. /\ answered \in [Pipes -> SUBSET {"EOF", "EPIPE"}]
      /\ \A p \in Pipes : answered[p] = {}
  BY DEF Init
<1>9. FarEndFinal /\ NoMissedWake
  BY <1>8, RunningTyped DEF Init, FarEndFinal, NoMissedWake
<1> QED  BY <1>2, <1>5, <1>6, <1>7, <1>8, <1>9 DEF IInv

LEMMA NextInvariant == IInv /\ [Next]_vars => IInv'
<1> SUFFICES ASSUME IInv, [Next]_vars PROVE IInv'
  OBVIOUS
<1>1. CASE UNCHANGED vars
  <2>1. UNCHANGED <<fds, ends, pipes, answered, doing, frames>>
    BY <1>1 DEF vars
  <2>2. PICK c : c = doing.call
    OBVIOUS
  <2>3. Waits(c)' <=> Waits(c)
    BY <2>1, WaitsKept
  <2>4. NoMissedWake'
    BY <2>1, <2>2, <2>3 DEF IInv, NoMissedWake
  <2> QED  BY <2>1, <2>4, DoingKeeps DEF IInv
<1>2. ASSUME NEW b \in BOOLEAN, Pipe2(b) PROVE IInv'
  BY <1>2, Pipe2Keeps
<1>3. ASSUME NEW f \in Fds, Dup(f) PROVE IInv'
  BY <1>3, DupKeeps
<1>4. ASSUME NEW f \in Fds, Close(f) PROVE IInv'
  BY <1>4, CloseKeeps
<1>5. ASSUME NEW f \in Fds, NEW g \in Fds, Dup2(f, g) PROVE IInv'
  BY <1>5, Dup2Keeps
<1>6. ASSUME NEW f \in Fds, NEW b \in BOOLEAN, SetFlags(f, b) PROVE IInv'
  BY <1>6, SetFlagsKeeps
<1>7. CASE Read
  BY <1>7, ReadKeeps
<1>8. CASE Write
  BY <1>8, WriteKeeps
<1>9. CASE (\E c \in Call : Enter(c)) \/ Halt \/ Answer \/ Cancel
  BY <1>9, CallKeeps
<1>10. CASE (\E b \in BOOLEAN : Handler(b)) \/ Return
  BY <1>10, SignalKeeps
<1> QED  BY <1>1, <1>2, <1>3, <1>4, <1>5, <1>6, <1>7, <1>8, <1>9, <1>10 DEF Next

\* The invariant holds in every state of every behaviour.
THEOREM InvariantHolds == Spec => []IInv
<1>1. Init => IInv
  BY InitInvariant
<1>2. IInv /\ [Next]_vars => IInv'
  BY NextInvariant
<1> QED  BY <1>1, <1>2, PTL DEF Spec

LEMMA CountedTyped == IInv => EndsCounted
<1> SUFFICES ASSUME IInv PROVE EndsCounted
  OBVIOUS
<1>1. PICK s : s = Lists
  OBVIOUS
<1>2. Counted(s) /\ s.ends = ends /\ s.pipes = pipes
  BY <1>1 DEF IInv, Good, Lists
<1>3. ASSUME NEW p \in Pipes
      PROVE  /\ pipes[p].readers = Cardinality(Readers(ends, p))
             /\ pipes[p].writers = Cardinality(Writers(ends, p))
             /\ pipes[p].readers \in 0 .. Cardinality(Fds)
             /\ pipes[p].writers \in 0 .. Cardinality(Fds)
  BY <1>2, HoldersFinite DEF Counted
<1>4. pipes \in [Pipes -> [head : 0..Capacity - 1, size : 0..Capacity,
                          readers : 0..Cardinality(Fds), writers : 0..Cardinality(Fds),
                          readflags : BOOLEAN, writeflags : BOOLEAN,
                          bytes : [0..Capacity - 1 -> 0..Serials - 1],
                          written : 0..Serials - 1]]
  <2>1. pipes \in [Pipes -> PipeStates]
    BY <1>2 DEF Counted
  <2>2. ASSUME NEW p \in Pipes
        PROVE  pipes[p] \in [head : 0..Capacity - 1, size : 0..Capacity,
                             readers : 0..Cardinality(Fds), writers : 0..Cardinality(Fds),
                             readflags : BOOLEAN, writeflags : BOOLEAN,
                             bytes : [0..Capacity - 1 -> 0..Serials - 1],
                             written : 0..Serials - 1]
    <3>1. pipes[p] \in PipeStates
      BY <2>1
    <3> QED  BY <1>3, <3>1 DEF PipeStates, Rings
  <2> QED  BY <2>1, <2>2
<1>5. TypeOK
  BY <1>2, <1>4 DEF IInv, TypeOK, Counted, Ends, States, Frames
<1>6. \A f \in Fds : fds[f] = "pipe" <=> HasEnd(ends, f)
  BY DEF IInv, Agrees
<1> QED  BY <1>3, <1>5, <1>6 DEF EndsCounted, Readers, Writers

\* Pipes' counts of readers and writers are the descriptors that hold an end of them, the list of
\* ends and the process's table agree, and every variable has its type, through any order of
\* pipe2, dup, dup2 and close (browserpipe.c: Add, BrowserPipeForget).
THEOREM EndsCountedHolds == Spec => []EndsCounted
BY InvariantHolds, CountedTyped, PTL

\* The ring of every pipe holds what was written and not yet read, in order, for any capacity and
\* wherever its head has wrapped to (browserpipe.c: Read, Write).
THEOREM StreamKeptHolds == Spec => []StreamKept
<1>1. IInv => StreamKept
  BY DEF IInv, Good, Lists, InOrder, Holds, StreamKept
<1> QED  BY <1>1, InvariantHolds, PTL

\* End of file and a broken pipe are for good, whatever is duplicated afterwards.
THEOREM FarEndFinalHolds == Spec => []FarEndFinal
<1>1. IInv => FarEndFinal
  BY DEF IInv
<1> QED  BY <1>1, InvariantHolds, PTL

\* A call that waits still has to, whatever handlers did while it waited (browserpipe.c:
\* WaitForBrowserPipe).
THEOREM NoMissedWakeHolds == Spec => []NoMissedWake
<1>1. IInv => NoMissedWake
  BY DEF IInv
<1> QED  BY <1>1, InvariantHolds, PTL

\* poll() and the calls, which decide apart what an end is ready for, agree: no call waits where
\* poll() reports an event (but for whole writes beside one free byte), none moves a byte where
\* it reports none, and what calls learnt of the far end it reports (browserpipe.c: Poll,
\* WaitForBrowserPipe, Read, Write).
THEOREM PollHonestHolds == Spec => []PollHonest
<1>1. ASSUME IInv, NEW c \in Call, c.op # "poll", c.n > 0, Fits(c)
      PROVE  LET said == Revents(c.fd)
                 whole == c.op = "write" /\ c.n \in 2..Atomic
             IN /\ said = {} => Moves(c) = 0 /\ (Waits(c) \/ Nonblocking(c.fd))
                /\ said # {} /\ ~whole => ~Waits(c)
                /\ "POLLIN" \in said \/ (said = {"POLLOUT"} /\ ~whole) => Moves(c) > 0
                /\ said = {"POLLHUP"} \/ "POLLERR" \in said => Moves(c) = 0
  <2> DEFINE q == pipes[ends[c.fd].pipe]
             said == Revents(c.fd)
             whole == c.op = "write" /\ c.n \in 2..Atomic
  <2>1. c.fd \in Fds /\ c.n \in Nat /\ c.op \in {"read", "write", "sendfile"}
    BY <1>1, PipeAssumption DEF Call, Ops
  <2>2. HasEnd(ends, c.fd) /\ (ends[c.fd].write <=> c.op # "read")
    BY <1>1 DEF Fits, EndOf
  <2>3. q \in PipeStates
    BY <1>1, <2>1, <2>2, EndTyped
  <2>4. /\ q.size \in 0 .. Capacity /\ q.readers \in Nat /\ q.writers \in Nat
        /\ Capacity \in Nat /\ Atomic \in 1 .. Capacity
    BY <2>3, PipeAssumption DEF PipeStates
  <2>5. said = IF ends[c.fd].write
               THEN (IF q.readers = 0 THEN {"POLLERR"} ELSE {})
                      \cup (IF q.size < Capacity THEN {"POLLOUT"} ELSE {})
               ELSE (IF q.writers = 0 THEN {"POLLHUP"} ELSE {})
                      \cup (IF q.size > 0 THEN {"POLLIN"} ELSE {})
    BY DEF Revents, EndOf, PipeOf
  <2>6. Moves(c) = IF c.op = "read" THEN Smaller(c.n, q.size)
                   ELSE Accepted(ends[c.fd].pipe, c.op, c.n)
    BY DEF Moves, EndOf
  <2>7. CASE c.op = "read"
    <3>1. Waits(c) <=> ~Nonblocking(c.fd) /\ q.size = 0 /\ q.writers > 0
      BY <1>1, <2>1, <2>2, <2>4, <2>7 DEF Waits, Blocks, PipeOf
    <3>2. Moves(c) = 0 <=> q.size = 0
      BY <1>1, <2>1, <2>4, <2>6, <2>7 DEF Smaller
    <3>3. Moves(c) \in Nat
      BY <2>1, <2>4, <2>6, <2>7 DEF Smaller
    <3>4. said = (IF q.writers = 0 THEN {"POLLHUP"} ELSE {})
                   \cup (IF q.size > 0 THEN {"POLLIN"} ELSE {})
      BY <2>2, <2>5, <2>7
    <3> HIDE DEF said, q
    <3>5. /\ said = {} => q.size = 0 /\ q.writers > 0
          /\ said # {} => q.size > 0 \/ q.writers = 0
          /\ "POLLIN" \in said => q.size > 0
          /\ said # {"POLLOUT"} /\ "POLLERR" \notin said
          /\ said = {"POLLHUP"} => q.size = 0
      BY <2>4, <3>4
    <3> QED  BY <2>4, <3>1, <3>2, <3>3, <3>5 DEF said
  <2>8. CASE c.op # "read"
    <3> DEFINE n == IF c.op = "sendfile" THEN Atomic + 1 ELSE c.n
    <3>1. Waits(c) <=> /\ ~Nonblocking(c.fd) /\ q.readers > 0
                       /\ IF n <= Atomic THEN n > Capacity - q.size ELSE q.size = Capacity
      <4>1. Waits(c) <=> Blocks(c.fd, TRUE, n)
        <5>1. CASE c.op = "write"
          BY <1>1, <5>1 DEF Waits
        <5>2. CASE c.op = "sendfile"
          BY <1>1, <5>2 DEF Waits
        <5> QED  BY <2>1, <2>8, <5>1, <5>2
      <4>2. n # 0
        BY <1>1, <2>1, <2>4
      <4> HIDE DEF n
      <4> QED  BY <2>2, <2>8, <4>1, <4>2 DEF Blocks, PipeOf
    <3>2. n \in Nat /\ n > 0 /\ (~whole => n = 1 \/ n > Atomic)
      BY <1>1, <2>1, <2>4, <2>8
    <3>3. Moves(c) = CASE q.readers = 0 -> 0
                       [] c.op = "write" /\ c.n <= Atomic /\ c.n > Capacity - q.size -> 0
                       [] OTHER -> Smaller(c.n, Capacity - q.size)
      BY <2>6, <2>8 DEF Accepted, Space
    <3>4. said = (IF q.readers = 0 THEN {"POLLERR"} ELSE {})
                   \cup (IF q.size < Capacity THEN {"POLLOUT"} ELSE {})
      BY <2>2, <2>5, <2>8
    <3> HIDE DEF said, q
    <3>5. /\ said = {} => q.size = Capacity /\ q.readers > 0
          /\ said # {} => q.size < Capacity \/ q.readers = 0
          /\ "POLLIN" \notin said
          /\ said = {"POLLOUT"} => q.size < Capacity /\ q.readers > 0
          /\ said # {"POLLHUP"} /\ ("POLLERR" \in said => q.readers = 0)
      BY <2>4, <3>4
    <3>6. /\ q.readers = 0 => Moves(c) = 0
          /\ q.size = Capacity => Moves(c) = 0
          /\ q.size < Capacity /\ q.readers > 0 /\ ~whole => Moves(c) > 0
      BY <1>1, <2>1, <2>4, <3>3 DEF Smaller
    <3> HIDE DEF n, whole
    <3> QED  BY <2>4, <3>1, <3>2, <3>5, <3>6 DEF said, whole
  <2> QED  BY <2>7, <2>8
<1>2. ASSUME IInv, NEW f \in Fds, HasEnd(ends, f)
      PROVE  LET learnt == answered[EndOf(f).pipe]
             IN /\ "EOF" \in learnt /\ ~EndOf(f).write => Revents(f) = {"POLLHUP"}
                /\ "EPIPE" \in learnt /\ EndOf(f).write => "POLLERR" \in Revents(f)
  <2>1. FarEndFinal
    BY <1>2 DEF IInv
  <2>2. ends[f].pipe \in Pipes
    BY <1>2, EndTyped
  <2> QED  BY <2>1, <2>2 DEF FarEndFinal, Revents, EndOf, PipeOf
<1>3. IInv => PollHonest
  BY <1>1, <1>2, Zenon DEF PollHonest
<1> QED  BY <1>3, InvariantHolds, PTL
=============================================================================
