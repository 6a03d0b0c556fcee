-------------------------------- MODULE Evdev --------------------------------
(***************************************************************************)
(* The guest's keyboard and its readers (blink/evdev.c): the keys held and *)
(* the LEDs lit, the packet being built, a queue for each open description *)
(* with its masks and its grab, the console that toggles the lock LEDs,    *)
(* and what undo takes back of a read, a write or an ioctl.                *)
(*                                                                         *)
(* The host's reports come at any time, also between the instructions that *)
(* are undone, and no journal has them: their changes are to stay.         *)
(*                                                                         *)
(* A report of several keys is taken as several reports.  Scan codes are   *)
(* not told apart, nor are the keys that send more than one.  A mask lets  *)
(* all the events of a type through or none.                               *)
(***************************************************************************)
EXTENDS Integers, FiniteSetsExt, SequencesExt

CONSTANTS
  Readers,     \* the open descriptions the program may have
  Keys,        \* the keys the keyboard has
  Locks,       \* those with an LED, as kbd_bh() goes through them
  Limit,       \* EVDEV_QUEUE_EVENTS
  MaxVals,     \* max_vals: the values a packet holds
  Packets,     \* what a program writes at once
  Sizes,       \* how many events a read asks for
  MaskTypes,   \* the types of events a program masks
  MaxReports,  \* bound: the host's reports
  MaxCalls     \* bound: the program's calls

None == "none"
Types == {"MSC", "KEY", "LED"}
Key(k, value) == [type |-> "KEY", code |-> k, value |-> value]
Led(k, value) == [type |-> "LED", code |-> k, value |-> value]
Scan == [type |-> "MSC", code |-> "scan", value |-> 0]
Report == [type |-> "SYN", code |-> "report", value |-> 0]
Dropped == [type |-> "SYN", code |-> "dropped", value |-> 0]

\* What the keyboard has; Disposition() ignores the rest.
Event == {Key(k, value) : k \in Keys, value \in 0..2}
           \cup {Led(k, value) : k \in ToSet(Locks), value \in 0..2} \cup {Scan, Report, Dropped}

ASSUME EvdevAssumption ==
  /\ Locks \in Seq(Keys) /\ None \notin Readers
  /\ Limit \in Nat /\ Limit > 2 /\ MaxVals \in Nat /\ MaxVals > 3
  /\ Packets \subseteq Seq(Event) /\ Sizes \subseteq Nat \ {0}
  /\ MaskTypes \subseteq Types
  /\ {MaxReports, MaxCalls} \subseteq Nat

VARIABLES
  dev,      \* the device, with atkbd and the console's keyboard handler
  readers,  \* the readers, and their queues
  doing,    \* the readers a blocking read or poll waits for
  log,      \* what can be undone, oldest first
  view,     \* history: what each reader's program takes the keys and LEDs to be
  reports,  \* bound
  calls     \* bound

vars == <<dev, readers, doing, log, view, reports, calls>>

Bit(b) == IF b THEN 1 ELSE 0
Toggled(set, k) == IF k \in set THEN set \ {k} ELSE set \cup {k}

NewReader == [open |-> TRUE, queue |-> <<>>, readable |-> 0, epoch |-> 0, clock |-> "real",
              masked |-> {}, revoked |-> FALSE]
Booted == [key |-> {}, led |-> {}, vals |-> <<>>, grab |-> None,
           last |-> None, flags |-> {}, leds |-> {}, pending |-> FALSE]
Running == [state |-> "run", on |-> {}, n |-> 0]
----------------------------------------------------------------------------
(* What a reader's program takes the device's state to be.  Unknown, once    *)
(* it read that events were dropped, and from an event kept from it by a     *)
(* mask or another's grab until it asks anew.                                *)

Unknown == {"unknown"}
NoView == [KEY |-> Unknown, LED |-> Unknown]

Seen(v, ev) ==
  CASE ev = Dropped -> NoView
    [] ev.type \in {"KEY", "LED"} /\ v[ev.type] # Unknown /\ (ev.type = "KEY" => ev.value # 2) ->
         [v EXCEPT ![ev.type] = IF ev.value = 0 THEN @ \ {ev.code} ELSE @ \cup {ev.code}]
    [] OTHER -> v
SeenAll(v, events) == FoldLeft(Seen, v, events)
Missing(v, types) == [t \in DOMAIN v |-> IF t \in types THEN Unknown ELSE v[t]]
TypesOf(events) == {events[i].type : i \in DOMAIN events}

\* The device, the readers, whether one got a packet, and what each missed.
Now == [dev |-> dev, readers |-> readers, woke |-> FALSE, missed |-> [r \in Readers |-> {}]]
----------------------------------------------------------------------------
(* A reader's queue. *)

\* Mutant: the drop is not told of.
PassEventUntold(c, ev) ==
  LET over == Len(c.queue) + 1 >= Limit
      d == IF over THEN [c EXCEPT !.queue = <<ev>>, !.readable = 0, !.epoch = @ + 1]
                   ELSE [c EXCEPT !.queue = Append(@, ev)]
  IN IF ev = Report THEN [d EXCEPT !.readable = Len(d.queue)] ELSE d

\* Mutant: what was readable before the drop stays so.
PassEventReadable(c, ev) ==
  LET over == Len(c.queue) + 1 >= Limit
      d == IF over THEN [c EXCEPT !.queue = <<Dropped, ev>>, !.readable = Min({@, 2}), !.epoch = @ + 1]
                   ELSE [c EXCEPT !.queue = Append(@, ev)]
  IN IF ev = Report THEN [d EXCEPT !.readable = Len(d.queue)] ELSE d

\* PassEvent(): a reader a whole buffer behind loses what it did not read.
PassEvent(c, ev) ==
  LET over == Len(c.queue) + 1 >= Limit
      d == IF over THEN [c EXCEPT !.queue = <<Dropped, ev>>, !.readable = 0, !.epoch = @ + 1]
                   ELSE [c EXCEPT !.queue = Append(@, ev)]
  IN IF ev = Report THEN [d EXCEPT !.readable = Len(d.queue)] ELSE d

QueueSynDropped(c) ==
  IF Len(c.queue) + 1 >= Limit
  THEN [c EXCEPT !.queue = <<Dropped>>, !.readable = 0, !.epoch = @ + 1]
  ELSE [c EXCEPT !.queue = Append(@, Dropped)]

\* PassToClient(): a packet, without what is masked, unless nothing is left.
PassUnlessFiltered(c, ev) ==
  IF ev.type \in c.masked \/ (ev = Report /\ c.readable = Len(c.queue))
  THEN c
  ELSE PassEvent(c, ev)
PassToClient(c, packet) ==
  IF c.revoked THEN c ELSE FoldLeft(PassUnlessFiltered, c, packet)

\* Every packet passed on ends in a report, which wakes unless it was empty.
Wakes(c, packet) ==
  /\ ~c.revoked
  /\ c.readable # Len(c.queue) \/ \E ev \in ToSet(Front(packet)) : ev.type \notin c.masked

\* FlushQueue(): the events of a type go, and the reports left empty but a leading one.
Flushes(q, type, i) ==
  \/ q[i].type = type
  \/ q[i] = Report /\ \E j \in 1..i - 1 : /\ q[j] = Report
                                         /\ \A k \in j + 1..i - 1 : q[k].type = type
FlushQueue(c, type) ==
  LET removed == {i \in DOMAIN c.queue : Flushes(c.queue, type, i)}
      kept == DOMAIN c.queue \ removed
      Place(i) == Cardinality({j \in kept : j <= i})
  IN [removed |-> removed,
      kept |-> [n \in 1..Cardinality(kept) |-> c.queue[CHOOSE i \in kept : Place(i) = n]],
      readable |-> Max({0} \cup {Place(i) : i \in {j \in kept : c.queue[j] = Report}})]
----------------------------------------------------------------------------
(* The input core and the console, one event after the other. *)

\* ConsoleEvents(): a lock's key going down toggles it.
ConsoleEvents(flags, packet) ==
  {k \in ToSet(Locks) :
     (k \in flags) # (Cardinality({i \in DOMAIN packet : packet[i] = Key(k, 1)}) % 2 = 1)}

\* Mutant: a packet for the one that grabbed the device wakes no wait.
PassValuesGrabbedAsleep(s, packet) ==
  LET reached == IF s.dev.grab # None THEN {s.dev.grab} ELSE {r \in Readers : s.readers[r].open}
  IN [s EXCEPT
        !.readers = [r \in Readers |->
                       IF r \in reached THEN PassToClient(@[r], packet) ELSE @[r]],
        !.woke = @ \/ (s.dev.grab = None /\ \E r \in reached : Wakes(s.readers[r], packet)),
        !.missed = [r \in Readers |->
                      @[r] \cup (IF r \in reached THEN TypesOf(packet) \cap s.readers[r].masked
                                                  ELSE TypesOf(packet))],
        !.dev.pending = @ \/ s.dev.grab = None]

\* PassValues(): the reader that grabbed the device has the
\* packet alone, else every reader and the console have it.
PassValues(s, packet) ==
  LET reached == IF s.dev.grab # None THEN {s.dev.grab} ELSE {r \in Readers : s.readers[r].open}
  IN [s EXCEPT
        !.readers = [r \in Readers |->
                       IF r \in reached THEN PassToClient(@[r], packet) ELSE @[r]],
        !.woke = @ \/ \E r \in reached : Wakes(s.readers[r], packet),
        !.missed = [r \in Readers |->
                      @[r] \cup (IF r \in reached THEN TypesOf(packet) \cap s.readers[r].masked
                                                  ELSE TypesOf(packet))],
        !.dev.flags = IF s.dev.grab = None THEN ConsoleEvents(@, packet) ELSE @,
        !.dev.pending = @ \/ s.dev.grab = None]

\* Disposition(): what the device's state says of an event.
Ignored(s, ev) ==
  CASE ev.type = "KEY" -> ev.value # 2 /\ (ev.code \in s.dev.key) = (ev.value # 0)
    [] ev.type = "LED" -> (ev.code \in s.dev.led) = (ev.value # 0)
    [] ev.type = "SYN" -> ev # Report
    [] OTHER -> FALSE
Kept(s, ev) ==
  CASE ev.type = "KEY" /\ ev.value # 2 -> [s EXCEPT !.dev.key = Toggled(@, ev.code)]
    [] ev.type = "LED" -> [s EXCEPT !.dev.led = Toggled(@, ev.code)]
    [] OTHER -> s

\* HandleEvent(): a report passes the packet on, and so does a full one.
HandleEvent(s, ev) ==
  LET held == Append(s.dev.vals, ev)
      Flushed(t, packet) == [PassValues(t, packet) EXCEPT !.dev.vals = <<>>]
  IN CASE Ignored(s, ev) -> s
       [] ~Ignored(s, ev) /\ ev = Report /\ Len(held) < 2 -> s
       [] ~Ignored(s, ev) /\ ev = Report /\ Len(held) >= 2 -> Flushed(s, held)
       [] ~Ignored(s, ev) /\ ev # Report /\ Len(held) >= MaxVals - 2 ->
            Flushed(Kept(s, ev), Append(held, Report))
       [] OTHER -> [Kept(s, ev) EXCEPT !.dev.vals = held]
HandleAll(s, events) == FoldLeft(HandleEvent, s, events)

\* The LEDs of the locks that changed, each as the console has it, with no report.
FireLeds(s, changed) ==
  LET Fire(t, k) == IF k \in changed THEN HandleEvent(t, Led(k, Bit(k \in t.dev.leds))) ELSE t
  IN FoldLeft(Fire, s, Locks)

\* ConsoleBottomHalf(); a reader's grab keeps the LEDs out of the device.
ConsoleBottomHalf(s) ==
  LET changed == {k \in ToSet(Locks) : (k \in s.dev.flags) # (k \in s.dev.leds)}
      settled == [s EXCEPT !.dev.pending = FALSE, !.dev.leds = s.dev.flags]
  IN CASE ~s.dev.pending -> s
       [] s.dev.pending /\ s.dev.grab # None -> settled
       [] OTHER -> FireLeds(settled, changed)

\* AtkbdByte(): a key held already repeats, but not right after it went down.
AtkbdByte(s, k, down, soon) ==
  LET repeats == down /\ k \in s.dev.key
      value == CASE ~down -> 0
                 [] repeats /\ ~(soon /\ s.dev.last = k) -> 2
                 [] OTHER -> 1
      last == CASE ~down -> None [] repeats -> s.dev.last [] OTHER -> k
  IN HandleAll([s EXCEPT !.dev.last = last], <<Scan, Key(k, value), Report>>)
HostKeyboardReport(s, k, down, soon) == ConsoleBottomHalf(AtkbdByte(s, k, down, soon))
----------------------------------------------------------------------------
(* Undo.  An entry keeps its records and, for the properties, what the       *)
(* instruction found and what the host did since.                            *)

Entry(s, v, records, wrote) ==
  [records |-> records, wrote |-> wrote, dev |-> s.dev, readers |-> s.readers, view |-> v,
   since |-> [r \in Readers |-> <<>>], keys |-> {}]

\* The keys and LEDs that s has otherwise.
Changed(s) ==
  {k \in Keys : (k \in s.dev.key) # (k \in dev.key) \/ (k \in s.dev.led) # (k \in dev.led)}

\* What the packets just passed added to a reader's queue that had no overflow.
Added(c, d) == IF c.epoch = d.epoch THEN SubSeq(d.queue, Len(c.queue) + 1, Len(d.queue)) ELSE <<>>
SinceReport(e, k, s) ==
  [e EXCEPT !.keys = @ \cup {k} \cup Changed(s),
            !.since = [r \in Readers |-> @[r] \o Added(readers[r], s.readers[r])],
            !.view = [r \in Readers |-> Missing(@[r], s.missed[r])]]

\* Mutant: undo of a read puts what it took behind what came since.
UndoReadLast(s, rec) ==
  [s EXCEPT !.readers[rec.reader].queue = @ \o rec.taken,
            !.readers[rec.reader].readable = @ + Len(rec.taken)]

UndoRead(s, rec) ==
  [s EXCEPT !.readers[rec.reader].queue = rec.taken \o @,
            !.readers[rec.reader].readable = @ + Len(rec.taken)]

\* A queue that overflowed since is left as it is.
UndoFlush(s, rec) ==
  LET c == s.readers[rec.reader]
      gone == DOMAIN rec.removed
      before == [i \in 1..rec.count_before |->
                   IF i \in gone THEN rec.removed[i]
                   ELSE c.queue[i - Cardinality({j \in gone : j < i})]]
  IN IF \/ c.epoch # rec.epoch \/ Len(c.queue) < rec.count_after
        \/ rec.count_before - Cardinality(gone) > rec.count_after
     THEN s
     ELSE [s EXCEPT
             !.readers[rec.reader].queue =
               before \o SubSeq(@, rec.count_after + 1, Len(@)),
             !.readers[rec.reader].readable =
               IF @ <= rec.count_after THEN rec.readable_before
               ELSE @ - rec.count_after + rec.count_before]

\* RestoreBits(), RestoreInt(): what a write changed, where it is as the write
\* left it.
RestoreBits(now, before, after) ==
  {k \in now \cup before :
     IF (k \in before) # (k \in after) /\ (k \in now) = (k \in after)
     THEN k \in before ELSE k \in now}
Restored(now, before, after) == IF now = after THEN before ELSE now

\* A write's packets come out of a reader's queue, what came since stays.
WithoutDelivery(c, d) ==
  IF c.epoch # d.epoch \/ d.appended = 0 \/ Len(c.queue) < d.count_before + d.appended
  THEN c
  ELSE [c EXCEPT
          !.queue = SubSeq(@, 1, d.count_before)
                      \o SubSeq(@, d.count_before + d.appended + 1, Len(@)),
          !.readable = CASE @ = d.count_before + d.appended -> d.readable_before
                         [] @ > d.count_before + d.appended -> @ - d.appended
                         [] OTHER -> @]

\* RestoreState()
RestoreState(d, before, after) ==
  [d EXCEPT !.key = RestoreBits(@, before.key, after.key),
            !.led = RestoreBits(@, before.led, after.led),
            !.vals = Restored(@, before.vals, after.vals),
            !.flags = Restored(@, before.flags, after.flags),
            !.leds = Restored(@, before.leds, after.leds)]

UndoInject(s, rec) ==
  [s EXCEPT
     !.readers = [r \in Readers |->
                    IF r \in DOMAIN rec.deliveries
                    THEN WithoutDelivery(@[r], rec.deliveries[r]) ELSE @[r]],
     !.dev = RestoreState(@, rec.before, rec.after)]

\* UndoEvdevJournal(), for the records newest first.
UndoRecord(rec, s) ==
  CASE rec.kind = "read" -> UndoRead(s, rec)
    [] rec.kind = "flush" -> UndoFlush(s, rec)
    [] rec.kind = "inject" -> UndoInject(s, rec)
    [] rec.kind = "clock" ->
         IF s.readers[rec.reader].clock = rec.after
         THEN [s EXCEPT !.readers[rec.reader].clock = rec.before] ELSE s
    [] rec.kind = "grab" ->
         IF s.dev.grab = rec.after THEN [s EXCEPT !.dev.grab = rec.before] ELSE s
    [] rec.kind = "mask" -> [s EXCEPT !.readers[rec.reader].masked = rec.before]
----------------------------------------------------------------------------
Init ==
  /\ dev = Booted
  /\ readers = [r \in Readers |-> NewReader]
  /\ doing = Running
  /\ log = <<>>
  /\ view = [r \in Readers |-> [KEY |-> {}, LED |-> {}]]
  /\ reports = 0 /\ calls = 0

Calls == doing.state = "run" /\ calls < MaxCalls /\ calls' = calls + 1
Uses(r) == readers[r].open /\ ~readers[r].revoked
NoteUndo(records, wrote) ==
  log' = IF records = <<>> THEN log ELSE Append(log, Entry(Now, view, records, wrote))

\* ReadEvdev(): whole events, of the packets the reader r has.
ReadsNow(s, r, n, v, entries) ==
  LET c == s.readers[r]
      taken == SubSeq(c.queue, 1, Min({n, c.readable}))
  IN /\ dev' = s.dev
     /\ readers' = [s.readers EXCEPT ![r].queue = SubSeq(@, Len(taken) + 1, Len(@)),
                                     ![r].readable = @ - Len(taken)]
     /\ log' = Append(entries,
                      Entry(s, v, <<[kind |-> "read", reader |-> r, taken |-> taken]>>, {}))
     /\ view' = [v EXCEPT ![r] = SeenAll(@, taken)]
     /\ doing' = Running

\* EvdevReadWaits(): a blocking read waits for a packet, an O_NONBLOCK one with
\* none takes nothing.
Read(r, n) ==
  /\ Calls /\ Uses(r)
  /\ UNCHANGED reports
  /\ IF readers[r].readable > 0
     THEN ReadsNow(Now, r, n, view, log)
     ELSE /\ doing' = [state |-> "read", on |-> {r}, n |-> n]
          /\ UNCHANGED <<dev, readers, log, view>>

\* PollEvdev(): for a packet, at any of several readers.
Poll(rs) ==
  /\ Calls /\ \A r \in rs : Uses(r) /\ readers[r].readable = 0
  /\ doing' = [state |-> "poll", on |-> rs, n |-> 0]
  /\ UNCHANGED <<dev, readers, log, view, reports>>

\* A signal or the host ends a wait.
Interrupt ==
  /\ doing.state # "run"
  /\ doing' = Running
  /\ UNCHANGED <<dev, readers, log, view, reports, calls>>

\* InjectRecord, of what a write changed; EndInject() keeps none of nothing.
Injected(s) ==
  LET reached == {r \in Readers : s.readers[r] # readers[r]}
      Delivery(r) ==
        [epoch |-> readers[r].epoch, count_before |-> Len(readers[r].queue),
         readable_before |-> readers[r].readable,
         appended |-> IF s.readers[r].epoch = readers[r].epoch
                      THEN Len(s.readers[r].queue) - Len(readers[r].queue) ELSE 0]
  IN IF reached = {} /\ [s.dev EXCEPT !.pending = dev.pending] = dev THEN <<>>
     ELSE << [kind |-> "inject", before |-> dev, after |-> s.dev,
              deliveries |-> [r \in reached |-> Delivery(r)]] >>
\* Mutant: a lock toggled by a write leaves its LED for later.
WriteUnsettled(r, packet) ==
  LET s == HandleAll(Now, packet)
  IN /\ Calls /\ Uses(r)
     /\ dev' = s.dev /\ readers' = s.readers
     /\ view' = [x \in Readers |-> Missing(view[x], s.missed[x])]
     /\ NoteUndo(Injected(s), {})
     /\ UNCHANGED <<doing, reports>>

\* WriteEvdev(), whose packets come back to every reader.
Write(r, packet) ==
  LET s == ConsoleBottomHalf(HandleAll(Now, packet))
  IN /\ Calls /\ Uses(r)
     /\ dev' = s.dev /\ readers' = s.readers
     /\ view' = [x \in Readers |-> Missing(view[x], s.missed[x])]
     /\ NoteUndo(Injected(s), Changed(s))
     /\ UNCHANGED <<doing, reports>>

\* EndFlush(): what a flush took out of a queue, and what it left.
FlushRecord(r, d, removed) ==
  [kind |-> "flush", reader |-> r, epoch |-> readers[r].epoch,
   count_before |-> Len(readers[r].queue), readable_before |-> readers[r].readable,
   count_after |-> Len(d.queue), removed |-> [i \in removed |-> readers[r].queue[i]]]

\* What a program that asked takes the state of a type to be: an undo may have put back
\* a packet that tells of a key the host let go since (README.md, known divergences).
StateOf(type) == IF type = "KEY" THEN dev.key ELSE dev.led
Told(type) ==
  IF SeenAll([NoView EXCEPT ![type] = StateOf(type)], dev.vals)[type] = StateOf(type)
  THEN StateOf(type) ELSE Unknown

\* GetValues(): the keys held or the LEDs lit, which cannot be copied out if ~ok;
\* the queued events of their type go.
GetValues(r, type, ok) ==
  LET f == FlushQueue(readers[r], type)
      c == [readers[r] EXCEPT !.queue = f.kept, !.readable = f.readable]
      d == IF ok THEN c ELSE QueueSynDropped(c)
  IN /\ Calls /\ Uses(r)
     /\ readers' = [readers EXCEPT ![r] = d]
     /\ NoteUndo(IF d = readers[r] THEN <<>> ELSE <<FlushRecord(r, d, f.removed)>>, {})
     /\ view' = IF ok THEN [view EXCEPT ![r][type] = Told(type)] ELSE view
     /\ UNCHANGED <<dev, doing, reports>>

\* SetClock(): the events timed on the clock before go.
SetClock(r, clock) ==
  LET c == readers[r]
      d == IF c.queue = <<>> THEN c
           ELSE QueueSynDropped([c EXCEPT !.queue = <<>>, !.readable = 0])
  IN /\ Calls /\ Uses(r) /\ clock # c.clock
     /\ readers' = [readers EXCEPT ![r] = [d EXCEPT !.clock = clock]]
     /\ NoteUndo(<<[kind |-> "clock", reader |-> r, before |-> c.clock, after |-> clock]>> \o
                 (IF c.queue = <<>> THEN <<>> ELSE <<FlushRecord(r, d, DOMAIN c.queue)>>), {})
     /\ UNCHANGED <<dev, doing, view, reports>>

\* Grab(): EVIOCGRAB on and off.
Grab(r) ==
  LET after == IF dev.grab = None THEN r ELSE None
  IN /\ Calls /\ Uses(r) /\ dev.grab \in {None, r}
     /\ dev' = [dev EXCEPT !.grab = after]
     /\ NoteUndo(<<[kind |-> "grab", before |-> dev.grab, after |-> after]>>, {})
     /\ UNCHANGED <<readers, doing, view, reports>>

SetMask(r, type, filtered) ==
  LET masked == readers[r].masked
  IN /\ Calls /\ Uses(r)
     /\ readers' = [readers EXCEPT ![r].masked =
                      IF filtered THEN @ \cup {type} ELSE @ \ {type}]
     /\ NoteUndo(<<[kind |-> "mask", reader |-> r, before |-> masked]>>, {})
     /\ UNCHANGED <<dev, doing, view, reports>>

\* What no undo crosses: Revoke(), and the system calls that open and close, with
\* OpenEvdev() and ReleaseEvdev().
LetGo(r) == dev' = [dev EXCEPT !.grab = IF @ = r THEN None ELSE @]
Barrier == log' = <<>> /\ UNCHANGED <<doing, reports>>
Revoke(r) ==
  /\ Calls /\ Uses(r)
  /\ LetGo(r)
  /\ readers' = [readers EXCEPT ![r].revoked = TRUE]
  /\ Barrier /\ UNCHANGED view
OpenEvdev(r) ==
  /\ Calls /\ ~readers[r].open
  /\ readers' = [readers EXCEPT ![r] = NewReader]
  /\ view' = [view EXCEPT ![r] = NoView]
  /\ Barrier /\ UNCHANGED dev
ReleaseEvdev(r) ==
  /\ Calls /\ readers[r].open
  /\ LetGo(r)
  /\ readers' = [readers EXCEPT ![r] = [NewReader EXCEPT !.open = FALSE]]
  /\ view' = [view EXCEPT ![r] = NoView]
  /\ Barrier

\* blinkenlib_input_report() and sendInputReport(): a key goes down, repeats or
\* comes up; a reader that got a packet resumes a wait, which looks again.
InputReport(k, down, soon) ==
  LET s == HostKeyboardReport(Now, k, down, soon)
      v == [r \in Readers |-> Missing(view[r], s.missed[r])]
      entries == [i \in DOMAIN log |-> SinceReport(log[i], k, s)]
      ready == {r \in doing.on : s.readers[r].readable > 0}
  IN /\ reports < MaxReports /\ reports' = reports + 1
     /\ soon => down /\ k = dev.last
     /\ UNCHANGED calls
     /\ IF s.woke /\ doing.state = "read" /\ ready # {}
        THEN \E r \in ready : ReadsNow(s, r, doing.n, v, entries)
        ELSE /\ dev' = s.dev /\ readers' = s.readers
             /\ view' = v /\ log' = entries
             /\ doing' = IF s.woke /\ ready # {} THEN Running ELSE doing

\* What the host changed of the very keys and LEDs a write changed, or of the packet
\* it left unfinished, is not told apart: what programs saw is then unknown.
Raced(e) ==
  e.keys # {} /\ \E i \in DOMAIN e.records :
    e.records[i].kind = "inject" /\ \/ e.keys \cap e.wrote # {}
                                    \/ e.records[i].before.vals # e.records[i].after.vals

Undo ==
  LET e == Last(log)
      s == FoldRight(UndoRecord, e.records, Now)
      forgotten == [r \in Readers |-> NoView]
  IN /\ doing.state = "run" /\ log # <<>>
     /\ dev' = s.dev /\ readers' = s.readers
     /\ view' = IF Raced(e) THEN forgotten ELSE e.view
     /\ log' = [i \in DOMAIN Front(log) |->
                  IF Raced(e) THEN [log[i] EXCEPT !.view = forgotten] ELSE log[i]]
     /\ UNCHANGED <<doing, reports, calls>>

Next ==
  \/ \E k \in Keys, down, soon \in BOOLEAN : InputReport(k, down, soon)
  \/ \E r \in Readers, n \in Sizes : Read(r, n)
  \/ \E rs \in SUBSET Readers \ {{}} : Poll(rs)
  \/ Interrupt
  \/ \E r \in Readers, packet \in Packets : Write(r, packet)
  \/ \E r \in Readers, type \in {"KEY", "LED"}, ok \in BOOLEAN : GetValues(r, type, ok)
  \/ \E r \in Readers, clock \in {"real", "monotonic"} : SetClock(r, clock)
  \/ \E r \in Readers : Grab(r) \/ Revoke(r) \/ OpenEvdev(r) \/ ReleaseEvdev(r)
  \/ \E r \in Readers, type \in MaskTypes, filtered \in BOOLEAN : SetMask(r, type, filtered)
  \/ Undo

Spec == Init /\ [][Next]_vars
----------------------------------------------------------------------------
(* Properties *)

\* Every variable has its type.
TypeOK ==
  /\ dev.key \subseteq Keys /\ dev.led \subseteq ToSet(Locks)
  /\ dev.vals \in Seq(Event) /\ Len(dev.vals) < MaxVals - 2
  /\ dev.grab \in {None} \cup {r \in Readers : Uses(r)}
  /\ \A r \in Readers : /\ readers[r].queue \in Seq(Event)
                        /\ readers[r].readable \in 0 .. Len(readers[r].queue)
                        /\ readers[r].masked \subseteq MaskTypes
  /\ doing.state \in {"run", "read", "poll"} /\ \A r \in doing.on : Uses(r)
  /\ reports \in 0..MaxReports /\ calls \in 0..MaxCalls

\* A program reads up to the end of a packet and never into one still being
\* passed on, through overflows, flushes, masks, writes and every undo of them: what
\* is readable ends at the last report, and before the last loss if none came since.
PacketsWhole ==
  /\ TypeOK
  /\ \A r \in Readers :
       LET c == readers[r]
           report == Max({0} \cup {i \in DOMAIN c.queue : c.queue[i] = Report})
           drop == Max({0} \cup {i \in DOMAIN c.queue : c.queue[i] = Dropped})
       IN IF report > drop THEN c.readable = report ELSE c.readable < Max({drop, 1})

\* A program that keeps up with the events, and asks for the state when it is told that
\* some were lost, knows what is held and lit: what a reader was told, with what is still
\* queued for it and in the packet being built, is the device's state, however
\* reports, writes, grabs, masks, flushes and undos follow each other.
ReaderKnows ==
  \A r \in Readers : Uses(r) =>
    LET v == SeenAll(view[r], readers[r].queue \o dev.vals)
    IN v.KEY \in {Unknown, dev.key} /\ v.LED \in {Unknown, dev.led}

\* What the code keeps of a device for undo, the console's being put off aside.
AtRest(d) == [d EXCEPT !.last = None, !.pending = FALSE]

\* Undo gives a reader that did not overflow the queue the instruction found, with what
\* the host reported since behind it, its mask and its clock, and the device its
\* grab and what the instruction changed, and keeps what the host did since.
UndoGivesBack ==
  [][Undo =>
       LET e == Last(log)
       IN /\ \A r \in Readers :
               /\ readers'[r].masked = e.readers[r].masked
               /\ readers'[r].clock = e.readers[r].clock
               /\ readers[r].epoch = e.readers[r].epoch =>
                    readers'[r].queue = e.readers[r].queue \o e.since[r]
          /\ dev'.grab = e.dev.grab
          /\ \A k \in Keys \ e.keys : /\ k \in dev'.key <=> k \in e.dev.key
                                      /\ k \in dev'.led <=> k \in e.dev.led
          /\ \A k \in e.keys \ e.wrote : /\ k \in dev'.key <=> k \in dev.key
                                         /\ k \in dev'.led <=> k \in dev.led
          /\ e.keys = {} => AtRest(dev') = AtRest(e.dev)]_vars

\* No read or poll waits while a packet is there for it: every one that completes
\* wakes the wait, whichever reader it is for.
NoMissedPacket ==
  \A r \in doing.on : readers[r].readable = 0

\* A lock that a program writes goes down first in its packet, or a report is behind it.
\* Else the LED of one lock may fill the packet that tells of another, and no kbd_bh()
\* follows the one that is going on (README.md, known divergences).
LocksReported ==
  \A packet \in Packets : \A i \in DOMAIN packet \ {1} :
    packet[i] \in {Key(k, 1) : k \in ToSet(Locks)} =>
      \E j \in DOMAIN packet : j > i /\ packet[j] = Report

\* Between two calls the console has set the LEDs its locks ask for, also when a program
\* wrote the key, a reader has the device to itself, or a write was undone.
ConsoleSettled == LocksReported => dev.leds = dev.flags
=============================================================================
