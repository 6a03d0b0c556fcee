---------------------------- MODULE TerminalInput ----------------------------
(***************************************************************************)
(* The input side of the terminal (blink/terminal.c), and what             *)
(* BlinkRuntime.provideInput() does around it (blink-runtime.ts).          *)
(*                                                                         *)
(* The host gives bytes and End of input tokens, whether or not a read     *)
(* waits for them; they queue.  A read the queue has too little for halts, *)
(* and starts over each time the host resumes it.  What a read took, a     *)
(* flush discarded or a TCSETS changed is journaled, and undo takes it     *)
(* back; a read that waited is undone by asking again.                     *)
(*                                                                         *)
(* A byte is its number, in the order the host gave everything, and        *)
(* whether it is a line feed.  A token is the index it comes at among all  *)
(* bytes ever given, as in the code; its number beside it is a history     *)
(* variable.  The conversions of ICRNL and its relatives have been applied *)
(* to the bytes already.  Of the history the log holds what can still be   *)
(* undone, and only the instructions that use the terminal.                *)
(***************************************************************************)
EXTENDS Integers, FiniteSetsExt, SequencesExt

CONSTANTS
  Chunks,       \* what the host gives at once: sequences of "is a line feed"
  Sizes,        \* the bytes a read asks for
  Modes,        \* the settings a program chooses from
  DefaultMode,  \* the ones every program starts with
  Indices,      \* 2^64: positions and indices wrap there
  MaxGiven,     \* bound: bytes and tokens given
  MaxLog        \* bound: instructions in the log

Settings == [canonical : BOOLEAN, vmin : Nat, vtime : Nat, noflsh : BOOLEAN]

ASSUME TerminalAssumption ==
  /\ Chunks \subseteq Seq(BOOLEAN) /\ Sizes \subseteq Nat \ {0}
  /\ DefaultMode \in Modes /\ Modes \subseteq Settings
  /\ MaxGiven \in Nat /\ MaxLog \in Nat
  /\ Indices \in Nat /\ Indices > 2 * MaxGiven

VARIABLES
  terminal,  \* the bytes queued, the index of the first, the tokens
  mode,      \* the termios
  phase,     \* "idle" between instructions, "waiting" inside a read
  read,      \* what the read under way knows across the times it starts over
  exited,    \* the program has ended
  log,       \* what can be undone, oldest first
  given,     \* the number of the last byte or token given
  reached    \* history variable: the last byte the program has read, undone reads aside

vars == <<terminal, mode, phase, read, exited, log, given, reached>>

EmptyTerminal == [queue |-> <<>>, position |-> 0, ends |-> <<>>]
NoRead == [size |-> 0, nonblock |-> FALSE, waited |-> FALSE, wait_tail |-> 0, seen |-> 0,
           elapsed |-> 0, timed |-> FALSE, interrupted |-> FALSE, barred |-> FALSE,
           found |-> EmptyTerminal]

-----------------------------------------------------------------------------
(* The queue T. *)

After(index, n) == (index + n) % Indices

Before(index, n) == (index - n) % Indices

TailIndex(T) == After(T.position, Len(T.queue))

\* The bytes a read can take before the first token.
Available(T) ==
  IF T.ends = <<>> THEN Len(T.queue)
  ELSE Min({Len(T.queue), Before(T.ends[1].at, T.position)})

Given(T, chunk) ==
  [T EXCEPT !.queue = @ \o [i \in DOMAIN chunk |-> [id |-> given + i, newline |-> chunk[i]]]]

Without(T, n) ==
  [T EXCEPT !.queue = SubSeq(@, n + 1, Len(@)), !.position = After(@, n)]

\* Mutant of Prepend: the bytes come back without their indices.
PrependUncounted(T, bytes) == [T EXCEPT !.queue = bytes \o @]

Prepend(T, bytes) ==
  [T EXCEPT !.queue = bytes \o @, !.position = Before(@, Len(bytes))]

-----------------------------------------------------------------------------
(* What a read does. *)

\* The bytes a read has to find: VMIN of them, or what it asks for if less.
Need(R) == IF mode.canonical \/ mode.vmin = 0 THEN 1 ELSE Min({mode.vmin, R.size})

\* VTIME runs from the start of a read, or with VMIN from the last byte that came.
HasTimer(T) == ~mode.canonical /\ mode.vtime > 0 /\ (mode.vmin = 0 \/ T.queue # <<>>)

\* Mutant of Timing: a read that starts over starts its time over.
TimingAfresh(R, T) == [R EXCEPT !.elapsed = 0]

\* A byte that came starts VTIME's time over.
Timing(R, T) ==
  IF HasTimer(T) /\ mode.vmin > 0 /\ Len(T.queue) # R.seen
  THEN [R EXCEPT !.seen = Len(T.queue), !.elapsed = 0]
  ELSE R

\* WaitForTerminalInput(): whether the read halts.
MustHalt(R, T) ==
  /\ T.ends = <<>> /\ ~R.nonblock
  /\ Len(T.queue) < Need(R)
  /\ ~mode.canonical => mode.vmin > 0 \/ mode.vtime > 0
  /\ HasTimer(T) => R.elapsed < mode.vtime

\* The bytes a read takes: never past a token, nor in canonical mode past a line feed.
Copied(R, T) ==
  LET limit == Min({R.size, Available(T)})
      feeds == {i \in 1 .. limit : T.queue[i].newline}
  IN IF mode.canonical /\ feeds # {} THEN Min(feeds) ELSE limit

\* Mutant of PutBack: undo gives everything back to a read that waited, too.
PutBackAll(R, T, n) == n

\* How many of the n bytes the read takes undo puts back: those it found queued
\* before it waited.
PutBack(R, T, n) ==
  IF ~R.waited THEN n
  ELSE IF R.wait_tail > T.position THEN Min({R.wait_tail - T.position, n}) ELSE 0

\* How many bytes that came while it waited it leaves, which undo takes away.
Drop(R, T, n) ==
  LET rest == Max({After(T.position, n), R.wait_tail})
  IN IF R.waited /\ TailIndex(T) > rest THEN TailIndex(T) - rest ELSE 0

ReadRecord(R, T, n, end) ==
  [kind |-> "read", waited |-> R.waited, putback |-> SubSeq(T.queue, 1, PutBack(R, T, n)),
   drop |-> Drop(R, T, n), end |-> end]

\* An instruction in the log: its journal, and for the properties what the
\* terminal was when it began (or first halted) and what had been given at its end.
Entry(records, exits, found, waited) ==
  [records |-> records, exits |-> exits, found |-> found, mode |-> mode, waited |-> waited,
   upto |-> given', reached |-> reached, cleared |-> FALSE]
Record(entry, barred) == IF barred THEN <<>> ELSE Append(log, entry)

EndRead == phase' = "idle" /\ read' = NoRead

\* ReadTerminal(): the token the queue begins with, or the bytes before one.
Take(R, T) ==
  LET n == Copied(R, T)
      found == IF R.waited THEN R.found ELSE T
  IN IF T.ends # <<>> /\ T.ends[1].at = T.position
     THEN /\ terminal' = [T EXCEPT !.ends = Tail(@)]
          /\ log' = Record(Entry(<<ReadRecord(R, T, 0, <<T.ends[1].id>>)>>, FALSE, found, R.waited),
                           R.barred)
          /\ UNCHANGED reached
     ELSE IF T.queue = <<>>
     THEN /\ terminal' = T
          /\ log' = Record(Entry(<<>>, FALSE, T, FALSE), R.barred)
          /\ UNCHANGED reached
     ELSE /\ terminal' = Without(T, n)
          /\ log' = Record(Entry(<<ReadRecord(R, T, n, <<>>)>>, FALSE, found, R.waited), R.barred)
          /\ reached' = T.queue[n].id

\* The read starts, or starts over: it halts, fails with EINTR, or takes what is queued.
Attempt(started, T) ==
  LET R == Timing(started, T)
  IN IF ~MustHalt(R, T) THEN EndRead /\ Take(R, T)
     ELSE IF R.interrupted
     THEN /\ EndRead /\ terminal' = T
          /\ log' = Record(Entry(<<>>, FALSE, T, FALSE), R.barred)
          /\ UNCHANGED reached
     ELSE /\ phase' = "waiting" /\ terminal' = T
          /\ read' = [R EXCEPT !.timed = HasTimer(T), !.waited = TRUE,
                       !.wait_tail = IF R.waited THEN @ ELSE TailIndex(T),
                       !.found = IF R.waited THEN @ ELSE T]
          /\ UNCHANGED <<log, reached>>

-----------------------------------------------------------------------------
Init ==
  /\ terminal = EmptyTerminal /\ mode = DefaultMode
  /\ phase = "idle" /\ read = NoRead /\ exited = FALSE
  /\ log = <<>> /\ given = 0 /\ reached = 0

Executes == phase = "idle" /\ ~exited /\ Len(log) < MaxLog

Read(size, nonblock) ==
  /\ Executes
  /\ UNCHANGED <<mode, exited, given>>
  /\ Attempt([NoRead EXCEPT !.size = size, !.nonblock = nonblock], terminal)

\* Time passes for a read that VTIME ends, or will once there is a byte again: a signal may
\* have emptied the queue since VTIME began to run.
Tick ==
  /\ phase = "waiting" /\ ~mode.canonical /\ (mode.vmin = 0 \/ read.seen > 0)
  /\ read.elapsed < mode.vtime
  /\ read' = [read EXCEPT !.elapsed = @ + 1]
  /\ UNCHANGED <<terminal, mode, phase, exited, log, given, reached>>

\* The host resumes the read: its time is up, or the guest's interval timer's is.
Resume ==
  /\ phase = "waiting"
  /\ UNCHANGED <<mode, exited, given>>
  /\ Attempt(read, terminal)

\* cancelWait(), of a read that VTIME ends.
Cancel ==
  /\ phase = "waiting" /\ read.timed
  /\ UNCHANGED <<mode, exited, given>>
  /\ Attempt([read EXCEPT !.interrupted = TRUE], terminal)

\* Mutant of ResumeRead: a read that waits for VTIME as well is left waiting.
ResumeReadUntimed(T) ==
  IF phase = "waiting" /\ ~read.timed THEN Attempt(read, T)
  ELSE terminal' = T /\ UNCHANGED <<phase, read, log, reached>>

\* Input resumes the read that waits for it.
ResumeRead(T) ==
  IF phase = "waiting" THEN Attempt(read, T)
  ELSE terminal' = T /\ UNCHANGED <<phase, read, log, reached>>

ProvideInput(chunk) ==
  /\ given + Len(chunk) <= MaxGiven
  /\ given' = given + Len(chunk)
  /\ ResumeRead(Given(terminal, chunk))
  /\ UNCHANGED <<mode, exited>>

ProvideEndOfInput ==
  /\ given < MaxGiven
  /\ given' = given + 1
  /\ ResumeRead([terminal EXCEPT
                   !.ends = Append(@, [at |-> TailIndex(terminal), id |-> given + 1])])
  /\ UNCHANGED <<mode, exited>>

HasInput(T) == T.queue # <<>> \/ T.ends # <<>>
Flushed(T) ==
  [T EXCEPT !.queue = <<>>, !.ends = <<>>, !.position = After(@, Len(T.queue))]
FlushRecord(T) ==
  [kind |-> "flush", bytes |-> T.queue,
   tokens |-> [i \in DOMAIN T.ends |-> [at |-> Before(T.ends[i].at, T.position),
                                        id |-> T.ends[i].id]]]

\* TCFLSH, TCSETS and TCSETSF.
Ioctl(flush, settings) ==
  LET flushes == flush /\ HasInput(terminal)
  IN /\ Executes
     /\ UNCHANGED <<phase, read, exited, given, reached>>
     /\ terminal' = IF flush THEN Flushed(terminal) ELSE terminal
     /\ mode' = settings
     /\ log' = Append(log, Entry(
                 (IF flushes THEN <<FlushRecord(terminal)>> ELSE <<>>) \o
                 (IF settings # mode THEN <<[kind |-> "mode", termios |-> mode]>> ELSE <<>>),
                 FALSE, terminal, FALSE))

\* SendTerminalSignal(): Ctrl+C discards the input unless NOFLSH, and nothing
\* before it can be undone.  A handled one interrupts a read that waits.
SendSignal(handled) ==
  /\ ~exited
  /\ terminal' = IF mode.noflsh THEN terminal ELSE Flushed(terminal)
  /\ log' = <<>>
  /\ read' = IF phase = "waiting"
             THEN [read EXCEPT !.interrupted = @ \/ handled, !.barred = TRUE] ELSE read
  /\ UNCHANGED <<mode, phase, exited, given, reached>>

UndoRead(T, r) ==
  LET back == Prepend(Without(T, Min({r.drop, Available(T)})), r.putback)
  IN IF r.end # <<>> /\ ~r.waited
     THEN [back EXCEPT !.ends = <<[at |-> back.position, id |-> r.end[1]]>> \o @]
     ELSE back

UndoFlush(T, r) ==
  LET back == Prepend(T, r.bytes)
  IN [back EXCEPT !.ends =
        [i \in DOMAIN r.tokens |-> [r.tokens[i] EXCEPT !.at = After(back.position, @)]] \o @]

\* UndoTerminalJournal(), for the records newest first.
UndoRecord(r, T) ==
  CASE r.kind = "read" -> UndoRead(T, r)
    [] r.kind = "flush" -> UndoFlush(T, r)
    [] r.kind = "mode" -> T

Undo ==
  LET e == Last(log)
      modes == {i \in DOMAIN e.records : e.records[i].kind = "mode"}
  IN /\ phase = "idle" /\ log # <<>>
     /\ terminal' = FoldRight(UndoRecord, e.records, terminal)
     /\ mode' = IF modes = {} THEN mode ELSE e.records[Min(modes)].termios
     /\ exited' = (exited /\ ~e.exits)
     /\ log' = Front(log)
     /\ reached' = e.reached
     /\ UNCHANGED <<phase, read, given>>

\* The program ends, and what was typed for it is forgotten; a signal that kills
\* it, which may find it waiting, cannot be undone.
Exit(killed) ==
  /\ IF killed THEN ~exited /\ (phase = "waiting" => read.barred) ELSE Executes
  /\ UNCHANGED <<mode, given, reached>>
  /\ exited' = TRUE
  /\ terminal' = EmptyTerminal
  /\ EndRead
  /\ log' = IF killed THEN <<>>
            ELSE [i \in 1 .. Len(log) + 1 |->
                    [Append(log, Entry(<<>>, TRUE, terminal, FALSE))[i] EXCEPT !.cleared = TRUE]]

\* A program starts: the same one over, which keeps input given since it ended, or
\* another, built since (which clears the input).
StartProgram(built) ==
  /\ terminal' = IF exited /\ ~built THEN terminal ELSE EmptyTerminal
  /\ mode' = DefaultMode /\ exited' = FALSE /\ log' = <<>>
  /\ EndRead
  /\ UNCHANGED <<given, reached>>

Next ==
  \/ \E size \in Sizes, nonblock \in BOOLEAN : Read(size, nonblock)
  \/ Tick \/ Resume \/ Cancel
  \/ \E chunk \in Chunks : ProvideInput(chunk)
  \/ ProvideEndOfInput
  \/ \E flush \in BOOLEAN, settings \in Modes : Ioctl(flush, settings)
  \/ \E handled \in BOOLEAN : SendSignal(handled)
  \/ Undo
  \/ \E killed \in BOOLEAN : Exit(killed)
  \/ \E built \in BOOLEAN : StartProgram(built)

Spec == Init /\ [][Next]_vars

\* Program time passes, and the host resumes a read when its time is up.
FairSpec == Spec /\ WF_vars(Tick) /\ WF_vars(Resume)

-----------------------------------------------------------------------------
(* Properties *)

Bytes == [id : Nat, newline : BOOLEAN]
Index == 0 .. Indices - 1
Terminals == [queue : Seq(Bytes), position : Index, ends : Seq([at : Index, id : Nat])]

\* Every variable has its type.
TypeOK ==
  /\ terminal \in Terminals /\ mode \in Modes
  /\ phase \in {"idle", "waiting"}
  /\ read.size \in Nat /\ read.wait_tail \in Index /\ read.found \in Terminals
  /\ exited \in BOOLEAN /\ given \in Nat /\ reached \in 0 .. given
  /\ \A i \in DOMAIN log : log[i].found \in Terminals /\ log[i].mode \in Modes

Ids(seq) == [i \in DOMAIN seq |-> seq[i].id]
Ascending(seq) == \A i, j \in DOMAIN seq : i < j => seq[i] < seq[j]
\* How many of the bytes queued were given before the k-th token.
Ahead(T, k) == Cardinality({i \in DOMAIN T.queue : T.queue[i].id < T.ends[k].id})

\* Bytes reach the program once, in the order given, and each token stays at its place
\* among them, through reads, undone reads, flushes and a program's end (terminal.c:85).
InOrder ==
  /\ TypeOK
  /\ Ascending(<<reached>> \o Ids(terminal.queue)) /\ Ascending(Ids(terminal.ends))
  /\ \A k \in DOMAIN terminal.ends :
       Before(terminal.ends[k].at, terminal.position) = Ahead(terminal, k)

\* No input is missed: a read is left waiting only while the queue has no token, and
\* fewer bytes than it has to find (provideInput, WaitForTerminalInput).
NoneMissed ==
  phase = "waiting" =>
    terminal.ends = <<>> /\ Len(terminal.queue) < Need(read)

Since(seq, e) == SelectSeq(seq, LAMBDA item : item.id > e.upto)

\* Undo gives back the bytes an instruction found, or found before it waited, and takes
\* away the rest of what came while it waited, with what came since behind them; the
\* tokens too, unless it waited; and the settings (TakeTerminalInput, FlushTerminalInput).
\* Past an end of the program, which cleared the queue, and with a position below zero,
\* it does not (README.md, known divergences).
UndoGivesBack ==
  [][Undo =>
       LET e == Last(log)
       IN ~e.cleared /\ e.found.position < Indices - MaxGiven =>
            /\ terminal'.queue = e.found.queue \o Since(terminal.queue, e)
            /\ ~e.waited => Ids(terminal'.ends) = Ids(e.found.ends \o Since(terminal.ends, e))
            /\ mode' = e.mode]_vars

\* A read that VTIME ends does end, however often it starts over, unless what it had
\* found is discarded and it waits for a first byte again (WaitForTerminalInput, handleSignal).
TimedReadEnds == (phase = "waiting" /\ read.timed) ~> ~(phase = "waiting" /\ read.timed)
=============================================================================
