---------------------------- MODULE BrowserPipe ----------------------------
(***************************************************************************)
(* The pipes of a guest program: browserpipe.c and the system calls that   *)
(* reach it (pipe2, dup, dup2, close, fcntl, read, write, poll, sendfile). *)
(*                                                                         *)
(* There is one process, so both ends of a pipe are its own.  A call that  *)
(* cannot proceed halts; only a signal handler, which runs calls of its    *)
(* own while the first one waits, or the host can end the wait.  An        *)
(* interrupted call starts over from its arguments when its handler asked  *)
(* for SA_RESTART, and looks its descriptor up again.                      *)
(***************************************************************************)
EXTENDS Integers, Sequences, FiniteSets

CONSTANTS
  Pipes,        \* the addresses calloc() gives struct BytePipe
  Fds,          \* the numbers of descriptors the host has
  Limit,        \* RLIMIT_NOFILE: a descriptor of this number or more is refused
  Capacity,     \* PIPE_CAPACITY
  Atomic,       \* PIPE_ATOMIC
  Sizes,        \* the sizes a program reads and writes
  Serials,      \* bound: bytes are numbered modulo this, which tells a ring's apart
  MaxFrames     \* bound: handlers running inside one another

ASSUME PipeAssumption ==
  /\ "none" \notin Pipes
  /\ Fds \subseteq Nat /\ IsFiniteSet(Fds) /\ 0 \in Fds /\ Limit \in Nat
  /\ Capacity \in Nat \ {0} /\ Atomic \in 1..Capacity
  /\ Sizes \subseteq Nat
  /\ Serials \in Nat /\ Serials > Capacity /\ MaxFrames \in Nat

VARIABLES
  fds,      \* the process's table: what each descriptor is
  ends,     \* the list `ends`: which end of which pipe a descriptor holds
  pipes,    \* the allocated struct BytePipe
  doing,    \* what the process does: runs, is in a call, or waits in one
  frames,   \* the signal frames: what each handler's return goes back to
  answered  \* history: what reads and writes learnt of each pipe's far end

vars == <<fds, ends, pipes, doing, frames, answered>>

NoEnd == [write |-> FALSE, pipe |-> "none"]
Free == [head |-> 0, size |-> 0, readers |-> 0, writers |-> 0,
         readflags |-> FALSE, writeflags |-> FALSE,
         bytes |-> [i \in 0..Capacity - 1 |-> 0], written |-> 0]
Live(p) == pipes[p].readers + pipes[p].writers > 0

Ops == {"read", "write", "sendfile", "poll"}
Call == [op : Ops \ {"poll"}, fd : Fds, n : Sizes] \cup [op : {"poll"}, fd : Fds, n : {0}]
Running == [state |-> "run", call |-> [op |-> "poll", fd |-> 0, n |-> 0]]
In(c) == [state |-> "call", call |-> c]
Waiting(c) == [state |-> "wait", call |-> c]
----------------------------------------------------------------------------
(* The list of ends.  Each operator takes and gives the pair of it and the  *)
(* pipes, as Add() and BrowserPipeForget() change both.                     *)

HasEnd(es, fd) == es[fd] # NoEnd

\* Add(): a descriptor more on one end of p.
Added(s, fd, write, p) ==
  [ends |-> [s.ends EXCEPT ![fd] = [write |-> write, pipe |-> p]],
   pipes |-> IF write
             THEN [s.pipes EXCEPT ![p].writers = @ + 1]
             ELSE [s.pipes EXCEPT ![p].readers = @ + 1]]

\* BrowserPipeDup(): a copy of a pipe's descriptor is the same end.
Duplicated(s, old, new) ==
  IF HasEnd(s.ends, old)
  THEN Added(s, new, s.ends[old].write, s.ends[old].pipe)
  ELSE s

\* BrowserPipeForget(): the last descriptor of both ends frees the pipe.
Forgotten(s, fd) ==
  IF ~HasEnd(s.ends, fd)
  THEN s
  ELSE LET e == s.ends[fd]
           p == s.pipes[e.pipe]
           left == IF e.write THEN [p EXCEPT !.writers = @ - 1]
                   ELSE [p EXCEPT !.readers = @ - 1]
       IN [ends |-> [s.ends EXCEPT ![fd] = NoEnd],
           pipes |-> [s.pipes EXCEPT ![e.pipe] =
                        IF left.readers = 0 /\ left.writers = 0 THEN Free ELSE left]]

Lists == [ends |-> ends, pipes |-> pipes]
SetLists(s) == ends' = s.ends /\ pipes' = s.pipes

\* What was learnt of a pipe is forgotten with it.
Remembered(a) == [p \in Pipes |-> IF pipes'[p] = Free THEN {} ELSE a[p]]
----------------------------------------------------------------------------
(* Moving bytes.  A byte is its place in what was written into its pipe, and *)
(* a slot that holds no byte any more is not told apart from a fresh one.    *)

Space(p) == Capacity - pipes[p].size
Smaller(a, b) == IF a < b THEN a ELSE b

\* How far slot i is from slot `from`, going round the ring.
Past(from, i) == (i - from) % Capacity

\* Read(): takes n bytes from the head of the ring.
Taken(q, n) ==
  [q EXCEPT !.head = (@ + n) % Capacity,
            !.size = @ - n,
            !.bytes = [i \in DOMAIN @ |-> IF Past(q.head, i) < n THEN 0 ELSE @[i]]]

\* Mutant: the bytes go where they would in a ring whose head is slot 0.
PutFromStart(q, n) ==
  [q EXCEPT !.size = @ + n,
            !.written = (@ + n) % Serials,
            !.bytes = [i \in DOMAIN @ |->
                         IF Past(q.size, i) < n
                         THEN (q.written + Past(q.size, i)) % Serials
                         ELSE @[i]]]

\* Write(): puts n bytes behind the tail of the ring.
Put(q, n) ==
  LET tail == q.head + q.size
  IN [q EXCEPT !.size = @ + n,
               !.written = (@ + n) % Serials,
               !.bytes = [i \in DOMAIN @ |->
                            IF Past(tail, i) < n
                            THEN (q.written + Past(tail, i)) % Serials
                            ELSE @[i]]]
----------------------------------------------------------------------------
(* When a call waits, and what poll() says. *)

EndOf(fd) == ends[fd]
PipeOf(fd) == pipes[ends[fd].pipe]
Nonblocking(fd) ==
  IF EndOf(fd).write THEN PipeOf(fd).writeflags ELSE PipeOf(fd).readflags

\* Mutant: a read of an empty pipe waits whether or not it has writers.
BlocksPastEnd(fd, write, size) ==
  /\ HasEnd(ends, fd) /\ size # 0 /\ ~Nonblocking(fd)
  /\ IF write
     THEN /\ PipeOf(fd).readers > 0
          /\ IF size <= Atomic THEN size > Capacity - PipeOf(fd).size
                               ELSE PipeOf(fd).size = Capacity
     ELSE PipeOf(fd).size = 0

\* WaitForBrowserPipe(): whether a read or a write of `size` bytes halts.
Blocks(fd, write, size) ==
  /\ HasEnd(ends, fd) /\ size # 0 /\ ~Nonblocking(fd)
  /\ IF write
     THEN /\ PipeOf(fd).readers > 0
          /\ IF size <= Atomic THEN size > Capacity - PipeOf(fd).size
                               ELSE PipeOf(fd).size = Capacity
     ELSE PipeOf(fd).size = 0 /\ PipeOf(fd).writers > 0

\* Poll(): the events of one descriptor, of those its end can have.
Revents(fd) ==
  LET p == PipeOf(fd)
  IN IF EndOf(fd).write
     THEN (IF p.readers = 0 THEN {"POLLERR"} ELSE {})
            \cup (IF p.size < Capacity THEN {"POLLOUT"} ELSE {})
     ELSE (IF p.writers = 0 THEN {"POLLHUP"} ELSE {})
            \cup (IF p.size > 0 THEN {"POLLIN"} ELSE {})

\* A call on a descriptor of the wrong end, or of no pipe, answers at once.
Fits(c) == HasEnd(ends, c.fd)
             /\ (c.op = "poll" \/ (EndOf(c.fd).write <=> c.op # "read"))

Waits(c) ==
  /\ Fits(c)
  /\ CASE c.op = "read" -> Blocks(c.fd, FALSE, c.n)
       [] c.op = "write" -> Blocks(c.fd, TRUE, c.n)
       \* SysSendfile(): a size past PIPE_ATOMIC asks for any space at all
       [] c.op = "sendfile" -> Blocks(c.fd, TRUE, IF c.n > 0 THEN Atomic + 1 ELSE 0)
       [] c.op = "poll" -> Revents(c.fd) = {}
----------------------------------------------------------------------------
Init ==
  /\ fds = [f \in Fds |-> IF f = 0 THEN "file" ELSE "none"]
  /\ ends = [f \in Fds |-> NoEnd]
  /\ pipes = [p \in Pipes |-> Free]
  /\ doing = Running
  /\ frames = <<>>
  /\ answered = [p \in Pipes |-> {}]

Runs == doing.state = "run"
\* The lowest numbers the host has not open.
LowestFree(f) == fds[f] = "none" /\ \A g \in Fds : g < f => fds[g] # "none"

\* SysPipe2(): two descriptors of the host's lowest numbers, closed again when
\* the limit refuses one of them.  The new pipe takes any free memory.
Pipe2(nonblock) ==
  /\ Runs
  /\ \E p \in Pipes, r, w \in Fds :
       /\ ~Live(p)
       /\ LowestFree(r)
       /\ fds[w] = "none" /\ w # r
       /\ \A g \in Fds : g < w => (fds[g] # "none" \/ g = r)
       /\ LET fresh == [pipes EXCEPT ![p] = [Free EXCEPT !.readflags = nonblock,
                                                         !.writeflags = nonblock]]
              made == Added(Added([ends |-> ends, pipes |-> fresh], r, FALSE, p), w, TRUE, p)
          IN IF r >= Limit \/ w >= Limit
             THEN SetLists(Forgotten(Forgotten(made, r), w)) /\ UNCHANGED fds
             ELSE SetLists(made) /\ fds' = [fds EXCEPT ![r] = "pipe", ![w] = "pipe"]
  /\ answered' = Remembered(answered)
  /\ UNCHANGED <<doing, frames>>

\* SysDup(), and fcntl(F_DUPFD): the copy has the host's lowest free number.
Dup(old) ==
  /\ Runs /\ fds[old] # "none"
  /\ \E new \in Fds :
       /\ LowestFree(new) /\ new < Limit
       /\ SetLists(Duplicated(Lists, old, new))
       /\ fds' = [fds EXCEPT ![new] = fds[old]]
  /\ UNCHANGED <<doing, frames, answered>>

\* Mutant: a copy over another descriptor leaves that one's end in the list.
Dup2KeepsEnd(old, new) ==
  /\ Runs /\ old # new /\ new < Limit /\ fds[old] # "none"
  /\ SetLists(IF fds[old] = "pipe" THEN Duplicated(Lists, old, new) ELSE Lists)
  /\ fds' = [fds EXCEPT ![new] = fds[old]]
  /\ answered' = Remembered(answered)
  /\ UNCHANGED <<doing, frames>>

\* SysDup2(), SysDup3(): what `new` was is dropped first, then `old` copied.
Dup2(old, new) ==
  /\ Runs /\ old # new /\ new < Limit /\ fds[old] # "none"
  /\ LET dropped == IF fds[new] = "none" THEN Lists ELSE Forgotten(Lists, new)
         copied == IF fds[old] = "pipe" THEN Duplicated(dropped, old, new) ELSE dropped
     IN SetLists(copied)
  /\ fds' = [fds EXCEPT ![new] = fds[old]]
  /\ answered' = Remembered(answered)
  /\ UNCHANGED <<doing, frames>>

\* SysClose(): the table's entry goes, then kFdCbBrowserPipe.close forgets.
Close(fd) ==
  /\ Runs /\ fds[fd] # "none"
  /\ fds' = [fds EXCEPT ![fd] = "none"]
  /\ SetLists(IF fds[fd] = "pipe" THEN Forgotten(Lists, fd) ELSE Lists)
  /\ answered' = Remembered(answered)
  /\ UNCHANGED <<doing, frames>>

\* fcntl(F_SETFL) and ioctl(FIONBIO): the flags are the end's, not the copy's.
SetFlags(fd, nonblock) ==
  /\ Runs /\ HasEnd(ends, fd)
  /\ pipes' = IF EndOf(fd).write
              THEN [pipes EXCEPT ![EndOf(fd).pipe].writeflags = nonblock]
              ELSE [pipes EXCEPT ![EndOf(fd).pipe].readflags = nonblock]
  /\ UNCHANGED <<fds, ends, doing, frames, answered>>
----------------------------------------------------------------------------
\* The program makes a call.  One on a wrong descriptor answers EBADF and
\* changes nothing, unless it was a right one when the call first began.
Enter(c) ==
  /\ Runs /\ Fits(c)
  /\ doing' = In(c)
  /\ UNCHANGED <<fds, ends, pipes, frames, answered>>

\* WaitForBrowserPipe(), Poll() of syscall.c: the call halts.
Halt ==
  /\ doing.state = "call" /\ Waits(doing.call)
  /\ doing' = Waiting(doing.call)
  /\ UNCHANGED <<fds, ends, pipes, frames, answered>>

Ready == doing.state = "call" /\ ~Waits(doing.call)
Learn(p, what) == answered' = [answered EXCEPT ![p] = @ \cup {what}]

\* Mutant: an empty nonblocking pipe reads as ended.
ReadEndsWhenEmpty ==
  /\ Ready /\ doing.call.op = "read" /\ Fits(doing.call) /\ doing.call.n > 0
  /\ LET p == EndOf(doing.call.fd).pipe
         n == Smaller(doing.call.n, pipes[p].size)
     IN /\ pipes' = [pipes EXCEPT ![p] = Taken(@, n)]
        /\ IF n = 0 THEN Learn(p, "EOF") ELSE UNCHANGED answered
  /\ doing' = Running
  /\ UNCHANGED <<fds, ends, frames>>

\* Read(): bytes, end of file, or EAGAIN.
Read ==
  /\ Ready /\ doing.call.op = "read" /\ Fits(doing.call) /\ doing.call.n > 0
  /\ LET p == EndOf(doing.call.fd).pipe
         n == Smaller(doing.call.n, pipes[p].size)
     IN /\ pipes' = [pipes EXCEPT ![p] = Taken(@, n)]
        /\ IF n = 0 /\ pipes[p].writers = 0
           THEN Learn(p, "EOF")
           ELSE UNCHANGED answered
  /\ doing' = Running
  /\ UNCHANGED <<fds, ends, frames>>

\* How many bytes Write() takes of n, and SysSendfile()'s loop of n.
Accepted(p, op, n) ==
  CASE pipes[p].readers = 0 -> 0
    [] op = "write" /\ n <= Atomic /\ n > Space(p) -> 0
    [] OTHER -> Smaller(n, Space(p))

\* Write(), and sendfile() from a file: bytes, EPIPE with its SIGPIPE, or
\* EAGAIN.  A full pipe turns sendfile() away before it looks for readers.
Write ==
  /\ Ready /\ doing.call.op \in {"write", "sendfile"} /\ Fits(doing.call)
  /\ LET p == EndOf(doing.call.fd).pipe
         n == Accepted(p, doing.call.op, doing.call.n)
     IN /\ pipes' = [pipes EXCEPT ![p] = Put(@, n)]
        /\ IF pipes[p].readers = 0 /\ doing.call.n > 0
                /\ (doing.call.op = "write" \/ Space(p) > 0)
           THEN Learn(p, "EPIPE")
           ELSE UNCHANGED answered
  /\ doing' = Running
  /\ UNCHANGED <<fds, ends, frames>>

\* Every other answer: poll()'s events, EBADF, a size of 0, another file.
Answer ==
  /\ Ready
  /\ \/ doing.call.op = "poll"
     \/ ~Fits(doing.call)
     \/ doing.call.op = "read" /\ doing.call.n = 0
  /\ doing' = Running
  /\ UNCHANGED <<fds, ends, pipes, frames, answered>>
----------------------------------------------------------------------------
(* Signals.  A handler runs calls of its own, between two calls of the      *)
(* program or inside one that waits.                                        *)

\* CheckInterrupt(): SA_RESTART sends the frame back to the call; poll() never
\* restarts, GuestWaitInterrupted() not being the restartable form.
Restarts(restart) == restart /\ doing.state = "wait" /\ doing.call.op # "poll"

Handler(restart) ==
  /\ doing.state \in {"run", "wait"} /\ Len(frames) < MaxFrames
  /\ frames' = Append(frames, IF Restarts(restart) THEN In(doing.call) ELSE Running)
  /\ doing' = Running
  /\ UNCHANGED <<fds, ends, pipes, answered>>

\* Mutant: the handler's return goes back into the wait.
ReturnToWait ==
  /\ Runs /\ frames # <<>>
  /\ doing' = IF frames[Len(frames)].state = "run" THEN Running
              ELSE Waiting(frames[Len(frames)].call)
  /\ frames' = SubSeq(frames, 1, Len(frames) - 1)
  /\ UNCHANGED <<fds, ends, pipes, answered>>

\* rt_sigreturn: the interrupted call starts over, or the program goes on.
Return ==
  /\ Runs /\ frames # <<>>
  /\ doing' = frames[Len(frames)]
  /\ frames' = SubSeq(frames, 1, Len(frames) - 1)
  /\ UNCHANGED <<fds, ends, pipes, answered>>

\* cancelWait(): the call answers EINTR.
Cancel ==
  /\ doing.state = "wait"
  /\ doing' = Running
  /\ UNCHANGED <<fds, ends, pipes, frames, answered>>

Next ==
  \/ \E b \in BOOLEAN : Pipe2(b) \/ Handler(b)
  \/ \E f \in Fds : Dup(f) \/ Close(f)
  \/ \E f, g \in Fds : Dup2(f, g)
  \/ \E f \in Fds, b \in BOOLEAN : SetFlags(f, b)
  \/ \E c \in Call : Enter(c)
  \/ Halt \/ Read \/ Write \/ Answer
  \/ Return \/ Cancel

Spec == Init /\ [][Next]_vars
----------------------------------------------------------------------------
(* Type correctness. *)
TypeOK ==
  /\ fds \in [Fds -> {"none", "file", "pipe"}]
  /\ ends \in [Fds -> [write : BOOLEAN, pipe : Pipes \cup {"none"}]]
  /\ pipes \in [Pipes -> [head : 0..Capacity - 1, size : 0..Capacity,
                          readers : 0..Cardinality(Fds), writers : 0..Cardinality(Fds),
                          readflags : BOOLEAN, writeflags : BOOLEAN,
                          bytes : [0..Capacity - 1 -> 0..Serials - 1],
                          written : 0..Serials - 1]]
  /\ doing \in [state : {"run", "call", "wait"}, call : Call]
  /\ frames \in Seq([state : {"run", "call"}, call : Call]) /\ Len(frames) <= MaxFrames
  /\ answered \in [Pipes -> SUBSET {"EOF", "EPIPE"}]

\* The counts of readers and writers are the descriptors that hold an end, and
\* the list of ends and the process's table never disagree, through any order
\* of pipe2, dup, dup2 over an end and close: no descriptor holds a freed pipe,
\* none that was reused is still an end (README.md: "lifetime across
\* duplicates").
EndsCounted ==
  /\ TypeOK
  /\ \A f \in Fds : fds[f] = "pipe" <=> HasEnd(ends, f)
  /\ \A p \in Pipes :
       /\ pipes[p].readers = Cardinality({f \in Fds : ends[f] = [write |-> FALSE, pipe |-> p]})
       /\ pipes[p].writers = Cardinality({f \in Fds : ends[f] = [write |-> TRUE, pipe |-> p]})

\* The ring holds exactly what was written and not yet read, in order, wherever
\* its head has wrapped to: no byte is lost, given twice or overtaken.
StreamKept ==
  \A p \in Pipes : \A i \in 0..pipes[p].size - 1 :
    pipes[p].bytes[(pipes[p].head + i) % Capacity] 
      = (pipes[p].written - pipes[p].size + i) % Serials

\* End of file and a broken pipe are for good: once a read of a pipe answered 0
\* nothing can be read from it any more, and once a write answered EPIPE nobody
\* can read what a write would put, whatever was duplicated since.
FarEndFinal ==
  \A p \in Pipes :
    /\ "EOF" \in answered[p] => pipes[p].writers = 0 /\ pipes[p].size = 0
    /\ "EPIPE" \in answered[p] => pipes[p].readers = 0

\* A call only waits for what is not there: bytes, space or an end of file that
\* a handler brought about while it waited are seen by the restarted call.
NoMissedWake == doing.state = "wait" => Waits(doing.call)

\* The bytes a read or a write of this end moves when it does not wait.
Moves(c) ==
  LET p == EndOf(c.fd).pipe
  IN IF c.op = "read" THEN Smaller(c.n, pipes[p].size) ELSE Accepted(p, c.op, c.n)

\* poll() and the calls decide apart what an end is ready for, and agree, whatever was
\* written, read, duplicated or closed: where poll() says nothing a call waits, or answers
\* EAGAIN; where it says anything no call waits; POLLIN and POLLOUT are for calls that move
\* bytes, and with POLLHUP alone or POLLERR they move none, which every read and write that
\* learnt of the far end's closing was told.  Writes of 2 to PIPE_ATOMIC bytes are left out of what
\* POLLOUT promises: it is said of one free byte, and they wait for all of theirs.  A program
\* compares the two while it runs; what is to be waited for does not change as it calls.
PollHonest ==
  /\ Runs => \A c \in Call : c.op # "poll" /\ c.n > 0 /\ Fits(c) =>
       LET said == Revents(c.fd)
           whole == c.op = "write" /\ c.n \in 2..Atomic
       IN /\ said = {} => Moves(c) = 0 /\ (Waits(c) \/ Nonblocking(c.fd))
          /\ said # {} /\ ~whole => ~Waits(c)
          /\ "POLLIN" \in said \/ (said = {"POLLOUT"} /\ ~whole) => Moves(c) > 0
          /\ said = {"POLLHUP"} \/ "POLLERR" \in said => Moves(c) = 0
  /\ \A f \in Fds : HasEnd(ends, f) =>
       LET learnt == answered[EndOf(f).pipe]
       IN /\ "EOF" \in learnt /\ ~EndOf(f).write => Revents(f) = {"POLLHUP"}
          /\ "EPIPE" \in learnt /\ EndOf(f).write => "POLLERR" \in Revents(f)
=============================================================================
