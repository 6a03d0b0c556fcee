------------------------------- MODULE UndoLog -------------------------------
(***************************************************************************)
(* What an undo history promises, whatever it stores.  A log holds, oldest *)
(* first, what the whole machine was when each entry began.  Work happens  *)
(* inside an open entry, which joins the log when it is done; entries are  *)
(* forgotten from the oldest on and may stop being undoable, never the     *)
(* reverse; and an undo takes the newest entry, and only one still         *)
(* undoable and followed by no effect that cannot be taken back, unless by *)
(* one of an entry that was given up (World), to where it began.           *)
(*                                                                         *)
(* A state is a function on Fixed, which every undo takes back, and on     *)
(* Places, which it takes back unless the host or a broken-off instruction *)
(* changed them outside any entry (the entry is `loose` there).            *)
(***************************************************************************)
EXTENDS Naturals, Sequences

CONSTANTS
  Places, Fixed,
  World,    \* loose there: followed by an effect of an entry that was given up
  Starts    \* the machines with a program loaded

VARIABLES
  now,   \* the machine
  log,   \* the entries: [state, loose, lost, undoable]
  open   \* the entry under way, if any

undolog == <<now, log, open>>

Differ(s, t) == {p \in Places : s[p] # t[p]}
Loosened(entries, places) ==
  [i \in DOMAIN entries |-> [entries[i] EXCEPT !.loose = @ \cup places]]
\* The same entries, of which some may no longer be undoable.
Weaker(new, old) ==
  /\ DOMAIN new = DOMAIN old
  /\ \A i \in DOMAIN old :
       /\ new[i].state = old[i].state /\ new[i].loose = old[i].loose
       /\ old[i].lost => new[i].lost
       /\ new[i].undoable => old[i].undoable
Without(entries, n) == SubSeq(entries, n + 1, Len(entries))
Entry(e, undoable) == [state |-> e.state, loose |-> e.loose, lost |-> e.lost, undoable |-> undoable]

Start == log = <<>> /\ open = <<>>

\* A step or a Poke begins.
Open ==
  /\ open = <<>>
  /\ open' = <<[state |-> now, loose |-> {}, lost |-> FALSE]>>
  /\ UNCHANGED <<now, log>>

\* It changes the machine.
Work == open # <<>> /\ UNCHANGED <<log, open>>

\* It joins the log, which may forget old entries for it.
Record ==
  /\ open # <<>> /\ open' = <<>>
  /\ log' # <<>>
  /\ log'[Len(log')].undoable => ~open[1].lost
  /\ log'[Len(log')] = Entry(open[1], log'[Len(log')].undoable)
  /\ Weaker(SubSeq(log', 1, Len(log') - 1), Without(log, Len(log) + 1 - Len(log')))
  /\ Len(log') <= Len(log) + 1

\* It is given up: what it changed, the world with it, is in no entry.
GiveUp ==
  /\ open # <<>> /\ open' = <<>>
  /\ Weaker(log', Loosened(log, Differ(now', open[1].state)
                                  \cup (IF open[1].lost THEN {World} ELSE {})))

\* Something else changes these places.
Outside(places) ==
  /\ Differ(now', now) \subseteq places
  /\ \A f \in Fixed : now'[f] = now[f]
  /\ log' = Loosened(log, places)
  /\ open' \in {open, Loosened(open, places)}

\* An effect that cannot be taken back: no entry of the log is undone past it.
Lose ==
  /\ Weaker(log', log) /\ \A i \in DOMAIN log' : log'[i].lost
  /\ log # <<>> /\ open = <<>> => ~log'[Len(log')].undoable
  /\ open' \in {open, [i \in DOMAIN open |-> [open[i] EXCEPT !.lost = TRUE]]}

Undo ==
  LET n == Len(log)
      edited == IF open = <<>> THEN {} ELSE Differ(now, open[1].state)
  IN /\ log # <<>> /\ log[n].undoable /\ (log[n].lost => World \in log[n].loose)
     /\ Differ(now', log[n].state) \subseteq log[n].loose \cup edited
     /\ \A f \in Fixed : now'[f] = log[n].state[f]
     /\ log' = Loosened(SubSeq(log, 1, n - 1), edited)
     /\ open' = <<>>

\* The host has the log start over, or another program replaces this one.
Forget ==
  /\ log' = <<>> /\ open' = <<>>
  /\ Differ(now', now) = {} \/ now' \in Starts

Step == \/ Open \/ Work \/ Record \/ GiveUp \/ Lose \/ Undo \/ Forget
        \/ \E places \in SUBSET Places : Outside(places)

Promise == Start /\ [][Step]_undolog
==============================================================================
