-------------------------- MODULE MCTerminalInput --------------------------
(* Small instances of TerminalInput for TLC. *)
EXTENDS TerminalInput

Canonical == [canonical |-> TRUE, vmin |-> 1, vtime |-> 0, noflsh |-> FALSE]
Raw(vmin, vtime) ==
  [canonical |-> FALSE, vmin |-> vmin, vtime |-> vtime, noflsh |-> vtime = 0]

\* A key, and a line of one or two characters.
KeysAndLines == {<<FALSE>>, <<TRUE>>, <<FALSE, TRUE>>}
\* Canonical, and raw with a VMIN of two: the read waits, for ever.
LineAndRaw == {Canonical, Raw(2, 0)}
\* Every mode a read can wait in: for a line, for VTIME alone, for VMIN bytes,
\* and for VMIN bytes with a VTIME between them.
EveryWait == LineAndRaw \cup {Raw(0, 1), Raw(2, 2)}
=============================================================================
