------------------------------- MODULE MCDsp -------------------------------
\* Instances of Dsp for TLC: the settings lead to fragments of two and of one byte, or
\* cannot be had.  The cards are 44,100 Hz, 48,000 Hz and 16,000 Hz on a clock of nanoseconds
\* (441 frames in 10,000,000 ns), each with a program's rate it has to convert.
EXTENDS Dsp

Two(rate, fragment) == [rate |-> rate, fragment |-> fragment]
Fragments(period, periods, fails) == [period |-> period, periods |-> periods, fails |-> fails]
MCGeometry ==
  [s \in {Two(0, 0), Two(1, 0), Two(0, 1), Two(1, 1)} |->
     CASE s = Two(0, 0) -> Fragments(2, 2, "no")
       [] s = Two(0, 1) -> Fragments(1, 2, "no")
       [] s = Two(1, 0) -> Fragments(2, 2, "late")
       [] OTHER -> Fragments(2, 2, "early")]

Card(client, slave, period, rate, second) ==
  [client |-> client, slave |-> slave, period |-> period, rate |-> rate, second |-> second]
MCCards ==
  {Card(44000, 44100, 1024, 441, 10000000), Card(64000, 48000, 100, 3, 62500),
   Card(9007, 16000, 1024, 1, 62500)}
============================================================================
