------------------------------ MODULE MCEvdev ------------------------------
EXTENDS Evdev, TLC

MCLocks == <<"caps">>
MCPackets == {<<Key("caps", 1)>>, <<Led("caps", 1), Report>>}

ReaderSymmetry == Permutations(Readers)
=============================================================================
