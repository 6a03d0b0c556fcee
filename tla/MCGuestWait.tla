---------------------------- MODULE MCGuestWait ----------------------------
EXTENDS GuestWait

\* Signal 1 is one the host or the program sends, 2 the alarm.
OneRestarts == {<<"restart", "eintr">>}
OfEachKind == {<<"restart", "eintr">>, <<"ignore", "eintr">>, <<"die", "restart">>}

NoMasks == <<{}, {}>>
BackOnly == {-1}
=============================================================================
