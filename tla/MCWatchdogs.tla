---------------------------- MODULE MCWatchdogs ----------------------------
EXTENDS Watchdogs

\* Four slots of a day: midnight, 9:00, noon and 16:30.
MCHourly == {0, 1, 2}
MCChecks == {1, 2, 3}
MCOpen   == {2}

=============================================================================
