----------------------------- MODULE AsyncLoggingMC -----------------------------
(* A small instance of AsyncLogging for TLC: the pool of main.cxx, with one *)
(* thread, under two loggers: one that waits for room and is flushed        *)
(* periodically, and one that drives out the oldest.                        *)
EXTENDS AsyncLogging

CONSTANTS p1, p2, w1

TwoProducers == {p1, p2}
OneWorker == {w1}
First == {p1}
Second == {p2}
TwoAndOne == [p \in Producers |-> IF p = p1 THEN 2 ELSE 1]
===============================================================================
