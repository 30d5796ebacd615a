------------------------------- MODULE MCAlarm -------------------------------
(* Two or three threads, each sleeping for 0, 1 or 2 ticks.              *)
EXTENDS Alarm, TLC

CONSTANTS a, b, c

MCThreads == {a, b}
MCNaps == [MCThreads -> {0, 1, 2}]
MCThreads3 == {a, b, c}
MCNaps3 == [MCThreads3 -> {0, 1, 2}]
=============================================================================
