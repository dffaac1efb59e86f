--------------------------- MODULE MCStatistics ---------------------------
(* Small instance of Statistics for TLC. *)
EXTENDS Statistics

CONSTANTS p1, w1

(* "user" is the key of a list and the base of a dynamic queue. *)
MCQueue == {<<"user", None>>, <<"user", "a">>}

MCUpper == <<1>>

MCResult == {
    [worker |-> w1, queue |-> <<"user", "a">>, kind |-> "success", count |-> 2, ms |-> 1],
    [worker |-> w1, queue |-> <<"user", None>>, kind |-> "panicked", count |-> 1, ms |-> 0] }

MCBudget == {
    [results |-> 2, changes |-> 0, faults |-> 0, ticks |-> 2, queries |-> 0],
    [results |-> 1, changes |-> 0, faults |-> 2, ticks |-> 1, queries |-> 0],
    [results |-> 1, changes |-> 2, faults |-> 1, ticks |-> 0, queries |-> 0],
    [results |-> 2, changes |-> 0, faults |-> 1, ticks |-> 0, queries |-> 0],
    [results |-> 1, changes |-> 2, faults |-> 0, ticks |-> 1, queries |-> 0],
    [results |-> 2, changes |-> 0, faults |-> 0, ticks |-> 0, queries |-> 1],
    [results |-> 1, changes |-> 1, faults |-> 0, ticks |-> 0, queries |-> 1],
    [results |-> 1, changes |-> 0, faults |-> 0, ticks |-> 1, queries |-> 1] }

===========================================================================
