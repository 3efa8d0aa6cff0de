----------------------------- MODULE MCBatching -----------------------------
(***************************************************************************)
(* Instances of Batching for TLC.                                          *)
(***************************************************************************)
EXTENDS Batching

\* Session 1 belongs to one client, session 2 to the other.
CONSTANTS c1, c2
MCOwner == [s \in Sessions |-> IF s = 1 THEN c1 ELSE c2]
Routine == [mode |-> "routine", distance |-> 0, interval |-> 1]
NoReport == [mode |-> "noReport", distance |-> 0, interval |-> 1]
Trip(d, i) == [mode |-> "trip", distance |-> d, interval |-> i]
\* sessions passed to the modem, whose commands cross, without a restart or with
\* one kind of them; a restart beside a single command, or beside trips; a trip
\* beside a session;
\* and two trips, one command after the other
MCLoads == {[options |-> {Routine, NoReport}, hasty |-> TRUE, crashes |-> 0],
            [options |-> {Routine}, hasty |-> TRUE, crashes |-> 1],
            [options |-> {Routine, NoReport}, hasty |-> FALSE, crashes |-> 1],
            [options |-> {Trip(2, 1)}, hasty |-> FALSE, crashes |-> 1],
            [options |-> {Routine, Trip(1, 1)}, hasty |-> FALSE, crashes |-> 0],
            [options |-> {Trip(2, 2), Trip(3, 1)}, hasty |-> FALSE, crashes |-> 0]}

=============================================================================
