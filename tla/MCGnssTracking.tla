--------------------------- MODULE MCGnssTracking ---------------------------
(***************************************************************************)
(* Instances of GnssTracking for TLC.                                      *)
(***************************************************************************)
EXTENDS GnssTracking

\* Session 1 and 3 belong to one client, session 2 to the other.
CONSTANTS c1, c2
MCOwner == [s \in Sessions |-> IF s % 2 = 1 THEN c1 ELSE c2]

\* Two commands in a row, time based sessions only, with a restart of the modem;
\* and sessions of both kinds, one command of each at a time.
MCLoads ==
    {[options |-> {o \in Options : ~o.distance /\ o.power >= o.interval}, owed |-> 2, crashes |-> 1],
     [options |-> {o \in Options : o.power = 1}, owed |-> 1, crashes |-> 0]}

=============================================================================
