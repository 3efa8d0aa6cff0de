----------------------------- MODULE MCGeofence -----------------------------
(* Instances of Geofence for TLC. *)
EXTENDS Geofence

CONSTANTS c1, c2, a

\* Two clients, of which one may be removed; one client with many commands,
\* or with a modem that restarts twice.
MCLoads ==
    {[clients |-> {c1, c2}, commands |-> 3, crashes |-> 1, failures |-> 1, breaches |-> 1],
     [clients |-> {c1}, commands |-> 4, crashes |-> 1, failures |-> 1, breaches |-> 0],
     [clients |-> {c1}, commands |-> 3, crashes |-> 2, failures |-> 0, breaches |-> 1]}
=============================================================================
