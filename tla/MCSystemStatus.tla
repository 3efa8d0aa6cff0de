--------------------------- MODULE MCSystemStatus ---------------------------
(* Instances of SystemStatus for TLC. *)
EXTENDS SystemStatus, TLC

CONSTANTS c1, w1, m1, m2, TYPE_WIFI, apn1, apn2

MCTypeOf == (w1 :> TYPE_WIFI) @@ (m1 :> TYPE_MOBILE) @@ (m2 :> TYPE_MOBILE)
MCApnOf == (w1 :> NoApn) @@ (m1 :> apn1) @@ (m2 :> apn2)

\* Networks that come and go, with a framework that dies and a daemon that
\* restarts; and clients that subscribe and unsubscribe.
MCLoads ==
    {[networks |-> Networks, items |-> {}, events |-> 3, deaths |-> 1, daemons |-> 2, asks |-> 0],
     [networks |-> Networks, items |-> {}, events |-> 4, deaths |-> 1, daemons |-> 0, asks |-> 0],
     [networks |-> {m1}, items |-> {"tac"}, events |-> 2, deaths |-> 0, daemons |-> 0, asks |-> 2],
     [networks |-> {m1}, items |-> {"tac"}, events |-> 1, deaths |-> 0, daemons |-> 0, asks |-> 3]}
=============================================================================
