-------------------------- MODULE MCModemRequests --------------------------
(***************************************************************************)
(* Instances of ModemRequests for TLC.                                     *)
(***************************************************************************)
EXTENDS ModemRequests

LOCAL Load(ni, what, says_, leaves_, odcpi_, crashes_, config) ==
    [ni |-> ni, notifications |-> what, says |-> says_, leaves |-> leaves_,
     odcpi |-> odcpi_, crashes |-> crashes_,
     denyOnLock |-> config, suplEsNo |-> ~config, cpMtlrEs |-> config]

\* Three NI requests that the user may accept, and two with more answers; two some
\* of which are decided by configuration, or when the client has left; ODCPI
\* requests with a restart of the modem; both kinds of requests.
MCLoads ==
    LET asking == {w \in Notifications : w.kind # "controlPlane" /\ ~w.emergency /\ ~w.override}
    IN {Load(3, asking, {"accept"}, FALSE, 0, 0, FALSE),
        Load(2, asking, UserResponses, TRUE, 0, 0, FALSE),
        Load(2, Notifications, {"noResponse"}, FALSE, 0, 0, TRUE),
        Load(0, {}, {}, FALSE, 5, 1, FALSE),
        Load(1, asking, {"accept"}, FALSE, 2, 0, FALSE)}

=============================================================================
