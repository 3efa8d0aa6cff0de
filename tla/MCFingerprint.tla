---------------------------- MODULE MCFingerprint ---------------------------
(* Instances of Fingerprint for TLC. *)
EXTENDS Fingerprint

CONSTANTS s1, s2, t1, t2

\* One session that is locked out in every way; two sessions whose operations
\* are cancelled, by signals of either.
MCLoads ==
    {[sessions |-> {s1}, calls |-> {"resetLockout"}, reports |-> {"failed", "success"}],
     [sessions |-> {s1, s2}, calls |-> {"close", "cancel"},
      reports |-> {"success", "error", "canceled"}]}
=============================================================================
