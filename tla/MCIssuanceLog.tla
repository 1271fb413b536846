---------------------------- MODULE MCIssuanceLog ---------------------------
(* Two different contents are enough to tell a rewritten log apart. *)
EXTENDS IssuanceLog

CONSTANTS d1, d2

MCData == {d1, d2}

=============================================================================
