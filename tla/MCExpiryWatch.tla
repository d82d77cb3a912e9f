--------------------------- MODULE MCExpiryWatch ---------------------------
(* Model values for the run of ExpiryWatch. *)
EXTENDS ExpiryWatch

MCAccessStages == <<2, 1, 0>>
MCRefreshStages == <<3, 1, 0>>
=============================================================================
