--------------------------- MODULE MCTokenSource ---------------------------
(* Model values for the run of TokenSource. *)
EXTENDS TokenSource

CONSTANTS handler, watcher, c1, c2

MCProcs == {handler, watcher}
MCCreds == {c1, c2}
=============================================================================
