----------------------------- MODULE MCRefresh -----------------------------
(* Model values for the runs of Refresh.  Three credentials and three writes *)
(* are what it takes for a child to be overtaken by another login before it  *)
(* writes, and for the older of the two to replace the newer.                *)
EXTENDS Refresh

CONSTANTS handler, watcher

MCProcs == {handler, watcher}
MCCreds == 1..MaxCred
MCTorn == {Rejected}
MCNone == {}
MCLast == {MaxCred}
=============================================================================
