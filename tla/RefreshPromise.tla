--------------------------- MODULE RefreshPromise ---------------------------
(***************************************************************************)
(* What self-refresh promises to whoever uses the token (README of the     *)
(* gateway, "refresh is a critical section"; src/refresh.go, the comments  *)
(* on ensureFresh and minRefreshInterval), without saying how:             *)
(*                                                                         *)
(*   - one goroutine at a time has a refresh running;                      *)
(*   - between the end of one attempt, successful or not, and the start of *)
(*     the next there is a rest of at least MinInterval;                   *)
(*   - the credential in memory only moves forward in the history of the   *)
(*     file, and never ahead of it.                                        *)
(***************************************************************************)
EXTENDS Integers

CONSTANTS Procs, MinInterval

VARIABLES
    running,    \* the goroutines that have a refresh running
    rest,       \* ticks since the last attempt ended, up to MinInterval
    held,       \* the write of the file that memory was read from
    written     \* the last write of the file

vars == <<running, rest, held, written>>

Init ==
    /\ running = {}
    /\ rest = MinInterval
    /\ held \in Nat
    /\ written = held

Begin(p) ==
    /\ running = {}
    /\ rest = MinInterval
    /\ running' = {p}
    /\ UNCHANGED <<rest, held, written>>

End(p) ==
    /\ running = {p}
    /\ running' = {}
    /\ rest' = 0
    /\ UNCHANGED <<held, written>>

(* An attempt that ends before there is anything to run.                     *)
GiveUp ==
    /\ running = {}
    /\ rest = MinInterval
    /\ rest' = 0
    /\ UNCHANGED <<running, held, written>>

Pass ==
    /\ rest < MinInterval
    /\ rest' = rest + 1
    /\ UNCHANGED <<running, held, written>>

Load ==
    /\ held' \in held..written
    /\ UNCHANGED <<running, rest, written>>

Publish ==
    /\ written' = written + 1
    /\ UNCHANGED <<running, rest, held>>

Next ==
    \/ \E p \in Procs : Begin(p) \/ End(p)
    \/ GiveUp \/ Pass \/ Load \/ Publish

Spec == Init /\ [][Next]_vars
=============================================================================
