---------------------------- MODULE BlockedPaths ----------------------------
(***************************************************************************)
(* Which endpoints of the injected host are closed (src/proxy.go,          *)
(* isBlockedPath).  A path is the sequence of its segments; a pattern is   *)
(* one in which Star stands for any segment.                                *)
(***************************************************************************)
EXTENDS Integers, Sequences, FiniteSets

CONSTANTS
    Blocked,    \* blockedPaths
    Star        \* the `*' of a pattern

ASSUME PathAssumption == Blocked \subseteq Seq(STRING) \ {<<>>}

Dots == {"", "."}

(* path.Clean of a rooted path, one segment after another.                   *)
CleanNext(before, segment) ==
    CASE segment \in Dots -> before
      [] segment = ".." -> SubSeq(before, 1, Len(before) - 1)
      [] OTHER -> Append(before, segment)

Clean(p) ==
    LET clean[n \in 0..Len(p)] ==
            IF n = 0 THEN <<>> ELSE CleanNext(clean[n - 1], p[n])
    IN  clean[Len(p)]

(* path.Match                                                                *)
Matches(pattern, p) ==
    /\ Len(pattern) = Len(p)
    /\ \A i \in 1..Len(p) : pattern[i] \in {Star, p[i]}

(* Fault: the path is matched as the client spells it.                       *)
IsBlockedAsSpelled(p) ==
    \E n \in 1..Len(p), pattern \in Blocked : Matches(pattern, SubSeq(p, 1, n))

(* The walk from the path up to the last parent below the root.              *)
IsBlockedPath(p) ==
    LET path == Clean(p)
    IN  \E n \in 1..Len(path), pattern \in Blocked :
            Matches(pattern, SubSeq(path, 1, n))

----------------------------------------------------------------------------
(* What the list promises, without a walk or a stack.  A segment names a     *)
(* directory that the path passes through for good if no part of the path    *)
(* after it steps up once more than it steps down.                           *)
Names(p, i, j) == {k \in i..j : p[k] \notin Dots \cup {".."}}
Ups(p, i, j) == {k \in i..j : p[k] = ".."}

Stays(p, i) ==
    /\ i \in Names(p, 1, Len(p))
    /\ \A j \in i..Len(p) :
           Cardinality(Ups(p, i, j)) < Cardinality(Names(p, i, j))

Under(p, pattern) ==
    LET stay == {i \in 1..Len(p) : Stays(p, i)}
        depth(i) == Cardinality({k \in stay : k <= i})
    IN  /\ Cardinality(stay) >= Len(pattern)
        /\ \A i \in stay : depth(i) <= Len(pattern) => pattern[depth(i)] \in {Star, p[i]}

Listed(p) == \E pattern \in Blocked : Under(p, pattern)
=============================================================================
