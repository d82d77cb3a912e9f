--------------------------- MODULE GatewayProofs ---------------------------
(* Proofs about Startup and Handler, the life of a gateway process and of    *)
(* the requests in it, and about BlockedPaths, for every set of worlds,      *)
(* forms, requests, paths and patterns and every number of starts, crashes,  *)
(* keys, tokens and samples.                                                 *)
EXTENDS Handler, FiniteSetTheorems, SequenceTheorems, WellFoundedInduction, TLAPS

(* Blocked paths: the walk over a cleaned path and what it decides           *)

(* f holds what is clean after each of the first m segments of p.            *)
CleanUpTo(f, p, m) ==
    f = [n \in 0..m |-> IF n = 0 THEN <<>> ELSE CleanNext(f[n - 1], p[n])]

LEMMA CleanUnfolds ==
  ASSUME NEW p, NEW g, CleanUpTo(g, p, Len(p))
  PROVE  \E f : CleanUpTo(f, p, Len(p)) /\ Clean(p) = f[Len(p)]
<1>1. \E f : f = [n \in 0..Len(p) |-> IF n = 0 THEN <<>> ELSE CleanNext(f[n - 1], p[n])]
  BY DEF CleanUpTo
<1> DEFINE f == CHOOSE clean : clean = [n \in 0..Len(p) |-> IF n = 0 THEN <<>> ELSE CleanNext(clean[n - 1], p[n])]
<1>2. CleanUpTo(f, p, Len(p))
  BY <1>1, Zenon DEF CleanUpTo
<1>3. Clean(p) = f[Len(p)]
  BY DEF Clean
<1> QED
  BY <1>2, <1>3

(* A set of numbers that is not empty has a least element.                   *)
LEMMA LeastOf ==
  ASSUME NEW T \in SUBSET Nat, T # {}
  PROVE  \E x \in T : \A y \in T : x <= y
<1>1. PICK x \in T : \A y \in T : ~ (<<y, x>> \in OpToRel(<, Nat))
  BY NatLessThanWellFounded, WFMin
<1>2. ASSUME NEW y \in T, y < x
      PROVE  FALSE
  <2>1. <<y, x>> \in Nat \X Nat /\ <<y, x>>[1] < <<y, x>>[2]
    BY <1>2
  <2> QED
    BY <1>1, <2>1 DEF OpToRel
<1> QED
  BY <1>2

(* A recursive definition over 0..m has a value: the least m without one     *)
(* would have a predecessor that has, and one more step.                     *)
LEMMA CleanIsDefined ==
  ASSUME NEW p, NEW m \in Nat
  PROVE  \E f : CleanUpTo(f, p, m)
<1> DEFINE T == {n \in Nat : ~ \E f : CleanUpTo(f, p, n)}
<1> SUFFICES ASSUME T # {} PROVE FALSE
  OBVIOUS
<1>1. PICK x \in T : \A y \in T : x <= y
  <2>1. T \in SUBSET Nat
    OBVIOUS
  <2> HIDE DEF T
  <2> QED
    BY <2>1, LeastOf
<1>2. CASE x = 0
  <2> DEFINE f == [n \in 0..0 |-> <<>>]
  <2>1. CleanUpTo(f, p, 0)
    BY DEF CleanUpTo
  <2> QED
    BY <1>2, <2>1
<1>3. CASE x # 0
  <2>1. x - 1 \in Nat /\ x - 1 \notin T
    BY <1>1, <1>3
  <2>2. PICK f : CleanUpTo(f, p, x - 1)
    BY <2>1
  <2> DEFINE g == [n \in 0..x |-> IF n = x THEN CleanNext(f[x - 1], p[x]) ELSE f[n]]
  <2>3. ASSUME NEW n \in 0..x
        PROVE  g[n] = IF n = 0 THEN <<>> ELSE CleanNext(g[n - 1], p[n])
    <3>1. CASE n = x
      BY <1>3, <3>1
    <3>2. CASE n # x
      <4>1. n \in 0..x - 1 /\ g[n] = f[n]
        BY <3>2
      <4>2. f[n] = IF n = 0 THEN <<>> ELSE CleanNext(f[n - 1], p[n])
        BY <2>2, <4>1 DEF CleanUpTo
      <4>3. n # 0 => n - 1 \in 0..x /\ n - 1 # x /\ g[n - 1] = f[n - 1]
        BY <4>1
      <4> QED
        BY <4>1, <4>2, <4>3
    <3> QED
      BY <3>1, <3>2
  <2>4. g = [n \in 0..x |-> IF n = 0 THEN <<>> ELSE CleanNext(g[n - 1], p[n])]
    <3>1. g = [n \in 0..x |-> g[n]]
      OBVIOUS
    <3> HIDE DEF g
    <3> QED
      BY <2>3, <3>1
  <2>5. CleanUpTo(g, p, x)
    BY <2>4 DEF CleanUpTo
  <2> QED
    BY <2>5
<1> QED
  BY <1>2, <1>3

----------------------------------------------------------------------------
(* Positions that are counted from below and from above *)

UpTo(F, i) == {k \in F : k <= i}
From(F, i) == {k \in F : k >= i}

LEMMA Counted ==
  ASSUME NEW F, IsFiniteSet(F)
  PROVE  /\ Cardinality(F) \in Nat
         /\ \A i : /\ IsFiniteSet(UpTo(F, i)) /\ Cardinality(UpTo(F, i)) \in Nat
                   /\ IsFiniteSet(From(F, i)) /\ Cardinality(From(F, i)) \in Nat
                   /\ Cardinality(UpTo(F, i)) <= Cardinality(F)
                   /\ Cardinality(UpTo(F, i)) = Cardinality(F) => UpTo(F, i) = F
<1>1. ASSUME NEW i
      PROVE  UpTo(F, i) \in SUBSET F /\ From(F, i) \in SUBSET F
  BY DEF UpTo, From
<1> QED
  BY <1>1, FS_Subset, FS_CardinalityType

LEMMA CountedFromOne ==
  ASSUME NEW F, IsFiniteSet(F), \A k \in F : k \in Nat, NEW i \in F
  PROVE  Cardinality(UpTo(F, i)) \in 1..Cardinality(F)
<1>1. UpTo(F, i) # {}
  BY DEF UpTo
<1>2. Cardinality(UpTo(F, i)) # 0
  BY <1>1, Counted, FS_EmptySet
<1> QED
  BY <1>2, Counted

(* A position beyond all others is counted last from below and first from    *)
(* above.                                                                    *)
LEMMA Pushed ==
  ASSUME NEW F, IsFiniteSet(F), NEW x \in Nat, \A k \in F : k \in Nat /\ k < x
  PROVE  /\ Cardinality(F \cup {x}) = Cardinality(F) + 1
         /\ Cardinality(UpTo(F \cup {x}, x)) = Cardinality(F) + 1
         /\ Cardinality(From(F \cup {x}, x)) = 1
         /\ \A i \in F : /\ UpTo(F \cup {x}, i) = UpTo(F, i)
                         /\ Cardinality(From(F \cup {x}, i)) = Cardinality(From(F, i)) + 1
<1> DEFINE G == F \cup {x}
<1>1. x \notin F
  OBVIOUS
<1>2. Cardinality(G) = Cardinality(F) + 1
  BY <1>1, FS_AddElement
<1>3. UpTo(G, x) = G
  BY DEF UpTo
<1>4. From(G, x) = {x}
  BY DEF From
<1>5. Cardinality({x}) = 1
  BY FS_Singleton
<1>6. ASSUME NEW i \in F
      PROVE  /\ UpTo(G, i) = UpTo(F, i)
             /\ Cardinality(From(G, i)) = Cardinality(From(F, i)) + 1
  <2>1. UpTo(G, i) = UpTo(F, i)
    BY DEF UpTo
  <2>2. From(G, i) = From(F, i) \cup {x} /\ x \notin From(F, i)
    BY <1>1 DEF From
  <2>3. IsFiniteSet(From(F, i))
    BY Counted
  <2> QED
    BY <2>1, <2>2, <2>3, FS_AddElement
<1> QED
  BY <1>2, <1>3, <1>4, <1>5, <1>6

(* The position that is counted last is the only one that is counted first   *)
(* from above.                                                               *)
LEMMA Popped ==
  ASSUME NEW F, IsFiniteSet(F), \A k \in F : k \in Nat, NEW t \in F,
         Cardinality(UpTo(F, t)) = Cardinality(F), NEW G, G = F \ {t}
  PROVE  /\ Cardinality(G) = Cardinality(F) - 1
         /\ Cardinality(From(F, t)) = 1
         /\ \A i \in G : /\ UpTo(G, i) = UpTo(F, i)
                         /\ Cardinality(UpTo(F, i)) < Cardinality(F)
                         /\ Cardinality(From(G, i)) = Cardinality(From(F, i)) - 1
                         /\ Cardinality(From(F, i)) > 1
<1>1. UpTo(F, t) = F
  BY Counted
<1>2. \A i \in G : i < t
  BY <1>1 DEF UpTo
<1>3. Cardinality(G) = Cardinality(F) - 1
  BY <1>1, FS_RemoveElement
<1>4. From(F, t) = {t}
  BY <1>2 DEF From
<1>5. Cardinality({t}) = 1
  BY FS_Singleton
<1>6. ASSUME NEW i \in G
      PROVE  /\ UpTo(G, i) = UpTo(F, i)
             /\ Cardinality(UpTo(F, i)) < Cardinality(F)
             /\ Cardinality(From(G, i)) = Cardinality(From(F, i)) - 1
             /\ Cardinality(From(F, i)) > 1
  <2>0. i \in Nat /\ i < t /\ t \in Nat
    BY <1>2
  <2>1. UpTo(G, i) = UpTo(F, i) /\ t \notin UpTo(F, i)
    BY <2>0 DEF UpTo
  <2>2. Cardinality(UpTo(F, i)) < Cardinality(F)
    <3>1. /\ Cardinality(UpTo(F, i)) \in Nat /\ Cardinality(F) \in Nat
          /\ Cardinality(UpTo(F, i)) <= Cardinality(F)
          /\ Cardinality(UpTo(F, i)) # Cardinality(F)
      BY <2>0, <2>1, Counted
    <3> QED
      BY <3>1
  <2>3. From(G, i) = From(F, i) \ {t} /\ t \in From(F, i)
    BY <2>0 DEF From
  <2>4. Cardinality(From(G, i)) = Cardinality(From(F, i)) - 1
    <3>1. IsFiniteSet(From(F, i))
      BY Counted
    <3> QED
      BY ONLY <2>3, <3>1, FS_RemoveElement
  <2>5. /\ IsFiniteSet(From(G, i)) /\ Cardinality(From(G, i)) \in Nat
        /\ Cardinality(From(F, i)) \in Nat
    <3>1. IsFiniteSet(G)
      BY FS_RemoveElement
    <3> QED
      BY <3>1, Counted
  <2>6. From(G, i) # {}
    BY <2>0 DEF From
  <2>7. Cardinality(From(G, i)) # 0
    BY <2>5, <2>6, FS_EmptySet
  <2> QED
    BY <2>1, <2>2, <2>4, <2>5, <2>7
<1> QED
  BY <1>3, <1>4, <1>5, <1>6

----------------------------------------------------------------------------
(* Segments that stay, one more segment at a time *)

IsName(s) == s \notin Dots \cup {".."}

(* One more segment is one more name, one more step up, or neither.          *)
LEMMA OneMore ==
  ASSUME NEW p, NEW m \in Nat, NEW i \in 1..m + 1
  PROVE  /\ Cardinality(Names(p, i, m)) \in Nat /\ Cardinality(Ups(p, i, m)) \in Nat
         /\ IsName(p[m + 1]) =>
                Cardinality(Names(p, i, m + 1)) = Cardinality(Names(p, i, m)) + 1
         /\ ~ IsName(p[m + 1]) =>
                Cardinality(Names(p, i, m + 1)) = Cardinality(Names(p, i, m))
         /\ p[m + 1] = ".." =>
                Cardinality(Ups(p, i, m + 1)) = Cardinality(Ups(p, i, m)) + 1
         /\ p[m + 1] # ".." =>
                Cardinality(Ups(p, i, m + 1)) = Cardinality(Ups(p, i, m))
         /\ Cardinality(Names(p, m + 1, m)) = 0 /\ Cardinality(Ups(p, m + 1, m)) = 0
<1>1. /\ Names(p, i, m) \in SUBSET (1..m) /\ Ups(p, i, m) \in SUBSET (1..m)
      /\ m + 1 \notin Names(p, i, m) /\ m + 1 \notin Ups(p, i, m)
  BY DEF Names, Ups
<1>2. /\ IsFiniteSet(Names(p, i, m)) /\ Cardinality(Names(p, i, m)) \in Nat
      /\ IsFiniteSet(Ups(p, i, m)) /\ Cardinality(Ups(p, i, m)) \in Nat
  <2>1. IsFiniteSet(1..m)
    BY FS_Interval
  <2> QED
    BY <1>1, <2>1, FS_Subset, FS_CardinalityType
<1>3. /\ Names(p, i, m + 1) = IF IsName(p[m + 1]) THEN Names(p, i, m) \cup {m + 1}
                              ELSE Names(p, i, m)
      /\ Ups(p, i, m + 1) = IF p[m + 1] = ".." THEN Ups(p, i, m) \cup {m + 1}
                            ELSE Ups(p, i, m)
  BY DEF Names, Ups, IsName
<1>4. Names(p, m + 1, m) = {} /\ Ups(p, m + 1, m) = {}
  BY DEF Names, Ups
<1>5. /\ IsName(p[m + 1]) =>
             Cardinality(Names(p, i, m + 1)) = Cardinality(Names(p, i, m)) + 1
      /\ ~ IsName(p[m + 1]) =>
             Cardinality(Names(p, i, m + 1)) = Cardinality(Names(p, i, m))
  BY <1>1, <1>2, <1>3, FS_AddElement
<1>6. /\ p[m + 1] = ".." =>
             Cardinality(Ups(p, i, m + 1)) = Cardinality(Ups(p, i, m)) + 1
      /\ p[m + 1] # ".." =>
             Cardinality(Ups(p, i, m + 1)) = Cardinality(Ups(p, i, m))
  BY <1>1, <1>2, <1>3, FS_AddElement
<1> QED
  BY <1>2, <1>4, <1>5, <1>6, FS_EmptySet

(* The segments that stay, as far as the first m of them can tell.           *)
Staying(p, m) ==
    {i \in Names(p, 1, m) :
        \A j \in i..m : Cardinality(Ups(p, i, j)) < Cardinality(Names(p, i, j))}

LEMMA StayingNext ==
  ASSUME NEW p, NEW m \in Nat, NEW i
  PROVE  i \in Staying(p, m + 1) <=>
             /\ i \in Staying(p, m) \/ (i = m + 1 /\ IsName(p[m + 1]))
             /\ Cardinality(Ups(p, i, m + 1)) < Cardinality(Names(p, i, m + 1))
<1>1. i \in Names(p, 1, m + 1) <=> i \in Names(p, 1, m) \/ (i = m + 1 /\ IsName(p[m + 1]))
  BY DEF Names, IsName
<1>2. CASE i \in Names(p, 1, m)
  <2>1. i \in 1..m /\ i..m + 1 = (i..m) \cup {m + 1}
    BY <1>2 DEF Names
  <2> QED
    BY <1>1, <1>2, <2>1 DEF Staying
<1>3. CASE i = m + 1 /\ IsName(p[m + 1])
  <2>1. i..m + 1 = {m + 1}
    BY <1>3
  <2> QED
    BY <1>1, <1>3, <2>1 DEF Staying
<1>4. CASE i \notin Names(p, 1, m + 1)
  BY <1>1, <1>4 DEF Staying
<1> QED
  BY <1>1, <1>2, <1>3, <1>4

(* c is what is clean after m segments: the segments that stay, in their     *)
(* order; and how much more of the path after i steps down than up.          *)
Stack(p, m, c) ==
    LET F == Staying(p, m)
    IN  /\ c \in Seq(STRING) /\ Len(c) = Cardinality(F)
        /\ \A i \in F : c[Cardinality(UpTo(F, i))] = p[i]
        /\ \A d \in 1..Len(c) : \E i \in F : Cardinality(UpTo(F, i)) = d
        /\ \A i \in F : Cardinality(Names(p, i, m)) - Cardinality(Ups(p, i, m))
                            = Cardinality(From(F, i))

(* Only the first m segments stay, and there are finitely many of them.      *)
LEMMA StayingType ==
  ASSUME NEW p, NEW m \in Nat
  PROVE  /\ IsFiniteSet(Staying(p, m)) /\ Cardinality(Staying(p, m)) \in Nat
         /\ \A i \in Staying(p, m) : i \in 1..m /\ IsName(p[i])
<1>1. Staying(p, m) \in SUBSET (1..m) /\ \A i \in Staying(p, m) : IsName(p[i])
  BY DEF Staying, Names, IsName
<1>2. IsFiniteSet(1..m)
  BY FS_Interval
<1> QED
  BY <1>1, <1>2, FS_Subset, FS_CardinalityType

(* A segment that stays has one more name after it than steps up.            *)
LEMMA StayingCounts ==
  ASSUME NEW p, NEW m \in Nat, NEW i \in Staying(p, m)
  PROVE  /\ Cardinality(Ups(p, i, m)) < Cardinality(Names(p, i, m))
         /\ Cardinality(Ups(p, i, m)) \in Nat /\ Cardinality(Names(p, i, m)) \in Nat
<1>1. i \in 1..m
  BY StayingType
<1>2. m \in i..m /\ i \in 1..m + 1
  BY <1>1
<1> QED
  BY <1>2, OneMore DEF Staying

(* "" and "." change nothing.                                                *)
LEMMA StackDots ==
  ASSUME NEW p \in Seq(STRING), NEW m \in Nat, m + 1 <= Len(p), NEW c, Stack(p, m, c),
         p[m + 1] \in Dots
  PROVE  Stack(p, m + 1, c)
<1>0. ~ IsName(p[m + 1]) /\ p[m + 1] # ".."
  BY DEF IsName, Dots
<1>1. ASSUME NEW i \in 1..m + 1
      PROVE  /\ Cardinality(Names(p, i, m + 1)) = Cardinality(Names(p, i, m))
             /\ Cardinality(Ups(p, i, m + 1)) = Cardinality(Ups(p, i, m))
  BY <1>0, OneMore
<1>2. \A i \in Staying(p, m) : i \in 1..m + 1
  BY StayingType
<1>3. Staying(p, m + 1) = Staying(p, m)
  <2>1. ASSUME NEW i \in Staying(p, m) PROVE i \in Staying(p, m + 1)
    BY <1>1, <1>2, StayingNext, StayingCounts
  <2>2. ASSUME NEW i \in Staying(p, m + 1) PROVE i \in Staying(p, m)
    BY <1>0, StayingNext
  <2> QED
    BY <2>1, <2>2
<1> QED
  BY <1>1, <1>2, <1>3 DEF Stack

(* A name goes on top of the stack.                                          *)
LEMMA StackName ==
  ASSUME NEW p \in Seq(STRING), NEW m \in Nat, m + 1 <= Len(p), NEW c, Stack(p, m, c),
         IsName(p[m + 1])
  PROVE  Stack(p, m + 1, Append(c, p[m + 1]))
<1> DEFINE F == Staying(p, m)
           G == Staying(p, m + 1)
           d == Append(c, p[m + 1])
<1>0. p[m + 1] # ".." /\ p[m + 1] \in STRING
  BY DEF IsName
<1>1. ASSUME NEW i \in 1..m + 1
      PROVE  /\ Cardinality(Names(p, i, m + 1)) = Cardinality(Names(p, i, m)) + 1
             /\ Cardinality(Ups(p, i, m + 1)) = Cardinality(Ups(p, i, m))
             /\ Cardinality(Names(p, i, m)) \in Nat /\ Cardinality(Ups(p, i, m)) \in Nat
  BY <1>0, OneMore
<1>2. /\ Cardinality(Names(p, m + 1, m + 1)) = 1
      /\ Cardinality(Ups(p, m + 1, m + 1)) = 0
  BY <1>1, OneMore
<1>3. IsFiniteSet(F) /\ \A i \in F : i \in 1..m + 1 /\ i \in Nat /\ i < m + 1
  BY StayingType
<1>4. G = F \cup {m + 1}
  <2>1. ASSUME NEW i \in F PROVE i \in G
    BY <1>1, <1>3, StayingNext, StayingCounts
  <2>2. m + 1 \in G
    <3>1. Cardinality(Ups(p, m + 1, m + 1)) < Cardinality(Names(p, m + 1, m + 1))
      BY <1>2
    <3> QED
      BY <3>1, StayingNext, Zenon
  <2>3. ASSUME NEW i \in G PROVE i \in F \cup {m + 1}
    BY StayingNext
  <2> QED
    BY <2>1, <2>2, <2>3
<1> HIDE DEF F, G
<1>5. /\ Cardinality(G) = Cardinality(F) + 1
      /\ Cardinality(UpTo(G, m + 1)) = Cardinality(F) + 1
      /\ Cardinality(From(G, m + 1)) = 1
      /\ \A i \in F : /\ UpTo(G, i) = UpTo(F, i)
                      /\ Cardinality(From(G, i)) = Cardinality(From(F, i)) + 1
  <2>1. PICK x \in Nat : x = m + 1
    OBVIOUS
  <2> DEFINE H == F \cup {x}
  <2>2. /\ Cardinality(H) = Cardinality(F) + 1
        /\ Cardinality(UpTo(H, x)) = Cardinality(F) + 1
        /\ Cardinality(From(H, x)) = 1
        /\ \A i \in F : /\ UpTo(H, i) = UpTo(F, i)
                        /\ Cardinality(From(H, i)) = Cardinality(From(F, i)) + 1
    <3>1. \A k \in F : k \in Nat /\ k < x
      BY <1>3, <2>1
    <3> QED
      BY <1>3, <3>1, Pushed
  <2>3. G = H
    BY <1>4, <2>1
  <2> QED
    BY <2>1, <2>2, <2>3
<1>6. /\ c \in Seq(STRING) /\ Len(c) = Cardinality(F)
      /\ \A i \in F : c[Cardinality(UpTo(F, i))] = p[i]
      /\ \A n \in 1..Len(c) : \E i \in F : Cardinality(UpTo(F, i)) = n
      /\ \A i \in F : Cardinality(Names(p, i, m)) - Cardinality(Ups(p, i, m))
                            = Cardinality(From(F, i))
  BY DEF Stack, F
<1>7. /\ d \in Seq(STRING) /\ Len(d) = Len(c) + 1 /\ d[Len(c) + 1] = p[m + 1]
      /\ \A n \in 1..Len(c) : d[n] = c[n]
  BY <1>0, <1>6
<1> HIDE DEF d
<1>8. \A i \in F : Cardinality(UpTo(F, i)) \in 1..Len(c)
  BY <1>3, <1>6, CountedFromOne
<1>9. ASSUME NEW i \in G
      PROVE  /\ d[Cardinality(UpTo(G, i))] = p[i]
             /\ Cardinality(Names(p, i, m + 1)) - Cardinality(Ups(p, i, m + 1))
                     = Cardinality(From(G, i))
  <2>1. CASE i = m + 1
    BY <1>2, <1>5, <1>6, <1>7, <2>1
  <2>2. CASE i \in F
    <3>1. d[Cardinality(UpTo(G, i))] = p[i]
      BY <1>5, <1>6, <1>7, <1>8, <2>2
    <3>2. Cardinality(From(G, i)) = Cardinality(From(F, i)) + 1
      BY <1>5, <2>2
    <3>3. /\ Cardinality(Names(p, i, m)) - Cardinality(Ups(p, i, m))
                = Cardinality(From(F, i))
          /\ i \in 1..m + 1
      BY <1>3, <1>6, <2>2
    <3> QED
      BY <1>1, <3>1, <3>2, <3>3
  <2> QED
    BY <1>4, <2>1, <2>2
<1>10. ASSUME NEW n \in 1..Len(d)
       PROVE  \E i \in G : Cardinality(UpTo(G, i)) = n
  <2>1. CASE n = Len(c) + 1
    BY <1>4, <1>5, <1>6, <2>1
  <2>2. CASE n \in 1..Len(c)
    BY <1>4, <1>5, <1>6, <2>2
  <2>3. Len(c) \in Nat
    BY <1>6
  <2> QED
    BY <1>7, <2>1, <2>2, <2>3
<1> QED
  BY <1>5, <1>6, <1>7, <1>9, <1>10 DEF Stack, G, d

(* ".." takes the top of the stack, if there is one.                         *)
LEMMA StackUp ==
  ASSUME NEW p \in Seq(STRING), NEW m \in Nat, m + 1 <= Len(p), NEW c, Stack(p, m, c),
         p[m + 1] = ".."
  PROVE  Stack(p, m + 1, SubSeq(c, 1, Len(c) - 1))
<1> DEFINE F == Staying(p, m)
           G == Staying(p, m + 1)
           d == SubSeq(c, 1, Len(c) - 1)
<1>0. ~ IsName(p[m + 1])
  BY DEF IsName
<1>1. ASSUME NEW i \in 1..m + 1
      PROVE  /\ Cardinality(Names(p, i, m + 1)) = Cardinality(Names(p, i, m))
             /\ Cardinality(Ups(p, i, m + 1)) = Cardinality(Ups(p, i, m)) + 1
             /\ Cardinality(Names(p, i, m)) \in Nat /\ Cardinality(Ups(p, i, m)) \in Nat
  BY <1>0, OneMore
<1>2. IsFiniteSet(F) /\ \A i \in F : i \in 1..m + 1 /\ i \in Nat
  BY StayingType
<1>3. \A i : i \in G <=> i \in F /\ Cardinality(Ups(p, i, m + 1)) < Cardinality(Names(p, i, m + 1))
  BY <1>0, StayingNext
<1> HIDE DEF F, G
<1>4. /\ c \in Seq(STRING) /\ Len(c) = Cardinality(F) /\ Len(c) \in Nat
      /\ \A i \in F : c[Cardinality(UpTo(F, i))] = p[i]
      /\ \A n \in 1..Len(c) : \E i \in F : Cardinality(UpTo(F, i)) = n
      /\ \A i \in F : Cardinality(Names(p, i, m)) - Cardinality(Ups(p, i, m))
                            = Cardinality(From(F, i))
  BY DEF Stack, F
<1>5. CASE Len(c) = 0
  <2>1. F = {}
    BY <1>2, <1>4, <1>5, FS_EmptySet
  <2>2. G = {} /\ Cardinality(G) = 0
    BY <1>3, <2>1, FS_EmptySet
  <2>3. d \in Seq(STRING) /\ Len(d) = 0
    BY <1>4, <1>5
  <2> HIDE DEF d
  <2> QED
    BY <2>2, <2>3 DEF Stack, G, d
<1>6. CASE Len(c) # 0
  <2>1. PICK t \in F : Cardinality(UpTo(F, t)) = Cardinality(F)
    BY <1>4, <1>6
  <2> DEFINE H == F \ {t}
  <2>2. /\ Cardinality(H) = Cardinality(F) - 1
        /\ Cardinality(From(F, t)) = 1
        /\ \A i \in H : /\ UpTo(H, i) = UpTo(F, i)
                        /\ Cardinality(UpTo(F, i)) < Cardinality(F)
                        /\ Cardinality(From(H, i)) = Cardinality(From(F, i)) - 1
                        /\ Cardinality(From(F, i)) > 1
    BY <1>2, <2>1, Popped
  <2>3. G = H
    <3>1. ASSUME NEW i \in F
          PROVE  i \in G <=> Cardinality(From(F, i)) > 1
      <4>1. /\ i \in 1..m + 1
            /\ Cardinality(Names(p, i, m)) - Cardinality(Ups(p, i, m))
                   = Cardinality(From(F, i))
        BY <1>2, <1>4
      <4> QED
        BY <1>1, <1>3, <4>1
    <3>2. t \notin G
      BY <2>2, <3>1
    <3> QED
      BY <1>3, <2>2, <3>1, <3>2
  <2> HIDE DEF H
  <2>4. /\ d \in Seq(STRING) /\ Len(d) = Len(c) - 1
        /\ \A n \in 1..Len(c) - 1 : d[n] = c[n]
    BY <1>4, <1>6
  <2> HIDE DEF d
  <2>5. ASSUME NEW i \in G
        PROVE  /\ d[Cardinality(UpTo(G, i))] = p[i]
               /\ Cardinality(Names(p, i, m + 1)) - Cardinality(Ups(p, i, m + 1))
                       = Cardinality(From(G, i))
    <3>0. i \in F /\ i \in H /\ i \in 1..m + 1
      BY <1>2, <1>3, <2>3
    <3>1. Cardinality(UpTo(F, i)) \in 1..Len(c) - 1
      <4>1. Cardinality(UpTo(F, i)) \in 1..Cardinality(F)
        BY <1>2, <3>0, CountedFromOne
      <4> QED
        BY <1>4, <2>2, <3>0, <4>1
    <3>2. d[Cardinality(UpTo(G, i))] = p[i]
      BY <1>4, <2>2, <2>3, <2>4, <3>0, <3>1
    <3>3. /\ Cardinality(Names(p, i, m)) - Cardinality(Ups(p, i, m))
                = Cardinality(From(F, i))
          /\ Cardinality(From(G, i)) = Cardinality(From(F, i)) - 1
      BY <1>4, <2>2, <2>3, <3>0
    <3> QED
      BY <1>1, <3>0, <3>2, <3>3
  <2>6. ASSUME NEW n \in 1..Len(d)
        PROVE  \E i \in G : Cardinality(UpTo(G, i)) = n
    <3>1. n \in 1..Len(c) /\ n < Len(c)
      BY <1>4, <2>4
    <3>2. PICK i \in F : Cardinality(UpTo(F, i)) = n
      BY <1>4, <3>1
    <3>3. i \in H
      BY <1>4, <2>1, <3>1, <3>2 DEF H
    <3> QED
      BY <2>2, <2>3, <3>2, <3>3
  <2>7. Len(d) = Cardinality(G)
    BY <1>4, <2>2, <2>3, <2>4
  <2> QED
    BY <2>4, <2>5, <2>6, <2>7 DEF Stack, G, d
<1> QED
  BY <1>5, <1>6

LEMMA StackNext ==
  ASSUME NEW p \in Seq(STRING), NEW m \in Nat, m + 1 <= Len(p), NEW c, Stack(p, m, c)
  PROVE  Stack(p, m + 1, CleanNext(c, p[m + 1]))
<1>1. CASE p[m + 1] \in Dots
  <2>1. CleanNext(c, p[m + 1]) = c
    BY <1>1 DEF CleanNext, Dots
  <2> QED
    BY <1>1, <2>1, StackDots
<1>2. CASE p[m + 1] = ".."
  <2>1. CleanNext(c, p[m + 1]) = SubSeq(c, 1, Len(c) - 1)
    BY <1>2 DEF CleanNext, Dots
  <2> QED
    BY <1>2, <2>1, StackUp
<1>3. CASE IsName(p[m + 1])
  <2>1. CleanNext(c, p[m + 1]) = Append(c, p[m + 1])
    BY <1>3 DEF CleanNext, IsName
  <2> QED
    BY <1>3, <2>1, StackName
<1> QED
  BY <1>1, <1>2, <1>3 DEF IsName

(* After every number of segments, the walk holds the segments that stay.    *)
LEMMA StackAlways ==
  ASSUME NEW p \in Seq(STRING), NEW f, CleanUpTo(f, p, Len(p))
  PROVE  \A m \in 0..Len(p) : Stack(p, m, f[m])
<1> DEFINE T == {m \in 0..Len(p) : ~ Stack(p, m, f[m])}
<1> SUFFICES ASSUME T # {} PROVE FALSE
  OBVIOUS
<1>1. PICK x \in T : \A y \in T : x <= y
  <2>1. T \in SUBSET Nat
    OBVIOUS
  <2> HIDE DEF T
  <2> QED
    BY <2>1, LeastOf
<1>2. CASE x = 0
  <2>1. f[0] = <<>>
    BY DEF CleanUpTo
  <2>2. Staying(p, 0) = {}
    BY DEF Staying, Names
  <2>3. Cardinality({}) = 0
    BY FS_EmptySet
  <2>4. <<>> \in Seq(STRING) /\ Len(<<>>) = 0
    OBVIOUS
  <2>5. Stack(p, 0, <<>>)
    <3> HIDE DEF T
    <3>1. \A d \in 1..Len(<<>>) : FALSE
      BY <2>4
    <3>2. PICK e : e = <<>>
      OBVIOUS
    <3>3. e \in Seq(STRING) /\ Len(e) = Cardinality({}) /\ \A d \in 1..Len(e) : FALSE
      BY <2>3, <2>4, <3>1, <3>2
    <3>4. Stack(p, 0, e)
      BY ONLY <2>2, <3>3, Zenon DEF Stack
    <3> QED
      BY <3>2, <3>4
  <2> QED
    BY <1>1, <1>2, <2>1, <2>5
<1>3. CASE x # 0
  <2> DEFINE m == x - 1
  <2>1. m \in Nat /\ m + 1 = x /\ m \in 0..Len(p) /\ m + 1 <= Len(p)
    BY <1>1, <1>3
  <2>2. m \notin T
    BY <1>1, <2>1
  <2>3. Stack(p, m, f[m])
    BY <2>1, <2>2
  <2>4. f[x] = CleanNext(f[m], p[x])
    BY <1>1, <1>3 DEF CleanUpTo
  <2> HIDE DEF m
  <2>5. Stack(p, x, f[x])
    BY <2>1, <2>3, <2>4, StackNext
  <2> QED
    BY <1>1, <2>5
<1> QED
  BY <1>2, <1>3

(* path.Clean keeps the segments that stay, in their order.                  *)
THEOREM CleanKeepsWhatStays ==
  ASSUME NEW p \in Seq(STRING)
  PROVE  Stack(p, Len(p), Clean(p))
<1>1. Len(p) \in Nat
  OBVIOUS
<1>2. PICK g : CleanUpTo(g, p, Len(p))
  BY <1>1, CleanIsDefined
<1>3. PICK f : CleanUpTo(f, p, Len(p)) /\ Clean(p) = f[Len(p)]
  BY <1>2, CleanUnfolds
<1> QED
  BY <1>1, <1>3, StackAlways

----------------------------------------------------------------------------
(* What the walk decides *)

(* A pattern matches a first part of a clean path if and only if it names    *)
(* what the path passes through.                                             *)
LEMMA MatchedIsUnder ==
  ASSUME NEW p \in Seq(STRING), NEW pattern \in Seq(STRING) \ {<<>>},
         NEW c, Stack(p, Len(p), c)
  PROVE  (\E n \in 1..Len(c) : Matches(pattern, SubSeq(c, 1, n))) <=> Under(p, pattern)
<1> DEFINE F == Staying(p, Len(p))
<1>1. Len(p) \in Nat /\ Len(pattern) \in Nat /\ Len(pattern) >= 1
  OBVIOUS
<1>2. F = {i \in 1..Len(p) : Stays(p, i)}
  BY DEF Staying, Stays, Names
<1>3. IsFiniteSet(F) /\ Cardinality(F) \in Nat /\ \A i \in F : i \in Nat
  BY <1>1, StayingType
<1>4. /\ c \in Seq(STRING) /\ Len(c) = Cardinality(F)
      /\ \A i \in F : c[Cardinality(UpTo(F, i))] = p[i]
      /\ \A d \in 1..Len(c) : \E i \in F : Cardinality(UpTo(F, i)) = d
  BY DEF Stack
<1>5. Under(p, pattern) <=>
          /\ Cardinality(F) >= Len(pattern)
          /\ \A i \in F : Cardinality(UpTo(F, i)) <= Len(pattern) =>
                 pattern[Cardinality(UpTo(F, i))] \in {Star, p[i]}
  BY <1>2 DEF Under, UpTo
<1> HIDE DEF F
<1>6. \A i \in F : Cardinality(UpTo(F, i)) \in 1..Len(c)
  BY <1>3, <1>4, CountedFromOne
<1>7. \A n \in 1..Len(c) : /\ Len(SubSeq(c, 1, n)) = n
                           /\ \A d \in 1..n : SubSeq(c, 1, n)[d] = c[d]
  BY <1>4
<1>8. (\E n \in 1..Len(c) : Matches(pattern, SubSeq(c, 1, n))) <=>
          /\ Len(pattern) <= Len(c)
          /\ \A d \in 1..Len(pattern) : pattern[d] \in {Star, c[d]}
  <2>1. ASSUME NEW n \in 1..Len(c)
        PROVE  Matches(pattern, SubSeq(c, 1, n)) <=>
                   /\ Len(pattern) = n
                   /\ \A d \in 1..n : pattern[d] \in {Star, c[d]}
    BY <1>7 DEF Matches
  <2>2. Len(pattern) <= Len(c) => Len(pattern) \in 1..Len(c)
    BY <1>1, <1>3, <1>4
  <2>3. \A n \in 1..Len(c) : n <= Len(c)
    BY <1>3, <1>4
  <2> QED
    BY <2>1, <2>2, <2>3
<1>9. ASSUME Len(pattern) <= Len(c)
      PROVE  (\A d \in 1..Len(pattern) : pattern[d] \in {Star, c[d]}) <=>
             (\A i \in F : Cardinality(UpTo(F, i)) <= Len(pattern) =>
                 pattern[Cardinality(UpTo(F, i))] \in {Star, p[i]})
  <2>1. ASSUME \A d \in 1..Len(pattern) : pattern[d] \in {Star, c[d]},
               NEW i \in F, Cardinality(UpTo(F, i)) <= Len(pattern)
        PROVE  pattern[Cardinality(UpTo(F, i))] \in {Star, p[i]}
    <3>1. Cardinality(UpTo(F, i)) \in 1..Len(pattern)
      BY <1>1, <1>3, <1>4, <1>6, <2>1
    <3>2. c[Cardinality(UpTo(F, i))] = p[i]
      BY <1>4
    <3> QED
      BY <2>1, <3>1, <3>2
  <2>2. ASSUME \A i \in F : Cardinality(UpTo(F, i)) <= Len(pattern) =>
                   pattern[Cardinality(UpTo(F, i))] \in {Star, p[i]},
               NEW d \in 1..Len(pattern)
        PROVE  pattern[d] \in {Star, c[d]}
    <3>1. d \in 1..Len(c) /\ d <= Len(pattern)
      BY <1>1, <1>3, <1>4, <1>9
    <3>2. PICK i \in F : Cardinality(UpTo(F, i)) = d
      BY <1>4, <3>1
    <3>3. c[d] = p[i]
      BY <1>4, <3>2
    <3> QED
      BY <2>2, <3>1, <3>2, <3>3
  <2> QED
    BY <2>1, <2>2
<1>10. Len(c) = Cardinality(F)
  BY <1>4
<1>11. Len(pattern) <= Len(c) <=> Cardinality(F) >= Len(pattern)
  BY <1>1, <1>3, <1>10
<1> QED
  BY <1>5, <1>8, <1>9, <1>11

(* isBlockedPath closes exactly what the list names, for every list and path. *)
THEOREM TheWalkDecides ==
  ASSUME NEW p \in Seq(STRING)
  PROVE  IsBlockedPath(p) <=> Listed(p)
<1>1. \A pattern \in Blocked : pattern \in Seq(STRING) \ {<<>>}
  BY PathAssumption
<1>2. Stack(p, Len(p), Clean(p))
  BY CleanKeepsWhatStays
<1>3. \A pattern \in Blocked :
          (\E n \in 1..Len(Clean(p)) : Matches(pattern, SubSeq(Clean(p), 1, n)))
              <=> Under(p, pattern)
  BY <1>1, <1>2, MatchedIsUnder
<1>4. IsBlockedPath(p) <=>
          \E pattern \in Blocked :
              \E n \in 1..Len(Clean(p)) : Matches(pattern, SubSeq(Clean(p), 1, n))
  BY DEF IsBlockedPath
<1> QED
  BY <1>3, <1>4 DEF Listed

----------------------------------------------------------------------------
(* The process and its requests                                              *)

(* A key of the process is the one in its file from its step of the start    *)
(* on, and what a device was given is in the file as long as it counts.      *)
HostKeyInv ==
    /\ pc = "host empty" => hostFile = Torn /\ hostKey \in 1..MaxKeys
    /\ pc \in {"keys", "ca", "ca empty", "crt", "crt empty", "up"} => hostKey = hostFile
    /\ learned["host"] # 0 => hostFile = learned["host"]

CAInv ==
    /\ pc = "ca empty" => caFile = Torn /\ ca \in 1..MaxKeys
    /\ pc \in {"crt", "crt empty", "up"} => ca = caFile
    /\ pc = "up" => crtFile = ca
    /\ learned["ca"] # 0 => caFile = learned["ca"]

(* The settings are those of the world the process was started in.           *)
WorldInv ==
    /\ pc \in {"config", "tokens"} => world \in Worlds
    /\ pc = "tokens" => settings = Override(ConfigFile(world), world.env)

(* A body is open, and a response given, exactly at these stages.            *)
BodyAt(s) == IF s \in {"refused", "sample", "store", "header", "stream"} THEN 1 ELSE 0
AnswersAt(s) == IF s \in {"stream", "done"} THEN 1 ELSE 0

RequestInv ==
    \A r \in Requests :
        /\ stage[r] # "none" => pc = "up"
        /\ open[r] = BodyAt(stage[r])
        /\ answers[r] = AnswersAt(stage[r])

StartupInv == StartupTypeOK /\ HostKeyInv /\ CAInv /\ WorldInv
GatewayInv == StartupInv /\ HandlerTypeOK /\ RequestInv

(* The bounds that the proofs need of the assumptions.                       *)
LEMMA Bounds == MaxKeys \in Nat /\ MaxTokens \in Nat \ {0} /\ MaxSamples \in Nat
BY StartupAssumption, HandlerAssumption

(* A key is neither of the contents that are no key.                        *)
LEMMA KeysAreNotTorn == ASSUME NEW x \in Int PROVE x \notin {Missing, Torn}
BY StartupAssumption

(* What no device was given is what a file without a key allows.             *)
LEMMA NotGiven ==
    ASSUME StartupInv
    PROVE  /\ learned["host"] \in KeyIds /\ learned["ca"] \in KeyIds
           /\ hostFile \in {Missing, Torn} => learned["host"] = 0
           /\ caFile \in {Missing, Torn} => learned["ca"] = 0
<1>1. learned["host"] \in KeyIds /\ learned["ca"] \in KeyIds
  BY DEF StartupInv, StartupTypeOK, Kinds
<1>2. learned["host"] \notin {Missing, Torn} /\ learned["ca"] \notin {Missing, Torn}
  BY <1>1, Bounds, KeysAreNotTorn DEF KeyIds
<1>3. /\ learned["host"] # 0 => hostFile = learned["host"]
      /\ learned["ca"] # 0 => caFile = learned["ca"]
  BY DEF StartupInv, HostKeyInv, CAInv
<1> QED
  BY <1>1, <1>2, <1>3

USE Bounds

(* What a process that is down knows of its settings is of their type.       *)
LEMMA NoSettingsType == NoSettings \in Settings
BY DEF NoSettings, Settings, Switch, KeyLists

(* A gateway that was never started satisfies the invariant.                 *)
LEMMA GatewayInitInv == Init => GatewayInv
<1> SUFFICES ASSUME Init PROVE GatewayInv
  OBVIOUS
<1>1. StartupInv
  <2>1. StartupTypeOK
    <3>1. pc \in Stages /\ world \in Worlds \cup {NoWorld} /\ settings \in Settings
      BY NoSettingsType DEF Init, StartupInit, Stages
    <3>2. source \in Sources /\ refreshing \in BOOLEAN
      BY DEF Init, StartupInit, Sources
    <3>5. hostKey \in KeyIds /\ ca \in KeyIds
      BY DEF Init, StartupInit, KeyIds
    <3>3. {hostFile, caFile, crtFile} \subseteq FileContents
      BY DEF Init, StartupInit, FileContents
    <3>4. made \in [Kinds -> KeyIds] /\ learned \in [Kinds -> KeyIds]
      BY DEF Init, StartupInit, KeyIds
    <3> QED
      BY <3>1, <3>2, <3>3, <3>4, <3>5 DEF StartupTypeOK
  <2>2. learned["host"] = 0 /\ learned["ca"] = 0
    BY DEF Init, StartupInit, Kinds
  <2> QED
    BY <2>1, <2>2 DEF Init, StartupInit, StartupInv, HostKeyInv, CAInv, WorldInv
<1>2. HandlerTypeOK /\ RequestInv
  BY DEF Init, HandlerTypeOK, RequestInv, HandlerStages, BodyAt, AnswersAt
<1> QED
  BY <1>1, <1>2 DEF GatewayInv

----------------------------------------------------------------------------
(* The start                                                                 *)

(* A process that goes down takes nothing from the files with it.            *)
LEMMA DownInv ==
    ASSUME StartupInv, Down, UNCHANGED <<fileVars, made, learned>>
    PROVE  StartupInv'
<1>1. StartupTypeOK'
  <2>1. pc' \in Stages /\ world' \in Worlds \cup {NoWorld} /\ settings' \in Settings
    BY NoSettingsType DEF Down, Stages
  <2>2. source' \in Sources /\ refreshing' \in BOOLEAN
    BY DEF Down, Sources
  <2>3. hostKey' \in KeyIds /\ ca' \in KeyIds
    BY DEF Down, KeyIds
  <2> QED
    BY <2>1, <2>2, <2>3 DEF StartupInv, StartupTypeOK, fileVars
<1>2. HostKeyInv' /\ CAInv' /\ WorldInv'
  BY DEF StartupInv, Down, HostKeyInv, CAInv, WorldInv, fileVars
<1> QED
  BY <1>1, <1>2 DEF StartupInv

(* The configuration that a start goes on with is one of Settings.           *)
LEMMA LoadConfigInv == StartupInv /\ LoadConfig => StartupInv'
<1> SUFFICES ASSUME StartupInv, LoadConfig PROVE StartupInv'
  OBVIOUS
<1>1. CASE ConfigFile(world) \in {Missing, Torn}
  BY <1>1, DownInv DEF LoadConfig
<1>2. CASE ConfigFile(world) \notin {Missing, Torn}
  <2>1. world \in Worlds
    BY DEF StartupInv, WorldInv, LoadConfig
  <2>2. ConfigFile(world) \in Settings /\ world.env \in Settings
    BY <1>2, <2>1, StartupAssumption DEF ConfigFile
  <2>3. Override(ConfigFile(world), world.env) \in Settings
    BY <2>2 DEF Override, Settings, Switch, KeyLists
  <2>4. /\ pc = "config" /\ pc' = "tokens"
        /\ settings' = Override(ConfigFile(world), world.env)
        /\ UNCHANGED <<world, source, refreshing, hostKey, ca, fileVars, made, learned>>
    BY <1>2 DEF LoadConfig
  <2>5. StartupTypeOK' /\ HostKeyInv' /\ CAInv'
    BY <2>3, <2>4 DEF StartupInv, StartupTypeOK, HostKeyInv, CAInv, Stages, fileVars
  <2>6. WorldInv'
    BY <2>1, <2>4 DEF WorldInv, ConfigFile, Override
  <2> QED
    BY <2>5, <2>6 DEF StartupInv
<1> QED
  BY <1>1, <1>2

LEMMA NewTokenSourceInv == StartupInv /\ NewTokenSource => StartupInv'
<1> SUFFICES ASSUME StartupInv, NewTokenSource PROVE StartupInv'
  OBVIOUS
<1>1. \/ Down
      \/ \E s \in Sources, b \in BOOLEAN : TakesSource(s, b)
  BY DEF NewTokenSource, TakesFile, Sources
<1>2. CASE Down
  BY <1>2, DownInv DEF NewTokenSource
<1>3. ASSUME NEW s \in Sources, NEW b \in BOOLEAN, TakesSource(s, b) PROVE StartupInv'
  BY <1>3 DEF TakesSource, NewTokenSource, StartupInv, StartupTypeOK, HostKeyInv, CAInv,
     WorldInv, Stages, fileVars
<1> QED
  BY <1>1, <1>2, <1>3

(* A key is generated only when there is no file, and then nobody has been   *)
(* given another one.                                                        *)
LEMMA LoadHostKeyInv == StartupInv /\ LoadHostKey => StartupInv'
<1> SUFFICES ASSUME StartupInv, LoadHostKey PROVE StartupInv'
  OBVIOUS
<1>1. CASE hostFile = Missing /\ pc' = "host empty"
  <2>1. /\ made["host"] < MaxKeys
        /\ made' = [made EXCEPT !["host"] = @ + 1]
        /\ hostKey' = made["host"] + 1
        /\ hostFile' = Torn
        /\ pc = "host"
        /\ UNCHANGED <<world, settings, source, refreshing, ca, caFile, crtFile, learned>>
    BY <1>1 DEF LoadHostKey, Generates, Goes, Down
  <2>2. made["host"] \in Nat /\ made["host"] + 1 \in 1..MaxKeys
    BY <2>1 DEF StartupInv, StartupTypeOK, Kinds, KeyIds
  <2>3. learned["host"] = 0
    BY <1>1, NotGiven
  <2>4. StartupTypeOK'
    <3>1. made["host"] + 1 \in KeyIds
      BY <2>2 DEF KeyIds
    <3>2. made' \in [Kinds -> KeyIds] /\ hostKey' \in KeyIds
      BY <2>1, <3>1 DEF StartupInv, StartupTypeOK
    <3>3. pc' \in Stages
      BY <1>1 DEF Stages
    <3>4. hostFile' \in FileContents
      BY <2>1 DEF FileContents
    <3> QED
      BY <2>1, <3>2, <3>3, <3>4 DEF StartupInv, StartupTypeOK
  <2>5. HostKeyInv' /\ CAInv' /\ WorldInv'
    BY <1>1, <2>1, <2>2, <2>3 DEF StartupInv, HostKeyInv, CAInv, WorldInv
  <2> QED
    BY <2>4, <2>5 DEF StartupInv
<1>2. CASE pc' = "down"
  BY <1>2, DownInv DEF LoadHostKey, Goes, fileVars
<1>3. CASE pc' = "keys"
  BY <1>3 DEF LoadHostKey, Goes, Down, StartupInv, StartupTypeOK, HostKeyInv,
     CAInv, WorldInv, Stages, Kinds, KeyIds, FileContents
<1> QED
  BY <1>1, <1>2, <1>3 DEF LoadHostKey, Goes, Down

LEMMA LoadCAInv == StartupInv /\ LoadCA => StartupInv'
<1> SUFFICES ASSUME StartupInv, LoadCA PROVE StartupInv'
  OBVIOUS
<1>1. CASE caFile = Missing /\ pc' = "ca empty"
  <2>1. /\ made["ca"] < MaxKeys
        /\ made' = [made EXCEPT !["ca"] = @ + 1]
        /\ ca' = made["ca"] + 1
        /\ caFile' = Torn
        /\ pc = "ca"
        /\ UNCHANGED <<world, settings, source, refreshing, hostKey, hostFile, crtFile, learned>>
    BY <1>1 DEF LoadCA, Generates, Goes, Down
  <2>2. made["ca"] \in Nat /\ made["ca"] + 1 \in 1..MaxKeys
    BY <2>1 DEF StartupInv, StartupTypeOK, Kinds, KeyIds
  <2>3. learned["ca"] = 0
    BY <1>1, NotGiven
  <2>4. StartupTypeOK'
    <3>1. made["ca"] + 1 \in KeyIds
      BY <2>2 DEF KeyIds
    <3>2. made' \in [Kinds -> KeyIds] /\ ca' \in KeyIds
      BY <2>1, <3>1 DEF StartupInv, StartupTypeOK
    <3>3. pc' \in Stages
      BY <1>1 DEF Stages
    <3>4. caFile' \in FileContents
      BY <2>1 DEF FileContents
    <3> QED
      BY <2>1, <3>2, <3>3, <3>4 DEF StartupInv, StartupTypeOK
  <2>5. HostKeyInv' /\ CAInv' /\ WorldInv'
    BY <1>1, <2>1, <2>2, <2>3 DEF StartupInv, HostKeyInv, CAInv, WorldInv
  <2> QED
    BY <2>4, <2>5 DEF StartupInv
<1>2. CASE pc' = "down"
  BY <1>2, DownInv DEF LoadCA, Goes, fileVars
<1>3. CASE pc' = "crt"
  BY <1>3 DEF LoadCA, Goes, Down, StartupInv, StartupTypeOK, HostKeyInv,
     CAInv, WorldInv, Stages, Kinds, KeyIds, FileContents
<1> QED
  BY <1>1, <1>2, <1>3 DEF LoadCA, Goes, Down

(* The other steps of the start.                                             *)
LEMMA OtherStartInv ==
    ASSUME StartupInv,
           Start \/ WriteHostKey \/ ParseKeys \/ WriteCA \/ EmptyCrt \/ WriteCrt
    PROVE  StartupInv'
<1>1. CASE Start
  BY <1>1 DEF Start, StartupInv, StartupTypeOK, HostKeyInv, CAInv, WorldInv, Stages, fileVars
<1>2. CASE WriteHostKey
  <2>1. hostKey \in 1..MaxKeys /\ hostFile = Torn
    BY <1>2 DEF WriteHostKey, StartupInv, HostKeyInv
  <2>2. learned["host"] = 0
    BY <2>1, NotGiven
  <2>3. StartupTypeOK'
    BY <1>2, <2>1 DEF WriteHostKey, Goes, StartupInv, StartupTypeOK, Stages, FileContents
  <2>4. HostKeyInv' /\ CAInv' /\ WorldInv'
    BY <1>2, <2>2 DEF WriteHostKey, Goes, StartupInv, HostKeyInv, CAInv, WorldInv
  <2> QED
    BY <2>3, <2>4 DEF StartupInv
<1>3. CASE ParseKeys
  <2>1. CASE Down
    BY <1>3, <2>1, DownInv DEF ParseKeys
  <2>2. CASE ~Down
    <3>1. /\ pc = "keys" /\ pc' = "ca" /\ settings' = NoSettings
          /\ UNCHANGED <<world, source, refreshing, hostKey, ca, fileVars, made, learned>>
      BY <1>3, <2>2 DEF ParseKeys
    <3>2. StartupTypeOK'
      BY <3>1, NoSettingsType DEF StartupInv, StartupTypeOK, Stages, fileVars
    <3>3. HostKeyInv' /\ CAInv' /\ WorldInv'
      BY <3>1 DEF StartupInv, HostKeyInv, CAInv, WorldInv, fileVars
    <3> QED
      BY <3>2, <3>3 DEF StartupInv
  <2> QED
    BY <2>1, <2>2
<1>4. CASE WriteCA
  <2>1. ca \in 1..MaxKeys /\ caFile = Torn
    BY <1>4 DEF WriteCA, StartupInv, CAInv
  <2>2. learned["ca"] = 0
    BY <2>1, NotGiven
  <2>3. StartupTypeOK'
    BY <1>4, <2>1 DEF WriteCA, Goes, StartupInv, StartupTypeOK, Stages, FileContents
  <2>4. HostKeyInv' /\ CAInv' /\ WorldInv'
    BY <1>4, <2>2 DEF WriteCA, Goes, StartupInv, HostKeyInv, CAInv, WorldInv
  <2> QED
    BY <2>3, <2>4 DEF StartupInv
<1>5. CASE EmptyCrt
  BY <1>5 DEF EmptyCrt, Goes, StartupInv, StartupTypeOK, HostKeyInv, CAInv, WorldInv,
     Stages, FileContents
<1>6. CASE WriteCrt
  BY <1>6 DEF WriteCrt, Goes, StartupInv, StartupTypeOK, HostKeyInv, CAInv, WorldInv,
     Stages, FileContents
<1> QED
  BY <1>1, <1>2, <1>3, <1>4, <1>5, <1>6

(* Devices and the administrator: a file that is removed is what nobody has  *)
(* any more.                                                                 *)
LEMMA PeopleInv == StartupInv /\ (LearnHostKey \/ AdminStep) => StartupInv'
<1> SUFFICES ASSUME StartupInv, LearnHostKey \/ AdminStep PROVE StartupInv'
  OBVIOUS
<1>1. CASE LearnHostKey
  BY <1>1 DEF LearnHostKey, processVars, fileVars, StartupInv, StartupTypeOK, HostKeyInv,
     CAInv, WorldInv, Kinds
<1>2. CASE RemoveHostKey
  BY <1>2 DEF RemoveHostKey, processVars, StartupInv, StartupTypeOK, HostKeyInv, CAInv,
     WorldInv, Kinds, KeyIds, FileContents
<1>3. CASE RemoveCA
  BY <1>3 DEF RemoveCA, processVars, StartupInv, StartupTypeOK, HostKeyInv, CAInv,
     WorldInv, Kinds, KeyIds, FileContents
<1>4. CASE RemoveCrt
  BY <1>4 DEF RemoveCrt, processVars, StartupInv, StartupTypeOK, HostKeyInv, CAInv,
     WorldInv, FileContents
<1> QED
  BY <1>1, <1>2, <1>3, <1>4 DEF AdminStep

----------------------------------------------------------------------------
(* The whole gateway                                                         *)

(* While the process starts, or is down, there is no request.                *)
LEMMA StartKeepsRequests ==
    ASSUME GatewayInv, StartupInv', UNCHANGED handlerVars, pc # "up" \/ pc' = pc
    PROVE  GatewayInv'
<1>1. HandlerTypeOK'
  BY DEF GatewayInv, HandlerTypeOK, handlerVars, requestVars
<1>2. RequestInv'
  BY DEF GatewayInv, RequestInv, handlerVars, requestVars
<1> QED
  BY <1>1, <1>2 DEF GatewayInv

LEMMA StartStepInv == ASSUME GatewayInv, StartStep, UNCHANGED handlerVars PROVE GatewayInv'
<1>1. StartupInv'
  BY LoadConfigInv, NewTokenSourceInv, LoadHostKeyInv, LoadCAInv, OtherStartInv
     DEF GatewayInv, StartStep
<1>2. pc # "up"
  BY DEF StartStep, Start, LoadConfig, NewTokenSource, LoadHostKey, WriteHostKey,
     ParseKeys, LoadCA, WriteCA, EmptyCrt, WriteCrt
<1> QED
  BY <1>1, <1>2, StartKeepsRequests

LEMMA PeopleStepInv ==
    ASSUME GatewayInv, LearnHostKey \/ AdminStep, UNCHANGED handlerVars
    PROVE  GatewayInv'
<1>1. StartupInv'
  BY PeopleInv DEF GatewayInv
<1>2. pc' = pc
  BY DEF LearnHostKey, AdminStep, RemoveHostKey, RemoveCA, RemoveCrt, processVars
<1> QED
  BY <1>1, <1>2, StartKeepsRequests

LEMMA CrashInv == GatewayInv /\ GatewayCrashes => GatewayInv'
<1> SUFFICES ASSUME GatewayInv, GatewayCrashes PROVE GatewayInv'
  OBVIOUS
<1>1. StartupInv'
  BY DownInv DEF GatewayInv, GatewayCrashes, Crash
<1>2. /\ stage' \in [Requests -> HandlerStages] /\ form' \in [Requests -> Forms \cup {NoForm}]
      /\ inject' \in [Requests -> BOOLEAN]
  BY DEF GatewayCrashes, HandlerStages
<1>3. /\ sent' \in [Requests -> 0..MaxTokens] /\ snapshot' \in [Requests -> 0..MaxSamples]
      /\ open' \in [Requests -> 0..1] /\ answers' \in [Requests -> 0..1]
      /\ rateState' \in 0..MaxSamples
  BY DEF GatewayCrashes
<1>4. HandlerTypeOK'
  BY <1>2, <1>3 DEF GatewayInv, HandlerTypeOK, GatewayCrashes
<1>5. RequestInv'
  BY DEF RequestInv, GatewayCrashes, BodyAt, AnswersAt
<1> QED
  BY <1>1, <1>4, <1>5 DEF GatewayInv

(* Where a request goes, its body and its answers come out as they must.     *)
Moves(r, s) ==
    /\ Goto(r, s)
    /\ open' = [open EXCEPT ![r] = BodyAt(s)]
    /\ answers' = [answers EXCEPT ![r] = AnswersAt(s)]

LEMMA RequestMoves ==
    ASSUME GatewayInv, NEW r \in Requests, NEW s \in HandlerStages, Moves(r, s),
           pc' = "up"
    PROVE  /\ stage' \in [Requests -> HandlerStages]
           /\ open' \in [Requests -> 0..1]
           /\ answers' \in [Requests -> 0..1]
           /\ RequestInv'
<1>1. BodyAt(s) \in 0..1 /\ AnswersAt(s) \in 0..1
  BY DEF BodyAt, AnswersAt
<1>2. stage' \in [Requests -> HandlerStages]
  BY DEF Moves, Goto, GatewayInv, HandlerTypeOK
<1>3. open' \in [Requests -> 0..1] /\ answers' \in [Requests -> 0..1]
  BY <1>1 DEF Moves, GatewayInv, HandlerTypeOK
<1>4. ASSUME NEW q \in Requests, q # r
      PROVE  stage'[q] = stage[q] /\ open'[q] = open[q] /\ answers'[q] = answers[q]
  BY <1>4 DEF Moves, Goto, GatewayInv, HandlerTypeOK
<1>5. stage'[r] = s /\ open'[r] = BodyAt(s) /\ answers'[r] = AnswersAt(s)
  BY DEF Moves, Goto, GatewayInv, HandlerTypeOK
<1>6. RequestInv'
  BY <1>4, <1>5 DEF GatewayInv, RequestInv
<1> QED
  BY <1>2, <1>3, <1>6

LEMMA EveryStepMoves ==
    ASSUME GatewayInv, NEW r \in Requests, HandlerStep(r)
    PROVE  \E s \in HandlerStages : Moves(r, s)
<1>1. /\ open[r] = BodyAt(stage[r]) /\ answers[r] = AnswersAt(stage[r])
      /\ open = [open EXCEPT ![r] = open[r]]
      /\ answers = [answers EXCEPT ![r] = answers[r]]
  BY DEF GatewayInv, RequestInv, HandlerTypeOK, BodyAt, AnswersAt
<1>2. CASE Arrive(r)
  <2>1. Moves(r, "check")
    BY <1>1, <1>2 DEF Arrive, Moves, BodyAt, AnswersAt
  <2> QED
    BY <2>1 DEF HandlerStages
<1>3. CASE Reject(r) \/ WriteStatus(r) \/ ServeCA(r) \/ SendFails(r)
  <2>1. Moves(r, "done")
    BY <1>1, <1>3 DEF Reject, WriteStatus, ServeCA, SendFails, Answered, Returns, Moves,
       BodyAt, AnswersAt
  <2> QED
    BY <2>1 DEF HandlerStages
<1>4. CASE Admit(r)
  <2>1. Moves(r, "body")
    BY <1>1, <1>4 DEF Admit, Moves, BodyAt, AnswersAt
  <2> QED
    BY <2>1 DEF HandlerStages
<1>5. CASE ReadBody(r)
  <2>1. Moves(r, "token") \/ Moves(r, "done")
    BY <1>1, <1>5 DEF ReadBody, Answered, Returns, Moves, BodyAt, AnswersAt
  <2> QED
    BY <2>1 DEF HandlerStages
<1>6. CASE TakeToken(r)
  <2>1. Moves(r, "send")
    BY <1>1, <1>6 DEF TakeToken, Moves, BodyAt, AnswersAt
  <2> QED
    BY <2>1 DEF HandlerStages
<1>7. CASE UpstreamAnswers(r)
  <2>1. /\ Goto(r, "sample") \/ Goto(r, "header") \/ Goto(r, "refused")
        /\ open' = [open EXCEPT ![r] = 1] /\ answers' = [answers EXCEPT ![r] = 0]
    <3>1. /\ stage[r] \in {"send", "resend"} /\ answers' = answers
          /\ Goto(r, "sample") \/ Goto(r, "header") \/ Goto(r, "refused")
      BY <1>7 DEF UpstreamAnswers
    <3>2. open[r] = 0 /\ answers[r] = 0
      BY <1>1, <3>1 DEF BodyAt, AnswersAt
    <3>3. open' = [open EXCEPT ![r] = open[r] + 1]
      BY <1>7 DEF UpstreamAnswers
    <3> QED
      BY <1>1, <3>1, <3>2, <3>3
  <2>2. Moves(r, "sample") \/ Moves(r, "header") \/ Moves(r, "refused")
    BY <2>1 DEF Moves, BodyAt, AnswersAt
  <2> QED
    BY <2>2 DEF HandlerStages
<1>8. CASE Recover(r)
  <2>1. Moves(r, "resend") \/ Moves(r, "sample")
    BY <1>1, <1>8 DEF Recover, Moves, BodyAt, AnswersAt
  <2> QED
    BY <2>1 DEF HandlerStages
<1>9. CASE Sample(r)
  <2>1. Moves(r, "store") \/ Moves(r, "header")
    BY <1>1, <1>9 DEF Sample, Moves, BodyAt, AnswersAt
  <2> QED
    BY <2>1 DEF HandlerStages
<1>10. CASE StoreSnapshot(r)
  <2>1. Moves(r, "header")
    BY <1>1, <1>10 DEF StoreSnapshot, Moves, BodyAt, AnswersAt
  <2> QED
    BY <2>1 DEF HandlerStages
<1>11. CASE WriteHeader(r)
  <2>1. /\ Goto(r, "stream") /\ open' = [open EXCEPT ![r] = 1]
        /\ answers' = [answers EXCEPT ![r] = 1]
    <3>1. stage[r] = "header" /\ Goto(r, "stream") /\ open' = open
      BY <1>11 DEF WriteHeader
    <3>2. open[r] = 1 /\ answers[r] = 0
      BY <1>1, <3>1 DEF BodyAt, AnswersAt
    <3>3. answers' = [answers EXCEPT ![r] = answers[r] + 1]
      BY <1>11 DEF WriteHeader
    <3> QED
      BY <1>1, <3>1, <3>2, <3>3
  <2>2. Moves(r, "stream")
    BY <2>1 DEF Moves, BodyAt, AnswersAt
  <2> QED
    BY <2>2 DEF HandlerStages
<1>12. CASE StreamEnds(r)
  <2>1. /\ Goto(r, "done") /\ open' = [open EXCEPT ![r] = 0]
        /\ answers' = [answers EXCEPT ![r] = 1]
    <3>1. stage[r] = "stream" /\ Goto(r, "done") /\ answers' = answers
      BY <1>12 DEF StreamEnds, Returns
    <3>2. open[r] = 1 /\ answers[r] = 1
      BY <1>1, <3>1 DEF BodyAt, AnswersAt
    <3>3. open' = [open EXCEPT ![r] = open[r] - 1]
      BY <1>12 DEF StreamEnds
    <3> QED
      BY <1>1, <3>1, <3>2, <3>3
  <2>2. Moves(r, "done")
    BY <2>1 DEF Moves, BodyAt, AnswersAt
  <2> QED
    BY <2>2 DEF HandlerStages
<1> QED
  BY <1>2, <1>3, <1>4, <1>5, <1>6, <1>7, <1>8, <1>9, <1>10, <1>11, <1>12 DEF HandlerStep

(* A request changes nothing of the process, except that /ca gives a device  *)
(* the CA of the file.                                                       *)
LEMMA RequestKeepsProcess ==
    ASSUME GatewayInv, NEW r \in Requests, HandlerStep(r)
    PROVE  StartupInv' /\ pc = "up" /\ pc' = "up"
<1>1. pc = "up"
  BY DEF GatewayInv, RequestInv, HandlerStep, Arrive, Reject, WriteStatus, ServeCA, Admit,
     ReadBody, TakeToken, SendFails, UpstreamAnswers, Recover, Sample, StoreSnapshot,
     WriteHeader, StreamEnds
<1>2. CASE ServeCA(r)
  <2>1. /\ learned' = [learned EXCEPT !["ca"] = IF @ = 0 THEN ca ELSE @]
        /\ UNCHANGED <<processVars, fileVars, made>>
    BY <1>2 DEF ServeCA
  <2>2. ca = caFile /\ ca \in KeyIds /\ learned \in [Kinds -> KeyIds]
    BY <1>1 DEF GatewayInv, StartupInv, CAInv, StartupTypeOK
  <2>3. /\ learned' \in [Kinds -> KeyIds] /\ learned'["host"] = learned["host"]
        /\ learned'["ca"] = IF learned["ca"] = 0 THEN ca ELSE learned["ca"]
    BY <2>1, <2>2 DEF Kinds
  <2>4. StartupTypeOK'
    BY <2>1, <2>3 DEF GatewayInv, StartupInv, StartupTypeOK, processVars, fileVars
  <2>5. HostKeyInv' /\ CAInv' /\ WorldInv'
    BY <1>1, <2>1, <2>2, <2>3 DEF GatewayInv, StartupInv, HostKeyInv, CAInv, WorldInv,
       processVars, fileVars
  <2> QED
    BY <1>1, <2>1, <2>4, <2>5 DEF StartupInv, processVars
<1>3. CASE ~ServeCA(r)
  <2>1. UNCHANGED startupVars
    BY <1>3 DEF HandlerStep, Arrive, Reject, WriteStatus, Admit, ReadBody, TakeToken,
       SendFails, UpstreamAnswers, Recover, Sample, StoreSnapshot, WriteHeader,
       StreamEnds, Still
  <2>2. StartupTypeOK'
    BY <2>1 DEF GatewayInv, StartupInv, StartupTypeOK, startupVars, processVars, fileVars
  <2>3. HostKeyInv' /\ CAInv' /\ WorldInv'
    BY <2>1 DEF GatewayInv, StartupInv, HostKeyInv, CAInv, WorldInv, startupVars,
       processVars, fileVars
  <2> QED
    BY <1>1, <2>1, <2>2, <2>3 DEF StartupInv, startupVars, processVars
<1> QED
  BY <1>2, <1>3

LEMMA HandlerStepInv ==
    ASSUME GatewayInv, NEW r \in Requests, HandlerStep(r)
    PROVE  GatewayInv'
<1>1. PICK s \in HandlerStages : Moves(r, s)
  BY EveryStepMoves
<1>2. StartupInv' /\ pc = "up" /\ pc' = "up"
  BY RequestKeepsProcess
<1>3. /\ stage' \in [Requests -> HandlerStages] /\ open' \in [Requests -> 0..1]
      /\ answers' \in [Requests -> 0..1] /\ RequestInv'
  BY <1>1, <1>2, RequestMoves
<1>4. /\ form' \in [Requests -> Forms \cup {NoForm}] /\ inject' \in [Requests -> BOOLEAN]
  BY DEF HandlerStep, Arrive, Reject, WriteStatus, ServeCA, Admit, ReadBody, TakeToken,
     SendFails, UpstreamAnswers, Recover, Sample, StoreSnapshot, WriteHeader, StreamEnds,
     Answered, Returns, GatewayInv, HandlerTypeOK, Injects, IsMITMHost
<1>5. sent' \in [Requests -> 0..MaxTokens]
  <2>1. token \in 0..MaxTokens
    BY DEF GatewayInv, HandlerTypeOK
  <2> QED
    BY <2>1 DEF HandlerStep, Arrive, Reject, WriteStatus, ServeCA, Admit, ReadBody,
       TakeToken, SendFails, UpstreamAnswers, Recover, Sample, StoreSnapshot, WriteHeader,
       StreamEnds, Answered, Returns, GatewayInv, HandlerTypeOK
<1>6. /\ snapshot' \in [Requests -> 0..MaxSamples] /\ rateState' \in 0..MaxSamples
      /\ samples' \in 0..MaxSamples
  BY DEF HandlerStep, Arrive, Reject, WriteStatus, ServeCA, Admit, ReadBody, TakeToken,
     SendFails, UpstreamAnswers, Recover, Sample, StoreSnapshot, WriteHeader, StreamEnds,
     GatewayInv, HandlerTypeOK
<1>7. token' = token
  BY DEF HandlerStep, Arrive, Reject, WriteStatus, ServeCA, Admit, ReadBody, TakeToken,
     SendFails, UpstreamAnswers, Recover, Sample, StoreSnapshot, WriteHeader, StreamEnds,
     Still
<1>8. HandlerTypeOK'
  BY <1>3, <1>4, <1>5, <1>6, <1>7 DEF GatewayInv, HandlerTypeOK
<1> QED
  BY <1>2, <1>3, <1>8 DEF GatewayInv

LEMMA TokenChangesInv == GatewayInv /\ TokenChanges => GatewayInv'
<1> SUFFICES ASSUME GatewayInv, TokenChanges PROVE GatewayInv'
  OBVIOUS
<1>1. StartupInv'
  <2>1. StartupTypeOK'
    BY DEF TokenChanges, GatewayInv, StartupInv, StartupTypeOK, startupVars, processVars,
       fileVars
  <2>2. HostKeyInv' /\ CAInv' /\ WorldInv'
    BY DEF TokenChanges, GatewayInv, StartupInv, HostKeyInv, CAInv, WorldInv, startupVars,
       processVars, fileVars
  <2> QED
    BY <2>1, <2>2 DEF StartupInv
<1>2. token' \in 1..MaxTokens
  BY DEF TokenChanges, GatewayInv, HandlerTypeOK
<1>3. HandlerTypeOK' /\ RequestInv'
  BY <1>2 DEF TokenChanges, GatewayInv, HandlerTypeOK, RequestInv, requestVars, startupVars,
     processVars
<1> QED
  BY <1>1, <1>3 DEF GatewayInv

(* Every step of the start, of the people around it and of every request.    *)
LEMMA GatewayStepInv == GatewayInv /\ [Next]_vars => GatewayInv'
<1> SUFFICES ASSUME GatewayInv, [Next]_vars PROVE GatewayInv'
  OBVIOUS
<1>1. CASE StartStep /\ UNCHANGED handlerVars
  BY <1>1, StartStepInv
<1>2. CASE (LearnHostKey \/ AdminStep) /\ UNCHANGED handlerVars
  BY <1>2, PeopleStepInv
<1>3. CASE GatewayCrashes
  BY <1>3, CrashInv
<1>4. CASE TokenChanges
  BY <1>4, TokenChangesInv
<1>5. ASSUME NEW r \in Requests, HandlerStep(r) PROVE GatewayInv'
  BY <1>5, HandlerStepInv
<1>6. CASE UNCHANGED vars
  <2>1. StartupTypeOK'
    BY <1>6 DEF vars, GatewayInv, StartupInv, StartupTypeOK, startupVars, processVars,
       fileVars
  <2>2. HostKeyInv' /\ CAInv' /\ WorldInv'
    BY <1>6 DEF vars, GatewayInv, StartupInv, HostKeyInv, CAInv, WorldInv, startupVars,
       processVars, fileVars
  <2>3. StartupInv' /\ pc' = pc
    BY <1>6, <2>1, <2>2 DEF StartupInv, vars, startupVars, processVars
  <2> QED
    BY <1>6, <2>3, StartKeepsRequests DEF vars
<1> QED
  BY <1>1, <1>2, <1>3, <1>4, <1>5, <1>6 DEF Next

(* The invariant on which the theorems below rest.                           *)
THEOREM GatewayInvariant == Spec => []GatewayInv
<1> QED
  BY GatewayInitInv, GatewayStepInv, PTL DEF Spec

(* Type correctness: a request never has two bodies open or two responses,   *)
(* whatever is refused, replayed or cut off.                                 *)
THEOREM GatewayTypeCorrect == Spec => []GatewayTypeOK
<1>1. GatewayInv => GatewayTypeOK
  BY DEF GatewayInv, StartupInv, GatewayTypeOK
<1> QED
  BY <1>1, GatewayInvariant, PTL

(* However often the gateway crashes or fails to start, and at whatever      *)
(* step, a serving one presents the keys that devices were given.            *)
THEOREM IdentityIsAlwaysKept == Spec => []IdentityIsKept
<1>1. GatewayInv => IdentityIsKept
  BY DEF GatewayInv, StartupInv, HostKeyInv, CAInv, IdentityIsKept
<1> QED
  BY <1>1, GatewayInvariant, PTL

(* Every request that ends has got one response and left no body open, for   *)
(* any number of requests at a time.                                         *)
THEOREM EveryRequestIsAnsweredOnce == Spec => []OneAnswerNothingOpen
<1>1. GatewayInv => OneAnswerNothingOpen
  BY DEF GatewayInv, RequestInv, OneAnswerNothingOpen, BodyAt, AnswersAt
<1> QED
  BY <1>1, GatewayInvariant, PTL

(* A start that gets past the token source has taken the credential that was *)
(* named, from whichever layer, and refreshes it as it was told to.          *)
THEOREM NothingIsEverIgnored == Spec => NothingIsIgnored
<1> DEFINE file == ConfigFile(world)
           wanted == IF world.env.refresh = "unset" THEN file.refresh ELSE world.env.refresh
           content == IF source' = "given" THEN world.given ELSE world.default
           Heeded ==
               pc = "tokens" /\ pc' = "host" =>
                   /\ file.oauth \/ world.env.oauth <=> source' = "static"
                   /\ file.credentials \/ world.env.credentials <=> source' = "given"
                   /\ wanted = "on" => refreshing'
                   /\ wanted = "off" => ~refreshing'
                   /\ wanted = "unset" =>
                          (refreshing' <=> source' # "static" /\ CanRefresh(content))
<1>1. ASSUME GatewayInv, [Next]_vars PROVE [Heeded]_startupVars
  <2> SUFFICES ASSUME pc = "tokens", pc' = "host" PROVE Heeded
    OBVIOUS
  <2>1. NewTokenSource
    BY <1>1 DEF Next, vars, startupVars, processVars, StartStep, Start, LoadConfig,
       LoadHostKey, WriteHostKey, ParseKeys, LoadCA, WriteCA, EmptyCrt, WriteCrt,
       LearnHostKey, AdminStep, RemoveHostKey, RemoveCA, RemoveCrt, GatewayCrashes, Crash,
       TokenChanges, GatewayInv, RequestInv, HandlerStep, Arrive, Reject, WriteStatus,
       ServeCA, Admit, ReadBody, TakeToken, SendFails, UpstreamAnswers, Recover, Sample,
       StoreSnapshot, WriteHeader, StreamEnds, Still, Goes, Down
  <2>2. /\ settings.oauth <=> file.oauth \/ world.env.oauth
        /\ settings.credentials <=> file.credentials \/ world.env.credentials
        /\ settings.refresh = wanted
    <3>1. settings = Override(file, world.env)
      BY <1>1 DEF GatewayInv, StartupInv, WorldInv
    <3>2. settings.oauth = (world.env.oauth \/ file.oauth)
      BY <3>1 DEF Override
    <3>3. settings.credentials = (world.env.credentials \/ file.credentials)
      BY <3>1 DEF Override
    <3>4. settings.refresh = wanted
      BY <3>1 DEF Override
    <3> QED
      BY <3>2, <3>3, <3>4
  <2>3. ~Down
    BY DEF Down
  <2>4. CASE settings.oauth
    BY <2>1, <2>2, <2>3, <2>4 DEF NewTokenSource, TakesSource
  <2>5. CASE ~settings.oauth /\ settings.credentials
    BY <2>1, <2>2, <2>3, <2>5 DEF NewTokenSource, TakesFile, TakesSource
  <2>6. CASE ~settings.oauth /\ ~settings.credentials
    BY <2>1, <2>2, <2>3, <2>6 DEF NewTokenSource, TakesFile, TakesSource
  <2> QED
    BY <2>4, <2>5, <2>6
<1> QED
  BY <1>1, GatewayInvariant, PTL DEF Spec, NothingIsIgnored
----------------------------------------------------------------------------
(* What a request is decided on, and what of it still holds when it is sent  *)

(* A request past the decision is the one that was decided on, has a path    *)
(* that is open if the token goes into it, and the token of no other.        *)
DecisionAt(r) ==
    /\ stage[r] \in {"none", "check", "done"} => sent[r] = 0
    /\ stage[r] = "check" => form[r] \in Forms
    /\ stage[r] \notin {"none", "check", "done"} =>
           /\ form[r] \in Forms /\ ~PathRefused(form[r])
           /\ inject[r] = Injects(form[r])
    /\ stage[r] \in {"refused", "resend"} => inject[r]
    /\ sent[r] # 0 => inject[r]

DecisionInv == HandlerTypeOK /\ \A r \in Requests : DecisionAt(r)

(* A step of one request leaves what was decided on the others.              *)
LEMMA OthersAreDecided ==
    ASSUME DecisionInv, NEW r \in Requests, HandlerStep(r), NEW q \in Requests, q # r
    PROVE  DecisionAt(q)'
<1>1. stage'[q] = stage[q] /\ form'[q] = form[q]
  BY DEF HandlerStep, Arrive, Reject, WriteStatus, ServeCA, Admit, ReadBody, TakeToken,
     SendFails, UpstreamAnswers, Recover, Sample, StoreSnapshot, WriteHeader, StreamEnds,
     Answered, Returns, Goto, DecisionInv, HandlerTypeOK
<1>2. inject'[q] = inject[q] /\ sent'[q] = sent[q]
  BY DEF HandlerStep, Arrive, Reject, WriteStatus, ServeCA, Admit, ReadBody, TakeToken,
     SendFails, UpstreamAnswers, Recover, Sample, StoreSnapshot, WriteHeader, StreamEnds,
     Answered, Returns, Goto, DecisionInv, HandlerTypeOK
<1>3. DecisionAt(q)
  BY DEF DecisionInv
<1> QED
  BY <1>1, <1>2, <1>3 DEF DecisionAt

(* Only Admit takes a request past the decision, and then only the replay    *)
(* of a request that has the token changes what is sent.                     *)
LEMMA RequestIsDecided ==
    ASSUME DecisionInv, NEW r \in Requests, HandlerStep(r)
    PROVE  DecisionAt(r)'
<1> USE DEF Goto
<1>0. DecisionAt(r) /\ HandlerTypeOK
  BY DEF DecisionInv
<1>1. CASE Arrive(r)
  BY <1>0, <1>1 DEF Arrive, DecisionAt, HandlerTypeOK
<1>2. CASE Reject(r) \/ WriteStatus(r) \/ ServeCA(r) \/ SendFails(r) \/ StreamEnds(r)
  BY <1>0, <1>2 DEF Reject, WriteStatus, ServeCA, SendFails, StreamEnds, Answered, Returns,
     DecisionAt, HandlerTypeOK
<1>3. CASE Admit(r)
  BY <1>0, <1>3 DEF Admit, DecisionAt, HandlerTypeOK
<1>4. CASE ReadBody(r)
  BY <1>0, <1>4 DEF ReadBody, Answered, Returns, DecisionAt, HandlerTypeOK
<1>5. CASE TakeToken(r)
  BY <1>0, <1>5 DEF TakeToken, DecisionAt, HandlerTypeOK
<1>6. CASE UpstreamAnswers(r)
  BY <1>0, <1>6 DEF UpstreamAnswers, DecisionAt, HandlerTypeOK
<1>7. CASE Recover(r)
  BY <1>0, <1>7 DEF Recover, DecisionAt, HandlerTypeOK
<1>8. CASE Sample(r) \/ StoreSnapshot(r) \/ WriteHeader(r)
  BY <1>0, <1>8 DEF Sample, StoreSnapshot, WriteHeader, DecisionAt, HandlerTypeOK
<1> QED
  BY <1>1, <1>2, <1>3, <1>4, <1>5, <1>6, <1>7, <1>8 DEF HandlerStep

LEMMA DecisionStepInv == GatewayInv /\ GatewayInv' /\ DecisionInv /\ [Next]_vars => DecisionInv'
<1> SUFFICES ASSUME GatewayInv, GatewayInv', DecisionInv, [Next]_vars PROVE DecisionInv'
  OBVIOUS
<1>0. HandlerTypeOK'
  BY DEF GatewayInv
<1>1. CASE UNCHANGED requestVars
  <2>1. \A r \in Requests : DecisionAt(r)'
    BY <1>1 DEF DecisionInv, DecisionAt, requestVars
  <2> QED
    BY <1>0, <2>1 DEF DecisionInv
<1>2. CASE GatewayCrashes
  <2>1. \A r \in Requests : DecisionAt(r)'
    BY <1>2 DEF GatewayCrashes, DecisionAt
  <2> QED
    BY <1>0, <2>1 DEF DecisionInv
<1>3. ASSUME NEW r \in Requests, HandlerStep(r) PROVE DecisionInv'
  BY <1>0, <1>3, OthersAreDecided, RequestIsDecided DEF DecisionInv
<1> QED
  BY <1>1, <1>2, <1>3 DEF Next, vars, handlerVars, TokenChanges

(* OnlyListedIsBlocked: for every list, path and host, in every state and    *)
(* at every step of the gateway, the real token goes out only for endpoints  *)
(* of the injected host that the list leaves open, and only what a list      *)
(* names or does not name is turned away for it.                             *)
THEOREM OnlyListedIsEverBlocked == Spec => OnlyListedIsBlocked
<1> DEFINE TokenStays ==
               \A r \in Requests :
                   sent[r] # 0 => TokenHost(form[r]) /\ ~Listed(form[r].path)
           Justified ==
               \A r \in Requests :
                   LET f == form[r]
                   IN  /\ stage[r] = "check" /\ stage'[r] = "done"
                       /\ f.device /\ ~f.connect /\ f.path \notin {StatusPath, CAPath}
                       => IF TokenHost(f) THEN Listed(f.path)
                          ELSE f.host.name = "other"
                               \/ (f.host.name = "wildcard" /\ ~f.host.lower)
<1>1. ASSUME NEW f \in Forms
      PROVE  /\ f.path \in Seq(STRING) /\ f.host \in Hosts
             /\ IsBlockedPath(f.path) <=> Listed(f.path)
             /\ Injects(f) <=> TokenHost(f)
  <2>1. f.path \in Seq(STRING) /\ f.host \in Hosts
    BY HandlerAssumption
  <2>2. IsBlockedPath(f.path) <=> Listed(f.path)
    BY <2>1, TheWalkDecides
  <2> QED
    BY <2>1, <2>2 DEF Injects, TokenHost, IsMITMHost
<1>2. DecisionInv => TokenStays
  <2> SUFFICES ASSUME DecisionInv, NEW r \in Requests, sent[r] # 0
               PROVE  TokenHost(form[r]) /\ ~Listed(form[r].path)
    OBVIOUS
  <2>1. form[r] \in Forms /\ ~PathRefused(form[r]) /\ Injects(form[r])
    BY DEF DecisionInv, DecisionAt
  <2> QED
    BY <1>1, <2>1 DEF PathRefused
<1>3. ASSUME GatewayInv, DecisionInv, [Next]_vars PROVE [Justified]_vars
  <2> SUFFICES ASSUME NEW r \in Requests, stage[r] = "check", stage'[r] = "done",
                      form[r].device, ~form[r].connect,
                      form[r].path \notin {StatusPath, CAPath}
               PROVE  IF TokenHost(form[r]) THEN Listed(form[r].path)
                      ELSE form[r].host.name = "other"
                           \/ (form[r].host.name = "wildcard" /\ ~form[r].host.lower)
    OBVIOUS
  <2>1. form[r] \in Forms
    BY <1>3 DEF DecisionInv, DecisionAt
  <2>2. PICK q \in Requests : HandlerStep(q)
    BY <1>3 DEF Next, vars, handlerVars, requestVars, TokenChanges, GatewayCrashes
  <2>3. q = r
    BY <1>3, <2>2 DEF HandlerStep, Arrive, Reject, WriteStatus, ServeCA, Admit, ReadBody, TakeToken,
       SendFails, UpstreamAnswers, Recover, Sample, StoreSnapshot, WriteHeader, StreamEnds,
       Answered, Returns, Goto, DecisionInv, HandlerTypeOK
  <2>4. Reject(r)
    BY <1>3, <2>2, <2>3 DEF HandlerStep, Arrive, WriteStatus, ServeCA, Admit, ReadBody, TakeToken,
       SendFails, UpstreamAnswers, Recover, Sample, StoreSnapshot, WriteHeader, StreamEnds,
       Goto, DecisionInv, HandlerTypeOK
  <2>5. HostRefused(form[r]) \/ PathRefused(form[r])
    BY <2>4 DEF Reject, Turned
  <2> QED
    BY <1>1, <2>1, <2>5 DEF HostRefused, PathRefused, HostInList, Hosts, HostNames, TokenHost
<1>4. Init => DecisionInv
  BY GatewayInitInv DEF Init, DecisionInv, DecisionAt, GatewayInv
<1>5. GatewayInv /\ GatewayInv' /\ DecisionInv /\ [Next]_vars => DecisionInv'
  BY DecisionStepInv
<1>6. Spec => []DecisionInv
  BY <1>4, <1>5, GatewayInvariant, PTL DEF Spec
<1>7. Spec => []TokenStays /\ [][Justified]_vars
  <2> HIDE DEF TokenStays, Justified
  <2> QED
    BY <1>2, <1>3, <1>6, GatewayInvariant, PTL DEF Spec
<1> QED
  BY <1>7 DEF OnlyListedIsBlocked
=============================================================================
