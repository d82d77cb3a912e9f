------------------------- MODULE ExpiryWatchProofs -------------------------
(* Proofs about ExpiryWatch, for every two ladders of stages, every margin   *)
(* and lifetime and every number of logins.                                  *)
EXTENDS ExpiryWatch, WellFoundedInduction, TLAPS

(* A stage that has been told since the last reload has been passed.         *)
ToldInv ==
    /\ \A i \in told.access : i <= access.stage
    /\ \A i \in told.refresh : i <= refresh.stage

ExpiryInv == ExpiryTypeOK /\ ToldInv

USE ExpiryAssumption

----------------------------------------------------------------------------
(* Ladders *)

(* A set of numbers up to n that is not empty has a greatest element, and    *)
(* that is its Max.                                                          *)
LEMMA MaxOfBounded ==
  ASSUME NEW n \in Nat, NEW S \in SUBSET (0..n), S # {}
  PROVE  /\ Max(S) \in S
         /\ \A i \in S : i <= Max(S)
<1> DEFINE T == {k \in Nat : n - k \in S}
<1>1. PICK s \in S : TRUE
  OBVIOUS
<1>2. n - s \in T
  BY <1>1
<1>3. PICK x \in T : \A y \in T : ~ (<<y, x>> \in OpToRel(<, Nat))
  <2>1. T \subseteq Nat /\ T # {}
    BY <1>2
  <2> HIDE DEF T
  <2> QED
    BY <2>1, NatLessThanWellFounded, WFMin
<1>4. \A y \in T : x <= y
  <2> SUFFICES ASSUME NEW y \in T, y < x
               PROVE  FALSE
    BY DEF T
  <2>1. <<y, x>> \in Nat \X Nat /\ <<y, x>>[1] < <<y, x>>[2]
    OBVIOUS
  <2> QED
    BY <1>3, <2>1 DEF OpToRel
<1>5. \A i \in S : n - i \in T
  OBVIOUS
<1>6. \A i \in S : n - x >= i
  BY <1>4, <1>5
<1>7. \E m \in S : \A i \in S : m >= i
  BY <1>6
<1> QED
  BY <1>7 DEF Max

(* A ladder that is passed at one stage is passed at every looser one.  So   *)
(* what newlyCrossed crosses is all that has been passed beyond the stage of *)
(* the watch, and what it hits, if anything, is the tightest stage passed.   *)
LEMMA HitIsTightest ==
  ASSUME NEW stages \in Seq(Nat), Ladder(stages),
         NEW w \in [at: Nat, stage: 0..Len(stages)],
         now \in Nat
  PROVE  /\ Hit(w, stages) \in w.stage..Len(stages)
         /\ Hit(w, stages) # w.stage => Hit(w, stages) = Max(Passed(w, stages))
<1>1. CASE Crossed(w, stages) = {}
  BY <1>1 DEF Hit
<1>2. CASE Crossed(w, stages) # {}
  <2>1. /\ w.at # 0
        /\ Crossed(w, stages) = {i \in Passed(w, stages) : i > w.stage}
    <3>1. w.at # 0
      BY <1>2 DEF Crossed
    <3>2. Crossed(w, stages) \subseteq {i \in Passed(w, stages) : i > w.stage}
      BY <3>1 DEF Crossed, Passed
    <3>3. ASSUME NEW i \in Passed(w, stages), i > w.stage
          PROVE  i \in Crossed(w, stages)
      <4>1. i \in DOMAIN stages /\ Remaining(w) <= stages[i]
        BY DEF Passed
      <4>2. ASSUME NEW j \in w.stage + 1..i
            PROVE  j \in DOMAIN stages /\ stages[j] >= stages[i]
        <5>1. j \in DOMAIN stages /\ stages[i] \in Nat /\ stages[j] \in Nat
          BY <4>1
        <5>2. j < i => stages[j] > stages[i]
          BY <4>1, <5>1 DEF Ladder
        <5> QED
          BY <4>1, <5>1, <5>2
      <4>3. \A j \in w.stage + 1..i : Remaining(w) <= stages[j]
        BY <4>1, <4>2 DEF Remaining
      <4> QED
        BY <3>1, <3>3, <4>1, <4>3 DEF Crossed
    <3> QED
      BY <3>1, <3>2, <3>3
  <2>2. /\ Len(stages) \in Nat
        /\ Passed(w, stages) \in SUBSET (0..Len(stages))
        /\ Crossed(w, stages) \in SUBSET (0..Len(stages))
    BY <2>1 DEF Passed
  <2>3. /\ Max(Crossed(w, stages)) \in Crossed(w, stages)
        /\ \A i \in Crossed(w, stages) : i <= Max(Crossed(w, stages))
    BY <1>2, <2>2, MaxOfBounded
  <2>4. /\ Max(Passed(w, stages)) \in Passed(w, stages)
        /\ \A i \in Passed(w, stages) : i <= Max(Passed(w, stages))
    <3>1. Passed(w, stages) # {}
      BY <1>2, <2>1
    <3> QED
      BY <2>2, <3>1, MaxOfBounded
  <2>5. Max(Passed(w, stages)) = Max(Crossed(w, stages))
    <3> DEFINE p == Max(Passed(w, stages))
               c == Max(Crossed(w, stages))
    <3>1. c \in Passed(w, stages) /\ c > w.stage /\ c <= p
      BY <2>1, <2>3, <2>4
    <3>2. p > w.stage
      BY <2>2, <2>4, <3>1
    <3>3. p \in Crossed(w, stages)
      BY <2>1, <2>4, <3>2
    <3> QED
      BY <2>2, <2>3, <2>4, <3>1, <3>3
  <2> QED
    BY <1>2, <2>1, <2>2, <2>3, <2>5 DEF Hit
<1> QED
  BY <1>1, <1>2

(* Both watches of the code are such watches.                                *)
LEMMA BothAreTightest ==
  ExpiryTypeOK =>
      /\ Hit(access, AccessStages) \in access.stage..Len(AccessStages)
      /\ Hit(access, AccessStages) # access.stage =>
             Hit(access, AccessStages) = Max(Passed(access, AccessStages))
      /\ Hit(refresh, RefreshStages) \in refresh.stage..Len(RefreshStages)
      /\ Hit(refresh, RefreshStages) # refresh.stage =>
             Hit(refresh, RefreshStages) = Max(Passed(refresh, RefreshStages))
<1> SUFFICES ASSUME ExpiryTypeOK
             PROVE  /\ Hit(access, AccessStages) \in access.stage..Len(AccessStages)
                    /\ Hit(access, AccessStages) # access.stage =>
                           Hit(access, AccessStages) = Max(Passed(access, AccessStages))
                    /\ Hit(refresh, RefreshStages) \in refresh.stage..Len(RefreshStages)
                    /\ Hit(refresh, RefreshStages) # refresh.stage =>
                           Hit(refresh, RefreshStages) = Max(Passed(refresh, RefreshStages))
  OBVIOUS
<1>1. Deadlines \subseteq Nat
  BY DEF Deadlines
<1>2. /\ now \in Nat
      /\ access \in [at: Nat, stage: 0..Len(AccessStages)]
      /\ refresh \in [at: Nat, stage: 0..Len(RefreshStages)]
  <2>1. /\ now \in 0..Horizon
        /\ access \in [at: Deadlines, stage: 0..Len(AccessStages)]
        /\ refresh \in [at: Deadlines, stage: 0..Len(RefreshStages)]
    BY DEF ExpiryTypeOK
  <2>2. 0..Horizon \subseteq Nat
    OBVIOUS
  <2>3. /\ [at: Deadlines, stage: 0..Len(AccessStages)]
               \subseteq [at: Nat, stage: 0..Len(AccessStages)]
        /\ [at: Deadlines, stage: 0..Len(RefreshStages)]
               \subseteq [at: Nat, stage: 0..Len(RefreshStages)]
    BY <1>1
  <2> QED
    BY <2>1, <2>2, <2>3
<1>3. /\ AccessStages \in Seq(Nat) /\ Ladder(AccessStages)
      /\ RefreshStages \in Seq(Nat) /\ Ladder(RefreshStages)
  BY DEF Ladder
<1> QED
  BY <1>2, <1>3, HitIsTightest

----------------------------------------------------------------------------
(* The invariant *)

LEMMA ExpiryInitInv == ExpiryInit => ExpiryInv
<1> SUFFICES ASSUME ExpiryInit PROVE ExpiryInv
  OBVIOUS
<1>1. disk \in [access: Deadlines, refresh: Deadlines]
  BY DEF ExpiryInit, Login, Deadlines
<1>2. Len(AccessStages) \in Nat /\ Len(RefreshStages) \in Nat
  BY DEF Ladder
<1>3. ExpiryTypeOK
  <2>1. /\ access \in [at: Deadlines, stage: 0..Len(AccessStages)]
        /\ refresh \in [at: Deadlines, stage: 0..Len(RefreshStages)]
    BY <1>1, <1>2 DEF ExpiryInit
  <2>2. told \in [access: SUBSET DOMAIN AccessStages, refresh: SUBSET DOMAIN RefreshStages]
    BY DEF ExpiryInit, Untold
  <2>3. 0 \in 0..Horizon /\ 0 \in 0..MaxLogins
    OBVIOUS
  <2> QED
    BY <1>1, <2>1, <2>2, <2>3 DEF ExpiryInit, ExpiryTypeOK
<1>4. ToldInv
  BY DEF ExpiryInit, ToldInv, Untold
<1> QED
  BY <1>3, <1>4 DEF ExpiryInv

(* The commit of a reload starts both ladders again.                         *)
LEMMA ReloadStartsAgain ==
  ASSUME NEW file \in [access: Deadlines, refresh: Deadlines], Reload(file)
  PROVE  /\ access' \in [at: Deadlines, stage: 0..Len(AccessStages)]
         /\ refresh' \in [at: Deadlines, stage: 0..Len(RefreshStages)]
         /\ told' \in [access: SUBSET DOMAIN AccessStages, refresh: SUBSET DOMAIN RefreshStages]
         /\ told' = Untold
         /\ stale' = FALSE
         /\ ToldInv'
<1>1. Len(AccessStages) \in Nat /\ Len(RefreshStages) \in Nat
  BY DEF Ladder
<1> QED
  <2>1. /\ told' = Untold
        /\ told' \in [access: SUBSET DOMAIN AccessStages, refresh: SUBSET DOMAIN RefreshStages]
    BY DEF Reload, Untold
  <2> QED
    BY <1>1, <2>1 DEF Reload, ToldInv, Untold

(* So does a refresh that works: it writes deadlines and reloads them.       *)
LEMMA RefreshWorksStartsAgain ==
  ExpiryTypeOK /\ RefreshWorks =>
      /\ disk' \in [access: Deadlines, refresh: Deadlines]
      /\ access' \in [at: Deadlines, stage: 0..Len(AccessStages)]
      /\ refresh' \in [at: Deadlines, stage: 0..Len(RefreshStages)]
      /\ told' \in [access: SUBSET DOMAIN AccessStages, refresh: SUBSET DOMAIN RefreshStages]
      /\ stale' = FALSE
      /\ ToldInv'
<1> SUFFICES ASSUME ExpiryTypeOK, RefreshWorks
             PROVE  /\ disk' \in [access: Deadlines, refresh: Deadlines]
                    /\ access' \in [at: Deadlines, stage: 0..Len(AccessStages)]
                    /\ refresh' \in [at: Deadlines, stage: 0..Len(RefreshStages)]
                    /\ told' \in [access: SUBSET DOMAIN AccessStages,
                                  refresh: SUBSET DOMAIN RefreshStages]
                    /\ stale' = FALSE
                    /\ ToldInv'
  OBVIOUS
<1>1. disk' \in [access: Deadlines, refresh: Deadlines]
  BY DEF ExpiryTypeOK, RefreshWorks, Deadlines
<1> QED
  BY <1>1, ReloadStartsAgain DEF RefreshWorks

(* A check takes each watch to the stage it hits, and tells that stage if it *)
(* is a new one.                                                             *)
LEMMA CheckTells ==
  ExpiryInv /\ CheckExpiry =>
      /\ access' \in [at: Deadlines, stage: 0..Len(AccessStages)]
      /\ refresh' \in [at: Deadlines, stage: 0..Len(RefreshStages)]
      /\ told' \in [access: SUBSET DOMAIN AccessStages, refresh: SUBSET DOMAIN RefreshStages]
      /\ ToldInv'
      /\ \A i \in told'.access \ told.access :
             i = Max(Passed(access, AccessStages)) /\ \A j \in told.access : j < i
      /\ \A i \in told'.refresh \ told.refresh :
             i = Max(Passed(refresh, RefreshStages)) /\ \A j \in told.refresh : j < i
<1> SUFFICES ASSUME ExpiryInv, CheckExpiry
             PROVE  /\ access' \in [at: Deadlines, stage: 0..Len(AccessStages)]
                    /\ refresh' \in [at: Deadlines, stage: 0..Len(RefreshStages)]
                    /\ told' \in [access: SUBSET DOMAIN AccessStages,
                                  refresh: SUBSET DOMAIN RefreshStages]
                    /\ ToldInv'
                    /\ \A i \in told'.access \ told.access :
                           /\ i = Max(Passed(access, AccessStages))
                           /\ \A j \in told.access : j < i
                    /\ \A i \in told'.refresh \ told.refresh :
                           /\ i = Max(Passed(refresh, RefreshStages))
                           /\ \A j \in told.refresh : j < i
  OBVIOUS
<1> DEFINE a == IF enabled THEN access.stage ELSE Hit(access, AccessStages)
           r == Hit(refresh, RefreshStages)
<1>1. /\ a \in access.stage..Len(AccessStages)
      /\ a # access.stage => a = Max(Passed(access, AccessStages))
      /\ r \in refresh.stage..Len(RefreshStages)
      /\ r # refresh.stage => r = Max(Passed(refresh, RefreshStages))
  <2>1. access.stage \in 0..Len(AccessStages) /\ Len(AccessStages) \in Nat
    BY DEF ExpiryInv, ExpiryTypeOK, Ladder
  <2> QED
    BY <2>1, BothAreTightest DEF ExpiryInv
<1>2. /\ access' = [access EXCEPT !.stage = a]
      /\ refresh' = [refresh EXCEPT !.stage = r]
      /\ told' = [access |-> told.access \cup ({a} \ {access.stage}),
                  refresh |-> told.refresh \cup ({r} \ {refresh.stage})]
  BY DEF CheckExpiry
<1>3. /\ access \in [at: Deadlines, stage: 0..Len(AccessStages)]
      /\ refresh \in [at: Deadlines, stage: 0..Len(RefreshStages)]
      /\ told.access \subseteq DOMAIN AccessStages
      /\ told.refresh \subseteq DOMAIN RefreshStages
      /\ \A i \in told.access : i <= access.stage
      /\ \A i \in told.refresh : i <= refresh.stage
      /\ DOMAIN AccessStages = 1..Len(AccessStages) /\ Len(AccessStages) \in Nat
      /\ DOMAIN RefreshStages = 1..Len(RefreshStages) /\ Len(RefreshStages) \in Nat
  BY DEF ExpiryInv, ExpiryTypeOK, ToldInv, Ladder
<1> HIDE DEF a, r
<1>4. /\ access' \in [at: Deadlines, stage: 0..Len(AccessStages)]
      /\ refresh' \in [at: Deadlines, stage: 0..Len(RefreshStages)]
      /\ access'.stage = a /\ refresh'.stage = r
  BY <1>1, <1>2, <1>3
<1>5. /\ told'.access = told.access \cup ({a} \ {access.stage})
      /\ told'.refresh = told.refresh \cup ({r} \ {refresh.stage})
      /\ told' \in [access: SUBSET DOMAIN AccessStages, refresh: SUBSET DOMAIN RefreshStages]
  BY <1>1, <1>2, <1>3
<1>6. ToldInv'
  BY <1>1, <1>3, <1>4, <1>5 DEF ToldInv
<1>7. ASSUME NEW i \in told'.access \ told.access
      PROVE  i = Max(Passed(access, AccessStages)) /\ \A j \in told.access : j < i
  <2>1. i = a /\ a # access.stage
    BY <1>5
  <2> QED
    BY <2>1, <1>1, <1>3
<1>8. ASSUME NEW i \in told'.refresh \ told.refresh
      PROVE  i = Max(Passed(refresh, RefreshStages)) /\ \A j \in told.refresh : j < i
  <2>1. i = r /\ r # refresh.stage
    BY <1>5
  <2> QED
    BY <2>1, <1>1, <1>3
<1> QED
  BY <1>4, <1>5, <1>6, <1>7, <1>8

LEMMA ExpiryNextInv == ExpiryInv /\ [ExpiryNext]_expiryVars => ExpiryInv'
<1> SUFFICES ASSUME ExpiryInv, [ExpiryNext]_expiryVars PROVE ExpiryInv'
  OBVIOUS
<1> USE DEF ladders
<1>1. CASE Tick
  BY <1>1 DEF ExpiryInv, ExpiryTypeOK, ToldInv, Tick
<1>2. CASE LogsIn
  <2>1. disk' \in [access: Deadlines, refresh: Deadlines]
    <3>1. now \in 0..Horizon /\ disk' \in [access: {0, now + AccessLife}, refresh: {0, now + LoginLife}]
      BY <1>2 DEF ExpiryInv, ExpiryTypeOK, LogsIn, Login
    <3>2. {0, now + AccessLife} \subseteq Deadlines /\ {0, now + LoginLife} \subseteq Deadlines
      BY <3>1 DEF Deadlines
    <3> QED
      BY <3>1, <3>2
  <2>2. logins' \in 0..MaxLogins
    BY <1>2 DEF ExpiryInv, ExpiryTypeOK, LogsIn
  <2> QED
    BY <1>2, <2>1, <2>2 DEF ExpiryInv, ExpiryTypeOK, ToldInv, LogsIn
<1>3. CASE HandlerReloads
  <2>1. disk \in [access: Deadlines, refresh: Deadlines] /\ Reload(disk)
    BY <1>3 DEF ExpiryInv, ExpiryTypeOK, HandlerReloads
  <2> QED
    BY <1>3, <2>1, ReloadStartsAgain
    DEF ExpiryInv, ExpiryTypeOK, HandlerReloads
<1>4. CASE HandlerRefreshes
  <2>1. RefreshWorks
    BY <1>4 DEF HandlerRefreshes
  <2> QED
    BY <1>4, <2>1, RefreshWorksStartsAgain
    DEF ExpiryInv, ExpiryTypeOK, HandlerRefreshes
<1>5. CASE WatchWakes
  BY <1>5 DEF ExpiryInv, ExpiryTypeOK, ToldInv, WatchWakes
<1>6. CASE WatchReloads
  <2>1. CASE stale
    <3>1. disk \in [access: Deadlines, refresh: Deadlines] /\ Reload(disk)
      BY <1>6, <2>1 DEF ExpiryInv, ExpiryTypeOK, WatchReloads
    <3> QED
      BY <1>6, <3>1, ReloadStartsAgain
      DEF ExpiryInv, ExpiryTypeOK, WatchReloads
  <2>2. CASE ~stale
    BY <1>6, <2>2 DEF ExpiryInv, ExpiryTypeOK, ToldInv, WatchReloads
  <2> QED
    BY <2>1, <2>2
<1>7. CASE WatchRefreshes
  <2>1. CASE RefreshWorks
    BY <1>7, <2>1, RefreshWorksStartsAgain
    DEF ExpiryInv, ExpiryTypeOK, WatchRefreshes
  <2>2. CASE UNCHANGED <<disk, ladders, stale>>
    BY <1>7, <2>2 DEF ExpiryInv, ExpiryTypeOK, ToldInv, WatchRefreshes
  <2> QED
    BY <1>7, <2>1, <2>2 DEF WatchRefreshes
<1>8. CASE WatchChecks
  BY <1>8, CheckTells DEF ExpiryInv, ExpiryTypeOK, WatchChecks
<1>9. CASE UNCHANGED expiryVars
  BY <1>9 DEF ExpiryInv, ExpiryTypeOK, ToldInv, expiryVars
<1> QED
  BY <1>1, <1>2, <1>3, <1>4, <1>5, <1>6, <1>7, <1>8, <1>9 DEF ExpiryNext, WatcherStep

(* Whatever has been told since the last reload has been passed by its       *)
(* watch, and every deadline and every stage stays in its range.             *)
THEOREM ExpiryInvariant == ExpirySpec => []ExpiryInv
BY ExpiryInitInv, ExpiryNextInv, PTL DEF ExpirySpec

(* Type correctness.                                                         *)
THEOREM ExpiryTypeCorrect == ExpirySpec => []ExpiryTypeOK
<1>1. ExpiryInv => ExpiryTypeOK
  BY DEF ExpiryInv
<1> QED
  BY <1>1, ExpiryInvariant, PTL

(* What checkExpiry tells is news, and the tightest stage that has been      *)
(* passed.                                                                   *)
THEOREM TightestIsTold == ExpirySpec => ToldIsTightest
<1> DEFINE News ==
        /\ \A i \in told'.access \ told.access :
               i = Max(Passed(access, AccessStages)) /\ \A j \in told.access : j < i
        /\ \A i \in told'.refresh \ told.refresh :
               i = Max(Passed(refresh, RefreshStages)) /\ \A j \in told.refresh : j < i
<1>1. ExpiryInv /\ [ExpiryNext]_expiryVars => [News]_expiryVars
  <2> SUFFICES ASSUME ExpiryInv, ExpiryNext PROVE News
    BY DEF ExpiryInv
  <2>1. CASE WatchChecks
    BY <2>1, CheckTells DEF WatchChecks
  <2>2. CASE told' = Untold \/ told' = told
    BY <2>2 DEF Untold
  <2>3. ~WatchChecks => told' = Untold \/ told' = told
    BY DEF ExpiryNext, Tick, LogsIn, HandlerReloads, HandlerRefreshes, WatcherStep,
           WatchWakes, WatchReloads, WatchRefreshes, RefreshWorks, Reload, ladders
  <2> QED
    BY <2>1, <2>2, <2>3
<1> QED
  BY <1>1, ExpiryInvariant, PTL DEF ExpirySpec, ToldIsTightest
=============================================================================
