--------------------------- MODULE RefreshProofs ---------------------------
(* Proofs about Refresh, for every set of goroutines, every number of        *)
(* credentials and writes, and every choice of the intervals.                *)
EXTENDS Refresh, TokenSourceProofs

USE DistinctAssumption, MaxWritesAssumption, RefreshAssumption

(* Whoever is in the section that refreshMu guards holds it.                 *)
RefreshLockInv == \A p \in Procs : at[p] \in Critical => refreshMu = p

(* A child belongs to a goroutine that waits for it, and has a credential    *)
(* to write once the server has given it one.                                *)
ChildInv ==
    \A p \in Procs :
        /\ child[p] # "none" <=> at[p] = "wait"
        /\ child[p] \in {"rotated", "writing"} => fresh[p] \in Creds
        /\ at[p] \in {"wait", "verify"} => before[p] \in Creds

(* Between attempts, lastRefresh is not older than the last fork.            *)
RestInv ==
    (\A p \in Procs : at[p] \notin {"wait", "verify"}) =>
        IF elapsed < MinInterval THEN elapsed <= sinceFork ELSE sinceFork = MinInterval

RefreshInv ==
    TokenInv /\ RefreshTypeOK /\ RefreshLockInv /\ ChildInv /\ RestInv

(* Cap is a number of ticks that reaches both bounds.                        *)
LEMMA CapFacts == Cap \in Nat /\ MinInterval <= Cap /\ BackoffMax <= Cap
BY DEF Cap

LEMMA RefreshInitInv == Init => RefreshInv
<1> SUFFICES ASSUME Init PROVE RefreshInv
  OBVIOUS
<1>1. TokenInv
  BY TokenInitInv DEF Init
<1>2. issued \in Creds
  BY DEF Init, TokenInit
<1>3. RefreshTypeOK
  BY <1>1, <1>2, CapFacts DEF Init, RefreshTypeOK, TokenInv, Places, ChildStages, Ids
<1>4. RefreshLockInv /\ ChildInv /\ RestInv
  BY CapFacts DEF Init, RefreshLockInv, ChildInv, RestInv, Critical
<1> QED
  BY <1>1, <1>3, <1>4 DEF RefreshInv

(* Whatever follows ensureFresh moves one goroutine out of its section and   *)
(* at most starts a get.                                                     *)
LEMMA AfterFacts ==
    ASSUME NEW p \in Procs, AfterEnsureFresh(p)
    PROVE  /\ \E place \in {"idle", "first", "second"} : at' = [at EXCEPT ![p] = place]
           /\ Get(p) \/ UNCHANGED tokenVars
BY DEF AfterEnsureFresh, Go, NoCall

(* Every step of the composition is a step of the token source, or leaves it *)
(* alone.                                                                    *)
LEMMA TokenStep == RefreshInv /\ [Next]_vars => [TokenNext]_tokenVars
<1> SUFFICES ASSUME RefreshInv, [Next]_vars PROVE [TokenNext]_tokenVars
  OBVIOUS
<1>1. CASE Tick
  <2>1. CASE statDue
    BY <1>1, <2>1 DEF Tick, tokenVars, callVars, RefreshInv, TokenInv, TokenTypeOK
  <2>2. CASE ~statDue
    BY <1>1, <2>2 DEF Tick, TokenNext, ThrottleElapses
  <2> QED
    BY <2>1, <2>2
<1>2. CASE Age
  BY <1>2 DEF Age
<1>3. CASE ExternalLogin
  <2>1. issued + 1 \in Contents
    BY <1>3 DEF ExternalLogin, RefreshInv, RefreshTypeOK, Contents
  <2> QED
    BY <1>3, <2>1 DEF ExternalLogin, TokenNext, ExternalWrite
<1>4. CASE ForeignWrite
  BY <1>4 DEF ForeignWrite, TokenNext, ExternalWrite
<1>5. CASE ThrottleElapses
  BY <1>5 DEF TokenNext
<1>6. CASE WatchTick
  BY <1>6 DEF WatchTick, TokenNext
<1>7. CASE WatchChecks
  BY <1>7, AfterFacts DEF WatchChecks, RoutineCheck, NoCall, TokenNext
<1>8. ASSUME NEW p \in Procs, Call(p) PROVE [TokenNext]_tokenVars
  BY <1>8 DEF Call, TokenNext
<1>9. ASSUME NEW p \in Procs, LockRefresh(p) PROVE [TokenNext]_tokenVars
  BY <1>9 DEF LockRefresh, TokenNext
<1>10. ASSUME NEW p \in Procs, RefreshStep(p) PROVE [TokenNext]_tokenVars
  BY <1>10, AfterFacts DEF RefreshStep, TryLock, Recheck, CompareStale, Fork, Verify,
     NoteRefreshDone, NoCall, TokenNext
<1>11. ASSUME NEW p \in Procs, ChildStep(p) PROVE [TokenNext]_tokenVars
  <2>1. CASE ServerRotates(p)
    BY <2>1 DEF ServerRotates
  <2>2. CASE ChildTruncates(p)
    BY <2>2 DEF ChildTruncates, TokenNext, ExternalWrite, Contents
  <2>3. CASE ChildWrites(p)
    <3>1. fresh[p] \in Contents
      BY <2>3 DEF ChildWrites, RefreshInv, ChildInv, Contents
    <3> QED
      BY <2>3, <3>1 DEF ChildWrites, TokenNext, ExternalWrite
  <2>4. CASE ChildExits(p)
    BY <2>4 DEF ChildExits, TokenNext
  <2>5. CASE ChildDies(p)
    BY <2>5, AfterFacts DEF ChildDies, NoteRefreshDone, TokenNext
  <2> QED
    BY <1>11, <2>1, <2>2, <2>3, <2>4, <2>5 DEF ChildStep
<1>12. ASSUME NEW p \in Handlers, Arrive(p) PROVE [TokenNext]_tokenVars
  BY <1>12, AfterFacts DEF Arrive, RoutineCheck, NoCall, TokenNext, Handlers
<1>13. ASSUME NEW p \in Handlers, HandlerStep(p) PROVE [TokenNext]_tokenVars
  BY <1>13 DEF HandlerStep, Answered, Unauthorized, Replay, NoCall, TokenNext, Handlers
<1>14. CASE UNCHANGED vars
  BY <1>14 DEF vars
<1> QED
  BY <1>1, <1>2, <1>3, <1>4, <1>5, <1>6, <1>7, <1>8, <1>9, <1>10, <1>11, <1>12, <1>13,
     <1>14 DEF Next

(* The composition satisfies the specification of the token source: what is  *)
(* proved of that one under any clients holds under these.                   *)
LEMMA TokenInvStep == RefreshInv /\ [Next]_vars => TokenInv'
BY TokenStep, TokenStepInv DEF RefreshInv

(* The backoff stays between its bounds, doubled or not.                     *)
LEMMA BackoffFacts ==
    ASSUME RefreshInv, NEW p \in Procs, NEW ok \in BOOLEAN, NoteRefreshDone(p, ok),
           ok => before[p] \in Creds
    PROVE  /\ backoff' \in {0} \cup BackoffMin..BackoffMax
           /\ spent' \subseteq Creds
<1>1. backoff \in Nat /\ (backoff = 0 \/ (BackoffMin <= backoff /\ backoff <= BackoffMax))
  BY DEF RefreshInv, RefreshTypeOK
<1>2. CASE ok
  BY <1>2 DEF NoteRefreshDone, RefreshInv, RefreshTypeOK
<1>3. CASE ~ok
  BY <1>1, <1>3 DEF NoteRefreshDone, Capped, RefreshInv, RefreshTypeOK
<1> QED
  BY <1>2, <1>3

(* The end of an attempt.                                                    *)
LEMMA NoteInv ==
    ASSUME RefreshInv, TokenInv', NEW p \in Procs, NEW ok \in BOOLEAN,
           NoteRefreshDone(p, ok), at[p] \in {"fork", "wait", "verify"},
           ok => before[p] \in Creds,
           UNCHANGED <<enabled, sent, issued, aged, from, sinceFork>>,
           child' = [child EXCEPT ![p] = "none"],
           fresh' \in [Procs -> 0..MaxCred],
           \A q \in Procs \ {p} : fresh'[q] = fresh[q]
    PROVE  RefreshInv'
<1>1. PICK place \in {"idle", "first", "second"} : at' = [at EXCEPT ![p] = place]
  BY AfterFacts DEF NoteRefreshDone
<1>2. RefreshTypeOK'
  <2>1. elapsed' \in 0..Cap
    BY CapFacts DEF NoteRefreshDone
  <2>2. at' \in [Procs -> Places]
    BY <1>1 DEF RefreshInv, RefreshTypeOK, Places
  <2>3. before' \in [Procs -> Creds \cup {NoToken}] /\ refreshMu' = NoProc
    BY DEF NoteRefreshDone, RefreshInv, RefreshTypeOK
  <2>6. wrote' \in [Procs -> Ids]
    <3>1. wrote' = [wrote EXCEPT ![p] = 0]
      BY DEF NoteRefreshDone
    <3> QED
      BY <3>1 DEF RefreshInv, RefreshTypeOK, Ids
  <2>4. child' \in [Procs -> ChildStages]
    BY DEF RefreshInv, RefreshTypeOK, ChildStages
  <2>5. backoff' \in {0} \cup BackoffMin..BackoffMax /\ spent' \subseteq Creds
    BY BackoffFacts
  <2> QED
    BY <2>1, <2>2, <2>3, <2>4, <2>5, <2>6 DEF RefreshInv, RefreshTypeOK, TokenInv
<1>3. \A q \in Procs \ {p} : at[q] \notin Critical
  BY DEF RefreshInv, RefreshLockInv, Critical
<1>4. \A q \in Procs : at'[q] \notin Critical
  BY <1>1, <1>3 DEF Critical, RefreshInv, RefreshTypeOK
<1>5. RefreshLockInv'
  BY <1>4 DEF RefreshLockInv
<1>6. ChildInv'
  BY <1>1, <1>3, <1>4 DEF ChildInv, RefreshInv, RefreshTypeOK, NoteRefreshDone, Critical
<1>7. RestInv'
  <2>1. elapsed' = 0 /\ sinceFork' \in 0..MinInterval
    BY DEF NoteRefreshDone, RefreshInv, RefreshTypeOK
  <2> QED
    BY <2>1 DEF RestInv
<1> QED
  BY <1>2, <1>5, <1>6, <1>7 DEF RefreshInv

(* A goroutine that goes from one place to another outside an attempt, and   *)
(* takes, keeps or gives back refreshMu as the places demand.                *)
LEMMA MoveInv ==
    ASSUME RefreshInv, TokenInv', NEW p \in Procs, NEW place \in Places \ {"wait", "verify"},
           at' = [at EXCEPT ![p] = place], at[p] \notin {"wait", "verify"},
           sent' \in [Procs -> Creds \cup {NoToken}], from' \in [Procs -> Ids],
           \/ refreshMu' = refreshMu /\ (place \in Critical => refreshMu = p)
           \/ refreshMu = NoProc /\ refreshMu' = p
           \/ refreshMu = p /\ refreshMu' = NoProc /\ place \notin Critical,
           UNCHANGED <<enabled, before, elapsed, backoff, child, fresh, issued, aged,
                       sinceFork, wrote, spent>>
    PROVE  RefreshInv'
<1>1. RefreshTypeOK'
  BY DEF RefreshInv, RefreshTypeOK, TokenInv
<1>2. RefreshLockInv'
  BY DEF RefreshInv, RefreshTypeOK, RefreshLockInv
<1>3. ChildInv'
  BY DEF RefreshInv, RefreshTypeOK, ChildInv
<1>4. RestInv'
  BY DEF RefreshInv, RefreshTypeOK, RestInv
<1> QED
  BY <1>1, <1>2, <1>3, <1>4 DEF RefreshInv

(* Every step keeps the invariant.                                           *)
LEMMA RefreshStepInv == RefreshInv /\ [Next]_vars => RefreshInv'
<1> SUFFICES ASSUME RefreshInv, [Next]_vars PROVE RefreshInv'
  OBVIOUS
<1>0. TokenInv' /\ TokenTypeOK'
  BY TokenInvStep DEF TokenInv
<1>1. CASE Tick
  <2>1. elapsed' \in 0..Cap /\ sinceFork' \in 0..MinInterval
    BY <1>1, CapFacts DEF Tick, RefreshInv, RefreshTypeOK
  <2>2. RefreshTypeOK'
    BY <1>0, <1>1, <2>1 DEF Tick, RefreshInv, RefreshTypeOK
  <2>3. RefreshLockInv' /\ ChildInv'
    BY <1>1 DEF Tick, RefreshInv, RefreshLockInv, ChildInv
  <2>4. RestInv'
    BY <1>1, CapFacts DEF Tick, RefreshInv, RefreshTypeOK, RestInv
  <2> QED
    BY <1>0, <2>2, <2>3, <2>4 DEF RefreshInv
<1>2. CASE Age \/ ExternalLogin
  <2>1. issued' \in Creds /\ aged' \in 0..MaxCred
    BY <1>2 DEF Age, ExternalLogin, RefreshInv, RefreshTypeOK
  <2>3. RefreshTypeOK'
    BY <1>0, <1>2, <2>1 DEF Age, ExternalLogin, RefreshInv, RefreshTypeOK
  <2>2. RefreshLockInv' /\ ChildInv' /\ RestInv'
    BY <1>2 DEF Age, ExternalLogin, RefreshInv, RefreshLockInv, ChildInv, RestInv
  <2> QED
    BY <1>0, <2>2, <2>3 DEF RefreshInv
<1>3. CASE UNCHANGED refreshVars
  <2>1. RefreshTypeOK'
    BY <1>0, <1>3 DEF refreshVars, RefreshInv, RefreshTypeOK
  <2>2. RefreshLockInv' /\ ChildInv' /\ RestInv'
    BY <1>3 DEF refreshVars, RefreshInv, RefreshLockInv, ChildInv, RestInv
  <2> QED
    BY <1>0, <2>1, <2>2 DEF RefreshInv
<1>16. ASSUME NEW p \in Procs, Call(p) PROVE RefreshInv'
  <2>1. from' \in [Procs -> Ids]
    <3>1. mem.ver \in Ids
      BY DEF RefreshInv, RefreshTypeOK, TokenTypeOK, WriteIds, Ids
    <3> QED
      BY <1>16, <3>1 DEF Call, RefreshInv, RefreshTypeOK
  <2>2. RefreshTypeOK'
    BY <1>0, <1>16, <2>1 DEF Call, RefreshInv, RefreshTypeOK
  <2>3. RefreshLockInv' /\ ChildInv' /\ RestInv'
    BY <1>16 DEF Call, RefreshInv, RefreshLockInv, ChildInv, RestInv
  <2> QED
    BY <1>0, <2>2, <2>3 DEF RefreshInv
<1>4. CASE WatchTick
  BY <1>0, <1>4, MoveInv DEF WatchTick, Go, Places, Critical, RefreshInv, RefreshTypeOK
<1>5. CASE WatchChecks
  <2>1. \E place \in {"try", "idle", "first", "second"} :
            at' = [at EXCEPT ![Watcher] = place]
    BY <1>5, AfterFacts DEF WatchChecks, RoutineCheck, Go
  <2> QED
    BY <1>0, <1>5, <2>1, MoveInv DEF WatchChecks, Places, Critical, RefreshInv,
       RefreshTypeOK
<1>6. ASSUME NEW p \in Procs, LockRefresh(p) PROVE RefreshInv'
  BY <1>0, <1>6, MoveInv DEF LockRefresh, Go, Places, RefreshInv, RefreshTypeOK
<1>7. ASSUME NEW p \in Procs, TryLock(p) PROVE RefreshInv'
  <2>1. CASE refreshMu = NoProc
    BY <1>0, <1>7, <2>1, MoveInv DEF TryLock, Go, Places, RefreshInv, RefreshTypeOK
  <2>2. CASE refreshMu # NoProc
    BY <1>0, <1>7, <2>2, MoveInv, AfterFacts DEF TryLock, Places, Critical, RefreshInv,
       RefreshTypeOK
  <2> QED
    BY <2>1, <2>2
<1>8. ASSUME NEW p \in Procs, Recheck(p) \/ CompareStale(p) PROVE RefreshInv'
  <2>1. refreshMu = p
    BY <1>8 DEF Recheck, CompareStale, RefreshInv, RefreshLockInv, Critical
  <2>2. \/ at' = [at EXCEPT ![p] = "fork"] /\ refreshMu' = refreshMu
        \/ /\ \E place \in {"idle", "first", "second"} : at' = [at EXCEPT ![p] = place]
           /\ refreshMu' = NoProc
    BY <1>8, AfterFacts DEF Recheck, CompareStale, Go
  <2>3. PICK place \in {"fork", "idle", "first", "second"} :
            /\ at' = [at EXCEPT ![p] = place]
            /\ \/ refreshMu' = refreshMu
               \/ refreshMu' = NoProc /\ place # "fork"
    BY <2>2
  <2>4. /\ at[p] \notin {"wait", "verify"}
        /\ sent' \in [Procs -> Creds \cup {NoToken}] /\ from' \in [Procs -> Ids]
        /\ UNCHANGED <<enabled, before, elapsed, backoff, child, fresh, issued, aged,
                       sinceFork, wrote, spent>>
    BY <1>8 DEF Recheck, CompareStale, RefreshInv, RefreshTypeOK
  <2> QED
    BY <1>0, <2>1, <2>3, <2>4, MoveInv DEF Places, Critical
<1>9. ASSUME NEW p \in Procs, Fork(p) PROVE RefreshInv'
  <2>1. refreshMu = p /\ child[p] = "none"
    BY <1>9 DEF Fork, RefreshInv, RefreshLockInv, ChildInv, Critical
  <2>2. CASE Cooling
    BY <1>0, <1>9, <2>1, <2>2, MoveInv, AfterFacts DEF Fork, Places, Critical, RefreshInv,
       RefreshTypeOK
  <2>3. CASE ~Cooling /\ mem.cred \in Unrefreshable
    <3>1. child' = [child EXCEPT ![p] = "none"]
      BY <1>9, <2>1, <2>3 DEF Fork, RefreshInv, RefreshTypeOK
    <3> QED
      BY <1>0, <1>9, <2>3, <3>1, NoteInv DEF Fork, RefreshInv, RefreshTypeOK
  <2>4. CASE ~Cooling /\ mem.cred \notin Unrefreshable
    <3>1. mem.cred \in Creds
      BY DEF RefreshInv, RefreshTypeOK, TokenTypeOK
    <3>2. RefreshTypeOK'
      <4>1. at' \in [Procs -> Places] /\ child' \in [Procs -> ChildStages]
        BY <1>9, <2>4 DEF Fork, Go, Places, ChildStages, RefreshInv, RefreshTypeOK
      <4>2. before' \in [Procs -> Creds \cup {NoToken}] /\ sinceFork' \in 0..MinInterval
        <5>1. before' = [before EXCEPT ![p] = mem.cred] /\ sinceFork' = 0
          BY <1>9, <2>4 DEF Fork, NoteRefreshDone
        <5> QED
          BY <3>1, <5>1 DEF RefreshInv, RefreshTypeOK
      <4> QED
        BY <1>0, <1>9, <2>4, <4>1, <4>2 DEF Fork, RefreshInv, RefreshTypeOK
    <3>3. RefreshLockInv'
      BY <1>9, <2>1, <2>4 DEF Fork, Go, RefreshInv, RefreshTypeOK, RefreshLockInv
    <3>4. ChildInv'
      BY <1>9, <2>4, <3>1 DEF Fork, Go, RefreshInv, RefreshTypeOK, ChildInv
    <3>5. RestInv'
      BY <1>9, <2>4 DEF Fork, Go, RefreshInv, RefreshTypeOK, RestInv
    <3> QED
      BY <1>0, <3>2, <3>3, <3>4, <3>5 DEF RefreshInv
  <2> QED
    BY <1>9, <2>2, <2>3, <2>4
<1>10. ASSUME NEW p \in Procs, Verify(p) PROVE RefreshInv'
  <2>1. child' = [child EXCEPT ![p] = "none"]
    BY <1>10 DEF Verify, RefreshInv, RefreshTypeOK, ChildInv
  <2>2. before[p] \in Creds
    BY <1>10 DEF Verify, RefreshInv, ChildInv
  <2> QED
    BY <1>0, <1>10, <2>1, <2>2, NoteInv DEF Verify, RefreshInv, RefreshTypeOK
<1>11. ASSUME NEW p \in Procs, ServerRotates(p) \/ ChildTruncates(p) \/ ChildWrites(p)
       PROVE RefreshInv'
  <2>1. RefreshTypeOK'
    <3>1. CASE ServerRotates(p)
      BY <1>0, <3>1 DEF ServerRotates, ChildStages, RefreshInv, RefreshTypeOK
    <3>2. CASE ChildTruncates(p)
      BY <1>0, <3>2 DEF ChildTruncates, ChildStages, RefreshInv, RefreshTypeOK
    <3>3. CASE ChildWrites(p)
      <4>1. disk.id + 1 \in Ids
        <5>1. disk.id \in 1..MaxWrites
          BY DEF RefreshInv, RefreshTypeOK, TokenTypeOK, WriteIds
        <5>2. disk.id < MaxWrites
          BY <3>3 DEF ChildWrites, Write
        <5> QED
          BY <5>1, <5>2 DEF Ids
      <4> QED
        BY <1>0, <3>3, <4>1 DEF ChildWrites, ChildStages, RefreshInv, RefreshTypeOK
    <3> QED
      BY <1>11, <3>1, <3>2, <3>3
  <2>2. ChildInv'
    BY <1>11 DEF ServerRotates, ChildTruncates, ChildWrites, RefreshInv, RefreshTypeOK,
       ChildInv
  <2>3. RefreshLockInv' /\ RestInv'
    BY <1>11 DEF ServerRotates, ChildTruncates, ChildWrites, RefreshInv, RefreshLockInv,
       RestInv
  <2> QED
    BY <1>0, <2>1, <2>2, <2>3 DEF RefreshInv
<1>12. ASSUME NEW p \in Procs, ChildExits(p) PROVE RefreshInv'
  <2>1. at[p] = "wait" /\ refreshMu = p
    BY <1>12 DEF ChildExits, RefreshInv, ChildInv, RefreshLockInv, Critical
  <2>2. RefreshTypeOK'
    BY <1>0, <1>12 DEF ChildExits, Go, Places, ChildStages, RefreshInv, RefreshTypeOK
  <2>3. RefreshLockInv' /\ ChildInv' /\ RestInv'
    BY <1>12, <2>1 DEF ChildExits, Go, RefreshInv, RefreshTypeOK, RefreshLockInv, ChildInv,
       RestInv
  <2> QED
    BY <1>0, <2>2, <2>3 DEF RefreshInv
<1>13. ASSUME NEW p \in Procs, ChildDies(p) PROVE RefreshInv'
  <2>1. at[p] = "wait"
    BY <1>13 DEF ChildDies, RefreshInv, ChildInv
  <2>2. fresh' \in [Procs -> 0..MaxCred] /\ \A q \in Procs \ {p} : fresh'[q] = fresh[q]
    BY <1>13 DEF ChildDies, RefreshInv, RefreshTypeOK
  <2> QED
    BY <1>0, <1>13, <2>1, <2>2, NoteInv DEF ChildDies
<1>14. ASSUME NEW p \in Handlers, Arrive(p) PROVE RefreshInv'
  <2>1. \E place \in {"try", "idle", "first", "second"} : at' = [at EXCEPT ![p] = place]
    BY <1>14, AfterFacts DEF Arrive, RoutineCheck, Go, Handlers
  <2> QED
    BY <1>0, <1>14, <2>1, MoveInv DEF Arrive, Handlers, Places, Critical, RefreshInv,
       RefreshTypeOK
<1>15. ASSUME NEW p \in Handlers, HandlerStep(p) PROVE RefreshInv'
  <2>1. \E place \in {"idle", "lock", "second", "replay"} : at' = [at EXCEPT ![p] = place]
    BY <1>15 DEF HandlerStep, Answered, Unauthorized, Replay, RequestEnds, Go
  <2>2. sent' \in [Procs -> Creds \cup {NoToken}]
    BY <1>15 DEF HandlerStep, Answered, Unauthorized, Replay, RequestEnds, RefreshInv,
       RefreshTypeOK, TokenTypeOK, Handlers
  <2>3. from' \in [Procs -> Ids]
    <3>1. from' \in {from, [from EXCEPT ![p] = 0]}
      BY <1>15 DEF HandlerStep, Answered, Unauthorized, Replay, RequestEnds
    <3>2. from \in [Procs -> Ids] /\ 0 \in Ids
      BY DEF RefreshInv, RefreshTypeOK, Ids
    <3> QED
      BY <3>1, <3>2
  <2> QED
    BY <1>0, <1>15, <2>1, <2>2, <2>3, MoveInv DEF HandlerStep, Answered, Unauthorized, Replay,
       Handlers, Places, Critical
<1> QED
  BY <1>1, <1>2, <1>3, <1>4, <1>5, <1>6, <1>7, <1>8, <1>9, <1>10, <1>11, <1>12, <1>13,
     <1>14, <1>15, <1>16 DEF Next, ForeignWrite, RefreshStep, ChildStep, vars

(* RefreshInv is an invariant of the composition.                            *)
THEOREM RefreshInvariant == Spec => []RefreshInv
  BY RefreshInitInv, RefreshStepInv, PTL DEF Spec

(* Types: in particular the backoff is always 0 or between its two bounds.   *)
THEOREM RefreshTypeCorrect == Spec => []RefreshTypeOK
<1>1. RefreshInv => RefreshTypeOK
  BY DEF RefreshInv
<1> QED
  BY <1>1, RefreshInvariant, PTL

(* The composition is a token source with clients: every property of         *)
(* TokenSpec is one of Spec.                                                 *)
THEOREM RefreshIsATokenSource == Spec => TokenSpec
<1>1. Init => TokenInit
  BY DEF Init
<1> QED
  BY <1>1, RefreshInvariant, TokenStep, PTL DEF Spec, TokenSpec

(* Never two children at once, whoever wants to refresh.                     *)
THEOREM SingleFlight == Spec => []OneChildAtATime
<1>1. RefreshInv => OneChildAtATime
  BY DEF RefreshInv, RefreshLockInv, ChildInv, OneChildAtATime, Critical
<1> QED
  BY <1>1, RefreshInvariant, PTL

(* A fork happens in no other action than Fork, by its own goroutine, after  *)
(* the rest that refreshCooldown demands.                                    *)
LEMMA ForkFacts ==
    ASSUME RefreshInv, [Next]_vars, NEW p \in Procs, Forks(p)
    PROVE  Fork(p) /\ ~Cooling /\ sinceFork = MinInterval
<1>1. Fork(p) /\ ~Cooling
  BY DEF Forks, Next, Tick, Age, ExternalLogin, ForeignWrite, refreshVars, WatchTick,
     WatchChecks, LockRefresh, RefreshStep, TryLock, Recheck, CompareStale, Fork, Verify,
     ChildStep, ServerRotates, ChildTruncates, ChildWrites, ChildExits, ChildDies, Arrive,
     HandlerStep, Answered, Unauthorized, Replay, Call, vars, RefreshInv, RefreshTypeOK
<1>2. \A q \in Procs : at[q] \notin {"wait", "verify"}
  BY <1>1 DEF Fork, RefreshInv, RefreshLockInv, Critical
<1>3. ~(elapsed < MinInterval)
  BY <1>1 DEF Cooling
<1> QED
  BY <1>1, <1>2, <1>3 DEF RefreshInv, RestInv

(* Two forks are never closer than minRefreshInterval.                       *)
THEOREM ForksAreSpaced == Spec => RefreshesAreSpaced
<1>1. RefreshInv /\ [Next]_vars
          => [\A p \in Procs : Forks(p) => sinceFork >= MinInterval]_vars
  BY ForkFacts
<1> QED
  BY <1>1, RefreshInvariant, PTL DEF Spec, RefreshesAreSpaced

(* The state of the promise, as the refinement maps it.                      *)
Running == {p \in Procs : at[p] \in {"wait", "verify"}}
Rest == IF elapsed < MinInterval THEN elapsed ELSE MinInterval

(* Token-source steps that touch neither memory nor the file.                *)
LEMMA CallsKeepMemory ==
    ASSUME NEW p \in Procs, Get(p) \/ MaybeReload(p) \/ ReloadNow(p) \/ UNCHANGED tokenVars
    PROVE  UNCHANGED <<disk, mem>>
BY DEF Get, MaybeReload, ReloadNow, tokenVars

(* A move between places outside an attempt, or inside one, is invisible.    *)
LEMMA MoveIsAStutter ==
    ASSUME RefreshInv, NEW p \in Procs, NEW place \in Places,
           at' = [at EXCEPT ![p] = place],
           at[p] \in {"wait", "verify"} <=> place \in {"wait", "verify"},
           UNCHANGED <<elapsed, disk, mem>>
    PROVE  UNCHANGED <<Running, Rest, mem.ver, disk.id>>
BY DEF Running, Rest, RefreshInv, RefreshTypeOK

(* An attempt begins with nobody else in one, and ends with nobody in one.   *)
LEMMA RunningFacts ==
    ASSUME RefreshInv, NEW p \in Procs
    PROVE  /\ at[p] \in {"wait", "verify"} => Running = {p}
           /\ at[p] = "fork" => Running = {}
BY DEF Running, RefreshInv, RefreshLockInv, Critical

(* The end of an attempt that had a child is the End of the promise, and of  *)
(* one that had none its GiveUp.                                             *)
LEMMA NoteEndsAttempt ==
    ASSUME RefreshInv, NEW p \in Procs, NEW ok \in BOOLEAN, NoteRefreshDone(p, ok)
    PROVE  /\ at[p] \in {"wait", "verify"} => Promise!End(p)
           /\ at[p] = "fork" /\ ~Cooling => Promise!GiveUp
<1>1. /\ UNCHANGED <<disk, mem>>
      /\ \E place \in {"idle", "first", "second"} : at' = [at EXCEPT ![p] = place]
  BY AfterFacts, CallsKeepMemory DEF NoteRefreshDone
<1>2. elapsed' = 0
  BY DEF NoteRefreshDone
<1>3. CASE at[p] \in {"wait", "verify"}
  <2>1. Running = {p} /\ Running' = {}
    BY <1>1, <1>3, RunningFacts DEF Running, RefreshInv, RefreshTypeOK
  <2> QED
    BY <1>1, <1>2, <1>3, <2>1 DEF Promise!End, Running
<1>4. CASE at[p] = "fork" /\ ~Cooling
  <2>1. Running = {} /\ Running' = {}
    BY <1>1, <1>4, RunningFacts DEF Running, RefreshInv, RefreshTypeOK
  <2>2. ~(elapsed < MinInterval)
    BY <1>4 DEF Cooling
  <2> QED
    BY <1>1, <1>2, <1>4, <2>1, <2>2 DEF Promise!GiveUp, Running
<1> QED
  BY <1>3, <1>4

LEMMA PromiseStep == RefreshInv /\ [Next]_vars => [Promise!Next]_(Promise!vars)
<1> SUFFICES ASSUME RefreshInv, [Next]_vars PROVE [Promise!Next]_(Promise!vars)
  OBVIOUS
<1>0. mem'.ver <= disk'.id /\ mem'.ver \in Nat /\ disk'.id \in Nat
  BY TokenInvStep DEF TokenInv, TokenTypeOK, MemInv, WriteIds
<1>1. ASSUME UNCHANGED <<Running, Rest, mem.ver, disk.id>>
      PROVE  UNCHANGED Promise!vars
  BY <1>1 DEF Promise!vars, Running, Rest
<1>2. CASE Tick
  <2>1. elapsed \in Nat /\ UNCHANGED <<at, mem, disk>>
    BY <1>2 DEF Tick, RefreshInv, RefreshTypeOK
  <2>2. CASE elapsed < MinInterval
    <3>1. elapsed' = elapsed + 1
      BY <1>2, <2>1, <2>2, CapFacts DEF Tick
    <3> QED
      BY <2>1, <2>2, <3>1 DEF Promise!Next, Promise!Pass
  <2>3. CASE ~(elapsed < MinInterval)
    <3>1. ~(elapsed' < MinInterval)
      BY <1>2, <2>1, <2>3, CapFacts DEF Tick
    <3> QED
      BY <2>1, <2>3, <3>1, <1>1 DEF Running, Rest
  <2> QED
    BY <2>2, <2>3
<1>3. ASSUME NEW c, Write(c), UNCHANGED <<at, elapsed, mem>> PROVE Promise!Publish
  BY <1>3, TokenInvStep DEF Write, Promise!Publish
<1>4. CASE ExternalLogin \/ ForeignWrite
  BY <1>3, <1>4 DEF ExternalLogin, ForeignWrite, refreshVars, Promise!Next
<1>5. CASE Age \/ UNCHANGED vars \/ (ThrottleElapses /\ UNCHANGED refreshVars)
  BY <1>1, <1>5 DEF Age, vars, tokenVars, refreshVars, ThrottleElapses, Running, Rest
<1>6. ASSUME NEW p \in Procs, Call(p) PROVE [Promise!Next]_(Promise!vars)
  <2>1. UNCHANGED <<disk, at, elapsed>>
    BY <1>6 DEF Call, CallStep, Throttle, Stat, Compare, Lock, Read, Commit, Load
  <2>2. CASE Commit(p)
    <3>1. mem.ver \in Nat /\ mem.ver <= mem'.ver
      BY <2>2 DEF Commit, RefreshInv, TokenInv, TokenTypeOK, CarriedInv, WriteIds, Ids
    <3>2. mem'.ver \in mem.ver..disk.id
      BY <1>0, <2>1, <3>1
    <3> QED
      BY <2>1, <3>2 DEF Promise!Next, Promise!Load
  <2>3. CASE UNCHANGED mem
    BY <2>1, <2>3, <1>1 DEF Running, Rest
  <2> QED
    BY <1>6, <2>2, <2>3 DEF Call, CallStep, Throttle, Stat, Compare, Lock, Read, Load
<1>7. ASSUME NEW p \in Procs, ServerRotates(p) \/ ChildTruncates(p) \/ ChildWrites(p)
      PROVE  [Promise!Next]_(Promise!vars)
  BY <1>1, <1>3, <1>7 DEF ServerRotates, ChildTruncates, ChildWrites, tokenVars, Running,
     Rest, Promise!Next
<1>8. ASSUME NEW p \in Procs, ChildDies(p) \/ Verify(p) PROVE [Promise!Next]_(Promise!vars)
  BY <1>8, NoteEndsAttempt DEF ChildDies, Verify, RefreshInv, ChildInv, Promise!Next
<1>9. ASSUME NEW p \in Procs, Fork(p) PROVE [Promise!Next]_(Promise!vars)
  <2>1. CASE Cooling
    <3>1. /\ UNCHANGED <<disk, mem, elapsed>>
          /\ \E place \in {"idle", "first", "second"} : at' = [at EXCEPT ![p] = place]
      BY <1>9, <2>1, AfterFacts, CallsKeepMemory DEF Fork
    <3> QED
      BY <1>1, <1>9, <3>1, MoveIsAStutter DEF Fork, Places
  <2>2. CASE ~Cooling /\ mem.cred \in Unrefreshable
    BY <1>9, <2>2, NoteEndsAttempt DEF Fork, Promise!Next
  <2>3. CASE ~Cooling /\ mem.cred \notin Unrefreshable
    <3>1. /\ at' = [at EXCEPT ![p] = "wait"]
          /\ UNCHANGED <<disk, mem, elapsed>>
          /\ ~(elapsed < MinInterval)
      BY <1>9, <2>3 DEF Fork, Go, NoCall, tokenVars, Cooling
    <3>2. Running = {} /\ Running' = {p}
      BY <1>9, <3>1, RunningFacts DEF Fork, Running, RefreshInv, RefreshTypeOK
    <3> QED
      BY <3>1, <3>2 DEF Promise!Next, Promise!Begin, Running
  <2> QED
    BY <1>9, <2>1, <2>2, <2>3 DEF Fork
<1>10. ASSUME NEW p \in Procs,
              \/ p = Watcher /\ (WatchTick \/ WatchChecks)
              \/ LockRefresh(p) \/ TryLock(p) \/ Recheck(p) \/ CompareStale(p)
              \/ ChildExits(p) \/ (p \in Handlers /\ (Arrive(p) \/ HandlerStep(p)))
       PROVE  UNCHANGED <<Running, Rest, mem.ver, disk.id>>
  <2>1. UNCHANGED <<disk, mem, elapsed>>
    BY <1>10, CallsKeepMemory, AfterFacts DEF WatchTick, WatchChecks, RoutineCheck,
       LockRefresh, TryLock, Recheck, CompareStale, ChildExits, Arrive, HandlerStep,
       Answered, Unauthorized, Replay, NoCall, tokenVars
  <2>2. CASE ChildExits(p)
    <3>1. at[p] = "wait" /\ at' = [at EXCEPT ![p] = "verify"]
      BY <2>2 DEF ChildExits, Go, RefreshInv, ChildInv
    <3> QED
      BY <2>1, <3>1, MoveIsAStutter DEF Places
  <2>3. CASE ~ChildExits(p)
    <3>1. /\ at[p] \notin {"wait", "verify"}
          /\ \E place \in Places \ {"wait", "verify"} : at' = [at EXCEPT ![p] = place]
      BY <1>10, <2>3, AfterFacts DEF WatchTick, WatchChecks, RoutineCheck, LockRefresh,
         TryLock, Recheck, CompareStale, Arrive, HandlerStep, Answered, Unauthorized,
         Replay, RequestEnds, Go, Places
    <3> QED
      BY <2>1, <3>1, MoveIsAStutter
  <2> QED
    BY <2>2, <2>3
<1> QED
  BY <1>1, <1>2, <1>4, <1>5, <1>6, <1>7, <1>8, <1>9, <1>10
     DEF Next, RefreshStep, ChildStep, Handlers

(* Self-refresh implements its promise.                                      *)
THEOREM RefreshKeepsItsPromise == Spec => ImplementsPromise
<1>1. Init => Promise!Init
  <2> SUFFICES ASSUME Init PROVE Promise!Init
    OBVIOUS
  <2>1. mem.ver \in Nat /\ disk.id = mem.ver
    BY DEF Init, TokenInit, WriteIds
  <2> QED
    BY <2>1, CapFacts DEF Init, Promise!Init
<1> QED
  BY <1>1, PromiseStep, RefreshInvariant, PTL DEF Spec, ImplementsPromise, Promise!Spec

----------------------------------------------------------------------------
(* The order of the locks *)

(* Who holds reloadMu is between the stat and the commit of a reload, who    *)
(* holds refreshMu is in its section, and who waits for it is in no call.    *)
ReloadHeldInv == reloadMu # NoProc => step[reloadMu] \in {"read", "commit"}
RefreshHeldInv == refreshMu # NoProc => at[refreshMu] \in Critical
WaitInv == \A p \in Procs : at[p] = "lock" => op[p] = "none"

HeldInv == RefreshInv /\ ReloadHeldInv /\ RefreshHeldInv /\ WaitInv

LEMMA ReloadHeldStep == TokenInv /\ ReloadHeldInv /\ [TokenNext]_tokenVars => ReloadHeldInv'
<1> SUFFICES ASSUME TokenInv, ReloadHeldInv, [TokenNext]_tokenVars PROVE ReloadHeldInv'
  OBVIOUS
<1>0. step \in [Procs -> Steps] /\ op \in [Procs -> Ops] /\ reloadMu \in Procs \cup {NoProc}
  BY DEF TokenInv, TokenTypeOK
<1>1. CASE ExternalWrite \/ ThrottleElapses \/ UNCHANGED tokenVars
  BY <1>1 DEF ExternalWrite, ThrottleElapses, tokenVars, callVars, ReloadHeldInv
<1>2. ASSUME NEW p \in Procs, Get(p) \/ MaybeReload(p) \/ ReloadNow(p) PROVE ReloadHeldInv'
  <2>1. step[p] = "idle" /\ reloadMu' = reloadMu /\ \A q \in Procs \ {p} : step'[q] = step[q]
    BY <1>0, <1>2 DEF Get, MaybeReload, ReloadNow, Enter, TokenInv, ControlInv
  <2> QED
    BY <1>0, <2>1 DEF ReloadHeldInv
<1>3. ASSUME NEW p \in Procs, CallStep(p) PROVE ReloadHeldInv'
  <2>1. \A q \in Procs \ {p} : step'[q] = step[q]
    BY <1>0, <1>3 DEF CallStep, Throttle, Stat, Compare, Lock, Read, Commit, Load, Return,
       ReloadFails, MaybeReloadReturns, Continue, ReloadNowGets
  <2>2. CASE step[p] \in {"read", "commit"}
    <3>1. reloadMu' = NoProc \/ (reloadMu' = reloadMu /\ step'[p] = "commit")
      BY <1>0, <1>3, <2>2 DEF CallStep, Throttle, Stat, Compare, Lock, Read, Commit, Load
    <3>2. reloadMu = p
      BY <2>2 DEF TokenInv, LockInv
    <3> QED
      BY <3>1, <3>2 DEF ReloadHeldInv
  <2>3. CASE step[p] \notin {"read", "commit"}
    <3>1. reloadMu' = reloadMu \/ (reloadMu' = p /\ step'[p] = "read")
      BY <1>0, <1>3, <2>3 DEF CallStep, Throttle, Stat, Compare, Lock, Read, Commit, Load
    <3> QED
      BY <1>0, <2>1, <2>3, <3>1 DEF ReloadHeldInv
  <2> QED
    BY <2>2, <2>3
<1> QED
  BY <1>1, <1>2, <1>3 DEF TokenNext

(* A goroutine goes from one place to another: into the section of refreshMu *)
(* with the lock, out of it without.                                         *)
GoesTo(p, place) ==
    /\ at' = [at EXCEPT ![p] = place]
    /\ \A q \in Procs \ {p} : op'[q] = op[q]
    /\ place = "lock" => op[p] = "none" /\ op' = op
    /\ \/ refreshMu' = refreshMu /\ (at[p] \in Critical => place \in Critical)
       \/ refreshMu' = p /\ place \in Critical
       \/ refreshMu' = NoProc

LEMMA AfterGoes ==
    ASSUME RefreshInv, NEW p \in Procs, AfterEnsureFresh(p),
           refreshMu' = NoProc \/ (refreshMu' = refreshMu /\ at[p] \notin Critical)
    PROVE  \E place \in Places : GoesTo(p, place)
<1>1. PICK place \in {"idle", "first", "second"} : at' = [at EXCEPT ![p] = place]
  BY AfterFacts
<1>2. \A q \in Procs \ {p} : op'[q] = op[q]
  <2>1. Get(p) \/ UNCHANGED tokenVars
    BY AfterFacts
  <2>2. op \in [Procs -> Ops]
    BY DEF RefreshInv, RefreshTypeOK, TokenTypeOK
  <2> QED
    BY <2>1, <2>2 DEF Get, Enter, tokenVars, callVars
<1> QED
  BY <1>1, <1>2 DEF GoesTo, Places

LEMMA NextGoes ==
    ASSUME RefreshInv, [Next]_vars
    PROVE  \/ /\ UNCHANGED <<at, refreshMu>>
              /\ \/ UNCHANGED op
                 \/ \E p \in Procs : op[p] # "none" /\ \A q \in Procs \ {p} : op'[q] = op[q]
           \/ \E p \in Procs, place \in Places : GoesTo(p, place)
<1> DEFINE Goal ==
           \/ /\ UNCHANGED <<at, refreshMu>>
              /\ \/ UNCHANGED op
                 \/ \E p \in Procs : op[p] # "none" /\ \A q \in Procs \ {p} : op'[q] = op[q]
           \/ \E p \in Procs, place \in Places : GoesTo(p, place)
<1>0. /\ step \in [Procs -> Steps] /\ op \in [Procs -> Ops] /\ at \in [Procs -> Places]
      /\ {"watch", "try", "recheck", "fork", "wait", "verify", "lock", "compare", "second",
          "replay", "idle"} \subseteq Places
  BY DEF RefreshInv, RefreshTypeOK, TokenTypeOK, Places
<1>1. CASE Tick \/ Age \/ ExternalLogin \/ ForeignWrite \/ (ThrottleElapses /\ UNCHANGED refreshVars)
           \/ UNCHANGED vars
  BY <1>1 DEF Tick, Age, ExternalLogin, ForeignWrite, ThrottleElapses, vars, tokenVars, callVars,
     refreshVars
<1>2. CASE WatchTick
  <2>1. GoesTo(Watcher, "watch")
    BY <1>0, <1>2 DEF WatchTick, MaybeReload, Enter, Go, GoesTo, Critical
  <2> QED
    BY <1>0, <2>1
<1>3. ASSUME NEW p \in Procs, RoutineCheck(p), refreshMu' = refreshMu, at[p] \notin Critical
      PROVE  Goal
  <2>1. CASE Go(p, "try") /\ NoCall
    <3>1. GoesTo(p, "try")
      BY <1>0, <1>3, <2>1 DEF Go, NoCall, tokenVars, callVars, GoesTo
    <3> QED
      BY <1>0, <3>1
  <2>2. CASE AfterEnsureFresh(p)
    BY <1>3, <2>2, AfterGoes
  <2> QED
    BY <1>3, <2>1, <2>2 DEF RoutineCheck
<1>4. CASE WatchChecks
  BY <1>3, <1>4 DEF WatchChecks, Critical
<1>5. ASSUME NEW p \in Handlers, Arrive(p) PROVE Goal
  BY <1>3, <1>5 DEF Arrive, Critical, Handlers
<1>6. ASSUME NEW p \in Procs, Call(p) PROVE Goal
  <2>1. UNCHANGED <<at, refreshMu>> /\ step[p] # "idle"
    BY <1>6 DEF Call, CallStep, Throttle, Stat, Compare, Lock, Read, Commit, Load
  <2>2. op[p] # "none"
    BY <2>1 DEF RefreshInv, TokenInv, ControlInv
  <2>3. \A q \in Procs \ {p} : op'[q] = op[q]
    BY <1>0, <1>6 DEF Call, CallStep, Throttle, Stat, Compare, Lock, Read, Commit, Load, Return,
       ReloadFails, MaybeReloadReturns, Continue, ReloadNowGets
  <2> QED
    BY <2>1, <2>2, <2>3
<1>7. ASSUME NEW p \in Procs, LockRefresh(p) PROVE Goal
  <2>1. GoesTo(p, "compare")
    BY <1>0, <1>7 DEF LockRefresh, Get, Enter, Go, GoesTo, Critical
  <2> QED
    BY <1>0, <2>1
<1>8. ASSUME NEW p \in Procs, RefreshStep(p) PROVE Goal
  <2>1. CASE TryLock(p)
    <3>1. CASE refreshMu = NoProc
      <4>1. GoesTo(p, "recheck")
        BY <1>0, <2>1, <3>1 DEF TryLock, Go, NoCall, tokenVars, callVars, GoesTo, Critical
      <4> QED
        BY <1>0, <4>1
    <3>2. CASE refreshMu # NoProc
      BY <2>1, <3>2, AfterGoes DEF TryLock, Critical
    <3> QED
      BY <3>1, <3>2
  <2>2. CASE Recheck(p) \/ CompareStale(p)
    <3>1. CASE Go(p, "fork") /\ NoCall /\ UNCHANGED refreshMu
      <4>1. GoesTo(p, "fork")
        BY <1>0, <3>1 DEF Go, NoCall, tokenVars, callVars, GoesTo, Critical
      <4> QED
        BY <1>0, <4>1
    <3>2. CASE AfterEnsureFresh(p) /\ refreshMu' = NoProc
      BY <3>2, AfterGoes
    <3> QED
      BY <2>2, <3>1, <3>2 DEF Recheck, CompareStale
  <2>3. CASE Fork(p) \/ Verify(p)
    <3>1. CASE Go(p, "wait") /\ NoCall /\ UNCHANGED refreshMu
      <4>1. GoesTo(p, "wait")
        BY <1>0, <3>1 DEF Go, NoCall, tokenVars, callVars, GoesTo, Critical
      <4> QED
        BY <1>0, <4>1
    <3>2. CASE AfterEnsureFresh(p) /\ refreshMu' = NoProc
      BY <3>2, AfterGoes
    <3> QED
      BY <2>3, <3>1, <3>2 DEF Fork, Verify, NoteRefreshDone
  <2> QED
    BY <1>8, <2>1, <2>2, <2>3 DEF RefreshStep
<1>9. ASSUME NEW p \in Procs, ChildStep(p) PROVE Goal
  <2>1. CASE ServerRotates(p) \/ ChildTruncates(p) \/ ChildWrites(p)
    BY <2>1 DEF ServerRotates, ChildTruncates, ChildWrites, tokenVars, callVars
  <2>2. CASE ChildExits(p)
    <3>1. GoesTo(p, "verify")
      BY <1>0, <2>2 DEF ChildExits, ReloadNow, Enter, Go, GoesTo, Critical
    <3> QED
      BY <1>0, <3>1
  <2>3. CASE ChildDies(p)
    BY <2>3, AfterGoes DEF ChildDies, NoteRefreshDone
  <2> QED
    BY <1>9, <2>1, <2>2, <2>3 DEF ChildStep
<1>10. ASSUME NEW p \in Handlers, HandlerStep(p) PROVE Goal
  <2>1. p \in Procs /\ at[p] \in {"first", "replay", "second"} /\ refreshMu' = refreshMu
        /\ op[p] = "none"
    BY <1>10 DEF Handlers, HandlerStep, Answered, Unauthorized, Replay
  <2>2. at[p] \notin Critical
    BY <2>1 DEF Critical
  <2>3. PICK place \in {"idle", "lock", "second", "replay"} :
            /\ at' = [at EXCEPT ![p] = place]
            /\ UNCHANGED tokenVars \/ (place = "second" /\ ReloadNow(p))
    BY <1>10 DEF HandlerStep, Answered, Unauthorized, Replay, RequestEnds, Go, NoCall
  <2>4. /\ \A q \in Procs \ {p} : op'[q] = op[q]
        /\ place = "lock" => op' = op
    BY <1>0, <2>3 DEF ReloadNow, Enter, tokenVars, callVars
  <2>5. GoesTo(p, place)
    BY <2>1, <2>2, <2>3, <2>4 DEF GoesTo
  <2> QED
    BY <1>0, <2>1, <2>5
<1> QED
  BY <1>1, <1>2, <1>4, <1>5, <1>6, <1>7, <1>8, <1>9, <1>10 DEF Next

LEMMA HeldStep == HeldInv /\ [Next]_vars => HeldInv'
<1> SUFFICES ASSUME HeldInv, [Next]_vars PROVE HeldInv'
  OBVIOUS
<1>0. /\ at \in [Procs -> Places] /\ op \in [Procs -> Ops]
      /\ refreshMu \in Procs \cup {NoProc} /\ NoProc \notin Procs
  BY DEF HeldInv, RefreshInv, RefreshTypeOK, TokenTypeOK
<1>1. RefreshInv'
  BY RefreshStepInv DEF HeldInv
<1>2. ReloadHeldInv'
  BY TokenStep, ReloadHeldStep DEF HeldInv, RefreshInv
<1>3. ASSUME UNCHANGED <<at, refreshMu>>,
             \/ UNCHANGED op
             \/ \E p \in Procs : op[p] # "none" /\ \A q \in Procs \ {p} : op'[q] = op[q]
      PROVE  RefreshHeldInv' /\ WaitInv'
  BY <1>0, <1>3 DEF HeldInv, RefreshHeldInv, WaitInv
<1>4. ASSUME NEW p \in Procs, NEW place \in Places, GoesTo(p, place)
      PROVE  RefreshHeldInv' /\ WaitInv'
  <2>1. at'[p] = place /\ \A q \in Procs \ {p} : at'[q] = at[q]
    BY <1>0, <1>4 DEF GoesTo
  <2>2. RefreshHeldInv'
    BY <1>0, <1>4, <2>1 DEF GoesTo, HeldInv, RefreshHeldInv
  <2>3. WaitInv'
    BY <1>0, <1>4, <2>1 DEF GoesTo, HeldInv, WaitInv
  <2> QED
    BY <2>2, <2>3
<1>5. RefreshHeldInv' /\ WaitInv'
  BY <1>3, <1>4, NextGoes DEF HeldInv, RefreshHeldInv, WaitInv
<1> QED
  BY <1>1, <1>2, <1>5 DEF HeldInv

(* ensureFresh, get and reload take their locks in one order and give them   *)
(* back on every path, whatever the children do and others write.            *)
THEOREM LocksAreOrdered == Spec => []NobodyWaitsInACircle
<1>1. Init => HeldInv
  BY RefreshInitInv DEF Init, TokenInit, HeldInv, ReloadHeldInv, RefreshHeldInv, WaitInv
<1>2. HeldInv => NobodyWaitsInACircle
  <2> SUFFICES ASSUME HeldInv, reloadMu # NoProc PROVE at[reloadMu] # "lock"
    BY DEF HeldInv, ReloadHeldInv, RefreshHeldInv, NobodyWaitsInACircle
  <2>1. reloadMu \in Procs
    BY DEF HeldInv, RefreshInv, RefreshTypeOK, TokenTypeOK
  <2>2. op[reloadMu] # "none"
    BY <2>1 DEF HeldInv, ReloadHeldInv, RefreshInv, TokenInv, ControlInv
  <2> QED
    BY <2>1, <2>2 DEF HeldInv, WaitInv
<1> QED
  BY <1>1, <1>2, HeldStep, PTL DEF Spec

----------------------------------------------------------------------------
(* The history of a token: which write of the file it is from *)

(* A content that is about to be committed is the one that memory already    *)
(* has from the same write.                                                  *)
GotInv ==
    \A p \in Procs :
        step[p] = "commit" /\ got[p].id = mem.ver => got[p].cred = mem.cred

(* What a request has sent is the content of the write it is from.           *)
FromInv ==
    \A p \in Procs :
        /\ op[p] # "none" => val[p] = NoToken
        /\ from[p] <= mem.ver
        /\ at[p] = "first" =>
               /\ op[p] \in {"none", "get"}
               /\ sent[p] = NoToken
               /\ op[p] = "none" =>
                      val[p] \in Creds /\ (from[p] = mem.ver => val[p] = mem.cred)
        /\ at[p] = "second" => sent[p] # NoToken
        /\ sent[p] # NoToken /\ from[p] = mem.ver => sent[p] = mem.cred

(* While the file is as the child has left it, it holds another credential   *)
(* than the one the child was given, and the reload that follows finds it.   *)
WroteInv ==
    \A p \in Procs :
        /\ child[p] \in {"rotated", "writing"} => fresh[p] # before[p]
        /\ at[p] \notin {"wait", "verify"} => wrote[p] = 0
        /\ wrote[p] <= disk.id
        /\ wrote[p] = disk.id => disk.cred \in Creds \ {before[p]}
        /\ at[p] = "verify" =>
               /\ op[p] # "maybeReload"
               /\ op[p] # "none" => wrote[p] <= asked[p]
               /\ op[p] = "none" /\ wrote[p] = disk.id => val[p] = disk.cred

HistoryInv == RefreshInv /\ GotInv /\ FromInv /\ WroteInv

(* Before anything is read again there is nothing to relate.                 *)
LEMMA HistoryInitInv == Init => HistoryInv
<1> SUFFICES ASSUME Init PROVE HistoryInv
  OBVIOUS
<1>1. mem.ver \in 1..MaxWrites /\ disk.id \in 1..MaxWrites
  BY DEF Init, TokenInit, WriteIds
<1>2. GotInv /\ FromInv /\ WroteInv
  BY <1>1 DEF Init, TokenInit, GotInv, FromInv, WroteInv
<1> QED
  BY <1>2, RefreshInitInv DEF HistoryInv

(* Reads carry what the file has, and memory only changes by a commit of the *)
(* one that holds reloadMu.                                                  *)
LEMMA GotStep == TokenInv /\ GotInv /\ [TokenNext]_tokenVars => GotInv'
<1> SUFFICES ASSUME TokenInv, GotInv, [TokenNext]_tokenVars, NEW p \in Procs,
                    step'[p] = "commit", got'[p].id = mem'.ver
             PROVE  got'[p].cred = mem'.cred
  BY DEF GotInv
<1>1. CASE step[p] = "commit" /\ UNCHANGED <<mem, got[p]>>
  BY <1>1 DEF GotInv
<1>2. CASE UNCHANGED tokenVars
  BY <1>2 DEF tokenVars, callVars, GotInv
<1>3. CASE ExternalWrite \/ ThrottleElapses
  BY <1>3 DEF ExternalWrite, ThrottleElapses, callVars, GotInv
<1>4. ASSUME NEW q \in Procs, Get(q) \/ MaybeReload(q) \/ ReloadNow(q)
      PROVE  step[p] = "commit" /\ UNCHANGED <<mem, got[p]>>
  BY <1>4 DEF Get, MaybeReload, ReloadNow, Enter, TokenInv, TokenTypeOK
<1>5. ASSUME NEW q \in Procs, Throttle(q) \/ Stat(q) \/ Compare(q) \/ Lock(q) \/ Load(q)
      PROVE  step[p] = "commit" /\ UNCHANGED <<mem, got[p]>>
  BY <1>5 DEF Throttle, Stat, Compare, Lock, Load, ReloadFails, MaybeReloadReturns, Continue,
     Return, TokenInv, TokenTypeOK
<1>6. ASSUME NEW q \in Procs, Read(q) PROVE got'[p].cred = mem'.cred
  <2>1. CASE q = p
    <3>1. got'[p] = disk /\ mem' = mem
      BY <1>6, <2>1 DEF Read, ReloadFails, MaybeReloadReturns, Continue, Return, TokenInv,
         TokenTypeOK
    <3> QED
      BY <3>1 DEF TokenInv, MemInv
  <2>2. CASE q # p
    <3>1. step[p] = "commit" /\ UNCHANGED <<mem, got[p]>>
      BY <1>6, <2>2 DEF Read, ReloadFails, MaybeReloadReturns, Continue, Return, TokenInv,
         TokenTypeOK
    <3> QED
      BY <3>1, <1>1
  <2> QED
    BY <2>1, <2>2
<1>7. ASSUME NEW q \in Procs, Commit(q) PROVE FALSE
  <2>1. step'[p] = step[p] \/ q = p
    BY <1>7 DEF Commit, ReloadNowGets, MaybeReloadReturns, Continue, Return, TokenInv,
       TokenTypeOK
  <2>2. q # p
    BY <1>7 DEF Commit, ReloadNowGets, MaybeReloadReturns, Continue, Return, TokenInv,
       TokenTypeOK
  <2> QED
    BY <1>7, <2>1, <2>2 DEF Commit, TokenInv, LockInv
<1> QED
  BY <1>1, <1>2, <1>3, <1>4, <1>5, <1>6, <1>7 DEF TokenNext, CallStep

(* What follows ensureFresh gets a token for the place it goes to.           *)
LEMMA AfterGets ==
    ASSUME NEW p \in Procs, AfterEnsureFresh(p)
    PROVE  \E place \in {"idle", "first", "second"} :
               /\ at' = [at EXCEPT ![p] = place]
               /\ \/ place = "idle" /\ UNCHANGED tokenVars
                  \/ place = "first" /\ sent[p] = NoToken /\ Get(p)
                  \/ place = "second" /\ sent[p] # NoToken /\ Get(p)
BY DEF AfterEnsureFresh, Go, NoCall

(* A move keeps what is known of the tokens sent, and so does a call.        *)
LEMMA MoveFrom ==
    ASSUME HistoryInv, NEW p \in Procs, NEW place \in Places,
           at' = [at EXCEPT ![p] = place],
           Get(p) \/ MaybeReload(p) \/ ReloadNow(p) \/ UNCHANGED tokenVars,
           place = "first" => sent[p] = NoToken /\ Get(p),
           place = "second" => sent[p] # NoToken,
           UNCHANGED <<sent, from>>
    PROVE  FromInv'
<1> SUFFICES ASSUME NEW q \in Procs
             PROVE  /\ op'[q] # "none" => val'[q] = NoToken
                    /\ from'[q] <= mem'.ver
                    /\ at'[q] = "first" =>
                           /\ op'[q] \in {"none", "get"}
                           /\ sent'[q] = NoToken
                           /\ op'[q] = "none" =>
                                  /\ val'[q] \in Creds
                                  /\ from'[q] = mem'.ver => val'[q] = mem'.cred
                    /\ at'[q] = "second" => sent'[q] # NoToken
                    /\ sent'[q] # NoToken /\ from'[q] = mem'.ver => sent'[q] = mem'.cred
  BY DEF FromInv
<1>1. mem' = mem
  BY CallsKeepMemory
<1>2. CASE q # p
  <2>1. at'[q] = at[q] /\ op'[q] = op[q] /\ val'[q] = val[q]
    BY <1>2 DEF Get, MaybeReload, ReloadNow, Enter, tokenVars, callVars, HistoryInv,
       RefreshInv, RefreshTypeOK, TokenTypeOK
  <2> QED
    BY <1>1, <2>1 DEF HistoryInv, FromInv
<1>3. CASE q = p
  <2>1. at'[p] = place
    BY DEF HistoryInv, RefreshInv, RefreshTypeOK
  <2>2. \/ op'[p] # "none" /\ val'[p] = NoToken /\ (Get(p) => op'[p] = "get")
        \/ op'[p] = op[p] /\ val'[p] = val[p] /\ ~Get(p)
    BY DEF Get, MaybeReload, ReloadNow, Enter, tokenVars, callVars, HistoryInv, RefreshInv,
       RefreshTypeOK, TokenTypeOK
  <2> QED
    BY <1>1, <1>3, <2>1, <2>2 DEF HistoryInv, FromInv
<1> QED
  BY <1>2, <1>3

(* The steps of a call: only a commit changes memory, and only the last line *)
(* of get returns a token.                                                   *)
LEMMA CallFrom == ASSUME HistoryInv, NEW p \in Procs, Call(p) PROVE FromInv'
<1> SUFFICES ASSUME NEW q \in Procs
             PROVE  /\ op'[q] # "none" => val'[q] = NoToken
                    /\ from'[q] <= mem'.ver
                    /\ at'[q] = "first" =>
                           /\ op'[q] \in {"none", "get"}
                           /\ sent'[q] = NoToken
                           /\ op'[q] = "none" =>
                                  /\ val'[q] \in Creds
                                  /\ from'[q] = mem'.ver => val'[q] = mem'.cred
                    /\ at'[q] = "second" => sent'[q] # NoToken
                    /\ sent'[q] # NoToken /\ from'[q] = mem'.ver => sent'[q] = mem'.cred
  BY DEF FromInv
<1>1. UNCHANGED <<at, sent>>
  BY DEF Call
<1>2. /\ op[q] # "none" => val[q] = NoToken
      /\ from[q] \in Nat /\ from[q] <= mem.ver
      /\ mem.ver \in Nat /\ mem.cred \in Creds
      /\ at[q] = "first" =>
             /\ op[q] \in {"none", "get"}
             /\ sent[q] = NoToken
             /\ op[q] = "none" => val[q] \in Creds /\ (from[q] = mem.ver => val[q] = mem.cred)
      /\ at[q] = "second" => sent[q] # NoToken
      /\ sent[q] # NoToken /\ from[q] = mem.ver => sent[q] = mem.cred
  BY DEF HistoryInv, FromInv, RefreshInv, RefreshTypeOK, TokenTypeOK, WriteIds, Ids
<1>3. CASE step[p] = "load"
  <2>1. Load(p) /\ op[p] # "none"
    BY <1>3 DEF Call, CallStep, Throttle, Stat, Compare, Lock, Read, Commit, HistoryInv,
       RefreshInv, TokenInv, ControlInv
  <2>2. mem' = mem
    BY <2>1 DEF Load
  <2>3. CASE q = p
    <3>1. op'[q] = "none" /\ val'[q] = mem.cred
      BY <2>1, <2>3 DEF Load, Return, HistoryInv, RefreshInv, RefreshTypeOK, TokenTypeOK
    <3>2. from'[q] = IF at[q] = "first" THEN mem.ver ELSE from[q]
      BY <1>3, <2>3 DEF Call, HistoryInv, RefreshInv, RefreshTypeOK
    <3> QED
      BY <1>1, <1>2, <2>2, <3>1, <3>2
  <2>4. CASE q # p
    <3>1. op'[q] = op[q] /\ val'[q] = val[q] /\ from'[q] = from[q]
      BY <2>1, <2>4 DEF Load, Return, Call, HistoryInv, RefreshInv, RefreshTypeOK,
         TokenTypeOK
    <3> QED
      BY <1>1, <1>2, <2>2, <3>1
  <2> QED
    BY <2>3, <2>4
<1>4. CASE step[p] # "load"
  <2>1. from' = from
    BY <1>4 DEF Call
  <2>2. \/ op'[q] = op[q] /\ val'[q] = val[q]
        \/ /\ q = p /\ op[q] # "none"
           /\ op'[q] = "get" /\ val'[q] = val[q]
        \/ /\ q = p /\ op[q] \in {"maybeReload", "reloadNow"}
           /\ op'[q] = "none" /\ val'[q] = NoToken
    BY <1>4 DEF Call, CallStep, Throttle, Stat, Compare, Lock, Read, Commit, Load,
       ReloadFails, ReloadNowGets, MaybeReloadReturns, Continue, Return, HistoryInv,
       RefreshInv, RefreshTypeOK, TokenTypeOK, TokenInv, ControlInv
  <2>3. CASE mem' = mem
    BY <1>1, <1>2, <2>1, <2>2, <2>3
  <2>4. CASE Commit(p)
    <3>1. /\ mem'.ver = got[p].id /\ mem'.cred = got[p].cred
          /\ got[p].id \in Nat /\ mem.ver <= got[p].id
          /\ got[p].id = mem.ver => got[p].cred = mem.cred
      <4>1. mem'.ver = got[p].id /\ mem'.cred = got[p].cred
        BY <2>4 DEF Commit
      <4>2. mem.ver \in 1..MaxWrites /\ seen[p] \in 0..MaxWrites /\ got[p].id \in 0..MaxWrites
        BY DEF HistoryInv, RefreshInv, TokenInv, TokenTypeOK, WriteIds, Ids
      <4>3. mem.ver <= seen[p] /\ seen[p] <= got[p].id
        BY <2>4 DEF Commit, HistoryInv, RefreshInv, TokenInv, CarriedInv
      <4>4. got[p].id = mem.ver => got[p].cred = mem.cred
        BY <2>4 DEF Commit, HistoryInv, GotInv
      <4> QED
        BY <4>1, <4>2, <4>3, <4>4
    <3> QED
      BY <1>1, <1>2, <2>1, <2>2, <3>1
  <2> QED
    BY <1>4, <2>3, <2>4 DEF Call, CallStep, Throttle, Stat, Compare, Lock, Read, Load
<1> QED
  BY <1>3, <1>4

(* A request ends, or notes what it has sent.                                *)
LEMMA HandlerFrom == ASSUME HistoryInv, NEW p \in Handlers, HandlerStep(p) PROVE FromInv'
<1>0. p \in Procs
  BY DEF Handlers
<1>1. CASE Replay(p) /\ UNCHANGED <<sent, from>>
  <2>1. \E place \in {"idle", "replay"} : at' = [at EXCEPT ![p] = place]
    BY <1>1 DEF Replay, RequestEnds, Go
  <2> QED
    BY <1>0, <1>1, <2>1, MoveFrom DEF Replay, NoCall, Places
<1>2. CASE UNCHANGED tokenVars /\ RequestEnds(p)
  <2> SUFFICES ASSUME NEW q \in Procs
               PROVE  /\ op[q] # "none" => val[q] = NoToken
                      /\ from'[q] <= mem.ver
                      /\ at'[q] = "first" =>
                             /\ op[q] \in {"none", "get"}
                             /\ sent'[q] = NoToken
                             /\ op[q] = "none" =>
                                    /\ val[q] \in Creds
                                    /\ from'[q] = mem.ver => val[q] = mem.cred
                      /\ at'[q] = "second" => sent'[q] # NoToken
                      /\ sent'[q] # NoToken /\ from'[q] = mem.ver => sent'[q] = mem.cred
    BY <1>2 DEF FromInv, tokenVars, callVars
  <2>1. CASE q = p
    <3>1. at'[q] = "idle" /\ sent'[q] = NoToken /\ from'[q] = 0
      BY <1>2, <2>1 DEF RequestEnds, Go, HistoryInv, RefreshInv, RefreshTypeOK
    <3> QED
      BY <3>1 DEF HistoryInv, FromInv, RefreshInv, RefreshTypeOK, TokenTypeOK, WriteIds
  <2>2. CASE q # p
    <3>1. at'[q] = at[q] /\ sent'[q] = sent[q] /\ from'[q] = from[q]
      BY <1>2, <2>2 DEF RequestEnds, Go, HistoryInv, RefreshInv, RefreshTypeOK
    <3> QED
      BY <3>1 DEF HistoryInv, FromInv
  <2> QED
    BY <2>1, <2>2
<1>3. CASE Unauthorized(p)
  <2> SUFFICES ASSUME NEW q \in Procs
               PROVE  /\ op'[q] # "none" => val'[q] = NoToken
                      /\ from'[q] <= mem'.ver
                      /\ at'[q] = "first" =>
                             /\ op'[q] \in {"none", "get"}
                             /\ sent'[q] = NoToken
                             /\ op'[q] = "none" =>
                                    /\ val'[q] \in Creds
                                    /\ from'[q] = mem'.ver => val'[q] = mem'.cred
                      /\ at'[q] = "second" => sent'[q] # NoToken
                      /\ sent'[q] # NoToken /\ from'[q] = mem'.ver => sent'[q] = mem'.cred
    BY DEF FromInv
  <2>1. mem' = mem /\ from' = from
    BY <1>3 DEF Unauthorized, NoCall, tokenVars, ReloadNow
  <2>2. CASE q = p
    <3>1. /\ at[p] = "first" /\ op[p] = "none" /\ sent'[p] = val[p]
          /\ at'[p] \in {"lock", "second"}
      BY <1>0, <1>3 DEF Unauthorized, Go, HistoryInv, RefreshInv, RefreshTypeOK
    <3>2. \/ op'[p] = op[p] /\ val'[p] = val[p]
          \/ op'[p] = "reloadNow" /\ val'[p] = NoToken
      BY <1>0, <1>3 DEF Unauthorized, NoCall, tokenVars, callVars, ReloadNow, Enter,
         HistoryInv, RefreshInv, RefreshTypeOK, TokenTypeOK
    <3> QED
      BY <2>1, <2>2, <3>1, <3>2 DEF HistoryInv, FromInv
  <2>3. CASE q # p
    <3>1. UNCHANGED <<at[q], sent[q], op[q], val[q]>>
      BY <1>3, <2>3 DEF Unauthorized, Go, NoCall, tokenVars, callVars, ReloadNow, Enter,
         HistoryInv, RefreshInv, RefreshTypeOK, TokenTypeOK
    <3> QED
      BY <2>1, <3>1 DEF HistoryInv, FromInv
  <2> QED
    BY <2>2, <2>3
<1> QED
  BY <1>1, <1>2, <1>3 DEF HandlerStep, Answered, Replay, NoCall

(* Every step keeps what is known of the tokens sent.                        *)
LEMMA FromStep == HistoryInv /\ [Next]_vars => FromInv'
<1> SUFFICES ASSUME HistoryInv, [Next]_vars PROVE FromInv'
  OBVIOUS
<1>1. CASE UNCHANGED <<mem, op, val, at, sent, from>>
  BY <1>1 DEF HistoryInv, FromInv
<1>2. CASE Tick \/ Age \/ ExternalLogin \/ ForeignWrite \/ (ThrottleElapses /\ UNCHANGED refreshVars)
  BY <1>1, <1>2 DEF Tick, Age, ExternalLogin, ForeignWrite, ThrottleElapses, refreshVars,
     tokenVars, callVars
<1>3. CASE WatchTick
  BY <1>3, MoveFrom DEF WatchTick, Go, Places
<1>4. ASSUME NEW p \in Procs, AfterEnsureFresh(p), UNCHANGED <<sent, from>> PROVE FromInv'
  BY <1>4, AfterGets, MoveFrom DEF Places
<1>5. CASE WatchChecks
  <2>1. CASE enabled /\ ExpiringSoon
    BY <1>5, <2>1, MoveFrom DEF WatchChecks, RoutineCheck, Go, NoCall, Places
  <2> QED
    BY <1>4, <1>5, <2>1 DEF WatchChecks, RoutineCheck
<1>6. ASSUME NEW p \in Handlers, Arrive(p) PROVE FromInv'
  <2>1. CASE enabled /\ ExpiringSoon
    BY <1>6, <2>1, MoveFrom DEF Arrive, RoutineCheck, Go, NoCall, Places, Handlers
  <2> QED
    BY <1>4, <1>6, <2>1 DEF Arrive, RoutineCheck, Handlers
<1>7. ASSUME NEW p \in Procs, TryLock(p) \/ Recheck(p) \/ CompareStale(p) \/ LockRefresh(p)
      PROVE  FromInv'
  <2>1. CASE AfterEnsureFresh(p)
    BY <1>4, <1>7, <2>1 DEF TryLock, Recheck, CompareStale, LockRefresh
  <2>2. CASE ~AfterEnsureFresh(p)
    <3>1. /\ \E place \in {"recheck", "fork", "compare"} : at' = [at EXCEPT ![p] = place]
          /\ Get(p) \/ UNCHANGED tokenVars
      BY <1>7, <2>2 DEF TryLock, Recheck, CompareStale, LockRefresh, Go, NoCall
    <3>2. UNCHANGED <<sent, from>>
      BY <1>7 DEF TryLock, Recheck, CompareStale, LockRefresh
    <3> QED
      BY <3>1, <3>2, MoveFrom DEF Places
  <2> QED
    BY <2>1, <2>2
<1>8. ASSUME NEW p \in Procs, Fork(p) PROVE FromInv'
  <2>1. CASE AfterEnsureFresh(p)
    BY <1>4, <1>8, <2>1 DEF Fork
  <2>2. CASE ~AfterEnsureFresh(p)
    <3>1. at' = [at EXCEPT ![p] = "wait"] /\ UNCHANGED tokenVars
      BY <1>8, <2>2 DEF Fork, NoteRefreshDone, Go, NoCall
    <3> QED
      BY <1>8, <3>1, MoveFrom DEF Fork, Places
  <2> QED
    BY <2>1, <2>2
<1>9. ASSUME NEW p \in Procs, Verify(p) \/ ChildDies(p) PROVE FromInv'
  BY <1>4, <1>9 DEF Verify, ChildDies, NoteRefreshDone
<1>10. ASSUME NEW p \in Procs, ChildExits(p) PROVE FromInv'
  BY <1>10, MoveFrom DEF ChildExits, Go, Places
<1>11. ASSUME NEW p \in Procs, ServerRotates(p) \/ ChildTruncates(p) \/ ChildWrites(p)
       PROVE  FromInv'
  BY <1>1, <1>11 DEF ServerRotates, ChildTruncates, ChildWrites, tokenVars, callVars
<1>12. CASE UNCHANGED vars
  BY <1>1, <1>12 DEF vars, tokenVars, callVars, refreshVars
<1>13. ASSUME NEW p \in Procs, Call(p) PROVE FromInv'
  BY <1>13, CallFrom
<1>14. ASSUME NEW p \in Handlers, HandlerStep(p) PROVE FromInv'
  BY <1>14, HandlerFrom
<1> QED
  BY <1>2, <1>3, <1>5, <1>6, <1>7, <1>8, <1>9, <1>10, <1>11, <1>12, <1>13, <1>14
     DEF Next, RefreshStep, ChildStep

(* The end of an attempt, and a move outside one, keep what is known of what *)
(* the children wrote.                                                       *)
LEMMA MoveWrote ==
    ASSUME HistoryInv, NEW p \in Procs, NEW place \in Places \ {"wait", "verify"},
           at' = [at EXCEPT ![p] = place],
           Get(p) \/ MaybeReload(p) \/ ReloadNow(p) \/ UNCHANGED tokenVars,
           UNCHANGED fresh \/ fresh' = [fresh EXCEPT ![p] = 0],
           \/ at[p] \notin {"wait", "verify"} /\ UNCHANGED <<child, before, wrote>>
           \/ /\ child' = [child EXCEPT ![p] = "none"] \/ (child[p] = "none" /\ child' = child)
              /\ before' = [before EXCEPT ![p] = NoToken]
              /\ wrote' = [wrote EXCEPT ![p] = 0]
    PROVE  WroteInv'
<1> SUFFICES ASSUME NEW q \in Procs
             PROVE  /\ child'[q] \in {"rotated", "writing"} => fresh'[q] # before'[q]
                    /\ at'[q] \notin {"wait", "verify"} => wrote'[q] = 0
                    /\ wrote'[q] <= disk'.id
                    /\ wrote'[q] = disk'.id => disk'.cred \in Creds \ {before'[q]}
                    /\ at'[q] = "verify" =>
                           /\ op'[q] # "maybeReload"
                           /\ op'[q] # "none" => wrote'[q] <= asked'[q]
                           /\ op'[q] = "none" /\ wrote'[q] = disk'.id => val'[q] = disk'.cred
  BY DEF WroteInv
<1>1. disk' = disk /\ disk.id \in Nat /\ disk.id > 0
  BY CallsKeepMemory DEF HistoryInv, RefreshInv, RefreshTypeOK, TokenTypeOK, WriteIds
<1>2. CASE q # p
  <2>1. UNCHANGED <<at[q], child[q], fresh[q], before[q], wrote[q]>>
    BY <1>2 DEF HistoryInv, RefreshInv, RefreshTypeOK
  <2>2. UNCHANGED <<op[q], val[q], asked[q]>>
    BY <1>2 DEF Get, MaybeReload, ReloadNow, Enter, tokenVars, callVars, HistoryInv,
       RefreshInv, RefreshTypeOK, TokenTypeOK
  <2> QED
    BY <1>1, <2>1, <2>2 DEF HistoryInv, WroteInv
<1>3. CASE q = p
  <2>1. at'[p] = place
    BY DEF HistoryInv, RefreshInv, RefreshTypeOK
  <2>2. child'[p] = "none" /\ wrote'[p] = 0
    BY DEF HistoryInv, WroteInv, RefreshInv, RefreshTypeOK, ChildInv
  <2> QED
    BY <1>1, <1>3, <2>1, <2>2
<1> QED
  BY <1>2, <1>3

(* A reload that runs while the file is as the child has left it succeeds,   *)
(* and get then returns what the file holds.                                 *)
LEMMA CallWrote == ASSUME HistoryInv, NEW p \in Procs, Call(p) PROVE WroteInv'
<1>1. UNCHANGED <<disk, child, fresh, before, wrote, at>>
  BY DEF Call, CallStep, Throttle, Stat, Compare, Lock, Read, Commit, Load
<1> SUFFICES ASSUME NEW q \in Procs, at[q] = "verify"
             PROVE  /\ op'[q] # "maybeReload"
                    /\ op'[q] # "none" => wrote[q] <= asked'[q]
                    /\ op'[q] = "none" /\ wrote[q] = disk.id => val'[q] = disk.cred
  BY <1>1 DEF HistoryInv, WroteInv
<1>2. /\ op[q] # "maybeReload"
      /\ op[q] # "none" => wrote[q] <= asked[q]
      /\ op[q] = "none" /\ wrote[q] = disk.id => val[q] = disk.cred
  BY DEF HistoryInv, WroteInv
<1>3. CASE UNCHANGED <<op[q], asked[q], val[q]>>
  BY <1>2, <1>3
<1>4. CASE q # p
  BY <1>3, <1>4 DEF Call, CallStep, Throttle, Stat, Compare, Lock, Read, Commit, Load,
     ReloadFails, ReloadNowGets, MaybeReloadReturns, Continue, Return, HistoryInv, RefreshInv,
     TokenTypeOK, RefreshTypeOK
<1>5. CASE q = p /\ Load(p)
  <2>1. op[p] = "get"
    BY <1>5 DEF Load, HistoryInv, RefreshInv, TokenInv, TokenTypeOK, ControlInv, Ops
  <2>2. op'[p] = "none" /\ val'[p] = mem.cred
    BY <1>5 DEF Load, Return, HistoryInv, RefreshInv, RefreshTypeOK, TokenTypeOK
  <2>3. wrote[p] = disk.id => mem.ver = disk.id
    <3>1. asked[p] <= mem.ver /\ mem.ver <= disk.id
      BY <2>1 DEF HistoryInv, RefreshInv, TokenInv, AskedInv, MemInv
    <3>2. mem.ver \in 1..MaxWrites /\ disk.id \in 1..MaxWrites
      BY DEF HistoryInv, RefreshInv, RefreshTypeOK, TokenTypeOK, WriteIds
    <3>3. wrote[p] \in 0..MaxWrites /\ asked[p] \in 0..MaxWrites
      BY DEF HistoryInv, RefreshInv, RefreshTypeOK, TokenTypeOK, Ids
    <3> QED
      BY <1>2, <1>5, <2>1, <3>1, <3>2, <3>3
  <2> QED
    BY <1>5, <2>2, <2>3 DEF HistoryInv, RefreshInv, TokenInv, MemInv
<1>6. CASE q = p /\ ReloadNowGets(p)
  BY <1>2, <1>6 DEF ReloadNowGets, HistoryInv, RefreshInv, RefreshTypeOK, TokenTypeOK
<1>7. CASE q = p /\ op[p] = "reloadNow" /\ Return(p, NoToken) /\ disk.cred \notin Creds
  <2>1. op'[q] = "none" /\ wrote[q] # disk.id
    BY <1>7 DEF Return, HistoryInv, WroteInv, RefreshInv, RefreshTypeOK, TokenTypeOK
  <2> QED
    BY <2>1
<1>8. CASE q = p /\ ~Load(p)
  <2>1. \/ UNCHANGED <<op, asked, val>>
        \/ ReloadNowGets(p)
        \/ op[p] = "maybeReload"
        \/ op[p] = "reloadNow" /\ Return(p, NoToken) /\ disk.cred \notin Creds
    BY <1>8 DEF Call, CallStep, Throttle, Stat, Compare, Lock, Read, Commit, ReloadFails,
       MaybeReloadReturns, Continue, HistoryInv, RefreshInv, TokenInv, ControlInv
  <2> QED
    BY <1>2, <1>3, <1>6, <1>7, <1>8, <2>1
<1> QED
  BY <1>4, <1>5, <1>8

(* Every step keeps what is known of what the children wrote.                *)
LEMMA WroteStep == HistoryInv /\ [Next]_vars => WroteInv'
<1> SUFFICES ASSUME HistoryInv, [Next]_vars PROVE WroteInv'
  OBVIOUS
<1>0. disk.id \in Nat /\ disk.id > 0 /\ \A p \in Procs : wrote[p] \in Nat
  <2>1. disk.id \in 1..MaxWrites
    BY DEF HistoryInv, RefreshInv, RefreshTypeOK, TokenTypeOK, WriteIds
  <2>2. wrote \in [Procs -> 0..MaxWrites]
    BY DEF HistoryInv, RefreshInv, RefreshTypeOK, Ids
  <2> QED
    BY <2>1, <2>2
<1>1. CASE UNCHANGED <<disk, child, fresh, before, wrote, at, op, asked, val>>
  BY <1>1 DEF HistoryInv, WroteInv
<1>2. CASE Tick \/ Age \/ UNCHANGED vars \/ (ThrottleElapses /\ UNCHANGED refreshVars)
  BY <1>1, <1>2 DEF Tick, Age, ThrottleElapses, vars, refreshVars, tokenVars, callVars
<1>3. ASSUME disk'.id = disk.id + 1, UNCHANGED <<fresh, before, wrote, at, op, asked, val>>,
             \A p \in Procs : child'[p] \in {"rotated", "writing"} =>
                                  child[p] \in {"rotated", "writing"}
      PROVE  WroteInv'
  BY <1>0, <1>3 DEF HistoryInv, WroteInv
<1>4. CASE ExternalLogin \/ ForeignWrite
  BY <1>3, <1>4 DEF ExternalLogin, ForeignWrite, Write, refreshVars, callVars
<1>5. ASSUME NEW p \in Procs, ChildTruncates(p) PROVE WroteInv'
  <2>1. \A q \in Procs : child'[q] \in {"rotated", "writing"} =>
                             child[q] \in {"rotated", "writing"}
    BY <1>5 DEF ChildTruncates, HistoryInv, RefreshInv, RefreshTypeOK
  <2> QED
    BY <1>3, <1>5, <2>1 DEF ChildTruncates, Write, callVars
<1>6. ASSUME NEW p \in Procs, ServerRotates(p) PROVE WroteInv'
  <2>1. /\ \A q \in Procs \ {p} : child'[q] = child[q] /\ fresh'[q] = fresh[q]
        /\ fresh'[p] = before[p] + 1 /\ before[p] \in Nat
        /\ UNCHANGED <<disk, before, wrote, at, op, asked, val>>
    BY <1>6 DEF ServerRotates, HistoryInv, RefreshInv, RefreshTypeOK, tokenVars, callVars
  <2> QED
    BY <2>1 DEF HistoryInv, WroteInv
<1>7. ASSUME NEW p \in Procs, ChildWrites(p) PROVE WroteInv'
  <2>1. /\ child[p] \in {"rotated", "writing"} /\ at[p] = "wait"
        /\ fresh[p] \in Creds \ {before[p]}
    BY <1>7 DEF ChildWrites, HistoryInv, WroteInv, RefreshInv, ChildInv
  <2>2. /\ disk'.id = disk.id + 1 /\ disk'.cred = fresh[p]
        /\ wrote' = [wrote EXCEPT ![p] = disk.id + 1]
        /\ child' = [child EXCEPT ![p] = "wrote"]
        /\ UNCHANGED <<fresh, before, at, op, asked, val>>
    BY <1>7 DEF ChildWrites, Write, callVars
  <2>3. /\ wrote'[p] = disk'.id /\ child'[p] = "wrote"
        /\ \A q \in Procs \ {p} : wrote'[q] = wrote[q] /\ child'[q] = child[q]
    BY <2>2 DEF HistoryInv, RefreshInv, RefreshTypeOK
  <2> QED
    BY <1>0, <2>1, <2>2, <2>3 DEF HistoryInv, WroteInv
<1>8. ASSUME NEW p \in Procs, AfterEnsureFresh(p), UNCHANGED <<child, fresh, before, wrote>>,
             at[p] \notin {"wait", "verify"}
      PROVE  WroteInv'
  BY <1>8, AfterFacts, MoveWrote DEF Places
<1>9. ASSUME NEW p \in Procs, NEW ok \in BOOLEAN, NoteRefreshDone(p, ok),
             child' = [child EXCEPT ![p] = "none"] \/ (child[p] = "none" /\ child' = child),
             fresh' = [fresh EXCEPT ![p] = 0] \/ fresh' = fresh
      PROVE  WroteInv'
  BY <1>9, AfterFacts, MoveWrote DEF NoteRefreshDone, Places
<1>10. ASSUME NEW p \in Procs,
              \/ p = Watcher /\ (WatchTick \/ WatchChecks)
              \/ LockRefresh(p) \/ TryLock(p) \/ Recheck(p) \/ CompareStale(p)
              \/ (p \in Handlers /\ (Arrive(p) \/ HandlerStep(p)))
       PROVE  WroteInv'
  <2>1. /\ at[p] \notin {"wait", "verify"}
        /\ UNCHANGED <<child, fresh, before, wrote>>
    BY <1>10 DEF WatchTick, WatchChecks, LockRefresh, TryLock, Recheck, CompareStale, Arrive,
       HandlerStep, Answered, Unauthorized, Replay
  <2>2. CASE ~AfterEnsureFresh(p)
    <3>1. \E place \in Places \ {"wait", "verify"} : at' = [at EXCEPT ![p] = place]
      BY <1>10, <2>2 DEF WatchTick, WatchChecks, RoutineCheck, LockRefresh, TryLock, Recheck,
         CompareStale, Arrive, HandlerStep, Answered, Unauthorized, Replay, RequestEnds, Go,
         Places
    <3>2. Get(p) \/ MaybeReload(p) \/ ReloadNow(p) \/ UNCHANGED tokenVars
      BY <1>10, <2>2 DEF WatchTick, WatchChecks, RoutineCheck, LockRefresh, TryLock, Recheck,
         CompareStale, Arrive, HandlerStep, Answered, Unauthorized, Replay, NoCall
    <3> QED
      BY <2>1, <3>1, <3>2, MoveWrote
  <2> QED
    BY <1>8, <2>1, <2>2
<1>11. ASSUME NEW p \in Procs, Fork(p) PROVE WroteInv'
  <2>1. at[p] = "fork" /\ child[p] = "none" /\ wrote[p] = 0 /\ fresh' = fresh
    BY <1>11 DEF Fork, HistoryInv, WroteInv, RefreshInv, ChildInv
  <2>2. CASE AfterEnsureFresh(p) /\ UNCHANGED <<child, before, wrote>>
    BY <1>8, <2>1, <2>2
  <2>3. CASE NoteRefreshDone(p, FALSE) /\ UNCHANGED child
    BY <1>9, <2>1, <2>3
  <2>4. CASE /\ before' = [before EXCEPT ![p] = mem.cred]
             /\ child' = [child EXCEPT ![p] = "run"]
             /\ at' = [at EXCEPT ![p] = "wait"]
             /\ UNCHANGED tokenVars /\ UNCHANGED wrote
    <3>1. /\ child'[p] = "run" /\ at'[p] = "wait"
          /\ \A q \in Procs \ {p} : UNCHANGED <<child[q], before[q], at[q]>>
      BY <2>4 DEF HistoryInv, RefreshInv, RefreshTypeOK
    <3> QED
      BY <1>0, <2>1, <2>4, <3>1 DEF HistoryInv, WroteInv, tokenVars, callVars
  <2> QED
    BY <1>11, <2>2, <2>3, <2>4 DEF Fork, Go, NoCall
<1>12. ASSUME NEW p \in Procs, ChildExits(p) PROVE WroteInv'
  <2>1. /\ UNCHANGED <<disk, before, wrote>>
        /\ \A q \in Procs \ {p} :
               UNCHANGED <<child[q], fresh[q], at[q], op[q], asked[q], val[q]>>
        /\ child'[p] = "none" /\ at'[p] = "verify"
        /\ op'[p] = "reloadNow" /\ asked'[p] = disk.id
    BY <1>12 DEF ChildExits, Go, ReloadNow, Enter, HistoryInv, RefreshInv, RefreshTypeOK,
       TokenTypeOK
  <2> QED
    BY <1>0, <2>1 DEF HistoryInv, WroteInv
<1>13. ASSUME NEW p \in Procs, Verify(p) \/ ChildDies(p) PROVE WroteInv'
  <2>1. child' = [child EXCEPT ![p] = "none"] \/ (child[p] = "none" /\ child' = child)
    <3>1. CASE Verify(p)
      BY <3>1 DEF Verify, HistoryInv, RefreshInv, ChildInv
    <3>2. CASE ChildDies(p)
      BY <3>2 DEF ChildDies
    <3> QED
      BY <1>13, <3>1, <3>2
  <2>2. \E ok \in BOOLEAN : NoteRefreshDone(p, ok)
    BY <1>13 DEF Verify, ChildDies
  <2>3. fresh' = [fresh EXCEPT ![p] = 0] \/ fresh' = fresh
    BY <1>13 DEF Verify, ChildDies
  <2> QED
    BY <1>9, <2>1, <2>2, <2>3
<1>14. ASSUME NEW p \in Procs, Call(p) PROVE WroteInv'
  BY <1>14, CallWrote
<1> QED
  BY <1>2, <1>4, <1>5, <1>6, <1>7, <1>10, <1>11, <1>12, <1>13, <1>14
     DEF Next, RefreshStep, ChildStep, Handlers

(* HistoryInv is an invariant of the composition.                            *)
THEOREM HistoryInvariant == Spec => []HistoryInv
<1>1. HistoryInv /\ [Next]_vars => HistoryInv'
  <2>1. RefreshInv /\ GotInv /\ [Next]_vars => GotInv'
    BY TokenStep, GotStep DEF RefreshInv
  <2> QED
    BY <2>1, RefreshStepInv, FromStep, WroteStep DEF HistoryInv
<1> QED
  BY <1>1, HistoryInitInv, PTL DEF Spec

(* A token comes into a call that is at the last line of get by that line.   *)
LEMMA LoadFacts ==
    ASSUME HistoryInv, [Next]_vars, NEW p \in Procs, step[p] = "load", val'[p] # NoToken
    PROVE  val'[p] = mem.cred
<1>1. op[p] # "none" /\ val[p] = NoToken
  BY DEF HistoryInv, FromInv, RefreshInv, TokenInv, ControlInv
<1>2. ASSUME NEW q \in Procs, CallStep(q) PROVE val'[p] = mem.cred
  <2>1. CASE q = p
    BY <1>2, <2>1 DEF CallStep, Throttle, Stat, Compare, Lock, Read, Commit, Load, Return,
       HistoryInv, RefreshInv, RefreshTypeOK, TokenTypeOK
  <2>2. CASE q # p
    BY <1>1, <1>2, <2>2 DEF CallStep, Throttle, Stat, Compare, Lock, Read, Commit, Load,
       ReloadFails, ReloadNowGets, MaybeReloadReturns, Continue, Return, HistoryInv,
       RefreshInv, RefreshTypeOK, TokenTypeOK
  <2> QED
    BY <2>1, <2>2
<1>3. ASSUME NEW q \in Procs, Get(q) \/ MaybeReload(q) \/ ReloadNow(q)
      PROVE  FALSE
  BY <1>1, <1>3 DEF Get, MaybeReload, ReloadNow, Enter, HistoryInv, RefreshInv, RefreshTypeOK,
     TokenTypeOK
<1>4. ASSUME ExternalWrite \/ ThrottleElapses \/ UNCHANGED tokenVars PROVE FALSE
  BY <1>1, <1>4 DEF ExternalWrite, ThrottleElapses, tokenVars, callVars
<1> QED
  BY <1>2, <1>3, <1>4, TokenStep DEF HistoryInv, TokenNext

(* A request is sent again only with a token of a later write than the one   *)
(* that was refused.                                                         *)
THEOREM ReplaysAreNewer == Spec => ReplayIsNewer
<1>1. HistoryInv /\ [Next]_vars
          => [\A p \in Handlers :
                 /\ at[p] = "second"
                 /\ step[p] = "load"
                 /\ val'[p] \notin {NoToken, sent[p]}
                 => mem.ver > from[p]]_vars
  <2> SUFFICES ASSUME HistoryInv, [Next]_vars, NEW p \in Handlers, at[p] = "second",
                      step[p] = "load", val'[p] \notin {NoToken, sent[p]}
               PROVE  mem.ver > from[p]
    OBVIOUS
  <2>1. p \in Procs
    BY DEF Handlers
  <2>2. mem.cred # sent[p]
    BY <2>1, LoadFacts
  <2>3. from[p] <= mem.ver /\ from[p] # mem.ver
    BY <2>1, <2>2 DEF HistoryInv, FromInv
  <2>4. from[p] \in 0..MaxWrites /\ mem.ver \in 1..MaxWrites
    BY <2>1 DEF HistoryInv, RefreshInv, RefreshTypeOK, TokenTypeOK, WriteIds, Ids
  <2> QED
    BY <2>3, <2>4
<1> QED
  BY <1>1, HistoryInvariant, PTL DEF Spec, ReplayIsNewer

(* Only Verify ends an attempt whose child has exited.                       *)
LEMMA VerifyFacts ==
    ASSUME RefreshInv, [Next]_vars, NEW p \in Procs, at[p] = "verify", at'[p] # "verify"
    PROVE  Verify(p)
<1>1. \A q \in Procs \ {p} : at[q] \notin Critical
  BY DEF RefreshInv, RefreshLockInv, Critical
<1>2. ASSUME NEW q \in Procs, AfterEnsureFresh(q), q # p PROVE FALSE
  BY <1>2, AfterFacts DEF RefreshInv, RefreshTypeOK
<1>3. ASSUME NEW q \in Procs, q # p, NEW place, at' = [at EXCEPT ![q] = place] PROVE FALSE
  BY <1>3 DEF RefreshInv, RefreshTypeOK
<1>4. at' # at
  OBVIOUS
<1>5. ~(Tick \/ Age \/ ExternalLogin \/ ForeignWrite \/ UNCHANGED vars)
  BY <1>4 DEF Tick, Age, ExternalLogin, ForeignWrite, refreshVars, vars
<1>6. ~(ThrottleElapses /\ UNCHANGED refreshVars)
  BY <1>4 DEF refreshVars
<1>7. ~(WatchTick \/ WatchChecks)
  <2>1. WatchTick \/ WatchChecks => at[Watcher] # "verify"
    BY DEF WatchTick, WatchChecks
  <2> QED
    BY <2>1, <1>2, <1>3 DEF WatchTick, WatchChecks, RoutineCheck, Go
<1>8. ASSUME NEW q \in Procs,
             \/ Call(q) \/ LockRefresh(q) \/ TryLock(q) \/ Recheck(q) \/ CompareStale(q)
             \/ Fork(q) \/ ServerRotates(q) \/ ChildTruncates(q) \/ ChildWrites(q)
             \/ ChildExits(q) \/ ChildDies(q)
      PROVE  FALSE
  <2>1. CASE q = p
    BY <1>4, <1>8, <2>1 DEF Call, LockRefresh, TryLock, Recheck, CompareStale, Fork,
       ServerRotates, ChildTruncates, ChildWrites, ChildExits, ChildDies, RefreshInv, ChildInv
  <2>2. CASE q # p
    BY <1>2, <1>3, <1>4, <1>8, <2>2 DEF Call, LockRefresh, TryLock, Recheck, CompareStale,
       Fork, NoteRefreshDone, ServerRotates, ChildTruncates, ChildWrites, ChildExits,
       ChildDies, Go
  <2> QED
    BY <2>1, <2>2
<1>9. ASSUME NEW q \in Handlers, Arrive(q) \/ HandlerStep(q) PROVE FALSE
  <2>1. at[q] # "verify" /\ q \in Procs
    BY <1>9 DEF Arrive, HandlerStep, Answered, Unauthorized, Replay, Handlers
  <2> QED
    BY <2>1, <1>2, <1>3, <1>9 DEF Arrive, RoutineCheck, HandlerStep, Answered, Unauthorized,
       Replay, RequestEnds, Go
<1>10. ASSUME NEW q \in Procs, Verify(q) PROVE q = p
  BY <1>1, <1>10 DEF Verify, Critical
<1> QED
  BY <1>5, <1>6, <1>7, <1>8, <1>9, <1>10 DEF Next, RefreshStep, ChildStep

(* A refresh that has replaced the file is noted as a failure only if the    *)
(* file has been written again.                                              *)
THEOREM SuccessesAreRecognized == Spec => SuccessIsRecognized
<1>1. HistoryInv /\ [Next]_vars
          => [\A p \in Procs :
                 at[p] = "verify" /\ at'[p] # "verify" /\ backoff' > 0
                     => disk.id # wrote[p]]_vars
  <2> SUFFICES ASSUME HistoryInv, [Next]_vars, NEW p \in Procs, at[p] = "verify",
                      at'[p] # "verify", disk.id = wrote[p]
               PROVE  ~(backoff' > 0)
    OBVIOUS
  <2>1. Verify(p)
    BY VerifyFacts DEF HistoryInv
  <2>2. val[p] = disk.cred /\ disk.cred \in Creds \ {before[p]}
    BY <2>1 DEF Verify, HistoryInv, WroteInv
  <2>3. NoteRefreshDone(p, TRUE)
    BY <2>1, <2>2 DEF Verify
  <2> QED
    BY <2>3 DEF NoteRefreshDone
<1> QED
  BY <1>1, HistoryInvariant, PTL DEF Spec, SuccessIsRecognized
(* The children that hold a credential which they have not written yet.      *)
Pending == {p \in Procs : child[p] \in {"rotated", "writing"}}
Committing == {p \in Procs : step[p] = "commit"}

(* Each credential comes into the file with one write only.                  *)
OnceInv ==
    /\ mem.cred <= issued
    /\ disk.cred \in Creds => disk.cred <= issued
    /\ mem.ver # disk.id => mem.cred # disk.cred
    /\ \A p \in Committing :
           /\ got[p].cred <= issued
           /\ got[p].id # disk.id => got[p].cred # disk.cred
           /\ got[p].id # mem.ver => got[p].cred # mem.cred
    /\ \A p \in Pending :
           /\ fresh[p] <= issued
           /\ fresh[p] \notin {mem.cred, disk.cred}
           /\ \A q \in Committing : got[q].cred # fresh[p]

(* Nothing that is under way can bring the credential c into memory again.   *)
Gone(c) ==
    /\ c <= issued
    /\ c \notin {mem.cred, disk.cred}
    /\ \A p \in Committing : got[p].cred # c
    /\ \A p \in Pending : fresh[p] # c

(* A credential that a child was given leaves memory for good, and has left  *)
(* it when the refresh counts as a success.                                  *)
PassedInv ==
    /\ \A p \in Procs :
           /\ at[p] \in {"wait", "verify"} => mem.cred = before[p] \/ Gone(before[p])
           /\ at[p] = "verify" /\ op[p] = "none" /\ val[p] \notin {NoToken, before[p]}
                  => mem.cred # before[p]
    /\ \A c \in spent : Gone(c)

UniqueInv == HistoryInv /\ OnceInv /\ PassedInv

(* What a step can do to the places a credential can be in: less of them     *)
(* carry one, the file is read, what was read is committed, the file is      *)
(* written with something new, or the server hands out something new.        *)
Drops ==
    /\ UNCHANGED <<disk, mem, issued>>
    /\ Committing' \subseteq Committing
    /\ \A p \in Committing' : got'[p] = got[p]
    /\ Pending' \subseteq Pending
    /\ \A p \in Pending' : fresh'[p] = fresh[p]

Reads(p) ==
    /\ UNCHANGED <<disk, mem, issued, Pending, fresh>>
    /\ disk.cred \in Creds
    /\ Committing' \subseteq Committing \cup {p}
    /\ \A q \in Committing' : got'[q] = IF q = p THEN disk ELSE got[q]

Commits(p) ==
    /\ UNCHANGED <<disk, issued, Pending, fresh>>
    /\ p \in Committing
    /\ mem'.ver = got[p].id /\ mem'.cred = got[p].cred
    /\ Committing' = {}

Writes ==
    /\ UNCHANGED <<mem, Committing, got, fresh>>
    /\ disk'.id = disk.id + 1
    /\ \/ disk'.cred \notin Creds /\ issued' = issued /\ Pending' = Pending
       \/ disk'.cred = issued + 1 /\ issued' = issued + 1 /\ Pending' = Pending
       \/ /\ issued' = issued /\ Pending' = {}
          /\ \E p \in Pending : disk'.cred = fresh[p]

Rotates(p) ==
    /\ UNCHANGED <<disk, mem, Committing, got>>
    /\ issued' = issued + 1 /\ issued + 1 \in Creds
    /\ Pending' = Pending \cup {p}
    /\ fresh' = [fresh EXCEPT ![p] = issued + 1]

LEMMA EnterDrops ==
    ASSUME RefreshInv, NEW p \in Procs,
           Get(p) \/ MaybeReload(p) \/ ReloadNow(p) \/ UNCHANGED tokenVars
    PROVE  /\ UNCHANGED <<disk, mem>>
           /\ Committing' \subseteq Committing
           /\ \A q \in Committing' : got'[q] = got[q]
BY DEF Get, MaybeReload, ReloadNow, Enter, tokenVars, callVars, Committing, RefreshInv,
   RefreshTypeOK, TokenTypeOK

(* A step of a call, seen so.                                                *)
LEMMA CallKinds ==
    ASSUME RefreshInv, NEW p \in Procs, Call(p)
    PROVE  Drops \/ Reads(p) \/ Commits(p)
<1>1. UNCHANGED <<issued, child, fresh, Pending>>
  BY DEF Call, Pending
<1>2. ASSUME NEW q \in Procs, q # p PROVE UNCHANGED <<step[q], got[q]>>
  BY <1>2 DEF Call, CallStep, Throttle, Stat, Compare, Lock, Read, Commit, Load, ReloadFails,
     ReloadNowGets, MaybeReloadReturns, Continue, Return, RefreshInv, RefreshTypeOK,
     TokenTypeOK
<1>3. CASE Throttle(p) \/ Stat(p) \/ Compare(p) \/ Lock(p) \/ Load(p)
  <2>1. UNCHANGED <<disk, mem>> /\ step'[p] # "commit"
    BY <1>3 DEF Throttle, Stat, Compare, Lock, Load, ReloadFails, MaybeReloadReturns,
       Continue, Return, RefreshInv, RefreshTypeOK, TokenTypeOK
  <2> QED
    BY <1>1, <1>2, <2>1 DEF Drops, Committing
<1>4. CASE Read(p)
  <2>1. /\ UNCHANGED <<disk, mem>>
        /\ step'[p] = "commit" => got'[p] = disk /\ disk.cred \in Creds
    BY <1>4 DEF Read, ReloadFails, MaybeReloadReturns, Continue, Return, RefreshInv,
       RefreshTypeOK, TokenTypeOK
  <2> QED
    BY <1>1, <1>2, <2>1 DEF Drops, Reads, Committing
<1>5. CASE Commit(p)
  <2>1. disk' = disk /\ step[p] = "commit" /\ step'[p] # "commit"
    BY <1>5 DEF Commit, ReloadNowGets, MaybeReloadReturns, Continue, Return, RefreshInv,
       RefreshTypeOK, TokenTypeOK
  <2>2. mem'.ver = got[p].id /\ mem'.cred = got[p].cred
    BY <1>5 DEF Commit
  <2>3. \A q \in Procs \ {p} : step'[q] # "commit"
    BY <1>2, <2>1 DEF RefreshInv, TokenInv, LockInv
  <2> QED
    BY <1>1, <2>1, <2>2, <2>3 DEF Commits, Committing
<1> QED
  BY <1>3, <1>4, <1>5 DEF Call, CallStep

(* Every step, seen so, when others write credentials only as fresh logins.  *)
LEMMA StepKinds ==
    ASSUME RefreshInv, [Next]_vars, Foreign \cap Creds = {}
    PROVE  \/ Drops \/ Writes
           \/ \E p \in Procs : Reads(p) \/ Commits(p) \/ Rotates(p)
<1>1. CASE Tick \/ Age \/ UNCHANGED vars \/ (ThrottleElapses /\ UNCHANGED refreshVars)
  BY <1>1 DEF Tick, Age, ThrottleElapses, vars, refreshVars, tokenVars, callVars, Drops,
     Committing, Pending
<1>2. CASE ExternalLogin
  BY <1>2 DEF ExternalLogin, Write, callVars, Writes, Committing, Pending
<1>3. CASE ForeignWrite
  <2>1. disk'.cred \notin Creds
    BY <1>3 DEF ForeignWrite, Write, RefreshInv, RefreshTypeOK
  <2> QED
    BY <1>3, <2>1 DEF ForeignWrite, Write, refreshVars, callVars, Writes, Committing, Pending
<1>4. ASSUME NEW p \in Procs,
             Get(p) \/ MaybeReload(p) \/ ReloadNow(p) \/ UNCHANGED tokenVars,
             issued' = issued, Pending' \subseteq Pending,
             \A q \in Pending' : fresh'[q] = fresh[q]
      PROVE  Drops
  BY <1>4, EnterDrops DEF Drops
<1>5. ASSUME NEW p \in Procs,
             \/ p = Watcher /\ (WatchTick \/ WatchChecks)
             \/ LockRefresh(p) \/ TryLock(p) \/ Recheck(p) \/ CompareStale(p)
             \/ Fork(p) \/ Verify(p) \/ ChildExits(p) \/ ChildDies(p)
             \/ (p \in Handlers /\ (Arrive(p) \/ HandlerStep(p)))
      PROVE  Drops
  <2>1. Get(p) \/ MaybeReload(p) \/ ReloadNow(p) \/ UNCHANGED tokenVars
    BY <1>5, AfterFacts DEF WatchTick, WatchChecks, RoutineCheck, LockRefresh, TryLock,
       Recheck, CompareStale, Fork, Verify, ChildExits, ChildDies, NoteRefreshDone, Arrive,
       HandlerStep, Answered, Unauthorized, Replay, NoCall
  <2>2. issued' = issued
    BY <1>5 DEF WatchTick, WatchChecks, LockRefresh, TryLock, Recheck, CompareStale, Fork,
       Verify, ChildExits, ChildDies, Arrive, HandlerStep, Answered, Unauthorized, Replay
  <2>3. \/ UNCHANGED <<child, fresh>>
        \/ child' = [child EXCEPT ![p] = "run"] /\ fresh' = fresh
        \/ child' = [child EXCEPT ![p] = "none"] /\ fresh' = [fresh EXCEPT ![p] = 0]
    BY <1>5 DEF WatchTick, WatchChecks, LockRefresh, TryLock, Recheck, CompareStale, Fork,
       Verify, ChildExits, ChildDies, Arrive, HandlerStep, Answered, Unauthorized, Replay
  <2>4. Pending' \subseteq Pending /\ \A q \in Pending' : fresh'[q] = fresh[q]
    BY <2>3 DEF Pending, RefreshInv, RefreshTypeOK
  <2> QED
    BY <1>4, <2>1, <2>2, <2>4
<1>6. ASSUME NEW p \in Procs, ServerRotates(p) PROVE Rotates(p)
  <2>1. Pending' = Pending \cup {p} /\ issued + 1 \in Creds
    BY <1>6 DEF ServerRotates, Pending, RefreshInv, RefreshTypeOK
  <2> QED
    BY <1>6, <2>1 DEF ServerRotates, Rotates, tokenVars, callVars, Committing
<1>7. ASSUME NEW p \in Procs, ChildTruncates(p) PROVE Writes
  <2>1. Pending' = Pending
    BY <1>7 DEF ChildTruncates, Pending, RefreshInv, RefreshTypeOK
  <2> QED
    BY <1>7, <2>1 DEF ChildTruncates, Write, callVars, Writes, Committing
<1>8. ASSUME NEW p \in Procs, ChildWrites(p) PROVE Writes
  <2>1. p \in Pending /\ \A q \in Procs \ {p} : child[q] = "none"
    BY <1>8 DEF ChildWrites, Pending, RefreshInv, ChildInv, RefreshLockInv, Critical
  <2>2. Pending' = {}
    BY <1>8, <2>1 DEF ChildWrites, Pending, RefreshInv, RefreshTypeOK
  <2> QED
    BY <1>8, <2>1, <2>2 DEF ChildWrites, Write, callVars, Writes, Committing
<1>9. ASSUME NEW p \in Procs, Call(p) PROVE Drops \/ Reads(p) \/ Commits(p)
  BY <1>9, CallKinds
<1> QED
  BY <1>1, <1>2, <1>3, <1>5, <1>6, <1>7, <1>8, <1>9 DEF Next, RefreshStep, ChildStep, Handlers

(* What a step finds, in arithmetic terms.                                   *)
LEMMA UniqueFacts ==
    ASSUME UniqueInv
    PROVE  /\ disk.id \in Nat /\ mem.ver \in Nat /\ mem.ver <= disk.id
           /\ mem.cred \in Creds /\ issued \in Nat
           /\ \A p \in Committing :
                  /\ got[p].id \in Nat /\ got[p].cred \in Creds
                  /\ mem.ver <= got[p].id /\ got[p].id <= disk.id
                  /\ got[p].id = mem.ver => got[p].cred = mem.cred
           /\ \A p \in Pending : fresh[p] \in Creds
<1> USE DEF UniqueInv, HistoryInv
<1>1. disk.id \in 1..MaxWrites /\ mem.ver \in 1..MaxWrites /\ mem.cred \in Creds
      /\ issued \in Creds
  BY DEF RefreshInv, RefreshTypeOK, TokenTypeOK, WriteIds
<1>2. ASSUME NEW p \in Committing
      PROVE  /\ got[p].id \in 0..MaxWrites /\ seen[p] \in 0..MaxWrites
             /\ got[p].cred \in Creds
             /\ mem.ver <= seen[p] /\ seen[p] <= got[p].id /\ got[p].id <= disk.id
             /\ got[p].id = mem.ver => got[p].cred = mem.cred
  BY <1>2 DEF Committing, RefreshInv, RefreshTypeOK, TokenTypeOK, TokenInv, CarriedInv, Ids,
     GotInv
<1>3. mem.ver <= disk.id
  BY DEF RefreshInv, TokenInv, MemInv
<1>4. \A p \in Pending : fresh[p] \in Creds
  BY DEF Pending, RefreshInv, ChildInv
<1> QED
  BY <1>1, <1>2, <1>3, <1>4

(* Whatever is gone stays gone.                                              *)
LEMMA GoneStep ==
    ASSUME UniqueInv, [Next]_vars, Foreign \cap Creds = {}, NEW c \in Creds, Gone(c)
    PROVE  Gone(c)'
<1>1. CASE Drops
  BY <1>1 DEF Drops, Gone
<1>2. CASE Writes
  BY <1>2, UniqueFacts DEF Writes, Gone
<1>3. ASSUME NEW p \in Procs, Reads(p) PROVE Gone(c)'
  BY <1>3 DEF Reads, Gone
<1>4. ASSUME NEW p \in Procs, Commits(p) PROVE Gone(c)'
  BY <1>4 DEF Commits, Gone
<1>5. ASSUME NEW p \in Procs, Rotates(p) PROVE Gone(c)'
  BY <1>5, UniqueFacts DEF Rotates, Gone, UniqueInv, HistoryInv, RefreshInv, RefreshTypeOK
<1> QED
  BY <1>1, <1>2, <1>3, <1>4, <1>5, StepKinds DEF UniqueInv, HistoryInv

(* The first load.                                                           *)
LEMMA UniqueInitInv == Init => UniqueInv
<1> SUFFICES ASSUME Init PROVE UniqueInv
  OBVIOUS
<1>1. Committing = {} /\ Pending = {}
  BY DEF Init, TokenInit, Committing, Pending
<1>2. OnceInv
  BY <1>1 DEF Init, TokenInit, OnceInv
<1>3. PassedInv
  BY DEF Init, PassedInv
<1> QED
  BY <1>2, <1>3, HistoryInitInv DEF UniqueInv

(* Every step keeps the credentials apart.                                   *)
LEMMA OnceStep ==
    ASSUME UniqueInv, [Next]_vars, Foreign \cap Creds = {} PROVE OnceInv'
<1> USE UniqueFacts DEF UniqueInv, OnceInv
<1>1. CASE Drops
  BY <1>1 DEF Drops
<1>2. CASE Writes
  BY <1>2 DEF Writes
<1>3. ASSUME NEW p \in Procs, Reads(p) PROVE OnceInv'
  BY <1>3 DEF Reads
<1>4. ASSUME NEW p \in Procs, Commits(p) PROVE OnceInv'
  BY <1>4 DEF Commits
<1>5. ASSUME NEW p \in Procs, Rotates(p) PROVE OnceInv'
  <2>1. \A q \in Pending' :
            \/ q = p /\ fresh'[q] = issued + 1
            \/ q \in Pending /\ fresh'[q] = fresh[q]
    BY <1>5 DEF Rotates, Pending, HistoryInv, RefreshInv, RefreshTypeOK
  <2>2. disk.cred # issued + 1 /\ mem.cred # issued + 1
    BY <1>5 DEF Rotates
  <2>3. \A q \in Committing : got[q].cred # issued + 1
    BY <1>5 DEF Rotates
  <2> QED
    BY <1>5, <2>1, <2>2, <2>3 DEF Rotates
<1> QED
  BY <1>1, <1>2, <1>3, <1>4, <1>5, StepKinds DEF HistoryInv

(* A credential that leaves memory is gone.                                  *)
LEMMA LeavesForGood ==
    ASSUME UniqueInv, [Next]_vars, Foreign \cap Creds = {},
           NEW c \in Creds, mem.cred = c, mem'.cred # c
    PROVE  Gone(c)'
<1> USE UniqueFacts DEF UniqueInv, OnceInv, Gone
<1>1. ASSUME NEW p \in Procs, Commits(p) PROVE Gone(c)'
  <2>1. got[p].id # mem.ver /\ got[p].cred # mem.cred
    BY <1>1 DEF Commits
  <2>2. mem.ver # disk.id
    BY <1>1, <2>1 DEF Commits
  <2> QED
    BY <1>1, <2>1, <2>2 DEF Commits
<1>2. ASSUME Drops \/ Writes \/ (\E p \in Procs : Reads(p) \/ Rotates(p)) PROVE FALSE
  BY <1>2 DEF Drops, Writes, Reads, Rotates
<1> QED
  BY <1>1, <1>2, StepKinds DEF HistoryInv

(* Who is in an attempt after a step was in it before, or has just begun it  *)
(* with what memory holds.                                                   *)
LEMMA AttemptFacts ==
    ASSUME RefreshInv, [Next]_vars, NEW p \in Procs, at'[p] \in {"wait", "verify"}
    PROVE  \/ at[p] \in {"wait", "verify"} /\ before'[p] = before[p]
           \/ at'[p] = "wait" /\ before'[p] = mem.cred /\ mem' = mem
<1>1. CASE UNCHANGED <<at, before>>
  BY <1>1
<1>2. ASSUME NEW q \in Procs, NEW place \in Places \ {"wait", "verify"},
             at' = [at EXCEPT ![q] = place],
             before' = before \/ before' = [before EXCEPT ![q] = NoToken]
      PROVE  at[p] \in {"wait", "verify"} /\ before'[p] = before[p]
  BY <1>2 DEF RefreshInv, RefreshTypeOK
<1>3. ASSUME NEW q \in Procs,
             \/ q = Watcher /\ (WatchTick \/ WatchChecks)
             \/ LockRefresh(q) \/ TryLock(q) \/ Recheck(q) \/ CompareStale(q)
             \/ Verify(q) \/ ChildDies(q)
             \/ (q \in Handlers /\ (Arrive(q) \/ HandlerStep(q)))
      PROVE  at[p] \in {"wait", "verify"} /\ before'[p] = before[p]
  <2>1. \E place \in Places \ {"wait", "verify"} : at' = [at EXCEPT ![q] = place]
    BY <1>3, AfterFacts DEF WatchTick, WatchChecks, RoutineCheck, LockRefresh, TryLock,
       Recheck, CompareStale, Verify, ChildDies, NoteRefreshDone, Arrive, HandlerStep,
       Answered, Unauthorized, Replay, RequestEnds, Go, Places
  <2>2. before' = before \/ before' = [before EXCEPT ![q] = NoToken]
    BY <1>3 DEF WatchTick, WatchChecks, LockRefresh, TryLock, Recheck, CompareStale, Verify,
       ChildDies, NoteRefreshDone, Arrive, HandlerStep, Answered, Unauthorized, Replay
  <2> QED
    BY <1>2, <2>1, <2>2
<1>4. ASSUME NEW q \in Procs, Fork(q)
      PROVE  \/ at[p] \in {"wait", "verify"} /\ before'[p] = before[p]
             \/ at'[p] = "wait" /\ before'[p] = mem.cred /\ mem' = mem
  <2>1. CASE AfterEnsureFresh(q)
    <3>1. \E place \in Places \ {"wait", "verify"} : at' = [at EXCEPT ![q] = place]
      BY <2>1, AfterFacts DEF Places
    <3>2. \/ before' = before \/ before' = [before EXCEPT ![q] = NoToken]
          \/ at' = [at EXCEPT ![q] = "wait"]
      BY <1>4 DEF Fork, NoteRefreshDone, Go
    <3> QED
      BY <1>2, <3>1, <3>2 DEF RefreshInv, RefreshTypeOK
  <2>2. CASE ~AfterEnsureFresh(q)
    <3>1. /\ at' = [at EXCEPT ![q] = "wait"] /\ before' = [before EXCEPT ![q] = mem.cred]
          /\ mem' = mem
      BY <1>4, <2>2 DEF Fork, NoteRefreshDone, Go, NoCall, tokenVars
    <3> QED
      BY <3>1 DEF RefreshInv, RefreshTypeOK
  <2> QED
    BY <2>1, <2>2
<1>5. ASSUME NEW q \in Procs, ChildExits(q)
      PROVE  at[p] \in {"wait", "verify"} /\ before'[p] = before[p]
  BY <1>5 DEF ChildExits, Go, RefreshInv, RefreshTypeOK, ChildInv
<1>6. CASE \/ Tick \/ Age \/ ExternalLogin \/ ForeignWrite \/ UNCHANGED vars
           \/ (ThrottleElapses /\ UNCHANGED refreshVars)
  BY <1>1, <1>6 DEF Tick, Age, ExternalLogin, ForeignWrite, vars, refreshVars
<1>7. ASSUME NEW q \in Procs,
             ServerRotates(q) \/ ChildTruncates(q) \/ ChildWrites(q) \/ Call(q)
      PROVE  UNCHANGED <<at, before>>
  BY <1>7 DEF ServerRotates, ChildTruncates, ChildWrites, Call
<1> QED
  BY <1>1, <1>3, <1>4, <1>5, <1>6, <1>7 DEF Next, RefreshStep, ChildStep, Handlers

(* A goroutine that is out of a call after a step has its token from before, *)
(* has none, or has the one in memory.                                       *)
LEMMA ReturnFacts ==
    ASSUME RefreshInv, [Next]_vars, NEW p \in Procs, op'[p] = "none"
    PROVE  \/ op[p] = "none" /\ val'[p] = val[p]
           \/ val'[p] = NoToken
           \/ val'[p] = mem.cred /\ mem' = mem
<1>1. ASSUME NEW q \in Procs, CallStep(q), q # p PROVE op[p] = "none" /\ val'[p] = val[p]
  BY <1>1 DEF CallStep, Throttle, Stat, Compare, Lock, Read, Commit, Load, ReloadFails,
     ReloadNowGets, MaybeReloadReturns, Continue, Return, RefreshInv, RefreshTypeOK,
     TokenTypeOK
<1>2. CASE Load(p)
  BY <1>2 DEF Load, Return, RefreshInv, RefreshTypeOK, TokenTypeOK
<1>3. CASE CallStep(p) /\ ~Load(p)
  <2>1. op[p] # "none"
    BY <1>3 DEF CallStep, Throttle, Stat, Compare, Lock, Read, Commit, Load, RefreshInv,
       TokenInv, ControlInv
  <2>2. \/ op' = op
        \/ ReloadNowGets(p)
        \/ Return(p, NoToken)
    BY <1>3 DEF CallStep, Throttle, Stat, Compare, Lock, Read, Commit, ReloadFails,
       MaybeReloadReturns, Continue
  <2> QED
    BY <2>1, <2>2 DEF ReloadNowGets, Return, RefreshInv, RefreshTypeOK, TokenTypeOK
<1>4. ASSUME NEW q \in Procs, Get(q) \/ MaybeReload(q) \/ ReloadNow(q)
      PROVE  op[p] = "none" /\ val'[p] = val[p]
  BY <1>4 DEF Get, MaybeReload, ReloadNow, Enter, RefreshInv, RefreshTypeOK, TokenTypeOK
<1>5. ASSUME ExternalWrite \/ ThrottleElapses \/ UNCHANGED tokenVars
      PROVE  op[p] = "none" /\ val'[p] = val[p]
  BY <1>5 DEF ExternalWrite, ThrottleElapses, tokenVars, callVars
<1> QED
  BY <1>1, <1>2, <1>3, <1>4, <1>5, TokenStep DEF TokenNext

(* Who is at verify after a step was there, unless the child has just exited *)
(* and the reload begins.                                                    *)
LEMMA VerifyBegins ==
    ASSUME RefreshInv, [Next]_vars, NEW p \in Procs, at'[p] = "verify", op'[p] = "none"
    PROVE  at[p] = "verify"
<1>1. CASE UNCHANGED at
  BY <1>1
<1>2. ASSUME NEW q \in Procs, NEW place \in Places \ {"verify"}, at' = [at EXCEPT ![q] = place]
      PROVE  at[p] = "verify"
  BY <1>2 DEF RefreshInv, RefreshTypeOK
<1>3. ASSUME NEW q \in Procs,
             \/ q = Watcher /\ (WatchTick \/ WatchChecks)
             \/ LockRefresh(q) \/ TryLock(q) \/ Recheck(q) \/ CompareStale(q) \/ Fork(q)
             \/ Verify(q) \/ ChildDies(q)
             \/ (q \in Handlers /\ (Arrive(q) \/ HandlerStep(q)))
      PROVE  at[p] = "verify"
  <2>1. \E place \in Places \ {"verify"} : at' = [at EXCEPT ![q] = place]
    BY <1>3, AfterFacts DEF WatchTick, WatchChecks, RoutineCheck, LockRefresh, TryLock,
       Recheck, CompareStale, Fork, Verify, ChildDies, NoteRefreshDone, Arrive, HandlerStep,
       Answered, Unauthorized, Replay, RequestEnds, Go, Places
  <2> QED
    BY <1>2, <2>1
<1>4. ASSUME NEW q \in Procs, ChildExits(q) PROVE at[p] = "verify"
  <2>1. at' = [at EXCEPT ![q] = "verify"] /\ op'[q] = "reloadNow"
    BY <1>4 DEF ChildExits, Go, ReloadNow, Enter, RefreshInv, RefreshTypeOK, TokenTypeOK
  <2> QED
    BY <2>1 DEF RefreshInv, RefreshTypeOK
<1>5. CASE \/ Tick \/ Age \/ ExternalLogin \/ ForeignWrite \/ UNCHANGED vars
           \/ (ThrottleElapses /\ UNCHANGED refreshVars)
  BY <1>1, <1>5 DEF Tick, Age, ExternalLogin, ForeignWrite, vars, refreshVars
<1>6. ASSUME NEW q \in Procs,
             ServerRotates(q) \/ ChildTruncates(q) \/ ChildWrites(q) \/ Call(q)
      PROVE  UNCHANGED at
  BY <1>6 DEF ServerRotates, ChildTruncates, ChildWrites, Call
<1> QED
  BY <1>1, <1>3, <1>4, <1>5, <1>6 DEF Next, RefreshStep, ChildStep, Handlers

(* What is spent after a step was spent before, or its refresh succeeds now. *)
LEMMA SpentFacts ==
    ASSUME RefreshInv, [Next]_vars
    PROVE  \/ spent' = spent
           \/ \E p \in Procs :
                  /\ Verify(p) /\ val[p] \notin {NoToken, before[p]}
                  /\ spent' = spent \cup {before[p]}
BY DEF Next, Tick, Age, ExternalLogin, ForeignWrite, refreshVars, WatchTick, WatchChecks,
   LockRefresh, RefreshStep, TryLock, Recheck, CompareStale, Fork, Verify, ChildStep,
   ServerRotates, ChildTruncates, ChildWrites, ChildExits, ChildDies, NoteRefreshDone, Arrive,
   HandlerStep, Answered, Unauthorized, Replay, Call, vars

(* Every step keeps it: what was spent is gone.                              *)
LEMMA PassedStep ==
    ASSUME UniqueInv, [Next]_vars, Foreign \cap Creds = {} PROVE PassedInv'
<1>0. RefreshInv /\ \A p \in Procs : at[p] \in {"wait", "verify"} => before[p] \in Creds
  BY DEF UniqueInv, HistoryInv, RefreshInv, ChildInv
<1>1. ASSUME NEW p \in Procs, at'[p] \in {"wait", "verify"}
      PROVE  mem'.cred = before'[p] \/ Gone(before[p])'
  <2>1. CASE at'[p] = "wait" /\ before'[p] = mem.cred /\ mem' = mem
    BY <2>1
  <2>2. CASE at[p] \in {"wait", "verify"} /\ before'[p] = before[p]
    <3> DEFINE c == before[p]
    <3>1. mem.cred = c \/ Gone(c)
      BY <2>2 DEF UniqueInv, PassedInv
    <3>2. PICK d \in Creds : d = c
      BY <1>0, <2>2
    <3>3. mem'.cred = d \/ Gone(d)'
      BY <3>1, <3>2, GoneStep, LeavesForGood
    <3> QED
      BY <2>2, <3>2, <3>3 DEF Gone
  <2> QED
    BY <1>0, <1>1, <2>1, <2>2, AttemptFacts
<1>2. ASSUME NEW p \in Procs, at'[p] = "verify", op'[p] = "none",
             val'[p] \notin {NoToken, before'[p]}
      PROVE  mem'.cred # before'[p]
  <2>1. at[p] = "verify" /\ before'[p] = before[p]
    BY <1>0, <1>2, VerifyBegins, AttemptFacts
  <2>2. CASE op[p] = "none" /\ val'[p] = val[p]
    <3>1. PICK d \in Creds : d = before[p]
      BY <1>0, <2>1
    <3>2. Gone(d)
      BY <1>2, <2>1, <2>2, <3>1 DEF UniqueInv, PassedInv
    <3>3. Gone(d)'
      BY <3>2, GoneStep
    <3> QED
      BY <2>1, <3>1, <3>3 DEF Gone
  <2>3. CASE val'[p] = mem.cred /\ mem' = mem
    BY <1>2, <2>3
  <2> QED
    BY <1>0, <1>2, <2>2, <2>3, ReturnFacts
<1>3. ASSUME NEW c \in spent' PROVE Gone(c)'
  <2>1. PICK d : d = c
    OBVIOUS
  <2>2. d \in Creds /\ Gone(d)
    <3>1. CASE d \in spent
      BY <3>1 DEF UniqueInv, PassedInv, HistoryInv, RefreshInv, RefreshTypeOK
    <3>2. CASE \E p \in Procs : Verify(p) /\ val[p] \notin {NoToken, before[p]} /\ d = before[p]
      BY <1>0, <3>2 DEF Verify, UniqueInv, PassedInv
    <3> QED
      BY <1>0, <1>3, <2>1, <3>1, <3>2, SpentFacts
  <2>3. Gone(d)'
    BY <2>2, GoneStep
  <2> QED
    BY <2>1, <2>3 DEF Gone
<1> QED
  BY <1>1, <1>2, <1>3 DEF PassedInv

(* UniqueInv is an invariant of the composition when nobody puts an old file *)
(* back.                                                                     *)
THEOREM UniqueInvariant ==
    ASSUME Foreign \cap Creds = {} PROVE Spec => []UniqueInv
<1>1. UniqueInv <=> HistoryInv /\ OnceInv /\ PassedInv
  BY DEF UniqueInv
<1>2. HistoryInv /\ OnceInv /\ PassedInv /\ [Next]_vars => OnceInv' /\ PassedInv'
  BY <1>1, OnceStep, PassedStep
<1> QED
  BY <1>1, <1>2, UniqueInitInv, HistoryInvariant, PTL DEF Spec

(* A refresh token whose refresh succeeded is never presented again, unless  *)
(* others put an old file back.                                              *)
THEOREM SpentTokensStaySpent ==
    ASSUME Foreign \cap Creds = {} PROVE Spec => SpentTokenStaysSpent
<1>1. UniqueInv /\ [Next]_vars
          => [\A p \in Procs : Forks(p) => before'[p] \notin spent]_vars
  <2> SUFFICES ASSUME UniqueInv, [Next]_vars, NEW p \in Procs, Forks(p)
               PROVE  before'[p] \notin spent
    OBVIOUS
  <2>1. Fork(p) /\ ~Cooling
    BY ForkFacts DEF UniqueInv, HistoryInv
  <2>2. child'[p] # child[p]
    BY DEF Forks
  <2>3. before'[p] = mem.cred
    BY <2>1, <2>2 DEF Fork, UniqueInv, HistoryInv, RefreshInv, RefreshTypeOK
  <2> QED
    BY <2>3 DEF UniqueInv, PassedInv, Gone
<1> QED
  BY <1>1, UniqueInvariant, PTL DEF Spec, SpentTokenStaysSpent
=============================================================================
