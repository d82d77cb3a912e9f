------------------------- MODULE TokenSourceProofs -------------------------
(* Proofs about TokenSource, for every set of goroutines, every set of       *)
(* credentials and every number of writes of the file.                       *)
EXTENDS TokenSource, TLAPS

(* Which steps belong to which call.                                         *)
ControlInv ==
    \A p \in Procs :
        /\ op[p] = "none" <=> step[p] = "idle"
        /\ op[p] = "maybeReload" => step[p] \notin {"throttle", "load"}
        /\ op[p] = "reloadNow" => step[p] \in {"lock", "read", "commit"}

(* Whoever is between the stat and the commit of a reload holds reloadMu.    *)
LockInv == \A p \in Procs : step[p] \in {"read", "commit"} => reloadMu = p

(* Memory is behind the file, and its mtime is not ahead of its content.     *)
MemInv ==
    /\ mem.stat <= mem.ver
    /\ mem.ver <= disk.id
    /\ mem.ver = disk.id => mem.cred = disk.cred

(* What the holder of reloadMu carries is no older than what memory holds.   *)
CarriedInv ==
    \A p \in Procs :
        /\ step[p] \in {"read", "commit"} => mem.ver <= seen[p] /\ seen[p] <= disk.id
        /\ step[p] = "commit" =>
               /\ seen[p] <= got[p].id
               /\ got[p].id <= disk.id
               /\ got[p].cred \in Creds
               /\ got[p].id = disk.id => got[p].cred = disk.cred

(* The file as it was when reloadNow was called is never lost from sight.    *)
AskedInv ==
    \A p \in Procs :
        /\ asked[p] <= disk.id
        /\ op[p] = "none" => asked[p] = 0
        /\ op[p] \in {"get", "maybeReload"} => asked[p] <= mem.ver
        /\ step[p] \in {"read", "commit"} => asked[p] <= seen[p]

TokenInv ==
    TokenTypeOK /\ ControlInv /\ LockInv /\ MemInv /\ CarriedInv /\ AskedInv

USE DistinctAssumption, MaxWritesAssumption

(* The first load leaves the invariant true.                                 *)
LEMMA TokenInitInv == TokenInit => TokenInv
BY DEF TokenInit, TokenInv, TokenTypeOK, ControlInv, LockInv, MemInv, CarriedInv,
       AskedInv, WriteIds, Ids, Contents, Nothing, Ops, Steps

(* A goroutine that leaves maybeReload or a failed reload, whether it gives  *)
(* back reloadMu or never took it, keeps the invariant.                      *)
LEMMA LeavingInv ==
    ASSUME TokenInv, NEW p \in Procs, step[p] # "idle", ReloadFails(p),
           disk' = disk, mem' = mem, statDue' = statDue,
           \/ reloadMu' = reloadMu
           \/ reloadMu' = NoProc /\ step[p] = "read"
    PROVE  TokenInv'
<1>1. \A q \in Procs \ {p} : step[q] \in {"read", "commit"} => reloadMu' = q
  BY DEF TokenInv, LockInv
<1>2. CASE op[p] = "get" /\ Continue(p, "load")
  <2>1. /\ TokenTypeOK' /\ ControlInv' /\ LockInv'
    BY <1>1, <1>2 DEF TokenInv, TokenTypeOK, ControlInv, LockInv, Continue, WriteIds,
       Ids, Contents, Nothing, Ops, Steps
  <2>2. MemInv' /\ CarriedInv'
    BY <1>2 DEF TokenInv, TokenTypeOK, MemInv, CarriedInv, Continue
  <2>3. AskedInv'
    BY <1>2 DEF TokenInv, TokenTypeOK, AskedInv, Continue
  <2> QED
    BY <2>1, <2>2, <2>3 DEF TokenInv
<1>3. CASE op[p] \in {"maybeReload", "reloadNow"} /\ Return(p, NoToken)
  <2>1. TokenTypeOK' /\ ControlInv' /\ LockInv'
    BY <1>1, <1>3 DEF TokenInv, TokenTypeOK, ControlInv, LockInv, Return, WriteIds,
       Ids, Contents, Nothing, Ops, Steps
  <2>2. MemInv' /\ CarriedInv'
    BY <1>3 DEF TokenInv, TokenTypeOK, MemInv, CarriedInv, Return
  <2>3. AskedInv'
    BY <1>3 DEF TokenInv, TokenTypeOK, AskedInv, Return, Ids, WriteIds
  <2> QED
    BY <2>1, <2>2, <2>3 DEF TokenInv
<1> QED
  BY <1>2, <1>3 DEF ReloadFails, MaybeReloadReturns

(* Every step of every goroutine, and every write by others, keeps it.       *)
LEMMA TokenStepInv == TokenInv /\ [TokenNext]_tokenVars => TokenInv'
<1> SUFFICES ASSUME TokenInv, [TokenNext]_tokenVars PROVE TokenInv'
  OBVIOUS
<1>1. CASE ExternalWrite
  BY <1>1 DEF ExternalWrite, Write, callVars, TokenInv, TokenTypeOK, ControlInv, LockInv, MemInv,
     CarriedInv, AskedInv, WriteIds, Ids, Contents, Nothing, Ops, Steps
<1>2. CASE ThrottleElapses
  BY <1>2 DEF ThrottleElapses, callVars, TokenInv, TokenTypeOK, ControlInv, LockInv, MemInv,
     CarriedInv, AskedInv, WriteIds, Ids, Contents, Nothing, Ops, Steps
<1>3. ASSUME NEW p \in Procs, Get(p) PROVE TokenInv'
  BY <1>3 DEF Get, Enter, TokenInv, TokenTypeOK, ControlInv, LockInv, MemInv,
     CarriedInv, AskedInv, WriteIds, Ids, Contents, Nothing, Ops, Steps
<1>4. ASSUME NEW p \in Procs, MaybeReload(p) PROVE TokenInv'
  BY <1>4 DEF MaybeReload, Enter, TokenInv, TokenTypeOK, ControlInv, LockInv, MemInv,
     CarriedInv, AskedInv, WriteIds, Ids, Contents, Nothing, Ops, Steps
<1>5. ASSUME NEW p \in Procs, ReloadNow(p) PROVE TokenInv'
  BY <1>5 DEF ReloadNow, Enter, TokenInv, TokenTypeOK, ControlInv, LockInv, MemInv,
     CarriedInv, AskedInv, WriteIds, Ids, Contents, Nothing, Ops, Steps
<1>6. ASSUME NEW p \in Procs, Throttle(p) PROVE TokenInv'
  BY <1>6 DEF Throttle, TokenInv, TokenTypeOK, ControlInv, LockInv, MemInv,
     CarriedInv, AskedInv, WriteIds, Ids, Contents, Nothing, Ops, Steps
<1>7. ASSUME NEW p \in Procs, Stat(p) PROVE TokenInv'
  <2>1. CASE disk.cred = Missing
    BY <1>7, <2>1, LeavingInv DEF Stat, ReloadFails
  <2>2. CASE disk.cred # Missing
    <3>1. TokenTypeOK'
      BY <1>7, <2>2 DEF Stat, TokenInv, TokenTypeOK,
         WriteIds, Ids, Contents, Nothing, Ops, Steps
    <3>5. ControlInv'
      BY <1>7, <2>2 DEF Stat, TokenInv, TokenTypeOK,
         ControlInv, Ops
    <3>2. LockInv' /\ MemInv'
      BY <1>7, <2>2 DEF Stat, TokenInv, TokenTypeOK,
         LockInv, MemInv, CarriedInv, WriteIds
    <3>3. CarriedInv'
      BY <1>7, <2>2 DEF Stat, TokenInv, TokenTypeOK,
         LockInv, MemInv, CarriedInv, WriteIds, Ids
    <3>4. AskedInv'
      BY <1>7, <2>2 DEF Stat, TokenInv, TokenTypeOK,
         ControlInv, LockInv, CarriedInv, MemInv, AskedInv, WriteIds, Ids, Ops
    <3> QED
      BY <3>1, <3>2, <3>3, <3>4, <3>5 DEF TokenInv
  <2> QED
    BY <2>1, <2>2
<1>8. ASSUME NEW p \in Procs, Compare(p) PROVE TokenInv'
  <2>1. CASE seen[p] = mem.stat
    BY <1>8, <2>1, LeavingInv DEF Compare, ReloadFails
  <2>2. CASE seen[p] # mem.stat
    <3>1. TokenTypeOK'
      BY <1>8, <2>2 DEF Compare, Continue, TokenInv, TokenTypeOK,
         WriteIds, Ids, Contents, Nothing, Ops, Steps
    <3>5. ControlInv'
      BY <1>8, <2>2 DEF Compare, Continue, TokenInv, TokenTypeOK,
         ControlInv, Ops
    <3>2. LockInv' /\ MemInv'
      BY <1>8, <2>2 DEF Compare, Continue, TokenInv, TokenTypeOK,
         LockInv, MemInv, CarriedInv, WriteIds
    <3>3. CarriedInv'
      BY <1>8, <2>2 DEF Compare, Continue, TokenInv, TokenTypeOK,
         LockInv, MemInv, CarriedInv, WriteIds, Ids
    <3>4. AskedInv'
      BY <1>8, <2>2 DEF Compare, Continue, TokenInv, TokenTypeOK,
         ControlInv, LockInv, CarriedInv, MemInv, AskedInv, WriteIds, Ids, Ops
    <3> QED
      BY <3>1, <3>2, <3>3, <3>4, <3>5 DEF TokenInv
  <2> QED
    BY <2>1, <2>2
<1>9. ASSUME NEW p \in Procs, Lock(p) PROVE TokenInv'
  <2>1. CASE disk.cred = Missing
    BY <1>9, <2>1, LeavingInv DEF Lock
  <2>2. CASE disk.cred # Missing
    <3>1. TokenTypeOK'
      BY <1>9, <2>2 DEF Lock, TokenInv, TokenTypeOK,
         WriteIds, Ids, Contents, Nothing, Ops, Steps
    <3>5. ControlInv'
      BY <1>9, <2>2 DEF Lock, TokenInv, TokenTypeOK,
         ControlInv, Ops
    <3>2. LockInv' /\ MemInv'
      BY <1>9, <2>2 DEF Lock, TokenInv, TokenTypeOK,
         LockInv, MemInv, CarriedInv, WriteIds
    <3>3. CarriedInv'
      BY <1>9, <2>2 DEF Lock, TokenInv, TokenTypeOK,
         LockInv, MemInv, CarriedInv, WriteIds, Ids
    <3>4. AskedInv'
      BY <1>9, <2>2 DEF Lock, TokenInv, TokenTypeOK,
         ControlInv, LockInv, CarriedInv, MemInv, AskedInv, WriteIds, Ids, Ops
    <3> QED
      BY <3>1, <3>2, <3>3, <3>4, <3>5 DEF TokenInv
  <2> QED
    BY <2>1, <2>2
<1>10. ASSUME NEW p \in Procs, Read(p) PROVE TokenInv'
  <2>1. CASE disk.cred \notin Creds
    BY <1>10, <2>1, LeavingInv DEF Read
  <2>2. CASE disk.cred \in Creds
    <3>1. TokenTypeOK'
      BY <1>10, <2>2 DEF Read, TokenInv, TokenTypeOK,
         WriteIds, Ids, Contents, Nothing, Ops, Steps
    <3>5. ControlInv'
      BY <1>10, <2>2 DEF Read, TokenInv, TokenTypeOK,
         ControlInv, Ops
    <3>2. LockInv' /\ MemInv'
      BY <1>10, <2>2 DEF Read, TokenInv, TokenTypeOK,
         LockInv, MemInv, CarriedInv, WriteIds
    <3>3. CarriedInv'
      BY <1>10, <2>2 DEF Read, TokenInv, TokenTypeOK,
         LockInv, MemInv, CarriedInv, WriteIds, Ids
    <3>4. AskedInv'
      BY <1>10, <2>2 DEF Read, TokenInv, TokenTypeOK,
         ControlInv, LockInv, CarriedInv, MemInv, AskedInv, WriteIds, Ids, Ops
    <3> QED
      BY <3>1, <3>2, <3>3, <3>4, <3>5 DEF TokenInv
  <2> QED
    BY <2>1, <2>2
<1>11. ASSUME NEW p \in Procs, Commit(p) PROVE TokenInv'
  <2> USE <1>11
  <2>1. /\ seen[p] \in WriteIds /\ got[p].id \in WriteIds /\ got[p].cred \in Creds
        /\ mem.ver <= seen[p] /\ seen[p] <= got[p].id /\ got[p].id <= disk.id
        /\ got[p].id = disk.id => got[p].cred = disk.cred
    BY DEF Commit, TokenInv, TokenTypeOK, LockInv, CarriedInv, WriteIds, Ids, Contents
  <2>2. /\ mem' \in [stat : WriteIds, ver : WriteIds, cred : Creds]
        /\ mem'.stat = seen[p] /\ mem'.ver = got[p].id /\ mem'.cred = got[p].cred
        /\ disk' = disk /\ statDue' = statDue /\ reloadMu' = NoProc
    BY <2>1 DEF Commit
  <2>3. \A q \in Procs \ {p} : step[q] \notin {"read", "commit"}
    BY DEF Commit, TokenInv, TokenTypeOK, LockInv, CarriedInv, WriteIds, Ids, Contents
  <2>4. CASE MaybeReloadReturns(p)
    <3>1. TokenTypeOK'
      <4>1. CASE op[p] = "get" /\ Continue(p, "load")
        BY <2>2, <4>1 DEF Commit, Continue, TokenInv, TokenTypeOK,
           WriteIds, Ids, Contents, Nothing, Ops, Steps
      <4>2. CASE op[p] = "maybeReload" /\ Return(p, NoToken)
        BY <2>2, <4>2 DEF Commit, Return, TokenInv, TokenTypeOK,
           WriteIds, Ids, Contents, Nothing, Ops, Steps
      <4> QED
        BY <2>4, <4>1, <4>2 DEF MaybeReloadReturns
    <3>5. ControlInv'
      BY <2>1, <2>2, <2>3, <2>4 DEF Commit, MaybeReloadReturns, Continue, Return, TokenInv, TokenTypeOK,
         ControlInv, Ops
    <3>2. LockInv' /\ MemInv'
      BY <2>1, <2>2, <2>3, <2>4 DEF Commit, MaybeReloadReturns, Continue, Return, TokenInv, TokenTypeOK,
         LockInv, MemInv, CarriedInv, WriteIds
    <3>3. CarriedInv'
      BY <2>1, <2>2, <2>3, <2>4 DEF Commit, MaybeReloadReturns, Continue, Return, TokenInv, TokenTypeOK,
         LockInv, MemInv, CarriedInv, WriteIds, Ids
    <3>4. AskedInv'
      BY <2>1, <2>2, <2>3, <2>4 DEF Commit, MaybeReloadReturns, Continue, Return, TokenInv, TokenTypeOK,
         ControlInv, LockInv, CarriedInv, MemInv, AskedInv, WriteIds, Ids, Ops
    <3> QED
      BY <3>1, <3>2, <3>3, <3>4, <3>5 DEF TokenInv
  <2>5. CASE ReloadNowGets(p)
    BY <2>1, <2>2, <2>3, <2>5 DEF Commit, ReloadNowGets, TokenInv, TokenTypeOK, ControlInv, LockInv, MemInv,
     CarriedInv, AskedInv, WriteIds, Ids, Contents, Nothing, Ops, Steps
  <2> QED
    BY <2>4, <2>5 DEF Commit
<1>12. ASSUME NEW p \in Procs, Load(p) PROVE TokenInv'
  BY <1>12 DEF Load, Return, TokenInv, TokenTypeOK, ControlInv, LockInv, MemInv,
     CarriedInv, AskedInv, WriteIds, Ids, Contents, Nothing, Ops, Steps
<1>13. CASE UNCHANGED tokenVars
  BY <1>13 DEF tokenVars, TokenInv, TokenTypeOK, ControlInv, LockInv, MemInv,
     CarriedInv, AskedInv, WriteIds, Ids, Contents, Nothing, Ops, Steps
<1> QED
  BY <1>1, <1>2, <1>3, <1>4, <1>5, <1>6, <1>7, <1>8, <1>9, <1>10, <1>11, <1>12, <1>13
     DEF TokenNext, CallStep

(* TokenInv is an invariant of the token source.                             *)
THEOREM TokenInvariant == TokenSpec => []TokenInv
  BY TokenInitInv, TokenStepInv, PTL DEF TokenSpec

(* Memory is well typed; in particular it always holds a credential that     *)
(* reload accepts, whatever the file holds.                                  *)
THEOREM TokenTypeCorrect == TokenSpec => []TokenTypeOK
<1>1. TokenInv => TokenTypeOK
  BY DEF TokenInv
<1> QED
  BY <1>1, TokenInvariant, PTL

(* A changed file is never taken for an unchanged one.                       *)
THEOREM ChangeIsAlwaysDetectable == TokenSpec => []ChangeIsDetectable
<1>1. TokenInv => ChangeIsDetectable
  <2> SUFFICES ASSUME TokenInv, mem.stat = disk.id
               PROVE  mem.ver = disk.id /\ mem.cred = disk.cred
    BY DEF ChangeIsDetectable
  <2>1. mem.stat \in Nat /\ mem.ver \in Nat /\ disk.id \in Nat
    BY DEF TokenInv, TokenTypeOK, WriteIds
  <2>2. mem.stat <= mem.ver /\ mem.ver <= disk.id
    BY DEF TokenInv, MemInv
  <2> QED
    BY <2>1, <2>2 DEF TokenInv, MemInv
<1> QED
  BY <1>1, TokenInvariant, PTL

(* reloadNow answers with a token at least as new as the file at its call.   *)
THEOREM RecoveryIsAlwaysCurrent == TokenSpec => []RecoveryIsCurrent
<1>1. TokenInv => RecoveryIsCurrent
  BY DEF TokenInv, TokenTypeOK, ControlInv, AskedInv, RecoveryIsCurrent, Ops
<1> QED
  BY <1>1, TokenInvariant, PTL

(* Of two overlapping reloads the older content never ends up in memory.     *)
THEOREM MemoryMovesForward == TokenSpec => MemoryNeverGoesBack
<1>1. TokenInv /\ [TokenNext]_tokenVars => [mem'.ver >= mem.ver]_tokenVars
  <2> SUFFICES ASSUME TokenInv, TokenNext PROVE mem'.ver >= mem.ver
    BY DEF tokenVars
  <2>1. mem.ver \in Nat
    BY DEF TokenInv, TokenTypeOK, WriteIds
  <2>2. ASSUME NEW p \in Procs, Commit(p) PROVE mem'.ver >= mem.ver
    BY <2>2 DEF Commit, TokenInv, TokenTypeOK, CarriedInv, WriteIds, Ids
  <2>3. CASE UNCHANGED mem
    BY <2>1, <2>3
  <2> QED
    BY <2>2, <2>3 DEF TokenNext, CallStep, ExternalWrite, ThrottleElapses, Get,
       MaybeReload, ReloadNow, Throttle, Stat, Compare, Lock, Read, Load
<1> QED
  BY <1>1, TokenInvariant, PTL DEF TokenSpec, MemoryNeverGoesBack
=============================================================================
