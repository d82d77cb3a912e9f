---------------------------- MODULE TokenSource ----------------------------
(***************************************************************************)
(* The gateway's in-memory copy of the subscription credential and how it  *)
(* follows the credential file (src/credentials.go, type tokenSource).     *)
(*                                                                         *)
(* The file is written by others: the claude client, a cron job, a human.  *)
(* Any number of goroutines (request handlers, the 30 second watcher, the  *)
(* one that has just run a refresh) call get, maybeReload and reloadNow    *)
(* at the same time.                                                       *)
(*                                                                         *)
(* A write of the file is identified by its sequence number; os.Stat shows *)
(* that number in place of the mtime, because the code compares mtimes     *)
(* only for equality.  Environment assumption: two writes never carry the  *)
(* same mtime.  A credential (access token, refresh token, scopes, expiry) *)
(* is one value, because one read of the file supplies all of it.          *)
(*                                                                         *)
(* A section of the code under tokenSource.mu is one step.  Everything     *)
(* between two such sections, and every system call, is a step of its own. *)
(***************************************************************************)
EXTENDS Integers

CONSTANTS
    Procs,      \* the goroutines that use the token source
    Creds,      \* the credentials that can be in the file
    Rejected,   \* file content reload refuses: torn, empty token, placeholder
    Missing,    \* no file: os.Stat fails
    NoToken,    \* the empty string
    NoProc,     \* nobody holds the lock
    Watcher,    \* the goroutine that runs watch
    MaxWrites   \* bound: number of writes of the file in a behaviour

ASSUME DistinctAssumption ==
    /\ {Rejected, Missing, NoToken} \cap Creds = {}
    /\ Rejected # Missing
    /\ NoProc \notin Procs
    /\ Watcher \in Procs
ASSUME MaxWritesAssumption == MaxWrites \in Nat \ {0}

VARIABLES
    disk,       \* the file: [id: which write, cred: its content]
    mem,        \* in memory: [stat: t.mtime, ver: the write that was read, cred]
    reloadMu,   \* holder of t.reloadMu
    statDue,    \* statThrottle has elapsed since t.lastStat
    op,         \* the call a goroutine is in
    step,       \* where in the call it is
    seen,       \* local: the mtime os.Stat returned
    got,        \* local: what os.ReadFile returned
    asked,      \* history: the file's write when reloadNow was called
    val         \* the token the last call returned

tokenVars == <<disk, mem, reloadMu, statDue, op, step, seen, got, asked, val>>
callVars == <<op, step, seen, got, asked, val>>

WriteIds == 1..MaxWrites
Ids == 0..MaxWrites
Contents == Creds \cup {Rejected, Missing}
Nothing == [id |-> 0, cred |-> Missing]

Ops == {"none", "get", "maybeReload", "reloadNow"}
Steps == {"idle", "throttle", "stat", "compare", "lock", "read", "commit", "load"}

TokenTypeOK ==
    /\ disk \in [id: WriteIds, cred: Contents]
    /\ mem \in [stat: WriteIds, ver: WriteIds, cred: Creds]
    /\ reloadMu \in Procs \cup {NoProc}
    /\ statDue \in BOOLEAN
    /\ op \in [Procs -> Ops]
    /\ step \in [Procs -> Steps]
    /\ seen \in [Procs -> Ids]
    /\ got \in [Procs -> [id: Ids, cred: Contents]]
    /\ asked \in [Procs -> Ids]
    /\ val \in [Procs -> Creds \cup {NoToken}]

(* newTokenSource has loaded the file and no goroutine runs yet.  The file    *)
(* may have been written between the stat of that reload and its read.        *)
TokenInit ==
    /\ \E w \in WriteIds, c \in Creds :
           /\ disk = [id |-> w, cred |-> c]
           /\ mem = [stat |-> 1, ver |-> w, cred |-> c]
    /\ reloadMu = NoProc
    /\ statDue = TRUE
    /\ op = [p \in Procs |-> "none"]
    /\ step = [p \in Procs |-> "idle"]
    /\ seen = [p \in Procs |-> 0]
    /\ got = [p \in Procs |-> Nothing]
    /\ asked = [p \in Procs |-> 0]
    /\ val = [p \in Procs |-> NoToken]

----------------------------------------------------------------------------
(* The world outside *)

Write(c) ==
    /\ disk.id < MaxWrites
    /\ disk' = [id |-> disk.id + 1, cred |-> c]

ExternalWrite ==
    /\ \E c \in Contents : Write(c)
    /\ UNCHANGED <<mem, reloadMu, statDue, callVars>>

(* A second has passed since the last throttled look at the file. *)
ThrottleElapses ==
    /\ ~statDue
    /\ statDue' = TRUE
    /\ UNCHANGED <<disk, mem, reloadMu, callVars>>

----------------------------------------------------------------------------
(* The calls *)

Enter(p, o, s) ==
    /\ op[p] = "none"
    /\ op' = [op EXCEPT ![p] = o]
    /\ step' = [step EXCEPT ![p] = s]
    /\ val' = [val EXCEPT ![p] = NoToken]

Get(p) ==
    /\ Enter(p, "get", "throttle")
    /\ UNCHANGED <<disk, mem, reloadMu, statDue, seen, got, asked>>

MaybeReload(p) ==
    /\ Enter(p, "maybeReload", "stat")
    /\ UNCHANGED <<disk, mem, reloadMu, statDue, seen, got, asked>>

ReloadNow(p) ==
    /\ Enter(p, "reloadNow", "lock")
    /\ asked' = [asked EXCEPT ![p] = disk.id]
    /\ UNCHANGED <<disk, mem, reloadMu, statDue, seen, got>>

(* The locals of a call go out of scope when it returns v. *)
Return(p, v) ==
    /\ op' = [op EXCEPT ![p] = "none"]
    /\ step' = [step EXCEPT ![p] = "idle"]
    /\ seen' = [seen EXCEPT ![p] = 0]
    /\ got' = [got EXCEPT ![p] = Nothing]
    /\ asked' = [asked EXCEPT ![p] = 0]
    /\ val' = [val EXCEPT ![p] = v]

Continue(p, s) ==
    /\ step' = [step EXCEPT ![p] = s]
    /\ seen' = [seen EXCEPT ![p] = 0]
    /\ got' = [got EXCEPT ![p] = Nothing]
    /\ UNCHANGED <<op, asked, val>>

(* maybeReload has nothing to do, or its reload has ended either way. *)
MaybeReloadReturns(p) ==
    \/ op[p] = "get" /\ Continue(p, "load")
    \/ op[p] = "maybeReload" /\ Return(p, NoToken)

(* maybeReloadThrottled: lastStat is set before the file is looked at. *)
Throttle(p) ==
    /\ step[p] = "throttle"
    /\ step' = [step EXCEPT ![p] = IF statDue THEN "stat" ELSE "load"]
    /\ statDue' = FALSE
    /\ UNCHANGED <<disk, mem, reloadMu, op, seen, got, asked, val>>

Stat(p) ==
    /\ step[p] = "stat"
    /\ IF disk.cred = Missing
       THEN MaybeReloadReturns(p)
       ELSE /\ step' = [step EXCEPT ![p] = "compare"]
            /\ seen' = [seen EXCEPT ![p] = disk.id]
            /\ UNCHANGED <<op, got, asked, val>>
    /\ UNCHANGED <<disk, mem, reloadMu, statDue>>

Compare(p) ==
    /\ step[p] = "compare"
    /\ IF seen[p] = mem.stat THEN MaybeReloadReturns(p) ELSE Continue(p, "lock")
    /\ UNCHANGED <<disk, mem, reloadMu, statDue>>

(* reloadNow goes on with get once its reload has succeeded. *)
ReloadNowGets(p) ==
    /\ op[p] = "reloadNow"
    /\ op' = [op EXCEPT ![p] = "get"]
    /\ step' = [step EXCEPT ![p] = "throttle"]
    /\ seen' = [seen EXCEPT ![p] = 0]
    /\ got' = [got EXCEPT ![p] = Nothing]
    /\ UNCHANGED <<asked, val>>

(* reload has failed: the old credential stays, reloadNow gives no token. *)
ReloadFails(p) ==
    \/ MaybeReloadReturns(p)
    \/ op[p] = "reloadNow" /\ Return(p, NoToken)

(* Faults of reload, for the mutation runs: no reloadMu around it; a content *)
(* that is not tested; a failure that leaves the lock taken; the mtime taken *)
(* after the content.                                                        *)
UnlockedLock(p) ==
    /\ step[p] = "lock"
    /\ disk.cred # Missing
    /\ step' = [step EXCEPT ![p] = "read"]
    /\ seen' = [seen EXCEPT ![p] = disk.id]
    /\ UNCHANGED <<disk, mem, reloadMu, statDue, op, got, asked, val>>

CarelessRead(p) ==
    /\ step[p] = "read"
    /\ disk.cred # Missing
    /\ step' = [step EXCEPT ![p] = "commit"]
    /\ got' = [got EXCEPT ![p] = disk]
    /\ UNCHANGED <<disk, mem, reloadMu, statDue, op, seen, asked, val>>

LeakingRead(p) ==
    /\ step[p] = "read"
    /\ IF disk.cred \in Creds
       THEN /\ step' = [step EXCEPT ![p] = "commit"]
            /\ got' = [got EXCEPT ![p] = disk]
            /\ UNCHANGED <<op, seen, asked, val>>
       ELSE ReloadFails(p)
    /\ UNCHANGED <<disk, mem, reloadMu, statDue>>

StatLastCommit(p) ==
    /\ step[p] = "commit"
    /\ mem' = [stat |-> disk.id, ver |-> got[p].id, cred |-> got[p].cred]
    /\ reloadMu' = NoProc
    /\ MaybeReloadReturns(p) \/ ReloadNowGets(p)
    /\ UNCHANGED <<disk, statDue>>

(* reload: take reloadMu, then os.Stat. *)
Lock(p) ==
    /\ step[p] = "lock"
    /\ reloadMu = NoProc
    /\ IF disk.cred = Missing
       THEN ReloadFails(p) /\ UNCHANGED reloadMu
       ELSE /\ reloadMu' = p
            /\ step' = [step EXCEPT ![p] = "read"]
            /\ seen' = [seen EXCEPT ![p] = disk.id]
            /\ UNCHANGED <<op, got, asked, val>>
    /\ UNCHANGED <<disk, mem, statDue>>

(* reload: os.ReadFile, parsing, and the tests that reject a content. *)
Read(p) ==
    /\ step[p] = "read"
    /\ IF disk.cred \in Creds
       THEN /\ step' = [step EXCEPT ![p] = "commit"]
            /\ got' = [got EXCEPT ![p] = disk]
            /\ UNCHANGED <<op, seen, asked, val, reloadMu>>
       ELSE ReloadFails(p) /\ reloadMu' = NoProc
    /\ UNCHANGED <<disk, mem, statDue>>

(* reload: the fields are replaced together, with the mtime of the stat. *)
Commit(p) ==
    /\ step[p] = "commit"
    /\ mem' = [stat |-> seen[p], ver |-> got[p].id, cred |-> got[p].cred]
    /\ reloadMu' = NoProc
    /\ MaybeReloadReturns(p) \/ ReloadNowGets(p)
    /\ UNCHANGED <<disk, statDue>>

(* The last line of get. *)
Load(p) ==
    /\ step[p] = "load"
    /\ Return(p, mem.cred)
    /\ UNCHANGED <<disk, mem, reloadMu, statDue>>

CallStep(p) ==
    \/ Throttle(p) \/ Stat(p) \/ Compare(p)
    \/ Lock(p) \/ Read(p) \/ Commit(p) \/ Load(p)

TokenNext ==
    \/ ExternalWrite
    \/ ThrottleElapses
    \/ \E p \in Procs :
           Get(p) \/ MaybeReload(p) \/ ReloadNow(p) \/ CallStep(p)

TokenSpec == TokenInit /\ [][TokenNext]_tokenVars

(* The scheduler runs every goroutine; a Go mutex starves nobody, so a       *)
(* goroutine that waits for reloadMu gets it if it keeps being free; the     *)
(* watcher, whatever else it does, comes back to maybeReload.                *)
CallFairness ==
    \A p \in Procs : WF_tokenVars(CallStep(p)) /\ SF_tokenVars(Lock(p))

TokenFairSpec ==
    TokenSpec /\ CallFairness /\ SF_tokenVars(MaybeReload(Watcher))

----------------------------------------------------------------------------
(* Properties *)

(* If memory carries the file's present mtime, it carries its present        *)
(* content.  Otherwise maybeReload would take a changed file for an          *)
(* unchanged one and the gateway would keep a dead token until the next      *)
(* write: the stat of reload comes before its read, never after.             *)
ChangeIsDetectable ==
    mem.stat = disk.id => mem.ver = disk.id /\ mem.cred = disk.cred

(* Two reloads that overlap never leave the older of their two contents in   *)
(* memory: what memory holds was never read from an earlier write than what  *)
(* it held before (the purpose of reloadMu).                                 *)
MemoryNeverGoesBack == [][mem'.ver >= mem.ver]_tokenVars

(* A reloadNow that gives a token gives one at least as new as the file was  *)
(* when it was called, whatever the other goroutines reload meanwhile: an    *)
(* external refresh that precedes the 401 is never missed by its recovery.   *)
RecoveryIsCurrent ==
    \A p \in Procs : step[p] = "load" => mem.ver >= asked[p]

(* Every valid content the file comes to hold is read into memory, unless    *)
(* the file changes again first: a failed, a torn or an overlapped reload    *)
(* delays the hot reload and never cancels it.                               *)
ChangeIsPickedUp ==
    \A i \in WriteIds :
        disk.id = i /\ disk.cred \in Creds ~> mem.ver = i \/ disk.id # i

(* Every call returns, whatever happens to the file while it runs.           *)
CallsReturn == \A p \in Procs : op[p] # "none" ~> op[p] = "none"
=============================================================================
