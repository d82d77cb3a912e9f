------------------------------ MODULE Refresh ------------------------------
(***************************************************************************)
(* Self-refresh of the credential (src/refresh.go) and the part of a       *)
(* request that depends on it (src/main.go, handle): the routine check,    *)
(* the token that is sent, the recovery from a 401 and the one replay.     *)
(*                                                                         *)
(* The module composes the token source with its clients.  A goroutine's   *)
(* calls of get, maybeReload and reloadNow are the actions of TokenSource; *)
(* `at' is its place in ensureFresh, runRefresh or handle.                 *)
(*                                                                         *)
(* A refresh is a `claude auth login' child.  It presents the refresh      *)
(* token that memory held at the fork; the server rotates it, the child    *)
(* writes the file and exits; refreshTimeout can kill it at any point.     *)
(*                                                                         *)
(* Time.  One tick is refreshBackoffMin (30 s).  t.lastRefresh is kept as  *)
(* the ticks elapsed since then, which stop counting where no comparison   *)
(* can tell the difference.  Credentials are numbered in the order the     *)
(* server issues them and expire in that order, so those within            *)
(* refreshMargin of their expiry are the ones up to `aged'.                *)
(***************************************************************************)
EXTENDS TokenSource

CONSTANTS
    Unrefreshable,  \* credentials without a refresh token or without scopes
    MinInterval,    \* minRefreshInterval, in ticks
    BackoffMin,     \* refreshBackoffMin, in ticks
    BackoffMax,     \* refreshBackoffMax, in ticks
    MaxCred,        \* bound: credentials the server issues
    Foreign         \* what others write besides fresh logins

ASSUME RefreshAssumption ==
    /\ MinInterval \in Nat \ {0}
    /\ BackoffMin \in Nat \ {0}
    /\ BackoffMax \in Nat
    /\ BackoffMin <= BackoffMax
    /\ MaxCred \in Nat \ {0}
    /\ Creds = 1..MaxCred
    /\ Unrefreshable \subseteq Creds
    /\ Foreign \subseteq Contents

VARIABLES
    enabled,    \* refreshEnabled(): fixed at startup
    at,         \* where a goroutine is in watch, handle, ensureFresh, runRefresh
    sent,       \* the token a 401 came back for (stale), or NoToken
    before,     \* runRefresh: the token and refresh token taken at the fork
    refreshMu,  \* holder of t.refreshMu
    elapsed,    \* ticks since t.lastRefresh
    backoff,    \* t.backoff, in ticks
    child,      \* the claude child of a goroutine
    fresh,      \* the credential the server gave that child
    issued,     \* server: the newest credential, the only one it accepts
    aged,       \* credentials up to this one are expiring soon
    from,       \* history: the write that the token sent first is from
    sinceFork,  \* history: ticks since a child was forked
    wrote,      \* history: the write by which that child replaced the file
    spent       \* history: the refresh tokens whose refresh succeeded

refreshVars == <<enabled, at, sent, before, refreshMu, elapsed, backoff, child, fresh, issued,
                 aged, from, sinceFork, wrote, spent>>
vars == <<tokenVars, refreshVars>>

Handlers == Procs \ {Watcher}
Cap == IF MinInterval > BackoffMax THEN MinInterval ELSE BackoffMax

Places == {"idle", "watch", "try", "recheck", "fork", "wait", "verify",
           "first", "lock", "compare", "second", "replay"}
ChildStages == {"none", "run", "rotated", "writing", "wrote"}

(* The section that refreshMu guards. *)
Critical == {"recheck", "compare", "fork", "wait", "verify"}

RefreshTypeOK ==
    /\ TokenTypeOK
    /\ enabled \in BOOLEAN
    /\ at \in [Procs -> Places]
    /\ sent \in [Procs -> Creds \cup {NoToken}]
    /\ before \in [Procs -> Creds \cup {NoToken}]
    /\ refreshMu \in Procs \cup {NoProc}
    /\ elapsed \in 0..Cap
    /\ backoff \in {0} \cup BackoffMin..BackoffMax
    /\ child \in [Procs -> ChildStages]
    /\ fresh \in [Procs -> 0..MaxCred]
    /\ issued \in Creds
    /\ aged \in 0..MaxCred
    /\ from \in [Procs -> Ids]
    /\ sinceFork \in 0..MinInterval
    /\ wrote \in [Procs -> Ids]
    /\ spent \subseteq Creds

Init ==
    /\ TokenInit
    /\ enabled \in BOOLEAN
    /\ at = [p \in Procs |-> "idle"]
    /\ sent = [p \in Procs |-> NoToken]
    /\ before = [p \in Procs |-> NoToken]
    /\ refreshMu = NoProc
    /\ elapsed = Cap
    /\ backoff = 0
    /\ child = [p \in Procs |-> "none"]
    /\ fresh = [p \in Procs |-> 0]
    /\ issued = disk.cred
    /\ aged = 0
    /\ from = [p \in Procs |-> 0]
    /\ sinceFork = MinInterval
    /\ wrote = [p \in Procs |-> 0]
    /\ spent = {}

----------------------------------------------------------------------------
(* Time, the server and the other users of the file *)

Tick ==
    /\ elapsed < Cap \/ sinceFork < MinInterval
    /\ elapsed' = IF elapsed < Cap THEN elapsed + 1 ELSE Cap
    /\ sinceFork' = IF sinceFork < MinInterval THEN sinceFork + 1 ELSE MinInterval
    /\ statDue' = TRUE
    /\ UNCHANGED <<enabled, disk, mem, reloadMu, callVars, at, sent, before,
                   refreshMu, backoff, child, fresh, issued, aged, from, wrote, spent>>

Age ==
    /\ aged < issued
    /\ aged' = aged + 1
    /\ UNCHANGED <<enabled, tokenVars, at, sent, before, refreshMu, elapsed,
                   backoff, child, fresh, issued, from, sinceFork, wrote, spent>>

(* Someone logs in anew, or a claude that shares the file refreshes it.      *)
ExternalLogin ==
    /\ issued < MaxCred
    /\ issued' = issued + 1
    /\ Write(issued + 1)
    /\ UNCHANGED <<enabled, mem, reloadMu, statDue, callVars, at, sent, before,
                   refreshMu, elapsed, backoff, child, fresh, aged, from, sinceFork,
                   wrote, spent>>

(* A torn or removed file, an old one put back, the same one written again.  *)
ForeignWrite ==
    /\ \E c \in Foreign : c \in 1..issued \cup {Rejected, Missing} /\ Write(c)
    /\ UNCHANGED <<mem, reloadMu, statDue, callVars, refreshVars>>

(* The child trades its refresh token; the server takes only the newest one  *)
(* and from then on rejects the access token that came with it.              *)
ServerRotates(p) ==
    /\ child[p] = "run"
    /\ before[p] = issued
    /\ issued < MaxCred
    /\ issued' = issued + 1
    /\ child' = [child EXCEPT ![p] = "rotated"]
    /\ fresh' = [fresh EXCEPT ![p] = issued + 1]
    /\ UNCHANGED <<enabled, tokenVars, at, sent, before, refreshMu, elapsed,
                   backoff, aged, from, sinceFork, wrote, spent>>

(* The child's write need not be atomic.                                     *)
ChildTruncates(p) ==
    /\ child[p] = "rotated"
    /\ Write(Rejected)
    /\ child' = [child EXCEPT ![p] = "writing"]
    /\ UNCHANGED <<enabled, mem, reloadMu, statDue, callVars, at, sent, before,
                   refreshMu, elapsed, backoff, fresh, issued, aged, from, sinceFork,
                   wrote, spent>>

ChildWrites(p) ==
    /\ child[p] \in {"rotated", "writing"}
    /\ Write(fresh[p])
    /\ child' = [child EXCEPT ![p] = "wrote"]
    /\ wrote' = [wrote EXCEPT ![p] = disk.id + 1]
    /\ UNCHANGED <<enabled, mem, reloadMu, statDue, callVars, at, sent, before,
                   refreshMu, elapsed, backoff, fresh, issued, aged, from, sinceFork,
                   spent>>

----------------------------------------------------------------------------
(* ensureFresh and runRefresh *)

ExpiringSoon == mem.cred <= aged

(* Fault: only a failure delays the next refresh.                            *)
BackoffOnly == elapsed < backoff
Cooling == elapsed < MinInterval \/ elapsed < backoff

Go(p, place) == at' = [at EXCEPT ![p] = place]
NoCall == UNCHANGED tokenVars

(* What follows ensureFresh: the watcher waits for its next tick, a handler  *)
(* gets the token to send first, or the one to replay with.                  *)
AfterEnsureFresh(p) ==
    \/ p = Watcher /\ Go(p, "idle") /\ NoCall
    \/ p \in Handlers /\ sent[p] = NoToken /\ Go(p, "first") /\ Get(p)
    \/ p \in Handlers /\ sent[p] # NoToken /\ Go(p, "second") /\ Get(p)

(* ensureFresh(""), up to the lock *)
RoutineCheck(p) ==
    IF enabled /\ ExpiringSoon
    THEN Go(p, "try") /\ NoCall
    ELSE AfterEnsureFresh(p)

(* Faults of the two ways to take refreshMu: the routine check waits too; a  *)
(* handler with a 401 goes on although the lock is taken.                    *)
WaitLock(p) ==
    /\ at[p] = "try"
    /\ refreshMu = NoProc
    /\ refreshMu' = p
    /\ Go(p, "recheck")
    /\ NoCall
    /\ UNCHANGED <<enabled, sent, before, elapsed, backoff, child, fresh, issued,
                   aged, from, sinceFork, wrote, spent>>

JoinRefresh(p) ==
    /\ at[p] = "lock"
    /\ refreshMu' = p
    /\ Go(p, "compare")
    /\ Get(p)
    /\ UNCHANGED <<enabled, sent, before, elapsed, backoff, child, fresh, issued,
                   aged, from, sinceFork, wrote, spent>>

(* Fault: the early return of the recheck keeps the lock.                    *)
LeakyRecheck(p) ==
    /\ at[p] = "recheck"
    /\ IF ExpiringSoon THEN Go(p, "fork") /\ NoCall ELSE AfterEnsureFresh(p)
    /\ UNCHANGED <<enabled, sent, before, refreshMu, elapsed, backoff, child, fresh,
                   issued, aged, from, sinceFork, wrote, spent>>

(* TryLock: a routine check never waits for a refresh that is running.       *)
TryLock(p) ==
    /\ at[p] = "try"
    /\ IF refreshMu = NoProc
       THEN refreshMu' = p /\ Go(p, "recheck") /\ NoCall
       ELSE AfterEnsureFresh(p) /\ UNCHANGED refreshMu
    /\ UNCHANGED <<enabled, sent, before, elapsed, backoff, child, fresh, issued,
                   aged, from, sinceFork, wrote, spent>>

Recheck(p) ==
    /\ at[p] = "recheck"
    /\ IF ExpiringSoon
       THEN Go(p, "fork") /\ NoCall /\ UNCHANGED refreshMu
       ELSE AfterEnsureFresh(p) /\ refreshMu' = NoProc
    /\ UNCHANGED <<enabled, sent, before, elapsed, backoff, child, fresh, issued,
                   aged, from, sinceFork, wrote, spent>>

(* ensureFresh(stale) waits for the lock, then looks again.                  *)
LockRefresh(p) ==
    /\ at[p] = "lock"
    /\ refreshMu = NoProc
    /\ refreshMu' = p
    /\ Go(p, "compare")
    /\ Get(p)
    /\ UNCHANGED <<enabled, sent, before, elapsed, backoff, child, fresh, issued,
                   aged, from, sinceFork, wrote, spent>>

CompareStale(p) ==
    /\ at[p] = "compare"
    /\ op[p] = "none"
    /\ IF val[p] = sent[p]
       THEN Go(p, "fork") /\ NoCall /\ UNCHANGED refreshMu
       ELSE AfterEnsureFresh(p) /\ refreshMu' = NoProc
    /\ UNCHANGED <<enabled, sent, before, elapsed, backoff, child, fresh, issued,
                   aged, from, sinceFork, wrote, spent>>

(* Fault: the doubling has no upper limit.                                   *)
Uncapped(b) == b
Capped(b) == IF b > BackoffMax THEN BackoffMax ELSE b

(* Fault: lastRefresh is noted for failures only.                            *)
NoteFailures(p, ok) ==
    /\ elapsed' = IF ok THEN elapsed ELSE 0
    /\ backoff' = IF ok THEN 0 ELSE BackoffMin
    /\ spent' = IF ok THEN spent \cup {before[p]} ELSE spent
    /\ before' = [before EXCEPT ![p] = NoToken]
    /\ wrote' = [wrote EXCEPT ![p] = 0]
    /\ refreshMu' = NoProc
    /\ AfterEnsureFresh(p)

(* noteRefreshDone, then refreshMu is released.                              *)
NoteRefreshDone(p, ok) ==
    /\ elapsed' = 0
    /\ backoff' = IF ok THEN 0
                  ELSE Capped(IF backoff = 0 THEN BackoffMin
                              ELSE IF backoff < BackoffMax THEN 2 * backoff ELSE backoff)
    /\ spent' = IF ok THEN spent \cup {before[p]} ELSE spent
    /\ before' = [before EXCEPT ![p] = NoToken]
    /\ wrote' = [wrote EXCEPT ![p] = 0]
    /\ refreshMu' = NoProc
    /\ AfterEnsureFresh(p)

(* refreshCooldown, then the snapshot and the fork.  They are two sections   *)
(* under t.mu and one step here: the former reads only lastRefresh and       *)
(* backoff, which nobody but the holder of refreshMu changes.                *)
Fork(p) ==
    /\ at[p] = "fork"
    /\ \/ /\ Cooling
          /\ refreshMu' = NoProc
          /\ AfterEnsureFresh(p)
          /\ UNCHANGED <<before, elapsed, backoff, child, sinceFork, wrote,
                         spent>>
       \/ /\ ~Cooling
          /\ mem.cred \in Unrefreshable
          /\ NoteRefreshDone(p, FALSE)
          /\ UNCHANGED <<child, sinceFork>>
       \/ /\ ~Cooling
          /\ mem.cred \notin Unrefreshable
          /\ before' = [before EXCEPT ![p] = mem.cred]
          /\ child' = [child EXCEPT ![p] = "run"]
          /\ sinceFork' = 0
          /\ Go(p, "wait")
          /\ NoCall
          /\ UNCHANGED <<refreshMu, elapsed, backoff, wrote, spent>>
    /\ UNCHANGED <<enabled, sent, fresh, issued, aged, from>>

(* Faults of the end of runRefresh: the exit status is taken for success and *)
(* the file is not read; the token to compare with is taken too late.        *)
TrustExitStatus(p) ==
    /\ child[p] \in {"run", "rotated", "wrote"}
    /\ child' = [child EXCEPT ![p] = "none"]
    /\ fresh' = [fresh EXCEPT ![p] = 0]
    /\ NoteRefreshDone(p, TRUE)
    /\ UNCHANGED <<enabled, sent, issued, aged, from, sinceFork>>

LateSnapshot(p) ==
    /\ child[p] \in {"run", "rotated", "wrote"}
    /\ child' = [child EXCEPT ![p] = "none"]
    /\ fresh' = [fresh EXCEPT ![p] = 0]
    /\ before' = [before EXCEPT ![p] = mem.cred]
    /\ Go(p, "verify")
    /\ ReloadNow(p)
    /\ UNCHANGED <<enabled, sent, refreshMu, elapsed, backoff, issued, aged, from,
                   sinceFork, wrote, spent>>

(* The child exits with status 0: it has written the file, or, with another  *)
(* CLAUDE_CONFIG_DIR than the file's, a different one, or has done nothing.  *)
(* The file is read.                                                         *)
ChildExits(p) ==
    /\ child[p] \in {"run", "rotated", "wrote"}
    /\ child' = [child EXCEPT ![p] = "none"]
    /\ fresh' = [fresh EXCEPT ![p] = 0]
    /\ Go(p, "verify")
    /\ ReloadNow(p)
    /\ UNCHANGED <<enabled, sent, before, refreshMu, elapsed, backoff, issued,
                   aged, from, sinceFork, wrote, spent>>

(* The child fails, or refreshTimeout kills it, wherever it is.              *)
ChildDies(p) ==
    /\ child[p] # "none"
    /\ child' = [child EXCEPT ![p] = "none"]
    /\ fresh' = [fresh EXCEPT ![p] = 0]
    /\ NoteRefreshDone(p, FALSE)
    /\ UNCHANGED <<enabled, sent, issued, aged, from, sinceFork>>

(* The end of runRefresh: the refresh worked if the token is another one.    *)
Verify(p) ==
    /\ at[p] = "verify"
    /\ op[p] = "none"
    /\ NoteRefreshDone(p, val[p] \notin {NoToken, before[p]})
    /\ UNCHANGED <<enabled, sent, child, fresh, issued, aged, from, sinceFork>>

----------------------------------------------------------------------------
(* watch and handle *)

WatchTick ==
    /\ at[Watcher] = "idle"
    /\ Go(Watcher, "watch")
    /\ MaybeReload(Watcher)
    /\ UNCHANGED <<enabled, sent, before, refreshMu, elapsed, backoff, child,
                   fresh, issued, aged, from, sinceFork, wrote, spent>>

WatchChecks ==
    /\ at[Watcher] = "watch"
    /\ op[Watcher] = "none"
    /\ RoutineCheck(Watcher)
    /\ UNCHANGED <<enabled, sent, before, refreshMu, elapsed, backoff, child,
                   fresh, issued, aged, from, sinceFork, wrote, spent>>

Arrive(p) ==
    /\ at[p] = "idle"
    /\ RoutineCheck(p)
    /\ UNCHANGED <<enabled, sent, before, refreshMu, elapsed, backoff, child,
                   fresh, issued, aged, from, sinceFork, wrote, spent>>

(* A step of get, maybeReload or reloadNow that p has called.                *)
Call(p) ==
    /\ CallStep(p)
    /\ from' = IF at[p] = "first" /\ step[p] = "load"
               THEN [from EXCEPT ![p] = mem.ver] ELSE from
    /\ UNCHANGED <<enabled, at, sent, before, refreshMu, elapsed, backoff, child,
                   fresh, issued, aged, sinceFork, wrote, spent>>

RequestEnds(p) ==
    /\ Go(p, "idle")
    /\ sent' = [sent EXCEPT ![p] = NoToken]
    /\ from' = [from EXCEPT ![p] = 0]

(* The upstream answers anything but 401, the send fails, or the replay has  *)
(* had its answer: the handler is done.  Any answer can come for any token.  *)
Answered(p) ==
    /\ op[p] = "none"
    /\ at[p] \in {"first", "replay"}
    /\ RequestEnds(p)
    /\ NoCall
    /\ UNCHANGED <<enabled, before, refreshMu, elapsed, backoff, child, fresh,
                   issued, aged, sinceFork, wrote, spent>>

(* recoverFrom401 *)
Unauthorized(p) ==
    /\ at[p] = "first"
    /\ op[p] = "none"
    /\ sent' = [sent EXCEPT ![p] = val[p]]
    /\ IF enabled
       THEN Go(p, "lock") /\ NoCall
       ELSE Go(p, "second") /\ ReloadNow(p)
    /\ UNCHANGED <<enabled, before, refreshMu, elapsed, backoff, child, fresh,
                   issued, aged, from, sinceFork, wrote, spent>>

(* The request is sent again only with another token.                        *)
Replay(p) ==
    /\ at[p] = "second"
    /\ op[p] = "none"
    /\ IF val[p] \in {NoToken, sent[p]}
       THEN RequestEnds(p)
       ELSE Go(p, "replay") /\ UNCHANGED <<sent, from>>
    /\ NoCall
    /\ UNCHANGED <<enabled, before, refreshMu, elapsed, backoff, child, fresh,
                   issued, aged, sinceFork, wrote, spent>>

RefreshStep(p) ==
    \/ TryLock(p) \/ Recheck(p) \/ CompareStale(p) \/ Fork(p) \/ Verify(p)

HandlerStep(p) == Answered(p) \/ Unauthorized(p) \/ Replay(p)

ChildStep(p) ==
    \/ ServerRotates(p) \/ ChildTruncates(p) \/ ChildWrites(p)
    \/ ChildExits(p) \/ ChildDies(p)

Next ==
    \/ Tick \/ Age \/ ExternalLogin \/ ForeignWrite
    \/ ThrottleElapses /\ UNCHANGED refreshVars
    \/ WatchTick \/ WatchChecks
    \/ \E p \in Procs :
           \/ Call(p) \/ LockRefresh(p) \/ RefreshStep(p) \/ ChildStep(p)
    \/ \E p \in Handlers : Arrive(p) \/ HandlerStep(p)

Spec == Init /\ [][Next]_vars

(* Every goroutine is scheduled, no mutex starves who waits for it, and the  *)
(* upstream answers.  Nothing is assumed of the child.                       *)
FairSpec ==
    /\ Spec
    /\ \A p \in Procs :
           /\ WF_vars(Call(p))
           /\ SF_vars(Lock(p) /\ UNCHANGED refreshVars)
           /\ SF_vars(LockRefresh(p))
           /\ WF_vars(RefreshStep(p))
    /\ \A p \in Handlers : WF_vars(HandlerStep(p))
    /\ WF_vars(WatchTick) /\ WF_vars(WatchChecks)

----------------------------------------------------------------------------
(* Properties *)

Forks(p) == child[p] = "none" /\ child'[p] # "none"

(* However many handlers come back with a 401 while the watcher finds the    *)
(* token expiring, one child refreshes at a time: two that present the same  *)
(* refresh token would cost the login.                                       *)
OneChildAtATime ==
    \A p, q \in Procs : child[p] # "none" /\ child[q] # "none" => p = q

(* Two forks are at least minRefreshInterval apart, also when every refresh  *)
(* succeeds and every request still gets a 401, and whoever forks.           *)
RefreshesAreSpaced ==
    [][\A p \in Procs : Forks(p) => sinceFork >= MinInterval]_vars

(* A refresh token the gateway has traded in successfully is never presented *)
(* again, unless somebody puts an old file back.                             *)
SpentTokenStaysSpent ==
    [][\A p \in Procs : Forks(p) => before'[p] \notin spent]_vars

(* runRefresh reports a failure after its child has replaced the file only   *)
(* if somebody has written the file again since: the throttled stat of a     *)
(* concurrent get, which may have read the new token first, does not turn a  *)
(* success into a failure and a backoff.                                     *)
SuccessIsRecognized ==
    [][\A p \in Procs :
          at[p] = "verify" /\ at'[p] # "verify" /\ backoff' > 0
              => disk.id # wrote[p]]_vars

(* A token that a request is sent again with was read from a later write of  *)
(* the file than the one that was refused, whoever refreshed, logged in, tore *)
(* the file or put an old one back meanwhile.                                *)
ReplayIsNewer ==
    [][\A p \in Handlers :
          /\ at[p] = "second"
          /\ step[p] = "load"
          /\ val'[p] \notin {NoToken, sent[p]}
          => mem.ver > from[p]]_vars

(* Every early return gives its lock back, and nobody waits in a circle: who *)
(* holds reloadMu is inside reload and waits for no lock, and who holds      *)
(* refreshMu is inside ensureFresh and waits for reloadMu or its child.      *)
NobodyWaitsInACircle ==
    /\ reloadMu # NoProc =>
           step[reloadMu] \in {"read", "commit"} /\ at[reloadMu] # "lock"
    /\ refreshMu # NoProc => at[refreshMu] \in Critical

(* If refreshTimeout ends every child, every request ends, through the       *)
(* routine check, the wait for the lock, the reloads and the replay.         *)
RequestsEnd ==
    (\A p \in Procs : []<>(child[p] = "none"))
        => \A p \in Handlers : at[p] # "idle" ~> at[p] = "idle"

(* A routine check that finds a refresh running goes on without it: not even *)
(* a child that hangs for good holds up a request that has not had a 401.    *)
RoutineDoesNotWait ==
    \A p \in Handlers, q \in Procs :
        at[p] = "try" /\ refreshMu = q ~> at[p] = "first" \/ refreshMu # q

(* The detailed system keeps the promise.  An attempt lasts from the fork    *)
(* until its result is noted.                                                *)
Promise == INSTANCE RefreshPromise WITH
    running <- {p \in Procs : at[p] \in {"wait", "verify"}},
    rest <- IF elapsed < MinInterval THEN elapsed ELSE MinInterval,
    held <- mem.ver,
    written <- disk.id

(* Every behaviour of the locks, the clocks, the children and the reloads is *)
(* one that RefreshPromise allows.                                           *)
ImplementsPromise == Promise!Spec

(* README.md:163 says of the refresh token handed to the child that it is    *)
(* read from the file each time, because it rotates and must not be cached.  *)
PresentsTheFilesToken ==
    [][\A p \in Procs :
          Forks(p) /\ disk.cred \in Creds => before'[p] = disk.cred]_vars
=============================================================================
