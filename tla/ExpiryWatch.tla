---------------------------- MODULE ExpiryWatch ----------------------------
(***************************************************************************)
(* The warnings before a credential expires (src/credentials.go, type      *)
(* expiryWatch, checkExpiry and watch): two ladders of stages, one for the *)
(* access token and one for the refresh token, each of which every reload  *)
(* of the credential file starts again.                                    *)
(*                                                                         *)
(* checkExpiry and the commit of reload are sections under tokenSource.mu  *)
(* and one step each.  The watcher reloads a changed file, refreshes and   *)
(* checks, in this order; a handler that has had a 401 or calls get may    *)
(* reload at any moment.  How a reload reads the file is TokenSource's     *)
(* subject: here it takes the two deadlines that are in the file.          *)
(***************************************************************************)
EXTENDS Integers, Sequences, FiniteSetsExt

CONSTANTS
    AccessStages,   \* accessExpiryStages, in ticks
    RefreshStages,  \* refreshExpiryStages, in ticks
    Margin,         \* refreshMargin
    AccessLife,     \* how long a new access token lives
    LoginLife,      \* how long the refresh token of a new login lives
    MaxLogins,      \* bound: logins
    Horizon         \* bound: the last moment

Ladder(stages) ==
    /\ stages \in Seq(Nat) \ {<<>>}
    /\ stages[Len(stages)] = 0
    /\ \A i, j \in DOMAIN stages : i < j => stages[i] > stages[j]

ASSUME ExpiryAssumption ==
    /\ Ladder(AccessStages) /\ Ladder(RefreshStages)
    /\ {Margin, MaxLogins, Horizon} \subseteq Nat
    /\ {AccessLife, LoginLife} \subseteq Nat \ {0}

VARIABLES
    now,        \* the clock
    enabled,    \* refreshEnabled()
    disk,       \* the deadlines in the file, 0 for one it does not tell
    stale,      \* the file has another mtime than the one in memory
    logins,     \* logins so far
    access,     \* t.accessExpiry: its deadline and the stages passed
    refresh,    \* t.refreshExpiry
    place,      \* where the watcher is
    told        \* history: per ladder, the stages told since the last reload

ladders == <<access, refresh, told>>
expiryVars == <<now, enabled, disk, stale, logins, ladders, place>>

Deadlines == 0..Horizon + AccessLife + LoginLife
Untold == [access |-> {}, refresh |-> {}]

ExpiryTypeOK ==
    /\ now \in 0..Horizon
    /\ enabled \in BOOLEAN /\ stale \in BOOLEAN
    /\ logins \in 0..MaxLogins
    /\ disk \in [access: Deadlines, refresh: Deadlines]
    /\ access \in [at: Deadlines, stage: 0..Len(AccessStages)]
    /\ refresh \in [at: Deadlines, stage: 0..Len(RefreshStages)]
    /\ place \in {"idle", "reload", "refresh", "check"}
    /\ told \in [access: SUBSET DOMAIN AccessStages, refresh: SUBSET DOMAIN RefreshStages]

(* What the file tells of a login: its two deadlines, or not.                *)
Login(t) == [access: {0, t + AccessLife}, refresh: {0, t + LoginLife}]

(* main checks once before the watcher starts.                               *)
ExpiryInit ==
    /\ now = 0
    /\ enabled \in BOOLEAN
    /\ disk \in Login(0)
    /\ stale = FALSE
    /\ logins = 0
    /\ access = [at |-> disk.access, stage |-> 0]
    /\ refresh = [at |-> disk.refresh, stage |-> 0]
    /\ place = "check"
    /\ told = Untold

----------------------------------------------------------------------------
(* newlyCrossed: the stages from the next one on, up to the first that is    *)
(* not reached yet.  A deadline that is not known crosses none.              *)
Remaining(w) == w.at - now

Crossed(w, stages) ==
    IF w.at = 0 THEN {}
    ELSE {i \in w.stage + 1..Len(stages) :
             \A j \in w.stage + 1..i : Remaining(w) <= stages[j]}

(* Faults: the stages are gone through one at a time; the count of stages is *)
(* taken for the index of the last one.                                      *)
OneByOne(w, stages) == IF Crossed(w, stages) = {} THEN w.stage ELSE w.stage + 1

PastTheEnd(w, stages) ==
    IF Crossed(w, stages) = {} THEN w.stage ELSE Max(Crossed(w, stages)) + 1

(* The stage that is told, and that the watch has passed afterwards.         *)
Hit(w, stages) == IF Crossed(w, stages) = {} THEN w.stage ELSE Max(Crossed(w, stages))

(* The line for the access token is looked at only without self-refresh.     *)
CheckExpiry ==
    LET a == IF enabled THEN access.stage ELSE Hit(access, AccessStages)
        r == Hit(refresh, RefreshStages)
    IN  /\ access' = [access EXCEPT !.stage = a]
        /\ refresh' = [refresh EXCEPT !.stage = r]
        /\ told' = [access |-> told.access \cup ({a} \ {access.stage}),
                    refresh |-> told.refresh \cup ({r} \ {refresh.stage})]

(* Fault: the deadlines are replaced and the stages kept.                    *)
KeepStages(file) ==
    /\ access' = [access EXCEPT !.at = file.access]
    /\ refresh' = [refresh EXCEPT !.at = file.refresh]
    /\ told' = Untold
    /\ stale' = FALSE

(* The commit of reload, whoever calls it and whatever it has read.          *)
Reload(file) ==
    /\ access' = [at |-> file.access, stage |-> 0]
    /\ refresh' = [at |-> file.refresh, stage |-> 0]
    /\ told' = Untold
    /\ stale' = FALSE

----------------------------------------------------------------------------

Tick ==
    /\ now < Horizon
    /\ now' = now + 1
    /\ UNCHANGED <<enabled, disk, stale, logins, ladders, place>>

(* Somebody logs in anew.                                                    *)
LogsIn ==
    /\ logins < MaxLogins
    /\ logins' = logins + 1
    /\ disk' \in Login(now)
    /\ stale' = TRUE
    /\ UNCHANGED <<now, enabled, ladders, place>>

(* A refresh that works: the child has written a new access token; the       *)
(* refresh token keeps the deadline of its login.                            *)
RefreshWorks ==
    /\ enabled
    /\ disk' = [access |-> now + AccessLife, refresh |-> refresh.at]
    /\ Reload(disk')

(* A handler reloads a file that has changed; after a 401, or after a child   *)
(* that has written nothing, also the one it has already.  Or it refreshes.  *)
HandlerReloads ==
    /\ Reload(disk)
    /\ UNCHANGED <<now, enabled, disk, logins, place>>

HandlerRefreshes ==
    /\ RefreshWorks
    /\ UNCHANGED <<now, enabled, logins, place>>

(* watch: the ticker, then maybeReload, ensureFresh and checkExpiry.         *)
WatchWakes ==
    /\ place = "idle"
    /\ place' = "reload"
    /\ UNCHANGED <<now, enabled, disk, stale, logins, ladders>>

WatchReloads ==
    /\ place = "reload"
    /\ IF stale THEN Reload(disk) ELSE UNCHANGED <<ladders, stale>>
    /\ place' = "refresh"
    /\ UNCHANGED <<now, enabled, disk, logins>>

(* ensureFresh has nothing to do or fails, or it works.                      *)
WatchRefreshes ==
    /\ place = "refresh"
    /\ \/ UNCHANGED <<disk, ladders, stale>>
       \/ access.at # 0 /\ Remaining(access) < Margin /\ RefreshWorks
    /\ place' = "check"
    /\ UNCHANGED <<now, enabled, logins>>

WatchChecks ==
    /\ place = "check"
    /\ CheckExpiry
    /\ place' = "idle"
    /\ UNCHANGED <<now, enabled, disk, stale, logins>>

WatcherStep == WatchWakes \/ WatchReloads \/ WatchRefreshes \/ WatchChecks

ExpiryNext == Tick \/ LogsIn \/ HandlerReloads \/ HandlerRefreshes \/ WatcherStep

ExpirySpec == ExpiryInit /\ [][ExpiryNext]_expiryVars

(* The ticker wakes the watcher, and nothing in its round blocks for good.   *)
ExpiryFairSpec == ExpirySpec /\ WF_expiryVars(WatcherStep)

----------------------------------------------------------------------------
(* Properties *)

Passed(w, stages) == {i \in DOMAIN stages : w.at # 0 /\ Remaining(w) <= stages[i]}

(* What a check tells is news and the tightest stage that has been passed:   *)
(* it is not told twice between two reloads, nor after a tighter one, and    *)
(* the looser ones that were passed with it are skipped.                     *)
ToldIsTightest ==
    [][/\ \A i \in told'.access \ told.access :
              i = Max(Passed(access, AccessStages)) /\ \A j \in told.access : j < i
       /\ \A i \in told'.refresh \ told.refresh :
              i = Max(Passed(refresh, RefreshStages)) /\ \A j \in told.refresh : j < i
      ]_expiryVars

(* Every stage that the deadline of the refresh token passes is told, or a   *)
(* tighter one is, unless a later deadline has been loaded: none is lost in  *)
(* a reload, however many there are, nor because an earlier credential had   *)
(* got further down the ladder.  The same without self-refresh for the       *)
(* access token.                                                             *)
PassedIsTold ==
    /\ \A i \in DOMAIN RefreshStages :
           i \in Passed(refresh, RefreshStages)
               ~> (\E j \in told.refresh : j >= i) \/ i \notin Passed(refresh, RefreshStages)
    /\ \A i \in DOMAIN AccessStages :
           ~enabled /\ i \in Passed(access, AccessStages)
               ~> (\E j \in told.access : j >= i) \/ i \notin Passed(access, AccessStages)
=============================================================================
