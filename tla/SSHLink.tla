------------------------------ MODULE SSHLink ------------------------------
(***************************************************************************)
(* The device's one SSH connection to the gateway (src/device.go, type     *)
(* sshLink): dialled on demand, shared by every request that goes through  *)
(* the gateway, discarded when it is found dead, dialled again.            *)
(*                                                                         *)
(* A connection has up to three kinds of goroutine that can decide to drop *)
(* it at the same time: requests whose channel could not be opened, its    *)
(* keepAlive loop and the goroutine in c.Wait().  Meanwhile another        *)
(* request may have put a new connection in its place.                     *)
(*                                                                         *)
(* Connections are numbered in the order in which they are dialled.  A     *)
(* section under l.mu is one step, except that connect keeps l.mu while    *)
(* ssh.Dial runs.  One tick of the clock is sshBackoffMin (1 s).           *)
(***************************************************************************)
EXTENDS Integers

CONSTANTS
    Requests,       \* goroutines that call Dial
    Nobody,         \* l.mu is free
    KeepaliveMax,   \* l.keepaliveMax
    Probing,        \* l.keepalive > 0
    BackoffMax,     \* sshBackoffMax, in ticks
    MaxConns        \* bound: connections dialled in a behaviour

ASSUME LinkAssumption ==
    /\ Nobody \notin Requests
    /\ KeepaliveMax \in Nat \ {0}
    /\ Probing \in BOOLEAN
    /\ BackoffMax \in Nat \ {0}
    /\ MaxConns \in Nat \ {0}

VARIABLES
    mu,         \* the request that dials under l.mu, or Nobody
    client,     \* l.client, 0 for nil
    dialed,     \* connections dialled so far
    backoff,    \* l.backoff, in ticks
    wait,       \* ticks until l.nextTry
    status,     \* of a connection: what its transport is like
    pinger,     \* where its keepAlive goroutine is
    failures,   \* local of keepAlive
    waiter,     \* where the goroutine in its Wait is
    pc,         \* where a request is in Dial
    conn,       \* local c of Dial
    refused,    \* history: the connection its first attempt failed on
    rested,     \* history: ticks since the last dial failed
    blamed      \* history: connections that gave a reason to drop them

connVars == <<status, pinger, failures, waiter, blamed>>
dialVars == <<client, dialed, backoff, wait, rested>>
requestVars == <<pc, conn, refused>>
linkVars == <<mu, dialVars, connVars, requestVars>>

Conns == 1..MaxConns
Open == {"up", "dead", "broken"}
DropStages == {"drop", "close"}
Places == {"idle", "connect", "dial", "open"} \cup DropStages

LinkTypeOK ==
    /\ mu \in Requests \cup {Nobody}
    /\ client \in 0..MaxConns
    /\ dialed \in 0..MaxConns
    /\ backoff \in 0..BackoffMax
    /\ wait \in 0..BackoffMax
    /\ status \in [Conns -> Open \cup {"none", "closed"}]
    /\ pinger \in [Conns -> {"tick", "probe", "ended"} \cup DropStages]
    /\ failures \in [Conns -> 0..KeepaliveMax]
    /\ waiter \in [Conns -> {"wait", "ended"} \cup DropStages]
    /\ pc \in [Requests -> Places]
    /\ conn \in [Requests -> 0..MaxConns]
    /\ refused \in [Requests -> 0..MaxConns]
    /\ rested \in 0..BackoffMax
    /\ blamed \in SUBSET Conns

LinkInit ==
    /\ mu = Nobody
    /\ client = 0
    /\ dialed = 0
    /\ backoff = 0
    /\ wait = 0
    /\ status = [c \in Conns |-> "none"]
    /\ pinger = [c \in Conns |-> "ended"]
    /\ failures = [c \in Conns |-> 0]
    /\ waiter = [c \in Conns |-> "ended"]
    /\ pc = [p \in Requests |-> "idle"]
    /\ conn = [p \in Requests |-> 0]
    /\ refused = [p \in Requests |-> 0]
    /\ rested = BackoffMax
    /\ blamed = {}

----------------------------------------------------------------------------
(* The network and the clock *)

Tick ==
    /\ wait > 0 \/ rested < BackoffMax
    /\ wait' = IF wait > 0 THEN wait - 1 ELSE 0
    /\ rested' = IF rested < BackoffMax THEN rested + 1 ELSE BackoffMax
    /\ UNCHANGED <<mu, client, dialed, backoff, connVars, requestVars>>

(* The peer closes the connection, or the kernel gives it up.                *)
Break(c) ==
    /\ status[c] \in {"up", "dead"}
    /\ status' = [status EXCEPT ![c] = "broken"]
    /\ blamed' = blamed \cup {c}
    /\ UNCHANGED <<mu, dialVars, pinger, failures, waiter, requestVars>>

(* A laptop that has slept: nothing arrives any more and nobody says so.     *)
Vanish(c) ==
    /\ status[c] = "up"
    /\ status' = [status EXCEPT ![c] = "dead"]
    /\ blamed' = blamed \cup {c}
    /\ UNCHANGED <<mu, dialVars, pinger, failures, waiter, requestVars>>

----------------------------------------------------------------------------
(* drop: under l.mu the connection stops being the current one if it still   *)
(* is; then it is closed.                                                    *)

(* Faults: whatever connection is current is discarded; the connection is    *)
(* closed and left in place for the goroutine in Wait to discard.            *)
ForgetAny(c) ==
    /\ mu = Nobody
    /\ client' = 0
    /\ UNCHANGED <<mu, dialed, backoff, wait, rested>>

LeaveIt(c) ==
    /\ mu = Nobody
    /\ UNCHANGED <<mu, client, dialed, backoff, wait, rested>>

Forget(c) ==
    /\ mu = Nobody
    /\ client' = IF client = c THEN 0 ELSE client
    /\ UNCHANGED <<mu, dialed, backoff, wait, rested>>

(* Fault: a connection that has been replaced already is left open.          *)
CloseCurrent(c) ==
    /\ status' = IF c = dialed THEN [status EXCEPT ![c] = "closed"] ELSE status
    /\ UNCHANGED <<failures, blamed>>

Close(c) ==
    /\ status' = [status EXCEPT ![c] = "closed"]
    /\ UNCHANGED <<failures, blamed>>

----------------------------------------------------------------------------
(* Dial *)

Goto(p, place) == pc' = [pc EXCEPT ![p] = place]

(* The channel, or the error, is handed to the caller.                       *)
DialReturns(p) ==
    /\ Goto(p, "idle")
    /\ conn' = [conn EXCEPT ![p] = 0]
    /\ refused' = [refused EXCEPT ![p] = 0]

DialBegins(p) ==
    /\ pc[p] = "idle"
    /\ Goto(p, "connect")
    /\ UNCHANGED <<mu, dialVars, connVars, conn, refused>>

(* connect: the current connection, or none yet and too early, or a dial.    *)
Connect(p) ==
    /\ pc[p] = "connect"
    /\ mu = Nobody
    /\ \/ /\ client # 0
          /\ conn' = [conn EXCEPT ![p] = client]
          /\ Goto(p, "open")
          /\ UNCHANGED <<mu, refused>>
       \/ /\ client = 0
          /\ wait > 0
          /\ DialReturns(p)
          /\ UNCHANGED mu
       \/ /\ client = 0
          /\ wait = 0
          /\ mu' = p
          /\ Goto(p, "dial")
          /\ UNCHANGED <<conn, refused>>
    /\ UNCHANGED <<dialVars, connVars>>

(* ssh.Dial has succeeded; keepAlive and Wait start.                         *)
DialSucceeds(p) ==
    /\ pc[p] = "dial"
    /\ dialed < MaxConns
    /\ LET c == dialed + 1 IN
           /\ dialed' = c
           /\ client' = c
           /\ status' = [status EXCEPT ![c] = "up"]
           /\ pinger' = [pinger EXCEPT ![c] = IF Probing THEN "tick" ELSE "ended"]
           /\ waiter' = [waiter EXCEPT ![c] = "wait"]
           /\ conn' = [conn EXCEPT ![p] = c]
    /\ backoff' = 0
    /\ mu' = Nobody
    /\ Goto(p, "open")
    /\ UNCHANGED <<wait, rested, failures, blamed, refused>>

(* Faults of a failed dial: the next try is set before the backoff grows;    *)
(* the error return forgets the lock.                                        *)
EarlyNextTry(p) ==
    /\ pc[p] = "dial"
    /\ backoff' = IF backoff = 0 THEN 1
                  ELSE IF 2 * backoff > BackoffMax THEN BackoffMax ELSE 2 * backoff
    /\ wait' = backoff
    /\ rested' = 0
    /\ mu' = Nobody
    /\ DialReturns(p)
    /\ UNCHANGED <<client, dialed, connVars>>

KeepsLock(p) ==
    /\ pc[p] = "dial"
    /\ backoff' = 1
    /\ wait' = 1
    /\ rested' = 0
    /\ DialReturns(p)
    /\ UNCHANGED <<mu, client, dialed, connVars>>

DialFails(p) ==
    /\ pc[p] = "dial"
    /\ backoff' = IF backoff = 0 THEN 1
                  ELSE IF 2 * backoff > BackoffMax THEN BackoffMax ELSE 2 * backoff
    /\ wait' = backoff'
    /\ rested' = 0
    /\ mu' = Nobody
    /\ DialReturns(p)
    /\ UNCHANGED <<client, dialed, connVars>>

(* c.Dial gives a channel.  On a dead connection it blocks until somebody    *)
(* closes that connection.                                                   *)
ChannelOpens(p) ==
    /\ pc[p] = "open"
    /\ status[conn[p]] = "up"
    /\ DialReturns(p)
    /\ UNCHANGED <<mu, dialVars, connVars>>

(* c.Dial fails: the gateway refuses the channel, or the connection is gone. *)
(* The first failure drops the connection, the second is reported.           *)
ChannelFails(p) ==
    /\ pc[p] = "open"
    /\ status[conn[p]] # "dead"
    /\ blamed' = blamed \cup {conn[p]}
    /\ IF refused[p] = 0
       THEN /\ Goto(p, "drop")
            /\ refused' = [refused EXCEPT ![p] = conn[p]]
            /\ UNCHANGED conn
       ELSE DialReturns(p)
    /\ UNCHANGED <<mu, dialVars, status, pinger, failures, waiter>>

RequestDrops(p) ==
    /\ pc[p] = "drop"
    /\ Forget(conn[p])
    /\ Goto(p, "close")
    /\ UNCHANGED <<connVars, conn, refused>>

RequestCloses(p) ==
    /\ pc[p] = "close"
    /\ Close(conn[p])
    /\ Goto(p, "connect")
    /\ UNCHANGED <<mu, dialVars, pinger, waiter, conn, refused>>

----------------------------------------------------------------------------
(* keepAlive *)

Probe(c) ==
    /\ pinger[c] = "tick"
    /\ pinger' = [pinger EXCEPT ![c] = "probe"]
    /\ UNCHANGED <<mu, dialVars, status, failures, waiter, blamed, requestVars>>

ProbeAnswered(c) ==
    /\ pinger[c] = "probe"
    /\ status[c] = "up"
    /\ pinger' = [pinger EXCEPT ![c] = "tick"]
    /\ failures' = [failures EXCEPT ![c] = 0]
    /\ UNCHANGED <<mu, dialVars, status, waiter, blamed, requestVars>>

ProbeErrs(c) ==
    /\ pinger[c] = "probe"
    /\ status[c] \in {"broken", "closed"}
    /\ pinger' = [pinger EXCEPT ![c] = "ended"]
    /\ UNCHANGED <<mu, dialVars, status, failures, waiter, blamed, requestVars>>

(* Fault: one more unanswered probe is allowed.                              *)
OneTooMany(c) ==
    /\ pinger[c] = "probe"
    /\ failures' = [failures EXCEPT ![c] = failures[c] + 1]
    /\ IF failures'[c] > KeepaliveMax
       THEN /\ pinger' = [pinger EXCEPT ![c] = "drop"]
            /\ blamed' = blamed \cup {c}
       ELSE /\ pinger' = [pinger EXCEPT ![c] = "tick"]
            /\ UNCHANGED blamed
    /\ UNCHANGED <<mu, dialVars, status, waiter, requestVars>>

(* No answer within l.keepalive: the peer is slow, or gone.                  *)
ProbeTimesOut(c) ==
    /\ pinger[c] = "probe"
    /\ failures' = [failures EXCEPT ![c] = failures[c] + 1]
    /\ IF failures'[c] >= KeepaliveMax
       THEN /\ pinger' = [pinger EXCEPT ![c] = "drop"]
            /\ blamed' = blamed \cup {c}
       ELSE /\ pinger' = [pinger EXCEPT ![c] = "tick"]
            /\ UNCHANGED blamed
    /\ UNCHANGED <<mu, dialVars, status, waiter, requestVars>>

(* Fault: the connection counts as lost, and nobody drops it.                *)
GivesUpProbing(c) ==
    /\ pinger[c] = "drop"
    /\ pinger' = [pinger EXCEPT ![c] = "ended"]
    /\ UNCHANGED <<mu, dialVars, status, failures, waiter, blamed, requestVars>>

PingerDrops(c) ==
    /\ pinger[c] = "drop"
    /\ Forget(c)
    /\ pinger' = [pinger EXCEPT ![c] = "close"]
    /\ UNCHANGED <<status, failures, waiter, blamed, requestVars>>

PingerCloses(c) ==
    /\ pinger[c] = "close"
    /\ Close(c)
    /\ pinger' = [pinger EXCEPT ![c] = "ended"]
    /\ UNCHANGED <<mu, dialVars, waiter, requestVars>>

----------------------------------------------------------------------------
(* The goroutine that connect leaves in c.Wait() *)

WaitReturns(c) ==
    /\ waiter[c] = "wait"
    /\ status[c] \in {"broken", "closed"}
    /\ waiter' = [waiter EXCEPT ![c] = "drop"]
    /\ UNCHANGED <<mu, dialVars, status, pinger, failures, blamed, requestVars>>

WaiterDrops(c) ==
    /\ waiter[c] = "drop"
    /\ Forget(c)
    /\ waiter' = [waiter EXCEPT ![c] = "close"]
    /\ UNCHANGED <<status, pinger, failures, blamed, requestVars>>

WaiterCloses(c) ==
    /\ waiter[c] = "close"
    /\ Close(c)
    /\ waiter' = [waiter EXCEPT ![c] = "ended"]
    /\ UNCHANGED <<mu, dialVars, pinger, requestVars>>

----------------------------------------------------------------------------

DialEnds(p) == DialSucceeds(p) \/ DialFails(p)
ChannelEnds(p) == ChannelOpens(p) \/ ChannelFails(p)

RequestStep(p) ==
    \/ Connect(p) \/ DialEnds(p) \/ ChannelEnds(p)
    \/ RequestDrops(p) \/ RequestCloses(p)

PingerStep(c) ==
    \/ Probe(c) \/ ProbeAnswered(c) \/ ProbeErrs(c) \/ ProbeTimesOut(c)
    \/ PingerDrops(c) \/ PingerCloses(c)

WaiterStep(c) == WaitReturns(c) \/ WaiterDrops(c) \/ WaiterCloses(c)

LinkNext ==
    \/ Tick
    \/ \E p \in Requests : DialBegins(p) \/ RequestStep(p)
    \/ \E c \in Conns :
           Break(c) \/ Vanish(c) \/ PingerStep(c) \/ WaiterStep(c)

LinkSpec == LinkInit /\ [][LinkNext]_linkVars

(* Every goroutine is scheduled, no mutex starves who waits for it, time     *)
(* passes, and ssh.Dial ends: sshDialTimeout bounds its TCP part, nothing in *)
(* the code bounds the handshake.                                            *)
LinkFairSpec ==
    /\ LinkSpec
    /\ WF_linkVars(Tick)
    /\ \A p \in Requests :
           /\ WF_linkVars(RequestStep(p))
           /\ SF_linkVars(Connect(p))
           /\ SF_linkVars(RequestDrops(p))
    /\ \A c \in Conns :
           /\ WF_linkVars(PingerStep(c)) /\ SF_linkVars(PingerDrops(c))
           /\ WF_linkVars(WaiterStep(c)) /\ SF_linkVars(WaiterDrops(c))

----------------------------------------------------------------------------
(* Properties *)

(* No connection leaks: one that is open is the current one, or a goroutine  *)
(* that has just replaced it is about to close it.                           *)
NoConnectionLeaks ==
    \A c \in Conns :
        status[c] \in Open /\ c # client =>
            \/ pinger[c] = "close" \/ waiter[c] = "close"
            \/ \E p \in Requests : pc[p] = "close" /\ conn[p] = c

(* A late drop of an old connection never takes the new one with it: the     *)
(* current connection is given up only if it gave a reason itself.           *)
NewConnectionIsSpared ==
    [][client # 0 /\ client' # client => client \in blamed]_linkVars

(* The second attempt of a Dial never goes to the connection on which the    *)
(* first has failed: drop, and not the goroutine in Wait, has removed it.    *)
RetryIsFresh ==
    \A p \in Requests :
        pc[p] = "open" /\ refused[p] # 0 => conn[p] # refused[p]

(* After a failed dial nobody dials before the backoff has passed, however   *)
(* many requests come in and whether it is their first or second attempt.    *)
DialsAreSpaced ==
    [][\A p \in Requests :
          pc[p] = "connect" /\ pc'[p] = "dial" => rested >= backoff]_linkVars

(* If every handshake ends, every Dial returns: on a connection that is dead *)
(* without anybody saying so, thanks to keepAlive.                           *)
EveryDialReturns == \A p \in Requests : pc[p] # "idle" ~> pc[p] = "idle"

(* A connection that has died is closed and both of its goroutines end.      *)
DeadConnectionsAreCollected ==
    \A c \in Conns :
        status[c] = "dead" ~>
            status[c] = "closed" /\ pinger[c] = "ended" /\ waiter[c] = "ended"
=============================================================================
