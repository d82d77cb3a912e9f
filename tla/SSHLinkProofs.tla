--------------------------- MODULE SSHLinkProofs ---------------------------
(***************************************************************************)
(* Proofs about SSHLink.  The inductive invariant adds to the types: who   *)
(* holds l.mu; that the current connection is the newest one and was not   *)
(* closed; that whoever is past the locked part of drop has a connection   *)
(* that is not the current one; that a dropped connection gave a reason;   *)
(* and that the time until nextTry and the time rested since the last      *)
(* failure always make up the backoff.                                     *)
(***************************************************************************)
EXTENDS SSHLink, TLAPS

MuInv ==
    /\ \A p \in Requests : pc[p] = "dial" <=> mu = p
    /\ mu # Nobody => client = 0

ConnInv ==
    /\ client \in {0, dialed}
    /\ client # 0 => status[client] # "closed"
    /\ \A c \in Conns : status[c] = "none" <=> c > dialed
    /\ \A c \in Conns : status[c] \in {"dead", "broken", "closed"} => c \in blamed

DropInv ==
    /\ \A c \in Conns :
           /\ pinger[c] # "ended" => c <= dialed
           /\ c > dialed => failures[c] = 0
           /\ pinger[c] \in {"tick", "probe"} => failures[c] < KeepaliveMax
           /\ pinger[c] \in DropStages => c \in blamed
           /\ pinger[c] = "close" => c # client
           /\ waiter[c] # "ended" => c <= dialed
           /\ waiter[c] \in DropStages => c \in blamed
           /\ waiter[c] = "close" => c # client
    /\ \A p \in Requests :
           /\ pc[p] \in {"open"} \cup DropStages => conn[p] \in 1..dialed
           /\ pc[p] \in DropStages => conn[p] \in blamed /\ refused[p] = conn[p]
           /\ refused[p] <= dialed
           /\ refused[p] # 0 /\ pc[p] # "drop" => refused[p] # client
           /\ pc[p] = "idle" => refused[p] = 0

BackoffInv == wait + rested >= backoff

LinkInv ==
    /\ LinkTypeOK
    /\ MuInv
    /\ ConnInv
    /\ DropInv
    /\ NoConnectionLeaks
    /\ RetryIsFresh
    /\ BackoffInv

USE DEF Conns, Open, DropStages

(* The initial state has no connection and nobody in Dial.                   *)
LEMMA LinkInitInv == LinkInit => LinkInv
  BY LinkAssumption
     DEF Places, LinkInit, LinkInv, LinkTypeOK, MuInv, ConnInv, DropInv, NoConnectionLeaks,
         RetryIsFresh, BackoffInv

(* The locals of Dial keep their types when it returns and when it goes on.  *)
LEMMA PlaceTypes ==
  ASSUME LinkTypeOK, NEW p \in Requests
  PROVE  /\ DialReturns(p) =>
                /\ pc' \in [Requests -> Places]
                /\ conn' \in [Requests -> 0..MaxConns]
                /\ refused' \in [Requests -> 0..MaxConns]
         /\ \A place \in Places : Goto(p, place) => pc' \in [Requests -> Places]
         /\ {"idle", "connect", "dial", "open"} \cup DropStages \subseteq Places
<1>1. {"idle", "connect", "dial", "open"} \cup DropStages \subseteq Places
  BY DEF Places
<1>2. \A place \in Places : Goto(p, place) => pc' \in [Requests -> Places]
  BY DEF LinkTypeOK, Goto
<1>3. 0 \in 0..MaxConns
  BY LinkAssumption
<1>4. DialReturns(p) =>
          conn' \in [Requests -> 0..MaxConns] /\ refused' \in [Requests -> 0..MaxConns]
  BY <1>3 DEF LinkTypeOK, DialReturns
<1>5. QED
  BY <1>1, <1>2, <1>4 DEF DialReturns

(* A step that moves no connection, no keepAlive and no Wait, and nobody out *)
(* of drop, leaks nothing.                                                   *)
LEMMA NoLeakFrame ==
  ASSUME NoConnectionLeaks,
         UNCHANGED <<status, client, pinger, waiter>>,
         \A q \in Requests : pc[q] = "close" => pc'[q] = "close" /\ conn'[q] = conn[q]
  PROVE  NoConnectionLeaks'
  BY DEF NoConnectionLeaks

(* connect under the lock, in its three outcomes.                            *)
LEMMA ConnectInv ==
  ASSUME LinkInv, NEW p \in Requests, Connect(p)
  PROVE  LinkInv'
<1>1. NoConnectionLeaks'
  <2>1. \A q \in Requests : pc[q] = "close" => pc'[q] = "close" /\ conn'[q] = conn[q]
    BY DEF LinkInv, LinkTypeOK, Connect, Goto, DialReturns
  <2>2. QED
    BY <2>1, NoLeakFrame DEF LinkInv, Connect, dialVars, connVars
<1>2. LinkTypeOK'
  <2>1. LinkTypeOK
    BY DEF LinkInv
  <2>2. pc' \in [Requests -> Places]
    BY <2>1, PlaceTypes DEF Connect
  <2>3. conn' \in [Requests -> 0..MaxConns] /\ refused' \in [Requests -> 0..MaxConns]
    BY <2>1, PlaceTypes DEF Connect, LinkTypeOK
  <2>4. mu' \in Requests \cup {Nobody}
    BY <2>1 DEF Connect, LinkTypeOK
  <2>5. QED
    BY <2>1, <2>2, <2>3, <2>4 DEF Connect, LinkTypeOK, dialVars, connVars
<1>3. MuInv'
  BY LinkAssumption
     DEF LinkInv, LinkTypeOK, MuInv, Connect, Goto, DialReturns, dialVars
<1>4. ConnInv' /\ BackoffInv'
  BY DEF LinkInv, ConnInv, BackoffInv, Connect, dialVars, connVars
<1>5. DropInv'
  <2>1. CASE client # 0
    BY <2>1 DEF LinkInv, LinkTypeOK, ConnInv, DropInv, Connect, Goto, dialVars, connVars
  <2>2. CASE client = 0
    BY <2>2
       DEF LinkInv, LinkTypeOK, DropInv, Connect, Goto, DialReturns, dialVars, connVars
  <2>3. QED
    BY <2>1, <2>2
<1>6. RetryIsFresh'
  BY DEF LinkInv, LinkTypeOK, DropInv, RetryIsFresh, Connect, Goto, DialReturns
<1>7. QED
  BY <1>1, <1>2, <1>3, <1>4, <1>5, <1>6 DEF LinkInv

(* A channel that cannot be opened, on the first and on the second attempt.  *)
LEMMA ChannelFailsInv ==
  ASSUME LinkInv, NEW p \in Requests, ChannelFails(p)
  PROVE  LinkInv'
<1>1. NoConnectionLeaks'
  <2>1. \A q \in Requests : pc[q] = "close" => pc'[q] = "close" /\ conn'[q] = conn[q]
    BY DEF LinkInv, LinkTypeOK, ChannelFails, Goto, DialReturns
  <2>2. QED
    BY <2>1, NoLeakFrame DEF LinkInv, ChannelFails, dialVars
<1>2. conn[p] \in Conns /\ conn[p] <= dialed
  BY DEF LinkInv, LinkTypeOK, DropInv, ChannelFails
<1>3. LinkTypeOK'
  <2>1. blamed' \in SUBSET Conns
    BY <1>2 DEF LinkInv, LinkTypeOK, ChannelFails
  <2>2. LinkTypeOK
    BY DEF LinkInv
  <2>3. pc' \in [Requests -> Places]
    BY <2>2, PlaceTypes DEF ChannelFails
  <2>4. conn' \in [Requests -> 0..MaxConns] /\ refused' \in [Requests -> 0..MaxConns]
    BY <1>2, <2>2, PlaceTypes DEF ChannelFails, LinkTypeOK
  <2>5. QED
    BY <2>1, <2>2, <2>3, <2>4 DEF LinkTypeOK, ChannelFails, dialVars
<1>4. MuInv'
  BY DEF LinkInv, LinkTypeOK, MuInv, ChannelFails, Goto, DialReturns, dialVars
<1>5. ConnInv' /\ BackoffInv'
  BY DEF LinkInv, ConnInv, BackoffInv, ChannelFails, dialVars
<1>6. DropInv'
  <2>1. CASE refused[p] = 0
    <3>1. /\ pc' = [pc EXCEPT ![p] = "drop"] /\ UNCHANGED conn
          /\ refused' = [refused EXCEPT ![p] = conn[p]]
          /\ blamed' = blamed \cup {conn[p]}
          /\ UNCHANGED <<client, dialed, pinger, failures, waiter>>
      BY <2>1 DEF ChannelFails, Goto, dialVars
    <3>2. LinkTypeOK /\ DropInv
      BY DEF LinkInv
    <3>3. pc'[p] = "drop" /\ refused'[p] = conn[p] /\ conn'[p] = conn[p]
      BY <3>1, <3>2 DEF LinkTypeOK
    <3>4. \A q \in Requests \ {p} : pc'[q] = pc[q] /\ refused'[q] = refused[q]
      BY <3>1, <3>2 DEF LinkTypeOK
    <3>5. QED
      BY <1>2, <3>1, <3>2, <3>3, <3>4 DEF LinkTypeOK, DropInv
  <2>2. CASE refused[p] # 0
    BY <1>2, <2>2
       DEF LinkInv, LinkTypeOK, DropInv, ChannelFails, Goto, DialReturns, dialVars
  <2>3. QED
    BY <2>1, <2>2
<1>7. RetryIsFresh'
  BY DEF LinkInv, LinkTypeOK, RetryIsFresh, ChannelFails, Goto, DialReturns
<1>8. QED
  BY <1>1, <1>3, <1>4, <1>5, <1>6, <1>7 DEF LinkInv

(* A probe without an answer, which may be the last one allowed.             *)
LEMMA TimeoutInv ==
  ASSUME LinkInv, NEW c \in Conns, ProbeTimesOut(c)
  PROVE  LinkInv'
<1>1. failures[c] + 1 \in 0..KeepaliveMax /\ c <= dialed
  BY LinkAssumption DEF LinkInv, LinkTypeOK, DropInv, ProbeTimesOut
<1>2. failures'[c] = failures[c] + 1
  BY DEF LinkInv, LinkTypeOK, ProbeTimesOut
<1>3. NoConnectionLeaks'
  <2>1. \A d \in Conns : pinger[d] = "close" => pinger'[d] = "close"
    BY DEF LinkInv, LinkTypeOK, ProbeTimesOut
  <2>2. UNCHANGED <<status, client, waiter, pc, conn>>
    BY DEF ProbeTimesOut, dialVars, requestVars
  <2>3. QED
    BY <2>1, <2>2 DEF LinkInv, NoConnectionLeaks
<1>4. LinkTypeOK'
  BY <1>1 DEF LinkInv, LinkTypeOK, ProbeTimesOut, dialVars, requestVars
<1>5. MuInv' /\ RetryIsFresh'
  BY DEF LinkInv, MuInv, RetryIsFresh, ProbeTimesOut, dialVars, requestVars
<1>6. ConnInv' /\ BackoffInv'
  BY DEF LinkInv, ConnInv, BackoffInv, ProbeTimesOut, dialVars
<1>7. DropInv'
  BY <1>1, <1>2, LinkAssumption
     DEF LinkInv, LinkTypeOK, DropInv, ProbeTimesOut, dialVars, requestVars
<1>8. QED
  BY <1>3, <1>4, <1>5, <1>6, <1>7 DEF LinkInv

(* Every step of a request keeps the invariant.                              *)
LEMMA RequestStepInv ==
  ASSUME LinkInv, NEW p \in Requests, DialBegins(p) \/ RequestStep(p)
  PROVE  LinkInv'
<1> USE LinkAssumption
        DEF LinkInv, LinkTypeOK, MuInv, ConnInv, DropInv, NoConnectionLeaks, RetryIsFresh,
            BackoffInv, Places, Goto, connVars, dialVars
<1>1. CASE DialBegins(p)
  BY <1>1 DEF DialBegins
<1>2. CASE Connect(p)
  BY <1>2, ConnectInv
<1>3. CASE DialSucceeds(p)
  <2>1. client = 0 /\ mu = p /\ dialed + 1 \in Conns
    BY <1>3 DEF DialSucceeds
  <2>2. NoConnectionLeaks'
    BY <1>3, <2>1 DEF DialSucceeds
  <2>3. LinkTypeOK'
    BY <1>3, <2>1 DEF DialSucceeds
  <2>4. MuInv' /\ ConnInv' /\ BackoffInv'
    BY <1>3, <2>1 DEF DialSucceeds
  <2>5. DropInv' /\ RetryIsFresh'
    BY <1>3, <2>1 DEF DialSucceeds
  <2>6. QED
    BY <2>2, <2>3, <2>4, <2>5
<1>4. CASE DialFails(p)
  BY <1>4 DEF DialFails, DialReturns
<1>5. CASE ChannelOpens(p)
  BY <1>5 DEF ChannelOpens, DialReturns
<1>6. CASE ChannelFails(p)
  BY <1>6, ChannelFailsInv
<1>7. CASE RequestDrops(p)
  BY <1>7 DEF RequestDrops, Forget
<1>8. CASE RequestCloses(p)
  BY <1>8 DEF RequestCloses, Close
<1>9. QED
  BY <1>1, <1>2, <1>3, <1>4, <1>5, <1>6, <1>7, <1>8
     DEF RequestStep, DialEnds, ChannelEnds

(* Every step of a connection, of its keepAlive and of its Wait keeps it.    *)
LEMMA ConnStepInv ==
  ASSUME LinkInv, NEW c \in Conns,
         Break(c) \/ Vanish(c) \/ PingerStep(c) \/ WaiterStep(c)
  PROVE  LinkInv'
<1> USE LinkAssumption
        DEF LinkInv, LinkTypeOK, MuInv, ConnInv, DropInv, NoConnectionLeaks, RetryIsFresh,
            BackoffInv, dialVars, requestVars
<1>1. CASE Break(c)
  BY <1>1 DEF Break
<1>2. CASE Vanish(c)
  BY <1>2 DEF Vanish
<1>3. CASE Probe(c)
  BY <1>3 DEF Probe
<1>4. CASE ProbeAnswered(c)
  BY <1>4 DEF ProbeAnswered
<1>5. CASE ProbeErrs(c)
  BY <1>5 DEF ProbeErrs
<1>6. CASE ProbeTimesOut(c)
  BY <1>6, TimeoutInv
<1>7. CASE PingerDrops(c)
  BY <1>7 DEF PingerDrops, Forget
<1>8. CASE PingerCloses(c)
  BY <1>8 DEF PingerCloses, Close
<1>9. CASE WaitReturns(c)
  BY <1>9 DEF WaitReturns
<1>10. CASE WaiterDrops(c)
  BY <1>10 DEF WaiterDrops, Forget
<1>11. CASE WaiterCloses(c)
  BY <1>11 DEF WaiterCloses, Close
<1>12. QED
  BY <1>1, <1>2, <1>3, <1>4, <1>5, <1>6, <1>7, <1>8, <1>9, <1>10, <1>11
     DEF PingerStep, WaiterStep

(* Every step keeps it.                                                      *)
LEMMA LinkNextInv == LinkInv /\ [LinkNext]_linkVars => LinkInv'
<1> SUFFICES ASSUME LinkInv, [LinkNext]_linkVars PROVE LinkInv'
  OBVIOUS
<1>1. CASE Tick
  BY <1>1, LinkAssumption
     DEF Tick, connVars, requestVars, LinkInv, LinkTypeOK, MuInv, ConnInv, DropInv,
         NoConnectionLeaks, RetryIsFresh, BackoffInv
<1>2. CASE UNCHANGED linkVars
  BY <1>2
     DEF linkVars, connVars, dialVars, requestVars, LinkInv, LinkTypeOK, MuInv, ConnInv,
         DropInv, NoConnectionLeaks, RetryIsFresh, BackoffInv
<1>3. QED
  BY <1>1, <1>2, RequestStepInv, ConnStepInv DEF LinkNext

(* What every reachable state of the device's link satisfies.                *)
THEOREM LinkInvariant == LinkSpec => []LinkInv
  BY LinkInitInv, LinkNextInv, PTL DEF LinkSpec

(* The types of sshLink's fields and of the goroutines' locals.              *)
THEOREM LinkTypeCorrect == LinkSpec => []LinkTypeOK
<1>1. LinkInv => LinkTypeOK
  BY DEF LinkInv
<1>2. QED
  BY <1>1, LinkInvariant, PTL

(* drop, in whatever order the goroutines run it, leaves no connection open. *)
THEOREM NothingLeaks == LinkSpec => []NoConnectionLeaks
<1>1. LinkInv => NoConnectionLeaks
  BY DEF LinkInv
<1>2. QED
  BY <1>1, LinkInvariant, PTL

(* The second attempt of a Dial never meets the connection of the first.     *)
THEOREM RetriesAreFresh == LinkSpec => []RetryIsFresh
<1>1. LinkInv => RetryIsFresh
  BY DEF LinkInv
<1>2. QED
  BY <1>1, LinkInvariant, PTL

(* No drop of an old connection discards the one that has replaced it.       *)
THEOREM NewConnectionsAreSpared == LinkSpec => NewConnectionIsSpared
<1>1. ASSUME LinkInv, [LinkNext]_linkVars
      PROVE  [client # 0 /\ client' # client => client \in blamed]_linkVars
  <2>1. CASE UNCHANGED linkVars
    BY <2>1
  <2>2. CASE Tick
    BY <2>2 DEF Tick
  <2>3. ASSUME NEW p \in Requests, DialBegins(p) \/ RequestStep(p)
        PROVE  client # 0 /\ client' # client => client \in blamed
    BY <1>1, <2>3, LinkAssumption
       DEF LinkInv, MuInv, DropInv, RequestStep, DialEnds, ChannelEnds, DialBegins, Connect,
           DialSucceeds, DialFails, ChannelOpens, ChannelFails, RequestDrops,
           RequestCloses, Forget, dialVars
  <2>4. ASSUME NEW c \in Conns, Break(c) \/ Vanish(c) \/ PingerStep(c) \/ WaiterStep(c)
        PROVE  client # 0 /\ client' # client => client \in blamed
    BY <1>1, <2>4
       DEF LinkInv, DropInv, PingerStep, WaiterStep, Break, Vanish, Probe, ProbeAnswered,
           ProbeErrs, ProbeTimesOut, PingerDrops, PingerCloses, WaitReturns,
           WaiterDrops, WaiterCloses, Forget, dialVars
  <2>5. QED
    BY <1>1, <2>1, <2>2, <2>3, <2>4 DEF LinkNext
<1>2. QED
  BY <1>1, LinkInvariant, PTL DEF LinkSpec, NewConnectionIsSpared

(* The backoff holds for every request and every attempt.                    *)
THEOREM BackoffIsKept == LinkSpec => DialsAreSpaced
<1>1. ASSUME LinkInv, [LinkNext]_linkVars
      PROVE  [\A p \in Requests :
                 pc[p] = "connect" /\ pc'[p] = "dial" => rested >= backoff]_linkVars
  <2> SUFFICES ASSUME LinkNext, NEW p \in Requests, pc[p] = "connect", pc'[p] = "dial"
               PROVE  rested >= backoff
    BY <1>1
  <2>1. pc' # pc
    OBVIOUS
  <2>2. PICK q \in Requests : DialBegins(q) \/ RequestStep(q)
    BY <2>1
       DEF LinkNext, Tick, PingerStep, WaiterStep, Break, Vanish, Probe, ProbeAnswered,
           ProbeErrs, ProbeTimesOut, PingerDrops, PingerCloses, WaitReturns,
           WaiterDrops, WaiterCloses, requestVars
  <2>3. wait = 0
    BY <1>1, <2>2
       DEF LinkInv, LinkTypeOK, RequestStep, DialEnds, ChannelEnds, DialBegins, Connect,
           DialSucceeds, DialFails, ChannelOpens, ChannelFails, RequestDrops,
           RequestCloses, DialReturns, Goto
  <2>4. QED
    BY <1>1, <2>3 DEF LinkInv, LinkTypeOK, BackoffInv
<1>2. QED
  BY <1>1, LinkInvariant, PTL DEF LinkSpec, DialsAreSpaced
=============================================================================
