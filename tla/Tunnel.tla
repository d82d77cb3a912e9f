------------------------------- MODULE Tunnel -------------------------------
(***************************************************************************)
(* One connection on its way through the device's proxy and the gateway:   *)
(* src/device.go (handle, connect, pipe), src/sshfwd.go (acceptForward,    *)
(* serveTunnelConn, channelListener) and src/proxy.go (handleConnect,      *)
(* relay).                                                                 *)
(*                                                                         *)
(*    client ==c2d=> device ==d2g=> gateway ==g2t=> target                 *)
(*           <=d2c==        <=g2d==         <=t2g==                        *)
(*                                                                         *)
(* The links are TCP, an SSH channel, TCP.  In the gateway the connection  *)
(* may end instead in the HTTP server, with or without TLS.  A host that   *)
(* is not the gateway's goes from the device to the target.  A client can  *)
(* also speak on an SSH channel of its own, without the device's proxy.    *)
(*                                                                         *)
(* Bytes travel in pieces: those of the opening that the gateway tells     *)
(* apart (first byte, "CONNECT ", rest of the head) and of what follows.   *)
(* A read returns any number of the pieces that have arrived.  A reader of *)
(* a closed link may or may not still get what was under way.              *)
(***************************************************************************)
EXTENDS Routing, Integers, Sequences, SequencesExt

CONSTANTS
    Forms,      \* how the client opens
    ChosenHosts,\* hosts it may ask for
    Window      \* pieces under way on a link before a writer blocks

ASSUME TunnelAssumption ==
    /\ Forms \subseteq {"proxied", "connect", "tls", "plain"}
    /\ ChosenHosts \subseteq Hosts
    /\ Window \in Nat \ {0}

VARIABLES
    form,       \* how this client opens: "proxied" is through the device's proxy
    host,       \* the host it names
    unsent,     \* client: what it has still to send
    fin,        \* client: it has shut down its sending side
    seen,       \* client: what it has received
    dev,        \* where the device's goroutine is
    devBuf,     \* its bufio.Reader
    gw,         \* where serveTunnelConn is
    gwBuf,      \* its bufio.Reader, later the head replayBuffered puts back
    guard,      \* the peekTimeout timer
    endpoint,   \* who gets the bytes: the HTTP server (tls, http) or the target
    out,        \* what the endpoint has received
    answered,   \* the endpoint has sent its reply
    flow,       \* pieces under way, per direction of a link
    links,      \* links that have been opened
    closed,     \* links that have been closed
    copier,     \* the goroutines of pipe and relay
    listening   \* the channelListener is open

streamVars == <<flow, links, closed, copier>>
clientVars == <<unsent, fin, seen>>
deviceVars == <<dev, devBuf>>
gatewayVars == <<gw, gwBuf, guard, listening>>
endpointVars == <<endpoint, out, answered>>
tunnelVars == <<form, host, clientVars, deviceVars, gatewayVars, endpointVars, streamVars>>

Links == {"client", "channel", "target"}
Streams == {"c2d", "d2g", "g2t", "t2g", "g2d", "d2c"}
DeviceCopiers == {"devUp", "devDown"}
GatewayCopiers == {"gwUp", "gwDown"}
Copiers == DeviceCopiers \cup GatewayCopiers

Head3 == <<"C", "ONNECT", "head">>
Payload == IF form = "plain" THEN <<"G", "ET">> ELSE <<"hello", "data">>
Wire == IF form \in {"proxied", "connect"} THEN Head3 \o Payload ELSE Payload
Pieces == {"C", "ONNECT", "head", "G", "ET", "hello", "data"}
Unnamed == [name |-> "other", lower |-> TRUE]
Answers == {"200", "403", "502", "reply"}

Proxied == form = "proxied"
Direct == Proxied /\ ~ViaGateway(host)

LinkOf(s) == CASE s \in {"c2d", "d2c"} -> "client"
               [] s \in {"d2g", "g2d"} -> "channel"
               [] s \in {"g2t", "t2g"} -> "target"

(* The client's own ends: of the TCP connection or of the SSH channel.       *)
ClientUp == IF Proxied THEN "c2d" ELSE "d2g"
ClientDown == IF Proxied THEN "d2c" ELSE "g2d"

From(k) == CASE k = "devUp" -> "c2d"
             [] k = "devDown" -> IF Direct THEN "t2g" ELSE "g2d"
             [] k = "gwUp" -> "d2g"
             [] k = "gwDown" -> "t2g"
To(k) == CASE k = "devUp" -> IF Direct THEN "g2t" ELSE "d2g"
           [] k = "devDown" -> "d2c"
           [] k = "gwUp" -> "g2t"
           [] k = "gwDown" -> "g2d"

TunnelTypeOK ==
    /\ form \in Forms /\ host \in ChosenHosts \cup {Unnamed}
    /\ unsent \in Seq(Pieces) /\ fin \in BOOLEAN /\ seen \in Seq(Answers)
    /\ dev \in {"none", "read", "dial", "pipe", "ended"}
    /\ gw \in {"none", "peek1", "peek8", "request", "connect", "push", "dial",
               "relay", "served", "ended"}
    /\ devBuf \in Seq(Pieces) /\ gwBuf \in Seq(Pieces)
    /\ guard \in {"off", "armed", "stopped", "fired"}
    /\ endpoint \in {"none", "tls", "http", "target"}
    /\ out \in Seq(Pieces) /\ answered \in BOOLEAN
    /\ flow \in [Streams -> Seq(Pieces \cup Answers)]
    /\ closed \subseteq links /\ links \subseteq Links
    /\ copier \in [Copiers -> {"none", "run", "done"}]
    /\ listening \in BOOLEAN

TunnelInit ==
    /\ form \in Forms
    /\ host \in IF form \in {"tls", "plain"} THEN {Unnamed} ELSE ChosenHosts
    /\ unsent = Wire
    /\ fin = FALSE
    /\ seen = <<>>
    /\ dev = IF Proxied THEN "read" ELSE "none"
    /\ devBuf = <<>>
    /\ gw = IF Proxied THEN "none" ELSE "peek1"
    /\ gwBuf = <<>>
    /\ guard = IF Proxied THEN "off" ELSE "armed"
    /\ endpoint = "none"
    /\ out = <<>>
    /\ answered = FALSE
    /\ flow = [s \in Streams |-> <<>>]
    /\ links = IF Proxied THEN {"client"} ELSE {"channel"}
    /\ closed = {}
    /\ copier = [k \in Copiers |-> "none"]
    /\ listening = TRUE

----------------------------------------------------------------------------
(* Streams *)

IsOpen(l) == l \in links \ closed
Room(s) == Len(flow[s]) < Window

(* A reader of s finds the end: the link is closed, or the client has shut   *)
(* down its sending side and everything has been read.                       *)
AtEnd(s) ==
    \/ LinkOf(s) \in closed
    \/ s = ClientUp /\ fin /\ flow[s] = <<>>

(* The goroutine that waits for a request or a prefix reads what is there.   *)
Fill(s, n) == flow' = [flow EXCEPT ![s] = SubSeq(flow[s], n + 1, Len(flow[s]))]

----------------------------------------------------------------------------
(* The client, and what can happen to the links *)

ClientSends ==
    /\ unsent # <<>>
    /\ IsOpen(LinkOf(ClientUp))
    /\ Room(ClientUp)
    /\ flow' = [flow EXCEPT ![ClientUp] = Append(@, Head(unsent))]
    /\ unsent' = Tail(unsent)
    /\ UNCHANGED <<form, host, fin, seen, deviceVars, gatewayVars, endpointVars,
                   links, closed, copier>>

ClientFinishes ==
    /\ unsent = <<>>
    /\ ~fin
    /\ fin' = TRUE
    /\ UNCHANGED <<form, host, unsent, seen, deviceVars, gatewayVars, endpointVars,
                   streamVars>>

ClientReceives ==
    /\ flow[ClientDown] # <<>>
    /\ seen' = Append(seen, Head(flow[ClientDown]))
    /\ flow' = [flow EXCEPT ![ClientDown] = Tail(@)]
    /\ UNCHANGED <<form, host, unsent, fin, deviceVars, gatewayVars, endpointVars,
                   links, closed, copier>>

(* The client leaves, the SSH connection dies, the target closes.  That the  *)
(* local reader of a closed link then finds the end is what net.Conn says    *)
(* and, for a channel, an assumption about x/crypto/ssh, where the peer has  *)
(* to answer the close or the connection under it to end.                    *)
LinkCloses(l) ==
    /\ IsOpen(l)
    /\ closed' = closed \cup {l}
    /\ UNCHANGED <<form, host, clientVars, deviceVars, gatewayVars, endpointVars,
                   flow, links, copier>>

TargetReads ==
    /\ endpoint = "target"
    /\ flow["g2t"] # <<>>
    /\ out' = Append(out, Head(flow["g2t"]))
    /\ flow' = [flow EXCEPT !["g2t"] = Tail(@)]
    /\ UNCHANGED <<form, host, clientVars, deviceVars, gatewayVars, endpoint, answered,
                   links, closed, copier>>

TargetReplies ==
    /\ endpoint = "target"
    /\ ~answered
    /\ IsOpen("target")
    /\ answered' = TRUE
    /\ flow' = [flow EXCEPT !["t2g"] = Append(@, "reply")]
    /\ UNCHANGED <<form, host, clientVars, deviceVars, gatewayVars, endpoint, out,
                   links, closed, copier>>

----------------------------------------------------------------------------
(* io.Copy, in pipe and in relay *)

BufferOf(k) == CASE k = "devUp" -> devBuf
                 [] k = "gwUp" -> gwBuf
                 [] OTHER -> <<>>

(* One read and one write.  What was buffered comes first.  The write        *)
(* blocks while the window is full and fails on a closed link; one that TCP  *)
(* still takes and loses is one that was made just before the link closed.   *)
Copies(k) ==
    LET fromBuffer == BufferOf(k) # <<>>
        piece == IF fromBuffer THEN Head(BufferOf(k)) ELSE Head(flow[From(k)])
        rest == IF fromBuffer THEN flow
                ELSE [flow EXCEPT ![From(k)] = Tail(@)]
    IN  /\ copier[k] = "run"
        /\ fromBuffer \/ flow[From(k)] # <<>>
        /\ \/ /\ LinkOf(To(k)) \in closed
              /\ copier' = [copier EXCEPT ![k] = "done"]
              /\ flow' = rest
           \/ /\ LinkOf(To(k)) \notin closed
              /\ Room(To(k))
              /\ flow' = [rest EXCEPT ![To(k)] = Append(@, piece)]
              /\ UNCHANGED copier
        /\ devBuf' = IF k = "devUp" /\ fromBuffer THEN Tail(devBuf) ELSE devBuf
        /\ gwBuf' = IF k = "gwUp" /\ fromBuffer THEN Tail(gwBuf) ELSE gwBuf
        /\ UNCHANGED <<form, host, clientVars, dev, gw, guard, listening, endpointVars,
                       links, closed>>

CopyEnds(k) ==
    /\ copier[k] = "run"
    /\ BufferOf(k) = <<>>
    /\ AtEnd(From(k))
    /\ copier' = [copier EXCEPT ![k] = "done"]
    /\ UNCHANGED <<form, host, clientVars, deviceVars, gatewayVars, endpointVars,
                   flow, links, closed>>

StartCopying(ks) == copier' = [k \in Copiers |-> IF k \in ks THEN "run" ELSE copier[k]]

----------------------------------------------------------------------------
(* The device's proxy: handle, connect, pipe *)

DeviceReads(n) ==
    /\ dev = "read"
    /\ Len(devBuf) < Len(Head3)
    /\ n \in 1..Len(flow["c2d"])
    /\ devBuf' = devBuf \o SubSeq(flow["c2d"], 1, n)
    /\ Fill("c2d", n)
    /\ UNCHANGED <<form, host, clientVars, dev, gatewayVars, endpointVars,
                   links, closed, copier>>

DeviceHasRequest ==
    /\ dev = "read"
    /\ Len(devBuf) >= Len(Head3)
    /\ devBuf' = SubSeq(devBuf, Len(Head3) + 1, Len(devBuf))
    /\ dev' = "dial"
    /\ UNCHANGED <<form, host, clientVars, gatewayVars, endpointVars, streamVars>>

DeviceReadFails ==
    /\ dev = "read"
    /\ Len(devBuf) < Len(Head3)
    /\ AtEnd("c2d")
    /\ dev' = "ended"
    /\ closed' = closed \cup {"client"}
    /\ UNCHANGED <<form, host, clientVars, devBuf, gatewayVars, endpointVars,
                   flow, links, copier>>

(* Fault: the device answers the client itself on both routes.               *)
DeviceAnswersToo ==
    /\ dev = "dial"
    /\ ~Direct
    /\ links' = links \cup {"channel"}
    /\ flow' = [flow EXCEPT !["d2g"] = Head3, !["d2c"] = Append(@, "200")]
    /\ StartCopying(DeviceCopiers)
    /\ dev' = "pipe"
    /\ gw' = "peek1"
    /\ guard' = "armed"
    /\ UNCHANGED <<form, host, clientVars, devBuf, gwBuf, listening, endpointVars, closed>>

(* A host of the gateway: Dial opens a channel, the gateway accepts it and   *)
(* starts to peek; the CONNECT is written again.  The gateway answers it.    *)
DeviceTunnels ==
    /\ dev = "dial"
    /\ ~Direct
    /\ links' = links \cup {"channel"}
    /\ flow' = [flow EXCEPT !["d2g"] = Head3]
    /\ StartCopying(DeviceCopiers)
    /\ dev' = "pipe"
    /\ gw' = "peek1"
    /\ guard' = "armed"
    /\ UNCHANGED <<form, host, clientVars, devBuf, gwBuf, listening, endpointVars, closed>>

(* Any other host: the device dials it and answers the client itself.  TCP   *)
(* takes the 200 for a client that has just gone, too; it is then like one   *)
(* on its way when the link closed, which the client may read or not.        *)
DeviceDials ==
    /\ dev = "dial"
    /\ Direct
    /\ links' = links \cup {"target"}
    /\ flow' = [flow EXCEPT !["d2c"] = Append(@, "200")]
    /\ StartCopying(DeviceCopiers)
    /\ endpoint' = "target"
    /\ dev' = "pipe"
    /\ UNCHANGED <<form, host, clientVars, devBuf, gatewayVars, out, answered, closed>>

(* Neither a channel nor the target, or the client has gone.                 *)
DeviceDialFails ==
    /\ dev = "dial"
    /\ flow' = IF IsOpen("client") THEN [flow EXCEPT !["d2c"] = Append(@, "502")] ELSE flow
    /\ closed' = closed \cup {"client"}
    /\ dev' = "ended"
    /\ UNCHANGED <<form, host, clientVars, devBuf, gatewayVars, endpointVars, links, copier>>

(* Fault: the channel stays open, with the CONNECT on it.                    *)
DeviceLeavesChannel ==
    /\ dev = "dial"
    /\ ~Direct
    /\ links' = links \cup {"channel"}
    /\ flow' = IF IsOpen("client") THEN [flow EXCEPT !["d2c"] = Append(@, "502"), !["d2g"] = Head3]
               ELSE [flow EXCEPT !["d2g"] = Head3]
    /\ closed' = closed \cup {"client"}
    /\ dev' = "ended"
    /\ gw' = "peek1"
    /\ guard' = "armed"
    /\ UNCHANGED <<form, host, clientVars, devBuf, gwBuf, listening, endpointVars, copier>>

(* The channel is open and the CONNECT cannot be written on it any more.     *)
DeviceTunnelBreaks ==
    /\ dev = "dial"
    /\ ~Direct
    /\ links' = links \cup {"channel"}
    /\ flow' = IF IsOpen("client") THEN [flow EXCEPT !["d2c"] = Append(@, "502")] ELSE flow
    /\ closed' = closed \cup {"client", "channel"}
    /\ dev' = "ended"
    /\ gw' = "peek1"
    /\ guard' = "armed"
    /\ UNCHANGED <<form, host, clientVars, devBuf, gwBuf, listening, endpointVars, copier>>

(* Faults: pipe closes the wrong end; it waits for both directions.          *)
PipeClosesTarget ==
    /\ dev = "pipe"
    /\ \E k \in DeviceCopiers : copier[k] = "done"
    /\ dev' = "ended"
    /\ closed' = closed \cup {"client", "target"}
    /\ UNCHANGED <<form, host, clientVars, devBuf, gatewayVars, endpointVars,
                   flow, links, copier>>

PipeWaitsForBoth ==
    /\ dev = "pipe"
    /\ \A k \in DeviceCopiers : copier[k] = "done"
    /\ dev' = "ended"
    /\ closed' = closed \cup {"client", IF Direct THEN "target" ELSE "channel"}
    /\ UNCHANGED <<form, host, clientVars, devBuf, gatewayVars, endpointVars,
                   flow, links, copier>>

PipeEnds ==
    /\ dev = "pipe"
    /\ \E k \in DeviceCopiers : copier[k] = "done"
    /\ dev' = "ended"
    /\ closed' = closed \cup {"client", IF Direct THEN "target" ELSE "channel"}
    /\ UNCHANGED <<form, host, clientVars, devBuf, gatewayVars, endpointVars,
                   flow, links, copier>>

----------------------------------------------------------------------------
(* The gateway: serveTunnelConn *)

StopGuard == guard' = IF guard = "armed" THEN "stopped" ELSE guard

(* The connection is closed and its goroutine ends.                          *)
GatewayDrops ==
    /\ gw' = "ended"
    /\ closed' = closed \cup {"channel"}

(* After peekTimeout, whatever the goroutine is doing until it stops it.     *)
(* That the close ends the read under way is assumed as in LinkCloses.       *)
GuardFires ==
    /\ guard = "armed"
    /\ guard' = "fired"
    /\ closed' = closed \cup {"channel"}
    /\ UNCHANGED <<form, host, clientVars, deviceVars, gw, gwBuf, listening, endpointVars,
                   flow, links, copier>>

Wanted == CASE gw = "peek1" -> 1 [] gw = "peek8" -> 2 [] gw = "request" -> 3 [] OTHER -> 0

GatewayReads(n) ==
    /\ Len(gwBuf) < Wanted
    /\ n \in 1..Len(flow["d2g"])
    /\ gwBuf' = gwBuf \o SubSeq(flow["d2g"], 1, n)
    /\ Fill("d2g", n)
    /\ UNCHANGED <<form, host, clientVars, deviceVars, gw, guard, listening, endpointVars,
                   links, closed, copier>>

(* The first byte: a TLS record goes to the HTTP server as it is.            *)
PeekFirst ==
    /\ gw = "peek1"
    /\ gwBuf # <<>>
    /\ IF Head(gwBuf) = "hello"
       THEN gw' = "push" /\ endpoint' = "tls" /\ StopGuard
       ELSE gw' = "peek8" /\ UNCHANGED <<endpoint, guard>>
    /\ UNCHANGED <<form, host, clientVars, deviceVars, gwBuf, listening, out, answered,
                   streamVars>>

PeekFirstFails ==
    /\ gw = "peek1"
    /\ gwBuf = <<>>
    /\ AtEnd("d2g")
    /\ GatewayDrops
    /\ StopGuard
    /\ UNCHANGED <<form, host, clientVars, deviceVars, gwBuf, listening, endpointVars,
                   flow, links, copier>>

(* Fault: the timer is stopped once the prefix is known.                     *)
UnguardedPrefix ==
    /\ gw = "peek8"
    /\ Len(gwBuf) >= 2 \/ AtEnd("d2g")
    /\ IF Len(gwBuf) >= 2 /\ gwBuf[2] = Head3[2]
       THEN gw' = "request" /\ UNCHANGED endpoint
       ELSE gw' = "push" /\ endpoint' = "http"
    /\ StopGuard
    /\ UNCHANGED <<form, host, clientVars, deviceVars, gwBuf, listening, out, answered,
                   streamVars>>

(* Eight bytes, or what there is of them: CONNECT or plain HTTP.             *)
PeekPrefix ==
    /\ gw = "peek8"
    /\ Len(gwBuf) >= 2 \/ AtEnd("d2g")
    /\ IF Len(gwBuf) >= 2 /\ gwBuf[2] = Head3[2]
       THEN gw' = "request" /\ UNCHANGED <<endpoint, guard>>
       ELSE gw' = "push" /\ endpoint' = "http" /\ StopGuard
    /\ UNCHANGED <<form, host, clientVars, deviceVars, gwBuf, listening, out, answered,
                   streamVars>>

(* Fault: what was read along with the request is forgotten.                 *)
NoReplay ==
    /\ gw = "request"
    /\ Len(gwBuf) >= Len(Head3)
    /\ gwBuf' = <<>>
    /\ gw' = "connect"
    /\ StopGuard
    /\ UNCHANGED <<form, host, clientVars, deviceVars, listening, endpointVars, streamVars>>

ReadRequest ==
    /\ gw = "request"
    /\ Len(gwBuf) >= Len(Head3)
    /\ gwBuf' = SubSeq(gwBuf, Len(Head3) + 1, Len(gwBuf))
    /\ gw' = "connect"
    /\ StopGuard
    /\ UNCHANGED <<form, host, clientVars, deviceVars, listening, endpointVars, streamVars>>

ReadRequestFails ==
    /\ gw = "request"
    /\ Len(gwBuf) < Len(Head3)
    /\ AtEnd("d2g")
    /\ GatewayDrops
    /\ StopGuard
    /\ UNCHANGED <<form, host, clientVars, deviceVars, gwBuf, listening, endpointVars,
                   flow, links, copier>>

----------------------------------------------------------------------------
(* handleConnect and relay *)

Answer(a) == flow' = [flow EXCEPT !["g2d"] = Append(@, a)]

ConnectDenied ==
    /\ gw = "connect"
    /\ ~Permitted(host)
    /\ IF IsOpen("channel") THEN Answer("403") ELSE UNCHANGED flow
    /\ GatewayDrops
    /\ UNCHANGED <<form, host, clientVars, deviceVars, gwBuf, guard, listening, endpointVars,
                   links, copier>>

(* Fault: everything that may pass is relayed, the forged host included.     *)
RelayAll ==
    /\ gw = "connect"
    /\ Permitted(host)
    /\ Answer("200")
    /\ gw' = "dial"
    /\ UNCHANGED <<form, host, clientVars, deviceVars, gwBuf, guard, listening, endpointVars,
                   links, closed, copier>>

ConnectEstablished ==
    /\ gw = "connect"
    /\ Permitted(host)
    /\ Answer("200")
    /\ IF IsMITMHost(host)
       THEN gw' = "push" /\ endpoint' = "tls"
       ELSE gw' = "dial" /\ UNCHANGED endpoint
    /\ UNCHANGED <<form, host, clientVars, deviceVars, gwBuf, guard, listening, out, answered,
                   links, closed, copier>>

(* The 200 cannot be written.                                                *)
ConnectAborted ==
    /\ gw = "connect"
    /\ Permitted(host)
    /\ ~IsOpen("channel")
    /\ GatewayDrops
    /\ UNCHANGED <<form, host, clientVars, deviceVars, gwBuf, guard, listening, endpointVars,
                   flow, links, copier>>

RelayStarts ==
    /\ gw = "dial"
    /\ links' = links \cup {"target"}
    /\ StartCopying(GatewayCopiers)
    /\ endpoint' = "target"
    /\ gw' = "relay"
    /\ UNCHANGED <<form, host, clientVars, deviceVars, gwBuf, guard, listening, out, answered,
                   flow, closed>>

RelayDialFails ==
    /\ gw = "dial"
    /\ GatewayDrops
    /\ UNCHANGED <<form, host, clientVars, deviceVars, gwBuf, guard, listening, endpointVars,
                   flow, links, copier>>

RelayEnds ==
    /\ gw = "relay"
    /\ \E k \in GatewayCopiers : copier[k] = "done"
    /\ gw' = "ended"
    /\ closed' = closed \cup {"channel", "target"}
    /\ UNCHANGED <<form, host, clientVars, deviceVars, gwBuf, guard, listening, endpointVars,
                   flow, links, copier>>

----------------------------------------------------------------------------
(* The listener and the HTTP server behind it *)

ListenerCloses ==
    /\ listening
    /\ listening' = FALSE
    /\ UNCHANGED <<form, host, clientVars, deviceVars, gw, gwBuf, guard, endpointVars,
                   streamVars>>

(* push hands the connection to Accept, or finds the listener closed.        *)
Push ==
    /\ gw = "push"
    /\ \/ listening /\ gw' = "served" /\ UNCHANGED closed
       \/ ~listening /\ GatewayDrops
    /\ UNCHANGED <<form, host, clientVars, deviceVars, gwBuf, guard, listening, endpointVars,
                   flow, links, copier>>

ServerReads ==
    /\ gw = "served"
    /\ \/ /\ gwBuf # <<>>
          /\ out' = Append(out, Head(gwBuf))
          /\ gwBuf' = Tail(gwBuf)
          /\ UNCHANGED flow
       \/ /\ gwBuf = <<>>
          /\ flow["d2g"] # <<>>
          /\ out' = Append(out, Head(flow["d2g"]))
          /\ flow' = [flow EXCEPT !["d2g"] = Tail(@)]
          /\ UNCHANGED gwBuf
    /\ UNCHANGED <<form, host, clientVars, deviceVars, gw, guard, listening, endpoint,
                   answered, links, closed, copier>>

ServerReplies ==
    /\ gw = "served"
    /\ ~answered
    /\ out = Payload
    /\ IsOpen("channel")
    /\ answered' = TRUE
    /\ Answer("reply")
    /\ UNCHANGED <<form, host, clientVars, deviceVars, gatewayVars, endpoint, out,
                   links, closed, copier>>

ServerEnds ==
    /\ gw = "served"
    /\ gwBuf = <<>> /\ AtEnd("d2g")
    /\ GatewayDrops
    /\ UNCHANGED <<form, host, clientVars, deviceVars, gwBuf, guard, listening, endpointVars,
                   flow, links, copier>>

----------------------------------------------------------------------------

DeviceStep ==
    \/ \E n \in 1..Len(Wire) : DeviceReads(n)
    \/ DeviceHasRequest \/ DeviceReadFails
    \/ DeviceTunnels \/ DeviceTunnelBreaks \/ DeviceDials \/ DeviceDialFails
    \/ PipeEnds

GatewayStep ==
    \/ \E n \in 1..Len(Wire) : GatewayReads(n)
    \/ PeekFirst \/ PeekFirstFails \/ PeekPrefix \/ ReadRequest \/ ReadRequestFails
    \/ ConnectDenied \/ ConnectEstablished \/ ConnectAborted
    \/ RelayStarts \/ RelayDialFails \/ RelayEnds
    \/ Push

ServerStep == ServerReads \/ ServerReplies \/ ServerEnds

CopyStep(k) == Copies(k) \/ CopyEnds(k)

TunnelNext ==
    \/ ClientSends \/ ClientFinishes \/ ClientReceives
    \/ \E l \in Links : LinkCloses(l)
    \/ TargetReads \/ TargetReplies
    \/ DeviceStep \/ GatewayStep \/ ServerStep
    \/ GuardFires \/ ListenerCloses
    \/ \E k \in Copiers : CopyStep(k)

TunnelSpec == TunnelInit /\ [][TunnelNext]_tunnelVars

(* Goroutines are scheduled, dials end (dialTimeout), the timer fires, and   *)
(* client and target read what has arrived.  Nobody has to send or to close. *)
TunnelFairSpec ==
    /\ TunnelSpec
    /\ WF_tunnelVars(DeviceStep) /\ WF_tunnelVars(GatewayStep)
    /\ WF_tunnelVars(ServerReads \/ ServerEnds)
    /\ \A k \in Copiers : WF_tunnelVars(CopyStep(k))
    /\ WF_tunnelVars(GuardFires)
    /\ WF_tunnelVars(ClientReceives) /\ WF_tunnelVars(TargetReads)

----------------------------------------------------------------------------
(* Properties *)

(* What the TLS server or the target reads is what the client sent after its *)
(* CONNECT, in order and without a gap, however much of it came along with   *)
(* the head and was buffered, in the device and again in the gateway.  The   *)
(* plain HTTP server reads everything from the first byte on.                *)
BytesArriveInOrder == IsPrefix(out, IF endpoint = "http" THEN Wire ELSE Payload)

(* A client that opens with CONNECT gets one answer before anything else:    *)
(* the gateway's on one route, the device's on the other, never both.        *)
OneAnswerFirst ==
    \E answers \in {<<"200", "reply">>, <<"403">>, <<"502">>} :
        IsPrefix(IF form \in {"tls", "plain"} THEN <<"200">> \o seen ELSE seen, answers)

(* Bytes of the forged host end in the TLS server that can put the token in, *)
(* however the name is spelled; bytes of another host never do.              *)
OnlyForgedIsDecrypted ==
    form \in {"proxied", "connect"} /\ out # <<>> /\ endpoint # "http"
        => (endpoint = "tls" <=> host.name = "forged")

(* The gateway serves every host that the device's proxy sends to it.        *)
RoutedHostsAreServed == form = "proxied" => \A i \in DOMAIN seen : seen[i] # "403"

(* A channel on which nobody says enough to tell what it is does not keep    *)
(* its goroutine.                                                            *)
SilenceIsBounded ==
    gw \in {"peek1", "peek8", "request"} ~> gw \notin {"peek1", "peek8", "request"}

(* Once any link of the connection is closed all of it is taken down, in the *)
(* device and in the gateway: no goroutine of either is left behind.         *)
AllIsTakenDown ==
    closed # {} ~>
        /\ dev \in {"none", "ended"} /\ gw \in {"none", "ended"}
        /\ \A k \in Copiers : copier[k] # "run"
        /\ closed = links

(* The links, buffers and goroutines keep the promise to client and server.  *)
(* What is meant is said of the host itself, not of how the code matches it. *)
Call == [head |-> IF form \in {"proxied", "connect"} THEN Head3 ELSE <<>>,
         request |-> Payload,
         meant |-> IF form = "plain" THEN "http"
                   ELSE IF form = "tls" \/ host.name = "forged" THEN "tls" ELSE "target",
         refused |-> /\ form = "connect"
                     /\ ~(\/ host.name \in {"forged", "listed"}
                          \/ host.name = "wildcard" /\ host.lower)]

Promise == INSTANCE TunnelPromise WITH
    call <- Call,
    said <- Len(Wire) - Len(unsent),
    server <- endpoint,
    got <- out,
    replied <- answered,
    heard <- seen

(* Every behaviour of the tunnel, on whatever route and wherever it breaks,  *)
(* is one that TunnelPromise allows: only the server a call is meant for is  *)
(* reached, nothing arrives that was not said or out of order, and a call    *)
(* that is told to have failed or to be refused never reaches a server.      *)
KeepsPromise == Promise!Spec

(* device.go:90 says that the device sends to the gateway the hosts the      *)
(* gateway takes: the same list, so that the two cannot disagree.            *)
TwoRoutesAgree ==
    dev = "pipe" /\ Permitted(host) => "channel" \in links
=============================================================================
