---------------------------- MODULE TunnelProofs ----------------------------
(* Proofs about Tunnel, for every set of openings and hosts and every window. *)
EXTENDS Tunnel, SequenceTheorems, TLAPS

UpStreams == {"c2d", "d2g", "g2t"}

Connects == form \in {"proxied", "connect"}

(* A device whose proxy routes as the gateway does is never told 403.        *)
Carried == IF Proxied THEN Answers \ {"403"} ELSE Answers

Carries(s) == IF s \in UpStreams THEN Pieces ELSE Carried

Flows == {f \in [Streams -> Seq(Pieces \cup Answers)] :
             \A s \in Streams : f[s] \in Seq(Carries(s))}

StreamInv == flow \in Flows /\ seen \in Seq(Carried)

(* Where the two goroutines and the copiers are, and which links are there.  *)
PlaceInv ==
    /\ dev = "none" <=> ~Proxied
    /\ dev # "none" => "client" \in links
    /\ dev \in {"read", "dial"} => gw = "none" /\ endpoint = "none" /\ copier["devUp"] = "none"
    /\ dev = "pipe" => (IF Direct THEN "target" ELSE "channel") \in links
    /\ gw = "none" => Proxied /\ gwBuf = <<>>
    /\ gw = "none" /\ ~Direct => flow["d2g"] = <<>>
    /\ gw # "none" => "channel" \in links /\ ~Direct
    /\ gw = "relay" => "target" \in links
    /\ gw \in {"request", "connect", "dial", "relay"} => Connects
    /\ guard = "armed" => gw # "none"

(* Which way the bytes go, and when that is decided.                         *)
EndpointInv ==
    /\ gw \in {"peek1", "peek8", "request", "connect", "dial"} => endpoint = "none"
    /\ gw \in {"push", "served"} => endpoint \in {"tls", "http"}
    /\ gw = "relay" => endpoint = "target"
    /\ gw = "dial" => ~IsMITMHost(host)
    /\ endpoint = "tls" /\ Connects => IsMITMHost(host)
    /\ endpoint = "target" => Connects /\ ~IsMITMHost(host)
    /\ endpoint = "none" => out = <<>>
    /\ flow["g2t"] # <<>> => endpoint = "target"
    /\ copier["gwUp"] # "none" => endpoint = "target"
    /\ copier["gwUp"] = "run" => gw \in {"relay", "ended"}
    /\ copier["devUp"] = "run" => Proxied /\ dev \in {"pipe", "ended"}
    /\ copier["devUp"] = "run" /\ Direct => endpoint = "target"
    /\ copier["devUp"] = "run" /\ ~Direct => gw # "none"

(* s is what comes in w after the first i pieces.                            *)
Segment(w, s, i) ==
    /\ i + Len(s) <= Len(w)
    /\ \A k \in 1..Len(s) : s[k] = w[i + k]

(* From the endpoint back to the client: where what each of them holds       *)
(* begins.  The endpoint does not get the CONNECT.                           *)
OnStream(s) == Len(flow[s])
Skipped == IF \/ Connects /\ gw \in {"connect", "dial", "relay"}
              \/ Connects /\ endpoint \in {"tls", "target"}
           THEN 3 ELSE 0
AfterOut == Skipped + Len(out)
AfterTarget == AfterOut + OnStream("g2t")
AfterGateway == AfterTarget + Len(gwBuf)
AfterChannel == AfterGateway + OnStream("d2g")

(* As long as somebody reads what the gateway has, and what the device has.  *)
GatewayTakes ==
    gw \in {"peek1", "peek8", "request", "connect", "dial", "push", "served"}
        \/ copier["gwUp"] = "run"
DeviceTakes == copier["devUp"] = "run" /\ (Direct \/ GatewayTakes)

DeviceStart == CASE dev = "read" -> 0
                 [] dev = "dial" -> 3
                 [] OTHER -> IF Direct THEN AfterTarget ELSE AfterChannel
AfterDevice == DeviceStart + Len(devBuf)
AfterClient == AfterDevice + OnStream("c2d")

Rest(i) == Segment(Wire, unsent, i) /\ i + Len(unsent) = Len(Wire)

OrderInv ==
    /\ Segment(Wire, out, Skipped)
    /\ Segment(Wire, flow["g2t"], AfterOut)
    /\ GatewayTakes => Segment(Wire, gwBuf, AfterTarget) /\ Segment(Wire, flow["d2g"], AfterGateway)
    /\ GatewayTakes /\ ~Proxied => Rest(AfterChannel)
    /\ dev \in {"read", "dial"} \/ DeviceTakes =>
           /\ Segment(Wire, devBuf, DeviceStart)
           /\ Segment(Wire, flow["c2d"], AfterDevice)
           /\ Rest(AfterClient)

TunnelInv == TunnelTypeOK /\ StreamInv /\ PlaceInv /\ EndpointInv /\ OrderInv

USE DEF clientVars, deviceVars, gatewayVars, endpointVars, streamVars

----------------------------------------------------------------------------
(* Sequences *)

LEMMA HeadAndTail ==
  ASSUME NEW S, NEW s \in Seq(S), s # <<>>
  PROVE  /\ Head(s) = s[1] /\ Head(s) \in S
         /\ Tail(s) \in Seq(S)
         /\ Len(s) \in Nat /\ Len(s) >= 1
         /\ Len(Tail(s)) = Len(s) - 1
         /\ \A k \in 1..Len(s) - 1 : Tail(s)[k] = s[k + 1]
BY HeadTailProperties

LEMMA Appended ==
  ASSUME NEW S, NEW s \in Seq(S), NEW x \in S
  PROVE  /\ Append(s, x) \in Seq(S)
         /\ Len(s) \in Nat
         /\ Len(Append(s, x)) = Len(s) + 1
         /\ Append(s, x)[Len(s) + 1] = x
         /\ \A k \in 1..Len(s) : Append(s, x)[k] = s[k]
BY AppendProperties

LEMMA Dropped ==
  ASSUME NEW S, NEW s \in Seq(S), NEW n \in 0..Len(s)
  PROVE  /\ SubSeq(s, n + 1, Len(s)) \in Seq(S)
         /\ Len(s) \in Nat
         /\ Len(SubSeq(s, n + 1, Len(s))) = Len(s) - n
         /\ \A k \in 1..Len(s) - n : SubSeq(s, n + 1, Len(s))[k] = s[k + n]
<1>1. Len(s) \in Nat /\ n + 1 \in 1..Len(s) + 1
  BY LenProperties
<1> QED
  BY <1>1, SubSeqProperties

LEMMA Taken ==
  ASSUME NEW S, NEW s \in Seq(S), NEW t \in Seq(S), NEW n \in 1..Len(t)
  PROVE  /\ s \o SubSeq(t, 1, n) \in Seq(S)
         /\ Len(s) \in Nat /\ Len(t) \in Nat
         /\ Len(s \o SubSeq(t, 1, n)) = Len(s) + n
         /\ \A k \in 1..Len(s) : (s \o SubSeq(t, 1, n))[k] = s[k]
         /\ \A k \in 1..n : (s \o SubSeq(t, 1, n))[Len(s) + k] = t[k]
<1>1. Len(s) \in Nat /\ Len(t) \in Nat
  BY LenProperties
<1>2. /\ SubSeq(t, 1, n) \in Seq(S)
      /\ Len(SubSeq(t, 1, n)) = n
      /\ \A k \in 1..n : SubSeq(t, 1, n)[k] = t[k]
  BY <1>1, SubSeqProperties
<1> QED
  BY <1>1, <1>2, ConcatProperties

(* What each operation does to a segment.                                    *)
LEMMA SegmentTail ==
  ASSUME NEW S, NEW w \in Seq(S), NEW s \in Seq(S), NEW i \in Nat,
         Segment(w, s, i), s # <<>>
  PROVE  /\ Segment(w, Tail(s), i + 1)
         /\ Head(s) = w[i + 1]
         /\ i + 1 <= Len(w)
BY HeadAndTail, LenProperties DEF Segment

LEMMA SegmentAppend ==
  ASSUME NEW S, NEW w \in Seq(S), NEW s \in Seq(S), NEW i \in Nat, NEW x \in S,
         Segment(w, s, i), i + Len(s) + 1 <= Len(w), x = w[i + Len(s) + 1]
  PROVE  Segment(w, Append(s, x), i)
BY Appended, LenProperties DEF Segment

LEMMA SegmentDrop ==
  ASSUME NEW S, NEW w \in Seq(S), NEW s \in Seq(S), NEW i \in Nat, NEW n \in 0..Len(s),
         Segment(w, s, i)
  PROVE  Segment(w, SubSeq(s, n + 1, Len(s)), i + n)
BY Dropped, LenProperties DEF Segment

LEMMA SegmentTake ==
  ASSUME NEW S, NEW w \in Seq(S), NEW s \in Seq(S), NEW t \in Seq(S), NEW i \in Nat,
         NEW n \in 1..Len(t),
         Segment(w, s, i), Segment(w, t, i + Len(s))
  PROVE  Segment(w, s \o SubSeq(t, 1, n), i)
<1>1. /\ Len(s) \in Nat /\ Len(t) \in Nat /\ Len(w) \in Nat
      /\ Len(s \o SubSeq(t, 1, n)) = Len(s) + n
  BY Taken, LenProperties
<1>2. ASSUME NEW k \in 1..Len(s) + n
      PROVE  (s \o SubSeq(t, 1, n))[k] = w[i + k]
  <2>1. CASE k <= Len(s)
    <3>1. k \in 1..Len(s)
      BY <1>1, <2>1
    <3>2. (s \o SubSeq(t, 1, n))[k] = s[k]
      BY <3>1, Taken
    <3> QED
      BY <3>1, <3>2 DEF Segment
  <2>2. CASE k > Len(s)
    <3>1. k - Len(s) \in 1..n /\ k - Len(s) \in 1..Len(t) /\ k = Len(s) + (k - Len(s))
      BY <1>1, <2>2
    <3>2. (s \o SubSeq(t, 1, n))[k] = t[k - Len(s)]
      BY <3>1, Taken
    <3>3. t[k - Len(s)] = w[(i + Len(s)) + (k - Len(s))]
      BY <3>1 DEF Segment
    <3> QED
      BY <1>1, <3>2, <3>3
  <2> QED
    BY <1>1, <2>1, <2>2
<1> QED
  BY <1>1, <1>2 DEF Segment

LEMMA SegmentNil ==
  ASSUME NEW S, NEW w \in Seq(S), NEW i \in Nat, i <= Len(w)
  PROVE  Segment(w, <<>>, i)
BY DEF Segment

LEMMA SegmentIsPrefix ==
  ASSUME NEW S, NEW w \in Seq(S), NEW s \in Seq(S), Segment(w, s, 0)
  PROVE  IsPrefix(s, w)
<1>1. /\ Len(s) \in Nat /\ Len(w) \in Nat /\ Len(s) <= Len(w)
      /\ \A k \in 1..Len(s) : s[k] = w[k]
  BY LenProperties DEF Segment
<1>2. /\ SubSeq(s, 1, Len(s)) \in Seq(S) /\ Len(SubSeq(s, 1, Len(s))) = Len(s)
      /\ \A k \in 1..Len(s) : SubSeq(s, 1, Len(s))[k] = s[k]
  BY <1>1, SubSeqProperties
<1>3. /\ SubSeq(w, 1, Len(s)) \in Seq(S) /\ Len(SubSeq(w, 1, Len(s))) = Len(s)
      /\ \A k \in 1..Len(s) : SubSeq(w, 1, Len(s))[k] = w[k]
  BY <1>1, SubSeqProperties
<1>4. SubSeq(s, 1, Len(s)) = SubSeq(w, 1, Len(s))
  BY <1>1, <1>2, <1>3, SeqEqual
<1> QED
  BY <1>1, <1>4 DEF IsPrefix

----------------------------------------------------------------------------
(* The client's form and host do not change, nor what follows from them.     *)

LEMMA WireFacts ==
  form \in Forms =>
      /\ Wire \in Seq(Pieces)
      /\ Len(Wire) = (IF Connects THEN 5 ELSE 2)
      /\ Connects => /\ Wire[1] = "C" /\ Wire[2] = "ONNECT" /\ Wire[3] = "head"
                     /\ Wire[4] = "hello" /\ Wire[5] = "data"
      /\ ~Connects => /\ Wire[1] # "C" /\ Wire[2] # "ONNECT"
                      /\ Payload = Wire
      /\ Connects => Payload \in Seq(Pieces) /\ Len(Payload) = 2
                     /\ Payload[1] = Wire[4] /\ Payload[2] = Wire[5]
<1> SUFFICES ASSUME form \in Forms
             PROVE  /\ Wire \in Seq(Pieces)
                    /\ Len(Wire) = (IF Connects THEN 5 ELSE 2)
                    /\ Connects => /\ Wire[1] = "C" /\ Wire[2] = "ONNECT" /\ Wire[3] = "head"
                                   /\ Wire[4] = "hello" /\ Wire[5] = "data"
                    /\ ~Connects => /\ Wire[1] # "C" /\ Wire[2] # "ONNECT"
                                    /\ Payload = Wire
                    /\ Connects => Payload \in Seq(Pieces) /\ Len(Payload) = 2
                                   /\ Payload[1] = Wire[4] /\ Payload[2] = Wire[5]
  OBVIOUS
<1>1. /\ Head3 \in Seq(Pieces) /\ Len(Head3) = 3
      /\ Head3[1] = "C" /\ Head3[2] = "ONNECT" /\ Head3[3] = "head"
  BY DEF Head3, Pieces
<1>2. /\ Payload \in Seq(Pieces) /\ Len(Payload) = 2
      /\ form # "plain" => Payload[1] = "hello" /\ Payload[2] = "data"
      /\ form = "plain" => Payload[1] = "G" /\ Payload[2] = "ET"
  <2>1. CASE form = "plain"
    <3>1. Payload = <<"G", "ET">>
      BY <2>1 DEF Payload
    <3> QED
      BY <2>1, <3>1 DEF Pieces
  <2>2. CASE form # "plain"
    <3>1. Payload = <<"hello", "data">>
      BY <2>2 DEF Payload
    <3> QED
      BY <2>2, <3>1 DEF Pieces
  <2> QED
    BY <2>1, <2>2
<1>3. CASE Connects
  <2>1. Wire = Head3 \o Payload
    BY <1>3 DEF Wire, Connects
  <2>2. /\ Wire \in Seq(Pieces) /\ Len(Wire) = 5
        /\ \A k \in 1..3 : Wire[k] = Head3[k]
        /\ \A k \in 4..5 : Wire[k] = Payload[k - 3]
    <3>1. /\ Head3 \o Payload \in Seq(Pieces)
          /\ Len(Head3 \o Payload) = Len(Head3) + Len(Payload)
          /\ \A k \in 1..Len(Head3) + Len(Payload) :
                 (Head3 \o Payload)[k] = IF k <= Len(Head3) THEN Head3[k]
                                         ELSE Payload[k - Len(Head3)]
      BY <1>1, <1>2, ConcatProperties
    <3>2. /\ Wire \in Seq(Pieces)
          /\ Len(Wire) = Len(Head3) + Len(Payload)
          /\ \A k \in 1..Len(Head3) + Len(Payload) :
                 Wire[k] = IF k <= Len(Head3) THEN Head3[k] ELSE Payload[k - Len(Head3)]
      BY <2>1, <3>1
    <3>3. Len(Head3) + Len(Payload) = 5
      BY <1>1, <1>2
    <3> QED
      BY ONLY <1>1, <3>2, <3>3
  <2>3. form # "plain"
    BY <1>3 DEF Connects
  <2>4. Wire[4] = Payload[1] /\ Wire[5] = Payload[2]
    BY <2>2
  <2>5. Wire[1] = Head3[1] /\ Wire[2] = Head3[2] /\ Wire[3] = Head3[3]
    BY <2>2
  <2> QED
    BY <1>1, <1>2, <1>3, <2>2, <2>3, <2>4, <2>5
<1>4. CASE ~Connects
  <2>1. Wire = Payload
    BY <1>4 DEF Wire, Connects
  <2> QED
    BY <1>2, <1>4, <2>1
<1> QED
  BY <1>3, <1>4

LEMMA Fixed ==
  form' = form /\ host' = host =>
      /\ Wire' = Wire /\ Payload' = Payload
      /\ Proxied' = Proxied /\ Connects' = Connects /\ Direct' = Direct
      /\ Carried' = Carried /\ Flows' = Flows
      /\ IsMITMHost(host)' = IsMITMHost(host)
      /\ ClientUp' = ClientUp /\ ClientDown' = ClientDown
BY DEF Wire, Payload, Proxied, Connects, Direct, Carried, Carries, Flows, IsMITMHost, ViaGateway,
       ClientUp, ClientDown

(* Another content of one stream.                                            *)
LEMMA FlowsExcept ==
  ASSUME NEW f \in Flows, NEW s \in Streams, NEW q \in Seq(Carries(s))
  PROVE  /\ [f EXCEPT ![s] = q] \in Flows
         /\ [f EXCEPT ![s] = q][s] = q
         /\ \A t \in Streams \ {s} : [f EXCEPT ![s] = q][t] = f[t]
<1>1. q \in Seq(Pieces \cup Answers)
  <2>1. Carries(s) \subseteq Pieces \cup Answers
    BY DEF Carries, Carried
  <2>2. Seq(Carries(s)) \subseteq Seq(Pieces \cup Answers)
    BY <2>1
  <2> QED
    BY <2>2
<1> QED
  BY <1>1 DEF Flows

(* All positions are numbers.                                                *)
LEMMA Contents ==
  TunnelTypeOK /\ StreamInv =>
      /\ Wire \in Seq(Pieces) /\ Len(Wire) \in Nat
      /\ out \in Seq(Pieces) /\ Len(out) \in Nat
      /\ gwBuf \in Seq(Pieces) /\ Len(gwBuf) \in Nat
      /\ devBuf \in Seq(Pieces) /\ Len(devBuf) \in Nat
      /\ unsent \in Seq(Pieces) /\ Len(unsent) \in Nat
      /\ flow["g2t"] \in Seq(Pieces) /\ OnStream("g2t") \in Nat
      /\ flow["d2g"] \in Seq(Pieces) /\ OnStream("d2g") \in Nat
      /\ flow["c2d"] \in Seq(Pieces) /\ OnStream("c2d") \in Nat
<1> SUFFICES ASSUME TunnelTypeOK, StreamInv
             PROVE  /\ Wire \in Seq(Pieces) /\ out \in Seq(Pieces) /\ gwBuf \in Seq(Pieces)
                    /\ devBuf \in Seq(Pieces) /\ unsent \in Seq(Pieces)
                    /\ flow["g2t"] \in Seq(Pieces) /\ flow["d2g"] \in Seq(Pieces)
                    /\ flow["c2d"] \in Seq(Pieces)
  BY LenProperties DEF OnStream
<1>1. Wire \in Seq(Pieces)
  BY WireFacts DEF TunnelTypeOK
<1>2. /\ out \in Seq(Pieces) /\ gwBuf \in Seq(Pieces)
      /\ devBuf \in Seq(Pieces) /\ unsent \in Seq(Pieces)
  BY DEF TunnelTypeOK
<1>3. /\ flow["g2t"] \in Seq(Pieces) /\ flow["d2g"] \in Seq(Pieces)
      /\ flow["c2d"] \in Seq(Pieces)
  BY DEF StreamInv, Flows, Streams, Carries, UpStreams
<1> QED
  BY <1>1, <1>2, <1>3

LEMMA Positions ==
  TunnelTypeOK /\ StreamInv =>
      /\ Skipped \in Nat /\ AfterOut \in Nat /\ AfterTarget \in Nat
      /\ AfterGateway \in Nat /\ AfterChannel \in Nat
      /\ DeviceStart \in Nat /\ AfterDevice \in Nat /\ AfterClient \in Nat
<1> SUFFICES ASSUME TunnelTypeOK, StreamInv
             PROVE  /\ Skipped \in Nat /\ AfterOut \in Nat /\ AfterTarget \in Nat
                    /\ AfterGateway \in Nat /\ AfterChannel \in Nat
                    /\ DeviceStart \in Nat /\ AfterDevice \in Nat /\ AfterClient \in Nat
  OBVIOUS
<1>1. Skipped \in Nat
  BY DEF Skipped
<1>2. AfterOut \in Nat
  BY <1>1, Contents DEF AfterOut
<1>3. AfterTarget \in Nat
  BY <1>2, Contents DEF AfterTarget
<1>4. AfterGateway \in Nat
  BY <1>3, Contents DEF AfterGateway
<1>5. AfterChannel \in Nat
  BY <1>4, Contents DEF AfterChannel
<1>6. DeviceStart \in Nat
  BY <1>3, <1>5 DEF DeviceStart
<1>7. AfterDevice \in Nat
  BY <1>6, Contents DEF AfterDevice
<1>8. AfterClient \in Nat
  BY <1>7, Contents DEF AfterClient
<1> QED
  BY <1>1, <1>2, <1>3, <1>4, <1>5, <1>6, <1>7, <1>8

LEMMA TunnelInitInv == TunnelInit => TunnelInv
<1> SUFFICES ASSUME TunnelInit PROVE TunnelInv
  OBVIOUS
<1>1. form \in Forms /\ Wire \in Seq(Pieces) /\ Len(Wire) \in Nat
  <2>1. form \in Forms
    BY DEF TunnelInit
  <2> QED
    BY <2>1, WireFacts, LenProperties
<1>2. TunnelTypeOK
  <2>1. flow \in [Streams -> Seq(Pieces \cup Answers)]
    BY DEF TunnelInit
  <2>2. unsent \in Seq(Pieces) /\ host \in ChosenHosts \cup {Unnamed}
    BY <1>1 DEF TunnelInit
  <2>3. /\ closed \subseteq links /\ links \subseteq Links
        /\ copier \in [Copiers -> {"none", "run", "done"}]
    BY DEF TunnelInit, Links
  <2>4. /\ dev \in {"none", "read"} /\ gw \in {"none", "peek1"}
        /\ guard \in {"off", "armed"}
    BY DEF TunnelInit
  <2>5. /\ devBuf \in Seq(Pieces) /\ gwBuf \in Seq(Pieces)
        /\ out \in Seq(Pieces) /\ seen \in Seq(Answers)
    BY DEF TunnelInit
  <2>6. /\ form \in Forms /\ fin \in BOOLEAN /\ answered \in BOOLEAN
        /\ endpoint = "none" /\ listening \in BOOLEAN
    BY DEF TunnelInit
  <2> QED
    BY <2>1, <2>2, <2>3, <2>4, <2>5, <2>6 DEF TunnelTypeOK
<1>3. StreamInv
  <2>1. \A s \in Streams : flow[s] = <<>>
    BY DEF TunnelInit
  <2>2. flow \in [Streams -> Seq(Pieces \cup Answers)]
    BY DEF TunnelInit
  <2>3. ASSUME NEW s \in Streams
        PROVE  flow[s] \in Seq(Carries(s))
    <3>1. <<>> \in Seq(Carries(s))
      OBVIOUS
    <3> QED
      BY <2>1, <3>1
  <2>4. seen \in Seq(Carried)
    BY DEF TunnelInit
  <2> QED
    BY <2>2, <2>3, <2>4 DEF StreamInv, Flows
<1>4. PlaceInv
  BY DEF TunnelInit, PlaceInv, Proxied, Direct, Connects, Streams, Copiers, DeviceCopiers
<1>5. EndpointInv
  BY DEF TunnelInit, EndpointInv, Streams, Copiers, DeviceCopiers, GatewayCopiers
<1>6. OrderInv
  <2>1. /\ Skipped = 0 /\ AfterOut = 0 /\ AfterTarget = 0 /\ AfterGateway = 0 /\ AfterChannel = 0
        /\ ~DeviceTakes
        /\ dev \in {"read", "dial"} => DeviceStart = 0 /\ AfterDevice = 0 /\ AfterClient = 0
    BY DEF TunnelInit, Skipped, AfterOut, AfterTarget, AfterGateway, AfterChannel, DeviceTakes,
           DeviceStart, AfterDevice, AfterClient, OnStream, Streams, Copiers, DeviceCopiers
  <2>2. /\ Segment(Wire, <<>>, 0) /\ Rest(0)
        /\ out = <<>> /\ gwBuf = <<>> /\ devBuf = <<>>
        /\ flow["g2t"] = <<>> /\ flow["d2g"] = <<>> /\ flow["c2d"] = <<>>
    BY <1>1 DEF TunnelInit, Segment, Rest, Streams
  <2> QED
    BY <2>1, <2>2 DEF OrderInv
<1> QED
  BY <1>2, <1>3, <1>4, <1>5, <1>6 DEF TunnelInv

----------------------------------------------------------------------------
(* Steps that move no bytes *)

(* What is on its way stays in order, if no more of it is taken than before. *)
LEMMA NothingMoves ==
  ASSUME OrderInv, UNCHANGED <<form, host, unsent, devBuf, gwBuf, out>>,
         UNCHANGED <<flow["g2t"], flow["d2g"], flow["c2d"]>>,
         Skipped' = Skipped,
         GatewayTakes' => GatewayTakes,
         dev' = dev \/ dev' \notin {"read", "dial"},
         dev # dev' => dev \notin {"read", "dial"} \/ copier'["devUp"] # "run",
         copier'["devUp"] = "run" => copier["devUp"] = "run"
  PROVE  OrderInv'
<1>1. Wire' = Wire /\ Proxied' = Proxied /\ Direct' = Direct
  BY Fixed
<1>2. /\ AfterOut' = AfterOut /\ AfterTarget' = AfterTarget
      /\ AfterGateway' = AfterGateway /\ AfterChannel' = AfterChannel
  BY DEF AfterOut, AfterTarget, AfterGateway, AfterChannel, OnStream
<1>3. DeviceTakes' => DeviceTakes
  BY <1>1 DEF DeviceTakes
<1>4. \A i : Rest(i)' <=> Rest(i)
  BY <1>1 DEF Rest
<1>5. ASSUME dev' \in {"read", "dial"} \/ DeviceTakes'
      PROVE  /\ dev \in {"read", "dial"} \/ DeviceTakes
             /\ DeviceStart' = DeviceStart
             /\ AfterDevice' = AfterDevice
             /\ AfterClient' = AfterClient
  <2>1. dev \in {"read", "dial"} \/ DeviceTakes
    BY <1>3, <1>5
  <2>2. DeviceStart' = DeviceStart
    BY <1>1, <1>2, <1>5 DEF DeviceStart, DeviceTakes
  <2> QED
    BY <2>1, <2>2 DEF AfterDevice, AfterClient, OnStream
<1> QED
  BY <1>1, <1>2, <1>3, <1>4, <1>5 DEF OrderInv

(* The steps of this kind.                                                   *)
Quiet ==
    \/ ClientFinishes \/ (\E l \in Links : LinkCloses(l))
    \/ DeviceReadFails \/ PipeEnds \/ GuardFires
    \/ PeekFirst \/ PeekFirstFails \/ PeekPrefix \/ ReadRequestFails
    \/ RelayStarts \/ RelayEnds \/ ListenerCloses \/ Push \/ ServerEnds
    \/ (\E k \in Copiers : CopyEnds(k))

Kept ==
    /\ TunnelTypeOK' /\ PlaceInv' /\ EndpointInv'
    /\ Skipped' = Skipped
    /\ GatewayTakes' => GatewayTakes
    /\ dev' = dev \/ dev' = "ended"
    /\ copier'["devUp"] = "run" => copier["devUp"] = "run"

(* While the gateway tells the opening apart it has its first pieces.        *)
LEMMA OpeningFacts ==
  TunnelInv /\ gw \in {"peek1", "peek8", "request"} =>
      /\ gwBuf # <<>> => Head(gwBuf) = Wire[1]
      /\ Len(gwBuf) >= 2 => gwBuf[2] = Wire[2]
      /\ Skipped = 0 /\ AfterTarget = 0
<1> SUFFICES ASSUME TunnelInv, gw \in {"peek1", "peek8", "request"}
             PROVE  /\ gwBuf # <<>> => Head(gwBuf) = Wire[1]
                    /\ Len(gwBuf) >= 2 => gwBuf[2] = Wire[2]
                    /\ Skipped = 0 /\ AfterTarget = 0
  OBVIOUS
<1>1. endpoint = "none" /\ out = <<>> /\ flow["g2t"] = <<>>
  BY DEF TunnelInv, EndpointInv
<1>2. Skipped = 0
  BY <1>1 DEF Skipped
<1>3. AfterTarget = 0
  BY <1>1, <1>2 DEF AfterOut, AfterTarget, OnStream
<1>4. gwBuf \in Seq(Pieces) /\ Len(gwBuf) \in Nat /\ Segment(Wire, gwBuf, 0)
  BY <1>3, LenProperties DEF TunnelInv, OrderInv, GatewayTakes, TunnelTypeOK
<1> QED
  BY <1>2, <1>3, <1>4, HeadAndTail DEF Segment

LEMMA QuietSteps == TunnelInv /\ Quiet => Kept
<1> SUFFICES ASSUME TunnelInv, Quiet PROVE Kept
  OBVIOUS
<1> USE Fixed DEF TunnelInv, TunnelTypeOK, PlaceInv, EndpointInv, Kept, Skipped, GatewayTakes
<1>1. CASE ClientFinishes
  BY <1>1 DEF ClientFinishes
<1>2. CASE DeviceReadFails
  BY <1>2 DEF DeviceReadFails
<1>3. CASE PipeEnds
  BY <1>3 DEF PipeEnds
<1>4. CASE GuardFires
  BY <1>4 DEF GuardFires
<1>5. CASE PeekFirst
  <2>1. CASE Head(gwBuf) = "hello"
    <3>1. ~Connects
      BY <1>5, <2>1, OpeningFacts, WireFacts DEF PeekFirst
    <3> QED
      BY <1>5, <2>1, <3>1 DEF PeekFirst, StopGuard
  <2>2. CASE Head(gwBuf) # "hello"
    BY <1>5, <2>2 DEF PeekFirst
  <2> QED
    BY <2>1, <2>2
<1>6. CASE PeekFirstFails
  BY <1>6 DEF PeekFirstFails, StopGuard, GatewayDrops
<1>7. CASE PeekPrefix
  <2>1. CASE Len(gwBuf) >= 2 /\ gwBuf[2] = Head3[2]
    <3>1. Connects
      BY <1>7, <2>1, OpeningFacts, WireFacts DEF PeekPrefix, Head3
    <3> QED
      BY <1>7, <2>1, <3>1 DEF PeekPrefix
  <2>2. CASE ~(Len(gwBuf) >= 2 /\ gwBuf[2] = Head3[2])
    BY <1>7, <2>2 DEF PeekPrefix, StopGuard
  <2> QED
    BY <2>1, <2>2
<1>8. CASE ReadRequestFails
  BY <1>8 DEF ReadRequestFails, StopGuard, GatewayDrops
<1>9. CASE RelayStarts
  BY <1>9 DEF RelayStarts, StartCopying, Copiers, DeviceCopiers, GatewayCopiers, Links
<1>10. CASE RelayEnds
  BY <1>10 DEF RelayEnds
<1>11. CASE ListenerCloses
  <2>1. listening' \in BOOLEAN
    BY <1>11 DEF ListenerCloses
  <2>2. UNCHANGED <<form, host, clientVars, deviceVars, gw, gwBuf, guard, endpointVars,
                    streamVars>>
    BY <1>11 DEF ListenerCloses
  <2> QED
    BY <2>1, <2>2
<1>12. CASE Push
  BY <1>12 DEF Push, GatewayDrops
<1>13. CASE ServerEnds
  BY <1>13 DEF ServerEnds, GatewayDrops
<1>14. ASSUME NEW l \in Links, LinkCloses(l)
      PROVE  Kept
  BY <1>14 DEF LinkCloses, IsOpen
<1>15. ASSUME NEW k \in Copiers, CopyEnds(k)
      PROVE  Kept
  BY <1>15 DEF CopyEnds
<1> QED
  BY <1>1, <1>2, <1>3, <1>4, <1>5, <1>6, <1>7, <1>8, <1>9, <1>10, <1>11, <1>12, <1>13, <1>14, <1>15 DEF Quiet

LEMMA QuietInv == TunnelInv /\ Quiet => TunnelInv'
<1> SUFFICES ASSUME TunnelInv, Quiet PROVE TunnelInv'
  OBVIOUS
<1>1. UNCHANGED <<form, host, unsent, devBuf, gwBuf, out, flow, seen>>
  BY DEF Quiet, ClientFinishes, LinkCloses, DeviceReadFails, PipeEnds, GuardFires, PeekFirst,
         PeekFirstFails, PeekPrefix, ReadRequestFails, RelayStarts, RelayEnds, ListenerCloses,
         Push, ServerEnds, CopyEnds
<1>2. Kept
  BY QuietSteps
<1>3. StreamInv'
  BY <1>1, Fixed DEF TunnelInv, StreamInv
<1>4. OrderInv'
  BY <1>1, <1>2, NothingMoves DEF TunnelInv, PlaceInv, EndpointInv, Kept
<1> QED
  BY <1>2, <1>3, <1>4 DEF TunnelInv, Kept

----------------------------------------------------------------------------
(* Steps that send an answer or receive one *)

(* What is sent up is not touched.                                           *)
UpUnchanged == UNCHANGED <<flow["g2t"], flow["d2g"], flow["c2d"]>>

LEMMA AnswerGoesDown ==
  ASSUME TunnelInv, NEW s \in Streams \ UpStreams, NEW a \in Carried
  PROVE  LET f == [flow EXCEPT ![s] = Append(@, a)]
         IN  f \in Flows /\ \A t \in UpStreams : f[t] = flow[t]
<1>1. flow \in Flows /\ flow[s] \in Seq(Carries(s)) /\ Carries(s) = Carried
  BY DEF TunnelInv, StreamInv, Flows, Carries
<1>2. Append(flow[s], a) \in Seq(Carries(s))
  BY <1>1, Appended
<1>3. UpStreams \subseteq Streams \ {s}
  BY DEF UpStreams, Streams
<1>4. /\ [flow EXCEPT ![s] = Append(flow[s], a)] \in Flows
      /\ \A t \in Streams \ {s} : [flow EXCEPT ![s] = Append(flow[s], a)][t] = flow[t]
  BY <1>1, <1>2, FlowsExcept
<1>5. [flow EXCEPT ![s] = Append(@, a)] = [flow EXCEPT ![s] = Append(flow[s], a)]
  OBVIOUS
<1> QED
  BY <1>3, <1>4, <1>5

Answering ==
    \/ DeviceDialFails \/ ConnectEstablished
    \/ ServerReplies \/ TargetReplies \/ ClientReceives

LEMMA AnsweringFlow ==
  TunnelInv /\ Answering => /\ flow' \in Flows /\ UpUnchanged
                            /\ seen' \in Seq(Carried)
                            /\ UNCHANGED <<form, host, unsent, devBuf, gwBuf, out>>
<1> SUFFICES ASSUME TunnelInv, Answering
             PROVE  /\ flow' \in Flows /\ UpUnchanged
                    /\ seen' \in Seq(Carried)
                    /\ UNCHANGED <<form, host, unsent, devBuf, gwBuf, out>>
  OBVIOUS
<1>1. flow \in Flows /\ seen \in Seq(Carried)
  BY DEF TunnelInv, StreamInv
<1>2. /\ {"200", "502", "reply"} \subseteq Carried
      /\ {"d2c", "g2d", "t2g"} \subseteq Streams \ UpStreams
  BY DEF Carried, Answers, Streams, UpStreams
<1>3. CASE DeviceDialFails
  <2>1. \/ flow' = flow
        \/ flow' = [flow EXCEPT !["d2c"] = Append(@, "502")]
    BY <1>3 DEF DeviceDialFails
  <2>2. flow' \in Flows /\ UpUnchanged
    <3>1. CASE flow' = flow
      BY <1>1, <3>1 DEF UpUnchanged
    <3>2. CASE flow' = [flow EXCEPT !["d2c"] = Append(@, "502")]
      BY <1>2, <3>2, AnswerGoesDown DEF UpUnchanged, UpStreams
    <3> QED
      BY <2>1, <3>1, <3>2
  <2> QED
    BY <1>1, <1>3, <2>2 DEF DeviceDialFails
<1>4. CASE ConnectEstablished
  <2>1. flow' \in Flows /\ UpUnchanged
    BY <1>2, <1>4, AnswerGoesDown DEF ConnectEstablished, Answer, UpUnchanged, UpStreams
  <2> QED
    BY <1>1, <1>4, <2>1 DEF ConnectEstablished
<1>5. CASE ServerReplies
  <2>1. flow' \in Flows /\ UpUnchanged
    BY <1>2, <1>5, AnswerGoesDown DEF ServerReplies, Answer, UpUnchanged, UpStreams
  <2> QED
    BY <1>1, <1>5, <2>1 DEF ServerReplies
<1>6. CASE TargetReplies
  <2>1. flow' \in Flows /\ UpUnchanged
    BY <1>2, <1>6, AnswerGoesDown DEF TargetReplies, UpUnchanged, UpStreams
  <2> QED
    BY <1>1, <1>6, <2>1 DEF TargetReplies
<1>7. CASE ClientReceives
  <2>1. PICK d \in {"d2c", "g2d"} : d = ClientDown
    BY DEF ClientDown
  <2>2. /\ d \in Streams /\ Carries(d) = Carried
        /\ UpStreams \subseteq Streams \ {d}
        /\ flow[d] \in Seq(Carried) /\ flow[d] # <<>>
    BY <1>1, <1>7, <2>1 DEF ClientReceives, Flows, Carries, Streams, UpStreams
  <2>3. /\ Head(flow[d]) \in Carried
        /\ Tail(flow[d]) \in Seq(Carries(d))
    BY <2>2, HeadAndTail
  <2>4. /\ flow' = [flow EXCEPT ![d] = Tail(flow[d])]
        /\ seen' = Append(seen, Head(flow[d]))
    BY <1>7, <2>1 DEF ClientReceives
  <2>5. flow' \in Flows /\ UpUnchanged
    <3>1. d \in Streams /\ flow \in Flows
      BY <1>1, <2>2
    <3>2. PICK q \in Seq(Carries(d)) : q = Tail(flow[d])
      BY <2>3
    <3>3. [flow EXCEPT ![d] = q] \in Flows
      BY ONLY <3>1, FlowsExcept
    <3>4. \A t \in Streams \ {d} : [flow EXCEPT ![d] = q][t] = flow[t]
      BY ONLY <3>1, FlowsExcept
    <3> QED
      BY <2>2, <2>4, <3>2, <3>3, <3>4 DEF UpUnchanged, UpStreams
  <2>6. seen' \in Seq(Carried)
    BY <1>1, <2>3, <2>4, Appended
  <2> QED
    BY <1>7, <2>5, <2>6 DEF ClientReceives
<1> QED
  BY <1>3, <1>4, <1>5, <1>6, <1>7 DEF Answering

LEMMA AnsweringInv == TunnelInv /\ Answering => TunnelInv'
<1> SUFFICES ASSUME TunnelInv, Answering PROVE TunnelInv'
  OBVIOUS
<1>1. /\ flow' \in Flows /\ seen' \in Seq(Carried)
      /\ UNCHANGED <<flow["g2t"], flow["d2g"], flow["c2d"]>>
      /\ UNCHANGED <<form, host, unsent, devBuf, gwBuf, out>>
  BY AnsweringFlow DEF UpUnchanged
<1>2. StreamInv'
  BY <1>1, Fixed DEF StreamInv
<1>3. flow' \in [Streams -> Seq(Pieces \cup Answers)] /\ seen' \in Seq(Answers)
  <2>1. Seq(Carried) \subseteq Seq(Answers)
    BY DEF Carried
  <2> QED
    BY <1>1, <2>1 DEF Flows
<1>4. Kept
  <2> USE <1>1, <1>3, Fixed
      DEF TunnelInv, TunnelTypeOK, PlaceInv, EndpointInv, Kept, Skipped, GatewayTakes
  <2>1. CASE DeviceDialFails
    BY <2>1 DEF DeviceDialFails
  <2>2. CASE ConnectEstablished
    BY <2>2 DEF ConnectEstablished
  <2>3. CASE ServerReplies
    BY <2>3 DEF ServerReplies
  <2>4. CASE TargetReplies
    BY <2>4 DEF TargetReplies
  <2>5. CASE ClientReceives
    BY <2>5 DEF ClientReceives
  <2> QED
    BY <2>1, <2>2, <2>3, <2>4, <2>5 DEF Answering
<1>5. OrderInv'
  BY <1>1, <1>4, NothingMoves DEF TunnelInv, PlaceInv, EndpointInv, Kept
<1> QED
  BY <1>2, <1>4, <1>5 DEF TunnelInv, Kept

----------------------------------------------------------------------------
(* Steps with which the gateway gives up before it has an endpoint *)

GivesUp == ConnectDenied \/ ConnectAborted \/ RelayDialFails

LEMMA GivesUpInv == TunnelInv /\ GivesUp => TunnelInv'
<1> SUFFICES ASSUME TunnelInv, GivesUp PROVE TunnelInv'
  OBVIOUS
<1>1. /\ UNCHANGED <<form, host, unsent, seen, devBuf, gwBuf, out, dev, endpoint, copier, links>>
      /\ gw \in {"connect", "dial"} /\ gw' = "ended" /\ closed' = closed \cup {"channel"}
  BY DEF GivesUp, ConnectDenied, ConnectAborted, RelayDialFails, GatewayDrops
<1>2. flow' \in Flows /\ UpUnchanged
  <2>1. CASE flow' = flow
    BY <2>1 DEF TunnelInv, StreamInv, UpUnchanged
  <2>2. CASE flow' # flow
    <3>1. /\ gw = "connect" /\ ~Permitted(host)
          /\ flow' = [flow EXCEPT !["g2d"] = Append(@, "403")]
      BY <2>2 DEF GivesUp, ConnectDenied, ConnectAborted, RelayDialFails, Answer
    <3>2. ~Proxied
      BY <3>1 DEF TunnelInv, PlaceInv, Direct, ViaGateway, Permitted, IsMITMHost, HostInList
    <3>3. "403" \in Carried /\ "g2d" \in Streams \ UpStreams
      BY <3>2 DEF Carried, Answers, Streams, UpStreams
    <3> QED
      BY <3>1, <3>3, AnswerGoesDown DEF UpUnchanged, UpStreams
  <2> QED
    BY <2>1, <2>2
<1>3. StreamInv'
  BY <1>1, <1>2, Fixed DEF TunnelInv, StreamInv
<1>4. TunnelTypeOK'
  <2>1. flow' \in [Streams -> Seq(Pieces \cup Answers)]
    BY <1>2 DEF Flows
  <2>2. closed' \subseteq links' /\ links' \subseteq Links
    BY <1>1 DEF TunnelInv, TunnelTypeOK, PlaceInv
  <2> QED
    BY <1>1, <2>1, <2>2
    DEF TunnelInv, TunnelTypeOK, GivesUp, ConnectDenied, ConnectAborted, RelayDialFails
<1>5. PlaceInv' /\ EndpointInv'
  BY <1>1, <1>2, Fixed
  DEF TunnelInv, PlaceInv, EndpointInv, UpUnchanged, GivesUp, ConnectDenied, ConnectAborted,
      RelayDialFails
<1>6. OrderInv'
  <2>1. endpoint = "none" /\ out = <<>> /\ flow["g2t"] = <<>> /\ copier["gwUp"] # "run"
    BY <1>1 DEF TunnelInv, EndpointInv
  <2>2. Skipped' = 0 /\ AfterOut' = 0
    BY <1>1, <2>1, Fixed DEF Skipped, AfterOut
  <2>3. ~GatewayTakes' /\ ~DeviceTakes' /\ dev' \notin {"read", "dial"}
    BY <1>1, <2>1, Fixed DEF GatewayTakes, DeviceTakes, TunnelInv, PlaceInv
  <2>4. Segment(Wire', out', 0) /\ Segment(Wire', flow'["g2t"], 0)
    BY <1>1, <1>2, <2>1, Fixed, WireFacts DEF UpUnchanged, Segment, TunnelInv, TunnelTypeOK
  <2> QED
    BY <2>2, <2>3, <2>4 DEF OrderInv
<1> QED
  BY <1>3, <1>4, <1>5, <1>6 DEF TunnelInv

----------------------------------------------------------------------------
(* Steps that move bytes on *)

(* The first piece of b goes to the end of a, or the first n pieces do.      *)
LEMMA OneMoves ==
  ASSUME NEW S, NEW w \in Seq(S), NEW a \in Seq(S), NEW b \in Seq(S), NEW i \in Nat,
         Segment(w, a, i), Segment(w, b, i + Len(a)), b # <<>>
  PROVE  /\ Segment(w, Append(a, Head(b)), i)
         /\ Segment(w, Tail(b), i + Len(a) + 1)
         /\ Append(a, Head(b)) \in Seq(S) /\ Len(Append(a, Head(b))) = Len(a) + 1
         /\ Tail(b) \in Seq(S) /\ Len(Tail(b)) = Len(b) - 1
<1>1. Len(a) \in Nat /\ Len(b) \in Nat /\ i + Len(a) \in Nat
  BY LenProperties
<1>2. /\ Segment(w, Tail(b), i + Len(a) + 1)
      /\ Head(b) = w[i + Len(a) + 1]
      /\ i + Len(a) + 1 <= Len(w)
  BY <1>1, SegmentTail
<1>3. /\ Head(b) \in S
      /\ Tail(b) \in Seq(S) /\ Len(Tail(b)) = Len(b) - 1
  BY HeadAndTail
<1>4. Segment(w, Append(a, Head(b)), i)
  BY <1>2, <1>3, SegmentAppend
<1> QED
  BY <1>2, <1>3, <1>4, Appended

LEMMA ManyMove ==
  ASSUME NEW S, NEW w \in Seq(S), NEW a \in Seq(S), NEW b \in Seq(S), NEW i \in Nat,
         NEW n \in 1..Len(b),
         Segment(w, a, i), Segment(w, b, i + Len(a))
  PROVE  /\ Segment(w, a \o SubSeq(b, 1, n), i)
         /\ Segment(w, SubSeq(b, n + 1, Len(b)), i + Len(a) + n)
         /\ a \o SubSeq(b, 1, n) \in Seq(S)
         /\ Len(a \o SubSeq(b, 1, n)) = Len(a) + n
         /\ SubSeq(b, n + 1, Len(b)) \in Seq(S)
         /\ Len(SubSeq(b, n + 1, Len(b))) = Len(b) - n
<1>1. Len(a) \in Nat /\ Len(b) \in Nat /\ i + Len(a) \in Nat /\ n \in 0..Len(b)
  BY LenProperties
<1> QED
  BY <1>1, SegmentTake, SegmentDrop, Taken, Dropped

LEMMA ClientSendsInv == TunnelInv /\ ClientSends => TunnelInv'
<1> SUFFICES ASSUME TunnelInv, ClientSends PROVE TunnelInv'
  OBVIOUS
<1>1. PICK to \in {"c2d", "d2g"} :
        /\ to = IF Proxied THEN "c2d" ELSE "d2g"
        /\ UNCHANGED <<form, host, fin, seen, deviceVars, gatewayVars, endpointVars,
                       links, closed, copier>>
        /\ unsent # <<>> /\ unsent' = Tail(unsent)
        /\ flow' = [flow EXCEPT ![to] = Append(flow[to], Head(unsent))]
  BY DEF ClientSends, ClientUp
<1>2. /\ to \in Streams /\ Carries(to) = Pieces
      /\ flow \in Flows /\ flow[to] \in Seq(Pieces) /\ unsent \in Seq(Pieces)
  BY DEF Streams, UpStreams, Carries, TunnelInv, TunnelTypeOK, StreamInv, Flows
<1>3. /\ Head(unsent) \in Pieces /\ Tail(unsent) \in Seq(Pieces)
      /\ Append(flow[to], Head(unsent)) \in Seq(Pieces)
      /\ Len(Append(flow[to], Head(unsent))) = Len(flow[to]) + 1
      /\ Len(Tail(unsent)) = Len(unsent) - 1
  BY <1>1, <1>2, HeadAndTail, Appended
<1>4. /\ flow' \in Flows
      /\ flow'[to] = Append(flow[to], Head(unsent))
      /\ \A t \in Streams \ {to} : flow'[t] = flow[t]
  <2>1. PICK q \in Seq(Carries(to)) : q = Append(flow[to], Head(unsent))
    BY <1>2, <1>3
  <2>2. to \in Streams /\ flow \in Flows
    BY <1>2
  <2>3. /\ [flow EXCEPT ![to] = q] \in Flows
        /\ [flow EXCEPT ![to] = q][to] = q
        /\ \A t \in Streams \ {to} : [flow EXCEPT ![to] = q][t] = flow[t]
    BY ONLY <2>2, FlowsExcept
  <2> QED
    BY <1>1, <2>1, <2>3
<1>5. /\ flow'["g2t"] = flow["g2t"]
      /\ Proxied => flow'["d2g"] = flow["d2g"] /\ flow'["c2d"] = Append(flow["c2d"], Head(unsent))
      /\ ~Proxied => flow'["c2d"] = flow["c2d"] /\ flow'["d2g"] = Append(flow["d2g"], Head(unsent))
  BY <1>1, <1>4 DEF Streams
<1>6. StreamInv'
  BY <1>1, <1>4, Fixed DEF TunnelInv, StreamInv
<1>7. TunnelTypeOK'
  <2>1. flow' \in [Streams -> Seq(Pieces \cup Answers)] /\ unsent' \in Seq(Pieces)
    BY <1>1, <1>3, <1>4 DEF Flows
  <2> QED
    BY <1>1, <2>1 DEF TunnelInv, TunnelTypeOK
<1>8. PlaceInv' /\ EndpointInv'
  BY <1>1, <1>5, Fixed DEF TunnelInv, PlaceInv, EndpointInv
<1>9. OrderInv'
  <2>1. /\ Wire' = Wire /\ Proxied' = Proxied /\ Direct' = Direct
        /\ Skipped' = Skipped /\ AfterOut' = AfterOut /\ AfterTarget' = AfterTarget
        /\ AfterGateway' = AfterGateway
        /\ GatewayTakes' = GatewayTakes /\ DeviceTakes' = DeviceTakes
        /\ Wire \in Seq(Pieces)
    <3>1. Wire' = Wire /\ Proxied' = Proxied /\ Direct' = Direct /\ Connects' = Connects
      BY <1>1, Fixed
    <3>2. Skipped' = Skipped /\ GatewayTakes' = GatewayTakes
      BY <1>1, <3>1 DEF Skipped, GatewayTakes
    <3>3. AfterOut' = AfterOut /\ AfterTarget' = AfterTarget /\ AfterGateway' = AfterGateway
      BY <1>1, <1>5, <3>2 DEF AfterOut, AfterTarget, AfterGateway, OnStream
    <3>4. DeviceTakes' = DeviceTakes
      BY <1>1, <3>1, <3>2 DEF DeviceTakes
    <3> QED
      BY <3>1, <3>2, <3>3, <3>4, WireFacts DEF TunnelInv, TunnelTypeOK
  <2>2. AfterGateway \in Nat /\ AfterDevice \in Nat /\ Len(unsent) \in Nat
        /\ OnStream("d2g") \in Nat /\ OnStream("c2d") \in Nat
    BY Contents, Positions DEF TunnelInv
  <2>3. CASE Proxied
    <3>1. /\ AfterChannel' = AfterChannel /\ DeviceStart' = DeviceStart
          /\ AfterDevice' = AfterDevice
      BY <1>1, <1>5, <2>1, <2>3 DEF AfterChannel, DeviceStart, AfterDevice, OnStream
    <3>2. ASSUME dev \in {"read", "dial"} \/ DeviceTakes
          PROVE  Segment(Wire, flow'["c2d"], AfterDevice) /\ Rest(AfterClient)'
      <4>1. /\ Segment(Wire, flow["c2d"], AfterDevice)
            /\ Segment(Wire, unsent, AfterDevice + OnStream("c2d"))
            /\ AfterDevice + OnStream("c2d") + Len(unsent) = Len(Wire)
        BY <3>2 DEF TunnelInv, OrderInv, Rest, AfterClient
      <4>2. flow["c2d"] \in Seq(Pieces)
        BY Contents DEF TunnelInv
      <4>3. /\ Segment(Wire, flow'["c2d"], AfterDevice)
            /\ Segment(Wire, unsent', AfterDevice + OnStream("c2d") + 1)
            /\ OnStream("c2d")' = OnStream("c2d") + 1
            /\ Len(unsent') = Len(unsent) - 1
        BY <1>1, <1>2, <1>5, <2>1, <2>2, <2>3, <4>1, <4>2, OneMoves DEF OnStream
      <4>4. AfterClient' = AfterDevice + OnStream("c2d") + 1
        BY <2>2, <3>1, <4>3 DEF AfterClient
      <4> QED
        BY <2>1, <2>2, <4>1, <4>3, <4>4 DEF Rest
    <3> QED
      BY <1>1, <1>5, <2>1, <2>3, <3>1, <3>2 DEF TunnelInv, OrderInv
  <2>4. CASE ~Proxied
    <3>1. dev' \notin {"read", "dial"} /\ ~DeviceTakes'
      BY <1>1, <2>1, <2>4 DEF TunnelInv, PlaceInv, EndpointInv, DeviceTakes
    <3>2. ASSUME GatewayTakes
          PROVE  Segment(Wire, flow'["d2g"], AfterGateway) /\ Rest(AfterChannel)'
      <4>1. /\ Segment(Wire, flow["d2g"], AfterGateway)
            /\ Segment(Wire, unsent, AfterGateway + OnStream("d2g"))
            /\ AfterGateway + OnStream("d2g") + Len(unsent) = Len(Wire)
        BY <2>4, <3>2 DEF TunnelInv, OrderInv, Rest, AfterChannel
      <4>2. flow["d2g"] \in Seq(Pieces)
        BY Contents DEF TunnelInv
      <4>3. /\ Segment(Wire, flow'["d2g"], AfterGateway)
            /\ Segment(Wire, unsent', AfterGateway + OnStream("d2g") + 1)
            /\ OnStream("d2g")' = OnStream("d2g") + 1
            /\ Len(unsent') = Len(unsent) - 1
        BY <1>1, <1>2, <1>5, <2>1, <2>2, <2>4, <4>1, <4>2, OneMoves DEF OnStream
      <4>4. AfterChannel' = AfterGateway + OnStream("d2g") + 1
        BY <2>1, <2>2, <4>3 DEF AfterChannel
      <4> QED
        BY <2>1, <2>2, <4>1, <4>3, <4>4 DEF Rest
    <3> QED
      BY <1>1, <1>5, <2>1, <2>4, <3>1, <3>2 DEF TunnelInv, OrderInv
  <2> QED
    BY <2>3, <2>4
<1> QED
  BY <1>6, <1>7, <1>8, <1>9 DEF TunnelInv

(* A stream with another content that it can carry.                          *)
LEMMA UpExcept ==
  ASSUME TunnelInv, NEW s \in UpStreams, NEW q \in Seq(Pieces)
  PROVE  /\ [flow EXCEPT ![s] = q] \in Flows
         /\ [flow EXCEPT ![s] = q][s] = q
         /\ \A t \in Streams \ {s} : [flow EXCEPT ![s] = q][t] = flow[t]
<1>1. flow \in Flows /\ s \in Streams
  BY DEF TunnelInv, StreamInv, UpStreams, Streams
<1>2. q \in Seq(Carries(s))
  BY DEF Carries
<1> QED
  BY ONLY <1>1, <1>2, FlowsExcept

(* The device reads what has come from the client.                           *)
LEMMA DeviceReadsInv ==
  ASSUME TunnelInv, NEW n, DeviceReads(n) PROVE TunnelInv'
<1> DEFINE q == SubSeq(flow["c2d"], n + 1, Len(flow["c2d"]))
<1>1. /\ UNCHANGED <<form, host, clientVars, dev, gatewayVars, endpointVars, links, closed, copier>>
      /\ dev = "read" /\ n \in 1..Len(flow["c2d"])
      /\ devBuf' = devBuf \o SubSeq(flow["c2d"], 1, n)
      /\ flow' = [flow EXCEPT !["c2d"] = q]
  BY DEF DeviceReads, Fill
<1>2. /\ flow["c2d"] \in Seq(Pieces) /\ devBuf \in Seq(Pieces) /\ Wire \in Seq(Pieces)
      /\ OnStream("c2d") \in Nat /\ Len(devBuf) \in Nat
      /\ n \in Nat
  <2>1. n \in Nat
    BY <1>1
  <2> QED
    BY <2>1, Contents DEF TunnelInv
<1>3. gw = "none" /\ endpoint = "none" /\ copier["gwUp"] # "run" /\ copier["devUp"] = "none"
  BY <1>1 DEF TunnelInv, PlaceInv, EndpointInv
<1>4. DeviceStart = 0 /\ AfterDevice = Len(devBuf)
  BY <1>1, <1>2 DEF DeviceStart, AfterDevice
<1>5. /\ Segment(Wire, devBuf, DeviceStart)
      /\ Segment(Wire, flow["c2d"], DeviceStart + Len(devBuf))
      /\ Rest(AfterClient)
  BY <1>1, <1>2 DEF TunnelInv, OrderInv, AfterDevice
<1>6. /\ Segment(Wire, devBuf', DeviceStart)
      /\ Segment(Wire, q, DeviceStart + Len(devBuf) + n)
      /\ devBuf' \in Seq(Pieces) /\ Len(devBuf') = Len(devBuf) + n
      /\ q \in Seq(Pieces) /\ Len(q) = Len(flow["c2d"]) - n
  <2>1. /\ flow["c2d"] \in Seq(Pieces) /\ devBuf \in Seq(Pieces) /\ Wire \in Seq(Pieces)
        /\ DeviceStart \in Nat /\ n \in 1..Len(flow["c2d"])
        /\ Segment(Wire, devBuf, DeviceStart)
        /\ Segment(Wire, flow["c2d"], DeviceStart + Len(devBuf))
    BY <1>1, <1>2, <1>4, <1>5
  <2>2. /\ Segment(Wire, devBuf \o SubSeq(flow["c2d"], 1, n), DeviceStart)
        /\ Segment(Wire, q, DeviceStart + Len(devBuf) + n)
        /\ devBuf \o SubSeq(flow["c2d"], 1, n) \in Seq(Pieces)
        /\ Len(devBuf \o SubSeq(flow["c2d"], 1, n)) = Len(devBuf) + n
        /\ q \in Seq(Pieces) /\ Len(q) = Len(flow["c2d"]) - n
    BY ONLY <2>1, ManyMove
  <2> QED
    BY <1>1, <2>2
<1> HIDE DEF q
<1>7. /\ flow' \in Flows /\ flow'["c2d"] = q
      /\ flow'["g2t"] = flow["g2t"] /\ flow'["d2g"] = flow["d2g"]
  <2>1. "c2d" \in UpStreams
    BY DEF UpStreams
  <2>2. /\ [flow EXCEPT !["c2d"] = q] \in Flows
        /\ [flow EXCEPT !["c2d"] = q]["c2d"] = q
        /\ \A t \in Streams \ {"c2d"} : [flow EXCEPT !["c2d"] = q][t] = flow[t]
    BY <1>6, <2>1, UpExcept
  <2> QED
    BY <1>1, <2>2 DEF Streams
<1>8. StreamInv'
  BY <1>1, <1>7, Fixed DEF TunnelInv, StreamInv
<1>9. TunnelTypeOK'
  <2>1. flow' \in [Streams -> Seq(Pieces \cup Answers)]
    BY <1>7 DEF Flows
  <2> QED
    BY <1>1, <1>6, <2>1 DEF TunnelInv, TunnelTypeOK
<1>10. PlaceInv' /\ EndpointInv'
  BY <1>1, <1>7, Fixed DEF TunnelInv, PlaceInv, EndpointInv
<1>11. OrderInv'
  <2>1. Wire' = Wire /\ Skipped' = Skipped /\ AfterOut' = AfterOut
    BY <1>1, Fixed DEF Skipped, AfterOut
  <2>2. ~GatewayTakes'
    BY <1>1, <1>3 DEF GatewayTakes
  <2>3. /\ DeviceStart' = DeviceStart
        /\ AfterDevice' = DeviceStart + Len(devBuf) + n
        /\ AfterClient' = AfterClient
    <3>1. OnStream("c2d")' = OnStream("c2d") - n
      BY <1>6, <1>7 DEF OnStream
    <3> QED
      BY <1>1, <1>2, <1>4, <1>6, <3>1 DEF DeviceStart, AfterDevice, AfterClient
  <2>4. \A i : Rest(i)' <=> Rest(i)
    BY <1>1, <2>1 DEF Rest
  <2> QED
    BY <1>1, <1>5, <1>6, <1>7, <2>1, <2>2, <2>3, <2>4 DEF TunnelInv, OrderInv
<1> QED
  BY <1>8, <1>9, <1>10, <1>11 DEF TunnelInv

(* The gateway reads what has come on the channel.                           *)
LEMMA GatewayReadsInv ==
  ASSUME TunnelInv, NEW n, GatewayReads(n) PROVE TunnelInv'
<1> DEFINE q == SubSeq(flow["d2g"], n + 1, Len(flow["d2g"]))
<1>1. /\ UNCHANGED <<form, host, clientVars, deviceVars, gw, guard, listening, endpointVars,
                     links, closed, copier>>
      /\ n \in 1..Len(flow["d2g"])
      /\ gwBuf' = gwBuf \o SubSeq(flow["d2g"], 1, n)
      /\ flow' = [flow EXCEPT !["d2g"] = q]
  BY DEF GatewayReads, Fill
<1>2. /\ flow["d2g"] \in Seq(Pieces) /\ gwBuf \in Seq(Pieces) /\ Wire \in Seq(Pieces)
      /\ OnStream("d2g") \in Nat /\ Len(gwBuf) \in Nat
      /\ AfterTarget \in Nat /\ n \in Nat
  <2>1. n \in Nat
    BY <1>1
  <2> QED
    BY <2>1, Contents, Positions DEF TunnelInv
<1>3. gw \in {"peek1", "peek8", "request"} /\ GatewayTakes
  BY <1>2 DEF GatewayReads, Wanted, GatewayTakes
<1>4. Segment(Wire, gwBuf, AfterTarget) /\ Segment(Wire, flow["d2g"], AfterTarget + Len(gwBuf))
  BY <1>3 DEF TunnelInv, OrderInv, AfterGateway
<1>5. /\ Segment(Wire, gwBuf', AfterTarget)
      /\ Segment(Wire, q, AfterTarget + Len(gwBuf) + n)
      /\ gwBuf' \in Seq(Pieces) /\ Len(gwBuf') = Len(gwBuf) + n
      /\ q \in Seq(Pieces) /\ Len(q) = Len(flow["d2g"]) - n
  <2>1. /\ flow["d2g"] \in Seq(Pieces) /\ gwBuf \in Seq(Pieces) /\ Wire \in Seq(Pieces)
        /\ AfterTarget \in Nat /\ n \in 1..Len(flow["d2g"])
        /\ Segment(Wire, gwBuf, AfterTarget)
        /\ Segment(Wire, flow["d2g"], AfterTarget + Len(gwBuf))
    BY <1>1, <1>2, <1>4
  <2>2. /\ Segment(Wire, gwBuf \o SubSeq(flow["d2g"], 1, n), AfterTarget)
        /\ Segment(Wire, q, AfterTarget + Len(gwBuf) + n)
        /\ gwBuf \o SubSeq(flow["d2g"], 1, n) \in Seq(Pieces)
        /\ Len(gwBuf \o SubSeq(flow["d2g"], 1, n)) = Len(gwBuf) + n
        /\ q \in Seq(Pieces) /\ Len(q) = Len(flow["d2g"]) - n
    BY ONLY <2>1, ManyMove
  <2> QED
    BY <1>1, <2>2
<1> HIDE DEF q
<1>6. /\ flow' \in Flows /\ flow'["d2g"] = q
      /\ flow'["g2t"] = flow["g2t"] /\ flow'["c2d"] = flow["c2d"]
  <2>1. "d2g" \in UpStreams
    BY DEF UpStreams
  <2>2. /\ [flow EXCEPT !["d2g"] = q] \in Flows
        /\ [flow EXCEPT !["d2g"] = q]["d2g"] = q
        /\ \A t \in Streams \ {"d2g"} : [flow EXCEPT !["d2g"] = q][t] = flow[t]
    BY <1>5, <2>1, UpExcept
  <2> QED
    BY <1>1, <2>2 DEF Streams
<1>7. StreamInv'
  BY <1>1, <1>6, Fixed DEF TunnelInv, StreamInv
<1>8. TunnelTypeOK'
  <2>1. flow' \in [Streams -> Seq(Pieces \cup Answers)]
    BY <1>6 DEF Flows
  <2> QED
    BY <1>1, <1>5, <2>1 DEF TunnelInv, TunnelTypeOK
<1>9. PlaceInv' /\ EndpointInv'
  BY <1>1, <1>3, <1>6, Fixed DEF TunnelInv, PlaceInv, EndpointInv
<1>10. OrderInv'
  <2>1. /\ Wire' = Wire /\ Proxied' = Proxied /\ Direct' = Direct
        /\ Skipped' = Skipped /\ AfterOut' = AfterOut /\ AfterTarget' = AfterTarget
    BY <1>1, <1>6, Fixed DEF Skipped, AfterOut, AfterTarget, OnStream
  <2>2. AfterGateway' = AfterTarget + Len(gwBuf) + n /\ AfterChannel' = AfterChannel
    <3>1. AfterGateway' = AfterTarget + Len(gwBuf) + n
      BY <1>2, <1>5, <2>1 DEF AfterGateway
    <3>2. OnStream("d2g")' = OnStream("d2g") - n
      BY <1>5, <1>6 DEF OnStream
    <3> QED
      BY <1>1, <1>2, <3>1, <3>2 DEF AfterGateway, AfterChannel
  <2>3. GatewayTakes' = GatewayTakes /\ DeviceTakes' = DeviceTakes
    BY <1>1, <2>1 DEF GatewayTakes, DeviceTakes
  <2>4. /\ DeviceStart' = DeviceStart /\ AfterDevice' = AfterDevice
        /\ AfterClient' = AfterClient
    BY <1>1, <1>6, <2>1, <2>2 DEF DeviceStart, AfterDevice, AfterClient, OnStream
  <2>5. \A i : Rest(i)' <=> Rest(i)
    BY <1>1, <2>1 DEF Rest
  <2> QED
    BY <1>1, <1>5, <1>6, <2>1, <2>2, <2>3, <2>4, <2>5 DEF TunnelInv, OrderInv
<1> QED
  BY <1>7, <1>8, <1>9, <1>10 DEF TunnelInv

(* The CONNECT, which the device writes again and the gateway reads whole.   *)
LEMMA HeadFacts ==
  /\ Head3 \in Seq(Pieces) /\ Len(Head3) = 3 /\ Head3 # <<>>
  /\ form \in Forms /\ Connects => Segment(Wire, Head3, 0)
<1>1. /\ Head3 \in Seq(Pieces) /\ Len(Head3) = 3 /\ Head3 # <<>>
      /\ Head3[1] = "C" /\ Head3[2] = "ONNECT" /\ Head3[3] = "head"
  BY DEF Head3, Pieces
<1>2. ASSUME form \in Forms, Connects
      PROVE  Segment(Wire, Head3, 0)
  <2>1. Len(Wire) = 5 /\ Wire[1] = Head3[1] /\ Wire[2] = Head3[2] /\ Wire[3] = Head3[3]
    BY <1>1, <1>2, WireFacts
  <2>2. \A k \in 1..3 : Wire[0 + k] = Head3[k]
    BY <2>1
  <2> QED
    BY <1>1, <2>1, <2>2 DEF Segment
<1> QED
  BY <1>1, <1>2

(* The device has read the CONNECT and takes it out of its buffer.           *)
LEMMA DeviceHasRequestInv == TunnelInv /\ DeviceHasRequest => TunnelInv'
<1> SUFFICES ASSUME TunnelInv, DeviceHasRequest PROVE TunnelInv'
  OBVIOUS
<1>1. /\ UNCHANGED <<form, host, clientVars, gatewayVars, endpointVars, streamVars>>
      /\ dev = "read" /\ dev' = "dial"
      /\ 3 \in 0..Len(devBuf) /\ devBuf' = SubSeq(devBuf, 3 + 1, Len(devBuf))
  BY HeadFacts, Contents DEF DeviceHasRequest, TunnelInv
<1>2. devBuf \in Seq(Pieces) /\ Wire \in Seq(Pieces) /\ Len(devBuf) \in Nat
  BY Contents DEF TunnelInv
<1>3. DeviceStart = 0 /\ DeviceStart' = 3
  BY <1>1 DEF DeviceStart
<1>4. Segment(Wire, devBuf, 0)
  BY <1>1, <1>3 DEF TunnelInv, OrderInv
<1>5. /\ Segment(Wire, devBuf', 0 + 3)
      /\ devBuf' \in Seq(Pieces) /\ Len(devBuf') = Len(devBuf) - 3
  BY <1>1, <1>2, <1>4, SegmentDrop, Dropped
<1>6. AfterDevice' = AfterDevice /\ AfterClient' = AfterClient
  <2>1. AfterDevice' = AfterDevice
    BY <1>2, <1>3, <1>5 DEF AfterDevice
  <2>2. OnStream("c2d")' = OnStream("c2d")
    BY <1>1 DEF OnStream
  <2> QED
    BY <2>1, <2>2 DEF AfterClient
<1>7. TunnelTypeOK' /\ StreamInv' /\ PlaceInv' /\ EndpointInv'
  BY <1>1, <1>5, Fixed DEF TunnelInv, TunnelTypeOK, StreamInv, PlaceInv, EndpointInv
<1>8. OrderInv'
  <2>1. Wire' = Wire /\ Skipped' = Skipped /\ AfterOut' = AfterOut
    BY <1>1, Fixed DEF Skipped, AfterOut
  <2>2. ~GatewayTakes'
    BY <1>1 DEF GatewayTakes, TunnelInv, PlaceInv, EndpointInv
  <2>3. \A i : Rest(i)' <=> Rest(i)
    BY <1>1, <2>1 DEF Rest
  <2> QED
    BY <1>1, <1>3, <1>5, <1>6, <2>1, <2>2, <2>3 DEF TunnelInv, OrderInv
<1> QED
  BY <1>7, <1>8 DEF TunnelInv

(* The gateway does the same.                                                *)
LEMMA ReadRequestInv == TunnelInv /\ ReadRequest => TunnelInv'
<1> SUFFICES ASSUME TunnelInv, ReadRequest PROVE TunnelInv'
  OBVIOUS
<1>1. /\ UNCHANGED <<form, host, clientVars, deviceVars, listening, endpointVars, streamVars>>
      /\ gw = "request" /\ gw' = "connect"
      /\ 3 \in 0..Len(gwBuf) /\ gwBuf' = SubSeq(gwBuf, 3 + 1, Len(gwBuf))
      /\ guard' \in {guard, "stopped"}
  BY HeadFacts, Contents DEF ReadRequest, StopGuard, TunnelInv
<1>2. /\ gwBuf \in Seq(Pieces) /\ Wire \in Seq(Pieces) /\ Len(gwBuf) \in Nat
      /\ Connects /\ Connects' = Connects
  BY <1>1, Contents, Fixed DEF TunnelInv, PlaceInv
<1>3. /\ out = <<>> /\ flow["g2t"] = <<>> /\ endpoint = "none"
      /\ Skipped = 0 /\ AfterTarget = 0
  BY <1>1, OpeningFacts DEF TunnelInv, EndpointInv
<1>4. Skipped' = 3 /\ AfterOut' = 3 /\ AfterTarget' = 3
  <2>1. Skipped' = 3
    BY <1>1, <1>2 DEF Skipped
  <2>2. Len(out') = 0 /\ OnStream("g2t")' = 0
    BY <1>1, <1>3 DEF OnStream
  <2> QED
    BY <2>1, <2>2 DEF AfterOut, AfterTarget
<1>5. Segment(Wire, gwBuf, 0)
  BY <1>1, <1>3 DEF TunnelInv, OrderInv, GatewayTakes
<1>6. /\ Segment(Wire, gwBuf', 0 + 3)
      /\ gwBuf' \in Seq(Pieces) /\ Len(gwBuf') = Len(gwBuf) - 3
  BY <1>1, <1>2, <1>5, SegmentDrop, Dropped
<1>7. AfterGateway' = AfterGateway /\ AfterChannel' = AfterChannel
  <2>1. AfterGateway' = AfterGateway
    BY <1>2, <1>3, <1>4, <1>6 DEF AfterGateway
  <2> QED
    BY <1>1, <2>1 DEF AfterChannel, OnStream
<1>8. TunnelTypeOK' /\ StreamInv' /\ PlaceInv' /\ EndpointInv'
  BY <1>1, <1>2, <1>3, <1>6, Fixed DEF TunnelInv, TunnelTypeOK, StreamInv, PlaceInv, EndpointInv
<1>9. OrderInv'
  <2>1. Wire' = Wire /\ Proxied' = Proxied /\ Direct' = Direct
    BY <1>1, Fixed
  <2>2. GatewayTakes /\ DeviceTakes' = DeviceTakes
    BY <1>1, <2>1 DEF GatewayTakes, DeviceTakes
  <2>3. ~Direct
    BY <1>1 DEF TunnelInv, PlaceInv
  <2>4. /\ DeviceStart' = DeviceStart /\ AfterDevice' = AfterDevice
        /\ AfterClient' = AfterClient
    BY <1>1, <1>7, <2>1, <2>3 DEF DeviceStart, AfterDevice, AfterClient, OnStream
  <2>5. \A i : Rest(i)' <=> Rest(i)
    BY <1>1, <2>1 DEF Rest
  <2>6. /\ Segment(Wire', out', Skipped') /\ Segment(Wire', flow'["g2t"], AfterOut')
    <3>1. 3 <= Len(Wire)
      <4>1. form \in Forms
        BY DEF TunnelInv, TunnelTypeOK
      <4>2. Len(Wire) = 5
        BY ONLY <1>2, <4>1, WireFacts
      <4> QED
        BY ONLY <4>2
    <3>2. Segment(Wire, <<>>, 3)
      BY <1>2, <3>1, SegmentNil
    <3>3. out' = <<>> /\ flow'["g2t"] = <<>>
      BY <1>1, <1>3
    <3> QED
      BY <1>4, <2>1, <3>2, <3>3
  <2> QED
    BY <1>1, <1>4, <1>6, <1>7, <2>1, <2>2, <2>4, <2>5, <2>6 DEF TunnelInv, OrderInv
<1> QED
  BY <1>8, <1>9 DEF TunnelInv

----------------------------------------------------------------------------
(* The device dials *)

(* What holds at this point: nothing has been sent up beyond the device.     *)
LEMMA DialFacts ==
  TunnelInv /\ dev = "dial" =>
      /\ Proxied /\ Connects /\ gw = "none" /\ gwBuf = <<>> /\ endpoint = "none" /\ out = <<>>
      /\ flow["g2t"] = <<>> /\ copier["gwUp"] = "none" /\ copier["devUp"] = "none"
      /\ "client" \in links /\ DeviceStart = 3
      /\ AfterDevice = 3 + Len(devBuf)
      /\ Segment(Wire, devBuf, 3)
      /\ Segment(Wire, flow["c2d"], AfterDevice)
      /\ Rest(AfterClient)
<1> SUFFICES ASSUME TunnelInv, dev = "dial"
             PROVE  /\ Proxied /\ Connects /\ gw = "none" /\ gwBuf = <<>> /\ endpoint = "none"
                    /\ out = <<>> /\ flow["g2t"] = <<>>
                    /\ copier["gwUp"] = "none" /\ copier["devUp"] = "none"
                    /\ "client" \in links /\ DeviceStart = 3
                    /\ AfterDevice = 3 + Len(devBuf)
                    /\ Segment(Wire, devBuf, 3)
                    /\ Segment(Wire, flow["c2d"], AfterDevice)
                    /\ Rest(AfterClient)
  OBVIOUS
<1>1. /\ Proxied /\ Connects /\ gw = "none" /\ gwBuf = <<>> /\ endpoint = "none" /\ out = <<>>
      /\ flow["g2t"] = <<>> /\ copier["gwUp"] = "none" /\ copier["devUp"] = "none"
      /\ "client" \in links
  BY DEF TunnelInv, PlaceInv, EndpointInv, Proxied, Connects
<1>2. DeviceStart = 3 /\ AfterDevice = 3 + Len(devBuf)
  BY DEF DeviceStart, AfterDevice
<1>3. /\ Segment(Wire, devBuf, DeviceStart)
      /\ Segment(Wire, flow["c2d"], AfterDevice)
      /\ Rest(AfterClient)
  BY DEF TunnelInv, OrderInv
<1> QED
  BY <1>1, <1>2, <1>3

(* Positions after the dial, whichever way the bytes will go.                *)
LEMMA Handed ==
  ASSUME TunnelInv, dev = "dial", dev' = "pipe",
         UNCHANGED <<form, host, unsent, devBuf, flow["c2d"]>>,
         DeviceStart' = 3
  PROVE  /\ Segment(Wire', devBuf', DeviceStart')
         /\ Segment(Wire', flow'["c2d"], AfterDevice')
         /\ Rest(AfterClient)'
<1>1. Wire' = Wire
  BY Fixed
<1>2. AfterDevice' = AfterDevice
  BY DialFacts DEF AfterDevice
<1>3. AfterClient' = AfterClient
  BY <1>2 DEF AfterClient, OnStream
<1> QED
  BY <1>1, <1>2, <1>3, DialFacts DEF Rest

LEMMA DeviceTunnelsInv == TunnelInv /\ DeviceTunnels => TunnelInv'
<1> SUFFICES ASSUME TunnelInv, DeviceTunnels PROVE TunnelInv'
  OBVIOUS
<1>1. /\ UNCHANGED <<form, host, clientVars, devBuf, gwBuf, listening, endpointVars, closed>>
      /\ dev = "dial" /\ dev' = "pipe" /\ ~Direct
      /\ gw' = "peek1" /\ guard' = "armed"
      /\ links' = links \cup {"channel"}
      /\ flow' = [flow EXCEPT !["d2g"] = Head3]
      /\ StartCopying(DeviceCopiers)
  BY DEF DeviceTunnels
<1>2. /\ Proxied /\ Connects /\ gw = "none" /\ gwBuf = <<>> /\ endpoint = "none" /\ out = <<>>
      /\ flow["g2t"] = <<>> /\ copier["gwUp"] = "none" /\ "client" \in links
  BY <1>1, DialFacts
<1>3. Wire \in Seq(Pieces) /\ Len(Wire) \in Nat /\ Segment(Wire, Head3, 0)
  BY <1>2, HeadFacts, Contents DEF TunnelInv, TunnelTypeOK
<1>4. /\ copier' \in [Copiers -> {"none", "run", "done"}]
      /\ copier'["devUp"] = "run" /\ copier'["gwUp"] = "none"
  BY <1>1, <1>2 DEF StartCopying, TunnelInv, TunnelTypeOK, Copiers, DeviceCopiers, GatewayCopiers
<1>5. /\ flow' \in Flows /\ flow'["d2g"] = Head3
      /\ flow'["g2t"] = flow["g2t"] /\ flow'["c2d"] = flow["c2d"]
  <2>1. "d2g" \in UpStreams /\ Head3 \in Seq(Pieces)
    BY HeadFacts DEF UpStreams
  <2>2. /\ [flow EXCEPT !["d2g"] = Head3] \in Flows
        /\ [flow EXCEPT !["d2g"] = Head3]["d2g"] = Head3
        /\ \A t \in Streams \ {"d2g"} : [flow EXCEPT !["d2g"] = Head3][t] = flow[t]
    BY <2>1, UpExcept
  <2> QED
    BY <1>1, <2>2 DEF Streams
<1>6. StreamInv'
  BY <1>1, <1>5, Fixed DEF TunnelInv, StreamInv
<1>7. TunnelTypeOK'
  <2>1. flow' \in [Streams -> Seq(Pieces \cup Answers)]
    BY <1>5 DEF Flows
  <2> QED
    BY <1>1, <1>4, <2>1 DEF TunnelInv, TunnelTypeOK, Links
<1>8. PlaceInv'
  BY <1>1, <1>2, <1>4, Fixed DEF TunnelInv, PlaceInv
<1>9. EndpointInv'
  BY <1>1, <1>2, <1>4, <1>5, Fixed DEF TunnelInv, EndpointInv
<1>10. OrderInv'
  <2>1. Wire' = Wire /\ Proxied' = Proxied /\ Direct' = Direct
    BY <1>1, Fixed
  <2>2. Skipped' = 0 /\ out' = <<>> /\ gwBuf' = <<>> /\ flow'["g2t"] = <<>>
    BY <1>1, <1>2, <1>5 DEF Skipped
  <2>3. AfterOut' = 0 /\ AfterTarget' = 0 /\ AfterGateway' = 0 /\ AfterChannel' = 3
    <3>1. AfterOut' = 0
      BY <2>2 DEF AfterOut
    <3>2. AfterTarget' = 0
      BY <2>2, <3>1 DEF AfterTarget, OnStream
    <3>3. AfterGateway' = 0
      BY <2>2, <3>2 DEF AfterGateway
    <3>4. OnStream("d2g")' = 3
      BY <1>5, HeadFacts DEF OnStream
    <3> QED
      BY <3>1, <3>2, <3>3, <3>4 DEF AfterChannel
  <2>4. DeviceStart' = 3
    BY <1>1, <2>1, <2>3 DEF DeviceStart
  <2>5. /\ Segment(Wire', devBuf', DeviceStart')
        /\ Segment(Wire', flow'["c2d"], AfterDevice')
        /\ Rest(AfterClient)'
    BY <1>1, <1>5, <2>4, Handed
  <2>6. Segment(Wire, <<>>, 0)
    BY <1>3, SegmentNil
  <2> QED
    BY <1>2, <1>3, <1>5, <2>1, <2>2, <2>3, <2>5, <2>6 DEF OrderInv
<1> QED
  BY <1>6, <1>7, <1>8, <1>9, <1>10 DEF TunnelInv

LEMMA DeviceTunnelBreaksInv == TunnelInv /\ DeviceTunnelBreaks => TunnelInv'
<1> SUFFICES ASSUME TunnelInv, DeviceTunnelBreaks PROVE TunnelInv'
  OBVIOUS
<1>1. /\ UNCHANGED <<form, host, clientVars, devBuf, gwBuf, listening, endpointVars, copier>>
      /\ dev = "dial" /\ dev' = "ended" /\ ~Direct
      /\ gw' = "peek1" /\ guard' = "armed"
      /\ links' = links \cup {"channel"} /\ closed' = closed \cup {"client", "channel"}
      /\ \/ flow' = flow
         \/ flow' = [flow EXCEPT !["d2c"] = Append(@, "502")]
  BY DEF DeviceTunnelBreaks
<1>2. /\ Proxied /\ Connects /\ gw = "none" /\ gwBuf = <<>> /\ endpoint = "none" /\ out = <<>>
      /\ flow["g2t"] = <<>> /\ copier["gwUp"] = "none" /\ copier["devUp"] = "none"
      /\ "client" \in links /\ flow["d2g"] = <<>>
  BY <1>1, DialFacts DEF TunnelInv, PlaceInv
<1>3. flow' \in Flows /\ UpUnchanged
  <2>1. CASE flow' = flow
    BY <2>1 DEF TunnelInv, StreamInv, UpUnchanged
  <2>2. CASE flow' = [flow EXCEPT !["d2c"] = Append(@, "502")]
    <3>1. "502" \in Carried /\ "d2c" \in Streams \ UpStreams
      BY DEF Carried, Answers, Streams, UpStreams
    <3> QED
      BY <2>2, <3>1, AnswerGoesDown DEF UpUnchanged, UpStreams
  <2> QED
    BY <1>1, <2>1, <2>2
<1>4. StreamInv'
  BY <1>1, <1>3, Fixed DEF TunnelInv, StreamInv
<1>5. TunnelTypeOK'
  <2>1. flow' \in [Streams -> Seq(Pieces \cup Answers)]
    BY <1>3 DEF Flows
  <2>2. closed' \subseteq links' /\ links' \subseteq Links
    BY <1>1, <1>2 DEF TunnelInv, TunnelTypeOK, Links
  <2> QED
    BY <1>1, <2>1, <2>2 DEF TunnelInv, TunnelTypeOK
<1>6. PlaceInv' /\ EndpointInv'
  BY <1>1, <1>2, <1>3, Fixed DEF TunnelInv, PlaceInv, EndpointInv, UpUnchanged
<1>7. OrderInv'
  <2>1. Wire' = Wire /\ Proxied' = Proxied /\ Direct' = Direct
    BY <1>1, Fixed
  <2>2. /\ Skipped' = 0 /\ out' = <<>> /\ gwBuf' = <<>>
        /\ flow'["g2t"] = <<>> /\ flow'["d2g"] = <<>>
    BY <1>1, <1>2, <1>3 DEF Skipped, UpUnchanged
  <2>3. AfterOut' = 0 /\ AfterTarget' = 0 /\ AfterGateway' = 0
    BY <2>2 DEF AfterOut, AfterTarget, AfterGateway, OnStream
  <2>4. ~DeviceTakes'
    BY <1>1, <1>2 DEF DeviceTakes
  <2>5. Segment(Wire, <<>>, 0)
    BY SegmentNil, Contents DEF TunnelInv
  <2> QED
    BY <1>1, <1>2, <2>1, <2>2, <2>3, <2>4, <2>5 DEF OrderInv
<1> QED
  BY <1>4, <1>5, <1>6, <1>7 DEF TunnelInv

LEMMA DeviceDialsInv == TunnelInv /\ DeviceDials => TunnelInv'
<1> SUFFICES ASSUME TunnelInv, DeviceDials PROVE TunnelInv'
  OBVIOUS
<1>1. /\ UNCHANGED <<form, host, clientVars, devBuf, gatewayVars, out, answered, closed>>
      /\ dev = "dial" /\ dev' = "pipe" /\ Direct
      /\ links' = links \cup {"target"} /\ endpoint' = "target"
      /\ flow' = [flow EXCEPT !["d2c"] = Append(@, "200")]
      /\ StartCopying(DeviceCopiers)
  BY DEF DeviceDials
<1>2. /\ Proxied /\ Connects /\ gw = "none" /\ gwBuf = <<>> /\ endpoint = "none" /\ out = <<>>
      /\ flow["g2t"] = <<>> /\ copier["gwUp"] = "none" /\ "client" \in links
      /\ ~IsMITMHost(host)
  BY <1>1, DialFacts DEF Direct, ViaGateway, IsMITMHost
<1>3. /\ copier' \in [Copiers -> {"none", "run", "done"}]
      /\ copier'["devUp"] = "run" /\ copier'["gwUp"] = "none"
  BY <1>1, <1>2 DEF StartCopying, TunnelInv, TunnelTypeOK, Copiers, DeviceCopiers, GatewayCopiers
<1>4. flow' \in Flows /\ UpUnchanged
  <2>1. "200" \in Carried /\ "d2c" \in Streams \ UpStreams
    BY DEF Carried, Answers, Streams, UpStreams
  <2> QED
    BY <1>1, <2>1, AnswerGoesDown DEF UpUnchanged, UpStreams
<1>5. StreamInv'
  BY <1>1, <1>4, Fixed DEF TunnelInv, StreamInv
<1>6. TunnelTypeOK'
  <2>1. flow' \in [Streams -> Seq(Pieces \cup Answers)]
    BY <1>4 DEF Flows
  <2> QED
    BY <1>1, <1>3, <2>1 DEF TunnelInv, TunnelTypeOK, Links
<1>7. PlaceInv'
  BY <1>1, <1>2, <1>3, Fixed DEF TunnelInv, PlaceInv
<1>8. EndpointInv'
  BY <1>1, <1>2, <1>3, <1>4, Fixed DEF TunnelInv, EndpointInv, UpUnchanged
<1>9. OrderInv'
  <2>1. Wire' = Wire /\ Proxied' = Proxied /\ Direct' = Direct /\ Connects' = Connects
    BY <1>1, Fixed
  <2>2. Skipped' = 3 /\ out' = <<>> /\ flow'["g2t"] = <<>>
    BY <1>1, <1>2, <1>4, <2>1 DEF Skipped, UpUnchanged
  <2>3. AfterOut' = 3 /\ AfterTarget' = 3
    BY <2>2 DEF AfterOut, AfterTarget, OnStream
  <2>4. DeviceStart' = 3
    BY <1>1, <2>1, <2>3 DEF DeviceStart
  <2>5. /\ Segment(Wire', devBuf', DeviceStart')
        /\ Segment(Wire', flow'["c2d"], AfterDevice')
        /\ Rest(AfterClient)'
    BY <1>1, <1>4, <2>4, Handed DEF UpUnchanged
  <2>6. Segment(Wire, <<>>, 3)
    <3>1. form \in Forms /\ Wire \in Seq(Pieces)
      BY Contents DEF TunnelInv, TunnelTypeOK
    <3>2. Len(Wire) = 5
      BY ONLY <1>2, <3>1, WireFacts
    <3>3. 3 <= Len(Wire)
      BY ONLY <3>2
    <3> QED
      BY ONLY <3>1, <3>3, SegmentNil
  <2>7. ~GatewayTakes'
    BY <1>1, <1>2, <1>3 DEF GatewayTakes
  <2> QED
    BY <2>1, <2>2, <2>3, <2>5, <2>6, <2>7 DEF OrderInv
<1> QED
  BY <1>5, <1>6, <1>7, <1>8, <1>9 DEF TunnelInv

----------------------------------------------------------------------------
(* The endpoint reads, the relay and the device's pipe copy *)

(* What has not reached the gateway's buffer stays in order.                 *)
BeyondGateway ==
    /\ GatewayTakes /\ ~Proxied => Rest(AfterChannel)
    /\ dev \in {"read", "dial"} \/ DeviceTakes =>
           /\ Segment(Wire, devBuf, DeviceStart)
           /\ Segment(Wire, flow["c2d"], AfterDevice)
           /\ Rest(AfterClient)

LEMMA StaysBeyond ==
  ASSUME OrderInv, UNCHANGED <<form, host, unsent, dev, devBuf, flow["c2d"], copier["devUp"]>>,
         GatewayTakes' = GatewayTakes,
         AfterChannel' = AfterChannel, Direct => AfterTarget' = AfterTarget
  PROVE  BeyondGateway'
<1>1. Wire' = Wire /\ Proxied' = Proxied /\ Direct' = Direct
  BY Fixed
<1>2. DeviceTakes' = DeviceTakes
  BY <1>1 DEF DeviceTakes
<1>3. DeviceStart' = DeviceStart
  BY <1>1 DEF DeviceStart
<1>4. AfterDevice' = AfterDevice /\ AfterClient' = AfterClient
  BY <1>3 DEF AfterDevice, AfterClient, OnStream
<1>5. \A i : Rest(i)' <=> Rest(i)
  BY <1>1 DEF Rest
<1> QED
  BY <1>1, <1>2, <1>3, <1>4, <1>5 DEF OrderInv, BeyondGateway

LEMMA TargetReadsInv == TunnelInv /\ TargetReads => TunnelInv'
<1> SUFFICES ASSUME TunnelInv, TargetReads PROVE TunnelInv'
  OBVIOUS
<1> DEFINE q == Tail(flow["g2t"])
<1>1. /\ UNCHANGED <<form, host, clientVars, deviceVars, gatewayVars, endpoint, answered,
                     links, closed, copier>>
      /\ endpoint = "target" /\ flow["g2t"] # <<>>
      /\ out' = Append(out, Head(flow["g2t"]))
      /\ flow' = [flow EXCEPT !["g2t"] = q]
  BY DEF TargetReads
<1>2. /\ Wire \in Seq(Pieces) /\ out \in Seq(Pieces) /\ flow["g2t"] \in Seq(Pieces)
      /\ Len(out) \in Nat /\ OnStream("g2t") \in Nat /\ Skipped \in Nat
  BY Contents, Positions DEF TunnelInv
<1>3. Segment(Wire, out, Skipped) /\ Segment(Wire, flow["g2t"], Skipped + Len(out))
  BY DEF TunnelInv, OrderInv, AfterOut
<1>4. /\ Segment(Wire, out', Skipped) /\ Segment(Wire, q, Skipped + Len(out) + 1)
      /\ out' \in Seq(Pieces) /\ Len(out') = Len(out) + 1
      /\ q \in Seq(Pieces) /\ Len(q) = Len(flow["g2t"]) - 1
  BY <1>1, <1>2, <1>3, OneMoves
<1> HIDE DEF q
<1>5. /\ flow' \in Flows /\ flow'["g2t"] = q
      /\ flow'["d2g"] = flow["d2g"] /\ flow'["c2d"] = flow["c2d"]
  <2>1. "g2t" \in UpStreams
    BY DEF UpStreams
  <2>2. /\ [flow EXCEPT !["g2t"] = q] \in Flows
        /\ [flow EXCEPT !["g2t"] = q]["g2t"] = q
        /\ \A t \in Streams \ {"g2t"} : [flow EXCEPT !["g2t"] = q][t] = flow[t]
    BY <1>4, <2>1, UpExcept
  <2> QED
    BY <1>1, <2>2 DEF Streams
<1>6. StreamInv'
  BY <1>1, <1>5, Fixed DEF TunnelInv, StreamInv
<1>7. TunnelTypeOK'
  <2>1. flow' \in [Streams -> Seq(Pieces \cup Answers)]
    BY <1>5 DEF Flows
  <2> QED
    BY <1>1, <1>4, <2>1 DEF TunnelInv, TunnelTypeOK
<1>8. PlaceInv' /\ EndpointInv'
  BY <1>1, <1>5, Fixed DEF TunnelInv, PlaceInv, EndpointInv
<1>9. OrderInv'
  <2>1. /\ Wire' = Wire /\ Skipped' = Skipped
        /\ GatewayTakes' = GatewayTakes
    BY <1>1, Fixed DEF Skipped, GatewayTakes
  <2>2. AfterOut' = Skipped + Len(out) + 1
    BY <1>2, <1>4, <2>1 DEF AfterOut
  <2>3. AfterTarget' = AfterTarget
    <3>1. OnStream("g2t")' = OnStream("g2t") - 1
      BY <1>4, <1>5 DEF OnStream
    <3> QED
      BY <1>2, <2>2, <3>1 DEF AfterOut, AfterTarget
  <2>4. AfterGateway' = AfterGateway /\ AfterChannel' = AfterChannel
    BY <1>1, <1>5, <2>3 DEF AfterGateway, AfterChannel, OnStream
  <2>5. BeyondGateway'
    BY <1>1, <1>5, <2>1, <2>3, <2>4, StaysBeyond DEF TunnelInv
  <2> QED
    BY <1>1, <1>4, <1>5, <2>1, <2>2, <2>3, <2>4, <2>5 DEF TunnelInv, OrderInv, BeyondGateway
<1> QED
  BY <1>6, <1>7, <1>8, <1>9 DEF TunnelInv

LEMMA ServerReadsInv == TunnelInv /\ ServerReads => TunnelInv'
<1> SUFFICES ASSUME TunnelInv, ServerReads PROVE TunnelInv'
  OBVIOUS
<1> DEFINE q == Tail(flow["d2g"])
<1>1. /\ UNCHANGED <<form, host, clientVars, deviceVars, gw, guard, listening, endpoint, answered,
                     links, closed, copier>>
      /\ gw = "served"
  BY DEF ServerReads
<1>2. /\ Wire \in Seq(Pieces) /\ out \in Seq(Pieces) /\ gwBuf \in Seq(Pieces)
      /\ flow["d2g"] \in Seq(Pieces)
      /\ Len(out) \in Nat /\ Len(gwBuf) \in Nat /\ OnStream("d2g") \in Nat /\ Skipped \in Nat
  BY Contents, Positions DEF TunnelInv
<1>3. /\ endpoint \in {"tls", "http"} /\ flow["g2t"] = <<>> /\ GatewayTakes /\ ~Direct
  BY <1>1 DEF TunnelInv, PlaceInv, EndpointInv, GatewayTakes
<1>4. /\ AfterTarget = Skipped + Len(out) /\ AfterGateway = Skipped + Len(out) + Len(gwBuf)
  BY <1>2, <1>3 DEF AfterOut, AfterTarget, AfterGateway, OnStream
<1>5. /\ Segment(Wire, out, Skipped) /\ Segment(Wire, gwBuf, Skipped + Len(out))
      /\ Segment(Wire, flow["d2g"], Skipped + Len(out) + Len(gwBuf))
  BY <1>3, <1>4 DEF TunnelInv, OrderInv
<1>6. /\ Wire' = Wire /\ Skipped' = Skipped
      /\ GatewayTakes' = GatewayTakes
  BY <1>1, Fixed DEF Skipped, GatewayTakes
<1>7. CASE /\ gwBuf # <<>> /\ out' = Append(out, Head(gwBuf)) /\ gwBuf' = Tail(gwBuf)
           /\ UNCHANGED flow
  <2>1. /\ Segment(Wire, out', Skipped) /\ Segment(Wire, gwBuf', Skipped + Len(out) + 1)
        /\ out' \in Seq(Pieces) /\ Len(out') = Len(out) + 1
        /\ gwBuf' \in Seq(Pieces) /\ Len(gwBuf') = Len(gwBuf) - 1
    BY <1>2, <1>5, <1>7, OneMoves
  <2>2. StreamInv' /\ TunnelTypeOK' /\ PlaceInv' /\ EndpointInv'
    BY <1>1, <1>3, <1>7, <2>1, Fixed
    DEF TunnelInv, StreamInv, TunnelTypeOK, PlaceInv, EndpointInv
  <2>3. /\ AfterOut' = Skipped + Len(out) + 1 /\ AfterTarget' = Skipped + Len(out) + 1
    <3>1. AfterOut' = Skipped + Len(out) + 1
      BY <1>2, <1>6, <2>1 DEF AfterOut
    <3>2. OnStream("g2t")' = 0
      BY <1>3, <1>7 DEF OnStream
    <3> QED
      BY <1>2, <3>1, <3>2 DEF AfterTarget
  <2>4. AfterGateway' = AfterGateway
    BY <1>2, <1>4, <2>1, <2>3 DEF AfterGateway
  <2>5. AfterChannel' = AfterChannel
    BY <1>7, <2>4 DEF AfterChannel, OnStream
  <2>6. BeyondGateway'
    BY <1>1, <1>3, <1>6, <1>7, <2>5, StaysBeyond DEF TunnelInv
  <2>7. Segment(Wire, <<>>, Skipped + Len(out) + 1)
    <3>1. Skipped + Len(out) + 1 <= Len(Wire)
      BY <1>2, <2>1 DEF Segment
    <3> QED
      BY <1>2, <3>1, SegmentNil
  <2>8. OrderInv'
    BY <1>3, <1>4, <1>5, <1>6, <1>7, <2>1, <2>3, <2>4, <2>6, <2>7 DEF OrderInv, BeyondGateway
  <2> QED
    BY <2>2, <2>8 DEF TunnelInv
<1>8. CASE /\ gwBuf = <<>> /\ flow["d2g"] # <<>> /\ out' = Append(out, Head(flow["d2g"]))
           /\ flow' = [flow EXCEPT !["d2g"] = q] /\ UNCHANGED gwBuf
  <2>1. Segment(Wire, flow["d2g"], Skipped + Len(out))
    BY <1>2, <1>5, <1>8
  <2>2. /\ Segment(Wire, out', Skipped) /\ Segment(Wire, q, Skipped + Len(out) + 1)
        /\ out' \in Seq(Pieces) /\ Len(out') = Len(out) + 1
        /\ q \in Seq(Pieces) /\ Len(q) = Len(flow["d2g"]) - 1
    BY <1>2, <1>5, <1>8, <2>1, OneMoves
  <2> HIDE DEF q
  <2>3. /\ flow' \in Flows /\ flow'["d2g"] = q
        /\ flow'["g2t"] = flow["g2t"] /\ flow'["c2d"] = flow["c2d"]
    <3>1. "d2g" \in UpStreams
      BY DEF UpStreams
    <3>2. /\ [flow EXCEPT !["d2g"] = q] \in Flows
          /\ [flow EXCEPT !["d2g"] = q]["d2g"] = q
          /\ \A t \in Streams \ {"d2g"} : [flow EXCEPT !["d2g"] = q][t] = flow[t]
      BY <2>2, <3>1, UpExcept
    <3> QED
      BY <1>8, <3>2 DEF Streams
  <2>4. TunnelTypeOK'
    <3>1. flow' \in [Streams -> Seq(Pieces \cup Answers)]
      BY <2>3 DEF Flows
    <3> QED
      BY <1>1, <1>8, <2>2, <3>1 DEF TunnelInv, TunnelTypeOK
  <2>5. StreamInv' /\ PlaceInv' /\ EndpointInv'
    BY <1>1, <1>3, <1>8, <2>3, Fixed DEF TunnelInv, StreamInv, PlaceInv, EndpointInv
  <2>6. /\ AfterOut' = Skipped + Len(out) + 1 /\ AfterTarget' = Skipped + Len(out) + 1
        /\ AfterGateway' = Skipped + Len(out) + 1
    <3>1. AfterOut' = Skipped + Len(out) + 1
      BY <1>2, <1>6, <2>2 DEF AfterOut
    <3>2. OnStream("g2t")' = 0 /\ Len(gwBuf') = 0
      BY <1>3, <1>8, <2>3 DEF OnStream
    <3> QED
      BY <1>2, <3>1, <3>2 DEF AfterTarget, AfterGateway
  <2>7. AfterChannel' = AfterChannel
    <3>1. OnStream("d2g")' = OnStream("d2g") - 1
      BY <2>2, <2>3 DEF OnStream
    <3>2. Len(gwBuf) = 0
      BY <1>8
    <3> QED
      BY <1>2, <1>4, <2>6, <3>1, <3>2 DEF AfterChannel
  <2>8. BeyondGateway'
    BY <1>1, <1>3, <1>6, <2>3, <2>7, <1>8, StaysBeyond DEF TunnelInv
  <2>9. Segment(Wire, <<>>, Skipped + Len(out) + 1)
    <3>1. Skipped + Len(out) + 1 <= Len(Wire)
      BY <1>2, <2>2 DEF Segment
    <3> QED
      BY <1>2, <3>1, SegmentNil
  <2>10. OrderInv'
    BY <1>3, <1>6, <1>8, <2>2, <2>3, <2>6, <2>8, <2>9 DEF OrderInv, BeyondGateway
  <2> QED
    BY <2>4, <2>5, <2>10 DEF TunnelInv
<1> QED
  BY <1>7, <1>8 DEF ServerReads

(* What one turn of a copier does to its buffer, its source and its target.  *)
LEMMA CopyShape ==
  ASSUME TunnelInv, NEW k \in Copiers, Copies(k),
         NEW a \in UpStreams, NEW b \in UpStreams \ {a}, a = From(k), b = To(k),
         NEW buf \in Seq(Pieces), NEW buf2, buf = BufferOf(k),
         buf2 = IF buf # <<>> THEN Tail(buf) ELSE buf
  PROVE  /\ flow' \in Flows /\ copier[k] = "run"
         /\ \A t \in Streams \ {a, b} : flow'[t] = flow[t]
         /\ buf2 \in Seq(Pieces)
         /\ \/ buf # <<>> /\ flow'[a] = flow[a]
            \/ buf = <<>> /\ flow[a] # <<>> /\ flow'[a] = Tail(flow[a])
         /\ \/ copier' = [copier EXCEPT ![k] = "done"] /\ flow'[b] = flow[b]
            \/ /\ copier' = copier
               /\ flow'[b] = Append(flow[b], IF buf # <<>> THEN Head(buf) ELSE Head(flow[a]))
<1>1. /\ flow \in Flows /\ flow[a] \in Seq(Pieces) /\ flow[b] \in Seq(Pieces)
      /\ a \in Streams /\ b \in Streams
  BY DEF TunnelInv, StreamInv, Flows, Carries, UpStreams, Streams
<1>2. copier[k] = "run"
  BY DEF Copies
<1>3. CASE buf # <<>>
  <2>1. Head(buf) \in Pieces /\ buf2 \in Seq(Pieces)
    BY <1>3, HeadAndTail
  <2>2. Append(flow[b], Head(buf)) \in Seq(Pieces)
    BY <1>1, <2>1, Appended
  <2>3. CASE flow' = flow /\ copier' = [copier EXCEPT ![k] = "done"]
    BY <1>1, <1>2, <1>3, <2>1, <2>3
  <2>4. CASE flow' = [flow EXCEPT ![b] = Append(@, Head(buf))] /\ copier' = copier
    <3>1. flow' = [flow EXCEPT ![b] = Append(flow[b], Head(buf))]
      BY <2>4
    <3>2. PICK r \in Seq(Pieces) : r = Append(flow[b], Head(buf))
      BY <2>2
    <3>3. /\ [flow EXCEPT ![b] = r] \in Flows /\ [flow EXCEPT ![b] = r][b] = r
          /\ \A t \in Streams \ {b} : [flow EXCEPT ![b] = r][t] = flow[t]
      BY UpExcept
    <3>4. /\ flow' \in Flows /\ flow'[b] = Append(flow[b], Head(buf)) /\ flow'[a] = flow[a]
          /\ \A t \in Streams \ {a, b} : flow'[t] = flow[t]
      BY <1>1, <3>1, <3>2, <3>3
    <3> QED
      BY <1>2, <1>3, <2>1, <2>4, <3>4
  <2> QED
    BY <1>3, <2>3, <2>4 DEF Copies
<1>4. CASE buf = <<>>
  <2>1. flow[a] # <<>>
    BY <1>4 DEF Copies
  <2>2. Head(flow[a]) \in Pieces /\ Tail(flow[a]) \in Seq(Pieces)
    BY <1>1, <2>1, HeadAndTail
  <2>3. PICK q \in Seq(Pieces) : q = Tail(flow[a])
    BY <2>2
  <2>4. PICK r \in Seq(Pieces) : r = Append(flow[b], Head(flow[a]))
    BY <1>1, <2>2, Appended
  <2>5. CASE /\ flow' = [flow EXCEPT ![a] = Tail(@)]
             /\ copier' = [copier EXCEPT ![k] = "done"]
    <3>1. flow' = [flow EXCEPT ![a] = q]
      BY <2>3, <2>5
    <3>2. /\ [flow EXCEPT ![a] = q] \in Flows /\ [flow EXCEPT ![a] = q][a] = q
          /\ \A t \in Streams \ {a} : [flow EXCEPT ![a] = q][t] = flow[t]
      BY UpExcept
    <3>3. /\ flow' \in Flows /\ flow'[a] = Tail(flow[a]) /\ flow'[b] = flow[b]
          /\ \A t \in Streams \ {a, b} : flow'[t] = flow[t]
      BY <1>1, <2>3, <3>1, <3>2
    <3> QED
      BY <1>2, <1>4, <2>1, <2>5, <3>3
  <2>6. CASE /\ flow' = [[flow EXCEPT ![a] = Tail(@)] EXCEPT ![b] = Append(@, Head(flow[a]))]
             /\ copier' = copier
    <3>1. flow' = [[flow EXCEPT ![a] = q] EXCEPT ![b] = r]
      BY <1>1, <2>3, <2>4, <2>6
    <3>2. /\ flow' \in Flows /\ flow'[a] = q /\ flow'[b] = r
          /\ \A t \in Streams \ {a, b} : flow'[t] = flow[t]
      <4>1. PICK g \in Flows : g = [flow EXCEPT ![a] = q]
        BY UpExcept
      <4>2. g[a] = q /\ \A t \in Streams \ {a} : g[t] = flow[t]
        BY <4>1, UpExcept
      <4>3. b \in Streams /\ a \in Streams \ {b} /\ r \in Seq(Carries(b))
        BY DEF UpStreams, Streams, Carries
      <4>4. /\ [g EXCEPT ![b] = r] \in Flows
            /\ [g EXCEPT ![b] = r][b] = r
            /\ \A t \in Streams \ {b} : [g EXCEPT ![b] = r][t] = g[t]
        BY ONLY <4>3, FlowsExcept
      <4>5. flow' = [g EXCEPT ![b] = r]
        BY <3>1, <4>1
      <4> QED
        BY <4>2, <4>3, <4>4, <4>5
    <3> QED
      BY <1>2, <1>4, <2>1, <2>3, <2>4, <2>6, <3>2
  <2> QED
    BY <1>4, <2>1, <2>5, <2>6 DEF Copies
<1> QED
  BY <1>3, <1>4

LEMMA GatewayCopiesInv == TunnelInv /\ Copies("gwUp") => TunnelInv'
<1> SUFFICES ASSUME TunnelInv, Copies("gwUp") PROVE TunnelInv'
  OBVIOUS
<1>1. /\ UNCHANGED <<form, host, clientVars, devBuf, dev, gw, guard, listening, endpointVars,
                     links, closed>>
      /\ gwBuf' = IF gwBuf # <<>> THEN Tail(gwBuf) ELSE gwBuf
  BY DEF Copies, BufferOf
<1>2. /\ Wire \in Seq(Pieces) /\ gwBuf \in Seq(Pieces)
      /\ flow["g2t"] \in Seq(Pieces) /\ flow["d2g"] \in Seq(Pieces)
      /\ Len(gwBuf) \in Nat /\ OnStream("g2t") \in Nat /\ OnStream("d2g") \in Nat
      /\ AfterOut \in Nat
  BY Contents, Positions DEF TunnelInv
<1>3. /\ flow' \in Flows /\ copier["gwUp"] = "run"
      /\ \A t \in Streams \ {"d2g", "g2t"} : flow'[t] = flow[t]
      /\ gwBuf' \in Seq(Pieces)
      /\ \/ gwBuf # <<>> /\ flow'["d2g"] = flow["d2g"]
         \/ gwBuf = <<>> /\ flow["d2g"] # <<>> /\ flow'["d2g"] = Tail(flow["d2g"])
      /\ \/ copier' = [copier EXCEPT !["gwUp"] = "done"] /\ flow'["g2t"] = flow["g2t"]
         \/ /\ copier' = copier
            /\ flow'["g2t"] = Append(flow["g2t"], IF gwBuf # <<>> THEN Head(gwBuf)
                                                  ELSE Head(flow["d2g"]))
  <2>1. /\ "gwUp" \in Copiers /\ "d2g" \in UpStreams /\ "g2t" \in UpStreams \ {"d2g"}
        /\ From("gwUp") = "d2g" /\ To("gwUp") = "g2t" /\ BufferOf("gwUp") = gwBuf
    BY DEF Copiers, GatewayCopiers, UpStreams, From, To, BufferOf
  <2>2. /\ TunnelInv /\ Copies("gwUp") /\ gwBuf \in Seq(Pieces)
        /\ gwBuf' = IF gwBuf # <<>> THEN Tail(gwBuf) ELSE gwBuf
    BY <1>1, <1>2
  <2> QED
    BY ONLY <2>1, <2>2, CopyShape
<1>4. /\ endpoint = "target" /\ gw \in {"relay", "ended"} /\ ~Direct
      /\ dev \notin {"read", "dial"} /\ GatewayTakes
  BY <1>3 DEF TunnelInv, PlaceInv, EndpointInv, GatewayTakes
<1>5. /\ copier' \in [Copiers -> {"none", "run", "done"}]
      /\ copier'["devUp"] = copier["devUp"] /\ copier'["gwUp"] \in {"run", "done"}
  BY <1>3 DEF TunnelInv, TunnelTypeOK, Copiers, DeviceCopiers, GatewayCopiers
<1>6. flow'["c2d"] = flow["c2d"]
  BY <1>3 DEF Streams
<1>7. StreamInv'
  BY <1>1, <1>3, Fixed DEF TunnelInv, StreamInv
<1>8. TunnelTypeOK'
  <2>1. flow' \in [Streams -> Seq(Pieces \cup Answers)]
    BY <1>3 DEF Flows
  <2>2. gwBuf' \in Seq(Pieces)
    BY <1>3
  <2> QED
    BY <1>1, <1>5, <2>1, <2>2 DEF TunnelInv, TunnelTypeOK
<1>9. PlaceInv' /\ EndpointInv'
  <2>1. PlaceInv'
    BY <1>1, <1>4, <1>5, Fixed DEF TunnelInv, PlaceInv
  <2>2. EndpointInv'
    BY <1>1, <1>4, <1>5, Fixed DEF TunnelInv, EndpointInv
  <2> QED
    BY <2>1, <2>2
<1>10. /\ Wire' = Wire /\ Proxied' = Proxied /\ Direct' = Direct
       /\ Skipped' = Skipped /\ AfterOut' = AfterOut
  BY <1>1, Fixed DEF Skipped, AfterOut
<1>11. Segment(Wire, out, Skipped) /\ Segment(Wire, flow["g2t"], AfterOut)
  BY DEF TunnelInv, OrderInv
<1>12. CASE copier' = [copier EXCEPT !["gwUp"] = "done"] /\ flow'["g2t"] = flow["g2t"]
  <2>1. copier'["gwUp"] = "done"
    BY <1>12 DEF TunnelInv, TunnelTypeOK, Copiers, GatewayCopiers
  <2>2. ~GatewayTakes'
    BY <1>1, <1>4, <2>1 DEF GatewayTakes
  <2>3. ~DeviceTakes' /\ dev' \notin {"read", "dial"}
    BY <1>1, <1>4, <1>10, <2>2 DEF DeviceTakes
  <2>4. OrderInv'
    BY <1>1, <1>10, <1>11, <1>12, <2>2, <2>3 DEF OrderInv
  <2> QED
    BY <1>7, <1>8, <1>9, <2>4 DEF TunnelInv
<1>13. CASE copier' = copier /\ flow'["g2t"] # flow["g2t"] 
  <2>1. GatewayTakes' = GatewayTakes /\ copier'["devUp"] = copier["devUp"]
    BY <1>1, <1>13 DEF GatewayTakes
  <2>2. /\ Segment(Wire, gwBuf, AfterOut + Len(flow["g2t"]))
        /\ Segment(Wire, flow["d2g"], AfterOut + Len(flow["g2t"]) + Len(gwBuf))
    BY <1>4 DEF TunnelInv, OrderInv, AfterTarget, AfterGateway, OnStream
  <2>3. CASE /\ gwBuf # <<>> /\ flow'["d2g"] = flow["d2g"]
             /\ flow'["g2t"] = Append(flow["g2t"], Head(gwBuf))
    <3>1. gwBuf' = Tail(gwBuf)
      BY <1>1, <2>3
    <3>2. /\ Segment(Wire, flow'["g2t"], AfterOut)
          /\ Segment(Wire, gwBuf', AfterOut + Len(flow["g2t"]) + 1)
          /\ Len(flow'["g2t"]) = Len(flow["g2t"]) + 1
          /\ Len(gwBuf') = Len(gwBuf) - 1
      BY <1>2, <1>11, <2>2, <2>3, <3>1, OneMoves
    <3>3. /\ AfterTarget' = AfterOut + Len(flow["g2t"]) + 1
      <4>1. OnStream("g2t")' = Len(flow["g2t"]) + 1
        BY <3>2 DEF OnStream
      <4>2. Len(flow["g2t"]) \in Nat
        BY <1>2 DEF OnStream
      <4> QED
        BY <1>2, <1>10, <4>1, <4>2 DEF AfterTarget
    <3>4. AfterGateway' = AfterGateway
      <4>1. Len(flow["g2t"]) \in Nat
        BY <1>2 DEF OnStream
      <4> QED
        BY <1>2, <3>2, <3>3, <4>1 DEF AfterGateway, AfterTarget, OnStream
    <3>5. AfterChannel' = AfterChannel
      BY <2>3, <3>4 DEF AfterChannel, OnStream
    <3>6. BeyondGateway'
      BY <1>1, <1>4, <1>6, <2>1, <3>5, StaysBeyond DEF TunnelInv
    <3>7. Segment(Wire, flow["d2g"], AfterGateway)
      BY <1>4 DEF TunnelInv, OrderInv
    <3>8. OrderInv'
      BY <1>1, <1>10, <1>11, <2>3, <3>2, <3>3, <3>4, <3>6, <3>7 DEF OrderInv, BeyondGateway
    <3> QED
      BY <1>7, <1>8, <1>9, <3>8 DEF TunnelInv
  <2>4. CASE /\ gwBuf = <<>> /\ flow["d2g"] # <<>> /\ flow'["d2g"] = Tail(flow["d2g"])
             /\ flow'["g2t"] = Append(flow["g2t"], Head(flow["d2g"]))
    <3>1. gwBuf' = <<>> /\ Len(gwBuf) = 0 /\ Len(gwBuf') = 0 /\ Len(flow["g2t"]) \in Nat
      BY <1>1, <1>2, <2>4 DEF OnStream
    <3>2. Segment(Wire, flow["d2g"], AfterOut + Len(flow["g2t"]))
      BY <1>2, <2>2, <3>1
    <3>3. /\ Segment(Wire, flow'["g2t"], AfterOut)
          /\ Segment(Wire, flow'["d2g"], AfterOut + Len(flow["g2t"]) + 1)
          /\ Len(flow'["g2t"]) = Len(flow["g2t"]) + 1
          /\ Len(flow'["d2g"]) = Len(flow["d2g"]) - 1
      <4>1. PICK g \in Seq(Pieces) : g = flow["g2t"]
        BY <1>2
      <4>2. PICK d \in Seq(Pieces) : d = flow["d2g"]
        BY <1>2
      <4>3. /\ Wire \in Seq(Pieces) /\ AfterOut \in Nat
            /\ Segment(Wire, g, AfterOut) /\ Segment(Wire, d, AfterOut + Len(g))
            /\ d # <<>>
        BY <1>2, <1>11, <2>4, <3>2, <4>1, <4>2
      <4>4. /\ Segment(Wire, Append(g, Head(d)), AfterOut)
            /\ Segment(Wire, Tail(d), AfterOut + Len(g) + 1)
            /\ Len(Append(g, Head(d))) = Len(g) + 1
            /\ Len(Tail(d)) = Len(d) - 1
        BY ONLY <4>3, OneMoves
      <4> QED
        BY <2>4, <4>1, <4>2, <4>4
    <3>4. AfterTarget' = AfterOut + Len(flow["g2t"]) + 1
      <4>1. OnStream("g2t")' = Len(flow["g2t"]) + 1
        BY <3>3 DEF OnStream
      <4> QED
        BY <1>2, <1>10, <3>1, <4>1 DEF AfterTarget
    <3>5. AfterGateway' = AfterOut + Len(flow["g2t"]) + 1
      BY <1>2, <3>1, <3>4 DEF AfterGateway
    <3>6. AfterChannel' = AfterChannel
      <4>1. OnStream("d2g")' = OnStream("d2g") - 1
        BY <3>3 DEF OnStream
      <4>2. AfterGateway = AfterOut + Len(flow["g2t"])
        BY <1>2, <3>1 DEF AfterGateway, AfterTarget, OnStream
      <4> QED
        BY <1>2, <3>1, <3>5, <4>1, <4>2 DEF AfterChannel
    <3>7. BeyondGateway'
      BY <1>1, <1>4, <1>6, <2>1, <3>6, StaysBeyond DEF TunnelInv
    <3>8. Segment(Wire, <<>>, AfterOut + Len(flow["g2t"]) + 1)
      <4>1. AfterOut + Len(flow["g2t"]) + 1 <= Len(Wire)
        BY <1>2, <3>1, <3>3 DEF Segment
      <4> QED
        BY <1>2, <3>1, <4>1, SegmentNil
    <3>9. OrderInv'
      BY <1>1, <1>10, <1>11, <3>1, <3>3, <3>4, <3>5, <3>7, <3>8 DEF OrderInv, BeyondGateway
    <3> QED
      BY <1>7, <1>8, <1>9, <3>9 DEF TunnelInv
  <2> QED
    BY <1>3, <1>13, <2>3, <2>4, <1>12
<1> QED
  BY <1>3, <1>12, <1>13

(* The device's copier passes a piece on to t, which begins at i.            *)
LEMMA DevicePasses ==
  ASSUME TunnelInv, DeviceTakes, UNCHANGED <<form, host, unsent>>,
         NEW i \in Nat, NEW t \in Seq(Pieces), NEW u,
         Segment(Wire, t, i), DeviceStart = i + Len(t), DeviceStart' = i + Len(u),
         \/ /\ devBuf # <<>> /\ devBuf' = Tail(devBuf) /\ flow'["c2d"] = flow["c2d"]
            /\ u = Append(t, Head(devBuf))
         \/ /\ devBuf = <<>> /\ devBuf' = devBuf
            /\ flow["c2d"] # <<>> /\ flow'["c2d"] = Tail(flow["c2d"])
            /\ u = Append(t, Head(flow["c2d"]))
  PROVE  /\ Segment(Wire, u, i)
         /\ Segment(Wire', devBuf', DeviceStart')
         /\ Segment(Wire', flow'["c2d"], AfterDevice')
         /\ Rest(AfterClient)'
<1>1. /\ Wire \in Seq(Pieces) /\ devBuf \in Seq(Pieces) /\ Len(devBuf) \in Nat
      /\ OnStream("c2d") \in Nat /\ Len(t) \in Nat /\ Wire' = Wire
  BY Contents, Fixed, LenProperties DEF TunnelInv
<1>2. PICK c \in Seq(Pieces) : c = flow["c2d"]
  BY Contents DEF TunnelInv
<1>3. /\ Segment(Wire, devBuf, i + Len(t)) /\ Segment(Wire, c, i + Len(t) + Len(devBuf))
      /\ Rest(AfterClient) /\ AfterDevice = i + Len(t) + Len(devBuf)
      /\ AfterClient = AfterDevice + Len(c)
  BY <1>2 DEF TunnelInv, OrderInv, AfterDevice, AfterClient, OnStream
<1>4. \A j : Rest(j)' <=> Rest(j)
  BY <1>1 DEF Rest
<1>5. CASE /\ devBuf # <<>> /\ devBuf' = Tail(devBuf) /\ flow'["c2d"] = flow["c2d"]
           /\ u = Append(t, Head(devBuf))
  <2>1. /\ Segment(Wire, Append(t, Head(devBuf)), i)
        /\ Segment(Wire, Tail(devBuf), i + Len(t) + 1)
        /\ Len(Append(t, Head(devBuf))) = Len(t) + 1
        /\ Len(Tail(devBuf)) = Len(devBuf) - 1
    BY <1>1, <1>3, <1>5, OneMoves
  <2>2. DeviceStart' = i + Len(t) + 1
    <3>1. Len(u) = Len(t) + 1
      BY <1>5, <2>1
    <3>2. DeviceStart' = i + Len(u)
      OBVIOUS
    <3>3. i \in Nat /\ Len(t) \in Nat
      BY <1>1
    <3> QED
      BY ONLY <3>1, <3>2, <3>3
  <2>3. AfterDevice' = AfterDevice
    <3>1. Len(devBuf') = Len(devBuf) - 1
      BY <1>5, <2>1
    <3>2. i \in Nat /\ Len(t) \in Nat /\ Len(devBuf) \in Nat
      BY <1>1
    <3> QED
      BY ONLY <1>3, <2>2, <3>1, <3>2 DEF AfterDevice
  <2>4. AfterClient' = AfterClient
    BY <1>5, <2>3 DEF AfterClient, OnStream
  <2> QED
    BY <1>1, <1>2, <1>3, <1>4, <1>5, <2>1, <2>2, <2>3, <2>4
<1>6. CASE /\ devBuf = <<>> /\ devBuf' = devBuf
           /\ flow["c2d"] # <<>> /\ flow'["c2d"] = Tail(flow["c2d"])
           /\ u = Append(t, Head(flow["c2d"]))
  <2>1. Len(devBuf) = 0 /\ Segment(Wire, c, i + Len(t)) /\ c # <<>>
    BY <1>1, <1>2, <1>3, <1>6
  <2>2. /\ Segment(Wire, Append(t, Head(c)), i)
        /\ Segment(Wire, Tail(c), i + Len(t) + 1)
        /\ Len(Append(t, Head(c))) = Len(t) + 1
        /\ Len(Tail(c)) = Len(c) - 1
    BY <1>1, <2>1, OneMoves
  <2>3. DeviceStart' = i + Len(t) + 1 /\ AfterDevice' = i + Len(t) + 1
    <3>1. DeviceStart' = i + Len(t) + 1
      BY <1>1, <1>2, <1>6, <2>2
    <3>2. Len(devBuf') = 0
      BY <1>6
    <3> QED
      BY <1>1, <3>1, <3>2 DEF AfterDevice
  <2>4. AfterClient' = AfterClient
    <3>1. OnStream("c2d")' = Len(c) - 1 /\ Len(c) \in Nat
      BY <1>2, <1>6, <2>2 DEF OnStream
    <3> QED
      BY <1>1, <1>3, <2>1, <2>3, <3>1 DEF AfterClient
  <2>5. Segment(Wire, <<>>, i + Len(t) + 1)
    <3>1. i + Len(t) + 1 <= Len(Wire)
      BY <1>1, <2>1, <2>2 DEF Segment
    <3> QED
      BY <1>1, <3>1, SegmentNil
  <2> QED
    BY <1>1, <1>2, <1>3, <1>4, <1>6, <2>2, <2>3, <2>4, <2>5
<1> QED
  BY <1>5, <1>6

LEMMA DeviceCopiesInv == TunnelInv /\ Copies("devUp") => TunnelInv'
<1> SUFFICES ASSUME TunnelInv, Copies("devUp") PROVE TunnelInv'
  OBVIOUS
<1>1. /\ UNCHANGED <<form, host, clientVars, dev, gwBuf, gw, guard, listening, endpointVars,
                     links, closed>>
      /\ devBuf' = IF devBuf # <<>> THEN Tail(devBuf) ELSE devBuf
      /\ copier["devUp"] = "run"
  BY DEF Copies, BufferOf
<1>2. /\ Wire \in Seq(Pieces) /\ devBuf \in Seq(Pieces)
      /\ AfterOut \in Nat /\ AfterGateway \in Nat
  BY Contents, Positions DEF TunnelInv
<1>3. /\ Proxied /\ dev \in {"pipe", "ended"}
      /\ Direct => endpoint = "target" /\ gw = "none" /\ ~GatewayTakes
      /\ ~Direct => gw # "none"
  BY <1>1 DEF TunnelInv, PlaceInv, EndpointInv, GatewayTakes
<1>4. PICK to \in {"d2g", "g2t"} : to = IF Direct THEN "g2t" ELSE "d2g"
  OBVIOUS
<1>5. /\ flow' \in Flows
      /\ \A t \in Streams \ {"c2d", to} : flow'[t] = flow[t]
      /\ devBuf' \in Seq(Pieces)
      /\ \/ devBuf # <<>> /\ flow'["c2d"] = flow["c2d"]
         \/ devBuf = <<>> /\ flow["c2d"] # <<>> /\ flow'["c2d"] = Tail(flow["c2d"])
      /\ \/ copier' = [copier EXCEPT !["devUp"] = "done"] /\ flow'[to] = flow[to]
         \/ /\ copier' = copier
            /\ flow'[to] = Append(flow[to], IF devBuf # <<>> THEN Head(devBuf)
                                            ELSE Head(flow["c2d"]))
  <2>1. /\ "devUp" \in Copiers /\ "c2d" \in UpStreams /\ to \in UpStreams \ {"c2d"}
        /\ "c2d" = From("devUp") /\ to = To("devUp") /\ devBuf = BufferOf("devUp")
    BY <1>4 DEF Copiers, DeviceCopiers, UpStreams, From, To, BufferOf
  <2>2. /\ TunnelInv /\ Copies("devUp") /\ devBuf \in Seq(Pieces)
        /\ devBuf' = IF devBuf # <<>> THEN Tail(devBuf) ELSE devBuf
    BY <1>1, <1>2
  <2> QED
    BY ONLY <2>1, <2>2, CopyShape
<1>6. /\ copier' \in [Copiers -> {"none", "run", "done"}]
      /\ copier'["gwUp"] = copier["gwUp"] /\ copier'["devUp"] \in {"run", "done"}
  BY <1>1, <1>5 DEF TunnelInv, TunnelTypeOK, Copiers, DeviceCopiers, GatewayCopiers
<1>7. /\ Direct => flow'["d2g"] = flow["d2g"]
      /\ ~Direct => flow'["g2t"] = flow["g2t"]
  BY <1>4, <1>5 DEF Streams
<1>8. StreamInv'
  BY <1>1, <1>5, Fixed DEF TunnelInv, StreamInv
<1>9. TunnelTypeOK'
  <2>1. flow' \in [Streams -> Seq(Pieces \cup Answers)] /\ devBuf' \in Seq(Pieces)
    BY <1>5 DEF Flows
  <2> QED
    BY <1>1, <1>6, <2>1 DEF TunnelInv, TunnelTypeOK
<1>10. PlaceInv'
  BY <1>1, <1>3, <1>6, Fixed DEF TunnelInv, PlaceInv
<1>11. EndpointInv'
  BY <1>1, <1>3, <1>6, <1>7, Fixed DEF TunnelInv, EndpointInv
<1>12. /\ Wire' = Wire /\ Proxied' = Proxied /\ Direct' = Direct
       /\ Skipped' = Skipped /\ AfterOut' = AfterOut
       /\ GatewayTakes' = GatewayTakes
  BY <1>1, <1>6, Fixed DEF Skipped, AfterOut, GatewayTakes
<1>13. Segment(Wire, out, Skipped) /\ Segment(Wire, flow["g2t"], AfterOut)
  BY DEF TunnelInv, OrderInv
<1>14. ~Direct => AfterTarget' = AfterTarget /\ AfterGateway' = AfterGateway
  BY <1>1, <1>7, <1>12 DEF AfterTarget, AfterGateway, OnStream
<1>15. GatewayTakes => /\ Segment(Wire, gwBuf, AfterTarget)
                       /\ Segment(Wire, flow["d2g"], AfterGateway)
  BY DEF TunnelInv, OrderInv
<1>16. CASE copier' = [copier EXCEPT !["devUp"] = "done"] /\ flow'[to] = flow[to]
  <2>1. copier'["devUp"] = "done"
    BY <1>16 DEF TunnelInv, TunnelTypeOK, Copiers, DeviceCopiers
  <2>2. ~DeviceTakes' /\ dev' \notin {"read", "dial"}
    BY <1>1, <1>3, <2>1 DEF DeviceTakes
  <2>3. flow'["g2t"] = flow["g2t"] /\ flow'["d2g"] = flow["d2g"]
    BY <1>4, <1>7, <1>16
  <2>4. OrderInv'
    BY <1>1, <1>3, <1>12, <1>13, <1>14, <1>15, <2>2, <2>3 DEF OrderInv
  <2> QED
    BY <1>8, <1>9, <1>10, <1>11, <2>4 DEF TunnelInv
<1>17. CASE /\ copier' = copier
            /\ flow'[to] = Append(flow[to], IF devBuf # <<>> THEN Head(devBuf)
                                            ELSE Head(flow["c2d"]))
  <2>1. DeviceTakes' = DeviceTakes
    BY <1>12, <1>17 DEF DeviceTakes
  <2>2. PICK t \in Seq(Pieces) : t = flow[to]
    BY <1>4, Contents DEF TunnelInv
  <2>3. PICK u : u = flow'[to]
    OBVIOUS
  <2>4. \/ /\ devBuf # <<>> /\ devBuf' = Tail(devBuf) /\ flow'["c2d"] = flow["c2d"]
           /\ u = Append(t, Head(devBuf))
        \/ /\ devBuf = <<>> /\ devBuf' = devBuf
           /\ flow["c2d"] # <<>> /\ flow'["c2d"] = Tail(flow["c2d"])
           /\ u = Append(t, Head(flow["c2d"]))
    BY <1>1, <1>5, <1>17, <2>2, <2>3
  <2>5. CASE Direct
    <3>1. DeviceTakes /\ t = flow["g2t"] /\ u = flow'["g2t"]
      BY <1>1, <1>4, <2>2, <2>3, <2>5 DEF DeviceTakes
    <3>2. DeviceStart = AfterOut + Len(t) /\ DeviceStart' = AfterOut + Len(u)
      BY <1>1, <1>3, <1>12, <2>5, <3>1 DEF DeviceStart, AfterTarget, OnStream
    <3>3. /\ Segment(Wire, u, AfterOut)
          /\ Segment(Wire', devBuf', DeviceStart')
          /\ Segment(Wire', flow'["c2d"], AfterDevice')
          /\ Rest(AfterClient)'
      BY <1>1, <1>2, <1>13, <2>4, <3>1, <3>2, DevicePasses
    <3>4. OrderInv'
      BY <1>1, <1>3, <1>12, <1>13, <2>5, <3>1, <3>3 DEF OrderInv
    <3> QED
      BY <1>8, <1>9, <1>10, <1>11, <3>4 DEF TunnelInv
  <2>6. CASE ~Direct /\ GatewayTakes
    <3>1. DeviceTakes /\ t = flow["d2g"] /\ u = flow'["d2g"]
      BY <1>1, <1>4, <2>2, <2>3, <2>6 DEF DeviceTakes
    <3>2. DeviceStart = AfterGateway + Len(t) /\ DeviceStart' = AfterGateway + Len(u)
      BY <1>1, <1>3, <1>12, <1>14, <2>6, <3>1 DEF DeviceStart, AfterChannel, OnStream
    <3>3. /\ Segment(Wire, u, AfterGateway)
          /\ Segment(Wire', devBuf', DeviceStart')
          /\ Segment(Wire', flow'["c2d"], AfterDevice')
          /\ Rest(AfterClient)'
      BY <1>1, <1>2, <1>15, <2>4, <2>6, <3>1, <3>2, DevicePasses
    <3>4. OrderInv'
      BY <1>1, <1>3, <1>7, <1>12, <1>13, <1>14, <1>15, <2>6, <3>1, <3>3 DEF OrderInv
    <3> QED
      BY <1>8, <1>9, <1>10, <1>11, <3>4 DEF TunnelInv
  <2>7. CASE ~Direct /\ ~GatewayTakes
    <3>1. ~DeviceTakes' /\ dev' \notin {"read", "dial"}
      BY <1>1, <1>3, <2>1, <2>7 DEF DeviceTakes
    <3>2. OrderInv'
      BY <1>1, <1>7, <1>12, <1>13, <2>7, <3>1 DEF OrderInv
    <3> QED
      BY <1>8, <1>9, <1>10, <1>11, <3>2 DEF TunnelInv
  <2> QED
    BY <2>5, <2>6, <2>7
<1> QED
  BY <1>5, <1>16, <1>17

(* The two copiers of answers.                                               *)
LEMMA AnswerCopiesInv ==
  ASSUME TunnelInv, NEW k \in {"devDown", "gwDown"}, Copies(k) PROVE TunnelInv'
<1>1. /\ UNCHANGED <<form, host, clientVars, dev, devBuf, gw, gwBuf, guard, listening,
                     endpointVars, links, closed>>
      /\ flow[From(k)] # <<>> /\ copier[k] = "run"
  BY DEF Copies, BufferOf
<1>2. PICK a \in {"t2g", "g2d"} : a = From(k)
  BY DEF From
<1>3. PICK b \in {"d2c", "g2d"} : b = To(k)
  BY DEF To
<1>4. a # b
  BY <1>2, <1>3 DEF From, To
<1>5. /\ flow \in Flows /\ a \in Streams /\ b \in Streams
      /\ Carries(a) = Carried /\ Carries(b) = Carried
      /\ flow[a] \in Seq(Carried) /\ flow[b] \in Seq(Carried)
      /\ UpStreams \subseteq Streams \ {a} /\ UpStreams \subseteq Streams \ {b}
  BY DEF TunnelInv, StreamInv, Flows, Carries, Streams, UpStreams
<1>6. PICK q \in Seq(Carries(a)) : q = Tail(flow[a])
  BY <1>1, <1>2, <1>5, HeadAndTail
<1>7. PICK r \in Seq(Carries(b)) : r = Append(flow[b], Head(flow[a]))
  BY <1>1, <1>2, <1>5, HeadAndTail, Appended
<1>8. PICK g \in Flows : g = [flow EXCEPT ![a] = q]
  BY <1>5, FlowsExcept
<1>9. \A t \in Streams \ {a} : g[t] = flow[t]
  BY <1>5, <1>8, FlowsExcept
<1>10. \/ flow' = g /\ copier' = [copier EXCEPT ![k] = "done"]
       \/ flow' = [g EXCEPT ![b] = r] /\ copier' = copier
  <2>1. \/ /\ flow' = [flow EXCEPT ![a] = Tail(@)]
           /\ copier' = [copier EXCEPT ![k] = "done"]
        \/ /\ flow' = [[flow EXCEPT ![a] = Tail(@)] EXCEPT ![b] = Append(@, Head(flow[a]))]
           /\ copier' = copier
    BY <1>2, <1>3 DEF Copies, BufferOf
  <2>2. g = [flow EXCEPT ![a] = Tail(@)]
    BY <1>6, <1>8
  <2>3. g[b] = flow[b]
    BY <1>4, <1>5, <1>9
  <2>4. [g EXCEPT ![b] = Append(@, Head(flow[a]))] = [g EXCEPT ![b] = r]
    BY <1>7, <2>3
  <2> QED
    BY <2>1, <2>2, <2>4
<1>11. flow' \in Flows /\ UpUnchanged
  <2>1. UNCHANGED flow \/ \A t \in UpStreams : g[t] = flow[t]
    BY <1>5, <1>9
  <2>2. CASE flow' = g
    BY <1>5, <1>8, <1>9, <2>2 DEF UpUnchanged, UpStreams
  <2>3. CASE flow' = [g EXCEPT ![b] = r]
    <3>1. b \in Streams /\ g \in Flows /\ r \in Seq(Carries(b))
      BY <1>5
    <3>2. /\ [g EXCEPT ![b] = r] \in Flows
          /\ \A t \in Streams \ {b} : [g EXCEPT ![b] = r][t] = g[t]
      BY ONLY <3>1, FlowsExcept
    <3>3. \A t \in UpStreams : flow'[t] = flow[t]
      BY <1>5, <1>9, <2>3, <3>2
    <3> QED
      BY <2>3, <3>2, <3>3 DEF UpUnchanged, UpStreams
  <2> QED
    BY <1>10, <2>2, <2>3
<1>12. /\ copier' \in [Copiers -> {"none", "run", "done"}]
       /\ copier'["devUp"] = copier["devUp"] /\ copier'["gwUp"] = copier["gwUp"]
  BY <1>10 DEF TunnelInv, TunnelTypeOK, Copiers, DeviceCopiers, GatewayCopiers
<1>13. StreamInv'
  BY <1>1, <1>11, Fixed DEF TunnelInv, StreamInv
<1>14. TunnelTypeOK'
  <2>1. flow' \in [Streams -> Seq(Pieces \cup Answers)]
    BY <1>11 DEF Flows
  <2> QED
    BY <1>1, <1>12, <2>1 DEF TunnelInv, TunnelTypeOK
<1>15. PlaceInv' /\ EndpointInv'
  BY <1>1, <1>11, <1>12, Fixed DEF TunnelInv, PlaceInv, EndpointInv, UpUnchanged
<1>16. OrderInv'
  <2>1. Skipped' = Skipped /\ GatewayTakes' = GatewayTakes
    BY <1>1, <1>12, Fixed DEF Skipped, GatewayTakes
  <2> QED
    BY <1>1, <1>11, <1>12, <2>1, NothingMoves DEF TunnelInv, UpUnchanged
<1> QED
  BY <1>13, <1>14, <1>15, <1>16 DEF TunnelInv

----------------------------------------------------------------------------
(* The theorems *)

LEMMA TunnelNextInv == TunnelInv /\ [TunnelNext]_tunnelVars => TunnelInv'
<1> SUFFICES ASSUME TunnelInv, [TunnelNext]_tunnelVars PROVE TunnelInv'
  OBVIOUS
<1>1. CASE ClientSends
  BY <1>1, ClientSendsInv
<1>2. CASE ClientFinishes \/ \E l \in Links : LinkCloses(l)
  BY <1>2, QuietInv DEF Quiet
<1>3. CASE ClientReceives \/ TargetReplies
  BY <1>3, AnsweringInv DEF Answering
<1>4. CASE TargetReads
  BY <1>4, TargetReadsInv
<1>5. CASE DeviceStep
  <2>1. ASSUME NEW n \in 1..Len(Wire), DeviceReads(n) PROVE TunnelInv'
    BY <2>1, DeviceReadsInv
  <2>2. CASE DeviceHasRequest
    BY <2>2, DeviceHasRequestInv
  <2>3. CASE DeviceReadFails \/ PipeEnds
    BY <2>3, QuietInv DEF Quiet
  <2>4. CASE DeviceTunnels
    BY <2>4, DeviceTunnelsInv
  <2>5. CASE DeviceTunnelBreaks
    BY <2>5, DeviceTunnelBreaksInv
  <2>6. CASE DeviceDials
    BY <2>6, DeviceDialsInv
  <2>7. CASE DeviceDialFails
    BY <2>7, AnsweringInv DEF Answering
  <2> QED
    BY <1>5, <2>1, <2>2, <2>3, <2>4, <2>5, <2>6, <2>7 DEF DeviceStep
<1>6. CASE GatewayStep
  <2>1. ASSUME NEW n \in 1..Len(Wire), GatewayReads(n) PROVE TunnelInv'
    BY <2>1, GatewayReadsInv
  <2>2. CASE \/ PeekFirst \/ PeekFirstFails \/ PeekPrefix \/ ReadRequestFails
             \/ RelayStarts \/ RelayEnds \/ Push
    BY <2>2, QuietInv DEF Quiet
  <2>3. CASE ReadRequest
    BY <2>3, ReadRequestInv
  <2>4. CASE ConnectDenied \/ ConnectAborted \/ RelayDialFails
    BY <2>4, GivesUpInv DEF GivesUp
  <2>5. CASE ConnectEstablished
    BY <2>5, AnsweringInv DEF Answering
  <2> QED
    BY <1>6, <2>1, <2>2, <2>3, <2>4, <2>5 DEF GatewayStep
<1>7. CASE ServerStep
  <2>1. CASE ServerReads
    BY <2>1, ServerReadsInv
  <2>2. CASE ServerReplies
    BY <2>2, AnsweringInv DEF Answering
  <2>3. CASE ServerEnds
    BY <2>3, QuietInv DEF Quiet
  <2> QED
    BY <1>7, <2>1, <2>2, <2>3 DEF ServerStep
<1>8. CASE GuardFires \/ ListenerCloses
  BY <1>8, QuietInv DEF Quiet
<1>9. ASSUME NEW k \in Copiers, CopyStep(k) PROVE TunnelInv'
  <2>1. CASE CopyEnds(k)
    BY <2>1, QuietInv DEF Quiet
  <2>2. CASE Copies(k)
    <3>1. CASE k = "devUp"
      BY <2>2, <3>1, DeviceCopiesInv
    <3>2. CASE k = "gwUp"
      BY <2>2, <3>2, GatewayCopiesInv
    <3>3. CASE k \in {"devDown", "gwDown"}
      BY <2>2, <3>3, AnswerCopiesInv
    <3> QED
      BY <3>1, <3>2, <3>3 DEF Copiers, DeviceCopiers, GatewayCopiers
  <2> QED
    BY <1>9, <2>1, <2>2 DEF CopyStep
<1>10. CASE UNCHANGED tunnelVars
  <2>1. TunnelTypeOK'
    <3>1. UNCHANGED <<form, host, unsent, fin, seen, dev, devBuf, gw, gwBuf, guard>>
      BY <1>10 DEF tunnelVars
    <3>2. UNCHANGED <<endpoint, out, answered, flow, links, closed, copier, listening>>
      BY <1>10 DEF tunnelVars
    <3>3. TunnelTypeOK
      BY DEF TunnelInv
    <3> QED
      BY ONLY <3>1, <3>2, <3>3 DEF TunnelTypeOK
  <2>2. StreamInv' /\ PlaceInv' /\ EndpointInv'
    BY <1>10, Fixed DEF tunnelVars, TunnelInv, StreamInv, PlaceInv, EndpointInv
  <2>3. OrderInv'
    <3>1. Skipped' = Skipped /\ GatewayTakes' = GatewayTakes
      BY <1>10, Fixed DEF tunnelVars, Skipped, GatewayTakes
    <3> QED
      BY <1>10, <3>1, NothingMoves DEF tunnelVars, TunnelInv
  <2> QED
    BY <2>1, <2>2, <2>3 DEF TunnelInv
<1> QED
  BY <1>1, <1>2, <1>3, <1>4, <1>5, <1>6, <1>7, <1>8, <1>9, <1>10 DEF TunnelNext

(* The invariant of one connection, from the client's first byte to the last *)
(* goroutine that closes it, whatever the client sends and whoever closes.   *)
THEOREM TunnelInvariant == TunnelSpec => []TunnelInv
<1>1. TunnelInit => TunnelInv
  BY TunnelInitInv
<1>2. TunnelInv /\ [TunnelNext]_tunnelVars => TunnelInv'
  BY TunnelNextInv
<1> QED
  BY <1>1, <1>2, PTL DEF TunnelSpec

(* Every variable stays in its range, whatever the openings and hosts.       *)
THEOREM TunnelTypeCorrect == TunnelSpec => []TunnelTypeOK
<1>1. TunnelInv => TunnelTypeOK
  BY DEF TunnelInv
<1> QED
  BY <1>1, TunnelInvariant, PTL

(* The endpoint reads what the client sent after its CONNECT, in order and   *)
(* without a gap: handleConnect and serveTunnelConn hand over the buffers.   *)
THEOREM BytesInOrder == TunnelSpec => []BytesArriveInOrder
<1>1. TunnelInv => BytesArriveInOrder
  <2> SUFFICES ASSUME TunnelInv PROVE BytesArriveInOrder
    OBVIOUS
  <2>1. /\ form \in Forms /\ Wire \in Seq(Pieces) /\ out \in Seq(Pieces)
        /\ Len(out) \in Nat /\ Segment(Wire, out, Skipped)
    BY Contents DEF TunnelInv, TunnelTypeOK, OrderInv
  <2>2. CASE endpoint = "http"
    <3>1. Skipped = 0
      BY <2>2 DEF TunnelInv, EndpointInv, Skipped
    <3>2. IsPrefix(out, Wire)
      BY <2>1, <3>1, SegmentIsPrefix
    <3> QED
      BY <2>2, <3>2 DEF BytesArriveInOrder
  <2>3. CASE endpoint # "http" /\ ~Connects
    <3>1. Skipped = 0 /\ Payload = Wire
      BY <2>1, <2>3, WireFacts DEF Skipped
    <3>2. IsPrefix(out, Payload)
      BY <2>1, <3>1, SegmentIsPrefix
    <3> QED
      BY <2>3, <3>2 DEF BytesArriveInOrder
  <2>4. CASE endpoint # "http" /\ Connects
    <3>1. /\ Len(Wire) = 5
          /\ Payload \in Seq(Pieces) /\ Len(Payload) = 2
          /\ Payload[1] = Wire[4] /\ Payload[2] = Wire[5]
      BY ONLY <2>1, <2>4, WireFacts
    <3>2. endpoint = "none" \/ endpoint \in {"tls", "target"}
      BY <2>4 DEF TunnelInv, TunnelTypeOK
    <3>3. Segment(Payload, out, 0)
      <4>1. CASE endpoint = "none"
        <5>1. out = <<>>
          BY <4>1 DEF TunnelInv, EndpointInv
        <5> QED
          BY <3>1, <5>1 DEF Segment
      <4>2. CASE endpoint \in {"tls", "target"}
        <5>1. Skipped = 3
          BY <2>4, <4>2 DEF Skipped
        <5>2. Len(out) <= 2 /\ \A k \in 1..Len(out) : out[k] = Wire[3 + k]
          BY <2>1, <3>1, <5>1 DEF Segment
        <5>3. ASSUME NEW k \in 1..Len(out)
              PROVE  out[k] = Payload[k]
          <6>1. k = 1 \/ k = 2
            BY <2>1, <5>2
          <6>2. out[k] = Wire[3 + k]
            BY <5>2
          <6> QED
            BY <3>1, <6>1, <6>2
        <5> QED
          BY <2>1, <3>1, <5>2, <5>3 DEF Segment
      <4> QED
        BY <3>2, <4>1, <4>2
    <3>4. IsPrefix(out, Payload)
      BY <2>1, <3>1, <3>3, SegmentIsPrefix
    <3> QED
      BY <2>4, <3>4 DEF BytesArriveInOrder
  <2> QED
    BY <2>2, <2>3, <2>4
<1> QED
  BY <1>1, TunnelInvariant, PTL

(* Only the forged host's bytes reach the TLS server by way of a CONNECT.    *)
THEOREM ForgedIsDecrypted == TunnelSpec => []OnlyForgedIsDecrypted
<1>1. TunnelInv => OnlyForgedIsDecrypted
  BY DEF TunnelInv, TunnelTypeOK, EndpointInv, OnlyForgedIsDecrypted, Connects, IsMITMHost
<1> QED
  BY <1>1, TunnelInvariant, PTL

(* The gateway never answers 403 to a host the device's proxy sends to it.   *)
THEOREM RoutedAreServed == TunnelSpec => []RoutedHostsAreServed
<1>1. TunnelInv => RoutedHostsAreServed
  <2> SUFFICES ASSUME TunnelInv, Proxied, NEW i \in DOMAIN seen
               PROVE  seen[i] # "403"
    BY DEF RoutedHostsAreServed, Proxied
  <2>1. seen \in Seq(Answers \ {"403"})
    BY DEF TunnelInv, StreamInv, Carried
  <2>2. i \in 1..Len(seen)
    BY <2>1
  <2>3. seen[i] \in Answers \ {"403"}
    BY <2>1, <2>2
  <2> QED
    BY <2>3
<1> QED
  BY <1>1, TunnelInvariant, PTL

----------------------------------------------------------------------------
(* What the client is told *)

Down == {"t2g", "g2d", "d2c"}

(* What this client is told from first to last, as far as it gets: what      *)
(* DeviceDialFails, ConnectDenied or the way to an endpoint leads to.        *)
Script == IF Proxied /\ copier["devDown"] = "none" THEN <<"502">>
          ELSE IF form = "connect" /\ ~Permitted(host) THEN <<"403">>
          ELSE <<"200", "reply">>

(* From the client back to the endpoint: where what each of them holds       *)
(* begins in the script.  Who does not send CONNECT is not told 200.         *)
Start == IF Connects THEN 0 ELSE 1
AfterSeen == Start + Len(seen)
AfterAnswer == AfterSeen + OnStream("d2c")
FromGateway == IF Proxied THEN AfterAnswer ELSE AfterSeen
AfterReply == FromGateway + OnStream("g2d")
FromTarget == IF Direct THEN AfterAnswer ELSE AfterReply

(* As long as somebody passes on what the gateway, or the target, answers.   *)
GatewayHeard == ~Proxied \/ (copier["devDown"] = "run" /\ ~Direct)
TargetHeard == IF Direct THEN copier["devDown"] = "run"
               ELSE GatewayHeard /\ copier["gwDown"] = "run"

Replies == IF answered THEN 1 ELSE 0

(* How many of its answers the gateway itself has given.                     *)
Told == IF ~Connects \/ gw = "dial" \/ endpoint \in {"tls", "target"}
        THEN 1 + Replies ELSE 0

AnswerOrder ==
    /\ Segment(Script, seen, Start)
    /\ Proxied => Segment(Script, flow["d2c"], AfterSeen)
    /\ GatewayHeard => Segment(Script, flow["g2d"], FromGateway)
    /\ TargetHeard => Segment(Script, flow["t2g"], FromTarget)

AnswerCount ==
    /\ GatewayHeard /\ copier["gwDown"] = "none" /\ gw # "ended" => AfterReply = Told
    /\ TargetHeard => FromTarget + OnStream("t2g") = 1 + Replies

AnswerPlace ==
    /\ dev \in {"read", "dial"} =>
           /\ seen = <<>> /\ flow["d2c"] = <<>> /\ flow["g2d"] = <<>>
           /\ copier["devDown"] = "none"
    /\ copier["devDown"] # "none" => Proxied
    /\ endpoint # "target" => flow["t2g"] = <<>>
    /\ endpoint = "none" => ~answered
    /\ Direct => copier["gwDown"] = "none"
    /\ ~Direct => (copier["gwDown"] # "none" <=> endpoint = "target")
    /\ ~Proxied /\ Connects /\ (gw = "dial" \/ endpoint \in {"tls", "target"}) => Permitted(host)

AnswerInv == AnswerOrder /\ AnswerCount /\ AnswerPlace

LEMMA ScriptFacts ==
  TunnelTypeOK =>
      /\ Script \in Seq(Answers) /\ Len(Script) \in {1, 2}
      /\ Len(Script) = 2 => Script[1] = "200" /\ Script[2] = "reply"
      /\ ~Connects => Len(Script) = 2
      /\ Connects /\ ~Proxied => IF Permitted(host) THEN Len(Script) = 2 ELSE Script = <<"403">>
      /\ Proxied => IF copier["devDown"] = "none" THEN Script = <<"502">> ELSE Len(Script) = 2
<1>1. /\ <<"502">> \in Seq(Answers) /\ Len(<<"502">>) = 1
      /\ <<"403">> \in Seq(Answers) /\ Len(<<"403">>) = 1
      /\ <<"200", "reply">> \in Seq(Answers) /\ Len(<<"200", "reply">>) = 2
      /\ <<"200", "reply">>[1] = "200" /\ <<"200", "reply">>[2] = "reply"
  BY DEF Answers
<1>2. CASE Proxied /\ copier["devDown"] = "none"
  <2>1. Script = <<"502">>
    BY <1>2 DEF Script
  <2> QED
    BY <1>1, <1>2, <2>1 DEF Connects, Proxied
<1>3. CASE form = "connect" /\ ~Permitted(host)
  <2>1. Script = <<"403">>
    BY <1>3 DEF Script, Proxied
  <2> QED
    BY <1>1, <1>3, <2>1 DEF Connects, Proxied
<1>4. CASE ~(Proxied /\ copier["devDown"] = "none") /\ ~(form = "connect" /\ ~Permitted(host))
  <2>1. Script = <<"200", "reply">>
    BY <1>4 DEF Script
  <2> QED
    BY <1>1, <1>4, <2>1 DEF Connects, Proxied
<1> QED
  BY <1>2, <1>3, <1>4

(* All positions of the answers are numbers.                                 *)
LEMMA AnswerPositions ==
  TunnelInv =>
      /\ seen \in Seq(Answers) /\ Len(seen) \in Nat
      /\ \A s \in Down : flow[s] \in Seq(Answers) /\ OnStream(s) \in Nat
      /\ Start \in {0, 1} /\ AfterSeen \in Nat /\ AfterAnswer \in Nat
      /\ FromGateway \in Nat /\ AfterReply \in Nat /\ FromTarget \in Nat
      /\ Replies \in {0, 1} /\ Told \in {0, 1, 2}
<1> SUFFICES ASSUME TunnelInv
             PROVE  /\ seen \in Seq(Answers) /\ Len(seen) \in Nat
                    /\ \A s \in Down : flow[s] \in Seq(Answers) /\ OnStream(s) \in Nat
                    /\ Start \in {0, 1} /\ AfterSeen \in Nat /\ AfterAnswer \in Nat
                    /\ FromGateway \in Nat /\ AfterReply \in Nat /\ FromTarget \in Nat
                    /\ Replies \in {0, 1} /\ Told \in {0, 1, 2}
  OBVIOUS
<1>1. seen \in Seq(Answers) /\ Len(seen) \in Nat
  BY LenProperties DEF TunnelInv, TunnelTypeOK
<1>2. ASSUME NEW s \in Down
      PROVE  flow[s] \in Seq(Answers) /\ OnStream(s) \in Nat
  <2>1. flow[s] \in Seq(Carried)
    BY DEF Down, TunnelInv, StreamInv, Flows, Streams, Carries, UpStreams
  <2>2. Seq(Carried) \subseteq Seq(Answers)
    BY DEF Carried
  <2> QED
    BY <2>1, <2>2, LenProperties DEF OnStream
<1>3. OnStream("d2c") \in Nat /\ OnStream("g2d") \in Nat
  BY <1>2 DEF Down
<1>4. Start \in {0, 1} /\ Replies \in {0, 1} /\ Told \in {0, 1, 2}
  BY DEF Start, Replies, Told
<1>5. AfterSeen \in Nat /\ AfterAnswer \in Nat
  BY <1>1, <1>3, <1>4 DEF AfterSeen, AfterAnswer
<1>6. FromGateway \in Nat /\ AfterReply \in Nat
  BY <1>3, <1>5 DEF FromGateway, AfterReply
<1>7. FromTarget \in Nat
  BY <1>5, <1>6 DEF FromTarget
<1> QED
  BY <1>1, <1>2, <1>4, <1>5, <1>6, <1>7

----------------------------------------------------------------------------
(* Steps that answer nothing and pass no answer on *)

Hushed ==
    /\ UNCHANGED <<form, host, seen, answered, flow["t2g"], flow["g2d"], flow["d2c"]>>
    /\ \A k \in {"devDown", "gwDown"} :
           copier'[k] = copier[k] \/ (copier[k] = "run" /\ copier'[k] = "done")
    /\ dev' \in {"read", "dial"} => dev \in {"read", "dial"}
    /\ Told' = Told \/ gw' = "ended"
    /\ gw = "ended" => gw' = "ended"
    /\ endpoint' = "none" => endpoint = "none"
    /\ endpoint' = "target" <=> endpoint = "target"
    /\ Connects /\ (gw' = "dial" \/ endpoint' \in {"tls", "target"})
           => gw = "dial" \/ endpoint \in {"tls", "target"}

LEMMA HushedInv ==
  ASSUME TunnelInv, AnswerInv, Hushed PROVE AnswerInv'
<1>1. /\ UNCHANGED <<Connects, Proxied, Direct, Permitted(host), seen, answered>>
      /\ form' = form /\ host' = host
      /\ \A s \in Down : flow'[s] = flow[s]
  BY Fixed DEF Hushed, Down, Permitted, IsMITMHost, HostInList
<1>2. /\ Start' = Start /\ AfterSeen' = AfterSeen /\ AfterAnswer' = AfterAnswer
      /\ FromGateway' = FromGateway /\ AfterReply' = AfterReply /\ FromTarget' = FromTarget
      /\ OnStream("t2g")' = OnStream("t2g") /\ Replies' = Replies
  BY <1>1 DEF Start, AfterSeen, AfterAnswer, FromGateway, AfterReply, FromTarget, OnStream, Down,
              Replies
<1>3. /\ copier["devDown"] = "none" <=> copier'["devDown"] = "none"
      /\ copier["gwDown"] = "none" <=> copier'["gwDown"] = "none"
      /\ GatewayHeard' => GatewayHeard
      /\ TargetHeard' => TargetHeard
  BY <1>1 DEF Hushed, GatewayHeard, TargetHeard
<1>4. Script' = Script
  BY <1>1, <1>3 DEF Script
<1>5. AnswerOrder'
  BY <1>1, <1>2, <1>3, <1>4 DEF AnswerInv, AnswerOrder, Down
<1>6. AnswerCount'
  BY <1>2, <1>3 DEF AnswerInv, AnswerCount, Hushed
<1>7. AnswerPlace'
  BY <1>1, <1>3 DEF AnswerInv, AnswerPlace, Hushed, Down
<1> QED
  BY <1>5, <1>6, <1>7 DEF AnswerInv

HushedStep ==
    \/ ClientSends \/ ClientFinishes \/ \E l \in Links : LinkCloses(l)
    \/ TargetReads
    \/ \E n \in 1..Len(Wire) : DeviceReads(n)
    \/ DeviceHasRequest \/ DeviceReadFails \/ PipeEnds
    \/ \E n \in 1..Len(Wire) : GatewayReads(n)
    \/ PeekFirst \/ PeekFirstFails \/ PeekPrefix \/ ReadRequest \/ ReadRequestFails
    \/ ConnectAborted \/ RelayDialFails \/ RelayEnds \/ Push
    \/ ServerReads \/ ServerEnds \/ GuardFires \/ ListenerCloses
    \/ Copies("devUp") \/ Copies("gwUp") \/ \E k \in Copiers : CopyEnds(k)

LEMMA HushedSteps == TunnelInv /\ HushedStep => Hushed
<1> SUFFICES ASSUME TunnelInv, HushedStep PROVE Hushed
  OBVIOUS
<1>1. /\ flow \in [Streams -> Seq(Pieces \cup Answers)] /\ Down \subseteq Streams
      /\ copier \in [Copiers -> {"none", "run", "done"}] /\ {"devDown", "gwDown"} \subseteq Copiers
  BY DEF TunnelInv, TunnelTypeOK, Down, Streams, Copiers, DeviceCopiers, GatewayCopiers
<1>2. /\ gw \in {"peek1", "peek8", "request", "connect", "dial"} => endpoint = "none"
      /\ gw \in {"push", "served"} => endpoint \in {"tls", "http"}
      /\ gw = "relay" => endpoint = "target"
      /\ gw \in {"request", "connect", "dial", "relay"} => Connects
      /\ gw \in {"peek1", "peek8", "request"} /\ gwBuf # <<>> => Head(gwBuf) = Wire[1]
      /\ form \in Forms
  BY OpeningFacts DEF TunnelInv, TunnelTypeOK, EndpointInv, PlaceInv
<1>3. /\ ClientUp \in {"c2d", "d2g"}
      /\ To("devUp") \in {"g2t", "d2g"} /\ To("gwUp") = "g2t"
      /\ From("devUp") = "c2d" /\ From("gwUp") = "d2g"
  BY DEF ClientUp, To, From
<1> USE <1>1, Fixed DEF Hushed, Told, Replies, Down
<1>4. CASE ClientSends
  BY <1>3, <1>4 DEF ClientSends
<1>5. CASE ClientFinishes \/ ListenerCloses \/ GuardFires
  BY <1>5 DEF ClientFinishes, ListenerCloses, GuardFires
<1>6. ASSUME NEW l \in Links, LinkCloses(l) PROVE Hushed
  BY <1>6 DEF LinkCloses
<1>7. CASE TargetReads
  BY <1>7 DEF TargetReads
<1>8. ASSUME NEW n \in 1..Len(Wire), DeviceReads(n) PROVE Hushed
  BY <1>8 DEF DeviceReads, Fill
<1>9. CASE DeviceHasRequest \/ DeviceReadFails \/ PipeEnds
  BY <1>9 DEF DeviceHasRequest, DeviceReadFails, PipeEnds
<1>10. ASSUME NEW n \in 1..Len(Wire), GatewayReads(n) PROVE Hushed
  BY <1>10 DEF GatewayReads, Fill
<1>11. CASE PeekFirst
  <2>1. Connects => Head(gwBuf) # "hello"
    BY <1>2, <1>11, WireFacts DEF PeekFirst
  <2> QED
    BY <1>2, <1>11, <2>1 DEF PeekFirst
<1>12. CASE PeekPrefix
  BY <1>2, <1>12 DEF PeekPrefix
<1>13. CASE PeekFirstFails \/ ReadRequestFails
  BY <1>13 DEF PeekFirstFails, ReadRequestFails, GatewayDrops
<1>14. CASE ReadRequest
  BY <1>2, <1>14 DEF ReadRequest
<1>15. CASE ConnectAborted \/ RelayDialFails
  BY <1>15 DEF ConnectAborted, RelayDialFails, GatewayDrops
<1>16. CASE RelayEnds \/ ServerEnds
  BY <1>2, <1>16 DEF RelayEnds, ServerEnds, GatewayDrops
<1>17. CASE Push
  BY <1>2, <1>17 DEF Push, GatewayDrops
<1>18. CASE ServerReads
  BY <1>2, <1>18 DEF ServerReads
<1>19. ASSUME NEW k \in {"devUp", "gwUp"}, Copies(k) PROVE Hushed
  <2>1. UNCHANGED <<form, host, seen, dev, gw, endpoint, answered>>
    BY <1>19 DEF Copies
  <2>2. From(k) \notin Down /\ To(k) \notin Down
    BY <1>3
  <2>3. UNCHANGED <<flow["t2g"], flow["g2d"], flow["d2c"]>>
    BY <1>19, <2>2 DEF Copies
  <2>4. copier'["devDown"] = copier["devDown"] /\ copier'["gwDown"] = copier["gwDown"]
    BY <1>19 DEF Copies
  <2> QED
    BY <2>1, <2>3, <2>4
<1>20. ASSUME NEW k \in Copiers, CopyEnds(k) PROVE Hushed
  BY <1>20 DEF CopyEnds
<1> QED
  BY <1>4, <1>5, <1>6, <1>7, <1>8, <1>9, <1>10, <1>11, <1>12, <1>13, <1>14, <1>15, <1>16, <1>17,
     <1>18, <1>19, <1>20
  DEF HushedStep

----------------------------------------------------------------------------
(* Steps that give an answer, pass one on or receive it *)

LEMMA DownStreams ==
  TunnelInv => /\ Down \subseteq Streams
               /\ flow \in [Streams -> Seq(Pieces \cup Answers)]
               /\ copier \in [Copiers -> {"none", "run", "done"}]
               /\ {"devDown", "gwDown"} \subseteq Copiers
               /\ form \in Forms
               /\ dev # "none" <=> Proxied
               /\ dev \in {"read", "dial"} => gw = "none" /\ endpoint = "none"
               /\ gw # "none" => ~Direct
BY DEF Down, Streams, Copiers, DeviceCopiers, GatewayCopiers, TunnelInv, TunnelTypeOK, PlaceInv

(* The script does not change while the device's way down is what it was.    *)
LEMMA SameScript ==
  UNCHANGED <<form, host>> /\ (copier'["devDown"] = "none" <=> copier["devDown"] = "none") =>
      /\ UNCHANGED <<Script, Start, Connects, Proxied, Direct, Permitted(host)>>
BY Fixed DEF Script, Start, Permitted, IsMITMHost, HostInList

LEMMA ClientReceivesAnswer == TunnelInv /\ AnswerInv /\ ClientReceives => AnswerInv'
<1> SUFFICES ASSUME TunnelInv, AnswerInv, ClientReceives PROVE AnswerInv'
  OBVIOUS
<1>1. PICK s \in {"d2c", "g2d"} : s = IF Proxied THEN "d2c" ELSE "g2d"
  OBVIOUS
<1>2. /\ UNCHANGED <<form, host, dev, gw, endpoint, answered, copier>>
      /\ seen' = Append(seen, Head(flow[s]))
      /\ flow[s] # <<>> /\ flow'[s] = Tail(flow[s])
      /\ \A t \in Down \ {s} : flow'[t] = flow[t]
  BY <1>1, DownStreams DEF ClientReceives, ClientDown, Down
<1>3. /\ UNCHANGED <<Script, Start, Connects, Proxied, Direct, Permitted(host)>>
      /\ UNCHANGED <<GatewayHeard, TargetHeard, Replies, Told>>
  BY <1>2, SameScript DEF GatewayHeard, TargetHeard, Replies, Told
<1>4. Segment(Script, flow[s], Start + Len(seen)) /\ Segment(Script, seen, Start)
  BY <1>1 DEF AnswerInv, AnswerOrder, FromGateway, GatewayHeard, AfterSeen
<1>5. /\ Segment(Script, seen', Start)
      /\ Segment(Script, flow'[s], Start + Len(seen) + 1)
      /\ Len(seen') = Len(seen) + 1 /\ Len(flow'[s]) = Len(flow[s]) - 1
  <2>1. /\ seen \in Seq(Answers) /\ flow[s] \in Seq(Answers) /\ Script \in Seq(Answers)
        /\ Start \in Nat
    BY AnswerPositions, ScriptFacts DEF Down, TunnelInv
  <2> QED
    BY <1>2, <1>4, <2>1, OneMoves
<1>6. AfterSeen' = AfterSeen + 1
  BY <1>3, <1>5, AnswerPositions DEF AfterSeen
<1>7. CASE Proxied
  <2>1. AfterAnswer' = AfterAnswer /\ FromGateway' = FromGateway /\ AfterReply' = AfterReply
    <3>1. /\ OnStream("d2c")' = OnStream("d2c") - 1 /\ OnStream("g2d")' = OnStream("g2d")
          /\ AfterSeen \in Nat /\ OnStream("d2c") \in Nat
      BY <1>1, <1>2, <1>5, <1>7, AnswerPositions DEF OnStream, Down
    <3>2. AfterAnswer' = AfterAnswer
      BY <1>6, <3>1 DEF AfterAnswer
    <3> QED
      BY <1>3, <1>7, <3>1, <3>2 DEF FromGateway, AfterReply
  <2>2. FromTarget' = FromTarget
    BY <1>3, <2>1 DEF FromTarget
  <2>3. dev \notin {"read", "dial"}
    BY <1>1, <1>2, <1>7 DEF AnswerInv, AnswerPlace
  <2> QED
    BY <1>1, <1>2, <1>3, <1>5, <1>6, <1>7, <2>1, <2>2, <2>3
    DEF AnswerInv, AnswerOrder, AnswerCount, AnswerPlace, AfterSeen, OnStream, Down
<1>8. CASE ~Proxied
  <2>1. FromGateway' = FromGateway + 1 /\ AfterReply' = AfterReply
    <3>1. /\ OnStream("g2d")' = OnStream("g2d") - 1
          /\ AfterSeen \in Nat /\ OnStream("g2d") \in Nat
      BY <1>1, <1>2, <1>5, <1>8, AnswerPositions DEF OnStream, Down
    <3>2. FromGateway' = FromGateway + 1 /\ FromGateway = AfterSeen
      BY <1>3, <1>6, <1>8 DEF FromGateway
    <3> QED
      BY <3>1, <3>2 DEF AfterReply
  <2>2. FromTarget' = FromTarget /\ ~Direct
    BY <1>3, <1>8, <2>1 DEF FromTarget, Direct
  <2>3. dev \notin {"read", "dial"}
    BY <1>8, DownStreams
  <2> QED
    BY <1>1, <1>2, <1>3, <1>5, <1>8, <2>1, <2>2, <2>3
    DEF AnswerInv, AnswerOrder, AnswerCount, AnswerPlace, AfterSeen, FromGateway, OnStream, Down
<1> QED
  BY <1>7, <1>8

(* A copier takes one answer from a and puts it on b, or it cannot.          *)
LEMMA DownCopies ==
  ASSUME TunnelInv, NEW k \in {"devDown", "gwDown"}, Copies(k)
  PROVE  /\ UNCHANGED <<form, host, seen, dev, gw, endpoint, answered>>
         /\ From(k) \in Down /\ To(k) \in Down /\ From(k) # To(k)
         /\ copier[k] = "run"
         /\ flow[From(k)] # <<>> /\ flow'[From(k)] = Tail(flow[From(k)])
         /\ \A s \in Down \ {From(k), To(k)} : flow'[s] = flow[s]
         /\ \/ copier' = [copier EXCEPT ![k] = "done"] /\ flow'[To(k)] = flow[To(k)]
            \/ /\ copier' = copier
               /\ flow'[To(k)] = Append(flow[To(k)], Head(flow[From(k)]))
<1>1. From(k) \in Down /\ To(k) \in Down /\ From(k) # To(k)
  BY DEF From, To, Down
<1>2. BufferOf(k) = <<>>
  BY DEF BufferOf
<1>3. /\ UNCHANGED <<form, host, seen, dev, gw, endpoint, answered>>
      /\ copier[k] = "run" /\ flow[From(k)] # <<>>
  BY <1>2 DEF Copies
<1>4. \/ /\ copier' = [copier EXCEPT ![k] = "done"]
         /\ flow' = [flow EXCEPT ![From(k)] = Tail(@)]
      \/ /\ copier' = copier
         /\ flow' = [[flow EXCEPT ![From(k)] = Tail(@)]
                         EXCEPT ![To(k)] = Append(@, Head(flow[From(k)]))]
  BY <1>2 DEF Copies
<1> QED
  BY <1>1, <1>3, <1>4, DownStreams

(* It stays in its place in the script.                                      *)
LEMMA AnswerMoves ==
  ASSUME TunnelInv, NEW a \in Down, NEW b \in Down, NEW i \in Nat,
         Segment(Script, flow[b], i), Segment(Script, flow[a], i + OnStream(b)), flow[a] # <<>>,
         flow'[a] = Tail(flow[a]), flow'[b] = Append(flow[b], Head(flow[a]))
  PROVE  /\ Segment(Script, flow'[b], i)
         /\ Segment(Script, flow'[a], i + OnStream(b)')
         /\ OnStream(b)' = OnStream(b) + 1
         /\ OnStream(a)' = OnStream(a) - 1
<1>1. flow[a] \in Seq(Answers) /\ flow[b] \in Seq(Answers) /\ Script \in Seq(Answers)
  BY AnswerPositions, ScriptFacts DEF TunnelInv
<1>2. /\ Segment(Script, Append(flow[b], Head(flow[a])), i)
      /\ Segment(Script, Tail(flow[a]), i + Len(flow[b]) + 1)
      /\ Len(Append(flow[b], Head(flow[a]))) = Len(flow[b]) + 1
      /\ Len(Tail(flow[a])) = Len(flow[a]) - 1
  <2>1. PICK w \in Seq(Answers), p \in Seq(Answers), q \in Seq(Answers) :
          w = Script /\ p = flow[b] /\ q = flow[a]
    BY <1>1
  <2>2. Segment(w, p, i) /\ Segment(w, q, i + Len(p)) /\ q # <<>> /\ i \in Nat
    BY <2>1 DEF OnStream
  <2>3. /\ Segment(w, Append(p, Head(q)), i)
        /\ Segment(w, Tail(q), i + Len(p) + 1)
        /\ Len(Append(p, Head(q))) = Len(p) + 1
        /\ Len(Tail(q)) = Len(q) - 1
    BY ONLY <2>2, OneMoves
  <2> QED
    BY ONLY <2>1, <2>3
<1>3. i + (Len(flow[b]) + 1) = i + Len(flow[b]) + 1
  BY <1>1, LenProperties
<1> QED
  BY <1>2, <1>3 DEF OnStream

LEMMA GatewayPassesAnswer == TunnelInv /\ AnswerInv /\ Copies("gwDown") => AnswerInv'
<1> SUFFICES ASSUME TunnelInv, AnswerInv, Copies("gwDown") PROVE AnswerInv'
  OBVIOUS
<1>1. From("gwDown") = "t2g" /\ To("gwDown") = "g2d"
  BY DEF From, To
<1>2. /\ UNCHANGED <<form, host, seen, dev, gw, endpoint, answered>>
      /\ copier["gwDown"] = "run" /\ flow["t2g"] # <<>>
      /\ flow'["t2g"] = Tail(flow["t2g"]) /\ flow'["d2c"] = flow["d2c"]
      /\ \/ copier' = [copier EXCEPT !["gwDown"] = "done"] /\ flow'["g2d"] = flow["g2d"]
         \/ /\ copier' = copier
            /\ flow'["g2d"] = Append(flow["g2d"], Head(flow["t2g"]))
  BY <1>1, DownCopies DEF Down
<1>3. copier'["devDown"] = copier["devDown"] /\ copier'["gwDown"] \in {"run", "done"}
  BY <1>2, DownStreams
<1>4. ~Direct /\ endpoint = "target" /\ dev \notin {"read", "dial"}
  BY <1>2, DownStreams DEF AnswerInv, AnswerPlace
<1>5. /\ UNCHANGED <<Script, Start, Connects, Proxied, Direct, Permitted(host), Replies>>
      /\ UNCHANGED <<AfterSeen, AfterAnswer, FromGateway, GatewayHeard>>
  BY <1>2, <1>3, SameScript
  DEF Replies, AfterSeen, AfterAnswer, FromGateway, OnStream, GatewayHeard
<1>6. AnswerPlace'
  BY <1>2, <1>3, <1>4, <1>5 DEF AnswerInv, AnswerPlace
<1>7. CASE GatewayHeard /\ copier' = copier /\ flow'["g2d"] = Append(flow["g2d"], Head(flow["t2g"]))
  <2>1. TargetHeard /\ TargetHeard'
    BY <1>2, <1>4, <1>5, <1>7 DEF TargetHeard
  <2>2. /\ Segment(Script, flow'["g2d"], FromGateway)
        /\ Segment(Script, flow'["t2g"], FromGateway + OnStream("g2d")')
        /\ OnStream("g2d")' = OnStream("g2d") + 1
        /\ OnStream("t2g")' = OnStream("t2g") - 1
    BY <1>2, <1>4, <1>7, <2>1, AnswerMoves, AnswerPositions
    DEF AnswerInv, AnswerOrder, FromTarget, AfterReply, Down
  <2>3. FromTarget' = FromGateway + OnStream("g2d")' /\ FromTarget' = FromTarget + 1
    BY <1>4, <1>5, <2>2, AnswerPositions DEF FromTarget, AfterReply, Down
  <2>4. FromTarget \in Nat /\ OnStream("t2g") \in Nat
    BY AnswerPositions DEF Down
  <2>5. AnswerCount'
    BY <1>3, <1>5, <2>1, <2>2, <2>3, <2>4 DEF AnswerInv, AnswerCount
  <2> QED
    BY <1>2, <1>5, <1>6, <2>2, <2>3, <2>5 DEF AnswerInv, AnswerOrder
<1>8. CASE ~(GatewayHeard /\ copier' = copier)
  <2>1. ~TargetHeard' /\ (GatewayHeard => flow'["g2d"] = flow["g2d"])
    BY <1>2, <1>4, <1>5, <1>8, DownStreams DEF TargetHeard
  <2>2. AnswerCount'
    BY <1>3, <2>1 DEF AnswerCount
  <2> QED
    BY <1>2, <1>5, <1>6, <2>1, <2>2 DEF AnswerInv, AnswerOrder
<1> QED
  BY <1>2, <1>7, <1>8, DownStreams

LEMMA DevicePassesAnswer == TunnelInv /\ AnswerInv /\ Copies("devDown") => AnswerInv'
<1> SUFFICES ASSUME TunnelInv, AnswerInv, Copies("devDown") PROVE AnswerInv'
  OBVIOUS
<1>1. PICK a \in {"t2g", "g2d"} : a = IF Direct THEN "t2g" ELSE "g2d"
  OBVIOUS
<1>2. From("devDown") = a /\ To("devDown") = "d2c"
  BY <1>1 DEF From, To
<1>3. /\ UNCHANGED <<form, host, seen, dev, gw, endpoint, answered>>
      /\ copier["devDown"] = "run" /\ flow[a] # <<>> /\ flow'[a] = Tail(flow[a])
      /\ \A s \in Down \ {a, "d2c"} : flow'[s] = flow[s]
      /\ \/ copier' = [copier EXCEPT !["devDown"] = "done"] /\ flow'["d2c"] = flow["d2c"]
         \/ /\ copier' = copier
            /\ flow'["d2c"] = Append(flow["d2c"], Head(flow[a]))
  BY <1>2, DownCopies DEF Down
<1>4. copier'["gwDown"] = copier["gwDown"] /\ copier'["devDown"] \in {"run", "done"}
  BY <1>3, DownStreams
<1>5. Proxied /\ dev \notin {"read", "dial"}
  BY <1>3, DownStreams DEF AnswerInv, AnswerPlace
<1>6. UNCHANGED <<Script, Start, Connects, Proxied, Direct, Permitted(host), Replies, AfterSeen, Told>>
  BY <1>3, <1>4, SameScript DEF Replies, AfterSeen, Told
<1>7. AnswerPlace'
  <2>1. flow["t2g"] = <<>> => flow'["t2g"] = <<>>
    BY <1>3 DEF Down
  <2> QED
    BY <1>3, <1>4, <1>5, <1>6, <2>1 DEF AnswerInv, AnswerPlace
<1>8. CASE copier' = copier /\ flow'["d2c"] = Append(flow["d2c"], Head(flow[a]))
  <2>1. IF Direct THEN TargetHeard ELSE GatewayHeard
    BY <1>3, <1>5 DEF TargetHeard, GatewayHeard
  <2>2. Segment(Script, flow["d2c"], AfterSeen) /\ Segment(Script, flow[a], AfterAnswer)
    BY <1>1, <1>5, <2>1 DEF AnswerInv, AnswerOrder, FromTarget, FromGateway
  <2>3. /\ Segment(Script, flow'["d2c"], AfterSeen)
        /\ Segment(Script, flow'[a], AfterSeen + OnStream("d2c")')
        /\ OnStream("d2c")' = OnStream("d2c") + 1
        /\ OnStream(a)' = OnStream(a) - 1
    BY <1>3, <1>8, <2>2, AnswerMoves, AnswerPositions DEF AfterAnswer, Down
  <2>4. AfterAnswer' = AfterSeen + OnStream("d2c")' /\ AfterAnswer' = AfterAnswer + 1
    BY <1>6, <2>3, AnswerPositions DEF AfterAnswer, Down
  <2>5. CASE Direct
    <3>1. FromTarget' = FromTarget + 1 /\ OnStream("t2g")' = OnStream("t2g") - 1
      BY <1>1, <1>6, <2>3, <2>4, <2>5 DEF FromTarget
    <3>2. ~GatewayHeard' /\ TargetHeard'
      BY <1>3, <1>5, <1>6, <1>8, <2>5 DEF GatewayHeard, TargetHeard
    <3>3. AnswerCount'
      BY <1>6, <2>1, <2>5, <3>1, <3>2, AnswerPositions DEF AnswerInv, AnswerCount, Down
    <3> QED
      BY <1>1, <1>3, <1>6, <1>7, <2>3, <2>4, <2>5, <3>2, <3>3
      DEF AnswerInv, AnswerOrder, FromTarget
  <2>6. CASE ~Direct
    <3>1. /\ FromGateway' = FromGateway + 1 /\ AfterReply' = AfterReply /\ FromTarget' = FromTarget
      BY <1>1, <1>5, <1>6, <2>3, <2>4, <2>6, AnswerPositions DEF FromGateway, AfterReply, FromTarget, Down
    <3>2. /\ UNCHANGED <<GatewayHeard, TargetHeard>>
          /\ flow'["t2g"] = flow["t2g"]
      BY <1>1, <1>3, <1>6, <1>8, <2>6 DEF GatewayHeard, TargetHeard, Down
    <3>3. AnswerCount'
      BY <1>3, <1>4, <1>6, <3>1, <3>2 DEF AnswerInv, AnswerCount, OnStream
    <3>4. AnswerOrder'
      BY <1>1, <1>3, <1>5, <1>6, <2>3, <2>4, <2>6, <3>1, <3>2 DEF AnswerInv, AnswerOrder, FromGateway
    <3> QED
      BY <1>7, <3>3, <3>4 DEF AnswerInv
  <2> QED
    BY <2>5, <2>6
<1>9. CASE copier' # copier
  <2>1. ~GatewayHeard' /\ ~TargetHeard' /\ flow'["d2c"] = flow["d2c"]
    BY <1>3, <1>5, <1>6, <1>9, DownStreams DEF GatewayHeard, TargetHeard
  <2> QED
    BY <1>3, <1>6, <1>7, <2>1 DEF AnswerInv, AnswerOrder, AnswerCount
<1> QED
  BY <1>3, <1>8, <1>9, DownStreams

(* An answer is added to what is under way on s.                             *)
LEMMA AnswerAdded ==
  ASSUME TunnelInv, NEW s \in Down, NEW x \in Answers,
         flow' = [flow EXCEPT ![s] = Append(@, x)],
         NEW i \in Nat, Segment(Script, flow[s], i),
         NEW n \in Nat, n = i + OnStream(s) + 1, n <= Len(Script), x = Script[n]
  PROVE  /\ Segment(Script, flow'[s], i)
         /\ OnStream(s)' = OnStream(s) + 1
         /\ \A t \in Down \ {s} : flow'[t] = flow[t] /\ OnStream(t)' = OnStream(t)
<1>1. flow[s] \in Seq(Answers) /\ Script \in Seq(Answers)
  BY AnswerPositions, ScriptFacts DEF TunnelInv
<1>2. /\ flow'[s] = Append(flow[s], x)
      /\ \A t \in Down \ {s} : flow'[t] = flow[t]
  BY DownStreams
<1>3. PICK w \in Seq(Answers), p \in Seq(Answers) : w = Script /\ p = flow[s]
  BY <1>1
<1>4. Segment(w, p, i) /\ i + Len(p) + 1 <= Len(w) /\ x = w[i + Len(p) + 1]
  BY <1>3 DEF OnStream
<1>5. Segment(w, Append(p, x), i) /\ Len(Append(p, x)) = Len(p) + 1
  BY ONLY <1>4, x \in Answers, i \in Nat, SegmentAppend, Appended
<1> QED
  BY <1>2, <1>3, <1>5 DEF OnStream

(* Whoever replies is the endpoint, and it has been said that it is there.   *)
LEMMA ReplyIsNext ==
  TunnelInv /\ AnswerInv /\ ServerReplies =>
      /\ ~Direct /\ copier["gwDown"] = "none" /\ endpoint # "none"
      /\ ~Connects \/ endpoint = "tls"
      /\ Told = 1
      /\ GatewayHeard => Len(Script) = 2
<1> SUFFICES ASSUME TunnelInv, AnswerInv, ServerReplies
             PROVE  /\ ~Direct /\ copier["gwDown"] = "none" /\ endpoint # "none"
                    /\ ~Connects \/ endpoint = "tls"
                    /\ Told = 1
                    /\ GatewayHeard => Len(Script) = 2
  OBVIOUS
<1>1. gw = "served" /\ endpoint \in {"tls", "http"} /\ out = Payload /\ ~answered
  BY DEF ServerReplies, TunnelInv, EndpointInv
<1>2. ~Direct /\ copier["gwDown"] = "none"
  BY <1>1, DownStreams DEF AnswerInv, AnswerPlace
<1>3. ~Connects \/ endpoint = "tls"
  <2> SUFFICES ASSUME Connects, endpoint = "http" PROVE FALSE
    BY <1>1
  <2>1. /\ Payload[1] = "hello" /\ Len(Payload) = 2 /\ Wire[1] = "C"
    BY WireFacts DEF TunnelInv, TunnelTypeOK
  <2>2. Skipped = 0
    BY <1>1 DEF Skipped
  <2>3. out[1] = Wire[1]
    BY <1>1, <2>1, <2>2 DEF TunnelInv, OrderInv, Segment
  <2> QED
    BY <1>1, <2>1, <2>3
<1>4. Told = 1
  BY <1>1, <1>3 DEF Told, Replies
<1>5. ASSUME GatewayHeard PROVE Len(Script) = 2
  <2>1. Proxied => copier["devDown"] # "none"
    BY <1>5 DEF GatewayHeard
  <2>2. ~Proxied /\ Connects => Permitted(host)
    BY <1>3 DEF AnswerInv, AnswerPlace
  <2> QED
    BY <2>1, <2>2, ScriptFacts DEF TunnelInv
<1> QED
  BY <1>1, <1>2, <1>3, <1>4, <1>5

LEMMA ServerRepliesInv == TunnelInv /\ AnswerInv /\ ServerReplies => AnswerInv'
<1> SUFFICES ASSUME TunnelInv, AnswerInv, ServerReplies PROVE AnswerInv'
  OBVIOUS
<1>1. /\ UNCHANGED <<form, host, seen, dev, gw, endpoint, copier>>
      /\ flow' = [flow EXCEPT !["g2d"] = Append(@, "reply")]
      /\ gw = "served" /\ ~answered /\ answered'
  BY DEF ServerReplies, Answer
<1>2. /\ ~Direct /\ copier["gwDown"] = "none" /\ endpoint # "none" /\ dev \notin {"read", "dial"}
      /\ ~Connects \/ endpoint = "tls"
      /\ Told = 1
      /\ GatewayHeard => Len(Script) = 2 /\ Script[2] = "reply"
  BY <1>1, ReplyIsNext, DownStreams, ScriptFacts DEF TunnelInv
<1>3. /\ UNCHANGED <<Script, Start, Connects, Proxied, Direct, Permitted(host)>>
      /\ UNCHANGED <<GatewayHeard, TargetHeard, AfterSeen>> /\ ~TargetHeard
  BY <1>1, <1>2, SameScript DEF GatewayHeard, TargetHeard, AfterSeen
<1>4. /\ \A t \in Down \ {"g2d"} : flow'[t] = flow[t]
  BY <1>1, DownStreams
<1>5. UNCHANGED <<AfterAnswer, FromGateway>> /\ Told' = 2
  BY <1>1, <1>2, <1>3, <1>4 DEF AfterAnswer, FromGateway, OnStream, Down, Told, Replies
<1>6. AnswerPlace'
  BY <1>1, <1>2, <1>3, <1>4 DEF AnswerInv, AnswerPlace, Down
<1>7. CASE GatewayHeard
  <2>1. /\ AfterReply = 1 /\ FromGateway \in Nat /\ OnStream("g2d") \in Nat
        /\ Segment(Script, flow["g2d"], FromGateway)
    BY <1>1, <1>2, <1>7, AnswerPositions DEF AnswerInv, AnswerCount, AnswerOrder, Down
  <2>2. FromGateway + OnStream("g2d") + 1 = 2
    BY <2>1 DEF AfterReply
  <2>3. Segment(Script, flow'["g2d"], FromGateway) /\ OnStream("g2d")' = OnStream("g2d") + 1
    <3>1. "g2d" \in Down /\ "reply" \in Answers
      BY DEF Down, Answers
    <3>2. Len(Script) = 2 /\ "reply" = Script[2]
      BY <1>2, <1>7
    <3>3. 2 = FromGateway + OnStream("g2d") + 1 /\ 2 <= Len(Script)
      BY <2>2, <3>2
    <3> QED
      BY <1>1, <2>1, <3>1, <3>2, <3>3, AnswerAdded
  <2>4. AfterReply' = 2
    BY <1>5, <2>1, <2>2, <2>3 DEF AfterReply
  <2>5. AnswerCount'
    BY <1>3, <1>5, <2>4 DEF AnswerCount
  <2> QED
    BY <1>1, <1>3, <1>4, <1>5, <1>6, <2>3, <2>5 DEF AnswerInv, AnswerOrder, Down
<1>8. CASE ~GatewayHeard
  BY <1>1, <1>3, <1>4, <1>5, <1>6, <1>8 DEF AnswerInv, AnswerOrder, AnswerCount, Down
<1> QED
  BY <1>7, <1>8

LEMMA TargetRepliesInv == TunnelInv /\ AnswerInv /\ TargetReplies => AnswerInv'
<1> SUFFICES ASSUME TunnelInv, AnswerInv, TargetReplies PROVE AnswerInv'
  OBVIOUS
<1>1. /\ UNCHANGED <<form, host, seen, dev, gw, endpoint, copier>>
      /\ flow' = [flow EXCEPT !["t2g"] = Append(@, "reply")]
      /\ endpoint = "target" /\ ~answered /\ answered'
  BY DEF TargetReplies
<1>2. /\ Connects /\ dev \notin {"read", "dial"}
      /\ ~Proxied => Permitted(host)
      /\ ~Direct => copier["gwDown"] # "none"
  BY <1>1, DownStreams DEF TunnelInv, EndpointInv, AnswerInv, AnswerPlace
<1>3. /\ UNCHANGED <<Script, Start, Connects, Proxied, Direct, Permitted(host)>>
      /\ UNCHANGED <<GatewayHeard, TargetHeard, AfterSeen>>
  BY <1>1, SameScript DEF GatewayHeard, TargetHeard, AfterSeen
<1>4. \A t \in Down \ {"t2g"} : flow'[t] = flow[t]
  BY <1>1, DownStreams
<1>5. UNCHANGED <<AfterAnswer, FromGateway, AfterReply, FromTarget>> /\ Replies' = 1 /\ Replies = 0
  BY <1>1, <1>3, <1>4
  DEF AfterAnswer, FromGateway, AfterReply, FromTarget, OnStream, Down, Replies
<1>6. GatewayHeard => copier["gwDown"] # "none"
  BY <1>2 DEF GatewayHeard, Direct
<1>7. AnswerPlace'
  BY <1>1, <1>2, <1>3, <1>4 DEF AnswerInv, AnswerPlace, Down
<1>8. CASE TargetHeard
  <2>1. Len(Script) = 2 /\ Script[2] = "reply"
    <3>1. Proxied => copier["devDown"] # "none"
      BY <1>8 DEF TargetHeard, GatewayHeard
    <3> QED
      BY <1>2, <3>1, ScriptFacts DEF TunnelInv
  <2>2. /\ FromTarget \in Nat /\ OnStream("t2g") \in Nat
        /\ FromTarget + OnStream("t2g") + 1 = 2
        /\ Segment(Script, flow["t2g"], FromTarget)
    BY <1>5, <1>8, AnswerPositions DEF AnswerInv, AnswerCount, AnswerOrder, Down
  <2>3. Segment(Script, flow'["t2g"], FromTarget) /\ OnStream("t2g")' = OnStream("t2g") + 1
    <3>1. "t2g" \in Down /\ "reply" \in Answers
      BY DEF Down, Answers
    <3>2. 2 = FromTarget + OnStream("t2g") + 1 /\ "reply" = Script[2] /\ 2 <= Len(Script)
      BY <2>1, <2>2
    <3> QED
      BY <1>1, <2>2, <3>1, <3>2, AnswerAdded
  <2>4. AnswerCount'
    BY <1>1, <1>3, <1>5, <1>6, <2>2, <2>3 DEF AnswerCount
  <2> QED
    BY <1>1, <1>3, <1>4, <1>5, <1>7, <2>3, <2>4 DEF AnswerInv, AnswerOrder, Down
<1>9. CASE ~TargetHeard
  BY <1>1, <1>3, <1>4, <1>5, <1>6, <1>7, <1>9 DEF AnswerInv, AnswerOrder, AnswerCount, Down
<1> QED
  BY <1>8, <1>9

(* The gateway's own answer to a CONNECT is the first.                       *)
LEMMA ConnectIsFirst ==
  TunnelInv /\ AnswerInv /\ gw = "connect" =>
      /\ Connects /\ ~Direct /\ endpoint = "none" /\ dev \notin {"read", "dial"}
      /\ copier["gwDown"] = "none" /\ ~TargetHeard /\ Replies = 0
      /\ Proxied => Permitted(host)
      /\ GatewayHeard => AfterReply = 0 /\ (Permitted(host) => Len(Script) = 2)
<1> SUFFICES ASSUME TunnelInv, AnswerInv, gw = "connect"
             PROVE  /\ Connects /\ ~Direct /\ endpoint = "none" /\ dev \notin {"read", "dial"}
                    /\ copier["gwDown"] = "none" /\ ~TargetHeard /\ Replies = 0
                    /\ Proxied => Permitted(host)
                    /\ GatewayHeard => AfterReply = 0 /\ (Permitted(host) => Len(Script) = 2)
  OBVIOUS
<1>1. Connects /\ ~Direct /\ endpoint = "none" /\ dev \notin {"read", "dial"}
  BY DownStreams DEF TunnelInv, PlaceInv, EndpointInv
<1>2. copier["gwDown"] = "none" /\ ~TargetHeard /\ Replies = 0 /\ Told = 0
  BY <1>1 DEF AnswerInv, AnswerPlace, TargetHeard, Replies, Told
<1>3. Proxied => Permitted(host)
  BY <1>1 DEF Direct, ViaGateway, Permitted, IsMITMHost, HostInList
<1>4. ASSUME GatewayHeard PROVE AfterReply = 0 /\ (Permitted(host) => Len(Script) = 2)
  <2>1. Proxied => copier["devDown"] # "none"
    BY <1>4 DEF GatewayHeard
  <2>2. Permitted(host) => Len(Script) = 2
    BY <1>1, <2>1, ScriptFacts DEF TunnelInv
  <2> QED
    BY <1>2, <1>4, <2>2 DEF AnswerInv, AnswerCount
<1> QED
  BY <1>1, <1>2, <1>3, <1>4

LEMMA ConnectAnswered ==
  ASSUME TunnelInv, AnswerInv, gw = "connect", NEW x \in {"200", "403"},
         UNCHANGED <<form, host, seen, answered, copier, dev>>,
         flow' = [flow EXCEPT !["g2d"] = Append(@, x)],
         GatewayHeard => x = Script[1],
         endpoint' \in {"none", "tls"},
         (gw' = "ended" /\ endpoint' = "none") \/ (Told' = 1 /\ Permitted(host))
  PROVE  AnswerInv'
<1>1. /\ Connects /\ ~Direct /\ endpoint = "none" /\ dev \notin {"read", "dial"}
      /\ copier["gwDown"] = "none" /\ ~TargetHeard /\ Replies = 0
      /\ GatewayHeard => AfterReply = 0
  BY ConnectIsFirst
<1>2. /\ UNCHANGED <<Script, Start, Connects, Proxied, Direct, Permitted(host)>>
      /\ UNCHANGED <<GatewayHeard, TargetHeard, AfterSeen>>
      /\ \A t \in Down \ {"g2d"} : flow'[t] = flow[t]
  BY SameScript, DownStreams DEF GatewayHeard, TargetHeard, AfterSeen
<1>3. UNCHANGED <<AfterAnswer, FromGateway>>
  BY <1>2 DEF AfterAnswer, FromGateway, OnStream, Down
<1>4. AnswerPlace'
  BY <1>1, <1>2 DEF AnswerInv, AnswerPlace, Down
<1>5. CASE GatewayHeard
  <2>1. /\ FromGateway \in Nat /\ OnStream("g2d") \in Nat
        /\ FromGateway + OnStream("g2d") = 0
        /\ Segment(Script, flow["g2d"], FromGateway) /\ Len(Script) \in {1, 2}
    BY <1>1, <1>5, AnswerPositions, ScriptFacts
    DEF AnswerInv, AnswerOrder, AfterReply, Down, TunnelInv
  <2>2. Segment(Script, flow'["g2d"], FromGateway) /\ OnStream("g2d")' = OnStream("g2d") + 1
    <3>1. "g2d" \in Down /\ x \in Answers
      BY DEF Down, Answers
    <3>2. 1 = FromGateway + OnStream("g2d") + 1 /\ x = Script[1] /\ 1 <= Len(Script)
      BY <1>5, <2>1
    <3> QED
      BY <2>1, <3>1, <3>2, AnswerAdded
  <2>3. AfterReply' = 1
    BY <1>3, <2>1, <2>2 DEF AfterReply
  <2>4. AnswerCount'
    BY <1>1, <1>2, <2>3 DEF AnswerCount
  <2> QED
    BY <1>1, <1>2, <1>3, <1>4, <2>2, <2>4 DEF AnswerInv, AnswerOrder, Down
<1>6. CASE ~GatewayHeard
  BY <1>1, <1>2, <1>3, <1>4, <1>6 DEF AnswerInv, AnswerOrder, AnswerCount, Down
<1> QED
  BY <1>5, <1>6

LEMMA ConnectAnsweredInv ==
  TunnelInv /\ AnswerInv /\ (ConnectDenied \/ ConnectEstablished) => AnswerInv'
<1> SUFFICES ASSUME TunnelInv, AnswerInv, ConnectDenied \/ ConnectEstablished PROVE AnswerInv'
  OBVIOUS
<1>1. gw = "connect" /\ UNCHANGED <<form, host, seen, answered, copier, dev, out>>
  BY DEF ConnectDenied, ConnectEstablished
<1>2. /\ Connects /\ endpoint = "none" /\ Replies = 0
      /\ Proxied => Permitted(host)
      /\ GatewayHeard /\ Permitted(host) => Len(Script) = 2
  BY <1>1, ConnectIsFirst
<1>3. CASE ConnectEstablished
  <2>1. /\ flow' = [flow EXCEPT !["g2d"] = Append(@, "200")] /\ Permitted(host)
        /\ endpoint' = "tls" \/ (gw' = "dial" /\ endpoint' = "none")
    BY <1>2, <1>3 DEF ConnectEstablished, Answer
  <2>2. Told' = 1
    BY <1>1, <1>2, <2>1, Fixed DEF Told, Replies
  <2>3. GatewayHeard => Script[1] = "200"
    BY <1>2, <2>1, ScriptFacts DEF TunnelInv
  <2> QED
    BY <1>1, <2>1, <2>2, <2>3, ConnectAnswered
<1>4. CASE ConnectDenied /\ flow' = [flow EXCEPT !["g2d"] = Append(@, "403")]
  <2>1. ~Permitted(host) /\ gw' = "ended" /\ endpoint' = "none"
    BY <1>2, <1>4 DEF ConnectDenied, GatewayDrops
  <2>2. Script[1] = "403"
    <3>1. Script = <<"403">>
      BY <1>2, <2>1, ScriptFacts DEF TunnelInv
    <3> QED
      BY <3>1
  <2> QED
    BY <1>1, <1>4, <2>1, <2>2, ConnectAnswered
<1>5. CASE ConnectDenied /\ flow' = flow
  <2>1. Hushed
    BY <1>1, <1>5 DEF ConnectDenied, GatewayDrops, Hushed
  <2> QED
    BY <2>1, HushedInv
<1> QED
  BY <1>3, <1>4, <1>5 DEF ConnectDenied, Answer

LEMMA RelayStartsInv == TunnelInv /\ AnswerInv /\ RelayStarts => AnswerInv'
<1> SUFFICES ASSUME TunnelInv, AnswerInv, RelayStarts PROVE AnswerInv'
  OBVIOUS
<1>1. /\ UNCHANGED <<form, host, seen, dev, answered, flow>>
      /\ gw = "dial" /\ gw' = "relay" /\ endpoint' = "target"
      /\ copier'["devDown"] = copier["devDown"] /\ copier'["gwDown"] = "run"
  BY DownStreams DEF RelayStarts, StartCopying, GatewayCopiers
<1>2. /\ Connects /\ endpoint = "none" /\ ~Direct /\ dev \notin {"read", "dial"}
  BY <1>1, DownStreams DEF TunnelInv, PlaceInv, EndpointInv
<1>3. /\ copier["gwDown"] = "none" /\ flow["t2g"] = <<>> /\ ~answered
      /\ ~Proxied => Permitted(host)
  BY <1>1, <1>2 DEF AnswerInv, AnswerPlace
<1>4. /\ UNCHANGED <<Script, Start, Connects, Proxied, Direct, Permitted(host), Replies>>
      /\ UNCHANGED <<AfterSeen, AfterAnswer, FromGateway, AfterReply, FromTarget, GatewayHeard>>
  BY <1>1, SameScript
  DEF Replies, AfterSeen, AfterAnswer, FromGateway, AfterReply, FromTarget, OnStream, GatewayHeard
<1>5. AnswerPlace'
  BY <1>1, <1>2, <1>3, <1>4 DEF AnswerInv, AnswerPlace
<1>6. TargetHeard' => GatewayHeard /\ FromTarget = 1
  BY <1>1, <1>2, <1>3, <1>4 DEF TargetHeard, FromTarget, AnswerInv, AnswerCount, Told, Replies
<1>7. TargetHeard' => Segment(Script, flow["t2g"], FromTarget)
  <2>1. Script \in Seq(Answers) /\ Len(Script) \in {1, 2}
    BY ScriptFacts DEF TunnelInv
  <2> QED
    BY <1>3, <1>6, <2>1 DEF Segment
<1>8. AnswerCount'
  BY <1>1, <1>3, <1>4, <1>6 DEF AnswerCount, Replies, OnStream
<1> QED
  BY <1>1, <1>4, <1>5, <1>7, <1>8 DEF AnswerInv, AnswerOrder

(* The device has not answered and not passed an answer on: it dials.        *)
LEMMA NothingIsSaid ==
  TunnelInv /\ AnswerInv /\ dev = "dial" =>
      /\ Proxied /\ Connects /\ gw = "none" /\ endpoint = "none" /\ ~answered
      /\ seen = <<>> /\ flow["d2c"] = <<>> /\ flow["g2d"] = <<>> /\ flow["t2g"] = <<>>
      /\ copier["devDown"] = "none" /\ copier["gwDown"] = "none"
      /\ Script = <<"502">> /\ Start = 0 /\ AfterSeen = 0
BY DownStreams, ScriptFacts
DEF AnswerInv, AnswerPlace, Start, AfterSeen, Proxied, Connects, TunnelInv

LEMMA DialSucceedsInv == TunnelInv /\ AnswerInv /\ (DeviceTunnels \/ DeviceDials) => AnswerInv'
<1> SUFFICES ASSUME TunnelInv, AnswerInv, DeviceTunnels \/ DeviceDials PROVE AnswerInv'
  OBVIOUS
<1>1. /\ UNCHANGED <<form, host, seen, answered>>
      /\ dev = "dial" /\ dev' = "pipe"
      /\ copier'["devDown"] = "run" /\ copier'["gwDown"] = copier["gwDown"]
      /\ flow'["g2d"] = flow["g2d"] /\ flow'["t2g"] = flow["t2g"]
      /\ IF Direct THEN /\ endpoint' = "target"
                        /\ flow'["d2c"] = Append(flow["d2c"], "200")
         ELSE /\ endpoint' = endpoint /\ gw' = "peek1"
              /\ flow'["d2c"] = flow["d2c"]
  BY DownStreams DEF DeviceTunnels, DeviceDials, StartCopying, DeviceCopiers, Down
<1>2. /\ Proxied /\ Connects /\ endpoint = "none" /\ ~answered
      /\ seen = <<>> /\ flow["d2c"] = <<>> /\ flow["g2d"] = <<>> /\ flow["t2g"] = <<>>
      /\ copier["gwDown"] = "none"
  BY <1>1, NothingIsSaid
<1>3. UNCHANGED <<Start, Connects, Proxied, Direct, Permitted(host)>>
  BY <1>1, Fixed DEF Start, Permitted, IsMITMHost, HostInList
<1>4. PICK w \in Seq(Answers) : w = Script' /\ w = <<"200", "reply">>
  <2>1. Script' = <<"200", "reply">>
    BY <1>1, <1>2, <1>3 DEF Script, Proxied
  <2>2. <<"200", "reply">> \in Seq(Answers)
    BY DEF Answers
  <2> QED
    BY <2>1, <2>2
<1>5. Len(w) = 2 /\ w[1] = "200" /\ Len(<<>>) = 0
  BY <1>4
<1>6. AfterSeen' = 0 /\ seen' = <<>> /\ Replies' = 0
  BY <1>1, <1>2, <1>3, <1>5 DEF AfterSeen, Start, Replies
<1>7. AnswerPlace'
  BY <1>1, <1>2, <1>3 DEF AnswerInv, AnswerPlace
<1>8. CASE Direct
  <2>1. flow'["d2c"] = <<"200">>
    BY <1>1, <1>2, <1>8
  <2>2. /\ AfterAnswer' = 1 /\ FromTarget' = 1 /\ OnStream("t2g")' = 0
    BY <1>1, <1>2, <1>3, <1>6, <1>8, <2>1 DEF AfterAnswer, FromTarget, OnStream
  <2>3. ~GatewayHeard'
    BY <1>2, <1>3, <1>8 DEF GatewayHeard
  <2>4. AnswerCount'
    BY <1>6, <2>2, <2>3 DEF AnswerCount
  <2>5. /\ Segment(w, <<>>, 0) /\ Segment(w, <<>>, 1)
        /\ Segment(w, <<"200">>, 0)
    BY <1>5, SegmentNil DEF Segment
  <2>6. AnswerOrder'
    BY <1>1, <1>2, <1>3, <1>4, <1>6, <2>1, <2>2, <2>3, <2>5 DEF AnswerOrder, Start
  <2> QED
    BY <1>7, <2>4, <2>6 DEF AnswerInv
<1>9. CASE ~Direct
  <2>1. AfterAnswer' = 0 /\ FromGateway' = 0 /\ AfterReply' = 0
    BY <1>1, <1>2, <1>3, <1>6, <1>9 DEF AfterAnswer, FromGateway, AfterReply, OnStream
  <2>2. ~TargetHeard' /\ Told' = 0
    BY <1>1, <1>2, <1>3, <1>9 DEF TargetHeard, Told
  <2>3. AnswerCount'
    BY <2>1, <2>2 DEF AnswerCount
  <2>4. Segment(w, <<>>, 0)
    BY <1>5, SegmentNil
  <2>5. AnswerOrder'
    BY <1>1, <1>2, <1>3, <1>4, <1>6, <1>9, <2>1, <2>2, <2>4 DEF AnswerOrder, Start
  <2> QED
    BY <1>7, <2>3, <2>5 DEF AnswerInv
<1> QED
  BY <1>8, <1>9

LEMMA DialBreaksInv ==
  TunnelInv /\ AnswerInv /\ (DeviceTunnelBreaks \/ DeviceDialFails) => AnswerInv'
<1> SUFFICES ASSUME TunnelInv, AnswerInv, DeviceTunnelBreaks \/ DeviceDialFails PROVE AnswerInv'
  OBVIOUS
<1>1. /\ UNCHANGED <<form, host, seen, answered, endpoint, copier>>
      /\ dev = "dial" /\ dev' = "ended"
      /\ flow'["g2d"] = flow["g2d"] /\ flow'["t2g"] = flow["t2g"]
      /\ flow'["d2c"] \in {flow["d2c"], Append(flow["d2c"], "502")}
  BY DownStreams DEF DeviceTunnelBreaks, DeviceDialFails, Down
<1>2. /\ Proxied /\ endpoint = "none"
      /\ seen = <<>> /\ flow["d2c"] = <<>> /\ flow["t2g"] = <<>>
      /\ copier["devDown"] = "none" /\ copier["gwDown"] = "none"
      /\ Script = <<"502">> /\ Start = 0 /\ AfterSeen = 0
  BY <1>1, NothingIsSaid
<1>3. /\ UNCHANGED <<Script, Start, Connects, Proxied, Direct, Permitted(host), AfterSeen>>
  BY <1>1, SameScript DEF AfterSeen
<1>4. ~GatewayHeard' /\ ~TargetHeard'
  BY <1>1, <1>2, <1>3 DEF GatewayHeard, TargetHeard
<1>5. AnswerPlace'
  BY <1>1, <1>2, <1>3 DEF AnswerInv, AnswerPlace, NothingIsSaid
<1>6. PICK w \in Seq(Answers) : w = Script /\ Len(w) = 1 /\ w[1] = "502"
  <2>1. <<"502">> \in Seq(Answers) /\ Len(<<"502">>) = 1 /\ <<"502">>[1] = "502"
    BY DEF Answers
  <2> QED
    BY <1>2, <2>1
<1>7. Segment(w, <<>>, 0) /\ Segment(w, <<"502">>, 0)
  BY <1>6, SegmentNil DEF Segment
<1>8. flow'["d2c"] \in {<<>>, <<"502">>}
  BY <1>1, <1>2
<1> QED
  BY <1>1, <1>2, <1>3, <1>4, <1>5, <1>6, <1>7, <1>8 DEF AnswerInv, AnswerOrder, AnswerCount

----------------------------------------------------------------------------

LEMMA AnswerInit == TunnelInit => AnswerInv
<1> SUFFICES ASSUME TunnelInit PROVE AnswerInv
  OBVIOUS
<1>1. TunnelInv
  BY TunnelInitInv
<1>2. /\ seen = <<>> /\ \A s \in Down : flow[s] = <<>> /\ OnStream(s) = 0
      /\ \A k \in Copiers : copier[k] = "none"
      /\ endpoint = "none" /\ ~answered /\ gw \in {"none", "peek1"}
  BY DownStreams, <1>1 DEF TunnelInit, OnStream
<1>3. /\ AfterSeen = Start /\ AfterAnswer = Start /\ FromGateway = Start /\ AfterReply = Start
      /\ ~TargetHeard
  BY <1>2 DEF AfterSeen, AfterAnswer, FromGateway, AfterReply, Start, Down, Copiers,
              DeviceCopiers, GatewayCopiers, TargetHeard
<1>4. Segment(Script, <<>>, Start)
  <2>1. Script \in Seq(Answers) /\ Len(Script) \in {1, 2} /\ Start \in {0, 1}
    BY <1>1, ScriptFacts, AnswerPositions DEF TunnelInv
  <2> QED
    BY <2>1, SegmentNil
<1>5. AnswerOrder
  BY <1>2, <1>3, <1>4 DEF AnswerOrder, Down
<1>6. AnswerCount
  BY <1>2, <1>3 DEF AnswerCount, Told, Replies, Start
<1>7. AnswerPlace
  BY <1>2, DownStreams, <1>1 DEF AnswerPlace, Down
<1> QED
  BY <1>5, <1>6, <1>7 DEF AnswerInv

LEMMA AnswerNext == TunnelInv /\ AnswerInv /\ [TunnelNext]_tunnelVars => AnswerInv'
<1> SUFFICES ASSUME TunnelInv, AnswerInv, [TunnelNext]_tunnelVars PROVE AnswerInv'
  OBVIOUS
<1>1. CASE HushedStep
  BY <1>1, HushedSteps, HushedInv
<1>2. CASE ClientReceives
  BY <1>2, ClientReceivesAnswer
<1>3. CASE TargetReplies
  BY <1>3, TargetRepliesInv
<1>4. CASE ServerReplies
  BY <1>4, ServerRepliesInv
<1>5. CASE DeviceTunnels \/ DeviceDials
  BY <1>5, DialSucceedsInv
<1>6. CASE DeviceTunnelBreaks \/ DeviceDialFails
  BY <1>6, DialBreaksInv
<1>7. CASE ConnectDenied \/ ConnectEstablished
  BY <1>7, ConnectAnsweredInv
<1>8. CASE RelayStarts
  BY <1>8, RelayStartsInv
<1>9. CASE Copies("devDown") \/ Copies("gwDown")
  BY <1>9, DevicePassesAnswer, GatewayPassesAnswer
<1>10. CASE UNCHANGED tunnelVars
  <2>1. Hushed
    BY <1>10 DEF tunnelVars, Hushed, Told, Replies, Connects
  <2> QED
    BY <2>1, HushedInv
<1>11. (\E k \in Copiers : CopyStep(k)) =>
           HushedStep \/ Copies("devDown") \/ Copies("gwDown")
  BY DEF CopyStep, Copiers, DeviceCopiers, GatewayCopiers, HushedStep
<1> QED
  BY <1>1, <1>2, <1>3, <1>4, <1>5, <1>6, <1>7, <1>8, <1>9, <1>10, <1>11
  DEF TunnelNext, DeviceStep, GatewayStep, ServerStep, HushedStep

(* The invariant of the answers: what is under way from the target to the    *)
(* client is the rest of one script.                                         *)
THEOREM AnswerInvariant == TunnelSpec => []AnswerInv
<1>1. TunnelInit => AnswerInv
  BY AnswerInit
<1>2. TunnelInv /\ AnswerInv /\ [TunnelNext]_tunnelVars => AnswerInv'
  BY AnswerNext
<1> QED
  BY <1>1, <1>2, TunnelInvariant, PTL DEF TunnelSpec

(* A client gets one answer to its CONNECT, from the device's proxy or from  *)
(* the gateway, and the endpoint's reply after it, never before it.          *)
THEOREM OneAnswerIsFirst == TunnelSpec => []OneAnswerFirst
<1>1. TunnelInv /\ AnswerInv => OneAnswerFirst
  <2> SUFFICES ASSUME TunnelInv, AnswerInv PROVE OneAnswerFirst
    OBVIOUS
  <2>1. /\ Script \in {<<"502">>, <<"403">>, <<"200", "reply">>} /\ Script \in Seq(Answers)
        /\ seen \in Seq(Answers) /\ Segment(Script, seen, Start)
    BY ScriptFacts, AnswerPositions DEF Script, TunnelInv, AnswerInv, AnswerOrder
  <2>2. CASE Connects
    <3>1. IsPrefix(seen, Script)
      BY <2>1, <2>2, SegmentIsPrefix DEF Start
    <3>2. form \notin {"tls", "plain"}
      BY <2>2 DEF Connects
    <3> QED
      BY <2>1, <3>1, <3>2 DEF OneAnswerFirst
  <2>3. CASE ~Connects
    <3>1. /\ Len(Script) = 2 /\ Script[1] = "200" /\ Script[2] = "reply" /\ Start = 1
          /\ form \in {"tls", "plain"}
      BY <2>3, ScriptFacts, TunnelAssumption DEF TunnelInv, TunnelTypeOK, Start, Connects
    <3>2. PICK p \in Seq(Answers) : p = <<"200">> \o seen
      <4>1. <<"200">> \in Seq(Answers)
        BY DEF Answers
      <4> QED
        BY <2>1, <4>1, ConcatProperties
    <3>3. /\ Len(seen) \in Nat /\ Len(p) = Len(seen) + 1 /\ p[1] = "200"
          /\ \A k \in 2..Len(seen) + 1 : p[k] = seen[k - 1]
      <4>1. <<"200">> \in Seq(Answers) /\ Len(<<"200">>) = 1 /\ <<"200">>[1] = "200"
        BY DEF Answers
      <4>2. /\ Len(<<"200">> \o seen) = Len(<<"200">>) + Len(seen)
            /\ \A k \in 1..Len(<<"200">>) + Len(seen) :
                   (<<"200">> \o seen)[k] = IF k <= Len(<<"200">>) THEN <<"200">>[k]
                                            ELSE seen[k - Len(<<"200">>)]
        BY <2>1, <4>1, ConcatProperties
      <4> QED
        BY <2>1, <3>2, <4>1, <4>2, LenProperties
    <3>4. Segment(Script, p, 0)
      BY <2>1, <3>1, <3>3 DEF Segment
    <3>5. IsPrefix(p, Script)
      BY <2>1, <3>4, SegmentIsPrefix
    <3> QED
      BY <2>1, <3>1, <3>2, <3>5 DEF OneAnswerFirst
  <2> QED
    BY <2>2, <2>3
<1> QED
  BY <1>1, TunnelInvariant, AnswerInvariant, PTL

=============================================================================
