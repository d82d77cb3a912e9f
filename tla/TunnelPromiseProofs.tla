------------------------ MODULE TunnelPromiseProofs ------------------------
(* Tunnel keeps the promise of TunnelPromise, for every set of openings and  *)
(* hosts and every window.                                                   *)
EXTENDS TunnelProofs

(* How much of its opening and of what follows the client has sent.          *)
Said == Len(Wire) - Len(unsent)

(* Nobody holds more than has been said.                                     *)
SaidInv ==
    /\ AfterTarget <= Said
    /\ GatewayTakes => AfterChannel <= Said

(* No answer has been given.                                                 *)
Silent ==
    seen = <<>> /\ flow["t2g"] = <<>> /\ flow["g2d"] = <<>> /\ flow["d2c"] = <<>>

(* What nobody can come to before the whole CONNECT has been said.           *)
Asking ==
    \/ ~Silent
    \/ dev \in {"dial", "pipe"}
    \/ gw \in {"connect", "dial", "relay"}
    \/ endpoint \in {"tls", "target"}

AskedInv == Connects /\ Asking => Said >= 3

(* Without a pipe in the device the gateway gets nothing.                    *)
BrokenInv ==
    Proxied /\ copier["devDown"] = "none" =>
        /\ gw \in {"none", "peek1", "ended"}
        /\ flow["d2g"] = <<>> /\ gwBuf = <<>>
        /\ copier["devUp"] = "none"
        /\ endpoint = "none"

(* Who has not got as far as the CONNECT has not answered it.                *)
SilentInv ==
    /\ Connects /\ gw \in {"peek1", "peek8", "request", "connect"}
            /\ (Proxied => copier["devDown"] # "none") => Silent
    /\ Connects /\ endpoint = "http" => Silent /\ ~answered
    /\ gw = "peek8" => form # "tls"

(* A reply is under way when it has been given.                              *)
Known == IF answered THEN Answers ELSE Answers \ {"reply"}

KnownInv ==
    /\ seen \in Seq(Known)
    /\ flow["t2g"] \in Seq(Known) /\ flow["g2d"] \in Seq(Known) /\ flow["d2c"] \in Seq(Known)

PromiseInv == SaidInv /\ AskedInv /\ BrokenInv /\ SilentInv /\ KnownInv

USE DEF clientVars, deviceVars, gatewayVars, endpointVars, streamVars

----------------------------------------------------------------------------
(* What has been said *)

LEMMA SaidFacts ==
  TunnelInv => /\ Said \in Int
               /\ Len(Wire) = IF Connects THEN 5 ELSE 2
               /\ Len(unsent) \in Nat
<1> SUFFICES ASSUME TunnelInv
             PROVE  Said \in Int /\ Len(Wire) = (IF Connects THEN 5 ELSE 2) /\ Len(unsent) \in Nat
  OBVIOUS
<1>1. Len(Wire) \in Nat /\ Len(unsent) \in Nat
  BY Contents DEF TunnelInv
<1> QED
  BY <1>1, WireFacts DEF Said, TunnelInv, TunnelTypeOK

LEMMA SaidSame == form' = form /\ host' = host /\ unsent' = unsent => Said' = Said
BY Fixed DEF Said

(* What the device holds has been said.                                      *)
LEMMA DeviceHolds ==
  TunnelInv /\ (dev \in {"read", "dial"} \/ DeviceTakes) => AfterClient = Said
BY SaidFacts, Positions DEF TunnelInv, OrderInv, Rest, Said

(* A step that takes nothing further up.                                     *)
LEMMA SaidStays ==
  ASSUME SaidInv, UNCHANGED <<form, host, unsent>>, AfterTarget' = AfterTarget,
         GatewayTakes' => GatewayTakes /\ AfterChannel' = AfterChannel
  PROVE  SaidInv'
BY SaidSame DEF SaidInv

LEMMA NothingGoesUp ==
  ASSUME TunnelInv, SaidInv, UNCHANGED <<form, host, unsent, out, gwBuf, flow["g2t"], flow["d2g"]>>,
         Skipped' = Skipped, GatewayTakes' => GatewayTakes
  PROVE  SaidInv'
<1>1. AfterOut' = AfterOut /\ AfterTarget' = AfterTarget
  BY DEF AfterOut, AfterTarget, OnStream
<1>2. AfterGateway' = AfterGateway /\ AfterChannel' = AfterChannel
  BY <1>1 DEF AfterGateway, AfterChannel, OnStream
<1> QED
  BY <1>1, <1>2, SaidStays

(* Steps that send nothing up.                                               *)
LEMMA SaidByDownward ==
  ASSUME TunnelInv, SaidInv,
         Quiet \/ Answering \/ DeviceHasRequest \/ (\E k \in {"devDown", "gwDown"} : Copies(k))
  PROVE  SaidInv'
<1>1. CASE Quiet
  <2>1. UNCHANGED <<form, host, unsent, gwBuf, out, flow>>
    BY <1>1 DEF Quiet, ClientFinishes, LinkCloses, DeviceReadFails, PipeEnds, GuardFires, PeekFirst,
         PeekFirstFails, PeekPrefix, ReadRequestFails, RelayStarts, RelayEnds, ListenerCloses,
         Push, ServerEnds, CopyEnds
  <2> QED
    BY <1>1, <2>1, QuietSteps, NothingGoesUp DEF Kept
<1>2. CASE Answering
  <2>1. /\ UNCHANGED <<form, host, unsent, gwBuf, out, flow["g2t"], flow["d2g"]>>
    BY <1>2, AnsweringFlow DEF UpUnchanged
  <2>2. Skipped' = Skipped /\ (GatewayTakes' => GatewayTakes)
    <3> USE Fixed DEF Skipped, GatewayTakes, TunnelInv, PlaceInv, EndpointInv
    <3>1. CASE DeviceDialFails
      BY <3>1 DEF DeviceDialFails
    <3>2. CASE ConnectEstablished
      BY <3>2 DEF ConnectEstablished
    <3>3. CASE ServerReplies \/ TargetReplies
      BY <3>3 DEF ServerReplies, TargetReplies
    <3>4. CASE ClientReceives
      BY <3>4 DEF ClientReceives
    <3> QED
      BY <1>2, <3>1, <3>2, <3>3, <3>4 DEF Answering
  <2> QED
    BY <2>1, <2>2, NothingGoesUp
<1>3. CASE DeviceHasRequest
  <2>1. UNCHANGED <<form, host, unsent, gwBuf, out, flow, gw, endpoint, copier>>
    BY <1>3 DEF DeviceHasRequest
  <2>2. Skipped' = Skipped /\ (GatewayTakes' => GatewayTakes)
    BY <2>1, Fixed DEF Skipped, GatewayTakes
  <2> QED
    BY <2>1, <2>2, NothingGoesUp
<1>4. ASSUME NEW k \in {"devDown", "gwDown"}, Copies(k) PROVE SaidInv'
  <2>1. UNCHANGED <<form, host, unsent, gwBuf, out, gw, endpoint>> /\ BufferOf(k) = <<>>
    BY <1>4 DEF Copies, BufferOf
  <2>2. From(k) \notin UpStreams /\ To(k) \notin UpStreams /\ UpStreams \subseteq Streams
    BY DEF From, To, UpStreams, Streams
  <2>3. UNCHANGED <<flow["g2t"], flow["d2g"], copier["gwUp"]>>
    BY <1>4, <2>1, <2>2 DEF Copies, UpStreams, TunnelInv, TunnelTypeOK, Copiers, DeviceCopiers,
       GatewayCopiers
  <2>4. Skipped' = Skipped /\ (GatewayTakes' => GatewayTakes)
    BY <2>1, <2>3, Fixed DEF Skipped, GatewayTakes
  <2> QED
    BY <2>1, <2>3, <2>4, NothingGoesUp
<1> QED
  BY <1>1, <1>2, <1>3, <1>4

LEMMA SaidByClientSends == TunnelInv /\ SaidInv /\ ClientSends => SaidInv'
<1> SUFFICES ASSUME TunnelInv, SaidInv, ClientSends PROVE SaidInv'
  OBVIOUS
<1>1. PICK to \in {"c2d", "d2g"} :
        /\ UNCHANGED <<form, host, out, gw, gwBuf, endpoint, copier>>
        /\ unsent # <<>> /\ unsent' = Tail(unsent)
        /\ flow' = [flow EXCEPT ![to] = Append(flow[to], Head(unsent))]
  BY DEF ClientSends, ClientUp
<1>2. /\ unsent \in Seq(Pieces) /\ flow[to] \in Seq(Pieces) /\ OnStream("d2g") \in Nat
      /\ flow \in [Streams -> Seq(Pieces \cup Answers)]
  BY Contents DEF TunnelInv, TunnelTypeOK
<1>3. /\ Len(unsent') = Len(unsent) - 1 /\ Head(unsent) \in Pieces
      /\ Len(Append(flow[to], Head(unsent))) = Len(flow[to]) + 1
  BY <1>1, <1>2, HeadAndTail, Appended
<1>4. Said' = Said + 1 /\ Said \in Int
  BY <1>1, <1>3, Fixed, SaidFacts DEF Said
<1>5. flow'["g2t"] = flow["g2t"] /\ OnStream("d2g")' \in {OnStream("d2g"), OnStream("d2g") + 1}
  BY <1>1, <1>2, <1>3 DEF Streams, OnStream
<1>6. Skipped' = Skipped /\ GatewayTakes' = GatewayTakes
  BY <1>1, Fixed DEF Skipped, GatewayTakes
<1>7. AfterTarget' = AfterTarget
  BY <1>1, <1>5, <1>6 DEF AfterOut, AfterTarget, OnStream
<1>8. AfterGateway' = AfterGateway
  BY <1>1, <1>7 DEF AfterGateway
<1>9. AfterChannel' \in {AfterChannel, AfterChannel + 1}
  BY <1>2, <1>5, <1>8, Positions DEF AfterChannel, TunnelInv
<1> QED
  BY <1>4, <1>6, <1>7, <1>9, Positions DEF SaidInv, TunnelInv

LEMMA SaidByReads ==
  ASSUME TunnelInv, SaidInv, NEW n, DeviceReads(n) \/ GatewayReads(n) PROVE SaidInv'
<1>1. CASE DeviceReads(n)
  <2>1. /\ UNCHANGED <<form, host, unsent, out, gwBuf, gw, endpoint, copier>>
        /\ flow' = [flow EXCEPT !["c2d"] = SubSeq(flow["c2d"], n + 1, Len(flow["c2d"]))]
    BY <1>1 DEF DeviceReads, Fill
  <2>2. UNCHANGED <<flow["g2t"], flow["d2g"]>>
    BY <2>1 DEF TunnelInv, TunnelTypeOK, Streams
  <2>3. Skipped' = Skipped /\ GatewayTakes' = GatewayTakes
    BY <2>1, Fixed DEF Skipped, GatewayTakes
  <2> QED
    BY <2>1, <2>2, <2>3, NothingGoesUp
<1>2. CASE GatewayReads(n)
  <2>1. /\ UNCHANGED <<form, host, unsent, out, gw, endpoint, copier>>
        /\ n \in 1..Len(flow["d2g"])
        /\ gwBuf' = gwBuf \o SubSeq(flow["d2g"], 1, n)
        /\ flow' = [flow EXCEPT !["d2g"] = SubSeq(flow["d2g"], n + 1, Len(flow["d2g"]))]
    BY <1>2 DEF GatewayReads, Fill
  <2>2. /\ gwBuf \in Seq(Pieces) /\ flow["d2g"] \in Seq(Pieces)
        /\ Len(gwBuf) \in Nat /\ OnStream("d2g") \in Nat /\ AfterTarget \in Nat
        /\ n \in 1..Len(flow["d2g"]) /\ n \in 0..Len(flow["d2g"])
    <3>1. /\ gwBuf \in Seq(Pieces) /\ flow["d2g"] \in Seq(Pieces)
          /\ Len(gwBuf) \in Nat /\ OnStream("d2g") \in Nat
      BY Contents DEF TunnelInv
    <3>2. AfterTarget \in Nat
      BY Positions DEF TunnelInv
    <3>3. n \in 0..Len(flow["d2g"])
      BY ONLY <2>1, <3>1, LenProperties
    <3> QED
      BY <2>1, <3>1, <3>2, <3>3
  <2>3. /\ Len(gwBuf') = Len(gwBuf) + n
        /\ Len(SubSeq(flow["d2g"], n + 1, Len(flow["d2g"]))) = Len(flow["d2g"]) - n
    BY <2>1, <2>2, Taken, Dropped
  <2>4. flow'["g2t"] = flow["g2t"] /\ OnStream("d2g")' = OnStream("d2g") - n
    BY <2>1, <2>3 DEF TunnelInv, TunnelTypeOK, Streams, OnStream
  <2>5. Skipped' = Skipped /\ GatewayTakes' = GatewayTakes
    BY <2>1, Fixed DEF Skipped, GatewayTakes
  <2>6. AfterTarget' = AfterTarget
    BY <2>1, <2>4, <2>5 DEF AfterOut, AfterTarget, OnStream
  <2>7. AfterGateway' = AfterGateway + n
    BY <2>2, <2>3, <2>6 DEF AfterGateway
  <2>8. AfterChannel' = AfterChannel
    BY <2>2, <2>4, <2>7, Positions DEF AfterChannel, TunnelInv
  <2> QED
    BY <2>1, <2>5, <2>6, <2>8, SaidStays
<1> QED
  BY <1>1, <1>2

LEMMA SaidByReadRequest == TunnelInv /\ SaidInv /\ ReadRequest => SaidInv'
<1> SUFFICES ASSUME TunnelInv, SaidInv, ReadRequest PROVE SaidInv'
  OBVIOUS
<1>1. /\ UNCHANGED <<form, host, unsent, out, flow, endpoint, copier>>
      /\ gw = "request" /\ gw' = "connect"
      /\ 3 \in 0..Len(gwBuf) /\ gwBuf' = SubSeq(gwBuf, 3 + 1, Len(gwBuf))
  BY HeadFacts, Contents DEF ReadRequest, TunnelInv
<1>2. /\ gwBuf \in Seq(Pieces) /\ Len(gwBuf) \in Nat /\ OnStream("d2g") \in Nat
  BY Contents DEF TunnelInv
<1>3. Len(gwBuf') = Len(gwBuf) - 3
  BY <1>1, <1>2, Dropped
<1>4. /\ endpoint = "none" /\ out = <<>> /\ flow["g2t"] = <<>> /\ Connects
      /\ Skipped = 0 /\ AfterTarget = 0
  BY <1>1, OpeningFacts DEF TunnelInv, EndpointInv, PlaceInv
<1>5. Skipped' = 3
  BY <1>1, <1>4, Fixed DEF Skipped
<1>6. AfterTarget' = 3
  BY <1>1, <1>4, <1>5 DEF AfterTarget, AfterOut, OnStream
<1>7. AfterGateway = Len(gwBuf) /\ AfterGateway' = Len(gwBuf)
  BY <1>2, <1>3, <1>4, <1>6 DEF AfterGateway
<1>8. AfterChannel' = AfterChannel /\ AfterChannel >= 3
  BY <1>1, <1>2, <1>7 DEF AfterChannel, OnStream
<1>9. AfterChannel <= Said /\ Said' = Said
  BY <1>1, SaidSame DEF SaidInv, GatewayTakes
<1> QED
  BY <1>2, <1>6, <1>7, <1>8, <1>9, SaidFacts, Positions DEF SaidInv, TunnelInv

LEMMA DialSaid == TunnelInv /\ dev = "dial" => Said >= 3
<1> SUFFICES ASSUME TunnelInv, dev = "dial" PROVE Said >= 3
  OBVIOUS
<1>1. AfterClient = Said /\ AfterDevice = 3 + Len(devBuf)
  BY DeviceHolds, DialFacts
<1>2. Len(devBuf) \in Nat /\ OnStream("c2d") \in Nat
  BY Contents DEF TunnelInv
<1> QED
  BY <1>1, <1>2 DEF AfterClient

LEMMA SaidByDial ==
  TunnelInv /\ SaidInv /\ (DeviceTunnels \/ DeviceTunnelBreaks \/ DeviceDials) => SaidInv'
<1> SUFFICES ASSUME TunnelInv, SaidInv, DeviceTunnels \/ DeviceTunnelBreaks \/ DeviceDials
             PROVE  SaidInv'
  OBVIOUS
<1>1. /\ UNCHANGED <<form, host, unsent, out, gwBuf>> /\ dev = "dial"
      /\ copier'["gwUp"] = copier["gwUp"]
  BY DEF DeviceTunnels, DeviceTunnelBreaks, DeviceDials, StartCopying, Copiers, DeviceCopiers,
         GatewayCopiers
<1>2. /\ Connects /\ gw = "none" /\ gwBuf = <<>> /\ endpoint = "none" /\ out = <<>>
      /\ flow["g2t"] = <<>> /\ copier["gwUp"] = "none"
      /\ Said >= 3 /\ Said' = Said /\ Said \in Int
  BY <1>1, DialFacts, DialSaid, SaidSame, SaidFacts
<1>3. flow \in [Streams -> Seq(Pieces \cup Answers)]
  BY DEF TunnelInv, TunnelTypeOK
<1>4. CASE DeviceDials
  <2>1. endpoint' = "target" /\ gw' = gw /\ flow'["g2t"] = flow["g2t"]
    BY <1>3, <1>4 DEF DeviceDials, Streams
  <2>2. Skipped' = 3
    BY <1>1, <1>2, <2>1, Fixed DEF Skipped
  <2>3. AfterTarget' = 3
    BY <1>1, <1>2, <2>1, <2>2 DEF AfterTarget, AfterOut, OnStream
  <2>4. ~GatewayTakes'
    BY <1>1, <1>2, <2>1 DEF GatewayTakes
  <2> QED
    BY <1>2, <2>3, <2>4 DEF SaidInv
<1>5. CASE DeviceTunnels \/ DeviceTunnelBreaks
  <2>1. endpoint' = endpoint /\ gw' = "peek1" /\ flow'["g2t"] = flow["g2t"]
    BY <1>3, <1>5 DEF DeviceTunnels, DeviceTunnelBreaks, Streams
  <2>2. Len(flow'["d2g"]) \in {0, 3}
    <3>1. flow'["d2g"] \in {Head3, flow["d2g"]} /\ ~Direct
      BY <1>3, <1>5 DEF DeviceTunnels, DeviceTunnelBreaks, Streams
    <3>2. flow["d2g"] = <<>>
      BY <1>2, <3>1 DEF TunnelInv, PlaceInv
    <3> QED
      BY <3>1, <3>2, HeadFacts
  <2>3. Skipped' = 0
    BY <1>2, <2>1 DEF Skipped
  <2>4. AfterTarget' = 0
    BY <1>1, <1>2, <2>1, <2>3 DEF AfterTarget, AfterOut, OnStream
  <2>5. AfterChannel' \in {0, 3}
    BY <1>1, <1>2, <2>2, <2>4 DEF AfterChannel, AfterGateway, OnStream
  <2> QED
    BY <1>2, <2>4, <2>5 DEF SaidInv
<1> QED
  BY <1>4, <1>5

LEMMA SaidByGivesUp == TunnelInv /\ SaidInv /\ GivesUp => SaidInv'
<1> SUFFICES ASSUME TunnelInv, SaidInv, GivesUp PROVE SaidInv'
  OBVIOUS
<1>1. /\ UNCHANGED <<form, host, unsent, out, endpoint, copier>>
      /\ gw \in {"connect", "dial"} /\ gw' = "ended"
      /\ flow'["g2t"] = flow["g2t"]
  BY DEF GivesUp, ConnectDenied, ConnectAborted, RelayDialFails, GatewayDrops, Answer, TunnelInv,
         TunnelTypeOK, Streams
<1>2. endpoint = "none" /\ out = <<>> /\ flow["g2t"] = <<>> /\ copier["gwUp"] = "none"
  BY <1>1 DEF TunnelInv, EndpointInv, TunnelTypeOK, Copiers, GatewayCopiers
<1>3. Skipped' = 0 /\ ~GatewayTakes'
  BY <1>1, <1>2 DEF Skipped, GatewayTakes
<1>4. AfterTarget' = 0
  BY <1>1, <1>2, <1>3 DEF AfterTarget, AfterOut, OnStream
<1>5. 0 <= Said
  BY Positions, SaidFacts DEF SaidInv, TunnelInv
<1> QED
  BY <1>1, <1>3, <1>4, <1>5, SaidSame DEF SaidInv

(* The next piece moves from the gateway's buffer or from the channel.       *)
LEMMA TakenByGateway ==
  ASSUME TunnelInv, AfterTarget' = AfterTarget + 1,
         \/ Len(gwBuf') = Len(gwBuf) - 1 /\ OnStream("d2g")' = OnStream("d2g") /\ Len(gwBuf) >= 1
         \/ /\ Len(gwBuf') = Len(gwBuf) /\ OnStream("d2g")' = OnStream("d2g") - 1
            /\ OnStream("d2g") >= 1
  PROVE  AfterChannel' = AfterChannel /\ AfterTarget + 1 <= AfterChannel
<1>1. /\ Len(gwBuf) \in Nat /\ OnStream("d2g") \in Nat /\ AfterTarget \in Nat
      /\ AfterGateway \in Nat /\ AfterChannel \in Nat
  BY Contents, Positions DEF TunnelInv
<1>2. CASE Len(gwBuf') = Len(gwBuf) - 1 /\ OnStream("d2g")' = OnStream("d2g") /\ Len(gwBuf) >= 1
  <2>1. AfterGateway' = AfterGateway /\ AfterTarget + 1 <= AfterGateway
    BY ONLY <1>1, <1>2, AfterTarget' = AfterTarget + 1 DEF AfterGateway
  <2> QED
    BY <1>1, <1>2, <2>1 DEF AfterChannel
<1>3. CASE /\ Len(gwBuf') = Len(gwBuf) /\ OnStream("d2g")' = OnStream("d2g") - 1
           /\ OnStream("d2g") >= 1
  <2>1. AfterGateway' = AfterGateway + 1 /\ AfterTarget <= AfterGateway
    BY ONLY <1>1, <1>3, AfterTarget' = AfterTarget + 1 DEF AfterGateway
  <2> QED
    BY <1>1, <1>3, <2>1 DEF AfterChannel
<1> QED
  BY <1>2, <1>3

(* The endpoint reads a piece.                                               *)
LEMMA SaidByEndpoint == TunnelInv /\ SaidInv /\ (TargetReads \/ ServerReads) => SaidInv'
<1> SUFFICES ASSUME TunnelInv, SaidInv, TargetReads \/ ServerReads PROVE SaidInv'
  OBVIOUS
<1>1. /\ UNCHANGED <<form, host, unsent, gw, endpoint, copier>>
      /\ Said' = Said
  BY SaidSame DEF TargetReads, ServerReads
<1>2. /\ out \in Seq(Pieces) /\ gwBuf \in Seq(Pieces)
      /\ flow["g2t"] \in Seq(Pieces) /\ flow["d2g"] \in Seq(Pieces)
      /\ Len(out) \in Nat /\ Len(gwBuf) \in Nat
      /\ OnStream("g2t") \in Nat /\ OnStream("d2g") \in Nat /\ Skipped \in Nat
      /\ AfterTarget \in Nat /\ AfterChannel \in Nat /\ Said \in Int
  BY Contents, Positions, SaidFacts DEF TunnelInv
<1>3. Skipped' = Skipped /\ GatewayTakes' = GatewayTakes
  BY <1>1, Fixed DEF Skipped, GatewayTakes
<1>4. flow \in [Streams -> Seq(Pieces \cup Answers)] /\ "g2t" \in Streams /\ "d2g" \in Streams
  BY DEF TunnelInv, TunnelTypeOK, Streams
<1>5. CASE TargetReads
  <2>1. /\ flow["g2t"] # <<>> /\ out' = Append(out, Head(flow["g2t"])) /\ gwBuf' = gwBuf
        /\ flow'["g2t"] = Tail(flow["g2t"]) /\ flow'["d2g"] = flow["d2g"]
    BY <1>4, <1>5 DEF TargetReads
  <2>2. Len(out') = Len(out) + 1 /\ OnStream("g2t")' = OnStream("g2t") - 1
    BY <1>2, <2>1, HeadAndTail, Appended DEF OnStream
  <2>3. AfterTarget' = AfterTarget
    BY <1>2, <1>3, <2>2 DEF AfterTarget, AfterOut
  <2>4. AfterChannel' = AfterChannel
    BY <2>1, <2>3 DEF AfterChannel, AfterGateway, OnStream
  <2> QED
    BY <1>1, <1>3, <2>3, <2>4, SaidStays
<1>6. CASE ServerReads
  <2>1. /\ gw = "served" /\ GatewayTakes
        /\ \/ /\ gwBuf # <<>> /\ out' = Append(out, Head(gwBuf))
              /\ gwBuf' = Tail(gwBuf) /\ flow' = flow
           \/ /\ flow["d2g"] # <<>> /\ out' = Append(out, Head(flow["d2g"]))
              /\ gwBuf' = gwBuf /\ flow' = [flow EXCEPT !["d2g"] = Tail(@)]
    BY <1>6 DEF ServerReads, GatewayTakes
  <2>2. /\ Len(out') = Len(out) + 1 /\ OnStream("g2t")' = OnStream("g2t")
        /\ \/ Len(gwBuf') = Len(gwBuf) - 1 /\ OnStream("d2g")' = OnStream("d2g") /\ Len(gwBuf) >= 1
           \/ /\ Len(gwBuf') = Len(gwBuf) /\ OnStream("d2g")' = OnStream("d2g") - 1
              /\ OnStream("d2g") >= 1
    <3>1. CASE /\ gwBuf # <<>> /\ out' = Append(out, Head(gwBuf))
               /\ gwBuf' = Tail(gwBuf) /\ flow' = flow
      <4>1. Head(gwBuf) \in Pieces /\ Len(Tail(gwBuf)) = Len(gwBuf) - 1 /\ Len(gwBuf) >= 1
        BY <1>2, <3>1, HeadAndTail
      <4>2. Len(out') = Len(out) + 1
        BY <1>2, <3>1, <4>1, Appended
      <4> QED
        BY <3>1, <4>1, <4>2 DEF OnStream
    <3>2. CASE /\ flow["d2g"] # <<>> /\ out' = Append(out, Head(flow["d2g"]))
               /\ gwBuf' = gwBuf /\ flow' = [flow EXCEPT !["d2g"] = Tail(@)]
      <4>1. /\ Head(flow["d2g"]) \in Pieces
            /\ Len(Tail(flow["d2g"])) = Len(flow["d2g"]) - 1 /\ Len(flow["d2g"]) >= 1
        BY <1>2, <3>2, HeadAndTail
      <4>2. Len(out') = Len(out) + 1
        BY <1>2, <3>2, <4>1, Appended
      <4>3. flow'["d2g"] = Tail(flow["d2g"]) /\ flow'["g2t"] = flow["g2t"]
        BY <1>4, <3>2
      <4> QED
        BY <3>2, <4>1, <4>2, <4>3 DEF OnStream
    <3> QED
      BY <2>1, <3>1, <3>2
  <2>3. AfterTarget' = AfterTarget + 1
    <3>1. AfterOut' = AfterOut + 1 /\ AfterOut \in Nat
      BY <1>2, <1>3, <2>2 DEF AfterOut
    <3> QED
      BY ONLY <1>2, <2>2, <3>1 DEF AfterTarget
  <2>4. AfterChannel' = AfterChannel /\ AfterTarget + 1 <= AfterChannel
    BY <2>2, <2>3, TakenByGateway
  <2> QED
    BY <1>1, <1>2, <2>1, <2>3, <2>4 DEF SaidInv
<1> QED
  BY <1>5, <1>6

(* The relay takes a piece from the gateway, and loses it or passes it on.   *)
LEMMA SaidByGatewayCopies == TunnelInv /\ SaidInv /\ Copies("gwUp") => SaidInv'
<1> SUFFICES ASSUME TunnelInv, SaidInv, Copies("gwUp") PROVE SaidInv'
  OBVIOUS
<1>1. /\ UNCHANGED <<form, host, unsent, out, gw, endpoint>> /\ copier["gwUp"] = "run"
      /\ gwBuf' = IF gwBuf # <<>> THEN Tail(gwBuf) ELSE gwBuf
      /\ Said' = Said
  BY SaidSame DEF Copies, BufferOf
<1>2. /\ gwBuf \in Seq(Pieces) /\ flow["g2t"] \in Seq(Pieces) /\ flow["d2g"] \in Seq(Pieces)
      /\ Len(gwBuf) \in Nat /\ OnStream("g2t") \in Nat /\ OnStream("d2g") \in Nat
      /\ AfterOut \in Nat /\ AfterTarget \in Nat /\ AfterChannel \in Nat /\ Said \in Int
  BY Contents, Positions, SaidFacts DEF TunnelInv
<1>3. /\ \/ gwBuf # <<>> /\ flow'["d2g"] = flow["d2g"]
         \/ gwBuf = <<>> /\ flow["d2g"] # <<>> /\ flow'["d2g"] = Tail(flow["d2g"])
      /\ \/ copier' = [copier EXCEPT !["gwUp"] = "done"] /\ flow'["g2t"] = flow["g2t"]
         \/ /\ copier' = copier
            /\ flow'["g2t"] = Append(flow["g2t"], IF gwBuf # <<>> THEN Head(gwBuf)
                                                  ELSE Head(flow["d2g"]))
  <2>1. /\ "gwUp" \in Copiers /\ "d2g" \in UpStreams /\ "g2t" \in UpStreams \ {"d2g"}
        /\ From("gwUp") = "d2g" /\ To("gwUp") = "g2t" /\ BufferOf("gwUp") = gwBuf
    BY DEF Copiers, GatewayCopiers, UpStreams, From, To, BufferOf
  <2>2. /\ TunnelInv /\ Copies("gwUp") /\ gwBuf \in Seq(Pieces)
        /\ gwBuf' = IF gwBuf # <<>> THEN Tail(gwBuf) ELSE gwBuf
    BY <1>1, <1>2
  <2> QED
    BY ONLY <2>1, <2>2, CopyShape
<1>4. /\ gw \in {"relay", "ended"} /\ AfterChannel <= Said
  BY <1>1 DEF TunnelInv, EndpointInv, GatewayTakes, SaidInv
<1>5. Skipped' = Skipped /\ AfterOut' = AfterOut
  BY <1>1, Fixed DEF Skipped, AfterOut
<1>6. \/ Len(gwBuf') = Len(gwBuf) - 1 /\ OnStream("d2g")' = OnStream("d2g") /\ Len(gwBuf) >= 1
      \/ /\ Len(gwBuf') = Len(gwBuf) /\ OnStream("d2g")' = OnStream("d2g") - 1
         /\ OnStream("d2g") >= 1
  BY <1>1, <1>2, <1>3, HeadAndTail DEF OnStream
<1>7. CASE copier' = [copier EXCEPT !["gwUp"] = "done"] /\ flow'["g2t"] = flow["g2t"]
  <2>1. copier'["gwUp"] = "done"
    BY <1>7 DEF TunnelInv, TunnelTypeOK, Copiers, GatewayCopiers
  <2>2. ~GatewayTakes'
    BY <1>1, <1>4, <2>1 DEF GatewayTakes
  <2>3. AfterTarget' = AfterTarget
    BY <1>5, <1>7 DEF AfterTarget, OnStream
  <2> QED
    BY <1>1, <2>2, <2>3 DEF SaidInv
<1>8. CASE flow'["g2t"] = Append(flow["g2t"], IF gwBuf # <<>> THEN Head(gwBuf)
                                              ELSE Head(flow["d2g"]))
  <2>1. PICK x \in Pieces : flow'["g2t"] = Append(flow["g2t"], x)
    BY <1>2, <1>3, <1>8, HeadAndTail
  <2>2. OnStream("g2t")' = OnStream("g2t") + 1
    BY <1>2, <2>1, Appended DEF OnStream
  <2>3. AfterTarget' = AfterTarget + 1
    BY ONLY <1>2, <1>5, <2>2 DEF AfterTarget
  <2>4. AfterChannel' = AfterChannel /\ AfterTarget + 1 <= AfterChannel
    BY <1>6, <2>3, TakenByGateway
  <2> QED
    BY <1>1, <1>2, <1>4, <2>3, <2>4 DEF SaidInv
<1> QED
  BY <1>3, <1>7, <1>8

(* The device's copier does the same with what the device holds.             *)
LEMMA SaidByDeviceCopies == TunnelInv /\ SaidInv /\ Copies("devUp") => SaidInv'
<1> SUFFICES ASSUME TunnelInv, SaidInv, Copies("devUp") PROVE SaidInv'
  OBVIOUS
<1>1. /\ UNCHANGED <<form, host, unsent, out, gw, gwBuf, endpoint, dev>>
      /\ copier["devUp"] = "run"
      /\ devBuf' = IF devBuf # <<>> THEN Tail(devBuf) ELSE devBuf
      /\ Said' = Said
  BY SaidSame DEF Copies, BufferOf
<1>2. /\ devBuf \in Seq(Pieces) /\ Len(devBuf) \in Nat
      /\ flow["g2t"] \in Seq(Pieces) /\ flow["d2g"] \in Seq(Pieces) /\ flow["c2d"] \in Seq(Pieces)
      /\ OnStream("g2t") \in Nat /\ OnStream("d2g") \in Nat /\ OnStream("c2d") \in Nat
      /\ AfterOut \in Nat /\ AfterTarget \in Nat /\ AfterGateway \in Nat /\ AfterChannel \in Nat
      /\ DeviceStart \in Nat /\ AfterDevice \in Nat /\ Said \in Int
  BY Contents, Positions, SaidFacts DEF TunnelInv
<1>3. PICK to \in {"d2g", "g2t"} : to = IF Direct THEN "g2t" ELSE "d2g"
  OBVIOUS
<1>4. /\ \A t \in Streams \ {"c2d", to} : flow'[t] = flow[t]
      /\ devBuf # <<>> \/ flow["c2d"] # <<>>
      /\ \/ copier' = [copier EXCEPT !["devUp"] = "done"] /\ flow'[to] = flow[to]
         \/ /\ copier' = copier
            /\ flow'[to] = Append(flow[to], IF devBuf # <<>> THEN Head(devBuf)
                                            ELSE Head(flow["c2d"]))
  <2>1. /\ "devUp" \in Copiers /\ "c2d" \in UpStreams /\ to \in UpStreams \ {"c2d"}
        /\ "c2d" = From("devUp") /\ to = To("devUp") /\ devBuf = BufferOf("devUp")
    BY <1>3 DEF Copiers, DeviceCopiers, UpStreams, From, To, BufferOf
  <2>2. /\ TunnelInv /\ Copies("devUp") /\ devBuf \in Seq(Pieces)
        /\ devBuf' = IF devBuf # <<>> THEN Tail(devBuf) ELSE devBuf
    BY <1>1, <1>2
  <2> QED
    BY ONLY <2>1, <2>2, CopyShape
<1>5. /\ \A t \in {"g2t", "d2g"} \ {to} : flow'[t] = flow[t]
      /\ copier'["gwUp"] = copier["gwUp"]
  BY <1>3, <1>4 DEF Streams, TunnelInv, TunnelTypeOK, Copiers, GatewayCopiers
<1>6. Skipped' = Skipped /\ AfterOut' = AfterOut /\ GatewayTakes' = GatewayTakes
  BY <1>1, <1>5, Fixed DEF Skipped, AfterOut, GatewayTakes
<1>7. CASE flow'[to] = flow[to]
  <2>1. UNCHANGED <<flow["g2t"], flow["d2g"]>>
    BY <1>5, <1>7
  <2> QED
    BY <1>1, <1>6, <2>1, NothingGoesUp
<1>8. CASE flow'[to] = Append(flow[to], IF devBuf # <<>> THEN Head(devBuf) ELSE Head(flow["c2d"]))
  <2>1. PICK x \in Pieces : flow'[to] = Append(flow[to], x)
    BY <1>2, <1>4, <1>8, HeadAndTail
  <2>2. OnStream(to)' = OnStream(to) + 1
    BY <1>2, <2>1, Appended DEF OnStream
  <2>3. DeviceTakes => DeviceStart + 1 <= Said
    <3>1. Len(devBuf) + OnStream("c2d") >= 1
      BY <1>2, <1>4, HeadAndTail DEF OnStream
    <3>2. AfterClient >= DeviceStart + 1
      BY <1>2, <3>1 DEF AfterClient, AfterDevice
    <3> QED
      BY <1>2, <3>2, DeviceHolds
  <2>4. DeviceStart = IF Direct THEN AfterTarget ELSE AfterChannel
    BY <1>1 DEF DeviceStart, TunnelInv, EndpointInv
  <2>5. CASE Direct
    <3>1. AfterTarget' = AfterTarget + 1
      BY <1>2, <1>3, <1>6, <2>2, <2>5 DEF AfterTarget
    <3>2. DeviceTakes /\ ~GatewayTakes
      BY <1>1, <2>5 DEF DeviceTakes, GatewayTakes, TunnelInv, PlaceInv, EndpointInv
    <3> QED
      BY <1>1, <1>6, <2>3, <2>4, <2>5, <3>1, <3>2 DEF SaidInv
  <2>6. CASE ~Direct
    <3>1. AfterTarget' = AfterTarget
      BY <1>3, <1>5, <1>6, <2>6 DEF AfterTarget, OnStream
    <3>2. AfterGateway' = AfterGateway
      BY <1>1, <3>1 DEF AfterGateway
    <3>3. AfterChannel' = AfterChannel + 1
      BY <1>2, <1>3, <2>2, <2>6, <3>2 DEF AfterChannel
    <3>4. GatewayTakes => DeviceTakes
      BY <1>1 DEF DeviceTakes
    <3> QED
      BY <1>1, <1>6, <2>3, <2>4, <2>6, <3>1, <3>3, <3>4 DEF SaidInv
  <2> QED
    BY <2>5, <2>6
<1> QED
  BY <1>4, <1>7, <1>8

LEMMA SaidStep == TunnelInv /\ SaidInv /\ [TunnelNext]_tunnelVars => SaidInv'
<1> SUFFICES ASSUME TunnelInv, SaidInv, [TunnelNext]_tunnelVars PROVE SaidInv'
  OBVIOUS
<1>1. CASE Quiet \/ Answering \/ DeviceHasRequest \/ \E k \in {"devDown", "gwDown"} : Copies(k)
  BY <1>1, SaidByDownward
<1>2. CASE ClientSends
  BY <1>2, SaidByClientSends
<1>3. ASSUME NEW n \in 1..Len(Wire), DeviceReads(n) \/ GatewayReads(n) PROVE SaidInv'
  BY <1>3, SaidByReads
<1>4. CASE ReadRequest
  BY <1>4, SaidByReadRequest
<1>5. CASE DeviceTunnels \/ DeviceTunnelBreaks \/ DeviceDials
  BY <1>5, SaidByDial
<1>6. CASE GivesUp
  BY <1>6, SaidByGivesUp
<1>7. CASE TargetReads \/ ServerReads
  BY <1>7, SaidByEndpoint
<1>8. CASE Copies("gwUp") \/ Copies("devUp")
  BY <1>8, SaidByGatewayCopies, SaidByDeviceCopies
<1>9. CASE UNCHANGED tunnelVars
  <2>1. UNCHANGED <<form, host, unsent, out, gwBuf, flow, gw, endpoint, copier>>
    BY <1>9 DEF tunnelVars
  <2>2. Skipped' = Skipped /\ GatewayTakes' = GatewayTakes
    BY <2>1, Fixed DEF Skipped, GatewayTakes
  <2> QED
    BY <2>1, <2>2, NothingGoesUp
<1>10. (\E k \in Copiers : CopyStep(k)) =>
           \/ Quiet \/ Copies("gwUp") \/ Copies("devUp")
           \/ \E k \in {"devDown", "gwDown"} : Copies(k)
  BY DEF CopyStep, Copiers, DeviceCopiers, GatewayCopiers, Quiet
<1> QED
  BY <1>1, <1>2, <1>3, <1>4, <1>5, <1>6, <1>7, <1>8, <1>9, <1>10
  DEF TunnelNext, DeviceStep, GatewayStep, ServerStep, Quiet, Answering, GivesUp

----------------------------------------------------------------------------
(* Steps that answer nothing and pass no answer on *)

(* What such a step can change in the other parts of the invariant.          *)
Advances ==
    /\ Connects /\ (\/ dev' \in {"dial", "pipe"} \/ gw' \in {"connect", "dial", "relay"}
                    \/ endpoint' \in {"tls", "target"}) => Asking \/ Said >= 3
    /\ Proxied /\ copier["devDown"] = "none" =>
           /\ gw' \in {"none", "peek1", "ended"}
           /\ flow'["d2g"] = <<>> /\ gwBuf' = <<>>
           /\ copier'["devUp"] = "none"
           /\ endpoint' = "none"
    /\ Connects /\ gw' \in {"peek1", "peek8", "request", "connect"}
           => gw \in {"peek1", "peek8", "request", "connect"}
    /\ Connects /\ endpoint' = "http" => endpoint = "http" \/ gw = "peek8"
    /\ gw' = "peek8" => form # "tls"

LEMMA SaidGrows ==
  TunnelInv /\ form' = form /\ host' = host /\ (unsent' = unsent \/ ClientSends) =>
      Said' \in Int /\ Said' >= Said
<1> SUFFICES ASSUME TunnelInv, form' = form, host' = host, unsent' = unsent \/ ClientSends
             PROVE  Said' \in Int /\ Said' >= Said
  OBVIOUS
<1>1. Said \in Int /\ Len(Wire) \in Nat /\ Len(unsent) \in Nat /\ unsent \in Seq(Pieces)
  BY SaidFacts, Contents DEF TunnelInv
<1>2. CASE unsent' = unsent
  BY <1>1, <1>2, SaidSame
<1>3. CASE ClientSends
  <2>1. unsent # <<>> /\ unsent' = Tail(unsent)
    BY <1>3 DEF ClientSends
  <2>2. Len(unsent') = Len(unsent) - 1
    BY <1>1, <2>1, HeadAndTail
  <2> QED
    BY <1>1, <2>2, Fixed DEF Said
<1> QED
  BY <1>2, <1>3

LEMMA HushedAdvances == TunnelInv /\ PromiseInv /\ HushedStep => Advances
<1> SUFFICES ASSUME TunnelInv, PromiseInv, HushedStep PROVE Advances
  OBVIOUS
<1>1. /\ flow \in [Streams -> Seq(Pieces \cup Answers)] /\ "d2g" \in Streams
      /\ copier \in [Copiers -> {"none", "run", "done"}]
      /\ {"devUp", "gwUp", "devDown", "gwDown"} \subseteq Copiers
  BY DEF TunnelInv, TunnelTypeOK, Streams, Copiers, DeviceCopiers, GatewayCopiers
<1>2. /\ Proxied /\ copier["devDown"] = "none" =>
             /\ gw \in {"none", "peek1", "ended"}
             /\ flow["d2g"] = <<>> /\ gwBuf = <<>>
             /\ copier["devUp"] = "none"
             /\ endpoint = "none"
      /\ gw = "peek8" => form # "tls"
  BY DEF PromiseInv, BrokenInv, SilentInv
<1>3. /\ gw \in {"peek1", "peek8", "request", "connect", "dial"} => endpoint = "none"
      /\ gw \in {"push", "served"} => endpoint \in {"tls", "http"}
      /\ gw = "relay" => endpoint = "target"
      /\ copier["gwUp"] # "none" => endpoint = "target"
  BY DEF TunnelInv, EndpointInv
<1> USE <1>1, <1>2 DEF Advances, Asking
<1>4. CASE ClientSends
  <2>1. Proxied => ClientUp = "c2d"
    BY DEF ClientUp
  <2> QED
    BY <1>4, <2>1 DEF ClientSends
<1>5. CASE ClientFinishes \/ ListenerCloses \/ GuardFires
  BY <1>5 DEF ClientFinishes, ListenerCloses, GuardFires
<1>6. ASSUME NEW l \in Links, LinkCloses(l) PROVE Advances
  BY <1>6 DEF LinkCloses
<1>7. CASE TargetReads
  BY <1>7 DEF TargetReads
<1>8. ASSUME NEW n \in 1..Len(Wire), DeviceReads(n) PROVE Advances
  BY <1>8 DEF DeviceReads, Fill
<1>9. CASE DeviceHasRequest
  <2>1. dev = "read" /\ Len(devBuf) >= 3
    BY <1>9, HeadFacts DEF DeviceHasRequest
  <2>2. AfterClient = Said /\ DeviceStart = 0
    BY <2>1, DeviceHolds DEF DeviceStart
  <2>3. Said >= 3
    BY <2>1, <2>2, Contents DEF AfterClient, AfterDevice, TunnelInv
  <2> QED
    BY <1>9, <2>3 DEF DeviceHasRequest
<1>10. CASE DeviceReadFails \/ PipeEnds
  BY <1>10 DEF DeviceReadFails, PipeEnds
<1>11. ASSUME NEW n \in 1..Len(Wire), GatewayReads(n) PROVE Advances
  <2>1. flow["d2g"] # <<>>
    BY <1>11 DEF GatewayReads
  <2> QED
    BY <1>11, <2>1 DEF GatewayReads
<1>12. CASE PeekFirst
  <2>1. gwBuf # <<>> /\ Head(gwBuf) = Wire[1] /\ gw = "peek1"
    BY <1>12, OpeningFacts DEF PeekFirst
  <2>2. /\ Connects => Head(gwBuf) # "hello"
        /\ form = "tls" => Head(gwBuf) = "hello"
    <3>1. Connects => Head(gwBuf) # "hello"
      BY <2>1, WireFacts DEF TunnelInv, TunnelTypeOK
    <3>2. form = "tls" => Wire[1] = "hello"
      BY DEF Wire, Payload
    <3> QED
      BY <2>1, <3>1, <3>2
  <2> QED
    BY <1>3, <1>12, <2>1, <2>2 DEF PeekFirst
<1>13. CASE PeekPrefix
  BY <1>3, <1>13 DEF PeekPrefix
<1>14. CASE PeekFirstFails \/ ReadRequestFails
  BY <1>14 DEF PeekFirstFails, ReadRequestFails, GatewayDrops
<1>15. CASE ReadRequest
  <2>1. gw = "request" /\ Len(gwBuf) >= 3
    BY <1>15, HeadFacts DEF ReadRequest
  <2>2. AfterChannel <= Said /\ AfterTarget = 0
    BY <2>1, OpeningFacts DEF PromiseInv, SaidInv, GatewayTakes
  <2>3. Said >= 3
    BY <2>1, <2>2, Contents, SaidFacts DEF AfterChannel, AfterGateway, TunnelInv
  <2> QED
    BY <1>3, <1>15, <2>1, <2>3 DEF ReadRequest
<1>16. CASE ConnectAborted \/ RelayDialFails
  BY <1>16 DEF ConnectAborted, RelayDialFails, GatewayDrops
<1>17. CASE RelayEnds \/ ServerEnds
  BY <1>17 DEF RelayEnds, ServerEnds, GatewayDrops
<1>18. CASE Push
  BY <1>18 DEF Push, GatewayDrops
<1>19. CASE ServerReads
  BY <1>19 DEF ServerReads
<1>20. ASSUME NEW k \in {"devUp", "gwUp"}, Copies(k) PROVE Advances
  <2>1. copier[k] = "run" /\ UNCHANGED <<form, dev, gw, endpoint>>
    BY <1>20 DEF Copies
  <2>2. ~(Proxied /\ copier["devDown"] = "none")
    BY <1>3, <2>1
  <2> QED
    BY <2>1, <2>2
<1>21. ASSUME NEW k \in Copiers, CopyEnds(k) PROVE Advances
  BY <1>21 DEF CopyEnds
<1> QED
  BY <1>4, <1>5, <1>6, <1>7, <1>8, <1>9, <1>10, <1>11, <1>12, <1>13, <1>14, <1>15, <1>16, <1>17,
     <1>18, <1>19, <1>20, <1>21
  DEF HushedStep

(* The other parts of the invariant.                                         *)
AnsweredInv == AskedInv /\ BrokenInv /\ SilentInv /\ KnownInv

LEMMA OnlyClientSends ==
  TunnelNext => form' = form /\ host' = host /\ (unsent' = unsent \/ ClientSends)
<1> SUFFICES ASSUME TunnelNext PROVE form' = form /\ host' = host /\ (unsent' = unsent \/ ClientSends)
  OBVIOUS
<1>1. CASE DeviceStep
  BY <1>1 DEF DeviceStep, DeviceReads, DeviceHasRequest, DeviceReadFails, DeviceTunnels,
     DeviceTunnelBreaks, DeviceDials, DeviceDialFails, PipeEnds
<1>2. CASE GatewayStep
  BY <1>2 DEF GatewayStep, GatewayReads, PeekFirst, PeekFirstFails, PeekPrefix, ReadRequest,
     ReadRequestFails, ConnectDenied, ConnectEstablished, ConnectAborted, RelayStarts,
     RelayDialFails, RelayEnds, Push
<1>3. CASE ServerStep
  BY <1>3 DEF ServerStep, ServerReads, ServerReplies, ServerEnds
<1>4. ASSUME NEW k \in Copiers, CopyStep(k)
      PROVE  form' = form /\ host' = host /\ unsent' = unsent
  BY <1>4 DEF CopyStep, Copies, CopyEnds
<1>5. CASE ClientSends \/ ClientFinishes \/ ClientReceives
  BY <1>5 DEF ClientSends, ClientFinishes, ClientReceives
<1>6. CASE (\E l \in Links : LinkCloses(l)) \/ TargetReads \/ TargetReplies
  BY <1>6 DEF LinkCloses, TargetReads, TargetReplies
<1>7. CASE GuardFires \/ ListenerCloses
  BY <1>7 DEF GuardFires, ListenerCloses
<1> QED
  BY <1>1, <1>2, <1>3, <1>4, <1>5, <1>6, <1>7 DEF TunnelNext

LEMMA HushedAnswered ==
  TunnelInv /\ AnswerInv /\ PromiseInv /\ HushedStep => AnsweredInv'
<1> SUFFICES ASSUME TunnelInv, AnswerInv, PromiseInv, HushedStep PROVE AnsweredInv'
  OBVIOUS
<1>1. Hushed /\ Advances
  BY HushedSteps, HushedAdvances
<1>2. /\ form' = form /\ host' = host /\ Said' \in Int /\ Said \in Int /\ Said' >= Said
  <2>1. TunnelNext
    BY DEF HushedStep, TunnelNext, DeviceStep, GatewayStep, ServerStep, CopyStep, Copiers,
           DeviceCopiers, GatewayCopiers
  <2> QED
    BY <2>1, OnlyClientSends, SaidGrows, SaidFacts
<1>3. /\ UNCHANGED <<Connects, Proxied, seen, answered, Known>>
      /\ flow'["t2g"] = flow["t2g"] /\ flow'["g2d"] = flow["g2d"] /\ flow'["d2c"] = flow["d2c"]
      /\ copier'["devDown"] = "none" <=> copier["devDown"] = "none"
      /\ endpoint = "none" => ~answered
  BY <1>1, <1>2, Fixed DEF Hushed, Known, AnswerInv, AnswerPlace
<1>4. Silent' = Silent
  BY <1>3 DEF Silent
<1>5. AskedInv'
  <2> SUFFICES ASSUME Connects', Asking' PROVE Said' >= 3
    BY DEF AskedInv
  <2>1. Connects /\ (Asking \/ Said >= 3)
    BY <1>1, <1>3, <1>4 DEF Advances, Asking
  <2>2. Said >= 3
    BY <2>1 DEF PromiseInv, AskedInv
  <2> QED
    BY <1>2, <2>2
<1>6. BrokenInv'
  BY <1>1, <1>3 DEF Advances, BrokenInv
<1>7. SilentInv'
  <2>1. CASE gw = "peek8"
    <3>1. endpoint = "none" /\ (Connects => Silent)
      BY <2>1 DEF PromiseInv, SilentInv, BrokenInv, TunnelInv, EndpointInv
    <3> QED
      BY <1>1, <1>2, <1>3, <1>4, <2>1, <3>1 DEF Advances, PromiseInv, SilentInv
  <2>2. CASE gw # "peek8"
    BY <1>1, <1>2, <1>3, <1>4, <2>2 DEF Advances, PromiseInv, SilentInv
  <2> QED
    BY <2>1, <2>2
<1>8. KnownInv'
  BY <1>3 DEF KnownInv, PromiseInv
<1> QED
  BY <1>5, <1>6, <1>7, <1>8 DEF AnsweredInv

----------------------------------------------------------------------------
(* Steps that give an answer, pass one on or receive it *)

(* Whoever has an answer in hand has been asked.                             *)
LEMMA PassingFacts ==
  TunnelInv /\ PromiseInv /\ ~Silent =>
      /\ Connects => Said >= 3
      /\ ~(Connects /\ endpoint = "http")
      /\ ~(/\ Connects /\ gw \in {"peek1", "peek8", "request", "connect"}
           /\ (Proxied => copier["devDown"] # "none"))
BY DEF PromiseInv, AskedInv, SilentInv, Asking

LEMMA ReceivesAnswered == TunnelInv /\ PromiseInv /\ ClientReceives => AnsweredInv'
<1> SUFFICES ASSUME TunnelInv, PromiseInv, ClientReceives PROVE AnsweredInv'
  OBVIOUS
<1>1. PICK s \in {"d2c", "g2d"} : s = ClientDown
  BY DEF ClientDown
<1>2. /\ UNCHANGED <<form, host, unsent, dev, gw, gwBuf, endpoint, answered, copier>>
      /\ flow[s] # <<>> /\ seen' = Append(seen, Head(flow[s])) /\ flow'[s] = Tail(flow[s])
      /\ flow'["d2g"] = flow["d2g"]
      /\ \A t \in Down \ {s} : flow'[t] = flow[t]
  BY <1>1 DEF ClientReceives, TunnelInv, TunnelTypeOK, Streams, Down
<1>3. ~Silent
  BY <1>2 DEF Silent
<1>4. /\ UNCHANGED <<Connects, Proxied, Said, Known>>
  BY <1>2, Fixed, SaidSame DEF Known
<1>5. AskedInv' /\ BrokenInv' /\ SilentInv'
  BY <1>2, <1>3, <1>4, PassingFacts DEF AskedInv, BrokenInv, SilentInv, PromiseInv
<1>6. KnownInv'
  <2>1. /\ seen \in Seq(Known) /\ \A t \in Down : flow[t] \in Seq(Known)
    BY DEF PromiseInv, KnownInv, Down
  <2>2. Head(flow[s]) \in Known /\ Tail(flow[s]) \in Seq(Known) /\ s \in Down
    BY <1>2, <2>1, HeadAndTail DEF Down
  <2>3. Append(seen, Head(flow[s])) \in Seq(Known)
    BY <2>1, <2>2, Appended
  <2>4. seen' \in Seq(Known') /\ \A t \in Down : flow'[t] \in Seq(Known')
    BY <1>2, <1>4, <2>1, <2>2, <2>3
  <2> QED
    BY <2>4 DEF KnownInv, Down
<1> QED
  BY <1>5, <1>6 DEF AnsweredInv

LEMMA PassesAnswered ==
  ASSUME TunnelInv, PromiseInv, NEW k \in {"devDown", "gwDown"}, Copies(k) PROVE AnsweredInv'
<1>1. PICK a \in Down, b \in Down : a # b /\ a = From(k) /\ b = To(k)
  BY DownCopies
<1>2. /\ UNCHANGED <<form, host, seen, dev, gw, endpoint, answered>>
      /\ flow[a] # <<>> /\ flow'[a] = Tail(flow[a])
      /\ \A s \in Down \ {a, b} : flow'[s] = flow[s]
      /\ \/ copier' = [copier EXCEPT ![k] = "done"] /\ flow'[b] = flow[b]
         \/ copier' = copier /\ flow'[b] = Append(flow[b], Head(flow[a]))
      /\ copier[k] = "run"
  BY <1>1, DownCopies
<1>3. /\ UNCHANGED <<unsent, gwBuf, flow["d2g"], copier["devUp"]>>
      /\ copier'["devDown"] = "none" <=> copier["devDown"] = "none"
  <2>1. UNCHANGED <<unsent, gwBuf>> /\ BufferOf(k) = <<>>
    BY DEF Copies, BufferOf
  <2>2. a # "d2g" /\ b # "d2g"
    BY <1>1 DEF Down
  <2>3. flow'["d2g"] = flow["d2g"]
    BY <1>1, <2>1, <2>2 DEF Copies, TunnelInv, TunnelTypeOK, Streams
  <2>4. copier'["devUp"] = copier["devUp"]
    BY <1>2, DownStreams DEF Copiers, DeviceCopiers
  <2>5. copier'["devDown"] = "none" <=> copier["devDown"] = "none"
    BY <1>2, DownStreams
  <2> QED
    BY <2>1, <2>3, <2>4, <2>5
<1>4. ~Silent
  BY <1>1, <1>2 DEF Silent, Down
<1>5. UNCHANGED <<Connects, Proxied, Said, Known>>
  BY <1>2, <1>3, Fixed, SaidSame DEF Known
<1>6. AskedInv' /\ BrokenInv' /\ SilentInv'
  BY <1>2, <1>3, <1>4, <1>5, PassingFacts DEF AskedInv, BrokenInv, SilentInv, PromiseInv
<1>7. KnownInv'
  <2>1. /\ seen \in Seq(Known) /\ \A t \in Down : flow[t] \in Seq(Known)
    BY DEF PromiseInv, KnownInv, Down
  <2>2. Head(flow[a]) \in Known /\ Tail(flow[a]) \in Seq(Known)
    BY <1>2, <2>1, HeadAndTail
  <2>3. Append(flow[b], Head(flow[a])) \in Seq(Known)
    BY <2>1, <2>2, Appended
  <2>4. seen' \in Seq(Known') /\ \A t \in Down : flow'[t] \in Seq(Known')
    BY <1>2, <1>5, <2>1, <2>2, <2>3
  <2> QED
    BY <2>4 DEF KnownInv, Down
<1> QED
  BY <1>6, <1>7 DEF AnsweredInv

(* What is under way, whatever is added to it.                               *)
LEMMA AnswerIsKnown ==
  ASSUME TunnelInv, KnownInv, seen' = seen, NEW s \in Down, NEW x \in Known',
         flow' = [flow EXCEPT ![s] = Append(@, x)], Known \subseteq Known'
  PROVE  KnownInv'
<1>1. /\ seen \in Seq(Known) /\ \A t \in Down : flow[t] \in Seq(Known)
  BY DEF KnownInv, Down
<1>2. Seq(Known) \subseteq Seq(Known')
  OBVIOUS
<1>3. flow'[s] = Append(flow[s], x) /\ \A t \in Down \ {s} : flow'[t] = flow[t]
  BY DownStreams
<1>4. Append(flow[s], x) \in Seq(Known')
  BY <1>1, <1>2, Appended
<1>5. \A t \in Down : flow'[t] \in Seq(Known')
  BY <1>1, <1>2, <1>3, <1>4
<1> QED
  BY <1>1, <1>2, <1>5 DEF KnownInv, Down

LEMMA RepliesAnswered ==
  TunnelInv /\ AnswerInv /\ PromiseInv /\ (ServerReplies \/ TargetReplies) => AnsweredInv'
<1> SUFFICES ASSUME TunnelInv, AnswerInv, PromiseInv, ServerReplies \/ TargetReplies
             PROVE  AnsweredInv'
  OBVIOUS
<1>1. /\ UNCHANGED <<form, host, unsent, seen, dev, gw, gwBuf, endpoint, copier>>
      /\ ~answered /\ answered' = TRUE
      /\ \E s \in {"g2d", "t2g"} : flow' = [flow EXCEPT ![s] = Append(@, "reply")]
  BY DEF ServerReplies, TargetReplies, Answer
<1>2. /\ endpoint # "none" /\ (Connects => endpoint \in {"tls", "target"})
      /\ gw \notin {"peek1", "peek8", "request", "connect"}
  BY ReplyIsNext DEF ServerReplies, TargetReplies, TunnelInv, EndpointInv
<1>3. UNCHANGED <<Connects, Proxied, Said>> /\ Known' = Answers /\ Known \subseteq Answers
  BY <1>1, Fixed, SaidSame DEF Known
<1>4. AskedInv' /\ BrokenInv' /\ SilentInv'
  BY <1>1, <1>2, <1>3 DEF AskedInv, BrokenInv, SilentInv, PromiseInv, Asking
<1>5. KnownInv'
  <2>1. "reply" \in Known' /\ "g2d" \in Down /\ "t2g" \in Down
    BY <1>3 DEF Answers, Down
  <2> QED
    BY <1>1, <1>3, <2>1, AnswerIsKnown DEF PromiseInv
<1> QED
  BY <1>4, <1>5 DEF AnsweredInv

LEMMA ConnectAnsweredToo ==
  TunnelInv /\ AnswerInv /\ PromiseInv /\ (ConnectDenied \/ ConnectEstablished \/ RelayStarts)
      => AnsweredInv'
<1> SUFFICES ASSUME TunnelInv, AnswerInv, PromiseInv,
                    ConnectDenied \/ ConnectEstablished \/ RelayStarts
             PROVE  AnsweredInv'
  OBVIOUS
<1>1. /\ UNCHANGED <<form, host, unsent, seen, dev, gwBuf, answered>>
      /\ gw \in {"connect", "dial"} /\ gw' \in {"ended", "push", "dial", "relay"}
      /\ endpoint' \in {endpoint, "tls", "target"}
      /\ \/ flow' = flow
         \/ \E x \in {"200", "403"} : flow' = [flow EXCEPT !["g2d"] = Append(@, x)]
      /\ copier'["devDown"] = copier["devDown"]
  BY DEF ConnectDenied, ConnectEstablished, RelayStarts, Answer, GatewayDrops, StartCopying,
         Copiers, DeviceCopiers, GatewayCopiers
<1>2. /\ Connects /\ endpoint = "none"
  BY <1>1 DEF TunnelInv, PlaceInv, EndpointInv
<1>3. /\ UNCHANGED <<Connects, Proxied, Said, Known>>
  BY <1>1, Fixed, SaidSame DEF Known
<1>4. AskedInv' /\ BrokenInv' /\ SilentInv'
  BY <1>1, <1>2, <1>3 DEF AskedInv, BrokenInv, SilentInv, PromiseInv, Asking
<1>5. KnownInv'
  <2>1. {"200", "403"} \subseteq Known' /\ "g2d" \in Down /\ Known \subseteq Known'
    BY <1>3 DEF Known, Answers, Down
  <2>2. CASE flow' = flow
    BY <1>1, <1>3, <2>2 DEF KnownInv, PromiseInv
  <2>3. CASE \E x \in {"200", "403"} : flow' = [flow EXCEPT !["g2d"] = Append(@, x)]
    BY <1>1, <2>1, <2>3, AnswerIsKnown DEF PromiseInv
  <2> QED
    BY <1>1, <2>2, <2>3
<1> QED
  BY <1>4, <1>5 DEF AnsweredInv

LEMMA DialAnswered ==
  TunnelInv /\ AnswerInv /\ PromiseInv
      /\ (DeviceTunnels \/ DeviceDials \/ DeviceTunnelBreaks \/ DeviceDialFails) => AnsweredInv'
<1> SUFFICES ASSUME TunnelInv, AnswerInv, PromiseInv,
                    DeviceTunnels \/ DeviceDials \/ DeviceTunnelBreaks \/ DeviceDialFails
             PROVE  AnsweredInv'
  OBVIOUS
<1>1. /\ UNCHANGED <<form, host, unsent, seen, gwBuf, answered>>
      /\ dev = "dial"
  BY DEF DeviceTunnels, DeviceDials, DeviceTunnelBreaks, DeviceDialFails
<1>2. /\ Proxied /\ Connects /\ gw = "none" /\ endpoint = "none" /\ ~answered
      /\ seen = <<>> /\ flow["d2c"] = <<>> /\ flow["g2d"] = <<>> /\ flow["t2g"] = <<>>
      /\ copier["devDown"] = "none" /\ copier["devUp"] = "none" /\ gwBuf = <<>>
      /\ flow["d2g"] = <<>> /\ Said >= 3
  BY <1>1, NothingIsSaid, DialFacts, DialSaid DEF PromiseInv, BrokenInv
<1>3. UNCHANGED <<Connects, Proxied, Said, Known>>
  BY <1>1, Fixed, SaidSame DEF Known
<1>4. /\ flow \in [Streams -> Seq(Pieces \cup Answers)]
      /\ {"d2c", "g2d", "t2g", "d2g"} \subseteq Streams
      /\ {"devUp", "devDown"} \subseteq Copiers
      /\ copier \in [Copiers -> {"none", "run", "done"}]
  BY DEF TunnelInv, TunnelTypeOK, Streams, Copiers, DeviceCopiers
<1>5. /\ flow'["g2d"] = <<>> /\ flow'["t2g"] = <<>>
      /\ flow'["d2c"] \in {<<>>, <<"200">>, <<"502">>}
  BY <1>2, <1>4 DEF DeviceTunnels, DeviceDials, DeviceTunnelBreaks, DeviceDialFails
<1>6. AskedInv'
  BY <1>2, <1>3 DEF AskedInv
<1>7. BrokenInv' /\ SilentInv'
  <2>1. CASE DeviceTunnels
    BY <1>1, <1>2, <1>3, <1>4, <1>5, <2>1
    DEF DeviceTunnels, StartCopying, DeviceCopiers, BrokenInv, SilentInv, Silent
  <2>2. CASE DeviceDials
    BY <1>1, <1>2, <1>3, <1>4, <1>5, <2>2
    DEF DeviceDials, StartCopying, DeviceCopiers, BrokenInv, SilentInv
  <2>3. CASE DeviceTunnelBreaks \/ DeviceDialFails
    BY <1>1, <1>2, <1>3, <1>4, <1>5, <2>3
    DEF DeviceTunnelBreaks, DeviceDialFails, BrokenInv, SilentInv
  <2> QED
    BY <2>1, <2>2, <2>3
<1>8. KnownInv'
  <2>1. {"200", "502"} \subseteq Known'
    BY <1>3 DEF Known, Answers
  <2>2. /\ <<>> \in Seq(Known') /\ <<"200">> \in Seq(Known') /\ <<"502">> \in Seq(Known')
    BY <2>1
  <2> QED
    BY <1>1, <1>2, <1>5, <2>2 DEF KnownInv
<1> QED
  BY <1>6, <1>7, <1>8 DEF AnsweredInv

----------------------------------------------------------------------------

LEMMA PromiseInit == TunnelInit => PromiseInv
<1> SUFFICES ASSUME TunnelInit PROVE PromiseInv
  OBVIOUS
<1>1. TunnelInv
  BY TunnelInitInv
<1>2. /\ seen = <<>> /\ out = <<>> /\ gwBuf = <<>> /\ unsent = Wire /\ endpoint = "none"
      /\ \A s \in Streams : flow[s] = <<>>
      /\ \A k \in Copiers : copier[k] = "none"
      /\ dev \in {"none", "read"} /\ gw \in {"none", "peek1"} /\ (Proxied => gw = "none")
  BY DEF TunnelInit
<1>3. /\ Silent /\ flow["g2t"] = <<>> /\ flow["d2g"] = <<>>
      /\ copier["devUp"] = "none"
  BY <1>2 DEF Silent, Streams, Copiers, DeviceCopiers
<1>4. Said = 0
  BY <1>1, <1>2, SaidFacts DEF Said
<1>5. AfterTarget = 0 /\ AfterChannel = 0
  <2>1. Skipped = 0
    BY <1>2 DEF Skipped
  <2> QED
    BY <1>2, <1>3, <2>1 DEF AfterTarget, AfterOut, AfterChannel, AfterGateway, OnStream
<1>6. SaidInv
  BY <1>4, <1>5 DEF SaidInv
<1>7. AskedInv /\ BrokenInv /\ SilentInv
  BY <1>2, <1>3 DEF AskedInv, Asking, BrokenInv, SilentInv
<1>8. KnownInv
  <2>1. <<>> \in Seq(Known)
    OBVIOUS
  <2> QED
    BY <1>2, <1>3, <2>1 DEF KnownInv, Silent
<1> QED
  BY <1>6, <1>7, <1>8 DEF PromiseInv

LEMMA PromiseNext ==
  TunnelInv /\ AnswerInv /\ PromiseInv /\ [TunnelNext]_tunnelVars => PromiseInv'
<1> SUFFICES ASSUME TunnelInv, AnswerInv, PromiseInv, [TunnelNext]_tunnelVars PROVE PromiseInv'
  OBVIOUS
<1>1. SaidInv'
  BY SaidStep DEF PromiseInv
<1>2. AnsweredInv'
  <2>1. CASE HushedStep
    BY <2>1, HushedAnswered
  <2>2. CASE ClientReceives
    BY <2>2, ReceivesAnswered
  <2>3. CASE ServerReplies \/ TargetReplies
    BY <2>3, RepliesAnswered
  <2>4. CASE ConnectDenied \/ ConnectEstablished \/ RelayStarts
    BY <2>4, ConnectAnsweredToo
  <2>5. CASE DeviceTunnels \/ DeviceDials \/ DeviceTunnelBreaks \/ DeviceDialFails
    BY <2>5, DialAnswered
  <2>6. CASE Copies("devDown") \/ Copies("gwDown")
    BY <2>6, PassesAnswered
  <2>7. CASE UNCHANGED tunnelVars
    <3>1. UNCHANGED <<form, host, unsent, seen, dev, gw, gwBuf, endpoint, answered, flow, copier>>
      BY <2>7 DEF tunnelVars
    <3>2. UNCHANGED <<Connects, Proxied, Said, Known, Silent>>
      BY <3>1, Fixed, SaidSame DEF Known, Silent
    <3> QED
      BY <3>1, <3>2
      DEF PromiseInv, AnsweredInv, AskedInv, Asking, BrokenInv, SilentInv, KnownInv
  <2>8. (\E k \in Copiers : CopyStep(k)) =>
           HushedStep \/ Copies("devDown") \/ Copies("gwDown")
    BY DEF CopyStep, Copiers, DeviceCopiers, GatewayCopiers, HushedStep
  <2> QED
    BY <2>1, <2>2, <2>3, <2>4, <2>5, <2>6, <2>7, <2>8
    DEF TunnelNext, DeviceStep, GatewayStep, ServerStep, HushedStep
<1> QED
  BY <1>1, <1>2 DEF PromiseInv, AnsweredInv

(* What the promise rests on: nobody holds more than has been said, nobody   *)
(* comes to an endpoint or to an answer before the CONNECT is complete, and  *)
(* where the device has no pipe nothing comes to an endpoint at all.         *)
THEOREM PromiseInvariant == TunnelSpec => []PromiseInv
<1>1. TunnelInit => PromiseInv
  BY PromiseInit
<1>2. TunnelInv /\ AnswerInv /\ PromiseInv /\ [TunnelNext]_tunnelVars => PromiseInv'
  BY PromiseNext
<1> QED
  BY <1>1, <1>2, TunnelInvariant, AnswerInvariant, PTL DEF TunnelSpec

----------------------------------------------------------------------------
(* The steps of the promise *)

LEMMA CallFacts ==
  /\ Call.head = IF Connects THEN Head3 ELSE <<>>
  /\ Call.request = Payload
  /\ form = "plain" => Call.meant = "http"
  /\ form = "tls" \/ (form # "plain" /\ IsMITMHost(host)) => Call.meant = "tls"
  /\ Connects /\ ~IsMITMHost(host) => Call.meant = "target"
  /\ Call.refused = (form = "connect" /\ ~Permitted(host))
<1>1. /\ Call.head = IF Connects THEN Head3 ELSE <<>>
      /\ Call.request = Payload
  BY DEF Call, Connects
<1>2. Call.meant = IF form = "plain" THEN "http"
                   ELSE IF form = "tls" \/ IsMITMHost(host) THEN "tls" ELSE "target"
  BY DEF Call, IsMITMHost
<1>3. form = "plain" => Call.meant = "http"
  BY <1>2
<1>4. form = "tls" \/ (form # "plain" /\ IsMITMHost(host)) => Call.meant = "tls"
  BY <1>2
<1>5. Connects /\ ~IsMITMHost(host) => Call.meant = "target"
  BY <1>2 DEF Connects
<1>6. Call.refused = (form = "connect" /\ ~Permitted(host))
  <2>1. Permitted(host) <=> \/ host.name \in {"forged", "listed"}
                            \/ host.name = "wildcard" /\ host.lower
    BY Zenon DEF Permitted, IsMITMHost, HostInList
  <2> QED
    BY <2>1, Zenon DEF Call
<1> QED
  BY <1>1, <1>3, <1>4, <1>5, <1>6

LEMMA SameCall == form' = form /\ host' = host => Call' = Call
BY Fixed DEF Call, Permitted, IsMITMHost, HostInList

LEMMA PromiseFacts ==
  TunnelInv /\ SaidInv =>
      /\ Promise!Whole = Wire
      /\ Promise!Asks <=> Connects
      /\ Promise!Asked <=> (Connects => Said >= 3)
      /\ Promise!Skips = IF Connects /\ endpoint # "http" THEN 3 ELSE 0
<1> SUFFICES ASSUME TunnelInv, SaidInv
             PROVE  /\ Promise!Whole = Wire
                    /\ Promise!Asks <=> Connects
                    /\ Promise!Asked <=> (Connects => Said >= 3)
                    /\ Promise!Skips = IF Connects /\ endpoint # "http" THEN 3 ELSE 0
  OBVIOUS
<1>1. /\ Said \in Int /\ Len(Head3) = 3 /\ Head3 # <<>> /\ Len(<<>>) = 0
      /\ Payload \in Seq(Pieces)
  BY SaidFacts, HeadFacts, WireFacts DEF TunnelInv, TunnelTypeOK
<1>2. Promise!Whole = Wire
  <2>1. CASE Connects
    BY <2>1, CallFacts DEF Promise!Whole, Wire, Connects
  <2>2. CASE ~Connects
    <3>1. <<>> \o Payload = Payload
      BY <1>1, ConcatEmptySeq
    <3> QED
      BY <2>2, <3>1, CallFacts DEF Promise!Whole, Wire, Connects
  <2> QED
    BY <2>1, <2>2
<1>3. Promise!Asks <=> Connects
  BY <1>1, CallFacts DEF Promise!Asks
<1>4. Len(Call.head) = IF Connects THEN 3 ELSE 0
  BY <1>1, CallFacts
<1>5. Promise!Asked <=> (Connects => Said >= 3)
  <2>1. Said >= 0
    BY <1>1, Positions DEF TunnelInv, SaidInv
  <2>2. Promise!Asked <=> Said >= Len(Call.head)
    BY DEF Promise!Asked, Said
  <2> QED
    BY <1>1, <1>4, <2>1, <2>2
<1>6. Promise!Skips = IF Connects /\ endpoint # "http" THEN 3 ELSE 0
  <2>1. Promise!Skips = IF endpoint = "http" THEN 0 ELSE Len(Call.head)
    BY DEF Promise!Skips
  <2> QED
    BY <1>4, <2>1
<1> QED
  BY <1>2, <1>3, <1>5, <1>6

(* What a step of the tunnel is to the promise.                              *)
LEMMA StutterFacts ==
  UNCHANGED <<form, host, unsent, endpoint, out, answered, seen>> => UNCHANGED Promise!vars
BY SameCall, Fixed DEF Promise!vars

LEMMA SaysToo == TunnelInv /\ PromiseInv /\ ClientSends => Promise!Say
<1> SUFFICES ASSUME TunnelInv, PromiseInv, ClientSends PROVE Promise!Say
  OBVIOUS
<1>1. /\ UNCHANGED <<form, host, endpoint, out, answered, seen>>
      /\ unsent # <<>> /\ unsent' = Tail(unsent)
  BY DEF ClientSends
<1>2. /\ unsent \in Seq(Pieces) /\ Len(Wire) \in Nat /\ Said \in Int
  BY Contents, SaidFacts DEF TunnelInv
<1>3. Len(unsent) \in Nat /\ Len(unsent) >= 1 /\ Len(unsent') = Len(unsent) - 1
  BY <1>1, <1>2, HeadAndTail
<1>4. Said < Len(Wire) /\ Said' = Said + 1
  BY <1>1, <1>2, <1>3, Fixed DEF Said
<1> QED
  BY <1>1, <1>4, SameCall, PromiseFacts DEF Promise!Say, Said, PromiseInv

LEMMA ReachesToo ==
  ASSUME TunnelInv, PromiseInv, UNCHANGED <<form, host, unsent, out, answered, seen>>,
         endpoint = "none", seen \in {<<>>, <<"200">>},
         \/ /\ Connects => Said >= 3
            /\ ~(form = "connect" /\ ~Permitted(host))
            /\ endpoint' = Call.meant
         \/ Connects /\ seen = <<>> /\ endpoint' = "http"
  PROVE  Promise!Reach
<1>1. UNCHANGED <<Call, Len(Wire) - Len(unsent)>>
  BY SameCall, Fixed
<1>2. \/ Promise!Asked /\ ~Call.refused /\ endpoint' = Call.meant
      \/ Promise!Asks /\ seen = <<>> /\ endpoint' = "http"
  BY PromiseFacts, CallFacts DEF PromiseInv
<1> QED
  BY <1>1, <1>2 DEF Promise!Reach

LEMMA DeliversToo ==
  ASSUME TunnelInv, PromiseInv,
         UNCHANGED <<form, host, unsent, endpoint, answered, seen>>,
         endpoint # "none", Skipped = IF Connects /\ endpoint # "http" THEN 3 ELSE 0,
         AfterOut < Said, out' = Append(out, Wire[AfterOut + 1])
  PROVE  Promise!Deliver
<1>1. UNCHANGED <<Call, Len(Wire) - Len(unsent)>>
  BY SameCall, Fixed
<1>2. Promise!Skips + Len(out) = AfterOut /\ Promise!Whole = Wire
  BY PromiseFacts DEF PromiseInv, AfterOut
<1> QED
  BY <1>1, <1>2 DEF Promise!Deliver, Said

LEMMA RepliesToo ==
  ASSUME UNCHANGED <<form, host, unsent, endpoint, out, seen>>,
         endpoint = "target" \/ (endpoint # "none" /\ out = Payload), ~answered, answered'
  PROVE  Promise!Reply
<1>1. UNCHANGED <<Call, Len(Wire) - Len(unsent)>>
  BY SameCall, Fixed
<1>2. answered' = TRUE
  OBVIOUS
<1> QED
  BY <1>1, <1>2, CallFacts DEF Promise!Reply

LEMMA DeviceReaches == TunnelInv /\ AnswerInv /\ PromiseInv /\ DeviceDials => Promise!Reach
<1> SUFFICES ASSUME TunnelInv, AnswerInv, PromiseInv, DeviceDials PROVE Promise!Reach
  OBVIOUS
<1>1. /\ UNCHANGED <<form, host, unsent, out, answered, seen>>
      /\ dev = "dial" /\ Direct /\ endpoint' = "target"
  BY DEF DeviceDials
<1>2. Connects /\ Proxied /\ endpoint = "none" /\ seen = <<>> /\ Said >= 3
  BY <1>1, NothingIsSaid, DialSaid
<1>3. ~IsMITMHost(host)
  BY <1>1 DEF Direct, ViaGateway, IsMITMHost
<1> QED
  BY <1>1, <1>2, <1>3, CallFacts, ReachesToo DEF Proxied

(* A client that sends no CONNECT is told nothing before it is served.       *)
LEMMA UnaskedUntold ==
  TunnelInv /\ AnswerInv /\ ~Connects /\ gw \in {"peek1", "peek8"} => seen = <<>>
<1> SUFFICES ASSUME TunnelInv, AnswerInv, ~Connects, gw \in {"peek1", "peek8"} PROVE seen = <<>>
  OBVIOUS
<1>1. ~Proxied /\ ~Direct /\ endpoint = "none"
  BY DEF TunnelInv, EndpointInv, Proxied, Connects, Direct
<1>2. AfterReply = 1
  BY <1>1 DEF AnswerInv, AnswerPlace, AnswerCount, GatewayHeard, Told, Replies
<1>3. /\ seen \in Seq(Answers) /\ Len(seen) \in Nat /\ OnStream("g2d") \in Nat
      /\ Start = 1 /\ FromGateway = AfterSeen
  BY <1>1, AnswerPositions DEF Down, Start, FromGateway
<1>4. Len(seen) = 0
  BY <1>2, <1>3 DEF AfterReply, AfterSeen
<1> QED
  BY <1>3, <1>4, EmptySeq

LEMMA PeekReaches ==
  TunnelInv /\ AnswerInv /\ PromiseInv /\ (PeekFirst \/ PeekPrefix) =>
      Promise!Reach \/ UNCHANGED Promise!vars
<1> SUFFICES ASSUME TunnelInv, AnswerInv, PromiseInv, PeekFirst \/ PeekPrefix
             PROVE  Promise!Reach \/ UNCHANGED Promise!vars
  OBVIOUS
<1>1. /\ UNCHANGED <<form, host, unsent, out, answered, seen>>
      /\ gw \in {"peek1", "peek8"}
      /\ \/ endpoint' = endpoint
         \/ PeekFirst /\ gwBuf # <<>> /\ Head(gwBuf) = "hello" /\ endpoint' = "tls"
         \/ PeekPrefix /\ endpoint' = "http"
  BY DEF PeekFirst, PeekPrefix
<1>2. /\ endpoint = "none" /\ form \in Forms
      /\ ~Connects => form \in {"tls", "plain"}
  BY <1>1, TunnelAssumption DEF TunnelInv, TunnelTypeOK, EndpointInv, Connects
<1>3. CASE endpoint' = endpoint
  BY <1>1, <1>3, StutterFacts
<1>4. CASE PeekFirst /\ gwBuf # <<>> /\ Head(gwBuf) = "hello" /\ endpoint' = "tls"
  <2>1. Wire[1] = "hello"
    BY <1>1, <1>4, OpeningFacts
  <2>2. ~Connects
    BY <1>2, <2>1, WireFacts
  <2>3. form # "plain"
    <3> SUFFICES ASSUME form = "plain" PROVE FALSE
      OBVIOUS
    <3>1. Wire = <<"G", "ET">>
      BY DEF Wire, Payload
    <3> QED
      BY <2>1, <3>1
  <2>4. form = "tls" /\ seen = <<>> /\ Call.meant = "tls"
    BY <1>1, <1>2, <2>2, <2>3, UnaskedUntold, CallFacts
  <2> QED
    BY <1>1, <1>2, <1>4, <2>2, <2>4, ReachesToo
<1>5. CASE PeekPrefix /\ endpoint' = "http"
  <2>1. gw = "peek8" /\ form # "tls"
    BY <1>5 DEF PeekPrefix, PromiseInv, SilentInv
  <2>2. CASE Connects
    <3>1. seen = <<>>
      BY <2>1, <2>2 DEF PromiseInv, SilentInv, BrokenInv, Silent
    <3> QED
      BY <1>1, <1>2, <1>5, <2>2, <3>1, ReachesToo
  <2>3. CASE ~Connects
    <3>1. form = "plain" /\ seen = <<>> /\ Call.meant = "http"
      BY <1>1, <1>2, <2>1, <2>3, UnaskedUntold, CallFacts
    <3> QED
      BY <1>1, <1>2, <1>5, <2>3, <3>1, ReachesToo
  <2> QED
    BY <2>2, <2>3
<1> QED
  BY <1>1, <1>3, <1>4, <1>5

LEMMA ConnectReaches ==
  TunnelInv /\ PromiseInv /\ ConnectEstablished => Promise!Reach \/ UNCHANGED Promise!vars
<1> SUFFICES ASSUME TunnelInv, PromiseInv, ConnectEstablished
             PROVE  Promise!Reach \/ UNCHANGED Promise!vars
  OBVIOUS
<1>1. /\ UNCHANGED <<form, host, unsent, out, answered, seen>>
      /\ gw = "connect" /\ Permitted(host)
      /\ IF IsMITMHost(host) THEN endpoint' = "tls" ELSE endpoint' = endpoint
  BY DEF ConnectEstablished
<1>2. Connects /\ endpoint = "none"
  BY <1>1 DEF TunnelInv, PlaceInv, EndpointInv
<1>3. CASE IsMITMHost(host)
  <2>1. seen = <<>>
    BY <1>1, <1>2 DEF PromiseInv, SilentInv, BrokenInv, Silent
  <2>2. Said >= 3
    BY <1>1, <1>2 DEF PromiseInv, AskedInv, Asking
  <2>3. Call.meant = "tls"
    BY <1>2, <1>3, CallFacts DEF Connects
  <2> QED
    BY <1>1, <1>2, <1>3, <2>1, <2>2, <2>3, ReachesToo
<1>4. CASE ~IsMITMHost(host)
  BY <1>1, <1>4, StutterFacts
<1> QED
  BY <1>3, <1>4

(* Before the reply is given a client has been told nothing, or 200.         *)
LEMMA HeardBeforeReply ==
  ASSUME TunnelInv, AnswerInv, PromiseInv, ~answered, Len(Script) = 2, Connects
  PROVE  seen \in {<<>>, <<"200">>}
<1>1. /\ seen \in Seq(Answers) /\ Len(seen) \in Nat
      /\ Segment(Script, seen, 0)
  BY AnswerPositions DEF AnswerInv, AnswerOrder, Start
<1>2. Len(seen) <= 2 /\ \A k \in 1..Len(seen) : seen[k] = Script[k]
  BY <1>1 DEF Segment
<1>3. Script[1] = "200" /\ Script[2] = "reply"
  BY ScriptFacts DEF TunnelInv
<1>4. Len(seen) # 2
  <2> SUFFICES ASSUME Len(seen) = 2 PROVE FALSE
    OBVIOUS
  <2>1. seen[2] = "reply"
    BY <1>2, <1>3
  <2>2. seen[2] \in Known
    <3>1. seen \in Seq(Known) /\ 2 \in 1..Len(seen)
      BY DEF PromiseInv, KnownInv
    <3> QED
      BY <3>1, ElementOfSeq
  <2> QED
    BY <2>1, <2>2 DEF Known
<1>5. CASE Len(seen) = 0
  BY <1>1, <1>5, EmptySeq
<1>6. CASE Len(seen) = 1
  <2>1. seen[1] = "200"
    BY <1>2, <1>3, <1>6
  <2>2. <<"200">> \in Seq(Answers) /\ Len(<<"200">>) = 1 /\ <<"200">>[1] = "200"
    BY DEF Answers
  <2>3. seen = <<"200">>
    BY <1>1, <1>6, <2>1, <2>2, SeqEqual
  <2> QED
    BY <2>3
<1>7. Len(seen) \in {0, 1}
  <2>1. PICK m \in Nat : m = Len(seen)
    BY <1>1
  <2>2. m <= 2 /\ m # 2
    BY <1>2, <1>4, <2>1
  <2>3. m \in {0, 1}
    BY <2>2
  <2> QED
    BY <2>1, <2>3
<1> QED
  BY <1>5, <1>6, <1>7

LEMMA RelayReaches == TunnelInv /\ AnswerInv /\ PromiseInv /\ RelayStarts => Promise!Reach
<1> SUFFICES ASSUME TunnelInv, AnswerInv, PromiseInv, RelayStarts PROVE Promise!Reach
  OBVIOUS
<1>1. /\ UNCHANGED <<form, host, unsent, out, answered, seen>>
      /\ gw = "dial" /\ endpoint' = "target"
  BY DEF RelayStarts
<1>2. Connects /\ endpoint = "none" /\ ~IsMITMHost(host) /\ ~answered
  BY <1>1 DEF TunnelInv, PlaceInv, EndpointInv, AnswerInv, AnswerPlace
<1>3. Said >= 3
  BY <1>1, <1>2 DEF PromiseInv, AskedInv, Asking
<1>4. /\ Proxied => copier["devDown"] # "none"
      /\ ~Proxied => Permitted(host)
  BY <1>1, <1>2 DEF PromiseInv, BrokenInv, AnswerInv, AnswerPlace
<1>5. Len(Script) = 2
  BY <1>2, <1>4, ScriptFacts DEF TunnelInv
<1>6. seen \in {<<>>, <<"200">>}
  BY <1>2, <1>5, HeardBeforeReply
<1> QED
  BY <1>1, <1>2, <1>3, <1>4, <1>6, CallFacts, ReachesToo DEF Proxied

LEMMA ReadsDeliver ==
  TunnelInv /\ PromiseInv /\ (TargetReads \/ ServerReads) => Promise!Deliver
<1> SUFFICES ASSUME TunnelInv, PromiseInv, TargetReads \/ ServerReads PROVE Promise!Deliver
  OBVIOUS
<1>1. /\ UNCHANGED <<form, host, unsent, endpoint, answered, seen>>
  BY DEF TargetReads, ServerReads
<1>2. /\ Wire \in Seq(Pieces) /\ gwBuf \in Seq(Pieces)
      /\ flow["g2t"] \in Seq(Pieces) /\ flow["d2g"] \in Seq(Pieces)
      /\ Len(gwBuf) \in Nat /\ OnStream("g2t") \in Nat /\ OnStream("d2g") \in Nat
      /\ AfterOut \in Nat /\ AfterTarget \in Nat /\ AfterGateway \in Nat /\ Said \in Int
  BY Contents, Positions, SaidFacts DEF TunnelInv
<1>3. CASE TargetReads
  <2>1. /\ endpoint = "target" /\ flow["g2t"] # <<>>
        /\ out' = Append(out, Head(flow["g2t"]))
    BY <1>3 DEF TargetReads
  <2>2. Connects /\ Skipped = 3
    BY <2>1 DEF TunnelInv, EndpointInv, Skipped
  <2>3. Segment(Wire, flow["g2t"], AfterOut)
    BY DEF TunnelInv, OrderInv
  <2>4. Head(flow["g2t"]) = Wire[AfterOut + 1] /\ OnStream("g2t") >= 1
    BY <1>2, <2>1, <2>3, SegmentTail, HeadAndTail DEF OnStream
  <2>5. AfterOut < Said
    <3>1. AfterTarget <= Said
      BY DEF PromiseInv, SaidInv
    <3> QED
      BY <1>2, <2>4, <3>1 DEF AfterTarget
  <2> QED
    BY <1>1, <2>1, <2>2, <2>4, <2>5, DeliversToo
<1>4. CASE ServerReads
  <2>1. /\ gw = "served"
        /\ \/ gwBuf # <<>> /\ out' = Append(out, Head(gwBuf))
           \/ /\ gwBuf = <<>> /\ flow["d2g"] # <<>>
              /\ out' = Append(out, Head(flow["d2g"]))
    BY <1>4 DEF ServerReads
  <2>2. /\ endpoint \in {"tls", "http"} /\ flow["g2t"] = <<>> /\ GatewayTakes
    BY <2>1 DEF TunnelInv, EndpointInv, GatewayTakes
  <2>3. Skipped = IF Connects /\ endpoint # "http" THEN 3 ELSE 0
    BY <2>1, <2>2 DEF Skipped
  <2>4. /\ AfterTarget = AfterOut /\ AfterChannel <= Said
        /\ Segment(Wire, gwBuf, AfterOut) /\ Segment(Wire, flow["d2g"], AfterGateway)
    <3>1. OnStream("g2t") = 0
      BY <2>2 DEF OnStream
    <3>2. AfterTarget = AfterOut
      BY <1>2, <3>1 DEF AfterTarget
    <3> QED
      BY <2>2, <3>2 DEF TunnelInv, OrderInv, PromiseInv, SaidInv
  <2>5. CASE gwBuf # <<>> /\ out' = Append(out, Head(gwBuf))
    <3>1. Head(gwBuf) = Wire[AfterOut + 1] /\ Len(gwBuf) >= 1
      BY <1>2, <2>4, <2>5, SegmentTail, HeadAndTail
    <3>2. AfterOut < Said
      BY <1>2, <2>4, <3>1 DEF AfterGateway, AfterChannel
    <3> QED
      BY <1>1, <2>2, <2>3, <2>5, <3>1, <3>2, DeliversToo
  <2>6. CASE gwBuf = <<>> /\ flow["d2g"] # <<>> /\ out' = Append(out, Head(flow["d2g"]))
    <3>1. AfterGateway = AfterOut
      <4>1. Len(gwBuf) = 0
        BY <2>6
      <4> QED
        BY <1>2, <2>4, <4>1 DEF AfterGateway
    <3>2. Head(flow["d2g"]) = Wire[AfterOut + 1] /\ OnStream("d2g") >= 1
      BY <1>2, <2>4, <2>6, <3>1, SegmentTail, HeadAndTail DEF OnStream
    <3>3. AfterOut < Said
      BY <1>2, <2>4, <3>1, <3>2 DEF AfterChannel
    <3> QED
      BY <1>1, <2>2, <2>3, <2>6, <3>2, <3>3, DeliversToo
  <2> QED
    BY <2>1, <2>5, <2>6
<1> QED
  BY <1>3, <1>4

LEMMA EndpointReplies ==
  TunnelInv /\ (TargetReplies \/ ServerReplies) => Promise!Reply
<1> SUFFICES ASSUME TunnelInv, TargetReplies \/ ServerReplies PROVE Promise!Reply
  OBVIOUS
<1>1. CASE TargetReplies
  BY <1>1, RepliesToo DEF TargetReplies
<1>2. CASE ServerReplies
  <2>1. endpoint # "none"
    BY <1>2 DEF ServerReplies, TunnelInv, EndpointInv
  <2> QED
    BY <1>2, <2>1, RepliesToo DEF ServerReplies
<1> QED
  BY <1>1, <1>2

(* The next of its answers that the client receives, and what it was told    *)
(* before.                                                                   *)
LEMMA NextHeard ==
  TunnelInv /\ AnswerInv /\ PromiseInv /\ ClientReceives =>
      /\ UNCHANGED <<form, host, unsent, endpoint, out, answered>>
      /\ ~Silent /\ Start + Len(seen) + 1 <= Len(Script)
      /\ seen' = Append(seen, Script[Start + Len(seen) + 1])
      /\ Script[Start + Len(seen) + 1] \in Known
      /\ Len(seen) = 0 => seen = <<>>
      /\ Len(seen) = 1 /\ Connects => seen = <<Script[1]>>
<1> SUFFICES ASSUME TunnelInv, AnswerInv, PromiseInv, ClientReceives
             PROVE  /\ UNCHANGED <<form, host, unsent, endpoint, out, answered>>
                    /\ ~Silent /\ Start + Len(seen) + 1 <= Len(Script)
                    /\ seen' = Append(seen, Script[Start + Len(seen) + 1])
                    /\ Script[Start + Len(seen) + 1] \in Known
                    /\ Len(seen) = 0 => seen = <<>>
                    /\ Len(seen) = 1 /\ Connects => seen = <<Script[1]>>
  OBVIOUS
<1>1. PICK s \in {"d2c", "g2d"} : s = IF Proxied THEN "d2c" ELSE "g2d"
  OBVIOUS
<1>2. /\ UNCHANGED <<form, host, unsent, endpoint, out, answered>>
      /\ seen' = Append(seen, Head(flow[s])) /\ flow[s] # <<>>
  BY <1>1 DEF ClientReceives, ClientDown
<1>3. /\ seen \in Seq(Answers) /\ flow[s] \in Seq(Answers) /\ Script \in Seq(Answers)
      /\ Start + Len(seen) \in Nat /\ Len(seen) \in Nat
  BY AnswerPositions, ScriptFacts DEF Down, TunnelInv
<1>4. Segment(Script, flow[s], Start + Len(seen)) /\ Segment(Script, seen, Start)
  BY <1>1 DEF AnswerInv, AnswerOrder, FromGateway, GatewayHeard, AfterSeen
<1>5. Head(flow[s]) = Script[Start + Len(seen) + 1] /\ Start + Len(seen) + 1 <= Len(Script)
  BY <1>2, <1>3, <1>4, SegmentTail
<1>6. Head(flow[s]) \in Known
  BY <1>1, <1>2, HeadAndTail DEF PromiseInv, KnownInv
<1>7. Len(seen) = 0 => seen = <<>>
  BY <1>3, EmptySeq
<1>8. ASSUME Len(seen) = 1, Connects PROVE seen = <<Script[1]>>
  <2>1. seen[1] = Script[1] /\ seen[1] \in Answers
    BY <1>3, <1>4, <1>8, ElementOfSeq DEF Segment, Start
  <2>2. PICK x \in Answers : x = Script[1]
    BY <2>1
  <2>3. <<x>> \in Seq(Answers) /\ Len(<<x>>) = 1 /\ <<x>>[1] = x
    OBVIOUS
  <2> QED
    BY <1>3, <1>8, <2>1, <2>2, <2>3, SeqEqual
<1> QED
  BY <1>2, <1>5, <1>6, <1>7, <1>8 DEF Silent

LEMMA ReceivesToo ==
  TunnelInv /\ AnswerInv /\ PromiseInv /\ ClientReceives => Promise!Next
<1> SUFFICES ASSUME TunnelInv, AnswerInv, PromiseInv, ClientReceives PROVE Promise!Next
  OBVIOUS
<1> DEFINE n == Start + Len(seen) + 1
<1>1. /\ UNCHANGED <<form, host, unsent, endpoint, out, answered>>
      /\ n <= Len(Script) /\ seen' = Append(seen, Script[n]) /\ Script[n] \in Known
      /\ Len(seen) = 0 => seen = <<>>
      /\ Len(seen) = 1 /\ Connects => seen = <<Script[1]>>
  BY NextHeard
<1>2. /\ Connects => Said >= 3
      /\ ~(Connects /\ endpoint = "http")
  BY NextHeard, PassingFacts
<1>3. Len(seen) \in Nat /\ Start = IF Connects THEN 0 ELSE 1
  BY AnswerPositions DEF Start
<1>4. UNCHANGED <<Call, Len(Wire) - Len(unsent)>>
  BY <1>1, SameCall, Fixed
<1>5. (Promise!Asks <=> Connects) /\ Promise!Asked
  BY <1>2, PromiseFacts DEF PromiseInv
<1>6. CASE Script = <<"502">> /\ Proxied /\ copier["devDown"] = "none"
  <2>1. Connects /\ endpoint = "none"
    BY <1>6 DEF PromiseInv, BrokenInv, Proxied, Connects
  <2>2. n = 1 /\ Script[1] = "502" /\ seen = <<>>
    BY <1>1, <1>3, <1>6, <2>1
  <2> QED
    BY <1>1, <1>4, <1>5, <2>1, <2>2 DEF Promise!Next, Promise!Failed
<1>7. CASE Script = <<"403">> /\ form = "connect" /\ ~Permitted(host)
  <2>1. Connects /\ endpoint = "none"
    BY <1>2, <1>7 DEF AnswerInv, AnswerPlace, Proxied, Connects, TunnelInv, TunnelTypeOK
  <2>2. n = 1 /\ Script[1] = "403" /\ seen = <<>>
    BY <1>1, <1>3, <1>7, <2>1
  <2>3. Call.refused
    BY <1>7, CallFacts
  <2> QED
    BY <1>1, <1>4, <1>5, <2>1, <2>2, <2>3 DEF Promise!Next, Promise!Refused
<1>8. CASE Script = <<"200", "reply">> /\ ~(form = "connect" /\ ~Permitted(host))
  <2>1. Len(Script) = 2 /\ Script[1] = "200" /\ Script[2] = "reply" /\ n \in {1, 2}
    BY <1>1, <1>3, <1>8
  <2>2. CASE n = 1
    <3>1. Connects /\ seen = <<>>
      BY <1>1, <1>3, <2>2
    <3>2. ~Call.refused /\ endpoint # "http"
      BY <1>2, <1>8, <3>1, CallFacts
    <3> QED
      BY <1>1, <1>4, <1>5, <2>1, <2>2, <3>1, <3>2 DEF Promise!Next, Promise!Established
  <2>3. CASE n = 2
    <3>1. answered
      BY <1>1, <2>1, <2>3 DEF Known
    <3>2. seen = IF Connects THEN <<"200">> ELSE <<>>
      <4>1. PICK m \in Nat : m = Len(seen)
        BY <1>3
      <4>2. CASE Connects
        <5>1. m = 1
          BY <1>3, <2>3, <4>1, <4>2
        <5> QED
          BY <1>1, <2>1, <4>1, <4>2, <5>1
      <4>3. CASE ~Connects
        <5>1. m = 0
          BY <1>3, <2>3, <4>1, <4>3
        <5> QED
          BY <1>1, <4>1, <4>3, <5>1
      <4> QED
        BY <4>2, <4>3
    <3> QED
      BY <1>1, <1>4, <1>5, <2>1, <2>3, <3>1, <3>2 DEF Promise!Next, Promise!Hear
  <2> QED
    BY <2>1, <2>2, <2>3
<1> QED
  BY <1>6, <1>7, <1>8 DEF Script

LEMMA PromiseStep ==
  TunnelInv /\ AnswerInv /\ PromiseInv /\ [TunnelNext]_tunnelVars => [Promise!Next]_(Promise!vars)
<1> SUFFICES ASSUME TunnelInv, AnswerInv, PromiseInv, [TunnelNext]_tunnelVars
             PROVE  [Promise!Next]_(Promise!vars)
  OBVIOUS
<1>1. CASE ClientSends
  BY <1>1, SaysToo DEF Promise!Next
<1>2. CASE ClientReceives
  BY <1>2, ReceivesToo
<1>3. CASE TargetReads \/ ServerReads
  BY <1>3, ReadsDeliver DEF Promise!Next
<1>4. CASE TargetReplies \/ ServerReplies
  BY <1>4, EndpointReplies DEF Promise!Next
<1>5. CASE DeviceDials \/ RelayStarts
  BY <1>5, DeviceReaches, RelayReaches DEF Promise!Next
<1>6. CASE PeekFirst \/ PeekPrefix \/ ConnectEstablished
  BY <1>6, PeekReaches, ConnectReaches DEF Promise!Next
<1>7. CASE ClientFinishes \/ GuardFires \/ ListenerCloses \/ \E l \in Links : LinkCloses(l)
  BY <1>7, StutterFacts DEF ClientFinishes, GuardFires, ListenerCloses, LinkCloses
<1>8. CASE \/ \E n \in 1..Len(Wire) : DeviceReads(n)
           \/ DeviceHasRequest \/ DeviceReadFails
           \/ DeviceTunnels \/ DeviceTunnelBreaks \/ DeviceDialFails \/ PipeEnds
  BY <1>8, StutterFacts DEF DeviceReads, DeviceHasRequest, DeviceReadFails, DeviceTunnels,
     DeviceTunnelBreaks, DeviceDialFails, PipeEnds
<1>9. CASE \/ \E n \in 1..Len(Wire) : GatewayReads(n)
           \/ PeekFirstFails \/ ReadRequest \/ ReadRequestFails \/ ConnectDenied \/ ConnectAborted
           \/ RelayDialFails \/ RelayEnds \/ Push \/ ServerEnds
  BY <1>9, StutterFacts DEF GatewayReads, PeekFirstFails, ReadRequest, ReadRequestFails,
     ConnectDenied, ConnectAborted, RelayDialFails, RelayEnds, Push, ServerEnds
<1>10. ASSUME NEW k \in Copiers, CopyStep(k) PROVE UNCHANGED Promise!vars
  BY <1>10, StutterFacts DEF CopyStep, Copies, CopyEnds
<1>11. CASE UNCHANGED tunnelVars
  BY <1>11, StutterFacts DEF tunnelVars
<1> QED
  BY <1>1, <1>2, <1>3, <1>4, <1>5, <1>6, <1>7, <1>8, <1>9, <1>10, <1>11
  DEF TunnelNext, DeviceStep, GatewayStep, ServerStep

(* Device and gateway keep the promise of a tunnel: every behaviour of the   *)
(* links, buffers, copiers and timers is, to the client and the server, one  *)
(* that TunnelPromise allows, whichever route and wherever it breaks.        *)
THEOREM TunnelKeepsPromise == TunnelSpec => KeepsPromise
<1>1. TunnelInit => Promise!Init
  BY DEF TunnelInit, Promise!Init
<1>2. TunnelInv /\ AnswerInv /\ PromiseInv /\ [TunnelNext]_tunnelVars =>
          [Promise!Next]_(Promise!vars)
  BY PromiseStep
<1> QED
  BY <1>1, <1>2, TunnelInvariant, AnswerInvariant, PromiseInvariant, PTL
  DEF TunnelSpec, KeepsPromise, Promise!Spec

=============================================================================
