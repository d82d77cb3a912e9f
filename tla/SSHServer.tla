----------------------------- MODULE SSHServer -----------------------------
(***************************************************************************)
(* The forwarding-only SSH server (src/sshfwd.go, newSSHServer to          *)
(* acceptForward): a client proves who it is with a key of the list, and   *)
(* its connection then carries channels.  A forward channel becomes a      *)
(* tunnel connection of that device (module Tunnel goes on from there), a  *)
(* session channel serves one command, the download of the device binary.  *)
(*                                                                         *)
(* External: the handshake of golang.org/x/crypto/ssh.  A client offers    *)
(* keys one after the other; the library calls PublicKeyCallback for each, *)
(* remembers the answer for the last one only and takes it for the         *)
(* signature that ends the handshake.                                      *)
(***************************************************************************)
EXTENDS AuthorizedKeys

CONSTANTS
    Holds,      \* the private keys a connection's client has
    Claims,     \* the user name a connection's client gives
    Chans,      \* the channels that clients open
    Owner,      \* the connection of a channel
    Asks,       \* channel requests: [type, target]
    NoAsk,      \* none that waits for its answer
    Permit      \* s.permit: [network, addr]

ASSUME ServerAssumption ==
    /\ Holds \in [Conns -> SUBSET Keys]
    /\ Claims \in [Conns -> Devices]
    /\ Owner \in [Chans -> Conns]

VARIABLES
    phase,      \* of a connection
    peer,       \* the client is still there
    device,     \* handleConn's device
    chan,       \* stage of a channel
    ask         \* what a channel was requested for

chanVars == <<chan, ask>>
serverVars == <<phase, peer, device, chanVars>>
vars == <<keyVars, serverVars>>

Phases == {"none", "handshake", "open", "closed"}
Stages == {"none", "asked", "forward", "session", "sending", "ended", "served"}
Over == {"none", "ended", "served"}

ServerTypeOK ==
    /\ KeysTypeOK
    /\ phase \in [Conns -> Phases]
    /\ peer \in [Conns -> BOOLEAN]
    /\ device \in [Conns -> Devices \cup {NoDevice}]
    /\ chan \in [Chans -> Stages]
    /\ ask \in [Chans -> Asks \cup {NoAsk}]

Init ==
    /\ KeysInit
    /\ phase = [c \in Conns |-> "none"]
    /\ peer = [c \in Conns |-> TRUE]
    /\ device = [c \in Conns |-> NoDevice]
    /\ chan = [h \in Chans |-> "none"]
    /\ ask = [h \in Chans |-> NoAsk]

----------------------------------------------------------------------------
(* serve and the handshake *)

Enters(c, p) == phase' = [phase EXCEPT ![c] = p]

Closes(c) ==
    /\ Enters(c, "closed")
    /\ peer' = [peer EXCEPT ![c] = FALSE]
    /\ device' = [device EXCEPT ![c] = NoDevice]
    /\ ForgetLookup(c)

Accept(c) ==
    /\ phase[c] = "none"
    /\ Enters(c, "handshake")
    /\ UNCHANGED <<keyVars, peer, device, chanVars>>

(* PublicKeyCallback for an offered key, whose private part the client need  *)
(* not have.                                                                 *)
Offer(c) ==
    /\ phase[c] = "handshake"
    /\ peer[c]
    /\ \E k \in Keys : Lookup(c, k)
    /\ UNCHANGED serverVars

(* Fault: the device is the user name that the client gives.                 *)
SignInAsUser(c) ==
    /\ phase[c] = "handshake"
    /\ peer[c]
    /\ at[c] = "idle"
    /\ found[c] # NoDevice
    /\ key[c] \in Holds[c]
    /\ Enters(c, "open")
    /\ device' = [device EXCEPT ![c] = Claims[c]]
    /\ UNCHANGED <<keyVars, peer, chanVars>>

(* The client signs with the key it offered last; handleConn takes the       *)
(* device from the permissions of that key.                                  *)
SignIn(c) ==
    /\ phase[c] = "handshake"
    /\ peer[c]
    /\ at[c] = "idle"
    /\ found[c] # NoDevice
    /\ key[c] \in Holds[c]
    /\ Enters(c, "open")
    /\ device' = [device EXCEPT ![c] = found[c]]
    /\ UNCHANGED <<keyVars, peer, chanVars>>

(* No key was accepted, the signature is wrong, or the client has gone.      *)
HandshakeFails(c) ==
    /\ phase[c] = "handshake"
    /\ at[c] = "idle"
    /\ Closes(c)
    /\ UNCHANGED chanVars

PeerLeaves(c) ==
    /\ phase[c] \in {"handshake", "open"}
    /\ peer[c]
    /\ peer' = [peer EXCEPT ![c] = FALSE]
    /\ UNCHANGED <<keyVars, phase, device, chanVars>>

----------------------------------------------------------------------------
(* handleConn: the loop over new channels *)

Becomes(h, s) == chan' = [chan EXCEPT ![h] = s]

OpenChannel(h) ==
    /\ phase[Owner[h]] = "open"
    /\ peer[Owner[h]]
    /\ chan[h] = "none"
    /\ Becomes(h, "asked")
    /\ \E a \in Asks : ask' = [ask EXCEPT ![h] = a]
    /\ UNCHANGED <<keyVars, phase, peer, device>>

Permitted(a) ==
    \E t \in Permit :
        /\ t.network = CASE a.type = "direct-tcpip" -> "tcp"
                         [] a.type = "direct-streamlocal" -> "unix"
                         [] OTHER -> "none"
        /\ t.addr = a.target

(* A payload that does not parse, a target that is not permitted and every   *)
(* other type of channel are refused.  Accept fails when the client has      *)
(* gone, unless that is not known yet.                                       *)
Dispatch(h) ==
    /\ phase[Owner[h]] = "open"
    /\ chan[h] = "asked"
    /\ \/ /\ ask[h].type # "session"
          /\ ~Permitted(ask[h])
          /\ Becomes(h, "ended")
       \/ /\ ask[h].type # "session"
          /\ Permitted(ask[h])
          /\ Becomes(h, "forward")
       \/ /\ ask[h].type = "session"
          /\ Becomes(h, "session")
       \/ /\ ask[h].type = "session" \/ Permitted(ask[h])
          /\ ~peer[Owner[h]]
          /\ Becomes(h, "ended")
    /\ ask' = [ask EXCEPT ![h] = NoAsk]
    /\ UNCHANGED <<keyVars, phase, peer, device>>

(* The loop ends with the connection, once it has seen every channel.        *)
HandleConnEnds(c) ==
    /\ phase[c] = "open"
    /\ ~peer[c]
    /\ \A h \in Chans : Owner[h] = c => chan[h] # "asked"
    /\ Closes(c)
    /\ UNCHANGED chanVars

(* serveTunnelConn and what follows it (module Tunnel).                      *)
ForwardEnds(h) ==
    /\ chan[h] = "forward"
    /\ Becomes(h, "ended")
    /\ UNCHANGED <<keyVars, phase, peer, device, ask>>

----------------------------------------------------------------------------
(* handleSession and execCommand.  Requests other than exec are answered and *)
(* change nothing.                                                           *)

(* The client closes the channel or has gone, or the payload of its exec     *)
(* does not parse.                                                           *)
SessionEnds(h) ==
    /\ chan[h] = "session"
    /\ Becomes(h, "ended")
    /\ UNCHANGED <<keyVars, phase, peer, device, ask>>

(* An exec, which may have waited in the channel when the client left: an    *)
(* unknown command, or no binary for the platform, is exit status 1.         *)
ExecDenied(h) ==
    /\ chan[h] = "session"
    /\ Becomes(h, "ended")
    /\ UNCHANGED <<keyVars, phase, peer, device, ask>>

ExecStarts(h) ==
    /\ chan[h] = "session"
    /\ Becomes(h, "sending")
    /\ UNCHANGED <<keyVars, phase, peer, device, ask>>

(* io.Copy cannot read or write on: exit status 1.                           *)
CopyFails(h) ==
    /\ chan[h] = "sending"
    /\ Becomes(h, "ended")
    /\ UNCHANGED <<keyVars, phase, peer, device, ask>>

(* All of the binary is written, not necessarily read: exit status 0.        *)
CopyEnds(h) ==
    /\ chan[h] = "sending"
    /\ Becomes(h, "served")
    /\ UNCHANGED <<keyVars, phase, peer, device, ask>>

SessionStep(h) ==
    \/ SessionEnds(h) \/ ExecDenied(h) \/ ExecStarts(h)
    \/ CopyFails(h) \/ CopyEnds(h)

Next ==
    \/ WriteConfig /\ UNCHANGED serverVars
    \/ \E c \in Conns :
           \/ LookupStep(c) /\ UNCHANGED serverVars
           \/ Accept(c) \/ Offer(c) \/ SignIn(c) \/ HandshakeFails(c) \/ PeerLeaves(c)
           \/ HandleConnEnds(c)
    \/ \E h \in Chans :
           OpenChannel(h) \/ Dispatch(h) \/ ForwardEnds(h) \/ SessionStep(h)

Spec == Init /\ [][Next]_vars

(* Every goroutine is scheduled and no mutex starves who waits for it.  A    *)
(* client that has gone ends the handshake, the tunnels and the session      *)
(* channels; nothing is assumed of one that stays.                           *)
FairSpec ==
    /\ Spec
    /\ \A c \in Conns :
           /\ WF_vars(LookupStep(c) /\ UNCHANGED serverVars)
           /\ SF_vars(Lock(c) /\ UNCHANGED serverVars)
           /\ WF_vars(~peer[c] /\ HandshakeFails(c))
           /\ WF_vars(HandleConnEnds(c))
    /\ \A h \in Chans :
           /\ WF_vars(Dispatch(h))
           /\ WF_vars(~peer[Owner[h]] /\ ForwardEnds(h))
           /\ WF_vars(~peer[Owner[h]] /\ SessionEnds(h))
           /\ WF_vars(~peer[Owner[h]] /\ CopyFails(h))

----------------------------------------------------------------------------
(* Properties *)

(* A connection acts for a device only if a list gave a key of its client    *)
(* that device, and not an old list: one that was written no earlier than    *)
(* the lookup was called, unless the file could not be read as a list or is  *)
(* not reloaded at all.  A device taken off the list cannot connect anew.    *)
DeviceIsTheKeys ==
    \A c \in Conns : phase[c] = "open" =>
        \E k \in Holds[c], v \in 1..Now :
            /\ configs[v] \in Lists
            /\ configs[v][k] = device[c]
            /\ device[c] # NoDevice
            /\ v >= asked[c] \/ kept[c] \/ ~hot

(* Whatever a client was doing when it left, in the handshake, in a lookup,  *)
(* between two channels or during a download, its connection is closed and   *)
(* none of its goroutines is left.                                           *)
GoneIsForgotten ==
    \A c \in Conns :
        ~peer[c] ~> /\ phase[c] = "closed"
                    /\ \A h \in Chans : Owner[h] = c => chan[h] \in Over

(* README.md:592 says that the removal of a device takes effect at once: a   *)
(* device that the file does not list opens no more channels.                *)
RevokedDeviceIsOut ==
    [][\A h \in Chans :
          /\ hot
          /\ chan[h] = "asked"
          /\ chan'[h] \in {"forward", "session"}
          /\ File \in Lists
          => \E k \in Keys : File[k] = device[Owner[h]]]_vars
=============================================================================
