---------------------------- MODULE MCSSHServer ----------------------------
(* Model values for the runs of SSHServer: two connections, of a client that *)
(* holds both keys and of one that holds the second, and two lists, the      *)
(* second without the first device.  Both clients give the other's name.     *)
EXTENDS SSHServer, TLC

CONSTANTS laptop, phone, k1, k2, d1, d2, ch1, ch2, target

MCConns == {laptop, phone}
MCKeys == {k1, k2}
MCDevices == {d1, d2}
MCHolds == laptop :> {k1, k2} @@ phone :> {k2}
MCClaims == laptop :> d2 @@ phone :> d1
MCLists == {k1 :> d1 @@ k2 :> d2, k1 :> NoDevice @@ k2 :> d2}
MCPermit == {[network |-> "tcp", addr |-> target]}
MCAsks == [type: {"direct-tcpip", "direct-streamlocal"}, target: {target}]
          \cup {[type |-> "session", target |-> target]}
MCChans == {ch1, ch2}
MCOwner == ch1 :> laptop @@ ch2 :> phone
=============================================================================
