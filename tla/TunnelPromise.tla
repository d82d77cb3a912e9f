---------------------------- MODULE TunnelPromise ----------------------------
(***************************************************************************)
(* What a tunnel promises to its two ends, without the links, buffers and  *)
(* goroutines in between (src/device.go, connect; src/sshfwd.go,           *)
(* serveTunnelConn; src/proxy.go, handleConnect):                           *)
(*                                                                         *)
(*   - the server that a call is meant for is the only one that is         *)
(*     reached, and not before the whole CONNECT has been said;            *)
(*   - the server gets what the client has said after it, in order,        *)
(*     nothing twice and nothing that was not said;                        *)
(*   - a call that is told to have failed or to be refused has not reached *)
(*     a server and never will;                                            *)
(*   - the client gets one answer to its CONNECT, and the server's reply   *)
(*     after it and after the reply was given.                             *)
(***************************************************************************)
EXTENDS Integers, Sequences

VARIABLES
    call,       \* [head: the CONNECT or nothing, request: what follows it,
                \*  meant: the server the call is meant for, refused]
    said,       \* how much of it the client has said
    server,     \* the server that was reached
    got,        \* what the server has read
    replied,    \* the server has replied
    heard       \* what the client has been answered

vars == <<call, said, server, got, replied, heard>>

Whole == call.head \o call.request
Asks == call.head # <<>>
Asked == said >= Len(call.head)
Skips == IF server = "http" THEN 0 ELSE Len(call.head)

Init ==
    /\ said = 0
    /\ server = "none"
    /\ got = <<>>
    /\ ~replied
    /\ heard = <<>>

Say ==
    /\ said < Len(Whole)
    /\ said' = said + 1
    /\ UNCHANGED <<call, server, got, replied, heard>>

(* A CONNECT that breaks off is left to the plain HTTP server.               *)
Reach ==
    /\ server = "none"
    /\ heard \in {<<>>, <<"200">>}
    /\ \/ Asked /\ ~call.refused /\ server' = call.meant
       \/ Asks /\ heard = <<>> /\ server' = "http"
    /\ UNCHANGED <<call, said, got, replied, heard>>

Deliver ==
    /\ server # "none"
    /\ Skips + Len(got) < said
    /\ got' = Append(got, Whole[Skips + Len(got) + 1])
    /\ UNCHANGED <<call, said, server, replied, heard>>

(* An HTTP server has read the whole request, a target need not.             *)
Reply ==
    /\ server = "target" \/ (server # "none" /\ got = call.request)
    /\ ~replied
    /\ replied' = TRUE
    /\ UNCHANGED <<call, said, server, got, heard>>

Established ==
    /\ heard = <<>>
    /\ Asks /\ Asked /\ ~call.refused
    /\ server # "http"
    /\ heard' = <<"200">>
    /\ UNCHANGED <<call, said, server, got, replied>>

Refused ==
    /\ heard = <<>>
    /\ Asks /\ Asked /\ call.refused
    /\ server = "none"
    /\ heard' = <<"403">>
    /\ UNCHANGED <<call, said, server, got, replied>>

Failed ==
    /\ heard = <<>>
    /\ Asks /\ Asked
    /\ server = "none"
    /\ heard' = <<"502">>
    /\ UNCHANGED <<call, said, server, got, replied>>

Hear ==
    /\ replied
    /\ heard = IF Asks THEN <<"200">> ELSE <<>>
    /\ heard' = Append(heard, "reply")
    /\ UNCHANGED <<call, said, server, got, replied>>

Next == Say \/ Reach \/ Deliver \/ Reply \/ Established \/ Refused \/ Failed \/ Hear

Spec == Init /\ [][Next]_vars
=============================================================================
