------------------------------ MODULE MCTunnel ------------------------------
(* Model values for the runs of Tunnel. *)
EXTENDS Tunnel

MCForms == {"proxied", "connect", "tls", "plain"}
MCProxied == {"proxied"}
MCHosts ==
    {[name |-> n, lower |-> TRUE] : n \in HostNames} \cup
    {[name |-> "forged", lower |-> FALSE]}
=============================================================================
