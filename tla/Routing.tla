------------------------------ MODULE Routing ------------------------------
(***************************************************************************)
(* Which way a connection goes, decided twice: by the device's splitting   *)
(* proxy (src/device.go, viaGateway) and again by the gateway              *)
(* (src/proxy.go, handleConnect).  Both use the one list tunnelHosts, each *)
(* with its own way of matching.                                           *)
(*                                                                         *)
(* A host name is its place in the lists and whether it is spelled in      *)
(* lower case: the forged host, an exact entry of tunnelHosts, a name that *)
(* only the entry *.mcp.claude.com matches, or any other.                  *)
(***************************************************************************)

HostNames == {"forged", "listed", "wildcard", "other"}
Hosts == [name: HostNames, lower: BOOLEAN]

(* The map `via' has the entries themselves as keys, lower case; the name    *)
(* looked up is put in lower case.  The wildcard entry is a key like others. *)
ViaGateway(h) == h.name \in {"forged", "listed"}

(* strings.EqualFold.                                                        *)
IsMITMHost(h) == h.name = "forged"

(* hostMatches folds case for an exact entry, not for the suffix of a        *)
(* wildcard entry.                                                           *)
HostInList(h) ==
    \/ h.name = "listed"
    \/ h.name = "wildcard" /\ h.lower

(* handleConnect lets a host through by one of two treatments.               *)
Permitted(h) == IsMITMHost(h) \/ HostInList(h)
=============================================================================
