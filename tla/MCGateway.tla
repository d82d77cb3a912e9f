----------------------------- MODULE MCGateway -----------------------------
(* Model values for the run of Handler.                                      *)
EXTENDS Handler, TLC

CONSTANTS r1, r2

MCRequests == {r1, r2}
Set(o, c, r, k) == [oauth |-> o, credentials |-> c, refresh |-> r, keys |-> k]
MCFiles == {Set(FALSE, FALSE, "unset", "good"), Set(FALSE, TRUE, "unset", "good"),
            Set(TRUE, FALSE, "off", "unset"), Set(FALSE, TRUE, "on", "bad")}
MCEnvs == {Set(FALSE, FALSE, "unset", "unset"), Set(TRUE, FALSE, "unset", "good"),
           Set(FALSE, TRUE, "on", "malformed"), Set(FALSE, FALSE, "on", "bad"),
           Set(FALSE, FALSE, "off", "unset")}
MCLayers == MCFiles \cup MCEnvs
Files(n, l, e) == [f \in {"named", "local", "example"} |->
                      CASE f = "named" -> n [] f = "local" -> l [] OTHER -> e]
MCWorlds ==
    [named: BOOLEAN,
     files: {Files(n, l, Set(FALSE, FALSE, "unset", "unset")) :
                 n \in {Missing, Set(FALSE, TRUE, "unset", "good")},
                 l \in MCFiles \cup {Missing, Torn}},
     env: MCEnvs,
     given: {"none", "refreshable"},
     default: CredentialFiles,
     claude: BOOLEAN]

Device(p) == [device |-> TRUE, connect |-> FALSE, absolute |-> FALSE,
              host |-> [name |-> "forged", lower |-> TRUE], path |-> p]
Through(h, p) == [Device(p) EXCEPT !.absolute = TRUE, !.host = h]
MCStatusPath == <<"status">>
MCCAPath == <<"ca">>
MCBlocked == {<<"a", "b">>, <<"b", "*", "a">>}
MCClosedPaths == {<<"a", "", "b">>, <<"b", "..", "a", "b", "a">>, <<"b", "c", "..", "b", "a">>}
MCHosts == {[name |-> "other", lower |-> TRUE]} \cup [name: {"wildcard"}, lower: BOOLEAN]
MCForms ==
    {Device(p) : p \in MCClosedPaths \cup {MCStatusPath, MCCAPath, <<"a", "b", "..">>}}
    \cup {Through([name |-> "forged", lower |-> FALSE], p) : p \in {<<"a", "b">>, <<"b", "..", "a">>}}
    \cup {Through([name |-> "listed", lower |-> TRUE], <<"a", "b">>)}
    \cup {Through(h, <<"b">>) : h \in MCHosts}
    \cup {[Device(<<"b">>) EXCEPT !.device = FALSE], [Device(<<"b">>) EXCEPT !.connect = TRUE]}
MCSymmetry == Permutations(MCRequests)
=============================================================================
