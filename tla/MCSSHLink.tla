----------------------------- MODULE MCSSHLink -----------------------------
(* Model values for the runs of SSHLink. *)
EXTENDS SSHLink, TLC

CONSTANTS request1, request2

MCRequests == {request1, request2}
MCOneRequest == {request1}
MCSymmetry == Permutations(MCRequests)
=============================================================================
