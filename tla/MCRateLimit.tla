----------------------------- MODULE MCRateLimit -----------------------------
(***************************************************************************)
(* RateLimit as requestMagicLink charges it: the sign-in form charges the   *)
(* address and the IP it came from, the endpoint behind it the address      *)
(* alone.  Windows and numbers are scaled down; a second is two ticks, so   *)
(* that a wait is really rounded.                                           *)
(***************************************************************************)
EXTENDS RateLimit, TLC

CONSTANTS address, ip

MCCounters == {address, ip}
MCMaxOf == [c \in MCCounters |-> IF c = address THEN 2 ELSE 1]
MCWindowOf == [c \in MCCounters |-> IF c = address THEN 2 ELSE 1]
MCCharges == {<<address, ip>>, <<address>>}

Symmetry == Permutations(Requests)

=============================================================================
