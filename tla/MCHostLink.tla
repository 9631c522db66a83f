----------------------------- MODULE MCHostLink -----------------------------
(* Instances of HostLink: one port, or two.                                *)
EXTENDS HostLink

CONSTANTS p1, p2

MCOne == {p1}
MCTwo == {p1, p2}
=============================================================================
