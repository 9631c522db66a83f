---------------------------- MODULE MCOtaSession ----------------------------
(* Instances of OtaSession: a primary and one or two satellites.           *)
EXTENDS OtaSession

CONSTANTS u1, u2

MCRadios == {0, 1}
MCThree  == {0, 1, 2}
MCOne    == {u1}
MCTwo    == {u1, u2}
MCCapture == {"sniffer"}
MCBoth    == {"sniffer", "spectrum"}
=============================================================================
