---------------------------- MODULE MCOtaTransfer ---------------------------
(* Small instances of OtaTransfer: two images that fit the slot (one chunk   *)
(* and a half, and two chunks) and one that does not.                        *)
EXTENDS OtaTransfer

CONSTANTS A, B, Huge

MCSize == [i \in Images |-> CASE i = A -> 3 [] i = B -> 4 [] i = Huge -> 5]
=============================================================================
