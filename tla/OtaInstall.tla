----------------------------- MODULE OtaInstall -----------------------------
(***************************************************************************)
(* What a firmware update promises, without messages, slots or chunks: the *)
(* device boots a complete image, and the only image that can replace it   *)
(* is the one requested last.                                              *)
(***************************************************************************)
CONSTANTS Images, NoImage

VARIABLES requested, booted

Init == requested = NoImage /\ booted \in Images

\* An operator uploads image i; the request stays open until the next one.
Request(i) == requested' = i /\ UNCHANGED booted

\* The device switches to the image requested last.
Switch == requested # NoImage /\ booted' = requested /\ UNCHANGED requested

Next == Switch \/ \E i \in Images : Request(i)

Spec == Init /\ [][Next]_<<requested, booted>>
=============================================================================
