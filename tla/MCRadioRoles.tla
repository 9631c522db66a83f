---------------------------- MODULE MCRadioRoles ----------------------------
(* Instances of RadioRoles: a primary and one satellite.                   *)
EXTENDS RadioRoles

CONSTANTS q1

MCRadios    == {0, 1}
MCPrimary   == {0}
MCSatellite == {1}
MCNobody    == {}
MCOne       == {q1}
MCSome      == {"sniffer", "spectrum"}
MCMany      == {"spectrum", "hopper", "idle"}
=============================================================================
