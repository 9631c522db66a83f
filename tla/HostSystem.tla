------------------------------ MODULE HostSystem ------------------------------
(* The parts of the host, the shell around it and the incident engine of the   *)
(* standalone build, beside each other.  They share nothing but the registry   *)
(* of names, which the frames and the sources of names fill by operations that *)
(* are atomic; so a step is a step of one part.                                *)
EXTENDS HostIngest, WireStream, RadioJobs, SdrStore, SettingsFile, DesktopShell, ChipIncidents

\* The store with all that writes to it, the sources of names included.
namedVars == <<hostVars, namesVars>>
HostStep == HostNext \/ (NamesNext /\ UNCHANGED hostVars)
HostSpec == HostInit /\ SourcesInit /\ [][HostStep]_namedVars

systemVars == <<namedVars, wireVars, jobVars, sdrVars, settingsVars, shellVars, chipVars>>
SystemInit ==
  /\ HostInit /\ SourcesInit /\ WireInit /\ JobsInit /\ SdrInit
  /\ SettingsInit /\ ShellInit /\ ChipInit
SystemNext ==
  \/ HostStep /\ UNCHANGED <<wireVars, jobVars, sdrVars, settingsVars, shellVars, chipVars>>
  \/ WireNext /\ UNCHANGED <<namedVars, jobVars, sdrVars, settingsVars, shellVars, chipVars>>
  \/ JobsNext /\ UNCHANGED <<namedVars, wireVars, sdrVars, settingsVars, shellVars, chipVars>>
  \/ SdrNext /\ UNCHANGED <<namedVars, wireVars, jobVars, settingsVars, shellVars, chipVars>>
  \/ SettingsNext /\ UNCHANGED <<namedVars, wireVars, jobVars, sdrVars, shellVars, chipVars>>
  \/ ShellNext /\ UNCHANGED <<namedVars, wireVars, jobVars, sdrVars, settingsVars, chipVars>>
  \/ ChipNext /\ UNCHANGED <<namedVars, wireVars, jobVars, sdrVars, settingsVars, shellVars>>
SystemSpec == SystemInit /\ [][SystemNext]_systemVars

-------------------------------------------------------------------------------
\* The state of every part has its type, and what the parts keep stays bounded.
\* (NoForgery is here so that the runs show the checksum of their instance good
\* enough; of the checksums of all instances it is a hypothesis.)
HostTypeOK == /\ StoreTypeOK /\ NamesTypeOK /\ WireTypeOK /\ JobsTypeOK /\ SdrTypeOK
              /\ SettingsTypeOK /\ ShellTypeOK /\ ChipTypeOK /\ NoForgery

\* What is kept in two places agrees: the tables of the store with each other
\* (store/db.go) and with the registry of names (names/registry.go), and the flags
\* of the engine on the chip with what it told (standalone/incidents.c).
TablesAgree == FailuresAgree /\ ExtsAgree /\ SilencesAgree
=============================================================================
