-------------------------------- MODULE MCHost --------------------------------
(* The system on small instances.  One part moves at a time, the one a scene   *)
(* names: the parts have nothing to interleave (HostSystem).                   *)
EXTENDS HostSystem

VARIABLE scene   \* which part moves
Scenes == {"detect", "mesh", "tables", "names", "wire", "jobs", "sdr",
           "settings", "shell", "chip"}
vars == <<scene, systemVars>>

-------------------------------------------------------------------------------
(* Frames: of devices 1 and 2 to the coordinator, on the home network.         *)
OurPan == 100   TheirPan == 200
Ext1 == 70001  Ext2 == 70002  Ext9 == 90001

Data(s, d) ==
  [mac |-> [src |-> s, dst |-> d, span |-> OurPan, dpan |-> OurPan, cmd |-> 0],
   nwk |-> [src |-> s, dst |-> d, srcExt |-> 0, dstExt |-> 0, cmd |-> 0,
            failed |-> "", dest |-> Absent, decrypted |-> TRUE],
   announce |-> <<Absent, 0>>, ch |-> 11, rssi |-> -70, lqi |-> 100, thread |-> FALSE]
Rejoin(s) == [Data(s, 0) EXCEPT !.nwk.cmd = 6]
RouteError(s, target, why) ==
  [Data(s, 0) EXCEPT !.nwk.cmd = 3, !.nwk.failed = why, !.nwk.dest = target]
Announce(s, ext) == [Data(s, Broadcast) EXCEPT !.announce = <<s, ext>>]
Stray == [Data(Ext9, Broadcast) EXCEPT !.mac.span = TheirPan, !.mac.dpan = Broadcast,
            !.mac.cmd = 1, !.nwk.src = Absent, !.nwk.dst = Absent, !.ch = 15, !.rssi = -115]
Relayed == [Data(2, 0) EXCEPT !.mac.src = 1]

MCPast == <<Data(0, 1), Data(1, 0), Data(1, 0), Data(2, 1), Data(2, 0)>>
MCQuiet == {Data(1, 0), Data(2, 0), Rejoin(1)}
MCErrors == {RouteError(0, 1, "No route"), RouteError(2, 1, "Address conflict"),
             Announce(1, Ext2), Announce(7, Ext1), Stray}
MCFrames == MCQuiet \cup MCErrors \cup {Relayed}
MCPauses == {60, 200}
MCBackup == {[nwk |-> 1, ext |-> Ext1, tail |-> "01"]}
MCVendors == 90 :> "hue"

MCAnswers ==
  LET d(name, t) == [nwk |-> 1, ext |-> Ext1, name |-> name, lqi |-> 80, type |-> "Router",
                     available |-> TRUE, nbrs |-> {<<0, "Parent">>}]
  IN [t \in {"ha1", "ha2", "b1"} |->
        [first |-> {[ext |-> Ext1, name |-> t] @@ d(t, t)},
         second |-> {[ext |-> Ext1, area |-> "hall", name |-> t]}]]

-------------------------------------------------------------------------------
MCHeaderLen == (1 :> 2) @@ (3 :> 1) @@ (9 :> 2)
MCTraffic == {<<3, <<7>>>>, <<1, <<0, 2, 7, 8>>>>, <<9, <<1, 1, 7, 8>>>>, <<1, <<0, 3, 1>>>>}
MCBackup0 == [key |-> "key1", channel |-> 20, pan |-> 200]
MCPlan == (0 :> <<4, 8, 12>>) @@ (1 :> <<4>>)

-------------------------------------------------------------------------------
Init ==
  /\ scene \in Scenes /\ SystemInit
  /\ scene # "tables" => ours = 0
  /\ cfg.channel = Home

DetectScene == \/ \E f \in MCQuiet : Capture(f)
               \/ Pass(60) \/ Detect \/ Configure(60) \/ Restart
\* These two have more to choose from and take fewer steps.
MeshScene == /\ ops < 5
             /\ \/ \E f \in MCErrors : Capture(f)
                \/ Pass(200) \/ Upkeep
TablesScene == ops < 4 /\ (Reports \/ Requests \/ Pass(60) \/ Capture(Relayed))

StoreScene == \/ scene \in {"detect", "mesh", "tables"} /\ Earlier
              \/ scene = "detect" /\ DetectScene
              \/ scene = "mesh" /\ MeshScene
              \/ scene = "tables" /\ TablesScene
\* Two calls at a time, one of them a job: requests alone disturb no job.
JobsScene == JobsNext /\ (Len(calls') = 2 => calls'[1].job \/ calls'[2].job)
HostScenes ==
  \/ StoreScene /\ UNCHANGED <<wireVars, jobVars, sdrVars>>
  \/ scene = "names" /\ NamesNext /\ UNCHANGED <<hostVars, wireVars, jobVars, sdrVars>>
  \/ scene = "wire" /\ WireNext /\ UNCHANGED <<namedVars, jobVars, sdrVars>>
  \/ scene = "jobs" /\ JobsScene /\ UNCHANGED <<namedVars, wireVars, sdrVars>>
  \/ scene = "sdr" /\ SdrNext /\ UNCHANGED <<namedVars, wireVars, jobVars>>
OtherScenes ==
  \/ scene = "settings" /\ SettingsNext /\ UNCHANGED <<shellVars, chipVars>>
  \/ scene = "shell" /\ ShellNext /\ UNCHANGED <<settingsVars, chipVars>>
  \/ scene = "chip" /\ ChipNext /\ UNCHANGED <<settingsVars, shellVars>>
Next ==
  /\ UNCHANGED scene
  /\ \/ HostScenes /\ UNCHANGED <<settingsVars, shellVars, chipVars>>
     \/ OtherScenes /\ UNCHANGED <<namedVars, wireVars, jobVars, sdrVars>>

Spec == Init /\ [][Next]_vars /\ NamesFairness
=============================================================================
