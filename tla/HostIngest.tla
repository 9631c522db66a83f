------------------------------ MODULE HostIngest ------------------------------
(* The host's loop over what the radios report (main.go, ingest), the incident *)
(* detector and the scheduler beside it, the requests that change the store,   *)
(* restarts and purges.  Store and registry have a lock each; an operation on  *)
(* one of them is atomic.  A wipe is an operation on each, and a step of its   *)
(* handler each, with frames between them; one wipe is under way at a time.    *)
(* The operations of a frame are one step: what is half done nobody reads, and *)
(* a wipe of the store or of the names that falls among them leaves what it    *)
(* leaves right before or after the frame, but for rows that tell of a route   *)
(* failure or a rejoin and for what the names have of a second address.        *)
(*                                                                             *)
(* A frame is what decode makes of it but for the time: the MAC header         *)
(* (mac.cmd: MAC command), the NWK header (nwk.cmd: NWK command; nwk.failed:   *)
(* reason of a route failure, "" for none), the addresses of a Device_annce    *)
(* (announce), and whether it is a Thread frame.                               *)
EXTENDS DeviceFindings, NameSources

CONSTANTS
  Frames,    \* frames that may be captured
  Pauses,    \* seconds that may pass
  StartTime,
  Past,      \* frames captured before, one a second
  Silences,  \* silence thresholds that may be configured
  Backup,    \* entries of the ZHA backup
  Pans,      \* PANs that may be designated as ours
  MaxOps     \* bound: operations

Frame ==
  [mac : [src : Int, dst : Int, span : Int, dpan : Int, cmd : Nat],
   nwk : [src : Int, dst : Int, srcExt : Nat, dstExt : Nat, cmd : Nat,
          failed : STRING, dest : Int, decrypted : BOOLEAN],
   announce : Int \X Nat, ch : Nat, rssi : Int, lqi : Nat, thread : BOOLEAN]

ASSUME HostAssumption ==
  /\ Frames \subseteq Frame /\ Past \in Seq(Frame)
  /\ Pauses \subseteq Nat /\ Silences \subseteq Nat /\ Pans \subseteq Nat
  /\ StartTime \in Nat \ {0} /\ MaxOps \in Nat
  /\ Backup \subseteq [nwk : Nat, ext : Nat, tail : STRING]

VARIABLES
  db, clock,
  watch,   \* addresses the operator watches
  silence, \* configured silence threshold; 0: the default
  ours,    \* runtime PAN; 0: not known
  alarm,   \* the watched address of the last frame
  wiping,  \* what a handler has still to clear: "names", with the settings
           \* "all", or "settings"; or "no": none is at it
  torn,    \* history: addresses stored with their devices when the names went
  ops      \* operations so far
hostVars == <<db, clock, watch, silence, ours, alarm, wiping, torn, ops>>
wipeVars == <<wiping, torn>>
settingVars == <<silence, ours, wipeVars>>

-------------------------------------------------------------------------------
JoinRelated(f) == \/ f.mac.cmd \in {1, 2, 3, 6, 8}   \* association .. realignment
                  \/ f.nwk.cmd \in {6, 7}             \* rejoin request, response
                  \/ f.announce[2] # 0

\* ingest, case CapturedFrame.
Ingest(host, f) ==
  LET learned == LearnAll([host EXCEPT !.db = IngestFrame(@, f)], f)
      pan == SeenPan(f.mac)
      labelled == IF pan = Absent THEN learned.db ELSE LabelPan(learned.db, pan, Label(f))
      target == IF f.nwk.dest = Absent THEN f.nwk.dst ELSE f.nwk.dest
      failed == IF f.nwk.failed = "" THEN labelled
                ELSE IngestRouteFailure(labelled, target, f.nwk.src, f.nwk.failed, f.ts)
      rejoin == [ts |-> f.ts, addr |-> Hex(f.mac.src), reason |-> "rejoin",
                 silent |-> 0, ch |-> f.ch, ed |-> 0]
  IN [reg |-> learned.reg,
      db |-> IF f.mac.src # Absent /\ JoinRelated(f) THEN IngestIncident(failed, rejoin) ELSE failed]

\* The watch event of a frame: its source before its destination.
Alarm(f) == IF Hex(f.mac.src) \in watch /\ f.mac.src # Absent THEN Hex(f.mac.src)
            ELSE IF Hex(f.mac.dst) \in watch /\ f.mac.dst # Absent THEN Hex(f.mac.dst) ELSE Absent

\* A variant of Seed: the backup is read last.
SeedBackupLast(d) ==
  LoadZHABackup([NoNames EXCEPT !.extOf = DeviceExts(d)], Backup)
\* main(): names of the backup, then the addresses learned in earlier runs.
Seed(d) == [LoadZHABackup(NoNames, Backup) EXCEPT !.extOf = Overlay(DeviceExts(d), @)]

\* The store is new; ops counts up to 0 with the frames of Past.
HostInit ==
  /\ db = Empty /\ reg = Seed(db)
  /\ clock = StartTime /\ watch = {} /\ alarm = Absent /\ ops = -Len(Past)
  /\ silence = 0 /\ ours \in Pans \cup {0}
  /\ wiping = "no" /\ torn = {}

\* The captured frame f, as it comes out of decode.
Ingested(f) == LET h == Ingest([db |-> db, reg |-> reg], f) IN db' = h.db /\ reg' = h.reg
Earlier ==
  /\ ops < 0 /\ ops' = ops + 1 /\ clock' = clock + 1
  /\ Ingested(Put(Past[Len(Past) + ops'], "ts", clock'))
  /\ UNCHANGED <<sourceVars, watch, settingVars, alarm>>

Op == ops \in 0..(MaxOps - 1) /\ ops' = ops + 1
Store(d) == Op /\ db' = d /\ UNCHANGED <<namesVars, clock, watch, settingVars, alarm>>

Capture(f) ==
  /\ Op
  /\ Ingested(Put(f, "ts", clock))
  /\ alarm' = Alarm(f)
  /\ UNCHANGED <<sourceVars, clock, watch, settingVars>>
EdSample(ch, ed) == Store(IngestED(db, clock, ch, ed))
ProbeAnswer(target, acked) == Store(IngestProbe(db, clock, target, acked))
HALog(key, level, about) == Store(IngestHALog(db, key, clock, level, about, 1))

Pass(d) == Op /\ clock' = clock + d /\ UNCHANGED <<db, namesVars, watch, settingVars, alarm>>
Detect == Store(DetectIncidents(db, silence, clock))

\* Data only, or with them the settings, but not the PAN: the handler empties the
\* store, then the registry, then saves the settings.
Wipe(rest) ==
  /\ Op /\ wiping = "no" /\ wiping' = rest /\ db' = Reset(db)
  /\ UNCHANGED <<namesVars, clock, watch, silence, ours, alarm, torn>>
Purge == Wipe("names")
FactoryReset == Wipe("all")
WipeNames ==
  /\ wiping \in {"names", "all"}
  /\ wiping' = IF wiping = "all" THEN "settings" ELSE "no"
  /\ reg' = NoNames /\ torn' = DOMAIN DeviceExts(db)
  /\ UNCHANGED <<db, sourceVars, clock, watch, silence, ours, alarm, ops>>
WipeSettings ==
  /\ wiping = "settings" /\ wiping' = "no" /\ silence' = 0
  /\ UNCHANGED <<db, namesVars, clock, watch, ours, alarm, torn, ops>>
Configure(n) ==
  /\ Op /\ n >= 10 /\ silence' = n
  /\ UNCHANGED <<db, namesVars, clock, watch, ours, alarm, wipeVars>>
SetHomeNetwork(pan) ==
  /\ Op /\ pan # 0 /\ ours' = pan
  /\ UNCHANGED <<db, namesVars, clock, watch, silence, alarm, wipeVars>>
\* A wipe that was under way ends there; the names are read from the store again.
Restart ==
  /\ Op
  /\ db' = Open(db) /\ reg' = Seed(db')
  /\ watch' = {} /\ alarm' = Absent /\ SourcesRestart
  /\ wiping' = "no" /\ torn' = {}
  /\ UNCHANGED <<clock, silence, ours>>

Watch(a, on) == /\ Op /\ watch' = IF on THEN watch \cup {a} ELSE watch \ {a}
                /\ UNCHANGED <<db, namesVars, clock, settingVars, alarm>>

\* Shorter intervals than 5 s become 60 s.
Schedule(target, interval) ==
  Store(AddSchedule(db, 1 + Max({s.id : s \in Range(db.schedules)} \cup {0}), target,
                    IF interval < 5 THEN 60 ELSE interval))
Unschedule(id) == Store(DeleteSchedule(db, id))
Toggle(id, on) == Store(SetScheduleEnabled(db, id, on))
\* A tick of the scheduler: a probe that could be sent is marked as run, and
\* its answer, which comes later, never as acknowledged.
RunSchedules(sent) ==
  LET due == {s.id : s \in {t \in Range(db.schedules) :
                            t.enabled /\ t.interval > 0 /\ clock - t.last >= t.interval}}
  IN Store(IF sent THEN MarkScheduleRun(db, due, clock, FALSE) ELSE db)

Upkeep == Purge \/ FactoryReset \/ WipeNames \/ WipeSettings \/ Restart
Reports == \/ \E ch \in {11, 15}, ed \in {-90, -70} : EdSample(ch, ed)
           \/ \E acked \in BOOLEAN : ProbeAnswer(1, acked)
           \/ \E level \in {"ERROR", "INFO"} : HALog("zha", level, 1)
Requests == \/ \E n \in Silences : Configure(n)
            \/ \E pan \in Pans : SetHomeNetwork(pan)
            \/ \E on \in BOOLEAN : Watch(1, on)
            \/ \E n \in {1, 600} : Schedule(1, n)
            \/ Unschedule(1)
            \/ \E on \in BOOLEAN : Toggle(1, on) \/ RunSchedules(on)
HostNext == \/ Earlier
            \/ \E f \in Frames : Capture(f)
            \/ \E d \in Pauses : Pass(d)
            \/ Detect \/ Upkeep \/ Reports \/ Requests

-------------------------------------------------------------------------------
\* Every answer of the API is well formed and bounded, whatever the tables hold:
\* lists, networks and channels, what is said of a device, and the probes.
ListsOK ==
  /\ LatestEdges(db) \subseteq DOMAIN db.links
  /\ Cardinality(Routing(db).nodes) = Cardinality(DOMAIN db.devices)
  /\ Len(Incidents(db, 2)) <= 2 /\ Len(Packets(db, 2)) <= 2 /\ Len(Spectrum(db)) <= 2000
  /\ \A f \in Diagnostics(db, ours, clock) : f.sev \in Critical..Info
NetworksOK == \A ch \in {0, 15} :
  /\ MonitorChannel(db, ours, ch, 0) \in {0} \cup 11..26
  /\ Has(db.pans, ours) => NetworkLabel(db, ours, ch, ours) = db.pans[ours].label
  /\ \A pan \in DOMAIN Airtime(db, 3600, clock).pans :
       AirtimeLabel(db, ours, ch, clock, pan) # Airtime(db, 3600, clock).pans[pan].label
       => ch # 0 /\ pan # ours
DevicesOK == \A a \in DOMAIN db.devices \cap 0..65535 :
  /\ DeviceAnalysis(db, a) # {}
  /\ a = 0 => ~Enrich(db, reg, ours, a).foreign
  /\ \A p \in Traceroute(db, reg, a) : p[1] = 0 /\ p[Len(p)] = a
ProbesOK ==
  \A a \in DOMAIN ProbeSummary(db) : ProbeSummary(db)[a].acks <= ProbeSummary(db)[a].total
AnswersOK == ListsOK /\ NetworksOK /\ DevicesOK /\ ProbesOK

\* Between prunes the ED samples outgrow their cap by less than the writes of a
\* round (packets and the failure log may do so by as much again at every
\* restart: Open does not cut them); each minute's histogram counts its frames;
\* and no two schedules have one id.
TablesTypeOK ==
  /\ Len(db.ed) < EdCap + BigEvery
  /\ \A k \in DOMAIN db.minutes : LET m == db.minutes[k]
       IN m.frames = MapThenSumSet(LAMBDA b : m.hist[b], 0..7)
  /\ \A i, j \in DOMAIN db.schedules : i # j => db.schedules[i].id # db.schedules[j].id
StoreTypeOK == TablesTypeOK /\ AnswersOK

LastWord(d, a) == IF Words(d, a) = {} THEN "none" ELSE d.incidents[Max(Words(d, a))].reason
Alone(d, a) == \A b, c \in DOMAIN d.devices : Hex(b) = a /\ Hex(c) = a => b = c
InTurn(d) ==
  \A i, j \in DOMAIN d.incidents : LET a == d.incidents[i].addr IN
    /\ i < j /\ i \in Words(d, a) /\ j \in Words(d, a) /\ Alone(d, a)
    /\ d.incidents[i].reason = d.incidents[j].reason
    => \E k \in Words(d, a) : i < k /\ k < j

\* When every device is silent it is the sniffer that is deaf, and a round of the
\* detector finds no dropout.  Otherwise it leaves every device it judges with a
\* last word that is "silence" exactly while the device is silent, and none is
\* logged silent twice without a recovery in between (DetectIncidents: "never
\* double-fires"), whatever was pruned before.  Two devices whose addresses
\* print alike are told apart by nobody: excepted.
DownIsSilent == [][
  Detect =>
    LET heard == {db.devices[a].last : a \in DOMAIN db.devices}
    IN IF \E t \in heard : clock - t < Threshold(silence)
       THEN /\ InTurn(db')
            /\ \A a \in DOMAIN db.devices :
                 Alone(db, Hex(a)) /\ db.devices[a].count >= MinFrames =>
                   (LastWord(db', Hex(a)) = "silence")
                     <=> (clock - db.devices[a].last >= Threshold(silence))
       ELSE db'.incidents = db.incidents]_hostVars

\* What the tables say of route failures agrees, through prunes, purges and
\* restarts (IngestRouteFailure and routeFailureClusterFindings in store/db.go): a
\* target's failures are the sum over its reasons, and a burst of failures is
\* whole, no event within Gap of another being counted apart from it.
FailuresAgree ==
  LET flat == FlattenSeq(Clusters(db))
      cs == Clusters(db)
  IN /\ \A t \in DOMAIN db.rfTotal : db.rfTotal[t].count =
            MapThenSumSet(LAMBDA k : db.rfReason[k].count, {k \in DOMAIN db.rfReason : k[1] = t})
     /\ flat = Failures(db)
     /\ \A i, j \in DOMAIN cs : i < j => cs[j][1].ts - cs[i][Len(cs[i])].ts > Gap

\* An address of its own that is stored with a device is the one the registry
\* goes by, whatever is learned, loaded from a backup, purged or started anew
\* (learnExt in main.go, SetShortExt in registry.go).  Of an address stored by a
\* frame between the two halves of a wipe the registry may know nothing, until
\* the next frame that carries it or the next start, but it never knows another.
ExtsAgree == \A a \in DOMAIN DeviceExts(db) :
  \/ ExtOf(reg, a) = db.devices[a].ext
  \/ a \in torn /\ ~Has(reg.extOf, a)
===============================================================================
