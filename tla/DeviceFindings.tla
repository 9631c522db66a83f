---------------------------- MODULE DeviceFindings ----------------------------
(* The rules of store/db.go that turn the tables into findings: Diagnostics    *)
(* for the mesh, DeviceAnalysis for one device.  A finding is a severity, a    *)
(* category, the device it is about (Absent: nobody) and the time it is dated    *)
(* (0: undated); its wording is left out, and with it what only the wording    *)
(* shows.                                                                      *)
EXTENDS DeviceStore

Critical == 0   Error == 1   Warning == 2   Notice == 3   Info == 4

Finding(sev, cat, a, ts) == [sev |-> sev, cat |-> cat, addr |-> a, ts |-> ts]
When(cond, finding) == IF cond THEN {finding} ELSE {}
Rank(n, critical, error, warning) ==
  IF n >= critical THEN Critical ELSE IF n >= error THEN Error
  ELSE IF n >= warning THEN Warning ELSE Notice

-------------------------------------------------------------------------------
(* Route failures are clustered by time: a new cluster starts where the gap to *)
(* the event before is larger than Gap.                                        *)
Gap == 300

\* Failures but the conflicts, oldest first; those of one time as they were logged.
Failures(db) ==
  LET rows == db.rfLog
      Before(i, j) == rows[i].ts < rows[j].ts \/ (rows[i].ts = rows[j].ts /\ i < j)
      order == InOrder({i \in DOMAIN rows : rows[i].reason # "Address conflict"}, Before)
  IN [k \in DOMAIN order |-> rows[order[k]]]
Starts(ev, gap) == {i \in DOMAIN ev : i = 1 \/ ev[i].ts - ev[i - 1].ts > gap}
Runs(ev, gap) ==
  LET s == InOrder(Starts(ev, gap), <)
  IN [k \in DOMAIN s |-> SubSeq(ev, s[k], IF k = Len(s) THEN Len(ev) ELSE s[k + 1] - 1)]
\* A variant of Clusters: the gap is measured to the first event of the cluster.
ClustersFromFirst(db) ==
  LET ev == Failures(db)
      step(cs, e) == IF cs = <<>> \/ e.ts - cs[Len(cs)][1].ts > Gap THEN Append(cs, <<e>>)
                     ELSE [cs EXCEPT ![Len(cs)] = Append(@, e)]
  IN FoldLeft(step, <<>>, ev)
Clusters(db) == Runs(Failures(db), Gap)

ClusterFinding(c) ==
  LET targets == {e.target : e \in Range(c)}
      reporters == {e.reporter : e \in Range(c)} \ {0}
      sev == Rank(Len(c), 20, 8, 3)
      ts == c[Len(c)].ts
  IN CASE Cardinality(reporters) = 1 /\ Cardinality(targets) >= 3 ->
            Finding(sev, "Router health", CHOOSE r \in reporters : TRUE, ts)
       [] Cardinality(targets) = 1 ->
            Finding(sev, "Route failure", CHOOSE t \in targets : TRUE, ts)
       [] OTHER -> Finding(sev, "Mesh event", Absent, ts)

\* The ten largest clusters of two events or more.
ClusterFindings(db) ==
  LET cs == Clusters(db)
      large == {k \in DOMAIN cs : Len(cs[k]) >= 2}
  IN {ClusterFinding(cs[k]) : k \in Top(large, 10, LAMBDA x, y : Len(cs[x]) > Len(cs[y]))}

-------------------------------------------------------------------------------
Conflicts(db) ==
  {Finding(Critical, "Address conflict", k[1], db.rfReason[k].last) :
     k \in Top({k \in DOMAIN db.rfReason : k[2] = "Address conflict"}, 15,
               LAMBDA x, y : db.rfReason[x].count > db.rfReason[y].count)}

\* With no PAN of ours known (0), the busiest is taken for ours.
ForeignNetworks(db, ours) ==
  LET order == Networks(db)
      mine(i) == (ours > 0 /\ order[i] = ours) \/ (ours = 0 /\ i = 1)
  IN {Finding(Notice, "Foreign network", Absent, db.pans[order[i]].last) :
        i \in {j \in DOMAIN order : ~mine(j) /\ db.pans[order[j]].count >= 3}}

Vantage(db) ==
  LET weak == {p \in DOMAIN db.links : db.links[p].lqi < 50 /\ db.links[p].count >= 2}
      far == {a \in DOMAIN db.devices : db.devices[a].rssi < -85 /\ db.devices[a].count >= 2}
  IN {Finding(Info, "Weak link", p[1], db.links[p].last) :
        p \in Top(weak, 30, LAMBDA x, y : db.links[x].lqi < db.links[y].lqi)}
     \cup {Finding(Info, "Far from sniffer", a, db.devices[a].last) :
        a \in Top(far, 30, LAMBDA x, y : db.devices[x].rssi < db.devices[y].rssi)}

ChannelNoise(db) == {Finding(Warning, "Channel noise", Absent, LastWhere(db.ed, LAMBDA r : r.ch = c).ts) :
                c \in {x \in DOMAIN EdNow(db) : EdNow(db)[x] > -75}}

\* Devices silent for half an hour; three or more whose last frames lie within
\* ten minutes of each other share one finding.
SilentTogether == 600
SilentRuns(db, now) ==
  LET chatty == Top({a \in DOMAIN db.devices : db.devices[a].count >= 5 /\ a # 0}, 40,
                    LAMBDA x, y : db.devices[x].last < db.devices[y].last)
      silent == {[addr |-> a, ts |-> db.devices[a].last] :
                   a \in {x \in chatty : now - db.devices[x].last >= 1800}}
      Before(x, y) == x.ts < y.ts \/ (x.ts = y.ts /\ x.addr < y.addr)
  IN Runs(InOrder(silent, Before), SilentTogether)
SilentFinding(run, now) ==
  LET sev(t) == IF now - t > 7200 THEN Warning ELSE Notice
  IN IF Len(run) >= 3 THEN {Finding(sev(run[1].ts), "Silent device", Absent, run[Len(run)].ts)}
     ELSE {Finding(sev(r.ts), "Silent device", r.addr, r.ts) : r \in Range(run)}

Rejoiners(db, now) ==
  LET of(a) == SelectSeq(db.incidents, LAMBDA i :
                 i.reason = "rejoin" /\ i.addr = a /\ i.ts > now - 86400)
      again == {a \in {i.addr : i \in Range(db.incidents)} : Len(of(a)) >= 2}
  IN {Finding(IF Len(of(a)) >= 5 THEN Warning ELSE Notice, "Rejoin", a,
              Max({i.ts : i \in Range(of(a))})) :
        a \in Top(again, 20, LAMBDA x, y : Len(of(x)) > Len(of(y)))}

Coordinator(db, now) ==
  IF ~Has(db.devices, 0) THEN {Finding(Warning, "Coordinator", 0, 0)}
  ELSE When(now - db.devices[0].last > 300,
            Finding(Warning, "Coordinator", 0, db.devices[0].last))
Decryption(db) == When(Len(db.packets) > 200 /\ \A p \in Range(db.packets) : ~p.decrypted,
                       Finding(Info, "Decryption", Absent, 0))
FromHA(db) ==
  {Finding(IF db.haLog[k].level = "ERROR" THEN Error ELSE Warning, "HA/zigpy log",
           db.haLog[k].about, db.haLog[k].ts) :
     k \in Top({k \in DOMAIN db.haLog : db.haLog[k].level \in {"ERROR", "WARNING"}}, 20,
               LAMBDA x, y : db.haLog[x].ts > db.haLog[y].ts)}

\* Events fade with age, conditions do not.
Fading == {"Address conflict", "Router health", "Route failure", "Mesh event",
           "Rejoin", "Channel noise", "Foreign network", "HA/zigpy log"}
Steps(age) == IF age > 24 * 3600 THEN 3 ELSE IF age > 6 * 3600 THEN 2
              ELSE IF age > 3600 THEN 1 ELSE 0
DecayByAge(f, now) ==
  IF f.ts <= 0 \/ f.cat \notin Fading THEN f
  ELSE [f EXCEPT !.sev = Min({@ + Steps(now - f.ts), Info})]

Diagnostics(db, ours, now) ==
  LET raw == Conflicts(db) \cup ClusterFindings(db) \cup ForeignNetworks(db, ours) \cup Vantage(db)
        \cup ChannelNoise(db) \cup Rejoiners(db, now) \cup Coordinator(db, now)
        \cup Decryption(db) \cup FromHA(db)
        \cup UNION {SilentFinding(r, now) : r \in Range(SilentRuns(db, now))}
  IN IF raw = {} THEN {Finding(Info, "All clear", Absent, 0)} ELSE {DecayByAge(f, now) : f \in raw}

-------------------------------------------------------------------------------
(* One device.                                                                 *)

Div(n, d) == IF n < 0 THEN -((-n) \div d) ELSE n \div d     \* Go's division truncates
Average(ss) == Div(MapThenSumSet(LAMBDA i : ss[i], DOMAIN ss), Len(ss))
Told(db, a, reason) == SelectSeq(db.incidents, LAMBDA i : i.addr = Hex(a) /\ i.reason = reason)

\* How many rejoins a probe came before, within three minutes.
Nudged(db, a) == SelectSeq(Told(db, a, "rejoin"), LAMBDA i :
  \E p \in Range(db.probes) : p.target = a /\ p.ts <= i.ts /\ i.ts - p.ts <= 180)

Rejoined(db, a) ==
  LET n == Len(Told(db, a, "rejoin"))
      m == Len(Nudged(db, a))
  IN When(n > 0, <<IF n >= 3 THEN Warning ELSE Notice, "Rejoin">>)
     \cup When(m > 0, <<IF (100 * m) \div n >= 50 THEN Warning ELSE Notice, "Probe correlation">>)

\* The second half of the dropouts against the first, in seconds of silence.
DropoutTrend(silent) ==
  LET half == Len(silent) \div 2
      early == Average(SubSeq(silent, 1, half))
      late == Average(SubSeq(silent, half + 1, Len(silent)))
  IN IF Len(silent) < 4 THEN {}
     ELSE IF late > early + 10 /\ 10 * late > 13 * early THEN {<<Warning, "Trend">>}
     ELSE When(early > 10 /\ 10 * late < 7 * early, <<Info, "Trend">>)

Dropouts(db, a) ==
  LET told == Told(db, a, "silence")
      measured == SelectSeq(told, LAMBDA i : i.ed # 0)
      noisy == SelectSeq(measured, LAMBDA i : i.ed > -75)
      \* local time, up to the offset of the zone
      at(h) == SelectSeq(told, LAMBDA i : (i.ts \div 7200) % 12 = h)
  IN IF told = <<>> THEN {}
     ELSE {<<IF Len(told) >= 5 THEN Warning ELSE Notice, "Dropout pattern">>}
       \cup DropoutTrend([i \in DOMAIN told |-> told[i].silent])
       \cup When(Len(measured) >= 2 /\ (100 * Len(noisy)) \div Len(measured) >= 60,
                 <<Warning, "Interference">>)
       \cup When(Len(told) >= 4 /\ \E h \in 0..11 : 2 * Len(at(h)) >= Len(told),
                 <<Notice, "Timing">>)

SignalTrend(db, a) ==
  LET trend == Reverse(Messages(db, a, 300))
      third == Len(trend) \div 3
      rssi(from) == [i \in 1..third |-> trend[from + i].rssi]
  IN When(Len(trend) >= 10 /\ Average(rssi(0)) - Average(rssi(Len(trend) - third)) >= 8,
          <<Info, "Signal trend">>)

Probed(db, a) ==
  LET total == Len(ProbeHistory(db, a, Len(db.probes)))
      acks == Acks(ProbeHistory(db, a, Len(db.probes)))
  IN When(total > 0 /\ acks = 0, <<Warning, "Active test">>)
     \cup When(acks > 0 /\ acks < total, <<Info, "Active test">>)

Unroutable(db, a) ==
  IF ~Has(db.rfTotal, a) THEN {}
  ELSE {<<Rank(db.rfTotal[a].count, 10, 3, 1), "Route failures">>}

\* The API adds what Home Assistant logged about the device.
Complaints(db, a) ==
  {<<IF db.haLog[k].level = "ERROR" THEN Error ELSE Warning, "HA/zigpy log">> :
     k \in {x \in HALogsFor(db, {a}, 50) : db.haLog[x].level \in {"ERROR", "WARNING"}}}

DeviceAnalysis(db, a) ==
  LET found == When(Neighbours(db, a) = {0}, <<Warning, "Topology risk">>)
        \cup Rejoined(db, a) \cup Unroutable(db, a) \cup Dropouts(db, a)
        \cup SignalTrend(db, a) \cup Probed(db, a)
  IN (IF found = {} THEN {<<Info, "No pattern yet">>} ELSE found) \cup Complaints(db, a)
=============================================================================
