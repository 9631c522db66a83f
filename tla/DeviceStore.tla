----------------------------- MODULE DeviceStore -----------------------------
(* The tables of store/db.go and every operation on them.  A database is a     *)
(* record of tables: a table with a primary key is a function on the keys it   *)
(* holds, a table with an automatic id is the sequence of its rows, oldest     *)
(* first.  All calls are serialized by d.mu and a single connection, so an     *)
(* operation is one operator from database to database (db -> db') and one     *)
(* step of whoever calls it.  Times are seconds, addresses and PANs integers   *)
(* with Absent for "not present" and for SQL's NULL.  Failures of SQLite itself  *)
(* are outside the model: the code ignores them.                               *)
EXTENDS Integers, SequencesExt, Listing

CONSTANTS
  PacketCap, EdCap, IncidentCap, ProbeCap, HALogCap, RflCap, \* newest rows kept
  BigEvery,   \* packets, ED samples, route failures, airtime: writes per prune
  MiscEvery,  \* incidents, probes, HA log: calls of Maintain per prune
  KeepBuckets,  \* minutes of airtime kept
  MinFrames     \* frames a device is heard before its silence counts

ASSUME StoreAssumption ==
  /\ {PacketCap, EdCap, IncidentCap, ProbeCap, HALogCap, RflCap} \subseteq Nat \ {0}
  /\ {BigEvery, MiscEvery, KeepBuckets, MinFrames} \subseteq Nat \ {0}

Absent == -1
Broadcast == 65535    \* 0xFFFF as an address and as a PAN
Hex(a) == a % 65536   \* an address as incidents print it: its low 16 bits

\* The write counters belong to the process, not to the file.
NoWrites == [pkt |-> 0, ed |-> 0, rfl |-> 0, pm |-> 0, misc |-> 0]

Empty == [devices |-> <<>>, links |-> <<>>, packets |-> <<>>, ed |-> <<>>,
  incidents |-> <<>>, rfTotal |-> <<>>, rfReason |-> <<>>, rfLog |-> <<>>,
  haLog |-> <<>>, pans |-> <<>>, minutes |-> <<>>, probes |-> <<>>, schedules |-> <<>>,
  writes |-> NoWrites]

Has(t, k) == k \in DOMAIN t
\* What s knows before what t knows (TLC's @@, which the prover does not expand).
Overlay(s, t) == [k \in DOMAIN s \cup DOMAIN t |-> IF Has(s, k) THEN s[k] ELSE t[k]]
Put(t, k, v) == Overlay([x \in {k} |-> v], t)
Upsert(t, k, new, Again(_)) == Put(t, k, IF Has(t, k) THEN Again(t[k]) ELSE new)
Delete(t, gone(_)) == [k \in {x \in DOMAIN t : ~gone(x)} |-> t[k]]
Newest(rows, n) == IF Len(rows) > n THEN SubSeq(rows, Len(rows) - n + 1, Len(rows)) ELSE rows
Top(S, n, Before(_, _)) == {x \in S : Cardinality({y \in S : Before(y, x)}) < n}
LastWhere(rows, P(_)) == LET m == SelectSeq(rows, P) IN m[Len(m)]

TopLogs(t) == Top(DOMAIN t, HALogCap, LAMBDA x, y : t[x].ts > t[y].ts)
Bound(db) == [db EXCEPT
  !.incidents = Newest(@, IncidentCap), !.probes = Newest(@, ProbeCap),
  !.haLog = LET keep == TopLogs(@) IN Delete(@, LAMBDA k : k \notin keep)]

\* Open: the tables of the last run, cut to their caps; the counters start at 0.
Open(db) == [Bound(db) EXCEPT !.ed = Newest(@, EdCap), !.writes = NoWrites]

\* Reset empties every table it names: the airtime rollup is not among them.
Reset(db) == [Empty EXCEPT !.minutes = db.minutes, !.writes = db.writes]

Count(w, every) == (w + 1) % every
Due(w, every) == Count(w, every) = 0

Maintain(db) ==
  LET m == [db EXCEPT !.writes.misc = Count(@, MiscEvery)]
  IN IF Due(db.writes.misc, MiscEvery) THEN Bound(m) ELSE m

UpsertDevice(db, a, f, pan) ==
  [db EXCEPT !.devices = Upsert(@, a,
    [first |-> f.ts, last |-> f.ts, count |-> 1, rssi |-> f.rssi, lqi |-> f.lqi,
     ch |-> f.ch, pan |-> pan, ext |-> 0, name |-> "", coord |-> a = 0],
    LAMBDA r : [r EXCEPT !.last = f.ts, !.count = @ + 1, !.rssi = f.rssi, !.lqi = f.lqi,
                         !.ch = f.ch, !.pan = IF @ = Absent THEN pan ELSE @])]

\* One row per pair: the layer of the last frame replaces that of the row.
UpsertLink(db, s, t, f, layer) ==
  [db EXCEPT !.links = Upsert(@, <<s, t>>,
    [count |-> 1, lqi |-> f.lqi, rssi |-> f.rssi, last |-> f.ts, layer |-> layer],
    LAMBDA r : [r EXCEPT !.count = @ + 1, !.lqi = f.lqi, !.rssi = f.rssi,
                         !.last = f.ts, !.layer = layer])]

SeenPan(mac) == IF mac.dpan \in {Absent, Broadcast} THEN
                  IF mac.span = Broadcast THEN Absent ELSE mac.span
                ELSE mac.dpan
\* A variant of Bin: levels off the scale are not clamped.
BinUnclamped(rssi) == (rssi + 110) \div 10
Bin(rssi) == LET b == (rssi + 110) \div 10 IN IF b < 0 THEN 0 ELSE IF b > 7 THEN 7 ELSE b
NoHist == [b \in 0..7 |-> 0]

\* The rows a frame adds whatever it carries: packet, PAN, minute of airtime.
Log(db, f) ==
  LET pan == SeenPan(f.mac)
      row == [ts |-> f.ts, src |-> f.mac.src, dst |-> f.mac.dst, rssi |-> f.rssi,
              lqi |-> f.lqi, decrypted |-> f.nwk.decrypted]
      key == <<f.ts \div 60, pan, f.ch>>
      one == [frames |-> 1, rssi |-> f.rssi, hist |-> [NoHist EXCEPT ![Bin(f.rssi)] = 1]]
      minutes == Upsert(db.minutes, key, one,
        LAMBDA r : [frames |-> r.frames + 1, rssi |-> r.rssi + f.rssi,
                    hist |-> [r.hist EXCEPT ![Bin(f.rssi)] = @ + 1]])
      packets == Append(db.packets, row)
  IN [db EXCEPT
       !.packets = IF Due(db.writes.pkt, BigEvery) THEN Newest(packets, PacketCap) ELSE packets,
       !.pans = IF pan = Absent THEN @ ELSE
         Upsert(@, pan, [count |-> 1, last |-> f.ts, ch |-> f.ch, label |-> ""],
           LAMBDA r : [r EXCEPT !.count = @ + 1, !.last = f.ts, !.ch = f.ch]),
       !.minutes = IF Due(db.writes.pm, BigEvery)
                   THEN Delete(minutes, LAMBDA k : k[1] < key[1] - KeepBuckets) ELSE minutes,
       !.writes.pkt = Count(@, BigEvery), !.writes.pm = Count(@, BigEvery)]

IsDevice(a) == a >= 0 /\ a < 65528     \* NWK: neither absent nor a broadcast address
Hop(db, m, f) ==
  LET d1 == IF m.src \in {Absent, Broadcast} THEN db ELSE UpsertDevice(db, m.src, f, SeenPan(m))
  IN IF m.src = Absent \/ m.dst \in {Absent, Broadcast} THEN d1
     ELSE UpsertLink(d1, m.src, m.dst, f, "mac")
Route(db, n, f) ==
  LET d1 == IF IsDevice(n.src) THEN UpsertDevice(db, n.src, f, SeenPan(f.mac)) ELSE db
  IN IF IsDevice(n.src) /\ IsDevice(n.dst) /\ n.src # n.dst
     THEN UpsertLink(d1, n.src, n.dst, f, "nwk") ELSE d1

IngestFrame(db, f) ==
  Route(Hop(Maintain(Log(db, f)), f.mac, f), f.nwk, f)

-------------------------------------------------------------------------------
(* The other writers.                                                          *)

\* An UPDATE: without a row it changes nothing.
SetDeviceExt(db, a, ext) ==
  IF ext = 0 \/ ~Has(db.devices, a) THEN db ELSE [db EXCEPT !.devices[a].ext = ext]
SetDeviceName(db, a, name) ==
  IF name = "" \/ ~Has(db.devices, a) \/ db.devices[a].name # "" THEN db
  ELSE [db EXCEPT !.devices[a].name = name]
DeviceExts(db) == [a \in {x \in DOMAIN db.devices : db.devices[x].ext # 0} |-> db.devices[a].ext]
LabelPan(db, pan, label) ==
  IF label = "" \/ ~Has(db.pans, pan) THEN db ELSE [db EXCEPT !.pans[pan].label = label]

IngestED(db, ts, ch, ed) ==
  LET rows == Append(db.ed, [ts |-> ts, ch |-> ch, ed |-> ed])
  IN [db EXCEPT !.ed = IF Due(db.writes.ed, BigEvery) THEN Newest(rows, EdCap) ELSE rows,
                !.writes.ed = Count(@, BigEvery)]

InsertIncident(db, inc) == [db EXCEPT !.incidents = Append(@, inc)]
IngestIncident(db, inc) == Maintain(InsertIncident(db, inc))

IngestRouteFailure(db, target, reporter, reason, ts) ==
  LET rows == Append(db.rfLog, [ts |-> ts, target |-> target, reporter |-> reporter, reason |-> reason])
  IN [db EXCEPT
       !.rfTotal = Upsert(@, target, [count |-> 1, reason |-> reason, last |-> ts],
         LAMBDA r : [count |-> r.count + 1, reason |-> reason, last |-> ts]),
       !.rfReason = Upsert(@, <<target, reason>>, [count |-> 1, last |-> ts],
         LAMBDA r : [count |-> r.count + 1, last |-> ts]),
       !.rfLog = IF Due(db.writes.rfl, BigEvery) THEN Newest(rows, RflCap) ELSE rows,
       !.writes.rfl = Count(@, BigEvery)]

\* The message of a log line is abstracted to the device it names (Absent: nobody).
IngestHALog(db, key, ts, level, about, n) ==
  Maintain([db EXCEPT !.haLog = Upsert(@, key,
    [ts |-> ts, first |-> ts, level |-> level, about |-> about, count |-> n],
    LAMBDA r : [r EXCEPT !.ts = ts, !.about = about, !.count = n])])

IngestProbe(db, ts, target, acked) ==
  Maintain([db EXCEPT !.probes = Append(@, [ts |-> ts, target |-> target, acked |-> acked])])

AddSchedule(db, id, target, interval) ==
  [db EXCEPT !.schedules = Append(@, [id |-> id, target |-> target, interval |-> interval,
                                      enabled |-> TRUE, last |-> 0, runs |-> 0, acks |-> 0])]
DeleteSchedule(db, id) == [db EXCEPT !.schedules = Where(@, LAMBDA s : s.id # id)]
UpdateSchedules(db, Of(_), Upd(_)) ==
  [db EXCEPT !.schedules = [i \in DOMAIN @ |-> IF Of(@[i]) THEN Upd(@[i]) ELSE @[i]]]
SetScheduleEnabled(db, id, on) ==
  UpdateSchedules(db, LAMBDA s : s.id = id, LAMBDA s : [s EXCEPT !.enabled = on])
MarkScheduleRun(db, ids, ts, acked) == UpdateSchedules(db, LAMBDA s : s.id \in ids, LAMBDA s :
  [s EXCEPT !.last = ts, !.runs = @ + 1, !.acks = @ + IF acked THEN 1 ELSE 0])

-------------------------------------------------------------------------------
(* The incident detector.  Whether a device is down is not stored: it is what  *)
(* its newest silence or recovered row says.                                   *)

EdNow(db) == LET chans == {r.ch : r \in Range(db.ed)}
             IN [c \in chans |-> LastWhere(db.ed, LAMBDA r : r.ch = c).ed]

RowsOf(db, a) == {i \in DOMAIN db.incidents : db.incidents[i].addr = a}
\* The silence and recovered rows of an address.
Words(db, a) == {i \in RowsOf(db, a) : db.incidents[i].reason \in {"silence", "recovered"}}

\* A variant of Down: a rejoin row is taken for the end of the dropout.
DownUntilRejoin(db) == {a \in {i.addr : i \in Range(db.incidents)} :
                          db.incidents[Max(RowsOf(db, a))].reason = "silence"}
Down(db) == {a \in {i.addr : i \in Range(db.incidents)} :
               Words(db, a) # {} /\ db.incidents[Max(Words(db, a))].reason = "silence"}

Threshold(s) == IF s <= 0 THEN 120 ELSE s
\* A variant of Deaf: the outage check is forgotten.
NeverDeaf(db, s, now) == FALSE
Deaf(db, s, now) == /\ DOMAIN db.devices # {}
                    /\ now - Max({db.devices[a].last : a \in DOMAIN db.devices}) >= Threshold(s)

Overdue(db, s, now, a) == now - db.devices[a].last >= Threshold(s)
\* A silence has the channel's energy with it, a recovery not.
Verdict(db, s, now, a) ==
  LET r == db.devices[a]
      ed == EdNow(db)
      over == Overdue(db, s, now, a)
  IN [ts |-> now, addr |-> Hex(a), reason |-> IF over THEN "silence" ELSE "recovered",
      silent |-> now - r.last, ch |-> r.ch,
      ed |-> IF over /\ Has(ed, r.ch) THEN ed[r.ch] ELSE 0]

\* Each device heard often enough whose state is not what was told of it last
\* gets a row; in which order the devices are read is left to SQLite.
DetectIncidents(db, s, now) ==
  LET candidates == {a \in DOMAIN db.devices : db.devices[a].count >= MinFrames
                                               /\ db.devices[a].last > 0}
      changed == SetToSeq({a \in candidates :
                             Overdue(db, s, now, a) # (Hex(a) \in Down(db))})
  IN IF Deaf(db, s, now) THEN db
     ELSE [db EXCEPT !.incidents =
             @ \o [i \in DOMAIN changed |-> Verdict(db, s, now, changed[i])]]

-------------------------------------------------------------------------------
(* What the API reads back.                                                    *)

Neighbours(db, a) == {p[2] : p \in {q \in DOMAIN db.links : q[1] = a}}
                     \cup {p[1] : p \in {q \in DOMAIN db.links : q[2] = a}}

Row(k, r) == Put(r, "key", k)
Devices(db) == {Row(a, db.devices[a]) : a \in DOMAIN db.devices}
Routing(db) == [nodes |-> Devices(db), edges |-> {Row(p, db.links[p]) : p \in DOMAIN db.links}]
Incidents(db, n) == Reverse(Newest(db.incidents, n))
Packets(db, n) == Reverse(Newest(db.packets, n))
Messages(db, a, n) ==
  Reverse(Newest(SelectSeq(db.packets, LAMBDA p : a \in {p.src, p.dst}), n))
Spectrum(db) == Reverse(Newest(db.ed, 2000))
ProbeHistory(db, a, n) ==
  Reverse(Newest(SelectSeq(db.probes, LAMBDA p : a < 0 \/ p.target = a), n))
Acks(ps) == Len(Where(ps, LAMBDA p : p.acked))
ProbeSummary(db) == [a \in {p.target : p \in Range(db.probes)} |->
  LET ps == Where(db.probes, LAMBDA p : p.target = a)
  IN [total |-> Len(ps), acks |-> Acks(ps), last |-> Max({p.ts : p \in Range(ps)})]]
HALogsFor(db, about, n) == LET t == db.haLog IN
  Top({k \in DOMAIN t : t[k].about \in about}, n, LAMBDA x, y : t[x].ts > t[y].ts)
Networks(db) == InOrder(DOMAIN db.pans, LAMBDA p, q :
  \/ db.pans[p].count > db.pans[q].count
  \/ db.pans[p].count = db.pans[q].count /\ p < q)

\* Frames and RSSI histogram per PAN, and frames per channel, over a window.
Airtime(db, window, now) ==
  LET keys == {k \in DOMAIN db.minutes : k[1] >= now \div 60 - window \div 60}
      Sum(K, F(_)) == MapThenSumSet(LAMBDA k : F(db.minutes[k]), K)
      of(pan) == {k \in keys : k[2] = pan}
  IN [pans |-> [pan \in {k[2] : k \in keys} |->
        [frames |-> Sum(of(pan), LAMBDA r : r.frames),
         hist |-> [b \in 0..7 |-> Sum(of(pan), LAMBDA r : r.hist[b])],
         channels |-> {k[3] : k \in of(pan)},
         label |-> IF Has(db.pans, pan) THEN db.pans[pan].label ELSE ""]],
      channels |-> [c \in {k[3] : k \in keys} \cap 11..26 |->
        Sum({k \in keys : k[3] = c}, LAMBDA r : r.frames)]]
=============================================================================
