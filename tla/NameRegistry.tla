----------------------------- MODULE NameRegistry -----------------------------
(* What the host knows of the devices besides their frames: the tables of      *)
(* names/registry.go, what fills them (a ZHA backup, Home Assistant, a Hue     *)
(* bridge, the frames themselves), and the views of api/server.go that join    *)
(* them with the store.  A table is a function on the addresses it knows.      *)
EXTENDS DeviceStore

CONSTANTS
  OuiUnit,   \* extended addresses of one manufacturer prefix
  Vendors    \* manufacturer by prefix

NoNames == [name |-> <<>>, net |-> <<>>, byExt |-> <<>>, extOf |-> <<>>,
            info |-> <<>>, nbr |-> <<>>, area |-> <<>>]

Get(t, k, none) == IF Has(t, k) THEN t[k] ELSE none

\* The table with what entries say; of two with the same key one counts.
Enter(t, entries, Key(_), Value(_)) ==
  Overlay([k \in {Key(e) : e \in entries} |-> Value(CHOOSE e \in entries : Key(e) = k)], t)
\* Empty names and absent addresses are passed over.
SetName(reg, entries) == [reg EXCEPT !.name =
  Enter(@, {e \in entries : e.name # ""}, LAMBDA e : e.nwk, LAMBDA e : e.name)]
SetExt(reg, entries) == [reg EXCEPT !.byExt =
  Enter(@, {e \in entries : e.name # "" /\ e.ext # 0}, LAMBDA e : e.ext, LAMBDA e : e.name)]
SetArea(reg, entries) == [reg EXCEPT !.area =
  Enter(@, {e \in entries : e.area # "" /\ e.ext # 0}, LAMBDA e : e.ext, LAMBDA e : e.area)]
\* SetShortExt tells whether the mapping is new.
IsNewExt(reg, a, ext) == ext # 0 /\ Get(reg.extOf, a, 0) # ext
SetShortExt(reg, a, ext) ==
  IF IsNewExt(reg, a, ext) THEN [reg EXCEPT !.extOf = Put(@, a, ext)] ELSE reg

ExtOf(reg, a) == Get(reg.extOf, a, 0)
NameExt(reg, ext) == Get(reg.byExt, ext, "")
NameFull(reg, a) ==
  IF Get(reg.name, a, "") # "" THEN reg.name[a] ELSE NameExt(reg, ExtOf(reg, a))
Vendor(ext) == Get(Vendors, ext \div OuiUnit, "")
LabelExt(reg, ext) == IF NameExt(reg, ext) # "" THEN NameExt(reg, ext) ELSE Vendor(ext)
AreaOf(reg, a) == Get(reg.area, ExtOf(reg, a), "")

\* One entry of a ZHA backup: the tail of the IEEE address stands in for a name.
LoadZHABackup(reg, entries) ==
  [SetName(reg, {[nwk |-> e.nwk, name |-> e.tail] : e \in entries}) EXCEPT !.extOf =
     Enter(@, {e \in entries : e.ext # 0}, LAMBDA e : e.nwk, LAMBDA e : e.ext)]

\* Fetch, its first answer: the device list of Home Assistant.
LoadDevices(reg, devices) ==
  LET by(t, S, Value(_)) == Enter(t, S, LAMBDA d : d.nwk, Value)
  IN [SetExt(SetName(reg, devices), devices) EXCEPT
       !.net = by(@, {d \in devices : d.lqi # Absent}, LAMBDA d : d.lqi),
       !.info = by(@, devices, LAMBDA d : [type |-> d.type, available |-> d.available]),
       !.nbr = by(@, {d \in devices : d.nbrs # {}}, LAMBDA d : d.nbrs)]
\* Its second: rooms, by the IEEE address.
LoadAreas(reg, devices) == SetArea(reg, devices)
\* hueFetch: names of lights and sensors by their MAC.
LoadBridge(reg, items) == SetExt(reg, items)

-------------------------------------------------------------------------------
(* Learning from a frame (main.go, ingest).                                    *)

\* learnExt: a mapping that is new is stored with the device, if it has a row.
Learn(host, a, ext) ==
  IF ~IsNewExt(host.reg, a, ext) THEN host
  ELSE [reg |-> SetShortExt(host.reg, a, ext),
        db |-> SetDeviceName(SetDeviceExt(host.db, a, ext), a, NameExt(host.reg, ext))]
LearnAll(host, f) ==
  Learn(Learn(Learn(host, f.nwk.src, f.nwk.srcExt), f.nwk.dst, f.nwk.dstExt),
        f.announce[1], f.announce[2])

\* A network is labelled by the first manufacturer known of a frame's addresses.
ExtAddr(m) == IF m.src > Broadcast THEN m.src ELSE IF m.dst > Broadcast THEN m.dst ELSE 0
Label(f) ==
  LET known == SelectSeq(<<ExtAddr(f.mac), f.nwk.srcExt, f.nwk.dstExt>>, LAMBDA e : Vendor(e) # "")
  IN IF f.thread THEN "Thread" ELSE IF known = <<>> THEN "" ELSE Vendor(known[1])

-------------------------------------------------------------------------------
(* Views.                                                                      *)

\* The rows the API returns name a device by the low 16 bits of its address.
\* enrich: the coordinator is never foreign.
Enrich(db, reg, ours, a) ==
  LET r == db.devices[a]
      h == Hex(a)
  IN [foreign |-> ours # 0 /\ h # 0 /\ r.pan \notin {Absent, ours},
      name |-> IF r.name # "" THEN r.name ELSE NameFull(reg, h),
      mfg |-> Vendor(ExtOf(reg, h)), area |-> AreaOf(reg, h),
      info |-> Get(reg.info, h, [type |-> "", available |-> FALSE]),
      net |-> Get(reg.net, h, Absent)]

\* latestEdgePerSrc: a hop before a logical pair, then the latest.
LatestEdges(db) ==
  LET better(x, y) ==
        IF db.links[x].layer # db.links[y].layer THEN db.links[x].layer = "mac"
        ELSE db.links[x].last > db.links[y].last
      edges == DOMAIN db.links
  IN {p \in edges : \A q \in edges : Hex(p[1]) = Hex(q[1]) => ~better(q, p)}

\* A network on the channel of the paired bridge is the bridge's.
HueLabel == "Philips Hue"
NetworkLabel(db, ours, hueCh, pan) ==
  IF pan # ours /\ hueCh > 0 /\ db.pans[pan].ch = hueCh THEN HueLabel ELSE db.pans[pan].label
AirtimeLabel(db, ours, hueCh, now, pan) ==
  LET p == Airtime(db, 3600, now).pans[pan]
  IN IF pan # ours /\ hueCh > 0 /\ p.label = "" /\ Min(p.channels) = hueCh
     THEN HueLabel ELSE p.label
\* What a monitor listens to: the channel asked for, the bridge's, that of the
\* busiest network that is not ours; 0: nothing to monitor.
MonitorChannel(db, ours, hueCh, asked) ==
  LET foreign == SelectSeq(Networks(db), LAMBDA p : p # ours /\ db.pans[p].ch \in 11..26)
      ch == IF asked # 0 THEN asked ELSE IF hueCh > 0 THEN hueCh
            ELSE IF foreign = <<>> THEN 0 ELSE db.pans[foreign[1]].ch
  IN IF ch \in 11..26 THEN ch ELSE 0

\* traceroute: up the neighbour tables of ZHA if they reach the coordinator
\* within 32 hops, else a shortest path over the links the sniffer has seen.
\* A hop is a pair of addresses; a path goes by no address twice.
Parents(reg) == UNION {
  {<<n[1], d>> : n \in {x \in reg.nbr[d] : x[2] = "Child"}}
  \cup {<<d, n[1]>> : n \in {x \in reg.nbr[d] : x[2] = "Parent"}} : d \in DOMAIN reg.nbr}
Linked(db) == UNION {{<<Hex(q[1]), Hex(q[2])>>, <<Hex(q[2]), Hex(q[1])>>} : q \in DOMAIN db.links}
HopsOn(p, hops) == {h \in hops : h[1] = p[Len(p)] /\ h[2] \notin Range(p)}
PathsTo(from, to, hops, limit) ==
  LET extend(paths) == UNION {{Append(p, h[2]) : h \in HopsOn(p, hops)} : p \in paths}
      level[k \in 0..limit] ==
        IF k = 0 THEN {<<from>>}
        ELSE LET paths == level[k - 1]
             IN IF \E p \in paths : p[Len(p)] = to THEN paths ELSE extend(paths)
  IN {p \in level[limit] : p[Len(p)] = to}
\* The paths it may return: where a device has two parents, or two paths are
\* as short, the order of a Go map decides.
Traceroute(db, reg, target) ==
  LET up == IF reg.nbr = <<>> THEN {} ELSE PathsTo(target, 0, Parents(reg), 31)
      sure == up # {} /\ \A p \in up, i \in 1..31 :
                i < Len(p) => Cardinality({h \in Parents(reg) : h[1] = p[i]}) = 1
      seen == IF target = 0 THEN {} ELSE PathsTo(0, target, Linked(db), Cardinality(DOMAIN db.links))
  IN {Reverse(p) : p \in up} \cup IF sure THEN {} ELSE seen
===============================================================================
